----------------------------- MODULE GatewayProofs -----------------------------
(***************************************************************************)
(* Proofs about LLMGateway: its budget, its usage rows, what a stream      *)
(* shows and that a refusal is final, for routes, retries, budgets and     *)
(* replies of any size.                                                    *)
(***************************************************************************)
EXTENDS LLMGateway, WellFoundedInduction, SequenceTheorems, TLAPS

--------------------------------------------------------------------------------
(* The classification of errors                                               *)

ErrorCodes == Codes \cup {"none"}

LEMMA Least == ASSUME NEW T, T \subseteq Nat, T # {} PROVE \E x \in T : \A y \in T : x <= y
<1> DEFINE R == {ss \in Nat \X Nat : ss[1] < ss[2]}
<1>1. IsWellFoundedOn(R, Nat)
  BY NatLessThanWellFounded DEF OpToRel
<1>2. PICK x \in T : \A y \in T : <<y, x>> \notin R
  <2> HIDE DEF R
  <2> QED
    BY <1>1, WFMin
<1>3. ASSUME NEW y \in T PROVE x <= y
  <2>1. x \in Nat /\ y \in Nat /\ <<y, x>> \in Nat \X Nat
    OBVIOUS
  <2>2. ~(y < x)
    BY <1>2, <2>1
  <2>3. QED
    BY <2>1, <2>2
<1>4. QED
  BY <1>3

\* The verdict of rules whose last one always applies is that of the first that
\* applies.
LEMMA FirstRule ==
    ASSUME NEW rules, NEW n \in Nat \ {0}, DOMAIN rules = 1..n, rules[n][1]
    PROVE  \E i \in 1..n : /\ rules[i][1] /\ FirstOf(rules) = rules[i][2]
                           /\ \A j \in 1..n : j < i => ~rules[j][1]
<1> DEFINE hit == {i \in DOMAIN rules : rules[i][1]}
<1>1. hit \subseteq Nat /\ n \in hit
  OBVIOUS
<1> DEFINE first == CHOOSE i \in hit : \A j \in hit : i <= j
<1>2. first \in hit /\ \A j \in hit : first <= j
  <2>1. \E i \in hit : \A j \in hit : i <= j
    <3> HIDE DEF hit
    <3> QED
      BY <1>1, Least
  <2>2. QED
    BY <2>1
<1>3. FirstOf(rules) = rules[first][2]
  BY DEF FirstOf
<1>4. \A j \in 1..n : j < first => ~rules[j][1]
  BY <1>1, <1>2
<1>5. QED
  BY <1>2, <1>3, <1>4

HttpRules(status, hints) ==
    <<  <<"context" \in hints, "context">>,
        <<status = 401 \/ (status \in {400, 403} /\ "auth" \in hints), "auth">>,
        <<status = 402 \/ (status \in {403, 429} /\ "quota" \in hints), "quota">>,
        <<status = 403, "permission">>,
        <<status = 404 \/ "model" \in hints, "not_found">>,
        <<status = 408, "timeout">>,
        <<status = 429, "rate_limited">>,
        <<status \in {400, 409, 413, 415, 422}, "invalid">>,
        <<status >= 500, "unavailable">>,
        <<TRUE, "llm_error">>  >>

LEMMA HttpCode ==
    ASSUME NEW status \in Nat, NEW hints, NEW after \in Nat
    PROVE  /\ FromHttp(status, hints, after).code \in Codes
           /\ FromHttp(status, hints, after).after \in Nat
           /\ status \in {400, 401, 402, 403, 404, 413, 422} \/ (status = 429 /\ "quota" \in hints)
                 => FromHttp(status, hints, after).code \notin Retryable
<1> DEFINE rules == HttpRules(status, hints)
<1>1. DOMAIN rules = 1..10 /\ rules[10][1]
  BY DEF HttpRules
<1>2. PICK i \in 1..10 : /\ rules[i][1] /\ FirstOf(rules) = rules[i][2]
                         /\ \A j \in 1..10 : j < i => ~rules[j][1]
  <2>1. 10 \in Nat \ {0}
    OBVIOUS
  <2> HIDE DEF rules
  <2> QED
    BY <1>1, <2>1, FirstRule, Zenon
<1>3. FromHttp(status, hints, after).code = FirstOf(rules)
  BY DEF FromHttp, HttpRules
<1>4. FirstOf(rules) \in Codes
  BY <1>2 DEF HttpRules, Codes, Retryable
<1>5. FromHttp(status, hints, after).after \in Nat
  BY HttpBounds DEF FromHttp, ParseRetryAfter
<1>6. ASSUME status \in {400, 401, 402, 403, 404, 413, 422} \/ (status = 429 /\ "quota" \in hints)
      PROVE  FirstOf(rules) \notin Retryable
  <2>1. /\ rules[3][1] <=> status = 402 \/ (status \in {403, 429} /\ "quota" \in hints)
        /\ rules[6][1] <=> status = 408
        /\ rules[7][1] <=> status = 429
        /\ rules[9][1] <=> status >= 500
    <3>1. rules[3][1] <=> status = 402 \/ (status \in {403, 429} /\ "quota" \in hints)
      BY DEF HttpRules
    <3>2. rules[6][1] <=> status = 408
      BY DEF HttpRules
    <3>3. rules[7][1] <=> status = 429
      BY DEF HttpRules
    <3>4. rules[9][1] <=> status >= 500
      BY DEF HttpRules
    <3>5. QED
      BY <3>1, <3>2, <3>3, <3>4
  <2>2. i \notin {6, 7, 9}
    <3> HIDE DEF rules
    <3> QED
      BY <1>2, <1>6, <2>1
  <2>3. QED
    BY <1>2, <2>2 DEF HttpRules, Retryable
<1>7. QED
  BY <1>3, <1>4, <1>5, <1>6

LEMMA StreamCode == ASSUME NEW hints PROVE FromStreamPayload(hints).code \in Codes
<1> DEFINE rules == <<
        <<"overloaded" \in hints, "unavailable">>,
        <<"rate" \in hints, "rate_limited">>,
        <<"context" \in hints, "context">>,
        <<"model" \in hints, "not_found">>,
        <<"auth" \in hints, "auth">>,
        <<TRUE, "llm_error">> >>
<1>1. DOMAIN rules = 1..6 /\ rules[6][1] /\ 6 \in Nat \ {0}
  OBVIOUS
<1>2. PICK i \in 1..6 : FirstOf(rules) = rules[i][2]
  <2> HIDE DEF rules
  <2> QED
    BY <1>1, FirstRule, Zenon
<1>3. FromStreamPayload(hints).code = FirstOf(rules)
  <2>1. FromStreamPayload(hints) = Error(FirstOf(rules))
    BY Zenon DEF FromStreamPayload
  <2> HIDE DEF rules
  <2>2. QED
    BY <2>1 DEF Error
<1>4. FirstOf(rules) \in Codes
  BY <1>2 DEF Codes, Retryable
<1>5. QED
  BY <1>3, <1>4

\* Whatever a provider answers is classified, and as long as it refuses for good
\* the class is not one that is retried.
LEMMA ReplyCode ==
    ASSUME NEW reply \in Replies
    PROVE  /\ RequestJson(reply).code \in ErrorCodes /\ OpenStream(reply).code \in ErrorCodes
           /\ RefusesForGood(reply) => /\ RequestJson(reply).code \notin Retryable
                                       /\ OpenStream(reply).code \notin Retryable
<1>1. /\ reply.sent \in {"ok", "timeout", "failed", "keyless"} /\ reply.status \in Nat
      /\ reply.after \in Nat
      /\ reply.body \in {"json", "text", "shape", "large", "timeout", "failed"}
  BY ReplyTypes
<1>2. Sending(reply).code \in ErrorCodes /\ ReadCapped(reply).code \in ErrorCodes
  BY <1>1 DEF Sending, ReadCapped, Error, NoError, ErrorCodes, Codes, Retryable
<1>3. RaiseForStatus(reply).code \in ErrorCodes
  BY <1>1, HttpCode DEF RaiseForStatus, Error, NoError, ErrorCodes, Codes, Retryable
<1>4. RequestJson(reply).code \in ErrorCodes /\ OpenStream(reply).code \in ErrorCodes
  BY <1>2, <1>3 DEF RequestJson, OpenStream, Error, NoError, ErrorCodes, Codes, Retryable
<1>5. ASSUME RefusesForGood(reply)
      PROVE  RequestJson(reply).code \notin Retryable /\ OpenStream(reply).code \notin Retryable
  <2>1. reply.sent = "ok" /\ reply.status >= 400
    BY <1>1, <1>5 DEF RefusesForGood
  <2>2. Sending(reply) = NoError
    BY <2>1 DEF Sending
  <2>3. RaiseForStatus(reply) = FromHttp(reply.status, ErrorSignals(reply), reply.after)
    BY <1>1, <2>1 DEF RaiseForStatus
  <2>4. \/ reply.status \in {400, 401, 402, 403, 404, 413, 422}
        \/ reply.status = 429 /\ "quota" \in ErrorSignals(reply)
    BY <1>5 DEF RefusesForGood, ErrorSignals
  <2>5. RaiseForStatus(reply).code \in Codes \ Retryable
    BY <1>1, <2>3, <2>4, HttpCode
  <2>6. RaiseForStatus(reply) # NoError
    BY <2>5 DEF NoError, Error, Codes, Retryable
  <2>7. RequestJson(reply) = RaiseForStatus(reply) /\ OpenStream(reply) = RaiseForStatus(reply)
    BY <2>2, <2>6 DEF RequestJson, OpenStream
  <2>8. QED
    BY <2>5, <2>7
<1>6. QED
  BY <1>4, <1>5

--------------------------------------------------------------------------------
(* Types, rows and frames                                                     *)

RowRecords == [index : Nat, status : {"failed", "succeeded"}, error : ErrorCodes, attempts : Nat]
Frames == {"start", "event", "done", "error", "output"} \X Nat \X Nat

Types ==
    /\ mode \in {"generate", "task", "stream"}
    /\ at \in {"entry", "connecting", "calling", "sleeping"} \cup Over
    /\ index \in 1..Route + 1 /\ attempts \in Nat /\ clock \in Nat
    /\ rows \in Seq(RowRecords) /\ frames \in Seq(Frames)
    /\ sent \in [Entries -> Nat] /\ refused \subseteq Entries /\ gone \subseteq Entries

LEMMA OneElement ==
    ASSUME NEW S, NEW x \in S
    PROVE  <<x>> \in Seq(S) /\ Len(<<x>>) = 1 /\ <<x>>[1] = x /\ <<x>> # <<>>
  OBVIOUS

\* A row is written behind the rows of the entries before, or it takes them along.
LEMMA RecordRows ==
    ASSUME Types, RowsInv, index \in Entries, Len(rows) = index - 1,
           NEW status \in {"failed", "succeeded"}, NEW e, e.code \in ErrorCodes, NEW n \in Nat,
           Record(status, e, n)
    PROVE  /\ rows' \in Seq(RowRecords)
           /\ index \in gone => rows' = <<>>
           /\ index \notin gone => /\ Len(rows') = index
                                   /\ \A i \in 1..index - 1 : rows'[i] = rows[i]
                                   /\ rows'[index] = Row(status, e, n)
<1>1. index \in Nat /\ Row(status, e, n) \in RowRecords
  BY DEF Types, Row, RowRecords
<1>2. CASE index \in gone
  BY <1>2 DEF Record
<1>3. CASE index \notin gone
  <2>1. rows' = Append(rows, Row(status, e, n))
    BY <1>3 DEF Record
  <2>2. rows \in Seq(RowRecords)
    BY DEF Types
  <2>3. QED
    BY <1>1, <1>3, <2>1, <2>2, AppendProperties
<1>4. QED
  BY <1>2, <1>3

\* An entry that failed leaves a failed row behind it, and the next one is fresh.
LEMMA FailStep ==
    ASSUME Types, CallInv, at \in {"connecting", "calling"}, frames = <<>>,
           NEW e, e.code \in ErrorCodes, NEW n \in {0, attempts}, Fail(e, n),
           UNCHANGED <<mode, clock, sent, gone, frames>>,
           refused' \in {refused, refused \cup {index}}
    PROVE  Types' /\ CallInv'
<1> USE GatewayBounds
<1>1. /\ index \in Entries /\ sent[index] = attempts /\ n \in Nat
      /\ attempts \in Nat /\ attempts <= MaxRetries + 1 /\ Len(rows) = index - 1
  BY DEF CallInv, CountInv, RowsInv, Types, Over, Entries
<1>2. /\ rows' \in Seq(RowRecords)
      /\ index \in gone => rows' = <<>>
      /\ index \notin gone => /\ Len(rows') = index
                              /\ \A i \in 1..index - 1 : rows'[i] = rows[i]
                              /\ rows'[index] = Row("failed", e, n)
  BY <1>1, RecordRows DEF Fail, CallInv
<1>3. attempts' = 0 /\ IF index \in gone THEN at' = "broken" /\ index' = index
                       ELSE at' = "entry" /\ index' = index + 1
  BY DEF Fail
<1>4. index \in 1..Route /\ index \in Nat
  BY <1>1 DEF Entries
<1>5. Types'
  <2>1. attempts' \in Nat /\ index' \in 1..Route + 1 /\ at' \in {"entry"} \cup Over
    BY <1>3, <1>4 DEF Over
  <2>2. rows' \in Seq(RowRecords) /\ refused' \subseteq Entries
    BY <1>1, <1>2 DEF Types
  <2>3. QED
    BY <2>1, <2>2 DEF Types
<1>6. CountInv'
  BY <1>1, <1>3, <1>4 DEF CallInv, CountInv, Types, Entries, Over
<1>7. RowsInv'
  <2>1. CASE index \in gone
    BY <1>2, <1>3, <2>1 DEF RowsInv, Over
  <2>2. CASE index \notin gone
    <3>1. at' = "entry" /\ index' = index + 1 /\ Len(rows') = index /\ DOMAIN rows' = 1..index
      BY <1>2, <1>3, <1>4, <2>2
    <3>2. ASSUME NEW i \in DOMAIN rows'
          PROVE  /\ rows'[i].index = i /\ rows'[i].attempts \in {0, sent'[i]}
                 /\ rows'[i].status = "failed"
      <4>1. CASE i = index
        BY <1>1, <1>2, <2>2, <4>1 DEF Row
      <4>2. CASE i # index
        <5>1. i \in 1..index - 1 /\ i \in DOMAIN rows
          BY <1>1, <1>4, <3>1, <4>2 DEF Types
        <5>2. rows[i].status = "failed"
          BY <5>1 DEF CallInv, RowsInv, Over
        <5>3. QED
          BY <1>2, <2>2, <5>1, <5>2 DEF CallInv, RowsInv
      <4>3. QED
        BY <4>1, <4>2
    <3>3. QED
      BY <1>4, <3>1, <3>2 DEF RowsInv, Over
  <2>3. QED
    BY <2>1, <2>2
<1>8. BudgetInv'
  BY <1>3 DEF BudgetInv
<1>9. RefusedInv'
  BY <1>3, <1>4 DEF CallInv, RefusedInv, Types, Over, Entries
<1>10. FramesInv'
  BY <1>3 DEF FramesInv, NoSilentSwitch
<1>11. QED
  BY <1>5, <1>6, <1>7, <1>8, <1>9, <1>10 DEF CallInv

\* The frames of a stream that waits are a start and events of its attempt: one
\* that fails or ends adds the last frame to them.
LEMMA LastFrame ==
    ASSUME Types, CallInv, at = "calling", NEW kind \in {"done", "error"},
           at' \in Over, frames' = frames \/ frames' = Append(frames, <<kind, index, attempts>>),
           UNCHANGED mode
    PROVE  frames' \in Seq(Frames) /\ FramesInv'
<1>1. index \in Nat /\ attempts \in Nat /\ frames \in Seq(Frames) /\ mode' = mode
  BY GatewayBounds DEF Types
<1>2. <<kind, index, attempts>> \in Frames
  BY <1>1 DEF Frames
<1>3. frames # <<>> => /\ mode = "stream" /\ frames[1] = <<"start", index, attempts>>
                       /\ \A i \in DOMAIN frames : i > 1 => frames[i] = <<"event", index, attempts>>
  BY DEF CallInv, FramesInv, Over
<1>4. CASE frames' = frames
  <2>1. ASSUME NEW i \in DOMAIN frames', mode' = "stream"
        PROVE  /\ frames'[i][1] = "event" => frames'[1] = <<"start", frames'[i][2], frames'[i][3]>>
               /\ frames'[i][1] = "start" => i = 1
               /\ frames'[i][1] \notin {"done", "error"}
    <3>1. i \in 1..Len(frames) /\ frames # <<>>
      BY <1>1, <1>4, <2>1
    <3>2. CASE i = 1
      BY <1>3, <1>4, <3>1, <3>2
    <3>3. CASE i > 1
      BY <1>3, <1>4, <3>1, <3>3
    <3>4. QED
      BY <3>1, <3>2, <3>3
  <2>2. QED
    BY <1>1, <1>4, <2>1 DEF FramesInv, NoSilentSwitch
<1>5. CASE frames' = Append(frames, <<kind, index, attempts>>)
  <2>1. /\ frames' \in Seq(Frames) /\ Len(frames') = Len(frames) + 1 /\ Len(frames) \in Nat
        /\ \A i \in 1..Len(frames) : frames'[i] = frames[i]
        /\ frames'[Len(frames')] = <<kind, index, attempts>>
    BY <1>1, <1>2, <1>5, AppendProperties, LenProperties
  <2>2. ASSUME NEW i \in DOMAIN frames'
        PROVE  /\ frames'[i][1] = "event" => frames'[1] = <<"start", frames'[i][2], frames'[i][3]>>
               /\ frames'[i][1] = "start" => i = 1
               /\ frames'[i][1] \in {"done", "error"} => i = Len(frames')
    <3>1. i \in 1..Len(frames')
      BY <2>1
    <3>2. CASE i = Len(frames')
      BY <2>1, <3>2
    <3>3. CASE i # Len(frames')
      <4>1. i \in 1..Len(frames) /\ i \in DOMAIN frames /\ frames # <<>> /\ 1 \in 1..Len(frames)
        BY <1>1, <2>1, <3>1, <3>3
      <4>2. frames'[1] = <<"start", index, attempts>> /\ frames'[i] = frames[i]
        BY <1>3, <2>1, <4>1
      <4>3. CASE i = 1
        BY <4>2, <4>3
      <4>4. CASE i > 1
        <5>1. frames'[i] = <<"event", index, attempts>>
          BY <1>3, <4>1, <4>2, <4>4
        <5>2. QED
          BY <4>2, <5>1
      <4>5. QED
        BY <4>1, <4>3, <4>4
    <3>4. QED
      BY <3>2, <3>3
  <2>3. QED
    BY <2>1, <2>2 DEF FramesInv, NoSilentSwitch
<1>6. QED
  BY <1>1, <1>4, <1>5

\* An attempt that failed is tried again, or is the last of its entry, or has
\* shown output and ends the call.
LEMMA AttemptFailsStep ==
    ASSUME Types, CallInv, at = "calling", NEW e, e.code \in ErrorCodes, AttemptFails(e),
           refused' \in {refused, refused \cup {index}},
           refused' = refused \/ e.code \notin Retryable,
           UNCHANGED <<mode, clock, sent, gone>>
    PROVE  Types' /\ CallInv'
<1> USE GatewayBounds
<1>0. /\ index \in Entries /\ sent[index] = attempts /\ index \in Nat
      /\ attempts \in Nat /\ attempts <= MaxRetries + 1 /\ Len(rows) = index - 1
  BY DEF CallInv, CountInv, RowsInv, Types, Over, Entries
<1>1. CASE /\ MayRetry(e) /\ at' = "sleeping"
           /\ \E delay \in BackoffDelays(attempts, e.after) :
                 MayWait(delay) /\ alarm' = IF Budgeted THEN clock + delay ELSE 0
           /\ UNCHANGED <<index, attempts, rows, error, frames>>
  <2>1. refused' = refused /\ attempts <= MaxRetries /\ ~Emitted
    BY <1>1 DEF MayRetry
  <2>2. frames = <<>>
    <3>1. CASE frames # <<>>
      <4>1. frames[1] = <<"start", index, attempts>> /\ 1 \in DOMAIN frames
        BY <3>1 DEF CallInv, FramesInv, Over, Types
      <4>2. QED
        BY <2>1, <4>1 DEF Emitted
    <3>2. QED
      BY <3>1
  <2>3. Types'
    BY <1>1, <2>1 DEF Types
  <2>4. CountInv' /\ RefusedInv'
    BY <1>0, <1>1, <2>1 DEF CallInv, CountInv, RefusedInv, Types, Over
  <2>5. RowsInv'
    BY <1>1 DEF CallInv, RowsInv, Over
  <2>6. BudgetInv'
    <3>1. Budgeted => alarm' < Total
      BY <1>1 DEF MayWait
    <3>2. QED
      BY <1>1, <3>1 DEF BudgetInv, Budgeted
  <2>7. FramesInv'
    BY <1>1, <2>2 DEF FramesInv, NoSilentSwitch
  <2>8. QED
    BY <2>3, <2>4, <2>5, <2>6, <2>7 DEF CallInv
<1>2. CASE /\ Emitted /\ Record("failed", e, attempts)
           /\ at' = IF index \in gone THEN "broken" ELSE "raised"
           /\ frames' = IF index \in gone THEN frames ELSE Append(frames, <<"error", index, attempts>>)
           /\ UNCHANGED <<index, attempts>>
  <2>1. /\ rows' \in Seq(RowRecords)
        /\ index \in gone => rows' = <<>>
        /\ index \notin gone => /\ Len(rows') = index
                                /\ \A i \in 1..index - 1 : rows'[i] = rows[i]
                                /\ rows'[index] = Row("failed", e, attempts)
    BY <1>0, <1>2, RecordRows DEF CallInv
  <2>2. at' \in {"broken", "raised"} /\ at' \in Over
    BY <1>2 DEF Over
  <2>3. frames' \in Seq(Frames) /\ FramesInv'
    BY <1>2, <2>2, LastFrame
  <2>4. Types'
    BY <1>0, <1>2, <2>1, <2>2, <2>3 DEF Types
  <2>5. CountInv' /\ RefusedInv' /\ BudgetInv'
    BY <1>0, <1>2, <2>2 DEF CallInv, CountInv, RefusedInv, BudgetInv, Types, Over
  <2>6. RowsInv'
    <3>1. CASE index \in gone
      BY <1>2, <2>1, <3>1 DEF RowsInv, Over
    <3>2. CASE index \notin gone
      <4>1. at' = "raised" /\ Len(rows') = index /\ DOMAIN rows' = 1..index
        BY <1>0, <1>2, <2>1, <3>2
      <4>2. Emitted'
        <5>1. PICK i \in DOMAIN frames : frames[i][1] = "start"
          BY <1>2 DEF Emitted
        <5>2. frames \in Seq(Frames) /\ <<"error", index, attempts>> \in Frames
          BY <1>0 DEF Types, Frames
        <5>3. i \in DOMAIN frames' /\ frames'[i] = frames[i]
          BY <1>2, <3>2, <5>1, <5>2, AppendProperties
        <5>4. QED
          BY <5>1, <5>3 DEF Emitted
      <4>3. ASSUME NEW i \in DOMAIN rows'
            PROVE  /\ rows'[i].index = i /\ rows'[i].attempts \in {0, sent'[i]}
                   /\ rows'[i].status = "failed"
        <5>1. CASE i = index
          BY <1>0, <2>1, <3>2, <5>1 DEF Row
        <5>2. CASE i # index
          <6>1. i \in 1..index - 1 /\ i \in DOMAIN rows
            BY <1>0, <4>1, <5>2 DEF Types
          <6>2. rows[i].status = "failed"
            BY <6>1 DEF CallInv, RowsInv, Over
          <6>3. QED
            BY <2>1, <3>2, <6>1, <6>2 DEF CallInv, RowsInv
        <5>3. QED
          BY <5>1, <5>2
      <4>4. QED
        BY <1>0, <4>1, <4>2, <4>3 DEF RowsInv, Over, Entries
    <3>3. QED
      BY <3>1, <3>2
  <2>7. QED
    BY <2>3, <2>4, <2>5, <2>6 DEF CallInv
<1>3. CASE ~Emitted /\ Fail(e, attempts) /\ UNCHANGED frames
  <2>1. frames = <<>>
    <3>1. CASE frames # <<>>
      <4>1. frames[1] = <<"start", index, attempts>> /\ 1 \in DOMAIN frames
        BY <3>1 DEF CallInv, FramesInv, Over, Types
      <4>2. QED
        BY <1>3, <4>1 DEF Emitted
    <3>2. QED
      BY <3>1
  <2>2. QED
    BY <1>3, <2>1, FailStep
<1>4. QED
  BY <1>1, <1>2, <1>3 DEF AttemptFails

--------------------------------------------------------------------------------
(* Every step keeps the invariant                                             *)

\* Between the attempts nothing has been shown.
LEMMA NothingShown ==
    ASSUME CallInv, at \in {"entry", "connecting", "sleeping"}
    PROVE  frames = <<>>
  BY DEF CallInv, FramesInv, Over

LEMMA NextEntryStep == ASSUME Types, CallInv, NextEntry PROVE Types' /\ CallInv'
<1> USE GatewayBounds
<1>0. /\ frames = <<>> /\ attempts = 0 /\ index \in 1..Route + 1 /\ index \in Nat
      /\ Len(rows) = index - 1 /\ rows' = rows /\ index' = index /\ attempts' = attempts
      /\ sent' = sent /\ refused' = refused /\ clock' = clock /\ mode' = mode
  BY NothingShown DEF NextEntry, CallInv, CountInv, RowsInv, Types, Over, timeVars, worldVars
<1>1. CASE index > Route \/ (Budgeted /\ clock >= Total)
  <2>1. /\ at' = "raised"
        /\ frames' = frames \/ frames' = Append(frames, <<"error", index, attempts>>)
    BY <1>1 DEF NextEntry
  <2>2. frames' = <<>> \/ frames' = << <<"error", index, attempts>> >>
    BY <1>0, <2>1
  <2>3. frames' \in Seq(Frames)
    <3>1. <<"error", index, attempts>> \in Frames
      BY <1>0 DEF Frames
    <3>2. << <<"error", index, attempts>> >> \in Seq(Frames) /\ <<>> \in Seq(Frames)
      BY <3>1, OneElement
    <3>3. QED
      BY <2>2, <3>2
  <2>4. Types'
    BY <1>0, <2>1, <2>3 DEF Types, NextEntry, worldVars, timeVars, Over
  <2>5. CountInv' /\ RefusedInv' /\ BudgetInv'
    BY <1>0, <2>1 DEF NextEntry, CallInv, CountInv, RefusedInv, BudgetInv, worldVars, Over
  <2>6. RowsInv'
    <3>1. clock' < Total /\ ~Emitted' => Len(rows') = Route
      <4>1. Budgeted /\ clock' < Total => index = Route + 1
        BY <1>0, <1>1 DEF Types
      <4>2. ~Budgeted => index = Route + 1
        BY <1>0, <1>1
      <4>3. QED
        BY <1>0, <4>1, <4>2
    <3>2. QED
      BY <1>0, <2>1, <3>1 DEF CallInv, RowsInv, Over
  <2>7. FramesInv'
    <3>1. ASSUME NEW i \in DOMAIN frames'
          PROVE  frames'[i][1] = "error" /\ i = Len(frames')
      <4>1. frames' = << <<"error", index, attempts>> >>
        BY <2>2, <3>1
      <4>2. i = 1 /\ Len(frames') = 1 /\ frames'[1] = <<"error", index, attempts>>
        BY <3>1, <4>1
      <4>3. QED
        BY <4>2
    <3>2. at' \in Over
      BY <2>1 DEF Over
    <3>3. QED
      BY <3>1, <3>2 DEF FramesInv, NoSilentSwitch, Over
  <2>8. QED
    BY <2>4, <2>5, <2>6, <2>7 DEF CallInv
<1>2. CASE ~(index > Route \/ (Budgeted /\ clock >= Total))
  <2>1. at' = "connecting" /\ frames' = frames /\ index \in Entries /\ index \in 1..Route
    BY <1>0, <1>2 DEF NextEntry, Entries
  <2>2. Types'
    BY <1>0, <2>1 DEF Types, NextEntry, worldVars, timeVars
  <2>3. CountInv' /\ RefusedInv' /\ BudgetInv'
    BY <1>0, <2>1 DEF NextEntry, CallInv, CountInv, RefusedInv, BudgetInv, Types, worldVars, Over
  <2>4. RowsInv' /\ FramesInv'
    BY <1>0, <2>1 DEF CallInv, RowsInv, FramesInv, NoSilentSwitch, Over
  <2>5. QED
    BY <2>2, <2>3, <2>4 DEF CallInv
<1>3. QED
  BY <1>1, <1>2

LEMMA UnpreparedStep == ASSUME Types, CallInv, Unprepared PROVE Types' /\ CallInv'
<1>1. PICK code \in {"unsupported", "credential"} : Fail(Error(code), 0)
  BY DEF Unprepared
<1>2. Error(code).code \in ErrorCodes
  BY DEF Error, ErrorCodes, Codes, Retryable
<1>3. frames = <<>> /\ at = "connecting"
  BY NothingShown DEF Unprepared
<1>4. UNCHANGED <<mode, clock, sent, gone, frames, refused>>
  BY DEF Unprepared, timeVars, worldVars
<1>5. QED
  BY <1>1, <1>2, <1>3, <1>4, FailStep

LEMMA AttemptStep == ASSUME Types, CallInv, Attempt PROVE Types' /\ CallInv'
<1> USE GatewayBounds
<1>0. /\ frames = <<>> /\ at = "connecting" /\ index \in Entries /\ index \in Nat
      /\ sent[index] = attempts /\ attempts \in Nat /\ attempts <= MaxRetries
      /\ Len(rows) = index - 1 /\ index \notin refused
  BY NothingShown DEF Attempt, CallInv, CountInv, RowsInv, RefusedInv, Types, Over
<1>1. CASE Budgeted /\ clock >= Total
  <2>1. Error("timeout").code \in ErrorCodes
    BY DEF Error, ErrorCodes, Codes, Retryable
  <2>2. Fail(Error("timeout"), 0) /\ UNCHANGED <<mode, clock, sent, gone, frames, refused>>
    BY <1>1 DEF Attempt
  <2>3. QED
    BY <1>0, <2>1, <2>2, FailStep
<1>2. CASE ~(Budgeted /\ clock >= Total)
  <2>1. /\ at' = "calling" /\ attempts' = attempts + 1
        /\ alarm' = IF Budgeted THEN Limit ELSE 0
        /\ sent' = [sent EXCEPT ![index] = @ + 1]
        /\ UNCHANGED <<index, rows, error, mode, clock, refused, gone, frames>>
    BY <1>2 DEF Attempt
  <2>2. sent' \in [Entries -> Nat] /\ sent'[index] = attempts'
        /\ \A e \in Entries : e # index => sent'[e] = sent[e]
    BY <1>0, <2>1 DEF Types
  <2>3. Types'
    BY <1>0, <2>1, <2>2 DEF Types
  <2>4. CountInv'
    BY <1>0, <2>1, <2>2 DEF CallInv, CountInv, Types, Over
  <2>5. RowsInv'
    <3>1. ASSUME NEW i \in DOMAIN rows
          PROVE  rows[i].index = i /\ rows[i].attempts \in {0, sent'[i]} /\ rows[i].status = "failed"
      <4>1. i \in 1..index - 1 /\ i \in Entries /\ i # index
        BY <1>0 DEF Types, Entries
      <4>2. QED
        BY <1>0, <2>2, <4>1 DEF CallInv, RowsInv
    <3>2. QED
      BY <1>0, <2>1, <3>1 DEF CallInv, RowsInv, Over
  <2>6. BudgetInv'
    <3>1. ASSUME Budgeted PROVE alarm' \in Nat /\ clock <= alarm' /\ alarm' <= Total
      BY <1>2, <2>1, <3>1 DEF Limit, Types
    <3>2. QED
      BY <2>1, <3>1 DEF BudgetInv, Budgeted
  <2>7. RefusedInv' /\ FramesInv'
    BY <1>0, <2>1 DEF CallInv, RefusedInv, FramesInv, NoSilentSwitch
  <2>8. QED
    BY <2>3, <2>4, <2>5, <2>6, <2>7 DEF CallInv
<1>3. QED
  BY <1>1, <1>2

LEMMA WakeStep == ASSUME Types, CallInv, Wake PROVE Types' /\ CallInv'
<1>1. frames = <<>> /\ at = "sleeping" /\ at' = "connecting"
      /\ UNCHANGED <<mode, index, attempts, rows, frames, clock, alarm, error, sent, refused, gone>>
  BY NothingShown DEF Wake, callVars, timeVars, worldVars
<1>2. Types'
  BY <1>1 DEF Types
<1>3. CountInv' /\ RowsInv' /\ BudgetInv' /\ RefusedInv'
  BY <1>1 DEF CallInv, CountInv, RowsInv, BudgetInv, RefusedInv, Over
<1>4. FramesInv'
  BY <1>1 DEF FramesInv, NoSilentSwitch
<1>5. QED
  BY <1>2, <1>3, <1>4 DEF CallInv

LEMMA CallTimesOutStep == ASSUME Types, CallInv, CallTimesOut PROVE Types' /\ CallInv'
<1>1. Error("timeout").code \in ErrorCodes
  BY DEF Error, ErrorCodes, Codes, Retryable
<1>2. /\ at = "calling" /\ AttemptFails(Error("timeout"))
      /\ UNCHANGED <<mode, clock, sent, gone>> /\ refused' = refused
  BY DEF CallTimesOut, worldVars
<1>3. QED
  BY <1>1, <1>2, AttemptFailsStep

\* The rows of a call that was answered, or whose row broke the transaction.
LEMMA AnsweredRows ==
    ASSUME Types, CallInv, at = "calling", Record("succeeded", NoError, attempts), Answered,
           UNCHANGED <<mode, index, attempts, sent>>
    PROVE  /\ rows' \in Seq(RowRecords) /\ at' \in {"broken", "answered"} /\ at' \in Over
           /\ CountInv' /\ RowsInv' /\ BudgetInv'
<1> USE GatewayBounds
<1>0. /\ index \in Entries /\ sent[index] = attempts /\ index \in Nat
      /\ attempts \in Nat /\ Len(rows) = index - 1
  BY DEF CallInv, CountInv, RowsInv, Types, Over, Entries
<1>1. NoError.code \in ErrorCodes
  BY DEF NoError, Error, ErrorCodes
<1>2. /\ rows' \in Seq(RowRecords)
      /\ index \in gone => rows' = <<>>
      /\ index \notin gone => /\ Len(rows') = index
                              /\ \A i \in 1..index - 1 : rows'[i] = rows[i]
                              /\ rows'[index] = Row("succeeded", NoError, attempts)
  BY <1>0, <1>1, RecordRows DEF CallInv
<1>3. at' = IF index \in gone THEN "broken" ELSE "answered"
  BY DEF Answered
<1>4. CountInv' /\ BudgetInv'
  BY <1>0, <1>3 DEF CallInv, CountInv, BudgetInv, Types
<1>5. RowsInv'
  <2>1. CASE index \in gone
    BY <1>2, <1>3, <2>1 DEF RowsInv, Over
  <2>2. CASE index \notin gone
    <3>1. at' = "answered" /\ Len(rows') = index /\ DOMAIN rows' = 1..index
      BY <1>0, <1>2, <1>3, <2>2
    <3>2. ASSUME NEW i \in DOMAIN rows'
          PROVE  /\ rows'[i].index = i /\ rows'[i].attempts \in {0, sent'[i]}
                 /\ rows'[i].status = IF i = index THEN "succeeded" ELSE "failed"
      <4>1. CASE i = index
        BY <1>0, <1>2, <2>2, <4>1 DEF Row
      <4>2. CASE i # index
        <5>1. i \in 1..index - 1 /\ i \in DOMAIN rows
          BY <1>0, <3>1, <4>2 DEF Types
        <5>2. rows[i].status = "failed"
          BY <5>1 DEF CallInv, RowsInv, Over
        <5>3. QED
          BY <1>2, <2>2, <4>2, <5>1, <5>2 DEF CallInv, RowsInv
      <4>3. QED
        BY <4>1, <4>2
    <3>3. QED
      BY <1>0, <3>1, <3>2 DEF RowsInv, Over, Entries
  <2>3. QED
    BY <2>1, <2>2
<1>6. QED
  BY <1>2, <1>3, <1>4, <1>5 DEF Over

LEMMA RespondStep == ASSUME Types, CallInv, Respond PROVE Types' /\ CallInv'
<1> USE GatewayBounds
<1>0. at = "calling" /\ Budgeted /\ UNCHANGED <<mode, clock, sent, gone>> /\ index \in Entries
      /\ index \in Nat /\ attempts \in Nat
  BY DEF Respond, CallInv, CountInv, Types
<1>1. PICK reply \in Replies :
          /\ refused' = IF RefusesForGood(reply) THEN refused \cup {index} ELSE refused
          /\ IF RequestJson(reply) = NoError
             THEN /\ Record("succeeded", NoError, attempts)
                  /\ Answered
                  /\ \E finish \in {"stop", "length", "filter"}, text \in BOOLEAN :
                        frames' = IF mode = "task" /\ index \notin gone
                                  THEN <<TaskAnswer(finish, text)>> ELSE frames
                  /\ UNCHANGED <<index, attempts, error, alarm>>
             ELSE AttemptFails(RequestJson(reply))
  BY DEF Respond
<1>2. CASE RequestJson(reply) = NoError
  <2>1. /\ Record("succeeded", NoError, attempts) /\ Answered
        /\ UNCHANGED <<index, attempts>>
    BY <1>1, <1>2
  <2>2. /\ rows' \in Seq(RowRecords) /\ at' \in {"broken", "answered"} /\ at' \in Over
        /\ CountInv' /\ RowsInv' /\ BudgetInv'
    BY <1>0, <2>1, AnsweredRows
  <2>3. frames' \in Seq(Frames)
    <3>1. ASSUME NEW finish, NEW text PROVE <<TaskAnswer(finish, text)>> \in Seq(Frames)
      BY <1>0 DEF TaskAnswer, Frames
    <3>2. QED
      BY <1>1, <1>2, <3>1 DEF Types
  <2>4. Types'
    BY <1>0, <1>1, <2>1, <2>2, <2>3 DEF Types
  <2>5. RefusedInv'
    BY <1>0, <1>1, <2>1, <2>2 DEF CallInv, RefusedInv
  <2>6. FramesInv'
    BY <1>0, <2>2 DEF FramesInv, NoSilentSwitch, Budgeted
  <2>7. QED
    BY <2>2, <2>4, <2>5, <2>6 DEF CallInv
<1>3. CASE RequestJson(reply) # NoError
  <2>1. AttemptFails(RequestJson(reply)) /\ RequestJson(reply).code \in ErrorCodes
    BY <1>1, <1>3, ReplyCode
  <2>2. refused' = refused \/ RequestJson(reply).code \notin Retryable
    BY <1>1, ReplyCode
  <2>3. refused' \in {refused, refused \cup {index}}
    BY <1>1
  <2>4. QED
    BY <1>0, <2>1, <2>2, <2>3, AttemptFailsStep
<1>4. QED
  BY <1>2, <1>3

LEMMA StreamEventStep == ASSUME Types, CallInv, StreamEvent PROVE Types' /\ CallInv'
<1> USE GatewayBounds
<1> DEFINE begun == IF Emitted THEN frames ELSE Append(frames, <<"start", index, attempts>>)
<1>0. /\ at = "calling" /\ mode = "stream" /\ index \in Nat /\ attempts \in Nat
      /\ frames \in Seq(Frames) /\ frames' = begun \o << <<"event", index, attempts>> >>
      /\ UNCHANGED <<mode, index, attempts, rows, at, clock, alarm, error, sent, refused, gone>>
  BY DEF StreamEvent, Types, timeVars, worldVars
<1>1. frames # <<>> => /\ frames[1] = <<"start", index, attempts>>
                       /\ \A i \in DOMAIN frames : i > 1 => frames[i] = <<"event", index, attempts>>
  BY <1>0 DEF CallInv, FramesInv, Over
<1>2. <<"start", index, attempts>> \in Frames /\ <<"event", index, attempts>> \in Frames
  BY <1>0 DEF Frames
<1>3. /\ begun \in Seq(Frames) /\ begun # <<>> /\ begun[1] = <<"start", index, attempts>>
      /\ \A i \in 1..Len(begun) : i > 1 => begun[i] = <<"event", index, attempts>>
  <2>1. CASE Emitted
    <3>1. frames # <<>>
      BY <2>1 DEF Emitted
    <3>2. DOMAIN frames = 1..Len(frames)
      BY <1>0
    <3>3. QED
      BY <1>0, <1>1, <2>1, <3>1, <3>2
  <2>2. CASE ~Emitted
    <3>1. frames = <<>>
      <4>1. CASE frames # <<>>
        <5>1. 1 \in DOMAIN frames /\ frames[1][1] = "start"
          BY <1>0, <1>1, <4>1
        <5>2. QED
          BY <2>2, <5>1 DEF Emitted
      <4>2. QED
        BY <4>1
    <3>2. begun = << <<"start", index, attempts>> >>
      BY <2>2, <3>1
    <3>3. /\ begun \in Seq(Frames) /\ Len(begun) = 1 /\ begun # <<>>
          /\ begun[1] = <<"start", index, attempts>>
      <4> HIDE DEF begun
      <4> DEFINE x == <<"start", index, attempts>>
      <4>1. x \in Frames /\ begun = <<x>>
        BY <1>2, <3>2
      <4> HIDE DEF x
      <4>2. begun \in Seq(Frames) /\ Len(begun) = 1 /\ begun # <<>> /\ begun[1] = x
        BY <4>1, OneElement
      <4>3. QED
        BY <4>2 DEF x
    <3>4. Len(begun) = 1 => \A i \in 1..Len(begun) : ~(i > 1)
      <4> HIDE DEF begun
      <4> QED
        OBVIOUS
    <3>5. QED
      BY <3>3, <3>4
  <2>3. QED
    BY <2>1, <2>2
<1>4. /\ frames' \in Seq(Frames) /\ frames' # <<>> /\ frames'[1] = <<"start", index, attempts>>
      /\ DOMAIN frames' = 1..Len(frames')
      /\ \A i \in DOMAIN frames' : i > 1 => frames'[i] = <<"event", index, attempts>>
  <2> HIDE DEF begun
  <2>1. frames' = Append(begun, <<"event", index, attempts>>)
    BY <1>0, <1>3
  <2>2. /\ frames' \in Seq(Frames) /\ Len(frames') = Len(begun) + 1 /\ Len(begun) \in Nat \ {0}
        /\ \A i \in 1..Len(begun) : frames'[i] = begun[i]
        /\ frames'[Len(frames')] = <<"event", index, attempts>>
    BY <1>2, <1>3, <2>1, AppendProperties, LenProperties
  <2>3. frames' # <<>> /\ DOMAIN frames' = 1..Len(frames') /\ 1 \in 1..Len(begun)
    BY <2>2
  <2>4. frames'[1] = <<"start", index, attempts>>
    BY <1>3, <2>2, <2>3
  <2>5. ASSUME NEW i \in DOMAIN frames', i > 1
        PROVE  frames'[i] = <<"event", index, attempts>>
    <3>1. i = Len(frames') \/ i \in 1..Len(begun)
      BY <2>2, <2>3, <2>5
    <3>2. QED
      BY <1>3, <2>2, <2>5, <3>1
  <2>6. QED
    BY <2>2, <2>3, <2>4, <2>5
<1>5. Types'
  BY <1>0, <1>4 DEF Types
<1>6. CountInv' /\ BudgetInv' /\ RefusedInv'
  BY <1>0 DEF CallInv, CountInv, BudgetInv, RefusedInv, Budgeted, Over
<1>7. RowsInv'
  BY <1>0 DEF CallInv, RowsInv, Over
<1>8. FramesInv'
  <2>1. ASSUME NEW i \in DOMAIN frames'
        PROVE  /\ frames'[i][1] = "event" => frames'[1] = <<"start", frames'[i][2], frames'[i][3]>>
               /\ frames'[i][1] = "start" => i = 1
               /\ frames'[i][1] \notin {"done", "error"}
    <3>1. i \in 1..Len(frames')
      BY <1>4
    <3>2. CASE i = 1
      BY <1>4, <3>2
    <3>3. CASE i > 1
      <4>1. frames'[i] = <<"event", index, attempts>>
        BY <1>4, <3>3
      <4>2. QED
        BY <1>4, <3>3, <4>1
    <3>4. QED
      BY <3>1, <3>2, <3>3
  <2>2. QED
    BY <1>0, <1>4, <2>1 DEF FramesInv, NoSilentSwitch
<1>9. QED
  BY <1>5, <1>6, <1>7, <1>8 DEF CallInv

LEMMA StreamEndsStep == ASSUME Types, CallInv, StreamEnds PROVE Types' /\ CallInv'
<1>1. /\ at = "calling" /\ Record("succeeded", NoError, attempts) /\ Answered
      /\ frames' = frames \/ frames' = Append(frames, <<"done", index, attempts>>)
      /\ UNCHANGED <<mode, index, attempts, clock, sent, refused, gone>>
  BY DEF StreamEnds, timeVars, worldVars
<1>2. /\ rows' \in Seq(RowRecords) /\ at' \in {"broken", "answered"} /\ at' \in Over
      /\ CountInv' /\ RowsInv' /\ BudgetInv'
  BY <1>1, AnsweredRows
<1>3. frames' \in Seq(Frames) /\ FramesInv'
  BY <1>1, <1>2, LastFrame
<1>4. Types'
  BY <1>1, <1>2, <1>3 DEF Types
<1>5. RefusedInv'
  BY <1>1, <1>2 DEF CallInv, RefusedInv
<1>6. QED
  BY <1>2, <1>3, <1>4, <1>5 DEF CallInv

LEMMA StreamFailsStep == ASSUME Types, CallInv, StreamFails PROVE Types' /\ CallInv'
<1>0. at = "calling" /\ UNCHANGED <<mode, clock, sent, gone>>
  BY DEF StreamFails
<1>1. CASE /\ \E hints \in {{"overloaded"}, {}} : AttemptFails(FromStreamPayload(hints))
           /\ UNCHANGED refused
  <2>1. PICK hints \in {{"overloaded"}, {}} : AttemptFails(FromStreamPayload(hints))
    BY <1>1
  <2>2. FromStreamPayload(hints).code \in ErrorCodes
    BY StreamCode DEF ErrorCodes
  <2>3. refused' = refused
    BY <1>1
  <2>4. QED
    BY <1>0, <2>1, <2>2, <2>3, AttemptFailsStep
<1>2. CASE \E reply \in Replies :
              /\ OpenStream(reply) # NoError
              /\ refused' = IF RefusesForGood(reply) THEN refused \cup {index} ELSE refused
              /\ AttemptFails(OpenStream(reply))
  <2>1. PICK reply \in Replies :
              /\ OpenStream(reply) # NoError
              /\ refused' = IF RefusesForGood(reply) THEN refused \cup {index} ELSE refused
              /\ AttemptFails(OpenStream(reply))
    BY <1>2
  <2>2. OpenStream(reply).code \in ErrorCodes
        /\ (refused' = refused \/ OpenStream(reply).code \notin Retryable)
    BY <2>1, ReplyCode
  <2>3. refused' \in {refused, refused \cup {index}}
    BY <2>1
  <2>4. QED
    BY <1>0, <2>1, <2>2, <2>3, AttemptFailsStep
<1>3. QED
  BY <1>1, <1>2 DEF StreamFails

LEMMA DisconnectStep == ASSUME Types, CallInv, Disconnect PROVE Types' /\ CallInv'
<1>1. /\ mode = "stream" /\ at \notin Over /\ at' = "disconnected" /\ at' \in Over
      /\ UNCHANGED <<mode, index, attempts, rows, frames, clock, alarm, error, sent, refused, gone>>
  BY DEF Disconnect, callVars, timeVars, worldVars, Over
<1>2. Types'
  BY <1>1 DEF Types
<1>3. CountInv' /\ BudgetInv' /\ RefusedInv'
  BY <1>1 DEF CallInv, CountInv, BudgetInv, RefusedInv, Types
<1>4. RowsInv'
  BY <1>1 DEF CallInv, RowsInv, Over
<1>5. FramesInv'
  BY <1>1 DEF CallInv, FramesInv, NoSilentSwitch
<1>6. QED
  BY <1>2, <1>3, <1>4, <1>5 DEF CallInv

LEMMA DeleteAccountStep == ASSUME Types, CallInv, DeleteAccount PROVE Types' /\ CallInv'
<1>1. /\ gone' \subseteq Entries
      /\ UNCHANGED <<mode, index, attempts, rows, frames, at, clock, alarm, error, sent, refused>>
  BY DEF DeleteAccount, Types, callVars, timeVars
<1>2. Types'
  BY <1>1 DEF Types
<1>3. CountInv' /\ BudgetInv' /\ RefusedInv' /\ RowsInv' /\ FramesInv'
  BY <1>1 DEF CallInv, CountInv, BudgetInv, RefusedInv, RowsInv, FramesInv, NoSilentSwitch, Budgeted, Emitted
<1>4. QED
  BY <1>2, <1>3 DEF CallInv

LEMMA TickStep == ASSUME Types, CallInv, Tick PROVE Types' /\ CallInv'
<1>1. /\ clock \in Nat /\ clock' = clock + 1 /\ at \notin Over /\ (at = "calling" => clock < alarm)
      /\ UNCHANGED <<mode, index, attempts, rows, frames, at, alarm, error, sent, refused, gone>>
  BY DEF Tick, Types, callVars, worldVars, Over
<1>2. Types'
  BY <1>1 DEF Types
<1>3. BudgetInv'
  BY <1>1, GatewayBounds DEF CallInv, BudgetInv, Budgeted
<1>4. CountInv' /\ RefusedInv' /\ RowsInv'
  BY <1>1 DEF CallInv, CountInv, RefusedInv, RowsInv, Over
<1>5. FramesInv'
  BY <1>1 DEF CallInv, FramesInv, NoSilentSwitch
<1>6. QED
  BY <1>2, <1>3, <1>4, <1>5 DEF CallInv

LEMMA StutterStep == ASSUME Types, CallInv, UNCHANGED vars PROVE Types' /\ CallInv'
<1>1. UNCHANGED <<mode, index, attempts, rows, frames, at, clock, alarm, error, sent, refused, gone>>
  BY DEF vars, callVars, timeVars, worldVars
<1>2. QED
  BY <1>1 DEF Types, CallInv, CountInv, BudgetInv, RefusedInv, RowsInv, FramesInv, NoSilentSwitch,
              Budgeted, Emitted

LEMMA InitHolds == Init => Types /\ CallInv
<1> USE GatewayBounds
<1>1. SUFFICES ASSUME Init PROVE Types /\ CallInv
  OBVIOUS
<1>2. Types
  BY <1>1 DEF Init, Types, Entries
<1>3. CountInv /\ BudgetInv /\ RefusedInv /\ RowsInv /\ FramesInv
  BY <1>1 DEF Init, CountInv, BudgetInv, RefusedInv, RowsInv, FramesInv, NoSilentSwitch, Entries, Over
<1>4. QED
  BY <1>2, <1>3 DEF CallInv

--------------------------------------------------------------------------------
(* Theorems                                                                   *)

\* What holds between any two steps of a call: attempts counted where the
\* provider received them, a row for every entry behind the call, the alarm
\* within the budget, refusals behind the call, frames of one attempt only.
THEOREM CallInvariant == Spec => [](Types /\ CallInv)
<1>1. Init => Types /\ CallInv
  BY InitHolds
<1>2. Types /\ CallInv /\ [Next]_vars => (Types /\ CallInv)'
  <2>1. SUFFICES ASSUME Types, CallInv, [Next]_vars PROVE Types' /\ CallInv'
    OBVIOUS
  <2>2. CASE Loop
    BY <2>1, <2>2, NextEntryStep, UnpreparedStep, AttemptStep, WakeStep, CallTimesOutStep DEF Loop
  <2>3. CASE Respond \/ StreamEvent \/ StreamOver
    BY <2>1, <2>3, RespondStep, StreamEventStep, StreamEndsStep, StreamFailsStep DEF StreamOver
  <2>4. CASE Disconnect \/ DeleteAccount \/ Tick
    BY <2>1, <2>4, DisconnectStep, DeleteAccountStep, TickStep
  <2>5. CASE UNCHANGED vars
    BY <2>1, <2>5, StutterStep
  <2>6. QED
    BY <2>1, <2>2, <2>3, <2>4, <2>5 DEF Next
<1>3. QED
  BY <1>1, <1>2, PTL DEF Spec

\* No provider is waited for, and no sleep begun, beyond the budget of the call
\* (gateway.py:81), for every deadline, total, route and header.
THEOREM BudgetKept == Spec => []WithinBudget
<1>1. Types /\ CallInv => WithinBudget
  BY GatewayBounds DEF Types, CallInv, BudgetInv, WithinBudget
<1>2. QED
  BY <1>1, CallInvariant, PTL

\* The usage rows tell what happened (_record of gateway.py), whichever accounts
\* are deleted meanwhile.
THEOREM RowsTrue == Spec => []RowsTell
<1>1. ASSUME Types, CallInv PROVE RowsTell
  <2>1. ASSUME NEW i \in DOMAIN rows
        PROVE  /\ rows[i].index = i
               /\ rows[i].attempts \in {0, sent[i]} /\ sent[i] <= MaxRetries + 1
               /\ rows[i].status = "succeeded" => i = Len(rows) /\ at = "answered"
    <3>1. i \in Entries
      BY <1>1, <2>1, GatewayBounds DEF Types, CallInv, RowsInv, Entries
    <3>2. QED
      BY <1>1, <2>1, <3>1 DEF CallInv, RowsInv, CountInv
  <2>2. at = "answered" => rows # <<>> /\ rows[Len(rows)].status = "succeeded"
    <3>1. at = "answered" => Len(rows) = index /\ index \in Nat \ {0} /\ Len(rows) \in DOMAIN rows
      BY <1>1, GatewayBounds DEF Types, CallInv, RowsInv
    <3>2. QED
      BY <1>1, <3>1 DEF CallInv, RowsInv
  <2>3. QED
    BY <1>1, <2>1, <2>2 DEF RowsTell, CallInv, RowsInv
<1>2. QED
  BY <1>1, CallInvariant, PTL

\* Output of two attempts is never mixed, and the last frame of a stream is the
\* last (gateway.py:374).
THEOREM StreamFaithful == Spec => []NoSilentSwitch
<1>1. Types /\ CallInv => NoSilentSwitch
  BY DEF CallInv, FramesInv
<1>2. QED
  BY <1>1, CallInvariant, PTL

\* A provider that refused for good is not asked again (errors.py:208).
THEOREM RefusalsFinal == Spec => RefusedOnce
<1>1. ASSUME Types, CallInv, [Next]_vars PROVE [\A e \in refused : sent'[e] = sent[e]]_vars
  <2>1. CASE Attempt
    <3>1. at = "connecting" /\ (sent' = sent \/ sent' = [sent EXCEPT ![index] = @ + 1])
      BY <2>1 DEF Attempt
    <3>2. index \notin refused /\ refused \subseteq Entries /\ sent \in [Entries -> Nat]
      BY <1>1, <3>1 DEF Types, CallInv, RefusedInv, Over
    <3>3. QED
      BY <3>1, <3>2
  <2>2. CASE NextEntry \/ Unprepared \/ Wake \/ CallTimesOut
    BY <2>2 DEF NextEntry, Unprepared, Wake, CallTimesOut, worldVars
  <2>3. CASE Respond \/ StreamEvent \/ StreamOver
    BY <2>3 DEF Respond, StreamEvent, StreamOver, StreamEnds, StreamFails, worldVars
  <2>4. CASE Disconnect \/ DeleteAccount \/ Tick
    BY <2>4 DEF Disconnect, DeleteAccount, Tick, worldVars
  <2>5. CASE UNCHANGED vars
    BY <2>5
  <2>6. QED
    BY <1>1, <2>1, <2>2, <2>3, <2>4, <2>5 DEF Next, Loop
<1>2. QED
  BY <1>1, CallInvariant, PTL DEF Spec, RefusedOnce
================================================================================
