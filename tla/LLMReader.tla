------------------------------ MODULE LLMReader ------------------------------
(***************************************************************************)
(* The reader under every adapter stream (app/llm/http.py): stream_lines   *)
(* makes lines of the chunks the connection happens to deliver, iter_sse   *)
(* makes messages of the lines.                                            *)
(*                                                                         *)
(* The body is a sequence of characters: "x" stands for any other, "n" for *)
(* the newline, "r" for the carriage return, ":" for the colon.  The two   *)
(* names of a server-sent event are written "x" (data) and "e" (event).    *)
(***************************************************************************)
EXTENDS Naturals, Sequences, SequencesExt, Ranking

CONSTANTS
    Alphabet,       \* the characters of a body
    MaxBody,        \* bound: characters of a body
    MaxLineBytes,   \* MAX_LINE_BYTES
    MaxStreamBytes  \* MAX_STREAM_BYTES

ASSUME ReaderBounds ==
    MaxBody \in Nat /\ MaxLineBytes \in Nat /\ MaxStreamBytes \in Nat

VARIABLES
    body,     \* what the provider sends
    taken,    \* how much of it the reader has taken
    buffer,   \* characters of the line that is not complete
    lines,    \* the lines it has yielded
    reading   \* "open", "done" or "too_large"

readerVars == <<body, taken, buffer, lines, reading>>

--------------------------------------------------------------------------------
StripReturn(line) ==
    LET kept == {n \in 0..Len(line) : \A k \in n + 1..Len(line) : line[k] = "r"}
    IN  SubSeq(line, 1, CHOOSE n \in kept : \A m \in kept : n <= m)

Newlines(text) == {k \in DOMAIN text : text[k] = "n"}

\* The complete lines of a text, without their ends.
LinesOf(text) ==
    LET ends == InOrder(Newlines(text))
    IN  [k \in DOMAIN ends |->
            StripReturn(SubSeq(text, IF k = 1 THEN 1 ELSE ends[k - 1] + 1, ends[k] - 1))]

\* What follows the last newline.
RestOf(text) ==
    LET last == IF Newlines(text) = {} THEN 0
                ELSE InOrder(Newlines(text))[Cardinality(Newlines(text))]
    IN  SubSeq(text, last + 1, Len(text))

ReaderIdle ==
    body = <<>> /\ taken = 0 /\ buffer = <<>> /\ lines = <<>> /\ reading = "done"

ReaderInit ==
    /\ body \in BoundedSeq(Alphabet, MaxBody)
    /\ taken = 0 /\ buffer = <<>> /\ lines = <<>>
    /\ reading = "open"

\* Mutant of Chunk: the rest of the buffer is dropped with its last line.
ChunkDropsRest ==
    /\ reading = "open" /\ taken < Len(body)
    /\ \E n \in 1..Len(body) - taken :
          LET held == buffer \o SubSeq(body, taken + 1, taken + n)
          IN  /\ taken' = taken + n
              /\ lines' = lines \o LinesOf(held)
              /\ buffer' = IF LinesOf(held) = <<>> THEN held ELSE <<>>
    /\ UNCHANGED <<body, reading>>

\* The connection delivers a chunk of any length.
Chunk ==
    /\ reading = "open" /\ taken < Len(body)
    /\ \E n \in 1..Len(body) - taken :
          LET held == buffer \o SubSeq(body, taken + 1, taken + n)
          IN  /\ taken' = taken + n
              /\ IF taken' > MaxStreamBytes
                 THEN reading' = "too_large" /\ UNCHANGED <<buffer, lines>>
                 ELSE /\ lines' = lines \o LinesOf(held)
                      /\ buffer' = RestOf(held)
                      /\ reading' = IF Len(buffer') > MaxLineBytes THEN "too_large" ELSE "open"
    /\ UNCHANGED body

\* The connection is closed: what is left is a line.
CloseBody ==
    /\ reading = "open" /\ taken = Len(body)
    /\ lines' = IF buffer = <<>> THEN lines ELSE Append(lines, StripReturn(buffer))
    /\ buffer' = <<>>
    /\ reading' = "done"
    /\ UNCHANGED <<body, taken>>

ReaderNext == Chunk \/ CloseBody

--------------------------------------------------------------------------------
(* iter_sse, line by line                                                      *)

NameOfLine(line) ==
    LET colons == {k \in DOMAIN line : line[k] = ":"}
    IN  IF colons = {} THEN line
        ELSE SubSeq(line, 1, (CHOOSE k \in colons : \A j \in colons : k <= j) - 1)

SseStart == [name |-> "none", data |-> 0, messages |-> <<>>]

SseLine(state, line) ==
    IF line = <<>>
    THEN [SseStart EXCEPT !.messages =
             IF state.data > 0 THEN Append(state.messages, <<state.name, state.data>>)
             ELSE state.messages]
    ELSE IF line[1] = ":" THEN state
    ELSE IF NameOfLine(line) = <<"e">> THEN [state EXCEPT !.name = "event"]
    ELSE IF NameOfLine(line) = <<"x">> THEN [state EXCEPT !.data = @ + 1]
    ELSE state

\* What it holds after each of the lines.
SseStates(text) ==
    LET after[n \in 0..Len(text)] ==
            IF n = 0 THEN SseStart ELSE SseLine(after[n - 1], text[n])
    IN  after

\* The messages of a stream of lines: <<has an event name, data lines>>.
IterSse(text) ==
    LET last == SseStates(text)[Len(text)]
    IN  IF last.data > 0 THEN Append(last.messages, <<last.name, last.data>>) ELSE last.messages

--------------------------------------------------------------------------------
(* Properties                                                                 *)

\* The lines, and so the messages, depend on the body alone and not on the
\* chunks it arrived in; nothing is lost or given twice, and what the reader
\* holds back stays within the limits (http.py:188).
LinesOfBody ==
    LET text == SubSeq(body, 1, taken)
    IN  /\ reading = "open" => lines = LinesOf(text) /\ buffer = RestOf(text)
        /\ reading = "open" => Len(buffer) <= MaxLineBytes /\ taken <= MaxStreamBytes
        /\ reading = "done" =>
              IterSse(lines) = IterSse(LinesOf(Append(body, "n")))
================================================================================
