--------------------------------- MODULE Loader ---------------------------------
(***************************************************************************)
(* From the bytes of an upload to the chunks that are embedded: extract_   *)
(* text with its loaders and their budget, and chunk_text, of              *)
(* app/services/knowledge/loader.py, as the ingestion runs them.           *)
(*                                                                         *)
(* A piece is a page of a PDF, a paragraph or table row of a DOCX, a       *)
(* record of a CSV or of a JSON file, a paragraph of a text file.  A JSON  *)
(* record is handed to the budget line by line, with the newline that ends *)
(* each: a blank of the piece, or its separator.  No piece holds a blank   *)
(* line.  A character is its position in the document, or 0 if it is blank. *)
(***************************************************************************)
EXTENDS Naturals, Sequences, FiniteSets, SequencesExt

CONSTANTS
    MaxPieces,      \* bound: pieces of a document
    MaxText,        \* bound: their characters
    MaxExtracted,   \* MAX_EXTRACTED_CHARS
    Size, Overlap   \* the defaults of chunk_text

ASSUME LoaderBounds ==
    /\ MaxPieces \in Nat /\ MaxText \in Nat /\ MaxExtracted \in Nat
    /\ Size \in Nat /\ Overlap \in Nat /\ Overlap < Size

VARIABLES
    kind,      \* the loader
    loading,   \* where it is: "idle", "extracting", "scanned", "chunking", "chunked" or "refused"
    pieces,    \* what it finds in the document
    done,      \* how many of them, later of the paragraphs, it has taken
    used,      \* _TextBudget._used
    text,      \* the paragraphs extracted
    chunks,    \* the chunks made of them
    current    \* the chunk that is being packed

loaderVars == <<kind, loading, pieces, done, used, text, chunks, current>>

\* The sum of the first n lengths, for every n.
Sums(lengths) ==
    LET sum[n \in 0..Len(lengths)] == IF n = 0 THEN 0 ELSE sum[n - 1] + lengths[n]
    IN  sum

Total(lengths) == Sums(lengths)[Len(lengths)]

\* What a loader may find: pieces of any lengths, with blanks anywhere.
Laid(lengths, ink) ==
    [k \in DOMAIN lengths |-> [j \in 1..lengths[k] |->
        LET position == Sums(lengths)[k - 1] + j
        IN  IF position \in ink THEN position ELSE 0]]

Documents ==
    UNION {{Laid(lengths, ink) : ink \in SUBSET (1..Total(lengths))} :
        lengths \in {s \in BoundedSeq(0..MaxText, MaxPieces) : Total(s) <= MaxText}}

LoaderInit ==
    /\ kind \in {"pdf", "docx", "csv", "json", "text"}
    /\ loading = "extracting"
    /\ pieces \in Documents
    /\ done = 0 /\ used = 0
    /\ text = <<>> /\ chunks = <<>> /\ current = <<>>

LoaderIdle ==
    /\ kind = "text" /\ loading = "idle" /\ pieces = <<>> /\ done = 0 /\ used = 0
    /\ text = <<>> /\ chunks = <<>> /\ current = <<>>

--------------------------------------------------------------------------------
(* extract_text                                                               *)

Blank(s) == \A j \in DOMAIN s : s[j] = 0

Strip(s) ==
    LET ink == {j \in DOMAIN s : s[j] # 0}
    IN  IF ink = {} THEN <<>>
        ELSE SubSeq(s, CHOOSE j \in ink : \A i \in ink : j <= i,
                       CHOOSE j \in ink : \A i \in ink : j >= i)

\* Loaders that look at the content of a piece, and drop blank ones.
Strips == kind \in {"docx", "csv", "ocr"}

\* Corrupt, encrypted, inflating beyond the limit, or binary.
LoadFails ==
    /\ loading = "extracting" /\ done = 0
    /\ loading' = "refused"
    /\ UNCHANGED <<kind, pieces, done, used, text, chunks, current>>

Kept == IF Strips THEN Strip(pieces[done + 1]) ELSE pieces[done + 1]

Dropped == Strips /\ kind # "ocr" /\ Kept = <<>>

\* _TextBudget.take: a plain text was limited when it was uploaded.
Take ==
    /\ loading = "extracting" /\ done < Len(pieces)
    /\ done' = done + 1
    /\ used' = IF Dropped \/ kind = "text" THEN used ELSE used + Len(Kept) + 1
    /\ IF used' > MaxExtracted
       THEN loading' = "refused" /\ UNCHANGED text
       ELSE /\ text' = IF Dropped \/ (kind = "ocr" /\ Kept = <<>>) THEN text ELSE Append(text, Kept)
            /\ UNCHANGED loading
    /\ UNCHANGED <<kind, pieces, chunks, current>>

NothingFound == \A k \in DOMAIN text : Blank(text[k])

Extracted ==
    /\ loading = "extracting" /\ done = Len(pieces)
    /\ loading' = IF ~NothingFound \/ kind = "text" THEN "chunking"
                  ELSE IF kind = "pdf" THEN (IF pieces = <<>> THEN "chunking" ELSE "scanned")
                  ELSE "refused"
    /\ done' = 0
    /\ UNCHANGED <<kind, pieces, used, text, chunks, current>>

\* A PDF of images: OCR is not installed, fails, or reads the same pages, with
\* a budget of its own.
Ocr ==
    /\ loading = "scanned"
    /\ \/ loading' = "refused" /\ UNCHANGED <<kind, pieces, used, text>>
       \/ /\ loading' = "extracting" /\ kind' = "ocr" /\ used' = 0 /\ text' = <<>>
          /\ pieces' \in {found \in Documents : Len(found) = Len(pieces)}
    /\ UNCHANGED <<done, chunks, current>>

--------------------------------------------------------------------------------
(* chunk_text                                                                 *)

Flush == IF Blank(current) THEN chunks ELSE Append(chunks, Strip(current))

\* Mutant of Windows: no overlap.
WindowsApart(p) ==
    [k \in {n \in 1..Len(p) : (n - 1) * Size < Len(p)} |->
        Strip(SubSeq(p, (k - 1) * Size + 1, IF k * Size < Len(p) THEN k * Size ELSE Len(p)))]

\* The hard split: every window is appended, also a blank one.
Windows(p) ==
    LET from(k) == (k - 1) * (Size - Overlap)
    IN  [k \in {n \in 1..Len(p) : from(n) < Len(p)} |->
            Strip(SubSeq(p, from(k) + 1, IF from(k) + Size < Len(p) THEN from(k) + Size ELSE Len(p)))]

Paragraph ==
    /\ loading = "chunking" /\ done < Len(text)
    /\ done' = done + 1
    /\ LET para == Strip(text[done + 1])
       IN  IF para = <<>> THEN UNCHANGED <<chunks, current>>
           ELSE IF Len(para) > Size
           THEN chunks' = Flush \o Windows(para) /\ current' = <<>>
           ELSE IF Len(current) + Len(para) + 2 > Size
           THEN chunks' = Flush /\ current' = para
           ELSE /\ current' = IF current = <<>> THEN para ELSE current \o <<0, 0>> \o para
                /\ UNCHANGED chunks
    /\ UNCHANGED <<kind, loading, pieces, used, text>>

LastFlush ==
    /\ loading = "chunking" /\ done = Len(text)
    /\ loading' = "chunked"
    /\ chunks' = Flush /\ current' = <<>>
    /\ UNCHANGED <<kind, pieces, done, used, text>>

LoaderNext == LoadFails \/ Take \/ Extracted \/ Ocr \/ Paragraph \/ LastFlush

--------------------------------------------------------------------------------
(* Properties                                                                 *)

Inked(s) == {s[j] : j \in DOMAIN s} \ {0}

Ink == UNION {Inked(pieces[k]) : k \in DOMAIN pieces}

\* The stretches of characters that no blank interrupts.
WordsOf(s) ==
    {SubSeq(s, v[1], v[2]) : v \in
        {w \in (DOMAIN s) \X (DOMAIN s) : w[1] <= w[2] /\ \A m \in w[1]..w[2] : s[m] # 0}}

Words == UNION {WordsOf(pieces[k]) : k \in DOMAIN pieces}

Within(word, chunk) ==
    \E i \in 0..Len(chunk) - Len(word) : SubSeq(chunk, i + 1, i + Len(word)) = word

\* What is embedded is the document: nothing of it is lost or exceeds a chunk,
\* the order is kept, words up to the overlap are never torn apart at the seam of
\* two chunks, and a document yields chunks exactly if it has text
\* (loader.py:252 "hard-split with `overlap` chars of continuity").  No loader
\* holds more than the limit and a separator per piece (loader.py:15).
ChunksFaithful ==
    /\ loading = "chunked" =>
          /\ UNION {Inked(chunks[c]) : c \in DOMAIN chunks} = Ink
          /\ (chunks = <<>>) = (Ink = {})
          /\ \A c \in DOMAIN chunks :
                /\ Len(chunks[c]) <= Size
                /\ \A i, j \in DOMAIN chunks[c] :
                      i < j /\ chunks[c][i] # 0 /\ chunks[c][j] # 0 => chunks[c][i] < chunks[c][j]
          /\ \A w \in Words : Len(w) <= Overlap + 1 => \E c \in DOMAIN chunks : Within(w, chunks[c])
    /\ kind # "text" /\ loading \in {"chunking", "chunked"} =>
          Total([k \in DOMAIN text |-> Len(text[k]) + 2]) <= MaxExtracted + Len(text)
================================================================================
