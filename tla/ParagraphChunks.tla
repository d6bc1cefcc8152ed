-------------------------- MODULE ParagraphChunks --------------------------
(***************************************************************************)
(* process_paragraphs and build_chunks: how one call turns a list of       *)
(* paragraphs into one flat collection of fixed-size token windows.        *)
(*                                                                         *)
(* A paragraph is the number of tokens its tokenization yields: Throws if  *)
(* the tokenizer throws, 0 for an empty paragraph or one without tokens.   *)
(* A token is its position in the paragraph, so a chunk is the interval    *)
(* from..to-1 of positions (0-based, as in the code) with `left` padding   *)
(* tokens before and `right` after it.  With text output the code keeps    *)
(* chunker->detokenize of exactly these tokens, padding included, in their *)
(* place.                                                                  *)
(***************************************************************************)
EXTENDS Integers, Sequences

CONSTANTS
    ParagraphLists,   \* the lists of paragraphs a call may be given
    Lengths,          \* tokens_length
    Ratios            \* overlap_ratio, as pairs <<numerator, denominator>>

Throws == -1
PoolingMode == {"Mean", "CLS", "LastToken"}

ASSUME ParagraphAssumption ==
    ParagraphLists \subseteq Seq(Nat \cup {Throws})
ASSUME LengthAssumption == Lengths \subseteq Nat \ {0}
\* Extract lets an overlap_ratio through only when 0 < ratio < 1.
ASSUME RatioAssumption ==
    Ratios \subseteq { r \in Nat \X Nat : 0 < r[1] /\ r[1] < r[2] }

VARIABLES
    \* the arguments of the call
    loaded,          \* the snapshot holds a chunker
    paragraphs, length, overlap_ratio, token_padding, pooling,
    \* the state of the loops
    pc,              \* "next" paragraph, "window" of it, or "done"
    par,             \* the current paragraph
    start,           \* where its next window begins
    collection       \* the collection under construction

args == <<loaded, paragraphs, length, overlap_ratio, token_padding, pooling>>
vars == <<args, pc, par, start, collection>>

\* (int)std::round(length * overlap_pct): the nearest integer, halves up.
overlap == (2 * length * overlap_ratio[1] + overlap_ratio[2])
              \div (2 * overlap_ratio[2])

\* Mutations: the overlap added instead of taken off; the clamp to a whole
\* length.
StrideSkips == length + overlap
StrideClampedToLength == IF length - overlap <= 0 THEN length ELSE length - overlap

\* Rounding can bring the overlap up to the length: the advance is at least 1.
stride == IF length - overlap <= 0 THEN 1 ELSE length - overlap

Smaller(x, y) == IF x < y THEN x ELSE y

n == paragraphs[par]

Init ==
    /\ loaded \in BOOLEAN
    /\ paragraphs \in ParagraphLists
    /\ length \in Lengths
    /\ overlap_ratio \in Ratios
    /\ token_padding \in BOOLEAN
    /\ pooling \in PoolingMode
    /\ pc = "next"
    /\ par = 1
    /\ start = 0
    /\ collection = <<>>

\* Nothing to cut: no chunker, no text, no tokens or a tokenizer error.  The
\* paragraph leaves no trace in the collection.
SkipParagraph ==
    /\ pc = "next"
    /\ par <= Len(paragraphs)
    /\ ~loaded \/ n <= 0
    /\ par' = par + 1
    /\ UNCHANGED <<args, pc, start, collection>>

BeginParagraph ==
    /\ pc = "next"
    /\ par <= Len(paragraphs)
    /\ loaded /\ n > 0
    /\ start' = 0
    /\ pc' = "window"
    /\ UNCHANGED <<args, par, collection>>

\* The chunk that begins at `start`.
WindowAt(s) ==
    LET end == Smaller(s + length, n)
        missing == length - (end - s)
        needs_pad == end >= n /\ token_padding /\ missing > 0
    IN  [paragraph |-> par,
         from |-> s,
         to |-> end,
         left |-> IF needs_pad /\ pooling = "LastToken" THEN missing ELSE 0,
         right |-> IF needs_pad /\ pooling # "LastToken" THEN missing ELSE 0]

\* Mutation: the loop misses a window that ends exactly at the end.
WindowOffByOne ==
    /\ pc = "window"
    /\ collection' = Append(collection, WindowAt(start))
    /\ IF start + length > n
       THEN par' = par + 1 /\ pc' = "next" /\ start' = 0
       ELSE start' = start + stride /\ UNCHANGED <<par, pc>>
    /\ UNCHANGED args

\* One turn of the loop in build_chunks.
Window ==
    /\ pc = "window"
    /\ collection' = Append(collection, WindowAt(start))
    /\ IF start + length >= n
       THEN /\ par' = par + 1
            /\ pc' = "next"
            /\ start' = 0
       ELSE /\ start' = start + stride
            /\ UNCHANGED <<par, pc>>
    /\ UNCHANGED args

Return ==
    /\ pc = "next"
    /\ par > Len(paragraphs)
    /\ pc' = "done"
    /\ UNCHANGED <<args, par, start, collection>>

Next == SkipParagraph \/ BeginParagraph \/ Window \/ Return

Spec == Init /\ [][Next]_vars

-----------------------------------------------------------------------------
\* Properties.

ChunkType == [paragraph : Nat, from : Nat, to : Nat, left : Nat, right : Nat]

\* Every variable has its type, and a window begins inside its paragraph.
TypeOK ==
    /\ loaded \in BOOLEAN
    /\ paragraphs \in ParagraphLists
    /\ length \in Lengths
    /\ overlap_ratio \in Ratios
    /\ token_padding \in BOOLEAN
    /\ pooling \in PoolingMode
    /\ pc \in {"next", "window", "done"}
    /\ par \in 1..Len(paragraphs) + 1
    /\ start \in Nat
    /\ collection \in Seq(ChunkType)
    /\ pc = "window" => par <= Len(paragraphs) /\ loaded /\ start < n

\* Token i of paragraph p is in one of the chunks.
Covered(chunks, p, i) == \E k \in 1..Len(chunks) :
    /\ chunks[k].paragraph = p
    /\ chunks[k].from <= i
    /\ i < chunks[k].to

\* Nothing is lost: every token of every paragraph that could be tokenized is
\* in a chunk of that paragraph once the loop has moved on, whatever overlap,
\* clamp and padding did, and a paragraph that failed takes no other with it.
NothingLost ==
    loaded => \A p \in 1..(par - 1) :
                 \A i \in 0..(paragraphs[p] - 1) : Covered(collection, p, i)

\* Chunks come in reading order, and each brings tokens that none before it
\* had: the loop stops with the window that reaches the end, so there is no
\* last chunk made of overlap (and padding) alone.
EachChunkAdvances ==
    \A j, k \in 1..Len(collection) :
        j < k => \/ collection[j].paragraph < collection[k].paragraph
                 \/ /\ collection[j].paragraph = collection[k].paragraph
                    /\ collection[j].from < collection[k].from
                    /\ collection[j].to < collection[k].to

\* What each window should bring: all but the overlap, which is less than the
\* whole window.
Advance == length - Smaller(overlap, length - 1)

\* Where the windows of paragraph p should begin, told without running the
\* loop: at the multiples of the advance that the window before does not reach
\* the end of the paragraph from.
Starts(p) ==
    { s \in 0..(paragraphs[p] - 1) :
         /\ \E k \in 0..s : s = k * Advance
         /\ s = 0 \/ (s - Advance) + length < paragraphs[p] }

\* The chunk of paragraph p from s on: `length` tokens, or what is left of the
\* paragraph, filled up to `length` if padding is asked for, on the left for
\* LastToken pooling and on the right for the others.
ChunkAt(p, s) ==
    LET beyond == (s + length) - paragraphs[p]
        filling == IF token_padding /\ beyond > 0 THEN beyond ELSE 0
    IN  [paragraph |-> p,
         from |-> s,
         to |-> IF beyond > 0 THEN paragraphs[p] ELSE s + length,
         left |-> IF pooling = "LastToken" THEN filling ELSE 0,
         right |-> IF pooling = "LastToken" THEN 0 ELSE filling]

\* The windows the loops have come to: all of the paragraphs before this one,
\* and of this one those before `start`.
SpecifiedChunks ==
    UNION { { ChunkAt(p, s) : s \in { x \in Starts(p) : p < par \/ x < start } } :
            p \in (1..par) \cap DOMAIN paragraphs }

\* The collection has exactly the chunks the sizes call for, in reading order:
\* so the overlap is the one asked for (or one token less than a whole chunk,
\* where rounding asked for all of it), a chunk is shorter than `length` or
\* padded only at the end of a paragraph, and neither a window is missing nor
\* one made of nothing but overlap added.  A paragraph that fails leaves no
\* trace, and a call without a chunker returns nothing.
ChunksAsSpecified ==
    /\ EachChunkAdvances
    /\ { collection[k] : k \in DOMAIN collection } = IF loaded THEN SpecifiedChunks ELSE {}
=============================================================================
