----------------------------- MODULE Bucketing -----------------------------
(***************************************************************************)
(* LlamaChunker::chunk_batch and chunk: texts are tokenized and packed     *)
(* into buckets of exactly target_len tokens, with an overlap, a padding   *)
(* reserve and a minimum fill; chunk() on its own is a batch of one text.  *)
(*                                                                         *)
(* A text is a record: its number of tokens, which of them contain         *)
(* sentence-ending punctuation, and which happen to have the id of the     *)
(* padding token.  A token is its position in its text, 1-based; Pad       *)
(* stands for an inserted padding token.  min_fill_ratio is in percent.    *)
(***************************************************************************)
EXTENDS Integers, Sequences, FiniteSets

CONSTANTS
    Texts,         \* the texts, [size, sentence_ends, pad_ids]
    BatchLists,    \* the lists of texts chunk_batch may be given
    ParamSets,     \* [target_len, pad_reserve, overlap_tokens, min_fill_ratio]
    n_ctx_train    \* the context length of the model

ASSUME TextAssumption ==
    \A t \in Texts : /\ t.size \in Nat
                     /\ t.sentence_ends \subseteq 1..t.size
                     /\ t.pad_ids \subseteq 1..t.size
ASSUME BatchAssumption == BatchLists \subseteq Seq(Texts)
ASSUME ParamAssumption ==
    ParamSets \subseteq [target_len : Nat, pad_reserve : Nat,
                         overlap_tokens : Nat, min_fill_ratio : 0..100]

Pad == 0

VARIABLES
    texts, params,   \* the arguments of the call
    pc,              \* where the call is
    index,           \* chunk_batch: the current text
    seq_offset,      \* chunk_batch: chunks of the texts before it
    all,             \* chunk_batch: the chunks so far
    combined,        \* chunk_batch: the statistics so far
    cursor, prev_end, seq, bucket, fill_cursor, result   \* locals of chunk

args == <<texts, params>>
batch == <<index, seq_offset, all, combined>>
packing == <<cursor, prev_end, seq, bucket, fill_cursor, result>>
vars == <<args, pc, batch, packing>>

text == texts[index]
N == text.size
capacity == params.target_len - params.pad_reserve

\* validate_params; the differences are unsigned, but each is taken only
\* after the check that keeps it positive.
ValidParams ==
    /\ params.target_len > 0
    /\ params.target_len <= n_ctx_train
    /\ params.pad_reserve < params.target_len
    /\ params.overlap_tokens < params.target_len - params.pad_reserve

Smaller(x, y) == IF x < y THEN x ELSE y

\* The tokens from+1 .. to of the text, as a sequence.
Slice(from, to) == [i \in 1..(to - from) |-> from + i]

\* The counters of the statistics; the average fill ratio is left out.
NoStats == [total_tokens |-> 0, num_chunks |-> 0, pad_tokens_total |-> 0]

Init ==
    /\ texts \in BatchLists
    /\ params \in ParamSets
    /\ pc = "texts"
    /\ index = 1
    /\ seq_offset = 0
    /\ all = <<>>
    /\ combined = NoStats
    /\ cursor = 0
    /\ prev_end = 0
    /\ seq = 0
    /\ bucket = <<>>
    /\ fill_cursor = 0
    /\ result = <<>>

\* chunk() is entered for the next text and validates its parameters: an
\* exception leaves chunk_batch too.
RejectParams ==
    /\ pc = "texts"
    /\ index <= Len(texts)
    /\ ~ValidParams
    /\ pc' = "thrown"
    /\ UNCHANGED <<args, batch, packing>>

\* A text without tokens: an early return, which leaves its statistics as
\* chunk_batch initialised them.
EmptyText ==
    /\ pc = "texts"
    /\ index <= Len(texts)
    /\ ValidParams
    /\ N = 0
    /\ index' = index + 1
    /\ UNCHANGED <<args, pc, seq_offset, all, combined, packing>>

BeginText ==
    /\ pc = "texts"
    /\ index <= Len(texts)
    /\ ValidParams
    /\ N > 0
    /\ pc' = "open"
    /\ UNCHANGED <<args, batch, packing>>

\* a. A new bucket begins with the tail of the previous one.
OpenBucket ==
    /\ pc = "open"
    /\ cursor < N
    /\ bucket' = IF seq > 0 /\ params.overlap_tokens > 0
                            /\ prev_end > params.overlap_tokens
                 THEN Slice(prev_end - params.overlap_tokens, prev_end)
                 ELSE <<>>
    /\ fill_cursor' = cursor
    /\ pc' = "fill"
    /\ UNCHANGED <<args, batch, cursor, prev_end, seq, result>>

\* Mutation: the search may run past the end of the text.
SentenceEndUnbounded(from, limit) ==
    LET ends == {i \in text.sentence_ends : from < i /\ i <= limit}
    IN  IF ends = {} THEN limit ELSE CHOOSE i \in ends : \A j \in ends : i <= j

\* find_sentence_end(start, limit): one past the first sentence-ending token
\* in that range (0-based positions), or the end of the range.
find_sentence_end(from, limit) ==
    LET ends == {i \in text.sentence_ends : from < i /\ i <= Smaller(limit, N)}
    IN  IF ends = {} THEN Smaller(limit, N)
        ELSE CHOOSE i \in ends : \A j \in ends : i <= j

\* b. One turn of the fill loop: a run up to a sentence end, or what fits.
MayFill == fill_cursor < N /\ Len(bucket) < capacity

FillRun ==
    /\ pc = "fill"
    /\ MayFill
    /\ LET room == capacity - Len(bucket)
           found == find_sentence_end(fill_cursor, fill_cursor + room)
           bound == IF found = fill_cursor
                    THEN Smaller(N, fill_cursor + room) ELSE found
       IN  /\ bucket' = bucket \o Slice(fill_cursor, bound)
           /\ fill_cursor' = bound
    /\ UNCHANGED <<args, pc, batch, cursor, prev_end, seq, result>>

MostlyPad(content) == 100 * content < params.min_fill_ratio * params.target_len

\* Mutation: one padding token short.
PadOneShort(tokens) ==
    IF Len(tokens) >= params.target_len
    THEN SubSeq(tokens, 1, params.target_len)
    ELSE [i \in 1..(params.target_len - Len(tokens) - 1) |-> Pad] \o tokens

\* pad_to_target: trim, or PREPEND padding so that content ends the bucket.
pad_to_target(tokens) ==
    IF Len(tokens) >= params.target_len
    THEN SubSeq(tokens, 1, params.target_len)
    ELSE [i \in 1..(params.target_len - Len(tokens)) |-> Pad] \o tokens

\* The chunk's text is recovered from the first `content` entries of the
\* bucket after it was padded.  An inserted padding token renders as nothing
\* (the code takes over whatever piece its vocabulary gives it).
RecoveredText(padded, content) ==
    LET pieces[k \in 0..content] ==
            IF k = 0 THEN <<>>
            ELSE IF padded[k] = Pad THEN pieces[k - 1]
            ELSE Append(pieces[k - 1], padded[k])
    IN  pieces[content]

\* Mutation: the first bucket may be discarded, too.
DiscardFirstToo ==
    /\ pc = "fill"
    /\ ~MayFill
    /\ MostlyPad(Len(bucket)) /\ params.min_fill_ratio > 0
    /\ prev_end' = fill_cursor
    /\ cursor' = fill_cursor
    /\ pc' = "stats"
    /\ UNCHANGED <<args, batch, seq, bucket, fill_cursor, result>>

\* c. An underfull bucket ends the loop, unless it is the first.
DiscardBucket ==
    /\ pc = "fill"
    /\ ~MayFill
    /\ MostlyPad(Len(bucket)) /\ params.min_fill_ratio > 0 /\ seq > 0
    /\ prev_end' = fill_cursor
    /\ cursor' = fill_cursor
    /\ pc' = "stats"
    /\ UNCHANGED <<args, batch, seq, bucket, fill_cursor, result>>

\* d., e. Otherwise it is padded and becomes a chunk.
EmitBucket ==
    /\ pc = "fill"
    /\ ~MayFill
    /\ ~(MostlyPad(Len(bucket)) /\ params.min_fill_ratio > 0 /\ seq > 0)
    /\ LET padded == pad_to_target(bucket)
       IN  result' = Append(result, [tokens |-> padded,
                                     text |-> RecoveredText(padded, Len(bucket)),
                                     seq_id |-> seq,
                                     is_pad |-> MostlyPad(Len(bucket))])
    /\ seq' = seq + 1
    /\ prev_end' = fill_cursor
    /\ cursor' = fill_cursor
    /\ pc' = "open"
    /\ UNCHANGED <<args, batch, bucket, fill_cursor>>

\* The loop ran out of tokens.
Exhausted ==
    /\ pc = "open"
    /\ cursor >= N
    /\ pc' = "stats"
    /\ UNCHANGED <<args, batch, packing>>

\* What the statistics count as content: tokens whose id is not the padding
\* token's, inserted or not.
CountsAsContent(t) == t # Pad /\ t \notin text.pad_ids

ContentOf(chunk) == Cardinality({i \in DOMAIN chunk.tokens : CountsAsContent(chunk.tokens[i])})

\* The sum of a sequence of numbers.
Total(numbers) ==
    LET sum[k \in 0..Len(numbers)] == IF k = 0 THEN 0 ELSE sum[k - 1] + numbers[k]
    IN  sum[Len(numbers)]

\* What the statistics count as padding in the chunks of a text.
PadsOf(chunks) ==
    Len(chunks) * params.target_len
        - Total([k \in 1..Len(chunks) |-> ContentOf(chunks[k])])

\* Mutation: the ids of the second text begin at 0 again.
NotShifted(chunks) == chunks

\* The sequence ids of a text follow those of the texts before it.
Shifted(chunks) ==
    [k \in 1..Len(chunks) |-> [chunks[k] EXCEPT !.seq_id = @ + seq_offset]]

\* chunk() fills in the statistics and returns; chunk_batch shifts the
\* sequence ids, adds the statistics up and appends the chunks.  The locals
\* of chunk() are gone; the next text starts with new ones.
FinishText ==
    /\ pc = "stats"
    /\ combined' = [combined EXCEPT
           !.total_tokens = @ + N,
           !.num_chunks = @ + Len(result),
           !.pad_tokens_total = @ + PadsOf(result)]
    /\ all' = all \o Shifted(result)
    /\ seq_offset' = seq_offset + Len(result)
    /\ index' = index + 1
    /\ cursor' = 0 /\ prev_end' = 0 /\ seq' = 0
    /\ bucket' = <<>> /\ fill_cursor' = 0 /\ result' = <<>>
    /\ pc' = "texts"
    /\ UNCHANGED args

Return ==
    /\ pc = "texts"
    /\ index > Len(texts)
    /\ pc' = "returned"
    /\ UNCHANGED <<args, batch, packing>>

Next == \/ RejectParams \/ EmptyText \/ BeginText
        \/ OpenBucket \/ FillRun \/ DiscardBucket \/ EmitBucket \/ Exhausted
        \/ FinishText \/ Return

Spec == Init /\ [][Next]_vars

-----------------------------------------------------------------------------
\* Properties.

\* The padding tokens a chunk was given.
Inserted(chunk) == Cardinality({ i \in DOMAIN chunk.tokens : chunk.tokens[i] = Pad })

ChunkOK(chunk) ==
    /\ DOMAIN chunk = {"tokens", "text", "seq_id", "is_pad"}
    /\ chunk.tokens \in Seq(Nat)
    /\ chunk.text \in Seq(Nat)
    /\ chunk.seq_id \in Nat
    /\ chunk.is_pad \in BOOLEAN

\* Every variable has its type; the fill cursor never leaves the text.
TypeOK ==
    /\ texts \in BatchLists
    /\ params \in ParamSets
    /\ pc \in {"texts", "open", "fill", "stats", "thrown", "returned"}
    /\ index \in 1..Len(texts) + 1
    /\ seq_offset \in Nat
    /\ \A k \in 1..Len(all) : ChunkOK(all[k])
    /\ \A k \in 1..Len(result) : ChunkOK(result[k])
    /\ combined \in [DOMAIN NoStats -> Nat]
    /\ {cursor, prev_end, seq, fill_cursor} \subseteq Nat
    /\ bucket \in Seq(Nat)
    /\ pc \in {"open", "fill", "stats"} => fill_cursor <= N /\ cursor <= N

\* Where the k-th bucket of a text of N tokens should be cut, whatever the
\* sentence ends: full, the overlap before it repeated, or to the end.
Fresh == capacity - params.overlap_tokens
BucketAt(k) == Slice((k - 1) * Fresh, Smaller(N, (k - 1) * Fresh + capacity))

\* The bucket is there if the one before it left something.
IsNeeded(k) == k = 1 \/ (k - 2) * Fresh + capacity < N
TooShort(k) == params.min_fill_ratio > 0 /\ MostlyPad(Len(BucketAt(k)))

\* The chunks of a text are these buckets, filled up to exactly target_len from
\* the left: a later one repeats exactly overlap_tokens tokens and goes on with
\* the next, so up to prev_end no token is missing and none is out of order;
\* they end with the text or before the first bucket, other than the very
\* first, that is too short.
BucketsAsSpecified ==
    /\ \A k \in DOMAIN result :
          LET missing == params.target_len - Len(BucketAt(k))
          IN  result[k].tokens = [i \in 1..params.target_len |->
                                     IF i <= missing THEN Pad ELSE BucketAt(k)[i - missing]]
    /\ pc = "stats" =>
          DOMAIN result = { k \in 1..N : /\ IsNeeded(k)
                                         /\ \A j \in 2..k : ~TooShort(j) }

\* What is packed: the token the last chunk of the current text ends with.
Packed == IF result = <<>> THEN 0
          ELSE LET last == result[Len(result)].tokens IN last[Len(last)]

\* Tokens of a text are left out only by the minimum fill, and then (as long as a full
\* bucket can reach it) less than one bucket of new ones, at the end.
LossBounded ==
    pc = "stats" =>
        /\ params.min_fill_ratio = 0 => Packed = N
        /\ 100 * capacity >= params.min_fill_ratio * params.target_len
              => N - Packed < capacity - params.overlap_tokens \/ Packed = N
        /\ Len(result) > 0

\* A batch is consistent with the chunks it returns, whichever texts were
\* empty and whatever was discarded: the sequence ids count the chunks across
\* all texts, and the statistics give their number and (as long as no token of
\* a text has the padding token's id) the padding in them.
BatchConsistent ==
    /\ \A k \in 1..Len(all) : all[k].seq_id = k - 1
    /\ pc = "returned" =>
          /\ combined.num_chunks = Len(all)
          /\ combined.total_tokens = Total([k \in 1..Len(texts) |-> texts[k].size])
          /\ (\A k \in 1..Len(texts) : texts[k].pad_ids = {})
                => combined.pad_tokens_total = Total([k \in 1..Len(all) |-> Inserted(all[k])])
=============================================================================
