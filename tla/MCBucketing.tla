---------------------------- MODULE MCBucketing ----------------------------
(***************************************************************************)
(* Bounded instances of Bucketing: single texts with every placement of    *)
(* sentence ends, and batches of two short texts, under every combination  *)
(* of valid parameters up to MaxTarget and a few invalid ones.             *)
(***************************************************************************)
EXTENDS Bucketing

CONSTANTS MaxTokens, MaxShort, MaxTarget

Single == { [size |-> m, sentence_ends |-> s, pad_ids |-> {}] :
               m \in 0..MaxTokens, s \in SUBSET (1..MaxTokens) }
Short == { [size |-> m, sentence_ends |-> {}, pad_ids |-> p] :
               m \in 0..MaxShort, p \in {{}, {1}} }

Sound(t) == t.sentence_ends \cup t.pad_ids \subseteq 1..t.size

MCTexts == { t \in Single \cup Short : Sound(t) }
MCBatchLists ==
    {<<>>} \cup { <<t>> : t \in { x \in Single : Sound(x) } }
           \cup { <<t, u>> : t \in { x \in Short : Sound(x) },
                             u \in { x \in Short : Sound(x) } }
Valid(p) == /\ p.pad_reserve < p.target_len
            /\ p.overlap_tokens < p.target_len - p.pad_reserve
With(t, r, o, f) == [target_len |-> t, pad_reserve |-> r,
                     overlap_tokens |-> o, min_fill_ratio |-> f]
MCParamSets ==
    { p \in { With(t, r, o, f) : t \in 1..MaxTarget, r \in 0..(MaxTarget - 1),
                                 o \in 0..(MaxTarget - 1), f \in {0, 40, 100} } : Valid(p) }
    \cup { With(0, 0, 0, 0), With(MaxTarget + 1, 0, 0, 0),
           With(MaxTarget, MaxTarget, 0, 0), With(MaxTarget, 1, MaxTarget - 1, 0),
           With(2, 1, 1, 0) }
MCnctx == MaxTarget
=============================================================================
