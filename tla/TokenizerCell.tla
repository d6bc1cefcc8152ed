--------------------------- MODULE TokenizerCell ---------------------------
(***************************************************************************)
(* What the plugin promises its callers about the tokenizer, whatever the  *)
(* locking: one process-wide cell holds the current chunker (or none); a   *)
(* successful Extract SET OPTION replaces it at one instant by a chunker   *)
(* that was never current before; OnExit empties it; a call of             *)
(* process_paragraphs works on one value that was current at one instant   *)
(* of the call, and keeps it until the call is over.                       *)
(***************************************************************************)
CONSTANTS Chunker, Extractor, NoChunker

VARIABLES
    cell,       \* the current chunker, or NoChunker
    spent,      \* the chunkers that have been current at some time
    snapshot    \* the chunker each extractor is working with

vars == <<cell, spent, snapshot>>

Init == /\ cell = NoChunker
        /\ spent = {}
        /\ snapshot = [e \in Extractor |-> NoChunker]

Replace(c) == /\ c \notin spent
              /\ cell' = c
              /\ spent' = spent \cup {c}
              /\ UNCHANGED snapshot

Empty == /\ cell' = NoChunker
         /\ UNCHANGED <<spent, snapshot>>

Take(e) == /\ snapshot[e] = NoChunker
           /\ snapshot' = [snapshot EXCEPT ![e] = cell]
           /\ UNCHANGED <<cell, spent>>

Release(e) == /\ snapshot' = [snapshot EXCEPT ![e] = NoChunker]
              /\ UNCHANGED <<cell, spent>>

Next == \/ \E c \in Chunker : Replace(c)
        \/ Empty
        \/ \E e \in Extractor : Take(e) \/ Release(e)

Spec == Init /\ [][Next]_vars
=============================================================================
