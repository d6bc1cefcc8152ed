------------------------- MODULE MCSharedTokenizer -------------------------
(***************************************************************************)
(* Small instances of SharedTokenizer.  Three chunkers, two of which have  *)
(* the same padding token: reloading another model may or may not change   *)
(* gpadtoken_id.                                                           *)
(***************************************************************************)
EXTENDS SharedTokenizer, TLC

CONSTANTS e1, e2, l1, l2, c1, c2, c3

MCPadOf == (c1 :> 7) @@ (c2 :> 9) @@ (c3 :> 7)

\* Threads of one kind are interchangeable; chunkers differ by their token.
Interchangeable == Permutations({e1, e2}) \cup Permutations({l1, l2})
=============================================================================
