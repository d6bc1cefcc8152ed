-------------------------- MODULE MCPagedAssembly --------------------------
(***************************************************************************)
(* Bounded instances of PagedAssembly: all documents of at most MaxPages   *)
(* pages with at most MaxItems texts on a page and one more altogether.     *)
(***************************************************************************)
EXTENDS PagedAssembly, SequencesExt

CONSTANTS MaxPages, MaxItems

MCDocuments == { d \in SeqOf(SeqOf(Text \cup {Empty}, MaxItems), MaxPages) :
                    Len(FlattenSeq(d)) <= MaxItems + 1 }
MCPdfPages == SeqOf(Text \cup {Empty}, MaxItems + 1)
MCLimits == {-1, 1, 2}

\* The code only compares texts with each other and with the empty text.
Renamings == Permutations(Text)
=============================================================================
