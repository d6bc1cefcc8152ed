-------------------------- MODULE MCSheetAssembly --------------------------
(***************************************************************************)
(* Bounded instances of SheetAssembly: sheets of at most MaxRows rows and  *)
(* MaxTotal rows altogether.  The rows are those the code tells apart:     *)
(* without cells, with empty cells only, equal to another one after the    *)
(* empty or repeated cells are dropped, and longer than the limit.         *)
(***************************************************************************)
EXTENDS SheetAssembly

CONSTANTS a, b, MaxSheets, MaxRows, MaxTotal

Rows == { <<>>, <<Empty>>, <<a>>, <<Empty, a>>, <<a, a>>, <<a, b, a>> }
MCWorkbooks == { d \in SeqOf(SeqOf(Rows, MaxRows), MaxSheets) :
                    Len(FlattenSeq(d)) <= MaxTotal }
MCLimits == {-1, 1, 2}
=============================================================================
