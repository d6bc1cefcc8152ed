------------------------- MODULE MCParagraphChunks -------------------------
(***************************************************************************)
(* Bounded instances of ParagraphChunks: the paragraphs, and ratios that   *)
(* round to no overlap, to some, and (9/10, 19/20) to the whole length.    *)
(***************************************************************************)
EXTENDS ParagraphChunks

CONSTANTS MaxTokens, MaxLength

Outcomes == {Throws} \cup 0..MaxTokens
MCParagraphLists == {<<>>} \cup { <<x>> : x \in Outcomes }
                      \cup { <<x, y>> : x \in Outcomes, y \in Outcomes }
MCLengths == 1..MaxLength
MCRatios == {<<9, 100>>, <<1, 4>>, <<1, 2>>, <<9, 10>>, <<19, 20>>}
=============================================================================
