--------------------------- MODULE PagedAssembly ---------------------------
(***************************************************************************)
(* From pages of paragraphs to the result object: the document_to_json     *)
(* functions of the .docx/.pptx, .ppt and .pdf parsers, in all four output *)
(* modes.                                                                  *)
(*                                                                         *)
(* A document is a sequence of pages (the body of a .docx, the slides of a *)
(* presentation, the pages of a .pdf), a page a sequence of texts, one of  *)
(* which may be Empty; a .pdf page is one text.  The pieces the result is  *)
(* built from are groups of texts: text and collection mode join a group   *)
(* with newlines into one string, collections mode hands it to             *)
(* process_paragraphs as one list (module ParagraphChunks).  Object mode   *)
(* keeps the structure instead.                                            *)
(***************************************************************************)
EXTENDS GroupAssembly

CONSTANTS
    Text,        \* texts with something in them
    Documents,   \* the documents of paragraphs, for .docx/.pptx and .ppt
    PdfPages     \* the documents of single texts, for .pdf

ASSUME TextAssumption == Empty \notin Text
ASSUME DocumentAssumption == Documents \subseteq Seq(Seq(Text \cup {Empty}))
ASSUME PdfAssumption == PdfPages \subseteq Seq(Text \cup {Empty})
Format == {"opc", "ppt", "pdf"}

VARIABLES
    pages,
    page,       \* the current page
    item,       \* the current text of it
    length      \* paragraph_length, the texts in the group so far

\* pc is at a "page", at an "item" of it, or "done".
args == <<options, pages>>
cursor == <<pc, page, item>>
state == <<seen, emptyCol, length, group>>
vars == <<args, cursor, state, colIdx, out>>

Init ==
    /\ format \in Format
    /\ mode \in Mode
    /\ max_paragraph_length \in Limits
    /\ unique_values_only \in BOOLEAN
    /\ pages \in IF format = "pdf" THEN PdfPages ELSE Documents
    /\ pc = "page"
    /\ page = 1
    /\ item = 1
    /\ seen = {}
    /\ emptyCol = TRUE
    /\ length = 0
    /\ group = <<>>
    /\ colIdx = 0
    /\ out = <<>>

t == pages[page][item]

\* Object mode ignores unique_values_only.
once == unique_values_only /\ mode # "object"

\* Mutation: empty texts are not passed over.
SkippedDuplicates(x) == once /\ x \in seen

\* The texts passed over: empty ones and, on request, those met before.
Skipped(x) == x = Empty \/ (once /\ x \in seen)

\* Mutation: nothing is remembered.
Forget(x) == seen' = seen

Remember(x) == seen' = IF unique_values_only THEN seen \cup {x} ELSE seen

\* The locals of the page loop are new for every page; in collections mode
\* the group is declared outside that loop.
BeginPage ==
    /\ pc = "page" /\ format # "pdf"
    /\ page <= Len(pages)
    /\ pc' = "item"
    /\ item' = 1
    /\ seen' = {}
    /\ emptyCol' = TRUE
    /\ length' = 0
    /\ group' = IF mode = "collections" THEN group ELSE <<>>
    /\ UNCHANGED <<args, page, colIdx, out>>

SkipItem ==
    /\ pc = "item"
    /\ item <= Len(pages[page])
    /\ Skipped(t)
    /\ item' = item + 1
    /\ UNCHANGED <<args, pc, page, state, colIdx, out>>

\* Mutation: the limit is tested before the text is counted.
KeepLate ==
    LET flush == max_paragraph_length > 0 /\ length = max_paragraph_length
    IN  /\ out' = IF flush THEN Append(out, Append(group, t)) ELSE out
        /\ group' = IF flush THEN <<>> ELSE Append(group, t)
        /\ emptyCol' = flush
        /\ length' = IF flush THEN 0 ELSE length + 1
        /\ Remember(t)
        /\ item' = item + 1
        /\ UNCHANGED <<args, pc, page, colIdx>>

\* The text joins the group; a group that reaches the limit is pushed.
Keep ==
    LET joined == Append(group, t)
        flush == max_paragraph_length > 0 /\ length + 1 = max_paragraph_length
    IN  /\ IF flush
           THEN /\ out' = Append(out, joined)
                /\ group' = <<>>
                /\ emptyCol' = TRUE
                /\ length' = 0
           ELSE /\ out' = out
                /\ group' = joined
                /\ emptyCol' = FALSE
                /\ length' = IF max_paragraph_length > 0 THEN length + 1 ELSE length
        /\ Remember(t)
        /\ item' = item + 1
        /\ UNCHANGED <<args, pc, page, colIdx>>

\* Object mode: the text becomes a node; index is the number of nodes before.
Node ==
    /\ group' = Append(group, [index |-> Len(group), text |-> t])
    /\ emptyCol' = FALSE
    /\ item' = item + 1
    /\ UNCHANGED <<args, pc, page, seen, length, colIdx, out>>

AtItem(f) ==
    /\ pc = "item" /\ format = f
    /\ item <= Len(pages[page])
    /\ ~Skipped(t)

KeepParagraph == AtItem("opc") /\ mode # "object" /\ Keep
ParagraphNode == AtItem("opc") /\ mode = "object" /\ Node
KeepSlideText == AtItem("ppt") /\ mode # "object" /\ Keep
SlideTextNode == AtItem("ppt") /\ mode = "object" /\ Node

\* What the end of a page pushes.
PagePiece == IF mode = "object" THEN [index |-> colIdx, paragraphs |-> group]
             ELSE group

\* Mutations: texts is not cleared after it was pushed; or only pages with
\* text are counted.
EndPageKeepsTexts ==
    /\ pc = "item"
    /\ item > Len(pages[page])
    /\ out' = IF emptyCol THEN out ELSE Append(out, PagePiece)
    /\ colIdx' = colIdx + 1
    /\ pc' = "page"
    /\ page' = page + 1
    /\ UNCHANGED <<args, item, state>>

EndPageCountsFull ==
    /\ pc = "item"
    /\ item > Len(pages[page])
    /\ out' = IF emptyCol THEN out ELSE Append(out, PagePiece)
    /\ group' = <<>>
    /\ colIdx' = IF emptyCol THEN colIdx ELSE colIdx + 1
    /\ pc' = "page"
    /\ page' = page + 1
    /\ UNCHANGED <<args, item, seen, emptyCol, length>>

\* The rest of the page is pushed, unless nothing is left to push.
EndPage ==
    /\ pc = "item"
    /\ item > Len(pages[page])
    /\ out' = IF emptyCol THEN out ELSE Append(out, PagePiece)
    /\ group' = IF mode = "collections" /\ emptyCol THEN group ELSE <<>>
    /\ colIdx' = colIdx + 1
    /\ pc' = "page"
    /\ page' = page + 1
    /\ UNCHANGED <<args, item, seen, emptyCol, length>>

\* A .pdf page is a group of its own: no limit, and the texts met before are
\* those of the whole document.
PdfPage ==
    /\ pc = "page" /\ format = "pdf"
    /\ page <= Len(pages)
    /\ LET x == pages[page] IN
       IF Skipped(x)
       THEN UNCHANGED <<seen, out, colIdx>>
       ELSE /\ out' = Append(out,
                  IF mode = "object"
                  THEN [index |-> colIdx,
                        paragraphs |-> <<[index |-> 0, text |-> x]>>]
                  ELSE <<x>>)
            /\ colIdx' = colIdx + 1
            /\ IF mode = "object" THEN UNCHANGED seen ELSE Remember(x)
    /\ page' = page + 1
    /\ UNCHANGED <<args, pc, item, emptyCol, length, group>>

Return ==
    /\ pc = "page"
    /\ page > Len(pages)
    /\ pc' = "done"
    /\ UNCHANGED <<args, page, item, state, colIdx, out>>

Next == \/ BeginPage \/ SkipItem \/ KeepParagraph \/ ParagraphNode
        \/ KeepSlideText \/ SlideTextNode \/ EndPage \/ PdfPage \/ Return

Spec == Init /\ [][Next]_vars

-----------------------------------------------------------------------------
\* Properties.

NodeType == [index : Nat, text : Text]
PieceType == IF mode = "object" THEN [index : Nat, paragraphs : Seq(NodeType)]
             ELSE Seq(Text)

\* Every variable has its type, and the cursors stay inside the document.
TypeOK ==
    /\ format \in Format
    /\ mode \in Mode
    /\ max_paragraph_length \in Limits
    /\ unique_values_only \in BOOLEAN
    /\ pages \in IF format = "pdf" THEN Seq(Text \cup {Empty})
                ELSE Seq(Seq(Text \cup {Empty}))
    /\ pc \in {"page", "item", "done"}
    /\ page \in 1..Len(pages) + 1
    /\ pc = "item" => /\ format # "pdf"
                      /\ page <= Len(pages)
                      /\ item \in 1..Len(pages[page]) + 1
    /\ seen \subseteq Text
    /\ emptyCol \in BOOLEAN
    /\ length \in Nat
    /\ group \in IF mode = "object" THEN Seq(NodeType) ELSE Seq(Text)
    /\ colIdx \in Nat
    /\ out \in Seq(PieceType)

\* The flag says what is in the buffer while a page is walked: every text that
\* is kept is pushed exactly once, with a flush or at the end of its page, and
\* in collections mode no text is carried into the next page.
BufferMatchesFlag ==
    /\ pc = "item" => (emptyCol <=> group = <<>>)
    /\ pc = "page" => group = <<>>

\* No piece is empty, and with a limit none is longer than it.
GroupBounds ==
    mode # "object" =>
        \A k \in 1..Len(out) :
            /\ out[k] # <<>>
            /\ format # "pdf" /\ max_paragraph_length > 0
                  => Len(out[k]) <= max_paragraph_length

\* The result of text, collection and collections mode is what one gets by
\* filtering each page and cutting what remains into groups of the limit, for
\* every interplay of skipped texts, duplicates and flushes with the page ends.
GroupsAsSpecified ==
    pc = "done" /\ mode # "object" =>
        out = IF format = "pdf"
              THEN Cut(Kept(pages, Empty, once), 1)
              ELSE Flatten([p \in 1..Len(pages) |->
                              Cut(Kept(pages[p], Empty, once), max_paragraph_length)])

\* Object mode: one node per page with text.  The "index" of a .docx, .pptx or
\* .ppt node is the physical number of its page (pages without text count);
\* a .pdf node counts the pages with text.
ObjectAsSpecified ==
    pc = "done" /\ mode = "object" =>
        LET texts(p) == Kept(IF format = "pdf" THEN <<pages[p]>> ELSE pages[p], Empty, FALSE)
            full == InOrder({ p \in 1..Len(pages) : texts(p) # <<>> }, Len(pages))
        IN  out = [k \in DOMAIN full |->
                    [index |-> IF format = "pdf" THEN k - 1 ELSE full[k] - 1,
                     paragraphs |-> [i \in DOMAIN texts(full[k]) |->
                                        [index |-> i - 1, text |-> texts(full[k])[i]]]]]
=============================================================================
