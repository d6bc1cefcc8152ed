------------------------------ MODULE OpcWalk ------------------------------
(***************************************************************************)
(* opc_parse_data between opening the package and building the result: the *)
(* part that decides the type, then one of                                 *)
(*   - docx: process_document over one part, which breaks pages;           *)
(*   - pptx: process_document over the slides, one page each;              *)
(*   - xlsx: the shared strings, then the cells of every sheet.            *)
(* The XML is revealed in document order, one node per step.  process_docu-*)
(* ment recurses on children and keeps, in every frame, a pointer to the   *)
(* page it appends to: an element of a vector that grows.                  *)
(***************************************************************************)
EXTENDS TextSequences, FiniteSets, SequencesExt, FiniteSetsExt

CONSTANTS
    MaxNodes,    \* BOUND: nodes of the body, or of all slides
    MaxItem,     \* BOUND: nodes of a shared string
    MaxStrings,  \* BOUND: shared strings
    MaxCells     \* BOUND: sheet entries, rows and cells read

ASSUME BoundAssumption == MaxNodes \in Nat /\ MaxStrings \in Nat

VARIABLES
    type,      \* the document_type
    stage,     \* "find", "walk", "string", "concat", "sheet", then the end
    doc,       \* the XML nodes visited so far: [tag, depth], in preorder
    frames,    \* each frame's pointer: <<index, generation of the buffer>>
    pages,     \* document.pages: paragraphs of texts, a text is its node
    capacity,  \* of the vector document.pages
    generation,\* how often the vector has moved
    orphans,   \* texts that found a page without paragraph (history)
    stack,     \* xml_get_text_concat: the nodes to visit
    out,       \* xml_get_text_concat: the text so far
    sst,       \* the shared string table
    strings,   \* the trees the table was read from (history)
    sheets,    \* workbook.sheets: [name, rows]
    entries    \* the <sheet> elements and their raw cells (history)

pageVars == <<frames, pages, capacity, generation, orphans>>
concatVars == <<stack, out>>
bookVars == <<sst, strings, sheets, entries>>
walkVars == <<type, stage, doc, pageVars, concatVars, bookVars>>

Node == [tag : {"p", "r", "t", "br", "sect", "box", "slide", "rPh"}, depth : 0..MaxNodes]
\* A cell's value: an index into the shared strings, or a text of its own,
\* which the cell may not have.  "str" stands for every type not named here.
Cell == [kind : {"s"}, index : -1..MaxStrings]
            \cup [kind : {"inlineStr", "str", "b"}, text : {"none", "1"}]

WalkInit ==
    /\ type = "unknown"
    /\ stage = "find"
    /\ doc = <<>>
    /\ frames = <<>>
    /\ pages = <<>>
    /\ capacity = 0
    /\ generation = 0
    /\ orphans = {}
    /\ stack = <<>>
    /\ out = <<>>
    /\ sst = <<>>
    /\ strings = <<>>
    /\ sheets = <<>>
    /\ entries = <<>>

-----------------------------------------------------------------------------
\* Which part is the document.

\* The three well-known names are tried in order, then the relationship of
\* the package, whose content type decides ("other" is none of the three).
TypeOf(present, rel) ==
    CASE "word" \in present -> "docx"
      [] "word" \notin present /\ "xl" \in present -> "xlsx"
      [] present = {"ppt"} -> "pptx"
      [] present = {} -> IF rel = "other" THEN "unknown" ELSE rel

\* The root of the main part is missing or does not parse: fatal for docx
\* only; pptx never reads it, and xlsx then has no sheet.
FindPart ==
    /\ stage = "find"
    /\ \E present \in SUBSET {"word", "xl", "ppt"},
          rel \in {"docx", "xlsx", "pptx", "other"}, root \in BOOLEAN :
          /\ type' = TypeOf(present, rel)
          /\ stage' = CASE type' = "unknown" -> "failed"
                        [] type' = "docx" -> IF root THEN "walk" ELSE "failed"
                        [] type' = "pptx" -> "walk"
                        [] type' = "xlsx" -> IF root THEN "string" ELSE "done"
    /\ \/ type' = "docx" /\ stage' = "walk" /\ pages' = <<<<>>>> /\ capacity' = 1
       \/ ~(type' = "docx" /\ stage' = "walk") /\ UNCHANGED <<pages, capacity>>
    /\ UNCHANGED <<doc, frames, generation, orphans, concatVars, bookVars>>

\* The package does not open.
RejectPackage ==
    /\ stage = "find"
    /\ stage' = "failed"
    /\ UNCHANGED <<type, doc, pageVars, concatVars, bookVars>>

-----------------------------------------------------------------------------
\* The XML that may come next.

Parent(d) == IF d = 1 THEN "body"
             ELSE doc[Max({i \in DOMAIN doc : doc[i].depth = d - 1})].tag

\* What the schemas allow: section properties come first in a paragraph, a
\* run holds texts, breaks and, in a drawing, paragraphs of their own.
ChildTags(parent) ==
    CASE parent = "body" -> {"p"}
      [] parent = "p" -> {"sect", "r"}
      [] parent = "r" -> {"t", "br", "box"}
      [] parent = "box" -> {"p"}
      [] parent \in {"t", "br", "sect"} -> {}

MayFollow(n) ==
    LET last == IF doc = <<>> THEN 0 ELSE Last(doc).depth
    IN  /\ n.depth \in 1..(last + 1)
        /\ n.tag \in ChildTags(Parent(n.depth))
        /\ n.tag = "sect" => n.depth = last + 1

-----------------------------------------------------------------------------
\* process_document.

\* Mutation: one past the last page.
BackPastEnd == <<Len(pages) + 1, generation>>

\* &document.pages.back().
Back == <<Len(pages), generation>>

\* The frames when a node at depth d is reached: a deeper one is a new call,
\* which points to the last page; a frame returned to is as it was left.
FramesAt(d) == IF d > Len(frames) THEN Append(frames, Back) ELSE SubSeq(frames, 1, d)

\* The capacities to which the vector may grow: doubled, or by a half.
Grown(c) == {Max({2 * c, c + 1}), Max({c + c \div 2, c + 1})}

\* document.pages.push_back(Page()).
PushPage ==
    /\ pages' = Append(pages, <<>>)
    /\ \/ Len(pages) < capacity /\ UNCHANGED <<capacity, generation>>
       \/ Len(pages) = capacity /\ capacity' \in Grown(capacity)
                                /\ generation' = generation + 1

Visit(n) ==
    /\ stage = "walk"
    /\ Len(doc) < MaxNodes
    /\ type = "pptx" => pages # <<>>
    /\ MayFollow(n)
    /\ doc' = Append(doc, n)
    /\ UNCHANGED <<type, concatVars, bookVars>>

\* Mutation: the frame keeps its pointer over the break.
BreakPageKeepsPointer(n) ==
    /\ type = "docx" /\ n.tag \in {"br", "sect"}
    /\ Visit(n)
    /\ PushPage
    /\ frames' = FramesAt(n.depth)
    /\ UNCHANGED <<stage, orphans>>

\* A page break, or a paragraph that ends a section on the next page.
BreakPage(n) ==
    /\ type = "docx" /\ n.tag \in {"br", "sect"}
    /\ Visit(n)
    /\ PushPage
    /\ frames' = [FramesAt(n.depth) EXCEPT ![n.depth] = <<Len(pages) + 1, generation'>>]
    /\ UNCHANGED <<stage, orphans>>

BeginParagraph(n) ==
    /\ n.tag = "p"
    /\ Visit(n)
    /\ frames' = [FramesAt(n.depth) EXCEPT ![n.depth] = Back]
    /\ pages' = [pages EXCEPT ![Len(pages)] = Append(@, <<>>)]
    /\ UNCHANGED <<stage, capacity, generation, orphans>>

\* Mutation: a text on a page without paragraph is left out.
AddTextToParagraphOnly(n) ==
    LET at == FramesAt(n.depth)[n.depth]
        page == pages[at[1]]
    IN  /\ n.tag = "t"
        /\ Visit(n)
        /\ frames' = FramesAt(n.depth)
        /\ at[2] = generation
        /\ pages' = IF page = <<>> THEN pages
                    ELSE [pages EXCEPT ![at[1]][Len(page)] = Append(@, Len(doc'))]
        /\ UNCHANGED <<stage, capacity, generation, orphans>>

\* A text goes to the last paragraph of the frame's page, which gets one if
\* it has none.  A frame that points into the vector's former buffer reads
\* freed memory: nothing is known of the walk afterwards.
AddText(n) ==
    LET at == FramesAt(n.depth)[n.depth]
        page == pages[at[1]]
    IN  /\ n.tag = "t"
        /\ Visit(n)
        /\ frames' = FramesAt(n.depth)
        /\ \/ /\ at[2] # generation
              /\ stage' = "undefined"
              /\ UNCHANGED <<pages, orphans>>
           \/ /\ at[2] = generation
              /\ \/ /\ page = <<>>
                    /\ pages' = [pages EXCEPT ![at[1]] = <<<<Len(doc')>>>>]
                    /\ orphans' = orphans \cup {Len(doc')}
                 \/ /\ page # <<>>
                    /\ pages' = [pages EXCEPT ![at[1]][Len(page)] = Append(@, Len(doc'))]
                    /\ UNCHANGED orphans
              /\ UNCHANGED stage
        /\ UNCHANGED <<capacity, generation>>

\* Any other element only leads to its children.
PassThrough(n) ==
    /\ n.tag \in {"r", "box"} \/ (type = "pptx" /\ n.tag \in {"br", "sect"})
    /\ Visit(n)
    /\ frames' = FramesAt(n.depth)
    /\ UNCHANGED <<stage, pages, capacity, generation, orphans>>

\* The next slide number exists; only a part that parses makes a page.
OpenSlide ==
    /\ stage = "walk" /\ type = "pptx"
    /\ Len(doc) < MaxNodes
    /\ doc' = Append(doc, [tag |-> "slide", depth |-> 0])
    /\ frames' = <<>>
    /\ PushPage
    /\ UNCHANGED <<type, stage, orphans, concatVars, bookVars>>

\* The body is over, or the first slide number that does not exist is met.
EndWalk ==
    /\ stage = "walk"
    /\ stage' = "done"
    /\ UNCHANGED <<type, doc, pageVars, concatVars, bookVars>>

-----------------------------------------------------------------------------
\* The shared strings.

StringTags(parent) ==
    CASE parent = "body" -> {"r", "t", "rPh"}
      [] parent \in {"r", "rPh"} -> {"t"}
      [] parent = "t" -> {}

\* The string item under the cursor, node by node.
GrowString(n) ==
    /\ stage = "string"
    /\ Len(sst) < MaxStrings /\ Len(doc) < MaxItem
    /\ n.depth \in 1..(IF doc = <<>> THEN 1 ELSE Last(doc).depth + 1)
    /\ n.tag \in StringTags(Parent(n.depth))
    /\ doc' = Append(doc, n)
    /\ UNCHANGED <<type, stage, pageVars, concatVars, bookVars>>

\* Node 0 is the item itself.
ChildrenOf(i) ==
    LET d == IF i = 0 THEN 0 ELSE doc[i].depth
    IN  InOrder({j \in (i + 1)..Len(doc) : /\ doc[j].depth = d + 1
                                           /\ \A k \in (i + 1)..j : doc[k].depth > d},
                Len(doc))

StartConcat ==
    /\ stage = "string" /\ Len(sst) < MaxStrings
    /\ stage' = "concat"
    /\ stack' = <<0>>
    /\ out' = <<>>
    /\ UNCHANGED <<type, doc, pageVars, bookVars>>

\* Mutation: only direct children are pushed.
ConcatShallow ==
    /\ stage = "concat" /\ stack # <<>>
    /\ LET cur == Last(stack)
       IN  /\ stack' = Front(stack) \o (IF cur = 0 THEN ChildrenOf(0) ELSE <<>>)
           /\ out' = IF cur > 0 /\ doc[cur].tag = "t" THEN Append(out, cur) ELSE out
    /\ UNCHANGED <<type, stage, doc, pageVars, bookVars>>

\* The last node of the stack is taken, its text appended, its children
\* pushed in document order.
Concat ==
    /\ stage = "concat" /\ stack # <<>>
    /\ LET cur == Last(stack)
       IN  /\ stack' = Front(stack) \o ChildrenOf(cur)
           /\ out' = IF cur > 0 /\ doc[cur].tag = "t" THEN Append(out, cur) ELSE out
    /\ UNCHANGED <<type, stage, doc, pageVars, bookVars>>

AddString ==
    /\ stage = "concat" /\ stack = <<>>
    /\ stage' = "string"
    /\ sst' = Append(sst, out)
    /\ strings' = Append(strings, doc)
    /\ doc' = <<>>
    /\ out' = <<>>
    /\ UNCHANGED <<type, pageVars, stack, sheets, entries>>

-----------------------------------------------------------------------------
\* The sheets.

CellsRead == FoldSeq(LAMBDA e, n : FoldSeq(LAMBDA r, m : m + 1 + Len(r), n + 1, e.rows),
                     0, entries)

\* A sheet element whose part is found and parses, or not.
OpenSheet(found) ==
    /\ stage \in {"string", "sheet"} /\ doc = <<>>
    /\ CellsRead < MaxCells
    /\ stage' = "sheet"
    /\ entries' = Append(entries, [found |-> found, rows |-> <<>>])
    /\ sheets' = IF found
                 THEN Append(sheets, [name |-> Len(entries'), rows |-> <<>>])
                 ELSE sheets
    /\ UNCHANGED <<type, doc, pageVars, concatVars, sst, strings>>

InSheet == stage = "sheet" /\ Last(entries).found /\ CellsRead < MaxCells

ReadRow ==
    /\ InSheet
    /\ entries' = [entries EXCEPT ![Len(entries)].rows = Append(@, <<>>)]
    /\ sheets' = [sheets EXCEPT ![Len(sheets)].rows = Append(@, <<>>)]
    /\ UNCHANGED <<type, stage, doc, pageVars, concatVars, sst, strings>>

\* Mutation: shared strings are counted from 1.
ResolveFromOne(c) ==
    CASE c.kind = "s" -> IF c.index \in DOMAIN sst THEN sst[c.index] ELSE <<>>
      [] c.kind = "b" -> <<IF c.text = "1" THEN "TRUE" ELSE "FALSE">>
      [] c.kind \in {"inlineStr", "str"} -> IF c.text = "none" THEN <<>> ELSE <<c.text>>

\* The text of a cell.  A shared string is an index into the table, and
\* anything that is none is an empty text; -1 stands for a negative index and
\* for no value.  What an <is> holds is concatenated like a shared string.
Resolve(c) ==
    CASE c.kind = "s" -> IF c.index >= 0 /\ c.index < Len(sst) THEN sst[c.index + 1] ELSE <<>>
      [] c.kind = "b" -> <<IF c.text = "1" THEN "TRUE" ELSE "FALSE">>
      [] c.kind \in {"inlineStr", "str"} -> IF c.text = "none" THEN <<>> ELSE <<c.text>>

ReadCell(c) ==
    /\ InSheet
    /\ Last(entries).rows # <<>>
    /\ entries' = [entries EXCEPT ![Len(entries)].rows[Len(Last(entries).rows)] = Append(@, c)]
    /\ sheets' = [sheets EXCEPT ![Len(sheets)].rows[Len(Last(sheets).rows)] = Append(@, Resolve(c))]
    /\ UNCHANGED <<type, stage, doc, pageVars, concatVars, sst, strings>>

EndBook ==
    /\ stage \in {"string", "sheet"} /\ doc = <<>>
    /\ stage' = "done"
    /\ UNCHANGED <<type, doc, pageVars, concatVars, bookVars>>

Finished == stage \in {"done", "failed", "undefined"} /\ UNCHANGED walkVars

WalkNext ==
    \/ FindPart \/ RejectPackage
    \/ \E n \in Node : \/ BreakPage(n) \/ BeginParagraph(n) \/ AddText(n)
                       \/ PassThrough(n) \/ GrowString(n)
    \/ OpenSlide \/ EndWalk
    \/ StartConcat \/ Concat \/ AddString
    \/ \E found \in BOOLEAN : OpenSheet(found)
    \/ ReadRow
    \/ \E c \in Cell : ReadCell(c)
    \/ EndBook
    \/ Finished

WalkSpec == WalkInit /\ [][WalkNext]_walkVars

-----------------------------------------------------------------------------
\* Properties.

Texts == {i \in DOMAIN doc : doc[i].tag = "t"}
IsBreak(i) == IF type = "docx" THEN doc[i].tag \in {"br", "sect"} ELSE doc[i].tag = "slide"

\* Every variable has its type, and no frame points past the pages.
WalkTypeOK ==
    /\ type \in {"unknown", "docx", "pptx", "xlsx"}
    /\ stage \in {"find", "walk", "string", "concat", "sheet", "done", "failed", "undefined"}
    /\ doc \in Seq(Node)
    /\ \A f \in DOMAIN frames : /\ frames[f][1] \in 1..Len(pages)
                                /\ frames[f][2] \in 0..generation
    /\ Len(pages) <= capacity
    /\ \A k \in DOMAIN pages : \A q \in DOMAIN pages[k] : ToSet(pages[k][q]) \subseteq Texts
    /\ ToSet(stack) \subseteq 0..Len(doc) /\ ToSet(out) \subseteq DOMAIN doc
    /\ Len(sst) = Len(strings) /\ Len(sheets) <= Len(entries)

\* The page and the paragraph a reader of the XML would put node i in.
PageOf(i) == Cardinality({j \in 1..i : IsBreak(j)}) + IF type = "docx" THEN 1 ELSE 0
Began(i) == {j \in 1..i : doc[j].tag = "p" /\ PageOf(j) = PageOf(i)}
Headless(k) == \E i \in Texts : PageOf(i) = k /\ Began(i) = {}
ParagraphOf(i) == Cardinality(Began(i)) + IF Headless(PageOf(i)) THEN 1 ELSE 0

Expected ==
    [k \in 1..(IF doc = <<>> THEN Len(pages) ELSE PageOf(Len(doc))) |->
        LET here == {ParagraphOf(i) : i \in {j \in DOMAIN doc : /\ PageOf(j) = k
                                                                /\ doc[j].tag \in {"p", "t"}}}
        IN  [q \in 1..Max(here \cup {0}) |->
                InOrder({i \in Texts : PageOf(i) = k /\ ParagraphOf(i) = q}, Len(doc))]]

\* A text is exposed when a drawing before it in the same run has paragraphs
\* that broke the page, and the run itself has not broken it since.
Exposed(i) ==
    \E j \in 1..(i - 1) :
        /\ IsBreak(j) /\ doc[j].depth > doc[i].depth
        /\ \A k \in j..(i - 1) : \/ doc[k].depth > doc[i].depth
                                 \/ doc[k].depth = doc[i].depth /\ ~IsBreak(k)

\* Unless a text is exposed, the walk puts every text in the last paragraph
\* begun, on the page reached by the breaks before it, and never touches freed
\* memory, however the vector of pages grows.
WalkAsSpecified ==
    type \in {"docx", "pptx"} /\ ~(\E i \in Texts : Exposed(i)) =>
        stage # "undefined" /\ pages = Expected

\* The text that the model stops at: the one written to freed memory.
Lost == IF stage = "undefined" THEN {Len(doc)} ELSE {}

\* Every text read is on exactly one page, in exactly one paragraph, and only
\* an exposed one can be elsewhere than on the page of the breaks before it:
\* behind, on an earlier page, or, when the vector has moved since its frame
\* took the pointer, nowhere, written to the memory of the former buffer.
TextKept ==
    stage \in {"walk", "done", "undefined"} /\ type \in {"docx", "pptx"} =>
        /\ \A i \in Lost : i \in Texts /\ Exposed(i)
        /\ \A i \in Texts \ Lost :
              LET places == {at \in (DOMAIN pages) \X (1..Len(doc)) :
                                /\ at[2] \in DOMAIN pages[at[1]]
                                /\ i \in ToSet(pages[at[1]][at[2]])}
              IN  /\ Cardinality(places) = 1
                  /\ \A at \in places : /\ at[1] <= PageOf(i)
                                        /\ at[1] < PageOf(i) => Exposed(i)

\* A shared string holds every text of its item once, phonetic ones included,
\* from the last to the first; the cells of every sheet that was found, and
\* no others, show the string their index names.
WorkbookAsSpecified ==
    LET AllTexts(tree) == Reverse(InOrder({i \in DOMAIN tree : tree[i].tag = "t"}, Len(tree)))
        found == InOrder({k \in DOMAIN entries : entries[k].found}, Len(entries))
        Shown(c) == CASE c.kind = "s" /\ c.index + 1 \in DOMAIN strings ->
                             AllTexts(strings[c.index + 1])
                      [] c.kind = "b" -> IF c.text = "1" THEN <<"TRUE">> ELSE <<"FALSE">>
                      [] c.kind \in {"inlineStr", "str"} /\ c.text # "none" -> <<c.text>>
                      [] OTHER -> <<>>
    IN  /\ sst = [k \in DOMAIN strings |-> AllTexts(strings[k])]
        /\ sheets = [s \in DOMAIN found |->
                        [name |-> found[s],
                         rows |-> [r \in DOMAIN entries[found[s]].rows |->
                                      [c \in DOMAIN entries[found[s]].rows[r] |->
                                          Shown(entries[found[s]].rows[r][c])]]]]

\* "should not happen": a text on a page that has no paragraph.
TextInParagraph == orphans = {}
=============================================================================
