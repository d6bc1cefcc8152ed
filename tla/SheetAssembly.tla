--------------------------- MODULE SheetAssembly ---------------------------
(***************************************************************************)
(* From sheets of rows of cells to the result object: document_to_json of  *)
(* the .xls parser and document_to_json_ss of the .xlsx parser.            *)
(*                                                                         *)
(* A sheet is a sequence of rows, a row a sequence of cells, one of which  *)
(* may be Empty.  A row's text is its cells joined with blanks; it is kept *)
(* as the sequence of those cells, which tells two rows apart whenever the *)
(* cells hold no blank themselves.  The rows of a group are joined with    *)
(* newlines in text and collection mode and are a list of paragraphs for   *)
(* process_paragraphs in collections mode.                                 *)
(***************************************************************************)
EXTENDS GroupAssembly, SequencesExt

CONSTANTS
    Cell,       \* cells with something in them
    Workbooks   \* the documents: sequences of sheets

ASSUME CellAssumption == Empty \notin Cell
ASSUME WorkbookAssumption == Workbooks \subseteq Seq(Seq(Seq(Cell \cup {Empty})))

SheetFormat == {"xls", "xlsx"}

VARIABLES
    sheets,
    sheet,      \* the current sheet
    row,        \* the current row of it
    rowIdx      \* object mode: the index of the row

\* pc is at a "sheet", at a "row" of it, or "done"; the group is called
\* paragraphs, in collections mode texts.
sheetArgs == <<options, sheets>>
sheetVars == <<sheetArgs, pc, sheet, row, seen, emptyCol, group, colIdx, rowIdx, out>>

SheetInit ==
    /\ format \in SheetFormat
    /\ mode \in Mode
    /\ max_paragraph_length \in Limits
    /\ unique_values_only \in BOOLEAN
    /\ sheets \in Workbooks
    /\ pc = "sheet"
    /\ sheet = 1
    /\ row = 1
    /\ seen = {}
    /\ emptyCol = TRUE
    /\ group = <<>>
    /\ colIdx = 0
    /\ rowIdx = 0
    /\ out = <<>>

cells == sheets[sheet][row]

\* Mutation: empty cells count.
AllCells(r) == r

\* The cells of a row that count: not empty and, on request, not met before
\* in the row.
CellsOf(r) == Kept(r, Empty, unique_values_only)

joined == CellsOf(cells)
EmptyRow == joined = <<>>
SeenRow == unique_values_only /\ joined \in seen

RememberRow == seen' = IF unique_values_only THEN seen \cup {joined} ELSE seen

\* paragraph_length is declared in the loop over the rows: it is 1 at the one
\* place where it is compared with the limit.
ReachesLimit == max_paragraph_length > 0 /\ 1 = max_paragraph_length

\* In collections mode texts is declared outside the loop over the sheets.
BeginSheet ==
    /\ pc = "sheet"
    /\ sheet <= Len(sheets)
    /\ pc' = "row"
    /\ row' = 1
    /\ seen' = {}
    /\ emptyCol' = TRUE
    /\ group' = IF mode = "collections" THEN group ELSE <<>>
    /\ rowIdx' = 0
    /\ UNCHANGED <<sheetArgs, sheet, colIdx, out>>

\* Mutation: a pushed group is not cleared.
KeepRowAgain ==
    /\ out' = IF ReachesLimit THEN Append(out, Append(group, joined)) ELSE out
    /\ group' = Append(group, joined)
    /\ emptyCol' = ReachesLimit

\* The row joins the group; a group that reaches the limit is pushed.
KeepRow ==
    IF ReachesLimit
    THEN /\ out' = Append(out, Append(group, joined))
         /\ group' = <<>>
         /\ emptyCol' = TRUE
    ELSE /\ out' = out
         /\ group' = Append(group, joined)
         /\ emptyCol' = FALSE

\* Mutation: the flag follows the last row instead of any row.
TextRowLastFlag ==
    /\ mode = "text"
    /\ IF EmptyRow \/ SeenRow
       THEN /\ emptyCol' = EmptyRow
            /\ UNCHANGED <<group, out, seen>>
       ELSE KeepRow /\ RememberRow
    /\ UNCHANGED rowIdx

\* Text mode lowers the flag as soon as a cell is not empty, before it knows
\* whether the row is a duplicate.
TextRow ==
    /\ mode = "text"
    /\ IF EmptyRow \/ SeenRow
       THEN /\ emptyCol' = (emptyCol /\ EmptyRow)
            /\ UNCHANGED <<group, out, seen>>
       ELSE KeepRow /\ RememberRow
    /\ UNCHANGED rowIdx

\* Collection and collections mode.
CollectionRow ==
    /\ mode \in {"collection", "collections"}
    /\ IF EmptyRow \/ SeenRow
       THEN UNCHANGED <<emptyCol, group, out, seen>>
       ELSE KeepRow /\ RememberRow
    /\ UNCHANGED rowIdx

\* Mutation: only rows with cells are numbered.
ObjectRowCountsFull ==
    /\ mode = "object"
    /\ IF EmptyRow
       THEN UNCHANGED <<group, emptyCol, rowIdx>>
       ELSE /\ group' = Append(group, [index |-> rowIdx, values |-> joined])
            /\ emptyCol' = FALSE
            /\ rowIdx' = rowIdx + 1
    /\ UNCHANGED <<out, seen>>

\* Object mode: every row has a number; one with cells becomes a node, which
\* stops at the limit.
ObjectRow ==
    /\ mode = "object"
    /\ LET values == IF max_paragraph_length > 0 /\ Len(joined) > max_paragraph_length
                     THEN SubSeq(joined, 1, max_paragraph_length) ELSE joined
       IN  IF EmptyRow
           THEN UNCHANGED <<group, emptyCol>>
           ELSE /\ group' = Append(group, [index |-> rowIdx, values |-> values])
                /\ emptyCol' = FALSE
    /\ rowIdx' = rowIdx + 1
    /\ UNCHANGED <<out, seen>>

Row(f) ==
    /\ pc = "row" /\ format = f
    /\ row <= Len(sheets[sheet])
    /\ TextRow \/ CollectionRow \/ ObjectRow
    /\ row' = row + 1
    /\ UNCHANGED <<sheetArgs, pc, sheet, colIdx>>

XlsRow == Row("xls")
XlsxRow == Row("xlsx")

\* What is in the buffer is pushed unless the flag says there is nothing.
\* Nothing clears texts after the push in collections mode.
EndSheet ==
    /\ pc = "row"
    /\ row > Len(sheets[sheet])
    /\ out' = IF emptyCol THEN out
              ELSE Append(out, IF mode = "object"
                               THEN [index |-> colIdx, paragraphs |-> group]
                               ELSE group)
    /\ colIdx' = colIdx + 1
    /\ pc' = "sheet"
    /\ sheet' = sheet + 1
    /\ UNCHANGED <<sheetArgs, row, seen, emptyCol, group, rowIdx>>

ReturnBook ==
    /\ pc = "sheet"
    /\ sheet > Len(sheets)
    /\ pc' = "done"
    /\ UNCHANGED <<sheetArgs, sheet, row, seen, emptyCol, group, colIdx, rowIdx, out>>

SheetNext == BeginSheet \/ XlsRow \/ XlsxRow \/ EndSheet \/ ReturnBook

SheetSpec == SheetInit /\ [][SheetNext]_sheetVars

-----------------------------------------------------------------------------
\* Properties.

RowType == Seq(Cell)
RowNode == [index : Nat, values : RowType]
SheetPiece == IF mode = "object" THEN [index : Nat, paragraphs : Seq(RowNode)]
         ELSE Seq(RowType)

\* Every variable has its type, and the cursors stay inside the document.
SheetTypeOK ==
    /\ format \in SheetFormat
    /\ mode \in Mode
    /\ max_paragraph_length \in Limits
    /\ unique_values_only \in BOOLEAN
    /\ sheets \in Seq(Seq(Seq(Cell \cup {Empty})))
    /\ pc \in {"sheet", "row", "done"}
    /\ sheet \in 1..Len(sheets) + 1
    /\ pc = "row" => sheet <= Len(sheets) /\ row \in 1..Len(sheets[sheet]) + 1
    /\ seen \subseteq RowType
    /\ emptyCol \in BOOLEAN
    /\ group \in IF mode = "object" THEN Seq(RowNode) ELSE Seq(RowType)
    /\ {colIdx, rowIdx} \subseteq Nat
    /\ out \in Seq(SheetPiece)

\* The rows of a sheet that belong into the result, in order.
KeptRows(s) == Kept([i \in DOMAIN s |-> CellsOf(s[i])], <<>>, unique_values_only)

\* The groups of one sheet: a row each with limit 1, else all rows in one.
GroupsOf(s) == Cut(KeptRows(s), IF max_paragraph_length = 1 THEN 1 ELSE 0)

AllGroups == Flatten([s \in DOMAIN sheets |-> GroupsOf(sheets[s])])

\* Collection mode produces, sheet by sheet, the groups of the kept rows.
CollectionAsSpecified ==
    pc = "done" /\ mode = "collection" => out = AllGroups

\* Whatever is skipped, flushed or carried over, text and collections mode lose
\* no row either: what is pushed for a sheet ends with the rows of that sheet.
NoRowLost ==
    pc = "sheet" /\ mode \in {"text", "collections"} =>
        \A s \in 1..(sheet - 1) : \A r \in ToSet(KeptRows(sheets[s])) :
            \E k \in DOMAIN out : r \in ToSet(out[k])

\* Object mode: one node per sheet with cells; indexes are the physical numbers
\* of the sheet and of the row; a node has the first cells up to the limit.
SheetsAsSpecified ==
    pc = "done" /\ mode = "object" =>
        LET full == InOrder({ s \in DOMAIN sheets :
                        \E i \in DOMAIN sheets[s] : CellsOf(sheets[s][i]) # <<>> }, Len(sheets))
            Values(r) == SubSeq(CellsOf(r), 1,
                            IF max_paragraph_length \in 1..Len(CellsOf(r))
                            THEN max_paragraph_length ELSE Len(CellsOf(r)))
            Nodes(s) == LET used == InOrder({ i \in DOMAIN s : CellsOf(s[i]) # <<>> }, Len(s))
                        IN  [k \in DOMAIN used |->
                               [index |-> used[k] - 1, values |-> Values(s[used[k]])]]
        IN  out = [k \in DOMAIN full |->
                     [index |-> full[k] - 1, paragraphs |-> Nodes(sheets[full[k]])]]
=============================================================================
