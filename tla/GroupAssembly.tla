--------------------------- MODULE GroupAssembly ---------------------------
(***************************************************************************)
(* What the functions that build the result from pages or sheets have in   *)
(* common: the options, the group under construction with its flag, the    *)
(* result, and the words in which the result is specified.                 *)
(***************************************************************************)
EXTENDS ResultAssembly, TextSequences

CONSTANTS
    Empty,       \* the empty text or cell
    Limits       \* max_paragraph_length

ASSUME LimitAssumption == Limits \subseteq Int

VARIABLES
    max_paragraph_length, unique_values_only,
    seen,       \* the texts or rows met before (unique_values_only)
    emptyCol,   \* the flag: nothing to push for this page or sheet
    group,      \* the group under construction
    colIdx,     \* object mode: the index of the page or sheet
    out         \* what was pushed to the result

\* pc is between two pages or sheets, inside one, or "done".
options == <<format, mode, max_paragraph_length, unique_values_only>>
=============================================================================
