--------------------------- MODULE ResultAssembly ---------------------------
(***************************************************************************)
(* What the document_to_json functions have in common: the kind of the     *)
(* document, the output mode and how far they are.                         *)
(***************************************************************************)

Mode == {"text", "collection", "collections", "object"}

VARIABLES
    format, mode,
    pc
=============================================================================
