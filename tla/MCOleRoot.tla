----------------------------- MODULE MCOleRoot -----------------------------
(***************************************************************************)
(* A small instance of OleRoot: directories of up to three items, a        *)
(* dictionary of four bytes, presentations of two DocumentContainers.      *)
(***************************************************************************)
EXTENDS OleRoot

MCPrefix == <<0, 1>>
=============================================================================
