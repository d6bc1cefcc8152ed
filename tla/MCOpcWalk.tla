----------------------------- MODULE MCOpcWalk -----------------------------
(***************************************************************************)
(* Small packages for OpcWalk: bodies of eight nodes reach a drawing whose *)
(* paragraph breaks the page before a text of the run around it, with and  *)
(* without the vector of pages moving.                                     *)
(***************************************************************************)
EXTENDS OpcWalk
=============================================================================
