------------------------- MODULE MCPluginLifecycle -------------------------
(***************************************************************************)
(* A small instance of PluginLifecycle: one loader that may load every     *)
(* tokenizer in turn, against two extractors and OnExit.                   *)
(***************************************************************************)
EXTENDS PluginLifecycle, TLC

CONSTANTS e1, e2, l1, c1, c2

MCPadOf == (c1 :> 7) @@ (c2 :> 9)
=============================================================================
