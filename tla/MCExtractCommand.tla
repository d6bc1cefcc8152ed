-------------------------- MODULE MCExtractCommand --------------------------
(***************************************************************************)
(* Every documentType, output format and way of reading the file, with     *)
(* options absent, at the edges of their ranges, inside and outside.       *)
(***************************************************************************)
EXTENDS ExtractCommand

Options(limit, length, pooling, ratio, password) ==
    [max_paragraph_length |-> limit, tokens_length |-> length,
     pooling_mode |-> pooling, overlap_ratio |-> ratio, password |-> password]

MCGiven == { Options(Undefined, Undefined, Undefined, Undefined, FALSE),
             Options(0, 0, 0, 0, TRUE),
             Options(-2, -1, -1, -9, FALSE),
             Options(1, 1, 1, 1, TRUE),
             Options(3, 512, 2, 99, FALSE),
             Options(3, 512, 7, 100, FALSE) }
=============================================================================
