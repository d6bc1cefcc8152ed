-------------------------- MODULE MCTextAssembly --------------------------
(***************************************************************************)
(* Bounded instances of TextAssembly: messages of at most FewParts parts   *)
(* of every kind, of at most MaxParts parts whose leaves are two kinds of  *)
(* text, and .md files of at most MaxSections sections.                    *)
(***************************************************************************)
EXTENDS TextAssembly

CONSTANTS FewParts, MaxParts, MaxSections

Part(k, i, c, x) == [kind |-> k, last |-> 1, inline |-> i, charset |-> c, content |-> x]
Inner(k) == Part(k, TRUE, FALSE, "none")

Leaves ==
    { Part("text", i, c, x) : i \in BOOLEAN, c \in BOOLEAN, x \in {"blank", "words"} }
    \cup { Inner(k) : k \in {"multipart", "message", "partial", "other"} }
Texts == { Part("text", i, TRUE, "words") : i \in BOOLEAN }

\* The parts of t as they are behind n others.
Behind(n, t) == [i \in DOMAIN t |-> [t[i] EXCEPT !.last = @ + n]]
Under(k, t) == << [Inner(k) EXCEPT !.last = Len(t) + 1] >> \o Behind(1, t)

\* The trees and the lists of trees of n parts in all.
TreesOf(leaves, forests, trees, n) ==
    IF n = 1 THEN { <<x>> : x \in leaves }
    ELSE { Under("multipart", f) : f \in forests[n - 1] }
         \cup { Under("message", t) : t \in trees[n - 1] }
ForestsOf(forests, trees, n) ==
    IF n = 0 THEN { <<>> }
    ELSE UNION { { t \o Behind(k, f) : t \in trees[k], f \in forests[n - k] } : k \in 1..n }

RECURSIVE Grown(_, _, _, _)
Grown(leaves, n, trees, forests) ==
    LET m == Len(trees) + 1
        ts == Append(trees, TreesOf(leaves, forests, trees, m))
        fs == (m :> ForestsOf(forests, ts, m)) @@ forests
    IN  IF n = 0 THEN UNION ToSet(trees) ELSE Grown(leaves, n - 1, ts, fs)

UpTo(leaves, n) == Grown(leaves, n, <<>>, 0 :> { <<>> })

MCParts == UpTo(Leaves, FewParts) \cup UpTo(Texts, MaxParts)
MCSections == SeqOf(SectionType, MaxSections)
=============================================================================
