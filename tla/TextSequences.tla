--------------------------- MODULE TextSequences ---------------------------
(***************************************************************************)
(* Filtering, cutting and joining sequences, as the specifications of the  *)
(* results need it.  The recursion is in functions.                        *)
(***************************************************************************)
EXTENDS Integers, Sequences

\* The numbers of S up to n, in order.
InOrder(S, n) ==
    LET upTo[k \in 0..n] == IF k = 0 THEN <<>>
                            ELSE IF k \in S THEN Append(upTo[k - 1], k)
                            ELSE upTo[k - 1]
    IN  upTo[n]

\* The numbers of the texts of s that count: other than none and, when each is
\* wanted once, not met before.
Counted(s, none, once) ==
    { i \in 1..Len(s) : /\ s[i] # none
                        /\ once => \A j \in 1..(i - 1) : s[j] # s[i] }

Kept(s, none, once) ==
    LET order == InOrder(Counted(s, none, once), Len(s))
    IN  [k \in DOMAIN order |-> s[order[k]]]

\* s cut into pieces of m, the last one shorter; without a limit s is one piece.
Cut(s, m) ==
    LET width == IF m > 0 THEN m ELSE Len(s) + 1
    IN  [k \in 1..((Len(s) + width - 1) \div width) |->
            SubSeq(s, (k - 1) * width + 1,
                   IF k * width < Len(s) THEN k * width ELSE Len(s))]

\* The sequences of s, one after the other.
Flatten(s) ==
    LET upTo[k \in 0..Len(s)] == IF k = 0 THEN <<>> ELSE upTo[k - 1] \o s[k]
    IN  upTo[Len(s)]
=============================================================================
