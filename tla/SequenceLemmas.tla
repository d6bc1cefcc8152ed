--------------------------- MODULE SequenceLemmas ---------------------------
(***************************************************************************)
(* What the proofs use of numbers and sequences: induction, functions that *)
(* are defined step by step, and the operators of TextSequences.           *)
(***************************************************************************)
EXTENDS TextSequences, SequencesExt, SequenceTheorems, WellFoundedInduction, TLAPS
-----------------------------------------------------------------------------
\* Induction over numbers.

\* A set of natural numbers that is not empty has a least element.
LEMMA LeastElement ==
    ASSUME NEW S \in SUBSET Nat, S # {}
    PROVE  \E i \in S : \A j \in S : i <= j
<1>1. PICK i \in S : \A j \in S : ~(<<j, i>> \in OpToRel(<, Nat))
  BY NatLessThanWellFounded, WFMin
<1>2. ASSUME NEW j \in S PROVE i <= j
  <2>1. <<j, i>> \in Nat \X Nat /\ ~(<<j, i>> \in OpToRel(<, Nat))
    BY <1>1
  <2>2. ~(j < i)
    BY <2>1 DEF OpToRel
  <2> QED BY <2>2
<1> QED BY <1>2

\* Induction up to n: what holds of 0 and goes on to the next number.
LEMMA UpTo ==
    ASSUME NEW n \in Nat, NEW S, 0 \in S, \A k \in 1..n : k - 1 \in S => k \in S
    PROVE  \A k \in 0..n : k \in S
<1> DEFINE missing == { k \in 0..n : k \notin S }
<1> SUFFICES ASSUME missing # {} PROVE FALSE
  OBVIOUS
<1>1. missing \in SUBSET Nat
  OBVIOUS
<1>2. PICK i \in missing : \A j \in missing : i <= j
  BY <1>1, LeastElement
<1>3. i \in 1..n /\ i - 1 \in 0..n /\ ~(i <= i - 1)
  BY <1>2
<1>4. i - 1 \in S
  BY <1>2, <1>3
<1> QED BY <1>2, <1>3, <1>4

\* g takes its values from V, begins with base and goes on by step.
StepsThrough(g, n, V, base, step) ==
    /\ g \in [0..n -> V]
    /\ g[0] = base
    /\ \A k \in 1..n : g[k] = step[<<k, g[k - 1]>>]
IsStep(step, n, V) == step \in [(1..n) \X V -> V]

\* A function defined step by step from 0 to n exists.
LEMMA StepByStep ==
    ASSUME NEW n \in Nat, NEW V, NEW base \in V, NEW step, IsStep(step, n, V)
    PROVE  \E g : StepsThrough(g, n, V, base, step)
<1> DEFINE Reaches(m, g) == /\ g \in [0..m -> V] /\ g[0] = base
                            /\ \A k \in 1..m : g[k] = step[<<k, g[k - 1]>>]
           S == { m \in 0..n : \E g \in [0..m -> V] : Reaches(m, g) }
<1>1. 0 \in S
  <2> DEFINE first == [k \in 0..0 |-> base]
  <2>1. first \in [0..0 -> V]
    OBVIOUS
  <2>2. Reaches(0, first)
    BY <2>1
  <2>3. 0 \in 0..n
    OBVIOUS
  <2> HIDE DEF first, Reaches
  <2> QED BY <2>1, <2>2, <2>3
<1>2. ASSUME NEW k \in 1..n, k - 1 \in S PROVE k \in S
  <2> USE DEF IsStep
  <2>1. PICK g \in [0..(k - 1) -> V] : Reaches(k - 1, g)
    BY <1>2
  <2> DEFINE h == [j \in 0..k |-> IF j = k THEN step[<<k, g[k - 1]>>] ELSE g[j]]
  <2>2. k - 1 \in 0..(k - 1) /\ g[k - 1] \in V /\ <<k, g[k - 1]>> \in (1..n) \X V
    OBVIOUS
  <2>3. step[<<k, g[k - 1]>>] \in V
    BY <2>2
  <2>4. h \in [0..k -> V]
    <3>1. \A j \in 0..k : j = k \/ j \in 0..(k - 1)
      OBVIOUS
    <3> QED BY <2>3, <3>1
  <2>5. h[0] = base
    BY <2>1
  <2>6. ASSUME NEW j \in 1..k PROVE h[j] = step[<<j, h[j - 1]>>]
    <3>1. j - 1 \in 0..k /\ j - 1 # k /\ h[j - 1] = g[j - 1]
      OBVIOUS
    <3>2. CASE j = k
      BY <3>1, <3>2
    <3>3. CASE j # k
      <4>1. j \in 1..(k - 1)
        BY <3>3
      <4> QED BY <2>1, <3>1, <3>3, <4>1
    <3> QED BY <3>2, <3>3
  <2>7. Reaches(k, h)
    BY <2>4, <2>5, <2>6
  <2> HIDE DEF h, Reaches
  <2> QED BY <2>4, <2>7
<1>3. n \in S
  <2> HIDE DEF S
  <2>1. \A k \in 0..n : k \in S
    BY <1>1, <1>2, UpTo
  <2> QED BY <2>1
<1> QED BY <1>3 DEF StepsThrough

-----------------------------------------------------------------------------
\* The numbers of a set, in order.

OrderedBy(f, S, n) ==
    /\ f \in [0..n -> Seq(1..n)]
    /\ f[0] = <<>>
    /\ \A k \in 1..n : f[k] = IF k \in S THEN Append(f[k - 1], k) ELSE f[k - 1]

\* InOrder is the last value of such a function.
LEMMA InOrderSteps ==
    ASSUME NEW n \in Nat, NEW S
    PROVE  \E f : OrderedBy(f, S, n) /\ InOrder(S, n) = f[n]
<1> DEFINE V == Seq(1..n)
           More(k, before) == IF k \in S THEN Append(before, k) ELSE before
           step == [kv \in (1..n) \X V |-> More(kv[1], kv[2])]
           Steps(g) == [k \in 0..n |-> IF k = 0 THEN <<>> ELSE More(k, g[k - 1])]
           first == CHOOSE g : g = Steps(g)
<1>1. <<>> \in V
  OBVIOUS
<1>2. ASSUME NEW k \in 1..n, NEW b \in V PROVE More(k, b) \in V
  <2>1. Append(b, k) \in Seq(1..n)
    OBVIOUS
  <2> QED BY <2>1
<1>3. IsStep(step, n, V)
  <2> HIDE DEF V, More
  <2>1. \A kv \in (1..n) \X V : More(kv[1], kv[2]) \in V
    BY <1>2
  <2> QED BY <2>1 DEF IsStep
<1>4. PICK g : StepsThrough(g, n, V, <<>>, step)
  <2> HIDE DEF step, V
  <2> QED BY <1>1, <1>3, StepByStep
<1>5. /\ g \in [0..n -> V] /\ g[0] = <<>>
      /\ \A k \in 1..n : g[k] = step[<<k, g[k - 1]>>]
  BY <1>4, Zenon DEF StepsThrough
<1>6. ASSUME NEW k \in 1..n PROVE g[k] = More(k, g[k - 1])
  <2> HIDE DEF V, More, step
  <2>1. k - 1 \in 0..n
    OBVIOUS
  <2>2. g[k - 1] \in V
    BY <1>5, <2>1
  <2> USE DEF step
  <2>3. step[<<k, g[k - 1]>>] = More(k, g[k - 1])
    BY <2>2
  <2> QED BY <1>5, <2>3
<1>7. g = Steps(g)
  <2> HIDE DEF V, More
  <2>1. \A k \in 0..n : k = 0 \/ k \in 1..n
    OBVIOUS
  <2> QED BY <1>5, <1>6, <2>1
<1>8. first = Steps(first)
  <2> HIDE DEF Steps
  <2> QED BY <1>7, Zenon
<1>9. InOrder(S, n) = first[n]
  BY Zenon DEF InOrder
<1> HIDE DEF first
<1>10. first[0] = <<>> /\ DOMAIN first = 0..n
  BY <1>8
<1>11. ASSUME NEW k \in 1..n PROVE first[k] = More(k, first[k - 1])
  <2> HIDE DEF More
  <2>1. k \in 0..n /\ k # 0
    OBVIOUS
  <2>2. first[k] = Steps(first)[k]
    BY <1>8, Zenon
  <2> QED BY <2>1, <2>2
<1>12. \A k \in 0..n : first[k] \in V
  <2> DEFINE T == { k \in 0..n : first[k] \in V }
  <2>1. 0 \in T
    BY <1>1, <1>10
  <2>2. ASSUME NEW k \in 1..n, k - 1 \in T PROVE k \in T
    <3>1. More(k, first[k - 1]) \in V
      BY <1>2, <2>2
    <3> QED BY <1>11, <3>1
  <2> HIDE DEF T
  <2>3. \A k \in 0..n : k \in T
    BY <2>1, <2>2, UpTo
  <2> QED BY <2>3 DEF T
<1>13. first \in [0..n -> V]
  <2>1. first = [k \in 0..n |-> first[k]]
    BY <1>8
  <2> HIDE DEF V
  <2> QED BY <1>12, <2>1
<1> QED BY <1>9, <1>10, <1>11, <1>13 DEF OrderedBy

\* As far as two sets agree, so do their orders.
LEMMA OrderedAlike ==
    ASSUME NEW n \in Nat, NEW m \in Nat, m <= n, NEW S, NEW T, NEW f, NEW g,
           OrderedBy(f, S, n), OrderedBy(g, T, m), \A k \in 1..m : k \in S <=> k \in T
    PROVE  f[m] = g[m]
<1> DEFINE same == { k \in 0..m : f[k] = g[k] }
<1>1. 0 \in same
  BY DEF OrderedBy
<1>2. ASSUME NEW k \in 1..m, k - 1 \in same PROVE k \in same
  <2>1. k \in 1..n /\ k \in 0..m
    OBVIOUS
  <2>2. /\ f[k] = IF k \in S THEN Append(f[k - 1], k) ELSE f[k - 1]
        /\ g[k] = IF k \in T THEN Append(g[k - 1], k) ELSE g[k - 1]
    BY <2>1 DEF OrderedBy
  <2>3. f[k - 1] = g[k - 1]
    BY <1>2
  <2> QED BY <2>1, <2>2, <2>3
<1> HIDE DEF same
<1>3. \A k \in 0..m : k \in same
  BY <1>1, <1>2, UpTo
<1>4. m \in same
  BY <1>3
<1> QED BY <1>4 DEF same

LEMMA InOrderAlike ==
    ASSUME NEW n \in Nat, NEW S, NEW T, \A k \in 1..n : k \in S <=> k \in T
    PROVE  InOrder(S, n) = InOrder(T, n)
<1>1. PICK f : OrderedBy(f, S, n) /\ InOrder(S, n) = f[n]
  BY InOrderSteps
<1>2. PICK g : OrderedBy(g, T, n) /\ InOrder(T, n) = g[n]
  BY InOrderSteps
<1>3. n <= n
  OBVIOUS
<1> QED BY <1>1, <1>2, <1>3, OrderedAlike

\* One number more.
LEMMA InOrderMore ==
    ASSUME NEW n \in Nat, NEW S
    PROVE  /\ InOrder(S, 0) = <<>>
           /\ InOrder(S, n) \in Seq(1..n)
           /\ InOrder(S, n + 1) = IF n + 1 \in S THEN Append(InOrder(S, n), n + 1)
                                  ELSE InOrder(S, n)
<1>1. PICK f : OrderedBy(f, S, n) /\ InOrder(S, n) = f[n]
  BY InOrderSteps
<1>2. PICK g : OrderedBy(g, S, n + 1) /\ InOrder(S, n + 1) = g[n + 1]
  BY InOrderSteps
<1>3. PICK h : OrderedBy(h, S, 0) /\ InOrder(S, 0) = h[0]
  BY InOrderSteps
<1>4. g[n] = f[n]
  <2>1. n + 1 \in Nat /\ n <= n + 1
    OBVIOUS
  <2> QED BY <1>1, <1>2, <2>1, OrderedAlike
<1>5. n + 1 \in 1..(n + 1) /\ (n + 1) - 1 = n /\ n \in 0..n
  OBVIOUS
<1>6. g[n + 1] = IF n + 1 \in S THEN Append(g[n], n + 1) ELSE g[n]
  BY <1>2, <1>5 DEF OrderedBy
<1>7. f[n] \in Seq(1..n)
  BY <1>1, <1>5 DEF OrderedBy
<1>8. InOrder(S, 0) = <<>>
  BY <1>3 DEF OrderedBy
<1> QED BY <1>1, <1>2, <1>4, <1>6, <1>7, <1>8

-----------------------------------------------------------------------------
\* The sequences of a sequence, one after the other.

FlatBy(f, s, A) ==
    /\ f \in [0..Len(s) -> Seq(A)]
    /\ f[0] = <<>>
    /\ \A k \in 1..Len(s) : f[k] = f[k - 1] \o s[k]

LEMMA FlattenSteps ==
    ASSUME NEW A, NEW s \in Seq(Seq(A))
    PROVE  \E f : FlatBy(f, s, A) /\ Flatten(s) = f[Len(s)]
<1> DEFINE n == Len(s)
           V == Seq(A)
           step == [kv \in (1..n) \X V |-> kv[2] \o s[kv[1]]]
           Steps(g) == [k \in 0..n |-> IF k = 0 THEN <<>> ELSE g[k - 1] \o s[k]]
           first == CHOOSE g : g = Steps(g)
<1>1. <<>> \in V /\ n \in Nat
  OBVIOUS
<1>2. ASSUME NEW k \in 1..n, NEW b \in V PROVE b \o s[k] \in V
  <2>1. s[k] \in Seq(A)
    OBVIOUS
  <2> HIDE DEF n
  <2> QED BY <2>1
<1>3. IsStep(step, n, V)
  <2> HIDE DEF V, n
  <2>1. \A kv \in (1..n) \X V : kv[2] \o s[kv[1]] \in V
    BY <1>2
  <2> QED BY <2>1 DEF IsStep
<1>4. PICK g : StepsThrough(g, n, V, <<>>, step)
  <2> HIDE DEF step, V, n
  <2> QED BY <1>1, <1>3, StepByStep
<1>5. /\ g \in [0..n -> V] /\ g[0] = <<>>
      /\ \A k \in 1..n : g[k] = step[<<k, g[k - 1]>>]
  BY <1>4, Zenon DEF StepsThrough
<1>6. ASSUME NEW k \in 1..n PROVE g[k] = g[k - 1] \o s[k]
  <2> HIDE DEF V, step
  <2>1. k - 1 \in 0..n
    BY <1>1
  <2>2. g[k - 1] \in V
    BY <1>5, <2>1
  <2> HIDE DEF n
  <2> USE DEF step
  <2>3. step[<<k, g[k - 1]>>] = g[k - 1] \o s[k]
    BY <2>2
  <2> QED BY <1>5, <2>3
<1>7. g = Steps(g)
  <2> HIDE DEF V
  <2>1. \A k \in 0..n : k = 0 \/ k \in 1..n
    OBVIOUS
  <2> QED BY <1>5, <1>6, <2>1
<1>8. first = Steps(first)
  <2> HIDE DEF Steps
  <2> QED BY <1>7, Zenon
<1>9. Flatten(s) = first[n]
  BY Zenon DEF Flatten
<1> HIDE DEF first
<1>10. first[0] = <<>> /\ DOMAIN first = 0..n
  BY <1>8
<1>11. ASSUME NEW k \in 1..n PROVE first[k] = first[k - 1] \o s[k]
  <2>1. k \in 0..n /\ k # 0
    OBVIOUS
  <2>2. first[k] = Steps(first)[k]
    BY <1>8, Zenon
  <2> QED BY <2>1, <2>2
<1>12. \A k \in 0..n : first[k] \in V
  <2> HIDE DEF n, V
  <2> DEFINE T == { k \in 0..n : first[k] \in V }
  <2>1. 0 \in T
    BY <1>1, <1>10
  <2>2. ASSUME NEW k \in 1..n, k - 1 \in T PROVE k \in T
    <3>1. first[k - 1] \o s[k] \in V
      BY <1>2, <2>2
    <3>2. k \in 0..n
      BY <1>1
    <3> QED BY <1>11, <3>1, <3>2
  <2> HIDE DEF T
  <2>3. \A k \in 0..n : k \in T
    BY <1>1, <2>1, <2>2, UpTo
  <2> QED BY <2>3 DEF T
<1>13. first \in [0..n -> V]
  <2>1. first = [k \in 0..n |-> first[k]]
    BY <1>8
  <2> HIDE DEF V
  <2> QED BY <1>12, <2>1
<1> QED BY <1>9, <1>10, <1>11, <1>13 DEF FlatBy

LEMMA FlattenMore ==
    ASSUME NEW A, NEW s \in Seq(Seq(A)), NEW x \in Seq(A)
    PROVE  /\ Flatten(<<>>) = <<>>
           /\ Flatten(s) \in Seq(A)
           /\ Flatten(Append(s, x)) = Flatten(s) \o x
<1> DEFINE n == Len(s)
           s2 == Append(s, x)
<1>1. /\ s2 \in Seq(Seq(A)) /\ Len(s2) = n + 1 /\ n \in Nat /\ s2[n + 1] = x
      /\ \A k \in 1..n : s2[k] = s[k]
  OBVIOUS
<1>2. PICK f : FlatBy(f, s, A) /\ Flatten(s) = f[n]
  BY FlattenSteps
<1>3. PICK g : FlatBy(g, s2, A) /\ Flatten(s2) = g[n + 1]
  <2> HIDE DEF s2
  <2> QED BY <1>1, FlattenSteps
<1>4. Flatten(<<>>) = <<>>
  <2>1. <<>> \in Seq(Seq(A)) /\ Len(<<>>) = 0
    OBVIOUS
  <2>2. PICK h : FlatBy(h, <<>>, A) /\ Flatten(<<>>) = h[Len(<<>>)]
    BY <2>1, FlattenSteps
  <2> QED BY <2>1, <2>2 DEF FlatBy
<1>5. f[n] \in Seq(A)
  <2>1. f \in [0..n -> Seq(A)]
    BY <1>2 DEF FlatBy
  <2>2. n \in 0..n
    BY <1>1
  <2> HIDE DEF n, s2
  <2> QED BY <2>1, <2>2
<1>6. /\ f[0] = <<>> /\ g[0] = <<>>
      /\ \A k \in 1..n : f[k] = f[k - 1] \o s[k]
      /\ \A k \in 1..(n + 1) : g[k] = g[k - 1] \o s2[k]
  BY <1>1, <1>2, <1>3 DEF FlatBy
<1> HIDE DEF s2, n
<1> DEFINE same == { k \in 0..n : f[k] = g[k] }
<1>7. 0 \in same
  BY <1>1, <1>6
<1>8. ASSUME NEW k \in 1..n, k - 1 \in same PROVE k \in same
  <2>1. k \in 1..(n + 1) /\ k \in 0..n
    BY <1>1
  <2>2. f[k] = f[k - 1] \o s[k] /\ g[k] = g[k - 1] \o s[k]
    BY <1>1, <1>6, <2>1
  <2> QED BY <1>8, <2>1, <2>2
<1> HIDE DEF same
<1>9. \A k \in 0..n : k \in same
  BY <1>1, <1>7, <1>8, UpTo
<1>10. f[n] = g[n]
  BY <1>1, <1>9 DEF same
<1>11. g[n + 1] = g[n] \o x
  <2>1. n + 1 \in 1..(n + 1) /\ (n + 1) - 1 = n
    BY <1>1
  <2> QED BY <1>1, <1>6, <2>1
<1> QED BY <1>2, <1>3, <1>4, <1>5, <1>10, <1>11 DEF n, s2

-----------------------------------------------------------------------------
\* What is kept of a sequence, text by text.

\* What is kept of the first n.
KeptTo(s, n, none, u) ==
    LET order == InOrder(Counted(s, none, u), n) IN [k \in DOMAIN order |-> s[order[k]]]

\* A text is kept if it is not none and, when each is wanted once, not among
\* those before it.
LEMMA KeptMore ==
    ASSUME NEW A, NEW s \in Seq(A), NEW none, NEW u, NEW n \in 0..(Len(s) - 1)
    PROVE  /\ KeptTo(s, n, none, u) \in Seq(A)
           /\ KeptTo(s, n + 1, none, u) =
                IF s[n + 1] # none /\ (u => \A j \in 1..n : s[j] # s[n + 1])
                THEN Append(KeptTo(s, n, none, u), s[n + 1]) ELSE KeptTo(s, n, none, u)
<1> DEFINE S == Counted(s, none, u)
           o == InOrder(S, n)
           o2 == InOrder(S, n + 1)
           K(q) == [k \in DOMAIN q |-> s[q[k]]]
<1>1. n \in Nat /\ Len(s) \in Nat /\ n + 1 \in 1..Len(s) /\ (n + 1) - 1 = n
  OBVIOUS
<1>2. /\ o \in Seq(1..n)
      /\ o2 = IF n + 1 \in S THEN Append(o, n + 1) ELSE o
  <2> HIDE DEF S
  <2> QED BY <1>1, InOrderMore
<1>3. n + 1 \in S <=> s[n + 1] # none /\ (u => \A j \in 1..n : s[j] # s[n + 1])
  BY <1>1 DEF Counted
<1> HIDE DEF o, o2, S
<1>4. K(o) \in Seq(A)
  <2>1. \A k \in 1..Len(o) : s[o[k]] \in A
    <3> SUFFICES ASSUME NEW k \in 1..Len(o) PROVE s[o[k]] \in A
      OBVIOUS
    <3>1. o[k] \in 1..n
      BY <1>2
    <3>2. o[k] \in 1..Len(s)
      BY <1>1, <3>1
    <3> QED BY <3>2
  <2>2. DOMAIN o = 1..Len(o) /\ Len(o) \in Nat
    BY <1>2
  <2> QED BY <2>1, <2>2
<1>5. CASE n + 1 \in S
  <2>1. o2 = Append(o, n + 1) /\ Len(o) \in Nat
    BY <1>2, <1>5
  <2>2. K(o2) = Append(K(o), s[n + 1])
    <3>1. Len(K(o)) = Len(o) /\ DOMAIN o2 = 1..(Len(o) + 1) /\ DOMAIN K(o) = 1..Len(o)
      BY <1>2, <1>4, <2>1
    <3>2. Append(K(o), s[n + 1]) = [k \in 1..(Len(o) + 1) |-> IF k = Len(o) + 1 THEN s[n + 1] ELSE K(o)[k]]
      BY <1>4, <3>1
    <3>3. ASSUME NEW k \in 1..(Len(o) + 1)
          PROVE  s[o2[k]] = IF k = Len(o) + 1 THEN s[n + 1] ELSE K(o)[k]
      <4>1. o2[k] = IF k = Len(o) + 1 THEN n + 1 ELSE o[k]
        BY <1>2, <2>1
      <4>2. k # Len(o) + 1 => k \in DOMAIN o
        BY <1>2
      <4> QED BY <4>1, <4>2
    <3>4. K(o2) = [k \in 1..(Len(o) + 1) |-> s[o2[k]]]
      BY <3>1
    <3> HIDE DEF K
    <3> QED BY <3>2, <3>3, <3>4
  <2> QED BY <1>3, <1>4, <1>5, <2>2 DEF KeptTo, o, o2, S
<1>6. CASE n + 1 \notin S
  <2>1. K(o2) = K(o)
    BY <1>2, <1>6
  <2> QED BY <1>3, <1>4, <1>6, <2>1 DEF KeptTo, o, o2, S
<1> QED BY <1>5, <1>6

LEMMA KeptAll ==
    ASSUME NEW A, NEW s \in Seq(A), NEW none, NEW u
    PROVE  /\ KeptTo(s, 0, none, u) = <<>>
           /\ KeptTo(s, Len(s), none, u) = Kept(s, none, u)
           /\ Kept(s, none, u) \in Seq(A)
<1>1. InOrder(Counted(s, none, u), 0) = <<>>
  BY InOrderMore
<1>2. KeptTo(s, 0, none, u) = <<>>
  BY <1>1 DEF KeptTo
<1>3. KeptTo(s, Len(s), none, u) = Kept(s, none, u)
  BY DEF KeptTo, Kept
<1>4. KeptTo(s, Len(s), none, u) \in Seq(A)
  <2> DEFINE o == InOrder(Counted(s, none, u), Len(s))
  <2>1. o \in Seq(1..Len(s))
    <3>1. Len(s) \in Nat
      OBVIOUS
    <3> QED BY <3>1, InOrderMore
  <2> HIDE DEF o
  <2>2. \A k \in 1..Len(o) : s[o[k]] \in A
    BY <2>1
  <2>3. DOMAIN o = 1..Len(o) /\ Len(o) \in Nat
    BY <2>1
  <2>4. [k \in DOMAIN o |-> s[o[k]]] \in Seq(A)
    BY <2>2, <2>3
  <2> QED BY <2>4 DEF KeptTo, o
<1> QED BY <1>2, <1>3, <1>4

-----------------------------------------------------------------------------
\* Cutting a sequence, text by text.

\* SubSeq of a sequence that is one longer.
LEMMA SubSeqMore ==
    ASSUME NEW A, NEW K \in Seq(A), NEW x \in A, NEW a \in Nat \ {0}, a <= Len(K) + 1
    PROVE  /\ \A b \in Nat : b <= Len(K) => SubSeq(Append(K, x), a, b) = SubSeq(K, a, b)
           /\ SubSeq(Append(K, x), a, Len(K) + 1) = Append(SubSeq(K, a, Len(K)), x)
<1> DEFINE L == Append(K, x)
<1>1. /\ L \in Seq(A) /\ Len(L) = Len(K) + 1 /\ Len(K) \in Nat
      /\ \A i \in 1..Len(K) : L[i] = K[i]
      /\ L[Len(K) + 1] = x
  OBVIOUS
<1> HIDE DEF L
<1>2. ASSUME NEW b \in Nat, b <= Len(K) PROVE SubSeq(L, a, b) = SubSeq(K, a, b)
  <2>1. \A i \in 1..(1 + b - a) : L[i + a - 1] = K[i + a - 1]
    BY <1>1, <1>2
  <2> QED BY <1>1, <1>2, <2>1
<1>3. SubSeq(L, a, Len(K) + 1) = Append(SubSeq(K, a, Len(K)), x)
  <2> DEFINE k == Len(K) + 1
  <2>1. CASE a = k
    <3>1. SubSeq(K, a, Len(K)) = <<>>
      <4>1. Len(K) < a
        BY <1>1, <2>1
      <4> QED BY <1>1, <4>1, SubSeqEmpty
    <3>2. SubSeq(L, k, k) = <<L[k]>>
      <4>1. k \in 1..Len(L) /\ k \in k..Len(L) /\ k < k + 1
        BY <1>1
      <4>2. SubSeq(L, k, k) = <<L[k]>> \o SubSeq(L, k + 1, k)
        BY <1>1, <4>1, SubSeqRecursiveFirst
      <4>3. SubSeq(L, k + 1, k) = <<>>
        BY <1>1, <4>1, SubSeqEmpty
      <4>4. <<L[k]>> \in Seq(A)
        BY <1>1
      <4> QED BY <4>2, <4>3, <4>4, ConcatEmptySeq
    <3> QED BY <1>1, <2>1, <3>1, <3>2
  <2>2. CASE a <= Len(K)
    <3>1. a \in 1..Len(L) /\ Len(L) \in a..Len(L) /\ Len(L) - 1 = Len(K)
      BY <1>1, <2>2
    <3>2. SubSeq(L, a, Len(L)) = SubSeq(L, a, Len(K)) \o <<x>>
      BY <1>1, <3>1, SubSeqRecursiveSecond
    <3>3. SubSeq(L, a, Len(K)) = SubSeq(K, a, Len(K))
      BY <1>1, <1>2
    <3>4. SubSeq(K, a, Len(K)) \in Seq(A)
      <4>1. \A i \in a..Len(K) : K[i] \in A
        BY <1>1
      <4> QED BY <1>1, <4>1, SubSeqProperties
    <3>5. SubSeq(K, a, Len(K)) \o <<x>> = Append(SubSeq(K, a, Len(K)), x)
      BY <3>4
    <3> QED BY <1>1, <3>2, <3>3, <3>5
  <2> QED BY <1>1, <2>1, <2>2
<1> QED BY <1>2, <1>3 DEF L

\* k pieces of m are no more than q of them.
LEMMA Multiples ==
    ASSUME NEW q \in Nat, NEW k \in 0..q, NEW m \in Nat \ {0}
    PROVE  /\ k * m \in Nat /\ q * m \in Nat
           /\ k * m <= q * m
           /\ (k + 1) * m = k * m + m
           /\ k # q => k * m + m <= q * m
OBVIOUS

LEMMA Quotient ==
    ASSUME NEW q \in Nat, NEW m \in Nat \ {0}, NEW r \in 0..(m - 1)
    PROVE  (q * m + r) \div m = q
OBVIOUS

\* What Append is, number by number.
LEMMA AppendIs ==
    ASSUME NEW B, NEW p \in Seq(B), NEW x
    PROVE  Append(p, x) = [k \in 1..(Len(p) + 1) |-> IF k = Len(p) + 1 THEN x ELSE p[k]]
<1> DEFINE p2 == Append(p, x)
<1>1. p2 \in Seq(B \cup {x}) /\ Len(p2) = Len(p) + 1 /\ Len(p) \in Nat
  OBVIOUS
<1>2. \A k \in 1..(Len(p) + 1) : p2[k] = IF k = Len(p) + 1 THEN x ELSE p[k]
  OBVIOUS
<1> HIDE DEF p2
<1>3. p2 = [k \in 1..(Len(p) + 1) |-> p2[k]]
  BY <1>1
<1> QED BY <1>2, <1>3 DEF p2

\* P are the pieces of m that K has been cut into, g what is left of it.
CutSoFar(P, g, K, m) ==
    IF m > 0 THEN /\ Len(K) = Len(P) * m + Len(g)
                  /\ g = SubSeq(K, Len(P) * m + 1, Len(K))
                  /\ \A k \in 1..Len(P) : P[k] = SubSeq(K, (k - 1) * m + 1, k * m)
    ELSE P = <<>> /\ g = K

LEMMA CutBegins ==
    ASSUME NEW m \in Int
    PROVE  CutSoFar(<<>>, <<>>, <<>>, m)
<1>1. CASE m > 0
  <2>1. Len(<<>>) = 0 /\ Len(<<>>) * m = 0
    BY <1>1
  <2>2. SubSeq(<<>>, 1, 0) = <<>>
    BY SubSeqEmpty
  <2> QED BY <1>1, <2>1, <2>2 DEF CutSoFar
<1>2. CASE ~(m > 0)
  BY <1>2 DEF CutSoFar
<1> QED BY <1>1, <1>2

\* A text more: the rest grows by it, or becomes a piece when it is complete.
LEMMA CutGrows ==
    ASSUME NEW A, NEW P \in Seq(Seq(A)), NEW g \in Seq(A), NEW K \in Seq(A), NEW x \in A,
           NEW m \in Int, CutSoFar(P, g, K, m)
    PROVE  /\ CutSoFar(P, Append(g, x), Append(K, x), m)
           /\ m > 0 /\ Len(g) + 1 = m
                => CutSoFar(Append(P, Append(g, x)), <<>>, Append(K, x), m)
<1> DEFINE q == Len(P)
           h == Append(g, x)
           L == Append(K, x)
           P2 == Append(P, h)
<1>1. /\ h \in Seq(A) /\ Len(h) = Len(g) + 1 /\ Len(g) \in Nat
      /\ L \in Seq(A) /\ Len(L) = Len(K) + 1 /\ Len(K) \in Nat
      /\ P2 \in Seq(Seq(A)) /\ Len(P2) = q + 1 /\ q \in Nat
      /\ P2[q + 1] = h /\ \A k \in 1..q : P2[k] = P[k]
  OBVIOUS
<1>2. CASE ~(m > 0)
  BY <1>2 DEF CutSoFar
<1>3. CASE m > 0
  <2>1. /\ Len(K) = q * m + Len(g)
        /\ g = SubSeq(K, q * m + 1, Len(K))
        /\ \A k \in 1..q : P[k] = SubSeq(K, (k - 1) * m + 1, k * m)
    BY <1>3 DEF CutSoFar
  <2> HIDE DEF q, h, L, P2
  <2>2. m \in Nat \ {0} /\ q \in 0..q
    BY <1>1, <1>3
  <2>3. PICK c \in Nat : c = q * m /\ (q + 1) * m = c + m
    BY <1>1, <2>2, Multiples
  <2>4. Len(K) = c + Len(g)
    BY <2>1, <2>3
  <2>9. g = SubSeq(K, c + 1, Len(K))
    BY <2>1, <2>3
  <2>5. h = SubSeq(L, c + 1, Len(L))
    <3>1. c + 1 \in Nat \ {0} /\ c + 1 <= Len(K) + 1
      BY <1>1, <2>4
    <3>2. SubSeq(L, c + 1, Len(K) + 1) = Append(SubSeq(K, c + 1, Len(K)), x)
      BY <3>1, SubSeqMore DEF L
    <3> QED BY <1>1, <2>9, <3>2 DEF h
  <2>6. ASSUME NEW k \in 1..q PROVE P[k] = SubSeq(L, (k - 1) * m + 1, k * m)
    <3>1. k \in 0..q /\ k - 1 \in 0..q /\ (k - 1) + 1 = k /\ k - 1 # q
      BY <1>1
    <3>2. PICK d \in Nat, e \in Nat : d = (k - 1) * m /\ e = k * m /\ e <= c /\ e = d + m
      <4>1. k * m \in Nat /\ (k - 1) * m \in Nat /\ k * m <= q * m /\ k * m = (k - 1) * m + m
        BY <1>1, <2>2, <3>1, Multiples
      <4> QED BY <2>3, <4>1
    <3>3. d + 1 \in Nat \ {0} /\ d + 1 <= Len(K) + 1 /\ e <= Len(K)
      <4>1. d \in Nat /\ e \in Nat /\ e <= c /\ e = d + m /\ Len(g) \in Nat
        BY <1>1, <3>2
      <4> HIDE <3>2
      <4> QED BY <2>2, <2>4, <4>1
    <3>4. SubSeq(L, d + 1, e) = SubSeq(K, d + 1, e)
      BY <3>2, <3>3, SubSeqMore DEF L
    <3> QED BY <2>1, <3>2, <3>4
  <2>7. CutSoFar(P, h, L, m)
    <3>1. Len(L) = c + Len(h)
      BY <1>1, <2>4
    <3> QED BY <1>3, <2>3, <2>5, <2>6, <3>1 DEF CutSoFar, q
  <2>8. ASSUME Len(g) + 1 = m PROVE CutSoFar(P2, <<>>, L, m)
    <3>0. Len(L) = c + m
      <4>1. Len(L) = Len(K) + 1 /\ Len(g) \in Nat
        BY <1>1
      <4> QED BY <2>2, <2>4, <2>8, <4>1
    <3>1. Len(L) = c + m /\ Len(P2) * m = c + m /\ Len(<<>>) = 0
      BY <1>1, <2>3, <3>0
    <3>2. SubSeq(L, (c + m) + 1, Len(L)) = <<>>
      <4>1. Len(L) < (c + m) + 1 /\ (c + m) + 1 \in Int /\ Len(L) \in Int
        BY <1>1, <2>2, <3>1
      <4> QED BY <4>1, SubSeqEmpty
    <3>3. ASSUME NEW k \in 1..Len(P2) PROVE P2[k] = SubSeq(L, (k - 1) * m + 1, k * m)
      <4>1. CASE k \in 1..q
        BY <1>1, <2>6, <4>1
      <4>2. CASE k = q + 1
        <5>1. k - 1 = q
          BY <1>1, <4>2
        <5>2. (k - 1) * m = c /\ k * m = Len(L)
          BY <2>3, <3>1, <4>2, <5>1
        <5> QED BY <1>1, <2>5, <4>2, <5>2
      <4> QED BY <1>1, <4>1, <4>2
    <3>4. Len(L) = (c + m) + 0
      BY <2>2, <3>1
    <3> QED BY <1>3, <3>1, <3>2, <3>3, <3>4 DEF CutSoFar
  <2> QED BY <2>7, <2>8 DEF h, L, P2
<1> QED BY <1>2, <1>3

\* When nothing is to come, the rest is the last piece.
LEMMA CutEnds ==
    ASSUME NEW A, NEW P \in Seq(Seq(A)), NEW g \in Seq(A), NEW K \in Seq(A),
           NEW m \in Int, CutSoFar(P, g, K, m), m > 0 => Len(g) < m
    PROVE  Cut(K, m) = IF g = <<>> THEN P ELSE Append(P, g)
<1> DEFINE w == IF m > 0 THEN m ELSE Len(K) + 1
           n == Len(K)
           q == Len(P)
           R == IF g = <<>> THEN P ELSE Append(P, g)
           piece(k) == SubSeq(K, (k - 1) * w + 1, IF k * w < n THEN k * w ELSE n)
<1>1. /\ n \in Nat /\ q \in Nat /\ Len(g) \in 0..(w - 1) /\ w \in Nat \ {0}
      /\ g = <<>> <=> Len(g) = 0
  <2>1. CASE m > 0
    BY <2>1
  <2>2. CASE ~(m > 0)
    BY <2>2 DEF CutSoFar
  <2> QED BY <2>1, <2>2
<1>2. /\ n = q * w + Len(g)
      /\ g = SubSeq(K, q * w + 1, n)
      /\ \A k \in 1..q : P[k] = SubSeq(K, (k - 1) * w + 1, k * w)
  <2>1. CASE m > 0
    BY <2>1 DEF CutSoFar
  <2>2. CASE ~(m > 0)
    <3>1. P = <<>> /\ g = K /\ q = 0
      BY <2>2 DEF CutSoFar
    <3>2. 0 * w = 0 /\ SubSeq(K, 1, n) = K
      BY <1>1, SubSeqFull
    <3>3. n = 0 * w + Len(g) /\ 0 * w + 1 = 1
      <4>1. n = 0 + Len(g) /\ 0 + 1 = 1
        BY <1>1, <3>1
      <4> HIDE DEF w, n
      <4> QED BY <3>2, <4>1
    <3>4. \A k \in 1..0 : P[k] = SubSeq(K, (k - 1) * w + 1, k * w)
      OBVIOUS
    <3> HIDE DEF w, q, n
    <3> QED BY <3>1, <3>2, <3>3, <3>4
  <2> QED BY <2>1, <2>2
<1>3. Cut(K, m) = [k \in 1..((n + w - 1) \div w) |-> piece(k)]
  BY DEF Cut
<1> DEFINE l == IF g = <<>> THEN q ELSE q + 1
<1>4. R = [k \in 1..l |-> IF k = q + 1 THEN g ELSE P[k]]
  <2>1. CASE g = <<>>
    <3>1. \A k \in 1..q : k # q + 1
      BY <1>1
    <3>2. P = [k \in 1..q |-> P[k]]
      OBVIOUS
    <3> HIDE DEF q
    <3> QED BY <2>1, <3>1, <3>2
  <2>2. CASE g # <<>>
    <3>1. Append(P, g) = [k \in 1..(q + 1) |-> IF k = q + 1 THEN g ELSE P[k]]
      BY AppendIs
    <3> QED BY <2>2, <3>1
  <2> QED BY <2>1, <2>2
<1> HIDE DEF w, q, n
<1>5. PICK c \in Nat : c = q * w /\ (q + 1) * w = c + w
  <2>1. q \in 0..q
    BY <1>1
  <2> QED BY <1>1, <2>1, Multiples
<1>10. n = c + Len(g)
  BY <1>2, <1>5
<1>6. (n + w - 1) \div w = l
  <2>1. CASE g = <<>>
    <3>1. n + w - 1 = c + (w - 1) /\ w - 1 \in 0..(w - 1)
      BY <1>1, <1>10, <2>1
    <3>2. (q * w + (w - 1)) \div w = q
      BY <1>1, <3>1, Quotient
    <3> QED BY <1>5, <2>1, <3>1, <3>2
  <2>2. CASE g # <<>>
    <3>1. n + w - 1 = (c + w) + (Len(g) - 1) /\ Len(g) - 1 \in 0..(w - 1) /\ q + 1 \in Nat
      BY <1>1, <1>10, <2>2
    <3>2. ((q + 1) * w + (Len(g) - 1)) \div w = q + 1
      BY <1>1, <3>1, Quotient
    <3> QED BY <1>5, <2>2, <3>1, <3>2
  <2> QED BY <2>1, <2>2
<1>7. ASSUME NEW k \in 1..l PROVE piece(k) = IF k = q + 1 THEN g ELSE P[k]
  <2>1. CASE k \in 1..q
    <3>1. k \in 0..q /\ k # q + 1
      BY <1>1, <2>1
    <3>2. PICK d \in Nat : d = k * w /\ d <= c
      <4>1. k * w \in Nat /\ k * w <= q * w
        BY <1>1, <3>1, Multiples
      <4> QED BY <1>5, <4>1
    <3>3. (IF d < n THEN d ELSE n) = d
      BY <1>1, <1>10, <3>2
    <3> QED BY <1>2, <2>1, <3>1, <3>2, <3>3
  <2>2. CASE k = q + 1
    <3>1. k - 1 = q /\ k * w = c + w /\ ~(c + w < n)
      BY <1>1, <1>5, <1>10, <2>2
    <3> QED BY <1>2, <2>2, <3>1
  <2> QED BY <1>1, <2>1, <2>2
<1> HIDE DEF piece, l, R
<1>8. Cut(K, m) = [k \in 1..l |-> piece(k)]
  BY <1>3, <1>6
<1>9. Cut(K, m) = R
  BY <1>4, <1>7, <1>8
<1> QED BY <1>9 DEF R, q

\* The pieces of a sequence are sequences of its texts.
LEMMA CutIsPieces ==
    ASSUME NEW A, NEW K \in Seq(A), NEW m \in Int
    PROVE  Cut(K, m) \in Seq(Seq(A))
<1> DEFINE w == IF m > 0 THEN m ELSE Len(K) + 1
           n == Len(K)
           l == (n + w - 1) \div w
           piece(k) == SubSeq(K, (k - 1) * w + 1, IF k * w < n THEN k * w ELSE n)
<1>1. n \in Nat /\ w \in Nat \ {0} /\ n + w - 1 \in Nat
  OBVIOUS
<1> HIDE DEF w
<1>2. l \in Nat
  <2> HIDE DEF n
  <2>1. PICK a \in Nat : a = n + w - 1
    BY <1>1
  <2>2. a \div w \in Nat
    BY <1>1
  <2> QED BY <2>1, <2>2
<1>3. ASSUME NEW k \in 1..l PROVE piece(k) \in Seq(A)
  <2> HIDE DEF n, l
  <2>1. k - 1 \in 0..k /\ k \in 0..k /\ k \in Nat
    BY <1>2
  <2>2. PICK c \in Nat, d \in Nat : c = (k - 1) * w /\ d = k * w
    BY <1>1, <2>1, Multiples
  <2>3. PICK e \in Nat : e = (IF d < n THEN d ELSE n) /\ e <= n
    BY <1>1
  <2>4. piece(k) = SubSeq(K, c + 1, e)
    BY <2>2, <2>3
  <2>5. \A i \in (c + 1)..e : K[i] \in A
    BY <2>3 DEF n
  <2> HIDE DEF piece
  <2> QED BY <2>4, <2>5, SubSeqProperties
<1>4. Cut(K, m) = [k \in 1..l |-> piece(k)]
  BY DEF Cut, w
<1> HIDE DEF l, piece
<1> QED BY <1>2, <1>3, <1>4

-----------------------------------------------------------------------------
\* The groups of the first n pages.
Done(ps, n, none, m, u) == Flatten([i \in 1..n |-> Cut(Kept(ps[i], none, u), m)])

LEMMA Longer ==
    ASSUME NEW B, NEW n \in Nat, NEW f, \A i \in 1..(n + 1) : f[i] \in B
    PROVE  /\ [i \in 1..n |-> f[i]] \in Seq(B)
           /\ [i \in 1..(n + 1) |-> f[i]] = Append([i \in 1..n |-> f[i]], f[n + 1])
<1> DEFINE p == [i \in 1..n |-> f[i]]
<1>1. p \in Seq(B) /\ Len(p) = n
  OBVIOUS
<1>2. Append(p, f[n + 1]) = [k \in 1..(n + 1) |-> IF k = n + 1 THEN f[n + 1] ELSE p[k]]
  <2> HIDE DEF p
  <2> QED BY <1>1, AppendIs
<1>3. \A k \in 1..(n + 1) : f[k] = IF k = n + 1 THEN f[n + 1] ELSE p[k]
  OBVIOUS
<1> HIDE DEF p
<1> QED BY <1>1, <1>2, <1>3 DEF p

LEMMA DoneMore ==
    ASSUME NEW A, NEW ps \in Seq(Seq(A)), NEW n \in 0..(Len(ps) - 1), NEW none, NEW m \in Int, NEW u
    PROVE  /\ Done(ps, 0, none, m, u) = <<>>
           /\ Done(ps, n, none, m, u) \in Seq(Seq(A))
           /\ Done(ps, n + 1, none, m, u) = Done(ps, n, none, m, u) \o Cut(Kept(ps[n + 1], none, u), m)
<1> DEFINE f == [i \in 1..Len(ps) |-> Cut(Kept(ps[i], none, u), m)]
           B == Seq(Seq(A))
<1>1. \A i \in 1..Len(ps) : f[i] \in B /\ f[i] = Cut(Kept(ps[i], none, u), m)
  <2> SUFFICES ASSUME NEW i \in 1..Len(ps) PROVE f[i] \in B
    OBVIOUS
  <2>1. ps[i] \in Seq(A)
    OBVIOUS
  <2>2. Kept(ps[i], none, u) \in Seq(A)
    BY <2>1, KeptAll
  <2> QED BY <2>2, CutIsPieces
<1>2. n \in Nat /\ n + 1 \in 1..Len(ps) /\ \A i \in 1..(n + 1) : i \in 1..Len(ps)
  OBVIOUS
<1> HIDE DEF f, B
<1>3. /\ [i \in 1..n |-> f[i]] \in Seq(B)
      /\ [i \in 1..(n + 1) |-> f[i]] = Append([i \in 1..n |-> f[i]], f[n + 1])
  BY <1>1, <1>2, Longer
<1>4. ASSUME NEW j \in {n, n + 1}
      PROVE  Done(ps, j, none, m, u) = Flatten([i \in 1..j |-> f[i]])
  <2>1. [i \in 1..j |-> f[i]] = [i \in 1..j |-> Cut(Kept(ps[i], none, u), m)]
    BY <1>1, <1>2
  <2> QED BY <2>1 DEF Done
<1>5. f[n + 1] \in B
  BY <1>1, <1>2
<1>6. Flatten(<<>>) = <<>>
  BY <1>3, <1>5, FlattenMore DEF B
<1>7. [i \in 1..0 |-> Cut(Kept(ps[i], none, u), m)] = <<>>
  OBVIOUS
<1>8. Done(ps, 0, none, m, u) = <<>>
  BY <1>6, <1>7 DEF Done
<1> DEFINE before == [i \in 1..n |-> f[i]]
<1>9. /\ Flatten(before) \in B
      /\ Flatten(Append(before, f[n + 1])) = Flatten(before) \o f[n + 1]
  <2> HIDE DEF before
  <2>1. before \in Seq(Seq(Seq(A))) /\ f[n + 1] \in Seq(Seq(A))
    BY <1>3, <1>5 DEF B, before
  <2> QED BY <2>1, FlattenMore DEF B
<1>10. Done(ps, n, none, m, u) = Flatten(before) /\ Done(ps, n + 1, none, m, u) = Flatten(Append(before, f[n + 1]))
  BY <1>3, <1>4
<1>11. f[n + 1] = Cut(Kept(ps[n + 1], none, u), m)
  BY <1>1, <1>2
<1> HIDE DEF before
<1> QED BY <1>8, <1>9, <1>10, <1>11 DEF B

\* Pieces pushed one after the other.
LEMMA PushPiece ==
    ASSUME NEW B, NEW d \in Seq(B), NEW P \in Seq(B), NEW h \in B
    PROVE  /\ Append(d \o P, h) = d \o Append(P, h)
           /\ Append(P, h) \in Seq(B)
           /\ d \o <<>> = d
OBVIOUS

\* s in pieces of one text.
LEMMA CutOne ==
    ASSUME NEW A, NEW s \in Seq(A)
    PROVE  Cut(s, 1) = [k \in DOMAIN s |-> <<s[k]>>]
<1> DEFINE n == Len(s)
           piece(k) == SubSeq(s, (k - 1) * 1 + 1, IF k * 1 < n THEN k * 1 ELSE n)
<1>1. n \in Nat /\ DOMAIN s = 1..n
  OBVIOUS
<1>2. Cut(s, 1) = [k \in 1..((n + 1 - 1) \div 1) |-> piece(k)]
  BY DEF Cut
<1> HIDE DEF n
<1>3. (n + 1 - 1) \div 1 = n
  BY <1>1
<1>4. ASSUME NEW k \in 1..n PROVE piece(k) = <<s[k]>>
  <2>1. (k - 1) * 1 + 1 = k /\ (IF k * 1 < n THEN k * 1 ELSE n) = k
    BY <1>1
  <2>2. SubSeq(s, k, k) = <<s[k]>> \o SubSeq(s, k + 1, k)
    <3>1. k \in 1..Len(s) /\ k \in k..Len(s)
      BY <1>1 DEF n
    <3> QED BY <3>1, SubSeqRecursiveFirst
  <2>3. SubSeq(s, k + 1, k) = <<>>
    <3>1. k + 1 \in Int /\ k \in Int /\ k < k + 1
      BY <1>1
    <3> QED BY <3>1, SubSeqEmpty
  <2>4. <<s[k]>> \in Seq(A)
    BY <1>1
  <2>5. <<s[k]>> \o <<>> = <<s[k]>>
    BY <2>4, ConcatEmptySeq
  <2> QED BY <2>1, <2>2, <2>3, <2>5
<1> HIDE DEF piece
<1> QED BY <1>1, <1>2, <1>3, <1>4

\* What is kept is not none.
LEMMA KeptClean ==
    ASSUME NEW A, NEW s \in Seq(A), NEW none, NEW u
    PROVE  Kept(s, none, u) \in Seq(A \ {none})
<1> DEFINE n == Len(s)
           T == { k \in 0..n : KeptTo(s, k, none, u) \in Seq(A \ {none}) }
<1>1. n \in Nat
  OBVIOUS
<1>2. 0 \in T
  <2>1. KeptTo(s, 0, none, u) = <<>>
    BY KeptAll
  <2>2. 0 \in 0..n
    BY <1>1
  <2>3. KeptTo(s, 0, none, u) \in Seq(A \ {none})
    <3>1. \A B : <<>> \in Seq(B)
      OBVIOUS
    <3> QED BY <2>1, <3>1
  <2> QED BY <2>2, <2>3
<1>3. ASSUME NEW k \in 1..n, k - 1 \in T PROVE k \in T
  <2>1. /\ k - 1 \in 0..(n - 1) /\ (k - 1) + 1 = k /\ k \in 0..n
        /\ KeptTo(s, k - 1, none, u) \in Seq(A \ {none})
    BY <1>1, <1>3
  <2>2. KeptTo(s, (k - 1) + 1, none, u) =
          IF s[(k - 1) + 1] # none /\ (u => \A j \in 1..(k - 1) : s[j] # s[(k - 1) + 1])
          THEN Append(KeptTo(s, k - 1, none, u), s[(k - 1) + 1]) ELSE KeptTo(s, k - 1, none, u)
    <3> DEFINE m == k - 1
    <3>1. m \in 0..(Len(s) - 1)
      BY <1>1
    <3> HIDE DEF m
    <3>2. KeptTo(s, m + 1, none, u) =
            IF s[m + 1] # none /\ (u => \A j \in 1..m : s[j] # s[m + 1])
            THEN Append(KeptTo(s, m, none, u), s[m + 1]) ELSE KeptTo(s, m, none, u)
      BY <3>1, KeptMore
    <3> QED BY <3>2 DEF m
  <2>3. s[k] # none => Append(KeptTo(s, k - 1, none, u), s[k]) \in Seq(A \ {none})
    BY <2>1
  <2> QED BY <2>1, <2>2, <2>3
<1> HIDE DEF T
<1>4. \A k \in 0..n : k \in T
  BY <1>1, <1>2, <1>3, UpTo
<1>5. KeptTo(s, n, none, u) \in Seq(A \ {none})
  BY <1>1, <1>4 DEF T
<1> QED BY <1>5, KeptAll

\* The values of F at the chosen numbers up to n, in order.
Chosen(S, n, F) == LET order == InOrder(S, n) IN [k \in DOMAIN order |-> F[order[k]]]

\* A chosen number more is a value more.
LEMMA ChosenMore ==
    ASSUME NEW n \in Nat, NEW S, NEW F
    PROVE  /\ Chosen(S, 0, F) = <<>>
           /\ Chosen(S, n + 1, F) = IF n + 1 \in S THEN Append(Chosen(S, n, F), F[n + 1])
                                    ELSE Chosen(S, n, F)
<1> DEFINE o == InOrder(S, n)
           o2 == InOrder(S, n + 1)
<1>1. InOrder(S, 0) = <<>> /\ o \in Seq(1..n) /\ o2 = IF n + 1 \in S THEN Append(o, n + 1) ELSE o
  BY InOrderMore
<1>2. Chosen(S, 0, F) = <<>>
  BY <1>1 DEF Chosen
<1>3. /\ Chosen(S, n, F) = [k \in DOMAIN o |-> F[o[k]]]
      /\ Chosen(S, n + 1, F) = [k \in DOMAIN o2 |-> F[o2[k]]]
  BY DEF Chosen
<1> HIDE DEF o, o2
<1>4. CASE n + 1 \in S
  <2>1. /\ Len(o) \in Nat /\ DOMAIN o = 1..Len(o) /\ DOMAIN o2 = 1..(Len(o) + 1)
        /\ \A k \in 1..Len(o) : o2[k] = o[k]
        /\ o2[Len(o) + 1] = n + 1
    BY <1>1, <1>4
  <2> DEFINE g == [k \in 1..(Len(o) + 1) |-> F[o2[k]]]
             B == { g[k] : k \in 1..(Len(o) + 1) }
  <2>2. /\ \A k \in 1..(Len(o) + 1) : g[k] \in B
        /\ \A k \in 1..Len(o) : g[k] = F[o[k]]
        /\ g[Len(o) + 1] = F[n + 1]
    BY <2>1
  <2>3. Chosen(S, n + 1, F) = [k \in 1..(Len(o) + 1) |-> g[k]]
    BY <1>3, <2>1
  <2> HIDE DEF g, B
  <2>4. [k \in 1..(Len(o) + 1) |-> g[k]] = Append([k \in 1..Len(o) |-> g[k]], g[Len(o) + 1])
    BY <2>1, <2>2, Longer
  <2>5. [k \in 1..Len(o) |-> g[k]] = Chosen(S, n, F)
    BY <1>3, <2>1, <2>2
  <2> QED BY <1>2, <1>4, <2>2, <2>3, <2>4, <2>5
<1>5. CASE n + 1 \notin S
  BY <1>1, <1>2, <1>3, <1>5
<1> QED BY <1>4, <1>5

\* Append adds one element.
LEMMA AppendSet ==
    ASSUME NEW B, NEW g \in Seq(B), NEW x \in B
    PROVE  Append(g, x) \in Seq(B) /\ ToSet(Append(g, x)) = ToSet(g) \cup {x}
<1> DEFINE h == Append(g, x)
<1>1. /\ h \in Seq(B) /\ DOMAIN h = 1..(Len(g) + 1) /\ DOMAIN g = 1..Len(g) /\ Len(g) \in Nat
      /\ h[Len(g) + 1] = x
      /\ \A k \in 1..Len(g) : h[k] = g[k] /\ k \in 1..(Len(g) + 1)
      /\ \A k \in 1..(Len(g) + 1) : k \in 1..Len(g) \/ k = Len(g) + 1
      /\ Len(g) + 1 \in 1..(Len(g) + 1)
  OBVIOUS
<1> HIDE DEF h
<1>2. ASSUME NEW y PROVE y \in ToSet(h) <=> y \in ToSet(g) \cup {x}
  <2>1. y \in ToSet(h) <=> \E k \in 1..(Len(g) + 1) : h[k] = y
    BY <1>1 DEF ToSet
  <2>2. y \in ToSet(g) <=> \E k \in 1..Len(g) : g[k] = y
    BY <1>1 DEF ToSet
  <2> QED BY <1>1, <2>1, <2>2
<1> QED BY <1>1, <1>2 DEF h
=============================================================================
