-------------------------- MODULE BucketingProofs --------------------------
(***************************************************************************)
(* LlamaChunker::chunk and chunk_batch for every text, every placement of  *)
(* sentence ends, every set of parameters and every batch: the buckets are *)
(* the specified ones, what is left out is bounded, and the sequence ids   *)
(* and statistics of a batch are those of its chunks.                      *)
(* The point about the buckets is that the fill loop, which stops at each  *)
(* sentence end, goes on until the bucket is full or the text is used up;  *)
(* the point about the statistics is that their sums go through the texts  *)
(* one by one while the property takes the whole result at once.           *)
(***************************************************************************)
EXTENDS Bucketing, SequenceLemmas, FiniteSetTheorems

Active == pc \in {"open", "fill", "stats"}

\* Where bucket k ends in a text that is long enough.
Reach(k) == (k - 1) * Fresh + capacity

\* Chunk k is the specified bucket, padded on the left.
Filled(k) ==
    LET missing == params.target_len - Len(BucketAt(k))
    IN  result[k].tokens = [i \in 1..params.target_len |->
                               IF i <= missing THEN Pad ELSE BucketAt(k)[i - missing]]

\* What chunk() may return.
Chunks == [tokens : Seq(Nat), text : Seq(Nat), seq_id : Nat, is_pad : BOOLEAN]

PackTypes ==
    /\ texts \in Seq(Texts)
    /\ params \in ParamSets
    /\ index \in Nat /\ 1 <= index
    /\ seq \in Nat /\ cursor \in Nat
    /\ result \in Seq(Chunks) /\ Len(result) = seq

CallFacts ==
    /\ Active => index <= Len(texts) /\ ValidParams /\ N > 0
    /\ ~Active => seq = 0 /\ cursor = 0 /\ prev_end = 0

\* Every chunk so far is needed, not too short, and the specified one.
ChunksInv ==
    Active => \A k \in 1..seq : Filled(k) /\ IsNeeded(k) /\ (k > 1 => ~TooShort(k))

\* Where the packing loop is.
LoopInv ==
    /\ pc = "open" =>
          /\ cursor = prev_end
          /\ cursor = IF seq = 0 THEN 0 ELSE Smaller(N, Reach(seq))
    /\ pc = "fill" =>
          /\ IsNeeded(seq + 1)
          /\ fill_cursor \in Nat
          /\ seq * Fresh <= fill_cursor
          /\ fill_cursor <= Smaller(N, Reach(seq + 1))
          /\ bucket = Slice(seq * Fresh, fill_cursor)
    /\ pc = "stats" => seq > 0 /\ (~IsNeeded(seq + 1) \/ TooShort(seq + 1))

PackInv == PackTypes /\ CallFacts /\ ChunksInv /\ LoopInv

-----------------------------------------------------------------------------
\* Arithmetic and sequences.

\* Multiples of the fresh part: the next one, and their order.
LEMMA NextMultiple ==
    ASSUME NEW a \in Nat, NEW k \in Int
    PROVE  (k + 1) * a = k * a + a /\ k * a \in Int
OBVIOUS

LEMMA MultiplesOrdered ==
    ASSUME NEW a \in Nat, NEW j \in Nat, NEW k \in Nat, j <= k
    PROVE  j * a <= k * a
<1>1. PICK d \in Nat : k = j + d
  <2>1. k - j \in Nat /\ k = j + (k - j)
    OBVIOUS
  <2> QED BY <2>1
<1>2. k * a = j * a + d * a /\ d * a \in Nat /\ j * a \in Nat
  BY <1>1
<1> QED BY <1>2

LEMMA MultiplesGrow ==
    ASSUME NEW a \in Nat, 1 <= a, NEW k \in Nat
    PROVE  k <= k * a
<1>1. PICK d \in Nat : a = 1 + d
  <2>1. a - 1 \in Nat /\ a = 1 + (a - 1)
    OBVIOUS
  <2> QED BY <2>1
<1>2. k * a = k + k * d /\ k * d \in Nat
  BY <1>1
<1> QED BY <1>2

\* A slice is a sequence of its length; two that meet make one.
LEMMA SliceType ==
    ASSUME NEW a \in Nat, NEW b \in Nat, a <= b
    PROVE  /\ Slice(a, b) \in Seq(Nat)
           /\ Len(Slice(a, b)) = b - a
           /\ \A i \in 1..(b - a) : Slice(a, b)[i] = a + i
BY DEF Slice

LEMMA SlicesMeet ==
    ASSUME NEW a \in Nat, NEW b \in Nat, NEW c \in Nat, a <= b, b <= c
    PROVE  Slice(a, b) \o Slice(b, c) = Slice(a, c)
<1> DEFINE s == Slice(a, b)
           t == Slice(b, c)
<1>1. s \in Seq(Nat) /\ Len(s) = b - a /\ \A i \in 1..(b - a) : s[i] = a + i
  BY SliceType
<1>2. t \in Seq(Nat) /\ Len(t) = c - b /\ \A i \in 1..(c - b) : t[i] = b + i
  BY SliceType
<1> HIDE DEF s, t
<1>3. Len(s) + Len(t) = c - a
  BY <1>1, <1>2
<1>4. /\ s \o t \in Seq(Nat) /\ Len(s \o t) = Len(s) + Len(t)
      /\ \A i \in 1..(Len(s) + Len(t)) :
            (s \o t)[i] = IF i <= Len(s) THEN s[i] ELSE t[i - Len(s)]
  BY <1>1, <1>2, ConcatProperties, Zenon
<1> DEFINE st == s \o t
<1> HIDE DEF st
<1>5. /\ st \in Seq(Nat) /\ Len(st) = c - a
      /\ \A i \in 1..(c - a) : st[i] = IF i <= b - a THEN s[i] ELSE t[i - (b - a)]
  BY <1>1, <1>3, <1>4, Zenon DEF st
<1>6. ASSUME NEW i \in 1..(c - a)
      PROVE  st[i] = a + i
  <2>1. CASE i <= b - a
    BY <1>1, <1>5, <2>1
  <2>2. CASE ~(i <= b - a)
    <3>1. i - (b - a) \in 1..(c - b) /\ b + (i - (b - a)) = a + i
      BY <2>2
    <3>2. t[i - (b - a)] = a + i
      BY <1>2, <3>1
    <3> QED BY <1>5, <2>2, <3>2
  <2> QED BY <2>1, <2>2
<1>7. /\ Slice(a, c) \in Seq(Nat) /\ Len(Slice(a, c)) = c - a
      /\ \A i \in 1..(c - a) : Slice(a, c)[i] = a + i
  BY SliceType
<1>8. st = Slice(a, c)
  BY <1>5, <1>6, <1>7, SeqEqual
<1> QED BY <1>8 DEF s, t, st

\* Padding fills the bucket up to the target, and a bucket that is full is
\* left as it is.
LEMMA PaddedBucket ==
    ASSUME NEW b \in Seq(Nat), params.target_len \in Nat, Len(b) <= params.target_len
    PROVE  /\ pad_to_target(b) \in Seq(Nat)
           /\ pad_to_target(b) = [i \in 1..params.target_len |->
                                   IF i <= params.target_len - Len(b) THEN Pad
                                   ELSE b[i - (params.target_len - Len(b))]]
<1> DEFINE T == params.target_len
           m == T - Len(b)
           p == [i \in 1..m |-> Pad]
           spec == [i \in 1..T |-> IF i <= m THEN Pad ELSE b[i - m]]
<1>1. T \in Nat /\ Len(b) \in Nat /\ m \in Nat /\ m + Len(b) = T
  OBVIOUS
<1>2. spec \in Seq(Nat) /\ Len(spec) = T
  <2>1. ASSUME NEW i \in 1..T PROVE (IF i <= m THEN Pad ELSE b[i - m]) \in Nat
    <3>1. i <= m \/ i - m \in 1..Len(b)
      BY <1>1
    <3> QED BY <3>1 DEF Pad
  <2>2. spec \in [1..T -> Nat]
    BY <2>1
  <2>3. ASSUME NEW f \in [1..T -> Nat] PROVE f \in Seq(Nat) /\ Len(f) = T
    <3>1. f \in Seq(Nat)
      <4>1. T \in Nat
        BY <1>1
      <4> HIDE DEF T
      <4>2. f \in UNION { [1..n -> Nat] : n \in Nat }
        BY <4>1
      <4> QED BY <4>2, SeqDef
    <3>2. DOMAIN f = 1..T /\ Len(f) \in Nat /\ DOMAIN f = 1..Len(f)
      BY <3>1, LenProperties
    <3> QED BY <1>1, <3>1, <3>2
  <2> HIDE DEF spec
  <2> QED BY <2>2, <2>3
<1>s. \A i \in 1..T : spec[i] = IF i <= m THEN Pad ELSE b[i - m]
  OBVIOUS
<1>3. CASE Len(b) >= T
  <2>1. m = 0 /\ Len(b) = T
    BY <1>1, <1>3
  <2>2. pad_to_target(b) = SubSeq(b, 1, T)
    BY <1>3 DEF pad_to_target
  <2>3. SubSeq(b, 1, T) = b
    BY <2>1, SubSeqFull
  <2> HIDE DEF spec, m
  <2>4. ASSUME NEW i \in 1..Len(b) PROVE b[i] = spec[i]
    <3>1. i \in 1..T /\ ~(i <= m) /\ i - m = i
      BY <1>1, <2>1
    <3> QED BY <1>s, <3>1
  <2> QED BY <1>2, <2>1, <2>2, <2>3, <2>4, SeqEqual DEF spec
<1>4. CASE ~(Len(b) >= T)
  <2>1. pad_to_target(b) = p \o b
    BY <1>4 DEF pad_to_target
  <2>2. p \in Seq(Nat) /\ Len(p) = m /\ \A i \in 1..m : p[i] = Pad
    BY <1>1 DEF Pad
  <2> HIDE DEF p
  <2>3. /\ p \o b \in Seq(Nat) /\ Len(p \o b) = Len(p) + Len(b)
        /\ \A i \in 1..(Len(p) + Len(b)) :
              (p \o b)[i] = IF i <= Len(p) THEN p[i] ELSE b[i - Len(p)]
    BY <2>2, ConcatProperties, Zenon
  <2>4. Len(p) + Len(b) = T
    BY <1>1, <2>2
  <2> DEFINE q == p \o b
  <2>5. q \in Seq(Nat) /\ Len(q) = T
    BY <2>3, <2>4, Zenon
  <2>6. \A i \in 1..T : q[i] = IF i <= m THEN p[i] ELSE b[i - m]
    BY <2>2, <2>3, <2>4, Zenon
  <2> HIDE DEF q
  <2> HIDE DEF spec
  <2>7. ASSUME NEW i \in 1..T PROVE q[i] = spec[i]
    <3> HIDE DEF m
    <3>1. i \in 1..m \/ ~(i <= m)
      BY <1>1
    <3> QED BY <1>s, <2>2, <2>6, <3>1
  <2>8. q = spec
    BY <1>2, <2>5, <2>7, SeqEqual
  <2> QED BY <2>1, <2>5, <2>8 DEF q, spec
<1> QED BY <1>3, <1>4

\* The recovered text of a prefix of a bucket is a sequence of tokens.
LEMMA RecoveredType ==
    ASSUME NEW b \in Seq(Nat), NEW c \in Nat, c <= Len(b)
    PROVE  RecoveredText(b, c) \in Seq(Nat)
<1> DEFINE Next1(v, k) == IF b[k] = Pad THEN v ELSE Append(v, b[k])
           step == [kv \in (1..c) \X Seq(Nat) |-> Next1(kv[2], kv[1])]
           Steps(g) == [k \in 0..c |-> IF k = 0 THEN <<>>
                                       ELSE IF b[k] = Pad THEN g[k - 1]
                                       ELSE Append(g[k - 1], b[k])]
           pieces == CHOOSE g : g = Steps(g)
<1>1. ASSUME NEW k \in 1..c, NEW v \in Seq(Nat) PROVE Next1(v, k) \in Seq(Nat)
  <2>1. b[k] \in Nat
    OBVIOUS
  <2> QED BY <2>1, AppendProperties
<1>2. step \in [(1..c) \X Seq(Nat) -> Seq(Nat)]
  BY <1>1
<1>3. <<>> \in Seq(Nat)
  OBVIOUS
<1>4. PICK g : StepsThrough(g, c, Seq(Nat), <<>>, step)
  <2>1. IsStep(step, c, Seq(Nat))
    BY <1>2 DEF IsStep
  <2> HIDE DEF step
  <2> QED BY <1>3, <2>1, StepByStep
<1>g. /\ g \in [0..c -> Seq(Nat)] /\ g[0] = <<>>
      /\ \A k \in 1..c : g[k] = step[<<k, g[k - 1]>>]
  BY <1>4, Zenon DEF StepsThrough
<1>5. \A k \in 1..c : g[k] = Next1(g[k - 1], k)
  <2> SUFFICES ASSUME NEW k \in 1..c PROVE g[k] = Next1(g[k - 1], k)
    OBVIOUS
  <2>1. k - 1 \in 0..c /\ g[k - 1] \in Seq(Nat)
    BY <1>g
  <2>2. step[<<k, g[k - 1]>>] = Next1(g[k - 1], k)
    BY <2>1
  <2> QED BY <1>g, <2>2
<1>6. g = Steps(g)
  <2>1. \A k \in 0..c : k = 0 \/ k \in 1..c
    OBVIOUS
  <2> QED BY <1>g, <1>5, <2>1
<1>7. pieces = Steps(pieces)
  <2> HIDE DEF Steps
  <2> QED BY <1>6, Zenon
<1>8. RecoveredText(b, c) = pieces[c]
  BY Zenon DEF RecoveredText
<1> HIDE DEF pieces
<1> DEFINE S == { k \in 0..c : pieces[k] \in Seq(Nat) }
<1>9. 0 \in S
  BY <1>7
<1>10. ASSUME NEW k \in 1..c, k - 1 \in S PROVE k \in S
  <2>1. k \in 0..c /\ k # 0
    OBVIOUS
  <2>2. pieces[k] = Steps(pieces)[k]
    BY <1>7, Zenon
  <2>3. pieces[k] = Next1(pieces[k - 1], k)
    BY <2>1, <2>2
  <2>4. pieces[k - 1] \in Seq(Nat)
    BY <1>10
  <2>5. Next1(pieces[k - 1], k) \in Seq(Nat)
    <3> HIDE DEF Next1
    <3> QED BY <1>1, <2>4
  <2> QED BY <2>1, <2>3, <2>5
<1>11. c \in S
  <2> HIDE DEF S
  <2>1. \A k \in 0..c : k \in S
    BY <1>9, <1>10, UpTo
  <2> QED BY <2>1
<1> QED BY <1>8, <1>11

-----------------------------------------------------------------------------
\* Sums.

\* sum holds the sums of the first numbers of s.
SumsUp(sum, s) ==
    /\ sum \in [0..Len(s) -> Int]
    /\ sum[0] = 0
    /\ \A k \in 1..Len(s) : sum[k] = sum[k - 1] + s[k]

\* The sums of the first numbers exist, and stay in a set that is closed under
\* adding a number of the sequence.
LEMMA SumsExist ==
    ASSUME NEW V \in SUBSET Int, 0 \in V, NEW s \in Seq(V),
           \A v, w \in V : v + w \in V
    PROVE  \E sum \in [0..Len(s) -> V] : SumsUp(sum, s)
<1> DEFINE n == Len(s)
           step == [kv \in (1..n) \X V |-> kv[2] + s[kv[1]]]
<1>1. n \in Nat /\ \A k \in 1..n : s[k] \in V
  OBVIOUS
<1>2. IsStep(step, n, V)
  BY <1>1 DEF IsStep
<1>3. PICK g : StepsThrough(g, n, V, 0, step)
  <2> HIDE DEF step, n
  <2> QED BY <1>1, <1>2, StepByStep
<1>4. /\ g \in [0..n -> V] /\ g[0] = 0
      /\ \A k \in 1..n : g[k] = step[<<k, g[k - 1]>>]
  BY <1>3, Zenon DEF StepsThrough
<1>5. ASSUME NEW k \in 1..n PROVE g[k] = g[k - 1] + s[k]
  <2>1. k - 1 \in 0..n /\ g[k - 1] \in V
    BY <1>1, <1>4
  <2>2. step[<<k, g[k - 1]>>] = g[k - 1] + s[k]
    BY <2>1
  <2> QED BY <1>4, <2>2
<1>6. SumsUp(g, s)
  BY <1>4, <1>5 DEF SumsUp
<1> QED BY <1>4, <1>6

\* There is one such function.
LEMMA SumsUnique ==
    ASSUME NEW s \in Seq(Int), NEW f, NEW g, SumsUp(f, s), SumsUp(g, s)
    PROVE  f[Len(s)] = g[Len(s)]
<1> DEFINE n == Len(s)
           S == { k \in 0..n : f[k] = g[k] }
<1>1. n \in Nat /\ 0 \in S
  BY DEF SumsUp
<1>2. ASSUME NEW k \in 1..n, k - 1 \in S PROVE k \in S
  BY <1>2 DEF SumsUp
<1>3. n \in S
  <2> HIDE DEF S, n
  <2>1. \A k \in 0..n : k \in S
    BY <1>1, <1>2, UpTo
  <2> QED BY <1>1, <2>1
<1> QED BY <1>3

\* Total is the last of the sums.
LEMMA TotalIs ==
    ASSUME NEW s \in Seq(Int), NEW f, SumsUp(f, s)
    PROVE  Total(s) = f[Len(s)] /\ Total(s) \in Int
<1> DEFINE Steps(g) == [k \in 0..Len(s) |-> IF k = 0 THEN 0 ELSE g[k - 1] + s[k]]
           sum == CHOOSE g : g = Steps(g)
<1>1. ASSUME NEW k \in 0..Len(s), k # 0 PROVE k \in 1..Len(s) /\ k - 1 \in 0..Len(s)
  BY <1>1
<1>2. f = Steps(f)
  BY <1>1 DEF SumsUp
<1>3. sum = Steps(sum)
  <2> HIDE DEF Steps
  <2> QED BY <1>2, Zenon
<1>4. Total(s) = sum[Len(s)]
  BY Zenon DEF Total
<1> HIDE DEF sum
<1>5. DOMAIN sum = 0..Len(s) /\ sum[0] = 0
  BY <1>3
<1>6. ASSUME NEW k \in 1..Len(s) PROVE sum[k] = sum[k - 1] + s[k]
  <2>1. k \in 0..Len(s) /\ k # 0
    OBVIOUS
  <2>2. sum[k] = Steps(sum)[k]
    BY <1>3, Zenon
  <2> QED BY <2>1, <2>2
<1>7. ASSUME NEW k \in 0..Len(s) PROVE sum[k] \in Int
  <2> DEFINE S == { j \in 0..Len(s) : sum[j] \in Int }
  <2>1. 0 \in S
    BY <1>5
  <2>2. ASSUME NEW j \in 1..Len(s), j - 1 \in S PROVE j \in S
    BY <1>6, <2>2, SMTT(30)
  <2> HIDE DEF S
  <2>3. Len(s) \in Nat
    OBVIOUS
  <2>4. \A j \in 0..Len(s) : j \in S
    BY <2>1, <2>2, <2>3, UpTo
  <2> QED BY <2>4 DEF S
<1>8. sum \in [0..Len(s) -> Int]
  <2>1. sum = [k \in 0..Len(s) |-> sum[k]]
    BY <1>3
  <2> QED BY <1>7, <2>1
<1>9. SumsUp(sum, s)
  BY <1>5, <1>6, <1>8 DEF SumsUp
<1>10. sum[Len(s)] = f[Len(s)]
  BY <1>9, SumsUnique
<1>11. Len(s) \in 0..Len(s)
  OBVIOUS
<1> QED BY <1>4, <1>7, <1>10, <1>11

\* A total of natural numbers is one.
LEMMA TotalNat ==
    ASSUME NEW s \in Seq(Nat)
    PROVE  Total(s) \in Nat
<1>1. s \in Seq(Int)
  OBVIOUS
<1>2. PICK f \in [0..Len(s) -> Nat] : SumsUp(f, s)
  <2>1. 0 \in Nat /\ Nat \in SUBSET Int /\ \A v, w \in Nat : v + w \in Nat
    OBVIOUS
  <2> DEFINE V == Nat
  <2>2. V \in SUBSET Int /\ 0 \in V /\ s \in Seq(V) /\ \A v, w \in V : v + w \in V
    BY <2>1
  <2> HIDE DEF V
  <2>3. \E f \in [0..Len(s) -> V] : SumsUp(f, s)
    BY <2>2, SumsExist
  <2> QED BY <2>3 DEF V
<1>3. Total(s) = f[Len(s)]
  BY <1>1, <1>2, TotalIs
<1> QED BY <1>2, <1>3

\* The sums of a sequence of integers.
LEMMA TotalSums ==
    ASSUME NEW s \in Seq(Int)
    PROVE  \E f : SumsUp(f, s) /\ Total(s) = f[Len(s)] /\ Total(s) \in Int
<1> DEFINE V == Int
<1>1. V \in SUBSET Int /\ 0 \in V /\ s \in Seq(V) /\ \A v, w \in V : v + w \in V
  OBVIOUS
<1>2. PICK f \in [0..Len(s) -> V] : SumsUp(f, s)
  <2> HIDE DEF V
  <2> QED BY <1>1, SumsExist
<1> QED BY <1>2, TotalIs

LEMMA TotalEmpty == Total(<<>>) = 0
<1> DEFINE s == <<>>
<1>1. s \in Seq(Int) /\ Len(s) = 0
  OBVIOUS
<1>2. PICK f : SumsUp(f, s) /\ Total(s) = f[Len(s)]
  <2> HIDE DEF s
  <2> QED BY <1>1, TotalSums
<1> QED BY <1>1, <1>2 DEF SumsUp

\* The total of two sequences is that of one after the other.
LEMMA TotalConcat ==
    ASSUME NEW s \in Seq(Int), NEW t \in Seq(Int)
    PROVE  Total(s \o t) = Total(s) + Total(t)
<1>1. PICK f : SumsUp(f, s) /\ Total(s) = f[Len(s)] /\ Total(s) \in Int
  BY TotalSums
<1>2. PICK g : SumsUp(g, t) /\ Total(t) = g[Len(t)] /\ Total(t) \in Int
  BY TotalSums
<1> DEFINE m == Len(s)
           n == Len(t)
           h == [k \in 0..(m + n) |-> IF k <= m THEN f[k] ELSE f[m] + g[k - m]]
<1>3. /\ m \in Nat /\ n \in Nat /\ m \in 0..m
      /\ f \in [0..m -> Int] /\ f[0] = 0 /\ f[m] \in Int
      /\ g \in [0..n -> Int] /\ g[0] = 0
  BY <1>1, <1>2 DEF SumsUp
<1>4. /\ s \o t \in Seq(Int) /\ Len(s \o t) = m + n
      /\ \A i \in 1..(m + n) : (s \o t)[i] = IF i <= m THEN s[i] ELSE t[i - m]
  BY ConcatProperties, Zenon
<1> DEFINE st == s \o t
<1> HIDE DEF st
<1>5. ASSUME NEW k \in 0..(m + n) PROVE h[k] \in Int
  <2>1. CASE k <= m
    <3>1. k \in 0..m
      BY <1>3, <2>1
    <3> QED BY <1>3, <2>1, <3>1
  <2>2. CASE ~(k <= m)
    <3>1. k - m \in 0..n
      BY <1>3, <2>2
    <3>2. h[k] = f[m] + g[k - m] /\ g[k - m] \in Int
      <4>1. h[k] = f[m] + g[k - m]
        BY <2>2
      <4> HIDE DEF h
      <4> QED BY <1>3, <3>1, <4>1
    <3> HIDE DEF h, m
    <3> QED BY <1>3, <3>2
  <2> QED BY <2>1, <2>2
<1>6. h \in [0..(m + n) -> Int] /\ h[0] = 0
  BY <1>3, <1>5
<1>7. ASSUME NEW k \in 1..(m + n) PROVE h[k] = h[k - 1] + st[k]
  <2>1. st[k] = IF k <= m THEN s[k] ELSE t[k - m]
    BY <1>4 DEF st
  <2>2. CASE k <= m
    <3>1. k \in 1..m /\ k - 1 <= m /\ k - 1 \in 0..(m + n)
      BY <1>3, <2>2
    <3>2. f[k] = f[k - 1] + s[k]
      BY <1>1, <3>1 DEF SumsUp
    <3> QED BY <1>3, <2>1, <2>2, <3>1, <3>2
  <2>3. CASE ~(k <= m)
    <3>1. k - m \in 1..n /\ k - 1 \in 0..(m + n) /\ (k - 1) - m = (k - m) - 1
          /\ (k - m) - 1 \in 0..n
      BY <1>3, <2>3
    <3>2. g[k - m] = g[(k - m) - 1] + t[k - m]
      BY <1>2, <3>1 DEF SumsUp
    <3>3. h[k] = f[m] + g[k - m] /\ st[k] = t[k - m]
      BY <2>1, <2>3
    <3>4. h[k - 1] = f[m] + g[(k - m) - 1]
      <4>1. CASE k - 1 = m
        <5>1. (k - m) - 1 = 0 /\ h[k - 1] = f[m]
          BY <1>3, <3>1, <4>1
        <5> HIDE DEF h, m
        <5> QED BY <1>3, <5>1
      <4>2. CASE ~(k - 1 <= m)
        BY <3>1, <4>2
      <4>3. k - 1 = m \/ ~(k - 1 <= m)
        BY <1>3, <2>3
      <4> HIDE DEF h
      <4> QED BY <4>1, <4>2, <4>3
    <3>5. t[k - m] \in Int /\ g[k - m] \in Int /\ g[(k - m) - 1] \in Int
      <4>1. k - m \in 0..n /\ t \in [1..n -> Int]
        BY <3>1
      <4> HIDE DEF m, n
      <4> QED BY <1>3, <3>1, <4>1
    <3> DEFINE a == g[k - m]
               b == g[(k - m) - 1]
               d == t[k - m]
    <3>6. a \in Int /\ b \in Int /\ d \in Int /\ a = b + d /\ h[k] = f[m] + a
          /\ st[k] = d /\ h[k - 1] = f[m] + b
      BY <3>2, <3>3, <3>4, <3>5
    <3> HIDE DEF a, b, d, h, m
    <3> QED BY <1>3, <3>6
  <2> QED BY <2>2, <2>3
<1>8. h[m + n] = f[m] + g[n]
  <2>1. m + n \in 0..(m + n) /\ (m + n) - m = n
    BY <1>3
  <2>2. CASE n = 0
    BY <1>3, <2>1, <2>2
  <2>3. CASE n # 0
    BY <1>3, <2>1, <2>3
  <2> QED BY <2>2, <2>3
<1>9. Total(st) = h[m + n]
  <2>1. st \in Seq(Int) /\ Len(st) = m + n
    BY <1>4 DEF st
  <2> HIDE DEF h
  <2>2. SumsUp(h, st)
    BY <1>6, <1>7, <2>1 DEF SumsUp
  <2> QED BY <2>1, <2>2, TotalIs
<1> QED BY <1>1, <1>2, <1>8, <1>9 DEF st

\* What is missing to a fixed number at each place is, in total, what is
\* missing to that many times the number.
LEMMA TotalComplement ==
    ASSUME NEW s \in Seq(Int), NEW t \in Seq(Int), NEW c \in Nat,
           Len(s) = Len(t), \A i \in 1..Len(s) : s[i] + t[i] = c
    PROVE  Len(s) * c - Total(s) = Total(t)
<1>1. PICK f : SumsUp(f, s) /\ Total(s) = f[Len(s)] /\ Total(s) \in Int
  BY TotalSums
<1> DEFINE n == Len(s)
           h == [k \in 0..n |-> k * c - f[k]]
<1>2. n \in Nat /\ f \in [0..n -> Int] /\ f[0] = 0
  BY <1>1 DEF SumsUp
<1>3. h \in [0..n -> Int] /\ h[0] = 0
  <2>1. ASSUME NEW k \in 0..n PROVE h[k] \in Int
    <3>1. k * c \in Int /\ f[k] \in Int
      BY <1>2, SMTT(30)
    <3> QED BY <3>1
  <2>2. 0 * c = 0 /\ 0 \in 0..n
    BY <1>2
  <2>3. h[0] = 0
    BY <1>2, <2>2
  <2>4. h = [k \in 0..n |-> h[k]]
    OBVIOUS
  <2>5. h \in [0..n -> Int]
    <3> HIDE DEF h
    <3> QED BY <2>1, <2>4
  <2> QED BY <2>3, <2>5
<1>4. ASSUME NEW k \in 1..n PROVE h[k] = h[k - 1] + t[k]
  <2>1. k - 1 \in 0..n /\ k \in 0..n
    OBVIOUS
  <2>2. f[k] = f[k - 1] + s[k] /\ s[k] + t[k] = c
    BY <1>1 DEF SumsUp
  <2>3. f[k] \in Int /\ f[k - 1] \in Int /\ s[k] \in Int /\ t[k] \in Int
    <3>1. f[k] \in Int /\ f[k - 1] \in Int
      <4> HIDE DEF n
      <4> QED BY <1>2, <2>1
    <3>2. s[k] \in Int
      OBVIOUS
    <3>3. k \in 1..Len(t)
      OBVIOUS
    <3>4. t[k] \in Int
      BY <3>3
    <3> QED BY <3>1, <3>2, <3>4
  <2>4. k * c = (k - 1) * c + c /\ (k - 1) * c \in Int
    <3>1. k - 1 \in Int /\ (k - 1) + 1 = k
      OBVIOUS
    <3> QED BY <3>1, NextMultiple
  <2>5. h[k] = k * c - f[k] /\ h[k - 1] = (k - 1) * c - f[k - 1]
    BY <2>1
  <2> DEFINE a == k * c
             b == (k - 1) * c
  <2> HIDE DEF a, b, h
  <2>6. h[k] = a - f[k] /\ h[k - 1] = b - f[k - 1] /\ a = b + c /\ b \in Int
    BY <2>4, <2>5 DEF a, b
  <2> DEFINE x == f[k]
             y == f[k - 1]
             u == s[k]
             v == t[k]
  <2>7. /\ x \in Int /\ y \in Int /\ u \in Int /\ v \in Int
        /\ x = y + u /\ u + v = c /\ h[k] = a - x /\ h[k - 1] = b - y
    BY <2>2, <2>3, <2>6
  <2> HIDE DEF x, y, u, v
  <2> DEFINE p == h[k]
             q == h[k - 1]
  <2>8. p = a - x /\ q = b - y
    BY <2>7
  <2>9. p = q + v
    <3> HIDE DEF p, q
    <3> QED BY <2>6, <2>7, <2>8
  <2> QED BY <2>9 DEF v
<1>5. Total(t) = h[n]
  <2> HIDE DEF h
  <2>1. SumsUp(h, t)
    BY <1>3, <1>4 DEF SumsUp
  <2> QED BY <2>1, TotalIs
<1> QED BY <1>1, <1>2, <1>5

-----------------------------------------------------------------------------
\* The parameters and the positions.

\* A valid overlap leaves something fresh in every bucket.
LEMMA ParamFacts ==
    ASSUME PackTypes, ValidParams
    PROVE  /\ capacity \in Nat /\ 1 <= capacity
           /\ params.target_len \in Nat /\ capacity <= params.target_len
           /\ params.overlap_tokens \in Nat /\ params.overlap_tokens < capacity
           /\ Fresh \in Nat /\ 1 <= Fresh /\ Fresh + params.overlap_tokens = capacity
<1>1. params \in [target_len : Nat, pad_reserve : Nat,
                  overlap_tokens : Nat, min_fill_ratio : 0..100]
  BY ParamAssumption DEF PackTypes
<1> QED BY <1>1 DEF ValidParams, capacity, Fresh

LEMMA TextFacts ==
    ASSUME PackTypes, index <= Len(texts)
    PROVE  N \in Nat /\ text.sentence_ends \subseteq 1..N
BY TextAssumption DEF PackTypes, N, text

\* Bucket k + 1 begins where bucket k left off, but for the overlap.
LEMMA ReachFacts ==
    ASSUME PackTypes, ValidParams, NEW k \in Nat
    PROVE  /\ k * Fresh \in Nat
           /\ Reach(k + 1) = k * Fresh + capacity
           /\ k >= 1 => /\ Reach(k) = k * Fresh + params.overlap_tokens
                        /\ Reach(k) \in Nat
                        /\ IsNeeded(k + 1) <=> Reach(k) < N
<1>1. /\ capacity \in Nat /\ Fresh \in Nat /\ params.overlap_tokens \in Nat
      /\ Fresh + params.overlap_tokens = capacity
  BY ParamFacts
<1>2. k * Fresh \in Nat
  BY <1>1
<1>3. (k + 1) - 1 = k /\ (k + 1) - 2 = k - 1
  OBVIOUS
<1>4. k * Fresh = (k - 1) * Fresh + Fresh /\ (k - 1) * Fresh \in Int
  <2>1. (k - 1) + 1 = k
    OBVIOUS
  <2> QED BY <1>1, <2>1, NextMultiple
<1>5. Reach(k + 1) = k * Fresh + capacity
  BY <1>3 DEF Reach
<1>6. Reach(k) = k * Fresh + params.overlap_tokens
  BY <1>1, <1>2, <1>4 DEF Reach
<1>7. k >= 1 => (IsNeeded(k + 1) <=> Reach(k) < N)
  BY <1>3 DEF IsNeeded, Reach
<1> QED BY <1>1, <1>2, <1>5, <1>6, <1>7

\* The search for a sentence end goes forward and stays in its range.
LEMMA SentenceEndFound ==
    ASSUME PackTypes, index <= Len(texts),
           NEW from \in Nat, NEW limit \in Nat, from < limit, from < N
    PROVE  /\ find_sentence_end(from, limit) \in Nat
           /\ from < find_sentence_end(from, limit)
           /\ find_sentence_end(from, limit) <= Smaller(limit, N)
<1> DEFINE ends == {i \in text.sentence_ends : from < i /\ i <= Smaller(limit, N)}
           least == CHOOSE i \in ends : \A j \in ends : i <= j
<1>1. N \in Nat /\ ends \in SUBSET Nat
  BY TextFacts
<1>2. Smaller(limit, N) \in Nat /\ from < Smaller(limit, N)
  BY <1>1 DEF Smaller
<1>3. CASE ends = {}
  <2>1. find_sentence_end(from, limit) = Smaller(limit, N)
    BY <1>3 DEF find_sentence_end
  <2> QED BY <1>2, <2>1
<1>4. CASE ends # {}
  <2>1. find_sentence_end(from, limit) = least
    BY <1>4 DEF find_sentence_end
  <2>2. \E i \in ends : \A j \in ends : i <= j
    BY <1>1, <1>4, LeastElement
  <2>3. least \in ends
    BY <2>2
  <2> QED BY <1>1, <2>1, <2>3
<1> QED BY <1>3, <1>4

\* What a bucket is cut from, and how long it is.
LEMMA BucketFacts ==
    ASSUME PackTypes, ValidParams, index <= Len(texts), NEW k \in Nat, IsNeeded(k + 1)
    PROVE  /\ BucketAt(k + 1) = Slice(k * Fresh, Smaller(N, Reach(k + 1)))
           /\ k * Fresh <= Smaller(N, Reach(k + 1))
           /\ Smaller(N, Reach(k + 1)) \in Nat
           /\ Smaller(N, Reach(k + 1)) - k * Fresh <= capacity
<1>1. /\ capacity \in Nat /\ 1 <= capacity /\ Fresh \in Nat
      /\ params.overlap_tokens \in Nat
  BY ParamFacts
<1>2. /\ k * Fresh \in Nat /\ Reach(k + 1) = k * Fresh + capacity
      /\ k >= 1 => Reach(k) = k * Fresh + params.overlap_tokens /\ Reach(k) < N
  BY ReachFacts
<1>3. N \in Nat
  BY TextFacts
<1>4. BucketAt(k + 1) = Slice(k * Fresh, Smaller(N, Reach(k + 1)))
  <2>1. (k + 1) - 1 = k
    OBVIOUS
  <2> QED BY <1>2, <2>1 DEF BucketAt
<1>5. k * Fresh <= N
  <2>1. CASE k = 0
    BY <1>1, <1>3, <2>1
  <2>2. CASE k >= 1
    BY <1>1, <1>2, <1>3, <2>2
  <2> QED BY <2>1, <2>2
<1>6. Reach(k + 1) \in Nat /\ k * Fresh <= Reach(k + 1)
  BY <1>1, <1>2
<1>7. Smaller(N, Reach(k + 1)) \in {N, Reach(k + 1)} /\ Smaller(N, Reach(k + 1)) <= Reach(k + 1)
  BY <1>3, <1>6 DEF Smaller
<1> QED BY <1>1, <1>2, <1>3, <1>4, <1>5, <1>6, <1>7

\* While a text is packed, nothing that specifies its buckets changes.
LEMMA SameText ==
    ASSUME UNCHANGED <<args, index>>
    PROVE  /\ N' = N /\ capacity' = capacity /\ Fresh' = Fresh /\ (ValidParams' <=> ValidParams)
           /\ \A k \in Nat : /\ Reach(k)' = Reach(k)
                             /\ BucketAt(k)' = BucketAt(k)
                             /\ IsNeeded(k)' <=> IsNeeded(k)
                             /\ TooShort(k)' <=> TooShort(k)
                             /\ result'[k] = result[k] => (Filled(k)' <=> Filled(k))
<1>1. texts' = texts /\ params' = params /\ index' = index
  BY DEF args
<1>2. N' = N /\ capacity' = capacity
  BY <1>1 DEF N, text, capacity
<1>3. Fresh' = Fresh /\ (ValidParams' <=> ValidParams)
  BY <1>1, <1>2 DEF Fresh, ValidParams
<1>4. ASSUME NEW k \in Nat
      PROVE  /\ Reach(k)' = Reach(k)
             /\ BucketAt(k)' = BucketAt(k)
             /\ IsNeeded(k)' <=> IsNeeded(k)
  BY <1>2, <1>3 DEF Reach, BucketAt, IsNeeded
<1>5. ASSUME NEW k \in Nat
      PROVE  TooShort(k)' <=> TooShort(k)
  BY <1>1, <1>4 DEF TooShort, MostlyPad
<1>6. ASSUME NEW k \in Nat, result'[k] = result[k]
      PROVE  Filled(k)' <=> Filled(k)
  BY <1>1, <1>4, <1>6 DEF Filled
<1> QED BY <1>2, <1>3, <1>4, <1>5, <1>6, Zenon

\* A step inside the loop that neither adds a chunk nor leaves the text.
LEMMA ChunksKept ==
    ASSUME PackInv, Active, Active', cursor' \in Nat,
           UNCHANGED <<args, index, seq, result>>
    PROVE  PackTypes' /\ CallFacts' /\ ChunksInv'
<1>1. /\ UNCHANGED <<texts, params, index, seq, result>>
      /\ PackTypes /\ ValidParams /\ index <= Len(texts) /\ N > 0 /\ seq \in Nat
  BY DEF args, PackInv, PackTypes, CallFacts
<1>s. UNCHANGED <<args, index>>
  OBVIOUS
<1>2. /\ N' = N /\ (ValidParams' <=> ValidParams)
      /\ \A k \in Nat : /\ IsNeeded(k)' <=> IsNeeded(k)
                        /\ TooShort(k)' <=> TooShort(k)
                        /\ result'[k] = result[k] => (Filled(k)' <=> Filled(k))
  BY <1>s, SameText, Zenon
<1>3. PackTypes'
  BY <1>1 DEF PackTypes
<1>4. CallFacts'
  BY <1>1, <1>2 DEF CallFacts
<1>5. ChunksInv'
  <2>1. \A k \in 1..seq : Filled(k) /\ IsNeeded(k) /\ (k > 1 => ~TooShort(k))
    BY DEF PackInv, ChunksInv
  <2>2. ASSUME NEW k \in 1..seq
        PROVE  Filled(k)' /\ IsNeeded(k)' /\ (k > 1 => ~TooShort(k)')
    BY <1>1, <1>2, <2>1
  <2> QED BY <1>1, <2>2 DEF ChunksInv
<1> QED BY <1>3, <1>4, <1>5

-----------------------------------------------------------------------------
\* The steps of the loop.

\* A new bucket begins with the tokens its specification begins with.
LEMMA OpenStep == ASSUME PackInv, OpenBucket PROVE PackInv'
<1>1. /\ pc = "open" /\ cursor < N /\ pc' = "fill" /\ fill_cursor' = cursor
      /\ UNCHANGED <<texts, params, index, seq, cursor, prev_end, result>>
  BY DEF OpenBucket, args, batch
<1>2. /\ PackTypes /\ ValidParams /\ index <= Len(texts)
      /\ seq \in Nat /\ cursor \in Nat /\ cursor = prev_end
      /\ cursor = IF seq = 0 THEN 0 ELSE Smaller(N, Reach(seq))
  BY <1>1 DEF PackInv, PackTypes, CallFacts, LoopInv, Active
<1>3. N \in Nat
  BY <1>2, TextFacts
<1>4. /\ capacity \in Nat /\ 1 <= capacity /\ Fresh \in Nat
      /\ params.overlap_tokens \in Nat /\ params.overlap_tokens < capacity
      /\ Fresh + params.overlap_tokens = capacity
  BY <1>2, ParamFacts
<1>5. /\ seq * Fresh \in Nat /\ Reach(seq + 1) = seq * Fresh + capacity
      /\ seq >= 1 => /\ Reach(seq) = seq * Fresh + params.overlap_tokens
                     /\ IsNeeded(seq + 1) <=> Reach(seq) < N
  BY <1>2, ReachFacts
<1>6. /\ IsNeeded(seq + 1)
      /\ seq * Fresh <= cursor /\ cursor <= Smaller(N, Reach(seq + 1))
      /\ bucket' = Slice(seq * Fresh, cursor)
  <2>1. CASE seq = 0
    <3>1. cursor = 0 /\ seq * Fresh = 0
      BY <1>2, <1>4, <2>1
    <3>2. bucket' = <<>> /\ Slice(0, 0) = <<>>
      BY <2>1 DEF OpenBucket, Slice
    <3> QED BY <1>3, <1>4, <1>5, <2>1, <3>1, <3>2 DEF IsNeeded, Smaller
  <2>2. CASE seq >= 1
    <3>1. cursor = Reach(seq) /\ Reach(seq) < N
      BY <1>1, <1>2, <1>3, <1>4, <1>5, <2>2 DEF Smaller
    <3>2. seq * Fresh = prev_end - params.overlap_tokens
      BY <1>2, <1>4, <1>5, <2>2, <3>1
    <3>3. prev_end > params.overlap_tokens
      <4>1. 1 * Fresh <= seq * Fresh
        BY <1>2, <1>4, <2>2, MultiplesOrdered
      <4> QED BY <1>2, <1>4, <1>5, <2>2, <3>1, <4>1
    <3>4. bucket' = Slice(seq * Fresh, cursor)
      <4>1. CASE params.overlap_tokens > 0
        BY <1>2, <2>2, <3>2, <3>3, <4>1 DEF OpenBucket
      <4>2. CASE params.overlap_tokens = 0
        <5>1. bucket' = <<>>
          BY <4>2 DEF OpenBucket
        <5>2. seq * Fresh = cursor
          BY <1>2, <3>2, <4>2
        <5>3. Slice(cursor, cursor) = <<>>
          BY <1>2 DEF Slice
        <5> QED BY <5>1, <5>2, <5>3
      <4> QED BY <1>4, <4>1, <4>2
    <3> QED BY <1>1, <1>2, <1>3, <1>4, <1>5, <2>2, <3>1, <3>4 DEF Smaller
  <2> QED BY <1>2, <2>1, <2>2
<1>7. UNCHANGED <<args, index, seq, result>>
  BY <1>1 DEF args
<1>8. PackTypes' /\ CallFacts' /\ ChunksInv'
  BY <1>1, <1>2, <1>7, ChunksKept DEF Active
<1>9. LoopInv'
  <2>1. N' = N /\ Fresh' = Fresh /\ IsNeeded(seq + 1)' /\ Reach(seq + 1)' = Reach(seq + 1)
    <3>1. seq' = seq /\ seq + 1 \in Nat
      BY <1>1, <1>2
    <3>2. UNCHANGED <<args, index>>
      BY <1>7
    <3>3. /\ N' = N /\ Fresh' = Fresh
          /\ \A k \in Nat : (IsNeeded(k)' <=> IsNeeded(k)) /\ Reach(k)' = Reach(k)
      BY <3>2, SameText, Zenon
    <3> QED BY <1>6, <3>1, <3>3
  <2> QED BY <1>1, <1>2, <1>6, <2>1 DEF LoopInv, Smaller
<1> QED BY <1>8, <1>9 DEF PackInv

\* What is known when the fill loop is entered or goes on.
LEMMA FillFacts ==
    ASSUME PackInv, pc = "fill"
    PROVE  /\ PackTypes /\ ValidParams /\ index <= Len(texts) /\ seq \in Nat
           /\ N \in Nat /\ N > 0
           /\ seq * Fresh \in Nat /\ Reach(seq + 1) = seq * Fresh + capacity
           /\ capacity \in Nat /\ 1 <= capacity
           /\ IsNeeded(seq + 1) /\ fill_cursor \in Nat
           /\ seq * Fresh <= fill_cursor /\ fill_cursor <= Smaller(N, Reach(seq + 1))
           /\ bucket = Slice(seq * Fresh, fill_cursor)
           /\ Len(bucket) = fill_cursor - seq * Fresh
<1>1. /\ PackTypes /\ ValidParams /\ index <= Len(texts) /\ seq \in Nat /\ N > 0
      /\ IsNeeded(seq + 1) /\ fill_cursor \in Nat
      /\ seq * Fresh <= fill_cursor /\ fill_cursor <= Smaller(N, Reach(seq + 1))
      /\ bucket = Slice(seq * Fresh, fill_cursor)
  BY DEF PackInv, PackTypes, CallFacts, LoopInv, Active
<1>2. N \in Nat
  BY <1>1, TextFacts
<1>3. capacity \in Nat /\ 1 <= capacity
  BY <1>1, ParamFacts
<1>4. seq * Fresh \in Nat /\ Reach(seq + 1) = seq * Fresh + capacity
  BY <1>1, ReachFacts
<1>5. Len(bucket) = fill_cursor - seq * Fresh
  BY <1>1, <1>4, SliceType
<1> QED BY <1>1, <1>2, <1>3, <1>4, <1>5

\* A run up to a sentence end keeps to the bucket and to the text.
LEMMA FillStep == ASSUME PackInv, FillRun PROVE PackInv'
<1>1. /\ pc = "fill" /\ pc' = "fill" /\ MayFill
      /\ UNCHANGED <<args, index, seq, cursor, result>>
  BY DEF FillRun, batch
<1>2. /\ PackTypes /\ ValidParams /\ index <= Len(texts) /\ seq \in Nat
      /\ N \in Nat /\ seq * Fresh \in Nat /\ Reach(seq + 1) = seq * Fresh + capacity
      /\ capacity \in Nat /\ 1 <= capacity
      /\ IsNeeded(seq + 1) /\ fill_cursor \in Nat
      /\ seq * Fresh <= fill_cursor /\ fill_cursor <= Smaller(N, Reach(seq + 1))
      /\ bucket = Slice(seq * Fresh, fill_cursor)
      /\ Len(bucket) = fill_cursor - seq * Fresh
  BY <1>1, FillFacts
<1> DEFINE limit == fill_cursor + (capacity - Len(bucket))
           found == find_sentence_end(fill_cursor, limit)
<1>3. fill_cursor < N /\ Len(bucket) < capacity
  BY <1>1 DEF MayFill
<1>4. limit = Reach(seq + 1) /\ limit \in Nat /\ fill_cursor < limit
  BY <1>2, <1>3
<1>5. found \in Nat /\ fill_cursor < found /\ found <= Smaller(limit, N)
  BY <1>2, <1>3, <1>4, SentenceEndFound
<1>6. bucket' = bucket \o Slice(fill_cursor, found) /\ fill_cursor' = found
  <2>1. /\ bucket' = bucket \o Slice(fill_cursor, IF found = fill_cursor
                                                 THEN Smaller(N, limit) ELSE found)
        /\ fill_cursor' = IF found = fill_cursor THEN Smaller(N, limit) ELSE found
    BY Zenon DEF FillRun
  <2>2. found # fill_cursor
    BY <1>2, <1>5
  <2> QED BY <2>1, <2>2, Zenon
<1> HIDE DEF limit, found
<1>7. bucket' = Slice(seq * Fresh, found) /\ seq * Fresh <= found
  <2> DEFINE from == seq * Fresh
  <2>1. fill_cursor <= found /\ from <= found
    BY <1>2, <1>5
  <2>2. /\ from \in Nat /\ from <= fill_cursor /\ bucket = Slice(from, fill_cursor)
    BY <1>2
  <2> HIDE DEF from
  <2>3. bucket' = Slice(from, found)
    <3>1. fill_cursor \in Nat /\ found \in Nat
      BY <1>2, <1>5
    <3>2. Slice(from, fill_cursor) \o Slice(fill_cursor, found) = Slice(from, found)
      BY <2>1, <2>2, <3>1, SlicesMeet, Zenon
    <3> QED BY <1>6, <2>2, <3>2, Zenon
  <2> QED BY <2>1, <2>3 DEF from
<1>8. found <= Smaller(N, Reach(seq + 1))
  BY <1>2, <1>4, <1>5 DEF Smaller
<1>9. PackTypes' /\ CallFacts' /\ ChunksInv'
  <2>1. cursor' \in Nat /\ UNCHANGED <<args, index, seq, result>> /\ Active /\ Active'
    BY <1>1, <1>2 DEF PackTypes, Active
  <2> QED BY <2>1, ChunksKept
<1>10. LoopInv'
  <2>1. N' = N /\ Fresh' = Fresh /\ IsNeeded(seq + 1)' /\ Reach(seq + 1)' = Reach(seq + 1)
    <3>1. seq' = seq /\ seq + 1 \in Nat /\ UNCHANGED <<args, index>>
      BY <1>1, <1>2
    <3>2. /\ N' = N /\ Fresh' = Fresh
          /\ \A k \in Nat : (IsNeeded(k)' <=> IsNeeded(k)) /\ Reach(k)' = Reach(k)
      BY <3>1, SameText, Zenon
    <3> QED BY <1>2, <3>1, <3>2
  <2> QED BY <1>1, <1>2, <1>5, <1>6, <1>7, <1>8, <2>1 DEF LoopInv, Smaller
<1> QED BY <1>9, <1>10 DEF PackInv

\* The fill loop ends with the specified bucket.
LEMMA FillEnds ==
    ASSUME PackInv, pc = "fill", ~MayFill
    PROVE  /\ fill_cursor = Smaller(N, Reach(seq + 1))
           /\ bucket = BucketAt(seq + 1)
<1>1. /\ PackTypes /\ ValidParams /\ index <= Len(texts) /\ seq \in Nat
      /\ N \in Nat /\ seq * Fresh \in Nat /\ Reach(seq + 1) = seq * Fresh + capacity
      /\ capacity \in Nat /\ IsNeeded(seq + 1) /\ fill_cursor \in Nat
      /\ fill_cursor <= Smaller(N, Reach(seq + 1))
      /\ bucket = Slice(seq * Fresh, fill_cursor)
      /\ Len(bucket) = fill_cursor - seq * Fresh
  BY FillFacts
<1>2. fill_cursor >= N \/ fill_cursor >= Reach(seq + 1)
  BY <1>1 DEF MayFill
<1>3. fill_cursor = Smaller(N, Reach(seq + 1))
  BY <1>1, <1>2 DEF Smaller
<1>4. BucketAt(seq + 1) = Slice(seq * Fresh, Smaller(N, Reach(seq + 1)))
  BY <1>1, BucketFacts
<1> QED BY <1>1, <1>3, <1>4

\* The bucket that is emitted is chunk seq + 1 of the specification.
LEMMA EmitStep == ASSUME PackInv, EmitBucket PROVE PackInv'
<1> DEFINE padded == pad_to_target(bucket)
           chunk == [tokens |-> padded,
                     text |-> RecoveredText(padded, Len(bucket)),
                     seq_id |-> seq,
                     is_pad |-> MostlyPad(Len(bucket))]
<1>1. /\ pc = "fill" /\ pc' = "open" /\ ~MayFill
      /\ ~(MostlyPad(Len(bucket)) /\ params.min_fill_ratio > 0 /\ seq > 0)
      /\ result' = Append(result, chunk) /\ seq' = seq + 1
      /\ prev_end' = fill_cursor /\ cursor' = fill_cursor
      /\ UNCHANGED <<texts, params, index>>
  BY DEF EmitBucket, args, batch
<1>2. /\ PackTypes /\ ValidParams /\ index <= Len(texts) /\ seq \in Nat
      /\ N \in Nat /\ N > 0 /\ capacity \in Nat /\ IsNeeded(seq + 1)
      /\ fill_cursor \in Nat /\ bucket = Slice(seq * Fresh, fill_cursor)
      /\ seq * Fresh \in Nat /\ seq * Fresh <= fill_cursor
      /\ Len(bucket) = fill_cursor - seq * Fresh
      /\ Reach(seq + 1) = seq * Fresh + capacity
  BY <1>1, FillFacts
<1>3. fill_cursor = Smaller(N, Reach(seq + 1)) /\ bucket = BucketAt(seq + 1)
  BY <1>1, FillEnds
<1>4. /\ bucket \in Seq(Nat) /\ Len(bucket) \in Nat /\ Len(bucket) <= params.target_len
      /\ params.target_len \in Nat
  <2>1. bucket \in Seq(Nat)
    BY <1>2, SliceType
  <2>2. Len(bucket) <= capacity
    BY <1>2, <1>3 DEF Smaller
  <2> QED BY <1>2, <2>1, <2>2, ParamFacts, SMTT(30)
<1>5. /\ padded \in Seq(Nat)
      /\ padded = [i \in 1..params.target_len |->
                      IF i <= params.target_len - Len(bucket) THEN Pad
                      ELSE bucket[i - (params.target_len - Len(bucket))]]
  BY <1>4, PaddedBucket
<1>6. result' \in Seq(Chunks) /\ Len(result') = seq' /\ result'[seq + 1] = chunk
      /\ \A k \in 1..seq : result'[k] = result[k]
  <2>1. result \in Seq(Chunks) /\ Len(result) = seq
    BY <1>2 DEF PackTypes
  <2>2. chunk \in Chunks
    <3>1. MostlyPad(Len(bucket)) \in BOOLEAN
      BY DEF MostlyPad
    <3>2. Len(padded) = params.target_len
      <4>1. Len(padded) \in Nat /\ DOMAIN padded = 1..Len(padded)
        BY <1>5, LenProperties
      <4>2. DOMAIN padded = 1..params.target_len
        BY <1>5
      <4> HIDE DEF padded
      <4> QED BY <1>4, <4>1, <4>2
    <3>3. RecoveredText(padded, Len(bucket)) \in Seq(Nat)
      <4> HIDE DEF padded
      <4> QED BY <1>4, <1>5, <3>2, RecoveredType
    <3> HIDE DEF padded
    <3> QED BY <1>2, <1>4, <1>5, <3>1, <3>3 DEF Chunks
  <2> HIDE DEF chunk
  <2> QED BY <1>1, <1>2, <2>1, <2>2, AppendProperties
<1>7. PackTypes' /\ CallFacts'
  <2>1. UNCHANGED <<args, index>>
    BY <1>1 DEF args
  <2>2. N' = N /\ (ValidParams' <=> ValidParams)
    BY <2>1, SameText, Zenon
  <2>3. PackTypes'
    BY <1>1, <1>2, <1>6 DEF PackTypes
  <2> QED BY <1>1, <1>2, <2>2, <2>3 DEF CallFacts, Active
<1>f. /\ N' = N
      /\ \A k \in Nat : /\ Reach(k)' = Reach(k)
                        /\ BucketAt(k)' = BucketAt(k)
                        /\ IsNeeded(k)' <=> IsNeeded(k)
                        /\ TooShort(k)' <=> TooShort(k)
                        /\ result'[k] = result[k] => (Filled(k)' <=> Filled(k))
  <2>1. UNCHANGED <<args, index>>
    BY <1>1 DEF args
  <2> QED BY <2>1, SameText, Zenon
<1>8. ChunksInv'
  <2>1. \A k \in 1..seq : Filled(k) /\ IsNeeded(k) /\ (k > 1 => ~TooShort(k))
    BY <1>1 DEF PackInv, ChunksInv, Active
  <2>2. ASSUME NEW k \in 1..seq
        PROVE  Filled(k)' /\ IsNeeded(k)' /\ (k > 1 => ~TooShort(k)')
    BY <1>2, <1>6, <1>f, <2>1, <2>2
  <2>3. ASSUME NEW k, k = seq + 1
        PROVE  Filled(k)' /\ IsNeeded(k)' /\ (k > 1 => ~TooShort(k)')
    <3>1. k \in Nat
      BY <1>2, <2>3
    <3>2. Filled(k)'
      <4>1. BucketAt(k)' = bucket /\ result'[k].tokens = padded
        BY <1>3, <1>6, <1>f, <2>3, <3>1
      <4> HIDE DEF padded
      <4> QED BY <1>1, <1>5, <4>1 DEF Filled
    <3>3. k > 1 => ~TooShort(k)
      BY <1>1, <1>2, <1>3, <2>3 DEF TooShort
    <3> QED BY <1>2, <1>f, <2>3, <3>1, <3>2, <3>3
  <2>4. \A k \in 1..seq' : k \in 1..seq \/ k = seq + 1
    BY <1>1, <1>2
  <2> QED BY <2>2, <2>3, <2>4 DEF ChunksInv
<1>9. LoopInv'
  <2>1. N' = N /\ capacity' = capacity /\ Fresh' = Fresh
    <3>1. UNCHANGED <<args, index>>
      BY <1>1 DEF args
    <3> QED BY <3>1, SameText, Zenon
  <2>2. Reach(seq)' = Reach(seq + 1)
    BY <1>1, <2>1 DEF Reach
  <2>3. Smaller(N, Reach(seq))' = fill_cursor /\ seq' # 0
    BY <1>1, <1>2, <1>3, <2>1, <2>2 DEF Smaller
  <2> QED BY <1>1, <2>3 DEF LoopInv
<1> QED BY <1>7, <1>8, <1>9 DEF PackInv

\* A bucket is discarded because the specified one is too short.
LEMMA DiscardStep == ASSUME PackInv, DiscardBucket PROVE PackInv'
<1>1. /\ pc = "fill" /\ pc' = "stats" /\ ~MayFill
      /\ MostlyPad(Len(bucket)) /\ params.min_fill_ratio > 0 /\ seq > 0
      /\ cursor' = fill_cursor
      /\ UNCHANGED <<args, index, seq, result>>
  BY DEF DiscardBucket, batch
<1>2. seq \in Nat /\ fill_cursor \in Nat
  BY <1>1, FillFacts
<1>3. TooShort(seq + 1)
  BY <1>1, FillEnds DEF TooShort
<1>4. PackTypes' /\ CallFacts' /\ ChunksInv'
  <2>1. cursor' \in Nat /\ UNCHANGED <<args, index, seq, result>> /\ Active /\ Active'
    BY <1>1, <1>2 DEF Active
  <2> QED BY <2>1, ChunksKept
<1>5. TooShort(seq + 1)'
  <2>1. seq' = seq /\ seq + 1 \in Nat /\ UNCHANGED <<args, index>>
    BY <1>1, <1>2
  <2>2. \A k \in Nat : TooShort(k)' <=> TooShort(k)
    BY <2>1, SameText, Zenon
  <2> QED BY <1>3, <2>1, <2>2
<1>6. LoopInv'
  BY <1>1, <1>2, <1>5 DEF LoopInv
<1> QED BY <1>4, <1>6 DEF PackInv

\* When the loop runs out of tokens, the last bucket reached the end.
LEMMA ExhaustedStep == ASSUME PackInv, Exhausted PROVE PackInv'
<1>1. /\ pc = "open" /\ pc' = "stats" /\ cursor >= N
      /\ UNCHANGED <<args, index, seq, cursor, result>>
  BY DEF Exhausted, batch, packing
<1>2. /\ PackTypes /\ ValidParams /\ index <= Len(texts) /\ N > 0
      /\ seq \in Nat /\ cursor \in Nat
      /\ cursor = IF seq = 0 THEN 0 ELSE Smaller(N, Reach(seq))
  BY <1>1 DEF PackInv, PackTypes, CallFacts, LoopInv, Active
<1>3. N \in Nat
  BY <1>2, TextFacts
<1>4. seq >= 1
  BY <1>1, <1>2, <1>3
<1>5. ~IsNeeded(seq + 1)
  <2>1. Reach(seq) \in Nat /\ (IsNeeded(seq + 1) <=> Reach(seq) < N)
    BY <1>2, <1>4, ReachFacts
  <2> QED BY <1>1, <1>2, <1>3, <1>4, <2>1 DEF Smaller
<1>6. PackTypes' /\ CallFacts' /\ ChunksInv'
  <2>1. cursor' \in Nat /\ UNCHANGED <<args, index, seq, result>> /\ Active /\ Active'
    BY <1>1, <1>2 DEF Active
  <2> QED BY <2>1, ChunksKept
<1>7. ~IsNeeded(seq + 1)'
  <2>1. seq' = seq /\ seq + 1 \in Nat /\ UNCHANGED <<args, index>>
    BY <1>1, <1>2
  <2>2. \A k \in Nat : IsNeeded(k)' <=> IsNeeded(k)
    BY <2>1, SameText, Zenon
  <2> QED BY <1>5, <2>1, <2>2
<1>8. LoopInv'
  BY <1>1, <1>2, <1>4, <1>7 DEF LoopInv
<1> QED BY <1>6, <1>8 DEF PackInv

\* Between two texts the locals of chunk() are new.
LEMMA BetweenTexts ==
    ASSUME PackInv, RejectParams \/ EmptyText \/ BeginText \/ FinishText \/ Return
    PROVE  PackInv'
<1>1. /\ texts' = texts /\ params' = params
      /\ texts \in Seq(Texts) /\ params \in ParamSets /\ index \in Nat /\ 1 <= index
      /\ result \in Seq(Chunks) /\ Len(result) = seq
  BY DEF RejectParams, EmptyText, BeginText, FinishText, Return, args, PackInv, PackTypes
<1>2. CASE FinishText
  <2>1. /\ pc' = "texts" /\ index' = index + 1 /\ seq' = 0 /\ cursor' = 0
        /\ prev_end' = 0 /\ result' = <<>>
    BY <1>2 DEF FinishText
  <2> QED BY <1>1, <2>1 DEF PackInv, PackTypes, CallFacts, ChunksInv, LoopInv, Active
<1>3. CASE RejectParams \/ EmptyText \/ Return
  <2>1. /\ pc = "texts" /\ pc' \in {"thrown", "texts", "returned"}
        /\ index' \in {index, index + 1}
        /\ UNCHANGED <<seq, cursor, prev_end, result>>
    BY <1>3 DEF RejectParams, EmptyText, Return, batch, packing
  <2>2. seq = 0 /\ cursor = 0 /\ prev_end = 0
    BY <2>1 DEF PackInv, CallFacts, Active
  <2> QED BY <1>1, <2>1, <2>2 DEF PackInv, PackTypes, CallFacts, ChunksInv, LoopInv, Active
<1>4. CASE BeginText
  <2>1. /\ pc = "texts" /\ pc' = "open" /\ index <= Len(texts) /\ ValidParams /\ N > 0
        /\ UNCHANGED <<args, index, seq, cursor, prev_end, result>>
    BY <1>4 DEF BeginText, batch, packing
  <2>2. seq = 0 /\ cursor = 0 /\ prev_end = 0
    BY <2>1 DEF PackInv, CallFacts, Active
  <2>3. N' = N /\ (ValidParams' <=> ValidParams)
    <3>1. UNCHANGED <<args, index>>
      BY <2>1
    <3> QED BY <3>1, SameText, Zenon
  <2> QED BY <1>1, <2>1, <2>2, <2>3
          DEF PackInv, PackTypes, CallFacts, ChunksInv, LoopInv, Active
<1> QED BY <1>2, <1>3, <1>4

-----------------------------------------------------------------------------
\* From the invariant to the property.

\* When chunk() is done, the chunks are all the specified ones.
LEMMA AllBuckets ==
    ASSUME PackInv, pc = "stats"
    PROVE  DOMAIN result = { k \in 1..N : IsNeeded(k) /\ \A j \in 2..k : ~TooShort(j) }
<1> DEFINE specified == { k \in 1..N : IsNeeded(k) /\ \A j \in 2..k : ~TooShort(j) }
<1>1. /\ PackTypes /\ ValidParams /\ index <= Len(texts) /\ N > 0 /\ seq \in Nat
      /\ seq > 0 /\ (~IsNeeded(seq + 1) \/ TooShort(seq + 1))
      /\ \A k \in 1..seq : IsNeeded(k) /\ (k > 1 => ~TooShort(k))
      /\ DOMAIN result = 1..seq
  BY DEF PackInv, PackTypes, CallFacts, ChunksInv, LoopInv, Active
<1>2. /\ N \in Nat /\ capacity \in Nat /\ 1 <= capacity /\ Fresh \in Nat /\ 1 <= Fresh
      /\ params.overlap_tokens \in Nat
  BY <1>1, TextFacts, ParamFacts
<1>3. ASSUME NEW k \in Nat, IsNeeded(k + 1) PROVE k + 1 <= N
  <2>1. CASE k = 0
    BY <1>1, <1>2, <2>1
  <2>2. CASE k >= 1
    <3>1. Reach(k) < N /\ Reach(k) = k * Fresh + params.overlap_tokens
      BY <1>1, <1>3, <2>2, ReachFacts
    <3>2. k <= k * Fresh /\ k * Fresh \in Nat
      BY <1>2, MultiplesGrow
    <3> QED BY <1>2, <3>1, <3>2
  <2> QED BY <2>1, <2>2
<1>4. ASSUME NEW k \in 1..seq PROVE k \in specified
  <2>1. k - 1 \in Nat /\ (k - 1) + 1 = k
    OBVIOUS
  <2>2. k <= N
    BY <1>1, <1>3, <2>1
  <2>3. \A j \in 2..k : j \in 1..seq /\ j > 1
    BY <1>1
  <2> QED BY <1>1, <1>2, <2>2, <2>3
<1>5. ASSUME NEW k \in specified PROVE k \in 1..seq
  <2> SUFFICES ASSUME seq < k PROVE FALSE
    BY <1>1, <1>2
  <2>1. k \in Nat /\ seq + 1 \in 2..k
    BY <1>1, <1>2
  <2>2. ~IsNeeded(seq + 1)
    BY <1>1, <2>1
  <2>3. Reach(seq) \in Nat /\ ~(Reach(seq) < N) /\ Reach(seq) = seq * Fresh + params.overlap_tokens
    BY <1>1, <2>2, ReachFacts
  <2> DEFINE m == k - 1
  <2>4. m \in Nat /\ seq <= m /\ m >= 1 /\ m + 1 = k
    BY <1>1, <2>1
  <2> HIDE DEF m
  <2>5. Reach(m) = m * Fresh + params.overlap_tokens /\ (IsNeeded(m + 1) <=> Reach(m) < N)
    BY <1>1, <2>4, ReachFacts
  <2>6. seq * Fresh <= m * Fresh /\ seq * Fresh \in Nat /\ m * Fresh \in Nat
    BY <1>1, <1>2, <2>4, MultiplesOrdered
  <2>7. IsNeeded(m + 1)
    BY <2>4
  <2> QED BY <1>2, <2>3, <2>5, <2>6, <2>7
<1> QED BY <1>1, <1>4, <1>5

-----------------------------------------------------------------------------
\* What is left out.

\* The last chunk ends with the last token of its bucket.
LEMMA PackedIs ==
    ASSUME PackInv, Active, seq >= 1
    PROVE  Packed = Smaller(N, Reach(seq))
<1> DEFINE T == params.target_len
           k == seq - 1
           e == Smaller(N, Reach(seq))
           from == k * Fresh
           missing == T - Len(BucketAt(seq))
<1>1. /\ PackTypes /\ ValidParams /\ index <= Len(texts) /\ N > 0 /\ seq \in Nat
      /\ IsNeeded(seq) /\ Filled(seq) /\ result \in Seq(Chunks) /\ Len(result) = seq
  BY DEF PackInv, PackTypes, CallFacts, ChunksInv
<1>2. k \in Nat /\ k + 1 = seq
  BY <1>1
<1>3. /\ N \in Nat /\ capacity \in Nat /\ 1 <= capacity /\ Fresh \in Nat
      /\ params.overlap_tokens \in Nat /\ T \in Nat /\ capacity <= T
  BY <1>1, TextFacts, ParamFacts
<1> HIDE DEF k, T
<1>4. /\ from \in Nat /\ Reach(seq) = from + capacity
      /\ k >= 1 => Reach(k) = from + params.overlap_tokens /\ Reach(k) < N
  BY <1>1, <1>2, ReachFacts
<1>5. /\ BucketAt(seq) = Slice(from, e) /\ e \in Nat /\ from <= e /\ e - from <= capacity
  BY <1>1, <1>2, BucketFacts
<1>6. from < N
  <2>1. CASE k = 0
    BY <1>1, <1>3, <2>1
  <2>2. CASE k >= 1
    BY <1>3, <1>4, <2>2
  <2> QED BY <1>2, <2>1, <2>2
<1>7. from < e
  BY <1>3, <1>4, <1>6 DEF Smaller
<1> HIDE DEF from, e
<1>8. /\ Len(BucketAt(seq)) = e - from /\ BucketAt(seq)[e - from] = e
  <2>1. e - from \in 1..(e - from) /\ from + (e - from) = e
    BY <1>4, <1>5, <1>7
  <2> QED BY <1>4, <1>5, <2>1, SliceType
<1>m. missing = T - (e - from)
  BY <1>8
<1> HIDE DEF missing
<1>9. /\ T \in 1..T /\ ~(T <= missing) /\ T - missing = e - from
  BY <1>3, <1>4, <1>5, <1>7, <1>m
<1>10. result[seq].tokens = [i \in 1..T |-> IF i <= missing THEN Pad
                                            ELSE BucketAt(seq)[i - missing]]
  BY <1>1, Zenon DEF Filled, T, missing
<1>11. result[seq].tokens[T] = e
  BY <1>8, <1>9, <1>10
<1>12. Len(result[seq].tokens) = T
  <2>1. result[seq].tokens \in Seq(Nat)
    <3>1. result[seq] \in Chunks
      BY <1>1, <1>2
    <3> QED BY <3>1 DEF Chunks
  <2>2. DOMAIN result[seq].tokens = 1..T
    BY <1>10
  <2> QED BY <1>3, <2>1, <2>2, LenProperties
<1>13. result # <<>>
  BY <1>1
<1> QED BY <1>1, <1>11, <1>12, <1>13 DEF Packed, e

\* Tokens are left out only by the minimum fill, and then less than one bucket
\* of them (property LossBounded).
LEMMA LossFromPack == ASSUME PackInv PROVE LossBounded
<1> SUFFICES ASSUME pc = "stats"
             PROVE  /\ params.min_fill_ratio = 0 => Packed = N
                    /\ 100 * capacity >= params.min_fill_ratio * params.target_len
                          => N - Packed < capacity - params.overlap_tokens \/ Packed = N
                    /\ Len(result) > 0
  BY DEF LossBounded
<1>1. /\ PackTypes /\ ValidParams /\ index <= Len(texts) /\ seq \in Nat /\ seq > 0
      /\ ~IsNeeded(seq + 1) \/ TooShort(seq + 1)
      /\ Len(result) = seq /\ Active
  BY DEF PackInv, PackTypes, CallFacts, LoopInv, Active
<1>2. /\ N \in Nat /\ capacity \in Nat /\ Fresh \in Nat
      /\ params.overlap_tokens \in Nat
  BY <1>1, TextFacts, ParamFacts
<1>3. Packed = Smaller(N, Reach(seq))
  BY <1>1, PackedIs
<1>4. /\ Reach(seq) = seq * Fresh + params.overlap_tokens /\ Reach(seq) \in Nat
      /\ seq * Fresh \in Nat /\ Reach(seq + 1) = seq * Fresh + capacity
      /\ IsNeeded(seq + 1) <=> Reach(seq) < N
  BY <1>1, ReachFacts
<1>5. CASE ~IsNeeded(seq + 1)
  <2>1. Packed = N
    BY <1>2, <1>3, <1>4, <1>5 DEF Smaller
  <2> QED BY <1>1, <2>1
<1>6. CASE IsNeeded(seq + 1) /\ TooShort(seq + 1)
  <2> DEFINE e == Smaller(N, Reach(seq + 1))
             from == seq * Fresh
             least == params.min_fill_ratio * params.target_len
  <2>1. /\ BucketAt(seq + 1) = Slice(from, e) /\ from <= e /\ e \in Nat
    BY <1>1, <1>6, BucketFacts
  <2>2. Len(BucketAt(seq + 1)) = e - from
    BY <1>4, <2>1, SliceType
  <2>3. params.min_fill_ratio > 0 /\ 100 * (e - from) < least
    BY <1>6, <2>2 DEF TooShort, MostlyPad
  <2>4. least \in Int
    <3>1. params \in [target_len : Nat, pad_reserve : Nat,
                      overlap_tokens : Nat, min_fill_ratio : 0..100]
      BY <1>1, ParamAssumption DEF PackTypes
    <3>2. params.min_fill_ratio \in Nat /\ params.target_len \in Nat
      BY <3>1
    <3> QED BY <3>2
  <2>5. ASSUME 100 * capacity >= least
        PROVE  N - Packed < capacity - params.overlap_tokens
    <3> HIDE DEF least, e, from
    <3>1. from \in Nat
      BY <1>4 DEF from
    <3>2. e - from < capacity
      BY <1>2, <2>1, <2>3, <2>4, <2>5, <3>1
    <3>3. e = N
      BY <1>2, <1>4, <3>2 DEF e, from, Smaller
    <3>4. Packed = from + params.overlap_tokens
      BY <1>2, <1>3, <1>4, <1>6 DEF from, Smaller
    <3> QED BY <1>2, <3>1, <3>2, <3>3, <3>4
  <2>6. params.min_fill_ratio # 0
    <3>1. params \in [target_len : Nat, pad_reserve : Nat,
                      overlap_tokens : Nat, min_fill_ratio : 0..100]
      BY <1>1, ParamAssumption DEF PackTypes
    <3> HIDE DEF least
    <3> QED BY <2>3, <3>1
  <2> QED BY <1>1, <2>5, <2>6
<1> QED BY <1>1, <1>5, <1>6

-----------------------------------------------------------------------------
\* The statistics and the sequence ids of a batch.

Counters == [total_tokens : Nat, num_chunks : Nat, pad_tokens_total : Nat]

Sizes(n) == [k \in 1..n |-> texts[k].size]
InsertedIn(chunks) == [k \in 1..Len(chunks) |-> Inserted(chunks[k])]
NoPadIds == \A k \in 1..Len(texts) : texts[k].pad_ids = {}

BatchInv ==
    /\ all \in Seq(Chunks) /\ seq_offset = Len(all)
    /\ \A k \in 1..Len(all) : all[k].seq_id = k - 1
    /\ \A k \in 1..Len(result) : result[k].seq_id = k - 1
    /\ index <= Len(texts) + 1
    /\ pc = "returned" => index = Len(texts) + 1
    /\ combined \in Counters
    /\ combined.num_chunks = Len(all)
    /\ combined.total_tokens = Total(Sizes(index - 1))
    /\ NoPadIds => combined.pad_tokens_total = Total(InsertedIn(all))

\* A sequence given entry by entry.
LEMMA EntryByEntry ==
    ASSUME NEW V, NEW n \in Nat, NEW s, DOMAIN s = 1..n, s = [k \in 1..n |-> s[k]],
           \A k \in 1..n : s[k] \in V
    PROVE  s \in Seq(V) /\ Len(s) = n
<1>1. s \in [1..n -> V]
  OBVIOUS
<1>2. s \in UNION { [1..m -> V] : m \in Nat }
  BY <1>1
<1>3. s \in Seq(V)
  BY <1>2, SeqDef
<1>4. DOMAIN s = 1..Len(s) /\ Len(s) \in Nat
  BY <1>3, LenProperties
<1> QED BY <1>3, <1>4

\* Two sequences, one after the other.
JoinFacts(s, t, V) ==
    /\ s \o t \in Seq(V) /\ Len(s \o t) = Len(s) + Len(t)
    /\ \A i \in 1..(Len(s) + Len(t)) : (s \o t)[i] = IF i <= Len(s) THEN s[i] ELSE t[i - Len(s)]

LEMMA Joined ==
    ASSUME NEW V, NEW s \in Seq(V), NEW t \in Seq(V)
    PROVE  JoinFacts(s, t, V)
BY ConcatProperties, Zenon DEF JoinFacts

\* The places of a chunk that satisfy something, and those that do not.
LEMMA PlacesCounted ==
    ASSUME NEW n \in Nat, NEW I \in SUBSET (1..n)
    PROVE  /\ Cardinality(I) \in Nat /\ Cardinality((1..n) \ I) \in Nat
           /\ Cardinality(I) + Cardinality((1..n) \ I) = n
<1>1. IsFiniteSet(1..n) /\ Cardinality(1..n) = n
  <2>1. 1 \in Int /\ n \in Int /\ (IF 1 > n THEN 0 ELSE n - 1 + 1) = n
    OBVIOUS
  <2> QED BY <2>1, FS_Interval
<1>2. IsFiniteSet(I) /\ Cardinality(I) \in Nat
  BY <1>1, FS_Subset, FS_CardinalityType
<1>3. /\ IsFiniteSet((1..n) \ I)
      /\ Cardinality((1..n) \ I) = Cardinality(1..n) - Cardinality((1..n) \cap I)
  BY <1>1, FS_Difference
<1>4. (1..n) \cap I = I
  OBVIOUS
<1>5. Cardinality((1..n) \ I) \in Nat
  BY <1>3, FS_CardinalityType
<1> DEFINE x == Cardinality(I)
           y == Cardinality((1..n) \ I)
<1>6. x \in Nat /\ y \in Nat /\ y = n - x
  <2>1. y = Cardinality(1..n) - x
    BY <1>3, <1>4, Zenon
  <2> QED BY <1>1, <1>2, <1>5, <2>1, Zenon
<1> HIDE DEF x, y
<1>7. x + y = n
  BY <1>6
<1> QED BY <1>6, <1>7 DEF x, y

LEMMA InsertedType == ASSUME NEW c \in Chunks PROVE Inserted(c) \in Nat
<1>1. DOMAIN c.tokens = 1..Len(c.tokens) /\ Len(c.tokens) \in Nat
  BY LenProperties DEF Chunks
<1>2. { i \in DOMAIN c.tokens : c.tokens[i] = Pad } \in SUBSET (1..Len(c.tokens))
  BY <1>1
<1> QED BY <1>1, <1>2, PlacesCounted DEF Inserted

\* The insertions in a list of chunks are counted one by one.
LEMMA InsertedInType ==
    ASSUME NEW s \in Seq(Chunks)
    PROVE  /\ InsertedIn(s) \in Seq(Nat) /\ Len(InsertedIn(s)) = Len(s)
           /\ \A k \in 1..Len(s) : InsertedIn(s)[k] = Inserted(s[k])
<1> DEFINE t == InsertedIn(s)
<1>1. Len(s) \in Nat /\ \A k \in 1..Len(s) : s[k] \in Chunks
  OBVIOUS
<1>2. /\ DOMAIN t = 1..Len(s) /\ t = [k \in 1..Len(s) |-> t[k]]
      /\ \A k \in 1..Len(s) : t[k] = Inserted(s[k])
  BY Zenon DEF InsertedIn
<1>3. \A k \in 1..Len(s) : t[k] \in Nat
  BY <1>1, <1>2, InsertedType
<1> HIDE DEF t
<1>4. t \in Seq(Nat) /\ Len(t) = Len(s)
  BY <1>1, <1>2, <1>3, EntryByEntry
<1> QED BY <1>2, <1>4 DEF t

\* The padding the statistics of a text report is a natural number, and what
\* was inserted, unless a token of the text has the padding token's id.
LEMMA PadsCounted ==
    ASSUME PackInv, Active
    PROVE  /\ PadsOf(result) \in Nat
           /\ text.pad_ids = {} => PadsOf(result) = Total(InsertedIn(result))
<1> DEFINE T == params.target_len
           n == Len(result)
           In(c) == { i \in DOMAIN c.tokens : CountsAsContent(c.tokens[i]) }
           s == [k \in 1..n |-> ContentOf(result[k])]
           t == [k \in 1..n |-> Cardinality((1..T) \ In(result[k]))]
<1>1. /\ PackTypes /\ ValidParams /\ result \in Seq(Chunks) /\ n = seq /\ n \in Nat
      /\ \A k \in 1..n : Filled(k)
  BY DEF PackInv, PackTypes, CallFacts, ChunksInv
<1>2. T \in Nat
  BY <1>1, ParamFacts
<1>3. ASSUME NEW k \in 1..n
      PROVE  /\ result[k] \in Chunks /\ DOMAIN result[k].tokens = 1..T
             /\ In(result[k]) \in SUBSET (1..T)
             /\ s[k] \in Nat /\ t[k] \in Nat /\ s[k] + t[k] = T
  <2>1. result[k] \in Chunks
    BY <1>1
  <2>2. DOMAIN result[k].tokens = 1..T
    BY <1>1 DEF Filled
  <2>3. In(result[k]) \in SUBSET (1..T)
    BY <2>2
  <2>4. s[k] = Cardinality(In(result[k])) /\ t[k] = Cardinality((1..T) \ In(result[k]))
    BY DEF ContentOf
  <2> HIDE DEF In, s, t, T
  <2>5. s[k] \in Nat /\ t[k] \in Nat /\ s[k] + t[k] = T
    BY <1>2, <2>3, <2>4, PlacesCounted
  <2> QED BY <2>1, <2>2, <2>3, <2>5
<1>4. s \in Seq(Nat) /\ Len(s) = n
  <2>1. DOMAIN s = 1..n /\ s = [k \in 1..n |-> s[k]]
    OBVIOUS
  <2> HIDE DEF s, n
  <2> QED BY <1>1, <1>3, <2>1, EntryByEntry
<1>5. t \in Seq(Nat) /\ Len(t) = n
  <2>1. DOMAIN t = 1..n /\ t = [k \in 1..n |-> t[k]]
    OBVIOUS
  <2> HIDE DEF t, n
  <2> QED BY <1>1, <1>3, <2>1, EntryByEntry
<1>6. PadsOf(result) = n * T - Total(s)
  BY Zenon DEF PadsOf
<1>7. PadsOf(result) = Total(t)
  <2> HIDE DEF s, t, n, T
  <2>1. s \in Seq(Int) /\ t \in Seq(Int) /\ Len(s) = Len(t)
    BY <1>4, <1>5
  <2>2. \A i \in 1..Len(s) : s[i] + t[i] = T
    BY <1>3, <1>4
  <2>3. Len(s) * T - Total(s) = Total(t)
    BY <1>2, <2>1, <2>2, TotalComplement
  <2> QED BY <1>4, <1>6, <2>3
<1>8. PadsOf(result) \in Nat
  <2> HIDE DEF t
  <2> QED BY <1>5, <1>7, TotalNat
<1>9. ASSUME text.pad_ids = {} PROVE PadsOf(result) = Total(InsertedIn(result))
  <2>1. ASSUME NEW k \in 1..n PROVE t[k] = Inserted(result[k])
    <3>1. (1..T) \ In(result[k]) = { i \in DOMAIN result[k].tokens : result[k].tokens[i] = Pad }
      <4>1. DOMAIN result[k].tokens = 1..T
        BY <1>3
      <4>2. \A i \in 1..T : CountsAsContent(result[k].tokens[i])
                              <=> result[k].tokens[i] # Pad
        BY <1>9 DEF CountsAsContent
      <4> HIDE DEF T
      <4> QED BY <4>1, <4>2
    <3> HIDE DEF In
    <3> QED BY <3>1 DEF Inserted
  <2>2. t = InsertedIn(result)
    <3>1. t = [k \in 1..n |-> t[k]]
      OBVIOUS
    <3> HIDE DEF t
    <3> QED BY <2>1, <3>1 DEF InsertedIn
  <2> QED BY <1>7, <2>2
<1> QED BY <1>8, <1>9

\* What a chunk is does not depend on the state.
LEMMA ChunkIsOK == ASSUME NEW c \in Chunks PROVE ChunkOK(c)
<1>1. /\ DOMAIN c = {"tokens", "text", "seq_id", "is_pad"}
      /\ c.tokens \in Seq(Nat) /\ c.text \in Seq(Nat) /\ c.seq_id \in Nat
      /\ c.is_pad \in BOOLEAN
  BY DEF Chunks
<1> QED BY <1>1 DEF ChunkOK

\* The chunks of a text with their ids shifted.
LEMMA ShiftedFacts ==
    ASSUME result \in Seq(Chunks), seq_offset \in Nat,
           \A k \in 1..Len(result) : result[k].seq_id = k - 1
    PROVE  /\ Shifted(result) \in Seq(Chunks) /\ Len(Shifted(result)) = Len(result)
           /\ \A k \in 1..Len(result) :
                 /\ Shifted(result)[k].seq_id = seq_offset + (k - 1)
                 /\ Shifted(result)[k].tokens = result[k].tokens
<1> DEFINE n == Len(result)
           s == Shifted(result)
<1>1. n \in Nat
  OBVIOUS
<1>2. /\ DOMAIN s = 1..n /\ s = [k \in 1..n |-> s[k]]
      /\ \A k \in 1..n : s[k] = [result[k] EXCEPT !.seq_id = @ + seq_offset]
  BY DEF Shifted
<1> HIDE DEF s
<1>3. ASSUME NEW k \in 1..n
      PROVE  /\ s[k] \in Chunks /\ s[k].tokens = result[k].tokens
             /\ s[k].seq_id = seq_offset + (k - 1)
  <2>1. result[k] \in Chunks /\ result[k].seq_id = k - 1
    OBVIOUS
  <2>2. s[k] = [result[k] EXCEPT !.seq_id = @ + seq_offset]
    BY <1>2
  <2> DEFINE v == result[k].seq_id + seq_offset
  <2>3. v \in Nat /\ v = seq_offset + (k - 1) /\ s[k] = [result[k] EXCEPT !.seq_id = v]
    BY <2>1, <2>2
  <2>4. ASSUME NEW c \in Chunks, NEW w \in Nat
        PROVE  /\ [c EXCEPT !.seq_id = w] \in Chunks
               /\ [c EXCEPT !.seq_id = w].tokens = c.tokens
               /\ [c EXCEPT !.seq_id = w].seq_id = w
    BY DEF Chunks
  <2> HIDE DEF v
  <2> QED BY <2>1, <2>3, <2>4
<1> HIDE DEF n
<1>4. s \in Seq(Chunks) /\ Len(s) = n
  BY <1>1, <1>2, <1>3, EntryByEntry
<1> QED BY <1>3, <1>4 DEF s, n

\* Appending the shifted chunks appends their insertions.
LEMMA InsertedAppended ==
    ASSUME NEW a \in Seq(Chunks), NEW b \in Seq(Chunks), NEW c \in Seq(Chunks),
           Len(b) = Len(c), \A k \in 1..Len(b) : b[k].tokens = c[k].tokens
    PROVE  InsertedIn(a \o b) = InsertedIn(a) \o InsertedIn(c)
<1> DEFINE ab == a \o b
           l == InsertedIn(ab)
           r == InsertedIn(a) \o InsertedIn(c)
<1>1. /\ ab \in Seq(Chunks) /\ Len(ab) = Len(a) + Len(b)
      /\ \A i \in 1..(Len(a) + Len(b)) : ab[i] = IF i <= Len(a) THEN a[i] ELSE b[i - Len(a)]
  <2>1. JoinFacts(a, b, Chunks)
    BY Joined
  <2> QED BY <2>1, Zenon DEF JoinFacts
<1> HIDE DEF ab
<1>2. /\ l \in Seq(Nat) /\ Len(l) = Len(ab) /\ \A k \in 1..Len(ab) : l[k] = Inserted(ab[k])
  BY <1>1, InsertedInType
<1>3. /\ InsertedIn(a) \in Seq(Nat) /\ Len(InsertedIn(a)) = Len(a)
      /\ \A k \in 1..Len(a) : InsertedIn(a)[k] = Inserted(a[k])
  BY InsertedInType
<1>4. /\ InsertedIn(c) \in Seq(Nat) /\ Len(InsertedIn(c)) = Len(c)
      /\ \A k \in 1..Len(c) : InsertedIn(c)[k] = Inserted(c[k])
  BY InsertedInType
<1> DEFINE x == InsertedIn(a)
           y == InsertedIn(c)
<1>5. /\ r \in Seq(Nat) /\ Len(r) = Len(x) + Len(y)
      /\ \A i \in 1..(Len(x) + Len(y)) : r[i] = IF i <= Len(x) THEN x[i] ELSE y[i - Len(x)]
  <2>1. JoinFacts(x, y, Nat)
    BY <1>3, <1>4, Joined
  <2> QED BY <2>1, Zenon DEF JoinFacts
<1> HIDE DEF l, r, x, y
<1>6. Len(l) = Len(a) + Len(b) /\ Len(r) = Len(a) + Len(b)
  BY <1>1, <1>2, <1>3, <1>4, <1>5 DEF x, y
<1>7. ASSUME NEW i \in 1..Len(l) PROVE l[i] = r[i]
  <2>1. i \in 1..(Len(a) + Len(b)) /\ l[i] = Inserted(ab[i])
    BY <1>1, <1>2, <1>6
  <2>2. CASE i <= Len(a)
    <3>1. i \in 1..Len(a) /\ ab[i] = a[i]
      BY <1>1, <2>1, <2>2
    <3>2. r[i] = x[i]
      BY <1>3, <1>4, <1>5, <2>1, <2>2 DEF x, y
    <3> QED BY <1>3, <2>1, <3>1, <3>2 DEF x
  <2>3. CASE ~(i <= Len(a))
    <3>1. i - Len(a) \in 1..Len(c) /\ i - Len(a) \in 1..Len(b) /\ ab[i] = b[i - Len(a)]
      BY <1>1, <2>1, <2>3
    <3>2. r[i] = y[i - Len(a)]
      BY <1>3, <1>4, <1>5, <2>1, <2>3 DEF x, y
    <3>3. Inserted(b[i - Len(a)]) = Inserted(c[i - Len(a)])
      BY <3>1 DEF Inserted
    <3> QED BY <1>4, <2>1, <3>1, <3>2, <3>3 DEF y
  <2> QED BY <2>2, <2>3
<1>8. l = r
  BY <1>2, <1>5, <1>6, <1>7, SeqEqual
<1> QED BY <1>8 DEF l, r, ab

\* The sizes of one more text.
LEMMA SizesAppended ==
    ASSUME texts \in Seq(Texts), NEW n \in Nat, n + 1 <= Len(texts)
    PROVE  Total(Sizes(n + 1)) = Total(Sizes(n)) + texts[n + 1].size
<1>1. \A k \in 1..(n + 1) : texts[k] \in Texts /\ texts[k].size \in Nat
  BY TextAssumption
<1>2. ASSUME NEW m \in Nat, m <= n + 1
      PROVE  /\ Sizes(m) \in Seq(Int) /\ Len(Sizes(m)) = m
             /\ \A k \in 1..m : Sizes(m)[k] = texts[k].size
  <2> DEFINE s == Sizes(m)
  <2>1. DOMAIN s = 1..m /\ s = [k \in 1..m |-> s[k]] /\ \A k \in 1..m : s[k] = texts[k].size
    BY DEF Sizes
  <2>2. \A k \in 1..m : s[k] \in Int
    BY <1>1, <1>2, <2>1
  <2> HIDE DEF s
  <2>3. s \in Seq(Int) /\ Len(s) = m
    BY <2>1, <2>2, EntryByEntry
  <2> QED BY <2>1, <2>3 DEF s
<1> DEFINE z == texts[n + 1].size
           one == <<z>>
           s == Sizes(n)
           t == Sizes(n + 1)
<1>3. z \in Int /\ n + 1 \in Nat /\ n + 1 \in 1..(n + 1)
  BY <1>1
<1>4. /\ s \in Seq(Int) /\ Len(s) = n /\ \A k \in 1..n : s[k] = texts[k].size
  BY <1>2
<1>5. /\ t \in Seq(Int) /\ Len(t) = n + 1 /\ \A k \in 1..(n + 1) : t[k] = texts[k].size
  BY <1>2, <1>3
<1>6. one \in Seq(Int) /\ Len(one) = 1 /\ one[1] = z
  BY <1>3
<1> HIDE DEF s, t, one
<1> DEFINE so == s \o one
<1>7. /\ so \in Seq(Int) /\ Len(so) = Len(s) + Len(one)
      /\ \A i \in 1..(Len(s) + Len(one)) : so[i] = IF i <= Len(s) THEN s[i] ELSE one[i - Len(s)]
  <2>1. JoinFacts(s, one, Int)
    BY <1>4, <1>6, Joined
  <2> QED BY <2>1, Zenon DEF JoinFacts
<1> HIDE DEF so
<1>8. t = so
  <2>1. Len(t) = Len(so) /\ Len(so) = n + 1
    BY <1>4, <1>5, <1>6, <1>7
  <2>2. ASSUME NEW i \in 1..Len(t) PROVE t[i] = so[i]
    <3>1. i \in 1..(n + 1) /\ so[i] = IF i <= n THEN s[i] ELSE one[i - n]
      BY <1>4, <1>5, <1>6, <1>7
    <3>2. CASE i <= n
      <4>1. i \in 1..n /\ so[i] = s[i]
        BY <3>1, <3>2
      <4> QED BY <1>4, <1>5, <3>1, <4>1
    <3>3. CASE ~(i <= n)
      <4>1. i = n + 1 /\ i - n = 1
        BY <3>1, <3>3
      <4> QED BY <1>5, <1>6, <3>1, <3>3, <4>1
    <3> QED BY <3>2, <3>3
  <2> QED BY <1>5, <1>7, <2>1, <2>2, SeqEqual
<1>9. Total(so) = Total(s) + Total(one)
  BY <1>4, <1>6, TotalConcat DEF so
<1>10. Total(one) = z
  <2>1. PICK f : SumsUp(f, one) /\ Total(one) = f[Len(one)]
    BY <1>6, TotalSums
  <2>2. 1 \in 1..1 /\ 1 - 1 = 0 /\ f[0] = 0 /\ f[1] = f[0] + one[1]
    BY <1>6, <2>1 DEF SumsUp
  <2> QED BY <1>3, <1>6, <2>1, <2>2
<1> QED BY <1>8, <1>9, <1>10 DEF s, t

LEMMA BatchInit == ASSUME Init PROVE BatchInv
<1>1. /\ texts \in Seq(Texts) /\ pc = "texts" /\ index = 1 /\ seq_offset = 0
      /\ all = <<>> /\ combined = NoStats /\ result = <<>>
  BY BatchAssumption DEF Init
<1>2. Len(texts) \in Nat
  BY <1>1
<1>3. combined \in Counters /\ combined.num_chunks = 0 /\ combined.total_tokens = 0
      /\ combined.pad_tokens_total = 0
  BY <1>1 DEF NoStats, Counters
<1>4. Sizes(index - 1) = <<>>
  <2>1. 1..(index - 1) = {}
    BY <1>1
  <2> QED BY <2>1 DEF Sizes
<1>5. InsertedIn(all) = <<>>
  BY <1>1 DEF InsertedIn
<1>6. all \in Seq(Chunks) /\ Len(all) = 0 /\ 1..Len(all) = {} /\ 1..Len(result) = {}
  BY <1>1
<1> QED BY <1>1, <1>2, <1>3, <1>4, <1>5, <1>6, TotalEmpty DEF BatchInv

\* A step that keeps the batch and the chunks keeps what is said of them.
LEMMA BatchKept ==
    ASSUME BatchInv, UNCHANGED <<args, batch, result>>,
           pc' = "returned" => index = Len(texts) + 1
    PROVE  BatchInv'
<1>1. UNCHANGED <<texts, index, seq_offset, all, combined, result>>
  BY DEF args, batch
<1> QED BY <1>1 DEF BatchInv, Counters, Chunks, Sizes, InsertedIn, Inserted, NoPadIds

LEMMA BatchEmpty == ASSUME PackInv, BatchInv, EmptyText PROVE BatchInv'
<1>1. /\ pc = "texts" /\ pc' = pc /\ index <= Len(texts) /\ N = 0 /\ index' = index + 1
      /\ UNCHANGED <<texts, seq_offset, all, combined, result>>
  BY DEF EmptyText, args, packing
<1>2. texts \in Seq(Texts) /\ index \in Nat /\ 1 <= index
  BY DEF PackInv, PackTypes
<1>3. Total(Sizes(index)) = Total(Sizes(index - 1)) + texts[index].size
  <2> DEFINE n == index - 1
  <2>1. n \in Nat /\ n + 1 = index
    BY <1>2
  <2> HIDE DEF n
  <2>2. Total(Sizes(n + 1)) = Total(Sizes(n)) + texts[n + 1].size
    BY <1>1, <1>2, <2>1, SizesAppended
  <2> QED BY <2>1, <2>2 DEF n
<1>4. combined.total_tokens = Total(Sizes(index)) /\ index' - 1 = index
  <2>1. combined.total_tokens \in Nat /\ combined.total_tokens = Total(Sizes(index - 1))
    BY DEF BatchInv, Counters
  <2> QED BY <1>1, <1>2, <1>3, <2>1 DEF N, text
<1>5. Sizes(index - 1)' = Sizes(index)
  BY <1>1, <1>4 DEF Sizes
<1>6. (Len(texts) + 1)' = Len(texts) + 1 /\ index' <= Len(texts) + 1
  BY <1>1, <1>2
<1>7. combined'.total_tokens = Total(Sizes(index - 1)')
  BY <1>1, <1>4, <1>5
<1>8. InsertedIn(all)' = InsertedIn(all) /\ (NoPadIds' <=> NoPadIds)
  BY <1>1 DEF InsertedIn, Inserted, NoPadIds
<1> QED BY <1>1, <1>6, <1>7, <1>8 DEF BatchInv, Counters, Chunks

\* chunk_batch takes over what chunk() returned.
LEMMA BatchFinish == ASSUME PackInv, BatchInv, FinishText PROVE BatchInv'
<1>1. /\ pc = "stats" /\ pc' = "texts" /\ index' = index + 1 /\ result' = <<>>
      /\ texts' = texts /\ all' = all \o Shifted(result)
      /\ seq_offset' = seq_offset + Len(result)
      /\ combined' = [combined EXCEPT !.total_tokens = @ + N,
                                      !.num_chunks = @ + Len(result),
                                      !.pad_tokens_total = @ + PadsOf(result)]
  BY DEF FinishText, args
<1>2. /\ texts \in Seq(Texts) /\ index \in Nat /\ 1 <= index /\ index <= Len(texts)
      /\ result \in Seq(Chunks) /\ Active /\ N \in Nat
  BY <1>1, TextFacts DEF PackInv, PackTypes, CallFacts, Active
<1>3. /\ all \in Seq(Chunks) /\ seq_offset = Len(all) /\ combined \in Counters
      /\ \A k \in 1..Len(all) : all[k].seq_id = k - 1
      /\ \A k \in 1..Len(result) : result[k].seq_id = k - 1
      /\ combined.num_chunks = Len(all)
      /\ combined.total_tokens = Total(Sizes(index - 1))
      /\ NoPadIds => combined.pad_tokens_total = Total(InsertedIn(all))
  BY DEF BatchInv
<1> DEFINE s == Shifted(result)
<1>4. /\ s \in Seq(Chunks) /\ Len(s) = Len(result)
      /\ \A k \in 1..Len(result) : /\ s[k].seq_id = seq_offset + (k - 1)
                                   /\ s[k].tokens = result[k].tokens
  BY <1>2, <1>3, ShiftedFacts
<1> HIDE DEF s
<1>5. /\ all' \in Seq(Chunks) /\ Len(all') = Len(all) + Len(s)
      /\ \A i \in 1..(Len(all) + Len(s)) : all'[i] = IF i <= Len(all) THEN all[i] ELSE s[i - Len(all)]
  <2>1. JoinFacts(all, s, Chunks) /\ all' = all \o s
    BY <1>1, <1>3, <1>4, Joined DEF s
  <2> QED BY <2>1, Zenon DEF JoinFacts
<1>6. seq_offset' = Len(all') /\ Len(all') \in Nat
  BY <1>1, <1>3, <1>4, <1>5
<1>7. ASSUME NEW k \in 1..Len(all') PROVE all'[k].seq_id = k - 1
  <2>1. k \in 1..(Len(all) + Len(s)) /\ Len(all) \in Nat
    BY <1>3, <1>5
  <2>2. CASE k <= Len(all)
    <3>1. k \in 1..Len(all) /\ all'[k] = all[k]
      BY <1>5, <2>1, <2>2
    <3> QED BY <1>3, <3>1
  <2>3. CASE ~(k <= Len(all))
    <3>1. k - Len(all) \in 1..Len(s) /\ all'[k] = s[k - Len(all)]
      BY <1>5, <2>1, <2>3
    <3>2. s[k - Len(all)].seq_id = seq_offset + ((k - Len(all)) - 1)
      BY <1>4, <3>1
    <3>3. seq_offset + ((k - Len(all)) - 1) = k - 1
      BY <1>3, <2>1
    <3> QED BY <3>1, <3>2, <3>3
  <2> QED BY <2>2, <2>3
<1>8. PadsOf(result) \in Nat /\ (text.pad_ids = {} => PadsOf(result) = Total(InsertedIn(result)))
  BY <1>2, PadsCounted
<1>9. /\ combined' \in Counters
      /\ combined'.total_tokens = combined.total_tokens + N
      /\ combined'.num_chunks = combined.num_chunks + Len(result)
      /\ combined'.pad_tokens_total = combined.pad_tokens_total + PadsOf(result)
  <2>1. /\ combined.total_tokens + N \in Nat /\ combined.num_chunks + Len(result) \in Nat
        /\ combined.pad_tokens_total + PadsOf(result) \in Nat
    BY <1>2, <1>3, <1>8 DEF Counters
  <2> QED BY <1>1, <1>3, <2>1 DEF Counters
<1>10. combined'.num_chunks = Len(all')
  BY <1>3, <1>4, <1>5, <1>9
<1>11. combined'.total_tokens = Total(Sizes(index - 1)')
  <2> DEFINE n == index - 1
  <2>i. index' = index + 1 /\ index \in Nat /\ 1 <= index
    BY <1>1, <1>2, Zenon
  <2>1. n \in Nat /\ n + 1 = index /\ index' - 1 = index
    BY <2>i
  <2> HIDE DEF n
  <2>2. Total(Sizes(n + 1)) = Total(Sizes(n)) + texts[n + 1].size
    BY <1>2, <2>1, SizesAppended
  <2>3. Sizes(index - 1)' = Sizes(index)
    BY <1>1, <2>1 DEF Sizes
  <2>4. N = texts[index].size
    BY DEF N, text
  <2>5. Total(Sizes(index)) = Total(Sizes(index - 1)) + N
    BY <2>1, <2>2, <2>4 DEF n
  <2> QED BY <1>3, <1>9, <2>3, <2>5
<1>12. NoPadIds' => combined'.pad_tokens_total = Total(InsertedIn(all)')
  <2> SUFFICES ASSUME NoPadIds' PROVE combined'.pad_tokens_total = Total(InsertedIn(all)')
    OBVIOUS
  <2>1. NoPadIds
    BY <1>1 DEF NoPadIds
  <2>2. text.pad_ids = {}
    BY <1>2, <2>1 DEF NoPadIds, text
  <2>3. InsertedIn(all') = InsertedIn(all) \o InsertedIn(result)
    <3>1. all' = all \o s
      BY <1>1 DEF s
    <3>2. \A k \in 1..Len(s) : s[k].tokens = result[k].tokens
      BY <1>4
    <3>3. InsertedIn(all \o s) = InsertedIn(all) \o InsertedIn(result)
      BY <1>2, <1>3, <1>4, <3>2, InsertedAppended
    <3> QED BY <3>1, <3>3
  <2>4. InsertedIn(all) \in Seq(Int) /\ InsertedIn(result) \in Seq(Int)
    <3>1. InsertedIn(all) \in Seq(Nat) /\ InsertedIn(result) \in Seq(Nat)
      BY <1>2, <1>3, InsertedInType
    <3> QED BY <3>1
  <2>5. Total(InsertedIn(all')) = Total(InsertedIn(all)) + Total(InsertedIn(result))
    BY <2>3, <2>4, TotalConcat
  <2>6. InsertedIn(all)' = InsertedIn(all')
    BY DEF InsertedIn, Inserted
  <2> QED BY <1>3, <1>8, <1>9, <2>1, <2>2, <2>5, <2>6
<1>13. index' <= Len(texts') + 1 /\ pc' # "returned" /\ 1..Len(result') = {}
  BY <1>1, <1>2
<1> QED BY <1>1, <1>5, <1>6, <1>7, <1>9, <1>10, <1>11, <1>12, <1>13 DEF BatchInv, Counters, Chunks

LEMMA BatchEmit == ASSUME PackInv, BatchInv, EmitBucket PROVE BatchInv'
<1> DEFINE chunk == [tokens |-> pad_to_target(bucket),
                     text |-> RecoveredText(pad_to_target(bucket), Len(bucket)),
                     seq_id |-> seq,
                     is_pad |-> MostlyPad(Len(bucket))]
<1>1. /\ pc' = "open" /\ result' = Append(result, chunk)
      /\ UNCHANGED <<texts, index, seq_offset, all, combined>>
  BY DEF EmitBucket, args, batch
<1>2. result \in Seq(Chunks) /\ Len(result) = seq /\ seq \in Nat /\ chunk.seq_id = seq
  BY DEF PackInv, PackTypes
<1>3. \A k \in 1..Len(result) : result[k].seq_id = k - 1
  BY DEF BatchInv
<1> HIDE DEF chunk
<1>4. ASSUME NEW k \in 1..Len(result') PROVE result'[k].seq_id = k - 1
  <2>1. Len(result') = seq + 1 /\ result'[seq + 1] = chunk
        /\ \A j \in 1..seq : result'[j] = result[j]
    BY <1>1, <1>2
  <2>2. k \in 1..seq \/ k = seq + 1
    BY <1>2, <2>1
  <2> QED BY <1>2, <1>3, <2>1, <2>2
<1>5. /\ Sizes(index - 1)' = Sizes(index - 1) /\ InsertedIn(all)' = InsertedIn(all)
      /\ (NoPadIds' <=> NoPadIds)
  BY <1>1 DEF Sizes, InsertedIn, Inserted, NoPadIds
<1> QED BY <1>1, <1>4, <1>5 DEF BatchInv, Counters, Chunks

LEMMA BatchStep == ASSUME PackInv, BatchInv, [Next]_vars PROVE BatchInv'
<1>1. CASE \/ RejectParams \/ BeginText \/ OpenBucket \/ FillRun \/ DiscardBucket
           \/ Exhausted
  <2>1. UNCHANGED <<args, batch, result>> /\ pc' # "returned"
    BY <1>1 DEF RejectParams, BeginText, OpenBucket, FillRun, DiscardBucket, Exhausted, packing
  <2> QED BY <2>1, BatchKept
<1>2. CASE Return
  <2>1. UNCHANGED <<args, batch, result>> /\ index > Len(texts) /\ index <= Len(texts) + 1
    BY <1>2 DEF Return, packing, BatchInv
  <2>2. texts \in Seq(Texts) /\ index \in Nat
    BY DEF PackInv, PackTypes
  <2>3. index = Len(texts) + 1
    BY <2>1, <2>2
  <2> QED BY <2>1, <2>3, BatchKept
<1>3. CASE UNCHANGED vars
  <2>1. UNCHANGED <<args, batch, result>> /\ pc' = pc
    BY <1>3 DEF vars, packing
  <2>2. pc' = "returned" => index = Len(texts) + 1
    BY <2>1 DEF BatchInv
  <2> QED BY <2>1, <2>2, BatchKept
<1> QED BY <1>1, <1>2, <1>3, BatchEmpty, BatchFinish, BatchEmit DEF Next

\* The batch invariant says what the property asks for.
LEMMA BatchFromInv == ASSUME PackInv, BatchInv PROVE BatchConsistent
<1>1. \A k \in 1..Len(all) : all[k].seq_id = k - 1
  BY DEF BatchInv
<1>2. ASSUME pc = "returned"
      PROVE  /\ combined.num_chunks = Len(all)
             /\ combined.total_tokens = Total([k \in 1..Len(texts) |-> texts[k].size])
             /\ (\A k \in 1..Len(texts) : texts[k].pad_ids = {})
                   => combined.pad_tokens_total = Total([k \in 1..Len(all) |-> Inserted(all[k])])
  <2>1. texts \in Seq(Texts) /\ index = Len(texts) + 1
    BY <1>2 DEF PackInv, PackTypes, BatchInv
  <2>2. index - 1 = Len(texts)
    BY <2>1
  <2>3. /\ combined.num_chunks = Len(all)
        /\ combined.total_tokens = Total(Sizes(Len(texts)))
        /\ NoPadIds => combined.pad_tokens_total = Total(InsertedIn(all))
    BY <2>2 DEF BatchInv
  <2> QED BY <2>3, Zenon DEF Sizes, InsertedIn, NoPadIds
<1> QED BY <1>1, <1>2 DEF BatchConsistent

-----------------------------------------------------------------------------
\* Types.

\* The rest of TypeOK, beside the two invariants: in the fill loop the bucket
\* and its cursor have their types by what the loop is known to do.
RestTypes ==
    /\ texts \in BatchLists
    /\ pc \in {"texts", "open", "fill", "stats", "thrown", "returned"}
    /\ prev_end \in Nat
    /\ Active => cursor <= N
    /\ pc # "fill" => /\ fill_cursor \in Nat /\ bucket \in Seq(Nat)
                      /\ Active => fill_cursor <= N
    /\ ~Active => fill_cursor = 0

\* In the fill loop.
LEMMA FillTypes ==
    ASSUME PackInv, pc = "fill"
    PROVE  fill_cursor \in Nat /\ fill_cursor <= N /\ bucket \in Seq(Nat)
<1>1. /\ N \in Nat /\ seq * Fresh \in Nat /\ fill_cursor \in Nat
      /\ Reach(seq + 1) = seq * Fresh + capacity /\ capacity \in Nat
      /\ seq * Fresh <= fill_cursor /\ fill_cursor <= Smaller(N, Reach(seq + 1))
      /\ bucket = Slice(seq * Fresh, fill_cursor)
  BY FillFacts
<1>2. fill_cursor <= N
  BY <1>1 DEF Smaller
<1>3. bucket \in Seq(Nat)
  BY <1>1, SliceType
<1> QED BY <1>1, <1>2, <1>3

LEMMA RestStep == ASSUME PackInv, RestTypes, [Next]_vars PROVE RestTypes'
<1>1. CASE UNCHANGED vars
  BY <1>1 DEF RestTypes, vars, args, batch, packing, Active, N, text
<1>2. CASE RejectParams \/ EmptyText \/ Return
  <2>1. /\ texts' = texts /\ pc = "texts" /\ pc' \in {"thrown", "texts", "returned"}
        /\ UNCHANGED <<prev_end, fill_cursor, bucket>>
    BY <1>2 DEF RejectParams, EmptyText, Return, args, batch, packing
  <2> QED BY <2>1 DEF RestTypes, Active
<1>3. CASE FinishText
  <2>1. /\ texts' = texts /\ pc' = "texts" /\ prev_end' = 0 /\ fill_cursor' = 0 /\ bucket' = <<>>
    BY <1>3 DEF FinishText, args
  <2> QED BY <2>1 DEF RestTypes, Active
<1>4. ASSUME OpenBucket \/ FillRun \/ DiscardBucket \/ EmitBucket \/ Exhausted \/ BeginText
      PROVE  texts' = texts /\ N' = N
  <2>1. UNCHANGED <<args, index>>
    BY <1>4 DEF OpenBucket, FillRun, DiscardBucket, EmitBucket, Exhausted, BeginText, batch
  <2>2. N' = N
    BY <2>1, SameText, Zenon
  <2> QED BY <2>1, <2>2 DEF args
<1>5. CASE BeginText
  <2>1. /\ pc = "texts" /\ pc' = "open" /\ N > 0 /\ index <= Len(texts)
        /\ UNCHANGED <<prev_end, fill_cursor, bucket, cursor>>
    BY <1>5 DEF BeginText, packing
  <2>2. cursor = 0 /\ N \in Nat
    BY <2>1, TextFacts DEF PackInv, CallFacts, Active
  <2>3. fill_cursor = 0
    BY <2>1 DEF RestTypes, Active
  <2> QED BY <1>4, <1>5, <2>1, <2>2, <2>3 DEF RestTypes, Active
<1>6. CASE OpenBucket \/ FillRun
  <2>1. /\ pc \in {"open", "fill"} /\ pc' = "fill" /\ UNCHANGED <<prev_end, cursor>>
    BY <1>6 DEF OpenBucket, FillRun
  <2> QED BY <1>4, <1>6, <2>1 DEF RestTypes, Active
<1>7. CASE Exhausted
  <2>1. /\ pc = "open" /\ pc' = "stats" /\ UNCHANGED <<prev_end, fill_cursor, bucket, cursor>>
    BY <1>7 DEF Exhausted, packing
  <2> QED BY <1>4, <1>7, <2>1 DEF RestTypes, Active
<1>8. CASE DiscardBucket \/ EmitBucket
  <2>1. /\ pc = "fill" /\ pc' \in {"stats", "open"} /\ prev_end' = fill_cursor
        /\ cursor' = fill_cursor /\ UNCHANGED <<fill_cursor, bucket>>
    BY <1>8 DEF DiscardBucket, EmitBucket
  <2>2. fill_cursor \in Nat /\ fill_cursor <= N /\ bucket \in Seq(Nat)
    BY <2>1, FillTypes
  <2> QED BY <1>4, <1>8, <2>1, <2>2 DEF RestTypes, Active
<1> QED BY <1>1, <1>2, <1>3, <1>5, <1>6, <1>7, <1>8 DEF Next

\* The three invariants give the type invariant.
LEMMA TypesFromInv == ASSUME PackInv, BatchInv, RestTypes PROVE TypeOK
<1>1. /\ index \in Nat /\ 1 <= index /\ index <= Len(texts) + 1 /\ texts \in Seq(Texts)
      /\ params \in ParamSets /\ seq \in Nat /\ cursor \in Nat
      /\ result \in Seq(Chunks) /\ all \in Seq(Chunks) /\ seq_offset \in Nat
  BY DEF PackInv, PackTypes, BatchInv
<1>2. index \in 1..Len(texts) + 1
  BY <1>1
<1>3. combined \in [DOMAIN NoStats -> Nat]
  <2>1. combined \in [total_tokens : Nat, num_chunks : Nat, pad_tokens_total : Nat]
    BY DEF BatchInv, Counters
  <2>2. /\ combined = [k \in {"total_tokens", "num_chunks", "pad_tokens_total"} |-> combined[k]]
        /\ \A k \in {"total_tokens", "num_chunks", "pad_tokens_total"} : combined[k] \in Nat
    BY <2>1
  <2>3. DOMAIN NoStats = {"total_tokens", "num_chunks", "pad_tokens_total"}
    BY DEF NoStats
  <2> QED BY <2>2, <2>3
<1>4. /\ \A k \in 1..Len(all) : ChunkOK(all[k])
      /\ \A k \in 1..Len(result) : ChunkOK(result[k])
  <2>1. /\ \A k \in 1..Len(all) : all[k] \in Chunks
        /\ \A k \in 1..Len(result) : result[k] \in Chunks
    BY <1>1
  <2> QED BY <2>1, ChunkIsOK
<1>5. /\ texts \in BatchLists /\ prev_end \in Nat /\ fill_cursor \in Nat /\ bucket \in Seq(Nat)
      /\ pc \in {"texts", "open", "fill", "stats", "thrown", "returned"}
      /\ Active => fill_cursor <= N /\ cursor <= N
  BY FillTypes DEF RestTypes
<1> QED BY <1>1, <1>2, <1>3, <1>4, <1>5 DEF TypeOK, Active

\* The inductive invariant holds in every state.
THEOREM PackingSound == Spec => [](PackInv /\ BatchInv /\ RestTypes)
<1> DEFINE IInv == PackInv /\ BatchInv /\ RestTypes
<1>1. Init => IInv
  <2> SUFFICES ASSUME Init PROVE IInv
    OBVIOUS
  <2>1. PackInv
    BY BatchAssumption DEF Init, PackInv, PackTypes, CallFacts, ChunksInv, LoopInv, Active
  <2>2. RestTypes
    BY DEF Init, RestTypes, Active
  <2> QED BY <2>1, <2>2, BatchInit
<1>2. IInv /\ [Next]_vars => IInv'
  <2> SUFFICES ASSUME IInv, [Next]_vars PROVE IInv'
    OBVIOUS
  <2>1. CASE UNCHANGED vars
    <3>1. UNCHANGED <<texts, params, pc, index, cursor, prev_end, seq, bucket,
                      fill_cursor, result>>
      BY <2>1 DEF vars, args, batch, packing
    <3>2. PackTypes' /\ CallFacts'
      BY <3>1 DEF PackInv, PackTypes, CallFacts, Active, ValidParams, N, text, Chunks
    <3>3. ChunksInv' /\ LoopInv'
      BY <3>1 DEF PackInv, ChunksInv, LoopInv, Active, Filled, IsNeeded, TooShort,
                  MostlyPad, BucketAt, Reach, Fresh, capacity, N, text
    <3>4. PackInv'
      BY <3>2, <3>3 DEF PackInv
    <3> QED BY <3>4, BatchStep, RestStep
  <2>2. CASE Next
    <3>1. PackInv'
      BY <2>2, OpenStep, FillStep, EmitStep, DiscardStep, ExhaustedStep, BetweenTexts DEF Next
    <3> QED BY <3>1, BatchStep, RestStep
  <2> QED BY <2>1, <2>2
<1> QED BY <1>1, <1>2, PTL DEF Spec

\* Every variable has its type, and the fill cursor stays in the text
\* (property TypeOK of chunk_batch and chunk).
THEOREM TypeCorrect == Spec => []TypeOK
BY PackingSound, TypesFromInv, PTL

\* The chunks of a text are the specified buckets, for every text and all
\* parameters (property BucketsAsSpecified): full, padded on the left, with
\* exactly the overlap asked for, and ended by the text or the minimum fill.
THEOREM BucketsCorrect == Spec => []BucketsAsSpecified
<1>1. PackInv => BucketsAsSpecified
  <2> SUFFICES ASSUME PackInv PROVE BucketsAsSpecified
    OBVIOUS
  <2>1. \A k \in DOMAIN result : Filled(k)
    BY DEF PackInv, PackTypes, CallFacts, ChunksInv
  <2> QED BY <2>1, AllBuckets DEF BucketsAsSpecified, Filled
<1> QED BY <1>1, PackingSound, PTL

\* What chunk() leaves out of a text it leaves out for the minimum fill, less
\* than one bucket of new tokens, at the end (property LossBounded).
THEOREM LossCorrect == Spec => []LossBounded
BY PackingSound, LossFromPack, PTL

\* The sequence ids and the statistics of a batch are those of the chunks it
\* returns, whichever texts are empty (property BatchConsistent of chunk_batch).
THEOREM BatchCorrect == Spec => []BatchConsistent
BY PackingSound, BatchFromInv, PTL
=============================================================================
