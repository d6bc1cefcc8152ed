----------------------- MODULE ParagraphChunksProofs -----------------------
(***************************************************************************)
(* Theorems about ParagraphChunks, for any paragraphs, lengths and ratios. *)
(***************************************************************************)
EXTENDS ParagraphChunks, TLAPS

\* What the loop over the windows of one paragraph maintains: the chunks made
\* so far are whole, end before the paragraph does, and leave no gap up to
\* `start`; nothing has been made for the paragraphs still to come.
LoopInv ==
    /\ \A k \in 1..Len(collection) : collection[k].paragraph <= par
    /\ pc # "window" =>
          \A k \in 1..Len(collection) : collection[k].paragraph < par
    /\ pc = "window" =>
          /\ \A i \in 0..(start - 1) : Covered(collection, par, i)
          /\ \A k \in 1..Len(collection) :
                collection[k].paragraph = par
                    => /\ collection[k].from < start
                       /\ collection[k].to = collection[k].from + length
                       /\ collection[k].to < n

-----------------------------------------------------------------------------
\* The quotient of an integer division lies where it should.
LEMMA DivBounds ==
    ASSUME NEW a \in Nat, NEW b \in Nat \ {0}
    PROVE  a \div b \in Nat
OBVIOUS

\* The overlap is a number of tokens, so no window starts beyond the end of
\* the one before it; the clamp makes the loop advance.
LEMMA StrideRange ==
    ASSUME TypeOK
    PROVE  /\ overlap \in Nat
           /\ stride \in Nat
           /\ 1 <= stride
           /\ stride <= length
<1> DEFINE p == overlap_ratio[1]
           q == overlap_ratio[2]
<1>1. length \in Nat /\ length >= 1 /\ p \in Nat /\ q \in Nat /\ q > 0
  BY LengthAssumption, RatioAssumption DEF TypeOK
<1>2. 2 * length * p + q \in Nat
  <2>1. 2 * length \in Nat
    BY <1>1
  <2>2. (2 * length) * p \in Nat
    BY <1>1, <2>1
  <2> QED BY <1>1, <2>2
<1>3. 2 * q \in Nat \ {0}
  BY <1>1
<1>4. overlap \in Nat
  BY <1>2, <1>3, DivBounds DEF overlap
<1> QED BY <1>1, <1>4 DEF stride

\* Every reachable state has its types.
THEOREM TypeCorrect == Spec => []TypeOK
<1>1. Init => TypeOK
  BY ParagraphAssumption DEF Init, TypeOK, ChunkType
<1>2. TypeOK /\ [Next]_vars => TypeOK'
  <2> SUFFICES ASSUME TypeOK, [Next]_vars PROVE TypeOK'
    OBVIOUS
  <2> USE ParagraphAssumption DEF args
  <2>0. /\ paragraphs \in Seq(Nat \cup {Throws})
        /\ length \in Nat /\ length > 0
        /\ Len(paragraphs) \in Nat
    BY LengthAssumption DEF TypeOK
  <2>1. CASE SkipParagraph
    BY <2>0, <2>1 DEF SkipParagraph, TypeOK, n
  <2>2. CASE BeginParagraph
    BY <2>0, <2>2 DEF BeginParagraph, TypeOK, n
  <2>3. CASE Window
    <3>1. /\ par \in 1..Len(paragraphs)
          /\ start \in Nat /\ n \in Nat /\ start < n
      BY <2>0, <2>3 DEF Window, TypeOK, n, Throws
    <3>2. WindowAt(start) \in ChunkType
      BY <2>0, <3>1 DEF WindowAt, ChunkType, Smaller
    <3>3. collection' \in Seq(ChunkType)
      BY <2>3, <3>2 DEF Window, TypeOK
    <3>4. CASE start + length >= n
      BY <2>0, <2>3, <3>1, <3>3, <3>4 DEF Window, TypeOK
    <3>5. CASE ~(start + length >= n)
      <4>1. stride \in Nat /\ stride <= length
        BY StrideRange
      <4>2. start' \in Nat /\ start' < n'
        BY <2>0, <2>3, <3>1, <3>5, <4>1 DEF Window, n
      <4> QED BY <2>0, <2>3, <3>1, <3>3, <3>5, <4>2 DEF Window, TypeOK
    <3> QED BY <3>4, <3>5
  <2>4. CASE Return
    BY <2>0, <2>4 DEF Return, TypeOK
  <2>5. CASE UNCHANGED vars
    BY <2>5 DEF vars, TypeOK, n
  <2> QED BY <2>1, <2>2, <2>3, <2>4, <2>5 DEF Next
<1> QED BY <1>1, <1>2, PTL DEF Spec

-----------------------------------------------------------------------------
\* The chunks a step leaves alone are still there, in the same places: an
\* append adds one at the end and covers what was covered.
LEMMA AppendKeeps ==
    ASSUME TypeOK, NEW ch \in ChunkType, collection' = Append(collection, ch)
    PROVE  /\ Len(collection) \in Nat
           /\ Len(collection') = Len(collection) + 1
           /\ \A k \in 1..Len(collection) : collection'[k] = collection[k]
           /\ collection'[Len(collection) + 1] = ch
           /\ \A q, i : Covered(collection, q, i) => Covered(collection', q, i)
           /\ \A i \in ch.from..(ch.to - 1) : Covered(collection', ch.paragraph, i)
<1>1. /\ Len(collection) \in Nat
      /\ Len(collection') = Len(collection) + 1
      /\ \A k \in 1..Len(collection) : collection'[k] = collection[k]
      /\ collection'[Len(collection) + 1] = ch
  BY DEF TypeOK
<1>2. ASSUME NEW q, NEW i, Covered(collection, q, i) PROVE Covered(collection', q, i)
  BY <1>1, <1>2 DEF Covered
<1>3. ASSUME NEW i \in ch.from..(ch.to - 1) PROVE Covered(collection', ch.paragraph, i)
  <2>1. Len(collection) + 1 \in 1..Len(collection')
    BY <1>1
  <2>2. ch.from <= i /\ i < ch.to
    BY DEF ChunkType
  <2> QED BY <1>1, <2>1, <2>2 DEF Covered
<1> QED BY <1>1, <1>2, <1>3

\* The window the loop appends, in arithmetic.
LEMMA WindowFacts ==
    ASSUME TypeOK, Window
    PROVE  /\ par \in 1..Len(paragraphs) /\ loaded
           /\ start \in Nat /\ n \in Nat /\ start < n
           /\ length \in Nat /\ 1 <= length
           /\ WindowAt(start) \in ChunkType
           /\ WindowAt(start).paragraph = par
           /\ WindowAt(start).from = start
           /\ WindowAt(start).to = IF start + length < n THEN start + length ELSE n
<1>1. /\ par \in 1..Len(paragraphs) /\ loaded
      /\ start \in Nat /\ n \in Nat /\ start < n
      /\ length \in Nat /\ 1 <= length
  BY ParagraphAssumption, LengthAssumption DEF Window, TypeOK, n, Throws
<1>2. WindowAt(start).to = IF start + length < n THEN start + length ELSE n
  BY <1>1 DEF WindowAt, Smaller
<1>3. WindowAt(start) \in ChunkType
  BY <1>1 DEF WindowAt, ChunkType, Smaller
<1> QED BY <1>1, <1>2, <1>3 DEF WindowAt

\* The loop invariant is kept by every step.
THEOREM LoopCorrect == Spec => []LoopInv
<1>1. Init => LoopInv
  BY DEF Init, LoopInv
<1>2. TypeOK /\ TypeOK' /\ LoopInv /\ [Next]_vars => LoopInv'
  <2> SUFFICES ASSUME TypeOK, TypeOK', LoopInv, [Next]_vars PROVE LoopInv'
    OBVIOUS
  <2>0. /\ par \in Nat
        /\ Len(collection) \in Nat
        /\ \A k \in 1..Len(collection) : collection[k].paragraph \in Nat
    <3>1. \A k \in 1..Len(collection) : collection[k] \in ChunkType
      BY DEF TypeOK
    <3>2. \A k \in 1..Len(collection) : collection[k].paragraph \in Nat
      BY <3>1 DEF ChunkType
    <3>3. Len(paragraphs) \in Nat /\ Len(collection) \in Nat
      BY ParagraphAssumption DEF TypeOK
    <3> QED BY <3>2, <3>3 DEF TypeOK
  <2>1. CASE SkipParagraph
    BY <2>0, <2>1 DEF SkipParagraph, LoopInv, args
  <2>2. CASE BeginParagraph
    BY <2>0, <2>2 DEF BeginParagraph, LoopInv, args
  <2>3. CASE Window
    <3> DEFINE ch == WindowAt(start)
               last == Len(collection) + 1
    <3>1. collection' = Append(collection, ch) /\ UNCHANGED args
      BY <2>3 DEF Window
    <3>2. /\ par \in 1..Len(paragraphs)
          /\ start \in Nat /\ n \in Nat /\ start < n
          /\ length \in Nat /\ 1 <= length
          /\ ch \in ChunkType
          /\ ch.paragraph = par /\ ch.from = start
          /\ ch.to = IF start + length < n THEN start + length ELSE n
      BY <2>3, WindowFacts
    <3> HIDE DEF ch
    <3>3. /\ Len(collection') = last
          /\ \A k \in 1..Len(collection) : collection'[k] = collection[k]
          /\ collection'[last] = ch
          /\ \A q, i : Covered(collection, q, i) => Covered(collection', q, i)
          /\ \A i \in ch.from..(ch.to - 1) : Covered(collection', ch.paragraph, i)
      BY <3>1, <3>2, AppendKeeps
    <3>4. \A k \in 1..Len(collection') : k \in 1..Len(collection) \/ k = last
      BY <2>0, <3>3
    <3>5. pc = "window" /\ length' = length /\ paragraphs' = paragraphs
      BY <2>3 DEF Window, args
    <3>6. CASE start + length >= n
      <4>1. par' = par + 1 /\ pc' = "next"
        BY <2>3, <3>6 DEF Window
      <4>2. \A k \in 1..Len(collection') : collection'[k].paragraph < par'
        BY <2>0, <3>2, <3>3, <3>4, <4>1 DEF LoopInv
      <4>3. \A k \in 1..Len(collection') : collection'[k].paragraph <= par'
        BY <2>0, <3>2, <3>3, <3>4, <4>1 DEF LoopInv
      <4> QED BY <4>1, <4>2, <4>3 DEF LoopInv
    <3>7. CASE ~(start + length >= n)
      <4>1. par' = par /\ pc' = "window" /\ start' = start + stride
        BY <2>3, <3>7 DEF Window
      <4>2. stride \in Nat /\ 1 <= stride /\ stride <= length
        BY StrideRange
      <4>3. n' = n /\ ch.to = start + length /\ ch.to < n
        BY <3>2, <3>5, <3>7, <4>1 DEF n
      <4>4. \A k \in 1..Len(collection') : collection'[k].paragraph <= par'
        BY <2>0, <3>2, <3>3, <3>4, <4>1 DEF LoopInv
      <4>5. ASSUME NEW i \in 0..(start' - 1) PROVE Covered(collection', par', i)
        <5>1. CASE i < start
          <6>1. Covered(collection, par, i)
            BY <3>2, <3>5, <5>1 DEF LoopInv
          <6> QED BY <3>3, <4>1, <6>1
        <5>2. CASE ~(i < start)
          <6>1. i \in ch.from..(ch.to - 1)
            BY <3>2, <4>1, <4>2, <4>3, <5>2
          <6> QED BY <3>2, <3>3, <4>1, <6>1
        <5> QED BY <5>1, <5>2
      <4>6. ASSUME NEW k \in 1..Len(collection'), collection'[k].paragraph = par'
            PROVE  /\ collection'[k].from < start'
                   /\ collection'[k].to = collection'[k].from + length'
                   /\ collection'[k].to < n'
        <5>1. CASE k \in 1..Len(collection)
          <6>1. /\ collection[k].from < start
                /\ collection[k].to = collection[k].from + length
                /\ collection[k].to < n
            BY <3>3, <3>5, <4>1, <4>6, <5>1 DEF LoopInv
          <6>2. collection[k].from \in Nat
            <7>1. collection[k] \in ChunkType
              BY <5>1 DEF TypeOK
            <7> QED BY <7>1 DEF ChunkType
          <6> QED BY <3>2, <3>3, <3>5, <4>1, <4>2, <4>3, <5>1, <6>1, <6>2
        <5>2. CASE k = last
          BY <3>2, <3>3, <3>5, <4>1, <4>2, <4>3, <5>2
        <5> QED BY <3>4, <5>1, <5>2
      <4> QED BY <4>1, <4>4, <4>5, <4>6 DEF LoopInv
    <3> QED BY <3>6, <3>7
  <2>4. CASE Return
    BY <2>4 DEF Return, LoopInv, args
  <2>5. CASE UNCHANGED vars
    BY <2>5 DEF vars, args, LoopInv, Covered, n
  <2> QED BY <2>1, <2>2, <2>3, <2>4, <2>5 DEF Next
<1> QED BY <1>1, <1>2, TypeCorrect, PTL DEF Spec

-----------------------------------------------------------------------------
\* Every token of every paragraph that could be tokenized is in a chunk of
\* that paragraph (property NothingLost).
THEOREM NothingIsLost == Spec => []NothingLost
<1>1. Init => NothingLost
  BY DEF Init, NothingLost
<1>2. TypeOK /\ LoopInv /\ NothingLost /\ [Next]_vars => NothingLost'
  <2> SUFFICES ASSUME TypeOK, LoopInv, NothingLost, [Next]_vars
               PROVE  NothingLost'
    OBVIOUS
  <2> USE DEF args
  <2>0. par \in Nat
    BY ParagraphAssumption DEF TypeOK
  <2>1. CASE SkipParagraph
    <3>1. /\ par' = par + 1 /\ collection' = collection
          /\ paragraphs' = paragraphs /\ loaded' = loaded
          /\ par \in 1..Len(paragraphs)
          /\ loaded => n <= 0
      BY <2>0, <2>1, ParagraphAssumption DEF SkipParagraph, TypeOK
    <3>2. n \in Int
      BY <3>1, ParagraphAssumption DEF TypeOK, n, Throws
    <3> QED BY <2>0, <3>1, <3>2 DEF NothingLost, n
  <2>2. CASE BeginParagraph
    BY <2>2 DEF BeginParagraph, NothingLost
  <2>3. CASE Window
    <3> DEFINE ch == WindowAt(start)
    <3>1. collection' = Append(collection, ch) /\ UNCHANGED args
      BY <2>3 DEF Window
    <3>2. /\ loaded /\ start \in Nat /\ n \in Nat /\ start < n
          /\ ch \in ChunkType
          /\ ch.paragraph = par /\ ch.from = start
          /\ ch.to = IF start + length < n THEN start + length ELSE n
          /\ length \in Nat
      BY <2>3, WindowFacts
    <3> HIDE DEF ch
    <3>3. /\ \A q, i : Covered(collection, q, i) => Covered(collection', q, i)
          /\ \A i \in ch.from..(ch.to - 1) : Covered(collection', ch.paragraph, i)
      BY <3>1, <3>2, AppendKeeps
    <3>4. \A q \in 1..(par - 1) :
             \A i \in 0..(paragraphs[q] - 1) : Covered(collection', q, i)
      BY <3>2, <3>3 DEF NothingLost
    <3>5. CASE start + length >= n
      <4>1. par' = par + 1
        BY <2>3, <3>5 DEF Window
      <4>2. ASSUME NEW i \in 0..(n - 1) PROVE Covered(collection', par, i)
        <5>1. CASE i < start
          <6>1. Covered(collection, par, i)
            BY <2>3, <3>2, <5>1 DEF Window, LoopInv
          <6> QED BY <3>3, <6>1
        <5>2. CASE ~(i < start)
          BY <3>2, <3>3, <3>5, <5>2
        <5> QED BY <5>1, <5>2
      <4> QED BY <2>0, <3>1, <3>4, <4>1, <4>2 DEF NothingLost, n
    <3>6. CASE ~(start + length >= n)
      <4>1. par' = par
        BY <2>3, <3>6 DEF Window
      <4> QED BY <3>1, <3>4, <4>1 DEF NothingLost
    <3> QED BY <3>5, <3>6
  <2>4. CASE Return
    BY <2>4 DEF Return, NothingLost
  <2>5. CASE UNCHANGED vars
    BY <2>5 DEF vars, NothingLost
  <2> QED BY <2>1, <2>2, <2>3, <2>4, <2>5 DEF Next
<1> QED BY <1>1, <1>2, TypeCorrect, LoopCorrect, PTL DEF Spec

\* Chunks are in reading order and none repeats only what came before
\* (property EachChunkAdvances).
THEOREM ChunksAdvance == Spec => []EachChunkAdvances
<1>1. Init => EachChunkAdvances
  BY DEF Init, EachChunkAdvances
<1>2. TypeOK /\ LoopInv /\ EachChunkAdvances /\ [Next]_vars => EachChunkAdvances'
  <2> SUFFICES ASSUME TypeOK, LoopInv, EachChunkAdvances, [Next]_vars
               PROVE  EachChunkAdvances'
    OBVIOUS
  <2>1. CASE Window
    <3> DEFINE ch == WindowAt(start)
               last == Len(collection) + 1
    <3>1. collection' = Append(collection, ch) /\ pc = "window"
      BY <2>1 DEF Window
    <3>2. /\ par \in 1..Len(paragraphs) /\ start \in Nat /\ n \in Nat /\ start < n
          /\ ch \in ChunkType
          /\ ch.paragraph = par /\ ch.from = start
          /\ ch.to = IF start + length < n THEN start + length ELSE n
          /\ length \in Nat
      BY <2>1, WindowFacts
    <3> HIDE DEF ch
    <3>3. /\ Len(collection) \in Nat
          /\ Len(collection') = last
          /\ \A k \in 1..Len(collection) : collection'[k] = collection[k]
          /\ collection'[last] = ch
      BY <3>1, <3>2, AppendKeeps
    <3>4. ASSUME NEW j \in 1..Len(collection)
          PROVE  \/ collection[j].paragraph < par
                 \/ /\ collection[j].paragraph = par
                    /\ collection[j].from < ch.from
                    /\ collection[j].to < ch.to
      <4>1. collection[j] \in ChunkType
        BY DEF TypeOK
      <4>2. /\ collection[j].paragraph \in Nat
            /\ collection[j].from \in Nat
            /\ collection[j].to \in Nat
        BY <4>1 DEF ChunkType
      <4>3. collection[j].paragraph <= par
        BY DEF LoopInv
      <4>4. CASE collection[j].paragraph = par
        BY <3>1, <3>2, <4>2, <4>4 DEF LoopInv
      <4>5. CASE collection[j].paragraph # par
        <5>1. par \in Nat
          BY <3>2
        <5> QED BY <4>2, <4>3, <4>5, <5>1
      <4> QED BY <4>4, <4>5
    <3>5. ASSUME NEW j \in 1..Len(collection'), NEW k \in 1..Len(collection'), j < k
          PROVE  \/ collection'[j].paragraph < collection'[k].paragraph
                 \/ /\ collection'[j].paragraph = collection'[k].paragraph
                    /\ collection'[j].from < collection'[k].from
                    /\ collection'[j].to < collection'[k].to
      <4>1. j \in 1..Len(collection)
        BY <3>3, <3>5
      <4>2. CASE k = last
        BY <3>2, <3>3, <3>4, <4>1, <4>2
      <4>3. CASE k # last
        <5>1. k \in 1..Len(collection)
          BY <3>3, <4>3
        <5> QED BY <3>3, <3>5, <4>1, <5>1 DEF EachChunkAdvances
      <4> QED BY <4>2, <4>3
    <3> QED BY <3>5 DEF EachChunkAdvances
  <2>2. CASE UNCHANGED collection
    BY <2>2 DEF EachChunkAdvances
  <2> QED BY <2>1, <2>2 DEF Next, SkipParagraph, BeginParagraph, Return, vars
<1> QED BY <1>1, <1>2, TypeCorrect, LoopCorrect, PTL DEF Spec

-----------------------------------------------------------------------------
\* Besides holding the chunks it should, the loop begins its next window where
\* one should begin.
CutInv ==
    /\ pc = "window" => start \in Starts(par)
    /\ pc # "window" => start = 0
    /\ { collection[k] : k \in DOMAIN collection } = IF loaded THEN SpecifiedChunks ELSE {}

\* Two different multiples of a number are at least that number apart.
LEMMA MultiplesApart ==
    ASSUME NEW a \in Nat, NEW j \in Nat, NEW k \in Nat, j * a < k * a
    PROVE  j * a + a <= k * a
<1>1. j * a \in Nat /\ k * a \in Nat
  OBVIOUS
<1>2. ~(k <= j)
  <2>1. ASSUME k <= j PROVE FALSE
    <3>1. PICK d \in Nat : j = k + d
      <4>1. j - k \in Nat /\ j = k + (j - k)
        BY <2>1
      <4> QED BY <4>1
    <3>2. j * a = k * a + d * a /\ d * a \in Nat
      BY <3>1
    <3> QED BY <1>1, <3>2
  <2> QED BY <2>1
<1>3. PICK d \in Nat : k = (j + 1) + d
  <2>1. k - (j + 1) \in Nat /\ k = (j + 1) + (k - (j + 1))
    BY <1>2
  <2> QED BY <2>1
<1>4. k * a = (j * a + a) + d * a /\ d * a \in Nat
  BY <1>3
<1> QED BY <1>1, <1>4

\* The advance a caller expects is the stride the code takes.
LEMMA AdvanceIsStride ==
    ASSUME TypeOK
    PROVE  Advance = stride
<1>1. length \in Nat /\ 1 <= length
  BY LengthAssumption DEF TypeOK
<1> QED BY <1>1, StrideRange DEF Advance, stride, Smaller

\* Between one start and the next, a stride further on, there is none.
LEMMA StartsApart ==
    ASSUME TypeOK, NEW p, NEW x \in Starts(p), NEW y \in Starts(p), x < y
    PROVE  x + stride <= y
<1>1. PICK j \in 0..x : x = j * stride
  BY AdvanceIsStride DEF Starts
<1>2. PICK k \in 0..y : y = k * stride
  BY AdvanceIsStride DEF Starts
<1>3. x \in Nat /\ y \in Nat /\ stride \in Nat
  <2>1. Starts(p) \subseteq Nat
    BY DEF Starts
  <2> QED BY <2>1, StrideRange
<1>4. j \in Nat /\ k \in Nat
  BY <1>1, <1>2, <1>3
<1> HIDE DEF stride
<1> QED BY <1>1, <1>2, <1>3, <1>4, MultiplesApart

\* After a window that does not reach the end, the next one has its place a
\* stride further on.
LEMMA NextStart ==
    ASSUME TypeOK, Window, start \in Starts(par), ~(start + length >= n)
    PROVE  start + stride \in Starts(par)
<1>1. /\ start \in Nat /\ n \in Nat /\ start < n
      /\ length \in Nat /\ 1 <= length /\ n = paragraphs[par]
  BY WindowFacts DEF n
<1>2. stride \in Nat /\ 1 <= stride /\ stride <= length /\ Advance = stride
  BY StrideRange, AdvanceIsStride
<1>3. PICK k \in 0..start : start = k * stride
  BY <1>2 DEF Starts
<1> HIDE DEF stride, Advance
<1>4. (k + 1) * stride = start + stride /\ k + 1 \in 0..(start + stride)
  BY <1>1, <1>2, <1>3
<1>5. start + stride \in 0..(paragraphs[par] - 1)
  BY <1>1, <1>2
<1>6. ((start + stride) - Advance) + length < paragraphs[par]
  BY <1>1, <1>2
<1> QED BY <1>2, <1>4, <1>5, <1>6 DEF Starts

\* A chunk belongs to the specified ones when it has a place among them.
LEMMA SpecifiedMembers ==
    ASSUME NEW ch
    PROVE  ch \in SpecifiedChunks <=>
              \E p \in (1..par) \cap DOMAIN paragraphs : \E x \in Starts(p) :
                 (p < par \/ x < start) /\ ch = ChunkAt(p, x)
BY DEF SpecifiedChunks

\* The window the code cuts is the chunk specified for its place.
LEMMA WindowIsChunk ==
    ASSUME TypeOK, Window
    PROVE  WindowAt(start) = ChunkAt(par, start)
<1>1. /\ start \in Nat /\ n \in Nat /\ length \in Nat /\ n = paragraphs[par]
      /\ token_padding \in BOOLEAN
  BY WindowFacts DEF n, TypeOK
<1>2. CASE start + length > n
  BY <1>1, <1>2 DEF WindowAt, ChunkAt, Smaller
<1>3. CASE start + length <= n
  <2>1. Smaller(start + length, n) = start + length
    BY <1>1, <1>3 DEF Smaller
  <2>2. length - ((start + length) - start) = 0 /\ ~((start + length) - n > 0)
    BY <1>1, <1>3
  <2>3. WindowAt(start) = [paragraph |-> par, from |-> start, to |-> start + length,
                           left |-> 0, right |-> 0]
    BY <2>1, <2>2 DEF WindowAt
  <2>4. ChunkAt(par, start) = [paragraph |-> par, from |-> start, to |-> start + length,
                               left |-> 0, right |-> 0]
    BY <1>1, <2>2 DEF ChunkAt
  <2> QED BY <2>3, <2>4
<1> QED BY <1>1, <1>2, <1>3

\* The collection is the one the sizes call for, whatever the lengths, the
\* ratio, the padding and the failures (property ChunksAsSpecified).
THEOREM CollectionSpecified == Spec => []ChunksAsSpecified
<1>1. Init => CutInv
  BY DEF Init, CutInv, SpecifiedChunks, Starts
<1>2. TypeOK /\ TypeOK' /\ CutInv /\ [Next]_vars => CutInv'
  <2> SUFFICES ASSUME TypeOK, TypeOK', CutInv, [Next]_vars PROVE CutInv'
    OBVIOUS
  <2>0. /\ par \in Nat /\ par >= 1
        /\ \A p \in DOMAIN paragraphs : p \in 1..Len(paragraphs)
        /\ \A p : Starts(p) \subseteq Nat
    BY ParagraphAssumption DEF TypeOK, Starts
  <2>1. CASE UNCHANGED args /\ ~Window
    <3>1. /\ \A p : Starts(p)' = Starts(p)
          /\ \A p, x : ChunkAt(p, x)' = ChunkAt(p, x)
          /\ paragraphs' = paragraphs /\ loaded' = loaded
      BY <2>1 DEF args, Starts, ChunkAt, Advance, overlap
    <3>2. CASE SkipParagraph
      <4>1. /\ par' = par + 1 /\ start' = start /\ start = 0
            /\ collection' = collection /\ pc' = pc /\ pc = "next"
            /\ loaded => n <= 0
        BY <3>2 DEF SkipParagraph, CutInv
      <4>2. loaded => Starts(par) = {}
        <5>1. par \in DOMAIN paragraphs /\ n \in Int
          BY <2>0, <3>2, ParagraphAssumption DEF SkipParagraph, TypeOK, n, Throws
        <5> QED BY <4>1, <5>1 DEF Starts, n
      <4>3. loaded => SpecifiedChunks' = SpecifiedChunks
        <5> SUFFICES ASSUME loaded, NEW ch
                     PROVE  ch \in SpecifiedChunks' <=> ch \in SpecifiedChunks
          OBVIOUS
        <5>1. ch \in SpecifiedChunks' <=>
                 \E p \in (1..(par + 1)) \cap DOMAIN paragraphs : \E x \in Starts(p) :
                    (p < par + 1 \/ x < start) /\ ch = ChunkAt(p, x)
          BY <3>1, <4>1 DEF SpecifiedChunks
        <5>2. \A p : \A x \in Starts(p) : ~(x < start)
          BY <2>0, <4>1
        <5>3. \A p \in (1..(par + 1)) \cap DOMAIN paragraphs :
                 p < par + 1 <=> p < par \/ p = par
          BY <2>0
        <5> QED BY <2>0, <4>2, <5>1, <5>2, <5>3, SpecifiedMembers
      <4> QED BY <3>1, <4>1, <4>3 DEF CutInv
    <3>3. CASE BeginParagraph
      <4>1. /\ par' = par /\ start' = start /\ start = 0 /\ pc' = "window"
            /\ collection' = collection
        BY <3>3 DEF BeginParagraph, CutInv
      <4>2. 0 \in Starts(par)
        <5>1. n \in Nat /\ n > 0 /\ n = paragraphs[par]
          BY <2>0, <3>3, ParagraphAssumption DEF BeginParagraph, TypeOK, n, Throws
        <5>2. 0 = 0 * Advance
          BY AdvanceIsStride, StrideRange
        <5> QED BY <5>1, <5>2 DEF Starts
      <4>3. SpecifiedChunks' = SpecifiedChunks
        BY <3>1, <4>1 DEF SpecifiedChunks
      <4> QED BY <3>1, <4>1, <4>2, <4>3 DEF CutInv
    <3>4. CASE Return \/ UNCHANGED vars
      <4>1. /\ par' = par /\ start' = start /\ collection' = collection
            /\ pc' = "window" <=> pc = "window"
        BY <3>4 DEF Return, vars
      <4>2. SpecifiedChunks' = SpecifiedChunks
        BY <3>1, <4>1 DEF SpecifiedChunks
      <4> QED BY <3>1, <4>1, <4>2 DEF CutInv
    <3> QED BY <2>1, <3>2, <3>3, <3>4 DEF Next
  <2>2. CASE Window
    <3>1. /\ \A p : Starts(p)' = Starts(p)
          /\ \A p, x : ChunkAt(p, x)' = ChunkAt(p, x)
          /\ paragraphs' = paragraphs /\ loaded' = loaded
      BY <2>2 DEF Window, args, Starts, ChunkAt, Advance, overlap
    <3>2. /\ start \in Starts(par) /\ loaded /\ pc = "window"
          /\ start \in Nat /\ n \in Nat /\ start < n /\ n = paragraphs[par]
          /\ length \in Nat /\ 1 <= length
          /\ par \in (1..par) \cap DOMAIN paragraphs
          /\ stride \in Nat /\ 1 <= stride
      BY <2>0, <2>2, WindowFacts, StrideRange, ParagraphAssumption
      DEF Window, CutInv, n, TypeOK
    <3>3. { collection'[k] : k \in DOMAIN collection' }
             = { collection[k] : k \in DOMAIN collection } \cup { ChunkAt(par, start) }
      <4>1. collection' = Append(collection, ChunkAt(par, start))
        BY <2>2, WindowIsChunk DEF Window
      <4>2. WindowAt(start) \in ChunkType
        BY <2>2, WindowFacts
      <4>3. ChunkAt(par, start) \in ChunkType
        BY <2>2, <4>2, WindowIsChunk
      <4>4. /\ Len(collection) \in Nat
            /\ Len(collection') = Len(collection) + 1
            /\ \A k \in 1..Len(collection) : collection'[k] = collection[k]
            /\ collection'[Len(collection) + 1] = ChunkAt(par, start)
        BY <4>1, <4>3, AppendKeeps
      <4>5. DOMAIN collection' = 1..Len(collection') /\ DOMAIN collection = 1..Len(collection)
        BY DEF TypeOK
      <4>6. DOMAIN collection' = DOMAIN collection \cup {Len(collection) + 1}
        BY <4>4, <4>5
      <4> QED BY <4>4, <4>5, <4>6
    <3>4. SpecifiedChunks' = SpecifiedChunks \cup { ChunkAt(par, start) }
      <4> SUFFICES ASSUME NEW ch
                   PROVE  ch \in SpecifiedChunks' <=>
                             ch \in SpecifiedChunks \/ ch = ChunkAt(par, start)
        OBVIOUS
      <4>1. ch \in SpecifiedChunks' <=>
               \E p \in (1..par') \cap DOMAIN paragraphs : \E x \in Starts(p) :
                  (p < par' \/ x < start') /\ ch = ChunkAt(p, x)
        BY <3>1 DEF SpecifiedChunks
      <4>2. CASE start + length >= n
        <5>1. par' = par + 1 /\ start' = 0
          BY <2>2, <4>2 DEF Window
        <5>2. \A x \in Starts(par) : x < start \/ x = start
          <6> SUFFICES ASSUME NEW x \in Starts(par), start < x PROVE FALSE
            BY <2>0, <3>2
          <6>1. start + stride <= x
            BY <3>2, StartsApart
          <6>2. x # 0 /\ (x - stride) + length < n
            BY <2>0, <3>2, <6>1, AdvanceIsStride DEF Starts
          <6>3. x \in Nat
            BY <2>0
          <6> QED BY <3>2, <4>2, <6>1, <6>2, <6>3
        <5>3. \A p : \A x \in Starts(p) : ~(x < start')
          BY <2>0, <5>1
        <5>4. \A p \in 1..(par + 1) : p < par + 1 <=> p < par \/ p = par
          BY <2>0
        <5>5. (1..par) \subseteq 1..(par + 1) /\ \A p \in 1..(par + 1) : p < par => p \in 1..par
          BY <2>0
        <5>6. ch \in SpecifiedChunks' <=>
                 \E p \in (1..par) \cap DOMAIN paragraphs : \E x \in Starts(p) :
                    (p < par \/ p = par) /\ ch = ChunkAt(p, x)
          BY <2>0, <3>2, <4>1, <5>1, <5>3, <5>4, <5>5
        <5> QED BY <3>2, <5>2, <5>6, SpecifiedMembers
      <4>3. CASE ~(start + length >= n)
        <5>1. par' = par /\ start' = start + stride
          BY <2>2, <4>3 DEF Window
        <5>2. \A x \in Starts(par) : x < start + stride <=> x < start \/ x = start
          <6> SUFFICES ASSUME NEW x \in Starts(par)
                       PROVE  x < start + stride <=> x < start \/ x = start
            OBVIOUS
          <6>1. x \in Nat
            BY <2>0
          <6>2. start < x => start + stride <= x
            BY <3>2, StartsApart
          <6> QED BY <3>2, <6>1, <6>2
        <5>3. \A p \in 1..par : ~(p < par) => p = par
          BY <2>0
        <5> QED BY <3>2, <4>1, <5>1, <5>2, <5>3, SpecifiedMembers
      <4> QED BY <4>2, <4>3
    <3>5. /\ pc' = "window" => start' \in Starts(par')
          /\ pc' # "window" => start' = 0
      <4>1. CASE start + length >= n
        BY <2>2, <4>1 DEF Window
      <4>2. CASE ~(start + length >= n)
        BY <2>2, <3>2, <4>2, NextStart DEF Window
      <4> QED BY <4>1, <4>2
    <3> QED BY <3>1, <3>2, <3>3, <3>4, <3>5 DEF CutInv
  <2>3. [Next]_vars => Window \/ UNCHANGED args
    BY DEF Next, SkipParagraph, BeginParagraph, Return, vars
  <2> QED BY <2>1, <2>2, <2>3
<1>3. CutInv /\ EachChunkAdvances => ChunksAsSpecified
  BY DEF CutInv, ChunksAsSpecified
<1> QED BY <1>1, <1>2, <1>3, TypeCorrect, ChunksAdvance, PTL DEF Spec
=============================================================================
