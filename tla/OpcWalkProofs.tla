--------------------------- MODULE OpcWalkProofs ---------------------------
(***************************************************************************)
(* What opc_parse_data reads from any package.  Texts: each is on exactly  *)
(* one page, in exactly one paragraph; unless one is exposed, the pages    *)
(* are those a reader of the XML would make, and no frame reads freed      *)
(* memory.  Workbooks: a shared string holds every text of its item once,  *)
(* and the cells show the strings their indices name.                      *)
(***************************************************************************)
EXTENDS OpcWalk, SequenceLemmas, FiniteSetTheorems

\* A text is in paragraph q of page k.
On(ps, k, q, i) == k \in DOMAIN ps /\ q \in DOMAIN ps[k] /\ i \in ToSet(ps[k][q])

-----------------------------------------------------------------------------
\* Numbers and pages.

LEMMA GreatestElement ==
    ASSUME NEW n \in Int, NEW S, S # {}, \A x \in S : x \in Int /\ x <= n
    PROVE  Max(S) \in S /\ \A y \in S : Max(S) >= y
<1> DEFINE T == { n - x : x \in S }
<1>1. T \in SUBSET Nat /\ T # {}
  OBVIOUS
<1>2. PICK l \in T : \A j \in T : l <= j
  BY <1>1, LeastElement
<1>3. PICK m \in S : l = n - m
  BY <1>2
<1>4. ASSUME NEW y \in S PROVE m >= y
  <2>1. l <= n - y
    BY <1>2
  <2> QED BY <1>3, <2>1
<1> QED BY <1>3, <1>4 DEF Max

\* A larger capacity.
LEMMA GrownMore ==
    ASSUME NEW c \in Nat, NEW c2 \in Grown(c)
    PROVE  c2 \in Nat /\ c + 1 <= c2
<1>1. PICK x \in Int : c2 = Max({x, c + 1})
  <2>1. 2 * c \in Int /\ c + c \div 2 \in Int
    OBVIOUS
  <2> QED BY <2>1 DEF Grown
<1> DEFINE n == IF x < c + 1 THEN c + 1 ELSE x
<1>2. n \in Int /\ {x, c + 1} # {} /\ \A y \in {x, c + 1} : y \in Int /\ y <= n
  OBVIOUS
<1>3. Max({x, c + 1}) \in {x, c + 1} /\ Max({x, c + 1}) >= c + 1
  <2> HIDE DEF n
  <2> QED BY <1>2, GreatestElement
<1> QED BY <1>1, <1>3

\* A page at the end, and an empty paragraph, hold nothing yet.
LEMMA OnPush ==
    ASSUME NEW ps \in Seq(Seq(Seq(Nat))), NEW k, NEW q, NEW i
    PROVE  On(Append(ps, <<>>), k, q, i) <=> On(ps, k, q, i)
BY DEF On, ToSet

LEMMA OnParagraph ==
    ASSUME NEW ps \in Seq(Seq(Seq(Nat))), NEW at \in 1..Len(ps), NEW k, NEW q, NEW i
    PROVE  On([ps EXCEPT ![at] = Append(@, <<>>)], k, q, i) <=> On(ps, k, q, i)
<1> DEFINE page == ps[at]
           more == Append(page, <<>>)
           ps2 == [ps EXCEPT ![at] = more]
<1>1. page \in Seq(Seq(Nat))
  OBVIOUS
<1>2. /\ DOMAIN more = 1..(Len(page) + 1) /\ DOMAIN page = 1..Len(page)
      /\ Len(page) \in Nat /\ more[Len(page) + 1] = <<>>
      /\ \A x \in 1..Len(page) : more[x] = page[x]
  BY <1>1
<1>3. ToSet(<<>>) = {}
  BY DEF ToSet
<1>4. CASE k = at
  BY <1>2, <1>3, <1>4 DEF On
<1>5. CASE k # at
  BY <1>5 DEF On
<1> QED BY <1>4, <1>5

\* ps2 has text t in paragraph q of page at, and else what ps has.
Gains(ps, ps2, at, q, t) ==
    \A k, r, i : On(ps2, k, r, i) <=> On(ps, k, r, i) \/ (k = at /\ r = q /\ i = t)

\* A text in a paragraph of its own.
LEMMA OnAlone ==
    ASSUME NEW ps \in Seq(Seq(Seq(Nat))), NEW ps2 \in Seq(Seq(Seq(Nat))), Len(ps2) = Len(ps),
           NEW at \in 1..Len(ps), NEW t \in Nat, ps[at] = <<>>, ps2[at] = <<<<t>>>>,
           \A k \in 1..Len(ps) : k # at => ps2[k] = ps[k]
    PROVE  Gains(ps, ps2, at, 1, t)
<1> SUFFICES ASSUME NEW k, NEW q, NEW i
             PROVE  On(ps2, k, q, i) <=> On(ps, k, q, i) \/ (k = at /\ q = 1 /\ i = t)
  BY DEF Gains
<1>1. ToSet(<<t>>) = {t} /\ DOMAIN <<<<t>>>> = 1..1 /\ <<<<t>>>>[1] = <<t>>
  BY DEF ToSet
<1>2. DOMAIN ps = 1..Len(ps) /\ DOMAIN ps2 = 1..Len(ps)
  OBVIOUS
<1>3. CASE k = at
  <2>1. On(ps2, k, q, i) <=> q \in 1..1 /\ i \in ToSet(<<<<t>>>>[q])
    BY <1>1, <1>2, <1>3 DEF On
  <2>2. q \in 1..1 <=> q = 1
    OBVIOUS
  <2>3. i \in ToSet(<<<<t>>>>[1]) <=> i = t
    BY <1>1
  <2>4. ~On(ps, k, q, i)
    BY <1>3 DEF On
  <2> QED BY <1>3, <2>1, <2>2, <2>3, <2>4
<1>4. CASE k # at
  BY <1>2, <1>4 DEF On
<1> QED BY <1>3, <1>4

\* A text at the end of a paragraph.
LEMMA OnLast ==
    ASSUME NEW ps, NEW ps2, DOMAIN ps2 = DOMAIN ps, NEW at \in DOMAIN ps, NEW t,
           DOMAIN ps2[at] = DOMAIN ps[at], NEW last \in DOMAIN ps[at],
           ToSet(ps2[at][last]) = ToSet(ps[at][last]) \cup {t},
           \A x \in DOMAIN ps[at] : x # last => ps2[at][x] = ps[at][x],
           \A k \in DOMAIN ps : k # at => ps2[k] = ps[k]
    PROVE  Gains(ps, ps2, at, last, t)
<1> SUFFICES ASSUME NEW k, NEW q, NEW i
             PROVE  On(ps2, k, q, i)
                       <=> On(ps, k, q, i) \/ (k = at /\ q = last /\ i = t)
  BY DEF Gains
<1>1. CASE k = at /\ q = last
  BY <1>1 DEF On
<1>2. CASE k = at /\ q # last
  BY <1>2 DEF On
<1>3. CASE k # at
  BY <1>3 DEF On
<1> QED BY <1>1, <1>2, <1>3

-----------------------------------------------------------------------------
\* Types.

\* Which stage goes with which type.
StageInv ==
    /\ type \in {"unknown", "docx", "pptx", "xlsx"}
    /\ stage \in {"find", "walk", "string", "concat", "sheet", "done", "failed", "undefined"}
    /\ stage = "find" => type = "unknown" /\ doc = <<>>
    /\ stage = "walk" => type \in {"docx", "pptx"}
    /\ stage \in {"string", "concat", "sheet"} => type = "xlsx"
    /\ type \in {"unknown", "xlsx"} => pages = <<>> /\ frames = <<>>
    /\ type = "docx" /\ stage = "walk" => pages # <<>>

Pointer == Nat \X Nat

DepthOf(d) == IF d = <<>> THEN 0 ELSE Last(d).depth

\* There is a frame for every element around the last node.
TreeInv ==
    /\ doc \in Seq(Node)
    /\ pages \in Seq(Seq(Seq(Nat)))
    /\ frames \in Seq(Pointer)
    /\ capacity \in Nat /\ generation \in Nat /\ Len(pages) <= capacity
    /\ \A f \in 1..Len(frames) : /\ 1 <= frames[f][1] /\ frames[f][1] <= Len(pages)
                                 /\ frames[f][2] <= generation
    /\ \A k, q, i : On(pages, k, q, i) => i \in Texts
    /\ stage = "walk" => Len(frames) = DepthOf(doc)

\* What is read of a workbook.
Value == Seq(Nat \cup {"1", "TRUE", "FALSE"})
Sheet == [name : Nat, rows : Seq(Seq(Value))]
Entry == [found : BOOLEAN, rows : Seq(Seq(Cell))]

BookTypes ==
    /\ stack \in Seq(0..Len(doc)) /\ out \in Seq(1..Len(doc))
    /\ stage # "concat" => stack = <<>> /\ out = <<>>
    /\ strings \in Seq(Seq(Node)) /\ sst \in Seq(Value) /\ Len(sst) = Len(strings)
    /\ entries \in Seq(Entry) /\ sheets \in Seq(Sheet) /\ Len(sheets) <= Len(entries)
    /\ stage \in {"find", "walk", "string", "concat"} => entries = <<>>
    /\ stage = "sheet" => entries # <<>> /\ (Last(entries).found => sheets # <<>>)

\* A frame at the depth of the node that is reached, with the pointer of the
\* frame returned to or to the last page.
LEMMA Visited ==
    ASSUME StageInv, TreeInv, NEW n \in Node, Visit(n)
    PROVE  /\ n.depth \in 1..(Len(frames) + 1)
           /\ stage = "walk" /\ Len(pages) \in Nat /\ 1 <= Len(pages)
           /\ doc' = Append(doc, n) /\ doc' \in Seq(Node) /\ Len(doc') = Len(doc) + 1
           /\ Last(doc').depth = n.depth /\ doc' # <<>> /\ doc'[Len(doc) + 1] = n
           /\ \A i \in 1..Len(doc) : doc'[i] = doc[i]
           /\ FramesAt(n.depth) \in Seq(Pointer)
           /\ Len(FramesAt(n.depth)) = n.depth
           /\ \A f \in 1..(n.depth - 1) : FramesAt(n.depth)[f] = frames[f] /\ f \in 1..Len(frames)
           /\ FramesAt(n.depth)[n.depth] = IF n.depth > Len(frames) THEN Back ELSE frames[n.depth]
<1> DEFINE d == n.depth
<1>1. /\ doc \in Seq(Node) /\ frames \in Seq(Pointer) /\ pages \in Seq(Seq(Seq(Nat)))
      /\ Len(frames) \in Nat /\ Len(pages) \in Nat /\ Len(doc) \in Nat /\ generation \in Nat
  BY DEF TreeInv
<1>2. stage = "walk" /\ doc' = Append(doc, n) /\ pages # <<>> /\ 1 <= Len(pages)
  <2>1. stage = "walk" /\ doc' = Append(doc, n) /\ (type = "pptx" => pages # <<>>)
    BY DEF Visit
  <2>2. pages # <<>>
    BY <2>1 DEF StageInv
  <2> QED BY <1>1, <2>1, <2>2
<1>3. d \in 1..(Len(frames) + 1)
  <2>1. d \in 1..(DepthOf(doc) + 1)
    BY DEF Visit, MayFollow, DepthOf
  <2>2. Len(frames) = DepthOf(doc)
    BY <1>2 DEF TreeInv
  <2> QED BY <2>1, <2>2
<1>4. /\ doc' \in Seq(Node) /\ Len(doc') = Len(doc) + 1 /\ doc'[Len(doc) + 1] = n
      /\ \A i \in 1..Len(doc) : doc'[i] = doc[i]
  BY <1>1, <1>2
<1>5. Last(doc') = n /\ doc' # <<>>
  BY <1>1, <1>4 DEF Last
<1> HIDE DEF d
<1>6. CASE d > Len(frames)
  <2>1. d = Len(frames) + 1 /\ Back \in Pointer
    BY <1>1, <1>3, <1>6 DEF Back, Pointer
  <2>2. FramesAt(d) = Append(frames, Back)
    BY <1>6 DEF FramesAt
  <2>3. /\ FramesAt(d) \in Seq(Pointer) /\ Len(FramesAt(d)) = d
        /\ FramesAt(d)[d] = Back
        /\ \A f \in 1..(d - 1) : FramesAt(d)[f] = frames[f] /\ f \in 1..Len(frames)
    <3>1. PICK b \in Pointer : b = Back
      BY <2>1
    <3>2. FramesAt(d) = Append(frames, b)
      BY <2>2, <3>1
    <3>3. /\ Append(frames, b) \in Seq(Pointer) /\ Len(Append(frames, b)) = Len(frames) + 1
          /\ \A f \in 1..Len(frames) : Append(frames, b)[f] = frames[f]
          /\ Append(frames, b)[Len(frames) + 1] = b
      BY <1>1, AppendProperties
    <3>4. \A f \in 1..(d - 1) : f \in 1..Len(frames)
      BY <1>1, <2>1
    <3> QED BY <2>1, <3>1, <3>2, <3>3, <3>4
  <2> QED BY <1>1, <1>2, <1>3, <1>4, <1>5, <1>6, <2>3 DEF d
<1>7. CASE d <= Len(frames)
  <2>1. FramesAt(d) = SubSeq(frames, 1, d)
    BY <1>1, <1>3, <1>7 DEF FramesAt
  <2>2. /\ FramesAt(d) \in Seq(Pointer) /\ Len(FramesAt(d)) = d
        /\ \A f \in 1..d : FramesAt(d)[f] = frames[f] /\ f \in 1..Len(frames)
    BY <1>1, <1>3, <1>7, <2>1
  <2>3. ~(d > Len(frames)) /\ d \in 1..d /\ \A f \in 1..(d - 1) : f \in 1..d
    BY <1>1, <1>3, <1>7
  <2> QED BY <1>1, <1>2, <1>3, <1>4, <1>5, <2>2, <2>3 DEF d
<1>8. d > Len(frames) \/ d <= Len(frames)
  BY <1>1, <1>3
<1> QED BY <1>6, <1>7, <1>8

\* The pointers of a step: those of the frames around the node, and its own.
Walked(n, b) ==
    /\ frames' \in Seq(Pointer) /\ Len(frames') = n.depth
    /\ \A f \in 1..(n.depth - 1) : frames'[f] = frames[f]
    /\ frames'[n.depth] = b

\* The pointer a frame has when it is entered or returned to.
Pointing(d) == FramesAt(d)[d]

LEMMA PointingTo ==
    ASSUME StageInv, TreeInv, NEW n \in Node, Visit(n)
    PROVE  /\ Pointing(n.depth) \in Pointer
           /\ 1 <= Pointing(n.depth)[1] /\ Pointing(n.depth)[1] <= Len(pages)
           /\ Pointing(n.depth)[2] <= generation
<1> DEFINE d == n.depth
<1>1. /\ d \in 1..(Len(frames) + 1) /\ 1 <= Len(pages) /\ Len(pages) \in Nat
      /\ Pointing(d) = IF d > Len(frames) THEN Back ELSE frames[d]
  BY Visited DEF Pointing
<1>2. Len(frames) \in Nat /\ frames \in Seq(Pointer) /\ generation \in Nat
  BY DEF TreeInv
<1> HIDE DEF d
<1>3. CASE d > Len(frames)
  <2>1. Pointing(d) = <<Len(pages), generation>>
    BY <1>1, <1>3 DEF Back
  <2> QED BY <1>1, <1>2, <2>1 DEF d, Pointer
<1>4. CASE ~(d > Len(frames))
  <2>1. d \in 1..Len(frames) /\ Pointing(d) = frames[d]
    BY <1>1, <1>2, <1>4
  <2>2. /\ frames[d] \in Pointer /\ 1 <= frames[d][1] /\ frames[d][1] <= Len(pages)
        /\ frames[d][2] <= generation
    BY <1>2, <2>1 DEF TreeInv
  <2> QED BY <2>1, <2>2 DEF d
<1> QED BY <1>3, <1>4

\* A frame left alone, and one whose pointer is set.
LEMMA FrameKept ==
    ASSUME StageInv, TreeInv, NEW n \in Node, Visit(n), frames' = FramesAt(n.depth)
    PROVE  Walked(n, Pointing(n.depth))
BY Visited DEF Walked, Pointing

LEMMA FrameSet ==
    ASSUME StageInv, TreeInv, NEW n \in Node, Visit(n), NEW b \in Pointer,
           frames' = [FramesAt(n.depth) EXCEPT ![n.depth] = b]
    PROVE  Walked(n, b)
<1> DEFINE d == n.depth
           F == FramesAt(n.depth)
<1>1. /\ d \in Nat /\ 1 <= d /\ F \in Seq(Pointer) /\ Len(F) = d
      /\ \A f \in 1..(d - 1) : F[f] = frames[f]
  <2>1. Len(frames) \in Nat
    BY DEF TreeInv
  <2> QED BY <2>1, Visited
<1> HIDE DEF d, F
<1>2. frames' = [F EXCEPT ![d] = b]
  BY DEF d, F
<1>3. /\ frames' \in Seq(Pointer) /\ Len(frames') = d /\ frames'[d] = b
      /\ \A f \in 1..(d - 1) : frames'[f] = F[f]
  <2>1. d \in 1..Len(F) /\ DOMAIN F = 1..d /\ \A f \in 1..(d - 1) : f \in 1..d /\ f # d
    BY <1>1
  <2>2. [F EXCEPT ![d] = b] \in Seq(Pointer) /\ Len([F EXCEPT ![d] = b]) = Len(F)
    BY <1>1, <2>1, ExceptSeq
  <2>3. [F EXCEPT ![d] = b][d] = b /\ \A f \in 1..(d - 1) : [F EXCEPT ![d] = b][f] = F[f]
    BY <2>1
  <2> QED BY <1>1, <1>2, <2>2, <2>3
<1> QED BY <1>1, <1>3 DEF Walked, d

\* The pointers stay within the pages.
LEMMA FramesStep ==
    ASSUME StageInv, TreeInv, NEW n \in Node, Visit(n), NEW b \in Pointer, Walked(n, b),
           1 <= b[1], b[1] <= Len(pages'), b[2] <= generation',
           Len(pages') \in Nat, Len(pages) <= Len(pages'),
           generation' \in Nat, generation <= generation'
    PROVE  /\ \A f \in 1..Len(frames') : /\ 1 <= frames'[f][1] /\ frames'[f][1] <= Len(pages')
                                         /\ frames'[f][2] <= generation'
           /\ Len(frames') = DepthOf(doc') /\ frames' \in Seq(Pointer)
<1>1. /\ Last(doc').depth = n.depth /\ doc' # <<>> /\ n.depth \in Nat /\ 1 <= n.depth
      /\ \A f \in 1..(n.depth - 1) : f \in 1..Len(frames)
      /\ Len(pages) \in Nat
  <2>1. Len(frames) \in Nat
    BY DEF TreeInv
  <2> QED BY <2>1, Visited
<1>2. ASSUME NEW f \in 1..Len(frames')
      PROVE  /\ 1 <= frames'[f][1] /\ frames'[f][1] <= Len(pages')
             /\ frames'[f][2] <= generation'
  <2>1. CASE f = n.depth
    BY <2>1 DEF Walked
  <2>2. CASE f # n.depth
    <3>1. f \in 1..(n.depth - 1) /\ frames'[f] = frames[f] /\ f \in 1..Len(frames)
      BY <1>1, <1>2, <2>2 DEF Walked
    <3>2. frames[f] \in Pointer /\ 1 <= frames[f][1] /\ frames[f][1] <= Len(pages)
          /\ frames[f][2] <= generation /\ generation \in Nat
      BY <3>1 DEF TreeInv
    <3>3. frames[f][1] \in Nat /\ frames[f][2] \in Nat
      BY <3>2 DEF Pointer
    <3> QED BY <1>1, <3>1, <3>2, <3>3
  <2> QED BY <2>1, <2>2
<1> QED BY <1>1, <1>2 DEF Walked, DepthOf

LEMMA TextsMore ==
    ASSUME doc \in Seq(Node), NEW n \in Node, doc' = Append(doc, n)
    PROVE  Texts' = Texts \cup (IF n.tag = "t" THEN {Len(doc) + 1} ELSE {})
<1>1. /\ DOMAIN doc' = 1..(Len(doc) + 1) /\ DOMAIN doc = 1..Len(doc) /\ Len(doc) \in Nat
      /\ doc'[Len(doc) + 1] = n /\ \A i \in 1..Len(doc) : doc'[i] = doc[i]
  OBVIOUS
<1>2. ASSUME NEW i PROVE i \in 1..(Len(doc) + 1) <=> i \in 1..Len(doc) \/ i = Len(doc) + 1
  BY <1>1
<1>3. Texts' = { i \in 1..(Len(doc) + 1) : doc'[i].tag = "t" }
  BY <1>1 DEF Texts
<1>4. Texts = { i \in 1..Len(doc) : doc[i].tag = "t" }
  BY <1>1 DEF Texts
<1>5. Len(doc) + 1 \notin 1..Len(doc)
  BY <1>1
<1> HIDE DEF Texts
<1>6. ASSUME NEW i
      PROVE  i \in Texts' <=> i \in Texts \/ (i = Len(doc) + 1 /\ n.tag = "t")
  BY <1>1, <1>2, <1>3, <1>4, <1>5
<1> QED BY <1>6

Pages == Seq(Seq(Seq(Nat)))

LEMMA PagePushed ==
    ASSUME TreeInv, PushPage
    PROVE  /\ pages' = Append(pages, <<>>) /\ pages' \in Pages
           /\ Len(pages) \in Nat /\ Len(pages') = Len(pages) + 1
           /\ generation' \in Nat /\ generation <= generation'
           /\ capacity' \in Nat /\ Len(pages') <= capacity'
           /\ pages'[Len(pages) + 1] = <<>> /\ \A k \in 1..Len(pages) : pages'[k] = pages[k]
<1>1. /\ pages \in Pages /\ Len(pages) \in Nat /\ capacity \in Nat /\ generation \in Nat
      /\ Len(pages) <= capacity
  BY DEF TreeInv, Pages
<1>2. pages' = Append(pages, <<>>)
  BY DEF PushPage
<1>3. /\ pages' \in Pages /\ Len(pages') = Len(pages) + 1
      /\ pages'[Len(pages) + 1] = <<>> /\ \A k \in 1..Len(pages) : pages'[k] = pages[k]
  BY <1>1, <1>2 DEF Pages
<1>4. CASE Len(pages) < capacity /\ UNCHANGED <<capacity, generation>>
  BY <1>1, <1>2, <1>3, <1>4
<1>5. CASE Len(pages) = capacity /\ capacity' \in Grown(capacity) /\ generation' = generation + 1
  <2>1. capacity' \in Nat /\ capacity + 1 <= capacity'
    BY <1>1, <1>5, GrownMore
  <2> QED BY <1>1, <1>2, <1>3, <1>5, <2>1
<1> QED BY <1>4, <1>5 DEF PushPage

\* A paragraph begins on the last page.
LEMMA ParagraphBegun ==
    ASSUME StageInv, TreeInv, NEW n \in Node, BeginParagraph(n)
    PROVE  /\ pages' \in Pages /\ Len(pages') = Len(pages)
           /\ pages'[Len(pages)] = Append(pages[Len(pages)], <<>>)
           /\ \A k \in 1..Len(pages) : k # Len(pages) => pages'[k] = pages[k]
           /\ \A k, q, i : On(pages', k, q, i) <=> On(pages, k, q, i)
<1>1. /\ pages \in Pages /\ Len(pages) \in 1..Len(pages)
      /\ pages' = [pages EXCEPT ![Len(pages)] = Append(@, <<>>)]
  <2>1. Len(pages) \in Nat /\ 1 <= Len(pages)
    BY Visited DEF BeginParagraph
  <2> QED BY <2>1 DEF BeginParagraph, TreeInv, Pages
<1>2. pages[Len(pages)] \in Seq(Seq(Nat))
  BY <1>1 DEF Pages
<1>3. Append(pages[Len(pages)], <<>>) \in Seq(Seq(Nat))
  BY <1>2
<1>4. pages' \in Pages /\ Len(pages') = Len(pages)
  BY <1>1, <1>3, ExceptSeq DEF Pages
<1>5. DOMAIN pages = 1..Len(pages)
  BY <1>1 DEF Pages
<1> QED BY <1>1, <1>4, <1>5, OnParagraph DEF Pages

\* ps2 is ps with text t at the end of page at, in paragraph q.
PutAt(ps, ps2, at, t, q) ==
    /\ ps2 \in Pages /\ Len(ps2) = Len(ps) /\ Len(ps2[at]) = q /\ q \in Nat /\ q >= 1
    /\ \A k \in 1..Len(ps) : k # at => ps2[k] = ps[k]
    /\ ps2[at] = IF ps[at] = <<>> THEN <<<<t>>>>
                 ELSE [ps[at] EXCEPT ![q] = Append(ps[at][q], t)]
    /\ Gains(ps, ps2, at, q, t)

Put(ps, ps2, at, t) == PutAt(ps, ps2, at, t, IF ps[at] = <<>> THEN 1 ELSE Len(ps[at]))

LEMMA PutAlone ==
    ASSUME NEW ps \in Pages, NEW at \in 1..Len(ps), NEW t \in Nat, ps[at] = <<>>,
           NEW ps2, ps2 = [ps EXCEPT ![at] = <<<<t>>>>]
    PROVE  Put(ps, ps2, at, t)
<1>1. <<<<t>>>> \in Seq(Seq(Nat)) /\ Len(<<<<t>>>>) = 1
  OBVIOUS
<1>2. ps2 \in Pages /\ Len(ps2) = Len(ps)
  BY <1>1, ExceptSeq DEF Pages
<1>3. ps2[at] = <<<<t>>>> /\ \A k \in 1..Len(ps) : k # at => ps2[k] = ps[k]
  <2>1. DOMAIN ps = 1..Len(ps)
    BY DEF Pages
  <2> QED BY <2>1
<1>4. Gains(ps, ps2, at, 1, t)
  <2>1. ps \in Seq(Seq(Seq(Nat))) /\ ps2 \in Seq(Seq(Seq(Nat)))
    BY <1>2 DEF Pages
  <2> QED BY ONLY <2>1, <1>2, <1>3, ps[at] = <<>>, at \in 1..Len(ps), t \in Nat, OnAlone
<1>5. PutAt(ps, ps2, at, t, 1)
  <2>1. ps2[at] = IF ps[at] = <<>> THEN <<<<t>>>> ELSE [ps[at] EXCEPT ![1] = Append(ps[at][1], t)]
    BY <1>3
  <2>2. Len(ps2[at]) = 1 /\ 1 \in Nat /\ 1 >= 1
    BY <1>1, <1>3
  <2> QED BY <1>2, <1>3, <1>4, <2>1, <2>2, Zenon DEF PutAt
<1> QED BY <1>5 DEF Put

LEMMA PutLast ==
    ASSUME NEW ps \in Pages, NEW at \in 1..Len(ps), NEW t \in Nat, ps[at] # <<>>,
           NEW ps2, ps2 = [ps EXCEPT ![at][Len(ps[at])] = Append(@, t)]
    PROVE  Put(ps, ps2, at, t)
<1> DEFINE page == ps[at]
           last == page[Len(page)]
           page2 == [page EXCEPT ![Len(page)] = Append(last, t)]
<1>1. ps2 = [ps EXCEPT ![at] = page2] /\ page \in Seq(Seq(Nat)) /\ DOMAIN ps = 1..Len(ps)
  BY DEF Pages
<1>2. Len(page) \in 1..Len(page) /\ last \in Seq(Nat) /\ Len(page) \in Nat /\ 1 <= Len(page)
      /\ DOMAIN page = 1..Len(page)
  BY <1>1
<1>3. Append(last, t) \in Seq(Nat)
  BY <1>2
<1>4. page2 \in Seq(Seq(Nat)) /\ Len(page2) = Len(page) /\ page2[Len(page)] = Append(last, t)
      /\ \A x \in 1..Len(page) : x # Len(page) => page2[x] = page[x]
  <2> HIDE DEF last
  <2> QED BY <1>1, <1>2, <1>3, ExceptSeq
<1>5. page2 = [ps[at] EXCEPT ![Len(ps[at])] = Append(ps[at][Len(ps[at])], t)]
  OBVIOUS
<1> HIDE DEF page2
<1>6. ps2 \in Pages /\ Len(ps2) = Len(ps)
  BY <1>1, <1>4, ExceptSeq DEF Pages
<1>7. ps2[at] = page2 /\ \A k \in 1..Len(ps) : k # at => ps2[k] = ps[k]
  BY <1>1
<1>8. Gains(ps, ps2, at, Len(page), t)
  <2>1. DOMAIN ps2 = DOMAIN ps /\ DOMAIN page2 = DOMAIN page
    BY <1>1, <1>2, <1>4, <1>6 DEF Pages
  <2>2. ToSet(page2[Len(page)]) = ToSet(page[Len(page)]) \cup {t}
    <3>1. ToSet(Append(last, t)) = ToSet(last) \cup {t}
      <4>1. last \in Seq(Nat) /\ t \in Nat
        BY <1>2
      <4> HIDE DEF last
      <4> QED BY <4>1, AppendSet, ZenonT(60)
    <3> QED BY <1>4, <3>1
  <2>3. /\ at \in DOMAIN ps /\ Len(page) \in DOMAIN page
        /\ \A x \in DOMAIN page : x # Len(page) => page2[x] = page[x]
        /\ \A k \in DOMAIN ps : k # at => ps2[k] = ps[k]
    BY <1>1, <1>2, <1>4, <1>7
  <2>4. ps2[at] = page2
    BY <1>7
  <2> QED BY ONLY <2>1, <2>2, <2>3, <2>4, OnLast
<1>9. PutAt(ps, ps2, at, t, Len(page))
  BY <1>2, <1>4, <1>5, <1>6, <1>7, <1>8 DEF PutAt
<1> QED BY <1>9 DEF Put

\* A text goes to the end of its frame's page.
LEMMA TextAdded ==
    ASSUME StageInv, TreeInv, NEW n \in Node, AddText(n), stage' # "undefined"
    PROVE  /\ Pointing(n.depth)[1] \in 1..Len(pages)
           /\ Put(pages, pages', Pointing(n.depth)[1], Len(doc) + 1)
<1> DEFINE place == Pointing(n.depth)[1]
           new == Len(doc) + 1
<1>1. pages \in Pages /\ Len(pages) \in Nat /\ new \in Nat
  BY DEF TreeInv, Pages
<1>2. place \in 1..Len(pages) /\ Len(doc') = new
  <2>1. Visit(n)
    BY DEF AddText
  <2>2. Pointing(n.depth) \in Pointer /\ 1 <= place /\ place <= Len(pages)
    BY <2>1, PointingTo
  <2>3. Pointing(n.depth)[1] \in Nat
    BY <2>2 DEF Pointer
  <2> QED BY <1>1, <2>1, <2>2, <2>3, Visited
<1>3. \/ pages[place] = <<>> /\ pages' = [pages EXCEPT ![place] = <<<<new>>>>]
      \/ pages[place] # <<>> /\ pages' = [pages EXCEPT ![place][Len(pages[place])] = Append(@, new)]
  BY <1>2 DEF AddText, Pointing
<1> HIDE DEF place, new
<1>4. CASE pages[place] = <<>>
  BY <1>1, <1>2, <1>3, <1>4, PutAlone DEF place, new
<1>5. CASE pages[place] # <<>>
  BY <1>1, <1>2, <1>3, <1>5, PutLast DEF place, new
<1> QED BY <1>2, <1>4, <1>5 DEF place, new

\* A break keeps the types.
LEMMA TreeBreak == ASSUME StageInv, TreeInv, NEW n \in Node, BreakPage(n) PROVE TreeInv'
<1>1. Visit(n) /\ PushPage /\ n.tag \in {"br", "sect"}
      /\ frames' = [FramesAt(n.depth) EXCEPT ![n.depth] = <<Len(pages) + 1, generation'>>]
  BY DEF BreakPage
<1>2. /\ pages' = Append(pages, <<>>) /\ pages' \in Pages
      /\ Len(pages) \in Nat /\ Len(pages') = Len(pages) + 1
      /\ generation' \in Nat /\ generation <= generation'
      /\ capacity' \in Nat /\ Len(pages') <= capacity'
  BY <1>1, PagePushed
<1> DEFINE b == <<Len(pages) + 1, generation'>>
<1>3. b \in Pointer /\ 1 <= b[1] /\ b[1] <= Len(pages') /\ b[2] <= generation'
  BY <1>2 DEF Pointer
<1>4. Walked(n, b)
  <2> HIDE DEF b
  <2> QED BY <1>1, <1>3, FrameSet DEF b
<1>5. /\ \A f \in 1..Len(frames') : /\ 1 <= frames'[f][1] /\ frames'[f][1] <= Len(pages')
                                    /\ frames'[f][2] <= generation'
      /\ Len(frames') = DepthOf(doc') /\ frames' \in Seq(Pointer)
  <2>1. Len(pages') \in Nat /\ Len(pages) <= Len(pages')
    BY <1>2
  <2> HIDE DEF b
  <2> QED BY <1>1, <1>2, <1>3, <1>4, <2>1, FramesStep
<1>6. Texts' = Texts
  <2>1. doc' = Append(doc, n) /\ doc \in Seq(Node)
    BY <1>1 DEF Visit, TreeInv
  <2> QED BY <1>1, <2>1, TextsMore
<1>7. \A k, q, i : On(pages', k, q, i) => i \in Texts'
  <2>1. \A k, q, i : On(pages', k, q, i) => On(pages, k, q, i)
    BY <1>2, OnPush DEF TreeInv
  <2> QED BY <1>6, <2>1 DEF TreeInv
<1>8. doc' \in Seq(Node)
  BY <1>1, Visited
<1> QED BY <1>2, <1>5, <1>7, <1>8 DEF TreeInv, Pages

LEMMA TreeParagraph == ASSUME StageInv, TreeInv, NEW n \in Node, BeginParagraph(n) PROVE TreeInv'
<1>1. Visit(n) /\ n.tag = "p" /\ UNCHANGED <<capacity, generation>>
      /\ frames' = [FramesAt(n.depth) EXCEPT ![n.depth] = Back]
  BY DEF BeginParagraph
<1>2. /\ pages' \in Pages /\ Len(pages') = Len(pages)
      /\ \A k, q, i : On(pages', k, q, i) <=> On(pages, k, q, i)
  BY ParagraphBegun
<1>3. /\ Back \in Pointer /\ 1 <= Back[1] /\ Back[1] <= Len(pages') /\ Back[2] <= generation'
      /\ Len(pages') \in Nat /\ Len(pages) <= Len(pages') /\ generation' \in Nat
      /\ generation <= generation' /\ capacity' \in Nat /\ Len(pages') <= capacity'
  <2>1. Len(pages) \in Nat /\ 1 <= Len(pages)
    BY <1>1, Visited
  <2>2. generation \in Nat /\ capacity \in Nat /\ Len(pages) <= capacity
    BY DEF TreeInv
  <2> QED BY <1>1, <1>2, <2>1, <2>2 DEF Back, Pointer
<1>4. Walked(n, Back)
  BY <1>1, <1>3, FrameSet
<1>5. /\ \A f \in 1..Len(frames') : /\ 1 <= frames'[f][1] /\ frames'[f][1] <= Len(pages')
                                    /\ frames'[f][2] <= generation'
      /\ Len(frames') = DepthOf(doc') /\ frames' \in Seq(Pointer)
  BY <1>1, <1>3, <1>4, FramesStep
<1>6. Texts' = Texts
  <2>1. doc' = Append(doc, n) /\ doc \in Seq(Node)
    BY <1>1 DEF Visit, TreeInv
  <2> QED BY <1>1, <2>1, TextsMore
<1>7. doc' \in Seq(Node)
  BY <1>1, Visited
<1>8. \A k, q, i : On(pages', k, q, i) => i \in Texts'
  BY <1>2, <1>6 DEF TreeInv
<1> QED BY <1>2, <1>3, <1>5, <1>7, <1>8 DEF TreeInv, Pages

\* The frames of a step that only enters or returns to one.
LEMMA FramesKept ==
    ASSUME StageInv, TreeInv, NEW n \in Node, Visit(n), frames' = FramesAt(n.depth),
           Len(pages') = Len(pages), generation' = generation
    PROVE  /\ \A f \in 1..Len(frames') : /\ 1 <= frames'[f][1] /\ frames'[f][1] <= Len(pages')
                                         /\ frames'[f][2] <= generation'
           /\ Len(frames') = DepthOf(doc') /\ frames' \in Seq(Pointer)
<1> DEFINE b == Pointing(n.depth)
<1>1. /\ b \in Pointer /\ 1 <= b[1] /\ b[1] <= Len(pages') /\ b[2] <= generation'
      /\ Len(pages') \in Nat /\ Len(pages) <= Len(pages')
      /\ generation' \in Nat /\ generation <= generation'
  <2>1. Len(pages) \in Nat /\ generation \in Nat
    BY DEF TreeInv
  <2> QED BY <2>1, PointingTo
<1>2. Walked(n, b)
  BY FrameKept
<1> HIDE DEF b
<1> QED BY <1>1, <1>2, FramesStep

LEMMA TreePass == ASSUME StageInv, TreeInv, NEW n \in Node, PassThrough(n) PROVE TreeInv'
<1>1. Visit(n) /\ n.tag # "t" /\ UNCHANGED <<pages, capacity, generation>>
      /\ frames' = FramesAt(n.depth)
  BY DEF PassThrough
<1>2. /\ \A f \in 1..Len(frames') : /\ 1 <= frames'[f][1] /\ frames'[f][1] <= Len(pages')
                                    /\ frames'[f][2] <= generation'
      /\ Len(frames') = DepthOf(doc') /\ frames' \in Seq(Pointer)
  BY <1>1, FramesKept
<1>3. Texts' = Texts
  <2>1. doc' = Append(doc, n) /\ doc \in Seq(Node)
    BY <1>1 DEF Visit, TreeInv
  <2> QED BY <1>1, <2>1, TextsMore
<1>4. doc' \in Seq(Node)
  BY <1>1, Visited
<1>5. \A k, q, i : On(pages', k, q, i) => i \in Texts'
  BY <1>1, <1>3 DEF TreeInv
<1> QED BY <1>1, <1>2, <1>4, <1>5 DEF TreeInv, Pages

LEMMA TreeText == ASSUME StageInv, TreeInv, NEW n \in Node, AddText(n) PROVE TreeInv'
<1>1. Visit(n) /\ n.tag = "t" /\ UNCHANGED <<capacity, generation>>
      /\ frames' = FramesAt(n.depth)
  BY DEF AddText
<1>2. Texts' = Texts \cup {Len(doc) + 1}
  <2>1. doc' = Append(doc, n) /\ doc \in Seq(Node)
    BY <1>1 DEF Visit, TreeInv
  <2> QED BY <1>1, <2>1, TextsMore
<1>3. /\ pages' \in Pages /\ Len(pages') = Len(pages)
      /\ \A k, q, i : On(pages', k, q, i) => On(pages, k, q, i) \/ i = Len(doc) + 1
  <2>1. CASE stage' # "undefined"
    <3>1. Put(pages, pages', Pointing(n.depth)[1], Len(doc) + 1)
      BY <2>1, TextAdded
    <3>2. \E q : PutAt(pages, pages', Pointing(n.depth)[1], Len(doc) + 1, q)
      BY <3>1 DEF Put
    <3> QED BY <3>2 DEF PutAt, Gains
  <2>2. CASE stage' = "undefined"
    <3>1. pages' = pages
      <4>1. stage # stage'
        BY <1>1, <2>2 DEF Visit
      <4> QED BY <4>1 DEF AddText
    <3> QED BY <3>1 DEF TreeInv, Pages
  <2> QED BY <2>1, <2>2
<1>4. /\ \A f \in 1..Len(frames') : /\ 1 <= frames'[f][1] /\ frames'[f][1] <= Len(pages')
                                    /\ frames'[f][2] <= generation'
      /\ Len(frames') = DepthOf(doc') /\ frames' \in Seq(Pointer)
  BY <1>1, <1>3, FramesKept
<1>5. doc' \in Seq(Node)
  BY <1>1, Visited
<1>6. \A k, q, i : On(pages', k, q, i) => i \in Texts'
  BY <1>2, <1>3 DEF TreeInv
<1> QED BY <1>1, <1>3, <1>4, <1>5, <1>6 DEF TreeInv, Pages

\* A slide begins with no frame.
LEMMA TreeSlide == ASSUME StageInv, TreeInv, OpenSlide PROVE TreeInv'
<1> DEFINE n == [tag |-> "slide", depth |-> 0]
<1>1. doc' = Append(doc, n) /\ frames' = <<>> /\ PushPage /\ doc \in Seq(Node)
  BY DEF OpenSlide, TreeInv
<1>2. n \in Node /\ n.tag # "t" /\ n.depth = 0
  BY BoundAssumption DEF Node
<1>3. /\ pages' = Append(pages, <<>>) /\ pages' \in Pages
      /\ generation' \in Nat /\ capacity' \in Nat /\ Len(pages') <= capacity'
  BY <1>1, PagePushed
<1> HIDE DEF n
<1>4. doc' \in Seq(Node) /\ Last(doc') = n /\ doc' # <<>> /\ Texts' = Texts
  <2>1. Texts' = Texts
    BY <1>1, <1>2, TextsMore
  <2>2. /\ Append(doc, n) \in Seq(Node) /\ Append(doc, n) # <<>>
        /\ Append(doc, n)[Len(Append(doc, n))] = n
    BY <1>1, <1>2, AppendProperties
  <2> QED BY <1>1, <2>1, <2>2 DEF Last
<1>5. \A k, q, i : On(pages', k, q, i) => i \in Texts'
  <2>1. \A k, q, i : On(pages', k, q, i) => On(pages, k, q, i)
    BY <1>3, OnPush DEF TreeInv
  <2> QED BY <1>4, <2>1 DEF TreeInv
<1>6. Len(frames') = DepthOf(doc') /\ frames' \in Seq(Pointer) /\ Len(frames') = 0
  BY <1>1, <1>2, <1>4 DEF DepthOf
<1> QED BY <1>3, <1>4, <1>5, <1>6 DEF TreeInv, Pages

\* The steps that leave the pages alone.
LEMMA TreeStays ==
    ASSUME StageInv, TreeInv, UNCHANGED pageVars, doc' \in Seq(Node), doc' = doc \/ pages = <<>>,
           stage' = "walk" => stage = "walk" /\ doc' = doc
    PROVE  TreeInv'
<1>1. /\ frames' = frames /\ pages' = pages /\ capacity' = capacity /\ generation' = generation
  BY DEF pageVars
<1>2. \A k, q, i : On(pages', k, q, i) => i \in Texts'
  <2>1. CASE doc' = doc
    BY <1>1, <2>1 DEF TreeInv, Texts
  <2>2. CASE pages = <<>>
    <3>1. DOMAIN <<>> = {}
      OBVIOUS
    <3> QED BY <1>1, <2>2, <3>1 DEF On
  <2> QED BY <2>1, <2>2
<1>3. stage' = "walk" => Len(frames') = DepthOf(doc')
  BY <1>1 DEF TreeInv
<1> QED BY <1>1, <1>2, <1>3 DEF TreeInv

\* The first page of a body.
LEMMA TreeFound == ASSUME StageInv, TreeInv, FindPart PROVE TreeInv'
<1>1. doc = <<>> /\ doc' = doc /\ frames = <<>> /\ frames' = frames /\ pages = <<>>
      /\ generation' = generation
  BY DEF FindPart, StageInv
<1>2. \/ pages' = <<<<>>>> /\ capacity' = 1
      \/ pages' = pages /\ capacity' = capacity
  BY DEF FindPart
<1>3. \A k, q, i : ~On(<<<<>>>>, k, q, i) /\ ~On(<<>>, k, q, i)
  <2>1. DOMAIN <<>> = {} /\ DOMAIN <<<<>>>> = 1..1 /\ <<<<>>>>[1] = <<>>
    OBVIOUS
  <2>2. \A k \in 1..1 : k = 1
    OBVIOUS
  <2> QED BY <2>1, <2>2 DEF On
<1>4. <<<<>>>> \in Pages /\ Len(<<<<>>>>) = 1 /\ <<>> \in Pages /\ Len(<<>>) = 0
  BY DEF Pages
<1>5. pages' \in Pages /\ Len(pages') <= capacity' /\ capacity' \in Nat
  BY <1>1, <1>2, <1>4 DEF TreeInv
<1>6. \A k, q, i : On(pages', k, q, i) => i \in Texts'
  BY <1>1, <1>2, <1>3
<1>7. Len(frames') = DepthOf(doc') /\ frames' \in Seq(Pointer) /\ Len(frames') = 0
  BY <1>1, <1>4 DEF DepthOf, TreeInv
<1> QED BY <1>1, <1>5, <1>6, <1>7 DEF TreeInv, Pages

LEMMA TreeStep == StageInv /\ TreeInv /\ [WalkNext]_walkVars => TreeInv'
<1> SUFFICES ASSUME StageInv, TreeInv, [WalkNext]_walkVars PROVE TreeInv'
  OBVIOUS
<1>1. doc \in Seq(Node)
  BY DEF TreeInv
<1>2. CASE RejectPackage \/ EndWalk \/ Finished \/ UNCHANGED walkVars
  <2>1. UNCHANGED pageVars /\ doc' = doc /\ (stage' = "walk" => stage = "walk")
    BY <1>2 DEF RejectPackage, EndWalk, Finished, walkVars, pageVars
  <2> QED BY <1>1, <2>1, TreeStays
<1>3. CASE StartConcat \/ Concat \/ ReadRow \/ EndBook \/ (\E found \in BOOLEAN : OpenSheet(found))
           \/ (\E c \in Cell : ReadCell(c))
  <2>1. UNCHANGED pageVars /\ doc' = doc /\ stage' # "walk"
    BY <1>3 DEF StartConcat, Concat, ReadRow, EndBook, OpenSheet, ReadCell, pageVars, InSheet
  <2> QED BY <1>1, <2>1, TreeStays
<1>4. ASSUME NEW n \in Node, GrowString(n) PROVE TreeInv'
  <2>1. UNCHANGED pageVars /\ doc' = Append(doc, n) /\ stage' = stage /\ stage = "string"
    BY <1>4 DEF GrowString, pageVars
  <2>2. pages = <<>> /\ doc' \in Seq(Node)
    BY <1>1, <2>1 DEF StageInv
  <2> QED BY <2>1, <2>2, TreeStays
<1>5. CASE AddString
  <2>1. UNCHANGED pageVars /\ doc' = <<>> /\ stage' = "string" /\ stage = "concat"
    BY <1>5 DEF AddString, pageVars
  <2>2. pages = <<>> /\ <<>> \in Seq(Node)
    BY <2>1 DEF StageInv
  <2> QED BY <2>1, <2>2, TreeStays
<1> QED BY <1>2, <1>3, <1>4, <1>5, TreeFound, TreeSlide, TreeBreak, TreeParagraph, TreeText,
           TreePass DEF WalkNext

LEMMA StageStep == StageInv /\ TreeInv /\ [WalkNext]_walkVars => StageInv'
<1> SUFFICES ASSUME StageInv, TreeInv, [WalkNext]_walkVars PROVE StageInv'
  OBVIOUS
<1>1. CASE FindPart
  <2>1. doc' = doc /\ frames' = frames /\ pages = <<>> /\ frames = <<>>
    BY <1>1 DEF FindPart, StageInv
  <2>2. PICK present \in SUBSET {"word", "xl", "ppt"},
            rel \in {"docx", "xlsx", "pptx", "other"}, root \in BOOLEAN :
          /\ type' = TypeOf(present, rel)
          /\ stage' = CASE type' = "unknown" -> "failed"
                        [] type' = "docx" -> IF root THEN "walk" ELSE "failed"
                        [] type' = "pptx" -> "walk"
                        [] type' = "xlsx" -> IF root THEN "string" ELSE "done"
    BY <1>1 DEF FindPart
  <2>3. type' \in {"unknown", "docx", "pptx", "xlsx"}
    <3>1. present = {} \/ present = {"ppt"} \/ "word" \in present \/ "xl" \in present
      OBVIOUS
    <3> QED BY <2>2, <3>1 DEF TypeOf
  <2>4. \/ type' = "unknown" /\ stage' = "failed"
        \/ type' = "docx" /\ stage' \in {"walk", "failed"}
        \/ type' = "pptx" /\ stage' = "walk"
        \/ type' = "xlsx" /\ stage' \in {"string", "done"}
    BY <2>2, <2>3
  <2>5. IF type' = "docx" /\ stage' = "walk" THEN pages' = <<<<>>>> ELSE pages' = pages
    BY <1>1 DEF FindPart
  <2>6. <<<<>>>> # <<>>
    OBVIOUS
  <2> QED BY <2>1, <2>4, <2>5, <2>6 DEF StageInv
<1>2. CASE RejectPackage \/ EndWalk \/ Finished \/ UNCHANGED walkVars
  BY <1>2 DEF RejectPackage, EndWalk, Finished, walkVars, pageVars, StageInv
<1>3. CASE StartConcat \/ Concat \/ AddString
  BY <1>3 DEF StartConcat, Concat, AddString, pageVars, StageInv
<1>4. CASE ReadRow \/ EndBook \/ (\E found \in BOOLEAN : OpenSheet(found))
           \/ (\E c \in Cell : ReadCell(c)) \/ (\E n \in Node : GrowString(n))
  BY <1>4 DEF ReadRow, EndBook, OpenSheet, ReadCell, GrowString, pageVars, InSheet, StageInv
<1>5. CASE OpenSlide
  <2>1. /\ type = "pptx" /\ stage = "walk" /\ UNCHANGED <<type, stage>>
    BY <1>5 DEF OpenSlide
  <2> QED BY <2>1 DEF StageInv
<1>6. ASSUME NEW n \in Node, BreakPage(n) \/ BeginParagraph(n) \/ AddText(n) \/ PassThrough(n)
      PROVE  StageInv'
  <2>1. Visit(n) /\ stage' \in {stage, "undefined"} /\ Len(pages') >= 1
    <3>1. CASE BreakPage(n)
      <4>1. Visit(n) /\ PushPage /\ stage' = stage
        BY <3>1 DEF BreakPage
      <4> QED BY <4>1, PagePushed
    <3>2. CASE BeginParagraph(n)
      <4>1. Visit(n) /\ stage' = stage
        BY <3>2 DEF BeginParagraph
      <4> QED BY <3>2, <4>1, ParagraphBegun, Visited
    <3>3. CASE AddText(n)
      <4>1. Visit(n) /\ stage' \in {stage, "undefined"}
        BY <3>3 DEF AddText
      <4>2. Len(pages') = Len(pages)
        <5>1. CASE stage' # "undefined"
          <6>1. Put(pages, pages', Pointing(n.depth)[1], Len(doc) + 1)
            BY <3>3, <5>1, TextAdded
          <6> QED BY <6>1 DEF Put, PutAt
        <5>2. CASE stage' = "undefined"
          <6>1. stage # stage'
            BY <4>1, <5>2 DEF Visit
          <6> QED BY <3>3, <6>1 DEF AddText
        <5> QED BY <5>1, <5>2
      <4> QED BY <4>1, <4>2, Visited
    <3>4. CASE PassThrough(n)
      <4>1. Visit(n) /\ stage' = stage /\ pages' = pages
        BY <3>4 DEF PassThrough
      <4> QED BY <4>1, Visited
    <3> QED BY <1>6, <3>1, <3>2, <3>3, <3>4
  <2>2. stage = "walk" /\ type' = type
    BY <2>1 DEF Visit
  <2>3. pages' # <<>>
    BY <2>1
  <2> QED BY <2>1, <2>2, <2>3 DEF StageInv
<1> QED BY <1>1, <1>2, <1>3, <1>4, <1>5, <1>6 DEF WalkNext

-----------------------------------------------------------------------------
\* What is read of a workbook has its type.

LEMMA NothingRead ==
    ASSUME BookTypes, stage # "concat", doc' \in Seq(Node), stage' # "concat",
           UNCHANGED <<concatVars, bookVars>>,
           stage' = "sheet" => stage = "sheet",
           stage' \in {"find", "walk", "string"} => stage' = stage \/ stage = "find"
    PROVE  BookTypes'
<1>1. /\ stack = <<>> /\ out = <<>> /\ stack' = stack /\ out' = out /\ strings' = strings
      /\ sst' = sst /\ entries' = entries /\ sheets' = sheets
  BY DEF BookTypes, concatVars, bookVars
<1>2. <<>> \in Seq(0..Len(doc')) /\ <<>> \in Seq(1..Len(doc'))
  <2>1. \A B : <<>> \in Seq(B)
    OBVIOUS
  <2> QED BY <2>1
<1> QED BY <1>1, <1>2 DEF BookTypes

\* The children of a node are nodes.
LEMMA ChildrenTyped ==
    ASSUME NEW cur, doc \in Seq(Node)
    PROVE  ChildrenOf(cur) \in Seq(1..Len(doc))
<1>1. Len(doc) \in Nat
  OBVIOUS
<1> QED BY <1>1, InOrderMore DEF ChildrenOf

LEMMA BookConcat == ASSUME StageInv, TreeInv, BookTypes, Concat PROVE BookTypes'
<1> DEFINE cur == Last(stack)
           N == Len(doc)
<1>1. /\ stage = "concat" /\ stack # <<>> /\ stage' = stage /\ doc' = doc
      /\ stack' = Front(stack) \o ChildrenOf(cur)
      /\ out' = IF cur > 0 /\ doc[cur].tag = "t" THEN Append(out, cur) ELSE out
      /\ UNCHANGED bookVars
  BY DEF Concat
<1>2. N \in Nat /\ stack \in Seq(0..N) /\ out \in Seq(1..N)
  BY DEF TreeInv, BookTypes
<1>3. cur \in 0..N /\ Front(stack) \in Seq(0..N)
  <2>1. Len(stack) \in 1..Len(stack) /\ Len(stack) - 1 \in 0..Len(stack)
    BY <1>1, <1>2
  <2>2. \A i \in 1..(Len(stack) - 1) : stack[i] \in 0..N
    BY <1>2
  <2>3. SubSeq(stack, 1, Len(stack) - 1) \in Seq(0..N)
    BY <1>2, <2>1, <2>2, SubSeqProperties
  <2> QED BY <1>2, <2>1, <2>3 DEF Front, Last
<1>4. ChildrenOf(cur) \in Seq(1..N)
  BY ChildrenTyped DEF TreeInv
<1> HIDE DEF cur, N
<1>5. ChildrenOf(cur) \in Seq(0..N)
  BY <1>2, <1>4
<1>6. stack' \in Seq(0..N)
  BY <1>1, <1>3, <1>5
<1>7. out' \in Seq(1..N)
  <2>1. CASE cur > 0 /\ doc[cur].tag = "t"
    <3>1. cur \in 1..N
      BY <1>2, <1>3, <2>1
    <3>2. out' = Append(out, cur)
      BY <1>1, <2>1
    <3> QED BY <1>2, <3>1, <3>2, AppendProperties
  <2>2. CASE ~(cur > 0 /\ doc[cur].tag = "t")
    BY <1>1, <1>2, <2>2
  <2> QED BY <2>1, <2>2
<1> QED BY <1>1, <1>6, <1>7 DEF BookTypes, bookVars, N

LEMMA BookString == ASSUME StageInv, TreeInv, BookTypes, StartConcat \/ AddString PROVE BookTypes'
<1>1. Len(doc) \in Nat /\ doc \in Seq(Node)
  BY DEF TreeInv
<1>2. \A B : <<>> \in Seq(B)
  OBVIOUS
<1>3. CASE StartConcat
  <2>1. /\ stage' = "concat" /\ stage = "string" /\ stack' = <<0>> /\ out' = <<>>
        /\ doc' = doc /\ UNCHANGED bookVars
    BY <1>3 DEF StartConcat
  <2>2. <<0>> \in Seq(0..Len(doc))
    BY <1>1
  <2> QED BY <1>2, <2>1, <2>2 DEF BookTypes, bookVars
<1>4. CASE AddString
  <2>1. /\ stage' = "string" /\ stage = "concat" /\ stack' = <<>> /\ out' = <<>> /\ doc' = <<>>
        /\ sst' = Append(sst, out) /\ strings' = Append(strings, doc)
        /\ UNCHANGED <<sheets, entries>>
    BY <1>4 DEF AddString
  <2>2. out \in Value
    <3>1. out \in Seq(1..Len(doc))
      BY DEF BookTypes
    <3>2. \A k \in 1..Len(out) : out[k] \in Nat
      BY <1>1, <3>1
    <3> QED BY <3>1, <3>2 DEF Value
  <2>3. Len(sst') = Len(strings')
    <3>1. /\ strings \in Seq(Seq(Node)) /\ sst \in Seq(Value) /\ doc \in Seq(Node)
          /\ Len(sst) = Len(strings)
      BY <1>1 DEF BookTypes
    <3>2. Len(sst') = Len(sst) + 1 /\ Len(strings') = Len(strings) + 1
      BY <2>1, <2>2, <3>1, AppendProperties
    <3> QED BY <3>1, <3>2
  <2>4. strings' \in Seq(Seq(Node)) /\ sst' \in Seq(Value)
    <3>1. strings \in Seq(Seq(Node)) /\ sst \in Seq(Value) /\ doc \in Seq(Node)
      BY <1>1 DEF BookTypes
    <3> QED BY <2>1, <2>2, <3>1, AppendProperties
  <2> QED BY <1>2, <2>1, <2>3, <2>4 DEF BookTypes
<1> QED BY <1>3, <1>4

\* The text of a cell.
LEMMA Resolved == ASSUME BookTypes, NEW c \in Cell PROVE Resolve(c) \in Value
<1>1. <<>> \in Value /\ \A w \in {"1", "TRUE", "FALSE"} : <<w>> \in Value
  BY DEF Value
<1>2. CASE c.kind = "s"
  <2>1. c.index \in Int
    BY <1>2, BoundAssumption DEF Cell
  <2>2. c.index >= 0 /\ c.index < Len(sst) => sst[c.index + 1] \in Value
    <3>1. sst \in Seq(Value)
      BY DEF BookTypes
    <3> HIDE DEF Value
    <3> QED BY <2>1, <3>1
  <2> QED BY <1>1, <1>2, <2>1, <2>2 DEF Resolve
<1>3. CASE c.kind = "b"
  <2>1. Resolve(c) = <<IF c.text = "1" THEN "TRUE" ELSE "FALSE">>
    BY <1>3 DEF Resolve
  <2> QED BY <1>1, <2>1
<1>4. CASE c.kind \in {"inlineStr", "str"}
  <2>1. Resolve(c) = IF c.text = "none" THEN <<>> ELSE <<c.text>>
    BY <1>4 DEF Resolve
  <2>2. c.text \in {"none", "1"}
    BY <1>4 DEF Cell
  <2> QED BY <1>1, <2>1, <2>2
<1> QED BY <1>2, <1>3, <1>4 DEF Cell

\* The last element replaced.
LEMMA LastReplaced ==
    ASSUME NEW B, NEW s \in Seq(B), s # <<>>, NEW y \in B
    PROVE  /\ [s EXCEPT ![Len(s)] = y] \in Seq(B)
           /\ Len([s EXCEPT ![Len(s)] = y]) = Len(s)
           /\ [s EXCEPT ![Len(s)] = y] # <<>>
           /\ Last([s EXCEPT ![Len(s)] = y]) = y
<1>1. Len(s) \in 1..Len(s) /\ DOMAIN s = 1..Len(s)
  OBVIOUS
<1>2. [s EXCEPT ![Len(s)] = y] \in Seq(B) /\ Len([s EXCEPT ![Len(s)] = y]) = Len(s)
  BY <1>1, ExceptSeq
<1>3. [s EXCEPT ![Len(s)] = y][Len(s)] = y
  BY <1>1
<1>4. [s EXCEPT ![Len(s)] = y] # <<>>
  BY <1>1, <1>2
<1> QED BY <1>2, <1>3, <1>4 DEF Last

\* A sheet element; what is read of a sheet is at the end of both sequences.
LEMMA BookSheet ==
    ASSUME StageInv, TreeInv, BookTypes, NEW found \in BOOLEAN, OpenSheet(found)
    PROVE  BookTypes'
<1> DEFINE e == [found |-> found, rows |-> <<>>]
           s == [name |-> Len(entries'), rows |-> <<>>]
<1>1. /\ stage \in {"string", "sheet"} /\ stage' = "sheet" /\ doc' = doc
      /\ entries' = Append(entries, e)
      /\ sheets' = IF found THEN Append(sheets, s) ELSE sheets
      /\ UNCHANGED <<concatVars, sst, strings>>
  BY DEF OpenSheet
<1>2. entries \in Seq(Entry) /\ sheets \in Seq(Sheet) /\ Len(sheets) <= Len(entries)
  BY DEF BookTypes
<1>3. e \in Entry /\ e.found = found
  <2>1. \A B : <<>> \in Seq(B)
    OBVIOUS
  <2> QED BY <2>1 DEF Entry
<1> HIDE DEF e
<1>4. /\ entries' \in Seq(Entry) /\ Len(entries') = Len(entries) + 1 /\ Last(entries') = e
      /\ entries' # <<>>
  BY <1>1, <1>2, <1>3, AppendProperties DEF Last
<1>5. s \in Sheet
  <2>1. \A B : <<>> \in Seq(B)
    OBVIOUS
  <2>2. Len(entries') \in Nat
    BY <1>2, <1>4
  <2> QED BY <2>1, <2>2 DEF Sheet
<1> HIDE DEF s
<1>6. /\ sheets' \in Seq(Sheet) /\ Len(sheets') <= Len(entries')
      /\ found => sheets' # <<>>
  <2>1. CASE found
    <3>1. sheets' = Append(sheets, s)
      BY <1>1, <2>1
    <3>2. sheets' \in Seq(Sheet) /\ Len(sheets') = Len(sheets) + 1 /\ sheets' # <<>>
      BY <1>2, <1>5, <3>1, AppendProperties
    <3> QED BY <1>2, <1>4, <3>2
  <2>2. CASE ~found
    BY <1>1, <1>2, <1>4, <2>2
  <2> QED BY <2>1, <2>2
<1>7. stack' = stack /\ out' = out /\ strings' = strings /\ sst' = sst
  BY <1>1 DEF concatVars
<1> QED BY <1>1, <1>3, <1>4, <1>6, <1>7 DEF BookTypes

\* The rows of an entry, or of a sheet, replaced.
LEMMA LastRows ==
    ASSUME BookTypes, stage = "sheet", Last(entries).found, stage' = stage, doc' = doc,
           UNCHANGED <<concatVars, sst, strings>>,
           NEW x \in Seq(Seq(Cell)), NEW y \in Seq(Seq(Value)),
           entries' = [entries EXCEPT ![Len(entries)] = [entries[Len(entries)] EXCEPT !.rows = x]],
           sheets' = [sheets EXCEPT ![Len(sheets)] = [sheets[Len(sheets)] EXCEPT !.rows = y]]
    PROVE  BookTypes'
<1>1. /\ entries \in Seq(Entry) /\ sheets \in Seq(Sheet) /\ Len(sheets) <= Len(entries)
      /\ entries # <<>> /\ sheets # <<>>
  BY DEF BookTypes
<1> DEFINE e == [entries[Len(entries)] EXCEPT !.rows = x]
           s == [sheets[Len(sheets)] EXCEPT !.rows = y]
<1>2. e \in Entry
  <2>1. entries[Len(entries)] \in Entry
    BY <1>1
  <2> QED BY <2>1 DEF Entry
<1>3. s \in Sheet
  <2>1. sheets[Len(sheets)] \in Sheet
    BY <1>1
  <2> QED BY <2>1 DEF Sheet
<1> HIDE DEF e, s
<1>4. entries' \in Seq(Entry) /\ Len(entries') = Len(entries) /\ entries' # <<>>
  BY <1>1, <1>2, LastReplaced DEF e
<1>5. sheets' \in Seq(Sheet) /\ Len(sheets') = Len(sheets) /\ sheets' # <<>>
  BY <1>1, <1>3, LastReplaced DEF s
<1>6. stack' = stack /\ out' = out /\ strings' = strings /\ sst' = sst
  BY DEF concatVars
<1> QED BY <1>1, <1>4, <1>5, <1>6 DEF BookTypes

LEMMA BookRow == ASSUME StageInv, TreeInv, BookTypes, ReadRow PROVE BookTypes'
<1> DEFINE x == Append(entries[Len(entries)].rows, <<>>)
           y == Append(sheets[Len(sheets)].rows, <<>>)
<1>1. /\ stage = "sheet" /\ Last(entries).found /\ stage' = stage /\ doc' = doc
      /\ UNCHANGED <<concatVars, sst, strings>>
      /\ entries' = [entries EXCEPT ![Len(entries)] = [entries[Len(entries)] EXCEPT !.rows = x]]
      /\ sheets' = [sheets EXCEPT ![Len(sheets)] = [sheets[Len(sheets)] EXCEPT !.rows = y]]
  BY DEF ReadRow, InSheet
<1>2. entries[Len(entries)] \in Entry /\ sheets[Len(sheets)] \in Sheet
  BY <1>1 DEF BookTypes
<1>3. x \in Seq(Seq(Cell)) /\ y \in Seq(Seq(Value))
  <2>1. \A B : <<>> \in Seq(B)
    OBVIOUS
  <2>2. entries[Len(entries)].rows \in Seq(Seq(Cell)) /\ sheets[Len(sheets)].rows \in Seq(Seq(Value))
    BY <1>2 DEF Entry, Sheet
  <2> QED BY <2>1, <2>2, AppendProperties
<1> HIDE DEF x, y
<1> QED BY <1>1, <1>3, LastRows

\* A row that gets a value, or stays as it is when there is none.
LEMMA RowGrows ==
    ASSUME NEW B, NEW rows \in Seq(Seq(B)), NEW k, NEW v \in B
    PROVE  [rows EXCEPT ![k] = Append(rows[k], v)] \in Seq(Seq(B))
<1>1. CASE k \in 1..Len(rows)
  <2>1. rows[k] \in Seq(B)
    BY <1>1
  <2>2. Append(rows[k], v) \in Seq(B)
    BY <2>1
  <2> QED BY <1>1, <2>2, ExceptSeq
<1>2. CASE k \notin 1..Len(rows)
  <2>1. [rows EXCEPT ![k] = Append(rows[k], v)] = rows
    BY <1>2
  <2> QED BY <2>1
<1> QED BY <1>1, <1>2

LEMMA BookCell == ASSUME StageInv, TreeInv, BookTypes, NEW c \in Cell, ReadCell(c) PROVE BookTypes'
<1> DEFINE er == entries[Len(entries)].rows
           sr == sheets[Len(sheets)].rows
           i == Len(Last(entries).rows)
           j == Len(Last(sheets).rows)
           x == [er EXCEPT ![i] = Append(er[i], c)]
           y == [sr EXCEPT ![j] = Append(sr[j], Resolve(c))]
<1>1. /\ stage = "sheet" /\ Last(entries).found /\ stage' = stage /\ doc' = doc
      /\ UNCHANGED <<concatVars, sst, strings>>
      /\ entries' = [entries EXCEPT ![Len(entries)] = [entries[Len(entries)] EXCEPT !.rows = x]]
      /\ sheets' = [sheets EXCEPT ![Len(sheets)] = [sheets[Len(sheets)] EXCEPT !.rows = y]]
  BY DEF ReadCell, InSheet
<1>2. er \in Seq(Seq(Cell)) /\ sr \in Seq(Seq(Value))
  <2>1. entries[Len(entries)] \in Entry /\ sheets[Len(sheets)] \in Sheet
    BY <1>1 DEF BookTypes
  <2> QED BY <2>1 DEF Entry, Sheet
<1>3. Resolve(c) \in Value
  BY Resolved
<1>4. x \in Seq(Seq(Cell)) /\ y \in Seq(Seq(Value))
  <2> HIDE DEF er, sr, i, j
  <2> QED BY <1>2, <1>3, RowGrows
<1> HIDE DEF x, y
<1> QED BY <1>1, <1>4, LastRows

LEMMA BookStep == StageInv /\ TreeInv /\ BookTypes /\ [WalkNext]_walkVars => BookTypes'
<1> SUFFICES ASSUME StageInv, TreeInv, BookTypes, [WalkNext]_walkVars PROVE BookTypes'
  OBVIOUS
<1>1. doc' \in Seq(Node)
  BY TreeStep DEF TreeInv
<1>2. CASE FindPart \/ RejectPackage
  <2>1. stage = "find" /\ stage' \notin {"sheet", "concat"} /\ UNCHANGED <<concatVars, bookVars>>
    <3>1. CASE RejectPackage
      BY <3>1 DEF RejectPackage
    <3>2. CASE FindPart
      <4>1. stage' \in {"failed", "walk", "string", "done"}
        <5>1. StageInv'
          BY StageStep
        <5>2. stage' # "find" /\ stage' # "undefined" /\ stage' \notin {"sheet", "concat"}
          BY <3>2, <5>1 DEF FindPart, StageInv
        <5> QED BY <5>1, <5>2 DEF StageInv
      <4> QED BY <3>2, <4>1 DEF FindPart
    <3> QED BY <1>2, <3>1, <3>2
  <2> QED BY <1>1, <2>1, NothingRead
<1>3. CASE EndWalk \/ EndBook \/ OpenSlide
           \/ \E n \in Node : BreakPage(n) \/ BeginParagraph(n) \/ AddText(n) \/ PassThrough(n)
                              \/ GrowString(n)
  <2>1. /\ stage \in {"walk", "string", "sheet"} /\ stage' \in {stage, "done", "undefined"}
        /\ UNCHANGED <<concatVars, bookVars>>
    BY <1>3 DEF EndWalk, EndBook, OpenSlide, BreakPage, BeginParagraph, AddText, PassThrough,
                Visit, GrowString
  <2> QED BY <1>1, <2>1, NothingRead
<1>4. CASE Finished \/ UNCHANGED walkVars
  <2>1. stage' = stage /\ doc' = doc /\ UNCHANGED <<concatVars, bookVars>>
    BY <1>4 DEF Finished, walkVars
  <2> QED BY <2>1 DEF BookTypes, concatVars, bookVars
<1> QED BY <1>2, <1>3, <1>4, BookConcat, BookString, BookSheet, BookRow, BookCell DEF WalkNext

-----------------------------------------------------------------------------
\* The types of all variables.

WalkInv == StageInv /\ TreeInv /\ BookTypes

LEMMA WalkBegins == WalkInit => WalkInv
<1> SUFFICES ASSUME WalkInit PROVE WalkInv
  OBVIOUS
<1>1. /\ type = "unknown" /\ stage = "find" /\ doc = <<>> /\ frames = <<>> /\ pages = <<>>
      /\ capacity = 0 /\ generation = 0 /\ stack = <<>> /\ out = <<>> /\ sst = <<>>
      /\ strings = <<>> /\ sheets = <<>> /\ entries = <<>>
  BY DEF WalkInit
<1>2. /\ \A B : <<>> \in Seq(B)
      /\ Len(<<>>) = 0 /\ DOMAIN <<>> = {} /\ 1..0 = {}
  OBVIOUS
<1>3. StageInv
  BY <1>1 DEF StageInv
<1>4. TreeInv
  BY <1>1, <1>2 DEF TreeInv, On, DepthOf
<1>5. BookTypes
  BY <1>1, <1>2 DEF BookTypes
<1> QED BY <1>3, <1>4, <1>5 DEF WalkInv

LEMMA WalkInvariant == WalkSpec => []WalkInv
<1>1. WalkInv /\ [WalkNext]_walkVars => WalkInv'
  BY TreeStep, StageStep, BookStep DEF WalkInv
<1> QED BY <1>1, WalkBegins, PTL DEF WalkSpec

LEMMA WalkTyped == WalkInv => WalkTypeOK
<1> SUFFICES ASSUME StageInv, TreeInv, BookTypes PROVE WalkTypeOK
  BY DEF WalkInv
<1>1. ASSUME NEW f \in DOMAIN frames
      PROVE  frames[f][1] \in 1..Len(pages) /\ frames[f][2] \in 0..generation
  <2>1. f \in 1..Len(frames) /\ frames[f] \in Pointer
    BY DEF TreeInv
  <2>2. /\ 1 <= frames[f][1] /\ frames[f][1] <= Len(pages) /\ frames[f][2] <= generation
        /\ generation \in Nat /\ Len(pages) \in Nat
    BY <2>1 DEF TreeInv
  <2>3. frames[f][1] \in Nat /\ frames[f][2] \in Nat
    BY <2>1 DEF Pointer
  <2> QED BY <2>2, <2>3
<1>2. ASSUME NEW k \in DOMAIN pages, NEW q \in DOMAIN pages[k]
      PROVE  ToSet(pages[k][q]) \subseteq Texts
  BY DEF TreeInv, On
<1>3. ToSet(stack) \subseteq 0..Len(doc) /\ ToSet(out) \subseteq DOMAIN doc
  <2>1. stack \in Seq(0..Len(doc)) /\ out \in Seq(1..Len(doc)) /\ DOMAIN doc = 1..Len(doc)
    BY DEF BookTypes, TreeInv
  <2> QED BY <2>1 DEF ToSet
<1> QED BY <1>1, <1>2, <1>3 DEF WalkTypeOK, StageInv, TreeInv, BookTypes

\* Whatever the package holds, the frames of process_document point to pages
\* that exist, the texts on the pages are nodes that were visited, and the
\* text of a shared string is concatenated from its own nodes.
THEOREM WalkTypeCorrect == WalkSpec => []WalkTypeOK
BY WalkInvariant, WalkTyped, PTL

-----------------------------------------------------------------------------
\* The breaks before a node, in any document.

BreakAt(ty, d, i) == IF ty = "docx" THEN d[i].tag \in {"br", "sect"} ELSE d[i].tag = "slide"
BreaksTo(ty, d, i) == { j \in 1..i : BreakAt(ty, d, j) }
PageAt(ty, d, i) == Cardinality(BreaksTo(ty, d, i)) + IF ty = "docx" THEN 1 ELSE 0

\* A break deeper than depth f that is not undone before node i.
StaleAt(ty, d, f, i) ==
    \E j \in 1..i :
        /\ BreakAt(ty, d, j) /\ d[j].depth > f
        /\ \A k \in j..i : \/ d[k].depth > f
                           \/ d[k].depth = f /\ ~BreakAt(ty, d, k)

LEMMA BreaksFinite ==
    ASSUME NEW ty, NEW d, NEW i \in Nat
    PROVE  /\ IsFiniteSet(BreaksTo(ty, d, i)) /\ Cardinality(BreaksTo(ty, d, i)) \in Nat
           /\ PageAt(ty, d, i) \in Nat
<1>1. IsFiniteSet(1..i)
  BY FS_Interval
<1>2. BreaksTo(ty, d, i) \in SUBSET (1..i)
  BY DEF BreaksTo
<1>3. IsFiniteSet(BreaksTo(ty, d, i)) /\ Cardinality(BreaksTo(ty, d, i)) \in Nat
  BY <1>1, <1>2, FS_Subset, FS_CardinalityType
<1> QED BY <1>3 DEF PageAt

\* Pages never go back.
LEMMA PagesGrow ==
    ASSUME NEW ty, NEW d, NEW m \in Nat, NEW i \in 0..m
    PROVE  PageAt(ty, d, i) <= PageAt(ty, d, m)
<1>1. /\ IsFiniteSet(BreaksTo(ty, d, m)) /\ Cardinality(BreaksTo(ty, d, m)) \in Nat
      /\ Cardinality(BreaksTo(ty, d, i)) \in Nat
  BY BreaksFinite
<1>2. BreaksTo(ty, d, i) \in SUBSET BreaksTo(ty, d, m)
  BY DEF BreaksTo
<1>3. Cardinality(BreaksTo(ty, d, i)) <= Cardinality(BreaksTo(ty, d, m))
  BY <1>1, <1>2, FS_Subset
<1> QED BY <1>1, <1>3 DEF PageAt

\* One node more: the pages of the others stay.
LEMMA PageStays ==
    ASSUME NEW ty, NEW d \in Seq(Node), NEW n \in Node, NEW i \in 0..Len(d)
    PROVE  PageAt(ty, Append(d, n), i) = PageAt(ty, d, i)
<1>1. \A j \in 1..i : Append(d, n)[j] = d[j]
  OBVIOUS
<1>2. BreaksTo(ty, Append(d, n), i) = BreaksTo(ty, d, i)
  BY <1>1 DEF BreaksTo, BreakAt
<1> QED BY <1>2 DEF PageAt

BreakNode(ty, n) == IF ty = "docx" THEN n.tag \in {"br", "sect"} ELSE n.tag = "slide"

LEMMA PageNext ==
    ASSUME NEW ty, NEW d \in Seq(Node), NEW n \in Node
    PROVE  PageAt(ty, Append(d, n), Len(d) + 1)
             = PageAt(ty, d, Len(d)) + IF BreakNode(ty, n) THEN 1 ELSE 0
<1> DEFINE N == Len(d)
           S == BreaksTo(ty, d, N)
           T == BreaksTo(ty, Append(d, n), N + 1)
<1>1. N \in Nat /\ Append(d, n)[N + 1] = n /\ \A j \in 1..N : Append(d, n)[j] = d[j]
  OBVIOUS
<1>2. \A j : j \in 1..(N + 1) <=> j \in 1..N \/ j = N + 1
  BY <1>1
<1>3. /\ \A j \in 1..N : BreakAt(ty, Append(d, n), j) <=> BreakAt(ty, d, j)
      /\ BreakAt(ty, Append(d, n), N + 1) <=> BreakNode(ty, n)
  BY <1>1 DEF BreakAt, BreakNode
<1>4. N + 1 \notin S /\ T = IF BreakNode(ty, n) THEN S \cup {N + 1} ELSE S
  <2>1. N + 1 \notin 1..N
    BY <1>1
  <2> QED BY <1>2, <1>3, <2>1 DEF BreaksTo
<1>5. IsFiniteSet(S) /\ Cardinality(S) \in Nat
  BY <1>1, BreaksFinite
<1> HIDE DEF S, T, N
<1>6. Cardinality(T) = Cardinality(S) + IF BreakNode(ty, n) THEN 1 ELSE 0
  <2>1. Cardinality(S \cup {N + 1}) = Cardinality(S) + 1
    BY <1>4, <1>5, FS_AddElement
  <2> QED BY <1>4, <1>5, <2>1
<1> QED BY <1>5, <1>6 DEF PageAt, S, T, N

\* What is stale before the last node stays so, and becomes so.
LEMMA StaleStays ==
    ASSUME NEW ty, NEW d \in Seq(Node), NEW n \in Node, NEW i \in 0..Len(d), NEW f
    PROVE  StaleAt(ty, Append(d, n), f, i) <=> StaleAt(ty, d, f, i)
<1>1. \A j \in 1..i : Append(d, n)[j] = d[j]
  OBVIOUS
<1>2. \A j \in 1..i : \A k \in j..i : k \in 1..i
  OBVIOUS
<1>3. \A j \in 1..i : BreakAt(ty, Append(d, n), j) <=> BreakAt(ty, d, j)
  BY <1>1 DEF BreakAt
<1> QED BY <1>1, <1>2, <1>3 DEF StaleAt

LEMMA StaleMore ==
    ASSUME NEW ty, NEW d \in Seq(Node), NEW n \in Node, NEW f \in Nat,
           \/ StaleAt(ty, d, f, Len(d)) /\ (n.depth > f \/ (n.depth = f /\ ~BreakNode(ty, n)))
           \/ BreakNode(ty, n) /\ n.depth > f
    PROVE  StaleAt(ty, Append(d, n), f, Len(d) + 1)
<1> DEFINE N == Len(d)
           d2 == Append(d, n)
<1>1. N \in Nat /\ d2[N + 1] = n /\ \A j \in 1..N : d2[j] = d[j]
  OBVIOUS
<1>2. /\ \A j \in 1..N : BreakAt(ty, d2, j) <=> BreakAt(ty, d, j)
      /\ BreakAt(ty, d2, N + 1) <=> BreakNode(ty, n)
  BY <1>1 DEF BreakAt, BreakNode
<1> HIDE DEF N, d2
<1>3. CASE BreakNode(ty, n) /\ n.depth > f
  <2>1. N + 1 \in 1..(N + 1) /\ \A k \in (N + 1)..(N + 1) : k = N + 1
    BY <1>1
  <2>2. StaleAt(ty, d2, f, N + 1)
    BY <1>1, <1>2, <1>3, <2>1 DEF StaleAt
  <2> QED BY <2>2 DEF N, d2
<1>4. CASE StaleAt(ty, d, f, N) /\ (n.depth > f \/ (n.depth = f /\ ~BreakNode(ty, n)))
  <2>1. PICK j \in 1..N : /\ BreakAt(ty, d, j) /\ d[j].depth > f
                          /\ \A k \in j..N : \/ d[k].depth > f
                                             \/ d[k].depth = f /\ ~BreakAt(ty, d, k)
    BY <1>4 DEF StaleAt
  <2>2. ASSUME NEW k \in j..(N + 1)
        PROVE  d2[k].depth > f \/ (d2[k].depth = f /\ ~BreakAt(ty, d2, k))
    <3>1. CASE k \in j..N
      <4>1. k \in 1..N
        BY <1>1, <3>1
      <4> QED BY <1>1, <1>2, <2>1, <3>1, <4>1
    <3>2. CASE k = N + 1
      BY <1>1, <1>2, <1>4, <3>2
    <3> QED BY <1>1, <3>1, <3>2
  <2>3. StaleAt(ty, d2, f, N + 1)
    <3>1. j \in 1..(N + 1) /\ BreakAt(ty, d2, j) /\ d2[j].depth > f
      BY <1>1, <1>2, <2>1
    <3> QED BY <2>2, <3>1 DEF StaleAt
  <2> QED BY <2>3 DEF N, d2
<1> QED BY <1>3, <1>4 DEF N

-----------------------------------------------------------------------------
\* Where the texts are.

Walking == stage \in {"walk", "done"} /\ type \in {"docx", "pptx"}

PageCount == Len(pages) = PageAt(type, doc, Len(doc))

\* A frame that does not point to the last page went stale.
StaleFrames ==
    \A f \in 1..Len(frames) : frames[f][1] < Len(pages) => StaleAt(type, doc, f, Len(doc))

Placed ==
    \A k, q, i : On(pages, k, q, i) =>
        /\ k <= PageAt(type, doc, i)
        /\ k < PageAt(type, doc, i) => StaleAt(type, doc, doc[i].depth, i - 1)

AllFound == \A i \in Texts : \E k, q : On(pages, k, q, i)
OnceOnly == \A k, q, k2, q2, i : On(pages, k, q, i) /\ On(pages, k2, q2, i) => k = k2 /\ q = q2
Shorter == \A k \in 1..Len(pages) : Len(pages[k]) <= Len(doc)

KeptInv ==
    Walking => PageCount /\ StaleFrames /\ Placed /\ AllFound /\ OnceOnly /\ Shorter

\* A node more, which opens a page when it is a break.
LEMMA PageCountStep ==
    ASSUME StageInv, TreeInv, PageCount, NEW n \in Node, doc' = Append(doc, n), type' = type,
           Len(pages') = Len(pages) + IF BreakNode(type, n) THEN 1 ELSE 0
    PROVE  PageCount'
<1>1. doc \in Seq(Node) /\ Len(doc') = Len(doc) + 1
  BY DEF TreeInv
<1>2. PageAt(type', doc', Len(doc')) = PageAt(type, doc, Len(doc)) + IF BreakNode(type, n) THEN 1 ELSE 0
  BY <1>1, PageNext
<1> QED BY <1>2 DEF PageCount

\* The frames around the node keep their pointers; the node's own points to
\* the last page, or is as it was and the node is no break.
LEMMA StaleStep ==
    ASSUME StageInv, TreeInv, StaleFrames, NEW n \in Node, Visit(n), NEW b, Walked(n, b),
           Len(pages') = Len(pages) + (IF BreakNode(type, n) THEN 1 ELSE 0),
           b[1] = Len(pages') \/ (b = Pointing(n.depth) /\ ~BreakNode(type, n))
    PROVE  StaleFrames'
<1>1. /\ doc \in Seq(Node) /\ doc' = Append(doc, n) /\ Len(doc') = Len(doc) + 1
      /\ type' = type /\ Len(pages) \in Nat /\ n.depth \in Nat /\ Len(frames) \in Nat
      /\ n.depth \in 1..(Len(frames) + 1) /\ frames \in Seq(Pointer)
  <2>1. n.depth \in 1..(Len(frames) + 1) /\ frames \in Seq(Pointer) /\ Len(frames) \in Nat
    BY Visited DEF TreeInv
  <2> QED BY <2>1, Visited DEF TreeInv, Visit
<1>2. SUFFICES ASSUME NEW f \in 1..Len(frames'), frames'[f][1] < Len(pages')
               PROVE  StaleAt(type, Append(doc, n), f, Len(doc) + 1)
  BY <1>1 DEF StaleFrames
<1>3. f \in 1..n.depth /\ f \in Nat
  BY <1>1 DEF Walked
<1>4. CASE f # n.depth
  <2>1. f \in 1..(n.depth - 1) /\ n.depth > f /\ f \in 1..Len(frames)
    BY <1>1, <1>3, <1>4
  <2>2. frames'[f] = frames[f] /\ frames[f][1] \in Nat
    <3>1. frames[f] \in Pointer
      BY <1>1, <2>1
    <3> QED BY <2>1, <3>1 DEF Walked, Pointer
  <2>3. CASE frames[f][1] < Len(pages)
    BY <1>1, <1>3, <2>1, <2>3, StaleMore DEF StaleFrames
  <2>4. CASE ~(frames[f][1] < Len(pages))
    <3>1. BreakNode(type, n)
      BY <1>1, <1>2, <2>2, <2>4
    <3> QED BY <1>1, <1>3, <2>1, <3>1, StaleMore
  <2> QED BY <2>3, <2>4
<1>5. CASE f = n.depth
  <2>1. frames'[f] = b
    BY <1>5 DEF Walked
  <2>2. b = Pointing(f) /\ ~BreakNode(type, n) /\ Len(pages') = Len(pages)
    BY <1>1, <1>2, <1>5, <2>1
  <2>3. f \in 1..Len(frames) /\ frames[f][1] < Len(pages)
    <3>1. Pointing(f) = IF f > Len(frames) THEN Back ELSE frames[f]
      BY <1>5, Visited DEF Pointing
    <3>2. ~(f > Len(frames))
      <4>1. Back[1] = Len(pages)
        BY DEF Back
      <4> QED BY <1>1, <1>2, <2>1, <2>2, <3>1, <4>1
    <3> QED BY <1>1, <1>2, <1>3, <2>1, <2>2, <3>1, <3>2
  <2> QED BY <1>1, <1>3, <1>5, <2>2, <2>3, StaleMore DEF StaleFrames
<1> QED BY <1>4, <1>5

\* The texts on the pages stay where they are; a new one is on page at.
LEMMA PlacedStep ==
    ASSUME StageInv, TreeInv, Placed, NEW n \in Node, doc' = Append(doc, n), type' = type,
           NEW at,
           \A k, q, i : On(pages', k, q, i) => On(pages, k, q, i) \/ (k = at /\ i = Len(doc) + 1),
           (\E k, q : On(pages', k, q, Len(doc) + 1)) =>
               /\ at <= PageAt(type, doc', Len(doc) + 1)
               /\ at < PageAt(type, doc', Len(doc) + 1) => StaleAt(type, doc', n.depth, Len(doc))
    PROVE  Placed'
<1>1. /\ doc \in Seq(Node) /\ Len(doc) \in Nat /\ doc'[Len(doc) + 1] = n
      /\ \A i \in 1..Len(doc) : doc'[i] = doc[i]
  BY DEF TreeInv
<1> SUFFICES ASSUME NEW k, NEW q, NEW i, On(pages', k, q, i)
             PROVE  /\ k <= PageAt(type, doc', i)
                    /\ k < PageAt(type, doc', i) => StaleAt(type, doc', doc'[i].depth, i - 1)
  BY DEF Placed
<1>2. CASE On(pages, k, q, i)
  <2>1. i \in 1..Len(doc)
    BY <1>1, <1>2 DEF TreeInv, Texts
  <2>2. i \in 0..Len(doc) /\ i - 1 \in 0..Len(doc) /\ doc'[i] = doc[i]
    BY <1>1, <2>1
  <2>3. PageAt(type, doc', i) = PageAt(type, doc, i)
    BY <1>1, <2>2, PageStays
  <2>4. StaleAt(type, doc', doc'[i].depth, i - 1) <=> StaleAt(type, doc, doc[i].depth, i - 1)
    BY <1>1, <2>2, StaleStays
  <2> QED BY <1>2, <2>3, <2>4 DEF Placed
<1>3. CASE ~On(pages, k, q, i)
  <2>1. k = at /\ i = Len(doc) + 1 /\ i - 1 = Len(doc)
    BY <1>1, <1>3
  <2> QED BY <1>1, <2>1
<1> QED BY <1>2, <1>3

\* A node that brings no text.
LEMMA TextsStay ==
    ASSUME StageInv, TreeInv, Placed, AllFound, OnceOnly, NEW n \in Node, doc' = Append(doc, n),
           type' = type, n.tag # "t", \A k, q, i : On(pages', k, q, i) <=> On(pages, k, q, i)
    PROVE  Placed' /\ AllFound' /\ OnceOnly'
<1>1. doc \in Seq(Node) /\ Len(doc) \in Nat
  BY DEF TreeInv
<1>2. ~\E k, q : On(pages', k, q, Len(doc) + 1)
  <2>1. Len(doc) + 1 \notin Texts
    BY <1>1 DEF Texts
  <2> QED BY <2>1 DEF TreeInv
<1>3. Placed'
  <2>1. \A k, q, i : On(pages', k, q, i) => On(pages, k, q, i) \/ (k = 0 /\ i = Len(doc) + 1)
    OBVIOUS
  <2> QED BY <1>2, <2>1, PlacedStep
<1>4. Texts' = Texts
  BY <1>1, TextsMore
<1>5. AllFound'
  BY <1>4 DEF AllFound
<1>6. OnceOnly'
  BY DEF OnceOnly
<1> QED BY <1>3, <1>5, <1>6

LEMMA KeptBreak ==
    ASSUME StageInv, TreeInv, KeptInv, NEW n \in Node, BreakPage(n) PROVE KeptInv'
<1> DEFINE b == <<Len(pages) + 1, generation'>>
<1>1. /\ Visit(n) /\ PushPage /\ n.tag \in {"br", "sect"} /\ type = "docx" /\ stage' = stage
      /\ frames' = [FramesAt(n.depth) EXCEPT ![n.depth] = b]
  BY DEF BreakPage
<1>2. /\ pages' = Append(pages, <<>>) /\ Len(pages) \in Nat /\ Len(pages') = Len(pages) + 1
      /\ generation' \in Nat /\ pages'[Len(pages) + 1] = <<>>
      /\ \A k \in 1..Len(pages) : pages'[k] = pages[k]
  BY <1>1, PagePushed
<1>3. b \in Pointer /\ b[1] = Len(pages')
  BY <1>2 DEF Pointer
<1> HIDE DEF b
<1>4. /\ stage = "walk" /\ type' = type /\ doc' = Append(doc, n) /\ Len(doc') = Len(doc) + 1
      /\ Walked(n, b)
  BY <1>1, <1>3, FrameSet, Visited DEF Visit
<1>5. BreakNode(type, n) /\ n.tag # "t"
  BY <1>1 DEF BreakNode
<1>6. PageCount /\ StaleFrames /\ Placed /\ AllFound /\ OnceOnly /\ Shorter
  BY <1>1, <1>4 DEF KeptInv, Walking
<1>7. PageCount' /\ StaleFrames'
  BY <1>1, <1>2, <1>3, <1>4, <1>5, <1>6, PageCountStep, StaleStep
<1>8. \A k, q, i : On(pages', k, q, i) <=> On(pages, k, q, i)
  BY <1>2, OnPush DEF TreeInv
<1>9. Placed' /\ AllFound' /\ OnceOnly'
  BY <1>4, <1>5, <1>6, <1>8, TextsStay
<1>10. Shorter'
  <2>1. Len(doc) \in Nat /\ Len(<<>>) = 0
    BY DEF TreeInv
  <2>2. ASSUME NEW k \in 1..Len(pages') PROVE Len(pages'[k]) <= Len(doc')
    <3>1. CASE k \in 1..Len(pages)
      <4>1. Len(pages[k]) <= Len(doc) /\ Len(pages[k]) \in Nat
        BY <1>6, <3>1 DEF Shorter, TreeInv
      <4> QED BY <1>2, <1>4, <2>1, <3>1, <4>1
    <3>2. CASE k \notin 1..Len(pages)
      BY <1>2, <1>4, <2>1, <3>2
    <3> QED BY <3>1, <3>2
  <2> QED BY <2>2 DEF Shorter
<1> QED BY <1>7, <1>9, <1>10 DEF KeptInv

LEMMA KeptParagraph ==
    ASSUME StageInv, TreeInv, KeptInv, NEW n \in Node, BeginParagraph(n) PROVE KeptInv'
<1>1. /\ Visit(n) /\ n.tag = "p" /\ stage' = stage
      /\ frames' = [FramesAt(n.depth) EXCEPT ![n.depth] = Back]
  BY DEF BeginParagraph
<1>2. /\ Len(pages') = Len(pages) /\ Len(pages) \in Nat /\ 1 <= Len(pages)
      /\ pages'[Len(pages)] = Append(pages[Len(pages)], <<>>)
      /\ \A k \in 1..Len(pages) : k # Len(pages) => pages'[k] = pages[k]
      /\ \A k, q, i : On(pages', k, q, i) <=> On(pages, k, q, i)
  BY <1>1, ParagraphBegun, Visited
<1>3. Back \in Pointer /\ Back[1] = Len(pages')
  BY <1>2 DEF Back, Pointer, TreeInv
<1>4. /\ stage = "walk" /\ type' = type /\ doc' = Append(doc, n) /\ Len(doc') = Len(doc) + 1
      /\ Walked(n, Back)
  BY <1>1, <1>3, FrameSet, Visited DEF Visit
<1>5. ~BreakNode(type, n) /\ n.tag # "t"
  BY <1>1 DEF BreakNode
<1>6. PageCount /\ StaleFrames /\ Placed /\ AllFound /\ OnceOnly /\ Shorter
  BY <1>4 DEF KeptInv, Walking, StageInv
<1>7. PageCount' /\ StaleFrames'
  BY <1>1, <1>2, <1>3, <1>4, <1>5, <1>6, PageCountStep, StaleStep
<1>8. Placed' /\ AllFound' /\ OnceOnly'
  BY <1>2, <1>4, <1>5, <1>6, TextsStay
<1>9. Shorter'
  <2>1. Len(doc) \in Nat
    BY DEF TreeInv
  <2>2. ASSUME NEW k \in 1..Len(pages') PROVE Len(pages'[k]) <= Len(doc')
    <3>1. k \in 1..Len(pages) /\ pages[k] \in Seq(Seq(Nat)) /\ Len(pages[k]) \in Nat
          /\ Len(pages[k]) <= Len(doc)
      BY <1>2, <1>6 DEF Shorter, TreeInv
    <3>2. Len(Append(pages[k], <<>>)) = Len(pages[k]) + 1
      <4>1. <<>> \in Seq(Nat)
        OBVIOUS
      <4> QED BY <3>1, <4>1, AppendProperties
    <3> QED BY <1>2, <1>4, <2>1, <3>1, <3>2
  <2> QED BY <2>2 DEF Shorter
<1> QED BY <1>7, <1>8, <1>9 DEF KeptInv

LEMMA KeptPass ==
    ASSUME StageInv, TreeInv, KeptInv, NEW n \in Node, PassThrough(n) PROVE KeptInv'
<1>1. /\ Visit(n) /\ n.tag # "t" /\ stage' = stage /\ pages' = pages
      /\ frames' = FramesAt(n.depth)
      /\ n.tag \in {"r", "box"} \/ (type = "pptx" /\ n.tag \in {"br", "sect"})
  BY DEF PassThrough
<1> DEFINE b == Pointing(n.depth)
<1>2. Walked(n, b) /\ Len(pages) \in Nat
  BY <1>1, FrameKept, Visited
<1>3. /\ stage = "walk" /\ type' = type /\ doc' = Append(doc, n) /\ Len(doc') = Len(doc) + 1
  BY <1>1, Visited DEF Visit
<1>4. ~BreakNode(type, n)
  BY <1>1 DEF BreakNode
<1>5. PageCount /\ StaleFrames /\ Placed /\ AllFound /\ OnceOnly /\ Shorter
  BY <1>3 DEF KeptInv, Walking, StageInv
<1> HIDE DEF b
<1>6. Len(pages') = Len(pages) + IF BreakNode(type, n) THEN 1 ELSE 0
  BY <1>1, <1>2, <1>4
<1>7. PageCount' /\ StaleFrames'
  BY <1>1, <1>2, <1>3, <1>4, <1>5, <1>6, PageCountStep, StaleStep DEF b
<1>8. \A k, q, i : On(pages', k, q, i) <=> On(pages, k, q, i)
  BY <1>1
<1>9. Placed' /\ AllFound' /\ OnceOnly'
  BY <1>1, <1>3, <1>5, <1>8, TextsStay
<1>10. Shorter'
  <2>1. Len(doc) \in Nat /\ \A k \in 1..Len(pages) : Len(pages[k]) \in Nat
    BY DEF TreeInv
  <2> QED BY <1>1, <1>3, <1>5, <2>1 DEF Shorter
<1> QED BY <1>7, <1>9, <1>10 DEF KeptInv

\* A text is on the last page, or behind on the page of a stale frame.
LEMMA KeptText ==
    ASSUME StageInv, TreeInv, KeptInv, NEW n \in Node, AddText(n) PROVE KeptInv'
<1> DEFINE b == Pointing(n.depth)
           at == b[1]
           new == Len(doc) + 1
<1>1. /\ Visit(n) /\ n.tag = "t" /\ frames' = FramesAt(n.depth)
  BY DEF AddText
<1>2. CASE stage' = "undefined"
  BY <1>2 DEF KeptInv, Walking
<1>3. CASE stage' # "undefined"
  <2>1. at \in 1..Len(pages) /\ Put(pages, pages', at, new)
    BY <1>3, TextAdded
  <2>2. PICK q \in Nat : PutAt(pages, pages', at, new, q) /\ q >= 1
    BY <2>1 DEF Put, PutAt
  <2>3. /\ stage = "walk" /\ type' = type /\ doc' = Append(doc, n) /\ Len(doc') = new
        /\ Walked(n, b) /\ Len(pages) \in Nat /\ Len(doc) \in Nat /\ doc \in Seq(Node)
    <3>1. Walked(n, b)
      BY <1>1, FrameKept
    <3> QED BY <1>1, <3>1, Visited DEF Visit, TreeInv
  <2>4. ~BreakNode(type, n)
    BY <1>1 DEF BreakNode
  <2>5. PageCount /\ StaleFrames /\ Placed /\ AllFound /\ OnceOnly /\ Shorter
    BY <2>3 DEF KeptInv, Walking, StageInv
  <2>6. Len(pages') = Len(pages) + IF BreakNode(type, n) THEN 1 ELSE 0
    BY <2>2, <2>3, <2>4 DEF PutAt
  <2>7. /\ b \in Pointer
        /\ Pointing(n.depth) = IF n.depth > Len(frames) THEN Back ELSE frames[n.depth]
        /\ n.depth \in 1..(Len(frames) + 1) /\ Len(frames) \in Nat
    <3>1. b \in Pointer
      BY <1>1, PointingTo
    <3>2. /\ Pointing(n.depth) = IF n.depth > Len(frames) THEN Back ELSE frames[n.depth]
          /\ n.depth \in 1..(Len(frames) + 1)
      BY <1>1, Visited DEF Pointing
    <3> QED BY <3>1, <3>2 DEF TreeInv
  <2> HIDE DEF b, new
  <2>8. PageCount' /\ StaleFrames'
    BY <1>1, <2>3, <2>4, <2>5, <2>6, PageCountStep, StaleStep DEF b
  <2>9. \A k, r, i : On(pages', k, r, i) <=> On(pages, k, r, i) \/ (k = at /\ r = q /\ i = new)
    BY <2>2 DEF PutAt, Gains
  <2>10. at = Len(pages) \/ (at < Len(pages) /\ StaleAt(type, doc, n.depth, Len(doc)))
    <3>1. CASE n.depth > Len(frames)
      BY <2>7, <3>1 DEF Back, b
    <3>2. CASE ~(n.depth > Len(frames))
      <4>1. n.depth \in 1..Len(frames) /\ b = frames[n.depth]
        BY <2>7, <3>2 DEF b
      <4>2. at < Len(pages) => StaleAt(type, doc, n.depth, Len(doc))
        BY <2>5, <4>1 DEF StaleFrames
      <4> QED BY <2>1, <2>3, <4>2
    <3> QED BY <3>1, <3>2
  <2>11. /\ PageAt(type, doc', new) = Len(pages)
         /\ StaleAt(type, doc', n.depth, Len(doc)) <=> StaleAt(type, doc, n.depth, Len(doc))
    <3>1. PageAt(type, doc', new) = Len(pages)
      BY <2>3, <2>6, <2>8, <2>4 DEF PageCount
    <3>2. Len(doc) \in 0..Len(doc)
      BY <2>3
    <3> QED BY <2>3, <3>1, <3>2, StaleStays
  <2> HIDE DEF at
  <2>12. Placed'
    <3>1. /\ at <= PageAt(type, doc', Len(doc) + 1)
          /\ at < PageAt(type, doc', Len(doc) + 1) => StaleAt(type, doc', n.depth, Len(doc))
      BY <2>1, <2>3, <2>10, <2>11 DEF new
    <3>2. \A k, r, i : On(pages', k, r, i) => On(pages, k, r, i) \/ (k = at /\ i = Len(doc) + 1)
      BY <2>9 DEF new
    <3> QED BY <2>3, <2>5, <3>1, <3>2, PlacedStep
  <2>13. Texts' = Texts \cup {new} /\ new \notin Texts
    <3>1. Len(doc) + 1 \notin Texts
      BY <2>3 DEF Texts
    <3> QED BY <1>1, <2>3, <3>1, TextsMore DEF new
  <2>14. AllFound'
    BY <2>5, <2>9, <2>13 DEF AllFound
  <2>15. OnceOnly'
    <3>1. \A k, r : ~On(pages, k, r, new)
      BY <2>13 DEF TreeInv
    <3> QED BY <2>5, <2>9, <3>1 DEF OnceOnly
  <2>16. Shorter'
    <3>1. ASSUME NEW k \in 1..Len(pages') PROVE Len(pages'[k]) <= Len(doc')
      <4>1. k \in 1..Len(pages) /\ pages[k] \in Seq(Seq(Nat)) /\ Len(pages[k]) \in Nat
            /\ Len(pages[k]) <= Len(doc)
        BY <2>2, <2>5 DEF Shorter, TreeInv, PutAt
      <4>2. CASE k # at
        BY <2>2, <2>3, <4>1, <4>2 DEF PutAt, new
      <4>3. CASE k = at
        <5>1. pages[at] = <<>> => Len(pages'[at]) = 1
          <6>1. Len(<<<<new>>>>) = 1
            OBVIOUS
          <6> QED BY <2>2, <6>1 DEF PutAt
        <5>2. pages[at] # <<>> => Len(pages'[at]) = Len(pages[at])
          BY <2>1, <2>2, <4>1, <4>3 DEF Put, PutAt
        <5>3. Len(doc') = Len(doc) + 1 /\ Len(doc) \in Nat
          BY <2>3 DEF new
        <5>4. CASE pages[at] = <<>>
          <6>1. Len(pages'[k]) = 1
            BY <4>3, <5>1, <5>4, Zenon
          <6> QED BY <5>3, <6>1
        <5>5. CASE pages[at] # <<>>
          BY <4>1, <4>3, <5>2, <5>3, <5>5
        <5> QED BY <5>4, <5>5
      <4> QED BY <4>2, <4>3
    <3> QED BY <3>1 DEF Shorter
  <2> QED BY <2>8, <2>12, <2>14, <2>15, <2>16 DEF KeptInv
<1> QED BY <1>2, <1>3

LEMMA KeptSlide == ASSUME StageInv, TreeInv, KeptInv, OpenSlide PROVE KeptInv'
<1> DEFINE n == [tag |-> "slide", depth |-> 0]
<1>1. /\ PushPage /\ type = "pptx" /\ stage = "walk" /\ stage' = stage /\ type' = type
      /\ doc' = Append(doc, n) /\ frames' = <<>>
  BY DEF OpenSlide
<1>2. n \in Node /\ n.tag = "slide"
  BY BoundAssumption DEF Node
<1> HIDE DEF n
<1>3. /\ pages' = Append(pages, <<>>) /\ Len(pages) \in Nat /\ Len(pages') = Len(pages) + 1
      /\ pages'[Len(pages) + 1] = <<>> /\ \A k \in 1..Len(pages) : pages'[k] = pages[k]
      /\ Len(doc') = Len(doc) + 1
  BY <1>1, <1>2, PagePushed DEF TreeInv
<1>4. BreakNode(type, n) /\ n.tag # "t"
  BY <1>1, <1>2 DEF BreakNode
<1>5. PageCount /\ StaleFrames /\ Placed /\ AllFound /\ OnceOnly /\ Shorter
  BY <1>1 DEF KeptInv, Walking
<1>6. PageCount'
  BY <1>1, <1>2, <1>3, <1>4, <1>5, PageCountStep
<1>7. StaleFrames'
  <2>1. Len(<<>>) = 0 /\ 1..0 = {}
    OBVIOUS
  <2> QED BY <1>1, <2>1 DEF StaleFrames
<1>8. \A k, q, i : On(pages', k, q, i) <=> On(pages, k, q, i)
  BY <1>3, OnPush DEF TreeInv
<1>9. Placed' /\ AllFound' /\ OnceOnly'
  BY <1>1, <1>2, <1>4, <1>5, <1>8, TextsStay
<1>10. Shorter'
  <2>1. Len(doc) \in Nat /\ Len(<<>>) = 0
    BY DEF TreeInv
  <2>2. ASSUME NEW k \in 1..Len(pages') PROVE Len(pages'[k]) <= Len(doc')
    <3>1. CASE k \in 1..Len(pages)
      <4>1. Len(pages[k]) <= Len(doc) /\ Len(pages[k]) \in Nat
        BY <1>5, <3>1 DEF Shorter, TreeInv
      <4> QED BY <1>3, <2>1, <3>1, <4>1
    <3>2. CASE k \notin 1..Len(pages)
      BY <1>3, <2>1, <3>2
    <3> QED BY <3>1, <3>2
  <2> QED BY <2>2 DEF Shorter
<1> QED BY <1>6, <1>7, <1>9, <1>10 DEF KeptInv

LEMMA KeptFound == ASSUME StageInv, TreeInv, KeptInv, FindPart PROVE KeptInv'
<1>1. /\ doc = <<>> /\ doc' = doc /\ frames = <<>> /\ frames' = frames /\ pages = <<>>
  BY DEF FindPart, StageInv
<1>2. SUFFICES ASSUME Walking' PROVE KeptInv'
  BY DEF KeptInv
<1>3. stage' = "walk" /\ type' \in {"docx", "pptx"}
  <2>1. type' \in {"docx", "pptx"}
    BY <1>2 DEF Walking
  <2>2. stage' # "done"
    BY <2>1 DEF FindPart
  <2> QED BY <1>2, <2>2 DEF Walking
<1>4. pages' = IF type' = "docx" THEN <<<<>>>> ELSE <<>>
  BY <1>1, <1>3 DEF FindPart
<1>5. /\ Len(<<>>) = 0 /\ 1..0 = {} /\ DOMAIN <<>> = {} /\ Len(<<<<>>>>) = 1 /\ <<<<>>>>[1] = <<>>
      /\ DOMAIN <<<<>>>> = 1..1 /\ \A k \in 1..1 : k = 1
  OBVIOUS
<1>6. \A k, q, i : ~On(pages', k, q, i)
  BY <1>4, <1>5 DEF On
<1>7. PageAt(type', doc', 0) = IF type' = "docx" THEN 1 ELSE 0
  <2>1. BreaksTo(type', doc', 0) = {}
    BY DEF BreaksTo
  <2> QED BY <2>1, FS_EmptySet DEF PageAt
<1>8. PageCount'
  BY <1>1, <1>4, <1>5, <1>7 DEF PageCount
<1>9. Shorter'
  BY <1>1, <1>4, <1>5 DEF Shorter
<1>10. Texts' = {}
  BY <1>1, <1>5 DEF Texts
<1> QED BY <1>1, <1>5, <1>6, <1>8, <1>9, <1>10 DEF KeptInv, StaleFrames, Placed, AllFound, OnceOnly

LEMMA KeptStep == StageInv /\ TreeInv /\ KeptInv /\ [WalkNext]_walkVars => KeptInv'
<1> SUFFICES ASSUME StageInv, TreeInv, KeptInv, [WalkNext]_walkVars PROVE KeptInv'
  OBVIOUS
<1>1. CASE EndWalk \/ Finished \/ UNCHANGED walkVars
  <2>1. /\ doc' = doc /\ type' = type /\ frames' = frames /\ pages' = pages
        /\ stage' = stage \/ stage = "walk"
    BY <1>1 DEF EndWalk, Finished, walkVars, pageVars
  <2>2. /\ PageCount' <=> PageCount
        /\ StaleFrames' <=> StaleFrames
        /\ Placed' <=> Placed
        /\ AllFound' <=> AllFound
        /\ OnceOnly' <=> OnceOnly
        /\ Shorter' <=> Shorter
    BY <2>1 DEF PageCount, StaleFrames, Placed, AllFound, OnceOnly, Shorter, Texts
  <2> QED BY <2>1, <2>2 DEF KeptInv, Walking
<1>2. CASE RejectPackage \/ StartConcat \/ Concat \/ AddString \/ ReadRow
           \/ (\E found \in BOOLEAN : OpenSheet(found)) \/ (\E c \in Cell : ReadCell(c))
           \/ \E n \in Node : GrowString(n)
  <2>1. stage' \in {"failed", "concat", "string", "sheet"}
    BY <1>2 DEF RejectPackage, StartConcat, Concat, AddString, ReadRow, OpenSheet, ReadCell,
                InSheet, GrowString
  <2> QED BY <2>1 DEF KeptInv, Walking
<1>3. CASE EndBook
  <2>1. type' = "xlsx"
    BY <1>3 DEF EndBook, StageInv
  <2> QED BY <2>1 DEF KeptInv, Walking
<1> QED BY <1>1, <1>2, <1>3, KeptBreak, KeptParagraph, KeptText, KeptPass, KeptSlide, KeptFound
        DEF WalkNext

LEMMA KeptInvariant == WalkSpec => []KeptInv
<1>1. WalkInit => KeptInv
  BY DEF WalkInit, KeptInv, Walking
<1>2. WalkInv /\ KeptInv /\ [WalkNext]_walkVars => KeptInv'
  BY KeptStep DEF WalkInv
<1> QED BY <1>1, <1>2, WalkInvariant, PTL DEF WalkSpec

\* A text found on the pages is there once, where the breaks lead or behind.
LEMMA OnePlace ==
    ASSUME TreeInv, Placed, OnceOnly, Shorter, NEW i \in Texts, NEW k, NEW q, On(pages, k, q, i)
    PROVE  LET places == {at \in (DOMAIN pages) \X (1..Len(doc)) :
                             /\ at[2] \in DOMAIN pages[at[1]]
                             /\ i \in ToSet(pages[at[1]][at[2]])}
           IN  /\ Cardinality(places) = 1
               /\ \A at \in places : /\ at[1] <= PageOf(i)
                                     /\ at[1] < PageOf(i) => Exposed(i)
<1> DEFINE places == {at \in (DOMAIN pages) \X (1..Len(doc)) :
                         /\ at[2] \in DOMAIN pages[at[1]]
                         /\ i \in ToSet(pages[at[1]][at[2]])}
<1>1. k \in DOMAIN pages /\ q \in 1..Len(doc)
  <2>1. k \in 1..Len(pages) /\ pages[k] \in Seq(Seq(Nat)) /\ q \in DOMAIN pages[k]
    BY DEF On, TreeInv
  <2>2. q \in 1..Len(pages[k]) /\ Len(pages[k]) <= Len(doc) /\ Len(doc) \in Nat
    BY <2>1 DEF Shorter, TreeInv
  <2> QED BY <2>1, <2>2 DEF On
<1>2. places = {<<k, q>>}
  <2>1. <<k, q>> \in places
    BY <1>1 DEF On
  <2>2. ASSUME NEW at \in places PROVE at = <<k, q>>
    <3>1. at = <<at[1], at[2]>> /\ On(pages, at[1], at[2], i)
      BY DEF On
    <3>2. at[1] = k /\ at[2] = q
      BY <3>1 DEF OnceOnly
    <3> QED BY <3>1, <3>2
  <2> HIDE DEF places
  <2> QED BY <2>1, <2>2
<1>3. PageOf(i) = PageAt(type, doc, i)
  BY DEF PageOf, PageAt, BreaksTo, IsBreak, BreakAt
<1>4. StaleAt(type, doc, doc[i].depth, i - 1) => Exposed(i)
  BY DEF StaleAt, Exposed, IsBreak, BreakAt
<1>5. k <= PageOf(i) /\ (k < PageOf(i) => Exposed(i))
  BY <1>3, <1>4 DEF Placed
<1> HIDE DEF places
<1>6. Cardinality(places) = 1
  BY <1>2, FS_Singleton
<1>7. \A at \in places : at[1] = k
  BY <1>2
<1> QED BY <1>5, <1>6, <1>7 DEF places

-----------------------------------------------------------------------------
\* The paragraph a reader would put a node in, in any document.

BeganAt(ty, d, i) == { j \in 1..i : d[j].tag = "p" /\ PageAt(ty, d, j) = PageAt(ty, d, i) }
HeadlessAt(ty, d, k) ==
    \E i \in 1..Len(d) : d[i].tag = "t" /\ PageAt(ty, d, i) = k /\ BeganAt(ty, d, i) = {}
ParAt(ty, d, i) ==
    Cardinality(BeganAt(ty, d, i)) + IF HeadlessAt(ty, d, PageAt(ty, d, i)) THEN 1 ELSE 0
OfPar(ty, d, k, q) ==
    { i \in 1..Len(d) : d[i].tag = "t" /\ PageAt(ty, d, i) = k /\ ParAt(ty, d, i) = q }

LEMMA BeganStays ==
    ASSUME NEW ty, NEW d \in Seq(Node), NEW n \in Node, NEW i \in 0..Len(d)
    PROVE  BeganAt(ty, Append(d, n), i) = BeganAt(ty, d, i)
<1>1. \A j \in 1..i : Append(d, n)[j] = d[j] /\ j \in 0..Len(d)
  OBVIOUS
<1>2. \A j \in 0..Len(d) : PageAt(ty, Append(d, n), j) = PageAt(ty, d, j)
  BY PageStays
<1> QED BY <1>1, <1>2 DEF BeganAt

\* What has begun at the node that is added: nothing on a new page.
LEMMA BeganNext ==
    ASSUME NEW ty, NEW d \in Seq(Node), NEW n \in Node
    PROVE  BeganAt(ty, Append(d, n), Len(d) + 1)
             = IF BreakNode(ty, n) THEN {}
               ELSE BeganAt(ty, d, Len(d)) \cup (IF n.tag = "p" THEN {Len(d) + 1} ELSE {})
<1> DEFINE N == Len(d)
           d2 == Append(d, n)
<1>1. N \in Nat /\ d2[N + 1] = n /\ \A j \in 1..N : d2[j] = d[j]
  OBVIOUS
<1>2. /\ \A j \in 1..N : PageAt(ty, d2, j) = PageAt(ty, d, j) /\ PageAt(ty, d, j) <= PageAt(ty, d, N)
                         /\ PageAt(ty, d, j) \in Nat
      /\ PageAt(ty, d2, N + 1) = PageAt(ty, d, N) + IF BreakNode(ty, n) THEN 1 ELSE 0
      /\ PageAt(ty, d, N) \in Nat
  <2>1. \A j \in 1..N : j \in 0..N /\ j \in Nat
    OBVIOUS
  <2>2. ASSUME NEW j \in 1..N
        PROVE  PageAt(ty, d2, j) = PageAt(ty, d, j) /\ PageAt(ty, d, j) <= PageAt(ty, d, N)
               /\ PageAt(ty, d, j) \in Nat
    BY <1>1, <2>1, PageStays, PagesGrow, BreaksFinite
  <2> QED BY <1>1, <2>2, PageNext, BreaksFinite
<1>3. \A j : j \in 1..(N + 1) <=> j \in 1..N \/ j = N + 1
  BY <1>1
<1>4. BreakNode(ty, n) => n.tag # "p"
  BY DEF BreakNode
<1> HIDE DEF N, d2
<1>5. CASE BreakNode(ty, n)
  <2>1. ASSUME NEW j \in 1..(N + 1) PROVE ~(d2[j].tag = "p" /\ PageAt(ty, d2, j) = PageAt(ty, d2, N + 1))
    <3>1. CASE j = N + 1
      BY <1>1, <1>4, <1>5, <3>1
    <3>2. CASE j \in 1..N
      BY <1>2, <1>5, <3>2
    <3> QED BY <1>3, <3>1, <3>2
  <2>2. BeganAt(ty, d2, N + 1) = {}
    BY <2>1 DEF BeganAt
  <2> QED BY <1>5, <2>2 DEF N, d2
<1>6. CASE ~BreakNode(ty, n)
  <2>1. BeganAt(ty, d2, N + 1) = BeganAt(ty, d, N) \cup (IF n.tag = "p" THEN {N + 1} ELSE {})
    <3>1. ASSUME NEW j
          PROVE  j \in BeganAt(ty, d2, N + 1)
                   <=> j \in BeganAt(ty, d, N) \/ (j = N + 1 /\ n.tag = "p")
      <4>1. CASE j \in 1..N
        <5>1. j # N + 1
          BY <1>1, <4>1
        <5> QED BY <1>1, <1>2, <1>3, <1>6, <4>1, <5>1 DEF BeganAt
      <4>2. CASE j = N + 1
        <5>1. j \notin 1..N
          BY <1>1, <4>2
        <5> QED BY <1>1, <1>3, <4>2, <5>1 DEF BeganAt
      <4>3. CASE j \notin 1..(N + 1)
        BY <1>3, <4>3 DEF BeganAt
      <4> QED BY <1>3, <4>1, <4>2, <4>3
    <3> QED BY <3>1
  <2> QED BY <1>6, <2>1 DEF N, d2
<1> QED BY <1>5, <1>6

LEMMA BeganFinite ==
    ASSUME NEW ty, NEW d, NEW i \in Nat
    PROVE  /\ IsFiniteSet(BeganAt(ty, d, i)) /\ Cardinality(BeganAt(ty, d, i)) \in Nat
           /\ Cardinality(BeganAt(ty, d, i)) = 0 <=> BeganAt(ty, d, i) = {}
           /\ ParAt(ty, d, i) \in Nat
<1>1. IsFiniteSet(1..i)
  BY FS_Interval
<1>2. BeganAt(ty, d, i) \in SUBSET (1..i)
  BY DEF BeganAt
<1>3. IsFiniteSet(BeganAt(ty, d, i)) /\ Cardinality(BeganAt(ty, d, i)) \in Nat
  BY <1>1, <1>2, FS_Subset, FS_CardinalityType
<1> QED BY <1>3, FS_EmptySet DEF ParAt

\* A page becomes headless by a text on it before any paragraph.
LEMMA HeadlessNext ==
    ASSUME NEW ty, NEW d \in Seq(Node), NEW n \in Node, NEW k
    PROVE  HeadlessAt(ty, Append(d, n), k)
             <=> \/ HeadlessAt(ty, d, k)
                 \/ /\ n.tag = "t" /\ PageAt(ty, Append(d, n), Len(d) + 1) = k
                    /\ BeganAt(ty, Append(d, n), Len(d) + 1) = {}
<1> DEFINE N == Len(d)
           d2 == Append(d, n)
<1>1. /\ N \in Nat /\ d2[N + 1] = n /\ \A j \in 1..N : d2[j] = d[j] /\ j \in 0..N
      /\ Len(d2) = N + 1
  OBVIOUS
<1>2. \A j \in 0..N : PageAt(ty, d2, j) = PageAt(ty, d, j) /\ BeganAt(ty, d2, j) = BeganAt(ty, d, j)
  BY PageStays, BeganStays
<1>3. \A j : j \in 1..(N + 1) <=> j \in 1..N \/ j = N + 1
  BY <1>1
<1> HIDE DEF N, d2
<1>4. HeadlessAt(ty, d2, k)
        <=> \E i \in 1..(N + 1) : d2[i].tag = "t" /\ PageAt(ty, d2, i) = k /\ BeganAt(ty, d2, i) = {}
  BY <1>1 DEF HeadlessAt
<1>5. HeadlessAt(ty, d, k)
        <=> \E i \in 1..N : d[i].tag = "t" /\ PageAt(ty, d, i) = k /\ BeganAt(ty, d, i) = {}
  BY DEF HeadlessAt, N
<1>6. HeadlessAt(ty, d2, k)
        <=> \/ HeadlessAt(ty, d, k)
            \/ n.tag = "t" /\ PageAt(ty, d2, N + 1) = k /\ BeganAt(ty, d2, N + 1) = {}
  BY <1>1, <1>2, <1>3, <1>4, <1>5
<1> QED BY <1>6 DEF N, d2

\* The paragraph of a node does not change when nodes are added.
LEMMA ParStays ==
    ASSUME NEW ty, NEW d \in Seq(Node), NEW n \in Node, NEW i \in 1..Len(d), d[i].tag \in {"p", "t"}
    PROVE  ParAt(ty, Append(d, n), i) = ParAt(ty, d, i)
<1> DEFINE N == Len(d)
           d2 == Append(d, n)
           k == PageAt(ty, d, i)
<1>1. N \in Nat /\ i \in 0..N /\ N \in 0..N /\ \A j \in 1..i : j \in 1..N
  OBVIOUS
<1>2. PageAt(ty, d2, i) = k /\ BeganAt(ty, d2, i) = BeganAt(ty, d, i)
  BY <1>1, PageStays, BeganStays
<1>3. SUFFICES ASSUME HeadlessAt(ty, d2, k), ~HeadlessAt(ty, d, k) PROVE FALSE
  <2>1. HeadlessAt(ty, d, k) => HeadlessAt(ty, d2, k)
    BY HeadlessNext
  <2> HIDE DEF d2, k
  <2>2. (HeadlessAt(ty, d, k) <=> HeadlessAt(ty, d2, k)) => ParAt(ty, d2, i) = ParAt(ty, d, i)
    BY <1>2 DEF ParAt, k
  <2> QED BY <2>1, <2>2 DEF d2
<1>4. n.tag = "t" /\ PageAt(ty, d2, N + 1) = k /\ BeganAt(ty, d2, N + 1) = {}
  BY <1>3, HeadlessNext
<1>5. ~BreakNode(ty, n)
  BY <1>4 DEF BreakNode
<1>6. BeganAt(ty, d, N) = {} /\ PageAt(ty, d, N) = k
  <2>1. PageAt(ty, d, N) \in Nat
    BY <1>1, BreaksFinite
  <2>2. PageAt(ty, d2, N + 1) = PageAt(ty, d, N) + 0
    BY <1>5, PageNext
  <2>3. BeganAt(ty, d2, N + 1)
          = IF BreakNode(ty, n) THEN {}
            ELSE BeganAt(ty, d, N) \cup (IF n.tag = "p" THEN {N + 1} ELSE {})
    BY BeganNext
  <2> HIDE DEF d2, N
  <2>4. BeganAt(ty, d, N) = {}
    BY <1>4, <1>5, <2>3
  <2> QED BY <1>4, <2>1, <2>2, <2>4
<1> HIDE DEF N, d2
<1>7. \A j \in 1..i : ~(d[j].tag = "p" /\ PageAt(ty, d, j) = k)
  BY <1>1, <1>6 DEF BeganAt
<1>8. BeganAt(ty, d, i) = {}
  BY <1>7 DEF BeganAt
<1>9. d[i].tag = "t"
  <2>1. i \in 1..i
    OBVIOUS
  <2> QED BY <1>7, <2>1
<1> QED BY <1>3, <1>8, <1>9 DEF HeadlessAt, N

\* pg is page k of the document as a reader of the XML would have it.
PageIs(ty, d, pg, k) ==
    /\ \A i \in 1..Len(d) : d[i].tag \in {"p", "t"} /\ PageAt(ty, d, i) = k
                               => ParAt(ty, d, i) <= Len(pg)
    /\ Len(pg) # 0 => \E i \in 1..Len(d) : /\ d[i].tag \in {"p", "t"} /\ PageAt(ty, d, i) = k
                                           /\ ParAt(ty, d, i) = Len(pg)
    /\ \A q \in 1..Len(pg) : pg[q] = InOrder(OfPar(ty, d, k, q), Len(d))

\* The paragraphs at the end of the document.
LengthIs(ty, d, l, k) ==
    l = Cardinality(BeganAt(ty, d, Len(d))) + IF HeadlessAt(ty, d, k) THEN 1 ELSE 0

\* The nodes before the one that is added.
LEMMA OldNodes ==
    ASSUME NEW ty, NEW d \in Seq(Node), NEW n \in Node
    PROVE  /\ Len(d) \in Nat /\ Append(d, n)[Len(d) + 1] = n /\ Len(Append(d, n)) = Len(d) + 1
           /\ \A i \in 1..Len(d) : /\ Append(d, n)[i] = d[i]
                                   /\ PageAt(ty, Append(d, n), i) = PageAt(ty, d, i)
                                   /\ d[i].tag \in {"p", "t"} => ParAt(ty, Append(d, n), i) = ParAt(ty, d, i)
           /\ \A i : i \in 1..(Len(d) + 1) <=> i \in 1..Len(d) \/ i = Len(d) + 1
<1>1. /\ Len(d) \in Nat /\ Append(d, n)[Len(d) + 1] = n /\ Len(Append(d, n)) = Len(d) + 1
      /\ \A i \in 1..Len(d) : Append(d, n)[i] = d[i] /\ i \in 0..Len(d)
  OBVIOUS
<1>2. \A i : i \in 1..(Len(d) + 1) <=> i \in 1..Len(d) \/ i = Len(d) + 1
  BY <1>1
<1> QED BY <1>1, <1>2, PageStays, ParStays

LEMMA OrderNext ==
    ASSUME NEW ty, NEW d \in Seq(Node), NEW n \in Node, NEW k, NEW q
    PROVE  InOrder(OfPar(ty, Append(d, n), k, q), Len(d) + 1)
             = IF /\ n.tag = "t" /\ PageAt(ty, Append(d, n), Len(d) + 1) = k
                  /\ ParAt(ty, Append(d, n), Len(d) + 1) = q
               THEN Append(InOrder(OfPar(ty, d, k, q), Len(d)), Len(d) + 1)
               ELSE InOrder(OfPar(ty, d, k, q), Len(d))
<1> DEFINE N == Len(d)
           d2 == Append(d, n)
           S == OfPar(ty, d, k, q)
           T == OfPar(ty, d2, k, q)
<1>1. /\ N \in Nat /\ d2[N + 1] = n /\ Len(d2) = N + 1
      /\ \A i \in 1..N : /\ d2[i] = d[i] /\ PageAt(ty, d2, i) = PageAt(ty, d, i)
                         /\ d[i].tag \in {"p", "t"} => ParAt(ty, d2, i) = ParAt(ty, d, i)
      /\ \A i : i \in 1..(N + 1) <=> i \in 1..N \/ i = N + 1
  BY OldNodes
<1> HIDE DEF d2
<1>2. \A i \in 1..N : i \in T <=> i \in S
  BY <1>1 DEF OfPar
<1>3. N + 1 \in T <=> n.tag = "t" /\ PageAt(ty, d2, N + 1) = k /\ ParAt(ty, d2, N + 1) = q
  BY <1>1 DEF OfPar
<1> HIDE DEF N, S, T
<1>4. InOrder(T, N + 1) = IF N + 1 \in T THEN Append(InOrder(T, N), N + 1) ELSE InOrder(T, N)
  BY <1>1, InOrderMore
<1>5. InOrder(T, N) = InOrder(S, N)
  BY <1>1, <1>2, InOrderAlike
<1> QED BY <1>3, <1>4, <1>5 DEF N, S, T, d2

\* A page that the node does not go to.
LEMMA PageKept ==
    ASSUME NEW ty, NEW d \in Seq(Node), NEW n \in Node, NEW k, NEW pg, PageIs(ty, d, pg, k),
           n.tag \notin {"p", "t"} \/ k # PageAt(ty, Append(d, n), Len(d) + 1)
    PROVE  PageIs(ty, Append(d, n), pg, k)
<1> DEFINE N == Len(d)
           d2 == Append(d, n)
<1>1. /\ N \in Nat /\ d2[N + 1] = n /\ Len(d2) = N + 1
      /\ \A i \in 1..N : /\ d2[i] = d[i] /\ PageAt(ty, d2, i) = PageAt(ty, d, i)
                         /\ d[i].tag \in {"p", "t"} => ParAt(ty, d2, i) = ParAt(ty, d, i)
      /\ \A i : i \in 1..(N + 1) <=> i \in 1..N \/ i = N + 1
  BY OldNodes
<1>2. \A q : InOrder(OfPar(ty, d2, k, q), N + 1) = InOrder(OfPar(ty, d, k, q), N)
  BY OrderNext
<1> HIDE DEF d2
<1>3. \A i \in 1..(N + 1) : d2[i].tag \in {"p", "t"} /\ PageAt(ty, d2, i) = k => i \in 1..N
  BY <1>1 DEF d2
<1>4. \A i \in 1..(N + 1) : d2[i].tag \in {"p", "t"} /\ PageAt(ty, d2, i) = k
                               => ParAt(ty, d2, i) <= Len(pg)
  BY <1>1, <1>3 DEF PageIs
<1>5. Len(pg) # 0 => \E i \in 1..(N + 1) : /\ d2[i].tag \in {"p", "t"} /\ PageAt(ty, d2, i) = k
                                           /\ ParAt(ty, d2, i) = Len(pg)
  BY <1>1 DEF PageIs
<1>6. \A q \in 1..Len(pg) : pg[q] = InOrder(OfPar(ty, d2, k, q), N + 1)
  BY <1>2 DEF PageIs
<1>7. PageIs(ty, d2, pg, k)
  BY <1>1, <1>4, <1>5, <1>6 DEF PageIs
<1> QED BY <1>7 DEF d2

\* A page that a break opens.
LEMMA PageFresh ==
    ASSUME NEW ty, NEW d \in Seq(Node), NEW n \in Node, BreakNode(ty, n)
    PROVE  /\ PageIs(ty, Append(d, n), <<>>, PageAt(ty, Append(d, n), Len(d) + 1))
           /\ LengthIs(ty, Append(d, n), 0, PageAt(ty, Append(d, n), Len(d) + 1))
<1> DEFINE N == Len(d)
           d2 == Append(d, n)
           k == PageAt(ty, d2, N + 1)
<1>1. /\ N \in Nat /\ d2[N + 1] = n /\ Len(d2) = N + 1
      /\ \A i \in 1..N : d2[i] = d[i] /\ PageAt(ty, d2, i) = PageAt(ty, d, i)
      /\ \A i : i \in 1..(N + 1) <=> i \in 1..N \/ i = N + 1
  BY OldNodes
<1>2. n.tag \notin {"p", "t"}
  BY DEF BreakNode
<1>3. \A i \in 1..N : PageAt(ty, d2, i) # k /\ PageAt(ty, d, i) # k
  <2>1. k = PageAt(ty, d, N) + 1 /\ PageAt(ty, d, N) \in Nat
    BY <1>1, PageNext, BreaksFinite
  <2>2. ASSUME NEW i \in 1..N PROVE PageAt(ty, d, i) <= PageAt(ty, d, N) /\ PageAt(ty, d, i) \in Nat
    <3>1. i \in 0..N /\ i \in Nat
      BY <1>1
    <3> QED BY <1>1, <3>1, PagesGrow, BreaksFinite
  <2> HIDE DEF k, d2
  <2> QED BY <1>1, <2>1, <2>2
<1>4. BeganAt(ty, d2, N + 1) = {}
  BY BeganNext
<1>5. ~HeadlessAt(ty, d2, k)
  <2>1. ~HeadlessAt(ty, d, k)
    <3> HIDE DEF k
    <3> QED BY <1>3 DEF HeadlessAt
  <2> HIDE DEF k
  <2> QED BY <1>2, <2>1, HeadlessNext
<1> HIDE DEF d2, k
<1>6. LengthIs(ty, d2, 0, k)
  BY <1>1, <1>4, <1>5, FS_EmptySet DEF LengthIs
<1>7. PageIs(ty, d2, <<>>, k)
  <2>1. Len(<<>>) = 0 /\ 1..0 = {}
    OBVIOUS
  <2> QED BY <1>1, <1>2, <1>3, <2>1 DEF PageIs
<1> QED BY <1>6, <1>7 DEF d2, k

\* The order of no number is empty.
LEMMA InOrderNone ==
    ASSUME NEW n \in Nat, NEW S, \A k \in 1..n : k \notin S
    PROVE  InOrder(S, n) = <<>>
<1> DEFINE T == { m \in 0..n : InOrder(S, m) = <<>> }
<1>1. 0 \in T
  <2>1. InOrder(S, 0) = <<>>
    BY InOrderMore
  <2> QED BY <2>1
<1>2. ASSUME NEW m \in 1..n, m - 1 \in T PROVE m \in T
  <2>1. m - 1 \in Nat /\ (m - 1) + 1 = m /\ m \in 0..n /\ m \notin S
    OBVIOUS
  <2>2. InOrder(S, (m - 1) + 1) = IF (m - 1) + 1 \in S THEN Append(InOrder(S, m - 1), (m - 1) + 1)
                                  ELSE InOrder(S, m - 1)
    BY <2>1, InOrderMore
  <2> QED BY <1>2, <2>1, <2>2
<1> HIDE DEF T
<1>3. \A m \in 0..n : m \in T
  BY <1>1, <1>2, UpTo
<1>4. n \in T
  BY <1>3
<1> QED BY <1>4 DEF T

\* A paragraph on the last page.
LEMMA PageParagraph ==
    ASSUME NEW ty, NEW d \in Seq(Node), NEW n \in Node, n.tag = "p",
           NEW k, k = PageAt(ty, d, Len(d)), NEW pg \in Seq(Seq(Nat)),
           PageIs(ty, d, pg, k), LengthIs(ty, d, Len(pg), k)
    PROVE  /\ PageIs(ty, Append(d, n), Append(pg, <<>>), k)
           /\ LengthIs(ty, Append(d, n), Len(pg) + 1, k)
<1> DEFINE N == Len(d)
           d2 == Append(d, n)
           l == Len(pg)
           pg2 == Append(pg, <<>>)
<1>1. /\ N \in Nat /\ d2[N + 1] = n /\ Len(d2) = N + 1
      /\ \A i \in 1..N : /\ d2[i] = d[i] /\ PageAt(ty, d2, i) = PageAt(ty, d, i)
                         /\ d[i].tag \in {"p", "t"} => ParAt(ty, d2, i) = ParAt(ty, d, i)
      /\ \A i : i \in 1..(N + 1) <=> i \in 1..N \/ i = N + 1
  BY OldNodes
<1>2. ~BreakNode(ty, n) /\ PageAt(ty, d2, N + 1) = k
  <2>1. ~BreakNode(ty, n)
    BY DEF BreakNode
  <2>2. PageAt(ty, d2, N + 1) = PageAt(ty, d, N) + 0 /\ PageAt(ty, d, N) \in Nat
    BY <1>1, <2>1, PageNext, BreaksFinite
  <2> QED BY <2>1, <2>2
<1>3. /\ l \in Nat /\ pg2 \in Seq(Seq(Nat)) /\ Len(pg2) = l + 1 /\ pg2[l + 1] = <<>>
      /\ \A q \in 1..l : pg2[q] = pg[q]
  <2>1. <<>> \in Seq(Nat)
    OBVIOUS
  <2> QED BY <2>1, AppendProperties
<1>4. Cardinality(BeganAt(ty, d2, N + 1)) = Cardinality(BeganAt(ty, d, N)) + 1
  <2>1. BeganAt(ty, d2, N + 1) = BeganAt(ty, d, N) \cup {N + 1}
    BY <1>2, BeganNext
  <2>2. N + 1 \notin BeganAt(ty, d, N)
    BY <1>1 DEF BeganAt
  <2>3. IsFiniteSet(BeganAt(ty, d, N))
    BY <1>1, BeganFinite
  <2> QED BY <2>1, <2>2, <2>3, FS_AddElement
<1>5. HeadlessAt(ty, d2, k) <=> HeadlessAt(ty, d, k)
  BY HeadlessNext
<1>6. Cardinality(BeganAt(ty, d, N)) \in Nat
  BY <1>1, BeganFinite
<1> HIDE DEF d2, pg2, l
<1>7. LengthIs(ty, d2, l + 1, k)
  BY <1>1, <1>4, <1>5, <1>6 DEF LengthIs, l
<1>8. ParAt(ty, d2, N + 1) = l + 1
  BY <1>1, <1>2, <1>4, <1>5, <1>6 DEF ParAt, LengthIs, l
<1>9. \A i \in 1..(N + 1) : d2[i].tag \in {"p", "t"} /\ PageAt(ty, d2, i) = k
                               => ParAt(ty, d2, i) <= l + 1
  <2>1. ASSUME NEW i \in 1..N, d[i].tag \in {"p", "t"}, PageAt(ty, d, i) = k
        PROVE  ParAt(ty, d, i) <= l + 1
    <3>1. ParAt(ty, d, i) <= l
      BY <2>1 DEF PageIs, l
    <3>2. i \in Nat
      OBVIOUS
    <3>3. ParAt(ty, d, i) \in Nat
      BY <3>2, BeganFinite
    <3> QED BY <1>3, <3>1, <3>3
  <2>2. ASSUME NEW i \in 1..(N + 1), d2[i].tag \in {"p", "t"}, PageAt(ty, d2, i) = k
        PROVE  ParAt(ty, d2, i) <= l + 1
    <3>1. CASE i \in 1..N
      BY <1>1, <2>1, <2>2, <3>1
    <3>2. CASE i = N + 1
      BY <1>3, <1>8, <3>2
    <3> QED BY <1>1, <3>1, <3>2
  <2> QED BY <2>2
<1>10. \E i \in 1..(N + 1) : /\ d2[i].tag \in {"p", "t"} /\ PageAt(ty, d2, i) = k
                             /\ ParAt(ty, d2, i) = l + 1
  BY <1>1, <1>2, <1>8
<1>11. ASSUME NEW q \in 1..(l + 1) PROVE pg2[q] = InOrder(OfPar(ty, d2, k, q), N + 1)
  <2>1. InOrder(OfPar(ty, d2, k, q), N + 1) = InOrder(OfPar(ty, d, k, q), N)
    BY OrderNext DEF d2
  <2>2. CASE q \in 1..l
    BY <1>3, <2>1, <2>2 DEF PageIs, l
  <2>3. CASE q = l + 1
    <3>1. \A i \in 1..N : i \notin OfPar(ty, d, k, q)
      BY <1>3, <2>3 DEF OfPar, PageIs, l
    <3>2. InOrder(OfPar(ty, d, k, q), N) = <<>>
      BY <1>1, <3>1, InOrderNone
    <3> QED BY <1>3, <2>1, <2>3, <3>2
  <2> QED BY <1>3, <2>2, <2>3
<1>12. PageIs(ty, d2, pg2, k)
  BY <1>1, <1>3, <1>9, <1>10, <1>11 DEF PageIs
<1> QED BY <1>7, <1>12 DEF d2, pg2, l

\* A text at the end of a page: of its last paragraph, or of a new one.
TextEnds(pg, pg2, t) ==
    /\ Len(pg2) = IF Len(pg) = 0 THEN 1 ELSE Len(pg)
    /\ pg2[Len(pg2)] = IF Len(pg) = 0 THEN <<t>> ELSE Append(pg[Len(pg)], t)
    /\ \A q \in 1..Len(pg) : q # Len(pg) => pg2[q] = pg[q]

LEMMA PageText ==
    ASSUME NEW ty, NEW d \in Seq(Node), NEW n \in Node, n.tag = "t",
           NEW k, k = PageAt(ty, d, Len(d)), NEW pg \in Seq(Seq(Nat)),
           PageIs(ty, d, pg, k), LengthIs(ty, d, Len(pg), k),
           NEW pg2, TextEnds(pg, pg2, Len(d) + 1)
    PROVE  /\ PageIs(ty, Append(d, n), pg2, k)
           /\ LengthIs(ty, Append(d, n), Len(pg2), k)
<1> DEFINE N == Len(d)
           d2 == Append(d, n)
           l == Len(pg)
           m == IF l = 0 THEN 1 ELSE l
<1>1. /\ N \in Nat /\ d2[N + 1] = n /\ Len(d2) = N + 1
      /\ \A i \in 1..N : /\ d2[i] = d[i] /\ PageAt(ty, d2, i) = PageAt(ty, d, i)
                         /\ d[i].tag \in {"p", "t"} => ParAt(ty, d2, i) = ParAt(ty, d, i)
      /\ \A i : i \in 1..(N + 1) <=> i \in 1..N \/ i = N + 1
  BY OldNodes
<1>2. ~BreakNode(ty, n) /\ PageAt(ty, d2, N + 1) = k
  <2>1. ~BreakNode(ty, n)
    BY DEF BreakNode
  <2>2. PageAt(ty, d2, N + 1) = PageAt(ty, d, N) + 0 /\ PageAt(ty, d, N) \in Nat
    BY <1>1, <2>1, PageNext, BreaksFinite
  <2> QED BY <2>1, <2>2
<1>3. l \in Nat /\ m \in Nat /\ l <= m /\ 1 <= m /\ Len(pg2) = m
      /\ pg2[m] = (IF l = 0 THEN <<N + 1>> ELSE Append(pg[l], N + 1))
      /\ \A q \in 1..l : q # l => pg2[q] = pg[q]
  BY DEF TextEnds
<1>4. BeganAt(ty, d2, N + 1) = BeganAt(ty, d, N)
  BY <1>2, BeganNext
<1>5. HeadlessAt(ty, d2, k) <=> HeadlessAt(ty, d, k) \/ BeganAt(ty, d, N) = {}
  BY <1>2, <1>4, HeadlessNext
<1>6. /\ Cardinality(BeganAt(ty, d, N)) \in Nat
      /\ Cardinality(BeganAt(ty, d, N)) = 0 <=> BeganAt(ty, d, N) = {}
  BY <1>1, BeganFinite
<1>7. l = Cardinality(BeganAt(ty, d, N)) + IF HeadlessAt(ty, d, k) THEN 1 ELSE 0
  BY DEF LengthIs
<1> HIDE DEF d2, l
<1>8. m = Cardinality(BeganAt(ty, d2, N + 1)) + IF HeadlessAt(ty, d2, k) THEN 1 ELSE 0
  <2> HIDE DEF N
  <2>1. CASE BeganAt(ty, d, N) = {}
    <3>1. HeadlessAt(ty, d2, k) /\ Cardinality(BeganAt(ty, d2, N + 1)) = 0
      BY <1>4, <1>5, <1>6, <2>1
    <3>2. l \in {0, 1}
      BY <1>6, <1>7, <2>1
    <3> QED BY <3>1, <3>2
  <2>2. CASE BeganAt(ty, d, N) # {}
    BY <1>3, <1>4, <1>5, <1>6, <1>7, <2>2
  <2> QED BY <2>1, <2>2
<1> HIDE DEF m
<1>9. LengthIs(ty, d2, m, k) /\ ParAt(ty, d2, N + 1) = m
  BY <1>1, <1>2, <1>8 DEF LengthIs, ParAt
<1>10. \A i \in 1..N : d[i].tag \in {"p", "t"} /\ PageAt(ty, d, i) = k
                          => ParAt(ty, d, i) <= l /\ ParAt(ty, d, i) \in Nat
  <2>1. \A i \in 1..N : i \in Nat
    OBVIOUS
  <2>2. \A i \in 1..N : ParAt(ty, d, i) \in Nat
    BY <2>1, BeganFinite
  <2> QED BY <2>2 DEF PageIs, l
<1>11. \A i \in 1..(N + 1) : d2[i].tag \in {"p", "t"} /\ PageAt(ty, d2, i) = k
                                => ParAt(ty, d2, i) <= m
  <2> SUFFICES ASSUME NEW i \in 1..(N + 1), d2[i].tag \in {"p", "t"}, PageAt(ty, d2, i) = k
               PROVE  ParAt(ty, d2, i) <= m
    OBVIOUS
  <2>1. CASE i \in 1..N
    BY <1>1, <1>3, <1>10, <2>1
  <2>2. CASE i = N + 1
    BY <1>3, <1>9, <2>2
  <2> QED BY <1>1, <2>1, <2>2
<1>12. \E i \in 1..(N + 1) : /\ d2[i].tag \in {"p", "t"} /\ PageAt(ty, d2, i) = k
                             /\ ParAt(ty, d2, i) = m
  BY <1>1, <1>2, <1>9
<1>13. ASSUME NEW q \in 1..m PROVE pg2[q] = InOrder(OfPar(ty, d2, k, q), N + 1)
  <2>1. InOrder(OfPar(ty, d2, k, q), N + 1)
          = IF q = m THEN Append(InOrder(OfPar(ty, d, k, q), N), N + 1)
            ELSE InOrder(OfPar(ty, d, k, q), N)
    BY <1>2, <1>9, OrderNext DEF d2
  <2>2. CASE q # m
    <3>1. q \in 1..l /\ q # l
      BY <1>3, <2>2 DEF m
    <3> QED BY <1>3, <2>1, <2>2, <3>1 DEF PageIs, l
  <2>3. CASE q = m /\ l # 0
    <3>1. q = l /\ q \in 1..l
      BY <1>3, <2>3 DEF m
    <3>2. pg[l] = InOrder(OfPar(ty, d, k, q), N)
      BY <3>1 DEF PageIs, l
    <3> QED BY <1>3, <2>1, <2>3, <3>2
  <2>4. CASE q = m /\ l = 0
    <3>1. \A i \in 1..N : i \notin OfPar(ty, d, k, q)
      BY <1>3, <1>10, <2>4 DEF OfPar
    <3>2. InOrder(OfPar(ty, d, k, q), N) = <<>>
      BY <1>1, <3>1, InOrderNone
    <3>3. Append(<<>>, N + 1) = <<N + 1>>
      OBVIOUS
    <3> QED BY <1>3, <2>1, <2>4, <3>2, <3>3
  <2> QED BY <2>2, <2>3, <2>4
<1>14. PageIs(ty, d2, pg2, k)
  BY <1>1, <1>3, <1>11, <1>12, <1>13 DEF PageIs
<1> QED BY <1>3, <1>9, <1>14 DEF d2

LEMMA PutEnds ==
    ASSUME NEW ps \in Pages, NEW at \in 1..Len(ps), NEW t \in Nat, NEW ps2, Put(ps, ps2, at, t)
    PROVE  TextEnds(ps[at], ps2[at], t)
<1> DEFINE pg == ps[at]
<1>1. pg \in Seq(Seq(Nat)) /\ Len(pg) \in Nat /\ DOMAIN pg = 1..Len(pg)
  BY DEF Pages
<1>2. CASE pg = <<>>
  <2>1. ps2[at] = <<<<t>>>>
    BY <1>2 DEF Put, PutAt
  <2>2. Len(<<<<t>>>>) = 1 /\ <<<<t>>>>[1] = <<t>> /\ Len(<<>>) = 0 /\ 1..0 = {}
    OBVIOUS
  <2> QED BY <1>2, <2>1, <2>2 DEF TextEnds
<1>3. CASE pg # <<>>
  <2>1. ps2[at] = [pg EXCEPT ![Len(pg)] = Append(pg[Len(pg)], t)]
    BY <1>3 DEF Put, PutAt
  <2>2. Len(pg) # 0 /\ Len(pg) \in 1..Len(pg) /\ pg[Len(pg)] \in Seq(Nat)
    BY <1>1, <1>3
  <2>3. Append(pg[Len(pg)], t) \in Seq(Nat)
    BY <2>2
  <2> HIDE DEF pg
  <2>4. Len(ps2[at]) = Len(pg)
    BY <1>1, <2>1, <2>2, <2>3, ExceptSeq
  <2>5. /\ ps2[at][Len(pg)] = Append(pg[Len(pg)], t)
        /\ \A q \in 1..Len(pg) : q # Len(pg) => ps2[at][q] = pg[q]
    BY <1>1, <2>1, <2>2
  <2>6. TextEnds(pg, ps2[at], t)
    BY <2>2, <2>4, <2>5 DEF TextEnds
  <2> QED BY <2>6 DEF pg
<1> QED BY <1>2, <1>3

-----------------------------------------------------------------------------
\* The pages as a reader would have them.

\* No text is exposed.
Calm == \A i \in Texts : ~StaleAt(type, doc, doc[i].depth, i - 1)

\* A pointer to the last page points into the buffer of today.
FreshFrames == \A f \in 1..Len(frames) : frames[f][1] = Len(pages) => frames[f][2] = generation

AsRead ==
    /\ \A k \in 1..Len(pages) : PageIs(type, doc, pages[k], k)
    /\ Len(pages) # 0 => LengthIs(type, doc, Len(pages[Len(pages)]), Len(pages))

ReaderInv ==
    /\ stage = "walk" => FreshFrames
    /\ stage = "failed" => doc = <<>> /\ pages = <<>>
    /\ type \in {"docx", "pptx"} /\ Calm => stage # "undefined" /\ (Walking => AsRead)

LEMMA CalmBefore ==
    ASSUME TreeInv, NEW n \in Node, doc' = Append(doc, n), type' = type, Calm'
    PROVE  Calm /\ (n.tag = "t" => ~StaleAt(type, doc, n.depth, Len(doc)))
<1>1. /\ doc \in Seq(Node) /\ Len(doc) \in Nat /\ doc'[Len(doc) + 1] = n
      /\ \A i \in 1..Len(doc) : doc'[i] = doc[i]
      /\ (Len(doc) + 1) - 1 = Len(doc) /\ Len(doc) \in 0..Len(doc)
  BY DEF TreeInv
<1>2. Texts' = Texts \cup (IF n.tag = "t" THEN {Len(doc) + 1} ELSE {})
  BY <1>1, TextsMore
<1>3. ASSUME NEW i \in Texts PROVE ~StaleAt(type, doc, doc[i].depth, i - 1)
  <2>1. i \in 1..Len(doc) /\ i - 1 \in 0..Len(doc)
    BY <1>1 DEF Texts
  <2>2. ~StaleAt(type, doc', doc'[i].depth, i - 1)
    BY <1>2 DEF Calm
  <2> QED BY <1>1, <2>1, <2>2, StaleStays
<1>4. ASSUME n.tag = "t" PROVE ~StaleAt(type, doc, n.depth, Len(doc))
  <2>1. ~StaleAt(type, doc', n.depth, Len(doc))
    BY <1>1, <1>2, <1>4 DEF Calm
  <2> QED BY <1>1, <2>1, StaleStays
<1> QED BY <1>3, <1>4 DEF Calm

\* The frames of a step: the ones around the node keep their pointers.
LEMMA FreshStep ==
    ASSUME StageInv, TreeInv, FreshFrames, NEW n \in Node, Visit(n), NEW b, Walked(n, b),
           \/ Len(pages') = Len(pages) /\ generation' = generation
           \/ Len(pages') = Len(pages) + 1,
           b[1] = Len(pages') => b[2] = generation'
    PROVE  FreshFrames'
<1> SUFFICES ASSUME NEW f \in 1..Len(frames'), frames'[f][1] = Len(pages')
             PROVE  frames'[f][2] = generation'
  BY DEF FreshFrames
<1>1. Len(frames) \in Nat /\ n.depth \in 1..(Len(frames) + 1) /\ Len(pages) \in Nat
      /\ frames \in Seq(Pointer)
  BY Visited DEF TreeInv
<1>2. f \in 1..n.depth
  BY DEF Walked
<1>3. CASE f = n.depth
  BY <1>3 DEF Walked
<1>4. CASE f # n.depth
  <2>1. f \in 1..(n.depth - 1) /\ f \in 1..Len(frames)
    BY <1>1, <1>2, <1>4
  <2>2. frames'[f] = frames[f] /\ frames[f][1] <= Len(pages)
    BY <2>1 DEF Walked, TreeInv
  <2>3. Len(pages') = Len(pages) /\ generation' = generation
    BY <1>1, <2>2
  <2> QED BY <2>1, <2>2, <2>3 DEF FreshFrames
<1> QED BY <1>3, <1>4

\* The pointer of a frame that is entered or returned to.
LEMMA FreshPointer ==
    ASSUME StageInv, TreeInv, FreshFrames, NEW n \in Node, Visit(n)
    PROVE  Pointing(n.depth)[1] = Len(pages) => Pointing(n.depth)[2] = generation
<1>1. /\ Pointing(n.depth) = IF n.depth > Len(frames) THEN Back ELSE frames[n.depth]
      /\ n.depth \in 1..(Len(frames) + 1) /\ Len(frames) \in Nat
  BY Visited DEF Pointing, TreeInv
<1>2. CASE n.depth > Len(frames)
  BY <1>1, <1>2 DEF Back
<1>3. CASE ~(n.depth > Len(frames))
  <2>1. n.depth \in 1..Len(frames) /\ Pointing(n.depth) = frames[n.depth]
    BY <1>1, <1>3
  <2> QED BY <2>1 DEF FreshFrames
<1> QED BY <1>2, <1>3

LEMMA ReaderBreak ==
    ASSUME StageInv, TreeInv, KeptInv, ReaderInv, NEW n \in Node, BreakPage(n) PROVE ReaderInv'
<1> DEFINE b == <<Len(pages) + 1, generation'>>
           K == Len(pages)
<1>1. /\ Visit(n) /\ PushPage /\ n.tag \in {"br", "sect"} /\ type = "docx" /\ stage' = stage
      /\ frames' = [FramesAt(n.depth) EXCEPT ![n.depth] = b]
  BY DEF BreakPage
<1>2. /\ K \in Nat /\ Len(pages') = K + 1 /\ generation' \in Nat /\ pages'[K + 1] = <<>>
      /\ \A k \in 1..K : pages'[k] = pages[k]
  BY <1>1, PagePushed
<1>3. b \in Pointer /\ b[1] = Len(pages') /\ b[2] = generation'
  BY <1>2 DEF Pointer
<1> HIDE DEF b
<1>4. /\ stage = "walk" /\ type' = type /\ doc' = Append(doc, n) /\ Len(doc') = Len(doc) + 1
      /\ doc \in Seq(Node) /\ Walked(n, b)
  BY <1>1, <1>3, FrameSet, Visited DEF Visit, TreeInv
<1>5. BreakNode(type, n) /\ n.tag \notin {"p", "t"}
  BY <1>1 DEF BreakNode
<1>6. FreshFrames'
  BY <1>1, <1>2, <1>3, <1>4, FreshStep DEF ReaderInv
<1>7. ASSUME Calm' PROVE AsRead'
  <2>1. AsRead /\ PageCount
    BY <1>1, <1>4, <1>7, CalmBefore DEF ReaderInv, Walking, KeptInv
  <2>2. PageAt(type, doc', Len(doc) + 1) = K + 1
    BY <1>2, <1>4, <1>5, <2>1, PageNext DEF PageCount
  <2>3. PageIs(type, doc', <<>>, K + 1) /\ LengthIs(type, doc', 0, K + 1)
    BY <1>4, <1>5, <2>2, PageFresh
  <2>4. ASSUME NEW k \in 1..K PROVE PageIs(type, doc', pages[k], k)
    BY <1>4, <1>5, <2>1, <2>4, PageKept DEF AsRead
  <2>5. \A k \in 1..(K + 1) : k \in 1..K \/ k = K + 1
    BY <1>2
  <2>6. Len(<<>>) = 0
    OBVIOUS
  <2> HIDE DEF K
  <2> QED BY <1>2, <1>4, <2>3, <2>4, <2>5, <2>6 DEF AsRead
<1> QED BY <1>1, <1>4, <1>6, <1>7 DEF ReaderInv

LEMMA ReaderParagraph ==
    ASSUME StageInv, TreeInv, KeptInv, ReaderInv, NEW n \in Node, BeginParagraph(n)
    PROVE  ReaderInv'
<1> DEFINE K == Len(pages)
<1>1. /\ Visit(n) /\ n.tag = "p" /\ stage' = stage /\ generation' = generation
      /\ frames' = [FramesAt(n.depth) EXCEPT ![n.depth] = Back]
  BY DEF BeginParagraph
<1>2. /\ Len(pages') = K /\ K \in Nat /\ 1 <= K /\ K \in 1..K
      /\ pages'[K] = Append(pages[K], <<>>)
      /\ \A k \in 1..K : k # K => pages'[k] = pages[k]
      /\ pages[K] \in Seq(Seq(Nat))
  <2>1. K \in Nat /\ 1 <= K
    BY <1>1, Visited
  <2>2. K \in 1..K /\ pages[K] \in Seq(Seq(Nat))
    BY <2>1 DEF TreeInv
  <2> QED BY <2>1, <2>2, ParagraphBegun
<1>3. Back \in Pointer /\ Back[1] = Len(pages') /\ Back[2] = generation'
  BY <1>1, <1>2 DEF Back, Pointer, TreeInv
<1>4. /\ stage = "walk" /\ type' = type /\ doc' = Append(doc, n) /\ Len(doc') = Len(doc) + 1
      /\ doc \in Seq(Node) /\ Walked(n, Back)
  BY <1>1, <1>3, FrameSet, Visited DEF Visit, TreeInv
<1>5. ~BreakNode(type, n)
  BY <1>1 DEF BreakNode
<1>6. FreshFrames'
  BY <1>1, <1>2, <1>3, <1>4, FreshStep DEF ReaderInv
<1>7. ASSUME Calm', type \in {"docx", "pptx"} PROVE AsRead'
  <2>1. AsRead /\ PageCount
    BY <1>1, <1>4, <1>7, CalmBefore DEF ReaderInv, Walking, KeptInv
  <2>2. PageAt(type, doc, Len(doc)) = K /\ PageAt(type, doc', Len(doc) + 1) = K
    BY <1>2, <1>4, <1>5, <2>1, PageNext DEF PageCount
  <2>3. PageIs(type, doc, pages[K], K) /\ LengthIs(type, doc, Len(pages[K]), K)
    BY <1>2, <2>1 DEF AsRead
  <2>4. PageIs(type, doc', pages'[K], K) /\ LengthIs(type, doc', Len(pages[K]) + 1, K)
    BY <1>1, <1>2, <1>4, <2>2, <2>3, PageParagraph
  <2>5. Len(pages'[K]) = Len(pages[K]) + 1
    <3>1. <<>> \in Seq(Nat)
      OBVIOUS
    <3> QED BY <1>2, <3>1, AppendProperties
  <2>6. ASSUME NEW k \in 1..K, k # K PROVE PageIs(type, doc', pages[k], k)
    BY <1>4, <2>1, <2>2, <2>6, PageKept DEF AsRead
  <2> HIDE DEF K
  <2> QED BY <1>2, <1>4, <2>4, <2>5, <2>6 DEF AsRead
<1> QED BY <1>1, <1>4, <1>6, <1>7 DEF ReaderInv

LEMMA ReaderPass ==
    ASSUME StageInv, TreeInv, KeptInv, ReaderInv, NEW n \in Node, PassThrough(n)
    PROVE  ReaderInv'
<1> DEFINE K == Len(pages)
           b == Pointing(n.depth)
<1>1. /\ Visit(n) /\ n.tag \notin {"p", "t"} /\ stage' = stage /\ pages' = pages
      /\ generation' = generation /\ frames' = FramesAt(n.depth)
      /\ n.tag \in {"r", "box"} \/ (type = "pptx" /\ n.tag \in {"br", "sect"})
  BY DEF PassThrough
<1>2. /\ Walked(n, b) /\ stage = "walk" /\ type' = type /\ doc' = Append(doc, n)
      /\ Len(doc') = Len(doc) + 1 /\ doc \in Seq(Node)
  BY <1>1, FrameKept, Visited DEF Visit, TreeInv
<1>3. ~BreakNode(type, n)
  BY <1>1 DEF BreakNode
<1>4. FreshFrames'
  <2>1. b[1] = Len(pages) => b[2] = generation
    BY <1>1, <1>2, FreshPointer DEF ReaderInv
  <2> HIDE DEF b
  <2> QED BY <1>1, <1>2, <2>1, FreshStep DEF ReaderInv
<1>5. ASSUME Calm', type \in {"docx", "pptx"} PROVE AsRead'
  <2>1. AsRead
    BY <1>1, <1>2, <1>5, CalmBefore DEF ReaderInv, Walking
  <2>2. ASSUME NEW k \in 1..K PROVE PageIs(type, doc', pages[k], k)
    BY <1>1, <1>2, <2>1, PageKept DEF AsRead
  <2>3. ASSUME NEW l, LengthIs(type, doc, l, K) PROVE LengthIs(type, doc', l, K)
    <3>1. BeganAt(type, doc', Len(doc) + 1) = BeganAt(type, doc, Len(doc))
      <4>1. n.tag # "p"
        BY <1>1
      <4> QED BY <1>2, <1>3, <4>1, BeganNext
    <3>2. HeadlessAt(type, doc', K) <=> HeadlessAt(type, doc, K)
      BY <1>1, <1>2, HeadlessNext
    <3> QED BY <1>2, <2>3, <3>1, <3>2 DEF LengthIs
  <2> HIDE DEF K
  <2> QED BY <1>1, <1>2, <2>1, <2>2, <2>3 DEF AsRead, K
<1> QED BY <1>1, <1>2, <1>4, <1>5 DEF ReaderInv

\* Unless the text is exposed, its frame points to the last page.
LEMMA ReaderText ==
    ASSUME StageInv, TreeInv, KeptInv, ReaderInv, NEW n \in Node, AddText(n) PROVE ReaderInv'
<1> DEFINE K == Len(pages)
           b == Pointing(n.depth)
           new == Len(doc) + 1
<1>1. /\ Visit(n) /\ n.tag = "t" /\ generation' = generation /\ frames' = FramesAt(n.depth)
      /\ stage' \in {stage, "undefined"}
      /\ stage' # stage => b[2] # generation
  <2>1. Visit(n) /\ n.tag = "t" /\ generation' = generation /\ frames' = FramesAt(n.depth)
    BY DEF AddText
  <2>2. stage' = stage \/ (b[2] # generation /\ stage' = "undefined")
    BY DEF AddText, Pointing
  <2> QED BY <2>1, <2>2
<1>2. /\ Walked(n, b) /\ stage = "walk" /\ type' = type /\ doc' = Append(doc, n)
      /\ Len(doc') = new /\ doc \in Seq(Node) /\ Len(doc) \in Nat /\ K \in Nat
      /\ Pointing(n.depth) = (IF n.depth > Len(frames) THEN Back ELSE frames[n.depth])
      /\ n.depth \in 1..(Len(frames) + 1)
  <2>1. Walked(n, b)
    BY <1>1, FrameKept
  <2>2. /\ Pointing(n.depth) = (IF n.depth > Len(frames) THEN Back ELSE frames[n.depth])
        /\ n.depth \in 1..(Len(frames) + 1)
    BY <1>1, Visited DEF Pointing
  <2>3. stage = "walk" /\ doc' = Append(doc, n) /\ Len(doc') = new /\ K \in Nat
    BY <1>1, Visited
  <2> QED BY <1>1, <2>1, <2>2, <2>3 DEF Visit, TreeInv
<1>3. FreshFrames /\ (b[1] = K => b[2] = generation)
  <2>1. FreshFrames
    BY <1>2 DEF ReaderInv
  <2> QED BY <1>1, <2>1, FreshPointer
<1>4. stage' = "walk" => FreshFrames'
  <2> SUFFICES ASSUME stage' = "walk" PROVE FreshFrames'
    OBVIOUS
  <2>1. Len(pages') = Len(pages)
    <3>1. Put(pages, pages', b[1], Len(doc) + 1)
      BY TextAdded
    <3> QED BY <3>1 DEF Put, PutAt
  <2> HIDE DEF b, K
  <2> QED BY <1>1, <1>2, <1>3, <2>1, FreshStep DEF K
<1>5. ASSUME Calm' PROVE stage' = stage /\ b[1] = K /\ Calm
  <2>1. Calm /\ ~StaleAt(type, doc, n.depth, Len(doc))
    BY <1>1, <1>2, <1>5, CalmBefore DEF TreeInv
  <2>2. b[1] = K
    <3>1. CASE n.depth > Len(frames)
      BY <1>2, <3>1 DEF Back
    <3>2. CASE ~(n.depth > Len(frames))
      <4>1. n.depth \in 1..Len(frames) /\ b = frames[n.depth]
        BY <1>2, <3>2 DEF TreeInv
      <4>2. ~(frames[n.depth][1] < K)
        BY <1>2, <2>1, <4>1 DEF KeptInv, Walking, StageInv, StaleFrames
      <4>3. frames[n.depth] \in Pointer /\ frames[n.depth][1] <= K
        BY <4>1 DEF TreeInv
      <4>4. frames[n.depth][1] \in Nat
        BY <4>3 DEF Pointer
      <4>5. frames[n.depth][1] = K
        BY <1>2, <4>2, <4>3, <4>4
      <4> QED BY <4>1, <4>5
    <3> QED BY <3>1, <3>2
  <2> HIDE DEF b
  <2> QED BY <1>1, <1>3, <2>1, <2>2
<1>6. ASSUME Calm', type \in {"docx", "pptx"} PROVE AsRead'
  <2>1. AsRead /\ PageCount
    BY <1>2, <1>5, <1>6 DEF ReaderInv, Walking, KeptInv
  <2>2. K \in 1..K /\ Put(pages, pages', K, new)
    <3>1. stage' # "undefined"
      BY <1>2, <1>5, <1>6
    <3>2. Pointing(n.depth)[1] \in 1..Len(pages) /\ Put(pages, pages', Pointing(n.depth)[1], Len(doc) + 1)
      BY <3>1, TextAdded
    <3> QED BY <1>5, <1>6, <3>2
  <2>3. /\ Len(pages') = K /\ pages[K] \in Seq(Seq(Nat))
        /\ \A k \in 1..K : k # K => pages'[k] = pages[k]
    BY <2>2 DEF Put, PutAt, TreeInv
  <2>4. ~BreakNode(type, n)
    BY <1>1 DEF BreakNode
  <2>5. PageAt(type, doc, Len(doc)) = K /\ PageAt(type, doc', Len(doc) + 1) = K
    BY <1>2, <2>1, <2>4, PageNext DEF PageCount
  <2>6. PageIs(type, doc, pages[K], K) /\ LengthIs(type, doc, Len(pages[K]), K)
    BY <1>2, <2>1, <2>2 DEF AsRead
  <2>7. TextEnds(pages[K], pages'[K], Len(doc) + 1)
    <3>1. pages \in Pages /\ Len(doc) + 1 \in Nat
      BY <1>2 DEF TreeInv, Pages
    <3> QED BY <2>2, <3>1, PutEnds
  <2>8. PageIs(type, doc', pages'[K], K) /\ LengthIs(type, doc', Len(pages'[K]), K)
    BY <1>1, <1>2, <2>3, <2>5, <2>6, <2>7, PageText
  <2>9. ASSUME NEW k \in 1..K, k # K PROVE PageIs(type, doc', pages[k], k)
    BY <1>2, <2>1, <2>5, <2>9, PageKept DEF AsRead
  <2> HIDE DEF K
  <2> QED BY <1>2, <2>2, <2>3, <2>8, <2>9 DEF AsRead
<1>7. type' \in {"docx", "pptx"} /\ Calm' => stage' # "undefined" /\ (Walking' => AsRead')
  BY <1>2, <1>5, <1>6
<1>8. stage' # "failed"
  BY <1>1, <1>2
<1> QED BY <1>4, <1>7, <1>8 DEF ReaderInv

LEMMA ReaderSlide == ASSUME StageInv, TreeInv, KeptInv, ReaderInv, OpenSlide PROVE ReaderInv'
<1> DEFINE n == [tag |-> "slide", depth |-> 0]
           K == Len(pages)
<1>1. /\ PushPage /\ type = "pptx" /\ stage = "walk" /\ stage' = stage /\ type' = type
      /\ doc' = Append(doc, n) /\ frames' = <<>>
  BY DEF OpenSlide
<1>2. n \in Node /\ n.tag = "slide"
  BY BoundAssumption DEF Node
<1> HIDE DEF n
<1>3. /\ K \in Nat /\ Len(pages') = K + 1 /\ pages'[K + 1] = <<>>
      /\ \A k \in 1..K : pages'[k] = pages[k]
      /\ doc \in Seq(Node) /\ Len(doc') = Len(doc) + 1
  BY <1>1, <1>2, PagePushed DEF TreeInv
<1>4. BreakNode(type, n) /\ n.tag \notin {"p", "t"}
  BY <1>1, <1>2 DEF BreakNode
<1>5. FreshFrames'
  <2>1. Len(<<>>) = 0 /\ 1..0 = {}
    OBVIOUS
  <2> QED BY <1>1, <2>1 DEF FreshFrames
<1>6. ASSUME Calm' PROVE AsRead'
  <2>1. AsRead /\ PageCount
    BY <1>1, <1>2, <1>6, CalmBefore DEF ReaderInv, Walking, KeptInv
  <2>2. PageAt(type, doc', Len(doc) + 1) = K + 1
    BY <1>1, <1>2, <1>3, <1>4, <2>1, PageNext DEF PageCount
  <2>3. PageIs(type, doc', <<>>, K + 1) /\ LengthIs(type, doc', 0, K + 1)
    BY <1>1, <1>2, <1>3, <1>4, <2>2, PageFresh
  <2>4. ASSUME NEW k \in 1..K PROVE PageIs(type, doc', pages[k], k)
    BY <1>1, <1>2, <1>3, <1>4, <2>1, <2>4, PageKept DEF AsRead
  <2>5. \A k \in 1..(K + 1) : k \in 1..K \/ k = K + 1
    BY <1>3
  <2>6. Len(<<>>) = 0
    OBVIOUS
  <2> HIDE DEF K
  <2> QED BY <1>1, <1>3, <2>3, <2>4, <2>5, <2>6 DEF AsRead
<1> QED BY <1>1, <1>5, <1>6 DEF ReaderInv

LEMMA ReaderFound == ASSUME StageInv, TreeInv, ReaderInv, FindPart PROVE ReaderInv'
<1>1. /\ stage = "find" /\ doc = <<>> /\ doc' = doc /\ frames = <<>> /\ frames' = frames /\ pages = <<>>
  BY DEF FindPart, StageInv
<1>2. StageInv'
  <2>1. [WalkNext]_walkVars
    BY DEF WalkNext
  <2> QED BY <2>1, StageStep
<1>3. /\ pages' = IF type' = "docx" /\ stage' = "walk" THEN <<<<>>>> ELSE <<>>
      /\ stage' # "undefined" /\ stage' # "find"
  BY <1>1, <1>2 DEF FindPart, StageInv
<1>4. Len(<<>>) = 0 /\ 1..0 = {} /\ Len(<<<<>>>>) = 1 /\ <<<<>>>>[1] = <<>> /\ \A k \in 1..1 : k = 1
  OBVIOUS
<1>5. FreshFrames'
  BY <1>1, <1>4 DEF FreshFrames
<1>6. PageIs(type', <<>>, <<>>, 1) /\ LengthIs(type', <<>>, 0, 1)
  <2>1. BeganAt(type', <<>>, 0) = {} /\ ~HeadlessAt(type', <<>>, 1)
    BY <1>4 DEF BeganAt, HeadlessAt
  <2> QED BY <1>4, <2>1, FS_EmptySet DEF PageIs, LengthIs
<1>7. AsRead'
  BY <1>1, <1>3, <1>4, <1>6 DEF AsRead
<1> QED BY <1>1, <1>3, <1>5, <1>7 DEF ReaderInv

LEMMA ReaderStep == StageInv /\ TreeInv /\ KeptInv /\ ReaderInv /\ [WalkNext]_walkVars => ReaderInv'
<1> SUFFICES ASSUME StageInv, TreeInv, KeptInv, ReaderInv, [WalkNext]_walkVars PROVE ReaderInv'
  OBVIOUS
<1>1. CASE EndWalk \/ Finished \/ UNCHANGED walkVars
  <2>1. /\ doc' = doc /\ type' = type /\ frames' = frames /\ pages' = pages
        /\ generation' = generation
        /\ stage' = stage \/ (stage = "walk" /\ stage' = "done")
    BY <1>1 DEF EndWalk, Finished, walkVars, pageVars
  <2>2. /\ FreshFrames' <=> FreshFrames
        /\ Calm' <=> Calm
        /\ AsRead' <=> AsRead
    BY <2>1 DEF FreshFrames, Calm, Texts, AsRead
  <2> QED BY <2>1, <2>2 DEF ReaderInv, Walking
<1>2. CASE StartConcat \/ Concat \/ AddString \/ ReadRow \/ EndBook
           \/ (\E found \in BOOLEAN : OpenSheet(found)) \/ (\E c \in Cell : ReadCell(c))
           \/ \E n \in Node : GrowString(n)
  <2>1. stage' \in {"done", "concat", "string", "sheet"} /\ type' = type
        /\ stage \in {"string", "concat", "sheet"}
    BY <1>2 DEF StartConcat, Concat, AddString, ReadRow, OpenSheet, ReadCell, EndBook,
                InSheet, GrowString
  <2>2. type' = "xlsx"
    BY <2>1 DEF StageInv
  <2> QED BY <2>1, <2>2 DEF ReaderInv
<1>3. CASE RejectPackage
  <2>1. stage' = "failed" /\ type' = "unknown" /\ doc' = <<>> /\ pages' = <<>>
    BY <1>3 DEF RejectPackage, StageInv, pageVars
  <2> QED BY <2>1 DEF ReaderInv
<1> QED BY <1>1, <1>2, <1>3, ReaderBreak, ReaderParagraph, ReaderText, ReaderPass, ReaderSlide,
        ReaderFound DEF WalkNext

LEMMA ReaderInvariant == WalkSpec => []ReaderInv
<1>1. WalkInit => ReaderInv
  BY DEF WalkInit, ReaderInv
<1>2. WalkInv /\ KeptInv /\ ReaderInv /\ [WalkNext]_walkVars => ReaderInv'
  BY ReaderStep DEF WalkInv
<1> QED BY <1>1, <1>2, WalkInvariant, KeptInvariant, PTL DEF WalkSpec

\* The reader's page and paragraph are those of any document.
LEMMA ReaderIs ==
    /\ \A i : PageOf(i) = PageAt(type, doc, i)
    /\ \A i : Began(i) = BeganAt(type, doc, i)
    /\ DOMAIN doc = 1..Len(doc) =>
           /\ \A k : Headless(k) <=> HeadlessAt(type, doc, k)
           /\ \A i : ParagraphOf(i) = ParAt(type, doc, i)
<1>1. \A i : PageOf(i) = PageAt(type, doc, i)
  BY DEF PageOf, PageAt, BreaksTo, IsBreak, BreakAt
<1>2. \A i : Began(i) = BeganAt(type, doc, i)
  BY <1>1 DEF Began, BeganAt
<1>3. ASSUME DOMAIN doc = 1..Len(doc), NEW k PROVE Headless(k) <=> HeadlessAt(type, doc, k)
  BY <1>1, <1>2, <1>3 DEF Headless, HeadlessAt, Texts
<1>4. ASSUME DOMAIN doc = 1..Len(doc), NEW i PROVE ParagraphOf(i) = ParAt(type, doc, i)
  BY <1>1, <1>2, <1>3, <1>4 DEF ParagraphOf, ParAt
<1> QED BY <1>1, <1>2, <1>3, <1>4

\* What Expected says of page k.
LEMMA PageExpected ==
    ASSUME TreeInv, NEW k \in 1..Len(pages), PageIs(type, doc, pages[k], k)
    PROVE  LET here == {ParagraphOf(i) : i \in {j \in DOMAIN doc : /\ PageOf(j) = k
                                                                   /\ doc[j].tag \in {"p", "t"}}}
           IN  pages[k] = [q \in 1..Max(here \cup {0}) |->
                    InOrder({i \in Texts : PageOf(i) = k /\ ParagraphOf(i) = q}, Len(doc))]
<1> DEFINE here == {ParagraphOf(i) : i \in {j \in DOMAIN doc : /\ PageOf(j) = k
                                                              /\ doc[j].tag \in {"p", "t"}}}
           texts(q) == {i \in Texts : PageOf(i) = k /\ ParagraphOf(i) = q}
           l == Len(pages[k])
<1>1. /\ DOMAIN doc = 1..Len(doc) /\ Len(doc) \in Nat /\ pages[k] \in Seq(Seq(Nat)) /\ l \in Nat
  BY DEF TreeInv
<1>2. /\ \A i : PageOf(i) = PageAt(type, doc, i)
      /\ \A i : ParagraphOf(i) = ParAt(type, doc, i)
  BY <1>1, ReaderIs
<1>3. \A i \in DOMAIN doc : ParagraphOf(i) \in Nat
  <2>1. \A i \in DOMAIN doc : i \in Nat
    BY <1>1
  <2> QED BY <1>2, <2>1, BeganFinite
<1>4. ASSUME NEW x \in here \cup {0} PROVE x \in Int /\ x <= l
  <2>1. CASE x = 0
    BY <1>1, <2>1
  <2>2. CASE x \in here
    <3>1. PICK i \in DOMAIN doc : PageOf(i) = k /\ doc[i].tag \in {"p", "t"} /\ x = ParagraphOf(i)
      BY <2>2
    <3>2. ParAt(type, doc, i) <= l
      BY <1>1, <1>2, <3>1 DEF PageIs
    <3> QED BY <1>2, <1>3, <3>1, <3>2
  <2> QED BY <2>1, <2>2
<1>5. l \in here \cup {0}
  <2> SUFFICES ASSUME l # 0 PROVE l \in here
    OBVIOUS
  <2>1. PICK i \in 1..Len(doc) : /\ doc[i].tag \in {"p", "t"} /\ PageAt(type, doc, i) = k
                                 /\ ParAt(type, doc, i) = l
    BY DEF PageIs
  <2> QED BY <1>1, <1>2, <2>1
<1>6. Max(here \cup {0}) = l
  <2> DEFINE S == here \cup {0}
  <2>1. S # {} /\ \A x \in S : x \in Int /\ x <= l
    BY <1>4
  <2> HIDE DEF S, here, l
  <2>2. l \in Int
    BY <1>1
  <2>3. Max(S) \in S /\ \A y \in S : Max(S) >= y
    BY <2>1, <2>2, GreatestElement
  <2>4. l \in S
    BY <1>5 DEF S
  <2>5. Max(S) = l
    <3>1. PICK m : m = Max(S)
      OBVIOUS
    <3>2. m \in Int /\ m <= l /\ m >= l
      BY <2>1, <2>3, <2>4, <3>1
    <3>3. m = l
      BY <2>2, <3>2
    <3> QED BY <3>1, <3>3
  <2> QED BY <2>5 DEF S
<1>7. ASSUME NEW q PROVE texts(q) = OfPar(type, doc, k, q)
  BY <1>1, <1>2 DEF OfPar, Texts
<1>8. \A q \in 1..l : pages[k][q] = InOrder(texts(q), Len(doc))
  BY <1>7 DEF PageIs
<1> HIDE DEF here, texts
<1>9. pages[k] = [q \in 1..l |-> InOrder(texts(q), Len(doc))]
  <2>1. pages[k] = [q \in 1..l |-> pages[k][q]]
    <3>1. PICK s \in Seq(Seq(Nat)) : s = pages[k]
      BY <1>1
    <3>2. s = [q \in 1..Len(s) |-> s[q]]
      OBVIOUS
    <3> QED BY <3>1, <3>2
  <2> HIDE DEF l
  <2> QED BY <1>8, <2>1
<1> QED BY <1>6, <1>9 DEF here, texts

LEMMA ReadPages == WalkInv /\ KeptInv /\ ReaderInv => WalkAsSpecified
<1> SUFFICES ASSUME WalkInv, KeptInv, ReaderInv, type \in {"docx", "pptx"},
                    ~(\E i \in Texts : Exposed(i))
             PROVE  stage # "undefined" /\ pages = Expected
  BY DEF WalkAsSpecified
<1>1. TreeInv /\ StageInv
  BY DEF WalkInv
<1>2. Calm
  <2>1. \A i : StaleAt(type, doc, doc[i].depth, i - 1) => Exposed(i)
    BY DEF StaleAt, Exposed, IsBreak, BreakAt
  <2> QED BY <2>1 DEF Calm
<1>3. stage # "undefined" /\ (Walking => AsRead)
  BY <1>2 DEF ReaderInv
<1>4. Walking \/ stage = "failed"
  BY <1>1, <1>3 DEF Walking, StageInv
<1>5. ASSUME NEW k \in 1..Len(pages) PROVE PageIs(type, doc, pages[k], k)
  <2>1. stage # "failed"
    <3>1. Len(<<>>) = 0 /\ 1..0 = {}
      OBVIOUS
    <3> QED BY <3>1 DEF ReaderInv
  <2> QED BY <1>3, <1>4, <2>1 DEF AsRead
<1> DEFINE last == IF doc = <<>> THEN Len(pages) ELSE PageOf(Len(doc))
           here(k) == {ParagraphOf(i) : i \in {j \in DOMAIN doc : /\ PageOf(j) = k
                                                                 /\ doc[j].tag \in {"p", "t"}}}
           page(k) == [q \in 1..Max(here(k) \cup {0}) |->
                InOrder({i \in Texts : PageOf(i) = k /\ ParagraphOf(i) = q}, Len(doc))]
<1>6. last = Len(pages)
  <2>1. CASE Walking
    <3>1. Len(pages) = PageAt(type, doc, Len(doc))
      BY <2>1 DEF KeptInv, PageCount
    <3> QED BY <3>1, ReaderIs
  <2>2. CASE stage = "failed"
    BY <2>2 DEF ReaderInv
  <2> QED BY <1>4, <2>1, <2>2
<1>7. ASSUME NEW k \in 1..Len(pages) PROVE pages[k] = page(k)
  BY <1>1, <1>5, PageExpected
<1>8. Expected = [k \in 1..last |-> page(k)]
  BY DEF Expected
<1> HIDE DEF last, page
<1>9. pages = [k \in 1..Len(pages) |-> page(k)]
  <2>1. pages = [k \in 1..Len(pages) |-> pages[k]]
    BY <1>1 DEF TreeInv
  <2> QED BY <1>7, <2>1
<1> QED BY <1>3, <1>6, <1>8, <1>9

\* Unless a text is exposed, process_document never reads freed memory, however
\* the vector of pages grows, and every text is in the last paragraph begun on
\* the page that the breaks before it reach.
THEOREM WalkCorrect == WalkSpec => []WalkAsSpecified
BY WalkInvariant, KeptInvariant, ReaderInvariant, ReadPages, PTL

-----------------------------------------------------------------------------
\* The text written to freed memory, and the ones before it.

LostInv ==
    stage = "undefined" =>
        /\ Len(doc) \in Texts
        /\ StaleAt(type, doc, doc[Len(doc)].depth, Len(doc) - 1)
        /\ Placed /\ OnceOnly /\ Shorter
        /\ \A i \in Texts \ {Len(doc)} : \E k, q : On(pages, k, q, i)

LEMMA LostText ==
    ASSUME StageInv, TreeInv, KeptInv, ReaderInv, NEW n \in Node, AddText(n), stage' = "undefined"
    PROVE  LostInv'
<1> DEFINE b == Pointing(n.depth)
<1>1. Visit(n) /\ n.tag = "t" /\ frames' = FramesAt(n.depth)
  BY DEF AddText
<1>2. /\ stage = "walk" /\ type' = type /\ doc' = Append(doc, n) /\ doc \in Seq(Node)
      /\ Len(doc) \in Nat /\ Len(doc') = Len(doc) + 1 /\ Len(doc') - 1 = Len(doc)
      /\ doc'[Len(doc')] = n
  BY <1>1 DEF Visit, TreeInv
<1>3. pages' = pages /\ b[2] # generation
  BY <1>2 DEF AddText, Pointing
<1>4. StaleFrames /\ Placed /\ AllFound /\ OnceOnly /\ Shorter /\ FreshFrames
  BY <1>2 DEF KeptInv, ReaderInv, Walking, StageInv
<1>5. StaleAt(type, doc, n.depth, Len(doc))
  <2>1. b[1] # Len(pages)
    BY <1>1, <1>3, <1>4, FreshPointer
  <2>2. /\ Pointing(n.depth) = IF n.depth > Len(frames) THEN Back ELSE frames[n.depth]
        /\ n.depth \in 1..(Len(frames) + 1) /\ Len(frames) \in Nat
    BY <1>1, Visited DEF Pointing, TreeInv
  <2>3. n.depth \in 1..Len(frames) /\ b = frames[n.depth]
    <3>1. CASE n.depth > Len(frames)
      BY <2>1, <2>2, <3>1 DEF Back
    <3> QED BY <2>2, <3>1
  <2>4. frames[n.depth][1] \in Nat /\ frames[n.depth][1] <= Len(pages) /\ Len(pages) \in Nat
    <3>1. frames[n.depth] \in Pointer /\ frames[n.depth][1] <= Len(pages) /\ Len(pages) \in Nat
      BY <2>3 DEF TreeInv
    <3> QED BY <3>1 DEF Pointer
  <2> HIDE DEF b
  <2>5. frames[n.depth][1] < Len(pages)
    BY <2>1, <2>3, <2>4
  <2> QED BY <1>4, <2>3, <2>5 DEF StaleFrames
<1>6. StaleAt(type', doc', doc'[Len(doc')].depth, Len(doc') - 1)
  BY <1>2, <1>5, StaleStays
<1>7. Texts' = Texts \cup {Len(doc')}
  BY <1>1, <1>2, TextsMore
<1>8. Placed'
  <2>1. \A k, q, i : On(pages', k, q, i) => On(pages, k, q, i) \/ (k = 0 /\ i = Len(doc) + 1)
    BY <1>3
  <2>2. ~\E k, q : On(pages', k, q, Len(doc) + 1)
    <3>1. Len(doc) + 1 \notin Texts
      BY <1>2 DEF Texts
    <3> QED BY <1>3, <3>1 DEF TreeInv
  <2> QED BY <1>2, <1>4, <2>1, <2>2, PlacedStep
<1>9. OnceOnly'
  BY <1>3, <1>4 DEF OnceOnly
<1>10. Shorter'
  <2>1. ASSUME NEW k \in 1..Len(pages') PROVE Len(pages'[k]) <= Len(doc')
    <3>1. Len(pages[k]) \in Nat /\ Len(pages[k]) <= Len(doc)
      BY <1>3, <1>4 DEF Shorter, TreeInv
    <3> QED BY <1>2, <1>3, <3>1
  <2> QED BY <2>1 DEF Shorter
<1>11. \A i \in Texts' \ {Len(doc')} : \E k, q : On(pages', k, q, i)
  BY <1>3, <1>4, <1>7 DEF AllFound
<1> QED BY <1>6, <1>7, <1>8, <1>9, <1>10, <1>11 DEF LostInv

LEMMA LostStep ==
    StageInv /\ TreeInv /\ KeptInv /\ ReaderInv /\ LostInv /\ [WalkNext]_walkVars => LostInv'
<1> SUFFICES ASSUME StageInv, TreeInv, KeptInv, ReaderInv, LostInv, [WalkNext]_walkVars,
                    stage' = "undefined"
             PROVE  LostInv'
  BY DEF LostInv
<1>1. CASE Finished \/ UNCHANGED walkVars
  <2>1. doc' = doc /\ type' = type /\ pages' = pages /\ stage' = stage
    BY <1>1 DEF Finished, walkVars, pageVars
  <2> QED BY <2>1 DEF LostInv, Placed, OnceOnly, Shorter, Texts
<1>2. CASE \E n \in Node : AddText(n)
  BY <1>2, LostText
<1>3. ASSUME NEW n \in Node, BreakPage(n) \/ BeginParagraph(n) \/ PassThrough(n) \/ GrowString(n)
      PROVE  FALSE
  <2>1. stage' = stage /\ stage \in {"walk", "string"}
    BY <1>3 DEF BreakPage, BeginParagraph, PassThrough, GrowString, Visit
  <2> QED BY <2>1
<1>4. CASE FindPart
  <2>1. type' \in {"unknown", "docx", "pptx", "xlsx"}
    BY StageStep DEF StageInv
  <2> QED BY <1>4, <2>1 DEF FindPart
<1>5. CASE RejectPackage \/ OpenSlide \/ EndWalk \/ StartConcat \/ Concat \/ AddString
           \/ (\E found \in BOOLEAN : OpenSheet(found)) \/ ReadRow
           \/ (\E c \in Cell : ReadCell(c)) \/ EndBook
  BY <1>5 DEF RejectPackage, OpenSlide, EndWalk, StartConcat, Concat, AddString, OpenSheet,
              ReadRow, ReadCell, InSheet, EndBook
<1> QED BY <1>1, <1>2, <1>3, <1>4, <1>5 DEF WalkNext

LEMMA LostInvariant == WalkSpec => []LostInv
<1>1. WalkInit => LostInv
  BY DEF WalkInit, LostInv
<1>2. WalkInv /\ KeptInv /\ ReaderInv /\ LostInv /\ [WalkNext]_walkVars => LostInv'
  BY LostStep DEF WalkInv
<1> QED BY <1>1, <1>2, WalkInvariant, KeptInvariant, ReaderInvariant, PTL DEF WalkSpec

LEMMA TextsKept == WalkInv /\ KeptInv /\ LostInv => TextKept
<1> SUFFICES ASSUME WalkInv, KeptInv, LostInv, stage \in {"walk", "done", "undefined"},
                    type \in {"docx", "pptx"}
             PROVE  TextKept
  BY DEF TextKept
<1>1. TreeInv
  BY DEF WalkInv
<1>2. Placed /\ OnceOnly /\ Shorter /\ \A i \in Texts \ Lost : \E k, q : On(pages, k, q, i)
  <2>1. CASE stage = "undefined"
    BY <2>1 DEF LostInv, Lost
  <2>2. CASE stage # "undefined"
    BY <2>2 DEF KeptInv, Walking, AllFound
  <2> QED BY <2>1, <2>2
<1>3. ASSUME NEW i \in Lost PROVE i \in Texts /\ Exposed(i)
  <2>1. stage = "undefined" /\ i = Len(doc)
    BY <1>3 DEF Lost
  <2>2. StaleAt(type, doc, doc[i].depth, i - 1) => Exposed(i)
    BY DEF StaleAt, Exposed, IsBreak, BreakAt
  <2> QED BY <2>1, <2>2 DEF LostInv
<1>4. ASSUME NEW i \in Texts \ Lost
      PROVE  LET places == {at \in (DOMAIN pages) \X (1..Len(doc)) :
                               /\ at[2] \in DOMAIN pages[at[1]]
                               /\ i \in ToSet(pages[at[1]][at[2]])}
             IN  /\ Cardinality(places) = 1
                 /\ \A at \in places : /\ at[1] <= PageOf(i)
                                       /\ at[1] < PageOf(i) => Exposed(i)
  <2>1. PICK k, q : On(pages, k, q, i)
    BY <1>2
  <2> QED BY <1>1, <1>2, <2>1, OnePlace
<1> QED BY <1>3, <1>4 DEF TextKept

\* Every text process_document reads is on exactly one page, in exactly one
\* paragraph, the page of the breaks before it; only one that a drawing before
\* it in the same run has exposed may be behind, or be written to memory that
\* the vector of pages has given back.
THEOREM TextAlwaysKept == WalkSpec => []TextKept
BY WalkInvariant, KeptInvariant, LostInvariant, TextsKept, PTL

-----------------------------------------------------------------------------
\* The cells show what their parts hold.

\* The text of a shared string: its texts, from the last to the first.
Whole(tree) == Reverse(InOrder({i \in DOMAIN tree : tree[i].tag = "t"}, Len(tree)))
ShownAt(ss, c) == CASE c.kind = "s" /\ c.index + 1 \in DOMAIN ss -> Whole(ss[c.index + 1])
                    [] c.kind = "b" -> IF c.text = "1" THEN <<"TRUE">> ELSE <<"FALSE">>
                    [] c.kind \in {"inlineStr", "str"} /\ c.text # "none" -> <<c.text>>
                    [] OTHER -> <<>>
ShownRow(ss, row) == [c \in DOMAIN row |-> ShownAt(ss, row[c])]
ShownRows(ss, rows) == [r \in DOMAIN rows |-> ShownRow(ss, rows[r])]
SheetOf(ss, es, k) == [name |-> k, rows |-> ShownRows(ss, es[k].rows)]
FoundOnes(es) == {k \in DOMAIN es : es[k].found}

StringsShown == sst = [k \in DOMAIN strings |-> Whole(strings[k])]
SheetsShown ==
    sheets = Chosen(FoundOnes(entries), Len(entries),
                    [k \in DOMAIN entries |-> SheetOf(strings, entries, k)])

\* The values at chosen numbers depend on those numbers only.
LEMMA ChosenAlike ==
    ASSUME NEW n \in Nat, NEW S, NEW T, NEW F, NEW G,
           \A k \in 1..n : (k \in S <=> k \in T) /\ F[k] = G[k]
    PROVE  Chosen(S, n, F) = Chosen(T, n, G)
<1> DEFINE o == InOrder(S, n)
<1>1. o \in Seq(1..n) /\ InOrder(T, n) = o
  BY InOrderMore, InOrderAlike
<1>2. Chosen(S, n, F) = [k \in DOMAIN o |-> F[o[k]]] /\ Chosen(T, n, G) = [k \in DOMAIN o |-> G[o[k]]]
  BY <1>1 DEF Chosen
<1> HIDE DEF o
<1>3. \A k \in DOMAIN o : F[o[k]] = G[o[k]]
  BY <1>1
<1> QED BY <1>2, <1>3

\* A cell that is resolved shows what it should.
LEMMA ResolveShows ==
    ASSUME BookTypes, StringsShown, NEW c \in Cell PROVE Resolve(c) = ShownAt(strings, c)
<1>1. strings \in Seq(Seq(Node)) /\ Len(sst) = Len(strings)
  BY DEF BookTypes
<1>2. CASE c.kind = "s"
  <2>1. c.index \in Int
    BY <1>2, BoundAssumption DEF Cell
  <2>2. Resolve(c) = IF c.index >= 0 /\ c.index < Len(sst) THEN sst[c.index + 1] ELSE <<>>
    BY <1>2 DEF Resolve
  <2>3. c.index >= 0 /\ c.index < Len(sst) <=> c.index + 1 \in DOMAIN strings
    BY <1>1, <2>1
  <2>4. c.index + 1 \in DOMAIN strings => sst[c.index + 1] = Whole(strings[c.index + 1])
    BY DEF StringsShown
  <2>5. ShownAt(strings, c) =
            IF c.index + 1 \in DOMAIN strings THEN Whole(strings[c.index + 1]) ELSE <<>>
    BY <1>2 DEF ShownAt
  <2> QED BY <2>2, <2>3, <2>4, <2>5
<1>3. CASE c.kind = "b"
  BY <1>3 DEF Resolve, ShownAt
<1>4. CASE c.kind \in {"inlineStr", "str"}
  BY <1>4 DEF Resolve, ShownAt
<1> QED BY <1>2, <1>3, <1>4 DEF Cell

\* A row more, and a cell more in a row.
LEMMA RowShown ==
    ASSUME NEW ss, NEW rows \in Seq(Seq(Cell))
    PROVE  /\ ShownRows(ss, rows) \in Seq(Seq({ShownAt(ss, c) : c \in Cell}))
           /\ Len(ShownRows(ss, rows)) = Len(rows)
           /\ ShownRows(ss, <<>>) = <<>>
           /\ ShownRows(ss, Append(rows, <<>>)) = Append(ShownRows(ss, rows), <<>>)
<1> DEFINE V == {ShownAt(ss, c) : c \in Cell}
           n == Len(rows)
           R == ShownRows(ss, rows)
<1>1. n \in Nat /\ DOMAIN rows = 1..n /\ \A r \in 1..n : rows[r] \in Seq(Cell)
  OBVIOUS
<1>2. ASSUME NEW row \in Seq(Cell) PROVE ShownRow(ss, row) \in Seq(V)
  <2>1. DOMAIN row = 1..Len(row) /\ Len(row) \in Nat
    OBVIOUS
  <2>2. \A c \in 1..Len(row) : ShownAt(ss, row[c]) \in V
    OBVIOUS
  <2> HIDE DEF V
  <2> QED BY <2>1, <2>2 DEF ShownRow
<1> HIDE DEF V
<1>3. R = [r \in 1..n |-> ShownRow(ss, rows[r])]
  BY <1>1 DEF ShownRows
<1>4. R \in Seq(Seq(V)) /\ Len(R) = n
  BY <1>1, <1>2, <1>3
<1>5. ShownRow(ss, <<>>) = <<>> /\ ShownRows(ss, <<>>) = <<>>
  <2>1. DOMAIN <<>> = {} /\ DOMAIN <<>> = 1..0
    OBVIOUS
  <2>2. [c \in 1..0 |-> ShownAt(ss, <<>>[c])] = <<>> /\ [c \in 1..0 |-> ShownRow(ss, <<>>[c])] = <<>>
    OBVIOUS
  <2> QED BY <2>1, <2>2 DEF ShownRow, ShownRows
<1>6. ShownRows(ss, Append(rows, <<>>)) = Append(R, <<>>)
  <2> DEFINE more == Append(rows, <<>>)
  <2>1. /\ DOMAIN more = 1..(n + 1) /\ more[n + 1] = <<>>
        /\ \A r \in 1..n : more[r] = rows[r]
    BY <1>1
  <2>2. ShownRows(ss, more) = [r \in 1..(n + 1) |-> ShownRow(ss, more[r])]
    BY <2>1 DEF ShownRows
  <2>3. \A r \in 1..(n + 1) : ShownRow(ss, more[r]) = IF r = n + 1 THEN <<>> ELSE R[r]
    <3> SUFFICES ASSUME NEW r \in 1..(n + 1) PROVE ShownRow(ss, more[r]) = IF r = n + 1 THEN <<>> ELSE R[r]
      OBVIOUS
    <3>1. CASE r = n + 1
      BY <1>5, <2>1, <3>1
    <3>2. CASE r # n + 1
      <4>1. r \in 1..n
        BY <1>1, <3>2
      <4> QED BY <1>3, <2>1, <3>2, <4>1
    <3> QED BY <3>1, <3>2
  <2>4. Append(R, <<>>) = [r \in 1..(n + 1) |-> IF r = n + 1 THEN <<>> ELSE R[r]]
    <3> HIDE DEF n, R
    <3> QED BY <1>4, AppendIs
  <2> HIDE DEF more, R, n
  <2> QED BY <2>2, <2>3, <2>4 DEF more
<1> QED BY <1>4, <1>5, <1>6 DEF V

CellAdded(rows, i, v) == [rows EXCEPT ![i] = Append(rows[i], v)]

LEMMA CellShown ==
    ASSUME NEW ss, NEW rows \in Seq(Seq(Cell)), NEW i \in 1..Len(rows), NEW c \in Cell
    PROVE  ShownRows(ss, CellAdded(rows, i, c)) = CellAdded(ShownRows(ss, rows), i, ShownAt(ss, c))
<1> DEFINE n == Len(rows)
           row == rows[i]
           R == ShownRows(ss, rows)
           rows2 == [rows EXCEPT ![i] = Append(row, c)]
<1>1. n \in Nat /\ DOMAIN rows = 1..n /\ row \in Seq(Cell) /\ Len(row) \in Nat
      /\ DOMAIN row = 1..Len(row)
  OBVIOUS
<1>2. R = [r \in 1..n |-> ShownRow(ss, rows[r])]
  BY <1>1 DEF ShownRows
<1>3. R[i] = ShownRow(ss, row) /\ DOMAIN R = 1..n
  BY <1>2
<1>4. ShownRow(ss, Append(row, c)) = Append(ShownRow(ss, row), ShownAt(ss, c))
  <2> DEFINE m == Len(row)
             more == Append(row, c)
             f == ShownRow(ss, row)
  <2>1. DOMAIN more = 1..(m + 1) /\ more[m + 1] = c /\ \A x \in 1..m : more[x] = row[x]
    BY <1>1
  <2>2. f = [x \in 1..m |-> ShownAt(ss, row[x])]
    BY <1>1 DEF ShownRow
  <2>3. f \in Seq({ShownAt(ss, row[x]) : x \in 1..m}) /\ Len(f) = m
    BY <1>1, <2>2
  <2>4. Append(f, ShownAt(ss, c)) = [x \in 1..(m + 1) |-> IF x = m + 1 THEN ShownAt(ss, c) ELSE f[x]]
    <3>1. PICK V : V = {ShownAt(ss, row[x]) : x \in 1..m}
      OBVIOUS
    <3> HIDE DEF m, f
    <3> QED BY <2>3, <3>1, AppendIs
  <2>5. ShownRow(ss, more) = [x \in 1..(m + 1) |-> ShownAt(ss, more[x])]
    BY <2>1 DEF ShownRow
  <2>6. \A x \in 1..(m + 1) : ShownAt(ss, more[x]) = IF x = m + 1 THEN ShownAt(ss, c) ELSE f[x]
    BY <1>1, <2>1, <2>2
  <2> HIDE DEF m, more, f
  <2> QED BY <2>4, <2>5, <2>6 DEF more, f
<1>5. /\ DOMAIN rows2 = 1..n /\ rows2[i] = Append(row, c)
      /\ \A r \in 1..n : r # i => rows2[r] = rows[r]
  BY <1>1
<1>6. ShownRows(ss, rows2) = [r \in 1..n |-> ShownRow(ss, rows2[r])]
  BY <1>5 DEF ShownRows
<1>7. \A r \in 1..n : ShownRow(ss, rows2[r]) = IF r = i THEN Append(R[i], ShownAt(ss, c)) ELSE R[r]
  BY <1>2, <1>3, <1>4, <1>5
<1>8. [R EXCEPT ![i] = Append(R[i], ShownAt(ss, c))]
        = [r \in 1..n |-> IF r = i THEN Append(R[i], ShownAt(ss, c)) ELSE R[r]]
  BY <1>3
<1> HIDE DEF rows2, R
<1>9. ShownRows(ss, rows2) = [R EXCEPT ![i] = Append(R[i], ShownAt(ss, c))]
  BY <1>6, <1>7, <1>8
<1> QED BY <1>9 DEF rows2, R, CellAdded

LEMMA ChosenTyped ==
    ASSUME NEW n \in Nat, NEW S, NEW F, NEW B, \A k \in 1..n : F[k] \in B
    PROVE  Chosen(S, n, F) \in Seq(B)
<1> DEFINE o == InOrder(S, n)
<1>1. o \in Seq(1..n)
  BY InOrderMore
<1>2. Chosen(S, n, F) = [k \in DOMAIN o |-> F[o[k]]]
  BY DEF Chosen
<1> HIDE DEF o
<1>3. DOMAIN o = 1..Len(o) /\ Len(o) \in Nat /\ \A k \in 1..Len(o) : F[o[k]] \in B
  BY <1>1
<1> QED BY <1>2, <1>3

\* The end of a sequence replaced.
LEMMA EndReplaced ==
    ASSUME NEW B, NEW s \in Seq(B), NEW x, NEW y
    PROVE  /\ Append(s, x)[Len(Append(s, x))] = x
           /\ [Append(s, x) EXCEPT ![Len(Append(s, x))] = y] = Append(s, y)
<1> DEFINE n == Len(s)
           t == Append(s, x)
<1>1. n \in Nat
  OBVIOUS
<1>2. t = [k \in 1..(n + 1) |-> IF k = n + 1 THEN x ELSE s[k]]
  BY AppendIs
<1>3. Append(s, y) = [k \in 1..(n + 1) |-> IF k = n + 1 THEN y ELSE s[k]]
  BY AppendIs
<1> HIDE DEF n, t
<1>4. Len(t) = n + 1 /\ t[n + 1] = x
  BY <1>1, <1>2
<1>5. [t EXCEPT ![n + 1] = y] = [k \in 1..(n + 1) |-> IF k = n + 1 THEN y ELSE s[k]]
  BY <1>1, <1>2
<1> QED BY <1>3, <1>4, <1>5 DEF t

\* The sheet that is being read is the last one.
LEMMA SheetAtEnd ==
    ASSUME BookTypes, SheetsShown, stage = "sheet", Last(entries).found
    PROVE  /\ Len(entries) \in 1..Len(entries)
           /\ sheets[Len(sheets)] = SheetOf(strings, entries, Len(entries))
           /\ \A y : [sheets EXCEPT ![Len(sheets)] = y]
                       = Append(Chosen(FoundOnes(entries), Len(entries) - 1,
                                       [k \in DOMAIN entries |-> SheetOf(strings, entries, k)]), y)
<1> DEFINE n == Len(entries)
           F == [k \in DOMAIN entries |-> SheetOf(strings, entries, k)]
           C == Chosen(FoundOnes(entries), n - 1, F)
           B == {F[k] : k \in 1..n}
<1>1. /\ n \in 1..n /\ n - 1 \in Nat /\ (n - 1) + 1 = n /\ DOMAIN entries = 1..n
      /\ entries[n].found
  BY DEF BookTypes, Last
<1>2. n \in FoundOnes(entries) /\ F[n] = SheetOf(strings, entries, n)
  BY <1>1 DEF FoundOnes
<1>3. sheets = Chosen(FoundOnes(entries), n, F)
  BY DEF SheetsShown
<1>4. \A k \in 1..n : F[k] \in B
  OBVIOUS
<1> HIDE DEF n, F, C, B
<1>5. C \in Seq(B)
  BY <1>1, <1>4, ChosenTyped DEF C
<1>6. sheets = Append(C, F[n])
  <2>1. Chosen(FoundOnes(entries), (n - 1) + 1, F)
          = IF (n - 1) + 1 \in FoundOnes(entries)
            THEN Append(Chosen(FoundOnes(entries), n - 1, F), F[(n - 1) + 1])
            ELSE Chosen(FoundOnes(entries), n - 1, F)
    BY <1>1, ChosenMore
  <2> QED BY <1>1, <1>2, <1>3, <2>1 DEF C
<1>7. sheets[Len(sheets)] = F[n] /\ \A y : [sheets EXCEPT ![Len(sheets)] = y] = Append(C, y)
  BY <1>5, <1>6, EndReplaced
<1> QED BY <1>1, <1>2, <1>7 DEF n, F, C

\* New rows in the entry and in the sheet.
LEMMA RowsReplaced ==
    ASSUME BookTypes, SheetsShown, stage = "sheet", Last(entries).found, strings' = strings,
           NEW x, NEW y, y = ShownRows(strings, x),
           entries' = [entries EXCEPT ![Len(entries)] = [entries[Len(entries)] EXCEPT !.rows = x]],
           sheets' = [sheets EXCEPT ![Len(sheets)] = [sheets[Len(sheets)] EXCEPT !.rows = y]]
    PROVE  SheetsShown'
<1> DEFINE n == Len(entries)
           F == [k \in DOMAIN entries |-> SheetOf(strings, entries, k)]
           G == [k \in DOMAIN entries' |-> SheetOf(strings, entries', k)]
           C == Chosen(FoundOnes(entries), n - 1, F)
<1>1. /\ n \in 1..n /\ n - 1 \in Nat /\ (n - 1) + 1 = n /\ DOMAIN entries = 1..n
      /\ \A k \in 1..n : entries[k] \in Entry
  BY SheetAtEnd DEF BookTypes
<1>2. sheets[Len(sheets)] = SheetOf(strings, entries, n)
  BY SheetAtEnd
<1>3. sheets' = Append(C, [SheetOf(strings, entries, n) EXCEPT !.rows = y])
  BY <1>2, SheetAtEnd
<1>4. [SheetOf(strings, entries, n) EXCEPT !.rows = y] = [name |-> n, rows |-> y]
  BY DEF SheetOf
<1>5. /\ DOMAIN entries' = 1..n /\ \A k \in 1..n : k # n => entries'[k] = entries[k]
      /\ entries'[n] = [entries[n] EXCEPT !.rows = x]
  BY <1>1
<1>6. entries'[n].rows = x /\ entries'[n].found = entries[n].found
  BY <1>1, <1>5 DEF Entry
<1>7. Len(entries') = n
  BY <1>1, <1>5
<1>8. G[n] = [name |-> n, rows |-> y]
  BY <1>1, <1>5, <1>6 DEF SheetOf
<1>9. FoundOnes(entries') = FoundOnes(entries)
  <2>1. \A k \in 1..n : entries'[k].found = entries[k].found
    BY <1>5, <1>6
  <2> QED BY <1>1, <1>5, <2>1 DEF FoundOnes
<1>10. n \in FoundOnes(entries')
  BY <1>1, <1>9 DEF FoundOnes, Last
<1>11. ASSUME NEW k \in 1..(n - 1) PROVE G[k] = F[k]
  <2>1. k \in 1..n /\ k # n
    BY <1>1
  <2> QED BY <1>1, <1>5, <2>1 DEF SheetOf
<1> HIDE DEF n, F, G, C
<1>12. Chosen(FoundOnes(entries'), n - 1, G) = C
  BY <1>1, <1>9, <1>11, ChosenAlike DEF C
<1>13. Chosen(FoundOnes(entries'), n, G) = Append(C, G[n])
  <2>1. Chosen(FoundOnes(entries'), (n - 1) + 1, G)
          = IF (n - 1) + 1 \in FoundOnes(entries')
            THEN Append(Chosen(FoundOnes(entries'), n - 1, G), G[(n - 1) + 1])
            ELSE Chosen(FoundOnes(entries'), n - 1, G)
    BY <1>1, ChosenMore
  <2> QED BY <1>1, <1>10, <1>12, <2>1
<1>14. sheets' = Chosen(FoundOnes(entries'), n, G)
  BY <1>3, <1>4, <1>8, <1>13
<1> QED BY <1>7, <1>14 DEF SheetsShown, G

LEMMA SheetsRow == ASSUME BookTypes, StringsShown, SheetsShown, ReadRow PROVE SheetsShown'
<1> DEFINE x == Append(entries[Len(entries)].rows, <<>>)
           y == Append(sheets[Len(sheets)].rows, <<>>)
<1>1. /\ stage = "sheet" /\ Last(entries).found /\ strings' = strings
      /\ entries' = [entries EXCEPT ![Len(entries)] = [entries[Len(entries)] EXCEPT !.rows = x]]
      /\ sheets' = [sheets EXCEPT ![Len(sheets)] = [sheets[Len(sheets)] EXCEPT !.rows = y]]
  BY DEF ReadRow, InSheet
<1>2. sheets[Len(sheets)].rows = ShownRows(strings, entries[Len(entries)].rows)
  BY <1>1, SheetAtEnd DEF SheetOf
<1>3. entries[Len(entries)].rows \in Seq(Seq(Cell))
  <2>1. entries[Len(entries)] \in Entry
    BY <1>1, SheetAtEnd DEF BookTypes
  <2> QED BY <2>1 DEF Entry
<1>4. y = ShownRows(strings, x)
  BY <1>2, <1>3, RowShown
<1> HIDE DEF x, y
<1> QED BY <1>1, <1>4, RowsReplaced

LEMMA SheetsCell ==
    ASSUME BookTypes, StringsShown, SheetsShown, NEW c \in Cell, ReadCell(c) PROVE SheetsShown'
<1> DEFINE er == entries[Len(entries)].rows
           sr == sheets[Len(sheets)].rows
           i == Len(Last(entries).rows)
           j == Len(Last(sheets).rows)
           x == CellAdded(er, i, c)
           y == CellAdded(sr, j, Resolve(c))
<1>1. /\ stage = "sheet" /\ Last(entries).found /\ strings' = strings /\ Last(entries).rows # <<>>
      /\ entries' = [entries EXCEPT ![Len(entries)] = [entries[Len(entries)] EXCEPT !.rows = x]]
      /\ sheets' = [sheets EXCEPT ![Len(sheets)] = [sheets[Len(sheets)] EXCEPT !.rows = y]]
  BY DEF ReadCell, InSheet, CellAdded
<1>2. sr = ShownRows(strings, er)
  BY <1>1, SheetAtEnd DEF SheetOf
<1>3. er \in Seq(Seq(Cell))
  <2>1. entries[Len(entries)] \in Entry
    BY <1>1, SheetAtEnd DEF BookTypes
  <2> QED BY <2>1 DEF Entry
<1>4. i = Len(er) /\ j = Len(sr) /\ er # <<>>
  BY <1>1 DEF Last
<1>5. Len(sr) = Len(er)
  <2> HIDE DEF er, sr
  <2> QED BY <1>2, <1>3, RowShown
<1>6. i \in 1..Len(er) /\ j = i
  <2> HIDE DEF er, sr, i, j
  <2> QED BY <1>3, <1>4, <1>5
<1>7. Resolve(c) = ShownAt(strings, c)
  BY ResolveShows
<1>8. y = ShownRows(strings, x)
  <2> HIDE DEF er, sr, i, j
  <2> QED BY <1>2, <1>3, <1>6, <1>7, CellShown
<1> HIDE DEF x, y
<1> QED BY <1>1, <1>8, RowsReplaced

LEMMA SheetsOpen ==
    ASSUME BookTypes, StringsShown, SheetsShown, NEW found \in BOOLEAN, OpenSheet(found)
    PROVE  SheetsShown'
<1> DEFINE n == Len(entries)
           e == [found |-> found, rows |-> <<>>]
           F == [k \in DOMAIN entries |-> SheetOf(strings, entries, k)]
           G == [k \in DOMAIN entries' |-> SheetOf(strings, entries', k)]
<1>1. /\ entries' = Append(entries, e) /\ strings' = strings
      /\ sheets' = IF found THEN Append(sheets, [name |-> Len(entries'), rows |-> <<>>]) ELSE sheets
  BY DEF OpenSheet
<1>2. entries \in Seq(Entry) /\ n \in Nat /\ DOMAIN entries = 1..n
  BY DEF BookTypes
<1>3. e.found = found /\ e.rows = <<>>
  OBVIOUS
<1> HIDE DEF e
<1>4. /\ DOMAIN entries' = 1..(n + 1) /\ Len(entries') = n + 1 /\ entries'[n + 1] = e
      /\ \A k \in 1..n : entries'[k] = entries[k] /\ k \in 1..(n + 1)
  BY <1>1, <1>2
<1>5. \A k \in 1..n : (k \in FoundOnes(entries') <=> k \in FoundOnes(entries)) /\ G[k] = F[k]
  BY <1>2, <1>4 DEF FoundOnes, SheetOf
<1>6. n + 1 \in FoundOnes(entries') <=> found
  BY <1>2, <1>3, <1>4 DEF FoundOnes
<1>7. G[n + 1] = [name |-> n + 1, rows |-> <<>>]
  <2>1. ShownRows(strings, <<>>) = <<>>
    <3>1. <<>> \in Seq(Seq(Cell))
      OBVIOUS
    <3> QED BY <3>1, RowShown
  <2> QED BY <1>2, <1>3, <1>4, <2>1 DEF SheetOf
<1> HIDE DEF n, F, G
<1>8. Chosen(FoundOnes(entries'), n, G) = sheets
  BY <1>2, <1>5, ChosenAlike DEF SheetsShown, F, n
<1>9. Chosen(FoundOnes(entries'), n + 1, G)
        = IF n + 1 \in FoundOnes(entries') THEN Append(Chosen(FoundOnes(entries'), n, G), G[n + 1])
          ELSE Chosen(FoundOnes(entries'), n, G)
  BY <1>2, ChosenMore
<1>10. sheets' = Chosen(FoundOnes(entries'), n + 1, G)
  BY <1>1, <1>4, <1>6, <1>7, <1>8, <1>9
<1> QED BY <1>1, <1>4, <1>10 DEF SheetsShown, G

-----------------------------------------------------------------------------
\* The text of a shared string: the tree, and the part of it still to visit.

DepAt(d, s) == IF s = 0 THEN 0 ELSE d[s].depth
UnderIn(d, s, j) == s <= j /\ \A k \in (s + 1)..j : d[k].depth > DepAt(d, s)
KidsIn(d, s) == { j \in (s + 1)..Len(d) : /\ d[j].depth = DepAt(d, s) + 1
                                          /\ \A k \in (s + 1)..j : d[k].depth > DepAt(d, s) }
TextsIn(d) == { i \in 1..Len(d) : d[i].tag = "t" }

\* A node is at most one deeper than the one before; a text has no children.
StringTree(d) ==
    /\ \A i \in 1..Len(d) : d[i].depth >= 1
    /\ \A i \in 0..(Len(d) - 1) : d[i + 1].depth <= DepAt(d, i) + 1
    /\ \A i \in 1..(Len(d) - 1) : d[i].tag = "t" => d[i + 1].depth <= d[i].depth

Rising(s) == \A p, q \in 1..Len(s) : p < q => s[p] < s[q]

\* The order of numbers rises and holds them all.
LEMMA InOrderRises ==
    ASSUME NEW n \in Nat, NEW S
    PROVE  /\ Rising(InOrder(S, n))
           /\ \A x : x \in ToSet(InOrder(S, n)) <=> x \in S /\ x \in 1..n
<1> DEFINE T == { m \in 0..n : /\ Rising(InOrder(S, m))
                               /\ \A x : x \in ToSet(InOrder(S, m)) <=> x \in S /\ x \in 1..m }
<1>1. 0 \in T
  <2>1. InOrder(S, 0) = <<>>
    BY InOrderMore
  <2>2. Len(<<>>) = 0 /\ 1..0 = {} /\ DOMAIN <<>> = {}
    OBVIOUS
  <2> QED BY <2>1, <2>2 DEF Rising, ToSet
<1>2. ASSUME NEW m \in 1..n, m - 1 \in T PROVE m \in T
  <2> DEFINE o == InOrder(S, m - 1)
  <2>1. m - 1 \in Nat /\ (m - 1) + 1 = m /\ m \in 0..n
    OBVIOUS
  <2>2. /\ o \in Seq(1..(m - 1))
        /\ InOrder(S, (m - 1) + 1) = IF (m - 1) + 1 \in S THEN Append(o, (m - 1) + 1) ELSE o
    BY <2>1, InOrderMore
  <2>3. Rising(o) /\ \A x : x \in ToSet(o) <=> x \in S /\ x \in 1..(m - 1)
    BY <1>2
  <2>4. \A x : x \in 1..m <=> x \in 1..(m - 1) \/ x = m
    OBVIOUS
  <2> HIDE DEF o
  <2>5. CASE m \in S
    <3>1. InOrder(S, m) = Append(o, m)
      BY <2>1, <2>2, <2>5
    <3>2. Rising(Append(o, m))
      <4>1. /\ Len(Append(o, m)) = Len(o) + 1 /\ Append(o, m)[Len(o) + 1] = m
            /\ \A p \in 1..Len(o) : Append(o, m)[p] = o[p] /\ o[p] \in 1..(m - 1)
            /\ Len(o) \in Nat
        BY <2>2
      <4> SUFFICES ASSUME NEW p \in 1..(Len(o) + 1), NEW q \in 1..(Len(o) + 1), p < q
                   PROVE  Append(o, m)[p] < Append(o, m)[q]
        BY <4>1 DEF Rising
      <4>2. p \in 1..Len(o)
        BY <4>1
      <4>3. CASE q = Len(o) + 1
        BY <4>1, <4>2, <4>3
      <4>4. CASE q # Len(o) + 1
        <5>1. q \in 1..Len(o)
          BY <4>1, <4>4
        <5> QED BY <2>3, <4>1, <4>2, <5>1 DEF Rising
      <4> QED BY <4>3, <4>4
    <3>3. ToSet(Append(o, m)) = ToSet(o) \cup {m}
      <4>1. o \in Seq(1..m)
        BY <2>2
      <4>2. m \in 1..m
        OBVIOUS
      <4> QED BY <4>1, <4>2, AppendSet
    <3> QED BY <2>1, <2>3, <2>4, <2>5, <3>1, <3>2, <3>3
  <2>6. CASE m \notin S
    BY <2>1, <2>2, <2>3, <2>4, <2>6
  <2> QED BY <2>5, <2>6
<1> HIDE DEF T
<1>3. \A m \in 0..n : m \in T
  BY <1>1, <1>2, UpTo
<1>4. n \in T
  BY <1>3
<1> QED BY <1>4 DEF T

\* A number below all the others comes first.
LEMMA InOrderBelow ==
    ASSUME NEW n \in Nat, NEW S, NEW s \in 1..n, \A x \in 1..n : x \in S => s < x
    PROVE  InOrder(S \cup {s}, n) = <<s>> \o InOrder(S, n)
<1> DEFINE S2 == S \cup {s}
           T == { m \in 0..n : InOrder(S2, m) = IF m < s THEN <<>> ELSE <<s>> \o InOrder(S, m) }
<1>1. 0 \in T
  <2>1. InOrder(S2, 0) = <<>>
    BY InOrderMore
  <2> QED BY <2>1
<1>2. ASSUME NEW m \in 1..n, m - 1 \in T PROVE m \in T
  <2>1. m - 1 \in Nat /\ (m - 1) + 1 = m /\ m \in 0..n /\ m \in Nat
    OBVIOUS
  <2>2. /\ InOrder(S2, m) = IF m \in S2 THEN Append(InOrder(S2, m - 1), m) ELSE InOrder(S2, m - 1)
        /\ InOrder(S, m) = IF m \in S THEN Append(InOrder(S, m - 1), m) ELSE InOrder(S, m - 1)
        /\ InOrder(S, m - 1) \in Seq(Nat)
    <3> DEFINE b == m - 1
    <3>1. b \in Nat /\ b + 1 = m
      BY <2>1
    <3> HIDE DEF b
    <3>2. /\ InOrder(S2, b + 1) = IF b + 1 \in S2 THEN Append(InOrder(S2, b), b + 1) ELSE InOrder(S2, b)
          /\ InOrder(S, b + 1) = IF b + 1 \in S THEN Append(InOrder(S, b), b + 1) ELSE InOrder(S, b)
          /\ InOrder(S, b) \in Seq(1..b)
      BY <3>1, InOrderMore
    <3>3. InOrder(S, b) \in Seq(Nat)
      BY <3>1, <3>2
    <3> QED BY <3>1, <3>2, <3>3 DEF b
  <2>3. CASE m < s
    <3>1. m \notin S2 /\ m - 1 < s
      BY <2>3
    <3> QED BY <1>2, <2>1, <2>2, <2>3, <3>1
  <2>4. CASE m = s
    <3>1. m \in S2 /\ m - 1 < s /\ ~(m < s)
      BY <2>4
    <3>2. InOrder(S2, m) = <<s>>
      <4>1. InOrder(S2, m - 1) = <<>>
        BY <1>2, <3>1
      <4>2. Append(<<>>, s) = <<s>>
        OBVIOUS
      <4> QED BY <2>2, <2>4, <3>1, <4>1, <4>2
    <3>3. InOrder(S, m) = <<>>
      <4>1. \A k \in 1..m : k \notin S
        BY <2>4
      <4> QED BY <2>1, <4>1, InOrderNone
    <3>4. <<s>> \o <<>> = <<s>>
      OBVIOUS
    <3> QED BY <2>1, <3>1, <3>2, <3>3, <3>4
  <2>5. CASE m > s
    <3>1. ~(m - 1 < s) /\ ~(m < s) /\ (m \in S2 <=> m \in S)
      BY <2>5
    <3>2. InOrder(S2, m - 1) = <<s>> \o InOrder(S, m - 1)
      BY <1>2, <3>1
    <3>3. Append(<<s>> \o InOrder(S, m - 1), m) = <<s>> \o Append(InOrder(S, m - 1), m)
      <4> DEFINE o == InOrder(S, m - 1)
      <4>1. <<s>> \in Seq(Nat) /\ m \in Nat /\ o \in Seq(Nat)
        BY <2>1, <2>2
      <4> HIDE DEF S2, o
      <4>2. Append(<<s>> \o o, m) = <<s>> \o Append(o, m)
        BY <4>1, PushPiece
      <4> QED BY <4>2 DEF o
    <3> QED BY <2>1, <2>2, <3>1, <3>2, <3>3
  <2> QED BY <2>3, <2>4, <2>5
<1> HIDE DEF T
<1>3. \A m \in 0..n : m \in T
  BY <1>1, <1>2, UpTo
<1>4. n \in T /\ ~(n < s)
  BY <1>3
<1> QED BY <1>4 DEF T

LEMMA ReverseFirst ==
    ASSUME NEW A, NEW s \in Seq(A), NEW x \in A
    PROVE  Reverse(<<x>> \o s) = Append(Reverse(s), x) /\ Reverse(<<>>) = <<>>
<1> DEFINE n == Len(s)
           f == <<x>> \o s
           R == Reverse(s)
<1>1. /\ Len(f) = n + 1 /\ f[1] = x /\ \A k \in 1..n : f[k + 1] = s[k]
      /\ n \in Nat
  OBVIOUS
<1>2. R = [i \in 1..n |-> s[(n - i) + 1]] /\ Reverse(f) = [i \in 1..(n + 1) |-> f[((n + 1) - i) + 1]]
  BY <1>1 DEF Reverse
<1>3. Reverse(<<>>) = <<>>
  <2>1. Len(<<>>) = 0
    OBVIOUS
  <2>2. [i \in 1..0 |-> <<>>[(0 - i) + 1]] = <<>>
    OBVIOUS
  <2> QED BY <2>1, <2>2 DEF Reverse
<1>4. R \in Seq(A) /\ Len(R) = n
  <2>1. \A i \in 1..n : (n - i) + 1 \in 1..n
    BY <1>1
  <2>2. \A i \in 1..n : s[(n - i) + 1] \in A
    BY <2>1
  <2> HIDE DEF n, R
  <2> QED BY <1>1, <1>2, <2>2
<1>5. Append(R, x) = [i \in 1..(n + 1) |-> IF i = n + 1 THEN x ELSE R[i]]
  <2> HIDE DEF n, R
  <2> QED BY <1>4, AppendIs
<1>6. \A i \in 1..(n + 1) : f[((n + 1) - i) + 1] = IF i = n + 1 THEN x ELSE R[i]
  <2> SUFFICES ASSUME NEW i \in 1..(n + 1)
               PROVE  f[((n + 1) - i) + 1] = IF i = n + 1 THEN x ELSE R[i]
    OBVIOUS
  <2> HIDE DEF f, R, n
  <2>1. CASE i = n + 1
    <3>1. ((n + 1) - i) + 1 = 1
      BY <1>1, <2>1
    <3> QED BY <1>1, <2>1, <3>1
  <2>2. CASE i # n + 1
    <3>1. i \in 1..n /\ (n - i) + 1 \in 1..n /\ ((n + 1) - i) + 1 = ((n - i) + 1) + 1
      BY <1>1, <2>2
    <3>2. f[((n - i) + 1) + 1] = s[(n - i) + 1]
      BY <1>1, <3>1
    <3> QED BY <1>2, <2>2, <3>1, <3>2
  <2> QED BY <2>1, <2>2
<1> HIDE DEF f, R, n
<1> QED BY <1>2, <1>3, <1>5, <1>6 DEF f, R

LEMMA NodeDepth == \A n \in Node : n.depth \in Nat
BY BoundAssumption DEF Node

\* What is under a node is the node itself or under one of its children.
LEMMA UnderChild ==
    ASSUME NEW d \in Seq(Node), StringTree(d), NEW s \in 0..Len(d), NEW j \in 1..Len(d), s # j
    PROVE  UnderIn(d, s, j) <=> \E c \in KidsIn(d, s) : UnderIn(d, c, j)
<1> DEFINE N == Len(d)
           e == DepAt(d, s)
<1>1. N \in Nat /\ e \in Int /\ \A k \in 1..N : d[k].depth \in Nat
  <2>1. \A k \in 1..N : d[k].depth \in Nat
    BY NodeDepth
  <2> QED BY <2>1 DEF DepAt
<1>2. ASSUME UnderIn(d, s, j) PROVE \E c \in KidsIn(d, s) : UnderIn(d, c, j)
  <2>1. s < j /\ s + 1 \in 1..N /\ \A k \in (s + 1)..j : d[k].depth > e
    BY <1>1, <1>2 DEF UnderIn
  <2> DEFINE S == { k \in (s + 1)..j : d[k].depth = e + 1 }
             c == Max(S)
  <2>2. s + 1 \in S
    <3>1. s \in 0..(N - 1) /\ s + 1 \in (s + 1)..j
      BY <1>1, <2>1
    <3>2. d[s + 1].depth <= e + 1
      BY <3>1 DEF StringTree
    <3>3. d[s + 1].depth > e /\ d[s + 1].depth \in Nat
      BY <1>1, <2>1, <3>1
    <3> QED BY <1>1, <3>1, <3>2, <3>3
  <2>3. c \in S /\ \A y \in S : c >= y
    <3>1. j \in Int /\ S # {} /\ \A x \in S : x \in Int /\ x <= j
      BY <2>2
    <3> HIDE DEF S
    <3> QED BY <3>1, GreatestElement
  <2> HIDE DEF c
  <2>4. c \in (s + 1)..j /\ d[c].depth = e + 1 /\ c \in 1..N /\ c # 0
    BY <2>1, <2>3
  <2>5. c \in KidsIn(d, s)
    <3>1. c \in (s + 1)..Len(d)
      BY <2>4
    <3>2. \A k \in (s + 1)..c : k \in (s + 1)..j
      BY <2>4
    <3> QED BY <2>1, <2>4, <3>1, <3>2 DEF KidsIn
  <2>6. ASSUME NEW k \in (c + 1)..j PROVE d[k].depth > e + 1
    <3>1. k \in (s + 1)..j /\ k > c /\ k \in 1..N
      BY <2>1, <2>4
    <3>2. d[k].depth > e /\ d[k].depth \in Nat
      BY <1>1, <2>1, <3>1
    <3>3. d[k].depth # e + 1
      BY <2>3, <3>1
    <3> HIDE DEF e
    <3> QED BY <1>1, <3>2, <3>3
  <2>7. UnderIn(d, c, j)
    BY <2>4, <2>6 DEF UnderIn, DepAt
  <2> QED BY <2>5, <2>7
<1>3. ASSUME NEW c \in KidsIn(d, s), UnderIn(d, c, j) PROVE UnderIn(d, s, j)
  <2>1. /\ c \in (s + 1)..N /\ d[c].depth = e + 1 /\ c <= j /\ c # 0
        /\ \A k \in (s + 1)..c : d[k].depth > e
        /\ \A k \in (c + 1)..j : d[k].depth > e + 1
    BY <1>3 DEF KidsIn, UnderIn, DepAt
  <2>2. ASSUME NEW k \in (s + 1)..j PROVE d[k].depth > e
    <3>1. k \in (s + 1)..c \/ k \in (c + 1)..j
      BY <2>1
    <3>2. k \in 1..N
      BY <2>1
    <3> HIDE DEF e
    <3> QED BY <1>1, <2>1, <3>1, <3>2
  <2> QED BY <2>1, <2>2 DEF UnderIn
<1> QED BY <1>2, <1>3

\* Under one node and not under a later one: before the later one.
LEMMA UnderBefore ==
    ASSUME NEW d, NEW a \in Nat, NEW b \in Nat, NEW j \in Nat, a < b,
           UnderIn(d, a, j), ~UnderIn(d, a, b)
    PROVE  j < b
BY DEF UnderIn

\* A text has nothing under it but itself.
LEMMA TextAlone ==
    ASSUME NEW d \in Seq(Node), StringTree(d), NEW i \in TextsIn(d)
    PROVE  /\ \A j \in 1..Len(d) : UnderIn(d, i, j) <=> j = i
           /\ KidsIn(d, i) = {}
<1>1. i \in 1..Len(d) /\ d[i].tag = "t" /\ Len(d) \in Nat /\ DepAt(d, i) = d[i].depth
  BY DEF TextsIn, DepAt
<1>2. i + 1 \in 1..Len(d) => d[i + 1].depth <= d[i].depth /\ ~(d[i + 1].depth > DepAt(d, i))
  <2> SUFFICES ASSUME i + 1 \in 1..Len(d)
               PROVE  d[i + 1].depth <= d[i].depth /\ ~(d[i + 1].depth > DepAt(d, i))
    OBVIOUS
  <2>1. i \in 1..(Len(d) - 1) /\ d[i].depth \in Nat /\ d[i + 1].depth \in Nat
    BY <1>1, NodeDepth
  <2> QED BY <1>1, <2>1 DEF StringTree
<1>3. ASSUME NEW j \in 1..Len(d) PROVE UnderIn(d, i, j) <=> j = i
  <2>1. CASE j = i
    BY <1>1, <2>1 DEF UnderIn
  <2>2. CASE j # i
    <3>1. i < j => i + 1 \in (i + 1)..j /\ i + 1 \in 1..Len(d)
      BY <1>1
    <3> QED BY <1>1, <1>2, <2>2, <3>1 DEF UnderIn
  <2> QED BY <2>1, <2>2
<1>4. ASSUME NEW j \in KidsIn(d, i) PROVE FALSE
  <2>1. j \in (i + 1)..Len(d) /\ \A k \in (i + 1)..j : d[k].depth > DepAt(d, i)
    BY DEF KidsIn
  <2>2. i + 1 \in (i + 1)..j /\ i + 1 \in 1..Len(d)
    BY <1>1, <2>1
  <2> QED BY <1>2, <2>1, <2>2
<1> QED BY <1>3, <1>4

\* No node to visit is under another; a deeper call comes later on the stack.
Apart(d, st) ==
    /\ Rising(st)
    /\ \A p, q \in 1..Len(st) : p < q => ~UnderIn(d, st[p], st[q])
Pending(d, st, i) == \E p \in 1..Len(st) : UnderIn(d, st[p], i)
\* The texts up to m are to be visited, the later ones are in the text.
Behind(d, st, o, m) ==
    /\ \A i \in TextsIn(d) : Pending(d, st, i) <=> i <= m
    /\ o = Reverse(InOrder({ i \in TextsIn(d) : i > m }, Len(d)))

LEMMA FrontIs ==
    ASSUME NEW B, NEW st \in Seq(B), st # <<>>
    PROVE  /\ Front(st) \in Seq(B) /\ Len(Front(st)) = Len(st) - 1
           /\ \A p \in 1..(Len(st) - 1) : Front(st)[p] = st[p]
           /\ Last(st) = st[Len(st)] /\ Len(st) \in 1..Len(st) /\ Last(st) \in B
           /\ Len(st) \in Nat
<1>1. Len(st) \in 1..Len(st) /\ Len(st) - 1 \in Nat /\ 1 \in 1..(Len(st) + 1)
      /\ Len(st) - 1 \in (1 - 1)..Len(st) /\ Len(st) \in Nat
  OBVIOUS
<1>2. /\ SubSeq(st, 1, Len(st) - 1) \in Seq(B)
      /\ Len(SubSeq(st, 1, Len(st) - 1)) = Len(st) - 1
      /\ \A p \in 1..(Len(st) - 1) : SubSeq(st, 1, Len(st) - 1)[p] = st[p]
  <2> DEFINE n == Len(st) - 1
  <2>1. (\A p \in 1..n : st[p] \in B) /\ n \in Nat
    BY <1>1
  <2> HIDE DEF n
  <2>2. /\ SubSeq(st, 1, n) \in Seq(B) /\ Len(SubSeq(st, 1, n)) = IF 1 <= n THEN n - 1 + 1 ELSE 0
        /\ \A p \in 1..(n - 1 + 1) : SubSeq(st, 1, n)[p] = st[1 + p - 1]
    BY <2>1, SubSeqProperties
  <2>3. n - 1 + 1 = n /\ (\A p \in 1..n : 1 + p - 1 = p) /\ (~(1 <= n) => n = 0)
    BY <2>1
  <2>4. /\ SubSeq(st, 1, n) \in Seq(B) /\ Len(SubSeq(st, 1, n)) = n
        /\ \A p \in 1..n : SubSeq(st, 1, n)[p] = st[p]
    BY <2>2, <2>3
  <2> QED BY <2>4 DEF n
<1> QED BY <1>1, <1>2 DEF Front, Last

\* The text at the end of the stack.
LEMMA TextVisited ==
    ASSUME NEW d \in Seq(Node), StringTree(d), NEW st \in Seq(0..Len(d)), st # <<>>,
           Apart(d, st), NEW o, NEW m \in 0..Len(d), Behind(d, st, o, m),
           Last(st) \in TextsIn(d)
    PROVE  Apart(d, Front(st)) /\ Behind(d, Front(st), Append(o, Last(st)), Last(st) - 1)
<1> DEFINE N == Len(d)
           c == Last(st)
           F == Front(st)
           l == Len(st)
<1>1. N \in Nat /\ c \in 1..N /\ TextsIn(d) \subseteq 1..N
  BY DEF TextsIn
<1>2. /\ F \in Seq(0..N) /\ Len(F) = l - 1 /\ \A p \in 1..(l - 1) : F[p] = st[p]
      /\ c = st[l] /\ l \in 1..l /\ l \in Nat /\ \A p \in 1..l : st[p] \in 0..N
  <2>1. st \in Seq(0..N) /\ st # <<>> /\ \A p \in 1..l : st[p] \in 0..N
    OBVIOUS
  <2> HIDE DEF N
  <2>2. /\ Front(st) \in Seq(0..N) /\ Len(Front(st)) = Len(st) - 1
        /\ \A p \in 1..(Len(st) - 1) : Front(st)[p] = st[p]
        /\ Last(st) = st[Len(st)] /\ Len(st) \in 1..Len(st) /\ Len(st) \in Nat
    BY <2>1, FrontIs
  <2> QED BY <2>1, <2>2
<1>3. \A p \in 1..(l - 1) : p \in 1..l /\ p < l /\ st[p] < c /\ ~UnderIn(d, st[p], c)
  BY <1>2 DEF Apart, Rising
<1>4. \A i \in 1..N : UnderIn(d, c, i) <=> i = c
  BY TextAlone
<1> HIDE DEF c, F, l, N
<1>5. Apart(d, F)
  <2>1. \A p, q \in 1..l : p < q => st[p] < st[q] /\ ~UnderIn(d, st[p], st[q])
    BY DEF Apart, Rising, l
  <2>2. \A p \in 1..(l - 1) : p \in 1..l /\ F[p] = st[p]
    BY <1>2
  <2>3. \A p, q \in 1..(l - 1) : p < q => F[p] < F[q] /\ ~UnderIn(d, F[p], F[q])
    BY <2>1, <2>2
  <2> QED BY <1>2, <2>3 DEF Apart, Rising
<1>6. ASSUME NEW i \in TextsIn(d) PROVE Pending(d, st, i) <=> Pending(d, F, i) \/ i = c
  <2>1. i \in 1..N
    BY <1>1
  <2>2. \A p \in 1..l : p = l \/ p \in 1..(l - 1)
    BY <1>2
  <2> QED BY <1>2, <1>3, <1>4, <2>1, <2>2 DEF Pending, l
<1>7. ASSUME NEW i \in TextsIn(d), Pending(d, F, i) PROVE i < c
  <2>1. PICK p \in 1..(l - 1) : UnderIn(d, st[p], i)
    BY <1>2, <1>7 DEF Pending
  <2>2. st[p] < c /\ ~UnderIn(d, st[p], c) /\ st[p] \in 0..N
    BY <1>2, <1>3
  <2>3. c \in 1..N /\ i \in 1..N /\ N \in Nat
    BY <1>1
  <2>4. st[p] \in Nat /\ c \in Nat /\ i \in Nat
    <3> HIDE DEF Pending
    <3> QED BY <2>2, <2>3
  <2> QED BY <2>1, <2>2, <2>4, UnderBefore
<1>8. c \in TextsIn(d) /\ c <= m
  <2>1. UnderIn(d, c, c)
    BY <1>1, <1>4
  <2> QED BY <1>2, <2>1 DEF Behind, Pending, c, l
<1>9. ASSUME NEW i \in TextsIn(d) PROVE Pending(d, F, i) <=> i <= c - 1
  <2>1. i \in 1..N
    BY <1>1
  <2>2. i <= c - 1 => i <= m /\ i # c
    BY <1>1, <1>8, <2>1
  <2>3. i <= m => Pending(d, st, i)
    BY DEF Behind
  <2> QED BY <1>1, <1>6, <1>7, <2>1, <2>2, <2>3
<1> DEFINE later == { i \in TextsIn(d) : i > m }
<1>10. \A i \in 1..N : i \in { x \in TextsIn(d) : x > c - 1 } <=> i \in later \cup {c}
  <2> SUFFICES ASSUME NEW i \in 1..N
               PROVE  i \in { x \in TextsIn(d) : x > c - 1 } <=> i \in later \cup {c}
    OBVIOUS
  <2>1. ASSUME i \in TextsIn(d), i > c - 1 PROVE i > m \/ i = c
    <3>1. ~Pending(d, F, i)
      BY <1>1, <1>9, <2>1
    <3>2. Pending(d, st, i) <=> i <= m
      BY <2>1 DEF Behind
    <3> QED BY <1>6, <2>1, <3>1, <3>2
  <2>2. i > m => i > c - 1
    BY <1>1, <1>8
  <2> QED BY <1>1, <1>8, <2>1, <2>2
<1>11. InOrder({ x \in TextsIn(d) : x > c - 1 }, N) = <<c>> \o InOrder(later, N)
  <2>1. InOrder({ x \in TextsIn(d) : x > c - 1 }, N) = InOrder(later \cup {c}, N)
    BY <1>1, <1>10, InOrderAlike
  <2>2. \A x \in 1..N : x \in later => c < x
    BY <1>1, <1>8
  <2> HIDE DEF later
  <2>3. InOrder(later \cup {c}, N) = <<c>> \o InOrder(later, N)
    BY <1>1, <2>2, InOrderBelow
  <2> QED BY <2>1, <2>3
<1>12. Reverse(<<c>> \o InOrder(later, N)) = Append(Reverse(InOrder(later, N)), c)
  <2> HIDE DEF later
  <2>1. InOrder(later, N) \in Seq(1..N)
    BY <1>1, InOrderMore
  <2> QED BY <1>1, <2>1, ReverseFirst
<1>13. Append(o, c) = Reverse(InOrder({ x \in TextsIn(d) : x > c - 1 }, N))
  BY <1>11, <1>12 DEF Behind, N
<1> QED BY <1>5, <1>9, <1>13 DEF Behind, c, F, N

\* A node that is no text makes way for its children.
LEMMA NodeVisited ==
    ASSUME NEW d \in Seq(Node), StringTree(d), NEW st \in Seq(0..Len(d)), st # <<>>,
           Apart(d, st), NEW o, NEW m, Behind(d, st, o, m), Last(st) \notin TextsIn(d)
    PROVE  LET st2 == Front(st) \o InOrder(KidsIn(d, Last(st)), Len(d))
           IN  Apart(d, st2) /\ Behind(d, st2, o, m)
<1> DEFINE N == Len(d)
           c == Last(st)
           F == Front(st)
           l == Len(st)
           K == InOrder(KidsIn(d, c), N)
           st2 == F \o K
<1>1. N \in Nat /\ TextsIn(d) \subseteq 1..N /\ c \notin TextsIn(d)
  BY DEF TextsIn
<1>2. /\ F \in Seq(0..N) /\ Len(F) = l - 1 /\ \A p \in 1..(l - 1) : F[p] = st[p]
      /\ c = st[l] /\ l \in 1..l /\ l \in Nat /\ \A p \in 1..l : st[p] \in 0..N
  <2>1. st \in Seq(0..N) /\ st # <<>> /\ \A p \in 1..l : st[p] \in 0..N
    OBVIOUS
  <2> HIDE DEF N
  <2>2. /\ Front(st) \in Seq(0..N) /\ Len(Front(st)) = Len(st) - 1
        /\ \A p \in 1..(Len(st) - 1) : Front(st)[p] = st[p]
        /\ Last(st) = st[Len(st)] /\ Len(st) \in 1..Len(st) /\ Len(st) \in Nat
    BY <2>1, FrontIs
  <2> QED BY <2>1, <2>2
<1>3. \A p \in 1..(l - 1) : p \in 1..l /\ p < l /\ st[p] < c /\ ~UnderIn(d, st[p], c)
  BY <1>2 DEF Apart, Rising
<1>4. /\ K \in Seq(1..N) /\ Rising(K)
      /\ \A x : x \in ToSet(K) <=> x \in KidsIn(d, c) /\ x \in 1..N
  BY <1>1, InOrderMore, InOrderRises
<1>5. \A x \in KidsIn(d, c) : /\ x \in 1..N /\ c < x /\ x # 0 /\ d[x].depth = DepAt(d, c) + 1
  BY <1>1, <1>2 DEF KidsIn
<1> HIDE DEF K
<1>6. /\ st2 \in Seq(0..N) /\ Len(st2) = (l - 1) + Len(K) /\ Len(K) \in Nat
      /\ \A p \in 1..(l - 1) : st2[p] = st[p]
      /\ \A p \in 1..Len(K) : st2[(l - 1) + p] = K[p] /\ K[p] \in KidsIn(d, c)
  <2>1. K \in Seq(0..N)
    BY <1>4
  <2>2. \A p \in 1..Len(K) : K[p] \in KidsIn(d, c)
    BY <1>4 DEF ToSet
  <2> HIDE DEF F, l, N, c
  <2>3. /\ st2 \in Seq(0..N) /\ Len(st2) = Len(F) + Len(K)
        /\ \A p \in 1..(Len(F) + Len(K)) : st2[p] = IF p <= Len(F) THEN F[p] ELSE K[p - Len(F)]
    BY <1>2, <2>1, ConcatProperties
  <2> HIDE DEF st2
  <2>4. Len(K) \in Nat /\ l - 1 \in Nat
    BY <1>2, <2>1
  <2>5. \A p \in 1..(l - 1) : p \in 1..(Len(F) + Len(K)) /\ p <= Len(F)
    BY <1>2, <2>4
  <2>6. ASSUME NEW p \in 1..Len(K) PROVE st2[(l - 1) + p] = K[p]
    <3> DEFINE a == l - 1
    <3>1. a \in Nat /\ Len(F) = a
      BY <1>2, <2>4
    <3> HIDE DEF a
    <3>2. a + p \in 1..(a + Len(K)) /\ ~(a + p <= a) /\ (a + p) - a = p
      BY <2>4, <3>1
    <3>3. st2[a + p] = K[p]
      BY <2>3, <3>1, <3>2
    <3> QED BY <3>3 DEF a
  <2> QED BY <1>2, <2>2, <2>3, <2>4, <2>5, <2>6
<1> HIDE DEF c, F, l, N, st2
<1>7. \A p \in 1..Len(st2) : p \in 1..(l - 1) \/ \E q \in 1..Len(K) : p = (l - 1) + q
  <2> SUFFICES ASSUME NEW p \in 1..Len(st2), p \notin 1..(l - 1)
               PROVE  \E q \in 1..Len(K) : p = (l - 1) + q
    OBVIOUS
  <2>1. p - (l - 1) \in 1..Len(K) /\ p = (l - 1) + (p - (l - 1))
    BY <1>2, <1>6
  <2> QED BY <2>1
<1>8. ASSUME NEW p \in 1..Len(st2), NEW q \in 1..Len(st2), p < q
      PROVE  st2[p] < st2[q] /\ ~UnderIn(d, st2[p], st2[q])
  <2>1. CASE q \in 1..(l - 1)
    <3>1. p \in 1..(l - 1) /\ p \in 1..l /\ q \in 1..l
      BY <1>2, <1>8, <2>1
    <3> QED BY <1>6, <1>8, <2>1, <3>1 DEF Apart, Rising, l
  <2>2. CASE q \notin 1..(l - 1)
    <3>1. PICK b \in 1..Len(K) : q = (l - 1) + b
      BY <1>7, <2>2
    <3>2. st2[q] = K[b] /\ K[b] \in 1..N /\ c < K[b] /\ K[b] \in KidsIn(d, c)
      BY <1>5, <1>6, <3>1
    <3>3. CASE p \in 1..(l - 1)
      <4>1. st[p] < c /\ ~UnderIn(d, st[p], c) /\ st2[p] = st[p] /\ st[p] \in 0..N /\ c \in 0..N
        BY <1>2, <1>3, <1>6, <3>3
      <4>2. UnderIn(d, st[p], K[b]) => UnderIn(d, st[p], c)
        BY <3>2, <4>1, SMTT(30) DEF UnderIn
      <4> QED BY <3>2, <4>1, <4>2
    <3>4. CASE p \notin 1..(l - 1)
      <4>1. PICK a \in 1..Len(K) : p = (l - 1) + a
        BY <1>7, <3>4
      <4>2. a < b
        BY <1>2, <1>6, <1>8, <3>1, <4>1
      <4>3. st2[p] = K[a] /\ K[a] < K[b] /\ K[a] \in 1..N /\ K[a] # 0
        BY <1>4, <1>5, <1>6, <4>1, <4>2 DEF Rising
      <4>4. d[K[a]].depth = DepAt(d, c) + 1 /\ d[K[b]].depth = DepAt(d, c) + 1
        BY <1>5, <1>6
      <4>5. DepAt(d, c) + 1 \in Nat
        <5>1. d[K[a]] \in Node
          BY <4>3 DEF N
        <5> QED BY <4>4, <5>1, NodeDepth
      <4>6. ~UnderIn(d, K[a], K[b])
        <5>1. K[b] \in (K[a] + 1)..K[b]
          BY <3>2, <4>3
        <5>2. ~(d[K[b]].depth > DepAt(d, K[a]))
          BY <4>3, <4>4, <4>5 DEF DepAt
        <5> QED BY <5>1, <5>2 DEF UnderIn
      <4> QED BY <3>2, <4>3, <4>6
    <3> QED BY <3>3, <3>4
  <2> QED BY <2>1, <2>2
<1>9. ASSUME NEW i \in TextsIn(d) PROVE Pending(d, st2, i) <=> Pending(d, st, i)
  <2>1. i \in 1..N /\ c # i /\ c \in 0..N
    BY <1>1, <1>2
  <2>2. UnderIn(d, c, i) <=> \E x \in KidsIn(d, c) : UnderIn(d, x, i)
    BY <2>1, UnderChild DEF N
  <2>3. (\E x \in KidsIn(d, c) : UnderIn(d, x, i)) <=> \E p \in 1..Len(K) : UnderIn(d, K[p], i)
    <3>1. \A x \in KidsIn(d, c) : \E p \in 1..Len(K) : K[p] = x
      BY <1>4, <1>5 DEF ToSet
    <3> QED BY <1>6, <3>1
  <2>4. Pending(d, st, i) <=> (\E p \in 1..(l - 1) : UnderIn(d, st[p], i)) \/ UnderIn(d, c, i)
    <3>1. \A p \in 1..l : p = l \/ p \in 1..(l - 1)
      BY <1>2
    <3> QED BY <1>2, <1>3, <3>1 DEF Pending, l
  <2>5. Pending(d, st2, i) <=> \/ \E p \in 1..(l - 1) : UnderIn(d, st[p], i)
                               \/ \E p \in 1..Len(K) : UnderIn(d, K[p], i)
    <3>1. /\ \A p \in 1..(l - 1) : p \in 1..Len(st2)
          /\ \A p \in 1..Len(K) : (l - 1) + p \in 1..Len(st2)
      BY <1>2, <1>6
    <3>2. (\E p \in 1..(l - 1) : UnderIn(d, st[p], i)) => Pending(d, st2, i)
      BY <1>6, <3>1 DEF Pending
    <3>3. (\E p \in 1..Len(K) : UnderIn(d, K[p], i)) => Pending(d, st2, i)
      BY <1>6, <3>1 DEF Pending
    <3>4. ASSUME NEW p \in 1..Len(st2), UnderIn(d, st2[p], i)
          PROVE  \/ \E x \in 1..(l - 1) : UnderIn(d, st[x], i)
                 \/ \E x \in 1..Len(K) : UnderIn(d, K[x], i)
      BY <1>6, <1>7, <3>4
    <3> QED BY <3>2, <3>3, <3>4 DEF Pending
  <2> QED BY <2>2, <2>3, <2>4, <2>5
<1>10. Apart(d, st2)
  BY <1>8 DEF Apart, Rising
<1>11. Behind(d, st2, o, m)
  BY <1>9 DEF Behind
<1> QED BY <1>10, <1>11 DEF st2, F, K, c, N

\* The item under the cursor is a tree; the texts that no node of the stack
\* still leads to are in the text, from the last to the first.
StringInv ==
    /\ stage \in {"string", "concat"} => StringTree(doc)
    /\ stage = "concat" => /\ Apart(doc, stack)
                           /\ \E m \in 0..Len(doc) : Behind(doc, stack, out, m)

\* A node more.
LEMMA TreeGrows ==
    ASSUME NEW d \in Seq(Node), StringTree(d), NEW n \in Node,
           1 <= n.depth, n.depth <= DepAt(d, Len(d)) + 1,
           Len(d) > 0 /\ d[Len(d)].tag = "t" => n.depth <= d[Len(d)].depth
    PROVE  StringTree(Append(d, n))
<1> DEFINE N == Len(d)
           d2 == Append(d, n)
<1>1. /\ N \in Nat /\ Len(d2) = N + 1 /\ d2[N + 1] = n /\ \A i \in 1..N : d2[i] = d[i]
  OBVIOUS
<1> HIDE DEF d2
<1>2. \A i \in 0..N : DepAt(d2, i) = DepAt(d, i)
  BY <1>1 DEF DepAt
<1>3. ASSUME NEW i \in 1..(N + 1) PROVE d2[i].depth >= 1
  <2>1. CASE i = N + 1
    BY <1>1, <2>1, NodeDepth
  <2>2. CASE i # N + 1
    <3>1. i \in 1..N
      BY <2>2
    <3> QED BY <1>1, <3>1 DEF StringTree
  <2> QED BY <2>1, <2>2
<1>4. ASSUME NEW i \in 0..N PROVE d2[i + 1].depth <= DepAt(d2, i) + 1
  <2>1. CASE i = N
    BY <1>1, <1>2, <2>1
  <2>2. CASE i # N
    <3>1. i \in 0..(N - 1) /\ i + 1 \in 1..N
      BY <1>1, <2>2
    <3>2. d[i + 1].depth <= DepAt(d, i) + 1
      BY <3>1 DEF StringTree
    <3> QED BY <1>1, <1>2, <3>1, <3>2
  <2> QED BY <2>1, <2>2
<1>5. ASSUME NEW i \in 1..N, d2[i].tag = "t" PROVE d2[i + 1].depth <= d2[i].depth
  <2>1. CASE i = N
    BY <1>1, <1>5, <2>1
  <2>2. CASE i # N
    <3>1. i \in 1..(N - 1) /\ i + 1 \in 1..N /\ i \in 1..N
      BY <1>1, <2>2
    <3>2. d[i].tag = "t" => d[i + 1].depth <= d[i].depth
      BY <3>1 DEF StringTree
    <3> QED BY <1>1, <1>5, <3>1, <3>2
  <2> QED BY <2>1, <2>2
<1>6. (N + 1) - 1 = N
  BY <1>1
<1> QED BY <1>1, <1>3, <1>4, <1>5, <1>6 DEF StringTree, d2

LEMMA StringGrows ==
    ASSUME TreeInv, StringInv, NEW n \in Node, GrowString(n) PROVE StringInv'
<1>1. /\ stage = "string" /\ stage' = "string" /\ doc' = Append(doc, n)
      /\ n.depth \in 1..(IF doc = <<>> THEN 1 ELSE Last(doc).depth + 1)
      /\ n.tag \in StringTags(Parent(n.depth))
  BY DEF GrowString
<1>2. doc \in Seq(Node) /\ StringTree(doc) /\ Len(doc) \in Nat
  BY <1>1 DEF TreeInv, StringInv
<1>3. n.depth \in Nat /\ 1 <= n.depth /\ n.depth <= DepAt(doc, Len(doc)) + 1
  <2>1. CASE doc = <<>>
    BY <1>1, <2>1, NodeDepth DEF DepAt
  <2>2. CASE doc # <<>>
    <3>1. Len(doc) # 0 /\ Len(doc) \in 1..Len(doc)
      BY <1>2, <2>2
    <3>2. Last(doc) = doc[Len(doc)] /\ doc[Len(doc)].depth \in Nat
      BY <1>2, <3>1, NodeDepth DEF Last
    <3> QED BY <1>1, <2>2, <3>1, <3>2 DEF DepAt
  <2> QED BY <2>1, <2>2
<1>4. ASSUME Len(doc) > 0, doc[Len(doc)].tag = "t" PROVE n.depth <= doc[Len(doc)].depth
  <2>1. Len(doc) \in 1..Len(doc) /\ DepAt(doc, Len(doc)) = doc[Len(doc)].depth
        /\ doc[Len(doc)].depth \in Nat /\ doc[Len(doc)].depth >= 1
    BY <1>2, <1>4, NodeDepth DEF DepAt, StringTree
  <2> SUFFICES ASSUME n.depth = doc[Len(doc)].depth + 1 PROVE FALSE
    BY <1>3, <2>1
  <2> DEFINE S == { i \in DOMAIN doc : doc[i].depth = n.depth - 1 }
  <2>2. Len(doc) \in S /\ \A x \in S : x \in Int /\ x <= Len(doc)
    BY <1>2, <2>1
  <2>3. Max(S) = Len(doc)
    <3> HIDE DEF S
    <3>1. Max(S) \in S /\ \A y \in S : Max(S) >= y
      BY <1>2, <2>2, GreatestElement
    <3>2. Max(S) <= Len(doc) /\ Max(S) >= Len(doc) /\ Max(S) \in Int
      BY <2>2, <3>1
    <3> QED BY <1>2, <3>2
  <2>4. Parent(n.depth) = doc[Max(S)].tag
    <3>1. n.depth # 1
      BY <2>1
    <3> QED BY <3>1 DEF Parent
  <2>5. StringTags("t") = {}
    BY DEF StringTags
  <2> HIDE DEF S
  <2> QED BY <1>1, <1>4, <2>3, <2>4, <2>5
<1>5. StringTree(Append(doc, n))
  BY <1>2, <1>3, <1>4, TreeGrows
<1> QED BY <1>1, <1>5 DEF StringInv

LEMMA StringOpens == ASSUME TreeInv, StringInv, StartConcat PROVE StringInv'
<1>1. /\ stage = "string" /\ stage' = "concat" /\ stack' = <<0>> /\ out' = <<>> /\ doc' = doc
  BY DEF StartConcat
<1>2. doc \in Seq(Node) /\ StringTree(doc) /\ Len(doc) \in Nat
  BY <1>1 DEF TreeInv, StringInv
<1> DEFINE st == <<0>>
<1>3. Len(st) = 1 /\ st[1] = 0
  OBVIOUS
<1> HIDE DEF st
<1>4. Apart(doc, st)
  BY <1>3 DEF Apart, Rising
<1>5. ASSUME NEW i \in TextsIn(doc) PROVE Pending(doc, st, i) /\ i <= Len(doc)
  <2>1. i \in 1..Len(doc)
    BY DEF TextsIn
  <2>2. \A k \in 1..i : doc[k].depth > 0
    <3> SUFFICES ASSUME NEW k \in 1..i PROVE doc[k].depth > 0
      OBVIOUS
    <3>1. k \in 1..Len(doc)
      BY <2>1
    <3>2. doc[k].depth >= 1 /\ doc[k].depth \in Nat
      BY <1>2, <3>1, NodeDepth DEF StringTree
    <3> QED BY <3>2
  <2>3. UnderIn(doc, 0, i)
    BY <2>1, <2>2 DEF UnderIn, DepAt
  <2> QED BY <1>3, <2>1, <2>3 DEF Pending
<1>6. InOrder({ i \in TextsIn(doc) : i > Len(doc) }, Len(doc)) = <<>>
  <2>1. \A k \in 1..Len(doc) : k \notin { i \in TextsIn(doc) : i > Len(doc) }
    BY <1>2
  <2> QED BY <1>2, <2>1, InOrderNone
<1>7. Reverse(<<>>) = <<>>
  <2>1. <<>> \in Seq(Nat) /\ 0 \in Nat
    OBVIOUS
  <2> QED BY <2>1, ReverseFirst
<1>8. Behind(doc, st, <<>>, Len(doc))
  BY <1>5, <1>6, <1>7 DEF Behind
<1>9. Len(doc) \in 0..Len(doc)
  BY <1>2
<1> QED BY <1>1, <1>2, <1>4, <1>8, <1>9 DEF StringInv, st

LEMMA StringGoesOn == ASSUME TreeInv, BookTypes, StringInv, Concat PROVE StringInv'
<1> DEFINE c == Last(stack)
<1>1. /\ stage = "concat" /\ stage' = "concat" /\ stack # <<>> /\ doc' = doc
      /\ stack' = Front(stack) \o ChildrenOf(c)
      /\ out' = IF c > 0 /\ doc[c].tag = "t" THEN Append(out, c) ELSE out
  BY DEF Concat
<1>2. doc \in Seq(Node) /\ StringTree(doc) /\ Len(doc) \in Nat /\ stack \in Seq(0..Len(doc))
  BY <1>1 DEF TreeInv, StringInv, BookTypes
<1>3. c \in 0..Len(doc)
  <2> DEFINE B == 0..Len(doc)
  <2> HIDE DEF B
  <2>1. stack \in Seq(B)
    BY <1>2 DEF B
  <2>2. Last(stack) \in B
    BY <1>1, <2>1, FrontIs
  <2> QED BY <2>2 DEF B
<1>4. Apart(doc, stack)
  BY <1>1 DEF StringInv
<1>5. PICK m \in 0..Len(doc) : Behind(doc, stack, out, m)
  BY <1>1 DEF StringInv
<1>6. ChildrenOf(c) = InOrder(KidsIn(doc, c), Len(doc))
  BY DEF ChildrenOf, KidsIn, DepAt
<1>7. c > 0 /\ doc[c].tag = "t" <=> c \in TextsIn(doc)
  BY <1>2, <1>3 DEF TextsIn
<1>8. CASE c \in TextsIn(doc)
  <2>1. Apart(doc, Front(stack)) /\ Behind(doc, Front(stack), Append(out, c), c - 1)
    BY <1>1, <1>2, <1>4, <1>5, <1>8, TextVisited
  <2>2. KidsIn(doc, c) = {}
    BY <1>2, <1>8, TextAlone
  <2>3. ChildrenOf(c) = <<>>
    <3>1. \A k \in 1..Len(doc) : k \notin KidsIn(doc, c)
      BY <2>2
    <3> QED BY <1>2, <1>6, <3>1, InOrderNone
  <2>4. Front(stack) \o <<>> = Front(stack)
    <3>1. Front(stack) \in Seq(0..Len(doc))
      <4> DEFINE B == 0..Len(doc)
      <4> HIDE DEF B
      <4>1. stack \in Seq(B)
        BY <1>2 DEF B
      <4>2. Front(stack) \in Seq(B)
        BY <1>1, <4>1, FrontIs
      <4> QED BY <4>2 DEF B
    <3> QED BY <3>1, ConcatEmptySeq
  <2>5. c - 1 \in 0..Len(doc)
    BY <1>2, <1>3, <1>7, <1>8
  <2>6. stack' = Front(stack) /\ out' = Append(out, c)
    BY <1>1, <1>7, <1>8, <2>3, <2>4
  <2> HIDE DEF c
  <2> QED BY <1>1, <1>2, <2>1, <2>5, <2>6 DEF StringInv
<1>9. CASE c \notin TextsIn(doc)
  <2> DEFINE st2 == Front(stack) \o InOrder(KidsIn(doc, c), Len(doc))
  <2>1. Apart(doc, st2) /\ Behind(doc, st2, out, m)
    BY <1>1, <1>2, <1>4, <1>5, <1>9, NodeVisited
  <2>2. stack' = st2 /\ out' = out
    BY <1>1, <1>6, <1>7, <1>9
  <2> HIDE DEF c, st2
  <2> QED BY <1>1, <1>2, <1>5, <2>1, <2>2 DEF StringInv
<1> QED BY <1>8, <1>9

\* When nothing is left to visit, the text is whole.
LEMMA StringDone ==
    ASSUME TreeInv, BookTypes, StringInv, StringsShown, AddString
    PROVE  StringInv' /\ StringsShown'
<1>1. /\ stage = "concat" /\ stack = <<>> /\ stage' = "string" /\ doc' = <<>>
      /\ sst' = Append(sst, out) /\ strings' = Append(strings, doc)
  BY DEF AddString
<1>2. doc \in Seq(Node) /\ Len(doc) \in Nat /\ strings \in Seq(Seq(Node))
  BY DEF TreeInv, BookTypes
<1>3. PICK m \in 0..Len(doc) : Behind(doc, stack, out, m)
  BY <1>1 DEF StringInv
<1>4. Len(stack) = 0 /\ 1..0 = {}
  BY <1>1
<1>5. \A i \in TextsIn(doc) : i > m
  <2> SUFFICES ASSUME NEW i \in TextsIn(doc) PROVE i > m
    OBVIOUS
  <2>1. ~(i <= m)
    BY <1>3, <1>4 DEF Behind, Pending
  <2>2. i \in 1..Len(doc)
    BY DEF TextsIn
  <2> QED BY <2>1, <2>2
<1>6. out = Whole(doc)
  <2> DEFINE late == { i \in TextsIn(doc) : i > m }
             all == { i \in DOMAIN doc : doc[i].tag = "t" }
  <2>1. DOMAIN doc = 1..Len(doc)
    BY <1>2
  <2>2. late = all
    BY <1>5, <2>1 DEF TextsIn
  <2> QED BY <1>3, <2>2 DEF Behind, Whole
<1>7. StringsShown'
  <2> DEFINE n == Len(strings)
             B == { Whole(strings[k]) : k \in 1..n }
  <2>1. n \in Nat /\ DOMAIN strings = 1..n /\ \A k \in 1..n : Whole(strings[k]) \in B
    BY <1>2
  <2>2. /\ DOMAIN strings' = 1..(n + 1) /\ strings'[n + 1] = doc
        /\ \A k \in 1..n : strings'[k] = strings[k]
    BY <1>1, <1>2, <2>1
  <2>3. sst = [k \in 1..n |-> Whole(strings[k])]
    BY <2>1 DEF StringsShown
  <2> HIDE DEF B
  <2>4. sst \in Seq(B) /\ Len(sst) = n
    BY <2>1, <2>3
  <2> HIDE DEF n
  <2>5. Append(sst, out) = [k \in 1..(n + 1) |-> IF k = n + 1 THEN out ELSE sst[k]]
    BY <2>4, AppendIs
  <2>6. \A k \in 1..(n + 1) : (IF k = n + 1 THEN out ELSE sst[k]) = Whole(strings'[k])
    <3> SUFFICES ASSUME NEW k \in 1..(n + 1)
                 PROVE  (IF k = n + 1 THEN out ELSE sst[k]) = Whole(strings'[k])
      OBVIOUS
    <3>1. CASE k = n + 1
      BY <1>6, <2>2, <3>1
    <3>2. CASE k # n + 1
      <4>1. k \in 1..n
        BY <2>1, <3>2
      <4> QED BY <2>2, <2>3, <3>2, <4>1
    <3> QED BY <3>1, <3>2
  <2>7. sst' = [k \in 1..(n + 1) |-> Whole(strings'[k])]
    BY <1>1, <2>5, <2>6
  <2> QED BY <2>2, <2>7 DEF StringsShown
<1>8. StringInv'
  <2>1. Len(<<>>) = 0
    OBVIOUS
  <2>2. StringTree(<<>>)
    BY <2>1 DEF StringTree
  <2> QED BY <1>1, <2>2 DEF StringInv
<1> QED BY <1>7, <1>8

-----------------------------------------------------------------------------
\* The workbook.

BookShown == StringInv /\ StringsShown /\ SheetsShown

\* A step that reads nothing of a workbook.
LEMMA BookUntouched ==
    ASSUME BookShown, UNCHANGED bookVars,
           stage' \in {"string", "concat"} => StringTree(doc'), stage' # "concat"
    PROVE  BookShown'
<1>1. sst' = sst /\ strings' = strings /\ entries' = entries /\ sheets' = sheets
  BY DEF bookVars
<1>2. StringsShown' /\ SheetsShown'
  BY <1>1 DEF BookShown, StringsShown, SheetsShown
<1>3. StringInv'
  BY DEF StringInv
<1> QED BY <1>2, <1>3 DEF BookShown

LEMMA BookAddsString ==
    ASSUME TreeInv, BookTypes, BookShown, AddString PROVE BookShown'
<1>1. StringInv' /\ StringsShown'
  BY StringDone DEF BookShown
<1>2. entries = <<>> /\ entries' = entries /\ sheets' = sheets
  BY DEF AddString, BookTypes
<1>3. Len(entries) = 0 /\ Len(entries') = 0
  BY <1>2
<1>4. \A S, F : Chosen(S, 0, F) = <<>>
  <2> SUFFICES ASSUME NEW S, NEW F PROVE Chosen(S, 0, F) = <<>>
    OBVIOUS
  <2>1. 0 \in Nat
    OBVIOUS
  <2> QED BY <2>1, ChosenMore
<1>5. SheetsShown'
  BY <1>2, <1>3, <1>4 DEF BookShown, SheetsShown
<1> QED BY <1>1, <1>5 DEF BookShown

LEMMA BookShownStep ==
    StageInv /\ TreeInv /\ BookTypes /\ BookShown /\ [WalkNext]_walkVars => BookShown'
<1> SUFFICES ASSUME StageInv, TreeInv, BookTypes, BookShown, [WalkNext]_walkVars PROVE BookShown'
  OBVIOUS
<1>1. CASE FindPart \/ RejectPackage
  <2>1. doc' = <<>> /\ UNCHANGED bookVars
    BY <1>1 DEF FindPart, RejectPackage, StageInv
  <2>4. stage' # "concat"
    <3>1. CASE RejectPackage
      BY <3>1 DEF RejectPackage
    <3>2. CASE FindPart
      <4>1. PICK present \in SUBSET {"word", "xl", "ppt"},
                 rel \in {"docx", "xlsx", "pptx", "other"}, root \in BOOLEAN :
              /\ type' = TypeOf(present, rel)
              /\ stage' = CASE type' = "unknown" -> "failed"
                            [] type' = "docx" -> IF root THEN "walk" ELSE "failed"
                            [] type' = "pptx" -> "walk"
                            [] type' = "xlsx" -> IF root THEN "string" ELSE "done"
        BY <3>2 DEF FindPart
      <4>2. type' \in {"unknown", "docx", "xlsx", "pptx"}
        BY <4>1 DEF TypeOf
      <4> QED BY <4>1, <4>2
    <3> QED BY <1>1, <3>1, <3>2
  <2>2. Len(<<>>) = 0
    OBVIOUS
  <2>3. StringTree(<<>>)
    BY <2>2 DEF StringTree
  <2> QED BY <2>1, <2>3, <2>4, BookUntouched
<1>2. CASE \/ \E n \in Node : BreakPage(n) \/ BeginParagraph(n) \/ AddText(n) \/ PassThrough(n)
           \/ OpenSlide \/ EndWalk \/ EndBook
  <2>1. stage' \in {"walk", "undefined", "done"} /\ UNCHANGED bookVars
    BY <1>2 DEF BreakPage, BeginParagraph, AddText, PassThrough, Visit, OpenSlide, EndWalk, EndBook
  <2> QED BY <2>1, BookUntouched
<1>3. CASE Finished \/ UNCHANGED walkVars
  <2>1. UNCHANGED walkVars
    BY <1>3 DEF Finished
  <2>2. /\ stage' = stage /\ doc' = doc /\ stack' = stack /\ out' = out /\ sst' = sst
        /\ strings' = strings /\ entries' = entries /\ sheets' = sheets
    BY <2>1 DEF walkVars, concatVars, bookVars
  <2>3. StringInv' <=> StringInv
    BY <2>2 DEF StringInv
  <2>4. StringsShown' /\ SheetsShown'
    BY <2>2 DEF BookShown, StringsShown, SheetsShown
  <2> QED BY <2>3, <2>4 DEF BookShown
<1>4. CASE (\E n \in Node : GrowString(n)) \/ StartConcat \/ Concat
  <2>1. sst' = sst /\ strings' = strings /\ entries' = entries /\ sheets' = sheets
    BY <1>4 DEF GrowString, StartConcat, Concat, bookVars
  <2>2. StringInv'
    BY <1>4, StringGrows, StringOpens, StringGoesOn DEF BookShown
  <2> QED BY <2>1, <2>2 DEF BookShown, StringsShown, SheetsShown
<1>5. CASE AddString
  BY <1>5, BookAddsString
<1>6. CASE (\E found \in BOOLEAN : OpenSheet(found)) \/ ReadRow \/ (\E c \in Cell : ReadCell(c))
  <2>1. SheetsShown'
    BY <1>6, SheetsOpen, SheetsRow, SheetsCell DEF BookShown
  <2>2. sst' = sst /\ strings' = strings /\ stage' = "sheet"
    BY <1>6 DEF OpenSheet, ReadRow, ReadCell, InSheet
  <2>3. StringsShown'
    BY <2>2 DEF BookShown, StringsShown
  <2>4. StringInv'
    BY <2>2 DEF StringInv
  <2> QED BY <2>1, <2>3, <2>4 DEF BookShown
<1> QED BY <1>1, <1>2, <1>3, <1>4, <1>5, <1>6 DEF WalkNext

LEMMA BookShownInvariant == WalkSpec => []BookShown
<1>1. WalkInit => BookShown
  <2> SUFFICES ASSUME WalkInit PROVE BookShown
    OBVIOUS
  <2>1. stage = "find" /\ sst = <<>> /\ strings = <<>> /\ sheets = <<>> /\ entries = <<>>
    BY DEF WalkInit
  <2>2. Len(<<>>) = 0 /\ DOMAIN <<>> = 1..0 /\ 0 \in Nat
    OBVIOUS
  <2>3. StringInv
    BY <2>1 DEF StringInv
  <2>4. StringsShown
    <3>1. [k \in 1..0 |-> Whole(<<>>[k])] = <<>>
      OBVIOUS
    <3> QED BY <2>1, <2>2, <3>1 DEF StringsShown
  <2>5. SheetsShown
    <3>1. \A S, F : Chosen(S, 0, F) = <<>>
      BY <2>2, ChosenMore
    <3> QED BY <2>1, <2>2, <3>1 DEF SheetsShown
  <2> QED BY <2>3, <2>4, <2>5 DEF BookShown
<1>2. WalkInv /\ BookShown /\ [WalkNext]_walkVars => BookShown'
  BY BookShownStep DEF WalkInv
<1> QED BY <1>1, <1>2, WalkInvariant, PTL DEF WalkSpec

LEMMA BookIs == WalkInv /\ BookShown => WorkbookAsSpecified
<1> SUFFICES ASSUME BookTypes, BookShown PROVE WorkbookAsSpecified
  BY DEF WalkInv
<1> DEFINE found == InOrder({k \in DOMAIN entries : entries[k].found}, Len(entries))
<1>1. /\ entries \in Seq(Entry) /\ Len(entries) \in Nat /\ DOMAIN entries = 1..Len(entries)
  BY DEF BookTypes
<1>2. found \in Seq(1..Len(entries)) /\ found = InOrder(FoundOnes(entries), Len(entries))
  BY <1>1, InOrderMore DEF FoundOnes
<1> HIDE DEF found
<1>3. \A s \in DOMAIN found : found[s] \in DOMAIN entries
  BY <1>1, <1>2
<1>4. sheets = [s \in DOMAIN found |-> SheetOf(strings, entries, found[s])]
  <2> DEFINE F == [k \in DOMAIN entries |-> SheetOf(strings, entries, k)]
  <2>1. sheets = Chosen(FoundOnes(entries), Len(entries), F)
    BY DEF BookShown, SheetsShown
  <2>2. \A k \in DOMAIN entries : F[k] = SheetOf(strings, entries, k)
    OBVIOUS
  <2> HIDE DEF F
  <2>3. sheets = [s \in DOMAIN found |-> F[found[s]]]
    BY <1>2, <2>1 DEF Chosen
  <2> QED BY <1>3, <2>2, <2>3
<1>5. sheets = [s \in DOMAIN found |->
                  [name |-> found[s],
                   rows |-> [r \in DOMAIN entries[found[s]].rows |->
                                [c \in DOMAIN entries[found[s]].rows[r] |->
                                    ShownAt(strings, entries[found[s]].rows[r][c])]]]]
  BY <1>4 DEF SheetOf, ShownRows, ShownRow
<1>6. sst = [k \in DOMAIN strings |-> Whole(strings[k])]
  BY DEF BookShown, StringsShown
<1> QED BY <1>5, <1>6 DEF WorkbookAsSpecified, found, Whole, ShownAt

\* Whatever the shared strings and the sheets hold: xml_get_text_concat, which
\* visits with a stack, puts every text of an item into the string once, and
\* the cells of the sheets that were found, and of no others, show the string
\* their index names.
THEOREM WorkbookCorrect == WalkSpec => []WorkbookAsSpecified
BY WalkInvariant, BookShownInvariant, BookIs, PTL
=============================================================================
