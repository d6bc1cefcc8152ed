--------------------------- MODULE AssemblyProofs ---------------------------
(***************************************************************************)
(* The result of every output mode is the specified one: for pages of      *)
(* paragraphs (PagedAssembly), for sheets of rows (SheetAssembly) and for  *)
(* one text (TextAssembly), for any documents, texts and limits.           *)
(***************************************************************************)
EXTENDS PagedAssembly, SheetAssembly, TextAssembly, SequenceLemmas
-----------------------------------------------------------------------------
\* Pages of paragraphs: the types.

\* A text that is kept has something in it.
LEMMA KeptText ==
    ASSUME TypeOK, pc = "item", item <= Len(pages[page]), ~Skipped(t)
    PROVE  /\ format # "pdf"
           /\ page \in 1..Len(pages) /\ item \in 1..Len(pages[page])
           /\ t \in Text
<1>1. format # "pdf" /\ pages \in Seq(Seq(Text \cup {Empty}))
  BY DEF TypeOK
<1>2. page \in 1..Len(pages) /\ pages[page] \in Seq(Text \cup {Empty})
  BY <1>1 DEF TypeOK
<1>3. item \in 1..Len(pages[page])
  BY <1>1, <1>2 DEF TypeOK
<1>4. t \in Text \cup {Empty}
  BY <1>2, <1>3 DEF t
<1> QED BY <1>1, <1>2, <1>3, <1>4 DEF Skipped

\* The piece of a page has the type of the result's pieces.
LEMMA PieceOfPage ==
    ASSUME TypeOK
    PROVE  PagePiece \in PieceType
<1>1. CASE mode = "object"
  BY <1>1 DEF TypeOK, PagePiece, PieceType
<1>2. CASE mode # "object"
  BY <1>2 DEF TypeOK, PagePiece, PieceType
<1> QED BY <1>1, <1>2

\* Every reachable state has its types.
THEOREM TypeCorrect == Spec => []TypeOK
<1>1. Init => TypeOK
  <2> SUFFICES ASSUME Init PROVE TypeOK
    OBVIOUS
  <2>1. pages \in IF format = "pdf" THEN Seq(Text \cup {Empty})
                  ELSE Seq(Seq(Text \cup {Empty}))
    BY DocumentAssumption, PdfAssumption DEF Init
  <2>2. page \in 1..Len(pages) + 1
    BY <2>1 DEF Init
  <2> QED BY <2>1, <2>2 DEF Init, TypeOK, PieceType
<1>2. TypeOK /\ [Next]_vars => TypeOK'
  <2> SUFFICES ASSUME TypeOK, [Next]_vars PROVE TypeOK'
    OBVIOUS
  <2>0. Len(pages) \in Nat
    BY DEF TypeOK
  <2>1. CASE BeginPage
    <3>1. Len(pages[page]) \in Nat /\ page \in 1..Len(pages)
      BY <2>0, <2>1 DEF BeginPage, TypeOK
    <3>2. item' \in 1..Len(pages'[page']) + 1 /\ page' \in 1..Len(pages') + 1
      BY <2>0, <2>1, <3>1 DEF BeginPage, args, options
    <3>3. group' \in IF mode' = "object" THEN Seq(NodeType) ELSE Seq(Text)
      <4>1. mode' = mode /\ group' = IF mode = "collections" THEN group ELSE <<>>
        BY <2>1 DEF BeginPage, args, options
      <4>2. group \in IF mode = "object" THEN Seq(NodeType) ELSE Seq(Text)
        BY DEF TypeOK
      <4>3. <<>> \in Seq(NodeType) /\ <<>> \in Seq(Text)
        OBVIOUS
      <4>4. CASE mode = "collections"
        BY <4>1, <4>2, <4>4
      <4>5. CASE mode # "collections"
        BY <4>1, <4>3, <4>5
      <4> QED BY <4>4, <4>5
    <3>4. out' \in Seq(PieceType)'
      BY <2>1 DEF BeginPage, TypeOK, args, options, PieceType
    <3> QED BY <2>1, <3>1, <3>2, <3>3, <3>4 DEF BeginPage, TypeOK, args, options
  <2>2. CASE SkipItem
    <3>1. Len(pages[page]) \in Nat /\ item \in 1..Len(pages[page])
      BY <2>0, <2>2 DEF SkipItem, TypeOK
    <3> QED BY <2>0, <2>2, <3>1 DEF SkipItem, TypeOK, args, options, state, PieceType
  <2>3. ASSUME mode # "object", Keep, pc = "item", item <= Len(pages[page]), ~Skipped(t)
        PROVE  TypeOK'
    <3>1. format # "pdf" /\ page \in 1..Len(pages) /\ item \in 1..Len(pages[page]) /\ t \in Text
      BY <2>3, KeptText
    <3>2. Len(pages[page]) \in Nat
      BY <3>1 DEF TypeOK
    <3>3. group \in Seq(Text) /\ out \in Seq(Seq(Text))
      BY <2>3 DEF TypeOK, PieceType
    <3>4. Append(group, t) \in Seq(Text)
      BY <3>1, <3>3
    <3> DEFINE flush == max_paragraph_length > 0 /\ length + 1 = max_paragraph_length
    <3>5. group' \in Seq(Text) /\ out' \in Seq(Seq(Text))
      <4>1. CASE flush
        <5>1. out' = Append(out, Append(group, t)) /\ group' = <<>>
          BY <2>3, <4>1 DEF Keep
        <5> QED BY <3>3, <3>4, <5>1
      <4>2. CASE ~flush
        <5>1. out' = out /\ group' = Append(group, t)
          BY <2>3, <4>2 DEF Keep
        <5> QED BY <3>3, <3>4, <5>1
      <4> QED BY <4>1, <4>2
    <3>6. seen' \subseteq Text
      BY <2>3, <3>1 DEF Keep, Remember, TypeOK
    <3>7. emptyCol' \in BOOLEAN /\ length' \in Nat
      <4>1. CASE flush
        BY <2>3, <4>1 DEF Keep
      <4>2. CASE ~flush
        <5>1. emptyCol' = FALSE
          BY <2>3, <4>2 DEF Keep
        <5>2. length' = IF max_paragraph_length > 0 THEN length + 1 ELSE length
          BY <2>3, <4>2 DEF Keep
        <5>3. length \in Nat
          BY DEF TypeOK
        <5>4. length' \in Nat
          BY <5>2, <5>3
        <5>5. emptyCol' \in BOOLEAN
          BY <5>1
        <5> QED BY <5>4, <5>5
      <4> QED BY <4>1, <4>2
    <3>8. /\ UNCHANGED <<args, pc, page, colIdx>>
          /\ item' \in 1..Len(pages'[page']) + 1
      BY <2>3, <3>1, <3>2 DEF Keep, args, options
    <3>9. out' \in Seq(PieceType)'
      BY <2>3, <3>5, <3>8 DEF args, options, PieceType
    <3>10. group' \in IF mode' = "object" THEN Seq(NodeType) ELSE Seq(Text)
      BY <2>3, <3>5, <3>8 DEF args, options
    <3> QED BY <3>1, <3>6, <3>7, <3>8, <3>9, <3>10 DEF TypeOK, args, options
  <2>4. ASSUME mode = "object", Node, pc = "item", item <= Len(pages[page]), ~Skipped(t)
        PROVE  TypeOK'
    <3>1. format # "pdf" /\ page \in 1..Len(pages) /\ item \in 1..Len(pages[page]) /\ t \in Text
      BY <2>4, KeptText
    <3>2. Len(pages[page]) \in Nat
      BY <3>1 DEF TypeOK
    <3>3. group \in Seq(NodeType)
      BY <2>4 DEF TypeOK
    <3>4. [index |-> Len(group), text |-> t] \in NodeType
      BY <3>1, <3>3 DEF NodeType
    <3>5. group' \in Seq(NodeType)
      BY <2>4, <3>3, <3>4 DEF Node
    <3>6. /\ UNCHANGED <<args, pc, page, seen, length, colIdx, out>>
          /\ emptyCol' \in BOOLEAN
          /\ item' = item + 1
      BY <2>4 DEF Node
    <3>7. item' \in 1..Len(pages'[page']) + 1
      BY <3>1, <3>2, <3>6 DEF args, options
    <3>8. out' \in Seq(PieceType)'
      BY <3>6 DEF TypeOK, args, options, PieceType
    <3>9. group' \in IF mode' = "object" THEN Seq(NodeType) ELSE Seq(Text)
      BY <2>4, <3>5, <3>6 DEF args, options
    <3> QED BY <3>1, <3>6, <3>7, <3>8, <3>9 DEF TypeOK, args, options
  <2>5. CASE KeepParagraph
    BY <2>3, <2>5 DEF KeepParagraph, AtItem
  <2>6. CASE ParagraphNode
    BY <2>4, <2>6 DEF ParagraphNode, AtItem
  <2>7. CASE KeepSlideText
    BY <2>3, <2>7 DEF KeepSlideText, AtItem
  <2>8. CASE SlideTextNode
    BY <2>4, <2>8 DEF SlideTextNode, AtItem
  <2>9. CASE EndPage
    <3>1. page \in 1..Len(pages)
      BY <2>9 DEF EndPage, TypeOK
    <3>2. out' \in Seq(PieceType)
      BY <2>9, PieceOfPage DEF EndPage, TypeOK
    <3>3. /\ UNCHANGED <<args, item, seen, emptyCol, length>>
          /\ pc' = "page"
          /\ page' \in 1..Len(pages') + 1
          /\ colIdx' \in Nat
      BY <2>0, <2>9, <3>1 DEF EndPage, TypeOK, args, options
    <3>4. group' \in IF mode' = "object" THEN Seq(NodeType) ELSE Seq(Text)
      <4>1. mode' = mode
            /\ group' = IF mode = "collections" /\ emptyCol THEN group ELSE <<>>
        BY <2>9 DEF EndPage, args, options
      <4>2. group \in IF mode = "object" THEN Seq(NodeType) ELSE Seq(Text)
        BY DEF TypeOK
      <4>3. <<>> \in Seq(NodeType) /\ <<>> \in Seq(Text)
        OBVIOUS
      <4>4. CASE mode = "collections" /\ emptyCol
        BY <4>1, <4>2, <4>4
      <4>5. CASE ~(mode = "collections" /\ emptyCol)
        BY <4>1, <4>3, <4>5
      <4> QED BY <4>4, <4>5
    <3>5. out' \in Seq(PieceType)'
      BY <3>2, <3>3 DEF args, options, PieceType
    <3> QED BY <3>3, <3>4, <3>5 DEF TypeOK, args, options
  <2>10. CASE PdfPage
    <3>1. format = "pdf" /\ page \in 1..Len(pages) /\ pages \in Seq(Text \cup {Empty})
      BY <2>10 DEF PdfPage, TypeOK
    <3>2. CASE Skipped(pages[page])
      BY <2>0, <2>10, <3>1, <3>2 DEF PdfPage, TypeOK, args, options, PieceType
    <3>3. CASE ~Skipped(pages[page])
      <4> DEFINE x == pages[page]
                 piece == IF mode = "object"
                          THEN [index |-> colIdx, paragraphs |-> <<[index |-> 0, text |-> x]>>]
                          ELSE <<x>>
      <4>1. x \in Text
        BY <3>1, <3>3 DEF Skipped
      <4>2. piece \in PieceType
        <5>1. CASE mode = "object"
          <6>1. [index |-> 0, text |-> x] \in NodeType
            BY <4>1 DEF NodeType
          <6>2. <<[index |-> 0, text |-> x]>> \in Seq(NodeType)
            BY <6>1
          <6> QED BY <5>1, <6>2 DEF PieceType, TypeOK
        <5>2. CASE mode # "object"
          BY <4>1, <5>2 DEF PieceType
        <5> QED BY <5>1, <5>2
      <4>3. out' = Append(out, piece)
        BY <2>10, <3>3 DEF PdfPage
      <4>4. out' \in Seq(PieceType)
        BY <4>2, <4>3 DEF TypeOK
      <4>5. colIdx' = colIdx + 1 /\ seen' \subseteq Text
        BY <2>10, <3>3, <4>1 DEF PdfPage, Remember, TypeOK
      <4> QED BY <2>0, <2>10, <3>1, <4>4, <4>5 DEF PdfPage, TypeOK, args, options, PieceType
    <3> QED BY <3>2, <3>3
  <2>11. CASE Return
    BY <2>11 DEF Return, TypeOK, args, options, state, PieceType
  <2>12. CASE UNCHANGED vars
    BY <2>12 DEF vars, TypeOK, args, options, cursor, state, PieceType
  <2> QED BY <2>1, <2>2, <2>5, <2>6, <2>7, <2>8, <2>9, <2>10, <2>11, <2>12 DEF Next
<1> QED BY <1>1, <1>2, PTL DEF Spec

-----------------------------------------------------------------------------
\* Inside a page the counter is the length of the buffer and has not reached
\* the limit; this is what keeps every pushed group within it.
CounterInv ==
    pc = "item" /\ mode # "object" /\ max_paragraph_length > 0
        => length = Len(group) /\ length < max_paragraph_length

PageInv == TypeOK /\ BufferMatchesFlag /\ CounterInv /\ GroupBounds

\* A group of texts is a sequence, and appending to it makes it longer by one.
LEMMA GroupGrows ==
    ASSUME TypeOK, NEW x
    PROVE  Append(group, x) # <<>> /\ Len(Append(group, x)) = Len(group) + 1
<1>1. CASE mode = "object"
  BY <1>1 DEF TypeOK
<1>2. CASE mode # "object"
  BY <1>2 DEF TypeOK
<1> QED BY <1>1, <1>2

\* Keeping a text preserves the invariant, flush or not.
LEMMA KeepPreserves ==
    ASSUME PageInv, mode # "object", pc = "item", format # "pdf", Keep
    PROVE  BufferMatchesFlag' /\ CounterInv' /\ GroupBounds'
<1> DEFINE flush == max_paragraph_length > 0 /\ length + 1 = max_paragraph_length
           longer == Append(group, t)
<1>1. /\ UNCHANGED <<format, mode, max_paragraph_length, unique_values_only, pages>>
      /\ pc' = "item"
  BY DEF Keep, args, options
<1>2. longer # <<>> /\ Len(longer) = Len(group) + 1 /\ Len(group) \in Nat
  <2>1. group \in Seq(Text)
    BY DEF PageInv, TypeOK
  <2> QED BY <2>1, GroupGrows DEF PageInv
<1>3. out \in Seq(Seq(Text)) /\ length \in Nat /\ max_paragraph_length \in Int
  BY LimitAssumption DEF PageInv, TypeOK, PieceType
<1>4. CASE flush
  <2>1. /\ out' = Append(out, longer)
        /\ group' = <<>>
        /\ emptyCol' = TRUE
        /\ length' = 0
    BY <1>4 DEF Keep
  <2>2. Len(longer) <= max_paragraph_length
    BY <1>1, <1>2, <1>3, <1>4 DEF PageInv, CounterInv
  <2>3. GroupBounds'
    <3> SUFFICES ASSUME NEW k \in 1..Len(out')
                 PROVE  /\ out'[k] # <<>>
                        /\ max_paragraph_length > 0 => Len(out'[k]) <= max_paragraph_length
      BY <1>1 DEF GroupBounds
    <3>1. CASE k \in 1..Len(out)
      <4>1. out'[k] = out[k]
        BY <1>3, <2>1, <3>1
      <4> QED BY <3>1, <4>1 DEF PageInv, GroupBounds
    <3>2. CASE k = Len(out) + 1
      <4>1. out'[k] = longer
        BY <1>3, <2>1, <3>2
      <4> QED BY <1>2, <2>2, <4>1
    <3> QED BY <1>3, <2>1, <3>1, <3>2
  <2>4. BufferMatchesFlag'
    BY <1>1, <2>1 DEF BufferMatchesFlag
  <2>5. CounterInv'
    BY <1>1, <2>1 DEF CounterInv
  <2> QED BY <2>3, <2>4, <2>5
<1>5. CASE ~flush
  <2>1. /\ out' = out
        /\ group' = longer
        /\ emptyCol' = FALSE
        /\ length' = IF max_paragraph_length > 0 THEN length + 1 ELSE length
    BY <1>5 DEF Keep
  <2>2. GroupBounds'
    BY <1>1, <2>1 DEF PageInv, GroupBounds
  <2>3. BufferMatchesFlag'
    BY <1>1, <1>2, <2>1 DEF BufferMatchesFlag
  <2>4. CounterInv'
    BY <1>1, <1>2, <1>3, <1>5, <2>1 DEF PageInv, CounterInv
  <2> QED BY <2>2, <2>3, <2>4
<1> QED BY <1>4, <1>5

\* A node makes the page non-empty; groups are not used in object mode.
LEMMA NodePreserves ==
    ASSUME PageInv, mode = "object", pc = "item", Node
    PROVE  BufferMatchesFlag' /\ CounterInv' /\ GroupBounds'
<1>1. /\ mode' = "object" /\ pc' = "item"
      /\ emptyCol' = FALSE
      /\ group' = Append(group, [index |-> Len(group), text |-> t])
  BY DEF Node, args, options
<1>2. group' # <<>>
  BY <1>1, GroupGrows DEF PageInv
<1> QED BY <1>1, <1>2 DEF BufferMatchesFlag, CounterInv, GroupBounds

\* Every step preserves the invariant, given the types before it.
LEMMA PageStep ==
    ASSUME PageInv, [Next]_vars
    PROVE  BufferMatchesFlag' /\ CounterInv' /\ GroupBounds'
<1>1. CASE BeginPage
  <2>1. /\ UNCHANGED <<format, mode, max_paragraph_length, out>>
        /\ pc' = "item" /\ length' = 0 /\ emptyCol' = TRUE
    BY <1>1 DEF BeginPage, args, options
  <2>2. group' = <<>>
    BY <1>1 DEF BeginPage, PageInv, BufferMatchesFlag
  <2>3. CounterInv'
    BY <2>1, <2>2 DEF CounterInv
  <2>4. BufferMatchesFlag'
    BY <2>1, <2>2 DEF BufferMatchesFlag
  <2>5. GroupBounds'
    BY <2>1 DEF PageInv, GroupBounds
  <2> QED BY <2>3, <2>4, <2>5
<1>2. CASE SkipItem
  BY <1>2 DEF SkipItem, args, options, state, PageInv, BufferMatchesFlag, CounterInv, GroupBounds
<1>3. CASE KeepParagraph
  BY <1>3, KeepPreserves DEF KeepParagraph, AtItem
<1>4. CASE ParagraphNode
  BY <1>4, NodePreserves DEF ParagraphNode, AtItem
<1>5. CASE KeepSlideText
  BY <1>5, KeepPreserves DEF KeepSlideText, AtItem
<1>6. CASE SlideTextNode
  BY <1>6, NodePreserves DEF SlideTextNode, AtItem
<1>7. CASE EndPage
  <2>1. /\ UNCHANGED <<format, mode, max_paragraph_length>>
        /\ pc = "item" /\ pc' = "page"
        /\ out' = IF emptyCol THEN out ELSE Append(out, PagePiece)
    BY <1>7 DEF EndPage, args, options
  <2>2. group' = <<>>
    BY <1>7, <2>1 DEF EndPage, PageInv, BufferMatchesFlag
  <2>3. GroupBounds'
    <3> SUFFICES ASSUME mode # "object", NEW k \in 1..Len(out')
                 PROVE  /\ out'[k] # <<>>
                        /\ format # "pdf" /\ max_paragraph_length > 0
                              => Len(out'[k]) <= max_paragraph_length
      BY <2>1 DEF GroupBounds
    <3>1. out \in Seq(Seq(Text)) /\ group \in Seq(Text)
      BY DEF PageInv, TypeOK, PieceType
    <3>2. CASE emptyCol
      BY <2>1, <3>2 DEF PageInv, GroupBounds
    <3>3. CASE ~emptyCol
      <4>1. out' = Append(out, group)
        BY <2>1, <3>3 DEF PagePiece
      <4>2. group # <<>>
        BY <2>1, <3>3 DEF PageInv, BufferMatchesFlag
      <4>3. max_paragraph_length > 0 => Len(group) <= max_paragraph_length
        <5>1. length \in Nat /\ max_paragraph_length \in Int
          BY LimitAssumption DEF PageInv, TypeOK
        <5> QED BY <2>1, <5>1 DEF PageInv, CounterInv
      <4>4. CASE k \in 1..Len(out)
        <5>1. out'[k] = out[k]
          BY <3>1, <4>1, <4>4
        <5> QED BY <4>4, <5>1 DEF PageInv, GroupBounds
      <4>5. CASE k = Len(out) + 1
        <5>1. out'[k] = group
          BY <3>1, <4>1, <4>5
        <5> QED BY <4>2, <4>3, <5>1
      <4> QED BY <3>1, <4>1, <4>4, <4>5
    <3> QED BY <3>2, <3>3
  <2> QED BY <2>1, <2>2, <2>3 DEF BufferMatchesFlag, CounterInv
<1>8. CASE PdfPage
  <2>1. /\ UNCHANGED <<format, mode, max_paragraph_length, group, pc>>
        /\ pc = "page" /\ format = "pdf"
    BY <1>8 DEF PdfPage, args, options
  <2>2. BufferMatchesFlag' /\ CounterInv'
    BY <2>1 DEF PageInv, BufferMatchesFlag, CounterInv
  <2>3. GroupBounds'
    <3> SUFFICES ASSUME mode # "object", NEW k \in 1..Len(out')
                 PROVE  out'[k] # <<>>
      BY <2>1 DEF GroupBounds
    <3>1. out \in Seq(Seq(Text))
      BY DEF PageInv, TypeOK, PieceType
    <3>2. CASE out' = out
      BY <3>2 DEF PageInv, GroupBounds
    <3>3. CASE out' = Append(out, <<pages[page]>>)
      <4>1. CASE k \in 1..Len(out)
        <5>1. out'[k] = out[k]
          BY <3>1, <3>3, <4>1
        <5> QED BY <4>1, <5>1 DEF PageInv, GroupBounds
      <4>2. CASE k = Len(out) + 1
        BY <3>1, <3>3, <4>2
      <4> QED BY <3>1, <3>3, <4>1, <4>2
    <3>4. out' = out \/ out' = Append(out, <<pages[page]>>)
      BY <1>8 DEF PdfPage
    <3> QED BY <3>2, <3>3, <3>4
  <2> QED BY <2>2, <2>3
<1>9. CASE Return
  BY <1>9 DEF Return, args, options, state, PageInv, BufferMatchesFlag, CounterInv, GroupBounds
<1>10. CASE UNCHANGED vars
  BY <1>10 DEF vars, args, options, cursor, state, PageInv, BufferMatchesFlag, CounterInv, GroupBounds
<1> QED BY <1>1, <1>2, <1>3, <1>4, <1>5, <1>6, <1>7, <1>8, <1>9, <1>10 DEF Next

\* The three parts of the invariant hold in every reachable state.
THEOREM PageCorrect == Spec => [](BufferMatchesFlag /\ CounterInv /\ GroupBounds)
<1>1. Init => BufferMatchesFlag /\ CounterInv /\ GroupBounds
  BY DEF Init, BufferMatchesFlag, CounterInv, GroupBounds
<1>2. TypeOK /\ (BufferMatchesFlag /\ CounterInv /\ GroupBounds) /\ [Next]_vars
        => (BufferMatchesFlag /\ CounterInv /\ GroupBounds)'
  BY PageStep DEF PageInv
<1> QED BY <1>1, <1>2, TypeCorrect, PTL DEF Spec

\* The flag emptyCol always tells whether the buffer holds something, and
\* nothing is carried over into the next page: no text is pushed twice or
\* lost between a flush at the limit and the end of its page.
THEOREM BufferCorrect == Spec => []BufferMatchesFlag
BY PageCorrect, PTL

\* No pushed group is empty or longer than the limit.
THEOREM GroupsBounded == Spec => []GroupBounds
BY PageCorrect, PTL

-----------------------------------------------------------------------------
\* Pages of paragraphs: the result.

Texts == Text \cup {Empty}

\* What was met before is what unique_values_only asks for: the texts of the
\* page up to the current one, or of the .pdf pages up to the current one.
SeenInv ==
    once => /\ pc = "item" => \A x \in Text :
                  x \in seen <=> \E j \in 1..(item - 1) : pages[page][j] = x
            /\ format = "pdf" => \A x \in Text :
                  x \in seen <=> \E j \in 1..(page - 1) : pages[j] = x

\* The pieces of the earlier pages come first; then those of the current page,
\* whose rest is in the group.
GroupInv ==
    mode # "object" =>
        /\ format = "pdf" =>
              LET K == KeptTo(pages, page - 1, Empty, once)
              IN  out = [k \in DOMAIN K |-> <<K[k]>>]
        /\ format # "pdf" /\ pc # "item" =>
              out = Done(pages, page - 1, Empty, max_paragraph_length, once)
        /\ format # "pdf" /\ pc = "item" =>
              \E P \in Seq(Seq(Texts)) :
                  /\ out = Done(pages, page - 1, Empty, max_paragraph_length, once) \o P
                  /\ CutSoFar(P, group, KeptTo(pages[page], item - 1, Empty, once),
                              max_paragraph_length)

ReturnInv == pc = "done" => page > Len(pages)

\* The current page is a sequence of texts.
LEMMA PageTexts ==
    ASSUME TypeOK, format # "pdf", page <= Len(pages)
    PROVE  /\ pages \in Seq(Seq(Texts)) /\ Len(pages) \in Nat
           /\ page \in 1..Len(pages)
           /\ page - 1 \in 0..(Len(pages) - 1) /\ (page - 1) + 1 = page
           /\ pages[page] \in Seq(Texts) /\ Len(pages[page]) \in Nat
<1>1. pages \in Seq(Seq(Texts)) /\ page \in 1..Len(pages) + 1
  BY DEF TypeOK, Texts
<1>2. page \in 1..Len(pages) /\ Len(pages) \in Nat
  BY <1>1
<1> HIDE DEF Texts
<1>3. pages[page] \in Seq(Texts)
  BY <1>1, <1>2
<1> QED BY <1>1, <1>2, <1>3

\* A text of the page joins what is kept exactly if it is not passed over.
LEMMA KeptHere ==
    ASSUME TypeOK, SeenInv, pc = "item", item <= Len(pages[page])
    PROVE  /\ item \in 1..Len(pages[page]) /\ t \in Texts
           /\ KeptTo(pages[page], item - 1, Empty, once) \in Seq(Texts)
           /\ KeptTo(pages[page], item, Empty, once) =
                IF Skipped(t) THEN KeptTo(pages[page], item - 1, Empty, once)
                ELSE Append(KeptTo(pages[page], item - 1, Empty, once), t)
<1>1. /\ format # "pdf" /\ page <= Len(pages)
      /\ item \in 1..Len(pages[page]) + 1
  BY DEF TypeOK
<1>2. pages[page] \in Seq(Texts) /\ Len(pages[page]) \in Nat
  BY <1>1, PageTexts
<1>3. /\ item \in 1..Len(pages[page])
      /\ item - 1 \in 0..(Len(pages[page]) - 1) /\ (item - 1) + 1 = item
  BY <1>1, <1>2
<1>4. t = pages[page][item] /\ t \in Texts
  BY <1>2, <1>3 DEF t
<1>5. /\ KeptTo(pages[page], item - 1, Empty, once) \in Seq(Texts)
      /\ KeptTo(pages[page], item, Empty, once) =
           IF t # Empty /\ (once => \A j \in 1..(item - 1) : pages[page][j] # t)
           THEN Append(KeptTo(pages[page], item - 1, Empty, once), t)
           ELSE KeptTo(pages[page], item - 1, Empty, once)
  <2> DEFINE s == pages[page]
             n == item - 1
  <2>1. s \in Seq(Texts) /\ n \in 0..(Len(s) - 1) /\ n + 1 = item /\ s[n + 1] = t
    BY <1>2, <1>3, <1>4
  <2> HIDE DEF s, n
  <2>2. /\ KeptTo(s, n, Empty, once) \in Seq(Texts)
        /\ KeptTo(s, n + 1, Empty, once) =
             IF s[n + 1] # Empty /\ (once => \A j \in 1..n : s[j] # s[n + 1])
             THEN Append(KeptTo(s, n, Empty, once), s[n + 1])
             ELSE KeptTo(s, n, Empty, once)
    BY <2>1, KeptMore
  <2> QED BY <2>1, <2>2 DEF s, n
<1>6. Skipped(t) <=> ~(t # Empty /\ (once => \A j \in 1..(item - 1) : pages[page][j] # t))
  <2>1. CASE t = Empty
    BY <2>1 DEF Skipped
  <2>2. CASE t # Empty
    <3>1. t \in Text
      BY <1>4, <2>2 DEF Texts
    <3>2. CASE once
      <4>1. t \in seen <=> \E j \in 1..(item - 1) : pages[page][j] = t
        BY <3>1, <3>2 DEF SeenInv
      <4> QED BY <2>2, <3>2, <4>1 DEF Skipped
    <3>3. CASE ~once
      BY <2>2, <3>3 DEF Skipped
    <3> QED BY <3>2, <3>3
  <2> QED BY <2>1, <2>2
<1> QED BY <1>3, <1>4, <1>5, <1>6

\* What the options say does not change.
LEMMA OptionsStay ==
    ASSUME UNCHANGED args
    PROVE  /\ format' = format /\ mode' = mode /\ pages' = pages
           /\ max_paragraph_length' = max_paragraph_length
           /\ unique_values_only' = unique_values_only
           /\ once' = once
BY DEF args, options, once

\* The next text of the page.
LEMMA ItemSeen ==
    ASSUME TypeOK, SeenInv, pc = "item", item <= Len(pages[page]),
           UNCHANGED <<args, pc, page>>, item' = item + 1,
           once => \/ seen' = seen \cup {t} /\ t # Empty
                   \/ seen' = seen /\ (t = Empty \/ t \in seen)
    PROVE  SeenInv'
<1>1. format # "pdf" /\ item \in 1..Len(pages[page])
  BY KeptHere DEF TypeOK
<1>2. /\ format' = format /\ pages' = pages /\ page' = page /\ once' = once
      /\ item' - 1 = item
  <2>1. Len(pages[page]) \in Nat
    BY PageTexts DEF TypeOK
  <2> QED BY <1>1, <2>1, OptionsStay
<1> SUFFICES ASSUME once, NEW x \in Text
             PROVE  x \in seen' <=> \E j \in 1..item : pages[page][j] = x
  BY <1>1, <1>2 DEF SeenInv
<1>3. x \in seen <=> \E j \in 1..(item - 1) : pages[page][j] = x
  BY DEF SeenInv
<1>4. \A j \in 1..item : j \in 1..(item - 1) \/ j = item
  BY <1>1
<1>5. \A j \in 1..(item - 1) : j \in 1..item
  BY <1>1
<1>6. item \in 1..item /\ pages[page][item] = t
  BY <1>1 DEF t
<1>7. x # Empty
  BY TextAssumption
<1>8. x \in seen' <=> x \in seen \/ x = t
  BY <1>7
<1> HIDE DEF t
<1> QED BY <1>3, <1>4, <1>5, <1>6, <1>8
\* The group in text, collection and collections mode, and the limit.
LEMMA GroupTypes ==
    ASSUME TypeOK, mode # "object"
    PROVE  group \in Seq(Texts) /\ out \in Seq(Seq(Texts)) /\ max_paragraph_length \in Int
<1>1. Seq(Text) \subseteq Seq(Texts) /\ Seq(Seq(Text)) \subseteq Seq(Seq(Texts))
  <2>1. Text \subseteq Texts
    BY DEF Texts
  <2>2. Seq(Text) \subseteq Seq(Texts)
    BY <2>1
  <2> QED BY <2>2
<1> QED BY <1>1, LimitAssumption DEF TypeOK, PieceType

\* A text that is passed over changes nothing of what is kept.
LEMMA SkipGroup ==
    ASSUME TypeOK, SeenInv, GroupInv, mode # "object", SkipItem
    PROVE  GroupInv'
<1>1. /\ UNCHANGED <<args, pc, page, state, colIdx, out>> /\ item' = item + 1
      /\ pc = "item" /\ item <= Len(pages[page]) /\ Skipped(t)
  BY DEF SkipItem
<1>2. /\ format' = format /\ mode' = mode /\ pages' = pages /\ once' = once
      /\ max_paragraph_length' = max_paragraph_length
  BY <1>1, OptionsStay
<1>3. /\ page' = page /\ pc' = pc /\ group' = group /\ out' = out
  BY <1>1 DEF state
<1>4. /\ item \in 1..Len(pages[page])
      /\ KeptTo(pages[page], item, Empty, once) = KeptTo(pages[page], item - 1, Empty, once)
  BY <1>1, KeptHere
<1>5. item' - 1 = item /\ format # "pdf"
  <2>1. format # "pdf"
    BY <1>1 DEF TypeOK
  <2>2. Len(pages[page]) \in Nat
    BY <1>1, <2>1, PageTexts DEF TypeOK
  <2> QED BY <1>1, <1>4, <2>1, <2>2
<1> QED BY <1>1, <1>2, <1>3, <1>4, <1>5 DEF GroupInv

\* A text that is kept joins the group; the piece is pushed when it is complete.
LEMMA KeepGroup ==
    ASSUME TypeOK, SeenInv, GroupInv, CounterInv, mode # "object",
           pc = "item", item <= Len(pages[page]), ~Skipped(t), Keep
    PROVE  GroupInv'
<1> DEFINE m == max_paragraph_length
           d == Done(pages, page - 1, Empty, m, once)
           K == KeptTo(pages[page], item - 1, Empty, once)
           h == Append(group, t)
           flush == m > 0 /\ length + 1 = m
<1>1. UNCHANGED <<args, pc, page, colIdx>> /\ item' = item + 1
  BY DEF Keep
<1>2. /\ format' = format /\ mode' = mode /\ pages' = pages /\ once' = once /\ m' = m
      /\ pc' = "item" /\ page' = page
  BY <1>1, OptionsStay
<1>3. /\ item \in 1..Len(pages[page]) /\ t \in Texts /\ K \in Seq(Texts)
      /\ KeptTo(pages[page], item, Empty, once) = Append(K, t)
  BY KeptHere
<1>4. item' - 1 = item /\ format # "pdf"
  <2>1. format # "pdf"
    BY DEF TypeOK
  <2>2. Len(pages[page]) \in Nat
    BY <2>1, PageTexts DEF TypeOK
  <2> QED BY <1>1, <1>3, <2>1, <2>2
<1>5. group \in Seq(Texts) /\ m \in Int /\ h \in Seq(Texts)
  BY <1>3, GroupTypes
<1>6. d \in Seq(Seq(Texts))
  BY <1>4, <1>5, PageTexts, DoneMore DEF TypeOK
<1>7. PICK P \in Seq(Seq(Texts)) : out = d \o P /\ CutSoFar(P, group, K, m)
  BY <1>4 DEF GroupInv
<1> SUFFICES \E Q \in Seq(Seq(Texts)) :
                 out' = d \o Q /\ CutSoFar(Q, group', Append(K, t), m)
  BY <1>2, <1>3, <1>4 DEF GroupInv
<1>8. /\ CutSoFar(P, h, Append(K, t), m)
      /\ m > 0 /\ Len(group) + 1 = m => CutSoFar(Append(P, h), <<>>, Append(K, t), m)
  <2> HIDE DEF K, m
  <2> QED BY <1>3, <1>5, <1>7, CutGrows
<1>9. CASE flush
  <2>1. out' = Append(out, h) /\ group' = <<>>
    BY <1>9 DEF Keep
  <2>2. Len(group) + 1 = m
    BY <1>9 DEF CounterInv
  <2>3. out' = d \o Append(P, h) /\ Append(P, h) \in Seq(Seq(Texts))
    <3> HIDE DEF d, h, m
    <3> QED BY <1>5, <1>6, <1>7, <2>1, PushPiece
  <2> QED BY <1>8, <1>9, <2>1, <2>2, <2>3
<1>10. CASE ~flush
  <2>1. out' = out /\ group' = h
    BY <1>10 DEF Keep
  <2> QED BY <1>7, <1>8, <2>1
<1> QED BY <1>9, <1>10

\* The rest of a page is its last piece.
LEMMA EndGroup ==
    ASSUME TypeOK, GroupInv, CounterInv, BufferMatchesFlag, mode # "object", EndPage
    PROVE  GroupInv'
<1> DEFINE m == max_paragraph_length
           d == Done(pages, page - 1, Empty, m, once)
           s == pages[page]
           K == Kept(s, Empty, once)
<1>1. /\ pc = "item" /\ item > Len(pages[page]) /\ pc' = "page" /\ page' = page + 1
      /\ UNCHANGED args /\ out' = IF emptyCol THEN out ELSE Append(out, group)
      /\ format # "pdf" /\ item \in 1..Len(pages[page]) + 1 /\ page <= Len(pages)
  BY DEF EndPage, PagePiece, TypeOK
<1>2. /\ format' = format /\ mode' = mode /\ pages' = pages /\ once' = once /\ m' = m
  BY <1>1, OptionsStay
<1>3. /\ pages \in Seq(Seq(Texts)) /\ page - 1 \in 0..(Len(pages) - 1) /\ (page - 1) + 1 = page
      /\ s \in Seq(Texts) /\ Len(s) \in Nat /\ page \in 1..Len(pages)
  BY <1>1, PageTexts
<1>4. item - 1 = Len(s) /\ page' - 1 = page
  <2>1. item > Len(s) /\ item \in 1..Len(s) + 1 /\ page' = page + 1
    BY <1>1
  <2>2. Len(s) \in Nat /\ page \in Int
    BY <1>3
  <2> HIDE DEF s
  <2>3. item - 1 = Len(s)
    BY <2>1, <2>2
  <2> QED BY <2>1, <2>2, <2>3
<1>5. group \in Seq(Texts) /\ m \in Int
  BY GroupTypes
<1>6. /\ d \in Seq(Seq(Texts))
      /\ Done(pages, page, Empty, m, once) = d \o Cut(K, m)
  <2> HIDE DEF m
  <2>1. /\ Done(pages, page - 1, Empty, m, once) \in Seq(Seq(Texts))
        /\ Done(pages, (page - 1) + 1, Empty, m, once) =
             Done(pages, page - 1, Empty, m, once) \o Cut(Kept(pages[(page - 1) + 1], Empty, once), m)
    BY <1>3, <1>5, DoneMore
  <2> QED BY <1>3, <2>1
<1>7. /\ KeptTo(s, item - 1, Empty, once) = K
      /\ K \in Seq(Texts)
  <2>1. KeptTo(s, Len(s), Empty, once) = K /\ K \in Seq(Texts)
    <3> HIDE DEF s
    <3> QED BY <1>3, KeptAll
  <2> QED BY <1>4, <2>1
<1>8. PICK P \in Seq(Seq(Texts)) : out = d \o P /\ CutSoFar(P, group, K, m)
  BY <1>1, <1>7 DEF GroupInv
<1>9. m > 0 => Len(group) < m
  BY <1>1 DEF CounterInv
<1>10. Cut(K, m) = IF group = <<>> THEN P ELSE Append(P, group)
  <2> HIDE DEF K, m
  <2> QED BY <1>5, <1>7, <1>8, <1>9, CutEnds
<1>11. emptyCol <=> group = <<>>
  BY <1>1 DEF BufferMatchesFlag
<1>12. out' = d \o Cut(K, m)
  <2>1. Append(out, group) = d \o Append(P, group)
    <3> DEFINE h == group
    <3>1. h \in Seq(Texts)
      BY <1>5
    <3> HIDE DEF d, m, h
    <3> HIDE DEF K
    <3>2. /\ Append(d \o P, h) = d \o Append(P, h)
          /\ Append(P, h) \in Seq(Seq(Texts))
          /\ d \o <<>> = d
      <4>1. d \in Seq(Seq(Texts)) /\ P \in Seq(Seq(Texts))
        BY <1>6
      <4> QED BY ONLY <3>1, <4>1, PushPiece
    <3>3. Append(out, h) = d \o Append(P, h)
      BY <1>8, <3>2
    <3> QED BY <3>3 DEF h
  <2> HIDE DEF d, K, m
  <2> QED BY <1>1, <1>8, <1>10, <1>11, <2>1
<1> HIDE DEF K, d
<1> QED BY <1>1, <1>2, <1>4, <1>6, <1>12 DEF GroupInv
\* A page begins with nothing met, kept or pushed.
LEMMA BeginGroup ==
    ASSUME TypeOK, GroupInv, BufferMatchesFlag, BeginPage
    PROVE  GroupInv' /\ SeenInv'
<1>1. /\ pc = "page" /\ pc' = "item" /\ format # "pdf" /\ page <= Len(pages)
      /\ UNCHANGED <<args, page, colIdx, out>> /\ item' = 1 /\ seen' = {}
  BY DEF BeginPage
<1>2. group' = <<>>
  BY <1>1 DEF BeginPage, BufferMatchesFlag
<1>3. /\ format' = format /\ mode' = mode /\ pages' = pages /\ once' = once
      /\ max_paragraph_length' = max_paragraph_length /\ page' = page /\ out' = out
  BY <1>1, OptionsStay
<1>4. SeenInv'
  <2>1. \A j \in 1..(item' - 1) : FALSE
    BY <1>1
  <2> QED BY <1>1, <1>3, <2>1 DEF SeenInv
<1>5. GroupInv'
  <2> SUFFICES ASSUME mode # "object"
               PROVE  \E P \in Seq(Seq(Texts)) :
                        /\ out' = Done(pages, page - 1, Empty, max_paragraph_length, once) \o P
                        /\ CutSoFar(P, <<>>, KeptTo(pages[page], 0, Empty, once),
                                    max_paragraph_length)
    BY <1>1, <1>2, <1>3 DEF GroupInv
  <2>1. out' = Done(pages, page - 1, Empty, max_paragraph_length, once)
    BY <1>1, <1>3 DEF GroupInv
  <2>2. out' \in Seq(Seq(Texts)) /\ max_paragraph_length \in Int
    BY <1>3, GroupTypes
  <2>3. KeptTo(pages[page], 0, Empty, once) = <<>>
    BY <1>1, PageTexts, KeptAll
  <2>4. CutSoFar(<<>>, <<>>, <<>>, max_paragraph_length)
    BY <2>2, CutBegins
  <2>5. out' \o <<>> = out' /\ <<>> \in Seq(Seq(Texts))
    BY <2>2, ConcatEmptySeq
  <2> QED BY <2>1, <2>3, <2>4, <2>5
<1> QED BY <1>4, <1>5

\* A .pdf page is passed over or becomes a piece of its own.
LEMMA PdfGroup ==
    ASSUME TypeOK, SeenInv, GroupInv, PdfPage
    PROVE  GroupInv' /\ SeenInv'
<1> DEFINE x == pages[page]
           K(n) == KeptTo(pages, n, Empty, once)
<1>1. /\ pc = "page" /\ format = "pdf" /\ page <= Len(pages) /\ page' = page + 1
      /\ UNCHANGED <<args, pc, item, emptyCol, length, group>>
  BY DEF PdfPage
<1>2. /\ format' = format /\ mode' = mode /\ pages' = pages /\ once' = once
      /\ max_paragraph_length' = max_paragraph_length /\ pc' = pc
      /\ unique_values_only' = unique_values_only
  BY <1>1, OptionsStay
<1>3. /\ pages \in Seq(Texts) /\ Len(pages) \in Nat /\ page \in 1..Len(pages)
      /\ page - 1 \in 0..(Len(pages) - 1) /\ (page - 1) + 1 = page /\ page' - 1 = page
  <2>1. pages \in Seq(Texts) /\ page \in 1..Len(pages) + 1
    BY <1>1 DEF TypeOK, Texts
  <2>2. Len(pages) \in Nat
    BY <2>1
  <2> QED BY <1>1, <2>1, <2>2
<1>4. x \in Texts
  BY <1>3
<1>5. Skipped(x) <=> ~(x # Empty /\ (once => \A j \in 1..(page - 1) : pages[j] # x))
  <2> HIDE DEF x
  <2>1. CASE x = Empty
    BY <2>1 DEF Skipped
  <2>2. CASE x # Empty
    <3>1. x \in Text
      BY <1>4, <2>2 DEF Texts
    <3>2. CASE once
      <4>1. x \in seen <=> \E j \in 1..(page - 1) : pages[j] = x
        BY <1>1, <3>1, <3>2 DEF SeenInv
      <4> QED BY <2>2, <3>2, <4>1 DEF Skipped
    <3>3. CASE ~once
      BY <2>2, <3>3 DEF Skipped
    <3> QED BY <3>2, <3>3
  <2> QED BY <2>1, <2>2
<1>6. K(page - 1) \in Seq(Texts)
      /\ K(page) = IF Skipped(x) THEN K(page - 1) ELSE Append(K(page - 1), x)
  <2> DEFINE n == page - 1
  <2>1. n \in 0..(Len(pages) - 1) /\ n + 1 = page /\ pages[n + 1] = x
    BY <1>3
  <2> HIDE DEF n, x
  <2>2. /\ KeptTo(pages, n, Empty, once) \in Seq(Texts)
        /\ KeptTo(pages, n + 1, Empty, once) =
             IF pages[n + 1] # Empty /\ (once => \A j \in 1..n : pages[j] # pages[n + 1])
             THEN Append(KeptTo(pages, n, Empty, once), pages[n + 1])
             ELSE KeptTo(pages, n, Empty, once)
    BY <1>3, <2>1, KeptMore
  <2> QED BY <1>5, <2>1, <2>2 DEF n
<1> HIDE DEF K
<1>7. GroupInv'
  <2> SUFFICES ASSUME mode # "object"
               PROVE  out' = [k \in DOMAIN K(page) |-> <<K(page)[k]>>]
    BY <1>1, <1>2, <1>3 DEF GroupInv, K
  <2>1. out = [k \in DOMAIN K(page - 1) |-> <<K(page - 1)[k]>>]
    BY <1>1 DEF GroupInv, K
  <2>2. CASE Skipped(x)
    <3>1. out' = out
      BY <2>2 DEF PdfPage
    <3> QED BY <1>6, <2>1, <2>2, <3>1
  <2>3. CASE ~Skipped(x)
    <3>1. out' = Append(out, <<x>>)
      BY <2>3 DEF PdfPage
    <3> DEFINE q == K(page - 1)
               r == Append(q, x)
    <3>2. /\ q \in Seq(Texts) /\ Len(q) \in Nat /\ Len(r) = Len(q) + 1 /\ DOMAIN r = 1..(Len(q) + 1)
          /\ r[Len(q) + 1] = x /\ \A k \in 1..Len(q) : r[k] = q[k]
      BY <1>6
    <3>3. K(page) = r
      BY <1>6, <2>3
    <3> HIDE DEF q, r, x
    <3>4. out = [k \in 1..Len(q) |-> <<q[k]>>]
      BY <2>1, <3>2 DEF q
    <3> DEFINE f == [k \in 1..(Len(q) + 1) |-> <<r[k]>>]
               B == {<<r[k]>> : k \in 1..(Len(q) + 1)}
    <3>5. /\ \A k \in 1..(Len(q) + 1) : f[k] \in B
          /\ f[Len(q) + 1] = <<x>> /\ \A k \in 1..Len(q) : f[k] = <<q[k]>>
      BY <3>2
    <3>6. f = [k \in DOMAIN r |-> <<r[k]>>] /\ f = [k \in 1..(Len(q) + 1) |-> f[k]]
      BY <3>2
    <3> HIDE DEF f, B
    <3>7. [k \in 1..(Len(q) + 1) |-> f[k]] = Append([k \in 1..Len(q) |-> f[k]], f[Len(q) + 1])
      BY <3>2, <3>5, Longer
    <3>8. [k \in 1..Len(q) |-> f[k]] = out
      BY <3>4, <3>5
    <3> QED BY <3>1, <3>3, <3>5, <3>6, <3>7, <3>8
  <2> QED BY <2>2, <2>3
<1>8. SeenInv'
  <2> SUFFICES ASSUME once, NEW y \in Text
               PROVE  y \in seen' <=> \E j \in 1..page : pages[j] = y
    BY <1>1, <1>2, <1>3 DEF SeenInv
  <2>1. y \in seen <=> \E j \in 1..(page - 1) : pages[j] = y
    BY <1>1 DEF SeenInv
  <2>2. y # Empty
    BY TextAssumption
  <2>3. y \in seen' <=> y \in seen \/ y = x
    <3>1. CASE Skipped(x)
      <4>1. seen' = seen
        BY <3>1 DEF PdfPage
      <4>2. x = Empty \/ x \in seen
        BY <3>1 DEF Skipped
      <4> HIDE DEF x
      <4> QED BY <2>2, <4>1, <4>2
    <3>2. CASE ~Skipped(x)
      <4>1. seen' = seen \cup {x}
        BY <3>2 DEF PdfPage, once, Remember
      <4> HIDE DEF x
      <4> QED BY <4>1
    <3> QED BY <3>1, <3>2
  <2>4. \A j \in 1..page : j \in 1..(page - 1) \/ j = page
    BY <1>3
  <2>5. page \in 1..page /\ \A j \in 1..(page - 1) : j \in 1..page
    BY <1>3
  <2> HIDE DEF x
  <2>6. x = pages[page]
    BY DEF x
  <2> QED BY <2>1, <2>3, <2>4, <2>5, <2>6
<1> QED BY <1>7, <1>8
-----------------------------------------------------------------------------
\* Pages of paragraphs: the nodes of object mode.

TextsOf(f, ps, p) == Kept(IF f = "pdf" THEN <<ps[p]>> ELSE ps[p], Empty, FALSE)
FullTo(f, ps, n) == InOrder({ p \in 1..Len(ps) : TextsOf(f, ps, p) # <<>> }, n)
NodesOf(K) == [i \in DOMAIN K |-> [index |-> i - 1, text |-> K[i]]]
PageNode(f, ps, k, p) ==
    [index |-> IF f = "pdf" THEN k - 1 ELSE p - 1, paragraphs |-> NodesOf(TextsOf(f, ps, p))]
NodesTo(f, ps, n) ==
    LET full == FullTo(f, ps, n) IN [k \in DOMAIN full |-> PageNode(f, ps, k, full[k])]

\* The nodes of the pages up to the current one are in the result, those of
\* its texts in the group.
ObjectInv ==
    mode = "object" =>
        /\ out = NodesTo(format, pages, page - 1)
        /\ colIdx = IF format = "pdf" THEN Len(FullTo(format, pages, page - 1)) ELSE page - 1
        /\ pc = "item" => group = NodesOf(KeptTo(pages[page], item - 1, Empty, FALSE))

\* A text more is a node more.
LEMMA NodesOfMore ==
    ASSUME NEW A, NEW K \in Seq(A), NEW x \in A
    PROVE  /\ NodesOf(Append(K, x)) = Append(NodesOf(K), [index |-> Len(K), text |-> x])
           /\ Len(NodesOf(K)) = Len(K)
           /\ NodesOf(K) = <<>> <=> K = <<>>
           /\ NodesOf(<<>>) = <<>>
<1> DEFINE L == Append(K, x)
           f == [i \in 1..(Len(K) + 1) |-> [index |-> i - 1, text |-> L[i]]]
           B == { f[i] : i \in 1..(Len(K) + 1) }
<1>1. /\ Len(K) \in Nat /\ DOMAIN K = 1..Len(K) /\ DOMAIN L = 1..(Len(K) + 1)
      /\ \A i \in 1..Len(K) : L[i] = K[i]
      /\ L[Len(K) + 1] = x
  OBVIOUS
<1> HIDE DEF L
<1>2. /\ \A i \in 1..(Len(K) + 1) : f[i] \in B
      /\ \A i \in 1..Len(K) : f[i] = [index |-> i - 1, text |-> K[i]]
      /\ f[Len(K) + 1] = [index |-> Len(K), text |-> x]
  BY <1>1
<1>3. NodesOf(L) = [i \in 1..(Len(K) + 1) |-> f[i]]
  BY <1>1 DEF NodesOf
<1> HIDE DEF f, B
<1>4. /\ [i \in 1..Len(K) |-> f[i]] \in Seq(B)
      /\ [i \in 1..(Len(K) + 1) |-> f[i]] = Append([i \in 1..Len(K) |-> f[i]], f[Len(K) + 1])
  BY <1>1, <1>2, Longer
<1>5. NodesOf(K) = [i \in 1..Len(K) |-> f[i]]
  BY <1>1, <1>2 DEF NodesOf
<1>6. Len(NodesOf(K)) = Len(K)
  <2>1. DOMAIN NodesOf(K) = 1..Len(K) /\ NodesOf(K) \in Seq(B)
    BY <1>1, <1>4, <1>5
  <2> QED BY <1>1, <2>1
<1>7. NodesOf(K) = <<>> <=> K = <<>>
  <2>1. NodesOf(K) \in Seq(B)
    BY <1>4, <1>5
  <2> QED BY <1>1, <1>6, <2>1
<1>8. NodesOf(<<>>) = <<>>
  BY DEF NodesOf
<1> QED BY <1>2, <1>3, <1>4, <1>5, <1>6, <1>7, <1>8 DEF L

\* A page with text is a node more.
LEMMA NodesToMore ==
    ASSUME NEW f, NEW ps, Len(ps) \in Nat, NEW n \in 0..(Len(ps) - 1)
    PROVE  /\ NodesTo(f, ps, 0) = <<>> /\ Len(FullTo(f, ps, 0)) = 0
           /\ Len(FullTo(f, ps, n)) \in Nat
           /\ FullTo(f, ps, n + 1) = IF TextsOf(f, ps, n + 1) # <<>>
                                     THEN Append(FullTo(f, ps, n), n + 1) ELSE FullTo(f, ps, n)
           /\ Len(FullTo(f, ps, n + 1)) = Len(FullTo(f, ps, n)) +
                                          IF TextsOf(f, ps, n + 1) # <<>> THEN 1 ELSE 0
           /\ NodesTo(f, ps, n + 1) =
                IF TextsOf(f, ps, n + 1) # <<>>
                THEN Append(NodesTo(f, ps, n), PageNode(f, ps, Len(FullTo(f, ps, n)) + 1, n + 1))
                ELSE NodesTo(f, ps, n)
<1> DEFINE S == { p \in 1..Len(ps) : TextsOf(f, ps, p) # <<>> }
           o == FullTo(f, ps, n)
           o2 == FullTo(f, ps, n + 1)
<1>1. n \in Nat /\ n + 1 \in 1..Len(ps)
  OBVIOUS
<1>2. n + 1 \in S <=> TextsOf(f, ps, n + 1) # <<>>
  BY <1>1
<1> HIDE DEF S
<1>3. InOrder(S, 0) = <<>> /\ o \in Seq(1..n) /\ o2 = IF n + 1 \in S THEN Append(o, n + 1) ELSE o
  BY <1>1, InOrderMore DEF FullTo, S
<1>4. NodesTo(f, ps, 0) = <<>> /\ Len(FullTo(f, ps, 0)) = 0
  <2>1. FullTo(f, ps, 0) = <<>>
    BY <1>3 DEF FullTo, S
  <2> QED BY <2>1 DEF NodesTo
<1> HIDE DEF o, o2
<1>5. Len(o) \in Nat /\ DOMAIN o = 1..Len(o) /\ \A k \in 1..Len(o) : k # Len(o) + 1
  BY <1>3
<1>6. NodesTo(f, ps, n) = [k \in 1..Len(o) |-> PageNode(f, ps, k, o[k])]
  BY <1>5 DEF NodesTo, o
<1>7. NodesTo(f, ps, n + 1) = [k \in DOMAIN o2 |-> PageNode(f, ps, k, o2[k])]
  BY DEF NodesTo, o2
<1>8. CASE n + 1 \in S
  <2>1. /\ DOMAIN o2 = 1..(Len(o) + 1) /\ Len(o2) = Len(o) + 1
        /\ \A k \in 1..Len(o) : o2[k] = o[k]
        /\ o2[Len(o) + 1] = n + 1
    BY <1>3, <1>8
  <2> DEFINE g == [k \in 1..(Len(o) + 1) |-> PageNode(f, ps, k, o2[k])]
             B == { g[k] : k \in 1..(Len(o) + 1) }
  <2>2. /\ \A k \in 1..(Len(o) + 1) : g[k] \in B /\ g[k] = PageNode(f, ps, k, o2[k])
        /\ g[Len(o) + 1] = PageNode(f, ps, Len(o) + 1, n + 1)
    BY <1>5, <2>1
  <2>3. NodesTo(f, ps, n + 1) = [k \in 1..(Len(o) + 1) |-> g[k]]
    BY <1>7, <2>1
  <2> HIDE DEF g, B
  <2>4. [k \in 1..(Len(o) + 1) |-> g[k]] = Append([k \in 1..Len(o) |-> g[k]], g[Len(o) + 1])
    BY <1>5, <2>2, Longer
  <2>5. [k \in 1..Len(o) |-> g[k]] = NodesTo(f, ps, n)
    BY <1>5, <1>6, <2>1, <2>2
  <2> QED BY <1>2, <1>3, <1>4, <1>5, <1>8, <2>1, <2>2, <2>3, <2>4, <2>5 DEF o, o2
<1>9. CASE n + 1 \notin S
  <2>1. NodesTo(f, ps, n + 1) = NodesTo(f, ps, n)
    BY <1>3, <1>9 DEF NodesTo, o, o2
  <2>2. Len(o2) = Len(o) + 0
    BY <1>3, <1>5, <1>9
  <2> QED BY <1>2, <1>3, <1>4, <1>5, <1>9, <2>1, <2>2 DEF o, o2
<1> QED BY <1>8, <1>9
\* The nodes of the first n pages: the page that is current.
LEMMA NodesHere ==
    ASSUME TypeOK, page <= Len(pages)
    PROVE  /\ Len(pages) \in Nat /\ page \in 1..Len(pages)
           /\ page - 1 \in 0..(Len(pages) - 1) /\ (page - 1) + 1 = page
           /\ Len(FullTo(format, pages, page - 1)) \in Nat
           /\ Len(FullTo(format, pages, page)) =
                Len(FullTo(format, pages, page - 1)) +
                IF TextsOf(format, pages, page) # <<>> THEN 1 ELSE 0
           /\ NodesTo(format, pages, page) =
                IF TextsOf(format, pages, page) # <<>>
                THEN Append(NodesTo(format, pages, page - 1),
                            PageNode(format, pages, Len(FullTo(format, pages, page - 1)) + 1, page))
                ELSE NodesTo(format, pages, page - 1)
<1>1. page \in 1..Len(pages) + 1 /\ Len(pages) \in Nat
  BY DEF TypeOK
<1>2. page \in 1..Len(pages) /\ page - 1 \in 0..(Len(pages) - 1) /\ (page - 1) + 1 = page
  BY <1>1
<1> DEFINE n == page - 1
<1>3. n \in 0..(Len(pages) - 1) /\ n + 1 = page
  BY <1>2
<1> HIDE DEF n
<1>4. /\ Len(FullTo(format, pages, n)) \in Nat
      /\ Len(FullTo(format, pages, n + 1)) =
           Len(FullTo(format, pages, n)) + IF TextsOf(format, pages, n + 1) # <<>> THEN 1 ELSE 0
      /\ NodesTo(format, pages, n + 1) =
           IF TextsOf(format, pages, n + 1) # <<>>
           THEN Append(NodesTo(format, pages, n),
                       PageNode(format, pages, Len(FullTo(format, pages, n)) + 1, n + 1))
           ELSE NodesTo(format, pages, n)
  BY <1>1, <1>3, NodesToMore
<1> QED BY <1>1, <1>2, <1>3, <1>4 DEF n

\* The next text of a page in object mode becomes a node or is empty.
LEMMA ItemNode ==
    ASSUME TypeOK, SeenInv, ObjectInv, mode = "object", pc = "item", item <= Len(pages[page]),
           UNCHANGED <<args, pc, page, colIdx, out>>, item' = item + 1,
           group' = IF Skipped(t) THEN group ELSE Append(group, [index |-> Len(group), text |-> t])
    PROVE  ObjectInv'
<1> DEFINE K == KeptTo(pages[page], item - 1, Empty, FALSE)
<1>1. /\ format' = format /\ mode' = mode /\ pages' = pages /\ page' = page /\ pc' = pc
      /\ colIdx' = colIdx /\ out' = out
  BY OptionsStay
<1>2. once = FALSE
  BY DEF once
<1>3. /\ item \in 1..Len(pages[page]) /\ t \in Texts /\ K \in Seq(Texts)
      /\ KeptTo(pages[page], item, Empty, FALSE) = IF Skipped(t) THEN K ELSE Append(K, t)
  BY <1>2, KeptHere
<1>4. item' - 1 = item
  <2>1. Len(pages[page]) \in Nat
    BY PageTexts DEF TypeOK
  <2> QED BY <1>3, <2>1
<1>5. group = NodesOf(K)
  BY DEF ObjectInv
<1> HIDE DEF K
<1>6. group' = NodesOf(KeptTo(pages[page], item, Empty, FALSE))
  <2>1. /\ NodesOf(Append(K, t)) = Append(NodesOf(K), [index |-> Len(K), text |-> t])
        /\ Len(NodesOf(K)) = Len(K)
    BY <1>3, NodesOfMore
  <2> QED BY <1>3, <1>5, <2>1
<1> QED BY <1>1, <1>4, <1>6 DEF ObjectInv

\* The end of a page: its node, if it has texts.
LEMMA EndNode ==
    ASSUME TypeOK, ObjectInv, BufferMatchesFlag, mode = "object", EndPage
    PROVE  ObjectInv'
<1> DEFINE s == pages[page]
           K == Kept(s, Empty, FALSE)
<1>1. /\ pc = "item" /\ item > Len(pages[page]) /\ pc' = "page" /\ page' = page + 1
      /\ UNCHANGED args /\ colIdx' = colIdx + 1
      /\ out' = IF emptyCol THEN out ELSE Append(out, [index |-> colIdx, paragraphs |-> group])
      /\ format # "pdf" /\ item \in 1..Len(pages[page]) + 1 /\ page <= Len(pages)
  BY DEF EndPage, PagePiece, TypeOK
<1>2. format' = format /\ mode' = mode /\ pages' = pages
  BY <1>1, OptionsStay
<1>3. s \in Seq(Texts) /\ Len(s) \in Nat /\ page \in 1..Len(pages) /\ Len(pages) \in Nat
  BY <1>1, PageTexts
<1>4. item - 1 = Len(s) /\ page' - 1 = page
  <2>1. item > Len(s) /\ item \in 1..Len(s) + 1 /\ page' = page + 1
    BY <1>1
  <2>2. Len(s) \in Nat /\ page \in Int
    BY <1>3
  <2> HIDE DEF s
  <2>3. item - 1 = Len(s)
    BY <2>1, <2>2
  <2> QED BY <2>1, <2>2, <2>3
<1>5. KeptTo(s, Len(s), Empty, FALSE) = K /\ K \in Seq(Texts)
  <2> HIDE DEF s
  <2> QED BY <1>3, KeptAll
<1>6. group = NodesOf(K)
  BY <1>1, <1>4, <1>5 DEF ObjectInv
<1>7. emptyCol <=> K = <<>>
  <2> HIDE DEF K
  <2>1. group = <<>> <=> K = <<>>
    <3>1. Empty \in Texts
      BY DEF Texts
    <3> QED BY <1>5, <1>6, <3>1, NodesOfMore
  <2> QED BY <1>1, <2>1 DEF BufferMatchesFlag
<1>8. TextsOf(format, pages, page) = K
  BY <1>1 DEF TextsOf
<1>9. colIdx = page - 1 /\ out = NodesTo(format, pages, page - 1)
  BY <1>1 DEF ObjectInv
<1>10. PageNode(format, pages, Len(FullTo(format, pages, page - 1)) + 1, page)
         = [index |-> colIdx, paragraphs |-> group]
  <2> HIDE DEF K
  <2> QED BY <1>1, <1>6, <1>8, <1>9 DEF PageNode
<1>11. out' = NodesTo(format, pages, page)
  <2> HIDE DEF K
  <2> QED BY <1>1, <1>7, <1>8, <1>9, <1>10, NodesHere
<1>12. colIdx' = page
  BY <1>1, <1>3, <1>9
<1> QED BY <1>1, <1>2, <1>4, <1>11, <1>12 DEF ObjectInv

\* A .pdf page with text is a node with one text.
LEMMA PdfNode ==
    ASSUME TypeOK, ObjectInv, mode = "object", PdfPage
    PROVE  ObjectInv'
<1> DEFINE x == pages[page]
<1>1. /\ pc = "page" /\ format = "pdf" /\ page <= Len(pages) /\ page' = page + 1
      /\ UNCHANGED <<args, pc, item, emptyCol, length, group>>
  BY DEF PdfPage
<1>2. format' = format /\ mode' = mode /\ pages' = pages /\ pc' = pc
  BY <1>1, OptionsStay
<1>3. pages \in Seq(Texts) /\ page \in 1..Len(pages) /\ page' - 1 = page /\ Len(pages) \in Nat
  <2>1. pages \in Seq(Texts)
    BY <1>1 DEF TypeOK, Texts
  <2>2. page \in 1..Len(pages) /\ Len(pages) \in Nat
    BY <1>1, NodesHere
  <2> QED BY <1>1, <2>1, <2>2
<1>4. x \in Texts
  BY <1>3
<1>5. Skipped(x) <=> x = Empty
  <2> HIDE DEF x
  <2> QED BY DEF Skipped, once
<1>6. TextsOf(format, pages, page) = IF x = Empty THEN <<>> ELSE <<x>>
  <2> HIDE DEF x
  <2> DEFINE s == <<x>>
  <2>1. s \in Seq(Texts) /\ Len(s) = 1 /\ s[1] = x /\ 0 \in 0..(Len(s) - 1)
    BY <1>4
  <2>2. \A j \in 1..0 : FALSE
    OBVIOUS
  <2>3. Append(<<>>, x) = s
    OBVIOUS
  <2> HIDE DEF s
  <2>4. KeptTo(s, 0, Empty, FALSE) = <<>> /\ KeptTo(s, 1, Empty, FALSE) = Kept(s, Empty, FALSE)
    BY <2>1, KeptAll
  <2>5. KeptTo(s, 0 + 1, Empty, FALSE) =
          IF s[0 + 1] # Empty /\ (FALSE => \A j \in 1..0 : s[j] # s[0 + 1])
          THEN Append(KeptTo(s, 0, Empty, FALSE), s[0 + 1]) ELSE KeptTo(s, 0, Empty, FALSE)
    BY <2>1, KeptMore
  <2>6. 0 + 1 = 1
    OBVIOUS
  <2>7. Kept(s, Empty, FALSE) = IF x = Empty THEN <<>> ELSE s
    BY <2>1, <2>3, <2>4, <2>5, <2>6
  <2> QED BY <1>1, <2>7 DEF TextsOf, s, x
<1>7. /\ colIdx = Len(FullTo(format, pages, page - 1))
      /\ out = NodesTo(format, pages, page - 1)
  BY <1>1 DEF ObjectInv
<1>8. CASE x = Empty
  <2>1. UNCHANGED <<out, colIdx>>
    BY <1>5, <1>8 DEF PdfPage
  <2>2. TextsOf(format, pages, page) = <<>>
    BY <1>6, <1>8
  <2>3. /\ Len(FullTo(format, pages, page)) = Len(FullTo(format, pages, page - 1))
        /\ NodesTo(format, pages, page) = NodesTo(format, pages, page - 1)
    BY <1>1, <2>2, NodesHere
  <2> QED BY <1>1, <1>2, <1>3, <1>7, <2>1, <2>3 DEF ObjectInv
<1>9. CASE x # Empty
  <2>1. /\ out' = Append(out, [index |-> colIdx, paragraphs |-> <<[index |-> 0, text |-> x]>>])
        /\ colIdx' = colIdx + 1
    BY <1>5, <1>9 DEF PdfPage
  <2>2. TextsOf(format, pages, page) = <<x>>
    BY <1>6, <1>9
  <2>3. NodesOf(<<x>>) = <<[index |-> 0, text |-> x]>>
    <3> HIDE DEF x
    <3>1. <<>> \in Seq(Texts) /\ Len(<<>>) = 0 /\ Append(<<>>, x) = <<x>>
      OBVIOUS
    <3>2. NodesOf(Append(<<>>, x)) = Append(NodesOf(<<>>), [index |-> Len(<<>>), text |-> x])
      BY <1>4, <3>1, NodesOfMore
    <3>3. NodesOf(<<>>) = <<>>
      BY DEF NodesOf
    <3> QED BY <3>1, <3>2, <3>3
  <2> HIDE DEF x
  <2>4. <<x>> # <<>>
    OBVIOUS
  <2>5. PageNode(format, pages, colIdx + 1, page)
          = [index |-> (colIdx + 1) - 1, paragraphs |-> <<[index |-> 0, text |-> x]>>]
    BY <1>1, <2>2, <2>3 DEF PageNode
  <2>6. Len(FullTo(format, pages, page - 1)) \in Nat
    BY <1>1, NodesHere
  <2>7. (colIdx + 1) - 1 = colIdx
    BY <1>7, <2>6
  <2>8. /\ Len(FullTo(format, pages, page)) = Len(FullTo(format, pages, page - 1)) + 1
        /\ NodesTo(format, pages, page) =
             Append(NodesTo(format, pages, page - 1),
                    PageNode(format, pages, Len(FullTo(format, pages, page - 1)) + 1, page))
    BY <1>1, <2>2, <2>4, NodesHere
  <2> QED BY <1>1, <1>2, <1>3, <1>7, <2>1, <2>5, <2>7, <2>8 DEF ObjectInv
<1> QED BY <1>8, <1>9
ResultInv == SeenInv /\ GroupInv /\ ObjectInv /\ ReturnInv

\* A text is passed over or kept, and every mode does with it what it should.
LEMMA ItemResult ==
    ASSUME TypeOK, PageInv, ResultInv, pc = "item", item <= Len(pages[page]),
           \/ SkipItem
           \/ ~Skipped(t) /\ mode # "object" /\ Keep
           \/ ~Skipped(t) /\ mode = "object" /\ Node
    PROVE  ResultInv'
<1> USE DEF ResultInv
<1>1. CASE SkipItem
  <2>1. /\ UNCHANGED <<args, pc, page, state, colIdx, out>> /\ item' = item + 1 /\ Skipped(t)
    BY <1>1 DEF SkipItem
  <2>2. seen' = seen /\ group' = group
    BY <2>1 DEF state
  <2>3. SeenInv'
    <3>1. t = Empty \/ (once /\ t \in seen)
      BY <2>1 DEF Skipped
    <3> QED BY <2>1, <2>2, <3>1, ItemSeen
  <2>4. GroupInv'
    <3>1. CASE mode = "object"
      BY <2>1, <3>1, OptionsStay DEF GroupInv
    <3> QED BY <1>1, <3>1, SkipGroup
  <2>5. ObjectInv'
    <3>1. CASE mode # "object"
      BY <2>1, <3>1, OptionsStay DEF ObjectInv
    <3> QED BY <2>1, <2>2, <3>1, ItemNode
  <2>6. ReturnInv'
    BY <2>1 DEF ReturnInv
  <2> QED BY <2>3, <2>4, <2>5, <2>6
<1>2. CASE ~Skipped(t) /\ mode # "object" /\ Keep
  <2>1. UNCHANGED <<args, pc, page, colIdx>> /\ item' = item + 1 /\ Remember(t)
    BY <1>2 DEF Keep
  <2>2. SeenInv'
    <3>1. t # Empty
      BY <1>2 DEF Skipped
    <3>2. once => seen' = seen \cup {t}
      BY <2>1 DEF Remember, once
    <3> HIDE DEF t
    <3> QED BY <2>1, <3>1, <3>2, ItemSeen
  <2>3. GroupInv'
    BY <1>2, KeepGroup DEF PageInv
  <2>4. ObjectInv' /\ ReturnInv'
    BY <1>2, <2>1, OptionsStay DEF ObjectInv, ReturnInv
  <2> QED BY <2>2, <2>3, <2>4
<1>3. CASE ~Skipped(t) /\ mode = "object" /\ Node
  <2>1. /\ UNCHANGED <<args, pc, page, colIdx, out>> /\ item' = item + 1
        /\ group' = Append(group, [index |-> Len(group), text |-> t])
    BY <1>3 DEF Node
  <2>2. ObjectInv'
    BY <1>3, <2>1, ItemNode
  <2>3. once = FALSE /\ once' = once /\ mode' = mode
    BY <1>3, <2>1, OptionsStay DEF once
  <2>4. SeenInv' /\ GroupInv' /\ ReturnInv'
    BY <1>3, <2>1, <2>3 DEF SeenInv, GroupInv, ReturnInv
  <2> QED BY <2>2, <2>4
<1> QED BY <1>1, <1>2, <1>3

\* Every step keeps the result as specified.
LEMMA ResultStep ==
    ASSUME TypeOK, PageInv, ResultInv, [Next]_vars
    PROVE  ResultInv'
<1> USE DEF ResultInv
<1>1. CASE BeginPage
  <2>1. UNCHANGED <<args, page, colIdx, out>> /\ pc' = "item" /\ pc = "page" /\ item' = 1
        /\ format # "pdf" /\ page <= Len(pages)
    BY <1>1 DEF BeginPage
  <2>2. format' = format /\ mode' = mode /\ pages' = pages
    BY <2>1, OptionsStay
  <2>3. group' = <<>>
    BY <1>1 DEF BeginPage, PageInv, BufferMatchesFlag
  <2>4. ObjectInv'
    <3>1. KeptTo(pages[page], item' - 1, Empty, FALSE) = <<>>
      <4>1. item' - 1 = 0
        BY <2>1
      <4>2. pages[page] \in Seq(Texts)
        BY <2>1, PageTexts
      <4>3. KeptTo(pages[page], 0, Empty, FALSE) = <<>>
        BY <4>2, KeptAll
      <4> QED BY <4>1, <4>3
    <3>2. NodesOf(<<>>) = <<>>
      BY DEF NodesOf
    <3> QED BY <2>1, <2>2, <2>3, <3>1, <3>2 DEF ObjectInv
  <2>5. ReturnInv'
    BY <2>1 DEF ReturnInv
  <2> QED BY <1>1, <2>4, <2>5, BeginGroup DEF PageInv
<1>2. CASE SkipItem
  BY <1>2, ItemResult DEF SkipItem
<1>3. CASE KeepParagraph
  BY <1>3, ItemResult DEF KeepParagraph, AtItem
<1>4. CASE ParagraphNode
  BY <1>4, ItemResult DEF ParagraphNode, AtItem
<1>5. CASE KeepSlideText
  BY <1>5, ItemResult DEF KeepSlideText, AtItem
<1>6. CASE SlideTextNode
  BY <1>6, ItemResult DEF SlideTextNode, AtItem
<1>7. CASE EndPage
  <2>1. UNCHANGED args /\ pc' = "page" /\ pc = "item" /\ format # "pdf"
    BY <1>7 DEF EndPage, TypeOK
  <2>2. format' = format /\ mode' = mode /\ pages' = pages
    BY <2>1, OptionsStay
  <2>3. SeenInv' /\ ReturnInv'
    BY <2>1, <2>2 DEF SeenInv, ReturnInv
  <2>4. CASE mode = "object"
    BY <1>7, <2>2, <2>3, <2>4, EndNode DEF GroupInv, PageInv
  <2>5. CASE mode # "object"
    BY <1>7, <2>2, <2>3, <2>5, EndGroup DEF ObjectInv, PageInv
  <2> QED BY <2>4, <2>5
<1>8. CASE PdfPage
  <2>1. UNCHANGED <<args, pc>> /\ pc = "page"
    BY <1>8 DEF PdfPage
  <2>2. ReturnInv'
    BY <2>1 DEF ReturnInv
  <2>3. ObjectInv'
    <3>1. CASE mode = "object"
      BY <1>8, <3>1, PdfNode
    <3>2. CASE mode # "object"
      BY <2>1, <3>2, OptionsStay DEF ObjectInv
    <3> QED BY <3>1, <3>2
  <2> QED BY <1>8, <2>2, <2>3, PdfGroup
<1>9. CASE Return
  <2>1. /\ UNCHANGED <<args, page, item, state, colIdx, out>> /\ pc = "page" /\ pc' = "done"
        /\ page > Len(pages)
    BY <1>9 DEF Return
  <2>2. /\ format' = format /\ mode' = mode /\ pages' = pages /\ once' = once
        /\ max_paragraph_length' = max_paragraph_length /\ seen' = seen /\ group' = group
        /\ page' = page /\ out' = out /\ colIdx' = colIdx
    BY <2>1, OptionsStay DEF state
  <2>3. SeenInv' /\ ReturnInv'
    BY <2>1, <2>2 DEF SeenInv, ReturnInv
  <2>4. GroupInv'
    BY <2>1, <2>2 DEF GroupInv
  <2>5. ObjectInv'
    BY <2>1, <2>2 DEF ObjectInv
  <2> QED BY <2>3, <2>4, <2>5
<1>10. CASE UNCHANGED vars
  <2>1. /\ format' = format /\ mode' = mode /\ pages' = pages /\ once' = once
        /\ max_paragraph_length' = max_paragraph_length /\ seen' = seen /\ group' = group
        /\ page' = page /\ out' = out /\ colIdx' = colIdx /\ pc' = pc /\ item' = item
    BY <1>10, OptionsStay DEF vars, state, cursor
  <2>2. SeenInv' /\ ReturnInv'
    BY <2>1 DEF SeenInv, ReturnInv
  <2>3. GroupInv'
    BY <2>1 DEF GroupInv
  <2>4. ObjectInv'
    BY <2>1 DEF ObjectInv
  <2> QED BY <2>2, <2>3, <2>4
<1> QED BY <1>1, <1>2, <1>3, <1>4, <1>5, <1>6, <1>7, <1>8, <1>9, <1>10 DEF Next
\* Before the first page there is nothing.
LEMMA NothingYet ==
    ASSUME NEW ps, NEW m, NEW u, NEW f
    PROVE  /\ KeptTo(ps, 0, Empty, u) = <<>> /\ Done(ps, 0, Empty, m, u) = <<>>
           /\ NodesTo(f, ps, 0) = <<>> /\ Len(FullTo(f, ps, 0)) = 0
<1>1. \A S : InOrder(S, 0) = <<>>
  BY InOrderMore
<1>2. KeptTo(ps, 0, Empty, u) = <<>>
  BY <1>1 DEF KeptTo
<1>3. FullTo(f, ps, 0) = <<>>
  BY <1>1 DEF FullTo
<1>4. NodesTo(f, ps, 0) = <<>> /\ Len(FullTo(f, ps, 0)) = 0
  BY <1>3 DEF NodesTo
<1>5. Flatten(<<>>) = <<>>
  <2>1. <<>> \in Seq(Seq({})) /\ <<>> \in Seq({})
    OBVIOUS
  <2> QED BY <2>1, FlattenMore
<1>6. [i \in 1..0 |-> Cut(Kept(ps[i], Empty, u), m)] = <<>>
  OBVIOUS
<1>7. Done(ps, 0, Empty, m, u) = <<>>
  BY <1>5, <1>6 DEF Done
<1> QED BY <1>2, <1>4, <1>7

LEMMA ResultBegins == Init => ResultInv
<1> SUFFICES ASSUME Init PROVE ResultInv
  OBVIOUS
<1>1. pc = "page" /\ page = 1 /\ out = <<>> /\ seen = {} /\ colIdx = 0 /\ page - 1 = 0
  BY DEF Init
<1>2. SeenInv /\ ReturnInv
  <2>1. \A j \in 1..(page - 1) : FALSE
    BY <1>1
  <2> QED BY <1>1, <2>1 DEF SeenInv, ReturnInv
<1>3. GroupInv
  <2>1. \A k \in DOMAIN <<>> : FALSE
    OBVIOUS
  <2>2. [k \in DOMAIN <<>> |-> << <<>>[k] >>] = <<>>
    OBVIOUS
  <2> QED BY <1>1, <2>2, NothingYet DEF GroupInv
<1>4. ObjectInv
  BY <1>1, NothingYet DEF ObjectInv
<1> QED BY <1>2, <1>3, <1>4 DEF ResultInv

\* At every step of document_to_json the groups and nodes pushed so far are
\* those of the pages walked so far.
THEOREM ResultCorrect == Spec => []ResultInv
<1>1. TypeOK /\ (BufferMatchesFlag /\ CounterInv /\ GroupBounds) /\ ResultInv /\ [Next]_vars
        => ResultInv'
  BY ResultStep DEF PageInv
<1> QED BY <1>1, ResultBegins, TypeCorrect, PageCorrect, PTL DEF Spec

\* In text, collection and collections mode the result is what one gets by
\* filtering each page and cutting what remains into groups of the limit: for
\* every document, limit and pattern of duplicates.
THEOREM GroupsCorrect == Spec => []GroupsAsSpecified
<1>1. TypeOK /\ ResultInv => GroupsAsSpecified
  <2> SUFFICES ASSUME TypeOK, ResultInv, pc = "done", mode # "object"
               PROVE  out = IF format = "pdf"
                            THEN Cut(Kept(pages, Empty, once), 1)
                            ELSE Flatten([p \in 1..Len(pages) |->
                                   Cut(Kept(pages[p], Empty, once), max_paragraph_length)])
    BY DEF GroupsAsSpecified
  <2>1. page - 1 = Len(pages)
    <3>1. page > Len(pages)
      BY DEF ResultInv, ReturnInv
    <3>2. page \in 1..Len(pages) + 1 /\ Len(pages) \in Nat
      BY DEF TypeOK
    <3> QED BY <3>1, <3>2
  <2>2. CASE format = "pdf"
    <3>1. pages \in Seq(Texts)
      BY <2>2 DEF TypeOK, Texts
    <3>2. KeptTo(pages, page - 1, Empty, once) = Kept(pages, Empty, once)
          /\ Kept(pages, Empty, once) \in Seq(Texts)
      BY <2>1, <3>1, KeptAll
    <3> DEFINE K == Kept(pages, Empty, once)
    <3>3. out = [k \in DOMAIN K |-> <<K[k]>>]
      BY <2>2, <3>2 DEF ResultInv, GroupInv
    <3> HIDE DEF K
    <3>4. Cut(K, 1) = [k \in DOMAIN K |-> <<K[k]>>]
      BY <3>2, CutOne DEF K
    <3> QED BY <2>2, <3>3, <3>4 DEF K
  <2>3. CASE format # "pdf"
    <3>1. out = Done(pages, Len(pages), Empty, max_paragraph_length, once)
      BY <2>1, <2>3 DEF ResultInv, GroupInv
    <3> QED BY <2>3, <3>1 DEF Done
  <2> QED BY <2>2, <2>3
<1> QED BY <1>1, TypeCorrect, ResultCorrect, PTL

\* Object mode: one node per page with text, with the physical number of its
\* page (for .pdf the number of pages with text before) and all its texts.
THEOREM ObjectCorrect == Spec => []ObjectAsSpecified
<1>1. TypeOK /\ ResultInv => ObjectAsSpecified
  <2> SUFFICES ASSUME TypeOK, ResultInv, pc = "done", mode = "object"
               PROVE  ObjectAsSpecified
    BY DEF ObjectAsSpecified
  <2>1. page - 1 = Len(pages)
    <3>1. page > Len(pages)
      BY DEF ResultInv, ReturnInv
    <3>2. page \in 1..Len(pages) + 1 /\ Len(pages) \in Nat
      BY DEF TypeOK
    <3> QED BY <3>1, <3>2
  <2>2. out = NodesTo(format, pages, Len(pages))
    BY <2>1 DEF ResultInv, ObjectInv
  <2> QED BY <2>2 DEF ObjectAsSpecified, NodesTo, FullTo, PageNode, NodesOf, TextsOf
<1> QED BY <1>1, TypeCorrect, ResultCorrect, PTL
-----------------------------------------------------------------------------
\* Sheets of rows: the types.

\* The rows of a sheet, as the cells of each that count.
RowTexts(s, u) == [i \in DOMAIN s |-> Kept(s[i], Empty, u)]

LEMMA RowTextsType ==
    ASSUME NEW s \in Seq(Seq(Cell \cup {Empty})), NEW u
    PROVE  RowTexts(s, u) \in Seq(RowType) /\ Len(RowTexts(s, u)) = Len(s)
<1>1. \A i \in 1..Len(s) : Kept(s[i], Empty, u) \in RowType
  <2> SUFFICES ASSUME NEW i \in 1..Len(s) PROVE Kept(s[i], Empty, u) \in RowType
    OBVIOUS
  <2>1. s[i] \in Seq(Cell \cup {Empty})
    OBVIOUS
  <2>2. Kept(s[i], Empty, u) \in Seq((Cell \cup {Empty}) \ {Empty})
    BY <2>1, KeptClean
  <2>3. (Cell \cup {Empty}) \ {Empty} = Cell
    BY CellAssumption
  <2> QED BY <2>2, <2>3 DEF RowType
<1>2. DOMAIN s = 1..Len(s) /\ Len(s) \in Nat
  OBVIOUS
<1> HIDE DEF RowType
<1>3. RowTexts(s, u) = [i \in 1..Len(s) |-> Kept(s[i], Empty, u)]
  BY <1>2 DEF RowTexts
<1> QED BY <1>1, <1>2, <1>3

\* The current row.
LEMMA RowHere ==
    ASSUME SheetTypeOK, pc = "row", row <= Len(sheets[sheet])
    PROVE  /\ sheet \in 1..Len(sheets) /\ Len(sheets) \in Nat
           /\ row \in 1..Len(sheets[sheet]) /\ Len(sheets[sheet]) \in Nat
           /\ sheets[sheet] \in Seq(Seq(Cell \cup {Empty}))
           /\ joined \in RowType
           /\ joined = RowTexts(sheets[sheet], unique_values_only)[row]
<1>1. sheets \in Seq(Seq(Seq(Cell \cup {Empty}))) /\ sheet \in 1..Len(sheets) + 1
      /\ sheet <= Len(sheets) /\ row \in 1..Len(sheets[sheet]) + 1
  BY DEF SheetTypeOK
<1>2. sheet \in 1..Len(sheets) /\ Len(sheets) \in Nat
  BY <1>1
<1>3. sheets[sheet] \in Seq(Seq(Cell \cup {Empty}))
  BY <1>1, <1>2
<1> DEFINE s == sheets[sheet]
<1>4. s \in Seq(Seq(Cell \cup {Empty})) /\ row \in 1..Len(s) + 1 /\ row <= Len(s)
  BY <1>1, <1>3
<1>5. joined = Kept(s[row], Empty, unique_values_only)
  BY DEF joined, CellsOf, cells
<1> HIDE DEF s
<1>6. row \in 1..Len(s) /\ Len(s) \in Nat /\ row \in DOMAIN s
  BY <1>4
<1>7. joined = RowTexts(s, unique_values_only)[row]
  BY <1>5, <1>6 DEF RowTexts
<1>8. joined \in RowType
  <2> HIDE DEF RowType
  <2>1. /\ RowTexts(s, unique_values_only) \in Seq(RowType)
        /\ Len(RowTexts(s, unique_values_only)) = Len(s)
    BY <1>4, RowTextsType
  <2> QED BY <1>6, <1>7, <2>1
<1> QED BY <1>2, <1>4, <1>6, <1>7, <1>8 DEF s

LEMMA SheetOptionsStay ==
    ASSUME UNCHANGED sheetArgs
    PROVE  /\ format' = format /\ mode' = mode /\ sheets' = sheets
           /\ max_paragraph_length' = max_paragraph_length
           /\ unique_values_only' = unique_values_only
           /\ SheetPiece' = SheetPiece
BY DEF sheetArgs, options, SheetPiece

GroupSet == IF mode = "object" THEN Seq(RowNode) ELSE Seq(RowType)

\* A row keeps the types of what is built.
LEMMA RowTypes ==
    ASSUME SheetTypeOK, pc = "row", row <= Len(sheets[sheet]),
           TextRow \/ CollectionRow \/ ObjectRow
    PROVE  /\ seen' \subseteq RowType /\ emptyCol' \in BOOLEAN /\ rowIdx' \in Nat
           /\ group' \in GroupSet /\ out' \in Seq(SheetPiece)
<1>1. joined \in RowType
  BY RowHere
<1>2. /\ seen \subseteq RowType /\ emptyCol \in BOOLEAN /\ rowIdx \in Nat
      /\ group \in GroupSet /\ out \in Seq(SheetPiece)
  BY DEF SheetTypeOK, GroupSet
<1>3. ASSUME mode # "object", KeepRow, RememberRow
      PROVE  /\ seen' \subseteq RowType /\ emptyCol' \in BOOLEAN
             /\ group' \in GroupSet /\ out' \in Seq(SheetPiece)
  <2>1. Append(group, joined) \in Seq(RowType) /\ <<>> \in Seq(RowType)
    BY <1>1, <1>2, <1>3 DEF GroupSet
  <2>2. seen' \subseteq RowType
    BY <1>1, <1>2, <1>3 DEF RememberRow
  <2>3. CASE ReachesLimit
    <3>1. out' = Append(out, Append(group, joined)) /\ group' = <<>> /\ emptyCol' = TRUE
      BY <1>3, <2>3 DEF KeepRow
    <3>2. Append(group, joined) \in SheetPiece
      BY <1>3, <2>1 DEF SheetPiece
    <3> QED BY <1>2, <1>3, <2>1, <2>2, <3>1, <3>2 DEF GroupSet
  <2>4. CASE ~ReachesLimit
    <3>1. out' = out /\ group' = Append(group, joined) /\ emptyCol' = FALSE
      BY <1>3, <2>4 DEF KeepRow
    <3> QED BY <1>2, <1>3, <2>1, <2>2, <3>1 DEF GroupSet
  <2> QED BY <2>3, <2>4
<1>4. CASE TextRow
  <2>1. mode # "object" /\ rowIdx' = rowIdx
    BY <1>4 DEF TextRow
  <2>2. CASE EmptyRow \/ SeenRow
    <3>1. emptyCol' \in BOOLEAN /\ UNCHANGED <<group, out, seen>>
      BY <1>4, <2>2 DEF TextRow
    <3> QED BY <1>2, <2>1, <3>1
  <2>3. CASE ~(EmptyRow \/ SeenRow)
    <3>1. KeepRow /\ RememberRow
      BY <1>4, <2>3 DEF TextRow
    <3> QED BY <1>2, <1>3, <2>1, <3>1
  <2> QED BY <2>2, <2>3
<1>5. CASE CollectionRow
  <2>1. mode # "object" /\ rowIdx' = rowIdx
    BY <1>5 DEF CollectionRow
  <2>2. CASE EmptyRow \/ SeenRow
    <3>1. UNCHANGED <<emptyCol, group, out, seen>>
      BY <1>5, <2>2 DEF CollectionRow
    <3> QED BY <1>2, <2>1, <3>1
  <2>3. CASE ~(EmptyRow \/ SeenRow)
    <3>1. KeepRow /\ RememberRow
      BY <1>5, <2>3 DEF CollectionRow
    <3> QED BY <1>2, <1>3, <2>1, <3>1
  <2> QED BY <2>2, <2>3
<1>6. CASE ObjectRow
  <2> DEFINE values == IF max_paragraph_length > 0 /\ Len(joined) > max_paragraph_length
                       THEN SubSeq(joined, 1, max_paragraph_length) ELSE joined
  <2>1. /\ mode = "object" /\ rowIdx' = rowIdx + 1 /\ UNCHANGED <<out, seen>>
        /\ \/ UNCHANGED <<group, emptyCol>>
           \/ group' = Append(group, [index |-> rowIdx, values |-> values]) /\ emptyCol' = FALSE
    BY <1>6 DEF ObjectRow
  <2>2. values \in RowType
    <3>1. max_paragraph_length \in Int
      BY LimitAssumption DEF SheetTypeOK
    <3>2. CASE max_paragraph_length > 0 /\ Len(joined) > max_paragraph_length
      <4>1. \A i \in 1..max_paragraph_length : joined[i] \in Cell
        BY <1>1, <3>1, <3>2 DEF RowType
      <4>2. SubSeq(joined, 1, max_paragraph_length) \in Seq(Cell)
        BY <3>1, <4>1, SubSeqProperties
      <4> QED BY <3>2, <4>2 DEF RowType
    <3>3. CASE ~(max_paragraph_length > 0 /\ Len(joined) > max_paragraph_length)
      BY <1>1, <3>3
    <3> QED BY <3>2, <3>3
  <2> HIDE DEF values
  <2>3. [index |-> rowIdx, values |-> values] \in RowNode
    BY <1>2, <2>2 DEF RowNode
  <2>4. group \in Seq(RowNode)
    BY <1>2, <2>1 DEF GroupSet
  <2>5. group' \in Seq(RowNode)
    BY <2>1, <2>3, <2>4
  <2>6. group' \in GroupSet
    BY <2>1, <2>5 DEF GroupSet
  <2>7. emptyCol' \in BOOLEAN
    BY <1>2, <2>1
  <2>8. rowIdx' \in Nat /\ seen' \subseteq RowType /\ out' \in Seq(SheetPiece)
    BY <1>2, <2>1
  <2> QED BY <2>6, <2>7, <2>8
<1> QED BY <1>4, <1>5, <1>6

\* Every reachable state of the walk over sheets has its types.
THEOREM SheetTypeCorrect == SheetSpec => []SheetTypeOK
<1>1. SheetInit => SheetTypeOK
  <2> SUFFICES ASSUME SheetInit PROVE SheetTypeOK
    OBVIOUS
  <2>1. sheets \in Seq(Seq(Seq(Cell \cup {Empty})))
    BY WorkbookAssumption DEF SheetInit
  <2>2. sheet \in 1..Len(sheets) + 1
    BY <2>1 DEF SheetInit
  <2> QED BY <2>1, <2>2 DEF SheetInit, SheetTypeOK
<1>2. SheetTypeOK /\ [SheetNext]_sheetVars => SheetTypeOK'
  <2> SUFFICES ASSUME SheetTypeOK, [SheetNext]_sheetVars PROVE SheetTypeOK'
    OBVIOUS
  <2>0. /\ Len(sheets) \in Nat /\ sheets \in Seq(Seq(Seq(Cell \cup {Empty})))
        /\ group \in GroupSet /\ out \in Seq(SheetPiece)
    BY DEF SheetTypeOK, GroupSet
  <2>1. CASE BeginSheet
    <3>1. UNCHANGED sheetArgs /\ sheet' = sheet /\ sheet <= Len(sheets) /\ row' = 1 /\ pc' = "row"
          /\ seen' = {} /\ emptyCol' = TRUE /\ rowIdx' = 0 /\ colIdx' = colIdx /\ out' = out
          /\ group' = IF mode = "collections" THEN group ELSE <<>>
      BY <2>1 DEF BeginSheet
    <3>2. sheet \in 1..Len(sheets)
      BY <2>0, <3>1 DEF SheetTypeOK
    <3>3. Len(sheets[sheet]) \in Nat
      BY <2>0, <3>2
    <3>4. row' \in 1..Len(sheets[sheet]) + 1
      BY <3>1, <3>3
    <3>5. group' \in GroupSet
      <4>1. CASE mode = "collections"
        BY <2>0, <3>1, <4>1
      <4>2. CASE mode # "collections"
        <5>1. group' = <<>>
          BY <3>1, <4>2
        <5> QED BY <5>1 DEF GroupSet
      <4> QED BY <4>1, <4>2
    <3> HIDE DEF GroupSet
    <3>6. GroupSet = IF mode = "object" THEN Seq(RowNode) ELSE Seq(RowType)
      BY DEF GroupSet
    <3> QED BY <2>0, <3>1, <3>2, <3>4, <3>5, <3>6, SheetOptionsStay DEF SheetTypeOK
  <2>2. ASSUME NEW f, Row(f) PROVE SheetTypeOK'
    <3>1. /\ pc = "row" /\ row <= Len(sheets[sheet])
          /\ TextRow \/ CollectionRow \/ ObjectRow
          /\ row' = row + 1 /\ UNCHANGED <<sheetArgs, pc, sheet, colIdx>>
      BY <2>2 DEF Row
    <3>2. /\ seen' \subseteq RowType /\ emptyCol' \in BOOLEAN /\ rowIdx' \in Nat
          /\ group' \in GroupSet /\ out' \in Seq(SheetPiece)
      BY <3>1, RowTypes
    <3>3. row' \in 1..Len(sheets[sheet]) + 1
      <4>1. row \in 1..Len(sheets[sheet]) /\ Len(sheets[sheet]) \in Nat
        BY <3>1, RowHere
      <4> QED BY <3>1, <4>1
    <3>4. GroupSet = IF mode = "object" THEN Seq(RowNode) ELSE Seq(RowType)
      BY DEF GroupSet
    <3> QED BY <2>0, <3>1, <3>2, <3>3, <3>4, SheetOptionsStay DEF SheetTypeOK
  <2>3. CASE XlsRow
    BY <2>2, <2>3 DEF XlsRow
  <2>4. CASE XlsxRow
    BY <2>2, <2>4 DEF XlsxRow
  <2>5. CASE EndSheet
    <3>1. UNCHANGED <<sheetArgs, row, seen, emptyCol, group, rowIdx>> /\ pc = "row" /\ pc' = "sheet"
          /\ sheet' = sheet + 1 /\ colIdx' = colIdx + 1
          /\ out' = IF emptyCol THEN out
                    ELSE Append(out, IF mode = "object"
                                     THEN [index |-> colIdx, paragraphs |-> group] ELSE group)
      BY <2>5 DEF EndSheet
    <3>2. sheet' \in 1..Len(sheets) + 1 /\ colIdx \in Nat /\ colIdx' \in Nat
      BY <2>0, <3>1 DEF SheetTypeOK
    <3>3. (IF mode = "object" THEN [index |-> colIdx, paragraphs |-> group] ELSE group) \in SheetPiece
      <4>1. CASE mode = "object"
        BY <2>0, <3>2, <4>1 DEF GroupSet, SheetPiece
      <4>2. CASE mode # "object"
        BY <2>0, <4>2 DEF GroupSet, SheetPiece
      <4> QED BY <4>1, <4>2
    <3>4. out' \in Seq(SheetPiece)
      BY <2>0, <3>1, <3>3
    <3> QED BY <2>0, <3>1, <3>2, <3>4, SheetOptionsStay DEF SheetTypeOK
  <2>6. CASE ReturnBook
    BY <2>6, SheetOptionsStay DEF ReturnBook, SheetTypeOK
  <2>7. CASE UNCHANGED sheetVars
    BY <2>7, SheetOptionsStay DEF sheetVars, SheetTypeOK
  <2> QED BY <2>1, <2>3, <2>4, <2>5, <2>6, <2>7 DEF SheetNext
<1> QED BY <1>1, <1>2, PTL DEF SheetSpec
-----------------------------------------------------------------------------
\* Sheets of rows: the groups.

\* The rows kept of the first n of a sheet, and the texts of all sheets.
KeptRowsTo(s, n, u) == KeptTo(RowTexts(s, u), n, <<>>, u)
BookTexts(ws, u) == [i \in DOMAIN ws |-> RowTexts(ws[i], u)]

\* The rows of a group in collection mode.
width == IF max_paragraph_length = 1 THEN 1 ELSE 0

\* The rows met before in the sheet, on request.
SheetSeenInv ==
    pc = "row" /\ unique_values_only /\ mode # "object" =>
        \A x \in RowType : x # <<>> =>
            (x \in seen <=> \E j \in 1..(row - 1) :
                                RowTexts(sheets[sheet], unique_values_only)[j] = x)

\* As for pages: the groups of the earlier sheets, then those of this one.
CollectionInv ==
    mode = "collection" =>
        LET before == Done(BookTexts(sheets, unique_values_only), sheet - 1, <<>>, width,
                           unique_values_only)
        IN  /\ pc # "row" => out = before
            /\ pc = "row" =>
                  /\ emptyCol <=> group = <<>>
                  /\ width = 1 => group = <<>>
                  /\ \E P \in Seq(Seq(RowType)) :
                        /\ out = before \o P
                        /\ CutSoFar(P, group,
                                    KeptRowsTo(sheets[sheet], row - 1, unique_values_only), width)

\* A row is in a group that was pushed.
Pushed(o, r) == \E k \in DOMAIN o : r \in ToSet(o[k])

\* The rows of this sheet are pushed or will be.
LostInv ==
    mode \in {"text", "collections"} =>
        /\ \A s \in 1..(sheet - 1) :
              \A r \in ToSet(KeptRowsTo(sheets[s], Len(sheets[s]), unique_values_only)) :
                 Pushed(out, r)
        /\ pc = "row" =>
              \A r \in ToSet(KeptRowsTo(sheets[sheet], row - 1, unique_values_only)) :
                 Pushed(out, r) \/ (~emptyCol /\ r \in ToSet(group))

BookReturnInv == pc = "done" => sheet > Len(sheets)

\* A row joins what is kept exactly if it is neither empty nor met before.
LEMMA RowKept ==
    ASSUME SheetTypeOK, SheetSeenInv, mode # "object", pc = "row", row <= Len(sheets[sheet])
    PROVE  /\ KeptRowsTo(sheets[sheet], row - 1, unique_values_only) \in Seq(RowType)
           /\ KeptRowsTo(sheets[sheet], row, unique_values_only) =
                IF EmptyRow \/ SeenRow
                THEN KeptRowsTo(sheets[sheet], row - 1, unique_values_only)
                ELSE Append(KeptRowsTo(sheets[sheet], row - 1, unique_values_only), joined)
<1> DEFINE u == unique_values_only
           s == RowTexts(sheets[sheet], u)
           n == row - 1
<1>1. /\ s \in Seq(RowType) /\ Len(s) = Len(sheets[sheet])
      /\ row \in 1..Len(s) /\ Len(s) \in Nat /\ joined = s[row] /\ joined \in RowType
  <2>1. /\ sheets[sheet] \in Seq(Seq(Cell \cup {Empty}))
        /\ row \in 1..Len(sheets[sheet]) /\ Len(sheets[sheet]) \in Nat
        /\ joined = s[row] /\ joined \in RowType
    BY RowHere
  <2>2. s \in Seq(RowType) /\ Len(s) = Len(sheets[sheet])
    BY <2>1, RowTextsType
  <2> HIDE DEF s
  <2> QED BY <2>1, <2>2
<1> HIDE DEF s
<1>2. n \in 0..(Len(s) - 1) /\ n + 1 = row
  BY <1>1
<1> HIDE DEF n
<1>3. /\ KeptTo(s, n, <<>>, u) \in Seq(RowType)
      /\ KeptTo(s, n + 1, <<>>, u) =
           IF s[n + 1] # <<>> /\ (u => \A j \in 1..n : s[j] # s[n + 1])
           THEN Append(KeptTo(s, n, <<>>, u), s[n + 1]) ELSE KeptTo(s, n, <<>>, u)
  <2> HIDE DEF u
  <2> QED BY <1>1, <1>2, KeptMore
<1>4. EmptyRow \/ SeenRow <=> ~(joined # <<>> /\ (u => \A j \in 1..n : s[j] # joined))
  <2>1. CASE joined = <<>>
    BY <2>1 DEF EmptyRow
  <2>2. CASE joined # <<>>
    <3>1. CASE u
      <4>1. joined \in seen <=> \E j \in 1..n : s[j] = joined
        BY <1>1, <2>2, <3>1 DEF SheetSeenInv, s, n
      <4> QED BY <2>2, <3>1, <4>1 DEF EmptyRow, SeenRow
    <3>2. CASE ~u
      BY <2>2, <3>2 DEF EmptyRow, SeenRow
    <3> QED BY <3>1, <3>2
  <2> QED BY <2>1, <2>2
<1>5. KeptTo(s, row, <<>>, u) = IF EmptyRow \/ SeenRow THEN KeptTo(s, n, <<>>, u)
                                ELSE Append(KeptTo(s, n, <<>>, u), joined)
  BY <1>1, <1>2, <1>3, <1>4
<1> QED BY <1>3, <1>5 DEF KeptRowsTo, s, n

\* All rows of a sheet.
LEMMA AllRowsKept ==
    ASSUME SheetTypeOK
    PROVE  /\ \A i \in 1..Len(sheets) :
                 /\ KeptRowsTo(sheets[i], Len(sheets[i]), unique_values_only) = KeptRows(sheets[i])
                 /\ KeptRows(sheets[i]) = Kept(BookTexts(sheets, unique_values_only)[i], <<>>,
                                               unique_values_only)
                 /\ KeptRows(sheets[i]) \in Seq(RowType)
           /\ BookTexts(sheets, unique_values_only) \in Seq(Seq(RowType))
           /\ Len(BookTexts(sheets, unique_values_only)) = Len(sheets)
<1> DEFINE u == unique_values_only
           ws == BookTexts(sheets, u)
<1>1. sheets \in Seq(Seq(Seq(Cell \cup {Empty})))
  BY DEF SheetTypeOK
<1>2. DOMAIN sheets = 1..Len(sheets) /\ Len(sheets) \in Nat
      /\ \A i \in 1..Len(sheets) : sheets[i] \in Seq(Seq(Cell \cup {Empty}))
  BY <1>1
<1>3. ASSUME NEW i \in 1..Len(sheets)
      PROVE  RowTexts(sheets[i], u) \in Seq(RowType) /\ Len(RowTexts(sheets[i], u)) = Len(sheets[i])
  BY <1>2, RowTextsType
<1>4. ws = [i \in 1..Len(sheets) |-> RowTexts(sheets[i], u)]
  BY <1>2 DEF BookTexts
<1> HIDE DEF ws
<1>5. ws \in Seq(Seq(RowType)) /\ Len(ws) = Len(sheets)
  <2> HIDE DEF RowType
  <2> QED BY <1>2, <1>3, <1>4
<1>6. ASSUME NEW i \in 1..Len(sheets)
      PROVE  /\ KeptRowsTo(sheets[i], Len(sheets[i]), u) = KeptRows(sheets[i])
             /\ KeptRows(sheets[i]) = Kept(ws[i], <<>>, u)
             /\ KeptRows(sheets[i]) \in Seq(RowType)
  <2>1. KeptRows(sheets[i]) = Kept(RowTexts(sheets[i], u), <<>>, u)
    BY DEF KeptRows, RowTexts, CellsOf
  <2>2. ws[i] = RowTexts(sheets[i], u)
    BY <1>4
  <2>3. /\ KeptTo(RowTexts(sheets[i], u), Len(RowTexts(sheets[i], u)), <<>>, u)
             = Kept(RowTexts(sheets[i], u), <<>>, u)
        /\ Kept(RowTexts(sheets[i], u), <<>>, u) \in Seq(RowType)
    BY <1>3, KeptAll
  <2> QED BY <1>3, <2>1, <2>2, <2>3 DEF KeptRowsTo
<1> QED BY <1>5, <1>6 DEF ws

\* What a row does outside object mode: it is passed over or joins the group.
LEMMA RowStep ==
    ASSUME SheetTypeOK, mode # "object", pc = "row", row <= Len(sheets[sheet]),
           TextRow \/ CollectionRow \/ ObjectRow
    PROVE  \/ /\ EmptyRow \/ SeenRow
              /\ UNCHANGED <<group, out, seen>>
              /\ emptyCol' = emptyCol \/ (mode = "text" /\ emptyCol' = (emptyCol /\ EmptyRow))
           \/ ~EmptyRow /\ ~SeenRow /\ KeepRow /\ RememberRow
<1>1. CASE TextRow
  BY <1>1 DEF TextRow
<1>2. CASE CollectionRow
  BY <1>2 DEF CollectionRow
<1>3. CASE ObjectRow
  BY <1>3 DEF ObjectRow
<1> QED BY <1>1, <1>2, <1>3
\* The next row of the sheet.
LEMMA RowSeen ==
    ASSUME SheetTypeOK, SheetSeenInv, NEW f, Row(f)
    PROVE  SheetSeenInv'
<1> DEFINE s == RowTexts(sheets[sheet], unique_values_only)
<1>1. /\ pc = "row" /\ row <= Len(sheets[sheet]) /\ row' = row + 1
      /\ UNCHANGED <<sheetArgs, pc, sheet, colIdx>>
      /\ TextRow \/ CollectionRow \/ ObjectRow
  BY DEF Row
<1>2. /\ mode' = mode /\ sheets' = sheets /\ unique_values_only' = unique_values_only
      /\ sheet' = sheet /\ pc' = pc
  BY <1>1, SheetOptionsStay
<1>3. row \in 1..Len(sheets[sheet]) /\ joined = s[row]
  BY <1>1, RowHere
<1>4. row' - 1 = row
  BY <1>1, <1>3
<1> HIDE DEF s
<1> SUFFICES ASSUME unique_values_only, mode # "object", NEW x \in RowType, x # <<>>
             PROVE  x \in seen' <=> \E j \in 1..row : s[j] = x
  BY <1>2, <1>4 DEF SheetSeenInv, s
<1>5. x \in seen <=> \E j \in 1..(row - 1) : s[j] = x
  BY <1>1 DEF SheetSeenInv, s
<1>6. /\ \A j \in 1..row : j \in 1..(row - 1) \/ j = row
      /\ \A j \in 1..(row - 1) : j \in 1..row
      /\ row \in 1..row
  BY <1>3
<1>7. \/ /\ EmptyRow \/ SeenRow
         /\ seen' = seen
      \/ seen' = seen \cup {joined}
  BY <1>1, RowStep DEF RememberRow
<1>8. x \in seen' <=> x \in seen \/ x = joined
  BY <1>7 DEF EmptyRow, SeenRow
<1> QED BY <1>3, <1>5, <1>6, <1>8

\* The groups of the sheets before and of this one.
LEMMA BookHere ==
    ASSUME SheetTypeOK, sheet <= Len(sheets)
    PROVE  LET u == unique_values_only
               ws == BookTexts(sheets, u)
           IN  /\ sheet \in 1..Len(sheets) /\ Len(sheets) \in Nat
               /\ Done(ws, sheet - 1, <<>>, width, u) \in Seq(Seq(RowType))
               /\ Done(ws, sheet, <<>>, width, u) =
                    Done(ws, sheet - 1, <<>>, width, u) \o Cut(KeptRows(sheets[sheet]), width)
<1> DEFINE u == unique_values_only
           ws == BookTexts(sheets, u)
           n == sheet - 1
<1>1. sheet \in 1..Len(sheets) /\ Len(sheets) \in Nat
  <2>1. sheet \in 1..Len(sheets) + 1 /\ Len(sheets) \in Nat
    BY DEF SheetTypeOK
  <2> QED BY <2>1
<1>2. ws \in Seq(Seq(RowType)) /\ Len(ws) = Len(sheets)
      /\ KeptRows(sheets[sheet]) = Kept(ws[sheet], <<>>, u)
  BY <1>1, AllRowsKept
<1>3. n \in 0..(Len(ws) - 1) /\ n + 1 = sheet
  <2> HIDE DEF ws
  <2> QED BY <1>1, <1>2
<1>4. width \in Int
  BY DEF width
<1> HIDE DEF u, ws, n
<1>5. /\ Done(ws, n, <<>>, width, u) \in Seq(Seq(RowType))
      /\ Done(ws, n + 1, <<>>, width, u) =
           Done(ws, n, <<>>, width, u) \o Cut(Kept(ws[n + 1], <<>>, u), width)
  <2> DEFINE w == width
             e == <<>>
  <2>1. w \in Int
    BY <1>4
  <2> HIDE DEF w, e
  <2>2. /\ Done(ws, 0, e, w, u) = <<>>
        /\ Done(ws, n, e, w, u) \in Seq(Seq(RowType))
        /\ Done(ws, n + 1, e, w, u) = Done(ws, n, e, w, u) \o Cut(Kept(ws[n + 1], e, u), w)
    <3>1. ws \in Seq(Seq(RowType)) /\ n \in 0..(Len(ws) - 1)
      BY <1>2, <1>3
    <3> QED BY ONLY <2>1, <3>1, DoneMore
  <2> QED BY <2>2 DEF w, e
<1> QED BY <1>1, <1>2, <1>3, <1>5 DEF u, ws, n

\* A row in collection mode.
LEMMA RowGroup ==
    ASSUME SheetTypeOK, SheetSeenInv, CollectionInv, mode = "collection", NEW f, Row(f)
    PROVE  CollectionInv'
<1> DEFINE u == unique_values_only
           d == Done(BookTexts(sheets, u), sheet - 1, <<>>, width, u)
           K == KeptRowsTo(sheets[sheet], row - 1, u)
           h == Append(group, joined)
<1>1. /\ pc = "row" /\ row <= Len(sheets[sheet]) /\ row' = row + 1
      /\ UNCHANGED <<sheetArgs, pc, sheet, colIdx>>
      /\ TextRow \/ CollectionRow \/ ObjectRow
  BY DEF Row
<1>2. /\ mode' = mode /\ sheets' = sheets /\ u' = u /\ sheet' = sheet /\ pc' = pc
      /\ width' = width
  BY <1>1, SheetOptionsStay DEF width
<1>3. row \in 1..Len(sheets[sheet]) /\ joined \in RowType
  BY <1>1, RowHere
<1>4. row' - 1 = row
  BY <1>1, <1>3
<1>5. /\ K \in Seq(RowType)
      /\ KeptRowsTo(sheets[sheet], row, u) =
           IF EmptyRow \/ SeenRow THEN K ELSE Append(K, joined)
  BY <1>1, RowKept
<1>6. /\ emptyCol <=> group = <<>>
      /\ width = 1 => group = <<>>
  BY <1>1 DEF CollectionInv
<1>7. PICK P \in Seq(Seq(RowType)) : out = d \o P /\ CutSoFar(P, group, K, width)
  BY <1>1 DEF CollectionInv
<1>8. group \in Seq(RowType) /\ width \in Int /\ h \in Seq(RowType) /\ d \in Seq(Seq(RowType))
  <2>1. group \in Seq(RowType)
    BY DEF SheetTypeOK
  <2>2. d \in Seq(Seq(RowType))
    <3>1. sheet <= Len(sheets)
      BY <1>1 DEF SheetTypeOK
    <3> QED BY <3>1, BookHere
  <2> HIDE DEF d
  <2> QED BY <1>3, <2>1, <2>2 DEF width
<1> SUFFICES /\ emptyCol' <=> group' = <<>>
             /\ width = 1 => group' = <<>>
             /\ \E Q \in Seq(Seq(RowType)) :
                   out' = d \o Q /\ CutSoFar(Q, group', KeptRowsTo(sheets[sheet], row, u), width)
  BY <1>1, <1>2, <1>4 DEF CollectionInv
<1> HIDE DEF d, K
<1>9. \/ /\ EmptyRow \/ SeenRow
         /\ UNCHANGED <<group, out, emptyCol>>
      \/ ~EmptyRow /\ ~SeenRow /\ KeepRow
  BY <1>1, RowStep
<1>10. CASE (EmptyRow \/ SeenRow) /\ UNCHANGED <<group, out, emptyCol>>
  BY <1>5, <1>6, <1>7, <1>10
<1>11. CASE ~EmptyRow /\ ~SeenRow /\ KeepRow
  <2>1. /\ CutSoFar(P, h, Append(K, joined), width)
        /\ width > 0 /\ Len(group) + 1 = width
             => CutSoFar(Append(P, h), <<>>, Append(K, joined), width)
    <3>1. PICK x \in RowType : x = joined
      BY <1>3
    <3>2. /\ CutSoFar(P, Append(group, x), Append(K, x), width)
          /\ width > 0 /\ Len(group) + 1 = width
               => CutSoFar(Append(P, Append(group, x)), <<>>, Append(K, x), width)
      BY <1>5, <1>7, <1>8, CutGrows
    <3> QED BY <3>1, <3>2
  <2>2. CASE ReachesLimit
    <3>1. out' = Append(out, h) /\ group' = <<>> /\ emptyCol' = TRUE
      BY <1>11, <2>2 DEF KeepRow
    <3>2. width = 1 /\ Len(group) + 1 = width /\ width > 0
      <4>1. width = 1
        BY <2>2 DEF ReachesLimit, width
      <4>2. group = <<>>
        BY <1>6, <4>1
      <4> QED BY <4>1, <4>2
    <3>3. out' = d \o Append(P, h) /\ Append(P, h) \in Seq(Seq(RowType))
      <4> HIDE DEF h
      <4> QED BY <1>7, <1>8, <3>1, PushPiece
    <3> QED BY <1>5, <1>11, <2>1, <3>1, <3>2, <3>3
  <2>3. CASE ~ReachesLimit
    <3>1. out' = out /\ group' = h /\ emptyCol' = FALSE
      BY <1>11, <2>3 DEF KeepRow
    <3>2. width # 1
      BY <2>3 DEF ReachesLimit, width
    <3>3. h # <<>>
      <4>1. \A g \in Seq(RowType) : \A x \in RowType : Append(g, x) # <<>>
        OBVIOUS
      <4> QED BY <1>3, <1>8, <4>1
    <3> QED BY <1>5, <1>7, <1>11, <2>1, <3>1, <3>2, <3>3
  <2> QED BY <2>2, <2>3
<1> QED BY <1>9, <1>10, <1>11
\* The end of a sheet.
LEMMA SheetEnds ==
    ASSUME SheetTypeOK, EndSheet
    PROVE  /\ pc = "row" /\ pc' = "sheet" /\ sheet' - 1 = sheet /\ row - 1 = Len(sheets[sheet])
           /\ sheet \in 1..Len(sheets) /\ sheet <= Len(sheets)
           /\ mode' = mode /\ sheets' = sheets /\ unique_values_only' = unique_values_only
           /\ width' = width /\ max_paragraph_length' = max_paragraph_length
           /\ UNCHANGED <<sheetArgs, row, seen, emptyCol, group, rowIdx>>
<1>1. /\ pc = "row" /\ row > Len(sheets[sheet]) /\ sheet' = sheet + 1 /\ pc' = "sheet"
      /\ UNCHANGED <<sheetArgs, row, seen, emptyCol, group, rowIdx>>
  BY DEF EndSheet
<1>2. /\ mode' = mode /\ sheets' = sheets /\ unique_values_only' = unique_values_only
      /\ width' = width /\ max_paragraph_length' = max_paragraph_length
  BY <1>1, SheetOptionsStay DEF width
<1>3. /\ sheet \in 1..Len(sheets) + 1 /\ sheet <= Len(sheets) /\ row \in 1..Len(sheets[sheet]) + 1
      /\ Len(sheets) \in Nat /\ sheets \in Seq(Seq(Seq(Cell \cup {Empty})))
  BY <1>1 DEF SheetTypeOK
<1>4. sheet \in 1..Len(sheets)
  BY <1>3
<1>5. Len(sheets[sheet]) \in Nat
  BY <1>3, <1>4
<1>6. row - 1 = Len(sheets[sheet]) /\ sheet' - 1 = sheet
  BY <1>1, <1>3, <1>5
<1> QED BY <1>1, <1>2, <1>3, <1>4, <1>6

LEMMA EndSheetGroup ==
    ASSUME SheetTypeOK, CollectionInv, mode = "collection", EndSheet
    PROVE  CollectionInv'
<1> DEFINE u == unique_values_only
           w == width
           d == Done(BookTexts(sheets, u), sheet - 1, <<>>, w, u)
           K == KeptRows(sheets[sheet])
<1>1. /\ pc = "row" /\ pc' = "sheet" /\ sheet' - 1 = sheet
      /\ sheet \in 1..Len(sheets) /\ sheet <= Len(sheets)
      /\ mode' = mode /\ sheets' = sheets /\ u' = u /\ w' = w
  BY SheetEnds
<1>2. KeptRowsTo(sheets[sheet], row - 1, u) = K /\ K \in Seq(RowType)
  BY SheetEnds, AllRowsKept
<1>3. /\ d \in Seq(Seq(RowType))
      /\ Done(BookTexts(sheets, u), sheet, <<>>, w, u) = d \o Cut(K, w)
  BY <1>1, BookHere
<1>4. out' = IF emptyCol THEN out ELSE Append(out, group)
  BY DEF EndSheet
<1>5. (emptyCol <=> group = <<>>) /\ (w = 1 => group = <<>>)
  BY <1>1 DEF CollectionInv
<1>6. PICK P \in Seq(Seq(RowType)) : out = d \o P /\ CutSoFar(P, group, K, w)
  BY <1>1, <1>2 DEF CollectionInv
<1>7. group \in Seq(RowType)
  BY DEF SheetTypeOK
<1>8. w \in Int /\ (w > 0 => Len(group) < w)
  <2>1. w \in {0, 1}
    BY DEF width
  <2>2. w = 1 => Len(group) = 0
    BY <1>5
  <2> HIDE DEF w
  <2> QED BY <2>1, <2>2
<1> HIDE DEF d, K
<1>9. Cut(K, w) = IF group = <<>> THEN P ELSE Append(P, group)
  <2> HIDE DEF w
  <2> QED BY <1>2, <1>6, <1>7, <1>8, CutEnds
<1>10. Append(d \o P, group) = d \o Append(P, group)
  <2>1. PICK h \in Seq(RowType) : h = group
    BY <1>7
  <2>2. /\ Append(d \o P, h) = d \o Append(P, h)
        /\ Append(P, h) \in Seq(Seq(RowType))
        /\ d \o <<>> = d
    <3>1. d \in Seq(Seq(RowType)) /\ P \in Seq(Seq(RowType)) /\ h \in Seq(RowType)
      BY <1>3
    <3> QED BY ONLY <3>1, PushPiece
  <2> QED BY <2>1, <2>2
<1>11. out' = d \o Cut(K, w)
  <2> HIDE DEF w
  <2> QED BY <1>4, <1>5, <1>6, <1>9, <1>10
<1> QED BY <1>1, <1>3, <1>11 DEF CollectionInv, d

\* No row is lost by a row that follows.
LEMMA RowNotLost ==
    ASSUME SheetTypeOK, SheetSeenInv, LostInv, mode \in {"text", "collections"}, NEW f, Row(f)
    PROVE  LostInv'
<1> DEFINE u == unique_values_only
           K == KeptRowsTo(sheets[sheet], row - 1, u)
           h == Append(group, joined)
<1>1. /\ pc = "row" /\ row <= Len(sheets[sheet]) /\ row' = row + 1
      /\ UNCHANGED <<sheetArgs, pc, sheet, colIdx>>
      /\ TextRow \/ CollectionRow \/ ObjectRow
  BY DEF Row
<1>2. /\ mode' = mode /\ sheets' = sheets /\ u' = u /\ sheet' = sheet /\ pc' = pc
  BY <1>1, SheetOptionsStay
<1>3. row \in 1..Len(sheets[sheet]) /\ joined \in RowType
  BY <1>1, RowHere
<1>4. row' - 1 = row
  BY <1>1, <1>3
<1>5. /\ K \in Seq(RowType)
      /\ KeptRowsTo(sheets[sheet], row, u) =
           IF EmptyRow \/ SeenRow THEN K ELSE Append(K, joined)
  BY <1>1, RowKept
<1>6. group \in Seq(RowType) /\ out \in Seq(Seq(RowType))
  BY DEF SheetTypeOK, SheetPiece
<1>7. h \in Seq(RowType) /\ ToSet(h) = ToSet(group) \cup {joined}
  BY <1>3, <1>6, AppendSet
<1>8. /\ \A s \in 1..(sheet - 1) :
            \A r \in ToSet(KeptRowsTo(sheets[s], Len(sheets[s]), u)) : Pushed(out, r)
      /\ \A r \in ToSet(K) : Pushed(out, r) \/ (~emptyCol /\ r \in ToSet(group))
  BY <1>1 DEF LostInv
<1> HIDE DEF K
<1> SUFFICES /\ \A r : Pushed(out, r) => Pushed(out', r)
             /\ \A r \in ToSet(KeptRowsTo(sheets[sheet], row, u)) :
                   Pushed(out', r) \/ (~emptyCol' /\ r \in ToSet(group'))
  <2>1. ASSUME \A r : Pushed(out, r) => Pushed(out', r), NEW s \in 1..(sheet - 1),
               NEW r \in ToSet(KeptRowsTo(sheets[s], Len(sheets[s]), u))
        PROVE  Pushed(out', r)
    BY <1>8, <2>1
  <2> QED BY <1>1, <1>2, <1>4, <2>1 DEF LostInv
<1>9. CASE (EmptyRow \/ SeenRow) /\ UNCHANGED <<group, out>>
           /\ (emptyCol' = emptyCol \/ emptyCol' = (emptyCol /\ EmptyRow))
  <2>1. ~emptyCol => ~emptyCol'
    BY <1>9, Zenon
  <2>2. KeptRowsTo(sheets[sheet], row, u) = K /\ group' = group /\ out' = out
    BY <1>5, <1>9
  <2> QED BY <1>8, <2>1, <2>2
<1>10. CASE ~EmptyRow /\ ~SeenRow /\ KeepRow
  <2>1. ToSet(Append(K, joined)) = ToSet(K) \cup {joined}
    BY <1>3, <1>5, AppendSet
  <2>2. KeptRowsTo(sheets[sheet], row, u) = Append(K, joined)
    BY <1>5, <1>10
  <2> HIDE DEF h
  <2>3. CASE ReachesLimit
    <3>1. out' = Append(out, h) /\ group' = <<>> /\ emptyCol' = TRUE
      BY <1>10, <2>3 DEF KeepRow, h
    <3>2. /\ DOMAIN out' = 1..(Len(out) + 1) /\ DOMAIN out = 1..Len(out) /\ Len(out) \in Nat
          /\ out'[Len(out) + 1] = h /\ \A k \in 1..Len(out) : out'[k] = out[k]
      BY <1>6, <1>7, <3>1
    <3>3. \A r : Pushed(out, r) => Pushed(out', r)
      BY <3>2 DEF Pushed
    <3>4. \A r \in ToSet(h) : Pushed(out', r)
      BY <3>2 DEF Pushed
    <3> QED BY <1>7, <1>8, <2>1, <2>2, <3>3, <3>4
  <2>4. CASE ~ReachesLimit
    <3>1. out' = out /\ group' = h /\ emptyCol' = FALSE
      BY <1>10, <2>4 DEF KeepRow, h
    <3> QED BY <1>7, <1>8, <2>1, <2>2, <3>1
  <2> QED BY <2>3, <2>4
<1>11. \/ /\ EmptyRow \/ SeenRow
          /\ UNCHANGED <<group, out>>
          /\ emptyCol' = emptyCol \/ emptyCol' = (emptyCol /\ EmptyRow)
       \/ ~EmptyRow /\ ~SeenRow /\ KeepRow
  BY <1>1, RowStep
<1> QED BY <1>9, <1>10, <1>11

\* Nor by the end of the sheet.
LEMMA EndNotLost ==
    ASSUME SheetTypeOK, LostInv, mode \in {"text", "collections"}, EndSheet
    PROVE  LostInv'
<1> DEFINE u == unique_values_only
           K(s) == KeptRowsTo(sheets[s], Len(sheets[s]), u)
<1>1. /\ pc = "row" /\ pc' = "sheet" /\ sheet' - 1 = sheet /\ row - 1 = Len(sheets[sheet])
      /\ sheet \in 1..Len(sheets)
      /\ mode' = mode /\ sheets' = sheets /\ u' = u
  BY SheetEnds
<1>2. out' = IF emptyCol THEN out ELSE Append(out, group)
  BY DEF EndSheet
<1>3. group \in Seq(RowType) /\ out \in Seq(Seq(RowType))
  BY DEF SheetTypeOK, SheetPiece
<1>4. /\ \A s \in 1..(sheet - 1) : \A r \in ToSet(K(s)) : Pushed(out, r)
      /\ \A r \in ToSet(K(sheet)) : Pushed(out, r) \/ (~emptyCol /\ r \in ToSet(group))
  BY <1>1 DEF LostInv
<1>5. \A s \in 1..sheet : s \in 1..(sheet - 1) \/ s = sheet
  BY <1>1
<1> HIDE DEF K
<1> SUFFICES \A s \in 1..sheet : \A r \in ToSet(K(s)) : Pushed(out', r)
  BY <1>1 DEF LostInv, K
<1>6. CASE emptyCol
  BY <1>2, <1>4, <1>5, <1>6
<1>7. CASE ~emptyCol
  <2>1. out' = Append(out, group)
    BY <1>2, <1>7
  <2>2. /\ DOMAIN out' = 1..(Len(out) + 1) /\ DOMAIN out = 1..Len(out) /\ Len(out) \in Nat
        /\ out'[Len(out) + 1] = group /\ \A k \in 1..Len(out) : out'[k] = out[k]
    BY <1>3, <2>1
  <2>3. \A r : Pushed(out, r) => Pushed(out', r)
    BY <2>2 DEF Pushed
  <2>4. \A r \in ToSet(group) : Pushed(out', r)
    BY <2>2 DEF Pushed
  <2> QED BY <1>4, <1>5, <2>3, <2>4
<1> QED BY <1>6, <1>7

-----------------------------------------------------------------------------
\* Sheets of rows: the nodes of object mode.

FirstCells(r, m) == SubSeq(r, 1, IF m \in 1..Len(r) THEN m ELSE Len(r))

\* The rows of a sheet that have cells, and the node of each row.
UsedRows(s, u) == { i \in 1..Len(s) : RowTexts(s, u)[i] # <<>> }
RowNodes(s, u, m) ==
    [i \in 1..Len(s) |-> [index |-> i - 1, values |-> FirstCells(RowTexts(s, u)[i], m)]]

\* The sheets that have cells, and the node of each sheet.
FullSheets(ws, u) == { i \in 1..Len(ws) : \E j \in 1..Len(ws[i]) : RowTexts(ws[i], u)[j] # <<>> }
SheetNodes(ws, u, m) ==
    [i \in 1..Len(ws) |->
        [index |-> i - 1,
         paragraphs |-> Chosen(UsedRows(ws[i], u), Len(ws[i]), RowNodes(ws[i], u, m))]]

\* The nodes of the sheets up to the current one are in the result, those of
\* its rows in the group, and the flag says whether there are any.
SheetObjectInv ==
    mode = "object" =>
        /\ colIdx = sheet - 1
        /\ out = Chosen(FullSheets(sheets, unique_values_only), sheet - 1,
                        SheetNodes(sheets, unique_values_only, max_paragraph_length))
        /\ pc = "row" =>
              /\ rowIdx = row - 1
              /\ emptyCol <=> \A i \in 1..(row - 1) :
                                 RowTexts(sheets[sheet], unique_values_only)[i] = <<>>
              /\ group = Chosen(UsedRows(sheets[sheet], unique_values_only), row - 1,
                                RowNodes(sheets[sheet], unique_values_only, max_paragraph_length))

\* A node has the first cells of its row, up to the limit.
LEMMA NodeValues ==
    ASSUME NEW r \in RowType, NEW m \in Int
    PROVE  FirstCells(r, m) = IF m > 0 /\ Len(r) > m THEN SubSeq(r, 1, m) ELSE r
<1>1. r \in Seq(Cell) /\ Len(r) \in Nat
  BY DEF RowType
<1>2. SubSeq(r, 1, Len(r)) = r
  BY <1>1, SubSeqFull
<1>3. CASE m \in 1..Len(r)
  <2>1. m = Len(r) \/ (m > 0 /\ Len(r) > m)
    BY <1>1, <1>3
  <2>2. ~(Len(r) > Len(r))
    BY <1>1
  <2> QED BY <1>2, <1>3, <2>1, <2>2 DEF FirstCells
<1>4. CASE m \notin 1..Len(r)
  <2>1. ~(m > 0 /\ Len(r) > m)
    BY <1>1, <1>4
  <2> QED BY <1>2, <1>4, <2>1 DEF FirstCells
<1> QED BY <1>3, <1>4

\* A row in object mode.
LEMMA RowNodeStep ==
    ASSUME SheetTypeOK, SheetObjectInv, mode = "object", NEW f, Row(f)
    PROVE  SheetObjectInv'
<1> DEFINE u == unique_values_only
           m == max_paragraph_length
           s == sheets[sheet]
           n == row - 1
           S == UsedRows(s, u)
           F == RowNodes(s, u, m)
<1>1. /\ pc = "row" /\ row <= Len(s) /\ row' = row + 1
      /\ UNCHANGED <<sheetArgs, pc, sheet, colIdx>>
      /\ ObjectRow
  BY DEF Row, TextRow, CollectionRow
<1>2. /\ mode' = mode /\ sheets' = sheets /\ u' = u /\ m' = m /\ sheet' = sheet /\ pc' = pc
      /\ colIdx' = colIdx
  BY <1>1, SheetOptionsStay
<1>3. /\ row \in 1..Len(s) /\ joined \in RowType /\ joined = RowTexts(s, u)[row]
      /\ n \in Nat /\ n + 1 = row /\ row' - 1 = row
  BY <1>1, RowHere
<1>4. /\ colIdx = sheet - 1
      /\ out = Chosen(FullSheets(sheets, u), sheet - 1, SheetNodes(sheets, u, m))
      /\ rowIdx = n
      /\ emptyCol <=> \A i \in 1..n : RowTexts(s, u)[i] = <<>>
      /\ group = Chosen(S, n, F)
  BY <1>1 DEF SheetObjectInv
<1>5. m \in Int
  BY LimitAssumption DEF SheetTypeOK
<1>6. row \in S <=> ~EmptyRow
  BY <1>3 DEF UsedRows, EmptyRow
<1>7. F[row] = [index |-> n, values |-> FirstCells(joined, m)]
  BY <1>3 DEF RowNodes
<1> HIDE DEF n, S, F
<1>8. Chosen(S, row, F) = IF EmptyRow THEN group ELSE Append(group, F[row])
  <2>1. n \in Nat
    BY <1>3
  <2>2. Chosen(S, n + 1, F) = IF n + 1 \in S THEN Append(Chosen(S, n, F), F[n + 1])
                              ELSE Chosen(S, n, F)
    BY ONLY <2>1, ChosenMore
  <2> QED BY <1>3, <1>4, <1>6, <2>2
<1>9. (\A i \in 1..row : RowTexts(s, u)[i] = <<>>)
        <=> (\A i \in 1..n : RowTexts(s, u)[i] = <<>>) /\ EmptyRow
  <2>1. /\ \A i \in 1..row : i \in 1..n \/ i = row
        /\ \A i \in 1..n : i \in 1..row
        /\ row \in 1..row
    BY <1>3
  <2> HIDE DEF s, u
  <2> QED BY <1>3, <2>1 DEF EmptyRow
<1>10. /\ out' = out /\ rowIdx' = row
       /\ emptyCol' <=> emptyCol /\ EmptyRow
       /\ group' = Chosen(S, row, F)
  <2>1. out' = out /\ rowIdx' = rowIdx + 1
    BY <1>1 DEF ObjectRow
  <2>2. CASE EmptyRow
    <3>1. group' = group /\ emptyCol' = emptyCol
      BY <1>1, <2>2 DEF ObjectRow
    <3> QED BY <1>3, <1>4, <1>8, <2>1, <2>2, <3>1
  <2>3. CASE ~EmptyRow
    <3>1. /\ emptyCol' = FALSE
          /\ group' = Append(group, [index |-> rowIdx,
                                     values |-> IF m > 0 /\ Len(joined) > m
                                                THEN SubSeq(joined, 1, m) ELSE joined])
      BY <1>1, <2>3 DEF ObjectRow
    <3>2. FirstCells(joined, m) = IF m > 0 /\ Len(joined) > m THEN SubSeq(joined, 1, m) ELSE joined
      BY <1>3, <1>5, NodeValues
    <3>3. group' = Append(group, F[row])
      BY <1>4, <1>7, <3>1, <3>2
    <3> QED BY <1>3, <1>4, <1>8, <2>1, <2>3, <3>1, <3>3
  <2> QED BY <2>2, <2>3
<1> QED BY <1>1, <1>2, <1>3, <1>4, <1>9, <1>10 DEF SheetObjectInv, S, F, n

\* The end of a sheet in object mode.
LEMMA EndSheetNode ==
    ASSUME SheetTypeOK, SheetObjectInv, mode = "object", EndSheet
    PROVE  SheetObjectInv'
<1> DEFINE u == unique_values_only
           m == max_paragraph_length
           s == sheets[sheet]
           n == sheet - 1
           S == FullSheets(sheets, u)
           F == SheetNodes(sheets, u, m)
<1>1. /\ pc = "row" /\ pc' = "sheet" /\ sheet' - 1 = sheet /\ row - 1 = Len(s)
      /\ sheet \in 1..Len(sheets)
      /\ mode' = mode /\ sheets' = sheets /\ u' = u /\ m' = m
  BY SheetEnds
<1>2. /\ out' = IF emptyCol THEN out ELSE Append(out, [index |-> colIdx, paragraphs |-> group])
      /\ colIdx' = colIdx + 1 /\ sheet' = sheet + 1
  BY DEF EndSheet
<1>3. /\ colIdx = n
      /\ out = Chosen(S, n, F)
      /\ emptyCol <=> \A i \in 1..Len(s) : RowTexts(s, u)[i] = <<>>
      /\ group = Chosen(UsedRows(s, u), Len(s), RowNodes(s, u, m))
  BY <1>1 DEF SheetObjectInv
<1>4. n \in Nat /\ n + 1 = sheet
  BY <1>1
<1>5. sheet \in S <=> ~emptyCol
  BY <1>1, <1>3 DEF FullSheets
<1>6. F[sheet] = [index |-> n, paragraphs |-> group]
  BY <1>1, <1>3 DEF SheetNodes
<1> HIDE DEF n, S, F
<1>7. Chosen(S, sheet, F) = IF emptyCol THEN out ELSE Append(out, F[sheet])
  <2>1. n \in Nat
    BY <1>4
  <2>2. Chosen(S, n + 1, F) = IF n + 1 \in S THEN Append(Chosen(S, n, F), F[n + 1])
                              ELSE Chosen(S, n, F)
    BY ONLY <2>1, ChosenMore
  <2> QED BY <1>3, <1>4, <1>5, <2>2
<1>8. out' = Chosen(S, sheet, F) /\ colIdx' = sheet
  BY <1>2, <1>3, <1>4, <1>6, <1>7
<1> QED BY <1>1, <1>8 DEF SheetObjectInv, S, F

\* The first row of a sheet: nothing was met, kept or pushed yet.
LEMMA SheetBegins ==
    ASSUME SheetTypeOK, CollectionInv, LostInv, SheetObjectInv, BeginSheet
    PROVE  SheetSeenInv' /\ CollectionInv' /\ LostInv' /\ SheetObjectInv'
<1> DEFINE u == unique_values_only
           s == sheets[sheet]
<1>1. /\ pc = "sheet" /\ pc' = "row" /\ row' = 1 /\ row' - 1 = 0 /\ seen' = {} /\ emptyCol' = TRUE
      /\ rowIdx' = 0 /\ (mode # "collections" => group' = <<>>)
      /\ UNCHANGED <<sheetArgs, sheet, colIdx, out>>
      /\ sheet <= Len(sheets)
  BY DEF BeginSheet
<1>2. /\ mode' = mode /\ sheets' = sheets /\ u' = u /\ sheet' = sheet
      /\ max_paragraph_length' = max_paragraph_length /\ width' = width
      /\ colIdx' = colIdx /\ out' = out
  BY <1>1, SheetOptionsStay DEF width
<1>3. KeptRowsTo(s, 0, u) = <<>>
  <2>1. /\ sheet \in 1..Len(sheets) + 1 /\ Len(sheets) \in Nat
        /\ sheets \in Seq(Seq(Seq(Cell \cup {Empty})))
    BY DEF SheetTypeOK
  <2>2. sheet \in 1..Len(sheets)
    BY <1>1, <2>1
  <2>3. s \in Seq(Seq(Cell \cup {Empty}))
    BY <2>1, <2>2
  <2>4. RowTexts(s, u) \in Seq(RowType)
    BY <2>3, RowTextsType
  <2> QED BY <2>4, KeptAll DEF KeptRowsTo
<1>4. \A j \in 1..0 : FALSE
  OBVIOUS
<1>5. SheetSeenInv'
  BY <1>1, <1>4 DEF SheetSeenInv
<1>6. CollectionInv'
  <2> SUFFICES ASSUME mode = "collection"
               PROVE  \E P \in Seq(Seq(RowType)) :
                         /\ out = Done(BookTexts(sheets, u), sheet - 1, <<>>, width, u) \o P
                         /\ CutSoFar(P, <<>>, <<>>, width)
    BY <1>1, <1>2, <1>3 DEF CollectionInv
  <2>1. out = Done(BookTexts(sheets, u), sheet - 1, <<>>, width, u)
    BY <1>1 DEF CollectionInv
  <2>2. out \in Seq(Seq(RowType))
    BY <1>1, <2>1, BookHere
  <2>3. out \o <<>> = out /\ <<>> \in Seq(Seq(RowType))
    BY <2>2
  <2>4. CutSoFar(<<>>, <<>>, <<>>, width)
    <3>1. width \in Int
      BY DEF width
    <3> QED BY <3>1, CutBegins
  <2> QED BY <2>1, <2>3, <2>4
<1>7. LostInv'
  <2>1. ToSet(<<>>) = {}
    BY DEF ToSet
  <2> QED BY <1>1, <1>2, <1>3, <2>1 DEF LostInv
<1>8. SheetObjectInv'
  <2>1. \A S, F : Chosen(S, 0, F) = <<>>
    BY ChosenMore
  <2> QED BY <1>1, <1>2, <1>4, <2>1 DEF SheetObjectInv
<1> QED BY <1>5, <1>6, <1>7, <1>8

-----------------------------------------------------------------------------
\* Sheets of rows: the result.

BookInv == SheetSeenInv /\ CollectionInv /\ LostInv /\ SheetObjectInv /\ BookReturnInv

\* Each invariant is about one mode, so that a step out of it is a step
\* within its own.
LEMMA BookRow ==
    ASSUME SheetTypeOK, BookInv, NEW f, Row(f)
    PROVE  BookInv'
<1>1. /\ UNCHANGED <<sheetArgs, pc, sheet, colIdx>> /\ pc = "row"
      /\ mode \in Mode /\ mode' = mode
  <2>1. UNCHANGED <<sheetArgs, pc, sheet, colIdx>> /\ pc = "row"
    BY DEF Row
  <2> QED BY <2>1, SheetOptionsStay DEF SheetTypeOK
<1>2. SheetSeenInv'
  BY RowSeen DEF BookInv
<1>3. CollectionInv'
  <2>1. CASE mode = "collection"
    BY <2>1, RowGroup DEF BookInv
  <2> QED BY <1>1, <2>1 DEF CollectionInv
<1>4. LostInv'
  <2>1. CASE mode \in {"text", "collections"}
    BY <2>1, RowNotLost DEF BookInv
  <2> QED BY <1>1, <2>1 DEF LostInv
<1>5. SheetObjectInv'
  <2>1. CASE mode = "object"
    BY <2>1, RowNodeStep DEF BookInv
  <2> QED BY <1>1, <2>1 DEF SheetObjectInv
<1>6. BookReturnInv'
  BY <1>1 DEF BookReturnInv
<1> QED BY <1>2, <1>3, <1>4, <1>5, <1>6 DEF BookInv

LEMMA BookEndSheet ==
    ASSUME SheetTypeOK, BookInv, EndSheet
    PROVE  BookInv'
<1>1. pc' = "sheet" /\ mode' = mode
  BY SheetEnds
<1>2. SheetSeenInv' /\ BookReturnInv'
  BY <1>1 DEF SheetSeenInv, BookReturnInv
<1>3. CollectionInv'
  <2>1. CASE mode = "collection"
    BY <2>1, EndSheetGroup DEF BookInv
  <2> QED BY <1>1, <2>1 DEF CollectionInv
<1>4. LostInv'
  <2>1. CASE mode \in {"text", "collections"}
    BY <2>1, EndNotLost DEF BookInv
  <2> QED BY <1>1, <2>1 DEF LostInv
<1>5. SheetObjectInv'
  <2>1. CASE mode = "object"
    BY <2>1, EndSheetNode DEF BookInv
  <2> QED BY <1>1, <2>1 DEF SheetObjectInv
<1> QED BY <1>2, <1>3, <1>4, <1>5 DEF BookInv

\* Every step keeps the result as specified.
LEMMA BookStep ==
    ASSUME SheetTypeOK, BookInv, [SheetNext]_sheetVars
    PROVE  BookInv'
<1>1. CASE BeginSheet
  <2>1. BookReturnInv'
    BY <1>1 DEF BeginSheet, BookReturnInv
  <2> QED BY <1>1, <2>1, SheetBegins DEF BookInv
<1>2. CASE XlsRow
  BY <1>2, BookRow DEF XlsRow
<1>3. CASE XlsxRow
  BY <1>3, BookRow DEF XlsxRow
<1>4. CASE EndSheet
  BY <1>4, BookEndSheet
<1>5. CASE ReturnBook
  <2>1. /\ UNCHANGED <<sheetArgs, sheet, row, seen, emptyCol, group, colIdx, rowIdx, out>>
        /\ pc = "sheet" /\ pc' = "done" /\ sheet > Len(sheets)
    BY <1>5 DEF ReturnBook
  <2>2. /\ mode' = mode /\ sheets' = sheets /\ unique_values_only' = unique_values_only
        /\ max_paragraph_length' = max_paragraph_length /\ width' = width
        /\ sheet' = sheet /\ out' = out /\ colIdx' = colIdx
    BY <2>1, SheetOptionsStay DEF width
  <2>3. SheetSeenInv' /\ BookReturnInv'
    BY <2>1, <2>2 DEF SheetSeenInv, BookReturnInv
  <2>4. CollectionInv'
    BY <2>1, <2>2 DEF BookInv, CollectionInv
  <2>5. LostInv'
    BY <2>1, <2>2 DEF BookInv, LostInv
  <2>6. SheetObjectInv'
    BY <2>1, <2>2 DEF BookInv, SheetObjectInv
  <2> QED BY <2>3, <2>4, <2>5, <2>6 DEF BookInv
<1>6. CASE UNCHANGED sheetVars
  <2>1. /\ mode' = mode /\ sheets' = sheets /\ unique_values_only' = unique_values_only
        /\ max_paragraph_length' = max_paragraph_length /\ width' = width
        /\ sheet' = sheet /\ row' = row /\ pc' = pc /\ seen' = seen /\ emptyCol' = emptyCol
        /\ group' = group /\ out' = out /\ colIdx' = colIdx /\ rowIdx' = rowIdx
    BY <1>6, SheetOptionsStay DEF sheetVars, width
  <2>2. SheetSeenInv' /\ BookReturnInv'
    BY <2>1 DEF BookInv, SheetSeenInv, BookReturnInv
  <2>3. CollectionInv'
    BY <2>1 DEF BookInv, CollectionInv
  <2>4. LostInv'
    BY <2>1 DEF BookInv, LostInv
  <2>5. SheetObjectInv'
    BY <2>1 DEF BookInv, SheetObjectInv
  <2> QED BY <2>2, <2>3, <2>4, <2>5 DEF BookInv
<1> QED BY <1>1, <1>2, <1>3, <1>4, <1>5, <1>6 DEF SheetNext

LEMMA BookBegins == SheetInit => BookInv
<1> SUFFICES ASSUME SheetInit PROVE BookInv
  OBVIOUS
<1>1. pc = "sheet" /\ sheet = 1 /\ out = <<>> /\ colIdx = 0 /\ sheet - 1 = 0
  BY DEF SheetInit
<1>2. SheetSeenInv /\ BookReturnInv
  BY <1>1 DEF SheetSeenInv, BookReturnInv
<1>3. CollectionInv
  <2>1. Flatten(<<>>) = <<>>
    <3>1. <<>> \in Seq(Seq({})) /\ <<>> \in Seq({})
      OBVIOUS
    <3> QED BY <3>1, FlattenMore
  <2>2. \A ps, e, m, u : [i \in 1..0 |-> Cut(Kept(ps[i], e, u), m)] = <<>>
    OBVIOUS
  <2>3. Done(BookTexts(sheets, unique_values_only), 0, <<>>, width, unique_values_only) = <<>>
    BY <2>1, <2>2 DEF Done
  <2> QED BY <1>1, <2>3 DEF CollectionInv
<1>4. LostInv
  <2>1. \A s \in 1..(sheet - 1) : FALSE
    BY <1>1
  <2> QED BY <1>1, <2>1 DEF LostInv
<1>5. SheetObjectInv
  <2>1. \A S, F : Chosen(S, 0, F) = <<>>
    BY ChosenMore
  <2> QED BY <1>1, <2>1 DEF SheetObjectInv
<1> QED BY <1>2, <1>3, <1>4, <1>5 DEF BookInv

\* At every step of the walk over a workbook the result holds what the rows
\* walked so far call for, and the buffer the rest.
THEOREM BookCorrect == SheetSpec => []BookInv
<1>1. SheetTypeOK /\ BookInv /\ [SheetNext]_sheetVars => BookInv'
  BY BookStep
<1> QED BY <1>1, BookBegins, SheetTypeCorrect, PTL DEF SheetSpec

\* All sheets are done when the result is returned.
LEMMA BookEnds ==
    ASSUME SheetTypeOK, BookInv, pc = "done"
    PROVE  sheet - 1 = Len(sheets)
<1>1. sheet > Len(sheets)
  BY DEF BookInv, BookReturnInv
<1>2. sheet \in 1..Len(sheets) + 1 /\ Len(sheets) \in Nat
  BY DEF SheetTypeOK
<1> QED BY <1>1, <1>2

\* Collection mode: the result is what one gets by filtering the cells of each
\* row and the rows of each sheet and cutting what remains into rows, with
\* limit 1, or else leaving it whole: for every workbook and limit.
THEOREM CollectionCorrect == SheetSpec => []CollectionAsSpecified
<1>1. SheetTypeOK /\ BookInv => CollectionAsSpecified
  <2> SUFFICES ASSUME SheetTypeOK, BookInv, pc = "done", mode = "collection"
               PROVE  out = AllGroups
    BY DEF CollectionAsSpecified
  <2> DEFINE u == unique_values_only
             ws == BookTexts(sheets, u)
  <2>1. out = Done(ws, Len(sheets), <<>>, width, u)
    BY BookEnds DEF BookInv, CollectionInv
  <2>2. \A i \in 1..Len(sheets) : Cut(Kept(ws[i], <<>>, u), width) = GroupsOf(sheets[i])
    <3>1. \A i \in 1..Len(sheets) : KeptRows(sheets[i]) = Kept(ws[i], <<>>, u)
      BY AllRowsKept
    <3> QED BY <3>1 DEF GroupsOf, width
  <2>3. DOMAIN sheets = 1..Len(sheets)
    BY DEF SheetTypeOK
  <2> HIDE DEF ws
  <2>4. [i \in 1..Len(sheets) |-> Cut(Kept(ws[i], <<>>, u), width)]
          = [s \in DOMAIN sheets |-> GroupsOf(sheets[s])]
    BY <2>2, <2>3
  <2> QED BY <2>1, <2>4 DEF Done, AllGroups
<1> QED BY <1>1, SheetTypeCorrect, BookCorrect, PTL

\* Text and collections mode: every row that counts is in a group that was
\* pushed when its sheet ends, though groups are flushed, flags are lowered for
\* duplicates and texts is carried from sheet to sheet.
THEOREM NoRowLostCorrect == SheetSpec => []NoRowLost
<1>1. SheetTypeOK /\ BookInv => NoRowLost
  <2> SUFFICES ASSUME SheetTypeOK, BookInv, mode \in {"text", "collections"},
                      NEW s \in 1..(sheet - 1), NEW r \in ToSet(KeptRows(sheets[s]))
               PROVE  \E k \in DOMAIN out : r \in ToSet(out[k])
    BY DEF NoRowLost
  <2>1. s \in 1..Len(sheets)
    BY DEF SheetTypeOK
  <2>2. KeptRowsTo(sheets[s], Len(sheets[s]), unique_values_only) = KeptRows(sheets[s])
    BY <2>1, AllRowsKept
  <2>3. Pushed(out, r)
    BY <2>2 DEF BookInv, LostInv
  <2> QED BY <2>3 DEF Pushed
<1> QED BY <1>1, SheetTypeCorrect, BookCorrect, PTL

\* Object mode: one node per sheet with cells, with the physical number of the
\* sheet, holding one node per row with cells, with the physical number of the
\* row and its first cells up to the limit.
THEOREM SheetsCorrect == SheetSpec => []SheetsAsSpecified
<1>1. SheetTypeOK /\ BookInv => SheetsAsSpecified
  <2> SUFFICES ASSUME SheetTypeOK, BookInv, pc = "done", mode = "object"
               PROVE  SheetsAsSpecified
    BY DEF SheetsAsSpecified
  <2> DEFINE u == unique_values_only
             m == max_paragraph_length
             Used(s) == { i \in DOMAIN s : CellsOf(s[i]) # <<>> }
             Full == { s \in DOMAIN sheets : \E i \in DOMAIN sheets[s] : CellsOf(sheets[s][i]) # <<>> }
             full == InOrder(Full, Len(sheets))
             NodeAt(s, i) == [index |-> i - 1, values |-> FirstCells(CellsOf(s[i]), m)]
             Nodes(s) == LET used == InOrder(Used(s), Len(s))
                         IN  [k \in DOMAIN used |-> NodeAt(s, used[k])]
  <2>1. out = Chosen(FullSheets(sheets, u), Len(sheets), SheetNodes(sheets, u, m))
    BY BookEnds DEF BookInv, SheetObjectInv
  <2>2. /\ DOMAIN sheets = 1..Len(sheets) /\ Len(sheets) \in Nat
        /\ \A s \in 1..Len(sheets) : /\ sheets[s] \in Seq(Seq(Cell \cup {Empty}))
                                     /\ DOMAIN sheets[s] = 1..Len(sheets[s])
                                     /\ Len(sheets[s]) \in Nat
    BY DEF SheetTypeOK
  <2>3. ASSUME NEW s \in 1..Len(sheets), NEW i \in 1..Len(sheets[s])
        PROVE  RowTexts(sheets[s], u)[i] = CellsOf(sheets[s][i])
    BY <2>2 DEF RowTexts, CellsOf
  <2>4. FullSheets(sheets, u) = Full
    BY <2>2, <2>3 DEF FullSheets
  <2>5. ASSUME NEW s \in 1..Len(sheets)
        PROVE  Chosen(UsedRows(sheets[s], u), Len(sheets[s]), RowNodes(sheets[s], u, m))
                 = Nodes(sheets[s])
    <3> DEFINE sh == sheets[s]
               used == InOrder(Used(sh), Len(sh))
    <3>1. UsedRows(sh, u) = Used(sh)
      BY <2>2, <2>3 DEF UsedRows
    <3>2. \A i \in 1..Len(sh) : RowNodes(sh, u, m)[i] = NodeAt(sh, i)
      BY <2>3 DEF RowNodes
    <3>3. used \in Seq(1..Len(sh))
      BY <2>2, InOrderMore
    <3> HIDE DEF sh, Used, NodeAt
    <3>4. \A k \in DOMAIN used : used[k] \in 1..Len(sh)
      <4> HIDE DEF used
      <4> QED BY <3>3
    <3>5. [k \in DOMAIN used |-> RowNodes(sh, u, m)[used[k]]] = [k \in DOMAIN used |-> NodeAt(sh, used[k])]
      BY <3>2, <3>4
    <3> QED BY <3>1, <3>5 DEF Chosen, sh
  <2>6. full \in Seq(1..Len(sheets))
    BY <2>2, InOrderMore
  <2>7. \A k \in DOMAIN full : full[k] \in 1..Len(sheets)
    <3> HIDE DEF full
    <3> QED BY <2>6
  <2>8. \A s \in 1..Len(sheets) :
           SheetNodes(sheets, u, m)[s] = [index |-> s - 1, paragraphs |-> Nodes(sheets[s])]
    <3> HIDE DEF Nodes
    <3> QED BY <2>5 DEF SheetNodes
  <2>9. out = [k \in DOMAIN full |-> SheetNodes(sheets, u, m)[full[k]]]
    BY <2>1, <2>4 DEF Chosen
  <2>10. out = [k \in DOMAIN full |->
                  [index |-> full[k] - 1, paragraphs |-> Nodes(sheets[full[k]])]]
    <3> HIDE DEF full, Nodes
    <3> QED BY <2>7, <2>8, <2>9
  <2> QED BY <2>10 DEF SheetsAsSpecified, FirstCells
<1> QED BY <1>1, SheetTypeCorrect, BookCorrect, PTL
-----------------------------------------------------------------------------
\* One text: types, the body of a message and the result.

\* What a text is made of: numbers of MIME parts and names of other sources.
Words == Nat \cup {"text", "html", "rtf", "section"}

\* What a parser may be given.
SourceOK ==
    /\ DOMAIN source = DOMAIN NoSource
    /\ source.parts \in Seq(PartType)
    /\ source.parts = <<>> \/ MimeTree(source.parts)
    /\ format = "eml" => (source.readable <=> source.parts # <<>>)
    /\ source.sections \in Seq(SectionType)

\* The calls under way: each is over parts of the message, at one of them or
\* behind its last, and over all that is under each of them.
FrameType == [callback : {"processMessage", "processPart"}, at : Nat, end : Nat, saved : BOOLEAN]
FrameOK(f) ==
    /\ f.end \in 1..Len(source.parts)
    /\ f.at \in 1..(f.end + 1)
    /\ \A j \in f.at..f.end : source.parts[j].last <= f.end
FramesOK == frames \in Seq(FrameType) /\ \A k \in DOMAIN frames : FrameOK(frames[k])

\* The preferred one of the bodies of a message, when it was parsed.
MsgBody ==
    IF WithText = {} THEN body = <<>>
    ELSE \E i \in WithText : (\A j \in WithText : i <= j) /\ body = << Bodies[i] >>

\* How a document may end up: not parsed; an .eml in object mode, after the
\* type was set; subject and body as one text; or, in object mode, only the
\* body or no page at all.
Failed(u) == [NoResult EXCEPT !.type = u]
Outcome ==
    \/ result \in {Failed("unknown"), Failed("eml")}
    \/ result = Rendered(subject \o body)
    \/ mode = "object" /\ result \in {Rendered(body), [Rendered(body) EXCEPT !.pieces = <<>>]}

TextInv ==
    /\ format \in TextFormat /\ mode \in Mode /\ SourceOK
    /\ pc \in {"parse", "parts", "render", "done"}
    /\ pc = "parts" => format = "eml"
    /\ pc = "parts" => frames # <<>>
    /\ FramesOK /\ is_main_message \in BOOLEAN
    /\ subject \in {<<>>, <<"subject">>}
    /\ format \notin {"eml", "msg"} => subject = <<>>
    /\ body \in Seq(Words)
    /\ headers \in {"null", "arrays"}
    /\ format = "msg" /\ source.readable /\ pc # "parse" => MsgBody
    /\ IF pc = "done" THEN Outcome ELSE result = NoResult

\* The sources by format.
HtmlSource(r, h) == [NoSource EXCEPT !.readable = r, !.html = h]
DocSource(r, x) == [NoSource EXCEPT !.readable = r, !.text = x]
EmlSource(u, q) == [NoSource EXCEPT !.subject = u, !.parts = q]
Unreadable == [NoSource EXCEPT !.readable = FALSE]
MsgSource(r, u, x, h, y) ==
    [NoSource EXCEPT !.readable = r, !.subject = u, !.text = x, !.html = h, !.rtf = y]

LEMMA SourcesByFormat ==
    /\ Sources("txt") = { [NoSource EXCEPT !.text = "words"] }
    /\ Sources("html") = { HtmlSource(r, h) : r \in BOOLEAN, h \in {"blank", "words"} }
    /\ Sources("doc") = { DocSource(r, x) : r \in BOOLEAN, x \in Filled }
    /\ Sources("md") = { [NoSource EXCEPT !.sections = q] : q \in Sections }
    /\ Sources("eml") = {Unreadable} \cup { EmlSource(u, q) : u \in Filled, q \in Parts }
    /\ Sources("msg") = { MsgSource(r, u, x, h, y) :
                             r \in BOOLEAN, u \in Filled, x \in Filled,
                             h \in Markup, y \in Markup }
BY SMT DEF Sources, HtmlSource, DocSource, EmlSource, Unreadable, MsgSource

\* Whatever the format, a source has its fields, and lists where they belong.
LEMMA SourcesOK == ASSUME format \in TextFormat, source \in Sources(format) PROVE SourceOK
<1>1. /\ \A q \in Parts : q \in Seq(PartType) /\ MimeTree(q)
      /\ \A q \in Sections : q \in Seq(SectionType)
      /\ <<>> \in Seq(PartType) /\ <<>> \in Seq(SectionType)
  BY PartAssumption, SectionAssumption
<1>n. /\ DOMAIN NoSource = {"readable", "subject", "text", "html", "rtf", "parts", "sections"}
      /\ NoSource.parts = <<>> /\ NoSource.sections = <<>>
  BY DEF NoSource
<1>2. CASE format = "txt"
  <2>1. source = [NoSource EXCEPT !.text = "words"]
    BY <1>2, SourcesByFormat
  <2> QED BY <1>1, <1>2, <1>n, <2>1 DEF SourceOK
<1>3. CASE format = "html"
  <2>1. \E r, h : source = HtmlSource(r, h)
    BY <1>3, SourcesByFormat
  <2> QED BY <1>1, <1>3, <1>n, <2>1 DEF SourceOK, HtmlSource
<1>4. CASE format = "doc"
  <2>1. \E r, x : source = DocSource(r, x)
    BY <1>4, SourcesByFormat
  <2> QED BY <1>1, <1>4, <1>n, <2>1 DEF SourceOK, DocSource
<1>5. CASE format = "md"
  <2>1. PICK q \in Sections : source = [NoSource EXCEPT !.sections = q]
    BY <1>5, SourcesByFormat
  <2> QED BY <1>1, <1>5, <1>n, <2>1 DEF SourceOK
<1>6. CASE format = "eml"
  <2>1. source = Unreadable \/ \E u : \E q \in Parts : source = EmlSource(u, q)
    BY <1>6, SourcesByFormat
  <2>2. CASE source = Unreadable
    <3>1. source.readable = FALSE
      BY <2>2 DEF Unreadable, NoSource
    <3> QED BY <1>1, <1>n, <2>2, <3>1 DEF SourceOK, Unreadable
  <2>3. CASE source # Unreadable
    <3>1. PICK u : \E q \in Parts : source = EmlSource(u, q)
      BY <2>1, <2>3
    <3>2. PICK q \in Parts : source = EmlSource(u, q)
      BY <3>1
    <3>3. source.parts = q /\ source.sections = <<>> /\ DOMAIN source = DOMAIN NoSource
      BY <1>n, <3>2 DEF EmlSource
    <3>4. q # <<>> /\ source.readable = TRUE
      BY <1>1, <3>2 DEF MimeTree, EmlSource, NoSource
    <3> QED BY <1>1, <3>3, <3>4 DEF SourceOK
  <2> QED BY <2>2, <2>3
<1>7. CASE format = "msg"
  <2>1. \E r, u, x, h, y : source = MsgSource(r, u, x, h, y)
    BY <1>7, SourcesByFormat
  <2> QED BY <1>1, <1>7, <1>n, <2>1 DEF SourceOK, MsgSource
<1> QED BY <1>2, <1>3, <1>4, <1>5, <1>6, <1>7 DEF TextFormat

\* The name of a filled source is a text.
LEMMA HasType ==
    ASSUME NEW x, NEW name \in Words
    PROVE  Has(x, name) \in Seq(Words)
BY DEF Has

\* The parsers of the formats that have one text.
LEMMA ParseOne ==
    ASSUME TextInv, ParseTxt \/ ParseHtml \/ OlecfFails \/ ParseDoc
    PROVE  TextInv'
<1>1. /\ pc = "parse" /\ UNCHANGED <<format, mode, source, textWalk, subject, headers>>
      /\ result = NoResult
  BY DEF ParseTxt, ParseHtml, OlecfFails, ParseDoc, textArgs, TextInv
<1>2. \/ /\ pc' = "render" /\ result' = result /\ format \in {"txt", "html", "doc"}
         /\ \E x : body' = Has(x, "text") \/ body' = Has(x, "html")
      \/ /\ pc' = "done" /\ body' = body /\ result' = Failed("unknown")
         /\ format = "msg" => ~source.readable
  BY <1>1, Zenon DEF ParseTxt, ParseHtml, OlecfFails, ParseDoc, Failed
<1>3. body' \in Seq(Words)
  <2>1. "text" \in Words /\ "html" \in Words
    BY DEF Words
  <2> QED BY <1>2, <2>1, HasType DEF TextInv
<1>4. SourceOK' /\ FramesOK' /\ is_main_message' \in BOOLEAN
  BY <1>1 DEF TextInv, SourceOK, FramesOK, FrameOK, textWalk
<1> QED BY <1>1, <1>2, <1>3, <1>4 DEF TextInv, Outcome, Failed, NoResult

\* ParseMsg takes the first body that has a text.
LEMMA ParseMsgStep == ASSUME TextInv, ParseMsg PROVE TextInv'
<1>1. /\ pc = "parse" /\ pc' = "render" /\ format = "msg"
      /\ UNCHANGED <<format, mode, source, textWalk, headers, result>>
      /\ subject' = Has(source.subject, "subject")
  BY DEF ParseMsg, textArgs
<1>2. body' = IF source.text = "words" THEN <<"text">>
              ELSE IF source.html = "words" THEN <<"html">>
              ELSE IF source.rtf = "words" THEN <<"rtf">> ELSE <<>>
  BY DEF ParseMsg, Has
<1>3. body' \in Seq(Words)
  <2>1. /\ <<"text">> \in Seq(Words) /\ <<"html">> \in Seq(Words)
        /\ <<"rtf">> \in Seq(Words) /\ <<>> \in Seq(Words)
    BY DEF Words
  <2> QED BY <1>2, <2>1
<1>4. MsgBody'
  <2>1. /\ Bodies[1] = "text" /\ Bodies[2] = "html" /\ Bodies[3] = "rtf"
        /\ DOMAIN Bodies = {1, 2, 3}
    BY DEF Bodies
  <2>2. WithText' = WithText
    BY <1>1 DEF WithText
  <2>3. CASE source.text = "words"
    <3>1. 1 \in WithText /\ \A j \in WithText : 1 <= j
      BY <2>1, <2>3 DEF WithText
    <3>2. body' = << Bodies[1] >>
      BY <1>2, <2>1, <2>3
    <3> QED BY <2>2, <3>1, <3>2 DEF MsgBody
  <2>4. CASE source.text # "words" /\ source.html = "words"
    <3>1. 2 \in WithText /\ \A j \in WithText : 2 <= j
      BY <2>1, <2>4 DEF WithText
    <3>2. body' = << Bodies[2] >>
      BY <1>2, <2>1, <2>4
    <3> QED BY <2>2, <3>1, <3>2 DEF MsgBody
  <2>5. CASE source.text # "words" /\ source.html # "words" /\ source.rtf = "words"
    <3>1. 3 \in WithText /\ \A j \in WithText : 3 <= j
      BY <2>1, <2>5 DEF WithText
    <3>2. body' = << Bodies[3] >>
      BY <1>2, <2>1, <2>5
    <3> QED BY <2>2, <3>1, <3>2 DEF MsgBody
  <2>6. CASE source.text # "words" /\ source.html # "words" /\ source.rtf # "words"
    <3>1. WithText = {}
      BY <2>1, <2>6 DEF WithText
    <3>2. body' = <<>>
      BY <1>2, <2>6
    <3> QED BY <2>2, <3>1, <3>2 DEF MsgBody
  <2> QED BY <2>3, <2>4, <2>5, <2>6
<1>5. subject' \in {<<>>, <<"subject">>}
  BY <1>1 DEF Has
<1>6. SourceOK' /\ FramesOK' /\ is_main_message' \in BOOLEAN
  BY <1>1 DEF TextInv, SourceOK, FramesOK, FrameOK, textWalk
<1> QED BY <1>1, <1>3, <1>4, <1>5, <1>6 DEF TextInv

\* The sections of an .md file become names.
LEMMA ParseMdStep == ASSUME TextInv, ParseMd PROVE TextInv'
<1>1. /\ pc = "parse" /\ pc' = "render" /\ format = "md"
      /\ UNCHANGED <<format, mode, source, textWalk, subject, headers, result>>
      /\ body' = [i \in DOMAIN source.sections |-> "section"]
  BY DEF ParseMd, textArgs
<1>2. body' \in Seq(Words)
  <2> DEFINE n == Len(source.sections)
  <2>1. n \in Nat /\ DOMAIN source.sections = 1..n
    <3>1. source.sections \in Seq(SectionType)
      BY DEF TextInv, SourceOK
    <3> QED BY <3>1
  <2>2. "section" \in Words
    BY DEF Words
  <2> HIDE DEF n
  <2>3. body' \in [1..n -> Words]
    BY <1>1, <2>1, <2>2
  <2>4. body' \in UNION { [1..m -> Words] : m \in Nat }
    BY <2>1, <2>3
  <2> QED BY <2>4, SeqDef
<1>3. SourceOK' /\ FramesOK' /\ is_main_message' \in BOOLEAN
  BY <1>1 DEF TextInv, SourceOK, FramesOK, FrameOK, textWalk
<1> QED BY <1>1, <1>2, <1>3 DEF TextInv

\* A foreach on top of the others.
LEMMA ForeachPushed ==
    ASSUME NEW F \in Seq(FrameType), \A k \in DOMAIN F : FrameOK(F[k]),
           NEW f \in FrameType, FrameOK(f)
    PROVE  /\ Append(F, f) \in Seq(FrameType)
           /\ \A k \in DOMAIN Append(F, f) : FrameOK(Append(F, f)[k])
<1> DEFINE G == Append(F, f)
<1>1. /\ G \in Seq(FrameType) /\ DOMAIN G = 1..(Len(F) + 1) /\ Len(F) \in Nat
      /\ \A k \in 1..Len(F) : G[k] = F[k] /\ k \in DOMAIN F
      /\ G[Len(F) + 1] = f
  OBVIOUS
<1>2. ASSUME NEW k \in DOMAIN G PROVE FrameOK(G[k])
  <2>1. k \in 1..Len(F) \/ k = Len(F) + 1
    BY <1>1
  <2> HIDE DEF G
  <2> QED BY <1>1, <2>1
<1> QED BY <1>1, <1>2

\* The innermost foreach is at a part of the message.
LEMMA RunningAt ==
    ASSUME TextInv, NEW c, Visits(c)
    PROVE  /\ frames \in Seq(FrameType) /\ Len(frames) \in Nat \ {0}
           /\ DOMAIN frames = 1..Len(frames)
           /\ running \in FrameType /\ FrameOK(running)
           /\ MimeTree(source.parts) /\ Len(source.parts) \in Nat
           /\ DOMAIN source.parts = 1..Len(source.parts)
           /\ running.at \in 1..running.end /\ running.end \in 1..Len(source.parts)
           /\ mimePart \in PartType /\ mimePart = source.parts[running.at]
           /\ mimePart.last \in running.at..running.end
<1>1. /\ frames \in Seq(FrameType) /\ Len(frames) \in Nat \ {0}
      /\ DOMAIN frames = 1..Len(frames)
  <2>1. frames \in Seq(FrameType) /\ frames # <<>>
    BY DEF TextInv, FramesOK, Visits
  <2> QED BY <2>1
<1>2. running \in FrameType /\ FrameOK(running)
  BY <1>1 DEF TextInv, FramesOK, running
<1>3. source.parts \in Seq(PartType) /\ Len(source.parts) \in Nat
      /\ DOMAIN source.parts = 1..Len(source.parts)
  BY DEF TextInv, SourceOK
<1>4. running.end \in 1..Len(source.parts) /\ running.at \in 1..(running.end + 1)
  BY <1>2 DEF FrameOK
<1>5. MimeTree(source.parts)
  BY <1>3, <1>4 DEF TextInv, SourceOK
<1>6. running.at \in 1..running.end /\ running.at \in 1..Len(source.parts)
  BY <1>3, <1>4 DEF Visits
<1>7. mimePart \in PartType /\ mimePart = source.parts[running.at]
  BY <1>3, <1>6 DEF mimePart
<1>8. mimePart.last \in running.at..Len(source.parts)
  BY <1>3, <1>5, <1>6, <1>7 DEF MimeTree
<1>9. mimePart.last <= running.end
  BY <1>2, <1>6, <1>7 DEF FrameOK
<1> QED BY <1>1, <1>2, <1>3, <1>4, <1>5, <1>6, <1>7, <1>8, <1>9

\* The innermost foreach moves on, and the others stay.
LEMMA OnwardsOK ==
    ASSUME TextInv, NEW c, Visits(c)
    PROVE  /\ Onwards \in Seq(FrameType) /\ Len(Onwards) = Len(frames)
           /\ \A k \in DOMAIN Onwards : FrameOK(Onwards[k])
           /\ \A k \in 1..Len(frames) :
                 /\ Onwards[k].end = frames[k].end /\ Onwards[k].saved = frames[k].saved
                 /\ Onwards[k].callback = frames[k].callback
                 /\ k # Len(frames) => Onwards[k] = frames[k]
           /\ Onwards[Len(frames)].at =
                  IF mimePart.kind = "message" THEN mimePart.last + 1 ELSE running.at + 1
<1> DEFINE n == Len(frames)
           to == IF mimePart.kind = "message" THEN mimePart.last + 1 ELSE running.at + 1
           g == [running EXCEPT !.at = to]
<1>1. /\ frames \in Seq(FrameType) /\ n \in Nat \ {0} /\ DOMAIN frames = 1..n
      /\ running \in FrameType /\ FrameOK(running) /\ Len(source.parts) \in Nat
      /\ running.at \in 1..running.end /\ running.end \in 1..Len(source.parts)
      /\ mimePart.last \in running.at..running.end
  BY RunningAt
<1>2. to \in Nat /\ to \in (running.at + 1)..(running.end + 1)
  BY <1>1
<1> HIDE DEF to
<1>3. /\ g \in FrameType /\ g.at = to /\ g.end = running.end
      /\ g.saved = running.saved /\ g.callback = running.callback
  <2>1. /\ running.end \in Nat /\ running.saved \in BOOLEAN
        /\ running.callback \in {"processMessage", "processPart"}
        /\ running = [callback |-> running.callback, at |-> running.at,
                      end |-> running.end, saved |-> running.saved]
    BY <1>1 DEF FrameType
  <2>2. g = [callback |-> running.callback, at |-> to, end |-> running.end,
             saved |-> running.saved]
    BY <2>1
  <2> HIDE DEF g
  <2> QED BY <1>2, <2>1, <2>2 DEF FrameType
<1>4. FrameOK(g)
  BY <1>1, <1>2, <1>3 DEF FrameOK
<1> HIDE DEF g
<1>5. Onwards = [frames EXCEPT ![n] = g]
  BY DEF Onwards, running, to, g
<1>6. Onwards \in Seq(FrameType) /\ Len(Onwards) = n /\ DOMAIN Onwards = 1..n
  BY <1>1, <1>3, <1>5
<1>7. Onwards[n] = g /\ \A k \in 1..n : k # n => Onwards[k] = frames[k]
  <2> HIDE DEF n
  <2>1. n \in DOMAIN frames /\ DOMAIN frames = 1..n
    BY <1>1
  <2> QED BY <1>5, <2>1
<1>8. \A k \in 1..n : FrameOK(Onwards[k])
  BY <1>1, <1>4, <1>7 DEF TextInv, FramesOK
<1>9. running = frames[n]
  BY DEF running
<1> HIDE DEF n
<1> QED BY <1>3, <1>6, <1>7, <1>8, <1>9 DEF n, to

\* What processMessage and processPart start is a foreach over what is under
\* the part.
LEMMA ForeachOK ==
    ASSUME TextInv, NEW c, Visits(c), NEW d \in {"processMessage", "processPart"}
    PROVE  LET f == Foreach(d, running.at + 1, mimePart.last)
           IN  /\ f \in FrameType /\ FrameOK(f) /\ f.callback = d
               /\ f.saved = is_main_message
<1> DEFINE f == Foreach(d, running.at + 1, mimePart.last)
<1>1. /\ MimeTree(source.parts) /\ Len(source.parts) \in Nat
      /\ DOMAIN source.parts = 1..Len(source.parts)
      /\ running.at \in 1..running.end /\ running.end \in 1..Len(source.parts)
      /\ mimePart = source.parts[running.at]
      /\ mimePart.last \in running.at..running.end
  BY RunningAt
<1>2. /\ f.at = running.at + 1 /\ f.end = mimePart.last /\ f \in FrameType
      /\ f.callback = d /\ f.saved = is_main_message
  BY <1>1 DEF Foreach, FrameType, TextInv
<1>3. \A j \in running.at..mimePart.last : source.parts[j].last <= mimePart.last
  BY <1>1 DEF MimeTree
<1> HIDE DEF f
<1>4. FrameOK(f)
  BY <1>1, <1>2, <1>3 DEF FrameOK
<1> QED BY <1>2, <1>4 DEF f

\* A message is opened, and its parts are visited.
LEMMA ParseEmlStep ==
    ASSUME TextInv,
           ParseEml \/ ProcessMessage \/ ProcessPart \/ ForeachReturns \/ PartsDone
    PROVE  TextInv'
<1>1. /\ UNCHANGED <<format, mode, source, result>> /\ format = "eml"
      /\ pc # "done" /\ pc' \in {"parts", "render"}
  BY DEF ParseEml, ProcessMessage, ProcessPart, ForeachReturns, Returns, PartsDone,
         Visits, textArgs, TextInv
<1>2. SourceOK'
  BY <1>1 DEF TextInv, SourceOK
<1>3. subject' \in {<<>>, <<"subject">>} /\ headers' \in {"null", "arrays"}
  BY DEF ParseEml, ProcessMessage, ProcessPart, ForeachReturns, PartsDone, Has, TextInv
<1>4. /\ frames' \in Seq(FrameType) /\ \A k \in DOMAIN frames' : FrameOK(frames'[k])
      /\ is_main_message' \in BOOLEAN
      /\ pc' = "parts" => frames' # <<>>
  <2>1. CASE ParseEml /\ ~source.readable
    BY <2>1 DEF ParseEml, textWalk, TextInv, FramesOK
  <2>2. CASE ParseEml /\ source.readable
    <3> DEFINE f == Foreach("processMessage", 1, Len(source.parts))
    <3>1. frames' = <<f>> /\ is_main_message' = TRUE
      BY <2>2 DEF ParseEml
    <3>2. source.parts # <<>>
      BY <1>1, <2>2 DEF TextInv, SourceOK
    <3>3. /\ Len(source.parts) \in Nat \ {0} /\ MimeTree(source.parts)
          /\ DOMAIN source.parts = 1..Len(source.parts)
      <4>1. source.parts \in Seq(PartType)
        BY DEF TextInv, SourceOK
      <4> QED BY <3>2, <4>1 DEF TextInv, SourceOK
    <3>4. f \in FrameType /\ f.at = 1 /\ f.end = Len(source.parts)
      BY <3>3 DEF Foreach, FrameType, TextInv
    <3> HIDE DEF f
    <3>5. FrameOK(f)
      BY <3>3, <3>4 DEF FrameOK, MimeTree
    <3>6. <<f>> \in Seq(FrameType) /\ DOMAIN <<f>> = {1} /\ <<f>>[1] = f /\ <<f>> # <<>>
      BY <3>4
    <3> QED BY <3>1, <3>5, <3>6
  <2>3. CASE ProcessMessage \/ ProcessPart
    <3>1. PICK c \in {"processMessage", "processPart"} : Visits(c)
      BY <2>3 DEF ProcessMessage, ProcessPart
    <3>2. \/ frames' = Onwards
          \/ \E d \in {"processMessage", "processPart"} :
                frames' = Append(Onwards, Foreach(d, running.at + 1, mimePart.last))
      BY <2>3 DEF ProcessMessage, ProcessPart
    <3>3. /\ Onwards \in Seq(FrameType) /\ Len(Onwards) = Len(frames)
          /\ \A k \in DOMAIN Onwards : FrameOK(Onwards[k])
      BY <3>1, OnwardsOK
    <3>4. Len(frames) \in Nat \ {0}
      BY <3>1, RunningAt
    <3>5. CASE frames' = Onwards
      BY <2>3, <3>3, <3>4, <3>5 DEF ProcessMessage, ProcessPart, TextInv
    <3>6. ASSUME NEW d \in {"processMessage", "processPart"},
                 frames' = Append(Onwards, Foreach(d, running.at + 1, mimePart.last))
          PROVE  /\ frames' \in Seq(FrameType)
                 /\ \A k \in DOMAIN frames' : FrameOK(frames'[k])
                 /\ frames' # <<>>
      <4> DEFINE f == Foreach(d, running.at + 1, mimePart.last)
      <4>1. f \in FrameType /\ FrameOK(f)
        BY <3>1, ForeachOK
      <4> HIDE DEF f
      <4>2. Append(Onwards, f) # <<>>
        BY <3>3
      <4> QED BY <3>3, <3>6, <4>1, <4>2, ForeachPushed DEF f
    <3>7. is_main_message' \in BOOLEAN
      BY <2>3 DEF ProcessMessage, ProcessPart, TextInv
    <3> QED BY <3>2, <3>5, <3>6, <3>7
  <2>4. CASE ForeachReturns
    <3>1. /\ frames \in Seq(FrameType) /\ Len(frames) \in Nat /\ Len(frames) > 1
          /\ frames' = SubSeq(frames, 1, Len(frames) - 1)
      BY <2>4 DEF ForeachReturns, Returns, Front, TextInv, FramesOK
    <3>2. /\ frames' \in Seq(FrameType) /\ Len(frames') = Len(frames) - 1
          /\ \A k \in 1..(Len(frames) - 1) : frames'[k] = frames[k]
      BY <3>1
    <3>3. is_main_message' \in BOOLEAN
      <4>1. running \in FrameType
        BY <3>1 DEF running
      <4> QED BY <2>4, <4>1 DEF ForeachReturns, FrameType, TextInv
    <3>4. \A k \in DOMAIN frames' : FrameOK(frames'[k])
      BY <3>1, <3>2 DEF TextInv, FramesOK
    <3>5. frames' # <<>>
      <4>1. Len(frames') > 0
        BY <3>1, <3>2
      <4> QED BY <4>1
    <3> QED BY <3>2, <3>3, <3>4, <3>5
  <2>5. CASE PartsDone
    BY <2>5 DEF PartsDone, TextInv
  <2> QED BY <2>1, <2>2, <2>3, <2>4, <2>5
<1>5. FramesOK'
  BY <1>1, <1>4 DEF FramesOK, FrameOK
<1>6. body' \in Seq(Words)
  <2>1. CASE body' = body
    BY <2>1 DEF TextInv
  <2>2. CASE body' # body
    <3>1. ProcessMessage /\ body' = body \o Has(mimePart.content, running.at)
      BY <2>2 DEF ParseEml, ProcessMessage, ProcessPart, ForeachReturns, PartsDone
    <3>2. running.at \in Words /\ body \in Seq(Words)
      BY <3>1, RunningAt DEF ProcessMessage, TextInv, Words
    <3>3. Has(mimePart.content, running.at) \in Seq(Words)
      BY <3>2, HasType
    <3> QED BY <3>1, <3>2, <3>3, ConcatProperties
  <2> QED BY <2>1, <2>2
<1> QED BY <1>1, <1>2, <1>3, <1>4, <1>5, <1>6 DEF TextInv

\* The result is one of the outcomes.
LEMMA RenderStep ==
    ASSUME TextInv, RenderTxt \/ RenderHtml \/ RenderDoc \/ RenderMd \/ RenderMsg \/ RenderEml
    PROVE  TextInv'
<1>1. /\ pc = "render" /\ pc' = "done"
      /\ UNCHANGED <<format, mode, source, textWalk, subject, body, headers>>
  BY DEF RenderTxt, RenderHtml, RenderDoc, RenderMd, RenderMsg, RenderEml, textArgs
<1>2. /\ SourceOK' /\ (MsgBody' <=> MsgBody)
      /\ FramesOK' /\ is_main_message' \in BOOLEAN
  BY <1>1 DEF TextInv, SourceOK, MsgBody, WithText, FramesOK, FrameOK, textWalk
<1>3. result = NoResult /\ body \in Seq(Words)
  BY <1>1 DEF TextInv
<1>4. \/ result' = Failed("eml") \/ result' = Rendered(subject \o body)
      \/ mode = "object" /\ result' \in {Rendered(body), [Rendered(body) EXCEPT !.pieces = <<>>]}
  <2>1. CASE RenderTxt \/ RenderHtml \/ RenderDoc \/ RenderMd
    <3>1. result' = Rendered(body) /\ format \notin {"eml", "msg"}
      BY <2>1 DEF RenderTxt, RenderHtml, RenderDoc, RenderMd
    <3>2. subject = <<>> /\ <<>> \o body = body
      BY <1>3, <3>1 DEF TextInv
    <3> QED BY <3>1, <3>2
  <2>2. CASE RenderMsg
    BY <2>2 DEF RenderMsg, document_text
  <2>3. CASE RenderEml
    BY <1>3, <2>3 DEF RenderEml, Failed
  <2> QED BY <2>1, <2>2, <2>3
<1>5. /\ Rendered(subject \o body)' = Rendered(subject \o body)
      /\ Rendered(body)' = Rendered(body)
  BY <1>1 DEF Rendered, Typed, Field
<1>6. Outcome'
  BY <1>1, <1>4, <1>5 DEF Outcome
<1> QED BY <1>1, <1>2, <1>6 DEF TextInv

\* At every step the body holds what the parser took from the source, and the
\* result is empty or complete.
THEOREM TextSound == TextSpec => []TextInv
<1>1. TextInit => TextInv
  <2> SUFFICES ASSUME TextInit PROVE TextInv
    OBVIOUS
  <2>1. SourceOK
    BY SourcesOK DEF TextInit
  <2>2. <<>> \in Seq(FrameType) /\ <<>> \in Seq(Words) /\ DOMAIN <<>> = {}
    OBVIOUS
  <2> QED BY <2>1, <2>2 DEF TextInit, TextInv, FramesOK
<1>2. TextInv /\ [TextNext]_textVars => TextInv'
  <2> SUFFICES ASSUME TextInv, [TextNext]_textVars PROVE TextInv'
    OBVIOUS
  <2>1. CASE UNCHANGED textVars
    BY <2>1 DEF TextInv, textVars, textArgs, textWalk, SourceOK, FramesOK, FrameOK,
                MsgBody, WithText, Outcome, Rendered, Typed, Field
  <2> QED BY <2>1, ParseOne, ParseMsgStep, ParseMdStep, ParseEmlStep, RenderStep DEF TextNext
<1> QED BY <1>1, <1>2, PTL DEF TextSpec

\* Every variable has its type (property TextTypeOK).
THEOREM TextTypeCorrect == TextSpec => []TextTypeOK
<1>1. TextInv => TextTypeOK
  <2> SUFFICES ASSUME TextInv PROVE TextTypeOK
    OBVIOUS
  <2>1. Len(body) \in Nat
    BY DEF TextInv
  <2>e. ASSUME NEW k \in DOMAIN frames
        PROVE  /\ frames[k].callback \in {"processMessage", "processPart"}
               /\ frames[k].end \in 1..Len(source.parts)
               /\ frames[k].at \in 1..(frames[k].end + 1)
               /\ frames[k].saved \in BOOLEAN
    <3>1. frames[k] \in FrameType /\ FrameOK(frames[k])
      BY <2>e DEF TextInv, FramesOK
    <3> QED BY <3>1 DEF FrameType, FrameOK
  <2> DEFINE T == TextFormat \cup {"", "unknown"}
             P == {<<>>, <<body>>, <<subject \o body>>}
             R == [success : BOOLEAN, type : T,
                   field : {"", "documents", "input", "inputs", "pages"}, pieces : P]
  <2>2. NoResult \in R /\ \A x \in T : Failed(x) \in R
    <3>1. "" \in T /\ <<>> \in P
      OBVIOUS
    <3> HIDE DEF T, P
    <3> QED BY <3>1 DEF Failed, NoResult
  <2>f. Failed("unknown") \in R /\ Failed("eml") \in R
    <3>1. "unknown" \in T /\ "eml" \in T
      BY DEF TextFormat
    <3> HIDE DEF T, P, R
    <3> QED BY <2>2, <3>1
  <2>3. Typed \in TextFormat \cup {"", "unknown"} /\ Field \in {"documents", "input", "inputs", "pages"}
    BY DEF TextInv, Typed, Field, Mode
  <2>4. ASSUME NEW x \in {body, subject \o body}
        PROVE  Rendered(x) \in R
    BY <2>3 DEF Rendered
  <2>5. [Rendered(body) EXCEPT !.pieces = <<>>] \in R
    BY <2>3 DEF Rendered
  <2>6. result \in R
    <3> HIDE DEF R
    <3>1. CASE pc # "done"
      BY <2>2, <3>1 DEF TextInv
    <3>2. CASE pc = "done" /\ result \in {Failed("unknown"), Failed("eml")}
      BY <2>f, <3>2
    <3>3. CASE pc = "done" /\ result \notin {Failed("unknown"), Failed("eml")}
      BY <2>4, <2>5, <3>3 DEF TextInv, Outcome
    <3> QED BY <3>1, <3>2, <3>3
  <2> QED BY <2>1, <2>e, <2>6 DEF TextInv, SourceOK, TextTypeOK
<1> QED BY <1>1, TextSound, PTL

\* A message keeps the preferred one of its bodies that have a text, however
\* many of them are blank (property MsgBodyFound of the .msg parser).
THEOREM BodyFound == TextSpec => []MsgBodyFound
<1>1. TextInv => MsgBodyFound
  BY Zenon DEF TextInv, MsgBodyFound, MsgBody
<1> QED BY <1>1, TextSound, PTL

\* A result is whole or says that there is none (property ResultWhole of the
\* document_to_json functions).
THEOREM WholeResult == TextSpec => []ResultWhole
<1>1. TextInv => ResultWhole
  <2> SUFFICES ASSUME TextInv, pc = "done" PROVE ResultWhole
    BY DEF ResultWhole
  <2>1. CASE result \in {Failed("unknown"), Failed("eml")}
    BY <2>1 DEF Failed, NoResult, ResultWhole
  <2>2. ASSUME NEW x, result = Rendered(x)
        PROVE  /\ result.success = TRUE /\ result.field = Field
               /\ result.type \in {"", format}
               /\ result.pieces = (IF x = <<>> THEN <<>> ELSE <<x>>)
    BY <2>2 DEF Rendered, Typed
  <2>3. ASSUME NEW x PROVE <<>> \notin ToSet(IF x = <<>> THEN <<>> ELSE <<x>>)
    BY DEF ToSet
  <2>4. CASE result = Rendered(subject \o body)
    BY <2>2, <2>3, <2>4 DEF ResultWhole
  <2>5. CASE mode = "object" /\ result = Rendered(body)
    BY <2>2, <2>3, <2>5 DEF ResultWhole
  <2>6. CASE mode = "object" /\ result = [Rendered(body) EXCEPT !.pieces = <<>>]
    <3>1. /\ result.success = TRUE /\ result.field = Field
          /\ result.type \in {"", format} /\ result.pieces = <<>>
      BY <2>6 DEF Rendered, Typed
    <3>2. <<>> \notin ToSet(<<>>)
      BY DEF ToSet
    <3> QED BY <2>6, <3>1, <3>2 DEF ResultWhole
  <2>7. Outcome
    BY DEF TextInv
  <2> QED BY <2>1, <2>4, <2>5, <2>6, <2>7, Zenon DEF Outcome
<1> QED BY <1>1, TextSound, PTL

-----------------------------------------------------------------------------
\* One text: the walk over the parts of a message.

\* The part with number i is in an attached message.
Attached(i) ==
    \E m \in 1..(i - 1) : source.parts[m].kind = "message" /\ source.parts[m].last >= i

\* The body holds the texts of the main message in front of the part n.
BodyTo(n) ==
    /\ ToSet(body) = { i \in MainTexts : i < n }
    /\ \A i, j \in DOMAIN body : i < j => body[i] < body[j]

\* processMessage reads the message itself, processPart what is under one of its
\* parts, and with the third call they are in an attached message, from which
\* they come out where they went in.
NestingInv ==
    /\ \A k \in DOMAIN frames :
        /\ k = 2 => frames[k].callback = "processPart"
        /\ k \in {1, 3} => frames[k].callback = "processMessage"
        /\ k > 2 /\ frames[k].callback = "processMessage" => (frames[k].saved <=> k = 3)
    /\ is_main_message <=> Len(frames) <= 2

\* The outermost call is in no attached message, and the body is complete up to
\* where it is.
MainInv ==
    /\ frames[1].end = Len(source.parts)
    /\ ~Attached(frames[1].at)
    /\ BodyTo(frames[1].at)

WalkInv ==
    format = "eml" =>
        /\ pc = "parse" => body = <<>>
        /\ pc = "parts" => NestingInv /\ MainInv
        /\ pc \in {"render", "done"} => BodyTo(Len(source.parts) + 1)

\* What the outermost call moves over when it goes on: its part and what is
\* attached with it, none of which is a text of the main message.
LEMMA OutermostMoves ==
    ASSUME SourceOK, MimeTree(source.parts),
           NEW a \in 1..Len(source.parts), ~Attached(a), NEW b,
           b = IF source.parts[a].kind = "message" THEN source.parts[a].last + 1 ELSE a + 1
    PROVE  /\ b \in Nat /\ a < b /\ ~Attached(b)
           /\ a \in MainTexts <=>
                  LET q == source.parts[a]
                  IN  q.kind = "text" /\ q.inline /\ q.charset /\ q.content = "words"
           /\ { i \in MainTexts : i < b } =
                  { i \in MainTexts : i < a } \cup (IF a \in MainTexts THEN {a} ELSE {})
<1> DEFINE parts == source.parts
<1>1. parts \in Seq(PartType) /\ Len(parts) \in Nat /\ DOMAIN parts = 1..Len(parts)
  BY DEF SourceOK
<1>2. \A i \in 1..Len(parts) : parts[i].last \in i..Len(parts)
  BY <1>1 DEF MimeTree
<1>3. \A i \in 1..Len(parts) : \A j \in i..parts[i].last : parts[j].last <= parts[i].last
  BY <1>1 DEF MimeTree
<1>4. b \in Nat /\ a < b /\ b <= Len(parts) + 1
  BY <1>1, <1>2
<1>5. ~Attached(b)
  <2> SUFFICES ASSUME NEW m \in 1..(b - 1), parts[m].kind = "message", parts[m].last >= b
               PROVE  FALSE
    BY DEF Attached
  <2>1. m \in 1..Len(parts) /\ parts[m].last \in m..Len(parts) /\ parts[a].last \in a..Len(parts)
    BY <1>1, <1>2, <1>4
  <2>2. CASE m < a
    <3>1. parts[m].last >= a
      BY <1>4, <2>1
    <3> QED BY <2>1, <2>2, <3>1 DEF Attached
  <2>3. CASE m = a
    BY <1>1, <2>1, <2>3
  <2>4. CASE m > a
    <3>1. parts[a].kind = "message" /\ m <= parts[a].last
      BY <2>1, <2>4
    <3>2. parts[m].last <= parts[a].last
      BY <1>3, <2>1, <2>4, <3>1
    <3> QED BY <2>1, <3>1, <3>2
  <2> QED BY <2>1, <2>2, <2>3, <2>4
<1>6. MainTexts \subseteq 1..Len(parts)
  BY <1>1 DEF MainTexts
<1>7. a \in MainTexts <=>
        parts[a].kind = "text" /\ parts[a].inline /\ parts[a].charset /\ parts[a].content = "words"
  <2>1. \A m \in 1..(a - 1) : parts[m].kind = "message" => parts[m].last < a
    <3> SUFFICES ASSUME NEW m \in 1..(a - 1), parts[m].kind = "message" PROVE parts[m].last < a
      OBVIOUS
    <3>1. m \in 1..Len(parts) /\ parts[m].last \in m..Len(parts)
      BY <1>1, <1>2
    <3>2. ~(parts[m].last >= a)
      BY DEF Attached
    <3> QED BY <1>1, <3>1, <3>2
  <2> QED BY <1>1, <2>1 DEF MainTexts
<1>8. ASSUME NEW i \in MainTexts, a < i, i < b PROVE FALSE
  <2>1. i \in 1..Len(parts) /\ a \in 1..(i - 1)
    BY <1>6, <1>8
  <2>2. parts[a].kind = "message" /\ i <= parts[a].last
    BY <1>1, <1>2, <1>8, <2>1
  <2>3. parts[a].last < i
    BY <2>1, <2>2 DEF MainTexts
  <2> QED BY <1>1, <1>2, <2>1, <2>2, <2>3
<1>9. \A i \in MainTexts : i < b <=> i < a \/ i = a
  BY <1>4, <1>6, <1>8
<1> HIDE DEF parts
<1> QED BY <1>4, <1>5, <1>7, <1>9 DEF parts

\* A text at the end of the body, or none.
LEMMA BodyGrows ==
    ASSUME NEW a \in Nat, BodyTo(a), body \in Seq(Words), MainTexts \subseteq Nat,
           NEW S, S = IF a \in MainTexts THEN {a} ELSE {},
           body' = IF a \in MainTexts THEN body \o <<a>> ELSE body
    PROVE  /\ ToSet(body') = { i \in MainTexts : i < a } \cup S
           /\ \A i, j \in DOMAIN body' : i < j => body'[i] < body'[j]
<1>1. CASE a \notin MainTexts
  BY <1>1 DEF BodyTo
<1>2. CASE a \in MainTexts
  <2> DEFINE n == Len(body)
             w == body \o <<a>>
  <2>1. /\ n \in Nat /\ DOMAIN body = 1..n /\ DOMAIN w = 1..(n + 1)
        /\ w[n + 1] = a /\ \A i \in 1..n : w[i] = body[i]
    OBVIOUS
  <2>2. \A i \in 1..n : body[i] \in MainTexts /\ body[i] < a
    BY <2>1 DEF BodyTo, ToSet
  <2>3. \A x \in MainTexts : x < a => \E i \in 1..n : body[i] = x
    BY <2>1 DEF BodyTo, ToSet
  <2> HIDE DEF w, n
  <2>4. ToSet(w) = { i \in MainTexts : i < a } \cup {a}
    <3>1. ToSet(w) \subseteq { i \in MainTexts : i < a } \cup {a}
      BY <2>1, <2>2 DEF ToSet
    <3>2. ASSUME NEW x \in { i \in MainTexts : i < a } \cup {a} PROVE x \in ToSet(w)
      BY <2>1, <2>3 DEF ToSet
    <3> QED BY <3>1, <3>2
  <2>5. ASSUME NEW i \in DOMAIN w, NEW j \in DOMAIN w, i < j PROVE w[i] < w[j]
    <3>1. i \in 1..n
      BY <2>1, <2>5
    <3>2. CASE j = n + 1
      BY <2>1, <2>2, <3>1, <3>2
    <3>3. CASE j \in 1..n
      <4>1. body[i] < body[j]
        BY <2>1, <2>5, <3>1, <3>3 DEF BodyTo
      <4> QED BY <2>1, <3>1, <3>3, <4>1
    <3> QED BY <2>1, <3>2, <3>3
  <2>6. body' = w
    BY <1>2 DEF w
  <2> QED BY <1>2, <2>4, <2>5, <2>6
<1> QED BY <1>1, <1>2

\* The calls nest as they should.
LEMMA NestingStep ==
    ASSUME TextInv, NestingInv, pc = "parts",
           ProcessMessage \/ ProcessPart \/ ForeachReturns
    PROVE  NestingInv'
<1> DEFINE n == Len(frames)
<1>1. CASE ProcessMessage \/ ProcessPart
  <2>1. PICK c \in {"processMessage", "processPart"} :
           /\ Visits(c) /\ (c = "processMessage" <=> ProcessMessage)
    BY <1>1 DEF ProcessMessage, ProcessPart, Visits
  <2>2. n \in Nat \ {0} /\ DOMAIN frames = 1..n /\ running = frames[n] /\ running.callback = c
    BY <2>1, RunningAt DEF running, Visits
  <2>3. /\ Onwards \in Seq(FrameType) /\ Len(Onwards) = n
        /\ \A k \in 1..n : /\ Onwards[k].saved = frames[k].saved
                           /\ Onwards[k].callback = frames[k].callback
    BY <2>1, OnwardsOK
  <2>4. CASE frames' = Onwards /\ is_main_message' = is_main_message
    BY <2>2, <2>3, <2>4 DEF NestingInv
  <2>5. ASSUME NEW d \in {"processMessage", "processPart"}, d # c,
               frames' = Append(Onwards, Foreach(d, running.at + 1, mimePart.last)),
               is_main_message' = (IF d = "processMessage" THEN FALSE ELSE is_main_message)
        PROVE  NestingInv'
    <3> DEFINE f == Foreach(d, running.at + 1, mimePart.last)
    <3>1. f \in FrameType /\ f.callback = d /\ f.saved = is_main_message
      BY <2>1, ForeachOK
    <3> HIDE DEF f
    <3>2. /\ Len(frames') = n + 1 /\ DOMAIN frames' = 1..(n + 1) /\ frames'[n + 1] = f
          /\ \A k \in 1..n : frames'[k] = Onwards[k]
      BY <2>3, <2>5 DEF f
    <3>3. \A k \in 1..n : /\ frames'[k].saved = frames[k].saved
                         /\ frames'[k].callback = frames[k].callback
      BY <2>3, <3>2
    <3>4. /\ n = 2 => c = "processPart"
          /\ n \in {1, 3} => c = "processMessage"
          /\ is_main_message <=> n <= 2
      BY <2>2 DEF NestingInv
    <3>5. /\ n + 1 = 2 => d = "processPart"
          /\ n + 1 \in {1, 3} => d = "processMessage"
          /\ n + 1 > 2 /\ d = "processMessage" => (is_main_message <=> n + 1 = 3)
          /\ is_main_message' <=> n + 1 <= 2
      BY <2>2, <2>5, <3>4
    <3> HIDE DEF n
    <3>6. ASSUME NEW k \in DOMAIN frames'
          PROVE  /\ k = 2 => frames'[k].callback = "processPart"
                 /\ k \in {1, 3} => frames'[k].callback = "processMessage"
                 /\ k > 2 /\ frames'[k].callback = "processMessage" =>
                        (frames'[k].saved <=> k = 3)
      <4>1. CASE k = n + 1
        BY <3>1, <3>2, <3>5, <4>1
      <4>2. CASE k \in 1..n
        BY <2>2, <3>3, <4>2 DEF NestingInv
      <4> QED BY <2>2, <3>2, <4>1, <4>2
    <3> QED BY <3>2, <3>5, <3>6 DEF NestingInv
  <2> QED BY <1>1, <2>1, <2>4, <2>5 DEF ProcessMessage, ProcessPart, Visits
<1>2. CASE ForeachReturns
  <2>1. /\ frames \in Seq(FrameType) /\ n \in Nat /\ n > 1 /\ DOMAIN frames = 1..n
        /\ frames' = SubSeq(frames, 1, n - 1)
    BY <1>2 DEF ForeachReturns, Returns, Front, TextInv, FramesOK
  <2>2. /\ Len(frames') = n - 1 /\ DOMAIN frames' = 1..(n - 1)
        /\ \A k \in 1..(n - 1) : frames'[k] = frames[k]
    BY <2>1
  <2>3. running = frames[n] /\ n \in DOMAIN frames
    BY <2>1 DEF running
  <2>4. is_main_message' <=> n - 1 <= 2
    <3>1. CASE running.callback = "processMessage"
      <4>1. n > 2 /\ is_main_message' = running.saved
        BY <1>2, <2>1, <2>3, <3>1 DEF ForeachReturns, NestingInv
      <4>2. frames[n].saved <=> n = 3
        BY <2>3, <3>1, <4>1 DEF NestingInv
      <4> QED BY <2>1, <2>3, <4>1, <4>2
    <3>2. CASE running.callback # "processMessage"
      <4>1. n # 3 /\ is_main_message' = is_main_message
        BY <1>2, <2>1, <2>3, <3>2 DEF ForeachReturns, NestingInv
      <4> QED BY <2>1, <4>1 DEF NestingInv
    <3> QED BY <3>1, <3>2
  <2> QED BY <2>1, <2>2, <2>4 DEF NestingInv
<1> QED BY <1>1, <1>2

\* The outermost call takes every text it meets, and the others take none.
LEMMA MainStep ==
    ASSUME TextInv, NestingInv, MainInv, pc = "parts",
           ProcessMessage \/ ProcessPart \/ ForeachReturns
    PROVE  MainInv'
<1> DEFINE n == Len(frames)
<1>0. source' = source /\ MainTexts' = MainTexts /\ \A i : Attached(i)' = Attached(i)
  BY DEF ProcessMessage, ProcessPart, ForeachReturns, textArgs, MainTexts, Attached
<1>1. CASE ForeachReturns
  <2>1. /\ frames \in Seq(FrameType) /\ n \in Nat /\ n > 1
        /\ frames' = SubSeq(frames, 1, n - 1)
    BY <1>1 DEF ForeachReturns, Returns, Front, TextInv, FramesOK
  <2>2. frames'[1] = frames[1] /\ body' = body
    BY <1>1, <2>1 DEF ForeachReturns
  <2> QED BY <1>0, <2>2 DEF MainInv, BodyTo, Attached, MainTexts
<1>2. CASE ProcessMessage \/ ProcessPart
  <2>1. PICK c \in {"processMessage", "processPart"} :
           Visits(c) /\ (c = "processMessage" <=> ProcessMessage)
    BY <1>2 DEF ProcessMessage, ProcessPart, Visits
  <2>2. /\ n \in Nat \ {0} /\ DOMAIN frames = 1..n /\ running = frames[n]
        /\ running.callback = c
        /\ MimeTree(source.parts) /\ Len(source.parts) \in Nat
        /\ running.at \in 1..Len(source.parts)
        /\ mimePart \in PartType /\ mimePart = source.parts[running.at]
    BY <2>1, RunningAt DEF running, Visits
  <2>3. /\ Onwards \in Seq(FrameType) /\ Len(Onwards) = n
        /\ \A k \in 1..n : /\ Onwards[k].end = frames[k].end
                           /\ k # n => Onwards[k] = frames[k]
        /\ Onwards[n].at =
              IF mimePart.kind = "message" THEN mimePart.last + 1 ELSE running.at + 1
    BY <2>1, OnwardsOK
  <2>4. frames'[1] = Onwards[1]
    <3>1. \/ frames' = Onwards
          \/ \E d \in {"processMessage", "processPart"} :
                frames' = Append(Onwards, Foreach(d, running.at + 1, mimePart.last))
      BY <1>2 DEF ProcessMessage, ProcessPart
    <3> QED BY <2>2, <2>3, <3>1
  <2>5. CASE n > 1
    <3>1. body' = body
      <4>1. CASE c = "processMessage"
        <5>1. n # 2
          BY <2>2, <4>1 DEF NestingInv
        <5>2. ~is_main_message
          BY <2>2, <2>5, <5>1 DEF NestingInv
        <5> QED BY <2>1, <4>1, <5>2 DEF ProcessMessage, AddedToBody
      <4>2. CASE c # "processMessage"
        BY <1>2, <2>1, <4>2 DEF ProcessPart
      <4> QED BY <4>1, <4>2
    <3>2. frames'[1] = frames[1]
      <4>1. 1 \in 1..n /\ 1 # n
        BY <2>2, <2>5
      <4> HIDE DEF n
      <4> QED BY <2>3, <2>4, <4>1
    <3> QED BY <1>0, <3>1, <3>2 DEF MainInv, BodyTo, Attached, MainTexts
  <2>6. CASE n = 1
    <3> DEFINE a == running.at
               b == frames'[1].at
               q == source.parts[a]
    <3>1. ProcessMessage /\ is_main_message
      BY <2>1, <2>2, <2>6 DEF NestingInv
    <3>2. /\ a \in 1..Len(source.parts) /\ ~Attached(a) /\ BodyTo(a)
          /\ frames'[1].end = Len(source.parts)
      BY <2>2, <2>3, <2>4, <2>6 DEF MainInv
    <3>3. b = IF q.kind = "message" THEN q.last + 1 ELSE a + 1
      BY <2>2, <2>3, <2>4, <2>6
    <3>4. /\ b \in Nat /\ ~Attached(b)
          /\ a \in MainTexts <=>
                q.kind = "text" /\ q.inline /\ q.charset /\ q.content = "words"
          /\ { i \in MainTexts : i < b } =
                 { i \in MainTexts : i < a } \cup (IF a \in MainTexts THEN {a} ELSE {})
      <4> HIDE DEF a, b
      <4>1. SourceOK
        BY DEF TextInv
      <4> QED BY <2>2, <3>2, <3>3, <4>1, OutermostMoves
    <3>5. body' = IF a \in MainTexts THEN body \o <<a>> ELSE body
      <4>1. body \in Seq(Words) /\ body \o <<>> = body
        BY DEF TextInv
      <4>2. q.inline \in BOOLEAN /\ q.charset \in BOOLEAN
        BY <2>2 DEF PartType
      <4> QED BY <2>2, <3>1, <3>4, <4>1, <4>2 DEF ProcessMessage, AddedToBody, Has
    <3>6. MainTexts \subseteq Nat /\ body \in Seq(Words) /\ a \in Nat
      <4>1. DOMAIN source.parts = 1..Len(source.parts)
        BY DEF TextInv, SourceOK
      <4> QED BY <2>2, <4>1 DEF MainTexts, TextInv
    <3> HIDE DEF a, b, q
    <3>7. /\ ToSet(body') = { i \in MainTexts : i < b }
          /\ \A i, j \in DOMAIN body' : i < j => body'[i] < body'[j]
      BY <3>2, <3>4, <3>5, <3>6, BodyGrows
    <3>8. BodyTo(frames[1].at)'
      BY <1>0, <3>7 DEF BodyTo, b
    <3>9. (~Attached(frames[1].at))'
      BY <1>0, <3>4 DEF Attached, b
    <3> QED BY <1>0, <3>2, <3>8, <3>9 DEF MainInv
  <2> QED BY <2>2, <2>5, <2>6
<1> QED BY <1>1, <1>2

\* However the attached messages nest, the text of an .eml is its main
\* message's, whole and in order (property BodyIsMainText of processMessage and
\* processPart).
THEOREM MainTextCorrect == TextSpec => []BodyIsMainText
<1>1. TextInit => WalkInv
  BY DEF TextInit, WalkInv
<1>2. TextInv /\ TextInv' /\ WalkInv /\ [TextNext]_textVars => WalkInv'
  <2> SUFFICES ASSUME TextInv, TextInv', WalkInv, [TextNext]_textVars, format' = "eml"
               PROVE  /\ pc' = "parse" => body' = <<>>
                      /\ pc' = "parts" => NestingInv' /\ MainInv'
                      /\ pc' \in {"render", "done"} => BodyTo(Len(source.parts) + 1)'
    BY DEF WalkInv
  <2>0. format = "eml" /\ source' = source
    BY DEF TextNext, textVars, textArgs, ParseTxt, ParseHtml, OlecfFails, ParseDoc, ParseMsg,
           ParseMd, ParseEml, ProcessMessage, ProcessPart, ForeachReturns, PartsDone,
           RenderTxt, RenderHtml, RenderDoc, RenderMd, RenderMsg, RenderEml
  <2>1. CASE UNCHANGED textVars
    BY <2>0, <2>1 DEF textVars, textWalk, textArgs, WalkInv, NestingInv, MainInv, BodyTo,
                      Attached, MainTexts
  <2>2. CASE ParseEml
    <3>1. body = <<>> /\ body' = <<>>
      BY <2>0, <2>2 DEF ParseEml, WalkInv
    <3>2. CASE source.readable
      <4> DEFINE f == Foreach("processMessage", 1, Len(source.parts))
      <4>1. frames' = <<f>> /\ is_main_message' = TRUE /\ pc' = "parts"
        BY <2>2, <3>2 DEF ParseEml
      <4>2. f.callback = "processMessage" /\ f.at = 1 /\ f.end = Len(source.parts)
        BY DEF Foreach
      <4> HIDE DEF f
      <4>3. NestingInv'
        BY <4>1, <4>2 DEF NestingInv
      <4>4. (~Attached(frames[1].at))'
        BY <4>1, <4>2 DEF Attached
      <4>5. \A i \in MainTexts : ~(i < 1)
        <5>1. DOMAIN source.parts = 1..Len(source.parts) /\ Len(source.parts) \in Nat
          BY DEF TextInv, SourceOK
        <5> QED BY <5>1 DEF MainTexts
      <4>6. MainTexts' = MainTexts
        BY <2>0 DEF MainTexts
      <4>7. BodyTo(frames[1].at)'
        BY <3>1, <4>1, <4>2, <4>5, <4>6 DEF BodyTo, ToSet
      <4> QED BY <2>0, <4>1, <4>2, <4>3, <4>4, <4>7 DEF MainInv
    <3>3. CASE ~source.readable
      <4>1. pc' = "render" /\ source.parts = <<>>
        BY <2>0, <2>2, <3>3 DEF ParseEml, TextInv, SourceOK
      <4>2. MainTexts' = {}
        BY <2>0, <4>1 DEF MainTexts
      <4> QED BY <3>1, <4>1, <4>2 DEF BodyTo, ToSet
    <3> QED BY <3>2, <3>3
  <2>3. CASE ProcessMessage \/ ProcessPart \/ ForeachReturns
    <3>1. pc = "parts" /\ pc' = "parts"
      BY <2>3 DEF ProcessMessage, ProcessPart, ForeachReturns, Returns, Visits
    <3>2. NestingInv /\ MainInv
      BY <2>0, <3>1 DEF WalkInv
    <3> QED BY <2>3, <3>1, <3>2, NestingStep, MainStep
  <2>4. CASE PartsDone
    <3>1. /\ pc = "parts" /\ pc' = "render" /\ Len(frames) = 1 /\ body' = body
          /\ running.at > running.end /\ running = frames[1]
      BY <2>4 DEF PartsDone, running
    <3>2. /\ frames[1].end = Len(source.parts) /\ BodyTo(frames[1].at)
      BY <2>0, <3>1 DEF WalkInv, MainInv
    <3>3. frames[1].at = Len(source.parts) + 1
      <4>1. FrameOK(frames[1]) /\ frames[1] \in FrameType
        BY <3>1 DEF TextInv, FramesOK
      <4> QED BY <3>1, <3>2, <4>1 DEF FrameOK, FrameType
    <3> QED BY <2>0, <3>1, <3>2, <3>3 DEF BodyTo, MainTexts
  <2>5. CASE RenderEml
    <3>1. pc = "render" /\ pc' = "done" /\ body' = body
      BY <2>5 DEF RenderEml
    <3>2. BodyTo(Len(source.parts) + 1)
      BY <2>0, <3>1 DEF WalkInv
    <3> QED BY <2>0, <3>1, <3>2 DEF BodyTo, MainTexts
  <2>6. ~ParseTxt /\ ~ParseHtml /\ ~OlecfFails /\ ~ParseDoc /\ ~ParseMsg /\ ~ParseMd
        /\ ~RenderTxt /\ ~RenderHtml /\ ~RenderDoc /\ ~RenderMd /\ ~RenderMsg
    BY <2>0 DEF ParseTxt, ParseHtml, OlecfFails, ParseDoc, ParseMsg, ParseMd,
                RenderTxt, RenderHtml, RenderDoc, RenderMd, RenderMsg
  <2> QED BY <2>1, <2>2, <2>3, <2>4, <2>5, <2>6 DEF TextNext
<1>3. TextInv /\ WalkInv => BodyIsMainText
  <2> SUFFICES ASSUME TextInv, WalkInv, format = "eml", pc \in {"render", "done"}
               PROVE  /\ ToSet(body) = MainTexts
                      /\ \A i, j \in DOMAIN body : i < j => body[i] < body[j]
    BY DEF BodyIsMainText
  <2>1. BodyTo(Len(source.parts) + 1)
    BY DEF WalkInv
  <2>2. \A i \in MainTexts : i < Len(source.parts) + 1
    <3>1. DOMAIN source.parts = 1..Len(source.parts) /\ Len(source.parts) \in Nat
      BY DEF TextInv, SourceOK
    <3> QED BY <3>1 DEF MainTexts
  <2> QED BY <2>1, <2>2 DEF BodyTo
<1> QED BY <1>1, <1>2, <1>3, TextSound, PTL DEF TextSpec
=============================================================================
