---------------------------- MODULE PptRecords -----------------------------
(***************************************************************************)
(* read_ppt: the texts of a "PowerPoint Document" stream, one Slide per    *)
(* SlideListWithText of every DocumentContainer.                           *)
(*                                                                         *)
(* Three loops are nested, each with byte counters of its own: over the    *)
(* stream, over the members of a DocumentContainer, over the records of a  *)
(* SlideListWithText.  The stream is revealed record by record; the length *)
(* of a container is the sum of its contents.                              *)
(***************************************************************************)
EXTENDS Integers, Sequences, SequencesExt

CONSTANTS
    MaxRecords,  \* BOUND: records of the stream
    MaxMembers,  \* BOUND: members of a DocumentContainer
    MaxAtoms,    \* BOUND: records of the SlideListWithTexts of a stream, in all
    BodyLengths  \* the lengths of an atom's body, in bytes

ASSUME LengthAssumption ==
    /\ MaxMembers \in Nat /\ MaxAtoms \in Nat
    /\ BodyLengths \subseteq Nat

Header == 8         \* sizeof(RecordHeader)
DocumentAtom == 48  \* sizeof(DocumentAtom), its header included

Atom == [type : {"chars", "bytes", "other"}, recLen : BodyLengths]

VARIABLES
    pptStage,  \* "off", "stream", "members", "atoms", "end"
    records,   \* the records met so far (history)
    member,    \* the member of the last record that is next
    pos,       \* bytes of the DocumentContainer gone by
    atom,      \* the record of the SlideListWithText that is next
    m_pos,     \* bytes of the SlideListWithText gone by, and a header
    slide,     \* the texts of the Slide under construction: <<member, atom>>
    slides     \* document.slides

pptVars == <<pptStage, records, member, pos, atom, m_pos, slide, slides>>

PptInit ==
    /\ pptStage = "off"
    /\ records = <<>>
    /\ member = 0
    /\ pos = 0
    /\ atom = 0
    /\ m_pos = 0
    /\ slide = <<>>
    /\ slides = <<>>

CallPpt ==
    /\ pptStage = "off"
    /\ pptStage' = "stream"
    /\ UNCHANGED <<records, member, pos, atom, m_pos, slide, slides>>

-----------------------------------------------------------------------------
\* Lengths, as the headers state them.

\* The bytes of the first n contents with these lengths, headers included.
Bytes(lengths) ==
    LET first[n \in 0..Len(lengths)] ==
            IF n = 0 THEN 0 ELSE first[n - 1] + Header + lengths[n]
    IN  first

\* A list of atoms, and any other member, which is skipped.
Lists == [type : {"list"}, atoms : SeqOf(Atom, MaxAtoms)]
OtherMember == [type |-> "skipped", atoms |-> <<>>]
AtomLengths(m) == [i \in DOMAIN m.atoms |-> m.atoms[i].recLen]
LenOfMember(m) == IF m.type = "list" THEN Bytes(AtomLengths(m))[Len(m.atoms)] ELSE 4
MemberLengths(d) == [k \in DOMAIN d.members |-> LenOfMember(d.members[k])]
LenOfDocument(d) == DocumentAtom + Bytes(MemberLengths(d))[Len(d.members)]

Document == Last(records)
Member == Document.members[member]

-----------------------------------------------------------------------------
\* The stream.

\* A record of a type read_ppt knows but does not look into, or of a type it
\* does not know: the first is skipped, of the second only the header, so that
\* what it contains comes next as records of the stream.
SkipRecord ==
    /\ pptStage = "stream" /\ Len(records) < MaxRecords
    /\ \E t \in {"known", "unknown"} : records' = Append(records, [type |-> t, members |-> <<>>])
    /\ UNCHANGED <<pptStage, member, pos, atom, m_pos, slide, slides>>

\* The stream is used up, or the next header has length 0, or a length past
\* the end, or type 0: the records after it are not read.
StopReading ==
    /\ pptStage = "stream"
    /\ pptStage' = "end"
    /\ UNCHANGED <<records, member, pos, atom, m_pos, slide, slides>>

AtomsIn(members) == FoldLeft(LAMBDA n, m : n + Len(m.atoms), 0, members)
Memberships == { ms \in SeqOf({OtherMember} \cup Lists, MaxMembers) : AtomsIn(ms) <= MaxAtoms }

\* A DocumentContainer, its DocumentAtom first.
OpenDocument ==
    /\ pptStage = "stream" /\ Len(records) < MaxRecords
    /\ \E ms \in Memberships :
          /\ AtomsIn(ms) + FoldLeft(LAMBDA n, r : n + AtomsIn(r.members), 0, records) <= MaxAtoms
          /\ records' = Append(records, [type |-> "document", members |-> ms])
    /\ pptStage' = "members"
    /\ member' = 1
    /\ pos' = DocumentAtom
    /\ UNCHANGED <<atom, m_pos, slide, slides>>

-----------------------------------------------------------------------------
\* The members of a DocumentContainer.

MemberLeft == pptStage = "members" /\ pos + Header <= LenOfDocument(Document)

SkipMember ==
    /\ MemberLeft
    /\ Member.type = "skipped"
    /\ pos' = pos + Header + LenOfMember(Member)
    /\ member' = member + 1
    /\ UNCHANGED <<pptStage, records, atom, m_pos, slide, slides>>

\* Mutation: the counter starts at 0, like the offset it accompanies.
OpenListAtZero ==
    /\ MemberLeft
    /\ Member.type = "list"
    /\ pptStage' = "atoms"
    /\ atom' = 1
    /\ m_pos' = 0
    /\ slide' = <<>>
    /\ UNCHANGED <<records, member, pos, slides>>

\* A SlideListWithText begins: the counter starts after a header although the
\* length does not count the header.
OpenList ==
    /\ MemberLeft
    /\ Member.type = "list"
    /\ pptStage' = "atoms"
    /\ atom' = 1
    /\ m_pos' = Header
    /\ slide' = <<>>
    /\ UNCHANGED <<records, member, pos, slides>>

CloseDocument ==
    /\ pptStage = "members"
    /\ pos + Header > LenOfDocument(Document)
    /\ pptStage' = "stream"
    /\ member' = 0 /\ pos' = 0
    /\ UNCHANGED <<records, atom, m_pos, slide, slides>>

-----------------------------------------------------------------------------
\* The records of a SlideListWithText.

\* Only the UTF-16 texts are kept; an 8-bit text is converted and dropped.
ReadAtom ==
    /\ pptStage = "atoms"
    /\ m_pos + Header <= LenOfMember(Member)
    /\ LET a == Member.atoms[atom]
       IN  /\ slide' = IF a.type = "chars" THEN Append(slide, <<member, atom>>) ELSE slide
           /\ m_pos' = m_pos + Header + a.recLen
    /\ atom' = atom + 1
    /\ UNCHANGED <<pptStage, records, member, pos, slides>>

\* Mutation: a Slide without text is left out.
CloseListUnlessEmpty ==
    /\ pptStage = "atoms"
    /\ m_pos + Header > LenOfMember(Member)
    /\ slides' = IF slide = <<>> THEN slides ELSE Append(slides, slide)
    /\ pptStage' = "members"
    /\ pos' = pos + Header + LenOfMember(Member)
    /\ member' = member + 1
    /\ atom' = 0 /\ m_pos' = 0 /\ slide' = <<>>
    /\ UNCHANGED records

CloseList ==
    /\ pptStage = "atoms"
    /\ m_pos + Header > LenOfMember(Member)
    /\ slides' = Append(slides, slide)
    /\ pptStage' = "members"
    /\ pos' = pos + Header + LenOfMember(Member)
    /\ member' = member + 1
    /\ atom' = 0 /\ m_pos' = 0 /\ slide' = <<>>
    /\ UNCHANGED records

PptNext ==
    \/ SkipRecord \/ StopReading \/ OpenDocument
    \/ SkipMember \/ OpenList \/ CloseDocument
    \/ ReadAtom \/ CloseList

-----------------------------------------------------------------------------
\* Properties.

\* No cursor leaves its container: the counters agree with the offsets, so
\* the member or record that is read next exists.
CursorsInside ==
    /\ MemberLeft => member \in DOMAIN Document.members
    /\ pptStage = "atoms" /\ m_pos + Header <= LenOfMember(Member)
          => atom \in DOMAIN Member.atoms

\* The lists met, by their place <<record, member>>, and their order.
ListPlaces ==
    { p \in (DOMAIN records) \X (1..MaxMembers) :
        /\ p[2] \in DOMAIN records[p[1]].members
        /\ records[p[1]].members[p[2]].type = "list" }
Before(p, q) == p[1] < q[1] \/ (p[1] = q[1] /\ p[2] < q[2])

\* The texts of a list that are read: all but a text that comes last and is
\* shorter than a record header (three characters), which is never reached.
Reached(list) ==
    { i \in DOMAIN list.atoms :
        /\ list.atoms[i].type = "chars"
        /\ i < Len(list.atoms) \/ list.atoms[i].recLen >= Header }

\* A Slide has these texts of the list at p, in order.
Shows(texts, p, at) ==
    /\ ToSet(texts) = {p[2]} \X at
    /\ \A j, k \in DOMAIN texts : j < k => texts[j][2] < texts[k][2]

\* Every list of every DocumentContainer met, be it of slides, masters or
\* notes, of this version of the presentation or of an earlier one that was
\* saved over, is one Slide, in order, with the texts that are reached.
SlidesAsSpecified ==
    pptStage \in {"stream", "end"} =>
        \E place \in [DOMAIN slides -> ListPlaces] :
            /\ \A s, u \in DOMAIN slides : s < u => Before(place[s], place[u])
            /\ \A p \in ListPlaces : \E s \in DOMAIN slides : place[s] = p
            /\ \A s \in DOMAIN slides :
                  LET p == place[s]
                  IN  Shows(slides[s], p, Reached(records[p[1]].members[p[2]]))
=============================================================================
