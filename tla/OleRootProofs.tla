--------------------------- MODULE OleRootProofs ---------------------------
(***************************************************************************)
(* The streams of a compound file, for any directory: the fields, the type *)
(* and the text do not depend on the order of the streams; a presentation  *)
(* gives one Slide per list, with the texts that are reached; a compressed *)
(* body is decoded through a dictionary that is always the last bytes of   *)
(* what was decoded, for any size of it.                                   *)
(***************************************************************************)
EXTENDS OleRoot, SequenceLemmas
-----------------------------------------------------------------------------
\* process_rtf.

\* WindowIsHistory without its condition.
Window ==
    /\ Len(dict) = IF Len(History) < DictSize THEN Len(History) ELSE DictSize
    /\ Len(History) < DictSize => writeOffset = Len(History)
    /\ \A i \in 1..Len(dict) :
          dict[i] = IF i <= writeOffset
                    THEN History[Len(History) - writeOffset + i]
                    ELSE History[Len(History) - writeOffset - DictSize + i]

\* A reference is under way only with bytes left, an item only with bits left.
CountInv ==
    /\ rtfStage = "copy" => left > 0
    /\ rtfStage \in {"bit", "copy"} => bit < ControlBits

RtfInv == RtfTypeOK /\ CountInv /\ WindowIsHistory

LEMMA HistoryIsSeq == ASSUME RtfTypeOK PROVE History \in Seq(Byte)
BY DictAssumption DEF RtfTypeOK, History

\* A byte more of output is a byte more of history.
LEMMA HistoryGrows ==
    ASSUME RtfTypeOK, NEW v \in Byte, rtf' = Append(rtf, v)
    PROVE  /\ Len(History') = Len(History) + 1
           /\ \A k \in 1..Len(History) : History'[k] = History[k]
           /\ History'[Len(History) + 1] = v
<1>1. /\ Prefix \in Seq(Byte) /\ rtf \in Seq(Byte) /\ rtf' \in Seq(Byte)
      /\ Len(rtf') = Len(rtf) + 1
      /\ rtf'[Len(rtf) + 1] = v
      /\ \A k \in 1..Len(rtf) : rtf'[k] = rtf[k]
  BY DictAssumption DEF RtfTypeOK
<1>2. /\ Len(History) = Len(Prefix) + Len(rtf)
      /\ Len(History') = Len(Prefix) + Len(rtf')
  BY <1>1 DEF History
<1>3. \A k \in 1..Len(History) : History'[k] = History[k]
  BY <1>1, <1>2 DEF History
<1>4. History'[Len(History) + 1] = v
  BY <1>1, <1>2 DEF History
<1> QED BY <1>1, <1>2, <1>3, <1>4

\* Next1 stays inside the circle.
LEMMA Next1Type == ASSUME NEW o \in 0..(DictSize - 1) PROVE Next1(o) \in 0..(DictSize - 1)
BY DictAssumption DEF Next1

\* Put keeps the types.
LEMMA PutType ==
    ASSUME RtfTypeOK, Window, NEW v \in Byte, Put(v)
    PROVE  dict' \in Seq(Byte) /\ rtf' \in Seq(Byte) /\ writeOffset' \in 0..(DictSize - 1)
<1>1. dict' \in Seq(Byte)
  <2>1. dict \in Seq(Byte) /\ writeOffset \in 0..Len(dict)
    BY HistoryIsSeq, DictAssumption DEF RtfTypeOK, Window
  <2>2. CASE writeOffset = Len(dict)
    BY <2>1, <2>2 DEF Put
  <2>3. CASE writeOffset # Len(dict)
    <3>1. writeOffset + 1 \in 1..Len(dict)
      BY <2>1, <2>3
    <3>2. [dict EXCEPT ![writeOffset + 1] = v] \in Seq(Byte)
      BY <2>1, <3>1, ExceptSeq
    <3> QED BY <2>3, <3>2 DEF Put
  <2> QED BY <2>2, <2>3
<1> QED BY <1>1, Next1Type DEF RtfTypeOK, Put

\* Put keeps the window: while the dictionary grows, at the wrap and after.
LEMMA PutWindow ==
    ASSUME RtfTypeOK, Window, NEW v \in Byte, Put(v)
    PROVE  Window'
<1> DEFINE n == Len(History)
           w == writeOffset
<1>1. /\ n \in Nat /\ w \in 0..(DictSize - 1) /\ DictSize \in Nat \ {0}
      /\ dict \in Seq(Byte)
  BY HistoryIsSeq, DictAssumption DEF RtfTypeOK
<1>2. /\ Len(History') = n + 1
      /\ \A k \in 1..n : History'[k] = History[k]
      /\ History'[n + 1] = v
  BY HistoryGrows DEF Put
<1>3. w <= Len(dict) /\ n >= Len(dict)
  BY <1>1 DEF Window
<1>4. /\ Len(dict') = IF n + 1 < DictSize THEN n + 1 ELSE DictSize
      /\ dict'[w + 1] = v
      /\ \A i \in 1..Len(dict) : i # w + 1 => dict'[i] = dict[i]
      /\ Len(dict') >= w + 1 /\ Len(dict') <= Len(dict) + 1
      /\ Len(dict') > Len(dict) => w = Len(dict)
  <2>1. CASE w = Len(dict)
    BY <1>1, <2>1 DEF Put, Window
  <2>2. CASE w < Len(dict)
    BY <1>1, <2>2 DEF Put, Window
  <2> QED BY <1>1, <1>3, <2>1, <2>2
<1>5. \A i \in 1..Len(dict') : i # w + 1 => i \in 1..Len(dict)
  BY <1>1, <1>4
<1>6. ASSUME NEW i \in 1..Len(dict')
      PROVE  dict'[i] = IF i <= w + 1 THEN History'[n - w + i]
                        ELSE History'[n - w - DictSize + i]
  <2>1. CASE i = w + 1
    BY <1>1, <1>2, <1>4, <2>1
  <2>2. CASE i <= w
    <3>1. i \in 1..Len(dict) /\ n - w + i \in 1..n
      BY <1>1, <1>3, <1>5, <2>2
    <3> QED BY <1>1, <1>2, <1>4, <2>2, <3>1 DEF Window
  <2>3. CASE i > w + 1
    <3>1. i \in 1..Len(dict)
      BY <1>1, <1>5, <2>3
    <3>2. Len(dict) = DictSize /\ n >= DictSize
      BY <1>1, <3>1, <2>3 DEF Window
    <3>3. n - w - DictSize + i \in 1..n
      BY <1>1, <3>1, <3>2, <2>3
    <3>4. dict[i] = History[n - w - DictSize + i]
      BY <1>1, <2>3, <3>1 DEF Window
    <3>5. dict'[i] = dict[i]
      BY <1>1, <1>4, <2>3, <3>1
    <3>6. History'[n - w - DictSize + i] = History[n - w - DictSize + i]
      BY <1>2, <3>3
    <3>7. ~(i <= w + 1)
      BY <1>1, <2>3
    <3> QED BY <3>4, <3>5, <3>6, <3>7
  <2> QED BY <1>1, <2>1, <2>2, <2>3
<1>7. CASE w + 1 = DictSize
  <2>1. writeOffset' = 0
    BY <1>7 DEF Put, Next1
  <2>2. n + 1 >= DictSize /\ Len(dict') = DictSize
    BY <1>1, <1>3, <1>4, <1>7
  <2>3. ASSUME NEW i \in 1..Len(dict')
        PROVE  dict'[i] = History'[Len(History') - 0 - DictSize + i]
    <3>1. i \in Nat /\ i <= w + 1
      BY <1>1, <1>7, <2>2
    <3>2. n - w + i = (n + 1) - 0 - DictSize + i
      BY <1>1, <1>7, <3>1
    <3>3. n - w + i = Len(History') - 0 - DictSize + i
      BY <1>2, <3>2
    <3> QED BY <1>6, <3>1, <3>3
  <2> QED BY <1>1, <1>2, <2>1, <2>2, <2>3 DEF Window
<1>8. CASE w + 1 < DictSize
  <2>1. writeOffset' = w + 1
    BY <1>1, <1>8 DEF Put, Next1
  <2>2. n + 1 < DictSize => w + 1 = n + 1
    BY <1>1, <1>8 DEF Window
  <2>3. ASSUME NEW i \in 1..Len(dict')
        PROVE  dict'[i] = IF i <= writeOffset'
                          THEN History'[Len(History') - writeOffset' + i]
                          ELSE History'[Len(History') - writeOffset' - DictSize + i]
    <3>1. /\ Len(History') - writeOffset' + i = n - w + i
          /\ Len(History') - writeOffset' - DictSize + i = n - w - DictSize + i
      BY <1>1, <1>2, <2>1
    <3> QED BY <1>6, <2>1, <3>1
  <2> QED BY <1>1, <1>2, <1>4, <2>1, <2>2, <2>3 DEF Window
<1> QED BY <1>1, <1>7, <1>8

\* Every step keeps types, counts and window.
LEMMA RtfStep == RtfInv /\ [CallRtf \/ RtfNext]_rtfVars => RtfInv'
<1> SUFFICES ASSUME RtfInv, [CallRtf \/ RtfNext]_rtfVars PROVE RtfInv'
  OBVIOUS
<1> USE DictAssumption
<1>a. WindowIsHistory <=> (Running => Window)
  BY DEF WindowIsHistory, Window
<1>b. WindowIsHistory' <=> (Running' => Window')
  BY DEF WindowIsHistory, Window
<1>1. CASE CallRtf
  BY <1>1, <1>b DEF CallRtf, RtfInv, RtfTypeOK, CountInv, Running
<1>2. CASE LeaveHeader
  BY <1>2, <1>b DEF LeaveHeader, RtfInv, RtfTypeOK, CountInv, Running
<1>3. CASE ReadHeader
  <2>1. /\ rtfStage' = "control" /\ rtf' = <<>> /\ dict' = Prefix
        /\ writeOffset' = Len(Prefix)
    BY <1>3 DEF ReadHeader
  <2>2. History' = Prefix
    BY <2>1 DEF History
  <2>3. Window'
    BY <2>1, <2>2 DEF Window
  <2>4. RtfTypeOK' /\ CountInv'
    BY <1>3 DEF ReadHeader, RtfInv, RtfTypeOK, CountInv
  <2> QED BY <1>b, <2>3, <2>4 DEF RtfInv
<1>4. CASE ReadControl
  <2>1. Window'
    BY <1>4, <1>a DEF ReadControl, RtfInv, Running, Window, History
  <2>2. RtfTypeOK' /\ CountInv'
    BY <1>4 DEF ReadControl, RtfInv, RtfTypeOK, CountInv
  <2> QED BY <1>b, <2>1, <2>2 DEF RtfInv
<1>5. CASE EndOfInput
  BY <1>5, <1>b DEF EndOfInput, RtfInv, RtfTypeOK, CountInv, Running
<1>6. ASSUME NEW v \in Byte, Literal(v) PROVE RtfInv'
  <2>1. Window'
    BY <1>6, <1>a, PutWindow DEF Literal, RtfInv, Running
  <2>2. RtfTypeOK' /\ CountInv'
    BY <1>6, <1>a, PutType DEF Running, Literal, AfterItem, RtfInv, RtfTypeOK, CountInv
  <2> QED BY <1>b, <2>1, <2>2 DEF RtfInv
<1>7. CASE EndMarker
  BY <1>7, <1>b DEF EndMarker, RtfInv, RtfTypeOK, CountInv, Running
<1>8. ASSUME NEW offset \in 0..(DictSize - 1), NEW length \in Lengths,
             Reference(offset, length)
      PROVE  RtfInv'
  <2>1. Window'
    BY <1>8, <1>a DEF Reference, RtfInv, Running, Window, History
  <2>2. RtfTypeOK' /\ CountInv'
    BY <1>8 DEF Reference, RtfInv, RtfTypeOK, CountInv
  <2> QED BY <1>b, <2>1, <2>2 DEF RtfInv
<1>9. CASE CopyByte
  <2> DEFINE v == dict[readOffset + 1]
  <2>1. v \in Byte /\ Put(v)
    BY <1>9 DEF CopyByte, RtfInv, RtfTypeOK
  <2>2. Window'
    BY <1>9, <2>1, <1>a, PutWindow DEF CopyByte, RtfInv, Running
  <2>3. /\ dict' \in Seq(Byte) /\ rtf' \in Seq(Byte)
        /\ writeOffset' \in 0..(DictSize - 1)
    BY <1>9, <1>a, <2>1, PutType DEF RtfInv, Running, CopyByte
  <2>4. readOffset' \in 0..(DictSize - 1) /\ left' \in Nat
    BY <1>9, Next1Type DEF CopyByte, RtfInv, RtfTypeOK, CountInv
  <2>5. CASE left = 1
    <3>1. AfterItem /\ rawSize' = rawSize /\ bit \in 0..(ControlBits - 1)
      BY <1>9, <2>5 DEF CopyByte, RtfInv, RtfTypeOK, CountInv
    <3>2. /\ bit' = bit + 1
          /\ \/ rtfStage' = "done"
             \/ rtfStage' = "control"
             \/ rtfStage' = "bit" /\ bit' # ControlBits
      BY <3>1 DEF AfterItem
    <3>3. RtfTypeOK'
      BY <2>3, <2>4, <3>1, <3>2 DEF RtfInv, RtfTypeOK
    <3>4. CountInv'
      BY <3>1, <3>2 DEF CountInv
    <3> QED BY <1>b, <2>2, <3>3, <3>4 DEF RtfInv
  <2>6. CASE left # 1
    <3>1. RtfTypeOK' /\ CountInv'
      BY <1>9, <2>3, <2>4, <2>6 DEF CopyByte, RtfInv, RtfTypeOK, CountInv
    <3> QED BY <1>b, <2>2, <3>1 DEF RtfInv
  <2> QED BY <1>b, <2>2, <2>5, <2>6 DEF RtfInv
<1>10. CASE CopyFails
  BY <1>10, <1>b DEF CopyFails, RtfInv, RtfTypeOK, CountInv, Running
<1>11. CASE UNCHANGED rtfVars
  BY <1>11 DEF rtfVars, RtfInv, RtfTypeOK, CountInv, WindowIsHistory, Running, History
<1> QED BY <1>1, <1>2, <1>3, <1>4, <1>5, <1>6, <1>7, <1>8, <1>9, <1>10, <1>11 DEF RtfNext

LEMMA RtfInitial == RtfInit => RtfInv
BY DictAssumption DEF RtfInit, RtfInv, RtfTypeOK, CountInv, WindowIsHistory, Running

\* At every step of process_rtf the counters agree with the two offsets, and
\* the dictionary with the history.
THEOREM RtfInvariant == RtfSpec => []RtfInv
BY RtfInitial, RtfStep, PTL DEF RtfSpec

\* The offsets and buffers have their types (property RtfTypeOK).
THEOREM RtfTypeCorrect == RtfSpec => []RtfTypeOK
<1>1. RtfInv => RtfTypeOK
  BY DEF RtfInv
<1> QED BY <1>1, RtfInvariant, PTL

\* The dictionary is always the last DictSize bytes of the history (property
\* WindowIsHistory).
THEOREM WindowCorrect == RtfSpec => []WindowIsHistory
<1>1. RtfInv => WindowIsHistory
  BY DEF RtfInv
<1> QED BY <1>1, RtfInvariant, PTL

\* What a reference copies (property ReferenceRepeats).
LEMMA CopyRepeats ==
    ASSUME RtfInv, CopyByte
    PROVE  /\ rtf' = Append(rtf, History[Len(History) + 1 - Distance])
           /\ Distance' = Distance
<1> USE DictAssumption
<1>1. Window
  BY DEF RtfInv, WindowIsHistory, Window, Running, CopyByte
<1>2. /\ readOffset \in 0..(DictSize - 1) /\ writeOffset \in 0..(DictSize - 1)
      /\ readOffset < Len(dict) /\ dict \in Seq(Byte) /\ Len(History) \in Nat
  BY HistoryIsSeq DEF RtfInv, RtfTypeOK, CopyByte
<1>3. rtf' = Append(rtf, dict[readOffset + 1])
  BY DEF CopyByte, Put
<1>4. dict[readOffset + 1] = History[Len(History) + 1 - Distance]
  <2>1. readOffset + 1 \in 1..Len(dict)
    BY <1>2
  <2>2. CASE readOffset < writeOffset
    BY <1>1, <1>2, <2>1, <2>2 DEF Window, Distance
  <2>3. CASE readOffset >= writeOffset
    BY <1>1, <1>2, <2>1, <2>3 DEF Window, Distance
  <2> QED BY <1>2, <2>2, <2>3
<1>5. readOffset' = Next1(readOffset) /\ writeOffset' = Next1(writeOffset)
  BY DEF CopyByte, Put
<1>6. Distance' = Distance
  BY <1>2, <1>5 DEF Distance, Next1
<1> QED BY <1>3, <1>4, <1>6

\* A reference repeats the history at a constant distance.
THEOREM ReferencesRepeat == RtfSpec => ReferenceRepeats
<1>1. RtfInv /\ [CallRtf \/ RtfNext]_rtfVars
        => [rtfStage = "copy" /\ rtf' # rtf =>
               /\ rtf' = Append(rtf, History[Len(History) + 1 - Distance])
               /\ Distance' = Distance]_rtfVars
  <2> SUFFICES ASSUME RtfInv, [CallRtf \/ RtfNext]_rtfVars,
                      rtfStage = "copy", rtf' # rtf
               PROVE  /\ rtf' = Append(rtf, History[Len(History) + 1 - Distance])
                      /\ Distance' = Distance
    OBVIOUS
  <2>1. CopyByte
    BY DEF CallRtf, RtfNext, LeaveHeader, ReadHeader, ReadControl, EndOfInput,
           Literal, EndMarker, Reference, CopyFails, rtfVars
  <2> QED BY <2>1, CopyRepeats
<1> QED BY <1>1, RtfInvariant, PTL DEF RtfSpec, ReferenceRepeats

-----------------------------------------------------------------------------
\* read_ppt: what its byte counters count.

\* ends holds where each content ends.
EndsAt(ends, lengths) ==
    /\ ends \in [0..Len(lengths) -> Nat]
    /\ ends[0] = 0
    /\ \A k \in 1..Len(lengths) : ends[k] = ends[k - 1] + Header + lengths[k]

\* Bytes is such a function.
LEMMA BytesFacts ==
    ASSUME NEW lengths \in Seq(Nat)
    PROVE  EndsAt(Bytes(lengths), lengths)
<1> DEFINE n == Len(lengths)
           step == [kv \in (1..n) \X Nat |-> kv[2] + Header + lengths[kv[1]]]
           Steps(g) == [k \in 0..n |-> IF k = 0 THEN 0 ELSE g[k - 1] + Header + lengths[k]]
           first == CHOOSE g : g = Steps(g)
<1>1. n \in Nat /\ \A k \in 1..n : lengths[k] \in Nat
  OBVIOUS
<1>2. IsStep(step, n, Nat)
  BY <1>1 DEF IsStep, Header
<1>3. PICK g : StepsThrough(g, n, Nat, 0, step)
  <2> HIDE DEF step, n
  <2> QED BY <1>1, <1>2, StepByStep
<1>4. /\ g \in [0..n -> Nat] /\ g[0] = 0
      /\ \A k \in 1..n : g[k] = step[<<k, g[k - 1]>>]
  BY <1>3, Zenon DEF StepsThrough
<1>5. ASSUME NEW k \in 1..n PROVE g[k] = g[k - 1] + Header + lengths[k]
  <2> HIDE DEF step
  <2>0. k - 1 \in 0..n
    BY <1>1
  <2>1. g[k - 1] \in Nat
    BY <1>4, <2>0
  <2> USE DEF step
  <2>2. step[<<k, g[k - 1]>>] = g[k - 1] + Header + lengths[k]
    BY <2>1
  <2> QED BY <1>4, <2>2
<1>6. g = Steps(g)
  <2>1. \A k \in 0..n : k = 0 \/ k \in 1..n
    OBVIOUS
  <2> QED BY <1>4, <1>5, <2>1
<1>7. first = Steps(first)
  <2> HIDE DEF Steps
  <2> QED BY <1>6, Zenon
<1>8. Bytes(lengths) = first
  BY Zenon DEF Bytes
<1> HIDE DEF first
<1>9. DOMAIN first = 0..n /\ first[0] = 0
  BY <1>7
<1>10. ASSUME NEW k \in 1..n PROVE first[k] = first[k - 1] + Header + lengths[k]
  <2>1. k \in 0..n /\ k # 0
    OBVIOUS
  <2>2. first[k] = Steps(first)[k]
    BY <1>7, Zenon
  <2> QED BY <2>1, <2>2
<1>11. \A k \in 0..n : first[k] \in Nat
  <2> DEFINE S == { j \in 0..n : first[j] \in Nat }
  <2>1. 0 \in S
    BY <1>9
  <2>2. ASSUME NEW j \in 1..n, j - 1 \in S PROVE j \in S
    <3>1. first[j] = first[j - 1] + Header + lengths[j]
      BY <1>10
    <3>2. first[j - 1] \in Nat /\ lengths[j] \in Nat /\ j \in 0..n
      BY <1>1, <2>2
    <3> QED BY <3>1, <3>2 DEF Header
  <2> HIDE DEF S
  <2>3. \A j \in 0..n : j \in S
    BY <1>1, <2>1, <2>2, UpTo
  <2> QED BY <2>3 DEF S
<1>12. first \in [0..n -> Nat]
  <2>1. first = [k \in 0..n |-> first[k]]
    BY <1>7
  <2> QED BY <1>11, <2>1
<1> QED BY <1>8, <1>9, <1>10, <1>12 DEF EndsAt

\* Whatever is not the end has room for a header after it.
LEMMA RoomForHeader ==
    ASSUME NEW lengths \in Seq(Nat), NEW ends, EndsAt(ends, lengths),
           NEW k \in 0..Len(lengths), k # Len(lengths)
    PROVE  ends[k] + Header <= ends[Len(lengths)]
<1> DEFINE n == Len(lengths)
           S == { j \in 0..n : k < j => ends[k] + Header <= ends[j] }
<1>1. n \in Nat /\ 0 \in S
  OBVIOUS
<1>2. ASSUME NEW j \in 1..n, j - 1 \in S PROVE j \in S
  <2>1. j - 1 \in 0..n /\ j \in 0..n /\ lengths[j] \in Nat
    OBVIOUS
  <2>2. ends[j - 1] \in Nat /\ ends[k] \in Nat /\ ends[j] = ends[j - 1] + Header + lengths[j]
    BY <2>1 DEF EndsAt
  <2>3. CASE k < j - 1
    BY <1>2, <2>1, <2>2, <2>3, SMTT(30) DEF Header
  <2>4. CASE k = j - 1
    BY <2>1, <2>2, <2>4 DEF Header
  <2>5. CASE k > j - 1
    BY <2>1, <2>5
  <2> QED BY <2>1, <2>3, <2>4, <2>5
<1>3. n \in S
  <2> HIDE DEF S, n
  <2>1. \A j \in 0..n : j \in S
    BY <1>1, <1>2, UpTo
  <2> QED BY <1>1, <2>1
<1> QED BY <1>3

-----------------------------------------------------------------------------
\* read_ppt: its invariant.

MemberType == [type : {"list", "skipped"}, atoms : Seq(Atom)]
RecordType == [type : {"known", "unknown", "document"}, members : Seq(MemberType)]

PptTypes ==
    /\ pptStage \in {"off", "stream", "members", "atoms", "end"}
    /\ records \in Seq(RecordType)
    /\ \A r \in DOMAIN records : Len(records[r].members) <= MaxMembers
    /\ slide \in Seq(Nat \X Nat)
    /\ slides \in Seq(Seq(Nat \X Nat))

\* The counters are where the members and the records end.
MemberInv ==
    pptStage \in {"members", "atoms"} =>
        /\ records # <<>>
        /\ member \in 1..(Len(Document.members) + 1)
        /\ pos = DocumentAtom + Bytes(MemberLengths(Document))[member - 1]

AtomInv ==
    pptStage = "atoms" =>
        /\ member \in DOMAIN Document.members /\ Member.type = "list"
        /\ atom \in 1..(Len(Member.atoms) + 1)
        /\ m_pos = Header + Bytes(AtomLengths(Member))[atom - 1]
        /\ atom > 1 => \/ atom - 1 < Len(Member.atoms)
                       \/ Member.atoms[atom - 1].recLen >= Header
        /\ Shows(slide, <<Len(records), member>>, { i \in Reached(Member) : i < atom })

\* The lists that are Slides already.
Settled == { p \in ListPlaces :
               pptStage \in {"members", "atoms"} /\ p[1] = Len(records) => p[2] < member }

\* These Slides are the lists at these places of these records, in order.
Placed(place, places, ss, rs) ==
    /\ place \in [DOMAIN ss -> places]
    /\ \A s, u \in DOMAIN ss : s < u => Before(place[s], place[u])
    /\ \A p \in places : \E s \in DOMAIN ss : place[s] = p
    /\ \A s \in DOMAIN ss :
          Shows(ss[s], place[s], Reached(rs[place[s][1]].members[place[s][2]]))

SlidesInv == \E place : Placed(place, Settled, slides, records)

PptInv == PptTypes /\ MemberInv /\ AtomInv /\ SlidesInv

\* The lengths of what is in a container.
LEMMA AtomLengthsType ==
    ASSUME NEW m \in MemberType
    PROVE  /\ AtomLengths(m) \in Seq(Nat) /\ Len(AtomLengths(m)) = Len(m.atoms)
           /\ \A i \in DOMAIN m.atoms : AtomLengths(m)[i] = m.atoms[i].recLen
<1>1. m.atoms \in Seq(Atom)
  BY DEF MemberType
<1>2. DOMAIN m.atoms = 1..Len(m.atoms) /\ Len(m.atoms) \in Nat
  BY <1>1
<1>3. ASSUME NEW i \in 1..Len(m.atoms) PROVE m.atoms[i].recLen \in Nat
  <2>1. m.atoms[i] \in Atom
    BY <1>1
  <2> QED BY <2>1, LengthAssumption DEF Atom
<1>4. AtomLengths(m) \in Seq(Nat)
  BY <1>2, <1>3 DEF AtomLengths
<1>5. DOMAIN AtomLengths(m) = 1..Len(m.atoms)
  BY <1>2 DEF AtomLengths
<1> QED BY <1>2, <1>4, <1>5 DEF AtomLengths

LEMMA LenOfMemberType == ASSUME NEW m \in MemberType PROVE LenOfMember(m) \in Nat
<1>1. EndsAt(Bytes(AtomLengths(m)), AtomLengths(m))
  BY AtomLengthsType, BytesFacts
<1>2. Len(m.atoms) \in 0..Len(AtomLengths(m))
  BY AtomLengthsType DEF MemberType
<1>3. Bytes(AtomLengths(m))[Len(m.atoms)] \in Nat
  BY <1>1, <1>2 DEF EndsAt
<1> QED BY <1>3 DEF LenOfMember

LEMMA MemberLengthsType ==
    ASSUME NEW d \in RecordType
    PROVE  /\ MemberLengths(d) \in Seq(Nat) /\ Len(MemberLengths(d)) = Len(d.members)
           /\ \A k \in DOMAIN d.members : MemberLengths(d)[k] = LenOfMember(d.members[k])
<1>1. d.members \in Seq(MemberType)
  BY DEF RecordType
<1>2. DOMAIN d.members = 1..Len(d.members) /\ Len(d.members) \in Nat
  BY <1>1
<1>3. ASSUME NEW k \in 1..Len(d.members) PROVE LenOfMember(d.members[k]) \in Nat
  BY <1>1, LenOfMemberType
<1>4. MemberLengths(d) \in Seq(Nat)
  BY <1>2, <1>3 DEF MemberLengths
<1>5. DOMAIN MemberLengths(d) = 1..Len(d.members)
  BY <1>2 DEF MemberLengths
<1> QED BY <1>2, <1>4, <1>5 DEF MemberLengths

\* Where the walk over the members is, in members and in bytes.
LEMMA DocumentFacts ==
    ASSUME PptTypes, MemberInv, pptStage \in {"members", "atoms"}
    PROVE  /\ Document \in RecordType /\ Document = records[Len(records)]
           /\ Len(records) \in DOMAIN records
           /\ Document.members \in Seq(MemberType)
           /\ member \in DOMAIN Document.members <=> member # Len(Document.members) + 1
           /\ member \in DOMAIN Document.members <=> pos + Header <= LenOfDocument(Document)
           /\ member \in DOMAIN Document.members =>
                 /\ Member \in MemberType
                 /\ pos + Header + LenOfMember(Member)
                      = DocumentAtom + Bytes(MemberLengths(Document))[member]
<1> DEFINE d == Document
           ends == Bytes(MemberLengths(d))
           n == Len(d.members)
<1>1. Len(records) \in DOMAIN records /\ d = records[Len(records)] /\ d \in RecordType
  BY DEF PptTypes, MemberInv, Document, Last
<1>2. d.members \in Seq(MemberType) /\ n \in Nat /\ DOMAIN d.members = 1..n
  BY <1>1 DEF RecordType
<1>3. EndsAt(ends, MemberLengths(d)) /\ MemberLengths(d) \in Seq(Nat) /\ Len(MemberLengths(d)) = n
  BY <1>1, MemberLengthsType, BytesFacts
<1>4. member \in 1..(n + 1) /\ pos = DocumentAtom + ends[member - 1]
  BY DEF MemberInv
<1>5. member - 1 \in 0..n /\ ends[member - 1] \in Nat /\ ends[n] \in Nat
  <2> HIDE DEF ends, d, n
  <2>1. member - 1 \in 0..n /\ n \in 0..n
    BY <1>2, <1>4
  <2>2. ends \in [0..n -> Nat]
    BY <1>3 DEF EndsAt
  <2> QED BY <2>1, <2>2
<1>6. LenOfDocument(d) = DocumentAtom + ends[n]
  BY DEF LenOfDocument
<1>7. CASE member = n + 1
  <2>1. member \notin DOMAIN d.members /\ pos = DocumentAtom + ends[n]
    BY <1>2, <1>4, <1>7
  <2>2. ~(pos + Header <= LenOfDocument(d))
    <3> HIDE DEF ends
    <3> QED BY <1>5, <1>6, <2>1 DEF Header, DocumentAtom
  <2> HIDE DEF d, n, ends
  <2> QED BY <1>1, <1>2, <1>7, <2>1, <2>2 DEF d, n
<1>8. CASE member # n + 1
  <2>1. member \in 1..n /\ member - 1 # n
    BY <1>2, <1>4, <1>8
  <2>2. ends[member - 1] + Header <= ends[n]
    <3> HIDE DEF ends, d, n
    <3> QED BY <1>3, <1>5, <2>1, RoomForHeader
  <2>3. pos + Header <= LenOfDocument(d)
    <3> HIDE DEF ends
    <3> QED BY <1>4, <1>5, <1>6, <2>2, SMTT(30) DEF Header, DocumentAtom
  <2>4. Member \in MemberType /\ Member = d.members[member]
    BY <1>2, <2>1 DEF Member
  <2>5. ends[member] = ends[member - 1] + Header + LenOfMember(Member)
    <3>1. MemberLengths(d)[member] = LenOfMember(d.members[member])
      BY <1>1, <1>2, <2>1, MemberLengthsType
    <3> HIDE DEF ends, d, n
    <3> QED BY <1>3, <2>1, <2>4, <3>1 DEF EndsAt
  <2>6. pos + Header + LenOfMember(Member) = DocumentAtom + ends[member]
    <3>1. LenOfMember(Member) \in Nat
      BY <2>4, LenOfMemberType
    <3> HIDE DEF ends
    <3> QED BY <1>4, <1>5, <2>5, <3>1 DEF Header, DocumentAtom
  <2> QED BY <1>1, <1>2, <1>8, <2>1, <2>3, <2>4, <2>6
<1> QED BY <1>7, <1>8

\* Where the walk over the records of a list is.
LEMMA ListFacts ==
    ASSUME PptTypes, MemberInv, AtomInv, pptStage = "atoms"
    PROVE  /\ Member \in MemberType /\ Member.type = "list" /\ Member.atoms \in Seq(Atom)
           /\ atom \in 1..(Len(Member.atoms) + 1)
           /\ m_pos + Header <= LenOfMember(Member)
                <=> \/ atom < Len(Member.atoms)
                    \/ atom = Len(Member.atoms) /\ Member.atoms[atom].recLen >= Header
           /\ atom \in DOMAIN Member.atoms =>
                 /\ Member.atoms[atom].recLen \in Nat
                 /\ m_pos + Header + Member.atoms[atom].recLen
                      = Header + Bytes(AtomLengths(Member))[atom]
<1> DEFINE n == Len(Member.atoms)
           lengths == AtomLengths(Member)
           ends == Bytes(lengths)
<1>1. Member \in MemberType /\ Member.type = "list"
  BY DocumentFacts DEF AtomInv
<1>2. Member.atoms \in Seq(Atom) /\ n \in Nat /\ DOMAIN Member.atoms = 1..n
  BY <1>1 DEF MemberType
<1>3. /\ EndsAt(ends, lengths) /\ lengths \in Seq(Nat) /\ Len(lengths) = n
      /\ \A i \in 1..n : lengths[i] = Member.atoms[i].recLen
  BY <1>1, <1>2, AtomLengthsType, BytesFacts
<1>4. atom \in 1..(n + 1) /\ m_pos = Header + ends[atom - 1]
  BY DEF AtomInv
<1>5. LenOfMember(Member) = ends[n]
  BY <1>1 DEF LenOfMember
<1> HIDE DEF n, lengths, ends
<1>6. ends \in [0..n -> Nat]
  BY <1>3 DEF EndsAt
<1>7. atom - 1 \in 0..n /\ ends[atom - 1] \in Nat /\ ends[n] \in Nat
  BY <1>2, <1>4, <1>6
<1>8. ASSUME NEW i \in 1..n
      PROVE  ends[i] \in Nat /\ lengths[i] \in Nat /\ ends[i] = ends[i - 1] + Header + lengths[i]
  <2>1. i \in 0..n
    BY <1>2
  <2>2. ends[i] \in Nat
    BY <1>6, <2>1
  <2>3. lengths[i] \in Nat
    BY <1>3
  <2> QED BY <1>3, <2>2, <2>3 DEF EndsAt
<1>9. ASSUME atom \in 1..n
      PROVE  /\ Member.atoms[atom].recLen \in Nat
             /\ m_pos + Header + Member.atoms[atom].recLen = Header + ends[atom]
  <2>1. lengths[atom] = Member.atoms[atom].recLen
    BY <1>3, <1>9
  <2>2. lengths[atom] \in Nat /\ ends[atom] = ends[atom - 1] + Header + lengths[atom]
    BY <1>8, <1>9
  <2> QED BY <1>4, <1>7, <2>1, <2>2 DEF Header
<1>10. /\ m_pos + Header <= LenOfMember(Member)
            <=> \/ atom < n
                \/ atom = n /\ Member.atoms[atom].recLen >= Header
  <2>1. CASE atom = n + 1
    BY <1>2, <1>4, <1>5, <1>7, <2>1 DEF Header
  <2>2. CASE atom = n
    <3>1. /\ ends[n] = ends[n - 1] + Header + lengths[n] /\ lengths[n] \in Nat
        /\ lengths[n] = Member.atoms[n].recLen /\ ends[n - 1] \in Nat
      BY <1>3, <1>4, <1>7, <1>8, <2>2
    <3> QED BY <1>2, <1>4, <1>5, <2>2, <3>1 DEF Header
  <2>3. CASE atom < n
    <3>1. atom \in 1..n /\ atom \in 0..n /\ atom # n
      BY <1>2, <1>4, <2>3
    <3>2. ends[atom] + Header <= ends[n]
      BY <1>3, <3>1, RoomForHeader
    <3>3. /\ lengths[atom] \in Nat /\ ends[atom] \in Nat
        /\ ends[atom] = ends[atom - 1] + Header + lengths[atom]
      BY <1>8, <3>1
    <3>4. m_pos + Header <= ends[n]
      BY <1>4, <1>7, <3>2, <3>3 DEF Header
    <3> QED BY <1>5, <2>3, <3>4
  <2> QED
    <3>1. atom = n + 1 \/ atom = n \/ atom < n
      BY <1>2, <1>4
    <3> QED BY <2>1, <2>2, <2>3, <3>1
<1> QED BY <1>1, <1>2, <1>4, <1>9, <1>10 DEF n, lengths, ends

\* The counters agree with what there is to read (conjunct of TypeOK).
LEMMA CursorsAreInside == ASSUME PptInv PROVE CursorsInside
<1>1. MemberLeft => member \in DOMAIN Document.members
  BY DocumentFacts DEF PptInv, MemberLeft
<1>2. ASSUME pptStage = "atoms", m_pos + Header <= LenOfMember(Member)
      PROVE  atom \in DOMAIN Member.atoms
  BY <1>2, ListFacts DEF PptInv
<1> QED BY <1>1, <1>2 DEF CursorsInside

-----------------------------------------------------------------------------
\* read_ppt: its steps.

\* The same Slides, seen in records that have the same lists there.
LEMMA PlacedAlike ==
    ASSUME NEW place, NEW places, NEW ss, NEW rs, NEW rs2,
           Placed(place, places, ss, rs),
           \A p \in places : rs2[p[1]].members[p[2]] = rs[p[1]].members[p[2]]
    PROVE  Placed(place, places, ss, rs2)
<1>1. \A s \in DOMAIN ss : place[s] \in places
  BY DEF Placed
<1>2. ASSUME NEW s \in DOMAIN ss
      PROVE  Shows(ss[s], place[s], Reached(rs2[place[s][1]].members[place[s][2]]))
  <2>1. rs2[place[s][1]].members[place[s][2]] = rs[place[s][1]].members[place[s][2]]
    BY <1>1
  <2>2. Shows(ss[s], place[s], Reached(rs[place[s][1]].members[place[s][2]]))
    BY DEF Placed
  <2> QED BY <2>1, <2>2, Zenon
<1> QED BY <1>2, Zenon DEF Placed

\* One Slide more, for a list after all others.
LEMMA PlacedNext ==
    ASSUME NEW V, NEW ss \in Seq(V), NEW one \in V, NEW place, NEW places, NEW rs, NEW p,
           Placed(place, places, ss, rs),
           \A q \in places : Before(q, p),
           Shows(one, p, Reached(rs[p[1]].members[p[2]]))
    PROVE  \E place2 : Placed(place2, places \cup {p}, Append(ss, one), rs)
<1> DEFINE n == Len(ss)
           place2 == [s \in 1..(n + 1) |-> IF s = n + 1 THEN p ELSE place[s]]
           ss2 == Append(ss, one)
<1>1. n \in Nat /\ DOMAIN ss = 1..n
  OBVIOUS
<1>2. /\ DOMAIN ss2 = 1..(n + 1) /\ ss2[n + 1] = one
      /\ \A s \in 1..n : ss2[s] = ss[s]
  OBVIOUS
<1>3. /\ place2[n + 1] = p
      /\ \A s \in 1..n : place2[s] = place[s]
      /\ DOMAIN place2 = 1..(n + 1)
  BY <1>1
<1>4. /\ place \in [1..n -> places]
      /\ \A s, u \in 1..n : s < u => Before(place[s], place[u])
      /\ \A q \in places : \E s \in 1..n : place[s] = q
      /\ \A s \in 1..n : Shows(ss[s], place[s], Reached(rs[place[s][1]].members[place[s][2]]))
  BY <1>1, Zenon DEF Placed
<1>5. \A s \in 1..(n + 1) : s = n + 1 \/ s \in 1..n
  BY <1>1
<1>6. place2 \in [1..(n + 1) -> places \cup {p}]
  BY <1>4, <1>5
<1> HIDE DEF place2, ss2, n
<1>7. ASSUME NEW s \in 1..(n + 1), NEW u \in 1..(n + 1), s < u
      PROVE  Before(place2[s], place2[u])
  <2>1. s \in 1..n
    BY <1>1, <1>7
  <2>2. CASE u = n + 1
    <3>1. place[s] \in places
      BY <1>4, <2>1
    <3> QED BY <1>3, <2>1, <2>2, <3>1
  <2>3. CASE u # n + 1
    <3>1. u \in 1..n
      BY <1>5, <2>3
    <3> QED BY <1>3, <1>4, <1>7, <2>1, <3>1
  <2> QED BY <2>2, <2>3
<1>8. ASSUME NEW q \in places \cup {p} PROVE \E s \in 1..(n + 1) : place2[s] = q
  <2>1. CASE q = p
    <3>1. n + 1 \in 1..(n + 1)
      BY <1>1
    <3> QED BY <1>3, <2>1, <3>1
  <2>2. CASE q \in places
    <3>1. PICK s \in 1..n : place[s] = q
      BY <1>4, <2>2
    <3>2. s \in 1..(n + 1)
      BY <1>1
    <3> QED BY <1>3, <3>1, <3>2
  <2> QED BY <2>1, <2>2
<1>9. ASSUME NEW s \in 1..(n + 1)
      PROVE  Shows(ss2[s], place2[s], Reached(rs[place2[s][1]].members[place2[s][2]]))
  <2>1. CASE s = n + 1
    BY <1>2, <1>3, <2>1, Zenon
  <2>2. CASE s \in 1..n
    BY <1>2, <1>3, <1>4, <2>2, Zenon
  <2> QED BY <1>5, <2>1, <2>2
<1>10. Placed(place2, places \cup {p}, ss2, rs)
  BY <1>2, <1>6, <1>7, <1>8, <1>9, Zenon DEF Placed
<1> QED BY <1>10, Zenon DEF ss2

\* A record is met.
LEMMA RecordMet ==
    ASSUME PptTypes, NEW r \in RecordType, Len(r.members) <= MaxMembers,
           records' = Append(records, r)
    PROVE  /\ records' \in Seq(RecordType)
           /\ \A i \in DOMAIN records' : Len(records'[i].members) <= MaxMembers
           /\ Len(records') = Len(records) + 1 /\ records'[Len(records) + 1] = r
           /\ ListPlaces \subseteq ListPlaces'
           /\ \A p \in ListPlaces' : p \notin ListPlaces
                 => p[1] = Len(records') /\ p[2] \in DOMAIN r.members
           /\ \A p \in ListPlaces : /\ p[1] # Len(records')
                                    /\ records'[p[1]] = records[p[1]]
<1>1. /\ records' \in Seq(RecordType) /\ Len(records') = Len(records) + 1
      /\ records'[Len(records) + 1] = r
      /\ \A i \in 1..Len(records) : records'[i] = records[i]
      /\ DOMAIN records = 1..Len(records) /\ DOMAIN records' = 1..(Len(records) + 1)
      /\ Len(records) \in Nat
  BY DEF PptTypes
<1>2. \A i \in 1..(Len(records) + 1) : i = Len(records) + 1 \/ i \in 1..Len(records)
  BY <1>1
<1>3. \A i \in DOMAIN records' : Len(records'[i].members) <= MaxMembers
  BY <1>1, <1>2 DEF PptTypes
<1>4. ASSUME NEW p \in ListPlaces
      PROVE  /\ p \in ListPlaces' /\ p[1] # Len(records') /\ records'[p[1]] = records[p[1]]
  <2>1. p[1] \in 1..Len(records) /\ p \in (DOMAIN records) \X (1..MaxMembers)
    BY <1>1 DEF ListPlaces
  <2>2. p \in (DOMAIN records') \X (1..MaxMembers)
    BY <1>1, <2>1
  <2> QED BY <1>1, <2>1, <2>2 DEF ListPlaces
<1>5. ASSUME NEW p \in ListPlaces', p \notin ListPlaces
      PROVE  p[1] = Len(records') /\ p[2] \in DOMAIN r.members
  <2>1. p \in (DOMAIN records') \X (1..MaxMembers)
    BY DEF ListPlaces
  <2>2. CASE p[1] \in 1..Len(records)
    <3>1. records'[p[1]] = records[p[1]] /\ p \in (DOMAIN records) \X (1..MaxMembers)
      BY <1>1, <2>1, <2>2
    <3> QED BY <1>5, <3>1 DEF ListPlaces
  <2>3. CASE p[1] = Len(records) + 1
    BY <1>1, <2>3 DEF ListPlaces
  <2> QED BY <1>1, <1>2, <2>1, <2>2, <2>3
<1> QED BY <1>1, <1>3, <1>4, <1>5

\* The Slides stay as they are while the same lists are settled.
LEMMA SlidesKept ==
    ASSUME SlidesInv, slides' = slides, Settled' = Settled,
           \A p \in Settled : records'[p[1]] = records[p[1]]
    PROVE  SlidesInv'
<1>1. PICK place : Placed(place, Settled, slides, records)
  BY Zenon DEF SlidesInv
<1>2. \A p \in Settled : records'[p[1]].members[p[2]] = records[p[1]].members[p[2]]
  OBVIOUS
<1>3. Placed(place, Settled, slides, records')
  BY <1>1, <1>2, PlacedAlike
<1>4. Placed(place, Settled', slides', records')
  BY <1>3
<1> QED BY <1>4, Zenon DEF SlidesInv

\* Between the records every list met is settled.
LEMMA AllSettled ==
    ASSUME pptStage \notin {"members", "atoms"}
    PROVE  Settled = ListPlaces
BY DEF Settled

LEMMA SkipRecordStep == ASSUME PptInv, SkipRecord PROVE PptInv'
<1>1. PICK t \in {"known", "unknown"} : records' = Append(records, [type |-> t, members |-> <<>>])
  BY DEF SkipRecord
<1> DEFINE r == [type |-> t, members |-> <<>>]
<1>2. r \in RecordType /\ Len(r.members) <= MaxMembers /\ r.members = <<>>
  BY LengthAssumption DEF RecordType
<1>3. /\ pptStage = "stream" /\ pptStage' = "stream"
      /\ UNCHANGED <<member, pos, atom, m_pos, slide, slides>>
  BY DEF SkipRecord
<1> HIDE DEF r
<1>4. /\ records' \in Seq(RecordType)
      /\ \A i \in DOMAIN records' : Len(records'[i].members) <= MaxMembers
      /\ ListPlaces \subseteq ListPlaces'
      /\ \A p \in ListPlaces' : p \notin ListPlaces => p[2] \in DOMAIN r.members
      /\ \A p \in ListPlaces : records'[p[1]] = records[p[1]]
  <2>1. records' = Append(records, r)
    BY <1>1 DEF r
  <2> QED BY <1>2, <2>1, RecordMet DEF PptInv
<1>5. Settled = ListPlaces /\ Settled' = ListPlaces'
  BY <1>3 DEF Settled
<1>6. ListPlaces' = ListPlaces
  <2>1. DOMAIN r.members = {}
    BY <1>2
  <2> QED BY <1>4, <2>1
<1>7. SlidesInv'
  BY <1>3, <1>4, <1>5, <1>6, SlidesKept DEF PptInv
<1> QED BY <1>3, <1>4, <1>7 DEF PptInv, PptTypes, MemberInv, AtomInv

LEMMA OpenDocumentStep == ASSUME PptInv, OpenDocument PROVE PptInv'
<1>1. PICK ms \in Memberships : records' = Append(records, [type |-> "document", members |-> ms])
  BY DEF OpenDocument
<1> DEFINE r == [type |-> "document", members |-> ms]
<1>2. r \in RecordType /\ Len(r.members) <= MaxMembers /\ r.members = ms
  <2>1. ms \in SeqOf({OtherMember} \cup Lists, MaxMembers)
    BY DEF Memberships
  <2>2. PICK n \in 0..MaxMembers : ms \in [1..n -> {OtherMember} \cup Lists]
    BY <2>1 DEF SeqOf
  <2>3. \A k \in 1..n : ms[k] \in MemberType
    <3>1. OtherMember \in MemberType
      BY DEF OtherMember, MemberType
    <3>2. ASSUME NEW l \in Lists PROVE l \in MemberType
      <4>1. l.atoms \in SeqOf(Atom, MaxAtoms)
        BY DEF Lists
      <4>2. PICK k \in 0..MaxAtoms : l.atoms \in [1..k -> Atom]
        BY <4>1 DEF SeqOf
      <4>3. k \in Nat
        BY LengthAssumption
      <4>4. l.atoms \in Seq(Atom)
        BY <4>2, <4>3
      <4> QED BY <4>4 DEF Lists, MemberType
    <3> QED BY <2>2, <3>1, <3>2
  <2>4. n \in Nat /\ n <= MaxMembers
    BY LengthAssumption
  <2>5. ms \in [1..n -> MemberType]
    BY <2>2, <2>3
  <2>6. ms \in Seq(MemberType) /\ Len(ms) = n
    BY <2>4, <2>5
  <2> QED BY <2>4, <2>6 DEF RecordType
<1>3. /\ pptStage = "stream" /\ pptStage' = "members" /\ member' = 1 /\ pos' = DocumentAtom
      /\ UNCHANGED <<atom, m_pos, slide, slides>>
  BY DEF OpenDocument
<1>4. records' = Append(records, r)
  BY <1>1
<1> HIDE DEF r
<1>5. /\ records' \in Seq(RecordType)
      /\ \A i \in DOMAIN records' : Len(records'[i].members) <= MaxMembers
      /\ Len(records') = Len(records) + 1 /\ records'[Len(records) + 1] = r
      /\ ListPlaces \subseteq ListPlaces'
      /\ \A p \in ListPlaces' : p \notin ListPlaces
            => p[1] = Len(records') /\ p[2] \in DOMAIN r.members
      /\ \A p \in ListPlaces : p[1] # Len(records') /\ records'[p[1]] = records[p[1]]
  BY <1>2, <1>4, RecordMet DEF PptInv
<1>6. Settled = ListPlaces
  BY <1>3, AllSettled
<1>7. Settled' = ListPlaces
  <2>1. Settled' = { p \in ListPlaces' : p[1] = Len(records') => p[2] < 1 }
    BY <1>3 DEF Settled
  <2>2. \A i \in DOMAIN r.members : ~(i < 1)
    BY <1>2 DEF RecordType
  <2> QED BY <1>5, <2>1, <2>2
<1>8. SlidesInv'
  BY <1>3, <1>5, <1>6, <1>7, SlidesKept DEF PptInv
<1>9. MemberInv'
  <2>1. Document' = r /\ records' # <<>>
    BY <1>5 DEF Document, Last, PptInv, PptTypes
  <2>2. r.members \in Seq(MemberType) /\ 1 \in 1..(Len(r.members) + 1)
    BY <1>2 DEF RecordType
  <2>3. EndsAt(Bytes(MemberLengths(r)), MemberLengths(r))
    BY <1>2, MemberLengthsType, BytesFacts
  <2>4. Bytes(MemberLengths(r))[0] = 0
    BY <2>3 DEF EndsAt
  <2>5. DocumentAtom = DocumentAtom + Bytes(MemberLengths(r))[1 - 1]
    BY <2>4 DEF DocumentAtom
  <2> QED BY <1>3, <2>1, <2>2, <2>5 DEF MemberInv
<1> QED BY <1>3, <1>5, <1>8, <1>9 DEF PptInv, PptTypes, AtomInv

LEMMA StopReadingStep == ASSUME PptInv, StopReading PROVE PptInv'
<1>1. pptStage = "stream" /\ pptStage' = "end" /\ UNCHANGED <<records, slide, slides>>
  BY DEF StopReading
<1>2. Settled' = Settled
  BY <1>1 DEF Settled, ListPlaces
<1>3. SlidesInv'
  BY <1>1, <1>2, SlidesKept DEF PptInv
<1> QED BY <1>1, <1>3 DEF PptInv, PptTypes, MemberInv, AtomInv

\* The places of the lists of the last record, and of the one that is next.
LEMMA SettledPlaces ==
    ASSUME PptTypes, MemberInv, pptStage \in {"members", "atoms"},
           member \in DOMAIN Document.members
    PROVE  /\ \A p \in ListPlaces : p[1] \in 1..Len(records) /\ p[2] \in Nat
           /\ <<Len(records), member>> \in ListPlaces <=> Member.type = "list"
           /\ \A p \in ListPlaces : p[1] = Len(records) /\ p[2] = member
                 => p = <<Len(records), member>>
<1>1. Len(records) \in 1..Len(records) /\ Document = records[Len(records)]
  BY DocumentFacts DEF PptTypes
<1>2. /\ member \in 1..MaxMembers
  <2>1. Document.members \in Seq(MemberType) /\ Len(Document.members) <= MaxMembers
    BY <1>1, DocumentFacts DEF PptTypes
  <2> QED BY <2>1, LengthAssumption
<1>3. DOMAIN records = 1..Len(records)
  BY DEF PptTypes
<1>4. \A p \in ListPlaces : p \in (1..Len(records)) \X (1..MaxMembers)
  BY <1>3 DEF ListPlaces
<1>5. <<Len(records), member>> \in (1..Len(records)) \X (1..MaxMembers)
  BY <1>1, <1>2
<1>6. \A p \in (1..Len(records)) \X (1..MaxMembers) : p = <<p[1], p[2]>>
  OBVIOUS
<1>7. <<Len(records), member>> \in ListPlaces <=> Member.type = "list"
  BY <1>1, <1>3, <1>5 DEF ListPlaces, Member
<1> QED BY <1>4, <1>6, <1>7

LEMMA SkipMemberStep == ASSUME PptInv, SkipMember PROVE PptInv'
<1>1. /\ pptStage = "members" /\ pptStage' = "members" /\ member' = member + 1
      /\ pos' = pos + Header + LenOfMember(Member) /\ Member.type = "skipped"
      /\ pos + Header <= LenOfDocument(Document)
      /\ UNCHANGED <<records, slide, slides>>
  BY DEF SkipMember, MemberLeft
<1>2. PptTypes /\ MemberInv /\ SlidesInv
  BY DEF PptInv
<1>3. /\ member \in DOMAIN Document.members /\ Document.members \in Seq(MemberType)
      /\ pos + Header + LenOfMember(Member)
            = DocumentAtom + Bytes(MemberLengths(Document))[member]
  BY <1>1, <1>2, DocumentFacts
<1>4. Document' = Document
  BY <1>1 DEF Document
<1>5. MemberInv'
  <2>1. member' \in 1..(Len(Document.members) + 1) /\ member' - 1 = member
    BY <1>1, <1>3
  <2> QED BY <1>1, <1>2, <1>3, <1>4, <2>1 DEF MemberInv
<1>6. Settled' = Settled
  <2>1. Settled = { p \in ListPlaces : p[1] = Len(records) => p[2] < member }
    BY <1>1 DEF Settled
  <2>2. Settled' = { p \in ListPlaces : p[1] = Len(records) => p[2] < member + 1 }
    BY <1>1 DEF Settled, ListPlaces
  <2>3. ASSUME NEW p \in ListPlaces, p[1] = Len(records)
        PROVE  p[2] < member + 1 <=> p[2] < member
    <3>1. p[2] # member
      BY <1>1, <1>2, <1>3, <2>3, SettledPlaces
    <3>2. p[2] \in Nat /\ member \in Nat
      BY <1>1, <1>2, <1>3, SettledPlaces
    <3> QED BY <3>1, <3>2
  <2> QED BY <2>1, <2>2, <2>3
<1>7. SlidesInv'
  BY <1>1, <1>2, <1>6, SlidesKept
<1> QED BY <1>1, <1>2, <1>5, <1>7 DEF PptInv, PptTypes, AtomInv

LEMMA CloseDocumentStep == ASSUME PptInv, CloseDocument PROVE PptInv'
<1>1. /\ pptStage = "members" /\ pptStage' = "stream"
      /\ pos + Header > LenOfDocument(Document)
      /\ UNCHANGED <<records, slide, slides>>
  BY DEF CloseDocument
<1>2. PptTypes /\ MemberInv /\ SlidesInv
  BY DEF PptInv
<1>3. /\ Document.members \in Seq(MemberType) /\ Document = records[Len(records)]
      /\ member = Len(Document.members) + 1
  <2>1. ~(pos + Header <= LenOfDocument(Document))
    <3>1. Document \in RecordType /\ Document.members \in Seq(MemberType)
      BY <1>1, <1>2, DocumentFacts
    <3>2. EndsAt(Bytes(MemberLengths(Document)), MemberLengths(Document))
      BY <3>1, MemberLengthsType, BytesFacts
    <3>3. Len(MemberLengths(Document)) = Len(Document.members)
      BY <3>1, MemberLengthsType
    <3>4. /\ member - 1 \in 0..Len(Document.members)
          /\ Len(Document.members) \in 0..Len(Document.members)
      BY <1>1, <1>2, <3>1 DEF MemberInv
    <3>5. /\ Bytes(MemberLengths(Document))[member - 1] \in Nat
          /\ Bytes(MemberLengths(Document))[Len(Document.members)] \in Nat
      BY <3>2, <3>3, <3>4 DEF EndsAt
    <3>6. pos \in Nat /\ LenOfDocument(Document) \in Nat
      BY <1>1, <1>2, <3>5 DEF MemberInv, LenOfDocument, DocumentAtom
    <3> QED BY <1>1, <3>6 DEF Header
  <2> QED BY <1>1, <1>2, <2>1, DocumentFacts
<1>4. Settled' = Settled
  <2>1. Settled = { p \in ListPlaces : p[1] = Len(records) => p[2] < member }
    BY <1>1 DEF Settled
  <2>2. Settled' = ListPlaces
    BY <1>1 DEF Settled, ListPlaces
  <2>3. \A p \in ListPlaces : p[1] = Len(records) => p[2] < member
    BY <1>3 DEF ListPlaces
  <2> QED BY <2>1, <2>2, <2>3
<1>5. SlidesInv'
  BY <1>1, <1>2, <1>4, SlidesKept
<1> QED BY <1>1, <1>2, <1>5 DEF PptInv, PptTypes, MemberInv, AtomInv

LEMMA OpenListStep == ASSUME PptInv, OpenList PROVE PptInv'
<1>1. /\ pptStage = "members" /\ pptStage' = "atoms" /\ Member.type = "list"
      /\ atom' = 1 /\ m_pos' = Header /\ slide' = <<>>
      /\ pos + Header <= LenOfDocument(Document)
      /\ UNCHANGED <<records, member, pos, slides>>
  BY DEF OpenList, MemberLeft
<1>2. PptTypes /\ MemberInv /\ SlidesInv
  BY DEF PptInv
<1>3. member \in DOMAIN Document.members /\ Member \in MemberType
  BY <1>1, <1>2, DocumentFacts
<1>4. Document' = Document /\ Member' = Member
  BY <1>1 DEF Document, Member
<1>5. Member.atoms \in Seq(Atom) /\ Bytes(AtomLengths(Member))[0] = 0
  <2>1. EndsAt(Bytes(AtomLengths(Member)), AtomLengths(Member))
    BY <1>3, AtomLengthsType, BytesFacts
  <2> QED BY <1>3, <2>1 DEF EndsAt, MemberType
<1>6. Shows(<<>>, <<Len(records), member>>, { i \in Reached(Member) : i < 1 })
  <2>1. { i \in Reached(Member) : i < 1 } = {}
    BY <1>5 DEF Reached
  <2> QED BY <2>1 DEF Shows, ToSet
<1>7. AtomInv'
  <2>1. /\ 1 \in 1..(Len(Member.atoms) + 1) /\ ~(1 > 1)
        /\ Header = Header + Bytes(AtomLengths(Member))[1 - 1]
    BY <1>5 DEF Header
  <2> QED BY <1>1, <1>3, <1>4, <1>6, <2>1 DEF AtomInv
<1>8. Settled' = Settled
  BY <1>1 DEF Settled, ListPlaces
<1>9. SlidesInv'
  BY <1>1, <1>2, <1>8, SlidesKept
<1> QED BY <1>1, <1>2, <1>4, <1>7, <1>9 DEF PptInv, PptTypes, MemberInv

\* One text more, after all others.
LEMMA AppendShows ==
    ASSUME NEW A, NEW texts \in Seq(A \X Nat), NEW p, p[2] \in A, NEW i \in Nat,
           NEW at, Shows(texts, p, at), \A j \in at : j < i
    PROVE  /\ Append(texts, <<p[2], i>>) \in Seq(A \X Nat)
           /\ Shows(Append(texts, <<p[2], i>>), p, at \cup {i})
<1> DEFINE m == p[2]
           texts2 == Append(texts, <<m, i>>)
           k == Len(texts)
<1>1. /\ texts2 \in Seq(A \X Nat) /\ k \in Nat /\ DOMAIN texts = 1..k
      /\ DOMAIN texts2 = 1..(k + 1) /\ texts2[k + 1] = <<m, i>>
      /\ \A u \in 1..k : texts2[u] = texts[u]
  <2>1. <<m, i>> \in A \X Nat
    OBVIOUS
  <2> HIDE DEF m
  <2> QED BY <2>1, AppendProperties
<1>2. \A u \in 1..(k + 1) : u = k + 1 \/ u \in 1..k
  BY <1>1
<1>3. ToSet(texts) = {m} \X at
  BY DEF Shows
<1> HIDE DEF texts2, m, k
<1>4. ToSet(texts2) = ToSet(texts) \cup {<<m, i>>}
  <2>1. ASSUME NEW x \in ToSet(texts2) PROVE x \in ToSet(texts) \cup {<<m, i>>}
    <3>1. PICK u \in 1..(k + 1) : x = texts2[u]
      BY <1>1 DEF ToSet
    <3> QED BY <1>1, <1>2, <3>1 DEF ToSet
  <2>2. ASSUME NEW x \in ToSet(texts) PROVE x \in ToSet(texts2)
    <3>1. PICK u \in 1..k : x = texts[u]
      BY <1>1 DEF ToSet
    <3>2. u \in 1..(k + 1)
      BY <1>1
    <3> QED BY <1>1, <3>1, <3>2 DEF ToSet
  <2>3. <<m, i>> \in ToSet(texts2)
    <3>1. k + 1 \in 1..(k + 1)
      BY <1>1
    <3> QED BY <1>1, <3>1 DEF ToSet
  <2> QED BY <2>1, <2>2, <2>3
<1>5. ToSet(texts2) = {m} \X (at \cup {i})
  BY <1>3, <1>4
<1>6. ASSUME NEW u \in 1..(k + 1), NEW v \in 1..(k + 1), u < v
      PROVE  texts2[u][2] < texts2[v][2]
  <2>1. u \in 1..k
    BY <1>1, <1>6
  <2>2. CASE v = k + 1
    <3>1. texts[u] \in ToSet(texts)
      BY <1>1, <2>1 DEF ToSet
    <3>2. texts[u][2] < i
      BY <1>3, <3>1
    <3> QED BY <1>1, <2>1, <2>2, <3>2
  <2>3. CASE v \in 1..k
    <3>1. texts[u][2] < texts[v][2]
      BY <1>1, <1>6, <2>1, <2>3 DEF Shows
    <3> QED BY <1>1, <2>1, <2>3, <3>1
  <2> QED BY <1>2, <2>2, <2>3
<1>7. Shows(texts2, p, at \cup {i})
  BY <1>1, <1>5, <1>6 DEF Shows, m
<1> QED BY <1>1, <1>7 DEF texts2, m

\* One text more on a Slide, or one record passed over.
LEMMA OneTextMore ==
    ASSUME NEW texts \in Seq(Nat \X Nat), NEW m \in Nat, NEW r, NEW i \in Nat,
           NEW list, NEW n \in Nat, DOMAIN list.atoms = 1..n, Len(list.atoms) = n,
           Shows(texts, <<r, m>>, { j \in Reached(list) : j < i }),
           i \in 1..n, i < n \/ list.atoms[i].recLen >= Header
    PROVE  /\ list.atoms[i].type = "chars"
                => /\ Shows(Append(texts, <<m, i>>), <<r, m>>, { j \in Reached(list) : j < i + 1 })
                   /\ Append(texts, <<m, i>>) \in Seq(Nat \X Nat)
           /\ list.atoms[i].type # "chars"
                => Shows(texts, <<r, m>>, { j \in Reached(list) : j < i + 1 })
<1> DEFINE before == { j \in Reached(list) : j < i }
           upTo == { j \in Reached(list) : j < i + 1 }
           p == <<r, m>>
<1>1. Reached(list) \subseteq 1..n
  BY DEF Reached
<1>2. CASE list.atoms[i].type # "chars"
  <2>1. i \notin Reached(list)
    BY <1>2 DEF Reached
  <2>2. upTo = before
    <3>1. \A j \in Reached(list) : j < i + 1 <=> j < i
      BY <1>1, <2>1
    <3> QED BY <3>1
  <2> QED BY <1>2, <2>2
<1>3. CASE list.atoms[i].type = "chars"
  <2>1. i \in Reached(list)
    BY <1>3 DEF Reached
  <2>2. upTo = before \cup {i}
    <3>1. \A j \in Reached(list) : j < i + 1 <=> (j < i \/ j = i)
      BY <1>1
    <3> QED BY <2>1, <3>1
  <2>3. p[2] = m /\ Shows(texts, p, before) /\ \A j \in before : j < i
    OBVIOUS
  <2> HIDE DEF p, before, upTo
  <2>4. /\ Append(texts, <<p[2], i>>) \in Seq(Nat \X Nat)
        /\ Shows(Append(texts, <<p[2], i>>), p, before \cup {i})
    <3>1. p[2] \in Nat
      BY <2>3
    <3> QED BY <2>3, <3>1, AppendShows
  <2> QED BY <1>3, <2>2, <2>3, <2>4 DEF p, upTo
<1> QED BY <1>2, <1>3

LEMMA ReadAtomStep == ASSUME PptInv, ReadAtom PROVE PptInv'
<1>1. /\ pptStage = "atoms" /\ pptStage' = "atoms" /\ atom' = atom + 1
      /\ m_pos + Header <= LenOfMember(Member)
      /\ m_pos' = m_pos + Header + Member.atoms[atom].recLen
      /\ slide' = IF Member.atoms[atom].type = "chars" THEN Append(slide, <<member, atom>>)
                  ELSE slide
      /\ UNCHANGED <<records, member, pos, slides>>
  BY DEF ReadAtom
<1>2. PptTypes /\ MemberInv /\ AtomInv /\ SlidesInv
  BY DEF PptInv
<1>3. Document' = Document /\ Member' = Member
  BY <1>1 DEF Document, Member
<1>4. /\ Member.atoms \in Seq(Atom)
      /\ atom < Len(Member.atoms) \/ (atom = Len(Member.atoms) /\ Member.atoms[atom].recLen >= Header)
      /\ atom \in 1..(Len(Member.atoms) + 1)
  BY <1>1, <1>2, ListFacts
<1>5. atom \in 1..Len(Member.atoms) /\ Len(Member.atoms) \in Nat
      /\ DOMAIN Member.atoms = 1..Len(Member.atoms)
  BY <1>4
<1>6. m_pos' = Header + Bytes(AtomLengths(Member))[atom]
  BY <1>1, <1>2, <1>5, ListFacts
<1>7. slide \in Seq(Nat \X Nat) /\ member \in Nat /\ atom \in Nat
  <2>1. Document.members \in Seq(MemberType)
    BY <1>1, <1>2, DocumentFacts
  <2> QED BY <1>1, <1>2, <1>5, <2>1 DEF PptTypes, AtomInv
<1>8. Shows(slide, <<Len(records), member>>, { i \in Reached(Member) : i < atom })
  BY <1>1, <1>2 DEF AtomInv
<1>9. /\ slide' \in Seq(Nat \X Nat)
      /\ Shows(slide', <<Len(records), member>>, { i \in Reached(Member) : i < atom + 1 })
  BY <1>1, <1>4, <1>5, <1>7, <1>8, OneTextMore
<1>10. AtomInv'
  <2>1. /\ atom + 1 \in 1..(Len(Member.atoms) + 1) /\ (atom + 1) - 1 = atom
        /\ (atom < Len(Member.atoms) \/ Member.atoms[atom].recLen >= Header)
    BY <1>4, <1>5
  <2> QED BY <1>1, <1>2, <1>3, <1>6, <1>9, <2>1 DEF AtomInv
<1>11. Settled' = Settled
  BY <1>1 DEF Settled, ListPlaces
<1>12. SlidesInv'
  BY <1>1, <1>2, <1>11, SlidesKept
<1>13. MemberInv'
  BY <1>1, <1>2, <1>3 DEF MemberInv
<1>14. PptTypes'
  BY <1>1, <1>2, <1>9 DEF PptTypes
<1> QED BY <1>10, <1>12, <1>13, <1>14 DEF PptInv

LEMMA CloseListStep == ASSUME PptInv, CloseList PROVE PptInv'
<1>1. /\ pptStage = "atoms" /\ pptStage' = "members" /\ member' = member + 1
      /\ m_pos + Header > LenOfMember(Member)
      /\ slides' = Append(slides, slide) /\ slide' = <<>>
      /\ pos' = pos + Header + LenOfMember(Member)
      /\ UNCHANGED records
  BY DEF CloseList
<1>2. PptTypes /\ MemberInv /\ AtomInv /\ SlidesInv
  BY DEF PptInv
<1>3. Document' = Document
  BY <1>1 DEF Document
<1>4. /\ member \in DOMAIN Document.members /\ Document.members \in Seq(MemberType)
      /\ Document = records[Len(records)] /\ Member.type = "list"
      /\ pos + Header + LenOfMember(Member)
            = DocumentAtom + Bytes(MemberLengths(Document))[member]
  BY <1>1, <1>2, DocumentFacts DEF AtomInv
<1> DEFINE p == <<Len(records), member>>
           n == Len(Member.atoms)
<1>5. Shows(slide, p, Reached(Member))
  <2>1. /\ Member.atoms \in Seq(Atom) /\ Member \in MemberType
        /\ atom \in 1..(n + 1)
        /\ ~(atom < n \/ (atom = n /\ Member.atoms[atom].recLen >= Header))
    <3>1. ~(m_pos + Header <= LenOfMember(Member))
      <4>1. Member \in MemberType /\ atom \in 1..(n + 1) /\ n \in Nat /\ Member.atoms \in Seq(Atom)
        BY <1>1, <1>2, ListFacts
      <4>2. EndsAt(Bytes(AtomLengths(Member)), AtomLengths(Member)) /\ Len(AtomLengths(Member)) = n
        BY <4>1, AtomLengthsType, BytesFacts
      <4>3. Bytes(AtomLengths(Member))[atom - 1] \in Nat
        <5>1. Bytes(AtomLengths(Member)) \in [0..n -> Nat]
          BY <4>2 DEF EndsAt
        <5>2. atom - 1 \in 0..n
          BY <4>1
        <5> HIDE DEF n
        <5> QED BY <5>1, <5>2
      <4>4. m_pos \in Nat
        BY <1>1, <1>2, <4>3 DEF AtomInv, Header
      <4>5. LenOfMember(Member) \in Nat
        BY <4>1, LenOfMemberType
      <4> QED BY <1>1, <4>4, <4>5 DEF Header
    <3> QED BY <1>1, <1>2, <3>1, ListFacts
  <2>2. Reached(Member) = { i \in Reached(Member) : i < atom }
    <3>1. ASSUME NEW i \in Reached(Member) PROVE i < atom
      <4>1. i \in 1..n /\ (i < n \/ Member.atoms[i].recLen >= Header)
        BY <2>1 DEF Reached
      <4>2. CASE atom = n + 1
        BY <2>1, <4>1, <4>2
      <4>3. CASE atom # n + 1
        <5>1. atom = n /\ ~(Member.atoms[n].recLen >= Header)
          BY <2>1, <4>3
        <5> QED BY <2>1, <4>1, <5>1
      <4> QED BY <4>2, <4>3
    <3> QED BY <3>1
  <2>3. Shows(slide, p, { i \in Reached(Member) : i < atom })
    BY <1>1, <1>2 DEF AtomInv
  <2> QED BY <2>2, <2>3
<1>6. Settled = { q \in ListPlaces : q[1] = Len(records) => q[2] < member }
  BY <1>1 DEF Settled
<1>7. Settled' = { q \in ListPlaces : q[1] = Len(records) => q[2] < member + 1 }
  BY <1>1 DEF Settled, ListPlaces
<1>8. /\ p \in ListPlaces /\ member \in Nat /\ Len(records) \in Nat
      /\ \A q \in ListPlaces : /\ q[1] \in 1..Len(records) /\ q[2] \in Nat
                               /\ q[1] = Len(records) /\ q[2] = member => q = p
  <2>1. member \in Nat /\ Len(records) \in Nat
    BY <1>2, <1>4 DEF PptTypes
  <2> QED BY <1>1, <1>2, <1>4, <2>1, SettledPlaces
<1>9. Settled' = Settled \cup {p}
  <2>1. ASSUME NEW q \in ListPlaces
        PROVE  (q[1] = Len(records) => q[2] < member + 1)
                 <=> ((q[1] = Len(records) => q[2] < member) \/ q = p)
    <3>1. q[2] \in Nat /\ (q[1] = Len(records) /\ q[2] = member => q = p)
      BY <1>8
    <3>2. p[1] = Len(records) /\ p[2] = member
      OBVIOUS
    <3> HIDE DEF p
    <3> QED BY <1>8, <3>1, <3>2
  <2> HIDE DEF p
  <2> QED BY <1>6, <1>7, <1>8, <2>1
<1>10. \A q \in Settled : Before(q, p)
  <2>1. p[1] = Len(records) /\ p[2] = member
    OBVIOUS
  <2> HIDE DEF p
  <2> QED BY <1>6, <1>8, <2>1 DEF Before
<1>11. SlidesInv'
  <2>1. PICK place : Placed(place, Settled, slides, records)
    BY <1>2, Zenon DEF SlidesInv
  <2>2. Shows(slide, p, Reached(records[p[1]].members[p[2]]))
    <3>1. records[p[1]].members[p[2]] = Member
      BY <1>4 DEF Member
    <3> QED BY <1>5, <3>1
  <2>3. slides \in Seq(Seq(Nat \X Nat)) /\ slide \in Seq(Nat \X Nat)
    BY <1>2 DEF PptTypes
  <2> HIDE DEF p
  <2>4. \E place2 : Placed(place2, Settled \cup {p}, Append(slides, slide), records)
    BY <1>10, <2>1, <2>2, <2>3, PlacedNext
  <2>5. \E place2 : Placed(place2, Settled', slides', records')
    BY <1>1, <1>9, <2>4
  <2> QED BY <2>5, Zenon DEF SlidesInv
<1>12. MemberInv'
  <2>1. member + 1 \in 1..(Len(Document.members) + 1) /\ (member + 1) - 1 = member
    BY <1>4
  <2> QED BY <1>1, <1>2, <1>3, <1>4, <2>1 DEF MemberInv
<1>13. PptTypes'
  BY <1>1, <1>2 DEF PptTypes
<1> QED BY <1>1, <1>11, <1>12, <1>13 DEF PptInv, AtomInv

LEMMA PptInitial == ASSUME PptInit PROVE PptInv
<1>1. /\ pptStage = "off" /\ records = <<>> /\ slide = <<>> /\ slides = <<>>
  BY DEF PptInit
<1>2. Settled = {}
  BY <1>1 DEF Settled, ListPlaces
<1>3. Placed(<<>>, Settled, slides, records)
  BY <1>1, <1>2 DEF Placed
<1>4. SlidesInv
  BY <1>3, Zenon DEF SlidesInv
<1> QED BY <1>1, <1>4 DEF PptInv, PptTypes, MemberInv, AtomInv

LEMMA CallPptStep == ASSUME PptInv, CallPpt PROVE PptInv'
<1>1. pptStage = "off" /\ pptStage' = "stream" /\ UNCHANGED <<records, slide, slides>>
  BY DEF CallPpt
<1>2. Settled' = Settled
  BY <1>1 DEF Settled, ListPlaces
<1>3. SlidesInv'
  BY <1>1, <1>2, SlidesKept DEF PptInv
<1> QED BY <1>1, <1>3 DEF PptInv, PptTypes, MemberInv, AtomInv

LEMMA PptStep == ASSUME PptInv, [CallPpt \/ PptNext]_pptVars PROVE PptInv'
<1>1. CASE UNCHANGED pptVars
  <2>1. Settled' = Settled /\ Document' = Document /\ Member' = Member
    BY <1>1 DEF pptVars, Settled, ListPlaces, Document, Member
  <2>2. SlidesInv'
    BY <1>1, <2>1, SlidesKept DEF PptInv, pptVars
  <2> QED BY <1>1, <2>1, <2>2 DEF PptInv, PptTypes, MemberInv, AtomInv, pptVars
<1> QED BY <1>1, CallPptStep, SkipRecordStep, StopReadingStep, OpenDocumentStep, SkipMemberStep,
           OpenListStep, CloseDocumentStep, ReadAtomStep, CloseListStep DEF PptNext

\* Between the records the Slides are the lists met (property
\* SlidesAsSpecified).
LEMMA SlidesFromInv == ASSUME PptInv PROVE SlidesAsSpecified
<1> SUFFICES ASSUME pptStage \in {"stream", "end"} PROVE SlidesAsSpecified
  BY DEF SlidesAsSpecified
<1>1. PICK place : Placed(place, Settled, slides, records)
  BY Zenon DEF PptInv, SlidesInv
<1>2. Settled = ListPlaces
  BY AllSettled
<1>3. /\ place \in [DOMAIN slides -> ListPlaces]
      /\ \A s, u \in DOMAIN slides : s < u => Before(place[s], place[u])
      /\ \A p \in ListPlaces : \E s \in DOMAIN slides : place[s] = p
      /\ \A s \in DOMAIN slides :
            Shows(slides[s], place[s], Reached(records[place[s][1]].members[place[s][2]]))
  BY <1>1, <1>2, Zenon DEF Placed
<1> QED BY <1>3, Zenon DEF SlidesAsSpecified

-----------------------------------------------------------------------------
\* process_root: its invariant.

Piece == {"inside", "outside"}
ItemName == Names \cup {"RtfCompressed", "PowerPoint Document", "WordDocument", "0Table",
                        "1Table", "IgnoredProperty", "IgnoredStream", "storage"}
Content == {"skipped", "property", "blank", "lost", "decoded", "table", "slides", "", "0Table",
            "1Table", "Recipient", "Attachment"}
Item == [name : ItemName, status : Status, content : Content, pieces : Seq(Piece)]
Value == Names \cup {"", "RtfCompressed", "Recipient", "Attachment"}

\* What an item tells.
TellsField(x, f) == \/ x.name \in Names /\ x.status = "read" /\ Field(x.name) = f
                    \/ f = "recipient" /\ x.name = "storage" /\ x.content # ""
TellsType(x) == IsMessage(x.name) \/ x.name = "PowerPoint Document"
ValidWord(x) == x.name = "WordDocument" /\ x.content # "" /\ x.status = "read"

RootTypes ==
    /\ items \in Seq(Item)
    /\ \A i, j \in DOMAIN items : i # j /\ items[i].name = items[j].name
                                => items[i].name = "storage"
    /\ type \in {"", "msg", "ppt", "doc"}
    /\ message \in [Fields -> Value]
    /\ word \in -1..1
    /\ type = "doc" <=> word # -1
    /\ tables \in [0..1 -> Seq(Piece)]

Subjects ==
    message.subject = IF Given("Subject") # {} THEN "Subject"
                      ELSE IF \E i \in Given("NormalizedSubject") : \A j \in SubjectsRead : j < i
                      THEN "NormalizedSubject" ELSE ""
RtfKept == message.rtf = "RtfCompressed" <=> \E i \in DOMAIN items : items[i].content = "decoded"
FieldsKept == \A f \in Fields \ {"subject", "rtf"} : message[f] = LastFor(f)
TypeKept ==
    /\ \A i \in DOMAIN items : ValidWord(items[i])
          => word # -1 /\ items[i].content = TableName[word + 1]
    /\ (\A i \in DOMAIN items : ~ValidWord(items[i])) => word = -1 /\ type = FirstTelling
TablesKept ==
    \A t \in 0..1 :
        /\ \A i \in DOMAIN items : items[i].name = TableName[t + 1] => items[i].pieces = tables[t]
        /\ (\A i \in DOMAIN items : items[i].name # TableName[t + 1]) => tables[t] = <<>>

DataInv == RootTypes /\ Subjects /\ RtfKept /\ FieldsKept /\ TypeKept /\ TablesKept

\* Which decoder runs, and the text.
StageInv ==
    /\ rootStage \in {"items", "rtf", "ppt", "end", "thrown"}
    /\ rootStage = "rtf" => /\ items # <<>> /\ items[Len(items)].name = "RtfCompressed"
                            /\ items[Len(items)].content = "lost"
    /\ rtfStage # "off" <=> rootStage = "rtf" \/ rootStage = "thrown"
    /\ pptStage \in {"stream", "members", "atoms"} => rootStage = "ppt"
    /\ text = IF rootStage = "end" /\ type = "doc" THEN InsidePieces(word) ELSE <<>>

RootInv == DataInv /\ StageInv /\ RtfInv /\ PptInv

\* An item is met, with this effect.
Effect(x) ==
    /\ items' = Append(items, x)
    /\ x.name # "storage" => \A i \in DOMAIN items : items[i].name # x.name
    /\ x.content # "decoded"
    /\ message' \in [Fields -> Value] /\ message'.rtf = message.rtf
    /\ x.content = "property" => x.status = "read"
    /\ message'.subject = IF x.name = "Subject" /\ x.status = "read"
                          THEN IF x.content = "property" THEN "Subject" ELSE ""
                          ELSE IF /\ x.name = "NormalizedSubject" /\ x.content = "property"
                                  /\ message.subject = ""
                          THEN "NormalizedSubject" ELSE message.subject
    /\ \A f \in Fields \ {"subject", "rtf"} :
          message'[f] = IF TellsField(x, f) THEN ShownBy(x) ELSE message[f]
    /\ IF ValidWord(x)
       THEN type' = "doc" /\ word' \in 0..1 /\ x.content = TableName[word' + 1]
       ELSE type' = TypeAfter(x.name) /\ word' = word
    /\ tables' \in [0..1 -> Seq(Piece)]
    /\ \A t \in 0..1 : tables'[t] = IF x.name = TableName[t + 1] THEN x.pieces ELSE tables[t]

-----------------------------------------------------------------------------
\* process_root: what one item more changes.

\* A set of numbers up to n that is not empty has a greatest element.
LEMMA GreatestElement ==
    ASSUME NEW n \in Nat, NEW S \in SUBSET (0..n), S # {}
    PROVE  \E i \in S : \A j \in S : i >= j
<1> DEFINE T == { n - j : j \in S }
<1>1. T \in SUBSET Nat /\ T # {}
  <2>1. \A j \in S : n - j \in Nat
    OBVIOUS
  <2>2. PICK j \in S : TRUE
    OBVIOUS
  <2>3. n - j \in T
    OBVIOUS
  <2> QED BY <2>1, <2>3
<1>2. PICK d \in T : \A e \in T : d <= e
  BY <1>1, LeastElement
<1>3. PICK i \in S : d = n - i
  OBVIOUS
<1>4. ASSUME NEW j \in S PROVE i >= j
  <2>1. n - j \in T /\ j \in Nat /\ i \in Nat
    OBVIOUS
  <2>2. d <= n - j
    BY <1>2, <2>1
  <2> QED BY <1>3, <2>1, <2>2
<1> QED BY <1>4

\* The last of those before and one after them; the first of them stays.
LEMMA MaxOfMore ==
    ASSUME NEW n \in Nat, NEW S \in SUBSET (1..n)
    PROVE  Max(S \cup {n + 1}) = n + 1
<1> DEFINE T == S \cup {n + 1}
           m == Max(T)
<1>1. \A j \in T : n + 1 >= j
  OBVIOUS
<1>2. m \in T /\ \A j \in T : m >= j
  BY <1>1 DEF Max
<1>3. m >= n + 1 /\ n + 1 >= m /\ m \in Nat
  <2>1. n + 1 \in T /\ T \subseteq Nat
    OBVIOUS
  <2> HIDE DEF T, m
  <2> QED BY <1>1, <1>2, <2>1
<1> HIDE DEF m
<1> QED BY <1>3 DEF m

LEMMA MaxIn ==
    ASSUME NEW n \in Nat, NEW S \in SUBSET (1..n), S # {}
    PROVE  Max(S) \in S
<1>1. S \in SUBSET (0..n)
  OBVIOUS
<1>2. \E i \in S : \A j \in S : i >= j
  BY <1>1, GreatestElement
<1> QED BY <1>2 DEF Max

LEMMA MinIn ==
    ASSUME NEW n \in Nat, NEW S \in SUBSET (1..n), S # {}
    PROVE  Min(S) \in S /\ \A j \in S : Min(S) <= j
<1>1. S \in SUBSET Nat
  OBVIOUS
<1>2. \E i \in S : \A j \in S : i <= j
  BY <1>1, LeastElement
<1> QED BY <1>2 DEF Min

LEMMA MinOfMore ==
    ASSUME NEW n \in Nat, NEW S \in SUBSET (1..n)
    PROVE  /\ S # {} => Min(S \cup {n + 1}) = Min(S)
           /\ Min({n + 1}) = n + 1
<1>1. ASSUME S # {} PROVE Min(S \cup {n + 1}) = Min(S)
  <2> DEFINE T == S \cup {n + 1}
  <2>1. Min(S) \in S /\ \A j \in S : Min(S) <= j
    BY <1>1, MinIn
  <2>2. T \in SUBSET (1..(n + 1)) /\ T # {} /\ n + 1 \in Nat
    OBVIOUS
  <2>3. Min(T) \in T /\ \A j \in T : Min(T) <= j
    <3> HIDE DEF T
    <3> QED BY <2>2, MinIn
  <2>4. Min(T) <= Min(S) /\ Min(S) \in 1..n
    BY <2>1, <2>3
  <2>5. Min(T) \in S
    BY <2>3, <2>4
  <2>6. Min(S) <= Min(T) /\ Min(T) \in 1..n
    BY <2>1, <2>5
  <2> QED BY <2>4, <2>6
<1>2. Min({n + 1}) = n + 1
  BY DEF Min
<1> QED BY <1>1, <1>2

\* The items, one more.
LEMMA ItemsMore ==
    ASSUME items \in Seq(Item), NEW x \in Item, items' = Append(items, x)
    PROVE  /\ items' \in Seq(Item) /\ Len(items') = Len(items) + 1 /\ Len(items) \in Nat
           /\ DOMAIN items = 1..Len(items) /\ DOMAIN items' = 1..(Len(items) + 1)
           /\ items'[Len(items) + 1] = x
           /\ \A i \in 1..Len(items) : items'[i] = items[i]
           /\ \A i \in 1..(Len(items) + 1) : i = Len(items) + 1 \/ i \in 1..Len(items)
           /\ Len(items) + 1 \in 1..(Len(items) + 1)
           /\ 1..Len(items) \subseteq 1..(Len(items) + 1)
OBVIOUS

LEMMA SubjectsMore ==
    ASSUME items \in Seq(Item), NEW x \in Item, items' = Append(items, x)
    PROVE  /\ \A n : Given(n)' = Given(n) \cup (IF x.name = n /\ x.content = "property"
                                               THEN {Len(items) + 1} ELSE {})
           /\ SubjectsRead' = SubjectsRead \cup (IF x.name = "Subject" /\ x.status = "read"
                                                 THEN {Len(items) + 1} ELSE {})
           /\ \A n : Given(n) \subseteq 1..Len(items)
           /\ SubjectsRead \subseteq 1..Len(items)
<1> DEFINE n == Len(items)
<1>1. /\ DOMAIN items = 1..n /\ DOMAIN items' = 1..(n + 1) /\ items'[n + 1] = x
      /\ \A i \in 1..n : items'[i] = items[i]
      /\ \A i \in 1..(n + 1) : i = n + 1 \/ i \in 1..n
      /\ n + 1 \in 1..(n + 1) /\ 1..n \subseteq 1..(n + 1)
  BY ItemsMore
<1> HIDE DEF n
<1>2. ASSUME NEW m
      PROVE  Given(m)' = Given(m) \cup (IF x.name = m /\ x.content = "property" THEN {n + 1} ELSE {})
  <2>1. Given(m)' = { i \in 1..(n + 1) : items'[i].name = m /\ items'[i].content = "property" }
    BY <1>1 DEF Given
  <2>2. Given(m) = { i \in 1..n : items[i].name = m /\ items[i].content = "property" }
    BY <1>1 DEF Given
  <2> QED BY <1>1, <2>1, <2>2
<1>3. SubjectsRead' = SubjectsRead \cup (IF x.name = "Subject" /\ x.status = "read"
                                        THEN {n + 1} ELSE {})
  <2>1. SubjectsRead' = { i \in 1..(n + 1) : items'[i].name = "Subject" /\ items'[i].status = "read" }
    BY <1>1 DEF SubjectsRead
  <2>2. SubjectsRead = { i \in 1..n : items[i].name = "Subject" /\ items[i].status = "read" }
    BY <1>1 DEF SubjectsRead
  <2> QED BY <1>1, <2>1, <2>2
<1>4. (\A m : Given(m) \subseteq 1..n) /\ SubjectsRead \subseteq 1..n
  BY <1>1 DEF Given, SubjectsRead
<1> QED BY <1>2, <1>3, <1>4 DEF n

\* The last item that tells of a field.
LEMMA LastMore ==
    ASSUME items \in Seq(Item), NEW x \in Item, items' = Append(items, x), NEW f
    PROVE  LastFor(f)' = IF TellsField(x, f) THEN ShownBy(x) ELSE LastFor(f)
<1> DEFINE n == Len(items)
<1>1. For(f) = { i \in 1..n : TellsField(items[i], f) }
  BY ItemsMore DEF For, TellsField
<1>2. For(f)' = { i \in 1..(n + 1) : TellsField(items'[i], f) }
  BY ItemsMore DEF For, TellsField
<1>3. For(f) \in SUBSET (1..n) /\ n \in Nat
  BY <1>1, ItemsMore
<1>4. CASE TellsField(x, f)
  <2>1. For(f)' = For(f) \cup {n + 1}
    BY <1>1, <1>2, <1>4, ItemsMore
  <2>2. Max(For(f)') = n + 1 /\ For(f)' # {}
    BY <1>3, <2>1, MaxOfMore
  <2>3. LastFor(f)' = ShownBy(items'[n + 1])
    BY <2>2 DEF LastFor, ShownBy
  <2> QED BY <1>4, <2>3, ItemsMore
<1>5. CASE ~TellsField(x, f)
  <2>1. For(f)' = For(f)
    BY <1>1, <1>2, <1>5, ItemsMore
  <2>2. CASE For(f) = {}
    BY <1>5, <2>1, <2>2 DEF LastFor
  <2>3. CASE For(f) # {}
    <3>1. Max(For(f)) \in 1..n
      BY <1>3, <2>3, MaxIn
    <3>2. items'[Max(For(f))] = items[Max(For(f))]
      BY <3>1, ItemsMore
    <3>3. LastFor(f)' = ShownBy(items'[Max(For(f))])
      BY <2>1, <2>3 DEF LastFor, ShownBy
    <3> QED BY <1>5, <2>3, <3>2, <3>3 DEF LastFor
  <2> QED BY <2>2, <2>3
<1> QED BY <1>4, <1>5

\* The first item that tells of the type.
LEMMA FirstMore ==
    ASSUME items \in Seq(Item), NEW x \in Item, items' = Append(items, x)
    PROVE  FirstTelling' = IF FirstTelling # "" THEN FirstTelling
                           ELSE IF IsMessage(x.name) THEN "msg"
                           ELSE IF x.name = "PowerPoint Document" THEN "ppt" ELSE ""
<1> DEFINE n == Len(items)
<1>1. Telling = { i \in 1..n : TellsType(items[i]) }
  BY ItemsMore DEF Telling, TellsType
<1>2. Telling' = { i \in 1..(n + 1) : TellsType(items'[i]) }
  BY ItemsMore DEF Telling, TellsType, IsMessage
<1>3. Telling \in SUBSET (1..n) /\ n \in Nat
  BY <1>1, ItemsMore
<1>4. Telling' = IF TellsType(x) THEN Telling \cup {n + 1} ELSE Telling
  BY <1>1, <1>2, ItemsMore
<1>5. CASE Telling # {}
  <2>1. Min(Telling) \in 1..n
    BY <1>3, <1>5, MinIn
  <2>2. Telling' # {} /\ Min(Telling') = Min(Telling)
    BY <1>3, <1>4, <1>5, MinOfMore
  <2>3. items'[Min(Telling)] = items[Min(Telling)]
    BY <2>1, ItemsMore
  <2>4. FirstTelling' = FirstTelling /\ FirstTelling # ""
    BY <1>5, <2>2, <2>3 DEF FirstTelling, IsMessage
  <2> QED BY <2>4
<1>6. CASE Telling = {}
  <2>1. FirstTelling = ""
    BY <1>6 DEF FirstTelling
  <2>2. CASE TellsType(x)
    <3>1. Telling' = {n + 1} /\ Min(Telling') = n + 1
      BY <1>3, <1>4, <1>6, <2>2, MinOfMore
    <3>2. items'[n + 1] = x
      BY ItemsMore
    <3> QED BY <2>1, <2>2, <3>1, <3>2 DEF FirstTelling, IsMessage, TellsType
  <2>3. CASE ~TellsType(x)
    BY <1>4, <1>6, <2>1, <2>3 DEF FirstTelling, TellsType
  <2> QED BY <2>2, <2>3
<1> QED BY <1>5, <1>6

LEMMA SubjectsStep ==
    ASSUME RootTypes, Subjects, NEW x \in Item, Effect(x)
    PROVE  Subjects'
<1> DEFINE n == Len(items)
           given == Given("Subject")
           normalized == Given("NormalizedSubject")
           new == IF x.content = "property" THEN {n + 1} ELSE {}
           read == x.name = "Subject" /\ x.status = "read"
<1>1. items \in Seq(Item) /\ items' = Append(items, x) /\ n \in Nat
  <2>1. items \in Seq(Item) /\ items' = Append(items, x)
    BY DEF RootTypes, Effect
  <2> QED BY <2>1
<1>2. /\ given' = given \cup (IF x.name = "Subject" THEN new ELSE {})
      /\ normalized' = normalized \cup (IF x.name = "NormalizedSubject" THEN new ELSE {})
      /\ SubjectsRead' = SubjectsRead \cup (IF read THEN {n + 1} ELSE {})
      /\ given \subseteq 1..n /\ normalized \subseteq 1..n /\ SubjectsRead \subseteq 1..n
  BY <1>1, SubjectsMore
<1>3. /\ x.name = "Subject" => given = {}
      /\ x.name = "NormalizedSubject" => normalized = {}
  BY DEF Effect, Given
<1>4. /\ x.content = "property" => x.status = "read"
      /\ message'.subject = IF read THEN IF x.content = "property" THEN "Subject" ELSE ""
                            ELSE IF /\ x.name = "NormalizedSubject" /\ x.content = "property"
                                    /\ message.subject = ""
                            THEN "NormalizedSubject" ELSE message.subject
      /\ message.subject = IF given # {} THEN "Subject"
                           ELSE IF \E i \in normalized : \A j \in SubjectsRead : j < i
                           THEN "NormalizedSubject" ELSE ""
  BY DEF Effect, Subjects
<1> SUFFICES message'.subject = IF given' # {} THEN "Subject"
                                ELSE IF \E i \in normalized' : \A j \in SubjectsRead' : j < i
                                THEN "NormalizedSubject" ELSE ""
  BY DEF Subjects
<1> HIDE DEF given, normalized, n
<1>5. CASE read
  <2>1. given = {} /\ given' = new /\ normalized' = normalized /\ n + 1 \in SubjectsRead'
    BY <1>2, <1>3, <1>5
  <2>2. ~\E i \in normalized' : \A j \in SubjectsRead' : j < i
    <3>1. \A i \in normalized : ~(n + 1 < i)
      BY <1>1, <1>2
    <3> QED BY <2>1, <3>1
  <2> QED BY <1>4, <1>5, <2>1, <2>2
<1>6. CASE ~read /\ x.name = "NormalizedSubject" /\ x.content = "property"
  <2>1. given' = given /\ normalized = {} /\ normalized' = {n + 1} /\ SubjectsRead' = SubjectsRead
    BY <1>2, <1>3, <1>6
  <2>2. \A j \in SubjectsRead : j < n + 1
    BY <1>1, <1>2
  <2> QED BY <1>4, <1>6, <2>1, <2>2
<1>7. CASE ~read /\ ~(x.name = "NormalizedSubject" /\ x.content = "property")
  <2>1. given' = given /\ normalized' = normalized /\ SubjectsRead' = SubjectsRead
    BY <1>2, <1>4, <1>7
  <2> QED BY <1>4, <1>7, <2>1
<1> QED BY <1>5, <1>6, <1>7

LEMMA TypeStep ==
    ASSUME RootTypes, TypeKept, NEW x \in Item, Effect(x)
    PROVE  /\ TypeKept' /\ type' \in {"", "msg", "ppt", "doc"} /\ word' \in -1..1
           /\ type' = "doc" <=> word' # -1
<1> DEFINE n == Len(items)
<1>1. items \in Seq(Item) /\ items' = Append(items, x)
  BY DEF RootTypes, Effect
<1>2. /\ type \in {"", "msg", "ppt", "doc"} /\ word \in -1..1 /\ (type = "doc" <=> word # -1)
  BY DEF RootTypes
<1>3. /\ DOMAIN items = 1..n /\ DOMAIN items' = 1..(n + 1) /\ items'[n + 1] = x
      /\ \A i \in 1..n : items'[i] = items[i]
      /\ \A i \in 1..(n + 1) : i = n + 1 \/ i \in 1..n
      /\ n + 1 \in 1..(n + 1) /\ 1..n \subseteq 1..(n + 1)
  BY <1>1, ItemsMore
<1> HIDE DEF n
<1>4. CASE ValidWord(x)
  <2>1. type' = "doc" /\ word' \in 0..1 /\ x.content = TableName[word' + 1]
    BY <1>4 DEF Effect
  <2>2. \A i \in 1..n : ~ValidWord(items[i])
    BY <1>3, <1>4 DEF Effect, ValidWord
  <2>3. \A i \in 1..(n + 1) : ValidWord(items'[i]) => i = n + 1
    BY <1>3, <2>2
  <2>4. TypeKept'
    <3>1. \A i : ValidWord(items'[i]) <=> ValidWord(items[i])'
      BY DEF ValidWord
    <3>2. ValidWord(items'[n + 1]) /\ items'[n + 1].content = TableName[word' + 1] /\ word' # -1
      BY <1>3, <1>4, <2>1
    <3> HIDE DEF TableName
    <3> QED BY <1>3, <2>3, <3>1, <3>2 DEF TypeKept
  <2> QED BY <2>1, <2>4
<1>5. CASE ~ValidWord(x)
  <2>1. type' = TypeAfter(x.name) /\ word' = word
    BY <1>5 DEF Effect
  <2>2. type' = IF type # "" THEN type ELSE IF IsMessage(x.name) THEN "msg"
                ELSE IF x.name = "PowerPoint Document" THEN "ppt" ELSE type
    BY <2>1 DEF TypeAfter
  <2>3. /\ type' \in {"", "msg", "ppt", "doc"} /\ word' \in -1..1
        /\ type' = "doc" <=> word' # -1
    BY <1>2, <2>1, <2>2
  <2>4. ASSUME NEW i \in 1..(n + 1), ValidWord(items'[i])
        PROVE  word' # -1 /\ items'[i].content = TableName[word' + 1]
    <3>1. i \in 1..n /\ ValidWord(items[i])
      BY <1>3, <1>5, <2>4
    <3> QED BY <1>3, <2>1, <3>1 DEF TypeKept
  <2>5. ASSUME \A i \in 1..(n + 1) : ~ValidWord(items'[i])
        PROVE  word' = -1 /\ type' = FirstTelling'
    <3>1. \A i \in 1..n : ~ValidWord(items[i])
      BY <1>3, <2>5
    <3>2. word = -1 /\ type = FirstTelling
      BY <1>3, <3>1 DEF TypeKept
    <3>3. FirstTelling' = IF FirstTelling # "" THEN FirstTelling
                          ELSE IF IsMessage(x.name) THEN "msg"
                          ELSE IF x.name = "PowerPoint Document" THEN "ppt" ELSE ""
      BY <1>1, FirstMore
    <3> QED BY <2>1, <2>2, <3>2, <3>3
  <2>6. TypeKept'
    <3>1. \A i : ValidWord(items'[i]) <=> ValidWord(items[i])'
      BY DEF ValidWord
    <3> QED BY <1>3, <2>4, <2>5 DEF TypeKept, ValidWord
  <2> QED BY <2>3, <2>6
<1> QED BY <1>4, <1>5

LEMMA DataStep ==
    ASSUME DataInv, NEW x \in Item, Effect(x)
    PROVE  DataInv'
<1> DEFINE n == Len(items)
<1>1. items \in Seq(Item) /\ items' = Append(items, x)
  BY DEF DataInv, RootTypes, Effect
<1>2. /\ items' \in Seq(Item)
      /\ DOMAIN items = 1..n /\ DOMAIN items' = 1..(n + 1) /\ items'[n + 1] = x
      /\ \A i \in 1..n : items'[i] = items[i]
      /\ \A i \in 1..(n + 1) : i = n + 1 \/ i \in 1..n
      /\ n + 1 \in 1..(n + 1) /\ 1..n \subseteq 1..(n + 1)
  BY <1>1, ItemsMore
<1> HIDE DEF n
<1>3. \A i, j \in DOMAIN items' : i # j /\ items'[i].name = items'[j].name
                                  => items'[i].name = "storage"
  <2>1. x.name # "storage" => \A i \in 1..n : items[i].name # x.name
    BY <1>2 DEF Effect
  <2>2. \A i, j \in 1..n : i # j /\ items[i].name = items[j].name => items[i].name = "storage"
    BY <1>2 DEF DataInv, RootTypes
  <2> QED BY <1>2, <2>1, <2>2
<1>4. Subjects'
  BY SubjectsStep DEF DataInv
<1>5. RtfKept'
  <2>1. message'.rtf = message.rtf /\ x.content # "decoded"
    BY DEF Effect
  <2>2. (\E i \in 1..(n + 1) : items'[i].content = "decoded")
          <=> (\E i \in 1..n : items[i].content = "decoded")
    BY <1>2, <2>1
  <2> QED BY <1>2, <2>1, <2>2 DEF DataInv, RtfKept
<1>6. FieldsKept'
  <2>1. ASSUME NEW f \in Fields \ {"subject", "rtf"} PROVE message'[f] = LastFor(f)'
    <3>1. LastFor(f)' = IF TellsField(x, f) THEN ShownBy(x) ELSE LastFor(f)
      BY <1>1, LastMore
    <3>2. message'[f] = IF TellsField(x, f) THEN ShownBy(x) ELSE message[f]
      BY DEF Effect
    <3>3. message[f] = LastFor(f)
      BY DEF DataInv, FieldsKept
    <3> QED BY <3>1, <3>2, <3>3
  <2> QED BY <2>1 DEF FieldsKept
<1>7. /\ TypeKept' /\ type' \in {"", "msg", "ppt", "doc"} /\ word' \in -1..1
      /\ type' = "doc" <=> word' # -1
  BY TypeStep DEF DataInv
<1>8. TablesKept'
  <2>1. ASSUME NEW t \in 0..1
        PROVE  /\ \A i \in DOMAIN items' : items'[i].name = TableName[t + 1]
                     => items'[i].pieces = tables'[t]
               /\ (\A i \in DOMAIN items' : items'[i].name # TableName[t + 1])
                     => tables'[t] = <<>>
    <3>1. tables'[t] = IF x.name = TableName[t + 1] THEN x.pieces ELSE tables[t]
      BY DEF Effect
    <3>2. /\ \A i \in 1..n : items[i].name = TableName[t + 1] => items[i].pieces = tables[t]
          /\ (\A i \in 1..n : items[i].name # TableName[t + 1]) => tables[t] = <<>>
      BY <1>2 DEF DataInv, TablesKept
    <3>3. x.name = TableName[t + 1] => \A i \in 1..n : items[i].name # x.name
      <4>1. TableName[t + 1] # "storage"
        BY DEF TableName
      <4> QED BY <1>2, <4>1 DEF Effect
    <3> HIDE DEF TableName
    <3> QED BY <1>2, <3>1, <3>2, <3>3
  <2> QED BY <2>1 DEF TablesKept, TableName
<1>9. RootTypes'
  <2>1. message' \in [Fields -> Value] /\ tables' \in [0..1 -> Seq(Piece)]
    BY DEF Effect
  <2> QED BY <1>2, <1>3, <1>7, <2>1 DEF RootTypes
<1> QED BY <1>4, <1>5, <1>6, <1>7, <1>8, <1>9 DEF DataInv

-----------------------------------------------------------------------------
\* process_root: its steps.

LEMMA FieldType == ASSUME NEW n \in Names PROVE Field(n) \in Fields \ {"rtf"}
BY NamesAssumption DEF Field, Fields, Sender, SenderAt, Recipient, RecipientAt

LEMMA SubjectField ==
    ASSUME NEW n \in Names
    PROVE  Field(n) = "subject" <=> n = "Subject" \/ n = "NormalizedSubject"
BY NamesAssumption DEF Field, Sender, SenderAt, Recipient, RecipientAt

\* The names of properties are no others.
LEMMA OtherNames ==
    /\ "RtfCompressed" \notin Names /\ "PowerPoint Document" \notin Names
    /\ "WordDocument" \notin Names /\ "0Table" \notin Names /\ "1Table" \notin Names
    /\ "IgnoredProperty" \notin Names /\ "IgnoredStream" \notin Names /\ "storage" \notin Names
BY NamesAssumption DEF Sender, SenderAt, Recipient, RecipientAt

LEMMA TableNames ==
    /\ TableName[1] = "0Table" /\ TableName[2] = "1Table"
    /\ \A t \in 0..1 : \/ (t = 0 /\ TableName[t + 1] = "0Table")
                       \/ (t = 1 /\ TableName[t + 1] = "1Table")
<1>1. TableName[1] = "0Table" /\ TableName[2] = "1Table"
  BY DEF TableName
<1>2. ASSUME NEW t \in 0..1
      PROVE  \/ t = 0 /\ TableName[t + 1] = "0Table"
             \/ t = 1 /\ TableName[t + 1] = "1Table"
  <2>1. CASE t = 0
    BY <1>1, <2>1
  <2>2. CASE t = 1
    BY <1>1, <2>2
  <2> QED BY <2>1, <2>2
<1>3. \A t \in 0..1 : \/ t = 0 /\ TableName[t + 1] = "0Table"
                      \/ t = 1 /\ TableName[t + 1] = "1Table"
  BY <1>2
<1> QED BY <1>1, <1>3

\* What Meet says of the items.
Entered(x, name, status, content, pieces) ==
    /\ x \in Item
    /\ x.name = name /\ x.status = status /\ x.content = content /\ x.pieces = pieces
    /\ items' = Append(items, x)
    /\ x.name # "storage" => \A i \in DOMAIN items : items[i].name # x.name

LEMMA Meets ==
    ASSUME NEW name, NEW status, NEW content, NEW pieces,
           name \in ItemName, status \in Status, content \in Content, pieces \in Seq(Piece),
           Meet(name, status, content, pieces)
    PROVE  \E x : Entered(x, name, status, content, pieces)
<1> DEFINE x == [name |-> name, status |-> status, content |-> content, pieces |-> pieces]
<1>1. x \in Item
  BY DEF Item
<1>2. items' = Append(items, x)
  BY DEF Meet
<1>3. x.name # "storage" => \A i \in DOMAIN items : items[i].name # x.name
  BY DEF Meet
<1>4. x.name = name /\ x.status = status /\ x.content = content /\ x.pieces = pieces
  OBVIOUS
<1>5. Entered(x, name, status, content, pieces)
  BY <1>1, <1>2, <1>3, <1>4, Zenon DEF Entered
<1> HIDE DEF x
<1> QED BY <1>5

LEMMA NoPieces == <<>> \in Seq(Piece)
OBVIOUS

\* A table that is empty, or not met, is none.
LEMMA NoTableYet ==
    ASSUME DataInv, NEW t \in 0..1, \A i \in DOMAIN items : items[i].name # TableName[t + 1]
    PROVE  tables[t] = <<>>
BY DEF DataInv, TablesKept

LEMMA SkipStep ==
    ASSUME DataInv, NEW name \in ItemName \ {"storage"}, NEW status \in Status,
           status = "read" => name \in {"IgnoredProperty", "IgnoredStream"}, Skip(name, status)
    PROVE  DataInv'
<1>0. PICK x : Entered(x, name, status, "skipped", <<>>)
  <2>1. Meet(name, status, "skipped", <<>>) /\ <<>> \in Seq(Piece) /\ "skipped" \in Content
    BY NoPieces DEF Skip, Content
  <2> QED BY <2>1, Meets
<1>1. /\ x \in Item
      /\ x.name = name /\ x.status = status /\ x.content = "skipped" /\ x.pieces = <<>>
      /\ items' = Append(items, x)
      /\ x.name # "storage" => \A i \in DOMAIN items : items[i].name # x.name
  BY <1>0, Zenon DEF Entered
<1>2. type' = TypeAfter(name) /\ UNCHANGED <<message, word, tables>>
  BY DEF Skip
<1>3. \A f : ~TellsField(x, f)
  BY <1>1, OtherNames DEF TellsField
<1>4. ~ValidWord(x) /\ ~(x.name = "Subject" /\ x.status = "read") /\ x.content # "property"
  BY <1>1 DEF ValidWord
<1>5. message \in [Fields -> Value] /\ tables \in [0..1 -> Seq(Piece)]
  BY DEF DataInv, RootTypes
<1>6. ASSUME NEW t \in 0..1
      PROVE  tables'[t] = IF x.name = TableName[t + 1] THEN x.pieces ELSE tables[t]
  <2>1. CASE x.name = TableName[t + 1]
    <3>1. TableName[t + 1] # "storage"
      BY DEF TableName
    <3>2. \A i \in DOMAIN items : items[i].name # TableName[t + 1]
      BY <1>1, <2>1, <3>1
    <3> QED BY <1>1, <1>2, <2>1, <3>2, NoTableYet
  <2> QED BY <1>2, <2>1
<1>7. Effect(x)
  BY <1>1, <1>2, <1>3, <1>4, <1>5, <1>6 DEF Effect
<1> QED BY <1>1, <1>7, DataStep

LEMMA ReadPropertyStep ==
    ASSUME DataInv, NEW name \in Names, NEW blank \in BOOLEAN, ReadProperty(name, blank)
    PROVE  DataInv'
<1> DEFINE c == IF blank THEN "blank" ELSE "property"
<1>0. PICK x : Entered(x, name, "read", c, <<>>)
  <2>1. /\ Meet(name, "read", c, <<>>) /\ <<>> \in Seq(Piece) /\ c \in Content
        /\ name \in ItemName /\ "read" \in Status
    BY NoPieces DEF ReadProperty, ItemName, Status, Content
  <2> QED BY <2>1, Meets
<1>1. /\ x \in Item
      /\ x.name = name /\ x.status = "read" /\ x.content = c /\ x.pieces = <<>>
      /\ items' = Append(items, x)
      /\ x.name # "storage" => \A i \in DOMAIN items : items[i].name # x.name
  BY <1>0, Zenon DEF Entered
<1>2. /\ type' = TypeAfter(name) /\ UNCHANGED <<word, tables>>
      /\ message' = IF name = "NormalizedSubject" => message.subject = ""
                    THEN [message EXCEPT ![Field(name)] = IF blank THEN "" ELSE name]
                    ELSE message
  BY DEF ReadProperty, Takes
<1>3. message \in [Fields -> Value] /\ tables \in [0..1 -> Seq(Piece)]
  BY DEF DataInv, RootTypes
<1>4. /\ name # "WordDocument" /\ name # "0Table" /\ name # "1Table" /\ name # "storage"
      /\ name \in Value /\ "" \in Value
  BY OtherNames DEF Value
<1>5. ~ValidWord(x)
  BY <1>1, <1>4 DEF ValidWord
<1>6. \A f : TellsField(x, f) <=> f = Field(name)
  BY <1>1, <1>4 DEF TellsField
<1>7. ShownBy(x) = IF blank THEN "" ELSE name
  BY <1>1, <1>4 DEF ShownBy
<1>8. /\ Field(name) \in Fields \ {"rtf"} /\ "rtf" \in Fields /\ "subject" \in Fields
      /\ Field(name) = "subject" <=> name = "Subject" \/ name = "NormalizedSubject"
  BY FieldType, SubjectField DEF Fields
<1>9. message' \in [Fields -> Value] /\ message'.rtf = message.rtf
  BY <1>2, <1>3, <1>4, <1>8
<1>10. message'.subject = IF x.name = "Subject" /\ x.status = "read"
                          THEN IF x.content = "property" THEN "Subject" ELSE ""
                          ELSE IF /\ x.name = "NormalizedSubject" /\ x.content = "property"
                                  /\ message.subject = ""
                          THEN "NormalizedSubject" ELSE message.subject
  BY <1>1, <1>2, <1>3, <1>8
<1>11. ASSUME NEW f \in Fields \ {"subject", "rtf"}
       PROVE  message'[f] = IF TellsField(x, f) THEN ShownBy(x) ELSE message[f]
  <2>1. CASE f = Field(name)
    <3>1. ~(name = "NormalizedSubject")
      BY <1>8, <2>1
    <3> QED BY <1>2, <1>3, <1>6, <1>7, <1>8, <2>1, <3>1
  <2>2. CASE f # Field(name)
    BY <1>2, <1>3, <1>6, <2>2
  <2> QED BY <2>1, <2>2
<1>12. \A t \in 0..1 : tables'[t] = IF x.name = TableName[t + 1] THEN x.pieces ELSE tables[t]
  BY <1>1, <1>2, <1>4, TableNames
<1>13. Effect(x)
  BY <1>1, <1>2, <1>3, <1>5, <1>9, <1>10, <1>11, <1>12 DEF Effect
<1> QED BY <1>1, <1>13, DataStep

LEMMA ReadWordStep ==
    ASSUME DataInv, NEW valid \in BOOLEAN, NEW which \in 0..1, ReadWord(valid, which)
    PROVE  DataInv'
<1>0. PICK x : Entered(x, "WordDocument", "read", IF valid THEN TableName[which + 1] ELSE "", <<>>)
  <2> DEFINE c == IF valid THEN TableName[which + 1] ELSE ""
  <2>1. c \in Content
    BY TableNames DEF Content
  <2>2. /\ Meet("WordDocument", "read", c, <<>>)
        /\ <<>> \in Seq(Piece) /\ "WordDocument" \in ItemName /\ "read" \in Status
    BY NoPieces DEF ReadWord, ItemName, Status
  <2> HIDE DEF c
  <2>3. \E x : Entered(x, "WordDocument", "read", c, <<>>)
    BY <2>1, <2>2, Meets
  <2> QED BY <2>3 DEF c
<1>1. /\ x \in Item
      /\ x.name = "WordDocument" /\ x.status = "read" /\ x.pieces = <<>>
      /\ x.content = IF valid THEN TableName[which + 1] ELSE ""
      /\ items' = Append(items, x)
      /\ x.name # "storage" => \A i \in DOMAIN items : items[i].name # x.name
  BY <1>0, Zenon DEF Entered
<1>2. /\ type' = IF valid THEN "doc" ELSE type
      /\ word' = IF valid THEN which ELSE word
      /\ UNCHANGED <<message, tables>>
  BY DEF ReadWord
<1>3. message \in [Fields -> Value] /\ tables \in [0..1 -> Seq(Piece)]
  BY DEF DataInv, RootTypes
<1>4. \A f : ~TellsField(x, f)
  BY <1>1, OtherNames DEF TellsField
<1>5. ValidWord(x) <=> valid
  BY <1>1, TableNames DEF ValidWord
<1>6. TypeAfter(x.name) = type
  BY <1>1, OtherNames DEF TypeAfter, IsMessage
<1>7. \A t \in 0..1 : tables'[t] = IF x.name = TableName[t + 1] THEN x.pieces ELSE tables[t]
  BY <1>1, <1>2, TableNames
<1>8. x.content # "decoded" /\ x.content # "property"
  BY <1>1, TableNames
<1>9. valid => x.content = TableName[word' + 1] /\ word' \in 0..1
  BY <1>1, <1>2
<1>10. Effect(x)
  BY <1>1, <1>2, <1>3, <1>4, <1>5, <1>6, <1>7, <1>8, <1>9 DEF Effect
<1> QED BY <1>1, <1>10, DataStep

LEMMA ReadTableStep ==
    ASSUME DataInv, NEW which \in 0..1, NEW pieces \in Seq(Piece), ReadTable(which, pieces)
    PROVE  DataInv'
<1> DEFINE name == TableName[which + 1]
<1>0. PICK status \in {"read", "unreadable"}, x \in Item :
         Entered(x, name, status, "table", pieces)
  <2>1. PICK status \in {"read", "unreadable"} : Meet(name, status, "table", pieces)
    BY DEF ReadTable
  <2>2. name \in ItemName /\ "table" \in Content /\ status \in Status
    BY TableNames DEF ItemName, Content, Status
  <2> HIDE DEF name
  <2>3. PICK x : Entered(x, name, status, "table", pieces)
    BY <2>1, <2>2, Meets
  <2>4. x \in Item
    BY <2>3, Zenon DEF Entered
  <2> QED BY <2>3, <2>4
<1>1. /\ x \in Item
      /\ x.name = name /\ x.status = status /\ x.content = "table" /\ x.pieces = pieces
      /\ items' = Append(items, x)
      /\ x.name # "storage" => \A i \in DOMAIN items : items[i].name # x.name
  BY <1>0, Zenon DEF Entered
<1>2. /\ tables' = [tables EXCEPT ![which] = pieces]
      /\ UNCHANGED <<message, word, type>>
  BY DEF ReadTable
<1>3. message \in [Fields -> Value] /\ tables \in [0..1 -> Seq(Piece)]
  BY DEF DataInv, RootTypes
<1>4. name \in {"0Table", "1Table"}
  BY TableNames
<1>5. \A f : ~TellsField(x, f)
  BY <1>1, <1>4, OtherNames DEF TellsField
<1>6. ~ValidWord(x)
  BY <1>1, <1>4 DEF ValidWord
<1>7. TypeAfter(x.name) = type
  BY <1>1, <1>4, OtherNames DEF TypeAfter, IsMessage
<1>8. \A t \in 0..1 : tables'[t] = IF x.name = TableName[t + 1] THEN x.pieces ELSE tables[t]
  <2>1. \A t \in 0..1 : TableName[t + 1] = name <=> t = which
    BY TableNames
  <2> HIDE DEF name
  <2> QED BY <1>1, <1>2, <1>3, <2>1
<1>9. tables' \in [0..1 -> Seq(Piece)]
  BY <1>2, <1>3
<1>10. Effect(x)
  BY <1>1, <1>2, <1>3, <1>4, <1>5, <1>6, <1>7, <1>8, <1>9 DEF Effect
<1> QED BY <1>1, <1>10, DataStep

LEMMA ReadStorageStep ==
    ASSUME DataInv, NEW named \in {"", "Recipient", "Attachment"}, ReadStorage(named)
    PROVE  DataInv'
<1>0. PICK x : Entered(x, "storage", "empty", named, <<>>)
  <2>1. /\ Meet("storage", "empty", named, <<>>) /\ <<>> \in Seq(Piece) /\ named \in Content
        /\ "storage" \in ItemName /\ "empty" \in Status
    BY NoPieces DEF ReadStorage, ItemName, Status, Content
  <2> QED BY <2>1, Meets
<1>1. /\ x \in Item
      /\ x.name = "storage" /\ x.status = "empty" /\ x.content = named /\ x.pieces = <<>>
      /\ items' = Append(items, x)
      /\ x.name # "storage" => \A i \in DOMAIN items : items[i].name # x.name
  BY <1>0, Zenon DEF Entered
<1>2. /\ message' = IF named = "" THEN message ELSE [message EXCEPT !.recipient = named]
      /\ UNCHANGED <<type, word, tables>>
  BY DEF ReadStorage
<1>3. message \in [Fields -> Value] /\ tables \in [0..1 -> Seq(Piece)]
  BY DEF DataInv, RootTypes
<1>4. \A f : TellsField(x, f) <=> f = "recipient" /\ named # ""
  BY <1>1, OtherNames DEF TellsField
<1>5. ShownBy(x) = named /\ ~ValidWord(x) /\ x.content # "decoded"
  BY <1>1 DEF ShownBy, ValidWord
<1>6. TypeAfter(x.name) = type
  BY <1>1, OtherNames DEF TypeAfter, IsMessage
<1>7. \A t \in 0..1 : tables'[t] = IF x.name = TableName[t + 1] THEN x.pieces ELSE tables[t]
  BY <1>1, <1>2, TableNames
<1>8. message' \in [Fields -> Value] /\ message'.rtf = message.rtf /\ message'.subject = message.subject
  <2>1. "recipient" \in Fields /\ "rtf" \in Fields /\ "subject" \in Fields /\ named \in Value
    BY DEF Fields, Value
  <2> QED BY <1>2, <1>3, <2>1
<1>9. \A f \in Fields \ {"subject", "rtf"} :
         message'[f] = IF TellsField(x, f) THEN ShownBy(x) ELSE message[f]
  BY <1>2, <1>3, <1>4, <1>5
<1>10. Effect(x)
  BY <1>1, <1>2, <1>3, <1>5, <1>6, <1>7, <1>8, <1>9 DEF Effect
<1> QED BY <1>1, <1>10, DataStep

\* A stream that is decoded step by step is met.
LEMMA DecodedStep ==
    ASSUME DataInv, NEW name \in {"PowerPoint Document", "RtfCompressed"}, NEW content \in {"slides", "lost"},
           Meet(name, "read", content, <<>>), type' = TypeAfter(name),
           UNCHANGED <<message, word, tables>>
    PROVE  DataInv' /\ \E x : Entered(x, name, "read", content, <<>>)
<1>0. PICK x : Entered(x, name, "read", content, <<>>)
  <2>1. <<>> \in Seq(Piece) /\ name \in ItemName /\ "read" \in Status /\ content \in Content
    BY NoPieces DEF ItemName, Status, Content
  <2> QED BY <2>1, Meets
<1>1. /\ x \in Item
      /\ x.name = name /\ x.status = "read" /\ x.content = content /\ x.pieces = <<>>
      /\ items' = Append(items, x)
      /\ x.name # "storage" => \A i \in DOMAIN items : items[i].name # x.name
  BY <1>0, Zenon DEF Entered
<1>2. message \in [Fields -> Value] /\ tables \in [0..1 -> Seq(Piece)]
  BY DEF DataInv, RootTypes
<1>3. \A f : ~TellsField(x, f)
  BY <1>1, OtherNames DEF TellsField
<1>4. ~ValidWord(x) /\ x.content # "decoded"
  BY <1>1 DEF ValidWord
<1>5. \A t \in 0..1 : tables'[t] = IF x.name = TableName[t + 1] THEN x.pieces ELSE tables[t]
  BY <1>1, TableNames
<1>6. Effect(x)
  BY <1>1, <1>2, <1>3, <1>4, <1>5 DEF Effect
<1> QED BY <1>0, <1>1, <1>6, DataStep

\* What was decoded is written into the last item.
LEMMA DecodedFacts ==
    ASSUME items \in Seq(Item), items # <<>>, items[Len(items)].name = "RtfCompressed",
           NEW c \in Content, items' = [items EXCEPT ![Len(items)].content = c]
    PROVE  /\ items' \in Seq(Item) /\ DOMAIN items' = DOMAIN items
           /\ Len(items) \in DOMAIN items /\ items'[Len(items)].content = c
           /\ \A i \in DOMAIN items :
                 /\ items'[i].name = items[i].name /\ items'[i].status = items[i].status
                 /\ items'[i].pieces = items[i].pieces
                 /\ items[i].name # "RtfCompressed" => items'[i].content = items[i].content
<1> DEFINE n == Len(items)
<1>1. n \in 1..n /\ DOMAIN items = 1..n /\ \A i \in 1..n : items[i] \in Item
  <2>1. n > 0
    BY EmptySeq
  <2> QED BY <2>1
<1>2. DOMAIN items' = 1..n /\ Len(items') = n
  BY <1>1
<1>3. ASSUME NEW i \in 1..n
      PROVE  /\ items'[i] = IF i = n THEN [items[i] EXCEPT !.content = c] ELSE items[i]
             /\ items'[i] \in Item
  BY <1>1 DEF Item
<1>4. ASSUME NEW i \in 1..n
      PROVE  /\ items'[i].name = items[i].name /\ items'[i].status = items[i].status
             /\ items'[i].pieces = items[i].pieces
             /\ items[i].name # "RtfCompressed" => items'[i].content = items[i].content
  BY <1>1, <1>3 DEF Item
<1>5. items' \in Seq(Item)
  BY <1>1, <1>2, <1>3
<1>6. items'[n].content = c
  BY <1>1, <1>3 DEF Item
<1> QED BY <1>1, <1>2, <1>4, <1>5, <1>6

LEMMA ReturnRtfStep ==
    ASSUME DataInv, StageInv, ReturnRtf
    PROVE  DataInv'
<1>1. /\ items # <<>> /\ items[Len(items)].name = "RtfCompressed"
      /\ items[Len(items)].content = "lost"
      /\ UNCHANGED <<type, word, tables>>
  BY DEF StageInv, ReturnRtf
<1>2. PICK c \in {"decoded", "lost"} :
        /\ items' = [items EXCEPT ![Len(items)].content = c]
        /\ message' = IF c = "decoded" THEN [message EXCEPT !.rtf = "RtfCompressed"] ELSE message
  BY DEF ReturnRtf
<1>3. items \in Seq(Item) /\ message \in [Fields -> Value]
  BY DEF DataInv, RootTypes
<1>4. /\ items' \in Seq(Item) /\ DOMAIN items' = DOMAIN items
      /\ Len(items) \in DOMAIN items /\ items'[Len(items)].content = c
      /\ \A i \in DOMAIN items :
            /\ items'[i].name = items[i].name /\ items'[i].status = items[i].status
            /\ items'[i].pieces = items[i].pieces
            /\ items[i].name # "RtfCompressed" => items'[i].content = items[i].content
  BY <1>1, <1>2, <1>3, DecodedFacts DEF Content
<1>5. /\ Given("Subject")' = Given("Subject")
      /\ Given("NormalizedSubject")' = Given("NormalizedSubject")
      /\ SubjectsRead' = SubjectsRead
  BY <1>4 DEF Given, SubjectsRead
<1>6. \A f \in Fields \ {"rtf"} : message'[f] = message[f]
  BY <1>2, <1>3
<1>7. Subjects'
  <2>1. "subject" \in Fields \ {"rtf"}
    BY DEF Fields
  <2>2. message'.subject = message.subject
    BY <1>6, <2>1
  <2> QED BY <1>5, <2>2 DEF DataInv, Subjects
<1>8. RtfKept'
  <2>1. CASE c = "decoded"
    <3>1. message'.rtf = "RtfCompressed"
      <4>1. "rtf" \in Fields
        BY DEF Fields
      <4> QED BY <1>2, <1>3, <2>1, <4>1
    <3> QED BY <1>4, <2>1, <3>1 DEF RtfKept
  <2>2. CASE c = "lost"
    <3>1. message' = message
      BY <1>2, <2>2
    <3>2. \A i \in DOMAIN items : items'[i].content = items[i].content
      BY <1>1, <1>2, <1>3, <2>2
    <3> QED BY <1>4, <3>1, <3>2 DEF DataInv, RtfKept
  <2> QED BY <2>1, <2>2
<1>9. FieldsKept'
  <2>1. ASSUME NEW f \in Fields \ {"subject", "rtf"} PROVE message'[f] = LastFor(f)'
    <3>1. ASSUME NEW i \in DOMAIN items
          PROVE  TellsField(items'[i], f) <=> TellsField(items[i], f)
      BY <1>4 DEF TellsField
    <3>2. For(f)' = For(f)
      BY <1>4, <3>1 DEF For, TellsField
    <3>3. For(f) \subseteq DOMAIN items /\ \A i \in For(f) : ShownBy(items'[i]) = ShownBy(items[i])
      <4>1. ASSUME NEW i \in For(f)
            PROVE  i \in DOMAIN items /\ items[i].name # "RtfCompressed"
        BY OtherNames DEF For
      <4> QED BY <1>4, <4>1 DEF ShownBy
    <3>4. For(f) # {} => Max(For(f)) \in For(f)
      <4>1. For(f) \in SUBSET (1..Len(items)) /\ Len(items) \in Nat
        BY <1>3, <3>3
      <4> QED BY <4>1, MaxIn
    <3>5. LastFor(f)' = LastFor(f)
      <4>1. LastFor(f)' = IF For(f)' = {} THEN "" ELSE ShownBy(items'[Max(For(f)')])
        BY DEF LastFor, ShownBy
      <4> QED BY <3>2, <3>3, <3>4, <4>1 DEF LastFor
    <3> QED BY <1>6, <3>5 DEF DataInv, FieldsKept
  <2> QED BY <2>1 DEF FieldsKept
<1>10. TypeKept'
  <2>1. \A i \in DOMAIN items :
           /\ ValidWord(items'[i]) <=> ValidWord(items[i])
           /\ ValidWord(items[i]) => items'[i].content = items[i].content
    BY <1>4 DEF ValidWord
  <2>2. Telling' = Telling /\ Telling \subseteq DOMAIN items
    BY <1>4 DEF Telling, IsMessage
  <2>3. Telling # {} => Min(Telling) \in Telling
    <3>1. Telling \in SUBSET (1..Len(items)) /\ Len(items) \in Nat
      BY <1>3, <2>2
    <3> QED BY <3>1, MinIn
  <2>4. FirstTelling' = FirstTelling
    BY <1>4, <2>2, <2>3 DEF FirstTelling, IsMessage
  <2>5. \A i : ValidWord(items'[i]) <=> ValidWord(items[i])'
    BY DEF ValidWord
  <2>6. /\ \A i \in DOMAIN items : ValidWord(items[i])
              => word # -1 /\ items[i].content = TableName[word + 1]
        /\ (\A i \in DOMAIN items : ~ValidWord(items[i])) => word = -1 /\ type = FirstTelling
    BY DEF DataInv, TypeKept
  <2>7. /\ \A i \in DOMAIN items' : ValidWord(items'[i])
              => word' # -1 /\ items'[i].content = TableName[word' + 1]
        /\ (\A i \in DOMAIN items' : ~ValidWord(items'[i]))
              => word' = -1 /\ type' = FirstTelling'
    <3>0. word' = word /\ type' = type
      BY <1>1
    <3>1. ASSUME NEW i \in DOMAIN items, ValidWord(items'[i])
          PROVE  word' # -1 /\ items'[i].content = TableName[word' + 1]
      BY <3>0, <2>1, <2>6, <3>1, Zenon
    <3>2. ASSUME \A i \in DOMAIN items : ~ValidWord(items'[i])
          PROVE  word' = -1 /\ type' = FirstTelling'
      BY <3>0, <2>1, <2>4, <2>6, <3>2, Zenon
    <3> QED BY <1>4, <3>1, <3>2, Zenon
  <2> QED BY <2>5, <2>7 DEF TypeKept, TableName
<1>11. TablesKept'
  BY <1>1, <1>4 DEF DataInv, TablesKept, TableName
<1>12. RootTypes'
  <2>1. message' \in [Fields -> Value]
    BY <1>2, <1>3 DEF Value
  <2>2. \A i, j \in DOMAIN items' : i # j /\ items'[i].name = items'[j].name
                                  => items'[i].name = "storage"
    <3>1. \A i, j \in DOMAIN items : i # j /\ items[i].name = items[j].name
                                  => items[i].name = "storage"
      BY DEF DataInv, RootTypes
    <3> QED BY <1>4, <3>1
  <2> QED BY <1>1, <1>4, <2>1, <2>2 DEF DataInv, RootTypes
<1> QED BY <1>7, <1>8, <1>9, <1>10, <1>11, <1>12 DEF DataInv

\* Nothing is met.
LEMMA DataAlike ==
    ASSUME DataInv, UNCHANGED <<items, type, message, word, tables>>
    PROVE  DataInv'
<1>1. RootTypes' /\ RtfKept' /\ TablesKept'
  BY DEF DataInv, RootTypes, RtfKept, TablesKept, TableName
<1>4. Subjects'
  <2>1. /\ Given("Subject")' = Given("Subject") /\ SubjectsRead' = SubjectsRead
        /\ Given("NormalizedSubject")' = Given("NormalizedSubject")
    BY DEF Given, SubjectsRead
  <2> QED BY <2>1 DEF DataInv, Subjects
<1>2. FieldsKept'
  <2>1. \A f : LastFor(f)' = LastFor(f)
    BY DEF LastFor, For, ShownBy
  <2> QED BY <2>1 DEF DataInv, FieldsKept
<1>3. TypeKept'
  <2>1. FirstTelling' = FirstTelling
    BY DEF FirstTelling, Telling, IsMessage
  <2> QED BY <2>1 DEF DataInv, TypeKept, ValidWord, TableName
<1> QED BY <1>1, <1>2, <1>3, <1>4 DEF DataInv

\* The places of the inner pieces of a table, up to one.
InnerUpTo(t, k) == { j \in 1..k : t[j] = "inside" }

LEMMA InsideFacts ==
    ASSUME NEW which \in 0..1, NEW t, t = tables[which], t \in Seq(Piece),
           NEW table, table = TableName[which + 1]
    PROVE  /\ InsidePieces(which) \in Seq({table} \X Nat)
           /\ Shows(InsidePieces(which), <<0, table>>, InnerUpTo(t, Len(t)))
<1> DEFINE n == Len(t)
           V == Seq({table} \X Nat)
           More(k, before) == IF t[k] = "inside" THEN Append(before, <<table, k>>) ELSE before
           step == [kv \in (1..n) \X V |-> More(kv[1], kv[2])]
           Steps(g) == [k \in 0..n |-> IF k = 0 THEN <<>> ELSE More(k, g[k - 1])]
           first == CHOOSE g : g = Steps(g)
<1>1. n \in Nat /\ <<>> \in V
  OBVIOUS
<1>2. ASSUME NEW k \in 1..n, NEW b \in V PROVE More(k, b) \in V
  <2>1. <<table, k>> \in {table} \X Nat
    BY <1>1
  <2> QED BY <2>1
<1>3. IsStep(step, n, V)
  <2> HIDE DEF V, n, More
  <2>1. \A kv \in (1..n) \X V : More(kv[1], kv[2]) \in V
    BY <1>2
  <2> QED BY <2>1 DEF IsStep
<1>4. PICK g : StepsThrough(g, n, V, <<>>, step)
  <2> HIDE DEF step, n, V
  <2> QED BY <1>1, <1>3, StepByStep
<1>5. /\ g \in [0..n -> V] /\ g[0] = <<>>
      /\ \A k \in 1..n : g[k] = step[<<k, g[k - 1]>>]
  BY <1>4, Zenon DEF StepsThrough
<1>6. ASSUME NEW k \in 1..n PROVE g[k] = More(k, g[k - 1])
  <2> HIDE DEF V, More, step
  <2>1. k - 1 \in 0..n
    BY <1>1
  <2>2. g[k - 1] \in V
    BY <1>5, <2>1
  <2> USE DEF step
  <2>3. step[<<k, g[k - 1]>>] = More(k, g[k - 1])
    BY <2>2
  <2> QED BY <1>5, <2>3
<1>7. g = Steps(g)
  <2> HIDE DEF V, More
  <2>1. \A k \in 0..n : k = 0 \/ k \in 1..n
    OBVIOUS
  <2> QED BY <1>5, <1>6, <2>1
<1>8. first = Steps(first)
  <2> HIDE DEF Steps
  <2> QED BY <1>7, Zenon
<1>9. InsidePieces(which) = first[n]
  BY Zenon DEF InsidePieces
<1> HIDE DEF first
<1>10. first[0] = <<>>
  BY <1>8
<1>11. ASSUME NEW k \in 1..n PROVE first[k] = More(k, first[k - 1])
  <2> HIDE DEF More
  <2>1. k \in 0..n /\ k # 0
    OBVIOUS
  <2>2. first[k] = Steps(first)[k]
    BY <1>8, Zenon
  <2> QED BY <2>1, <2>2
<1> DEFINE Holds(k) == first[k] \in V /\ Shows(first[k], <<0, table>>, InnerUpTo(t, k))
<1>12. Holds(0)
  BY <1>10 DEF Shows, InnerUpTo, ToSet
<1>13. ASSUME NEW k \in 1..n, Holds(k - 1) PROVE Holds(k)
  <2>1. first[k - 1] \in V /\ Shows(first[k - 1], <<0, table>>, InnerUpTo(t, k - 1))
    BY <1>13
  <2>2. CASE t[k] = "inside"
    <3>1. InnerUpTo(t, k) = InnerUpTo(t, k - 1) \cup {k}
      BY <1>1, <2>2 DEF InnerUpTo
    <3>2. \A j \in InnerUpTo(t, k - 1) : j < k
      BY <1>1 DEF InnerUpTo
    <3>3. first[k] = Append(first[k - 1], <<table, k>>)
      BY <1>11, <2>2
    <3> DEFINE p == <<0, table>>
    <3>4. p[2] = table /\ table \in {table} /\ k \in Nat
      BY <1>1
    <3> HIDE DEF p, n
    <3>5. /\ Append(first[k - 1], <<p[2], k>>) \in Seq({table} \X Nat)
          /\ Shows(Append(first[k - 1], <<p[2], k>>), p, InnerUpTo(t, k - 1) \cup {k})
      <4>1. Shows(first[k - 1], p, InnerUpTo(t, k - 1)) /\ first[k - 1] \in Seq({table} \X Nat)
        BY <2>1 DEF p
      <4>2. p[2] \in {table} /\ k \in Nat
        BY <3>4
      <4> DEFINE texts == first[k - 1]
                 at == InnerUpTo(t, k - 1)
                 A == {table}
      <4>3. texts \in Seq(A \X Nat) /\ p[2] \in A /\ Shows(texts, p, at) /\ \A j \in at : j < k
        BY <3>2, <4>1, <4>2
      <4> HIDE DEF texts, at, A
      <4>4. /\ Append(texts, <<p[2], k>>) \in Seq(A \X Nat)
            /\ Shows(Append(texts, <<p[2], k>>), p, at \cup {k})
        BY <4>2, <4>3, AppendShows
      <4> QED BY <4>4 DEF texts, at, A
    <3> QED BY <3>1, <3>3, <3>4, <3>5 DEF p
  <2>3. CASE t[k] # "inside"
    <3>1. InnerUpTo(t, k) = InnerUpTo(t, k - 1)
      BY <1>1, <2>3 DEF InnerUpTo
    <3>2. first[k] = first[k - 1]
      BY <1>11, <2>3
    <3> QED BY <2>1, <3>1, <3>2
  <2> QED BY <2>2, <2>3
<1> HIDE DEF Holds
<1>14. Holds(n)
  <2> DEFINE S == { k \in 0..n : Holds(k) }
  <2>1. 0 \in S /\ \A k \in 1..n : k - 1 \in S => k \in S
    BY <1>1, <1>12, <1>13
  <2> HIDE DEF S
  <2>2. \A k \in 0..n : k \in S
    BY <1>1, <2>1, UpTo
  <2> QED BY <1>1, <2>2 DEF S
<1> QED BY <1>9, <1>14 DEF Holds

-----------------------------------------------------------------------------
\* process_root: the invariant holds.

\* A stream is read at once.
LEMMA StageMet ==
    ASSUME StageInv, rootStage = "items", UNCHANGED <<rootStage, text, rtfStage, pptStage>>
    PROVE  StageInv'
BY DEF StageInv

\* No decoder is touched.
LEMMA DecodersAlike ==
    ASSUME RtfInv, PptInv, UNCHANGED <<rtfVars, pptVars>>
    PROVE  RtfInv' /\ PptInv'
<1>1. [CallRtf \/ RtfNext]_rtfVars /\ [CallPpt \/ PptNext]_pptVars
  OBVIOUS
<1> QED BY <1>1, RtfStep, PptStep

\* The last item is the one just met.
LEMMA LastMet ==
    ASSUME items \in Seq(Item), NEW x, NEW name, NEW status, NEW content, NEW pieces,
           Entered(x, name, status, content, pieces)
    PROVE  /\ items' # <<>> /\ items'[Len(items')].name = name
           /\ items'[Len(items')].content = content
<1>1. x \in Item /\ x.name = name /\ x.content = content /\ items' = Append(items, x)
  BY Zenon DEF Entered
<1> QED BY <1>1

LEMMA ReadSlidesStep == ASSUME RootInv, ReadSlides PROVE RootInv'
<1>1. /\ Meet("PowerPoint Document", "read", "slides", <<>>)
      /\ type' = TypeAfter("PowerPoint Document")
      /\ rootStage' = "ppt" /\ CallPpt
      /\ UNCHANGED <<message, word, tables, text, rtfVars>>
  BY DEF ReadSlides
<1>2. DataInv'
  BY <1>1, DecodedStep DEF RootInv
<1>3. StageInv'
  BY <1>1 DEF RootInv, StageInv, CallPpt, Meet, rtfVars
<1>4. RtfInv' /\ PptInv'
  <2>1. [CallRtf \/ RtfNext]_rtfVars /\ [CallPpt \/ PptNext]_pptVars
    BY <1>1
  <2> QED BY <2>1, RtfStep, PptStep DEF RootInv
<1> QED BY <1>2, <1>3, <1>4 DEF RootInv

LEMMA ReadRtfStep == ASSUME RootInv, ReadRtf PROVE RootInv'
<1>1. /\ Meet("RtfCompressed", "read", "lost", <<>>)
      /\ type' = TypeAfter("RtfCompressed")
      /\ rootStage' = "rtf" /\ CallRtf
      /\ UNCHANGED <<message, word, tables, text, pptVars>>
  BY DEF ReadRtf
<1>2. DataInv' /\ \E x : Entered(x, "RtfCompressed", "read", "lost", <<>>)
  BY <1>1, DecodedStep DEF RootInv
<1>3. /\ items' # <<>> /\ items'[Len(items')].name = "RtfCompressed"
      /\ items'[Len(items')].content = "lost"
  BY <1>2, LastMet DEF RootInv, DataInv, RootTypes
<1>4. StageInv'
  BY <1>1, <1>3 DEF RootInv, StageInv, CallRtf, Meet, pptVars
<1>5. RtfInv' /\ PptInv'
  <2>1. [CallRtf \/ RtfNext]_rtfVars /\ [CallPpt \/ PptNext]_pptVars
    BY <1>1
  <2> QED BY <2>1, RtfStep, PptStep DEF RootInv
<1> QED BY <1>2, <1>4, <1>5 DEF RootInv

LEMMA StepPptStep == ASSUME RootInv, StepPpt PROVE RootInv'
<1>1. rootStage = "ppt" /\ PptNext /\ UNCHANGED <<rootVars, rtfVars>>
  BY DEF StepPpt
<1>2. DataInv'
  BY <1>1, DataAlike DEF RootInv, rootVars
<1>3. StageInv'
  BY <1>1 DEF RootInv, StageInv, rootVars, rtfVars
<1>4. RtfInv' /\ PptInv'
  <2>1. [CallRtf \/ RtfNext]_rtfVars /\ [CallPpt \/ PptNext]_pptVars
    BY <1>1
  <2> QED BY <2>1, RtfStep, PptStep DEF RootInv
<1> QED BY <1>2, <1>3, <1>4 DEF RootInv

LEMMA StepRtfStep == ASSUME RootInv, StepRtf PROVE RootInv'
<1>1. rootStage = "rtf" /\ RtfNext /\ UNCHANGED <<rootVars, pptVars>>
  BY DEF StepRtf
<1>2. DataInv'
  BY <1>1, DataAlike DEF RootInv, rootVars
<1>3. rtfStage' # "off"
  <2>1. rtfStage # "off"
    BY <1>1 DEF RootInv, StageInv
  <2> QED BY <1>1, <2>1 DEF RtfNext, LeaveHeader, ReadHeader, ReadControl, EndOfInput, Literal,
                          EndMarker, Reference, CopyByte, CopyFails, AfterItem
<1>4. StageInv'
  BY <1>1, <1>3 DEF RootInv, StageInv, rootVars, pptVars
<1>5. RtfInv' /\ PptInv'
  <2>1. [CallRtf \/ RtfNext]_rtfVars /\ [CallPpt \/ PptNext]_pptVars
    BY <1>1
  <2> QED BY <2>1, RtfStep, PptStep DEF RootInv
<1> QED BY <1>2, <1>4, <1>5 DEF RootInv

LEMMA RtfReturned == ASSUME RootInv, ReturnRtf PROVE RootInv'
<1>1. DataInv'
  BY ReturnRtfStep DEF RootInv
<1>2. /\ rootStage = "rtf" /\ rootStage' = "items"
      /\ rtfStage' = "off" /\ dict' = <<>> /\ readOffset' = 0 /\ writeOffset' = 0
      /\ rtf' = <<>> /\ rawSize' = 0 /\ bit' = 0 /\ left' = 0
      /\ UNCHANGED <<type, word, tables, text, pptVars>>
  BY DEF ReturnRtf
<1>3. StageInv'
  BY <1>2 DEF RootInv, StageInv, pptVars
<1>4. RtfInv'
  BY <1>2, DictAssumption DEF RtfInv, RtfTypeOK, CountInv, WindowIsHistory, Running
<1>5. PptInv'
  <2>1. [CallPpt \/ PptNext]_pptVars
    BY <1>2
  <2> QED BY <2>1, PptStep DEF RootInv
<1> QED BY <1>1, <1>3, <1>4, <1>5 DEF RootInv

\* A decoder is left.
LEMMA DecoderLeft == ASSUME RootInv, ReturnPpt \/ RtfThrows PROVE RootInv'
<1>1. UNCHANGED <<items, type, message, word, tables, text, rtfVars, pptVars>>
  BY DEF ReturnPpt, RtfThrows
<1>2. DataInv'
  BY <1>1, DataAlike DEF RootInv
<1>3. StageInv'
  BY <1>1 DEF RootInv, StageInv, ReturnPpt, RtfThrows, rtfVars, pptVars
<1>4. RtfInv' /\ PptInv'
  BY <1>1, DecodersAlike DEF RootInv
<1> QED BY <1>2, <1>3, <1>4 DEF RootInv

LEMMA EndStep == ASSUME RootInv, EndOfDirectory PROVE RootInv'
<1>1. /\ rootStage = "items" /\ rootStage' = "end"
      /\ text' = IF type = "doc" THEN InsidePieces(word) ELSE text
      /\ UNCHANGED <<items, type, message, word, tables, rtfVars, pptVars>>
  BY DEF EndOfDirectory
<1>2. DataInv'
  BY <1>1, DataAlike DEF RootInv
<1>3. InsidePieces(word)' = InsidePieces(word)
  BY <1>1 DEF InsidePieces, TableName
<1>4. StageInv'
  BY <1>1, <1>3 DEF RootInv, StageInv, rtfVars, pptVars
<1>5. RtfInv' /\ PptInv'
  BY <1>1, DecodersAlike DEF RootInv
<1> QED BY <1>2, <1>4, <1>5 DEF RootInv

\* The streams that are read at once.
ReadAtOnce ==
    \/ \E n \in Names, blank \in BOOLEAN : ReadProperty(n, blank)
    \/ \E n \in Names \cup {"RtfCompressed", "PowerPoint Document", "WordDocument"},
          s \in {"empty", "unreadable"} : Skip(n, s)
    \/ \E which \in 0..1 : Skip(TableName[which + 1], "empty")
    \/ \E n \in {"IgnoredProperty", "IgnoredStream"} : Skip(n, "read")
    \/ \E valid \in BOOLEAN, which \in 0..1 : ReadWord(valid, which)
    \/ \E which \in 0..1, pieces \in SeqOf({"inside", "outside"}, MaxPieces) :
          ReadTable(which, pieces)
    \/ \E named \in {"", "Recipient", "Attachment"} : ReadStorage(named)

LEMMA ReadAtOnceStep == ASSUME RootInv, ReadAtOnce PROVE RootInv'
<1>1. rootStage = "items" /\ UNCHANGED <<rootStage, text, rtfVars, pptVars>>
  BY DEF ReadAtOnce, ReadProperty, Skip, ReadWord, ReadTable, ReadStorage, Meet
<1>2. StageInv'
  BY <1>1, StageMet DEF RootInv, rtfVars, pptVars
<1>3. RtfInv' /\ PptInv'
  BY <1>1, DecodersAlike DEF RootInv
<1>4. DataInv'
  <2>1. DataInv
    BY DEF RootInv
  <2>2. CASE \E n \in Names, blank \in BOOLEAN : ReadProperty(n, blank)
    BY <2>1, <2>2, ReadPropertyStep
  <2>3. CASE \E n \in Names \cup {"RtfCompressed", "PowerPoint Document", "WordDocument"},
                s \in {"empty", "unreadable"} : Skip(n, s)
    <3>1. PICK n \in Names \cup {"RtfCompressed", "PowerPoint Document", "WordDocument"},
               s \in {"empty", "unreadable"} : Skip(n, s)
      BY <2>3
    <3>2. n \in ItemName \ {"storage"} /\ s \in Status /\ s # "read"
      BY OtherNames DEF ItemName, Status
    <3> QED BY <2>1, <3>1, <3>2, SkipStep
  <2>4. CASE \E which \in 0..1 : Skip(TableName[which + 1], "empty")
    <3>1. PICK which \in 0..1 : Skip(TableName[which + 1], "empty")
      BY <2>4
    <3> DEFINE name == TableName[which + 1]
    <3>2. name \in ItemName \ {"storage"} /\ "empty" \in Status /\ "empty" # "read"
      BY TableNames DEF ItemName, Status
    <3>3. Skip(name, "empty")
      BY <3>1
    <3> HIDE DEF name
    <3> QED BY <2>1, <3>2, <3>3, SkipStep
  <2>5. CASE \E n \in {"IgnoredProperty", "IgnoredStream"} : Skip(n, "read")
    <3>1. PICK n \in {"IgnoredProperty", "IgnoredStream"} : Skip(n, "read")
      BY <2>5
    <3>2. n \in ItemName \ {"storage"} /\ "read" \in Status
      BY DEF ItemName, Status
    <3> QED BY <2>1, <3>1, <3>2, SkipStep
  <2>6. CASE \E valid \in BOOLEAN, which \in 0..1 : ReadWord(valid, which)
    BY <2>1, <2>6, ReadWordStep
  <2>7. CASE \E which \in 0..1, pieces \in SeqOf({"inside", "outside"}, MaxPieces) :
                ReadTable(which, pieces)
    <3>1. PICK which \in 0..1, pieces \in SeqOf({"inside", "outside"}, MaxPieces) :
             ReadTable(which, pieces)
      BY <2>7
    <3>2. pieces \in Seq(Piece)
      BY PiecesAssumption DEF SeqOf, Piece
    <3> QED BY <2>1, <3>1, <3>2, ReadTableStep
  <2>8. CASE \E named \in {"", "Recipient", "Attachment"} : ReadStorage(named)
    BY <2>1, <2>8, ReadStorageStep
  <2> QED BY <2>2, <2>3, <2>4, <2>5, <2>6, <2>7, <2>8 DEF ReadAtOnce
<1> QED BY <1>2, <1>3, <1>4 DEF RootInv

LEMMA RootStep == ASSUME RootInv, [Next]_vars PROVE RootInv'
<1>1. CASE UNCHANGED vars
  <2>1. /\ UNCHANGED <<items, type, message, word, tables>>
        /\ UNCHANGED <<rootStage, text, rtfVars, pptVars>>
    BY <1>1 DEF vars, rootVars
  <2>2. DataInv' /\ RtfInv' /\ PptInv'
    BY <2>1, DataAlike, DecodersAlike DEF RootInv
  <2>3. InsidePieces(word)' = InsidePieces(word)
    BY <2>1 DEF InsidePieces, TableName
  <2>4. StageInv'
    BY <2>1, <2>3 DEF RootInv, StageInv, rtfVars, pptVars
  <2> QED BY <2>2, <2>4 DEF RootInv
<1>2. CASE Next
  <2>1. \/ ReadAtOnce \/ ReadSlides \/ StepPpt \/ ReturnPpt
        \/ ReadRtf \/ StepRtf \/ ReturnRtf \/ RtfThrows \/ EndOfDirectory
    BY <1>2, Zenon DEF Next, ReadAtOnce
  <2> QED BY <2>1, ReadAtOnceStep, ReadSlidesStep, StepPptStep, DecoderLeft, ReadRtfStep,
             StepRtfStep, RtfReturned, EndStep
<1> QED BY <1>1, <1>2

LEMMA EmptyDomain == DOMAIN <<>> = {}
<1>1. <<>> \in Seq(Piece) /\ Len(<<>>) = 0
  OBVIOUS
<1> QED BY <1>1

LEMMA RootInitial == ASSUME Init PROVE RootInv
<1>1. /\ rootStage = "items" /\ items = <<>> /\ type = "" /\ message = NoMessage /\ word = -1
      /\ tables = [t \in 0..1 |-> <<>>] /\ text = <<>> /\ RtfInit /\ PptInit
  BY DEF Init
<1>2. RtfInv /\ PptInv
  BY <1>1, RtfInitial, PptInitial
<1>3. StageInv
  BY <1>1 DEF StageInv, RtfInit, PptInit
<1>4. RootTypes
  <2>1. items \in Seq(Item) /\ DOMAIN items = {}
    <3>1. <<>> \in Seq(Item)
      OBVIOUS
    <3>2. items = <<>>
      BY <1>1
    <3> QED BY <3>1, <3>2, EmptyDomain
  <2>2. message \in [Fields -> Value]
    BY <1>1 DEF NoMessage, Value
  <2>3. tables \in [0..1 -> Seq(Piece)]
    BY <1>1, NoPieces
  <2>4. type \in {"", "msg", "ppt", "doc"} /\ word \in -1..1 /\ (type = "doc" <=> word # -1)
    <3>1. type = "" /\ word = -1
      BY <1>1
    <3>2. word \in -1..1
      <4>1. -1 \in -1..1
        OBVIOUS
      <4> QED BY <3>1, <4>1, Zenon
    <3>3. type # "doc"
      BY <3>1
    <3> QED BY <3>1, <3>2, <3>3
  <2> QED BY <2>1, <2>2, <2>3, <2>4 DEF RootTypes
<1>5. \A f \in Fields : message[f] = ""
  BY <1>1 DEF NoMessage
<1>6. Subjects /\ RtfKept /\ FieldsKept
  <2>1. DOMAIN items = {} /\ "subject" \in Fields /\ "rtf" \in Fields
    BY <1>1, EmptyDomain DEF Fields
  <2>2. Subjects /\ RtfKept
    BY <1>5, <2>1 DEF Subjects, RtfKept, Given
  <2>3. \A f : LastFor(f) = ""
    BY <2>1 DEF LastFor, For
  <2> QED BY <1>5, <2>2, <2>3 DEF FieldsKept
<1>7. TypeKept /\ TablesKept
  <2>1. DOMAIN items = {} /\ \A t \in 0..1 : tables[t] = <<>>
    BY <1>1, EmptyDomain
  <2>2. FirstTelling = ""
    BY <2>1 DEF FirstTelling, Telling
  <2> QED BY <1>1, <2>1, <2>2 DEF TypeKept, TablesKept
<1> QED BY <1>2, <1>3, <1>4, <1>6, <1>7 DEF RootInv, DataInv

\* At every step of process_root the document holds what the items met so far
\* call for, and a decoder under way keeps its own invariant.
THEOREM RootSound == Spec => []RootInv
BY RootInitial, RootStep, PTL DEF Spec

\* Every variable of the walk has its type, the decoders run only inside it
\* (property TypeOK).
THEOREM TypeCorrect == Spec => []TypeOK
<1>1. ASSUME RootInv PROVE TypeOK
  <2>1. CursorsInside
    BY <1>1, CursorsAreInside DEF RootInv
  <2>2. DOMAIN message = Fields
    BY <1>1 DEF RootInv, DataInv, RootTypes
  <2> QED BY <1>1, <2>1, <2>2 DEF RootInv, DataInv, RootTypes, StageInv, RtfInv, TypeOK
<1> QED BY <1>1, RootSound, PTL

\* A presentation among the streams gives the Slides its records say (property
\* SlidesAsSpecified).
THEOREM SlidesCorrect == Spec => []SlidesAsSpecified
<1>1. RootInv => SlidesAsSpecified
  BY SlidesFromInv DEF RootInv
<1> QED BY <1>1, RootSound, PTL

\* The dictionary, when the compressed body is a stream among others (property
\* WindowIsHistory).
THEOREM WindowCorrectInFile == Spec => []WindowIsHistory
<1>1. RootInv => WindowIsHistory
  BY DEF RootInv, RtfInv
<1> QED BY <1>1, RootSound, PTL

\* The inner pieces of a table, by its name.
LEMMA PiecesOfTable ==
    ASSUME DataInv, NEW which \in 0..1, NEW table, table = TableName[which + 1]
    PROVE  InnerPieces(table) = {table} \X InnerUpTo(tables[which], Len(tables[which]))
<1> DEFINE t == tables[which]
           of == { x \in ToSet(items) : x.name = table }
           inner == InnerUpTo(t, Len(t))
<1>1. items \in Seq(Item) /\ t \in Seq(Piece)
  BY DEF DataInv, RootTypes
<1>2. /\ \A i \in DOMAIN items : items[i].name = table => items[i].pieces = t
      /\ (\A i \in DOMAIN items : items[i].name # table) => t = <<>>
  BY DEF DataInv, TablesKept
<1>3. \A x \in of : x.pieces = t
  BY <1>2 DEF ToSet
<1>4. of = {} => t = <<>>
  <2>1. ASSUME of = {} PROVE \A i \in DOMAIN items : items[i].name # table
    BY <2>1 DEF ToSet
  <2> QED BY <1>2, <2>1
<1>5. inner = { j \in DOMAIN t : t[j] = "inside" }
  BY <1>1 DEF InnerUpTo
<1>6. t = <<>> => inner = {}
  BY <1>5, EmptyDomain
<1> DEFINE places == UNION { { j \in DOMAIN i.pieces : i.pieces[j] = "inside" } : i \in of }
<1>7. InnerPieces(table) = { <<table, k>> : k \in places }
  BY DEF InnerPieces
<1>8. places = inner
  <2>1. CASE of = {}
    BY <1>4, <1>6, <2>1
  <2>2. CASE of # {}
    <3> HIDE DEF of, t
    <3> QED BY <1>3, <1>5, <2>2
  <2> QED BY <2>1, <2>2
<1> QED
  <2> HIDE DEF places, inner
  <2>1. { <<table, k>> : k \in inner } = {table} \X inner
    OBVIOUS
  <2> USE DEF inner
  <2> QED BY <1>7, <1>8, <2>1

\* What the directory stands for, whatever its order (property
\* RootAsSpecified).
THEOREM RootCorrect == Spec => []RootAsSpecified
<1>1. ASSUME RootInv PROVE RootAsSpecified
  <2> SUFFICES ASSUME rootStage = "end" PROVE RootAsSpecified
    BY DEF RootAsSpecified
  <2> DEFINE words == { i \in ToSet(items) : i.name = "WordDocument" /\ i.content # ""
                                             /\ i.status = "read" }
  <2>1. DataInv /\ StageInv
    BY <1>1 DEF RootInv
  <2>2. Subjects /\ FieldsKept
    BY <2>1 DEF DataInv
  <2>3. message.rtf = "RtfCompressed" <=> \E i \in ToSet(items) : i.content = "decoded"
    BY <2>1 DEF DataInv, RtfKept, ToSet
  <2>4. \A w : w \in words <=> \E i \in DOMAIN items : w = items[i] /\ ValidWord(items[i])
    BY DEF ToSet, ValidWord
  <2>5. TypeKept /\ word \in -1..1 /\ (type = "doc" <=> word # -1)
    BY <2>1 DEF DataInv, RootTypes
  <2> HIDE DEF words
  <2>6. ASSUME words = {} PROVE type = FirstTelling /\ text = <<>>
    <3>1. \A i \in DOMAIN items : ~ValidWord(items[i])
      BY <2>4, <2>6
    <3>2. word = -1 /\ type = FirstTelling
      BY <2>5, <3>1 DEF TypeKept
    <3> QED BY <2>1, <2>5, <3>2 DEF StageInv
  <2>7. ASSUME NEW w0 \in words
        PROVE  /\ type = "doc"
               /\ \A w \in words : ToSet(text) = InnerPieces(w.content)
               /\ \A j, k \in DOMAIN text : j < k => text[j][2] < text[k][2]
    <3>1. ASSUME NEW w \in words PROVE word # -1 /\ w.content = TableName[word + 1]
      BY <2>4, <2>5 DEF TypeKept
    <3>2. word \in 0..1 /\ type = "doc"
      BY <2>5, <3>1
    <3> DEFINE table == TableName[word + 1]
               t == tables[word]
    <3>3. text = InsidePieces(word)
      BY <2>1, <3>2 DEF StageInv
    <3>4. t \in Seq(Piece)
      BY <2>1, <3>2 DEF DataInv, RootTypes
    <3>5. Shows(text, <<0, table>>, InnerUpTo(t, Len(t)))
      BY <3>2, <3>3, <3>4, InsideFacts
    <3>6. InnerPieces(table) = {table} \X InnerUpTo(t, Len(t))
      BY <2>1, <3>2, PiecesOfTable
    <3>7. ToSet(text) = InnerPieces(table)
      BY <3>5, <3>6 DEF Shows
    <3>8. \A j, k \in DOMAIN text : j < k => text[j][2] < text[k][2]
      BY <3>5, Zenon DEF Shows
    <3> HIDE DEF table, t
    <3>9. \A w \in words : w.content = table
      BY <3>1 DEF table
    <3> QED BY <3>2, <3>7, <3>8, <3>9
  <2> USE DEF words
  <2> QED BY <2>2, <2>3, <2>6, <2>7 DEF RootAsSpecified, Subjects, FieldsKept
<1> QED BY <1>1, RootSound, PTL

\* What a reference copies, when the body is a stream among others (property
\* ReferenceRepeats).
THEOREM ReferencesRepeatInFile == Spec => ReferenceRepeats
<1>1. RootInv /\ [Next]_vars
        => [rtfStage = "copy" /\ rtf' # rtf =>
               /\ rtf' = Append(rtf, History[Len(History) + 1 - Distance])
               /\ Distance' = Distance]_rtfVars
  <2> SUFFICES ASSUME RootInv, [Next]_vars, rtfStage = "copy", rtf' # rtf
               PROVE  /\ rtf' = Append(rtf, History[Len(History) + 1 - Distance])
                      /\ Distance' = Distance
    OBVIOUS
  <2>1. RtfNext
    BY DEF Next, ReadProperty, Skip, ReadWord, ReadTable, ReadStorage, ReadSlides, StepPpt,
           ReturnPpt, ReadRtf, CallRtf, StepRtf, ReturnRtf, RtfThrows, EndOfDirectory,
           vars, rtfVars
  <2>2. CopyByte
    BY <2>1 DEF RtfNext, LeaveHeader, ReadHeader, ReadControl, EndOfInput,
                Literal, EndMarker, Reference, CopyFails
  <2> QED BY <2>2, CopyRepeats DEF RootInv
<1> QED BY <1>1, RootSound, PTL DEF Spec, ReferenceRepeats
=============================================================================
