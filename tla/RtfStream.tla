----------------------------- MODULE RtfStream -----------------------------
(***************************************************************************)
(* process_rtf: the decompression of PidTagRtfCompressed, an LZ77 code     *)
(* over a circular dictionary that starts with a fixed text.               *)
(*                                                                         *)
(* A control byte announces, bit by bit, a literal byte or a reference     *)
(* [offset, length] into the dictionary; the input is revealed as it is    *)
(* read and may end anywhere.  buf.at and DICT.at throw past the end.      *)
(***************************************************************************)
EXTENDS Integers, Sequences

CONSTANTS
    Byte,
    Prefix,       \* the text the dictionary starts with, 207 bytes
    DictSize,     \* where the two offsets wrap, 4096
    ControlBits,  \* items announced by a control byte, 8
    Lengths,      \* of a reference, 2..17
    MaxRaw,       \* BOUND: the RAWSIZE of the header
    MaxOut        \* BOUND: bytes of output

ASSUME DictAssumption ==
    /\ DictSize \in Nat \ {0}
    /\ Prefix \in Seq(Byte)
    /\ Len(Prefix) < DictSize
    /\ ControlBits \in Nat \ {0}
    /\ Lengths \subseteq Nat \ {0}
    /\ MaxRaw \in Nat /\ MaxOut \in Nat

VARIABLES
    rtfStage,     \* "off", "header", "control", "bit", "copy", then the result
    dict,         \* DICT
    readOffset,
    writeOffset,
    rtf,          \* the output
    rawSize,      \* RAWSIZE
    bit,          \* the bit of the control byte that is next
    left          \* bytes of the reference still to copy

rtfVars == <<rtfStage, dict, readOffset, writeOffset, rtf, rawSize, bit, left>>

RtfInit ==
    /\ rtfStage = "off"
    /\ dict = <<>>
    /\ readOffset = 0
    /\ writeOffset = 0
    /\ rtf = <<>>
    /\ rawSize = 0
    /\ bit = 0
    /\ left = 0

CallRtf ==
    /\ rtfStage = "off"
    /\ rtfStage' = "header"
    /\ UNCHANGED <<dict, readOffset, writeOffset, rtf, rawSize, bit, left>>

\* No header, a wrong size or an unknown signature; or a stream that is not
\* compressed, which is returned as it is, header included.
LeaveHeader ==
    /\ rtfStage = "header"
    /\ rtfStage' \in {"rejected", "verbatim"}
    /\ UNCHANGED <<dict, readOffset, writeOffset, rtf, rawSize, bit, left>>

ReadHeader ==
    /\ rtfStage = "header"
    /\ rtfStage' = "control"
    /\ rawSize' \in 0..MaxRaw
    /\ dict' = Prefix
    /\ readOffset' = 0
    /\ writeOffset' = Len(Prefix)
    /\ rtf' = <<>>
    /\ UNCHANGED <<bit, left>>

ReadControl ==
    /\ rtfStage = "control"
    /\ rtfStage' = "bit"
    /\ bit' = 0
    /\ UNCHANGED <<dict, readOffset, writeOffset, rtf, rawSize, left>>

\* The input is over: looked for before a control byte, met by an exception
\* anywhere else.
EndOfInput ==
    /\ \/ rtfStage = "control" /\ rtfStage' = "done"
       \/ rtfStage = "bit" /\ rtfStage' = "thrown"
    /\ UNCHANGED <<dict, readOffset, writeOffset, rtf, rawSize, bit, left>>

\* Mutation: the offsets wrap one byte late.
Next1Late(offset) == IF offset = DictSize THEN 0 ELSE offset + 1

\* The offset after this one, around the dictionary.
Next1(offset) == IF offset + 1 = DictSize THEN 0 ELSE offset + 1

\* Mutation: the dictionary is not written any more once it is full.
PutUntilFull(v) ==
    /\ rtf' = Append(rtf, v)
    /\ dict' = IF Len(dict) < DictSize THEN Append(dict, v) ELSE dict
    /\ writeOffset' = Next1(writeOffset)

\* A byte goes to the output and to the dictionary.
Put(v) ==
    /\ rtf' = Append(rtf, v)
    /\ dict' = IF writeOffset = Len(dict) THEN Append(dict, v)
               ELSE [dict EXCEPT ![writeOffset + 1] = v]
    /\ writeOffset' = Next1(writeOffset)

\* After an item the output may have reached the size announced.  An output
\* that has jumped over it goes on.
AfterItem ==
    /\ bit' = bit + 1
    /\ rtfStage' = IF Len(rtf') = rawSize THEN "done"
                   ELSE IF bit' = ControlBits THEN "control" ELSE "bit"

Literal(v) ==
    /\ rtfStage = "bit"
    /\ Len(rtf) < MaxOut
    /\ Put(v)
    /\ AfterItem
    /\ UNCHANGED <<readOffset, rawSize, left>>

\* A reference to the write offset ends the stream.
EndMarker ==
    /\ rtfStage = "bit"
    /\ rtfStage' = "done"
    /\ readOffset' = writeOffset
    /\ UNCHANGED <<dict, writeOffset, rtf, rawSize, bit, left>>

Reference(offset, length) ==
    /\ rtfStage = "bit"
    /\ Len(rtf) < MaxOut
    /\ offset # writeOffset
    /\ rtfStage' = "copy"
    /\ readOffset' = offset
    /\ left' = length
    /\ UNCHANGED <<dict, writeOffset, rtf, rawSize, bit>>

\* Mutation: the read offset stays when the dictionary wraps.
CopyByteNoWrap ==
    /\ rtfStage = "copy"
    /\ readOffset < Len(dict)
    /\ Put(dict[readOffset + 1])
    /\ readOffset' = IF readOffset + 1 = DictSize THEN readOffset ELSE readOffset + 1
    /\ left' = left - 1
    /\ IF left = 1 THEN AfterItem ELSE UNCHANGED <<bit, rtfStage>>
    /\ UNCHANGED rawSize

\* One byte of a reference; it may be one this very reference has written.
CopyByte ==
    /\ rtfStage = "copy"
    /\ readOffset < Len(dict)
    /\ Put(dict[readOffset + 1])
    /\ readOffset' = Next1(readOffset)
    /\ left' = left - 1
    /\ IF left = 1 THEN AfterItem ELSE UNCHANGED <<bit, rtfStage>>
    /\ UNCHANGED rawSize

\* The reference points where nothing was written yet.
CopyFails ==
    /\ rtfStage = "copy"
    /\ readOffset >= Len(dict)
    /\ rtfStage' = "thrown"
    /\ UNCHANGED <<dict, readOffset, writeOffset, rtf, rawSize, bit, left>>

RtfNext ==
    \/ LeaveHeader \/ ReadHeader \/ ReadControl \/ EndOfInput
    \/ \E v \in Byte : Literal(v)
    \/ EndMarker
    \/ \E offset \in 0..(DictSize - 1), length \in Lengths : Reference(offset, length)
    \/ CopyByte \/ CopyFails

RtfSpec == RtfInit /\ [][CallRtf \/ RtfNext]_rtfVars

-----------------------------------------------------------------------------
\* Properties.

Running == rtfStage \in {"control", "bit", "copy"}

\* Every variable has its type; both offsets stay inside the circle.
RtfTypeOK ==
    /\ rtfStage \in {"off", "header", "control", "bit", "copy", "done",
                     "thrown", "rejected", "verbatim"}
    /\ dict \in Seq(Byte)
    /\ readOffset \in 0..(DictSize - 1)
    /\ writeOffset \in 0..(DictSize - 1)
    /\ rtf \in Seq(Byte)
    /\ rawSize \in Nat
    /\ bit \in 0..ControlBits
    /\ left \in Nat

\* Everything that ever went through the dictionary, in order.
History == Prefix \o rtf

\* The dictionary is a window on the history: below the write offset lie the
\* most recent bytes, above it the ones a full circle older, so no byte is
\* skipped, doubled or out of place when the offsets wrap.
WindowIsHistory ==
    Running =>
        LET n == Len(History)
        IN  /\ Len(dict) = IF n < DictSize THEN n ELSE DictSize
            /\ n < DictSize => writeOffset = n
            /\ \A i \in 1..Len(dict) :
                  dict[i] = IF i <= writeOffset
                            THEN History[n - writeOffset + i]
                            ELSE History[n - writeOffset - DictSize + i]

Distance == IF readOffset < writeOffset
            THEN writeOffset - readOffset
            ELSE writeOffset - readOffset + DictSize

\* A reference repeats the history at one and the same distance, byte after
\* byte, also when it overlaps what it writes or runs through the wrap.
ReferenceRepeats ==
    [][rtfStage = "copy" /\ rtf' # rtf =>
          /\ rtf' = Append(rtf, History[Len(History) + 1 - Distance])
          /\ Distance' = Distance]_rtfVars
=============================================================================
