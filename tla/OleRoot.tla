------------------------------ MODULE OleRoot ------------------------------
(***************************************************************************)
(* process_root: the streams of a compound file, read in the order of its  *)
(* directory, become a message, a presentation or the text of a .doc file. *)
(*                                                                         *)
(* The directory is revealed item by item, every stream name at most once, *)
(* in any order: the order is the file's.  A stream is empty, unreadable   *)
(* (its buffer stays zero) or read.  The value of a property is the name   *)
(* of the stream it was taken from, "" when there is none.                 *)
(***************************************************************************)
EXTENDS RtfStream, PptRecords, FiniteSets

CONSTANTS
    Names,      \* the properties a file may have
    MaxItems,   \* BOUND: items of the directory
    MaxBefore,  \* BOUND: items before a stream that is decoded step by step
    MaxAfter,   \* BOUND: items in all when slides were read
    MaxPieces   \* BOUND: pieces of a table

\* The field of the message each property is for.
Sender == {"SenderName", "SentRepresentingName"}
SenderAt == {"SenderEmailAddress", "SentRepresentingEmailAddress",
             "SenderSmtpAddress", "SentRepresentingSmtpAddress"}
Recipient == {"ReceivedByName", "ReceivedRepresentingName", "DisplayTo"}
RecipientAt == {"EmailAddress", "ReceivedByEmailAddress",
                "ReceivedRepresentingEmailAddress"}
Field(n) ==
    CASE n \in {"Subject", "NormalizedSubject"} -> "subject"
      [] n \in Sender -> "sender"
      [] n \in SenderAt -> "sender_address"
      [] n \in Recipient -> "recipient"
      [] n \in RecipientAt -> "recipient_address"
      [] n = "Body" -> "text"
      [] n = "Html" -> "html"
      [] n = "TransportMessageHeaders" -> "headers"

Fields == {"subject", "sender", "sender_address", "recipient", "recipient_address",
           "text", "html", "headers", "rtf"}
NoMessage == [f \in Fields |-> ""]

ASSUME NamesAssumption ==
    Names \subseteq {"Subject", "NormalizedSubject", "Body", "Html",
                     "TransportMessageHeaders"}
                    \cup Sender \cup SenderAt \cup Recipient \cup RecipientAt

ASSUME PiecesAssumption == MaxPieces \in Nat

VARIABLES
    rootStage,  \* "items", "rtf", "ppt", "end", "thrown"
    items,      \* the items met so far (history)
    type,       \* document.type
    message,    \* document.message
    word,       \* document.fWhichTblStm, -1 before a WordDocument was read
    tables,     \* doc_0table_buf and doc_1table_buf: the pieces they describe
    text        \* document.text: pieces of a table, <<its name, which>>

rootVars == <<rootStage, items, type, message, word, tables, text>>
vars == <<rootVars, rtfVars, pptVars>>

Init ==
    /\ rootStage = "items"
    /\ items = <<>>
    /\ type = ""
    /\ message = NoMessage
    /\ word = -1
    /\ tables = [t \in 0..1 |-> <<>>]
    /\ text = <<>>
    /\ RtfInit /\ PptInit

-----------------------------------------------------------------------------
\* The items.

Status == {"empty", "unreadable", "read"}

\* Names that begin with "__substg1.0_", be they read or ignored.
IsMessage(name) == name \in Names \cup {"RtfCompressed", "IgnoredProperty"}

\* The first item that tells decides, whatever its size; read_doc overrules.
TypeAfter(name) ==
    IF type # "" THEN type
    ELSE IF IsMessage(name) THEN "msg"
    ELSE IF name = "PowerPoint Document" THEN "ppt"
    ELSE type

\* The next item of the directory, with what there is to know of it.
Meet(name, status, content, pieces) ==
    /\ rootStage = "items"
    /\ Len(items) < IF slides = <<>> THEN MaxItems ELSE MaxAfter
    /\ name # "storage" => \A i \in DOMAIN items : items[i].name # name
    /\ items' = Append(items, [name |-> name, status |-> status,
                                content |-> content, pieces |-> pieces])

Skip(name, status) ==
    /\ Meet(name, status, "skipped", <<>>)
    /\ type' = TypeAfter(name)
    /\ UNCHANGED <<rootStage, message, word, tables, text, rtfVars, pptVars>>

\* Mutation: the normalized subject replaces the subject.
TakesAny(name) == TRUE

\* The normalized subject is taken for want of a subject; every other property
\* replaces what is there.
Takes(name) == name = "NormalizedSubject" => message.subject = ""

\* A text that begins with a zero character is empty; the html is bytes.
ReadProperty(name, blank) ==
    /\ blank => name # "Html"
    /\ Meet(name, "read", IF blank THEN "blank" ELSE "property", <<>>)
    /\ type' = TypeAfter(name)
    /\ message' = IF Takes(name)
                  THEN [message EXCEPT ![Field(name)] = IF blank THEN "" ELSE name]
                  ELSE message
    /\ UNCHANGED <<rootStage, word, tables, text, rtfVars, pptVars>>

TableName == <<"0Table", "1Table">>

\* read_doc: nothing happens unless the stream begins with 0xA5EC.
ReadWord(valid, which) ==
    /\ Meet("WordDocument", "read", IF valid THEN TableName[which + 1] ELSE "", <<>>)
    /\ type' = IF valid THEN "doc" ELSE type
    /\ word' = IF valid THEN which ELSE word
    /\ UNCHANGED <<rootStage, message, tables, text, rtfVars, pptVars>>

\* A table is stored, even when it could not be read: zeros hold no pieces.
ReadTable(which, pieces) ==
    /\ \E status \in {"read", "unreadable"} :
          /\ status = "unreadable" => pieces = <<>>
          /\ Meet(TableName[which + 1], status, "table", pieces)
    /\ tables' = [tables EXCEPT ![which] = pieces]
    /\ UNCHANGED <<rootStage, type, message, word, text, rtfVars, pptVars>>

\* A storage has no stream; of the streams in it, the display name of an
\* attachment counts as the recipient's, like that of a recipient.
ReadStorage(named) ==
    /\ Meet("storage", "empty", named, <<>>)
    /\ message' = IF named = "" THEN message ELSE [message EXCEPT !.recipient = named]
    /\ UNCHANGED <<rootStage, type, word, tables, text, rtfVars, pptVars>>

-----------------------------------------------------------------------------
\* The streams that are decoded.

ReadSlides ==
    /\ Len(items) <= MaxBefore
    /\ Meet("PowerPoint Document", "read", "slides", <<>>)
    /\ type' = TypeAfter("PowerPoint Document")
    /\ rootStage' = "ppt"
    /\ CallPpt
    /\ UNCHANGED <<message, word, tables, text, rtfVars>>

StepPpt ==
    /\ rootStage = "ppt"
    /\ PptNext
    /\ UNCHANGED <<rootVars, rtfVars>>

ReturnPpt ==
    /\ rootStage = "ppt" /\ pptStage = "end"
    /\ rootStage' = "items"
    /\ UNCHANGED <<items, type, message, word, tables, text, rtfVars, pptVars>>

ReadRtf ==
    /\ Len(items) <= MaxBefore
    /\ Meet("RtfCompressed", "read", "lost", <<>>)
    /\ type' = TypeAfter("RtfCompressed")
    /\ rootStage' = "rtf"
    /\ CallRtf
    /\ UNCHANGED <<message, word, tables, text, pptVars>>

StepRtf ==
    /\ rootStage = "rtf"
    /\ RtfNext
    /\ UNCHANGED <<rootVars, pptVars>>

\* Whatever was decoded becomes message.rtf and process_rtf's variables go out
\* of scope.
ReturnRtf ==
    /\ rootStage = "rtf" /\ rtfStage \in {"done", "verbatim", "rejected"}
    /\ rootStage' = "items"
    /\ LET whole == rtfStage = "verbatim" \/ rtf # <<>>
       IN  /\ message' = IF whole /\ rtfStage # "rejected"
                         THEN [message EXCEPT !.rtf = "RtfCompressed"] ELSE message
           /\ items' = [items EXCEPT ![Len(items)].content =
                           IF whole /\ rtfStage # "rejected" THEN "decoded" ELSE "lost"]
    /\ rtfStage' = "off" /\ dict' = <<>> /\ readOffset' = 0 /\ writeOffset' = 0
    /\ rtf' = <<>> /\ rawSize' = 0 /\ bit' = 0 /\ left' = 0
    /\ UNCHANGED <<type, word, tables, text, pptVars>>

\* The exception leaves process_root: there is no document.
RtfThrows ==
    /\ rootStage = "rtf" /\ rtfStage = "thrown"
    /\ rootStage' = "thrown"
    /\ UNCHANGED <<items, type, message, word, tables, text, rtfVars, pptVars>>

-----------------------------------------------------------------------------
\* The end of the directory.

\* The pieces of the table a WordDocument names, but those outside of it.
InsidePieces(which) ==
    LET upTo[n \in 0..Len(tables[which])] ==
            IF n = 0 THEN <<>>
            ELSE IF tables[which][n] = "inside"
                 THEN Append(upTo[n - 1], <<TableName[which + 1], n>>)
                 ELSE upTo[n - 1]
    IN  upTo[Len(tables[which])]

\* The text of a .doc file.
EndOfDirectory ==
    /\ rootStage = "items"
    /\ rootStage' = "end"
    /\ text' = IF type = "doc" THEN InsidePieces(word) ELSE text
    /\ UNCHANGED <<items, type, message, word, tables, rtfVars, pptVars>>

Next ==
    \/ \E n \in Names, blank \in BOOLEAN : ReadProperty(n, blank)
    \/ \E n \in Names \cup {"RtfCompressed", "PowerPoint Document", "WordDocument"},
          s \in {"empty", "unreadable"} : Skip(n, s)
    \/ \E which \in 0..1 : Skip(TableName[which + 1], "empty")
    \/ \E n \in {"IgnoredProperty", "IgnoredStream"} : Skip(n, "read")
    \/ \E valid \in BOOLEAN, which \in 0..1 : ReadWord(valid, which)
    \/ \E which \in 0..1, pieces \in SeqOf({"inside", "outside"}, MaxPieces) :
          ReadTable(which, pieces)
    \/ \E named \in {"", "Recipient", "Attachment"} : ReadStorage(named)
    \/ ReadSlides \/ StepPpt \/ ReturnPpt
    \/ ReadRtf \/ StepRtf \/ ReturnRtf \/ RtfThrows
    \/ EndOfDirectory

Spec == Init /\ [][Next]_vars

-----------------------------------------------------------------------------
\* Properties.

\* Every variable of the walk has its type, and a decoder runs only inside it.
TypeOK ==
    /\ rootStage \in {"items", "rtf", "ppt", "end", "thrown"}
    /\ type \in {"", "msg", "ppt", "doc"}
    /\ DOMAIN message = Fields
    /\ word \in -1..1
    /\ type = "doc" <=> word # -1
    /\ rtfStage # "off" <=> rootStage = "rtf" \/ rootStage = "thrown"
    /\ pptStage \in {"stream", "members", "atoms"} => rootStage = "ppt"
    /\ CursorsInside
    /\ RtfTypeOK

\* The items that hold a text under that name, and the subjects read.
Given(name) == { i \in DOMAIN items : items[i].name = name /\ items[i].content = "property" }
SubjectsRead == { i \in DOMAIN items : items[i].name = "Subject" /\ items[i].status = "read" }

\* The last item read for a field, or "".
For(f) == { i \in DOMAIN items :
              \/ /\ items[i].name \in Names /\ items[i].status = "read"
                 /\ Field(items[i].name) = f
              \/ /\ f = "recipient"
                 /\ items[i].name = "storage" /\ items[i].content # "" }
ShownBy(item) == IF item.name = "storage" THEN item.content
                 ELSE IF item.content = "blank" THEN "" ELSE item.name
LastFor(f) == IF For(f) = {} THEN "" ELSE ShownBy(items[Max(For(f))])

\* What the first item that tells says, or "".
Telling == { i \in DOMAIN items : \/ IsMessage(items[i].name)
                                  \/ items[i].name = "PowerPoint Document" }
FirstTelling == IF Telling = {} THEN ""
                ELSE IF IsMessage(items[Min(Telling)].name) THEN "msg" ELSE "ppt"

\* The inner pieces of a table of the directory, by their place.
InnerPieces(table) ==
    { <<table, k>> : k \in UNION { { j \in DOMAIN i.pieces : i.pieces[j] = "inside" } :
                                  i \in { x \in ToSet(items) : x.name = table } } }

\* What the directory as a whole stands for, whatever the order: the subject
\* and the bodies of a message do not depend on it, but for an empty subject,
\* which removes a normalized one met before it; names and addresses are those
\* read last; a valid WordDocument makes a .doc file, whose text is the
\* inner pieces of the table it names, wherever in the directory that stands.
RootAsSpecified ==
    rootStage = "end" =>
        /\ message.subject = IF Given("Subject") # {} THEN "Subject"
                             ELSE IF \E i \in Given("NormalizedSubject") :
                                        \A j \in SubjectsRead : j < i
                             THEN "NormalizedSubject" ELSE ""
        /\ message.rtf = "RtfCompressed" <=> \E i \in ToSet(items) : i.content = "decoded"
        /\ \A f \in Fields \ {"subject", "rtf"} : message[f] = LastFor(f)
        /\ LET words == { i \in ToSet(items) : i.name = "WordDocument" /\ i.content # ""
                                             /\ i.status = "read" }
           IN  IF words = {} THEN type = FirstTelling /\ text = <<>>
               ELSE /\ type = "doc"
                    /\ \A w \in words : ToSet(text) = InnerPieces(w.content)
                    /\ \A j, k \in DOMAIN text : j < k => text[j][2] < text[k][2]
=============================================================================
