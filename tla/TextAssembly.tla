---------------------------- MODULE TextAssembly ----------------------------
(***************************************************************************)
(* The documents that end up as one text: .txt, .html, .doc and .md        *)
(* files, .eml and .msg messages.  Each parser fills its Document, then    *)
(* its document_to_json puts the text into the result.                     *)
(*                                                                         *)
(* A text is the sequence of the parts it is made of, <<>> the empty text; *)
(* the newline between a subject and a body is left out.  Markup (.html,   *)
(* an .rtf body) may be Blank: something, but without any text.            *)
(***************************************************************************)
EXTENDS ResultAssembly, Integers, SequencesExt

CONSTANTS
    Parts,       \* the trees of MIME parts an .eml may consist of
    Sections     \* the sequences of sections an .md file may consist of

TextFormat == {"txt", "html", "doc", "md", "eml", "msg"}
Filled == {"none", "words"}
Markup == {"none", "blank", "words"}

\* A part of a message, and the last of the parts under it: a text with or
\* without a charset parameter, inline (or without disposition) or an
\* attachment, its content Blank if it is HTML without text; a message/partial
\* part; an attached message; or anything else.
PartType == [kind : {"multipart", "text", "partial", "message", "other"},
             last : Nat, inline : BOOLEAN, charset : BOOLEAN, content : Markup]

\* The parts of a message in the order they are read: the parts under one
\* follow it, and an attached message has one part, or none if it has no
\* message in it.
MimeTree(t) ==
    /\ t # <<>> /\ t[1].last = Len(t)
    /\ \A i \in DOMAIN t :
        /\ t[i].last \in i..Len(t)
        /\ \A j \in i..t[i].last : t[j].last <= t[i].last
        /\ t[i].last > i => t[i].kind \in {"multipart", "message"}
        /\ t[i].kind = "message" /\ t[i].last > i => t[i + 1].last = t[i].last

\* A section of a Markdown file: with or without a header line above its text.
SectionType == [header : BOOLEAN]

ASSUME PartAssumption == \A t \in Parts : t \in Seq(PartType) /\ MimeTree(t)
ASSUME SectionAssumption == Sections \subseteq Seq(SectionType)

NoSource == [readable |-> TRUE, subject |-> "none", text |-> "none",
             html |-> "none", rtf |-> "none", parts |-> <<>>, sections |-> <<>>]

Sources(f) ==
    CASE f = "txt"  -> { [NoSource EXCEPT !.text = "words"] }
      [] f = "html" -> { [NoSource EXCEPT !.readable = r, !.html = h] :
                            r \in BOOLEAN, h \in {"blank", "words"} }
      [] f = "doc"  -> { [NoSource EXCEPT !.readable = r, !.text = x] :
                            r \in BOOLEAN, x \in Filled }
      [] f = "md"   -> { [NoSource EXCEPT !.sections = s] : s \in Sections }
      [] f = "eml"  -> { [NoSource EXCEPT !.readable = FALSE] } \cup
                       { [NoSource EXCEPT !.subject = s, !.parts = p] :
                            s \in Filled, p \in Parts }
      [] f = "msg"  -> { [NoSource EXCEPT !.readable = r, !.subject = s, !.text = x,
                                          !.html = h, !.rtf = y] :
                            r \in BOOLEAN, s \in Filled, x \in Filled,
                            h \in Markup, y \in Markup }

NoResult == [success |-> FALSE, type |-> "", field |-> "", pieces |-> <<>>]

VARIABLES
    source,    \* what the file holds
    frames,    \* the calls of g_mime_*_foreach under way, outermost first: its
               \* callback, the part it is at, its last part and, for a message
               \* in a message, processPart's local is_main_message
    is_main_message,   \* ctx.is_main_message
    subject,   \* document.subject
    body,      \* document.text, document.body or document.message.text
    headers,   \* what document.headers holds: "null" or "arrays"
    result     \* the object under construction

\* pc is at "parse", the "parts" of an .eml, "render" or "done".
textArgs == <<format, mode, source>>
textWalk == <<frames, is_main_message>>
textVars == <<textArgs, pc, textWalk, subject, body, headers, result>>

TextInit ==
    /\ format \in TextFormat
    /\ mode \in Mode
    /\ source \in Sources(format)
    /\ pc = "parse"
    /\ frames = <<>>
    /\ is_main_message = FALSE
    /\ subject = <<>>
    /\ body = <<>>
    /\ headers = "null"
    /\ result = NoResult

Has(x, name) == IF x = "words" THEN <<name>> ELSE <<>>

-----------------------------------------------------------------------------
\* The parsers.

ParseTxt ==
    /\ pc = "parse" /\ format = "txt"
    /\ body' = Has(source.text, "text")
    /\ pc' = "render"
    /\ UNCHANGED <<textArgs, textWalk, subject, headers, result>>

\* A document tidy cannot parse fails; tags leave no text.
ParseHtml ==
    /\ pc = "parse" /\ format = "html"
    /\ IF source.readable
       THEN /\ body' = Has(source.html, "html")
            /\ pc' = "render"
            /\ UNCHANGED result
       ELSE /\ result' = [result EXCEPT !.type = "unknown"]
            /\ pc' = "done"
            /\ UNCHANGED body
    /\ UNCHANGED <<textArgs, textWalk, subject, headers>>

\* The file is no compound file, or not one with a known stream in it.
OlecfFails ==
    /\ pc = "parse" /\ format \in {"doc", "msg"}
    /\ ~source.readable
    /\ result' = [result EXCEPT !.type = "unknown"]
    /\ pc' = "done"
    /\ UNCHANGED <<textArgs, textWalk, subject, body, headers>>

ParseDoc ==
    /\ pc = "parse" /\ format = "doc"
    /\ source.readable
    /\ body' = Has(source.text, "text")
    /\ pc' = "render"
    /\ UNCHANGED <<textArgs, textWalk, subject, headers, result>>

\* Mutations: the text ends up in the subject; an HTML body hides the RTF one
\* even when it has no text.
ParseMsgSwapped ==
    /\ pc = "parse" /\ format = "msg"
    /\ source.readable
    /\ subject' = Has(source.text, "text")
    /\ body' = Has(source.subject, "subject")
    /\ pc' = "render"
    /\ UNCHANGED <<textArgs, textWalk, headers, result>>

ParseMsgHtmlFirst ==
    /\ pc = "parse" /\ format = "msg"
    /\ source.readable
    /\ subject' = Has(source.subject, "subject")
    /\ body' = IF source.text = "words" THEN <<"text">>
               ELSE IF source.html # "none" THEN Has(source.html, "html")
               ELSE Has(source.rtf, "rtf")
    /\ pc' = "render"
    /\ UNCHANGED <<textArgs, textWalk, headers, result>>

\* The text of a message, else that of its HTML body, else that of its RTF
\* body.
ParseMsg ==
    /\ pc = "parse" /\ format = "msg"
    /\ source.readable
    /\ subject' = Has(source.subject, "subject")
    /\ LET text == Has(source.text, "text")
           from_html == IF source.html # "none" /\ text = <<>>
                        THEN Has(source.html, "html") ELSE text
       IN  body' = IF source.rtf # "none" /\ from_html = <<>>
                   THEN Has(source.rtf, "rtf") ELSE from_html
    /\ pc' = "render"
    /\ UNCHANGED <<textArgs, textWalk, headers, result>>

\* The whole file is rendered to plain text and becomes the only section of
\* the only page: what is left of a header line is its text.
ParseMd ==
    /\ pc = "parse" /\ format = "md"
    /\ body' = [i \in DOMAIN source.sections |-> "section"]
    /\ pc' = "render"
    /\ UNCHANGED <<textArgs, textWalk, subject, headers, result>>

\* A call of g_mime_message_foreach or g_mime_multipart_foreach over the parts
\* from first to last.
Foreach(callback, first, last) ==
    [callback |-> callback, at |-> first, end |-> last, saved |-> is_main_message]

\* A stream without a message leaves the document empty; otherwise getAddress
\* stores an array for each of the six headers, empty or not.
ParseEml ==
    /\ pc = "parse" /\ format = "eml"
    /\ IF source.readable
       THEN /\ subject' = Has(source.subject, "subject")
            /\ headers' = "arrays"
            /\ is_main_message' = TRUE
            /\ frames' = << Foreach("processMessage", 1, Len(source.parts)) >>
            /\ pc' = "parts"
       ELSE /\ pc' = "render"
            /\ UNCHANGED <<textWalk, subject, headers>>
    /\ UNCHANGED <<textArgs, body, result>>

running == frames[Len(frames)]
mimePart == source.parts[running.at]

Visits(callback) ==
    /\ pc = "parts"
    /\ running.callback = callback
    /\ running.at <= running.end

\* A foreach reads multiparts through, but not the message in a message part.
Onwards ==
    [frames EXCEPT ![Len(frames)].at =
        IF mimePart.kind = "message" THEN mimePart.last + 1 ELSE running.at + 1]

AddedToBody ==
    /\ is_main_message
    /\ \/ mimePart.kind = "text" /\ mimePart.inline
       \/ mimePart.kind = "partial"

\* The parts under a multipart are processed first, by a foreach of its own,
\* and then once more by the running one.
ProcessMessage ==
    /\ Visits("processMessage")
    /\ frames' = IF mimePart.kind = "multipart"
                 THEN Append(Onwards, Foreach("processPart", running.at + 1, mimePart.last))
                 ELSE Onwards
    /\ body' = IF AddedToBody /\ mimePart.kind = "text" /\ mimePart.charset
               THEN body \o Has(mimePart.content, running.at) ELSE body
    /\ UNCHANGED <<textArgs, pc, is_main_message, subject, headers, result>>

\* Only an attached message is of interest: it is not the main message.
ProcessPart ==
    /\ Visits("processPart")
    /\ IF mimePart.kind = "message" /\ mimePart.last > running.at
       THEN /\ is_main_message' = FALSE
            /\ frames' = Append(Onwards, Foreach("processMessage", running.at + 1, mimePart.last))
       ELSE frames' = Onwards /\ UNCHANGED is_main_message
    /\ UNCHANGED <<textArgs, pc, subject, body, headers, result>>

Returns ==
    /\ pc = "parts"
    /\ Len(frames) > 1
    /\ running.at > running.end
    /\ frames' = Front(frames)

\* Mutation: processPart does not restore is_main_message.
ForeachReturnsUnrestored ==
    /\ Returns
    /\ UNCHANGED <<textArgs, pc, is_main_message, subject, body, headers, result>>

\* Back in processPart, which restores is_main_message, or in processMessage.
ForeachReturns ==
    /\ Returns
    /\ is_main_message' = IF running.callback = "processMessage"
                          THEN running.saved ELSE is_main_message
    /\ UNCHANGED <<textArgs, pc, subject, body, headers, result>>

PartsDone ==
    /\ pc = "parts"
    /\ Len(frames) = 1
    /\ running.at > running.end
    /\ frames' = <<>>
    /\ pc' = "render"
    /\ UNCHANGED <<textArgs, is_main_message, subject, body, headers, result>>

-----------------------------------------------------------------------------
\* document_to_json.

Field == CASE mode = "text" -> "documents"
           [] mode = "collection" -> "input"
           [] mode = "collections" -> "inputs"
           [] mode = "object" -> "pages"

\* Text mode does not say what the document was.
Typed == IF mode = "text" THEN "" ELSE format

\* Mutation: an empty text is pushed.
RenderedAlways(text) ==
    [success |-> TRUE, type |-> Typed, field |-> Field, pieces |-> <<text>>]

Rendered(text) ==
    [success |-> TRUE, type |-> Typed, field |-> Field,
     pieces |-> IF text = <<>> THEN <<>> ELSE <<text>>]

\* .txt and .html: one piece, unless there is no text.
RenderTxt ==
    /\ pc = "render" /\ format = "txt"
    /\ result' = Rendered(body)
    /\ pc' = "done"
    /\ UNCHANGED <<textArgs, textWalk, subject, body, headers>>

RenderHtml ==
    /\ pc = "render" /\ format = "html"
    /\ result' = Rendered(body)
    /\ pc' = "done"
    /\ UNCHANGED <<textArgs, textWalk, subject, body, headers>>

RenderDoc ==
    /\ pc = "render" /\ format = "doc"
    /\ result' = Rendered(body)
    /\ pc' = "done"
    /\ UNCHANGED <<textArgs, textWalk, subject, body, headers>>

\* With one page of one section every path through the loops (break_by_section
\* or not, any limit, duplicates skipped or not) pushes that section once.
RenderMd ==
    /\ pc = "render" /\ format = "md"
    /\ result' = Rendered(body)
    /\ pc' = "done"
    /\ UNCHANGED <<textArgs, textWalk, subject, body, headers>>

\* Object mode keeps the subject apart, as meta data, and decides by
\* document.text, which no code sets for a message, whether there is a page.
document_text == <<>>

RenderMsg ==
    /\ pc = "render" /\ format = "msg"
    /\ result' = IF mode = "object" THEN
                    [Rendered(body) EXCEPT !.pieces =
                        IF document_text = <<>> THEN <<>> ELSE <<body>>]
                 ELSE Rendered(subject \o body)
    /\ pc' = "done"
    /\ UNCHANGED <<textArgs, textWalk, subject, body, headers>>

\* Object mode looks "name" up in each header: on a JSON array that throws,
\* after the type was set.
RenderEml ==
    /\ pc = "render" /\ format = "eml"
    /\ result' = IF mode = "object"
                 THEN IF headers = "arrays"
                      THEN [result EXCEPT !.type = "eml"]
                      ELSE Rendered(body)
                 ELSE Rendered(subject \o body)
    /\ pc' = "done"
    /\ UNCHANGED <<textArgs, textWalk, subject, body, headers>>

TextNext ==
    \/ ParseTxt \/ ParseHtml \/ OlecfFails \/ ParseDoc \/ ParseMsg
    \/ ParseMd \/ ParseEml \/ ProcessMessage \/ ProcessPart
    \/ ForeachReturns \/ PartsDone
    \/ RenderTxt \/ RenderHtml \/ RenderDoc \/ RenderMd
    \/ RenderMsg \/ RenderEml

TextSpec == TextInit /\ [][TextNext]_textVars

-----------------------------------------------------------------------------
\* Properties.

\* Every variable has its type.
TextTypeOK ==
    /\ format \in TextFormat
    /\ mode \in Mode
    /\ DOMAIN source = DOMAIN NoSource
    /\ pc \in {"parse", "parts", "render", "done"}
    /\ \A k \in DOMAIN frames :
        /\ frames[k].callback \in {"processMessage", "processPart"}
        /\ frames[k].end \in 1..Len(source.parts)
        /\ frames[k].at \in 1..(frames[k].end + 1)
        /\ frames[k].saved \in BOOLEAN
    /\ is_main_message \in BOOLEAN
    /\ subject \in {<<>>, <<"subject">>}
    /\ Len(body) \in Nat
    /\ headers \in {"null", "arrays"}
    /\ result \in [success : BOOLEAN, type : TextFormat \cup {"", "unknown"},
                   field : {"", "documents", "input", "inputs", "pages"},
                   pieces : {<<>>, <<body>>, <<subject \o body>>}]

\* The bodies of a message in the order of preference, and those with a text.
Bodies == <<"text", "html", "rtf">>
WithText == { i \in DOMAIN Bodies : source[Bodies[i]] = "words" }

\* A message never loses its only body to one without text: a blank HTML body
\* in front of an RTF one does not hide it, and no body is used twice.
MsgBodyFound ==
    pc = "done" /\ format = "msg" /\ source.readable =>
        IF WithText = {} THEN body = <<>>
        ELSE \E i \in WithText : /\ \A j \in WithText : i <= j
                                 /\ body = << Bodies[i] >>

\* The texts of the main message itself: inline, readable, and under none of
\* the messages attached to it or to a part of it.
MainTexts ==
    { i \in DOMAIN source.parts :
        LET q == source.parts[i]
        IN  /\ q.kind = "text" /\ q.inline /\ q.charset /\ q.content = "words"
            /\ \A m \in 1..(i - 1) :
                   source.parts[m].kind = "message" => source.parts[m].last < i }

\* The text of an .eml is exactly its main message's, each part once and in
\* order: no attached message adds to it, whatever is attached to that one, and
\* none of them keeps a later part of the main message from being read.
BodyIsMainText ==
    format = "eml" /\ pc \in {"render", "done"} =>
        /\ ToSet(body) = MainTexts
        /\ \A i, j \in DOMAIN body : i < j => body[i] < body[j]

\* A result is never half made: without success it has no pieces and names no
\* field, with success it has the field of its mode, no empty piece, and in
\* every mode but "object" all of the subject and the body as one piece.
ResultWhole ==
    pc = "done" =>
        IF result.success
        THEN /\ result.field = Field
             /\ result.type \in {"", format}
             /\ <<>> \notin ToSet(result.pieces)
             /\ mode # "object" => result.pieces \in {<<>>, <<subject \o body>>}
             /\ mode # "object" /\ result.pieces = <<>> => subject \o body = <<>>
        ELSE result.pieces = <<>> /\ result.field = ""
=============================================================================
