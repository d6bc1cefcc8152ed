--------------------------- MODULE ExtractCommand ---------------------------
(***************************************************************************)
(* One call of the Extract command, from its parameters to PA_ReturnObject:*)
(* options, reading the file, the dispatch on documentType, each parser's  *)
(* ways to succeed, to fail and to throw, and the resources it holds.      *)
(* What a parser puts into the result is left to the assembly modules.     *)
(***************************************************************************)
EXTENDS Integers, FiniteSets

CONSTANTS
    Undefined,   \* a property the task does not have
    Given        \* the options a task may come with; ratios in percent

ASSUME GivenAssumption ==
    /\ Undefined \notin Int
    /\ Given \subseteq [max_paragraph_length : Int \cup {Undefined},
                        tokens_length : Int \cup {Undefined},
                        pooling_mode : Int \cup {Undefined},
                        overlap_ratio : Int \cup {Undefined},
                        password : BOOLEAN]

Mode == {"text", "collection", "collections", "object"}
InputType == {"xlsx", "docx", "pptx", "xls", "doc", "ppt", "pdf", "msg",
              "eml", "rtf", "html", "txt", "md"}
Opc == {"xlsx", "docx", "pptx"}
Olecf == {"doc", "ppt", "msg"}

\* What is in the file: a container says itself what it contains; "broken" is
\* what the parser's library refuses.
Contents(it) == IF it \in Opc THEN Opc \cup {"other", "broken", "encrypted"}
                ELSE IF it \in Olecf THEN Olecf \cup {"other", "broken"}
                ELSE {it, "broken"}

\* How far reading the file gets.
Access == {"no task", "no file", "no path", "cannot open", "ftell fails",
           "nothing read", "read"}

VARIABLES
    it, ot,     \* documentType and outputFormat
    given,      \* the options in the task
    access,     \* what happens to the file
    content,    \* what is in it
    pc,         \* where the call is
    options,    \* the options after the defaults are applied
    obj,        \* the result object
    held,       \* what the parser has open
    thrown,     \* an exception has left the parser
    returned    \* how often PA_ReturnObject was called

args == <<it, ot, given, access, content>>
vars == <<args, pc, options, obj, held, thrown, returned>>

Defaults == [max_paragraph_length |-> -1, tokens_length |-> 1024,
             pooling_mode |-> 0, overlap_ratio |-> 9]

Init ==
    /\ it \in InputType
    /\ ot \in Mode
    /\ given \in Given
    /\ access \in Access
    /\ content \in IF access = "read" THEN Contents(it) ELSE {it}
    /\ pc = "options"
    /\ options = Defaults
    /\ obj = [success |-> FALSE, type |-> "", field |-> ""]
    /\ held = {}
    /\ thrown = FALSE
    /\ returned = 0

GoTo(l) == pc' = l

\* An exception leaves through all cleanup code there is: what was open stays.
Throw(type, open) ==
    /\ obj' = [obj EXCEPT !.type = type]
    /\ held' = open
    /\ thrown' = TRUE
    /\ GoTo("catch")

\* A number counts only if it is positive.
Positive(x, default) == IF x = Undefined THEN default
                        ELSE IF x > 0 THEN x ELSE default

\* Mutation: the ends of the range are let through.
RatioInclusive(x) == IF x = Undefined THEN Defaults.overlap_ratio
                     ELSE IF 0 <= x /\ x <= 100 THEN x ELSE Defaults.overlap_ratio

Ratio(x) == IF x = Undefined THEN Defaults.overlap_ratio
            ELSE IF 0 < x /\ x < 100 THEN x ELSE Defaults.overlap_ratio

ReadOptions ==
    /\ pc = "options"
    /\ IF access = "no task"
       THEN /\ GoTo("return")
            /\ UNCHANGED options
       ELSE /\ options' = [max_paragraph_length |-> Positive(given.max_paragraph_length, -1),
                           tokens_length |-> Positive(given.tokens_length, 1024),
                           pooling_mode |-> Positive(given.pooling_mode, 0),
                           overlap_ratio |-> Ratio(given.overlap_ratio)]
            /\ GoTo("file")
    /\ UNCHANGED <<args, obj, held, thrown, returned>>

\* There may be no memory for the file's bytes, while it is open.
NoMemory == access \in {"nothing read", "read"} /\ Throw(obj.type, {"FILE"})

\* Mutation: an empty buffer is parsed.
ReadFileUnchecked ==
    /\ pc = "file"
    /\ \/ NoMemory
       \/ /\ GoTo(IF access = "no file" THEN "return" ELSE "dispatch")
          /\ UNCHANGED <<obj, held, thrown>>
    /\ UNCHANGED <<args, options, returned>>

\* Without a file, or without a byte of it, nothing is dispatched.
ReadFile ==
    /\ pc = "file"
    /\ \/ NoMemory
       \/ /\ GoTo(IF access = "read" THEN "dispatch" ELSE "return")
          /\ UNCHANGED <<obj, held, thrown>>
    /\ UNCHANGED <<args, options, returned>>

\* The switch on documentType has no case for .rtf.
Dispatch ==
    /\ pc = "dispatch"
    /\ GoTo(CASE it \in Opc -> IF given.password /\ content \in {"encrypted", "broken"}
                               THEN "opc_decrypt" ELSE "opc_open"
              [] it \in Olecf -> "olecf_open"
              [] it = "xls" -> "xls_read"
              [] it = "pdf" -> "pdf_load"
              [] it = "html" -> "tidy_parse"
              [] it = "eml" -> "eml_read"
              [] it = "txt" -> "txt"
              [] it = "md" -> "md"
              [] it = "rtf" -> "return")
    /\ UNCHANGED <<args, options, obj, held, thrown, returned>>

-----------------------------------------------------------------------------
\* The parsers: at label l, each of them fails, throws or goes on.

Field == CASE ot = "text" -> "documents" [] ot = "collection" -> "input"
           [] ot = "collections" -> "inputs" [] ot = "object" -> "pages"
\* Mutation: the format is written where the type belongs.
TypedAsMode(type) == IF ot = "text" THEN obj.type ELSE ot

Typed(type) == IF ot = "text" THEN obj.type ELSE type

\* Mutation: failing leaves open what was open.
FailKeepsOpen(keep) ==
    /\ obj' = [obj EXCEPT !.type = "unknown"]
    /\ held' = held
    /\ GoTo("return")
    /\ UNCHANGED thrown

\* "finally": the type becomes unknown, success stays false.
Fail(keep) ==
    /\ obj' = [obj EXCEPT !.type = "unknown"]
    /\ held' = keep
    /\ GoTo("return")
    /\ UNCHANGED thrown

GoOn(l, open) ==
    /\ held' = open
    /\ GoTo(l)
    /\ UNCHANGED <<obj, thrown>>

Succeed(type) ==
    /\ obj' = [success |-> TRUE, type |-> Typed(type), field |-> Field]
    /\ held' = {}
    /\ GoTo("return")
    /\ UNCHANGED thrown

\* document_to_json sets the type first, then builds the rest.
Render(type) == Succeed(type) \/ Throw(Typed(type), held)

At(l) == pc = l /\ UNCHANGED <<args, options, returned>>

\* Not a zip file: it must be an encrypted package.  A wrong password returns
\* at once, before anything is set.
OpcDecrypt ==
    /\ At("opc_decrypt")
    /\ \/ GoOn("opc_open", {})
       \/ GoOn("return", {})
       \/ Throw(obj.type, {})

OpcOpen ==
    /\ At("opc_open")
    /\ \/ Throw(obj.type, {})
       \/ content = "broken" /\ Fail({})
       \/ content = "encrypted" /\ ~given.password /\ Fail({})
       \/ content # "broken" /\ (content = "encrypted" => given.password)
             /\ GoOn("opc_read", {"container"})

\* The part found in the container decides, not documentType; the xml of a
\* .docx may be unreadable, and stays open until its result is built.
OpcRead ==
    /\ At("opc_read")
    /\ IF content = "other" THEN Fail({})
       ELSE LET type == IF content = "encrypted" THEN it ELSE content
                reading == held \cup {"xml document"}
            IN  \/ type = "docx" /\ Fail({})
                \/ Throw(obj.type, held) \/ Throw(obj.type, reading)
                \/ Throw(Typed(type), IF type = "docx" THEN reading ELSE held)
                \/ Succeed(type)

\* The workbook is closed before the result is built.
XlsRead ==
    /\ At("xls_read")
    /\ \/ content = "broken" /\ Fail({})
       \/ content = "xls" /\ (GoOn("xls_render", {}) \/ Throw(obj.type, {"workbook"}))

XlsRender == At("xls_render") /\ Render("xls")

PdfLoad ==
    /\ At("pdf_load")
    /\ IF content = "broken" THEN Fail({}) ELSE GoOn("pdf_render", {"pdf"})

PdfRender == At("pdf_render") /\ (Render("pdf") \/ Throw(obj.type, held))

TidyParse ==
    /\ At("tidy_parse")
    /\ IF content = "broken" THEN Fail({}) ELSE GoOn("tidy_render", {"tidy"})

TidyRender == At("tidy_render") /\ (Render("html") \/ Throw(obj.type, held))

\* The data goes through a temporary file, which exists from here on even if
\* it could not be written.
OlecfOpen ==
    /\ At("olecf_open")
    /\ IF content = "broken"
       THEN Fail({})
       ELSE GoOn("olecf_read", {"temp file", "olecf file"}) \/ Fail({})

\* process_root looks for the streams; what it finds decides.
OlecfRead ==
    /\ At("olecf_read")
    /\ \/ content = "other" /\ Fail({})
       \/ content # "other" /\ (Render(content) \/ Throw(obj.type, held))

\* The stream is released before the result is built; a file without a
\* message in it makes an empty document.
EmlRead ==
    /\ At("eml_read")
    /\ GoOn("eml_render", {}) \/ Throw(obj.type, {"stream"})

\* Object mode throws whenever there was a message (module TextAssembly).
EmlRender ==
    /\ At("eml_render")
    /\ IF ot = "object" /\ content = "eml"
       THEN Throw("eml", {})
       ELSE Render("eml")

MdParse == At("md") /\ (Render("md") \/ Throw(obj.type, {}))

TxtParse == At("txt") /\ Render("txt")

-----------------------------------------------------------------------------
\* Mutation: the exception ends the call in PluginMain, without a return value.
CatchWithoutReturn ==
    /\ pc = "catch"
    /\ GoTo("done")
    /\ UNCHANGED <<args, options, obj, held, thrown, returned>>

\* Either catch clause logs and falls through to the return.
Catch ==
    /\ pc = "catch"
    /\ GoTo("return")
    /\ UNCHANGED <<args, options, obj, held, thrown, returned>>

PA_ReturnObject ==
    /\ pc = "return"
    /\ returned' = returned + 1
    /\ GoTo("done")
    /\ UNCHANGED <<args, options, obj, held, thrown>>

Next == \/ ReadOptions \/ ReadFile \/ Dispatch
        \/ OpcDecrypt \/ OpcOpen \/ OpcRead \/ XlsRead \/ XlsRender
        \/ PdfLoad \/ PdfRender \/ TidyParse \/ TidyRender
        \/ OlecfOpen \/ OlecfRead \/ EmlRead \/ EmlRender
        \/ MdParse \/ TxtParse \/ Catch \/ PA_ReturnObject

Spec == Init /\ [][Next]_vars

-----------------------------------------------------------------------------
\* Properties.

\* Every variable has its type.
TypeOK ==
    /\ it \in InputType
    /\ ot \in Mode
    /\ given \in Given
    /\ access \in Access
    /\ content \in Contents(it)
    /\ pc \in {"options", "file", "dispatch", "opc_decrypt", "opc_open",
               "opc_read", "xls_read", "xls_render", "pdf_load", "pdf_render",
               "tidy_parse", "tidy_render", "olecf_open", "olecf_read",
               "eml_read", "eml_render", "txt", "md", "catch", "return", "done"}
    /\ DOMAIN options = DOMAIN Defaults
    /\ obj \in [success : BOOLEAN, type : InputType \cup {"", "unknown"},
                field : {"", "documents", "input", "inputs", "pages"}]
    /\ held \subseteq {"FILE", "container", "xml document", "workbook", "pdf", "tidy",
                       "temp file", "olecf file", "stream"}
    /\ thrown \in BOOLEAN
    /\ returned \in {0, 1}

\* Whatever the task says, the chunker is called with values it is defined
\* for: a ratio strictly between 0 and 1, a positive length, a limit that is
\* positive or absent (the assumptions of ParagraphChunks).
OptionsInRange ==
    /\ 0 < options.overlap_ratio /\ options.overlap_ratio < 100
    /\ options.tokens_length > 0
    /\ options.max_paragraph_length = -1 \/ options.max_paragraph_length > 0
    /\ options.pooling_mode >= 0

\* 4D waits for exactly one PA_ReturnObject: none is missing and none is
\* doubled on any path, thrown or not.
ReturnedAtEnd == returned = IF pc = "done" THEN 1 ELSE 0

\* The result never says success for a call that threw, that read nothing or
\* whose file is not what the parser's family of formats reads, and an
\* unsuccessful one has no chunks in it.
SuccessMeansParsed ==
    /\ obj.success => /\ ~thrown
                      /\ access = "read"
                      /\ content # "other"
                      /\ content = "broken" => it \in {"txt", "md", "eml"}
                      /\ obj.field = Field
    /\ ~obj.success => obj.field = ""

\* A call that did not throw leaves nothing open: no container, no document,
\* no temporary file, on success and on every failure path.
ReleasedUnlessThrown == pc = "done" /\ ~thrown => held = {}
=============================================================================
