------------------------ MODULE ExtractCommandProofs ------------------------
(***************************************************************************)
(* Theorems about ExtractCommand, for any options in the task.             *)
(***************************************************************************)
EXTENDS ExtractCommand, TLAPS

\* The labels of the parsers, and those before them.
Parsing == {"opc_decrypt", "opc_open", "opc_read", "xls_read", "xls_render",
            "pdf_load", "pdf_render", "tidy_parse", "tidy_render",
            "olecf_open", "olecf_read", "eml_read", "eml_render", "txt", "md"}
Before == {"options", "file", "dispatch"}

\* Which parser is at work, and what its earlier steps have established.
PathInv ==
    /\ pc \in Parsing \cup {"dispatch"} => access = "read"
    /\ pc \in {"opc_decrypt", "opc_open", "opc_read"} => it \in Opc
    /\ pc = "opc_read" => content # "broken"
    /\ pc \in {"xls_read", "xls_render"} => it = "xls"
    /\ pc = "xls_render" => content # "broken"
    /\ pc \in {"pdf_load", "pdf_render"} => it = "pdf"
    /\ pc = "pdf_render" => content # "broken"
    /\ pc \in {"tidy_parse", "tidy_render"} => it = "html"
    /\ pc = "tidy_render" => content # "broken"
    /\ pc \in {"olecf_open", "olecf_read"} => it \in Olecf
    /\ pc = "olecf_read" => content # "broken"
    /\ pc \in {"eml_read", "eml_render"} => it = "eml"
    /\ pc = "txt" => it = "txt"
    /\ pc = "md" => it = "md"

\* Until a parser has finished there is no result and nothing was thrown;
\* what is open is closed on every way to the return that does not throw.
ResultInv ==
    /\ pc \in Parsing \cup Before => ~thrown /\ ~obj.success
    /\ pc = "catch" => thrown /\ ~obj.success
    /\ ReturnedAtEnd
    /\ pc \in Before => held = {}
    /\ pc \in {"return", "done"} /\ ~thrown => held = {}

CommandInv == TypeOK /\ PathInv /\ ResultInv

Openable == {"FILE", "container", "xml document", "workbook", "pdf", "tidy",
             "temp file", "olecf file", "stream"}

-----------------------------------------------------------------------------
\* The four ways a parser's step can end preserve the invariant.

\* Failing: nothing stays open.
LEMMA FailStep ==
    ASSUME CommandInv, NEW l \in Parsing, At(l), Fail({})
    PROVE  CommandInv'
<1>1. TypeOK' /\ PathInv'
  BY DEF CommandInv, TypeOK, At, Fail, GoTo, args, PathInv, Parsing
<1>2. ResultInv'
  BY DEF CommandInv, ResultInv, TypeOK, At, Fail, GoTo, Parsing, Before, ReturnedAtEnd
<1> QED BY <1>1, <1>2 DEF CommandInv

\* Throwing: the call goes to the catch clause, without success.
LEMMA ThrowStep ==
    ASSUME CommandInv, NEW l \in Parsing \cup {"file"}, At(l),
           NEW type \in InputType \cup {"", "unknown"},
           NEW open, open \subseteq Openable,
           Throw(type, open)
    PROVE  CommandInv'
<1>1. TypeOK' /\ PathInv'
  BY DEF CommandInv, TypeOK, At, Throw, GoTo, args, PathInv, Parsing, Openable
<1>2. ResultInv'
  BY DEF CommandInv, ResultInv, TypeOK, At, Throw, GoTo, Parsing, Before, ReturnedAtEnd
<1> QED BY <1>1, <1>2 DEF CommandInv

\* The type a result carries is that of the document, or still empty.
LEMMA TypedRange ==
    ASSUME TypeOK, NEW type \in InputType
    PROVE  Typed(type) \in InputType \cup {"", "unknown"}
<1>1. obj.type \in InputType \cup {"", "unknown"}
  BY DEF TypeOK
<1> QED BY <1>1 DEF Typed

\* Succeeding: everything is closed.
LEMMA SucceedStep ==
    ASSUME CommandInv, NEW l \in Parsing, At(l), NEW type \in InputType,
           Succeed(type)
    PROVE  CommandInv'
<1>1. Field \in {"", "documents", "input", "inputs", "pages"}
  BY DEF Field, CommandInv, TypeOK, Mode
<1>2. Typed(type) \in InputType \cup {"", "unknown"}
  BY TypedRange DEF CommandInv
<1>3. TypeOK' /\ PathInv'
  BY <1>1, <1>2 DEF CommandInv, TypeOK, At, Succeed, GoTo, args, PathInv, Parsing
<1>4. ResultInv'
  BY DEF CommandInv, ResultInv, At, Succeed, GoTo, Parsing, Before, ReturnedAtEnd
<1> QED BY <1>3, <1>4 DEF CommandInv

\* Building the result: it succeeds, or throws with what is open.
LEMMA RenderStep ==
    ASSUME CommandInv, NEW l \in Parsing, At(l), NEW type \in InputType,
           Render(type)
    PROVE  CommandInv'
<1>1. Typed(type) \in InputType \cup {"", "unknown"}
  BY TypedRange DEF CommandInv
<1>2. held \subseteq Openable
  BY DEF CommandInv, TypeOK, Openable
<1> QED BY <1>1, <1>2, SucceedStep, ThrowStep DEF Render

\* Throwing with the type the result has so far.
LEMMA ThrowUntyped ==
    ASSUME CommandInv, NEW l \in Parsing \cup {"file"}, At(l), NEW open,
           open \subseteq Openable, Throw(obj.type, open)
    PROVE  CommandInv'
<1>1. obj.type \in InputType \cup {"", "unknown"}
  BY DEF CommandInv, TypeOK
<1> QED BY <1>1, ThrowStep

\* Throwing with the type of the document.
LEMMA ThrowTyped ==
    ASSUME CommandInv, NEW l \in Parsing, At(l), NEW type \in InputType,
           Throw(type, {})
    PROVE  CommandInv'
<1>1. {} \subseteq Openable
  OBVIOUS
<1> QED BY <1>1, ThrowStep

-----------------------------------------------------------------------------
\* The initial states.
LEMMA InitInv == Init => CommandInv
<1> SUFFICES ASSUME Init PROVE CommandInv
  OBVIOUS
<1>1. content \in Contents(it)
  BY DEF Init, Contents, InputType, Opc, Olecf
<1>2. TypeOK
  BY <1>1 DEF Init, TypeOK
<1>3. PathInv /\ ResultInv
  BY DEF Init, PathInv, ResultInv, Parsing, Before, ReturnedAtEnd
<1> QED BY <1>2, <1>3 DEF CommandInv

\* The steps of Extract itself.
LEMMA CommandStep ==
    ASSUME CommandInv,
           ReadOptions \/ ReadFile \/ Dispatch \/ Catch \/ PA_ReturnObject
    PROVE  CommandInv'
<1> USE DEF CommandInv, GoTo, args, Parsing, Before, ReturnedAtEnd
<1>1. CASE ReadOptions
  <2>1. DOMAIN options' = DOMAIN Defaults
    BY <1>1, ZenonT(60) DEF ReadOptions, Defaults, TypeOK
  <2>2. pc' \in {"return", "file"} /\ UNCHANGED <<args, obj, held, thrown, returned>>
    BY <1>1 DEF ReadOptions
  <2>3. pc = "options" /\ (pc' = "file" => access # "no task")
    BY <1>1 DEF ReadOptions
  <2>4. TypeOK'
    BY <2>1, <2>2 DEF TypeOK
  <2>5. PathInv' /\ ResultInv'
    BY <2>2, <2>3 DEF PathInv, ResultInv
  <2> QED BY <2>4, <2>5
<1>2. CASE ReadFile
  <2>1. CASE NoMemory
    <3>1. {"FILE"} \subseteq Openable
      BY DEF Openable
    <3>2. At("file") /\ Throw(obj.type, {"FILE"})
      BY <1>2, <2>1 DEF ReadFile, NoMemory, At
    <3> QED BY <3>1, <3>2, ThrowUntyped
  <2>2. CASE UNCHANGED <<obj, held, thrown>> /\ pc' = IF access = "read" THEN "dispatch" ELSE "return"
    BY <1>2, <2>2 DEF ReadFile, TypeOK, PathInv, ResultInv
  <2> QED BY <1>2, <2>1, <2>2 DEF ReadFile
<1>3. CASE Dispatch
  <2>1. /\ UNCHANGED <<args, options, obj, held, thrown, returned>>
        /\ \/ it \in Opc /\ pc' \in {"opc_decrypt", "opc_open"}
           \/ it \in Olecf /\ pc' = "olecf_open"
           \/ it = "xls" /\ pc' = "xls_read"
           \/ it = "pdf" /\ pc' = "pdf_load"
           \/ it = "html" /\ pc' = "tidy_parse"
           \/ it = "eml" /\ pc' = "eml_read"
           \/ it = "txt" /\ pc' = "txt"
           \/ it = "md" /\ pc' = "md"
           \/ it = "rtf" /\ pc' = "return"
    BY <1>3, ZenonT(60) DEF Dispatch, TypeOK, InputType, Opc, Olecf
  <2>2. pc = "dispatch"
    BY <1>3 DEF Dispatch
  <2> QED BY <2>1, <2>2, ZenonT(60) DEF TypeOK, PathInv, ResultInv
<1>4. CASE Catch
  BY <1>4 DEF Catch, TypeOK, PathInv, ResultInv
<1>5. CASE PA_ReturnObject
  <2>1. /\ pc = "return" /\ pc' = "done"
        /\ returned = 0 /\ returned' = 1
        /\ UNCHANGED <<args, options, obj, held, thrown>>
    BY <1>5 DEF PA_ReturnObject, ResultInv
  <2>2. TypeOK'
    BY <2>1 DEF TypeOK
  <2>3. PathInv' /\ ResultInv'
    BY <2>1 DEF PathInv, ResultInv
  <2> QED BY <2>2, <2>3
<1> QED BY <1>1, <1>2, <1>3, <1>4, <1>5

\* A step that goes on inside the parser.
LEMMA GoOnStep ==
    ASSUME CommandInv, NEW l \in Parsing, At(l),
           UNCHANGED <<obj, thrown>>, held' \subseteq Openable,
           pc' \in Parsing, PathInv'
    PROVE  CommandInv'
<1>1. pc = l /\ UNCHANGED <<args, options, returned, obj, thrown>>
  BY DEF At
<1>2. TypeOK'
  BY <1>1 DEF CommandInv, TypeOK, args, Parsing, Openable
<1>3. ResultInv'
  BY <1>1 DEF CommandInv, ResultInv, ReturnedAtEnd, Parsing, Before
<1> QED BY <1>2, <1>3 DEF CommandInv

\* The steps of the .docx, .pptx and .xlsx parser.
LEMMA OpcStep ==
    ASSUME CommandInv, OpcDecrypt \/ OpcOpen \/ OpcRead
    PROVE  CommandInv'
<1>0. {"opc_decrypt", "opc_open", "opc_read"} \subseteq Parsing /\ {} \subseteq Openable
      /\ {"container"} \subseteq Openable
  BY DEF Parsing, Openable
<1>1. CASE OpcDecrypt
  <2>1. At("opc_decrypt") /\ it \in Opc
    BY <1>1 DEF OpcDecrypt, At, CommandInv, PathInv
  <2>2. CASE GoOn("opc_open", {})
    <3>1. /\ pc' = "opc_open" /\ held' = {}
          /\ UNCHANGED <<args, obj, thrown>>
      BY <2>1, <2>2 DEF GoOn, GoTo, At
    <3>2. PathInv'
      BY <2>1, <2>2, <3>1 DEF CommandInv, PathInv, args, Parsing, At
    <3>3. held' \subseteq Openable
      BY <3>1 DEF Openable
    <3>4. pc' \in Parsing
      BY <3>1 DEF Parsing
    <3> QED BY <1>0, <2>1, <3>1, <3>2, <3>3, <3>4, GoOnStep
  <2>3. CASE GoOn("return", {})
    <3>1. /\ pc = "opc_decrypt" /\ pc' = "return" /\ held' = {}
          /\ UNCHANGED <<args, options, returned, obj, thrown>>
      BY <2>1, <2>3 DEF GoOn, GoTo, At
    <3>2. TypeOK' /\ PathInv'
      BY <3>1 DEF CommandInv, TypeOK, PathInv, args, Parsing
    <3>3. ResultInv'
      BY <3>1 DEF CommandInv, ResultInv, ReturnedAtEnd, Parsing, Before
    <3> QED BY <3>2, <3>3 DEF CommandInv
  <2>4. CASE Throw(obj.type, {})
    BY <1>0, <2>1, <2>4, ThrowUntyped
  <2> QED BY <1>1, <2>2, <2>3, <2>4 DEF OpcDecrypt
<1>2. CASE OpcOpen
  <2>1. At("opc_open") /\ it \in Opc
    BY <1>2 DEF OpcOpen, At, CommandInv, PathInv
  <2>2. CASE Throw(obj.type, {})
    BY <1>0, <2>1, <2>2, ThrowUntyped
  <2>3. CASE Fail({})
    BY <1>0, <2>1, <2>3, FailStep
  <2>4. CASE content # "broken" /\ GoOn("opc_read", {"container"})
    <3>1. /\ pc' = "opc_read" /\ held' = {"container"}
          /\ UNCHANGED <<args, obj, thrown>>
      BY <2>1, <2>4 DEF GoOn, GoTo, At
    <3>2. PathInv'
      BY <2>1, <2>4, <3>1 DEF CommandInv, PathInv, args, Parsing, At
    <3>3. held' \subseteq Openable
      BY <3>1 DEF Openable
    <3>4. pc' \in Parsing
      BY <3>1 DEF Parsing
    <3> QED BY <1>0, <2>1, <3>1, <3>2, <3>3, <3>4, GoOnStep
  <2> QED BY <1>2, <2>2, <2>3, <2>4 DEF OpcOpen
<1>3. CASE OpcRead
  <2>1. At("opc_read") /\ it \in Opc /\ content # "broken"
    BY <1>3 DEF OpcRead, At, CommandInv, PathInv
  <2>2. CASE Fail({})
    BY <1>0, <2>1, <2>2, FailStep
  <2> DEFINE type == IF content = "encrypted" THEN it ELSE content
             reading == held \cup {"xml document"}
  <2>3. held \subseteq Openable /\ reading \subseteq Openable
    BY DEF CommandInv, TypeOK, Openable
  <2>4. content # "other" => type \in InputType
    <3>1. content \in Contents(it)
      BY DEF CommandInv, TypeOK
    <3> QED BY <2>1, <3>1 DEF Contents, Opc, InputType
  <2> HIDE DEF type, reading
  <2>5. CASE Throw(obj.type, held) \/ Throw(obj.type, reading)
    BY <1>0, <2>1, <2>3, <2>5, ThrowUntyped
  <2>6. CASE content # "other" /\ Throw(Typed(type), IF type = "docx" THEN reading ELSE held)
    <3>1. Typed(type) \in InputType \cup {"", "unknown"}
      BY <2>4, <2>6, TypedRange DEF CommandInv
    <3>2. (IF type = "docx" THEN reading ELSE held) \subseteq Openable
      BY <2>3
    <3> QED BY <1>0, <2>1, <2>6, <3>1, <3>2, ThrowStep
  <2>7. CASE content # "other" /\ Succeed(type)
    BY <1>0, <2>1, <2>4, <2>7, SucceedStep
  <2> QED BY <1>3, <2>2, <2>5, <2>6, <2>7 DEF OpcRead, type, reading
<1> QED BY <1>1, <1>2, <1>3

\* The steps of the .xls parser.
LEMMA XlsStep ==
    ASSUME CommandInv, XlsRead \/ XlsRender
    PROVE  CommandInv'
<1>0. {"xls_read", "xls_render"} \subseteq Parsing /\ {} \subseteq Openable
      /\ {"workbook"} \subseteq Openable /\ "xls" \in InputType
  BY DEF Parsing, Openable, InputType
<1>1. CASE XlsRead
  <2>1. At("xls_read") /\ it = "xls"
    BY <1>1 DEF XlsRead, At, CommandInv, PathInv
  <2>2. CASE Fail({})
    BY <1>0, <2>1, <2>2, FailStep
  <2>3. CASE content = "xls" /\ GoOn("xls_render", {})
    <3>1. /\ pc' = "xls_render" /\ held' = {}
          /\ UNCHANGED <<args, obj, thrown>>
      BY <2>1, <2>3 DEF GoOn, GoTo, At
    <3>2. PathInv'
      BY <2>1, <2>3, <3>1 DEF CommandInv, PathInv, args, Parsing, At
    <3>3. held' \subseteq Openable
      BY <3>1 DEF Openable
    <3>4. pc' \in Parsing
      BY <3>1 DEF Parsing
    <3> QED BY <1>0, <2>1, <3>1, <3>2, <3>3, <3>4, GoOnStep
  <2>4. CASE Throw(obj.type, {"workbook"})
    BY <1>0, <2>1, <2>4, ThrowUntyped
  <2> QED BY <1>1, <2>2, <2>3, <2>4 DEF XlsRead
<1>2. CASE XlsRender
  BY <1>0, <1>2, RenderStep DEF XlsRender
<1> QED BY <1>1, <1>2

\* The steps of the .pdf and .html parsers.
LEMMA LibraryStep ==
    ASSUME CommandInv, PdfLoad \/ PdfRender \/ TidyParse \/ TidyRender
    PROVE  CommandInv'
<1>0. /\ {"pdf_load", "pdf_render", "tidy_parse", "tidy_render"} \subseteq Parsing
      /\ {"pdf"} \subseteq Openable /\ {"tidy"} \subseteq Openable
      /\ "pdf" \in InputType /\ "html" \in InputType
  BY DEF Parsing, Openable, InputType
<1>1. held \subseteq Openable
  BY DEF CommandInv, TypeOK, Openable
<1>2. CASE PdfLoad
  <2>1. At("pdf_load") /\ it = "pdf"
    BY <1>2 DEF PdfLoad, At, CommandInv, PathInv
  <2>2. CASE Fail({})
    BY <1>0, <2>1, <2>2, FailStep
  <2>3. CASE content # "broken" /\ GoOn("pdf_render", {"pdf"})
    <3>1. /\ pc' = "pdf_render" /\ held' = {"pdf"}
          /\ UNCHANGED <<args, obj, thrown>>
      BY <2>1, <2>3 DEF GoOn, GoTo, At
    <3>2. PathInv'
      BY <2>1, <2>3, <3>1 DEF CommandInv, PathInv, args, Parsing, At
    <3>3. held' \subseteq Openable
      BY <3>1 DEF Openable
    <3>4. pc' \in Parsing
      BY <3>1 DEF Parsing
    <3> QED BY <1>0, <2>1, <3>1, <3>2, <3>3, <3>4, GoOnStep
  <2> QED BY <1>2, <2>2, <2>3 DEF PdfLoad
<1>3. CASE PdfRender
  BY <1>0, <1>1, <1>3, RenderStep, ThrowUntyped DEF PdfRender
<1>4. CASE TidyParse
  <2>1. At("tidy_parse") /\ it = "html"
    BY <1>4 DEF TidyParse, At, CommandInv, PathInv
  <2>2. CASE Fail({})
    BY <1>0, <2>1, <2>2, FailStep
  <2>3. CASE content # "broken" /\ GoOn("tidy_render", {"tidy"})
    <3>1. /\ pc' = "tidy_render" /\ held' = {"tidy"}
          /\ UNCHANGED <<args, obj, thrown>>
      BY <2>1, <2>3 DEF GoOn, GoTo, At
    <3>2. PathInv'
      BY <2>1, <2>3, <3>1 DEF CommandInv, PathInv, args, Parsing, At
    <3>3. held' \subseteq Openable
      BY <3>1 DEF Openable
    <3>4. pc' \in Parsing
      BY <3>1 DEF Parsing
    <3> QED BY <1>0, <2>1, <3>1, <3>2, <3>3, <3>4, GoOnStep
  <2> QED BY <1>4, <2>2, <2>3 DEF TidyParse
<1>5. CASE TidyRender
  BY <1>0, <1>1, <1>5, RenderStep, ThrowUntyped DEF TidyRender
<1> QED BY <1>2, <1>3, <1>4, <1>5

\* The steps of the .doc, .ppt and .msg parser.
LEMMA OlecfStep ==
    ASSUME CommandInv, OlecfOpen \/ OlecfRead
    PROVE  CommandInv'
<1>0. /\ {"olecf_open", "olecf_read"} \subseteq Parsing
      /\ {"temp file", "olecf file"} \subseteq Openable
  BY DEF Parsing, Openable
<1>1. CASE OlecfOpen
  <2>1. At("olecf_open") /\ it \in Olecf
    BY <1>1 DEF OlecfOpen, At, CommandInv, PathInv
  <2>2. CASE Fail({})
    BY <1>0, <2>1, <2>2, FailStep
  <2>3. CASE content # "broken" /\ GoOn("olecf_read", {"temp file", "olecf file"})
    <3>1. /\ pc' = "olecf_read" /\ held' = {"temp file", "olecf file"}
          /\ UNCHANGED <<args, obj, thrown>>
      BY <2>1, <2>3 DEF GoOn, GoTo, At
    <3>2. PathInv'
      BY <2>1, <2>3, <3>1 DEF CommandInv, PathInv, args, Parsing, At
    <3>3. held' \subseteq Openable
      BY <3>1 DEF Openable
    <3>4. pc' \in Parsing
      BY <3>1 DEF Parsing
    <3> QED BY <1>0, <2>1, <3>1, <3>2, <3>3, <3>4, GoOnStep
  <2> QED BY <1>1, <2>2, <2>3 DEF OlecfOpen
<1>2. CASE OlecfRead
  <2>1. At("olecf_read") /\ it \in Olecf /\ content # "broken"
    BY <1>2 DEF OlecfRead, At, CommandInv, PathInv
  <2>2. CASE Fail({})
    BY <1>0, <2>1, <2>2, FailStep
  <2>3. CASE Throw(obj.type, held)
    <3>1. held \subseteq Openable
      BY DEF CommandInv, TypeOK, Openable
    <3> QED BY <1>0, <2>1, <2>3, <3>1, ThrowUntyped
  <2>4. CASE content # "other" /\ Render(content)
    <3>1. content \in Contents(it)
      BY DEF CommandInv, TypeOK
    <3>2. content \in InputType
      BY <2>1, <2>4, <3>1 DEF Contents, Olecf, Opc, InputType
    <3> QED BY <1>0, <2>1, <2>4, <3>2, RenderStep
  <2> QED BY <1>2, <2>2, <2>3, <2>4 DEF OlecfRead
<1> QED BY <1>1, <1>2

\* The steps of the .eml, .md and .txt parsers.
LEMMA TextStep ==
    ASSUME CommandInv, EmlRead \/ EmlRender \/ MdParse \/ TxtParse
    PROVE  CommandInv'
<1>0. /\ {"eml_read", "eml_render", "md", "txt"} \subseteq Parsing
      /\ {} \subseteq Openable /\ {"stream"} \subseteq Openable
      /\ "eml" \in InputType /\ "md" \in InputType /\ "txt" \in InputType
  BY DEF Parsing, Openable, InputType
<1>1. CASE EmlRead
  <2>1. At("eml_read") /\ it = "eml"
    BY <1>1 DEF EmlRead, At, CommandInv, PathInv
  <2>2. CASE GoOn("eml_render", {})
    <3>1. /\ pc' = "eml_render" /\ held' = {}
          /\ UNCHANGED <<args, obj, thrown>>
      BY <2>1, <2>2 DEF GoOn, GoTo, At
    <3>2. PathInv'
      BY <2>1, <2>2, <3>1 DEF CommandInv, PathInv, args, Parsing, At
    <3>3. held' \subseteq Openable
      BY <3>1 DEF Openable
    <3>4. pc' \in Parsing
      BY <3>1 DEF Parsing
    <3> QED BY <1>0, <2>1, <3>1, <3>2, <3>3, <3>4, GoOnStep
  <2>3. CASE Throw(obj.type, {"stream"})
    BY <1>0, <2>1, <2>3, ThrowUntyped
  <2> QED BY <1>1, <2>2, <2>3 DEF EmlRead
<1>2. CASE EmlRender
  <2>1. At("eml_render")
    BY <1>2 DEF EmlRender
  <2>2. CASE Throw("eml", {})
    BY <1>0, <2>1, <2>2, ThrowTyped
  <2>3. CASE Render("eml")
    BY <1>0, <2>1, <2>3, RenderStep
  <2> QED BY <1>2, <2>2, <2>3 DEF EmlRender
<1>3. CASE MdParse
  BY <1>0, <1>3, RenderStep, ThrowUntyped DEF MdParse
<1>4. CASE TxtParse
  BY <1>0, <1>4, RenderStep DEF TxtParse
<1> QED BY <1>1, <1>2, <1>3, <1>4

-----------------------------------------------------------------------------
\* The invariant holds in every reachable state.
THEOREM CommandCorrect == Spec => []CommandInv
<1>1. CommandInv /\ [Next]_vars => CommandInv'
  <2> SUFFICES ASSUME CommandInv, [Next]_vars PROVE CommandInv'
    OBVIOUS
  <2>1. CASE UNCHANGED vars
    <3>1. TypeOK'
      BY <2>1, ZenonT(60) DEF vars, args, CommandInv, TypeOK
    <3>2. PathInv'
      BY <2>1 DEF vars, args, CommandInv, PathInv
    <3>3. ResultInv'
      BY <2>1 DEF vars, args, CommandInv, ResultInv, ReturnedAtEnd
    <3> QED BY <3>1, <3>2, <3>3 DEF CommandInv
  <2> QED BY <2>1, CommandStep, OpcStep, XlsStep, LibraryStep, OlecfStep, TextStep DEF Next
<1> QED BY <1>1, InitInv, PTL DEF Spec

\* Every reachable state has its types.
THEOREM TypeCorrect == Spec => []TypeOK
<1>1. CommandInv => TypeOK
  BY DEF CommandInv
<1> QED BY <1>1, CommandCorrect, PTL

\* PA_ReturnObject has been called exactly once when the call ends, on every
\* path through every parser.
THEOREM AlwaysReturnedOnce == Spec => []ReturnedAtEnd
<1>1. CommandInv => ReturnedAtEnd
  BY DEF CommandInv, ResultInv
<1> QED BY <1>1, CommandCorrect, PTL

\* Every path that does not throw closes what it opened.
THEOREM ResourcesReleased == Spec => []ReleasedUnlessThrown
<1>1. CommandInv => ReleasedUnlessThrown
  BY DEF CommandInv, ResultInv, ReleasedUnlessThrown
<1> QED BY <1>1, CommandCorrect, PTL

-----------------------------------------------------------------------------
\* Whatever integers the task holds, the chunker gets values in its domain.
THEOREM OptionsAlwaysInRange == Spec => []OptionsInRange
<1>1. Init => OptionsInRange
  <2> SUFFICES ASSUME Init PROVE OptionsInRange
    OBVIOUS
  <2>1. options = Defaults
    BY DEF Init
  <2>2. /\ Defaults.overlap_ratio = 9 /\ Defaults.tokens_length = 1024
        /\ Defaults.max_paragraph_length = -1 /\ Defaults.pooling_mode = 0
    BY DEF Defaults
  <2> QED BY <2>1, <2>2 DEF OptionsInRange
<1>2. TypeOK /\ OptionsInRange /\ [Next]_vars => OptionsInRange'
  <2> SUFFICES ASSUME TypeOK, OptionsInRange, [Next]_vars PROVE OptionsInRange'
    OBVIOUS
  <2>1. CASE ReadOptions /\ access # "no task"
    <3>1. /\ given.max_paragraph_length \in Int \cup {Undefined}
          /\ given.tokens_length \in Int \cup {Undefined}
          /\ given.pooling_mode \in Int \cup {Undefined}
          /\ given.overlap_ratio \in Int \cup {Undefined}
      BY GivenAssumption DEF TypeOK
    <3>2. options' = [max_paragraph_length |-> Positive(given.max_paragraph_length, -1),
                      tokens_length |-> Positive(given.tokens_length, 1024),
                      pooling_mode |-> Positive(given.pooling_mode, 0),
                      overlap_ratio |-> Ratio(given.overlap_ratio)]
      BY <2>1 DEF ReadOptions
    <3>3. options'.max_paragraph_length = -1 \/ options'.max_paragraph_length > 0
      BY <3>1, <3>2 DEF Positive
    <3>4. options'.tokens_length > 0
      BY <3>1, <3>2 DEF Positive
    <3>5. options'.pooling_mode >= 0
      BY <3>1, <3>2 DEF Positive
    <3>6. 0 < options'.overlap_ratio /\ options'.overlap_ratio < 100
      BY <3>1, <3>2 DEF Ratio, Defaults
    <3> QED BY <3>3, <3>4, <3>5, <3>6 DEF OptionsInRange
  <2>2. CASE options' = options
    BY <2>2 DEF OptionsInRange
  <2>3. ReadOptions /\ access = "no task" => options' = options
    BY DEF ReadOptions
  <2>4. ReadFile \/ Dispatch \/ Catch \/ PA_ReturnObject \/ UNCHANGED vars
          => options' = options
    BY DEF ReadFile, Dispatch, Catch, PA_ReturnObject, vars
  <2>5. ASSUME \/ OpcDecrypt \/ OpcOpen \/ OpcRead \/ XlsRead \/ XlsRender \/ PdfLoad
               \/ PdfRender \/ TidyParse \/ TidyRender \/ OlecfOpen \/ OlecfRead
               \/ EmlRead \/ EmlRender \/ MdParse \/ TxtParse
        PROVE  options' = options
    BY <2>5 DEF OpcDecrypt, OpcOpen, OpcRead, XlsRead, XlsRender, PdfLoad, PdfRender,
           TidyParse, TidyRender, OlecfOpen, OlecfRead, EmlRead, EmlRender,
           MdParse, TxtParse, At
  <2>6. ReadOptions \/ options' = options
    BY <2>4, <2>5 DEF Next
  <2> QED BY <2>1, <2>2, <2>3, <2>6
<1> QED BY <1>1, <1>2, TypeCorrect, PTL DEF Spec

-----------------------------------------------------------------------------
\* A parser that renders is one that could read what it was given.
LEMMA SuccessStep ==
    ASSUME CommandInv, SuccessMeansParsed, NEW l \in Parsing, At(l),
           content # "other",
           content = "broken" => it \in {"txt", "md", "eml"},
           NEW type, Succeed(type)
    PROVE  SuccessMeansParsed'
<1>1. /\ UNCHANGED <<it, ot, access, content, thrown>>
      /\ obj' = [success |-> TRUE, type |-> Typed(type), field |-> Field]
      /\ pc = l
  BY DEF At, Succeed, args
<1>2. access = "read" /\ ~thrown
  BY <1>1 DEF CommandInv, PathInv, ResultInv
<1>3. Field' = Field
  BY <1>1 DEF Field
<1>4. obj'.success /\ obj'.field = Field'
  BY <1>1, <1>3
<1> QED BY <1>1, <1>2, <1>4 DEF SuccessMeansParsed

\* Failing, throwing and going on leave an unsuccessful result without chunks.
LEMMA NoSuccessStep ==
    ASSUME CommandInv, SuccessMeansParsed, NEW l \in Parsing, At(l),
           \/ Fail({})
           \/ \E type \in InputType \cup {"", "unknown"} :
                 obj' = [obj EXCEPT !.type = type]
           \/ obj' = obj
    PROVE  SuccessMeansParsed'
<1>1. ~obj.success /\ obj.field = ""
  BY DEF At, CommandInv, ResultInv, SuccessMeansParsed
<1>2. ~obj'.success /\ obj'.field = ""
  BY <1>1 DEF Fail, CommandInv, TypeOK
<1> QED BY <1>2 DEF SuccessMeansParsed

\* Rendering either succeeds or throws.
LEMMA RenderedStep ==
    ASSUME CommandInv, SuccessMeansParsed, NEW l \in Parsing, At(l),
           content # "other",
           content = "broken" => it \in {"txt", "md", "eml"},
           NEW type \in InputType, Render(type)
    PROVE  SuccessMeansParsed'
<1>1. CASE Succeed(type)
  BY <1>1, SuccessStep
<1>2. CASE Throw(Typed(type), held)
  <2>1. Typed(type) \in InputType \cup {"", "unknown"}
    BY TypedRange DEF CommandInv
  <2>2. obj' = [obj EXCEPT !.type = Typed(type)]
    BY <1>2 DEF Throw
  <2> QED BY <2>1, <2>2, NoSuccessStep
<1> QED BY <1>1, <1>2 DEF Render

\* The steps of the container formats.
LEMMA OpcSuccess ==
    ASSUME CommandInv, SuccessMeansParsed, OpcDecrypt \/ OpcOpen \/ OpcRead
    PROVE  SuccessMeansParsed'
<1>0. {"opc_decrypt", "opc_open", "opc_read"} \subseteq Parsing
  BY DEF Parsing
<1>1. obj.type \in InputType \cup {"", "unknown"}
  BY DEF CommandInv, TypeOK
<1>2. CASE OpcDecrypt
  <2>1. obj' = obj \/ obj' = [obj EXCEPT !.type = obj.type]
    BY <1>2 DEF OpcDecrypt, GoOn, Throw
  <2> QED BY <1>0, <1>1, <1>2, <2>1, NoSuccessStep DEF OpcDecrypt
<1>3. CASE OpcOpen
  <2>1. Fail({}) \/ obj' = obj \/ obj' = [obj EXCEPT !.type = obj.type]
    BY <1>3 DEF OpcOpen, GoOn, Throw
  <2> QED BY <1>0, <1>1, <1>3, <2>1, NoSuccessStep DEF OpcOpen
<1>4. CASE OpcRead
  <2>1. At("opc_read") /\ it \in Opc /\ content # "broken"
    BY <1>4 DEF OpcRead, At, CommandInv, PathInv
  <2>2. CASE Fail({})
    BY <1>0, <2>1, <2>2, NoSuccessStep
  <2> DEFINE type == IF content = "encrypted" THEN it ELSE content
             reading == held \cup {"xml document"}
  <2>3. content # "other" => type \in InputType
    <3>1. content \in Contents(it)
      BY DEF CommandInv, TypeOK
    <3> QED BY <2>1, <3>1 DEF Contents, Opc, InputType
  <2> HIDE DEF type, reading
  <2>4. CASE Throw(obj.type, held) \/ Throw(obj.type, reading)
    <3>1. obj' = [obj EXCEPT !.type = obj.type]
      BY <2>4 DEF Throw
    <3> QED BY <1>0, <1>1, <2>1, <3>1, NoSuccessStep
  <2>5. CASE content # "other" /\ Throw(Typed(type), IF type = "docx" THEN reading ELSE held)
    <3>1. Typed(type) \in InputType \cup {"", "unknown"}
      BY <2>3, <2>5, TypedRange DEF CommandInv
    <3>2. obj' = [obj EXCEPT !.type = Typed(type)]
      BY <2>5 DEF Throw
    <3> QED BY <1>0, <2>1, <3>1, <3>2, NoSuccessStep
  <2>6. CASE content # "other" /\ Succeed(type)
    BY <1>0, <2>1, <2>3, <2>6, SuccessStep
  <2> QED BY <1>4, <2>2, <2>4, <2>5, <2>6 DEF OpcRead, type, reading
<1> QED BY <1>2, <1>3, <1>4

\* The steps of the OLE compound formats.
LEMMA OlecfSuccess ==
    ASSUME CommandInv, SuccessMeansParsed, OlecfOpen \/ OlecfRead
    PROVE  SuccessMeansParsed'
<1>0. {"olecf_open", "olecf_read"} \subseteq Parsing
  BY DEF Parsing
<1>1. obj.type \in InputType \cup {"", "unknown"}
  BY DEF CommandInv, TypeOK
<1>2. CASE OlecfOpen
  <2>1. Fail({}) \/ obj' = obj
    BY <1>2 DEF OlecfOpen, GoOn
  <2> QED BY <1>0, <1>2, <2>1, NoSuccessStep DEF OlecfOpen
<1>3. CASE OlecfRead
  <2>1. At("olecf_read") /\ it \in Olecf /\ content # "broken"
    BY <1>3 DEF OlecfRead, At, CommandInv, PathInv
  <2>2. CASE Fail({})
    BY <1>0, <2>1, <2>2, NoSuccessStep
  <2>3. CASE Throw(obj.type, held)
    <3>1. obj' = [obj EXCEPT !.type = obj.type]
      BY <2>3 DEF Throw
    <3> QED BY <1>0, <1>1, <2>1, <3>1, NoSuccessStep
  <2>4. CASE content # "other" /\ Render(content)
    <3>1. content \in Contents(it)
      BY DEF CommandInv, TypeOK
    <3>2. content \in InputType
      BY <2>1, <2>4, <3>1 DEF Contents, Olecf, Opc, InputType
    <3> QED BY <1>0, <2>1, <2>4, <3>2, RenderedStep
  <2> QED BY <1>3, <2>2, <2>3, <2>4 DEF OlecfRead
<1> QED BY <1>2, <1>3

\* The steps of the other formats that can find their file broken.
LEMMA LibrarySuccess ==
    ASSUME CommandInv, SuccessMeansParsed,
           \/ XlsRead \/ XlsRender \/ PdfLoad \/ PdfRender
           \/ TidyParse \/ TidyRender
    PROVE  SuccessMeansParsed'
<1>0. /\ {"xls_read", "xls_render", "pdf_load", "pdf_render",
           "tidy_parse", "tidy_render"} \subseteq Parsing
      /\ "xls" \in InputType /\ "pdf" \in InputType /\ "html" \in InputType
  BY DEF Parsing, InputType
<1>1. obj.type \in InputType \cup {"", "unknown"}
  BY DEF CommandInv, TypeOK
<1>2. content \in Contents(it)
  BY DEF CommandInv, TypeOK
<1>3. CASE XlsRead
  <2>1. Fail({}) \/ obj' = obj \/ obj' = [obj EXCEPT !.type = obj.type]
    BY <1>3 DEF XlsRead, GoOn, Throw
  <2> QED BY <1>0, <1>1, <1>3, <2>1, NoSuccessStep DEF XlsRead
<1>4. CASE PdfLoad
  <2>1. Fail({}) \/ obj' = obj
    BY <1>4 DEF PdfLoad, GoOn
  <2> QED BY <1>0, <1>4, <2>1, NoSuccessStep DEF PdfLoad
<1>5. CASE TidyParse
  <2>1. Fail({}) \/ obj' = obj
    BY <1>5 DEF TidyParse, GoOn
  <2> QED BY <1>0, <1>5, <2>1, NoSuccessStep DEF TidyParse
<1>6. CASE XlsRender
  <2>1. At("xls_render") /\ Render("xls")
    BY <1>6 DEF XlsRender
  <2>2. it = "xls" /\ content # "broken"
    BY <2>1 DEF At, CommandInv, PathInv
  <2>3. content # "other"
    BY <1>2, <2>2 DEF Contents, Opc, Olecf
  <2> QED BY <1>0, <2>1, <2>2, <2>3, RenderedStep
<1>7. CASE PdfRender
  <2>1. At("pdf_render") /\ (Render("pdf") \/ Throw(obj.type, held))
    BY <1>7 DEF PdfRender
  <2>2. it = "pdf" /\ content # "broken"
    BY <2>1 DEF At, CommandInv, PathInv
  <2>3. content # "other"
    BY <1>2, <2>2 DEF Contents, Opc, Olecf
  <2>4. Throw(obj.type, held) => obj' = [obj EXCEPT !.type = obj.type]
    BY DEF Throw
  <2> QED BY <1>0, <1>1, <2>1, <2>2, <2>3, <2>4, RenderedStep, NoSuccessStep
<1>8. CASE TidyRender
  <2>1. At("tidy_render") /\ (Render("html") \/ Throw(obj.type, held))
    BY <1>8 DEF TidyRender
  <2>2. it = "html" /\ content # "broken"
    BY <2>1 DEF At, CommandInv, PathInv
  <2>3. content # "other"
    BY <1>2, <2>2 DEF Contents, Opc, Olecf
  <2>4. Throw(obj.type, held) => obj' = [obj EXCEPT !.type = obj.type]
    BY DEF Throw
  <2> QED BY <1>0, <1>1, <2>1, <2>2, <2>3, <2>4, RenderedStep, NoSuccessStep
<1> QED BY <1>3, <1>4, <1>5, <1>6, <1>7, <1>8

\* The steps of the formats for which any bytes are a document.
LEMMA TextSuccess ==
    ASSUME CommandInv, SuccessMeansParsed,
           EmlRead \/ EmlRender \/ MdParse \/ TxtParse
    PROVE  SuccessMeansParsed'
<1>0. /\ {"eml_read", "eml_render", "md", "txt"} \subseteq Parsing
      /\ "eml" \in InputType /\ "md" \in InputType /\ "txt" \in InputType
  BY DEF Parsing, InputType
<1>1. obj.type \in InputType \cup {"", "unknown"}
  BY DEF CommandInv, TypeOK
<1>2. content \in Contents(it)
  BY DEF CommandInv, TypeOK
<1>3. CASE EmlRead
  <2>1. obj' = obj \/ obj' = [obj EXCEPT !.type = obj.type]
    BY <1>3 DEF EmlRead, GoOn, Throw
  <2> QED BY <1>0, <1>1, <1>3, <2>1, NoSuccessStep DEF EmlRead
<1>4. CASE EmlRender
  <2>1. At("eml_render") /\ (Throw("eml", {}) \/ Render("eml"))
    BY <1>4 DEF EmlRender
  <2>2. it = "eml"
    BY <2>1 DEF At, CommandInv, PathInv
  <2>3. content # "other"
    BY <1>2, <2>2 DEF Contents, Opc, Olecf
  <2>4. CASE Throw("eml", {})
    <3>1. obj' = [obj EXCEPT !.type = "eml"] /\ "eml" \in InputType \cup {"", "unknown"}
      BY <1>0, <2>4 DEF Throw
    <3> QED BY <1>0, <2>1, <3>1, NoSuccessStep
  <2>5. CASE Render("eml")
    BY <1>0, <2>1, <2>2, <2>3, <2>5, RenderedStep
  <2> QED BY <2>1, <2>4, <2>5
<1>5. CASE MdParse
  <2>1. At("md") /\ (Render("md") \/ Throw(obj.type, {}))
    BY <1>5 DEF MdParse
  <2>2. it = "md"
    BY <2>1 DEF At, CommandInv, PathInv
  <2>3. content # "other"
    BY <1>2, <2>2 DEF Contents, Opc, Olecf
  <2>4. Throw(obj.type, {}) => obj' = [obj EXCEPT !.type = obj.type]
    BY DEF Throw
  <2> QED BY <1>0, <1>1, <2>1, <2>2, <2>3, <2>4, RenderedStep, NoSuccessStep
<1>6. CASE TxtParse
  <2>1. At("txt") /\ Render("txt")
    BY <1>6 DEF TxtParse
  <2>2. it = "txt"
    BY <2>1 DEF At, CommandInv, PathInv
  <2>3. content # "other"
    BY <1>2, <2>2 DEF Contents, Opc, Olecf
  <2> QED BY <1>0, <2>1, <2>2, <2>3, RenderedStep
<1> QED BY <1>3, <1>4, <1>5, <1>6

\* Success is reported only for a call that read and parsed its file without
\* an exception, and an unsuccessful result has no chunks in it.
THEOREM SuccessAfterParse == Spec => []SuccessMeansParsed
<1>1. Init => SuccessMeansParsed
  <2> SUFFICES ASSUME Init PROVE SuccessMeansParsed
    OBVIOUS
  <2>1. obj = [success |-> FALSE, type |-> "", field |-> ""]
    BY DEF Init
  <2>2. ~obj.success /\ obj.field = ""
    BY <2>1
  <2> QED BY <2>2 DEF SuccessMeansParsed
<1>2. CommandInv /\ SuccessMeansParsed /\ [Next]_vars => SuccessMeansParsed'
  <2> SUFFICES ASSUME CommandInv, SuccessMeansParsed, [Next]_vars
               PROVE  SuccessMeansParsed'
    OBVIOUS
  <2>1. CASE UNCHANGED <<args, obj, thrown>>
    BY <2>1 DEF SuccessMeansParsed, Field, args
  <2>2. ReadOptions \/ Dispatch \/ Catch \/ PA_ReturnObject
          \/ (ReadFile /\ ~NoMemory)
          => UNCHANGED <<args, obj, thrown>>
    BY DEF ReadOptions, ReadFile, Dispatch, Catch, PA_ReturnObject
  <2>4. CASE ReadFile /\ NoMemory
    <3>1. obj' = [obj EXCEPT !.type = obj.type] /\ ~obj.success
      BY <2>4 DEF ReadFile, NoMemory, Throw, CommandInv, ResultInv, Before
    <3>2. obj'.success = obj.success /\ obj'.field = obj.field
      BY <3>1 DEF CommandInv, TypeOK
    <3> QED BY <3>1, <3>2 DEF SuccessMeansParsed
  <2>3. UNCHANGED vars => UNCHANGED <<args, obj, thrown>>
    BY DEF vars
  <2> QED BY <2>1, <2>2, <2>3, <2>4, OpcSuccess, OlecfSuccess, LibrarySuccess, TextSuccess DEF Next
<1> QED BY <1>1, <1>2, CommandCorrect, PTL DEF Spec
=============================================================================
