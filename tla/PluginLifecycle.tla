-------------------------- MODULE PluginLifecycle --------------------------
(***************************************************************************)
(* The life of the plugin around its shared tokenizer: kInitPlugin starts  *)
(* PDFium and GMime, preemptive Extract calls use them without any lock,   *)
(* every tokenizer that loads starts the llama backend and registers one   *)
(* exit handler, kDeinitPlugin stops the libraries while it holds          *)
(* gchunker_mutex, and the end of the process runs the exit handlers       *)
(* before the destructor of gchunker.                                      *)
(*                                                                         *)
(* The tokenizer's own steps are those of SharedTokenizer.  Whether 4D     *)
(* waits for the commands under way before it sends kDeinitPlugin is not   *)
(* in this code: "drains" is chosen once and for all in Init.              *)
(***************************************************************************)
EXTENDS SharedTokenizer

VARIABLES
    drains,    \* the host sends kDeinitPlugin only when no command runs
    phase,     \* "new" before kInitPlugin, "up", "dead" after static destructors
    pdfium,    \* FPDF_InitLibrary .. FPDF_DestroyLibrary
    gmime,     \* g_mime_init .. g_mime_shutdown
    backend,   \* llama_backend_init .. llama_backend_free
    handlers,  \* the exit handlers make_chunker has registered
    stage,     \* how far the Extract call of each thread is
    opened     \* the documents open in PDFium, each by the thread whose call will
               \* close it; Nobody stands for those that no call will close

libraries == <<pdfium, gmime, backend, handlers>>
calls == <<stage, opened>>
tokenizerVars == vars
lifecycleVars == <<vars, drains, phase, libraries, calls>>

\* A PDFium function is running in these stages, a GMime one in "mime".
PdfiumStage == {"load", "pages", "close"}
InsidePdfium == {e \in Extractor : stage[e] \in PdfiumStage}

LifecycleInit ==
    /\ Init
    /\ drains \in BOOLEAN
    /\ phase = "new"
    /\ pdfium = "down"
    /\ gmime = "down"
    /\ backend = "down"
    /\ handlers = 0
    /\ stage = [e \in Extractor |-> "none"]
    /\ opened = {}

MoveTo(e, s) == stage' = [stage EXCEPT ![e] = s]

\* An exception leaves the call.  No destructor and no handler closes the PDF
\* document: one that is open stays open, and nothing refers to it any more.
Unwound(e) ==
    /\ MoveTo(e, "none")
    /\ opened' = IF e \in opened THEN (opened \ {e}) \cup {Nobody} ELSE opened

OnStartup ==
    /\ phase = "new"
    /\ phase' = "up"
    /\ pdfium' = "up"
    /\ gmime' = "up"
    /\ UNCHANGED <<tokenizerVars, drains, backend, handlers, calls>>

-----------------------------------------------------------------------------
\* Extract.

\* 4D starts no command once it has sent kDeinitPlugin.
BeginCall(e) ==
    /\ stage[e] = "none"
    /\ pc[Host] = "idle"
    /\ MoveTo(e, "read")
    /\ UNCHANGED <<tokenizerVars, drains, phase, libraries, opened>>

\* The options and the file are read; the parser of the input type starts, or
\* there is nothing to parse.
Dispatch(e) ==
    /\ stage[e] = "read"
    /\ \E s \in {"load", "mime", "parse", "none"} : MoveTo(e, s)
    /\ UNCHANGED <<tokenizerVars, drains, phase, libraries, opened>>

LoadDocument(e) ==
    /\ stage[e] = "load"
    /\ \/ MoveTo(e, "pages") /\ opened' = opened \cup {e}
       \/ MoveTo(e, "none") /\ UNCHANGED opened
    /\ UNCHANGED <<tokenizerVars, drains, phase, libraries>>

\* The text is complete: no page, part or stream is open any more, only the
\* PDF document.  Or there was no memory for it.
TextRead(e) ==
    /\ stage[e] \in {"pages", "mime", "parse"}
    /\ \/ MoveTo(e, "render") /\ UNCHANGED opened
       \/ Unwound(e)
    /\ UNCHANGED <<tokenizerVars, drains, phase, libraries>>

\* document_to_json cuts the text into token chunks, or returns text.
Render(e) ==
    /\ stage[e] = "render"
    /\ \/ StartExtract(e)
       \/ UNCHANGED tokenizerVars
    /\ MoveTo(e, "chunking")
    /\ UNCHANGED <<drains, phase, libraries, opened>>

Chunking(e) ==
    /\ stage[e] = "chunking"
    /\ ExtractStep(e)
    /\ UNCHANGED <<drains, phase, libraries, calls>>

\* document_to_json returns, and a PDF document is left to close; or it throws,
\* and the FPDF_CloseDocument behind it is never reached.
Rendered(e) ==
    /\ stage[e] = "chunking"
    /\ pc[e] = "idle"
    /\ \/ e \in opened /\ MoveTo(e, "close") /\ UNCHANGED opened
       \/ e \notin opened /\ MoveTo(e, "none") /\ UNCHANGED opened
       \/ Unwound(e)
    /\ UNCHANGED <<tokenizerVars, drains, phase, libraries>>

\* Mutation: a path of pdfium_parse_data returns without FPDF_CloseDocument.
CloseDocumentForgotten(e) ==
    /\ stage[e] = "close"
    /\ MoveTo(e, "none")
    /\ UNCHANGED <<tokenizerVars, drains, phase, libraries, opened>>

CloseDocument(e) ==
    /\ stage[e] = "close"
    /\ MoveTo(e, "none")
    /\ opened' = opened \ {e}
    /\ UNCHANGED <<tokenizerVars, drains, phase, libraries>>

CallStep(e) == \/ Dispatch(e) \/ LoadDocument(e) \/ TextRead(e) \/ Render(e)
               \/ Chunking(e) \/ Rendered(e) \/ CloseDocument(e)

-----------------------------------------------------------------------------
\* Extract SET OPTION.

BeginLoad(l) ==
    /\ StartLoad(l)
    /\ UNCHANGED <<drains, phase, libraries, calls>>

\* The constructor starts the backend before it can fail; the exit handler is
\* registered after it.
Construct(l) ==
    /\ \/ MakeChunker(l) /\ handlers' = handlers + 1
       \/ MakeFails(l) /\ UNCHANGED handlers
    /\ backend' = "up"
    /\ UNCHANGED <<drains, phase, pdfium, gmime, calls>>

Install(l) ==
    /\ \/ LockUnique(l, "set_chunker")
       \/ SetChunker(l) \/ SetPad(l)
       \/ UnlockUnique(l, "idle")
    /\ UNCHANGED <<drains, phase, libraries, calls>>

-----------------------------------------------------------------------------
\* OnExit, and the end of the process.

Quiet == /\ \A e \in Extractor : stage[e] = "none"
         /\ \A l \in Loader : pc[l] = "idle"

ReceiveDeinit ==
    /\ drains => Quiet
    /\ BeginExit
    /\ UNCHANGED <<drains, phase, libraries, calls>>

DropTokenizer ==
    /\ LockUnique(Host, "reset") \/ ResetChunker
    /\ UNCHANGED <<drains, phase, libraries, calls>>

\* FPDF_DestroyLibrary, then g_mime_shutdown, both under the exclusive lock.
StopLibraries ==
    /\ pc[Host] = "unlock_unique"
    /\ \/ pdfium = "up" /\ pdfium' = "down" /\ UNCHANGED gmime
       \/ pdfium = "down" /\ gmime = "up" /\ gmime' = "down" /\ UNCHANGED pdfium
    /\ UNCHANGED <<tokenizerVars, drains, phase, backend, handlers, calls>>

\* Mutation: OnExit returns without releasing the mutex.
LeaveOnExitLocked ==
    /\ gmime = "down"
    /\ UnlockUniqueForgotten(Host, "exited")
    /\ UNCHANGED <<drains, phase, libraries, calls>>

LeaveOnExit ==
    /\ gmime = "down"
    /\ UnlockUnique(Host, "exited")
    /\ UNCHANGED <<drains, phase, libraries, calls>>

ExitProgress == DropTokenizer \/ StopLibraries \/ LeaveOnExit

\* The handlers run, last registered first; each frees the backend.
RunHandler ==
    /\ pc[Host] = "exited"
    /\ handlers > 0
    /\ handlers' = handlers - 1
    /\ backend' = "down"
    /\ UNCHANGED <<tokenizerVars, drains, phase, pdfium, gmime, calls>>

\* gchunker was constructed before any handler was registered: its destructor
\* runs after all of them, and then no thread is left.
DestroyGlobals ==
    /\ pc[Host] = "exited"
    /\ handlers = 0
    /\ phase' = "dead"
    /\ gchunker' = NoChunker
    /\ useCount' = Dropped(useCount, gchunker)
    /\ UNCHANGED <<pc, gpadtoken_id, mutex, locals, fresh, history,
                   drains, libraries, calls>>

Dead == phase = "dead" /\ UNCHANGED lifecycleVars

LifecycleNext ==
    \/ OnStartup
    \/ /\ phase = "up"
       /\ \/ \E e \in Extractor : BeginCall(e) \/ CallStep(e)
          \/ \E l \in Loader : BeginLoad(l) \/ Construct(l) \/ Install(l)
          \/ ReceiveDeinit
          \/ ExitProgress
          \/ RunHandler
          \/ DestroyGlobals
    \/ Dead

LifecycleSpec == LifecycleInit /\ [][LifecycleNext]_lifecycleVars

\* A call under way goes on and OnExit goes on; nothing forces 4D to start or
\* to end anything.  Weak fairness is enough for the mutex: once the host has
\* begun to exit no call begins, so nobody can be overtaken for ever.
Alive == phase = "up"
FairLifecycleSpec ==
    /\ LifecycleSpec
    /\ \A e \in Extractor : WF_lifecycleVars(Alive /\ CallStep(e))
    /\ \A l \in Loader : WF_lifecycleVars(Alive /\ (Construct(l) \/ Install(l)))
    /\ WF_lifecycleVars(Alive /\ ExitProgress)

-----------------------------------------------------------------------------
\* Properties.

\* A host that waits for the commands under way is enough for the calls: none
\* is inside a library that is down or has a document in one, and by the time
\* the exit handlers free the llama backend every tokenizer, installed, replaced
\* or copied, is destroyed.  For PDFium it is not enough: a document that an
\* exception left open is open when OnExit destroys the library, and only such
\* a document is.
SafeTeardown ==
    drains =>
        /\ InsidePdfium # {} => pdfium = "up"
        /\ pdfium = "down" => opened \subseteq {Nobody}
        /\ (\E e \in Extractor : stage[e] = "mime") => gmime = "up"
        /\ \A c \in Chunker : useCount[c] > 0 => backend = "up"

\* Once the host has begun to exit, drained or not, every Extract under way
\* returns unless the process ends first: it waits for no lock for ever.
CallReturns ==
    \A e \in Extractor :
        stage[e] # "none" /\ pc[Host] # "idle"
            ~> stage[e] = "none" \/ phase = "dead"

\* OnExit gets the exclusive lock and finishes, however many calls it meets.
ExitCompletes == pc[Host] = "lock_unique" ~> pc[Host] = "exited"

\* What PDFium asks of its embedder: one call at a time.
OnePdfiumCallAtATime == Cardinality(InsidePdfium) <= 1
=============================================================================
