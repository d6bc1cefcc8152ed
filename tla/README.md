# Formal models of the document-extraction plugin

TLA+ models of `4d-plugin-extract`: a 4D plugin that reads a document (.docx,
.xlsx, .pptx, .xls, .doc, .ppt, .msg, .pdf, .html, .txt, .md, .eml), takes its
text apart and, with the tokenizer of a GGUF model, cuts the text into token
windows for an embeddings service. Bounded instances are checked with TLC,
general theorems are proved with TLAPS.

```
cd tla
tlc -workers 2 -config SharedTokenizer.cfg MCSharedTokenizer
tlapm PluginLifecycleProofs.tla
```

File names below are relative to `src/`; `Plugin.cpp` stands for
`4DPlugin-Universal-Document-Parser.cpp`.

## 1. Inventory

### 1.1 Parts, state and operations

| Part | State | Operations | What makes it correct |
|-|-|-|-|
| Shared tokenizer (`Plugin.cpp`) | globals `gchunker` (a `shared_ptr`), `gpadtoken_id`, `gchunker_mutex` | snapshot in `process_paragraphs`, replacement in `Extract_SET_OPTION`, reset in `OnExit` | a snapshot is one tokenizer with its own padding token and not an outdated one; no use after free, no leak, no deadlock |
| Paragraph chunking (`process_paragraphs`, `build_chunks`) | loop locals and the collection | tokenize a paragraph, cut windows with overlap, pad the tail | no token lost, exact overlap, exact size, termination |
| `LlamaChunker` (`chunker.cpp`) | vocabulary, `pad_token_id_` | `chunk`, `chunk_batch`, `discover_pad_token`, tokenize, detokenize | buckets of exact size, contiguous, loss bounded, statistics and sequence ids consistent |
| `Extract` (`Plugin.cpp`) | parameters, the result object | options, reading the file, dispatch, exception handling | one return value on every path; options in range; resources released; success tells the truth |
| Page parsers (`opc-parser`, `olecf-parser`, `pdfium-parser`) | document, pages, paragraphs | parse, `document_to_json` | every kept text exactly once, in order, groups within the limit, right page numbers |
| Sheet parsers (`xls-parser`, the .xlsx half of `opc-parser`) | document, sheets, rows, cells | parse, `document_to_json` | no row lost or misplaced, right numbers |
| Package walks (`process_document`, `process_worksheet`, `xml_get_text_concat` in `opc-parser`) | a vector of pages and a pointer into it per frame of the recursion; a table of shared strings | choose the part, walk the XML | every text on its page and in its paragraph; every cell shows its own string |
| Stream decoders (`process_root`, `process_rtf`, `read_ppt`, `read_doc` in `olecf-parser`) | one document filled in the order of the directory; a circular dictionary; nested byte counters | read each stream, decompress, walk records | independence of the order of the streams; a dictionary that is a window on the output; every text record once |
| Text parsers (`txt-`, `tidy-`, `md-`, `mime-parser`, .doc and .msg in `olecf-parser`) | one text, or subject and bodies | parse, `document_to_json` | the right body, nothing foreign, a whole result or none |
| Lifecycle (`OnStartup`, `OnExit`, `PluginMain`, the exit handlers of `make_chunker`) | PDFium, GMime and the llama backend, up or down | start and stop them, drop the tokenizer | nothing torn down under a running call; `OnExit` and the calls it meets finish |
| 4D object helpers (`ob_*`, `support/4DPlugin-JSON.cpp`) | none | wrap the host API | - |
| Vendored libraries | - | - | - |

### 1.2 Interaction

4D calls `PluginMain` for each command. `Extract` (declared thread-safe, hence
on any preemptive thread) reads the options and the file and calls one parser;
the parser builds a document and `document_to_json` walks it. In collection
mode the walk gathers texts and calls `process_paragraphs` once; in
collections mode it does so once per group. Each such call copies the two
tokenizer globals under a shared lock and works on the copies. `Extract SET
OPTION` loads a model without the lock and then replaces the globals under the
exclusive lock. `OnExit` (when 4D unloads the plugin) resets the tokenizer
under the same lock. The only state that calls share is that tokenizer, and
the PDFium and GMime libraries.

### 1.3 What is hard

* *Interleaving.* Snapshots of two globals against their replacement; reference
  counts; `OnExit` during a call; the wait for the exclusive lock.
* *Carried state.* The walks share a buffer, a flag and a counter between three
  nested loops, in four copies per parser that differ in small ways: flushes
  at a limit, skipped duplicates and empty texts interact with page ends.
* *Pointers into what grows.* Each frame of `process_document` points into
  `document.pages`, which deeper frames extend.
* *Order of the input.* The streams of a compound file come in any order.
* *Arithmetic.* Rounded overlaps, strides, clamps, tails, minimum fill, two
  offsets that wrap independently, byte counters in three nested loops.
* *Partial failure.* A paragraph that cannot be tokenized; an exception after
  half of a result was set; every early return of eight parsers.

`PROJECT.json` lists the hazards line by line with the properties aimed at them.

## 2. The modules

| Module | Models | Used by |
|-|-|-|
| `TokenizerCell` | what the globals promise: one atomic cell | `SharedTokenizer` (refinement) |
| `SharedTokenizer` | globals, mutex, reference counts, all commands that touch them | `PluginLifecycle`, `MCSharedTokenizer` |
| `PluginLifecycle` | the libraries, whole Extract calls, `OnStartup`, `OnExit`, the end of the process | `MCPluginLifecycle`, `PluginLifecycleProofs` |
| `ParagraphChunks` | `process_paragraphs`, `build_chunks` | `MCParagraphChunks`, `ParagraphChunksProofs` |
| `Bucketing` | `LlamaChunker::chunk`, `chunk_batch` | `MCBucketing`, `BucketingProofs` |
| `OpcWalk` | `opc_parse_data`: the choice of the part, `process_document`, shared strings, `process_worksheet` | `MCOpcWalk`, `OpcWalkProofs` |
| `RtfStream` | `process_rtf` | `OleRoot` |
| `PptRecords` | `read_ppt` | `OleRoot` |
| `OleRoot` | `process_root` with `read_doc`, calling the two above | `MCOleRoot`, `OleRootProofs` |
| `PagedAssembly` | `document_to_json` of .docx/.pptx, .ppt, .pdf | `MCPagedAssembly`, `AssemblyProofs` |
| `SheetAssembly` | `document_to_json` of .xls, .xlsx | `MCSheetAssembly`, `AssemblyProofs` |
| `TextAssembly` | parse and `document_to_json` of .txt, .html, .doc, .md, .eml, .msg | `MCTextAssembly`, `AssemblyProofs` |
| `ResultAssembly`, `GroupAssembly` | the document kind, mode and progress that all assembly modules keep, and the options, groups and result that `PagedAssembly` and `SheetAssembly` keep | the assembly modules |
| `TextSequences` | filtering, cutting and joining sequences, in which results are specified | `GroupAssembly`, `OpcWalk`, `SequenceLemmas` |
| `ExtractCommand` | one `Extract` from parameters to return | `MCExtractCommand`, `ExtractCommandProofs` |
| `SequenceLemmas` | lemmas about numbers, sequences and `TextSequences` | `BucketingProofs`, `AssemblyProofs`, `OleRootProofs`, `OpcWalkProofs` |

They meet at these seams. `PluginLifecycle` EXTENDS `SharedTokenizer`: each of
its steps on the tokenizer is a step of that module, taken by a call that is
somewhere between reading its file and closing its document. `OleRoot` EXTENDS
`RtfStream` and `PptRecords` and runs them from the items that need them. What
`OpcWalk` and `OleRoot` build (pages of paragraphs, sheets of cells, slides,
the fields of a message, the text of a .doc file) are the `Documents` and
`Sources` the assembly modules enumerate. A call of `process_paragraphs` is
steps `lock_shared` to `tokenize` of `SharedTokenizer`; what happens at
`tokenize` is `ParagraphChunks`, whose variable `loaded` is the outcome of the
snapshot. The pieces that the assembly modules push in collections mode are the
paragraph lists of `ParagraphChunks`. The `Render` steps of `ExtractCommand`
stand for the assembly modules, of which it knows only how they end; that the
options it hands on are in range (theorem `OptionsAlwaysInRange`) is what
`ParagraphChunks` assumes of its constants.

**SharedTokenizer.** One step per assignment to a shared variable. An extractor
goes `idle -> lock_shared -> copy_chunker -> copy_pad -> unlock_shared ->
tokenize` and from there to the next group or back to `idle`; a loader
`idle -> make_chunker -> lock_unique -> set_chunker -> set_pad ->
unlock_unique -> idle`, where `make_chunker` may also throw; the host
`idle -> lock_unique -> reset -> unlock_unique -> exited`. `useCount` is the
reference count of each chunker, changed where a `shared_ptr` is copied, moved
or dropped. The mutex is its set of shared holders and its exclusive holder.
`installs`, `stamp` and `asked` are history variables: they date each install
and each call, and nothing reads them but properties. New calls begin only
while the host has not begun to exit; calls in flight go on.

**PluginLifecycle.** `stage` says how far the Extract call of a thread is; in
`load`, `pages` and `close` it is inside PDFium, in `mime` inside GMime, in
`chunking` inside the steps of `SharedTokenizer`. `OnExit` stops the libraries
while it holds the mutex (`Plugin.cpp:725`); the end of the process runs one
handler per loaded model, each of which frees the llama backend
(`chunker.cpp:685`), and then the destructor of `gchunker`. Whether 4D waits for
the commands under way before it unloads a plugin is not in this code, so the
model has both kinds of host (`drains`). `opened` holds the documents open in
PDFium. An exception while pages are read or rendered passes by
`FPDF_CloseDocument` (`pdfium-parser.cpp:219-294`): the document stays in
`opened`, as one that nobody will close (`Unwound`), and is there when `OnExit`
calls `FPDF_DestroyLibrary`. `include/fpdfview.h` only recommends to close
documents first, so that is a leak and not ruled out by `SafeTeardown`, which
says that such documents are the only ones.

**ParagraphChunks.** A paragraph is the number of tokens its tokenization
yields (or `Throws`), a token its position. A chunk is an interval of
positions with padding on its left or right. `overlap` and `stride` are the
rounding and the clamp of the code on rational ratios.

**Bucketing.** A text is its size, which tokens end a sentence and which have
the padding token's id. One step per bucket opened, per run filled, per bucket
emitted or discarded, and per text finished. The text of a chunk is given by the
tokens it is recovered from. `LlamaChunker::chunk` is part of the class the
plugin embeds; `Extract` itself only uses the class to tokenize.

**OpcWalk.** The XML is revealed node by node in document order, so that a
state is a prefix of a document. A frame's pointer is an index and the number
of times the vector had moved when the pointer was taken. When the vector must
grow, `push_back` may or may not leave spare room; a text written through a
pointer to memory that was freed ends in the stage `undefined`. A run may hold
a drawing whose paragraphs are children of the run, because that is how such
text is stored, and because it is the one way a deeper frame can move the
vector under a frame that goes on. Shared strings and sheets are built from
small trees and from indexes that may be missing or wrong; a cell may also be
boolean, have a text of its own, or have no value.

A text is *exposed* when a drawing before it in its run has broken the page: the
frame of the run still points where it did. `WalkAsSpecified` says that without
such a text all is as a reader of the XML expects. `TextKept` says what happens
with them: every text is on exactly one page, an exposed one possibly on one
before its own; and when a text is written to freed memory and the model stops,
it is an exposed one, and all others are where they were. The write to freed
memory itself is reachable in the model, and no property claims otherwise.

**OleRoot, RtfStream, PptRecords.** The directory is revealed item by item, in
any order. A stream is empty, unreadable or read; a field of the message holds
the name of the stream it came from. A text that begins with a zero character is
read but empty: as a Subject it erases a normalized subject read before it, and
does not keep a later one from being taken. A compressed body is revealed byte by
byte and may end anywhere; the dictionary has `DictSize` bytes and starts with
`Prefix`. A presentation is revealed record by record, and the walk over it has
the byte counters of the code beside the position it should be at. The lengths in
its records agree with each other: what the code reads when a DocumentContainer
is shorter than the atom it begins with, or an inner length reaches past the
outer one (`olecf-parser.cpp:1128-1140`), is not modelled.

**PagedAssembly, SheetAssembly.** The four walks of each parser, with their
buffers, flags and indexes, one step per text or row and one per page or sheet.
The .docx and .ppt walks (and .xls and .xlsx) are alike and share steps; .pdf
has steps of its own.

**TextAssembly.** A document is what the parser can find in it: for a message
which of subject, text, HTML and RTF body are there, for .eml its tree of MIME
parts, in which a message may be attached to a message. Parse and render are one
step each, but a message is read as the code does it: `frames` are the calls of
`g_mime_message_foreach` and `g_mime_multipart_foreach` under way, with the
callback each of them calls for its parts, one step per part (`ProcessMessage`,
`ProcessPart`) and one per return. `processPart` saves `ctx->is_main_message`,
clears it, has the attached message read and restores it. How far a foreach
goes is GMime's doing and external: it reads multiparts through, in order, but
not the message in a message part. So the parts under a multipart are met by
both callbacks, and a multipart inside another starts one call more.

**ExtractCommand.** Each parser is a few steps (open, read, render), each of
which fails, throws or goes on. `held` is what is open, `content` what the file
really is, whatever `documentType` says. Reading the file may throw for want of
memory, with the `FILE` open (`Plugin.cpp:585`); a .docx package has an XML
document open while it is walked and rendered.

The three assembly modules have the variables `format`, `mode` and `pc` in
common (and pages and sheets the buffer and its flag), so that one proof module
can extend them all; each has its own initial states, actions and
specification, over its own variables.

Modules with theorems use no recursive operators. What the code computes in a
loop is a function with a recursive definition over `0..n` (`InOrder`, `Cut`,
`Flatten`, sums), of which the proofs can say that it exists and what it is
(`StepByStep` in `SequenceLemmas`).

## 3. What is checked

Passing runs:

| Run | Instance | Shows |
|-|-|-|
| `tokenizer` | 2 extractors, 2 loaders, the host, 3 chunkers (two with equal padding token), 2 groups per call; 302,912 states | `NoTornPair`: chunker and padding token of a snapshot belong together. `FreshTokenizer`: a group is never cut with a tokenizer replaced before the group began. `CountsHolders`: the reference count of every chunker is the number of pointers to it. `AtomicCell`: the whole refines `TokenizerCell` |
| `plugin_lifecycle` | 2 Extract calls, 1 loader, 2 chunkers, both kinds of host, with fairness; 510,814 states | `SafeTeardown`: with a host that waits, no library goes down under a call, every tokenizer dies before the backend, and a stopped PDFium holds no document but those an exception left open. `CallReturns`, `ExitCompletes`: with either host, calls and `OnExit` finish |
| `paragraph_chunks` | up to 2 paragraphs of 0 to 7 tokens or throwing, lengths 1 to 5, five ratios, with and without padding, tokenizer and each pooling mode; 154,236 states | `NothingLost`; `ChunksAsSpecified`: the collection is exactly a closed form (starts, overlap, number, padding, order) |
| `bucketing` | texts of up to 6 tokens with every placement of sentence ends, batches of 2 texts of up to 3, all parameters up to a target of 4 and five invalid sets; 148,754 states | `BucketsAsSpecified`: which buckets there are and what is in them, whatever the sentence ends. `LossBounded`, `BatchConsistent` |
| `opc_walk` | bodies and slides of up to 8 nodes, shared strings of up to 3 nodes, 4 sheet entries, rows and cells; 1,559,761 states | `WalkAsSpecified`: unless a text is exposed, every text is on the page and in the paragraph it belongs to, however the vector grows. `TextKept`: no text is doubled, and none stays behind or goes to freed memory but an exposed one. `WorkbookAsSpecified`: shared strings, sheets and cells |
| `ole_root` | directories of up to 3 items in every order, a dictionary of 4 bytes, output of up to 5, presentations of 2 containers; 1,103,233 states | `RootAsSpecified`: fields, type and text do not depend on the order of the streams, but for an empty subject. `SlidesAsSpecified`: every text record once, in its slide. `WindowIsHistory`, `ReferenceRepeats`: the decompression |
| `paged_assembly` | all documents of up to 2 pages and 4 texts over two texts and the empty one, limits none, 1, 2; 105,792 states | `GroupsAsSpecified`, `ObjectAsSpecified`: the loops compute what filtering and cutting each page would. `BufferMatchesFlag`: the flag `emptyCol` tells the truth |
| `sheet_assembly` | workbooks of up to 2 sheets and 3 rows out of six kinds, limits none, 1, 2; 503,712 states | `CollectionAsSpecified`, `SheetsAsSpecified`: exact. `NoRowLost`: no mode loses a row |
| `text_assembly` | all trees of up to 3 MIME parts of every kind, and of up to 6 parts with messages in messages around inline and attached texts; all combinations of .msg bodies; 197,612 states | `MsgBodyFound`. `BodyIsMainText`: the text of a message is exactly its own inline texts, each once, in order, whatever is attached before, after or inside. `ResultWhole` |
| `extract_command` | 13 document types, 4 modes, 7 ways of reading a file, all contents, six sets of options at the edges; 25,150 states | `ReturnedAtEnd`, `SuccessMeansParsed`, `ReleasedUnlessThrown` |

Every run but `plugin_lifecycle` also has its module's type invariant; the
types of `PluginLifecycle` are part of the invariant its theorem rests on.
Deadlock is checked in `tokenizer`, `plugin_lifecycle` and `opc_walk` (whose
only stops are their explicit end states); the other runs model a sequential
call that ends, and switch it off.

Violation runs, each a disagreement between the code and what is written
about it:

| Run | Written | What the code does |
|-|-|-|
| `v_OnePdfiumCallAtATime` | `include/fpdfview.h:11-13` "None of the PDFium APIs are thread-safe"; the embedder must ensure one call at a time | `manifest.json:8` declares Extract thread-safe and `pdfium-parser.cpp:210` calls PDFium without a lock: two calls are inside it at once |
| `v_TextInParagraph` | `opc-parser.cpp:754` "should not happen", of a text on a page without paragraph | happens after every page break inside a run: the break adds a page, and the paragraph goes on there without a new `<p>`. The text is kept, in a paragraph of its own |

Disagreements the models show but no run is spent on:

| Written | What the code does |
|-|-|
| `chunker.h:68` "reconstructed content (pre-pad portion)" | the text is recovered from the first entries of the bucket *after* padding was put in front of them; the last content tokens are missing from it (`chunker.cpp:448`) |
| `README.md:77` "chunks grouped by source paragraph/section" | `texts` is not cleared between sheets (`xls-parser.cpp:217`): a sheet's group repeats the rows of earlier sheets |
| `README.md:8` extracts text from .eml | object output looks a name up in a JSON array (`mime-parser.cpp:315`), which throws: no readable message succeeds; an inline text part without `charset` is dropped (`mime-parser.cpp:174`) |
| `README.md:8` extracts text from .msg | object output asks `document.text`, which no code sets for a message (`olecf-parser.cpp:633`): `pages` is always empty |
| `opc-parser.cpp:711` "revalidate after possible reallocation" | only the frame that adds the page renews its pointer; when a drawing inside a run breaks the page, the frame of the run keeps the old one. Its next text goes to the earlier page, or to freed memory (stage `undefined` of `OpcWalk`) |
| - | the texts of a rich shared string are collected from a stack, last one first (`opc-parser.cpp:612`) |
| - | 8-bit texts of a presentation are converted and dropped (`olecf-parser.cpp:1198`), and the counter of the inner loop starts at 8 (`olecf-parser.cpp:1166`), so that a last text shorter than a header is not reached; `SlidesAsSpecified` says exactly which texts are read |
| `README.md:92` `token_padding` pads the last chunk of a document | it pads the last chunk of every paragraph (`Plugin.cpp:275`) |
| `README.md:212` placeholder chunks without a tokenizer | the collection is empty (`Plugin.cpp:415`) |
| `README.md:89` `max_paragraph_length` limits the paragraphs sampled | it sets the size of groups, all of which are kept (`opc-parser.cpp:412`); for sheets the counter is declared inside the row loop, so a limit of 2 or more has no effect (`xls-parser.cpp:51`) |
| `README.md:75` text mode's `documents` are collection mode's chunks | with duplicates skipped after a flush text mode pushes an empty string (`xls-parser.cpp:58`) |
| `README.md:75` text mode has `input` | no parser sets it |
| `README.md:62` .md is not converted; `:87` headers break sections | the file is rendered to plain text and is one section (`md-parser.cpp:319`) |
| `README.md:164` `overlap_ratio: 0` disables overlap | 0 is ignored, the default stays (`Plugin.cpp:560`) |
| `README.md:209` a failure sets nothing else | `type` is set to "unknown" |
| `opc-parser.cpp:546` the index counts empty rows | texts without content are skipped before it is raised |
| `chunker.h:25` the reserve is at the tail of a bucket; `chunker.cpp:389` prefers sentence ends | padding comes first; a bucket is filled on after a sentence end (theorem `BucketsCorrect`: sentence ends make no difference) |
| `chunker.h:31` the final underfull chunk is discarded | with a reserve, no bucket may reach the minimum, and all after the first are discarded |
| `chunker.h:76-78` padding inserted; mean fill; target echoed | text tokens with the padding id count; the mean is over texts; a batch reports 0 |

### 3.1 Bounds

* *Processes.* Two extractors and two loaders make every pair of kinds meet,
  including two loaders racing and an extractor holding the lock while another
  comes. Three chunkers allow "installed, replaced, replaced again" during one
  call; a third loader adds only a longer queue. The theorems drop the bounds.
* *`MaxGroups` = 2*: a call with a second snapshot after a replacement. In
  `plugin_lifecycle` it is 1: later groups repeat the same wait. There, one
  loader that loads both chunkers in turn registers two exit handlers.
* *Tokens.* 7 tokens against lengths up to 5 give exact fits, one more, one
  less, and up to seven windows; two paragraphs show what one leaves for the
  next. The ratios round to none, some and all of every length.
* *Bucketing.* 6 tokens and targets up to 4 give up to six buckets; all
  overlaps and reserves below the target, minimum fills of 0, 40 and 100 %.
* *Pages and sheets.* Flags are carried only from one page to the next, so two
  suffice; limits 1 and 2 are reached, passed, and met exactly at a page end.
  Two different texts, besides the empty one, can be equal or not. In
  `PagedAssembly` they are symmetric (the code only compares them).
* *`FewParts` = 3, `MaxParts` = 6*: with three parts of every kind each kind meets
  each other one, under a multipart or not. A main message that goes on with a
  text after a message attached to an attached one takes six parts; that is where
  a flag restored to the wrong value shows, one not restored at all shows earlier.
* *`MaxNodes` = 8*: the shortest body in which a pointer goes stale is a
  paragraph, a run, a drawing, its paragraph and run, a break in it, and a text
  after the drawing; that is seven nodes, and 8 leave one more. `MaxItem` = 3: two
  texts at different depths, plain, in a run or phonetic; `MaxStrings` = 2: two
  strings to confuse; `MaxCells` = 4: a sheet that is missing between two
  that are not, or a sheet of one row and two cells.
* *Directories.* Three items put every pair of streams in both orders with one
  more around them. `MaxBefore` = 0 lets a stream that is decoded step by step
  come first only: nothing it reads depends on the items before it, and with 1
  the run takes too long. `MaxAfter` bounds the directory after slides.
* *`DictSize` = 4, `MaxOut` = 5, `Lengths` 2 and 3*: the prefix of two bytes
  leaves room to be growing, full, wrapped and overwritten by a reference that
  reads its own output. The theorems drop these.
* *Records.* Two containers of up to two members, up to two records in all.
* *Options.* Absent, 0, negative, 1, in range, beyond the end.

Integers are unbounded. Where the C++ code uses `int` or `uint32_t`, the
properties hold up to the width.

### 3.2 Fairness

`FairLifecycleSpec` has weak fairness, while the process lives, on the steps of
each Extract call (`CallStep`), of each load that is under way and of `OnExit`:
a command runs on a thread that 4D schedules and does not interrupt. Nobody is
obliged to begin a command, to unload the plugin or to end the process.

`CallReturns` and `ExitCompletes` are stated for the time after `OnExit` has
begun. From then on no call begins, so finitely many shared and exclusive
sections are left and weak fairness is enough. Before that the exclusive waiter
(`Extract SET OPTION`) competes with a stream of readers, and
`std::shared_mutex` promises it nothing: strong fairness of its lock would be
an assumption the code does not justify, so the project does not claim it.

## 4. What is proved

Every safety invariant of the passing runs, and the refinement of
`TokenizerCell`, is a theorem: TLAPS proves it for every value of the constants,
under the assumptions named in the modules (distinct processes, a chunker with
its padding token, at least one group; lengths of at least 1, ratios strictly
between 0 and 1; the empty text is not a text; documents, workbooks, parts and
texts are sequences of the kinds their modules say; the bounds of `OpcWalk` and
`OleRoot` are numbers, whatever they are). None of them limits the size of an
input.

**PluginLifecycleProofs, the tokenizer.** The invariants are stacked. `TypeOK`;
`ControlInv`, each kind of process keeps to its own labels; `LockInv`, the mutex
is held by exactly those in a critical section and an exclusive holder is alone.
`NoTornPair` is not inductive: the two globals do disagree between a loader's
two assignments. `PairInv` says that they agree except while some loader is at
`set_pad`, that this loader holds the missing half, and that an extractor
between its two copies sees the chunker it copied. With `LockInv` no extractor
is between its copies while a loader is between its assignments; hence
`PairNeverTorn`. `AgeInv` dates the current chunker by the number of installs
and gives `TokenizerFresh`. `OwnerInv` (a chunker waiting to be installed
belongs to one loader and was never current) is what `CellImplemented` needs
beside them: every step of the implementation is a step of `TokenizerCell` or
leaves the mapped cell unchanged. A loader's write takes effect with its first
assignment, an extractor's read with its first copy. `HolderInv`, the count
next to the set of pointers, gives `CountsExact`: each step changes both by the
same pointer.

**PluginLifecycleProofs, the lifecycle.** `TeardownSafe`, by composition: with a
host that waits, every step of the lifecycle is a step of `SharedTokenizer` or
leaves its variables alone (`StepOfTokenizer`), the only exception being the
destructor of `gchunker`, which then finds no chunker (`DropNothing`). So the
invariants above hold for the composed system. `CallInv` ties the label of a
thread to the stage of its call and every open document to a call that will
close it or to none at all, `LibraryInv` says what `OnExit` found quiet.
When the backend is down, nobody is left to hold a chunker and `gchunker` is
reset, so by `CountsHolders` every count is 0 (`Uncounted`).

**ParagraphChunksProofs.** `TypeCorrect` includes that a window begins inside
its paragraph, which rests on a stride of at least 1. `LoopInv` says that
inside a paragraph all positions before `start` are covered, and that earlier
paragraphs are settled; from it follow `NothingIsLost` and `ChunksAdvance`.
`CutInv` says that `start` is one of the specified starts and that the chunks
are those specified for the starts before it; `NextStart` is the step, and
`CollectionSpecified` the result.

**BucketingProofs.** `PackInv` is about one text: `LoopInv` says that while
bucket `seq + 1` is filled, it holds exactly the tokens from `seq * Fresh` to
`fill_cursor`. A run stops at a sentence end, but always goes forward
(`SentenceEndFound`, which needs that a set of naturals has a least element)
and never past the room left, so the fill loop ends with the specified bucket
(`FillEnds`). `AllBuckets` concludes that those emitted are all that are needed
and not too short: `BucketsCorrect`; and what is left out then is less than one
bucket of new tokens: `LossCorrect`. `BatchInv` is about the texts before the
current one: `BatchConsistent` takes the sums over the whole result at once,
while `chunk_batch` adds one text after the other, so the invariant counts the
chunks, tokens and padding of the texts so far and the step needs that the sum of
two sequences joined is the sum of their sums: `BatchCorrect`.

**OleRootProofs.** `RootInv` has a part per component. `RtfInv`: `WindowIsHistory`
says of the dictionary, by the two sides of `writeOffset`, which byte of the
history each entry is; writing one byte keeps it, while the dictionary grows,
when it wraps and after (`WindowCorrectInFile`, `ReferencesRepeatInFile`).
`PptInv`: `SlidesAsSpecified` speaks of the presentation when it was read, so
`MemberInv` and `AtomInv` say in between that the byte counters of the nested
loops are the sums of the lengths of what was passed, and `SlidesInv` that the
lists passed are one to one with the slides so far, in their order
(`SlidesCorrect`). `DataInv` says field by field which of the items met so far
gave it: the subject is the exact one's if it holds a text, the type is the first
that tells unless a WordDocument was read, and the tables are the last of their
names; with `StageInv`, which gives the text of a .doc when the directory is at
its end, this is `RootCorrect`. The stages of the decoders are part of it: each
runs only while the walk waits for it, so that the items stay as they are.

**AssemblyProofs, pages.** `PageInv` adds to the types, to `BufferMatchesFlag`
and to `GroupBounds` that with a limit the counter is the length of the group
and below the limit; without that the flush would not bound the groups.
`GroupsAsSpecified` compares the end with a filter and a cut of whole pages. The
invariant therefore speaks of prefixes: `SeenInv`, what was met is what the
page held so far; `GroupInv`, the pieces pushed and the group under construction
are the cut of what is kept so far (`CutSoFar`: full pieces, then a rest shorter
than the limit), behind those of the earlier pages; `ObjectInv`, the nodes so
far. The lemmas about `InOrder`, `Kept`, `Cut` and `Flatten` in `SequenceLemmas`
say what one text more does to each. `GroupsCorrect`, `ObjectCorrect`.

**AssemblyProofs, sheets.** `BookInv` is the same for rows, one part per output
mode: `CollectionInv` as for pages; `LostInv`, every row that counts is in a
pushed group, or in the buffer while the flag says that it will be pushed, which
is what holds although flags and buffers are carried from sheet to sheet;
`SheetObjectInv`, the nodes of the sheets and rows so far with their physical
numbers. `CollectionCorrect`, `NoRowLostCorrect`, `SheetsCorrect`.

**AssemblyProofs, one text.** `TextInv` says what `subject` and `body` are after
each parser, and that the result is untouched, a failure or whole:
`BodyFound`, `WholeResult`. `BodyIsMainText` says of whole trees what the walk
finds part by part. `NestingInv` ties the flag to the calls under way: the first
is over the main message, a second over the parts of a multipart in it, all
others are in attached messages; `is_main_message` holds exactly while there are
at most two, and only the third has saved a value of true, so that every return
restores what the calls left call for. `MainInv` says that the body is complete
up to where the outermost call is, and that this is in no attached message:
whatever it steps over without reading holds no text of the main message
(`OutermostMoves`). `MainTextCorrect` is the end of both.

**OpcWalkProofs.** `TreeInv` ties the frames to the XML: there is one frame for
each element around the last node, and all point to pages that exist
(`WalkTypeCorrect`). `TextKept` is not inductive, since it says which texts may
stay behind but not which frames are to blame. `KeptInv` adds that the number of
pages is what the breaks or slides so far call for (`PageCount`), that a frame which points to
an earlier page is one whose next text would be exposed (`StaleFrames`), and
that each text on a page got there with a frame of that kind or none
(`Placed`). `LostInv` says the same of the state a write to freed memory ends in,
where the last text is on no page and its frame was stale: `TextAlwaysKept`.
`ReaderInv` is for documents without exposed
text: a frame that points to the last page does so in the present buffer
(`FreshFrames`), and every page is what a reader of the XML would make of the
nodes so far (`AsRead`). A frame that is stale may exist there; it meets no text.
From it follow that no freed memory is read and that the pages are the expected
ones: `WalkCorrect`. `BookShown` is about workbooks: the nodes on the stack of
`xml_get_text_concat` are apart and rise, the texts under them are those up to
some node, and all later ones are in the text (`StringInv`); each child of a node
takes its place when it is popped (`UnderChild`, `NodeVisited`). With the cells
resolved against whole strings (`StringsShown`, `SheetsShown`) this is
`WorkbookCorrect`.

**ExtractCommandProofs.** `CommandInv` adds to the types `PathInv` (what is
known of the file and of `documentType` at each label) and `ResultInv` (what
is held, and whether the result is still unsuccessful, before, inside and after
the parsers). From it follow `AlwaysReturnedOnce`, `ResourcesReleased`,
`OptionsAlwaysInRange` (for all integers the task may hold) and
`SuccessAfterParse`.

`ChunksAdvance`, `GroupsBounded` and `OptionsAlwaysInRange` are proved without
being a property of a run.

Only model-checked: the liveness properties `CallReturns` and `ExitCompletes`,
since fairness and ENABLED are out of the prover's reach. The two violation
runs refute what they check.

## 5. What is not modelled

* The bytes of streams: character sets, codepages, the piece table of a .doc
  file beyond which pieces it names (its start is searched as the first byte
  0x02, which may also occur before it: listed as a hazard), XML and ZIP.
* Streams a library does not give up, encrypted packages, and everything else
  inside libopc, libolecf, libxls, PDFium, GMime, tidy, cmark and llama.cpp:
  only how they succeed, fail or throw.
* `discover_pad_token`: a search over the vocabulary of a model, whose outcome
  is one number per model (`PadOf`).
* The HTML and Markdown walks: they keep no state but the text they append to;
  the models above see only whether there is text.
* `text_as_tokens`, formatting, logging, meta data of objects, the 4D API and
  the wrappers around it.
* `process_paragraph` and `tokenize` of `Plugin.cpp`, which nothing calls.
* Most lines of the repository are third-party headers (lexbor, glib, GMime,
  jsoncpp, the 4D Plugin API). They declare libraries and run no logic of this
  program, so the lines modelled are a small share of all lines, though they
  are most of what the plugin's own sources do.

## 6. Plan

1. Core: `SharedTokenizer`, `ParagraphChunks`, with proofs *(done)*.
2. Walks and the command: `PagedAssembly`, `SheetAssembly`, `TextAssembly`,
   `ExtractCommand`, `Bucketing` *(done, every safety property proved)*.
3. `PluginLifecycle`, composed with `SharedTokenizer` *(done, with proof)*.
4. `OpcWalk`, whose results are the inputs of `PagedAssembly` and
   `SheetAssembly` *(done, every safety property proved)*.
5. `OleRoot` with `RtfStream` and `PptRecords` *(done, every safety property
   proved)*.
6. Left: the ladder of candidates of `discover_pad_token`; an abstract
   specification of one `Extract` that the command and the assembly modules
   implement together; on the proof side, which of the `Exposed` texts end up
   in freed memory and which on an earlier page; a property that limits how
   often `collections` mode repeats a row; records of a presentation whose lengths
   contradict each other.
