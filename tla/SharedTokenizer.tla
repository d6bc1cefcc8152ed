-------------------------- MODULE SharedTokenizer --------------------------
(***************************************************************************)
(* The tokenizer that every Extract call of the process shares.            *)
(*                                                                         *)
(* Both commands of the plugin are declared thread-safe, so 4D runs them   *)
(* on preemptive threads.  Three kinds of process meet in the globals      *)
(* gchunker and gpadtoken_id, under gchunker_mutex:                        *)
(*   - an extractor runs Extract; each call of process_paragraphs it makes *)
(*     (one in Collection mode, one per group in Collections mode) copies  *)
(*     the two globals under a shared lock and works on the copies;        *)
(*   - a loader runs Extract SET OPTION: it loads the model WITHOUT the    *)
(*     lock, then replaces the two globals under the exclusive lock;       *)
(*   - Host runs OnExit once.                                              *)
(* Each assignment to a shared variable is a step of its own.              *)
(***************************************************************************)
EXTENDS Integers, FiniteSets

CONSTANTS
    Extractor,   \* threads that call Extract
    Loader,      \* threads that call Extract SET OPTION
    Host,        \* the thread that delivers kDeinitPlugin
    Chunker,     \* the LlamaChunker objects a run may construct
    PadOf,       \* the padding token id of each chunker's vocabulary
    NoChunker,   \* the null shared_ptr
    Nobody,      \* no holder of the exclusive lock
    MaxGroups    \* BOUND: calls of process_paragraphs per Extract

ASSUME ProcessAssumption ==
    /\ Extractor \cap Loader = {}
    /\ Host \notin Extractor \cup Loader
    /\ Nobody \notin Extractor \cup Loader \cup {Host}
    /\ IsFiniteSet(Extractor) /\ IsFiniteSet(Loader)

ASSUME ChunkerAssumption ==
    /\ NoChunker \notin Chunker
    /\ PadOf \in [Chunker -> Int]

ASSUME BoundAssumption == MaxGroups \in Nat \ {0}

VARIABLES
    pc,             \* the next step of every process
    gchunker,       \* the global shared_ptr
    gpadtoken_id,   \* the global padding token
    readers,        \* gchunker_mutex: the holders of the shared lock
    writer,         \* gchunker_mutex: the holder of the exclusive lock
    local_chunker,  \* process_paragraphs' copy of gchunker
    local_pad,      \* process_paragraphs' copy of gpadtoken_id
    groups,         \* groups the running Extract has still to process
    new_chunker,    \* Extract_SET_OPTION's local shared_ptr
    new_pad,        \* Extract_SET_OPTION's local padding token
    useCount,       \* the reference count of each chunker
    built,          \* the chunkers whose constructor has succeeded
    installs,       \* how often gchunker was replaced (history)
    stamp,          \* the install that made a chunker current (history)
    asked           \* installs when process_paragraphs was entered (history)

globals == <<gchunker, gpadtoken_id>>
mutex == <<readers, writer>>
locals == <<local_chunker, local_pad, groups, asked>>
fresh == <<new_chunker, new_pad, built>>
history == <<installs, stamp>>
vars == <<pc, globals, mutex, locals, fresh, useCount, history>>

Process == Extractor \cup Loader \cup {Host}
Handle == Chunker \cup {NoChunker}

GoTo(p, l) == pc' = [pc EXCEPT ![p] = l]

\* Copying, dropping and overwriting a shared_ptr.  A null pointer counts
\* nothing; a chunker whose count falls to 0 is destroyed on the spot.
Acquired(count, c) == [x \in Chunker |-> IF x = c THEN count[x] + 1 ELSE count[x]]
Dropped(count, c) == [x \in Chunker |-> IF x = c THEN count[x] - 1 ELSE count[x]]

Init ==
    /\ pc = [p \in Process |-> "idle"]
    /\ gchunker = NoChunker
    /\ gpadtoken_id = 0
    /\ readers = {}
    /\ writer = Nobody
    /\ local_chunker = [e \in Extractor |-> NoChunker]
    /\ local_pad = [e \in Extractor |-> 0]
    /\ groups = [e \in Extractor |-> 0]
    /\ new_chunker = [l \in Loader |-> NoChunker]
    /\ new_pad = [l \in Loader |-> 0]
    /\ useCount = [c \in Chunker |-> 0]
    /\ built = {}
    /\ installs = 0
    /\ stamp = [c \in Chunker |-> 0]
    /\ asked = [e \in Extractor |-> 0]

-----------------------------------------------------------------------------
\* Extract and process_paragraphs.

\* An Extract whose document yields g groups of paragraphs reaches its first
\* process_paragraphs, maybe after the host has begun to exit.
StartExtract(e) ==
    /\ pc[e] = "idle"
    /\ \E g \in 1..MaxGroups : groups' = [groups EXCEPT ![e] = g]
    /\ asked' = [asked EXCEPT ![e] = installs]
    /\ GoTo(e, "lock_shared")
    /\ UNCHANGED <<globals, mutex, local_chunker, local_pad, fresh, useCount, history>>

\* Mutation: the shared lock is not taken.
LockSharedNever(e) ==
    /\ pc[e] = "lock_shared"
    /\ readers' = readers
    /\ GoTo(e, "copy_chunker")
    /\ UNCHANGED <<globals, writer, locals, fresh, useCount, history>>

LockShared(e) ==
    /\ pc[e] = "lock_shared"
    /\ writer = Nobody
    /\ readers' = readers \cup {e}
    /\ GoTo(e, "copy_chunker")
    /\ UNCHANGED <<globals, writer, locals, fresh, useCount, history>>

\* Mutation: the extractor keeps a plain pointer, which owns nothing.
CopyPointer(e) ==
    /\ pc[e] = "copy_chunker"
    /\ local_chunker' = [local_chunker EXCEPT ![e] = gchunker]
    /\ GoTo(e, "copy_pad")
    /\ UNCHANGED <<globals, mutex, local_pad, groups, asked, fresh, useCount, history>>

CopyChunker(e) ==
    /\ pc[e] = "copy_chunker"
    /\ local_chunker' = [local_chunker EXCEPT ![e] = gchunker]
    /\ useCount' = Acquired(useCount, gchunker)
    /\ GoTo(e, "copy_pad")
    /\ UNCHANGED <<globals, mutex, local_pad, groups, asked, fresh, history>>

CopyPad(e) ==
    /\ pc[e] = "copy_pad"
    /\ local_pad' = [local_pad EXCEPT ![e] = gpadtoken_id]
    /\ GoTo(e, "unlock_shared")
    /\ UNCHANGED <<globals, mutex, local_chunker, groups, asked, fresh, useCount, history>>

\* Mutation: the shared lock outlives the copies.
UnlockSharedForgotten(e) ==
    /\ pc[e] = "unlock_shared"
    /\ GoTo(e, "tokenize")
    /\ UNCHANGED <<globals, mutex, locals, fresh, useCount, history>>

UnlockShared(e) ==
    /\ pc[e] = "unlock_shared"
    /\ readers' = readers \ {e}
    /\ GoTo(e, "tokenize")
    /\ UNCHANGED <<globals, writer, locals, fresh, useCount, history>>

\* Mutation: one group too many.
FinishGroupOneMore(e) ==
    /\ pc[e] = "tokenize"
    /\ local_chunker' = [local_chunker EXCEPT ![e] = NoChunker]
    /\ local_pad' = [local_pad EXCEPT ![e] = 0]
    /\ useCount' = Dropped(useCount, local_chunker[e])
    /\ groups' = [groups EXCEPT ![e] = @ - 1]
    /\ asked' = [asked EXCEPT ![e] = 0]
    /\ GoTo(e, IF groups[e] > 0 THEN "lock_shared" ELSE "idle")
    /\ UNCHANGED <<globals, mutex, fresh, history>>

\* Mutation: the copies are made once per Extract and kept for all groups.
FinishGroupKeepsCopies(e) ==
    /\ pc[e] = "tokenize"
    /\ groups' = [groups EXCEPT ![e] = @ - 1]
    /\ IF groups[e] > 1
       THEN /\ asked' = [asked EXCEPT ![e] = installs]
            /\ UNCHANGED <<pc, local_chunker, local_pad, useCount>>
       ELSE /\ asked' = [asked EXCEPT ![e] = 0]
            /\ local_chunker' = [local_chunker EXCEPT ![e] = NoChunker]
            /\ local_pad' = [local_pad EXCEPT ![e] = 0]
            /\ useCount' = Dropped(useCount, local_chunker[e])
            /\ GoTo(e, "idle")
    /\ UNCHANGED <<globals, mutex, fresh, history>>

\* The paragraphs of the group are tokenized and cut (module
\* ParagraphChunks); then the copies go out of scope, and the next group, if
\* any, is a new call of process_paragraphs.
FinishGroup(e) ==
    /\ pc[e] = "tokenize"
    /\ local_chunker' = [local_chunker EXCEPT ![e] = NoChunker]
    /\ local_pad' = [local_pad EXCEPT ![e] = 0]
    /\ useCount' = Dropped(useCount, local_chunker[e])
    /\ groups' = [groups EXCEPT ![e] = @ - 1]
    /\ \/ /\ groups[e] > 1
          /\ asked' = [asked EXCEPT ![e] = installs]
          /\ GoTo(e, "lock_shared")
       \/ /\ groups[e] = 1
          /\ asked' = [asked EXCEPT ![e] = 0]
          /\ GoTo(e, "idle")
    /\ UNCHANGED <<globals, mutex, fresh, history>>

ExtractStep(e) == \/ LockShared(e) \/ CopyChunker(e) \/ CopyPad(e)
                  \/ UnlockShared(e) \/ FinishGroup(e)

-----------------------------------------------------------------------------
\* Extract_SET_OPTION.

\* The option is the tokenizer file and the file opens.
StartLoad(l) ==
    /\ pc[l] = "idle"
    /\ pc[Host] = "idle"
    /\ GoTo(l, "make_chunker")
    /\ UNCHANGED <<globals, mutex, locals, fresh, useCount, history>>

\* make_chunker succeeds, outside the lock, and its pad token is read.
MakeChunker(l) ==
    /\ pc[l] = "make_chunker"
    /\ \E c \in Chunker \ built :
          /\ built' = built \cup {c}
          /\ new_chunker' = [new_chunker EXCEPT ![l] = c]
          /\ new_pad' = [new_pad EXCEPT ![l] = PadOf[c]]
          /\ useCount' = [useCount EXCEPT ![c] = 1]
    /\ GoTo(l, "lock_unique")
    /\ UNCHANGED <<globals, mutex, locals, history>>

\* make_chunker throws: the exception is logged and the call returns.
MakeFails(l) ==
    /\ pc[l] = "make_chunker"
    /\ GoTo(l, "idle")
    /\ UNCHANGED <<globals, mutex, locals, fresh, useCount, history>>

\* Mutation: the exclusive lock does not wait for shared holders.
LockUniqueAmongReaders(p, next) ==
    /\ pc[p] = "lock_unique"
    /\ writer = Nobody
    /\ writer' = p
    /\ GoTo(p, next)
    /\ UNCHANGED <<globals, readers, locals, fresh, useCount, history>>

\* The exclusive lock, for a loader and for OnExit.
LockUnique(p, next) ==
    /\ pc[p] = "lock_unique"
    /\ writer = Nobody
    /\ readers = {}
    /\ writer' = p
    /\ GoTo(p, next)
    /\ UNCHANGED <<globals, readers, locals, fresh, useCount, history>>

\* Mutation: the replaced chunker keeps its reference.
SetChunkerLeaks(l) ==
    /\ pc[l] = "set_chunker"
    /\ gchunker' = new_chunker[l]
    /\ new_chunker' = [new_chunker EXCEPT ![l] = NoChunker]
    /\ installs' = installs + 1
    /\ stamp' = [stamp EXCEPT ![new_chunker[l]] = installs + 1]
    /\ GoTo(l, "set_pad")
    /\ UNCHANGED <<gpadtoken_id, mutex, locals, new_pad, built, useCount>>

\* gchunker = std::move(new_chunker): the old chunker loses a reference, the
\* new one only changes hands.
SetChunker(l) ==
    /\ pc[l] = "set_chunker"
    /\ gchunker' = new_chunker[l]
    /\ useCount' = Dropped(useCount, gchunker)
    /\ new_chunker' = [new_chunker EXCEPT ![l] = NoChunker]
    /\ installs' = installs + 1
    /\ stamp' = [stamp EXCEPT ![new_chunker[l]] = installs + 1]
    /\ GoTo(l, "set_pad")
    /\ UNCHANGED <<gpadtoken_id, mutex, locals, new_pad, built>>

SetPad(l) ==
    /\ pc[l] = "set_pad"
    /\ gpadtoken_id' = new_pad[l]
    /\ new_pad' = [new_pad EXCEPT ![l] = 0]
    /\ GoTo(l, "unlock_unique")
    /\ UNCHANGED <<gchunker, mutex, locals, new_chunker, built, useCount, history>>

\* Mutation: the exclusive lock is never released.
UnlockUniqueForgotten(p, next) ==
    /\ pc[p] = "unlock_unique"
    /\ GoTo(p, next)
    /\ UNCHANGED <<globals, mutex, locals, fresh, useCount, history>>

UnlockUnique(p, next) ==
    /\ pc[p] = "unlock_unique"
    /\ writer' = Nobody
    /\ GoTo(p, next)
    /\ UNCHANGED <<globals, readers, locals, fresh, useCount, history>>

LoadStep(l) == \/ MakeChunker(l) \/ MakeFails(l)
               \/ LockUnique(l, "set_chunker")
               \/ SetChunker(l) \/ SetPad(l)
               \/ UnlockUnique(l, "idle")

-----------------------------------------------------------------------------
\* OnExit.

BeginExit ==
    /\ pc[Host] = "idle"
    /\ GoTo(Host, "lock_unique")
    /\ UNCHANGED <<globals, mutex, locals, fresh, useCount, history>>

\* gchunker.reset(); gpadtoken_id keeps its value.
ResetChunker ==
    /\ pc[Host] = "reset"
    /\ gchunker' = NoChunker
    /\ useCount' = Dropped(useCount, gchunker)
    /\ GoTo(Host, "unlock_unique")
    /\ UNCHANGED <<gpadtoken_id, mutex, locals, fresh, history>>

ExitStep == \/ LockUnique(Host, "reset")
            \/ ResetChunker
            \/ UnlockUnique(Host, "exited")

\* The plugin is unloaded and nothing is left to do.
Unloaded ==
    /\ pc[Host] = "exited"
    /\ \A p \in Process \ {Host} : pc[p] = "idle"
    /\ UNCHANGED vars

Next == \/ \E e \in Extractor : StartExtract(e) \/ ExtractStep(e)
        \/ \E l \in Loader : StartLoad(l) \/ LoadStep(l)
        \/ BeginExit
        \/ ExitStep
        \/ Unloaded

Spec == Init /\ [][Next]_vars

-----------------------------------------------------------------------------
\* Properties.

\* Every variable has its type; a chunker in a handle has been built.
TypeOK ==
    /\ pc \in [Process -> {"idle", "lock_shared", "copy_chunker", "copy_pad",
                           "unlock_shared", "tokenize", "make_chunker",
                           "lock_unique", "set_chunker", "set_pad",
                           "unlock_unique", "reset", "exited"}]
    /\ gchunker \in Handle
    /\ gpadtoken_id \in Int
    /\ readers \subseteq Extractor
    /\ writer \in Loader \cup {Host, Nobody}
    /\ local_chunker \in [Extractor -> Handle]
    /\ local_pad \in [Extractor -> Int]
    /\ groups \in [Extractor -> 0..MaxGroups]
    /\ new_chunker \in [Loader -> Handle]
    /\ new_pad \in [Loader -> Int]
    /\ useCount \in [Chunker -> Int]
    /\ built \subseteq Chunker
    /\ installs \in Nat
    /\ stamp \in [Chunker -> Nat]
    /\ asked \in [Extractor -> Nat]

HasCopied(e) == pc[e] \in {"copy_pad", "unlock_shared", "tokenize"}

\* The copies process_paragraphs works on belong together: the padding token
\* it pads with is the one of the vocabulary it tokenizes with, however the
\* two assignments of a loader and the two copies of an extractor interleave.
NoTornPair ==
    \A e \in Extractor :
        pc[e] \in {"unlock_shared", "tokenize"} /\ local_chunker[e] # NoChunker
            => local_pad[e] = PadOf[local_chunker[e]]

\* process_paragraphs never works with a tokenizer that had already been
\* replaced when it was entered, nor without one when one had been installed
\* (unless the plugin is shutting down).
FreshTokenizer ==
    \A e \in Extractor :
        HasCopied(e) =>
            IF local_chunker[e] # NoChunker
            THEN stamp[local_chunker[e]] >= asked[e]
            ELSE asked[e] = 0 \/ pc[Host] \in {"unlock_unique", "exited"}

\* A chunker's reference count is the number of pointers that hold it, at every
\* step of every interleaving.  Hence no extractor works on a chunker that was
\* destroyed because a loader replaced it or OnExit reset it, and a replaced
\* chunker is destroyed as soon as the last snapshot of it is gone.
CountsHolders ==
    \A c \in Chunker :
        useCount[c] = (IF gchunker = c THEN 1 ELSE 0)
                      + Cardinality({e \in Extractor : local_chunker[e] = c})
                      + Cardinality({l \in Loader : new_chunker[l] = c})

\* The locked implementation behaves like one atomic cell.  A loader's write
\* takes effect with its first assignment (nobody can look before the
\* second), an extractor's read with its first copy.
Torn == "torn pair"
Pair(c, pad) == IF c = NoChunker \/ pad = PadOf[c] THEN c ELSE Torn

cellBar == IF \E l \in Loader : pc[l] = "set_pad"
           THEN gchunker
           ELSE Pair(gchunker, gpadtoken_id)
spentBar == {c \in Chunker : stamp[c] > 0}
snapshotBar == [e \in Extractor |->
                   IF pc[e] \in {"unlock_shared", "tokenize"}
                   THEN Pair(local_chunker[e], local_pad[e])
                   ELSE local_chunker[e]]

Cell == INSTANCE TokenizerCell WITH cell <- cellBar, spent <- spentBar,
                                    snapshot <- snapshotBar

AtomicCell == Cell!Spec
=============================================================================
