----------------------- MODULE PluginLifecycleProofs -----------------------
(***************************************************************************)
(* Theorems about SharedTokenizer and PluginLifecycle, for any number of   *)
(* extractors, loaders and chunkers.                                       *)
(*                                                                         *)
(* SharedTokenizer: the invariants are stacked, first the types, then      *)
(* where each process can be and who holds the lock, then what the two     *)
(* globals and the local copies are worth, then their age and who holds    *)
(* which chunker.                                                          *)
(*                                                                         *)
(* PluginLifecycle: when the host waits for the commands under way before  *)
(* kDeinitPlugin, no library is stopped under a call and no tokenizer      *)
(* outlives the llama backend.  The invariants of the tokenizer carry      *)
(* over: with a host that waits, every step of the plugin is one of        *)
(* SharedTokenizer or leaves it alone.                                     *)
(***************************************************************************)
EXTENDS PluginLifecycle, FiniteSetTheorems, TLAPS

\* The states in which a process holds the shared, or the exclusive, lock.
SharedSection == {"copy_chunker", "copy_pad", "unlock_shared"}
ExclusiveSection == {"set_chunker", "set_pad", "reset", "unlock_unique"}

\* Each kind of process keeps to its own steps.
ControlInv ==
    /\ \A e \in Extractor :
          pc[e] \in {"idle", "lock_shared", "tokenize"} \cup SharedSection
    /\ \A l \in Loader :
          pc[l] \in {"idle", "make_chunker", "lock_unique",
                     "set_chunker", "set_pad", "unlock_unique"}
    /\ pc[Host] \in {"idle", "lock_unique", "reset", "unlock_unique", "exited"}

\* The mutex is held by the processes inside a critical section, and an
\* exclusive holder is alone.
LockInv ==
    /\ \A e \in Extractor : e \in readers <=> pc[e] \in SharedSection
    /\ \A p \in Loader \cup {Host} : writer = p <=> pc[p] \in ExclusiveSection
    /\ writer # Nobody => readers = {}

\* The globals agree except between a loader's two assignments; the loader
\* then still holds the missing half, and no extractor is looking.
PairInv ==
    /\ gchunker = NoChunker
       \/ gpadtoken_id = PadOf[gchunker]
       \/ \E l \in Loader : pc[l] = "set_pad"
    /\ \A l \in Loader :
          /\ pc[l] \in {"lock_unique", "set_chunker"}
                => new_chunker[l] \in Chunker /\ new_pad[l] = PadOf[new_chunker[l]]
          /\ pc[l] = "set_pad"
                => gchunker \in Chunker /\ new_pad[l] = PadOf[gchunker]
    /\ \A e \in Extractor : pc[e] = "copy_pad" => local_chunker[e] = gchunker
    /\ NoTornPair

\* The current chunker is the last one installed, and a copy is at least as
\* recent as the installs that preceded the call.
AgeInv ==
    /\ \A e \in Extractor : asked[e] <= installs
    /\ \A c \in Chunker : stamp[c] <= installs
    /\ gchunker # NoChunker => stamp[gchunker] = installs
    /\ gchunker = NoChunker
          => installs = 0 \/ pc[Host] \in {"unlock_unique", "exited"}
    /\ FreshTokenizer

\* A chunker waiting to be installed belongs to one loader and has never
\* been current; an extractor has no copy before it takes one.
OwnerInv ==
    /\ \A l \in Loader :
          pc[l] \in {"lock_unique", "set_chunker"}
             => new_chunker[l] \in built /\ stamp[new_chunker[l]] = 0
    /\ \A l, m \in Loader :
          (/\ pc[l] \in {"lock_unique", "set_chunker"}
           /\ pc[m] \in {"lock_unique", "set_chunker"}
           /\ new_chunker[l] = new_chunker[m])
             => l = m
    /\ \A c \in Chunker : stamp[c] > 0 => c \in built
    /\ \A e \in Extractor :
          pc[e] \in {"idle", "lock_shared", "copy_chunker"}
             => local_chunker[e] = NoChunker

\* A pointer is null or points to a chunker that was built, and a loader holds
\* one only between building and installing it; every pointer is counted.
HolderInv ==
    /\ gchunker \in built \cup {NoChunker}
    /\ \A e \in Extractor : local_chunker[e] \in built \cup {NoChunker}
    /\ \A l \in Loader :
          /\ new_chunker[l] \in built \cup {NoChunker}
          /\ pc[l] \notin {"lock_unique", "set_chunker"} => new_chunker[l] = NoChunker
    /\ CountsHolders

-----------------------------------------------------------------------------
\* A step keeps the types.
LEMMA TypeStep == TypeOK /\ [Next]_vars => TypeOK'
<1> SUFFICES ASSUME TypeOK, [Next]_vars PROVE TypeOK'
  OBVIOUS
<1> USE BoundAssumption, ProcessAssumption, ChunkerAssumption
    DEF TypeOK, Process, Handle, GoTo, globals, mutex, locals, fresh, history
<1>1. ASSUME NEW e \in Extractor, StartExtract(e) PROVE TypeOK'
  BY <1>1 DEF StartExtract
<1>2. ASSUME NEW e \in Extractor, ExtractStep(e) PROVE TypeOK'
  <2>1. CASE LockShared(e)
    BY <2>1 DEF LockShared
  <2>2. CASE CopyChunker(e)
    BY <2>2 DEF CopyChunker, Acquired
  <2>3. CASE CopyPad(e)
    BY <2>3 DEF CopyPad
  <2>4. CASE UnlockShared(e)
    BY <2>4 DEF UnlockShared
  <2>5. CASE FinishGroup(e)
    BY <2>5 DEF FinishGroup, Dropped
  <2> QED BY <1>2, <2>1, <2>2, <2>3, <2>4, <2>5 DEF ExtractStep
<1>3. ASSUME NEW l \in Loader, StartLoad(l) PROVE TypeOK'
  BY <1>3 DEF StartLoad
<1>4. ASSUME NEW l \in Loader, LoadStep(l) PROVE TypeOK'
  <2>1. CASE MakeChunker(l)
    BY <2>1 DEF MakeChunker
  <2>2. CASE MakeFails(l)
    BY <2>2 DEF MakeFails
  <2>3. CASE LockUnique(l, "set_chunker")
    BY <2>3 DEF LockUnique
  <2>4. CASE SetChunker(l)
    <3>1. useCount' \in [Chunker -> Int]
      BY <2>4 DEF SetChunker, Dropped
    <3>2. installs' \in Nat /\ stamp' \in [Chunker -> Nat]
      <4>1. installs + 1 \in Nat /\ stamp \in [Chunker -> Nat]
        OBVIOUS
      <4>2. /\ installs' = installs + 1
            /\ stamp' = [stamp EXCEPT ![new_chunker[l]] = installs + 1]
        BY <2>4 DEF SetChunker
      <4>3. \A c \in Chunker : stamp'[c] \in Nat
        BY <4>1, <4>2
      <4> QED BY <4>1, <4>2, <4>3
    <3>3. gchunker' \in Handle /\ new_chunker' \in [Loader -> Handle]
      BY <2>4 DEF SetChunker
    <3> QED BY <2>4, <3>1, <3>2, <3>3 DEF SetChunker
  <2>5. CASE SetPad(l)
    BY <2>5 DEF SetPad
  <2>6. CASE UnlockUnique(l, "idle")
    BY <2>6 DEF UnlockUnique
  <2> QED BY <1>4, <2>1, <2>2, <2>3, <2>4, <2>5, <2>6 DEF LoadStep
<1>5. CASE BeginExit
  BY <1>5 DEF BeginExit
<1>6. CASE ExitStep
  <2>1. CASE LockUnique(Host, "reset")
    BY <2>1 DEF LockUnique
  <2>2. CASE ResetChunker
    BY <2>2 DEF ResetChunker, Dropped
  <2>3. CASE UnlockUnique(Host, "exited")
    BY <2>3 DEF UnlockUnique
  <2> QED BY <1>6, <2>1, <2>2, <2>3 DEF ExitStep
<1>7. CASE Unloaded
  BY <1>7 DEF Unloaded, vars
<1>8. CASE UNCHANGED vars
  BY <1>8 DEF vars
<1> QED BY <1>1, <1>2, <1>3, <1>4, <1>5, <1>6, <1>7, <1>8 DEF Next

\* Type correctness of every reachable state.
THEOREM TypeCorrect == Spec => []TypeOK
<1>1. Init => TypeOK
  BY BoundAssumption, ProcessAssumption
     DEF Init, TypeOK, Process, Handle
<1> QED BY <1>1, TypeStep, PTL DEF Spec

\* A step keeps every process to its own labels.
LEMMA ControlStep == TypeOK /\ ControlInv /\ [Next]_vars => ControlInv'
<1> SUFFICES ASSUME TypeOK, ControlInv, [Next]_vars PROVE ControlInv'
  OBVIOUS
<1> USE ProcessAssumption DEF TypeOK, ControlInv, SharedSection, globals, mutex, locals, fresh, history, Process, GoTo
<1>1. ASSUME NEW e \in Extractor, StartExtract(e) PROVE ControlInv'
  BY <1>1 DEF StartExtract
<1>2. ASSUME NEW e \in Extractor, ExtractStep(e) PROVE ControlInv'
  <2>1. CASE LockShared(e)
    BY <2>1 DEF LockShared
  <2>2. CASE CopyChunker(e)
    BY <2>2 DEF CopyChunker
  <2>3. CASE CopyPad(e)
    BY <2>3 DEF CopyPad
  <2>4. CASE UnlockShared(e)
    BY <2>4 DEF UnlockShared
  <2>5. CASE FinishGroup(e)
    BY <2>5 DEF FinishGroup
  <2> QED BY <1>2, <2>1, <2>2, <2>3, <2>4, <2>5 DEF ExtractStep
<1>3. ASSUME NEW l \in Loader, StartLoad(l) PROVE ControlInv'
  BY <1>3 DEF StartLoad
<1>4. ASSUME NEW l \in Loader, LoadStep(l) PROVE ControlInv'
  <2>1. CASE MakeChunker(l)
    BY <2>1 DEF MakeChunker
  <2>2. CASE MakeFails(l)
    BY <2>2 DEF MakeFails
  <2>3. CASE LockUnique(l, "set_chunker")
    BY <2>3 DEF LockUnique
  <2>4. CASE SetChunker(l)
    BY <2>4 DEF SetChunker
  <2>5. CASE SetPad(l)
    BY <2>5 DEF SetPad
  <2>6. CASE UnlockUnique(l, "idle")
    BY <2>6 DEF UnlockUnique
  <2> QED BY <1>4, <2>1, <2>2, <2>3, <2>4, <2>5, <2>6 DEF LoadStep
<1>5. CASE BeginExit
  BY <1>5 DEF BeginExit
<1>6. CASE ExitStep
  <2>1. CASE LockUnique(Host, "reset")
    BY <2>1 DEF LockUnique
  <2>2. CASE ResetChunker
    BY <2>2 DEF ResetChunker
  <2>3. CASE UnlockUnique(Host, "exited")
    BY <2>3 DEF UnlockUnique
  <2> QED BY <1>6, <2>1, <2>2, <2>3 DEF ExitStep
<1>7. CASE Unloaded
  BY <1>7 DEF Unloaded, vars
<1>8. CASE UNCHANGED vars
  BY <1>8 DEF vars
<1> QED BY <1>1, <1>2, <1>3, <1>4, <1>5, <1>6, <1>7, <1>8 DEF Next

\* Each process stays on its own steps.
THEOREM ControlCorrect == Spec => []ControlInv
<1>1. Init => ControlInv
  BY ProcessAssumption DEF Init, ControlInv, Process
<1> QED BY <1>1, ControlStep, TypeCorrect, PTL DEF Spec

\* A step keeps the mutex and the critical sections in agreement.
LEMMA LockStep == TypeOK /\ ControlInv /\ LockInv /\ [Next]_vars => LockInv'
<1> SUFFICES ASSUME TypeOK, ControlInv, LockInv, [Next]_vars PROVE LockInv'
  OBVIOUS
<1> USE ProcessAssumption DEF TypeOK, ControlInv, LockInv, SharedSection, ExclusiveSection, globals, mutex, locals, fresh, history, Process, GoTo
<1>1. ASSUME NEW e \in Extractor, StartExtract(e) PROVE LockInv'
  BY <1>1 DEF StartExtract
<1>2. ASSUME NEW e \in Extractor, ExtractStep(e) PROVE LockInv'
  <2>1. CASE LockShared(e)
    BY <2>1 DEF LockShared
  <2>2. CASE CopyChunker(e)
    BY <2>2 DEF CopyChunker
  <2>3. CASE CopyPad(e)
    BY <2>3 DEF CopyPad
  <2>4. CASE UnlockShared(e)
    BY <2>4 DEF UnlockShared
  <2>5. CASE FinishGroup(e)
    BY <2>5 DEF FinishGroup
  <2> QED BY <1>2, <2>1, <2>2, <2>3, <2>4, <2>5 DEF ExtractStep
<1>3. ASSUME NEW l \in Loader, StartLoad(l) PROVE LockInv'
  BY <1>3 DEF StartLoad
<1>4. ASSUME NEW l \in Loader, LoadStep(l) PROVE LockInv'
  <2>1. CASE MakeChunker(l)
    BY <2>1 DEF MakeChunker
  <2>2. CASE MakeFails(l)
    BY <2>2 DEF MakeFails
  <2>3. CASE LockUnique(l, "set_chunker")
    BY <2>3 DEF LockUnique
  <2>4. CASE SetChunker(l)
    BY <2>4 DEF SetChunker
  <2>5. CASE SetPad(l)
    BY <2>5 DEF SetPad
  <2>6. CASE UnlockUnique(l, "idle")
    BY <2>6 DEF UnlockUnique
  <2> QED BY <1>4, <2>1, <2>2, <2>3, <2>4, <2>5, <2>6 DEF LoadStep
<1>5. CASE BeginExit
  BY <1>5 DEF BeginExit
<1>6. CASE ExitStep
  <2>1. CASE LockUnique(Host, "reset")
    BY <2>1 DEF LockUnique
  <2>2. CASE ResetChunker
    BY <2>2 DEF ResetChunker
  <2>3. CASE UnlockUnique(Host, "exited")
    BY <2>3 DEF UnlockUnique
  <2> QED BY <1>6, <2>1, <2>2, <2>3 DEF ExitStep
<1>7. CASE Unloaded
  BY <1>7 DEF Unloaded, vars
<1>8. CASE UNCHANGED vars
  BY <1>8 DEF vars
<1> QED BY <1>1, <1>2, <1>3, <1>4, <1>5, <1>6, <1>7, <1>8 DEF Next

\* Readers and writers exclude each other: the sets the mutex keeps are the
\* processes inside their critical sections.
THEOREM LockCorrect == Spec => []LockInv
<1>1. Init => LockInv
  BY ProcessAssumption DEF Init, LockInv, Process, SharedSection, ExclusiveSection
<1> QED BY <1>1, LockStep, TypeCorrect, ControlCorrect, PTL DEF Spec

\* A step keeps the pair together.
LEMMA PairStep == TypeOK /\ ControlInv /\ LockInv /\ PairInv /\ [Next]_vars => PairInv'
<1> SUFFICES ASSUME TypeOK, ControlInv, LockInv, PairInv, [Next]_vars PROVE PairInv'
  OBVIOUS
<1> USE ProcessAssumption, ChunkerAssumption DEF TypeOK, ControlInv, LockInv, PairInv, NoTornPair, SharedSection, ExclusiveSection, Handle, globals, mutex, locals, fresh, history, Process, GoTo
<1>1. ASSUME NEW e \in Extractor, StartExtract(e) PROVE PairInv'
  BY <1>1 DEF StartExtract
<1>2. ASSUME NEW e \in Extractor, ExtractStep(e) PROVE PairInv'
  <2>1. CASE LockShared(e)
    BY <2>1 DEF LockShared
  <2>2. CASE CopyChunker(e)
    BY <2>2 DEF CopyChunker
  <2>3. CASE CopyPad(e)
    BY <2>3 DEF CopyPad
  <2>4. CASE UnlockShared(e)
    BY <2>4 DEF UnlockShared
  <2>5. CASE FinishGroup(e)
    BY <2>5 DEF FinishGroup
  <2> QED BY <1>2, <2>1, <2>2, <2>3, <2>4, <2>5 DEF ExtractStep
<1>3. ASSUME NEW l \in Loader, StartLoad(l) PROVE PairInv'
  BY <1>3 DEF StartLoad
<1>4. ASSUME NEW l \in Loader, LoadStep(l) PROVE PairInv'
  <2>1. CASE MakeChunker(l)
    BY <2>1 DEF MakeChunker
  <2>2. CASE MakeFails(l)
    BY <2>2 DEF MakeFails
  <2>3. CASE LockUnique(l, "set_chunker")
    BY <2>3 DEF LockUnique
  <2>4. CASE SetChunker(l)
    BY <2>4 DEF SetChunker
  <2>5. CASE SetPad(l)
    BY <2>5 DEF SetPad
  <2>6. CASE UnlockUnique(l, "idle")
    BY <2>6 DEF UnlockUnique
  <2> QED BY <1>4, <2>1, <2>2, <2>3, <2>4, <2>5, <2>6 DEF LoadStep
<1>5. CASE BeginExit
  BY <1>5 DEF BeginExit
<1>6. CASE ExitStep
  <2>1. CASE LockUnique(Host, "reset")
    BY <2>1 DEF LockUnique
  <2>2. CASE ResetChunker
    BY <2>2 DEF ResetChunker
  <2>3. CASE UnlockUnique(Host, "exited")
    BY <2>3 DEF UnlockUnique
  <2> QED BY <1>6, <2>1, <2>2, <2>3 DEF ExitStep
<1>7. CASE Unloaded
  BY <1>7 DEF Unloaded, vars
<1>8. CASE UNCHANGED vars
  BY <1>8 DEF vars
<1> QED BY <1>1, <1>2, <1>3, <1>4, <1>5, <1>6, <1>7, <1>8 DEF Next

\* Between two assignments of a loader nobody looks; everywhere else the two
\* globals, and every extractor's two copies, belong together.
THEOREM PairCorrect == Spec => []PairInv
<1>1. Init => PairInv
  BY ProcessAssumption DEF Init, PairInv, NoTornPair, Process
<1> QED BY <1>1, PairStep, TypeCorrect, ControlCorrect, LockCorrect, PTL DEF Spec

\* A step keeps copies fresh.
LEMMA AgeStep == TypeOK /\ ControlInv /\ LockInv /\ PairInv /\ AgeInv /\ [Next]_vars => AgeInv'
<1> SUFFICES ASSUME TypeOK, ControlInv, LockInv, PairInv, AgeInv, [Next]_vars PROVE AgeInv'
  OBVIOUS
<1> USE ProcessAssumption, ChunkerAssumption DEF TypeOK, ControlInv, LockInv, PairInv, AgeInv, FreshTokenizer, HasCopied, SharedSection, ExclusiveSection, Handle, globals, mutex, locals, fresh, history, Process, GoTo
<1>1. ASSUME NEW e \in Extractor, StartExtract(e) PROVE AgeInv'
  BY <1>1 DEF StartExtract
<1>2. ASSUME NEW e \in Extractor, ExtractStep(e) PROVE AgeInv'
  <2>1. CASE LockShared(e)
    BY <2>1 DEF LockShared
  <2>2. CASE CopyChunker(e)
    BY <2>2 DEF CopyChunker
  <2>3. CASE CopyPad(e)
    BY <2>3 DEF CopyPad
  <2>4. CASE UnlockShared(e)
    BY <2>4 DEF UnlockShared
  <2>5. CASE FinishGroup(e)
    BY <2>5 DEF FinishGroup
  <2> QED BY <1>2, <2>1, <2>2, <2>3, <2>4, <2>5 DEF ExtractStep
<1>3. ASSUME NEW l \in Loader, StartLoad(l) PROVE AgeInv'
  BY <1>3 DEF StartLoad
<1>4. ASSUME NEW l \in Loader, LoadStep(l) PROVE AgeInv'
  <2>1. CASE MakeChunker(l)
    BY <2>1 DEF MakeChunker
  <2>2. CASE MakeFails(l)
    BY <2>2 DEF MakeFails
  <2>3. CASE LockUnique(l, "set_chunker")
    BY <2>3 DEF LockUnique
  <2>4. CASE SetChunker(l)
    BY <2>4 DEF SetChunker
  <2>5. CASE SetPad(l)
    BY <2>5 DEF SetPad
  <2>6. CASE UnlockUnique(l, "idle")
    BY <2>6 DEF UnlockUnique
  <2> QED BY <1>4, <2>1, <2>2, <2>3, <2>4, <2>5, <2>6 DEF LoadStep
<1>5. CASE BeginExit
  BY <1>5 DEF BeginExit
<1>6. CASE ExitStep
  <2>1. CASE LockUnique(Host, "reset")
    BY <2>1 DEF LockUnique
  <2>2. CASE ResetChunker
    BY <2>2 DEF ResetChunker
  <2>3. CASE UnlockUnique(Host, "exited")
    BY <2>3 DEF UnlockUnique
  <2> QED BY <1>6, <2>1, <2>2, <2>3 DEF ExitStep
<1>7. CASE Unloaded
  BY <1>7 DEF Unloaded, vars
<1>8. CASE UNCHANGED vars
  BY <1>8 DEF vars
<1> QED BY <1>1, <1>2, <1>3, <1>4, <1>5, <1>6, <1>7, <1>8 DEF Next

\* A copy of gchunker is never older than the call that made it.
THEOREM AgeCorrect == Spec => []AgeInv
<1>1. Init => AgeInv
  BY ProcessAssumption DEF Init, AgeInv, FreshTokenizer, HasCopied, Process
<1> QED BY <1>1, AgeStep, TypeCorrect, ControlCorrect, LockCorrect, PairCorrect, PTL DEF Spec

\* A step keeps the owner of a new chunker.
LEMMA OwnerStep == TypeOK /\ ControlInv /\ LockInv /\ PairInv /\ OwnerInv /\ [Next]_vars => OwnerInv'
<1> SUFFICES ASSUME TypeOK, ControlInv, LockInv, PairInv, OwnerInv, [Next]_vars PROVE OwnerInv'
  OBVIOUS
<1> USE ProcessAssumption, ChunkerAssumption DEF TypeOK, ControlInv, LockInv, PairInv, OwnerInv, SharedSection, ExclusiveSection, Handle, globals, mutex, locals, fresh, history, Process, GoTo
<1>1. ASSUME NEW e \in Extractor, StartExtract(e) PROVE OwnerInv'
  BY <1>1 DEF StartExtract
<1>2. ASSUME NEW e \in Extractor, ExtractStep(e) PROVE OwnerInv'
  <2>1. CASE LockShared(e)
    BY <2>1 DEF LockShared
  <2>2. CASE CopyChunker(e)
    BY <2>2 DEF CopyChunker
  <2>3. CASE CopyPad(e)
    BY <2>3 DEF CopyPad
  <2>4. CASE UnlockShared(e)
    BY <2>4 DEF UnlockShared
  <2>5. CASE FinishGroup(e)
    BY <2>5 DEF FinishGroup
  <2> QED BY <1>2, <2>1, <2>2, <2>3, <2>4, <2>5 DEF ExtractStep
<1>3. ASSUME NEW l \in Loader, StartLoad(l) PROVE OwnerInv'
  BY <1>3 DEF StartLoad
<1>4. ASSUME NEW l \in Loader, LoadStep(l) PROVE OwnerInv'
  <2>1. CASE MakeChunker(l)
    BY <2>1 DEF MakeChunker
  <2>2. CASE MakeFails(l)
    BY <2>2 DEF MakeFails
  <2>3. CASE LockUnique(l, "set_chunker")
    BY <2>3 DEF LockUnique
  <2>4. CASE SetChunker(l)
    <3> DEFINE n == new_chunker[l]
    <3>1. /\ n \in Chunker /\ n \in built
          /\ stamp' = [stamp EXCEPT ![n] = installs + 1]
          /\ new_chunker' = [new_chunker EXCEPT ![l] = NoChunker]
          /\ pc' = [pc EXCEPT ![l] = "set_pad"]
          /\ UNCHANGED <<built, local_chunker>>
      BY <2>4 DEF SetChunker
    <3>2. \A m \in Loader : m # l /\ pc'[m] \in {"lock_unique", "set_chunker"}
             => /\ new_chunker'[m] = new_chunker[m]
                /\ new_chunker[m] # n
                /\ pc[m] \in {"lock_unique", "set_chunker"}
      BY <2>4, <3>1 DEF SetChunker
    <3>3. ~(pc'[l] \in {"lock_unique", "set_chunker"})
      BY <3>1
    <3>4. \A m \in Loader : pc'[m] \in {"lock_unique", "set_chunker"}
             => new_chunker'[m] \in built' /\ stamp'[new_chunker'[m]] = 0
      BY <3>1, <3>2, <3>3
    <3>5. \A c \in Chunker : stamp'[c] > 0 => c \in built'
      BY <3>1
    <3>6. \A e \in Extractor :
             pc'[e] \in {"idle", "lock_shared", "copy_chunker"}
                => local_chunker'[e] = NoChunker
      BY <3>1
    <3> QED BY <3>2, <3>3, <3>4, <3>5, <3>6
  <2>5. CASE SetPad(l)
    BY <2>5 DEF SetPad
  <2>6. CASE UnlockUnique(l, "idle")
    BY <2>6 DEF UnlockUnique
  <2> QED BY <1>4, <2>1, <2>2, <2>3, <2>4, <2>5, <2>6 DEF LoadStep
<1>5. CASE BeginExit
  BY <1>5 DEF BeginExit
<1>6. CASE ExitStep
  <2>1. CASE LockUnique(Host, "reset")
    BY <2>1 DEF LockUnique
  <2>2. CASE ResetChunker
    BY <2>2 DEF ResetChunker
  <2>3. CASE UnlockUnique(Host, "exited")
    BY <2>3 DEF UnlockUnique
  <2> QED BY <1>6, <2>1, <2>2, <2>3 DEF ExitStep
<1>7. CASE Unloaded
  BY <1>7 DEF Unloaded, vars
<1>8. CASE UNCHANGED vars
  BY <1>8 DEF vars
<1> QED BY <1>1, <1>2, <1>3, <1>4, <1>5, <1>6, <1>7, <1>8 DEF Next

\* At first nobody has a chunker.
LEMMA OwnerInit == Init => OwnerInv
<1> SUFFICES ASSUME Init PROVE OwnerInv
  OBVIOUS
<1>1. \A p \in Process : pc[p] = "idle"
  BY DEF Init
<1>2. \A e \in Extractor : local_chunker[e] = NoChunker
  BY DEF Init
<1>3. \A c \in Chunker : ~(stamp[c] > 0)
  BY DEF Init
<1> QED BY <1>1, <1>2, <1>3 DEF OwnerInv, Process

\* A chunker is installed once, by the loader that built it.
THEOREM OwnerCorrect == Spec => []OwnerInv
BY OwnerInit, OwnerStep, TypeCorrect, ControlCorrect, LockCorrect, PairCorrect, PTL DEF Spec

\* One pointer's share of a reference count.
Is(x, c) == IF x = c THEN 1 ELSE 0

LEMMA IsNat == ASSUME NEW x, NEW c PROVE Is(x, c) \in Nat
BY DEF Is

\* The elements of S whose pointer is c.
Fibre(S, f, c) == {y \in S : f[y] = c}

\* The pointers to c are those of the other elements, and x's own.
LEMMA FibreSplit ==
    ASSUME NEW S, IsFiniteSet(S), NEW f, NEW x \in S, NEW c
    PROVE  /\ Cardinality(Fibre(S \ {x}, f, c)) \in Nat
           /\ Cardinality(Fibre(S, f, c))
                 = Cardinality(Fibre(S \ {x}, f, c)) + Is(f[x], c)
<1> DEFINE A == Fibre(S, f, c)
           R == Fibre(S \ {x}, f, c)
<1>1. IsFiniteSet(R) /\ x \notin R
  BY FS_Subset DEF Fibre
<1>2. Cardinality(R) \in Nat
  BY <1>1, FS_CardinalityType
<1>3. CASE f[x] = c
  <2>1. A = R \cup {x}
    BY <1>3 DEF Fibre
  <2>2. Cardinality(R \cup {x}) = Cardinality(R) + 1
    BY <1>1, FS_AddElement
  <2> QED BY <1>2, <1>3, <2>1, <2>2 DEF Is
<1>4. CASE f[x] # c
  <2>1. A = R
    BY <1>4 DEF Fibre
  <2> QED BY <1>2, <1>4, <2>1 DEF Is
<1> QED BY <1>2, <1>3, <1>4

\* Redirecting the pointer of x from f[x] to g[x] moves one reference.
LEMMA FibreUpdate ==
    ASSUME NEW S, IsFiniteSet(S), NEW f, NEW g, NEW x \in S, NEW c,
           \A y \in S \ {x} : g[y] = f[y]
    PROVE  Cardinality(Fibre(S, g, c))
             = Cardinality(Fibre(S, f, c)) - Is(f[x], c) + Is(g[x], c)
<1> DEFINE R == Cardinality(Fibre(S \ {x}, f, c))
<1>1. /\ R \in Nat
      /\ Cardinality(Fibre(S, f, c)) = R + Is(f[x], c)
  BY FibreSplit
<1>2. Cardinality(Fibre(S, g, c)) = Cardinality(Fibre(S \ {x}, g, c)) + Is(g[x], c)
  BY FibreSplit
<1>3. Fibre(S \ {x}, g, c) = Fibre(S \ {x}, f, c)
  BY DEF Fibre
<1>4. Is(f[x], c) \in Nat /\ Is(g[x], c) \in Nat
  BY IsNat
<1> QED BY <1>1, <1>2, <1>3, <1>4

\* The terms of a reference count.
Copies(c) == Cardinality(Fibre(Extractor, local_chunker, c))
Pending(c) == Cardinality(Fibre(Loader, new_chunker, c))
Global(c) == Is(gchunker, c)

\* A step keeps the counts exact.
LEMMA HolderStep == TypeOK /\ ControlInv /\ OwnerInv /\ HolderInv /\ [Next]_vars => HolderInv'
<1> SUFFICES ASSUME TypeOK, ControlInv, OwnerInv, HolderInv, [Next]_vars PROVE HolderInv'
  OBVIOUS
<1>a. /\ IsFiniteSet(Extractor) /\ IsFiniteSet(Loader)
      /\ NoChunker \notin Chunker
  BY ProcessAssumption, ChunkerAssumption
<1>t. /\ local_chunker \in [Extractor -> Handle]
      /\ new_chunker \in [Loader -> Handle]
      /\ useCount \in [Chunker -> Int]
      /\ built \subseteq Chunker
  BY DEF TypeOK
<1>n. \A c \in Chunker : Copies(c) \in Nat /\ Pending(c) \in Nat
  <2>1. ASSUME NEW c \in Chunker
        PROVE  /\ IsFiniteSet({e \in Extractor : local_chunker[e] = c})
               /\ IsFiniteSet({l \in Loader : new_chunker[l] = c})
    BY <1>a, FS_Subset
  <2> QED BY <2>1, FS_CardinalityType DEF Copies, Pending, Fibre
<1>h. \A c \in Chunker : useCount[c] = Global(c) + Copies(c) + Pending(c)
  BY DEF HolderInv, CountsHolders, Global, Is, Copies, Pending, Fibre
\* To preserve the counts it is enough to know how each term changes.
<1>c. ASSUME \A c \in Chunker : useCount'[c] = Global(c)' + Copies(c)' + Pending(c)'
      PROVE  CountsHolders'
  BY <1>c DEF CountsHolders, Global, Is, Copies, Pending, Fibre
<1>i. \A x, c : Is(x, c) \in Nat
  BY IsNat
<1>z. \A c \in Chunker : Is(NoChunker, c) = 0
  BY <1>a DEF Is
<1>d. \A c \in Handle, x \in Chunker :
         /\ Acquired(useCount, c)[x] = useCount[x] + Is(c, x)
         /\ Dropped(useCount, c)[x] = useCount[x] - Is(c, x)
  BY <1>t DEF Acquired, Dropped, Is
<1>l. ASSUME NEW e \in Extractor, NEW v, local_chunker' = [local_chunker EXCEPT ![e] = v]
      PROVE  \A c \in Chunker :
                Copies(c)' = Copies(c) - Is(local_chunker[e], c) + Is(v, c)
  <2>1. /\ \A x \in Extractor \ {e} : local_chunker'[x] = local_chunker[x]
        /\ local_chunker'[e] = v
    BY <1>l, <1>t
  <2>2. ASSUME NEW c \in Chunker
        PROVE  Cardinality(Fibre(Extractor, local_chunker', c))
                 = Cardinality(Fibre(Extractor, local_chunker, c)) - Is(local_chunker[e], c) + Is(local_chunker'[e], c)
    <3>1. IsFiniteSet(Extractor)
      BY <1>a
    <3> QED BY <2>1, <3>1, FibreUpdate, Z3T(60)
  <2> QED BY <2>1, <2>2 DEF Copies
<1>p. ASSUME NEW l \in Loader, NEW v, new_chunker' = [new_chunker EXCEPT ![l] = v]
      PROVE  \A c \in Chunker :
                Pending(c)' = Pending(c) - Is(new_chunker[l], c) + Is(v, c)
  <2>1. /\ \A x \in Loader \ {l} : new_chunker'[x] = new_chunker[x]
        /\ new_chunker'[l] = v
    BY <1>p, <1>t
  <2>2. ASSUME NEW c \in Chunker
        PROVE  Cardinality(Fibre(Loader, new_chunker', c))
                 = Cardinality(Fibre(Loader, new_chunker, c)) - Is(new_chunker[l], c) + Is(new_chunker'[l], c)
    <3>1. IsFiniteSet(Loader)
      BY <1>a
    <3> QED BY <2>1, <3>1, FibreUpdate, Z3T(60)
  <2> QED BY <2>1, <2>2 DEF Pending
\* A step that changes no pointer changes no count.
<1>u. ASSUME UNCHANGED <<gchunker, local_chunker, new_chunker, built, useCount>>,
             \A l \in Loader : pc'[l] \notin {"lock_unique", "set_chunker"}
                                 => pc[l] \notin {"lock_unique", "set_chunker"}
      PROVE  HolderInv'
  BY <1>u DEF HolderInv, CountsHolders
<1> DEFINE Kept == \A l \in Loader : pc'[l] = pc[l]
<1> USE DEF globals, mutex, locals, fresh, history, GoTo, Handle
<1>1. ASSUME NEW e \in Extractor, StartExtract(e) PROVE HolderInv'
  BY <1>1, <1>u, ProcessAssumption DEF StartExtract, TypeOK, Process
<1>2. ASSUME NEW e \in Extractor, ExtractStep(e) PROVE HolderInv'
  <2>k. \A l \in Loader : l # e
    BY ProcessAssumption
  <2>1. CASE LockShared(e) \/ CopyPad(e) \/ UnlockShared(e)
    BY <2>k, <2>1, <1>u DEF LockShared, CopyPad, UnlockShared, TypeOK, Process
  <2>2. CASE CopyChunker(e)
    <3>1. /\ local_chunker' = [local_chunker EXCEPT ![e] = gchunker]
          /\ useCount' = Acquired(useCount, gchunker)
          /\ UNCHANGED <<gchunker, new_chunker, built>>
          /\ Kept
          /\ local_chunker[e] = NoChunker
      BY <2>k, <2>2 DEF CopyChunker, OwnerInv, TypeOK, Process
    <3>2. ASSUME NEW c \in Chunker
          PROVE  useCount'[c] = Global(c)' + Copies(c)' + Pending(c)'
      <4>1. Copies(c)' = Copies(c) - Is(NoChunker, c) + Global(c)
        BY <3>1, <1>l DEF Global
      <4>2. Global(c)' = Global(c) /\ Pending(c)' = Pending(c)
        BY <3>1 DEF Global, Pending
      <4>3. useCount'[c] = useCount[c] + Global(c)
        BY <3>1, <1>d DEF Global, TypeOK
      <4>4. Global(c) \in Nat
        BY <1>i DEF Global
      <4> QED BY <4>1, <4>2, <4>3, <4>4, <1>z, <1>h, <1>n
    <3>4. CountsHolders'
      BY <3>2, <1>c
    <3> QED BY <3>1, <3>4, <1>t DEF HolderInv
  <2>3. CASE FinishGroup(e)
    <3>1. /\ local_chunker' = [local_chunker EXCEPT ![e] = NoChunker]
          /\ useCount' = Dropped(useCount, local_chunker[e])
          /\ UNCHANGED <<gchunker, new_chunker, built>>
          /\ Kept
      BY <2>k, <2>3 DEF FinishGroup, TypeOK, Process
    <3>2. ASSUME NEW c \in Chunker
          PROVE  useCount'[c] = Global(c)' + Copies(c)' + Pending(c)'
      <4>1. Copies(c)' = Copies(c) - Is(local_chunker[e], c) + Is(NoChunker, c)
        BY <3>1, <1>l
      <4>2. Global(c)' = Global(c) /\ Pending(c)' = Pending(c)
        BY <3>1 DEF Global, Pending
      <4>3. useCount'[c] = useCount[c] - Is(local_chunker[e], c)
        BY <3>1, <1>t, <1>d
      <4>4. Global(c) \in Nat /\ Is(local_chunker[e], c) \in Nat
        BY <1>i DEF Global
      <4> QED BY <4>1, <4>2, <4>3, <4>4, <1>z, <1>h, <1>n
    <3>4. CountsHolders'
      BY <3>2, <1>c
    <3> QED BY <3>1, <3>4, <1>t DEF HolderInv
  <2> QED BY <1>2, <2>1, <2>2, <2>3 DEF ExtractStep
<1>3. ASSUME NEW l \in Loader, StartLoad(l) PROVE HolderInv'
  BY <1>3, <1>u DEF StartLoad, TypeOK, Process
<1>4. ASSUME NEW l \in Loader, LoadStep(l) PROVE HolderInv'
  <2>1. CASE MakeChunker(l)
    <3>0. new_chunker[l] = NoChunker
      BY <2>1 DEF MakeChunker, HolderInv
    <3>1. PICK c \in Chunker \ built :
             /\ built' = built \cup {c}
             /\ new_chunker' = [new_chunker EXCEPT ![l] = c]
             /\ useCount' = [useCount EXCEPT ![c] = 1]
             /\ UNCHANGED <<gchunker, local_chunker>>
             /\ pc' = [pc EXCEPT ![l] = "lock_unique"]
      BY <2>1 DEF MakeChunker
    <3>3. useCount[c] = 0
      <4>1. /\ {e \in Extractor : local_chunker[e] = c} = {}
            /\ {m \in Loader : new_chunker[m] = c} = {}
            /\ gchunker # c
        BY <3>1, <1>a DEF HolderInv
      <4>2. Copies(c) = 0 /\ Pending(c) = 0 /\ Global(c) = 0
        BY <4>1, FS_EmptySet DEF Global, Is, Copies, Pending, Fibre
      <4> QED BY <4>2, <1>h
    <3>2. ASSUME NEW x \in Chunker
          PROVE  useCount'[x] = Global(x)' + Copies(x)' + Pending(x)'
      <4>1. Pending(x)' = Pending(x) - Is(NoChunker, x) + Is(c, x)
        BY <3>0, <3>1, <1>p
      <4>2. Global(x)' = Global(x) /\ Copies(x)' = Copies(x)
        BY <3>1 DEF Global, Copies
      <4>3. useCount'[x] = useCount[x] + Is(c, x)
        BY <3>1, <3>3, <1>t DEF Is
      <4>4. Global(x) \in Nat /\ Is(c, x) \in Nat
        BY <1>i DEF Global
      <4> QED BY <4>1, <4>2, <4>3, <4>4, <1>z, <1>h, <1>n
    <3>5. CountsHolders'
      BY <3>2, <1>c
    <3>6. \A m \in Loader : /\ new_chunker'[m] \in built' \cup {NoChunker}
                            /\ pc'[m] \notin {"lock_unique", "set_chunker"}
                                  => new_chunker'[m] = NoChunker
      BY <3>1, <1>t DEF HolderInv, TypeOK, Process
    <3> QED BY <3>1, <3>5, <3>6, <1>t DEF HolderInv
  <2>2. CASE MakeFails(l)
    BY <2>2, <1>u DEF MakeFails, TypeOK, Process
  <2>3. CASE LockUnique(l, "set_chunker") \/ UnlockUnique(l, "idle")
    BY <2>3, <1>u DEF LockUnique, UnlockUnique, TypeOK, Process
  <2>4. CASE SetChunker(l)
    <3>1. /\ gchunker' = new_chunker[l]
          /\ useCount' = Dropped(useCount, gchunker)
          /\ new_chunker' = [new_chunker EXCEPT ![l] = NoChunker]
          /\ UNCHANGED <<local_chunker, built>>
          /\ pc' = [pc EXCEPT ![l] = "set_pad"]
      BY <2>4 DEF SetChunker
    <3>2. ASSUME NEW c \in Chunker
          PROVE  useCount'[c] = Global(c)' + Copies(c)' + Pending(c)'
      <4>1. Pending(c)' = Pending(c) - Is(new_chunker[l], c) + Is(NoChunker, c)
        BY <3>1, <1>p
      <4>2. Global(c)' = Is(new_chunker[l], c) /\ Copies(c)' = Copies(c)
        BY <3>1 DEF Global, Copies
      <4>3. useCount'[c] = useCount[c] - Global(c)
        BY <3>1, <1>d DEF Global, TypeOK
      <4>4. Global(c) \in Nat /\ Is(new_chunker[l], c) \in Nat
        BY <1>i DEF Global
      <4> QED BY <4>1, <4>2, <4>3, <4>4, <1>z, <1>h, <1>n
    <3>4. CountsHolders'
      BY <3>2, <1>c
    <3>5. \A m \in Loader : /\ new_chunker'[m] \in built' \cup {NoChunker}
                            /\ pc'[m] \notin {"lock_unique", "set_chunker"}
                                  => new_chunker'[m] = NoChunker
      BY <3>1, <1>t DEF HolderInv, TypeOK, Process
    <3> QED BY <3>1, <3>4, <3>5, <1>t DEF HolderInv
  <2>5. CASE SetPad(l)
    BY <2>5, <1>u DEF SetPad, TypeOK, Process
  <2> QED BY <1>4, <2>1, <2>2, <2>3, <2>4, <2>5 DEF LoadStep
<1>5. CASE BeginExit
  BY <1>5, <1>u, ProcessAssumption DEF BeginExit, TypeOK, Process
<1>6. CASE ExitStep
  <2>k. \A l \in Loader : l # Host
    BY ProcessAssumption
  <2>1. CASE LockUnique(Host, "reset") \/ UnlockUnique(Host, "exited")
    BY <2>k, <2>1, <1>u DEF LockUnique, UnlockUnique, TypeOK, Process
  <2>2. CASE ResetChunker
    <3>1. /\ gchunker' = NoChunker
          /\ useCount' = Dropped(useCount, gchunker)
          /\ UNCHANGED <<local_chunker, new_chunker, built>>
          /\ Kept
      BY <2>k, <2>2 DEF ResetChunker, TypeOK, Process
    <3>2. ASSUME NEW c \in Chunker
          PROVE  useCount'[c] = Global(c)' + Copies(c)' + Pending(c)'
      <4>1. Global(c)' = Is(NoChunker, c)
        BY <3>1 DEF Global
      <4>2. Copies(c)' = Copies(c) /\ Pending(c)' = Pending(c)
        BY <3>1 DEF Copies, Pending
      <4>3. useCount'[c] = useCount[c] - Global(c)
        BY <3>1, <1>d DEF Global, TypeOK
      <4>4. Global(c) \in Nat
        BY <1>i DEF Global
      <4> QED BY <4>1, <4>2, <4>3, <4>4, <1>z, <1>h, <1>n
    <3>4. CountsHolders'
      BY <3>2, <1>c
    <3> QED BY <3>1, <3>4 DEF HolderInv
  <2> QED BY <1>6, <2>1, <2>2 DEF ExitStep
<1>7. CASE Unloaded
  BY <1>7, <1>u DEF Unloaded, vars
<1>8. CASE UNCHANGED vars
  BY <1>8, <1>u DEF vars
<1> QED BY <1>1, <1>2, <1>3, <1>4, <1>5, <1>6, <1>7, <1>8 DEF Next

\* At first there is nothing to count.
LEMMA HolderInit == Init => HolderInv
<1> SUFFICES ASSUME Init PROVE HolderInv
  OBVIOUS
<1> USE ChunkerAssumption DEF Init
<1>1. \A c \in Chunker : /\ {e \in Extractor : local_chunker[e] = c} = {}
                         /\ {l \in Loader : new_chunker[l] = c} = {}
  OBVIOUS
<1>2. \A c \in Chunker : gchunker # c /\ useCount[c] = 0
  OBVIOUS
<1>3. CountsHolders
  <2> SUFFICES ASSUME NEW c \in Chunker
               PROVE  useCount[c] = Global(c) + Copies(c) + Pending(c)
    BY DEF CountsHolders, Global, Is, Copies, Pending, Fibre
  <2>1. Copies(c) = 0 /\ Pending(c) = 0
    BY <1>1, FS_EmptySet DEF Copies, Pending, Fibre
  <2> QED BY <1>2, <2>1 DEF Global, Is
<1> QED BY <1>3 DEF HolderInv

\* Reference counts are exact for any number of threads and models.
THEOREM HolderCorrect == Spec => []HolderInv
BY HolderInit, HolderStep, TypeCorrect, ControlCorrect, OwnerCorrect, PTL DEF Spec

-----------------------------------------------------------------------------
\* No extractor ever pads with a token of another vocabulary than the one it
\* tokenizes with (property NoTornPair).
THEOREM PairNeverTorn == Spec => []NoTornPair
<1>1. PairInv => NoTornPair
  BY DEF PairInv
<1> QED BY <1>1, PairCorrect, PTL

\* No extractor works with a tokenizer that was superseded before its call
\* (property FreshTokenizer).
THEOREM TokenizerFresh == Spec => []FreshTokenizer
<1>1. AgeInv => FreshTokenizer
  BY DEF AgeInv
<1> QED BY <1>1, AgeCorrect, PTL

\* The reference count of every chunker is the number of its holders (property
\* CountsHolders).
THEOREM CountsExact == Spec => []CountsHolders
<1>1. HolderInv => CountsHolders
  BY DEF HolderInv
<1> QED BY <1>1, HolderCorrect, PTL

\* An extractor that works on a chunker, and the global, keep it alive.
THEOREM NoUseAfterFree ==
    Spec => [](/\ \A e \in Extractor :
                     local_chunker[e] # NoChunker => useCount[local_chunker[e]] > 0
               /\ gchunker # NoChunker => useCount[gchunker] > 0)
<1> DEFINE Held ==
       /\ \A e \in Extractor :
             local_chunker[e] # NoChunker => useCount[local_chunker[e]] > 0
       /\ gchunker # NoChunker => useCount[gchunker] > 0
<1>1. TypeOK /\ HolderInv => Held
  <2> SUFFICES ASSUME TypeOK, HolderInv PROVE Held
    OBVIOUS
  <2>1. \A c \in Chunker :
           /\ IsFiniteSet({e \in Extractor : local_chunker[e] = c})
           /\ IsFiniteSet({l \in Loader : new_chunker[l] = c})
    <3> SUFFICES ASSUME NEW c \in Chunker
                 PROVE  /\ IsFiniteSet({e \in Extractor : local_chunker[e] = c})
                        /\ IsFiniteSet({l \in Loader : new_chunker[l] = c})
      OBVIOUS
    <3> QED BY FS_Subset, ProcessAssumption
  <2>2. \A c \in Chunker : Copies(c) \in Nat /\ Pending(c) \in Nat
    BY <2>1, FS_CardinalityType DEF Copies, Pending, Fibre
  <2>3. \A c \in Chunker : useCount[c] = Global(c) + Copies(c) + Pending(c)
    BY DEF HolderInv, CountsHolders, Global, Is, Copies, Pending, Fibre
  <2>4. ASSUME NEW e \in Extractor, local_chunker[e] # NoChunker
        PROVE  useCount[local_chunker[e]] > 0
    <3> DEFINE c == local_chunker[e]
    <3>1. c \in Chunker
      BY <2>4 DEF TypeOK, Handle
    <3>2. Copies(c) # 0
      <4>1. e \in {x \in Extractor : local_chunker[x] = c}
        OBVIOUS
      <4> QED BY <3>1, <4>1, <2>1, FS_EmptySet DEF Copies, Fibre
    <3> HIDE DEF c
    <3>3. useCount[c] > 0
      BY <3>1, <3>2, <2>2, <2>3 DEF Global, Is
    <3> QED BY <3>3 DEF c
  <2>5. gchunker # NoChunker => useCount[gchunker] > 0
    BY <2>2, <2>3 DEF Global, Is, TypeOK, Handle
  <2> QED BY <2>4, <2>5
<1> QED BY <1>1, TypeCorrect, HolderCorrect, PTL

\* The globals, their mutex and the copies implement one atomic cell
\* (property AtomicCell): the first assignment of a loader is the write, the
\* first copy of an extractor is the read, and every other step changes
\* nothing a caller can see.
THEOREM CellImplemented == Spec => AtomicCell
<1> DEFINE Inv == TypeOK /\ ControlInv /\ LockInv /\ PairInv /\ OwnerInv
<1>1. Init => Cell!Init
  <2> SUFFICES ASSUME Init PROVE Cell!Init
    OBVIOUS
  <2>1. /\ \A p \in Process : pc[p] = "idle"
        /\ gchunker = NoChunker
        /\ local_chunker = [e \in Extractor |-> NoChunker]
        /\ \A c \in Chunker : stamp[c] = 0
    BY DEF Init
  <2>2. cellBar = NoChunker
    BY <2>1 DEF cellBar, Pair, Process
  <2>3. spentBar = {}
    BY <2>1 DEF spentBar
  <2>4. snapshotBar = [e \in Extractor |-> NoChunker]
    BY <2>1 DEF snapshotBar, Process
  <2> QED BY <2>2, <2>3, <2>4 DEF Cell!Init
<1>2. Inv /\ Inv' /\ [Next]_vars => [Cell!Next]_(Cell!vars)
  <2> SUFFICES ASSUME Inv, Inv', [Next]_vars PROVE [Cell!Next]_(Cell!vars)
    OBVIOUS
  <2> DEFINE Stutter == UNCHANGED <<cellBar, spentBar, snapshotBar>>
  <2>a. Stutter => [Cell!Next]_(Cell!vars)
    BY DEF Cell!vars
  <2> HIDE DEF Stutter
  <2> USE ProcessAssumption, ChunkerAssumption
      DEF TypeOK, ControlInv, LockInv, PairInv, NoTornPair, SharedSection,
          ExclusiveSection, Handle, globals, mutex, locals, fresh, history,
          Process, GoTo
  <2>1. ASSUME NEW e \in Extractor, StartExtract(e) PROVE Stutter
    BY <2>1 DEF StartExtract, Stutter, cellBar, spentBar, snapshotBar
  <2>2. ASSUME NEW e \in Extractor, ExtractStep(e)
        PROVE [Cell!Next]_(Cell!vars)
    <3>1. CASE LockShared(e)
      BY <2>a, <3>1 DEF LockShared, Stutter, cellBar, spentBar, snapshotBar
    <3>2. CASE CopyChunker(e)
      <4>1. /\ \A l \in Loader : pc[l] # "set_pad" /\ pc'[l] # "set_pad"
            /\ local_chunker[e] = NoChunker
        BY <3>2 DEF CopyChunker, OwnerInv
      <4>2. cellBar = gchunker /\ cellBar' = cellBar /\ spentBar' = spentBar
        BY <3>2, <4>1 DEF CopyChunker, cellBar, spentBar, Pair
      <4>3. snapshotBar[e] = NoChunker
        BY <3>2, <4>1 DEF CopyChunker, snapshotBar
      <4>4. snapshotBar' = [snapshotBar EXCEPT ![e] = gchunker]
        BY <3>2 DEF CopyChunker, snapshotBar
      <4>5. Cell!Take(e)
        BY <4>2, <4>3, <4>4 DEF Cell!Take
      <4> QED BY <4>5 DEF Cell!Next
    <3>3. CASE CopyPad(e)
      BY <2>a, <3>3 DEF CopyPad, Stutter, cellBar, spentBar, snapshotBar, Pair
    <3>4. CASE UnlockShared(e)
      BY <2>a, <3>4 DEF UnlockShared, Stutter, cellBar, spentBar, snapshotBar, Pair
    <3>5. CASE FinishGroup(e)
      <4>1. cellBar' = cellBar /\ spentBar' = spentBar
        BY <3>5 DEF FinishGroup, cellBar, spentBar
      <4>2. snapshotBar' = [snapshotBar EXCEPT ![e] = NoChunker]
        BY <3>5 DEF FinishGroup, snapshotBar, Pair
      <4>3. Cell!Release(e)
        BY <4>1, <4>2 DEF Cell!Release
      <4> QED BY <4>3 DEF Cell!Next
    <3> QED BY <2>2, <3>1, <3>2, <3>3, <3>4, <3>5 DEF ExtractStep
  <2>3. ASSUME NEW l \in Loader, StartLoad(l) PROVE Stutter
    BY <2>3 DEF StartLoad, Stutter, cellBar, spentBar, snapshotBar
  <2>4. ASSUME NEW l \in Loader, LoadStep(l) PROVE [Cell!Next]_(Cell!vars)
    <3>1. CASE MakeChunker(l)
      BY <2>a, <3>1 DEF MakeChunker, Stutter, cellBar, spentBar, snapshotBar
    <3>2. CASE MakeFails(l)
      BY <2>a, <3>2 DEF MakeFails, Stutter, cellBar, spentBar, snapshotBar
    <3>3. CASE LockUnique(l, "set_chunker")
      BY <2>a, <3>3 DEF LockUnique, Stutter, cellBar, spentBar, snapshotBar
    <3>4. CASE SetChunker(l)
      <4> DEFINE n == new_chunker[l]
      <4>1. /\ n \in Chunker /\ stamp[n] = 0
            /\ gchunker' = n
            /\ stamp' = [stamp EXCEPT ![n] = installs + 1]
            /\ pc' = [pc EXCEPT ![l] = "set_pad"]
            /\ UNCHANGED <<local_chunker, local_pad>>
        BY <3>4 DEF SetChunker, OwnerInv
      <4>2. cellBar' = n
        BY <4>1 DEF cellBar
      <4>3. n \notin spentBar /\ spentBar' = spentBar \cup {n}
        BY <4>1 DEF spentBar
      <4>4. snapshotBar' = snapshotBar
        BY <4>1 DEF snapshotBar
      <4>5. Cell!Replace(n)
        BY <4>2, <4>3, <4>4 DEF Cell!Replace
      <4> QED BY <4>1, <4>5 DEF Cell!Next
    <3>5. CASE SetPad(l)
      <4>1. /\ gchunker \in Chunker /\ new_pad[l] = PadOf[gchunker]
            /\ gchunker' = gchunker
            /\ gpadtoken_id' = new_pad[l]
            /\ pc' = [pc EXCEPT ![l] = "unlock_unique"]
            /\ UNCHANGED <<local_chunker, local_pad, stamp>>
        BY <3>5 DEF SetPad
      <4>2. cellBar = gchunker
        BY <3>5 DEF SetPad, cellBar
      <4>3. cellBar' = gchunker
        BY <4>1 DEF cellBar, Pair
      <4>4. spentBar' = spentBar /\ snapshotBar' = snapshotBar
        BY <4>1 DEF spentBar, snapshotBar
      <4> QED BY <2>a, <4>2, <4>3, <4>4 DEF Stutter
    <3>6. CASE UnlockUnique(l, "idle")
      BY <2>a, <3>6 DEF UnlockUnique, Stutter, cellBar, spentBar, snapshotBar
    <3> QED BY <2>4, <3>1, <3>2, <3>3, <3>4, <3>5, <3>6 DEF LoadStep
  <2>5. CASE BeginExit
    BY <2>a, <2>5 DEF BeginExit, Stutter, cellBar, spentBar, snapshotBar
  <2>6. CASE ExitStep
    <3>1. CASE LockUnique(Host, "reset")
      BY <2>a, <3>1 DEF LockUnique, Stutter, cellBar, spentBar, snapshotBar
    <3>2. CASE ResetChunker
      <4>1. \A l \in Loader : pc'[l] # "set_pad"
        BY <3>2 DEF ResetChunker
      <4>2. cellBar' = NoChunker
        BY <3>2, <4>1 DEF ResetChunker, cellBar, Pair
      <4>3. spentBar' = spentBar /\ snapshotBar' = snapshotBar
        BY <3>2 DEF ResetChunker, spentBar, snapshotBar
      <4>4. Cell!Empty
        BY <4>2, <4>3 DEF Cell!Empty
      <4> QED BY <4>4 DEF Cell!Next
    <3>3. CASE UnlockUnique(Host, "exited")
      BY <2>a, <3>3 DEF UnlockUnique, Stutter, cellBar, spentBar, snapshotBar
    <3> QED BY <2>6, <3>1, <3>2, <3>3 DEF ExitStep
  <2>7. CASE Unloaded
    BY <2>a, <2>7 DEF Unloaded, vars, Stutter, cellBar, spentBar, snapshotBar
  <2>8. CASE UNCHANGED vars
    BY <2>a, <2>8 DEF vars, Stutter, cellBar, spentBar, snapshotBar
  <2> QED BY <2>a, <2>1, <2>2, <2>3, <2>4, <2>5, <2>6, <2>7, <2>8 DEF Next
<1> QED
  BY <1>1, <1>2, TypeCorrect, ControlCorrect, LockCorrect, PairCorrect,
     OwnerCorrect, PTL DEF Spec, AtomicCell, Cell!Spec

-----------------------------------------------------------------------------
\* The teardown of the plugin.

TokenizerInv == TypeOK /\ ControlInv /\ LockInv /\ PairInv /\ OwnerInv /\ HolderInv

\* A call is in process_paragraphs only while it renders, and has its document
\* open only until it closes it; what else is open was left behind.
CallInv ==
    /\ \A e \in Extractor : pc[e] # "idle" => stage[e] = "chunking"
    /\ opened \subseteq Extractor \cup {Nobody}
    /\ \A e \in opened \ {Nobody} : stage[e] \in {"pages", "render", "chunking", "close"}
    /\ stage \in [Extractor -> {"none", "read", "load", "mime", "parse", "pages",
                                "render", "chunking", "close"}]

\* Nothing runs before the start, and nothing once the host has begun to exit;
\* until then the libraries are up, and the backend is from the first
\* tokenizer on.
LibraryInv ==
    /\ phase \in {"new", "up", "dead"}
    /\ phase = "new" => pc[Host] = "idle" /\ Quiet /\ built = {}
    /\ phase = "dead" => pc[Host] = "exited"
    /\ pc[Host] # "idle" => Quiet
    /\ pc[Host] = "idle" /\ phase # "new" => pdfium = "up" /\ gmime = "up"
    /\ pc[Host] \in {"unlock_unique", "exited"} => gchunker = NoChunker
    /\ backend \in {"up", "down"}
    /\ backend = "down" => built = {} \/ pc[Host] = "exited"

LifecycleInv == drains => TokenizerInv /\ CallInv /\ LibraryInv

-----------------------------------------------------------------------------
\* At first everything is down.
LEMMA LifecycleInitially == LifecycleInit => LifecycleInv
<1> SUFFICES ASSUME LifecycleInit PROVE TokenizerInv /\ CallInv /\ LibraryInv
  BY DEF LifecycleInv
<1>1. Init
  BY DEF LifecycleInit
<1>2. TypeOK
  BY <1>1, BoundAssumption, ProcessAssumption DEF Init, TypeOK, Process, Handle
<1>3. ControlInv /\ LockInv /\ PairInv
  BY <1>1, ProcessAssumption
     DEF Init, ControlInv, LockInv, PairInv, NoTornPair, Process,
         SharedSection, ExclusiveSection
<1>4. OwnerInv /\ HolderInv
  BY <1>1, OwnerInit, HolderInit
<1>5. \A p \in Process : pc[p] = "idle"
  BY <1>1 DEF Init
<1>6. CallInv
  BY <1>5 DEF LifecycleInit, CallInv, Process
<1>7. LibraryInv
  BY <1>1, <1>5 DEF Init, LifecycleInit, LibraryInv, Quiet, Process
<1> QED BY <1>2, <1>3, <1>4, <1>6, <1>7 DEF TokenizerInv

\* A step of the tokenizer keeps its invariants.
LEMMA TokenizerStep == TokenizerInv /\ [Next]_vars => TokenizerInv'
BY TypeStep, ControlStep, LockStep, PairStep, OwnerStep, HolderStep DEF TokenizerInv

\* Dropping a null pointer changes no count.
LEMMA DropNothing == TypeOK => Dropped(useCount, NoChunker) = useCount
BY ChunkerAssumption DEF TypeOK, Dropped

\* The tokenizer's part of a step of the plugin, when the host waits.
LEMMA StepOfTokenizer ==
    drains /\ LifecycleInv /\ [LifecycleNext]_lifecycleVars => [Next]_vars
<1> SUFFICES ASSUME drains, LifecycleInv, [LifecycleNext]_lifecycleVars PROVE [Next]_vars
  OBVIOUS
<1> USE DEF tokenizerVars
<1>1. CASE UNCHANGED lifecycleVars
  BY <1>1 DEF lifecycleVars
<1>2. CASE OnStartup
  BY <1>2 DEF OnStartup
<1>3. ASSUME NEW e \in Extractor, BeginCall(e) \/ CallStep(e) PROVE [Next]_vars
  BY <1>3 DEF BeginCall, CallStep, Dispatch, LoadDocument, TextRead, Render,
              Chunking, Rendered, CloseDocument, Next
<1>4. ASSUME NEW l \in Loader, BeginLoad(l) \/ Construct(l) \/ Install(l) PROVE [Next]_vars
  BY <1>4 DEF BeginLoad, Construct, Install, LoadStep, Next
<1>5. CASE ReceiveDeinit
  BY <1>5 DEF ReceiveDeinit, Next
<1>6. CASE ExitProgress
  BY <1>6 DEF ExitProgress, DropTokenizer, StopLibraries, LeaveOnExit, ExitStep, Next
<1>7. CASE RunHandler
  BY <1>7 DEF RunHandler
<1>8. CASE DestroyGlobals
  <2>1. gchunker = NoChunker /\ gchunker' = gchunker
    BY <1>8 DEF DestroyGlobals, LifecycleInv, LibraryInv
  <2>2. useCount' = useCount
    BY <1>8, <2>1, DropNothing DEF DestroyGlobals, LifecycleInv, TokenizerInv
  <2>3. UNCHANGED vars
    BY <1>8, <2>1, <2>2 DEF DestroyGlobals, vars, globals
  <2> QED BY <2>3
<1>9. CASE Dead
  BY <1>9 DEF Dead, lifecycleVars
<1> QED BY <1>1, <1>2, <1>3, <1>4, <1>5, <1>6, <1>7, <1>8, <1>9 DEF LifecycleNext

\* What each step of a call leaves alone: the other threads' places and stages.
LEMMA CallInvariant ==
    drains /\ LifecycleInv /\ [LifecycleNext]_lifecycleVars => CallInv'
<1> SUFFICES ASSUME drains, LifecycleInv, [LifecycleNext]_lifecycleVars PROVE CallInv'
  OBVIOUS
<1>a. TypeOK /\ ControlInv /\ CallInv /\ LibraryInv
  BY DEF LifecycleInv, TokenizerInv
<1> USE ProcessAssumption, <1>a
    DEF CallInv, TypeOK, Process, MoveTo, GoTo, tokenizerVars, calls, vars
<1>1. CASE UNCHANGED lifecycleVars \/ Dead
  BY <1>1 DEF lifecycleVars, Dead
<1>2. CASE OnStartup
  BY <1>2 DEF OnStartup
<1>3. ASSUME NEW e \in Extractor, BeginCall(e) \/ CallStep(e) PROVE CallInv'
  <2>1. CASE BeginCall(e)
    BY <2>1 DEF BeginCall
  <2>2. CASE Dispatch(e)
    <3>1. PICK s \in {"load", "mime", "parse", "none"} : MoveTo(e, s)
      BY <2>2 DEF Dispatch
    <3>2. pc' = pc /\ opened' = opened /\ stage[e] = "read"
      BY <2>2 DEF Dispatch
    <3> QED BY <3>1, <3>2
  <2>3. CASE LoadDocument(e)
    <3>1. pc' = pc /\ stage[e] = "load"
      BY <2>3 DEF LoadDocument
    <3>2. \/ MoveTo(e, "pages") /\ opened' = opened \cup {e}
          \/ MoveTo(e, "none") /\ opened' = opened
      BY <2>3 DEF LoadDocument
    <3> QED BY <3>1, <3>2
  <2>4. CASE TextRead(e)
    <3>1. pc' = pc /\ stage[e] \in {"pages", "mime", "parse"}
      BY <2>4 DEF TextRead
    <3>2. CASE MoveTo(e, "render") /\ opened' = opened
      BY <3>1, <3>2
    <3>3. CASE Unwound(e)
      BY <3>1, <3>3 DEF Unwound
    <3> QED BY <2>4, <3>2, <3>3 DEF TextRead
  <2>5. CASE Render(e)
    BY <2>5 DEF Render, StartExtract
  <2>6. CASE Chunking(e)
    <3>1. UNCHANGED <<stage, opened>> /\ stage[e] = "chunking"
      BY <2>6 DEF Chunking
    <3>2. \A f \in Extractor : f # e => pc'[f] = pc[f]
      BY <2>6 DEF Chunking, ExtractStep, LockShared, CopyChunker, CopyPad,
                  UnlockShared, FinishGroup
    <3> QED BY <3>1, <3>2
  <2>7. CASE Rendered(e)
    <3>1. pc' = pc /\ stage[e] = "chunking" /\ pc[e] = "idle"
      BY <2>7 DEF Rendered
    <3>2. CASE e \in opened /\ MoveTo(e, "close") /\ opened' = opened
      BY <3>1, <3>2
    <3>3. CASE e \notin opened /\ MoveTo(e, "none") /\ opened' = opened
      BY <3>1, <3>3
    <3>4. CASE Unwound(e)
      BY <3>1, <3>4 DEF Unwound
    <3> QED BY <2>7, <3>2, <3>3, <3>4 DEF Rendered
  <2>8. CASE CloseDocument(e)
    BY <2>8 DEF CloseDocument
  <2> QED BY <1>3, <2>1, <2>2, <2>3, <2>4, <2>5, <2>6, <2>7, <2>8 DEF CallStep
<1>4. ASSUME NEW l \in Loader, BeginLoad(l) \/ Construct(l) \/ Install(l) PROVE CallInv'
  <2>1. \A e \in Extractor : pc'[e] = pc[e]
    BY <1>4, ZenonT(60) DEF BeginLoad, Construct, Install, StartLoad, MakeChunker, MakeFails,
                LockUnique, SetChunker, SetPad, UnlockUnique
  <2>2. UNCHANGED <<stage, opened>>
    BY <1>4 DEF BeginLoad, Construct, Install
  <2> QED BY <2>1, <2>2
<1>5. CASE ReceiveDeinit \/ ExitProgress
  <2>1. \A e \in Extractor : pc'[e] = pc[e]
    BY <1>5 DEF ReceiveDeinit, BeginExit, ExitProgress, DropTokenizer, LockUnique,
                ResetChunker, StopLibraries, LeaveOnExit, UnlockUnique
  <2>2. UNCHANGED <<stage, opened>>
    BY <1>5 DEF ReceiveDeinit, ExitProgress, DropTokenizer, StopLibraries, LeaveOnExit
  <2> QED BY <2>1, <2>2
<1>6. CASE RunHandler \/ DestroyGlobals
  BY <1>6 DEF RunHandler, DestroyGlobals
<1> QED BY <1>1, <1>2, <1>3, <1>4, <1>5, <1>6 DEF LifecycleNext

\* The libraries follow the host, and the host finds everything quiet.
LEMMA LibraryInvariant ==
    drains /\ LifecycleInv /\ [LifecycleNext]_lifecycleVars => LibraryInv'
<1> SUFFICES ASSUME drains, LifecycleInv, [LifecycleNext]_lifecycleVars PROVE LibraryInv'
  OBVIOUS
<1>a. TypeOK /\ ControlInv /\ CallInv /\ LibraryInv
  BY DEF LifecycleInv, TokenizerInv
<1> USE ProcessAssumption, <1>a
    DEF CallInv, LibraryInv, Quiet, TypeOK, Process, MoveTo, GoTo,
        tokenizerVars, libraries, calls, vars, globals, fresh
<1>1. CASE UNCHANGED lifecycleVars \/ Dead
  BY <1>1 DEF lifecycleVars, Dead
<1>2. CASE OnStartup
  BY <1>2 DEF OnStartup
<1>3. ASSUME phase = "up", NEW e \in Extractor, BeginCall(e) \/ CallStep(e)
      PROVE  LibraryInv'
  <2>1. pc[Host] = "idle"
    BY <1>3 DEF BeginCall, CallStep, Dispatch, LoadDocument, TextRead, Render,
                Chunking, Rendered, CloseDocument
  <2>2. pc'[Host] = pc[Host] /\ UNCHANGED <<phase, pdfium, gmime, backend, built>>
    BY <1>3 DEF BeginCall, CallStep, Dispatch, LoadDocument, TextRead, Render,
                Chunking, Rendered, CloseDocument, StartExtract, ExtractStep,
                LockShared, CopyChunker, CopyPad, UnlockShared, FinishGroup
  <2> QED BY <1>3, <2>1, <2>2
<1>4. ASSUME phase = "up", NEW l \in Loader, BeginLoad(l) \/ Construct(l) \/ Install(l)
      PROVE  LibraryInv'
  <2>1. pc[Host] = "idle"
    BY <1>4 DEF BeginLoad, StartLoad, Construct, MakeChunker, MakeFails, Install,
                LockUnique, SetChunker, SetPad, UnlockUnique
  <2>2. pc'[Host] = pc[Host] /\ UNCHANGED <<phase, pdfium, gmime>>
    BY <1>4 DEF BeginLoad, StartLoad, Construct, MakeChunker, MakeFails, Install,
                LockUnique, SetChunker, SetPad, UnlockUnique
  <2>3. backend' = "up" \/ UNCHANGED <<backend, built>>
    BY <1>4 DEF BeginLoad, StartLoad, Construct, Install,
                LockUnique, SetChunker, SetPad, UnlockUnique
  <2> QED BY <1>4, <2>1, <2>2, <2>3
<1>5. CASE phase = "up" /\ ReceiveDeinit
  BY <1>5 DEF ReceiveDeinit, BeginExit
<1>6. CASE phase = "up" /\ ExitProgress
  <2>1. CASE DropTokenizer
    BY <1>6, <2>1 DEF DropTokenizer, LockUnique, ResetChunker
  <2>2. CASE StopLibraries
    BY <1>6, <2>2 DEF StopLibraries
  <2>3. CASE LeaveOnExit
    BY <1>6, <2>3 DEF LeaveOnExit, UnlockUnique
  <2> QED BY <1>6, <2>1, <2>2, <2>3 DEF ExitProgress
<1>7. CASE phase = "up" /\ RunHandler
  BY <1>7 DEF RunHandler
<1>8. CASE phase = "up" /\ DestroyGlobals
  BY <1>8 DEF DestroyGlobals
<1> QED BY <1>1, <1>2, <1>3, <1>4, <1>5, <1>6, <1>7, <1>8 DEF LifecycleNext

\* With a host that waits, the calls, the libraries and the tokenizer keep step
\* from kInitPlugin to the end of the process.
THEOREM LifecycleCorrect == LifecycleSpec => []LifecycleInv
<1>1. LifecycleInv /\ [LifecycleNext]_lifecycleVars => LifecycleInv'
  <2> SUFFICES ASSUME LifecycleInv, [LifecycleNext]_lifecycleVars, drains'
               PROVE  TokenizerInv' /\ CallInv' /\ LibraryInv'
    BY DEF LifecycleInv
  <2>1. drains
    BY DEF LifecycleNext, lifecycleVars, OnStartup, BeginCall, CallStep, Dispatch,
           LoadDocument, TextRead, Render, Chunking, Rendered, CloseDocument,
           BeginLoad, Construct, Install, ReceiveDeinit, ExitProgress,
           DropTokenizer, StopLibraries, LeaveOnExit, RunHandler, DestroyGlobals, Dead
  <2>2. TokenizerInv'
    BY <2>1, StepOfTokenizer, TokenizerStep DEF LifecycleInv
  <2> QED BY <2>1, <2>2, CallInvariant, LibraryInvariant
<1> QED BY <1>1, LifecycleInitially, PTL DEF LifecycleSpec

\* No pointer, no count.
LEMMA Uncounted ==
    ASSUME HolderInv, NEW c \in Chunker, gchunker # c,
           \A e \in Extractor : local_chunker[e] # c,
           \A l \in Loader : new_chunker[l] # c
    PROVE  useCount[c] = 0
<1>1. /\ {e \in Extractor : local_chunker[e] = c} = {}
      /\ {l \in Loader : new_chunker[l] = c} = {}
  OBVIOUS
<1>2. useCount[c] = 0 + Cardinality({}) + Cardinality({})
  BY <1>1 DEF HolderInv, CountsHolders
<1> QED BY <1>2, FS_EmptySet

\* With a host that waits for the commands under way, no call is inside a
\* library that was stopped, no document is open in a stopped PDFium but those
\* that an exception left behind, and every tokenizer is destroyed before the
\* llama backend is freed (property SafeTeardown).
THEOREM TeardownSafe == LifecycleSpec => []SafeTeardown
<1>1. LifecycleInv => SafeTeardown
  <2> SUFFICES ASSUME LifecycleInv, drains
               PROVE  /\ InsidePdfium # {} => pdfium = "up"
                      /\ pdfium = "down" => opened \subseteq {Nobody}
                      /\ (\E e \in Extractor : stage[e] = "mime") => gmime = "up"
                      /\ \A c \in Chunker : useCount[c] > 0 => backend = "up"
    BY DEF SafeTeardown
  <2> USE DEF LifecycleInv
  <2>1. ASSUME NEW e \in Extractor, stage[e] # "none" PROVE pdfium = "up" /\ gmime = "up"
    BY <2>1 DEF LibraryInv, Quiet
  <2>2. \/ opened \subseteq {Nobody} /\ InsidePdfium = {}
        \/ \E e \in Extractor : stage[e] # "none"
    BY DEF CallInv, InsidePdfium, PdfiumStage
  <2>3. ASSUME NEW c \in Chunker, backend = "down" PROVE useCount[c] = 0
    <3>1. CASE built = {}
      BY <3>1, ChunkerAssumption, Uncounted DEF TokenizerInv, HolderInv
    <3>2. CASE pc[Host] = "exited"
      <4>1. gchunker = NoChunker /\ Quiet
        BY <3>2 DEF LibraryInv
      <4>2. \A e \in Extractor : pc[e] = "idle"
        BY <4>1 DEF CallInv, Quiet
      <4>3. \A e \in Extractor : local_chunker[e] = NoChunker
        BY <4>2 DEF TokenizerInv, OwnerInv
      <4>4. \A l \in Loader : new_chunker[l] = NoChunker
        BY <4>1 DEF Quiet, TokenizerInv, HolderInv
      <4> QED BY <4>1, <4>3, <4>4, ChunkerAssumption, Uncounted DEF TokenizerInv
    <3> QED BY <2>3, <3>1, <3>2 DEF LibraryInv
  <2>4. backend \in {"up", "down"}
    BY DEF LibraryInv
  <2> QED BY <2>1, <2>2, <2>3, <2>4
<1> QED BY <1>1, LifecycleCorrect, PTL
=============================================================================
