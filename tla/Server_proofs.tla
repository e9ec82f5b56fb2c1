--------------------------- MODULE Server_proofs ---------------------------
(***************************************************************************)
(* Proofs about Server, for every set of files, texts and versions and     *)
(* every bound: type correctness, that a quiescent index shows the content *)
(* of every open document, and that the index implements EditPromise; and  *)
(* about LombokPipeline, for any files, any references between them and    *)
(* any number of sweeps: that it refines Server, type correctness, that no *)
(* save stays unserved, and that the stubs follow the classes.             *)
(***************************************************************************)
EXTENDS LombokPipeline, TLAPS

USE DEF SCANNED_FROM_DISK

(***************************************************************************)
(* The inductive invariant.                                                *)
(***************************************************************************)

\* An open document has a generation and a version its client sent.
OpenIsNumbered ==
    \A u \in Uri : documents[u] # NoText =>
        documentGenerations[u] >= 1 /\ clientVersion[u] \in Version

\* The generations handed out so far are those up to nextGeneration.
GenerationsAreOld ==
    \A u \in Uri : documentGenerations[u] <= nextGeneration

\* No edit of a file is newer than the file's current session and version.
EditsAreOld ==
    \A e \in edits :
        \/ e.generation < documentGenerations[e.uri]
        \/ e.generation = documentGenerations[e.uri] /\ e.version <= clientVersion[e.uri]

\* A key identifies an edit.
KeysAreUnique ==
    \A e, f \in edits :
        e.uri = f.uri /\ e.generation = f.generation /\ e.version = f.version => e = f

\* The content of an open document is that of an edit.
OpenIsEdit == \A u \in Uri : documents[u] # NoText => LatestEdit(u) \in edits

TasksAreEdits == reindexTasks \subseteq edits

\* What a session left in the index is an edit.
ShownIsEdit ==
    \A u \in Uri : index[u].generation >= 1 =>
        \E e \in edits : e.uri = u /\ EntryOf(e) = index[u]

\* No edit is lost: it waits, or panicked, or the index is at least as new.
NoEditLost ==
    \A e \in edits :
        e \in reindexTasks \/ e.text \in Panicking \/ ~Precedes(index[e.uri], EntryOf(e))

TypeInv == TypeOK /\ OpenIsNumbered

EditInv ==
    /\ GenerationsAreOld
    /\ EditsAreOld
    /\ KeysAreUnique
    /\ OpenIsEdit
    /\ TasksAreEdits

ShownInv == ShownIsEdit /\ NoEditLost

IInv == TypeInv /\ EditInv /\ ShownInv

(***************************************************************************)
(* Lemmas about the operators.                                             *)
(***************************************************************************)

\* update_file leaves the other files alone, and its own file with the entry
\* it had, when the new one is older, and with the new one otherwise.
LEMMA UpdateFileEffect ==
    ASSUME index \in [Uri -> Entry \cup {NoEntry}],
           NEW u \in Uri, NEW entry \in Entry, UpdateFile(u, entry)
    PROVE  /\ index' \in [Uri -> Entry \cup {NoEntry}]
           /\ \A w \in Uri : w # u => index'[w] = index[w]
           /\ \/ index'[u] = index[u] /\ Precedes(entry, index[u])
              \/ index'[u] = entry /\ ~Precedes(entry, index[u])
  <1>1. CASE Precedes(entry, index[u])
    BY <1>1 DEF UpdateFile
  <1>2. CASE ~Precedes(entry, index[u])
    <2>1. index' = [index EXCEPT ![u] = entry]
      BY <1>2 DEF UpdateFile
    <2> QED
      BY <1>2, <2>1
  <1> QED
    BY <1>1, <1>2

\* The entry made of an edit is an entry.
LEMMA EntryOfType ==
    ASSUME NEW e \in Edit
    PROVE  /\ EntryOf(e) \in Entry
           /\ EntryOf(e).generation = e.generation
           /\ EntryOf(e).version = e.version
           /\ EntryOf(e).symbols = e.text
           /\ e.generation \in 1..MaxGeneration
           /\ e.version \in Int
  <1>1. /\ e.generation \in 1..MaxGeneration
        /\ e.version \in Version
        /\ e.text \in Text
    BY DEF Edit
  <1>2. e.generation \in 0..MaxGeneration /\ e.version \in Version \cup {0}
    BY <1>1, ServerAssumption
  <1>3. EntryOf(e) \in Entry
    BY <1>1, <1>2 DEF EntryOf, Entry
  <1> QED
    BY <1>1, <1>3, ServerAssumption DEF EntryOf

\* So is the entry made of a text read from disk.
LEMMA ScannedEntryType ==
    ASSUME NEW t \in Text
    PROVE  ScannedEntry(t) \in Entry
  BY ServerAssumption DEF ScannedEntry, Entry

\* The components of an entry, or of the absence of one, are numbers.
LEMMA EntryNumbers ==
    ASSUME NEW x \in Entry \cup {NoEntry}
    PROVE  x.generation \in Int /\ x.version \in Int
  <1>1. CASE x \in Entry
    <2>1. x.generation \in 0..MaxGeneration /\ x.version \in Version \cup {0}
      BY <1>1 DEF Entry
    <2>2. Version \cup {0} \subseteq Int /\ 0..MaxGeneration \subseteq Int
      BY ServerAssumption
    <2> QED
      BY <2>1, <2>2
  <1>2. CASE x = NoEntry
    BY <1>2 DEF NoEntry
  <1> QED
    BY <1>1, <1>2

(***************************************************************************)
(* Type correctness.                                                       *)
(***************************************************************************)

\* The server starts with every variable in its type.
LEMMA TypeInit == Init => TypeInv
  <1> SUFFICES ASSUME Init PROVE TypeInv
    OBVIOUS
  <1>1. TypeOK
    <2>1. scans \in [Task -> [phase : ScanPhase, todo : SUBSET Uri,
                               held : Read \cup {NoRead}]]
      BY DEF Init, ScanPhase
    <2>2. 0 \in 0..MaxGeneration /\ 0 \in Version \cup {0}
      BY ServerAssumption
    <2>3. /\ documentGenerations \in [Uri -> 0..MaxGeneration]
          /\ clientVersion \in [Uri -> Version \cup {0}]
          /\ nextGeneration \in 0..MaxGeneration
      BY <2>2 DEF Init
    <2> QED
      BY <2>1, <2>3 DEF Init, HandshakeInit, TypeOK, State, BuildPhase
  <1>2. OpenIsNumbered
    BY DEF Init, OpenIsNumbered
  <1> QED
    BY <1>1, <1>2 DEF TypeInv

\* No handler, task step or write to the disk takes one out of its type.
LEMMA TypeStep == TypeInv /\ [Next]_vars => TypeInv'
  <1> SUFFICES ASSUME TypeInv, [Next]_vars PROVE TypeInv'
    OBVIOUS
  <1> USE ServerAssumption
  <1> USE DEF TypeInv, OpenIsNumbered
  <1>1. ASSUME NEW r \in Root \cup {NoRoot}, Initialize(r) PROVE TypeInv'
    BY <1>1 DEF TypeOK, Initialize, HandleRequest, State, taskVars
  <1>2. CASE Shutdown
    BY <1>2 DEF TypeOK, Shutdown, HandleRequest, State, taskVars
  <1>3. ASSUME NEW i \in Task, Initialized(i) PROVE TypeInv'
    BY <1>3 DEF TypeOK, Initialized, mainVars, ScanPhase, BuildPhase, NoRead
  <1>4. ASSUME NEW u \in Uri, NEW v \in Version, NEW t \in Text, DidOpen(u, v, t)
        PROVE  TypeInv'
    <2> DEFINE e == [uri |-> u, generation |-> nextGeneration + 1,
                     version |-> v, text |-> t]
    <2>1. nextGeneration + 1 \in 1..MaxGeneration
      BY <1>4 DEF DidOpen, TypeOK
    <2>2. e \in Edit
      BY <2>1 DEF Edit
    <2> HIDE DEF e
    <2>3. SpawnReindex(e) /\ TriggerLombokCompile(e)
      BY <1>4 DEF DidOpen, e
    <2>4. reindexTasks' \in SUBSET Edit /\ edits' \in SUBSET Edit
      BY <2>2, <2>3 DEF SpawnReindex, TypeOK
    <2>5. /\ lombokTasks' \in SUBSET Edit
          /\ lombokSourceHashes' \in [Uri -> LombokText \cup {NoText}]
      BY <2>2, <2>3 DEF TriggerLombokCompile, TypeOK, Edit
    <2>6. /\ nextGeneration' \in 1..MaxGeneration
          /\ documentGenerations' = [documentGenerations EXCEPT ![u] = nextGeneration']
          /\ clientVersion' = [clientVersion EXCEPT ![u] = v]
          /\ documents' = [documents EXCEPT ![u] = t]
      BY <1>4, <2>1 DEF DidOpen
    <2>7. TypeOK'
      <3>1. /\ nextGeneration' \in 0..MaxGeneration
            /\ documentGenerations' \in [Uri -> 0..MaxGeneration]
            /\ clientVersion' \in [Uri -> Version \cup {0}]
            /\ documents' \in [Uri -> Text \cup {NoText}]
        BY <2>6 DEF TypeOK
      <3>2. UNCHANGED <<state, workspaceRoot, scans, builds, index, projectModel, disk>>
        BY <1>4 DEF DidOpen
      <3> QED
        BY <2>4, <2>5, <3>1, <3>2 DEF TypeOK
    <2>8. OpenIsNumbered'
      BY <2>6 DEF TypeOK
    <2> QED
      BY <2>7, <2>8
  <1>5. ASSUME NEW u \in Uri, NEW v \in Version, NEW t \in Text, DidChange(u, v, t)
        PROVE  TypeInv'
    <2>1. [uri |-> u, generation |-> documentGenerations[u],
           version |-> v, text |-> t] \in Edit
      BY <1>5 DEF DidChange, TypeOK, Edit
    <2> QED
      BY <1>5, <2>1 DEF DidChange, SpawnReindex, TypeOK
  <1>6. ASSUME NEW u \in Uri, DidClose(u) PROVE TypeInv'
    BY <1>6 DEF TypeOK, DidClose, taskVars
  <1>7. ASSUME NEW u \in Uri, DidSave(u) PROVE TypeInv'
    <2>1. LatestEdit(u) \in Edit /\ LatestEdit(u).uri = u
      BY <1>7 DEF DidSave, LatestEdit, TypeOK, Edit
    <2>2. /\ lombokTasks' \in SUBSET Edit
          /\ lombokSourceHashes' \in [Uri -> LombokText \cup {NoText}]
      BY <1>7, <2>1 DEF DidSave, TriggerLombokCompile, TypeOK, Edit
    <2> QED
      BY <1>7, <2>2 DEF DidSave, TypeOK
  <1>8. ASSUME NEW e \in Edit, RunReindex(e) PROVE TypeInv'
    <2>1. index' \in [Uri -> Entry \cup {NoEntry}]
      BY <1>8, EntryOfType, UpdateFileEffect DEF RunReindex, TypeOK, Edit
    <2> QED
      BY <1>8, <2>1 DEF RunReindex, TypeOK, mainVars
  <1>9. ASSUME NEW e \in Edit, EndLombokTask(e) PROVE TypeInv'
    BY <1>9 DEF EndLombokTask, TypeOK, mainVars
  <1>10. ASSUME NEW i \in Task, StartScan(i) PROVE TypeInv'
    <2>1. scans' \in [Task -> [phase : ScanPhase, todo : SUBSET Uri,
                                held : Read \cup {NoRead}]]
      BY <1>10 DEF StartScan, TypeOK, ScanPhase
    <2> QED
      BY <1>10, <2>1 DEF StartScan, TypeOK, mainVars
  <1>11. ASSUME NEW i \in Task, NEW u \in Uri, ScanRead(i, u) PROVE TypeInv'
    <2>1. disk[u] \notin Panicking \cup {NoText} => [uri |-> u, text |-> disk[u]] \in Read
      BY DEF Read, TypeOK
    <2>2. scans' \in [Task -> [phase : ScanPhase, todo : SUBSET Uri,
                                held : Read \cup {NoRead}]]
      <3> DEFINE h == IF disk[u] \in Panicking \cup {NoText} THEN NoRead
                      ELSE [uri |-> u, text |-> disk[u]]
                 p == IF disk[u] \in Panicking THEN "panicked" ELSE "walking"
      <3>1. h \in Read \cup {NoRead}
        BY <2>1
      <3>2. p \in ScanPhase
        BY DEF ScanPhase
      <3>3. scans' = [scans EXCEPT ![i] =
                         [phase |-> p, todo |-> @.todo \ {u}, held |-> h]]
        BY <1>11 DEF ScanRead
      <3> HIDE DEF h, p
      <3> QED
        BY <3>1, <3>2, <3>3 DEF TypeOK
    <2> QED
      BY <1>11, <2>2 DEF ScanRead, TypeOK, mainVars
  <1>12. ASSUME NEW i \in Task, ScanApply(i) PROVE TypeInv'
    <2>1. scans[i].held \in Read
      BY <1>12 DEF ScanApply, TypeOK
    <2>2. index' \in [Uri -> Entry \cup {NoEntry}]
      BY <1>12, <2>1, ScannedEntryType, UpdateFileEffect DEF ScanApply, TypeOK, Read
    <2> QED
      BY <1>12, <2>2 DEF ScanApply, TypeOK, mainVars, ScanPhase
  <1>13. ASSUME NEW i \in Task, ScanEnd(i) PROVE TypeInv'
    BY <1>13 DEF ScanEnd, TypeOK, mainVars, ScanPhase
  <1>14. ASSUME NEW i \in Task, ResolveModel(i) PROVE TypeInv'
    BY <1>14 DEF ResolveModel, TypeOK, mainVars, BuildPhase
  <1>15. ASSUME NEW i \in Task, EndBuild(i) PROVE TypeInv'
    BY <1>15 DEF EndBuild, TypeOK, mainVars, BuildPhase
  <1>16. ASSUME NEW u \in Uri, NEW t \in Text \cup {NoText}, WriteDisk(u, t)
         PROVE  TypeInv'
    BY <1>16 DEF WriteDisk, TypeOK, mainVars, taskVars
  <1>17. CASE UNCHANGED vars
    BY <1>17 DEF vars, mainVars, taskVars, TypeOK
  <1> QED
    BY <1>1, <1>2, <1>3, <1>4, <1>5, <1>6, <1>7, <1>8, <1>9, <1>10, <1>11,
       <1>12, <1>13, <1>14, <1>15, <1>16, <1>17
    DEF Next, Handler, Background, ScanStep, World

\* TypeCorrect: no behaviour takes a variable of the server out of its type.
THEOREM TypeCorrect == Spec => []TypeOK
  <1>1. TypeInv => TypeOK
    BY DEF TypeInv
  <1> QED
    BY <1>1, TypeInit, TypeStep, PTL DEF Spec

(***************************************************************************)
(* The steps that matter to edits: all others leave these variables alone. *)
(***************************************************************************)

syncVars == <<documents, nextGeneration, documentGenerations, clientVersion,
              reindexTasks, edits, index>>

\* A step issues an edit, closes a document, runs a reindex, applies a file of
\* a scan, or leaves these variables alone.
LEMMA StepCases ==
    ASSUME [Next]_vars
    PROVE  \/ \E u \in Uri, v \in Version, t \in Text : DidOpen(u, v, t) \/ DidChange(u, v, t)
           \/ \E u \in Uri : DidClose(u)
           \/ \E e \in Edit : RunReindex(e)
           \/ \E i \in Task : ScanApply(i)
           \/ UNCHANGED syncVars
  <1> USE DEF syncVars
  <1>1. ASSUME NEW r \in Root \cup {NoRoot}, Initialize(r) PROVE UNCHANGED syncVars
    BY <1>1 DEF Initialize, taskVars
  <1>2. CASE Shutdown
    BY <1>2 DEF Shutdown, taskVars
  <1>3. ASSUME NEW i \in Task, Initialized(i) PROVE UNCHANGED syncVars
    BY <1>3 DEF Initialized, mainVars
  <1>4. ASSUME NEW u \in Uri, DidSave(u) PROVE UNCHANGED syncVars
    BY <1>4 DEF DidSave
  <1>5. ASSUME NEW e \in Edit, EndLombokTask(e) PROVE UNCHANGED syncVars
    BY <1>5 DEF EndLombokTask, mainVars
  <1>6. ASSUME NEW i \in Task, StartScan(i) PROVE UNCHANGED syncVars
    BY <1>6 DEF StartScan, mainVars
  <1>7. ASSUME NEW i \in Task, NEW u \in Uri, ScanRead(i, u) PROVE UNCHANGED syncVars
    BY <1>7 DEF ScanRead, mainVars
  <1>8. ASSUME NEW i \in Task, ScanEnd(i) PROVE UNCHANGED syncVars
    BY <1>8 DEF ScanEnd, mainVars
  <1>9. ASSUME NEW i \in Task, ResolveModel(i) PROVE UNCHANGED syncVars
    BY <1>9 DEF ResolveModel, mainVars
  <1>10. ASSUME NEW i \in Task, EndBuild(i) PROVE UNCHANGED syncVars
    BY <1>10 DEF EndBuild, mainVars
  <1>11. ASSUME NEW u \in Uri, NEW t \in Text \cup {NoText}, WriteDisk(u, t)
         PROVE  UNCHANGED syncVars
    BY <1>11 DEF WriteDisk, mainVars, taskVars
  <1>12. CASE UNCHANGED vars
    BY <1>12 DEF vars, mainVars, taskVars
  <1> QED
    BY <1>1, <1>2, <1>3, <1>4, <1>5, <1>6, <1>7, <1>8, <1>9, <1>10, <1>11, <1>12
    DEF Next, Handler, Background, ScanStep, World

\* didOpen and didChange issue an edit newer than all others of its file.
LEMMA EditStep ==
    ASSUME TypeInv, GenerationsAreOld, EditsAreOld,
           NEW u \in Uri, NEW v \in Version, NEW t \in Text,
           DidOpen(u, v, t) \/ DidChange(u, v, t)
    PROVE  \E e \in Edit :
             /\ e.uri = u
             /\ e = LatestEdit(u)'
             /\ \A f \in edits : f.uri = u => Precedes(f, e)
             /\ edits' = edits \cup {e}
             /\ reindexTasks' = reindexTasks \cup {e}
             /\ index' = index
             /\ \A w \in Uri : w # u =>
                   /\ documents'[w] = documents[w]
                   /\ documentGenerations'[w] = documentGenerations[w]
                   /\ clientVersion'[w] = clientVersion[w]
             /\ documentGenerations'[u] <= nextGeneration'
             /\ nextGeneration' >= nextGeneration
  <1> USE DEF TypeInv
  <1>1. edits \subseteq Edit /\ Version \subseteq Int
    BY ServerAssumption DEF TypeOK
  <1>2. CASE DidOpen(u, v, t)
    <2> DEFINE e == [uri |-> u, generation |-> nextGeneration + 1,
                     version |-> v, text |-> t]
    <2>1. nextGeneration \in Nat /\ nextGeneration + 1 \in 1..MaxGeneration
      BY <1>2, ServerAssumption DEF DidOpen, TypeOK
    <2>2. e \in Edit
      BY <2>1 DEF Edit
    <2>3. /\ nextGeneration' = nextGeneration + 1
          /\ documentGenerations' = [documentGenerations EXCEPT ![u] = nextGeneration + 1]
          /\ clientVersion' = [clientVersion EXCEPT ![u] = v]
          /\ documents' = [documents EXCEPT ![u] = t]
          /\ index' = index
          /\ edits' = edits \cup {e}
          /\ reindexTasks' = reindexTasks \cup {e}
      BY <1>2 DEF DidOpen, SpawnReindex
    <2>4. e = LatestEdit(u)'
      BY <2>3 DEF LatestEdit, TypeOK
    <2>5. ASSUME NEW f \in edits, f.uri = u PROVE Precedes(f, e)
      <3>1. f.generation \in 1..MaxGeneration
        BY <1>1 DEF Edit
      <3>2. documentGenerations[u] \in Nat /\ documentGenerations[u] <= nextGeneration
        BY ServerAssumption DEF TypeOK, GenerationsAreOld
      <3>3. f.generation <= documentGenerations[u]
        BY <2>5, <3>1, <3>2 DEF EditsAreOld
      <3> QED
        BY <2>1, <3>1, <3>2, <3>3 DEF Precedes
    <2>6. /\ \A w \in Uri : w # u =>
                /\ documents'[w] = documents[w]
                /\ documentGenerations'[w] = documentGenerations[w]
                /\ clientVersion'[w] = clientVersion[w]
          /\ documentGenerations'[u] <= nextGeneration'
          /\ nextGeneration' >= nextGeneration
      BY <2>1, <2>3 DEF TypeOK
    <2>7. e.uri = u
      OBVIOUS
    <2> HIDE DEF e
    <2> QED
      BY <2>2, <2>3, <2>4, <2>5, <2>6, <2>7
  <1>3. CASE DidChange(u, v, t)
    <2> DEFINE e == [uri |-> u, generation |-> documentGenerations[u],
                     version |-> v, text |-> t]
    <2>1. documents[u] # NoText /\ v > clientVersion[u]
      BY <1>3 DEF DidChange
    <2>2. e \in Edit
      BY <2>1 DEF Edit, TypeOK, OpenIsNumbered
    <2>3. /\ nextGeneration' = nextGeneration
          /\ documentGenerations' = documentGenerations
          /\ clientVersion' = [clientVersion EXCEPT ![u] = v]
          /\ documents' = [documents EXCEPT ![u] = t]
          /\ index' = index
          /\ edits' = edits \cup {e}
          /\ reindexTasks' = reindexTasks \cup {e}
      BY <1>3 DEF DidChange, SpawnReindex
    <2>4. e = LatestEdit(u)'
      BY <2>3 DEF LatestEdit, TypeOK
    <2>5. ASSUME NEW f \in edits, f.uri = u PROVE Precedes(f, e)
      <3>1. f.generation \in Int /\ f.version \in Int
        BY <1>1, EntryOfType, ServerAssumption
      <3>2. documentGenerations[u] \in Int
        BY ServerAssumption DEF TypeOK
      <3>3. clientVersion[u] \in Int
        BY <1>1, <2>1 DEF OpenIsNumbered
      <3>4. v \in Int
        BY <1>1
      <3>5. \/ f.generation < documentGenerations[u]
            \/ f.generation = documentGenerations[u] /\ f.version <= clientVersion[u]
        BY <2>5 DEF EditsAreOld
      <3> QED
        BY <2>1, <3>1, <3>2, <3>3, <3>4, <3>5 DEF Precedes
    <2>6. /\ \A w \in Uri : w # u =>
                /\ documents'[w] = documents[w]
                /\ documentGenerations'[w] = documentGenerations[w]
                /\ clientVersion'[w] = clientVersion[w]
          /\ documentGenerations'[u] <= nextGeneration'
          /\ nextGeneration' >= nextGeneration
      BY <2>3, ServerAssumption DEF TypeOK, GenerationsAreOld
    <2>7. e.uri = u
      OBVIOUS
    <2> HIDE DEF e
    <2> QED
      BY <2>2, <2>3, <2>4, <2>5, <2>6, <2>7
  <1> QED
    BY <1>2, <1>3

(***************************************************************************)
(* The invariant about edits.                                              *)
(***************************************************************************)

\* Before the first didOpen there is no edit to say anything of.
LEMMA EditInvInit == Init => EditInv
  BY DEF Init, EditInv, GenerationsAreOld, EditsAreOld, KeysAreUnique,
         OpenIsEdit, TasksAreEdits

\* didOpen and didChange number their edits so that what was known of the edits
\* stays true; nothing else touches them.
LEMMA EditInvStep == TypeInv /\ EditInv /\ [Next]_vars => EditInv'
  <1> SUFFICES ASSUME TypeInv, EditInv, [Next]_vars PROVE EditInv'
    OBVIOUS
  <1> USE DEF EditInv
  <1>0. edits \subseteq Edit
    BY DEF TypeInv, TypeOK
  <1>1. ASSUME NEW u \in Uri, NEW v \in Version, NEW t \in Text,
               DidOpen(u, v, t) \/ DidChange(u, v, t)
        PROVE  EditInv'
    <2>1. PICK e \in Edit :
             /\ e.uri = u
             /\ e = LatestEdit(u)'
             /\ \A f \in edits : f.uri = u => Precedes(f, e)
             /\ edits' = edits \cup {e}
             /\ reindexTasks' = reindexTasks \cup {e}
             /\ index' = index
             /\ \A w \in Uri : w # u =>
                   /\ documents'[w] = documents[w]
                   /\ documentGenerations'[w] = documentGenerations[w]
                   /\ clientVersion'[w] = clientVersion[w]
             /\ documentGenerations'[u] <= nextGeneration'
             /\ nextGeneration' >= nextGeneration
      BY <1>1, EditStep
    <2>2. /\ e.generation = documentGenerations'[u]
          /\ e.version = clientVersion'[u]
          /\ e.generation \in Int /\ e.version \in Int
      BY <2>1, EntryOfType, ServerAssumption DEF LatestEdit
    <2>3. GenerationsAreOld'
      <3> SUFFICES ASSUME NEW w \in Uri
                   PROVE  documentGenerations'[w] <= nextGeneration'
        BY DEF GenerationsAreOld
      <3>1. CASE w = u
        BY <2>1, <3>1
      <3>2. CASE w # u
        <4>1. TypeInv'
          BY TypeStep
        <4>2. /\ nextGeneration \in Int /\ nextGeneration' \in Int
              /\ documentGenerations[w] \in Int
          BY <4>1, ServerAssumption DEF TypeInv, TypeOK
        <4> QED
          BY <2>1, <3>2, <4>2 DEF GenerationsAreOld
      <3> QED
        BY <3>1, <3>2
    <2>4. EditsAreOld'
      <3> SUFFICES ASSUME NEW f \in edits'
                   PROVE  \/ f.generation < documentGenerations'[f.uri]
                          \/ /\ f.generation = documentGenerations'[f.uri]
                             /\ f.version <= clientVersion'[f.uri]
        BY DEF EditsAreOld
      <3>1. CASE f = e
        BY <2>1, <2>2, <3>1
      <3>2. CASE f \in edits /\ f.uri = u
        <4>1. f.generation \in Int /\ f.version \in Int
          BY <1>0, <3>2, EntryOfType, ServerAssumption
        <4> QED
          BY <2>1, <2>2, <3>2, <4>1 DEF Precedes
      <3>3. CASE f \in edits /\ f.uri # u
        <4>1. f.uri \in Uri
          BY <1>0, <3>3 DEF Edit
        <4> QED
          BY <2>1, <3>3, <4>1 DEF EditsAreOld
      <3> QED
        BY <2>1, <3>1, <3>2, <3>3
    <2>5. KeysAreUnique'
      <3>1. ASSUME NEW f \in edits, f.uri = u
            PROVE  f.generation # e.generation \/ f.version # e.version
        <4>1. f.generation \in Int /\ f.version \in Int
          BY <1>0, EntryOfType, ServerAssumption
        <4> QED
          BY <2>1, <2>2, <3>1, <4>1 DEF Precedes
      <3> QED
        BY <2>1, <3>1 DEF KeysAreUnique
    <2>6. OpenIsEdit'
      <3> SUFFICES ASSUME NEW w \in Uri, documents'[w] # NoText
                   PROVE  LatestEdit(w)' \in edits'
        BY DEF OpenIsEdit
      <3>1. CASE w = u
        BY <2>1, <3>1
      <3>2. CASE w # u
        <4>1. LatestEdit(w)' = LatestEdit(w)
          BY <2>1, <3>2 DEF LatestEdit
        <4> QED
          BY <2>1, <3>2, <4>1 DEF OpenIsEdit
      <3> QED
        BY <3>1, <3>2
    <2>7. TasksAreEdits'
      BY <2>1 DEF TasksAreEdits
    <2> QED
      BY <2>3, <2>4, <2>5, <2>6, <2>7
  <1>2. ASSUME NEW u \in Uri, DidClose(u) PROVE EditInv'
    <2>1. /\ documents' = [documents EXCEPT ![u] = NoText]
          /\ UNCHANGED <<nextGeneration, documentGenerations, clientVersion,
                         reindexTasks, edits>>
      BY <1>2 DEF DidClose, taskVars
    <2>2. OpenIsEdit'
      BY <2>1 DEF OpenIsEdit, LatestEdit, TypeInv, TypeOK
    <2> QED
      BY <2>1, <2>2
      DEF GenerationsAreOld, EditsAreOld, KeysAreUnique, TasksAreEdits
  <1>3. ASSUME NEW e \in Edit, RunReindex(e) PROVE EditInv'
    BY <1>3
    DEF RunReindex, mainVars, GenerationsAreOld, EditsAreOld, KeysAreUnique,
        OpenIsEdit, LatestEdit, TasksAreEdits
  <1>4. ASSUME NEW i \in Task, ScanApply(i) PROVE EditInv'
    BY <1>4
    DEF ScanApply, mainVars, GenerationsAreOld, EditsAreOld, KeysAreUnique,
        OpenIsEdit, LatestEdit, TasksAreEdits
  <1>5. CASE UNCHANGED syncVars
    BY <1>5
    DEF syncVars, GenerationsAreOld, EditsAreOld, KeysAreUnique, OpenIsEdit,
        LatestEdit, TasksAreEdits
  <1> QED
    BY <1>1, <1>2, <1>3, <1>4, <1>5, StepCases

(***************************************************************************)
(* The invariant about what the index shows.                               *)
(***************************************************************************)

\* An empty index shows no edit and lost none.
LEMMA ShownInvInit == Init => ShownInv
  BY DEF Init, ShownInv, ShownIsEdit, NoEditLost, NoEntry

\* update_file shows an edit or disk content and never goes back behind an edit
\* that has left the queue, whoever calls it.
LEMMA ShownInvStep ==
    TypeInv /\ EditInv /\ ShownInv /\ [Next]_vars => ShownInv'
  <1> SUFFICES ASSUME TypeInv, EditInv, ShownInv, [Next]_vars PROVE ShownInv'
    OBVIOUS
  <1> USE DEF ShownInv
  <1>0. /\ edits \subseteq Edit
        /\ reindexTasks \subseteq edits
        /\ index \in [Uri -> Entry \cup {NoEntry}]
    BY DEF TypeInv, TypeOK, EditInv, TasksAreEdits
  <1>1. ASSUME NEW u \in Uri, NEW v \in Version, NEW t \in Text,
               DidOpen(u, v, t) \/ DidChange(u, v, t)
        PROVE  ShownInv'
    <2>1. PICK e \in Edit :
             /\ edits' = edits \cup {e}
             /\ reindexTasks' = reindexTasks \cup {e}
             /\ index' = index
      BY <1>1, EditStep DEF EditInv
    <2>2. ShownIsEdit'
      BY <2>1 DEF ShownIsEdit, EntryOf
    <2>3. NoEditLost'
      BY <2>1 DEF NoEditLost, Precedes, EntryOf
    <2> QED
      BY <2>2, <2>3
  <1>2. ASSUME NEW u \in Uri, DidClose(u) PROVE ShownInv'
    BY <1>2 DEF DidClose, taskVars, ShownIsEdit, NoEditLost, Precedes, EntryOf
  <1>3. ASSUME NEW e \in Edit, RunReindex(e) PROVE ShownInv'
    <2>1. /\ e \in edits
          /\ reindexTasks' = reindexTasks \ {e}
          /\ edits' = edits
      BY <1>0, <1>3 DEF RunReindex
    <2>2. CASE e.text \in Panicking
      <3>1. index' = index
        BY <1>3, <2>2 DEF RunReindex
      <3>2. ShownIsEdit'
        BY <2>1, <3>1 DEF ShownIsEdit, EntryOf
      <3>3. NoEditLost'
        BY <2>1, <2>2, <3>1 DEF NoEditLost, Precedes, EntryOf
      <3> QED
        BY <3>2, <3>3
    <2>3. CASE e.text \notin Panicking
      <3>1. UpdateFile(e.uri, EntryOf(e)) /\ e.uri \in Uri
        BY <1>3, <2>3 DEF RunReindex, Edit
      <3>2. /\ index' \in [Uri -> Entry \cup {NoEntry}]
            /\ \A w \in Uri : w # e.uri => index'[w] = index[w]
            /\ \/ index'[e.uri] = index[e.uri] /\ Precedes(EntryOf(e), index[e.uri])
               \/ /\ index'[e.uri] = EntryOf(e)
                  /\ ~Precedes(EntryOf(e), index[e.uri])
        BY <1>0, <3>1, EntryOfType, UpdateFileEffect
      <3>3. ShownIsEdit'
        <4> SUFFICES ASSUME NEW w \in Uri, index'[w].generation >= 1
                     PROVE  \E f \in edits : f.uri = w /\ EntryOf(f) = index'[w]
          BY <2>1 DEF ShownIsEdit, EntryOf
        <4>1. CASE index'[w] = index[w]
          BY <4>1 DEF ShownIsEdit
        <4>2. CASE index'[w] # index[w]
          BY <2>1, <3>2, <4>2
        <4> QED
          BY <4>1, <4>2
      <3>4. /\ index[e.uri].generation \in Int /\ index[e.uri].version \in Int
            /\ EntryOf(e).generation \in Int /\ EntryOf(e).version \in Int
        BY <1>0, <3>1, EntryNumbers, EntryOfType
      <3>5. NoEditLost'
        <4> SUFFICES ASSUME NEW f \in edits
                     PROVE  \/ f \in reindexTasks'
                            \/ f.text \in Panicking
                            \/ ~Precedes(index'[f.uri], EntryOf(f))
          BY <2>1 DEF NoEditLost, EntryOf
        <4>1. EntryOf(f).generation \in Int /\ EntryOf(f).version \in Int
          BY <1>0, EntryOfType, EntryNumbers
        <4>2. CASE f = e
          BY <3>2, <3>4, <4>2 DEF Precedes
        <4>3. CASE f # e
          <5>1. \/ f \in reindexTasks'
                \/ f.text \in Panicking
                \/ ~Precedes(index[f.uri], EntryOf(f))
            BY <2>1, <4>3 DEF NoEditLost
          <5>2. f.uri \in Uri
            BY <1>0 DEF Edit
          <5> QED
            BY <3>2, <3>4, <4>1, <5>1, <5>2 DEF Precedes
        <4> QED
          BY <4>2, <4>3
      <3> QED
        BY <3>3, <3>5
    <2> QED
      BY <2>2, <2>3
  <1>4. ASSUME NEW i \in Task, ScanApply(i) PROVE ShownInv'
    <2> DEFINE u == scans[i].held.uri
               x == ScannedEntry(scans[i].held.text)
    <2>1. scans[i].held \in Read
      BY <1>4 DEF ScanApply, TypeInv, TypeOK
    <2>2. u \in Uri /\ x \in Entry /\ x.generation = 0
      BY <2>1, ScannedEntryType DEF Read, ScannedEntry
    <2>3. UpdateFile(u, x) /\ reindexTasks' = reindexTasks /\ edits' = edits
      BY <1>4 DEF ScanApply
    <2> HIDE DEF u, x
    <2>4. /\ index' \in [Uri -> Entry \cup {NoEntry}]
          /\ \A w \in Uri : w # u => index'[w] = index[w]
          /\ \/ index'[u] = index[u]
             \/ index'[u] = x /\ ~Precedes(x, index[u])
      BY <1>0, <2>2, <2>3, UpdateFileEffect
    <2>5. index[u].generation \in Int /\ index[u].version \in Int
      BY <1>0, <2>2, EntryNumbers
    <2>6. ShownIsEdit'
      <3> SUFFICES ASSUME NEW w \in Uri, index'[w].generation >= 1
                   PROVE  \E e \in edits : e.uri = w /\ EntryOf(e) = index'[w]
        BY <2>3 DEF ShownIsEdit, EntryOf
      <3>1. index'[w] = index[w]
        BY <2>2, <2>4
      <3> QED
        BY <3>1 DEF ShownIsEdit
    <2>7. NoEditLost'
      <3> SUFFICES ASSUME NEW f \in edits
                   PROVE  \/ f \in reindexTasks
                          \/ f.text \in Panicking
                          \/ ~Precedes(index'[f.uri], EntryOf(f))
        BY <2>3 DEF NoEditLost, EntryOf
      <3>1. f.uri \in Uri /\ EntryOf(f).generation >= 1
        BY <1>0, EntryOfType DEF Edit
      <3>2. EntryOf(f).generation \in Int
        BY <1>0, EntryOfType, EntryNumbers
      <3>3. CASE index'[f.uri] = index[f.uri]
        BY <3>3 DEF NoEditLost
      <3>4. CASE f.uri = u /\ ~Precedes(x, index[u])
        <4>1. Precedes(index[u], EntryOf(f))
          BY <2>2, <2>5, <3>1, <3>2, <3>4 DEF Precedes
        <4> QED
          BY <3>4, <4>1 DEF NoEditLost
      <3> QED
        BY <2>4, <3>1, <3>3, <3>4
    <2> QED
      BY <2>6, <2>7
  <1>5. CASE UNCHANGED syncVars
    BY <1>5 DEF syncVars, ShownIsEdit, NoEditLost, Precedes, EntryOf
  <1> QED
    BY <1>1, <1>2, <1>3, <1>4, <1>5, StepCases

\* IInv is an invariant: types, the numbering of edits, and what the index shows
\* of the edits whose tasks have run.
THEOREM Invariance == Spec => []IInv
  <1>1. Init => IInv
    BY TypeInit, EditInvInit, ShownInvInit DEF IInv
  <1>2. IInv /\ [Next]_vars => IInv'
    BY TypeStep, EditInvStep, ShownInvStep DEF IInv
  <1> QED
    BY <1>1, <1>2, PTL DEF Spec

(***************************************************************************)
(* The index of a quiescent server.                                        *)
(***************************************************************************)

\* Two entries neither of which is older than the other have the same key.
LEMMA SameKey ==
    ASSUME NEW a \in Entry \cup {NoEntry}, NEW b \in Entry \cup {NoEntry},
           ~Precedes(a, b), ~Precedes(b, a)
    PROVE  a.generation = b.generation /\ a.version = b.version
  BY EntryNumbers DEF Precedes

\* The invariant says what the index shows once the tasks of a file have run.
LEMMA InvShown == IInv => NewestEditShown
  <1> SUFFICES ASSUME IInv,
                      NEW u \in Uri, documents[u] \notin Panicking \cup {NoText},
                      Pending(u) = {}
               PROVE  index[u].symbols = documents[u]
    BY DEF NewestEditShown
  <1> USE DEF IInv, EditInv, ShownInv
  <1> DEFINE e == LatestEdit(u)
  <1>1. /\ edits \subseteq Edit
        /\ index[u] \in Entry \cup {NoEntry}
    BY DEF TypeInv, TypeOK
  <1>2. /\ e \in edits
        /\ e.uri = u /\ e.text = documents[u]
        /\ e.generation = documentGenerations[u] /\ e.version = clientVersion[u]
    BY DEF OpenIsEdit, LatestEdit
  <1> HIDE DEF e
  <1>3. e \in Edit
    BY <1>1, <1>2
  <1>4. e \notin reindexTasks
    BY <1>2 DEF Pending
  <1>5. ~Precedes(index[u], EntryOf(e))
    BY <1>2, <1>4 DEF NoEditLost
  <1>6. index[u].generation >= 1
    <2>1. EntryOf(e).generation >= 1 /\ EntryOf(e).generation \in Int
      BY <1>3, EntryOfType, EntryNumbers
    <2>2. index[u].generation \in Int
      BY <1>1, EntryNumbers
    <2> QED
      BY <1>5, <2>1, <2>2 DEF Precedes
  <1>7. PICK f \in edits : f.uri = u /\ EntryOf(f) = index[u]
    BY <1>6 DEF ShownIsEdit
  <1>8. f \in Edit
    BY <1>1
  <1>9. ~Precedes(EntryOf(e), EntryOf(f))
    <2>1. \/ f.generation < e.generation
          \/ f.generation = e.generation /\ f.version <= e.version
      BY <1>2, <1>7 DEF EditsAreOld
    <2>2. /\ f.generation \in Int /\ f.version \in Int
          /\ e.generation \in Int /\ e.version \in Int
      BY <1>3, <1>8, EntryOfType, ServerAssumption
    <2> QED
      BY <2>1, <2>2, <1>3, <1>8, EntryOfType DEF Precedes
  <1>10. e.generation = f.generation /\ e.version = f.version
    BY <1>3, <1>5, <1>7, <1>8, <1>9, EntryOfType, SameKey
  <1>11. e = f
    BY <1>2, <1>7, <1>10 DEF KeysAreUnique
  <1> QED
    BY <1>2, <1>7, <1>8, <1>11, EntryOfType

\* NewestEditShown holds in every reachable state: with no reindex of an open
\* document in flight the index shows the document's content, whichever tasks
\* of whichever sessions and scans ran before and in whatever order.
THEOREM QuiescentIndexIsCurrent == Spec => []NewestEditShown
  BY Invariance, InvShown, PTL

(***************************************************************************)
(* The server keeps the safety part of EditPromise.                        *)
(***************************************************************************)

\* Every step of the server is one of EditPromise, or changes nothing it knows.
LEMMA PromiseStep ==
    ASSUME IInv, [Next]_vars
    PROVE  [EP!PromiseNext]_(EP!promiseVars)
  <1> USE DEF IInv, EP!promiseVars
  <1>0. /\ edits \subseteq Edit
        /\ reindexTasks \subseteq edits
        /\ index \in [Uri -> Entry \cup {NoEntry}]
    BY DEF TypeInv, TypeOK, EditInv, TasksAreEdits
  <1>1. ASSUME NEW u \in Uri, NEW v \in Version, NEW t \in Text,
               DidOpen(u, v, t) \/ DidChange(u, v, t)
        PROVE  EP!PromiseNext
    <2>1. PICK e \in Edit :
             /\ e.uri = u
             /\ \A f \in edits : f.uri = u => Precedes(f, e)
             /\ edits' = edits \cup {e}
             /\ index' = index
      BY <1>1, EditStep DEF EditInv
    <2>2. ASSUME NEW f \in edits, f.uri = e.uri PROVE EP!Newer(e, f)
      <3>1. Precedes(f, e)
        BY <2>1, <2>2
      <3>2. /\ f.generation \in Int /\ f.version \in Int
            /\ e.generation \in Int /\ e.version \in Int
        BY <1>0, EntryOfType, ServerAssumption
      <3> QED
        BY <3>1, <3>2 DEF Precedes, EP!Newer
    <2>3. EP!Issue(e)
      BY <2>1, <2>2 DEF EP!Issue
    <2> QED
      BY <2>3 DEF EP!PromiseNext, EP!Edit, Edit
  <1>2. ASSUME NEW u \in Uri, DidClose(u) PROVE UNCHANGED <<edits, index>>
    BY <1>2 DEF DidClose
  <1>3. ASSUME NEW e \in Edit, RunReindex(e)
        PROVE  EP!PromiseNext \/ UNCHANGED <<edits, index>>
    <2>1. e \in edits /\ edits' = edits
      BY <1>0, <1>3 DEF RunReindex
    <2>2. CASE index' # index
      <3>1. UpdateFile(e.uri, EntryOf(e)) /\ e.uri \in Uri
        BY <1>3, <2>2 DEF RunReindex, Edit
      <3>2. /\ ~Precedes(EntryOf(e), index[e.uri])
            /\ index' = [index EXCEPT ![e.uri] = EntryOf(e)]
        BY <2>2, <3>1 DEF UpdateFile
      <3>3. index[e.uri] # EntryOf(e)
        BY <1>0, <2>2, <3>1, <3>2
      <3>4. /\ index[e.uri] \in Entry \cup {NoEntry}
            /\ EntryOf(e) \in Entry
        BY <1>0, <3>1, EntryOfType
      <3>5. EP!Newer(e, index[e.uri])
        <4>1. CASE Precedes(index[e.uri], EntryOf(e))
          BY <4>1, <3>4, EntryNumbers, EntryOfType DEF Precedes, EP!Newer
        <4>2. CASE ~Precedes(index[e.uri], EntryOf(e))
          <5>1. /\ index[e.uri].generation = e.generation
                /\ index[e.uri].version = e.version
            BY <3>2, <3>4, <4>2, SameKey, EntryOfType
          <5>2. index[e.uri].generation >= 1
            BY <5>1, EntryOfType
          <5>3. PICK f \in edits : f.uri = e.uri /\ EntryOf(f) = index[e.uri]
            BY <3>1, <5>2 DEF ShownInv, ShownIsEdit
          <5>4. e = f
            BY <1>0, <2>1, <5>1, <5>3, EntryOfType DEF EditInv, KeysAreUnique
          <5> QED
            BY <3>3, <5>3, <5>4
        <4> QED
          BY <4>1, <4>2
      <3>6. EP!ContentOf(e) = EntryOf(e)
        BY DEF EP!ContentOf, EP!Content, EntryOf
      <3>7. EP!ShowEdit(e)
        BY <2>1, <3>2, <3>5, <3>6 DEF EP!ShowEdit
      <3> QED
        BY <3>7 DEF EP!PromiseNext, EP!Edit, Edit
    <2> QED
      BY <2>1, <2>2
  <1>4. ASSUME NEW i \in Task, ScanApply(i)
        PROVE  EP!PromiseNext \/ UNCHANGED <<edits, index>>
    <2> DEFINE u == scans[i].held.uri
               t == scans[i].held.text
    <2>1. scans[i].held \in Read
      BY <1>4 DEF ScanApply, TypeInv, TypeOK
    <2>2. u \in Uri /\ t \in Text
      BY <2>1 DEF Read
    <2>3. UpdateFile(u, ScannedEntry(t)) /\ edits' = edits
      BY <1>4 DEF ScanApply
    <2> HIDE DEF u, t
    <2>4. CASE index' # index
      <3>1. /\ ~Precedes(ScannedEntry(t), index[u])
            /\ index' = [index EXCEPT ![u] = ScannedEntry(t)]
        BY <2>3, <2>4 DEF UpdateFile
      <3>2. index[u].generation \in Int
        BY <1>0, <2>2, EntryNumbers
      <3>3. index[u].generation <= 0
        BY <3>1, <3>2 DEF Precedes, ScannedEntry
      <3>4. EP!ShowDisk(u, t)
        BY <2>3, <3>1, <3>3 DEF EP!ShowDisk, EP!Content, ScannedEntry
      <3> QED
        BY <2>2, <3>4 DEF EP!PromiseNext
    <2> QED
      BY <2>3, <2>4
  <1>5. CASE UNCHANGED syncVars
    BY <1>5 DEF syncVars
  <1> QED
    BY <1>1, <1>2, <1>3, <1>4, <1>5, StepCases

\* RefinesEditPromise: the index only ever moves to disk content while no
\* session showed anything, and from edit to newer edit of the same file.
THEOREM IndexRefinesEditPromise == Spec => RefinesEditPromise
  <1>1. Init => EP!PromiseInit
    BY DEF Init, EP!PromiseInit, EP!Nothing, EP!Content, NoEntry
  <1>2. IInv /\ [Next]_vars => [EP!PromiseNext]_(EP!promiseVars)
    BY PromiseStep
  <1> QED
    BY <1>1, <1>2, Invariance, PTL
    DEF Spec, RefinesEditPromise, EP!PromiseSafety

---------------------------------------------------------------------------
(***************************************************************************)
(* LombokPipeline: the inductive invariant.                                *)
(***************************************************************************)

\* What is compiled uses Lombok, and a sweep lists and compiles files between
\* the publication of the model and its end only.
TasksAreTimely ==
    /\ \A e \in lombokTasks : e.text \in LombokText
    /\ \A u \in unserved : disk[u] \in LombokText
    /\ \A i \in Task :
          /\ scans[i].phase = "idle" => builds[i] = "idle"
          /\ builds[i] \in {"idle", "queued"} => sweepTodo[i] = NotListed
          /\ builds[i] = "done" => sweepTodo[i] \in {NotListed, {}}
          /\ builds[i] = "sweeping" => projectModel
          /\ jobs[i] # NoJob => sweepTodo[i] # NotListed /\ builds[i] = "sweeping"
    /\ \A o \in Owner :
          /\ jobs[o].held # NoRead => jobs[o].phase = "index"
          /\ \A u \in jobs[o].todo : classes[u] # NoText

\* Once there is a model, a saved file that javac has not read since is the
\* business of a task, of a compile about to start, or of a sweep that has not
\* come to it yet; or a sweep left it.
AwaitsJavac(u) ==
    \/ \E e \in lombokTasks : e.uri = u
    \/ \E o \in Owner : jobs[o].phase = "start" /\ jobs[o].uri = u
    \/ \E i \in Task : builds[i] = "sweeping" /\ (sweepTodo[i] = NotListed \/ u \in sweepTodo[i])

SavesAreServed == projectModel => \A u \in unserved \ abandoned : AwaitsJavac(u)

\* While no two compiles overlap, a class without a stub of its own is about to
\* be indexed by the one compile there is, or was left by one that failed.
AwaitsIndexing(u) ==
    \E o \in Owner :
        \/ jobs[o].phase = "index" /\ u \in jobs[o].todo
        \/ jobs[o].held # NoRead /\ jobs[o].held.uri = u

StubsAreMade ==
    ~overlapped =>
        /\ \A o, p \in Owner : jobs[o] # NoJob /\ jobs[p] # NoJob => o = p
        /\ \A o \in Owner : jobs[o].held # NoRead =>
               jobs[o].held.text = classes[jobs[o].held.uri]
        /\ \A u \in Uri \ unindexed :
               \/ classes[u] = NoText
               \/ stubIndex[u].class = classes[u]
               \/ AwaitsIndexing(u)

PipelineInv ==
    /\ TypeInv
    /\ PipelineTypeOK
    /\ TasksAreTimely
    /\ SavesAreServed
    /\ StubsAreMade

(***************************************************************************)
(* The refinement of Server.                                               *)
(***************************************************************************)

\* A step of the pipeline is one of the server, or none.
LEMMA StepRefines == [PipelineNext]_allVars => [Next]_vars
  <1> SUFFICES ASSUME [PipelineNext]_allVars PROVE Next \/ UNCHANGED vars
    OBVIOUS
  <1>1. CASE HandlerStep
    BY <1>1 DEF HandlerStep, Next
  <1>2. CASE WorldStep
    BY <1>2 DEF WorldStep, Next
  <1>3. CASE IndexStep
    BY <1>3 DEF IndexStep, Next, Background
  <1>4. ASSUME NEW e \in Edit, StartLombokTask(e) PROVE Next
    BY <1>4 DEF StartLombokTask, Next, Background
  <1>5. ASSUME NEW i \in Task, PublishModel(i) \/ EndSweep(i) PROVE Next
    BY <1>5 DEF PublishModel, EndSweep, Next, Background
  <1>6. ASSUME NEW i \in Task, ListFiles(i) PROVE UNCHANGED vars
    BY <1>6 DEF ListFiles
  <1>7. ASSUME NEW i \in Task, NEW u \in Uri, SweepFile(i, u) PROVE UNCHANGED vars
    BY <1>7 DEF SweepFile
  <1>8. ASSUME NEW o \in Owner, JobStep(o) PROVE UNCHANGED vars
    BY <1>8 DEF JobStep, JavacRead, JavacWrite, ReadClass, WriteStub, EndIndex, Redirect
  <1>9. CASE UNCHANGED allVars
    BY <1>9 DEF allVars
  <1> QED
    BY <1>1, <1>2, <1>3, <1>4, <1>5, <1>6, <1>7, <1>8, <1>9 DEF PipelineNext

\* PipelineRefinesServer: what the Lombok and build tasks do inside is what
\* Server says of them.
THEOREM PipelineRefinesServer == PipelineSpec => RefinesServer
  BY StepRefines, PTL DEF PipelineSpec, PipelineInit, RefinesServer, Spec

(***************************************************************************)
(* What the steps do to the variables the invariant is about.              *)
(***************************************************************************)

\* A trigger spawns a task for a content that uses Lombok, or none.
LEMMA TriggerEffect ==
    ASSUME NEW e, TriggerLombokCompile(e)
    PROVE  /\ \A f \in lombokTasks : f \in lombokTasks'
           /\ \A f \in lombokTasks' : f \in lombokTasks \/ f.text \in LombokText
  BY DEF TriggerLombokCompile

\* A handler spawns Lombok tasks for contents that use Lombok, queues the build
\* of an `initialized' it has not heard before, and leaves the rest alone.
LEMMA HandlerEffect ==
    ASSUME TypeOK, Handler
    PROVE  /\ UNCHANGED <<projectModel, disk>>
           /\ \A f \in lombokTasks : f \in lombokTasks'
           /\ \A f \in lombokTasks' : f \in lombokTasks \/ f.text \in LombokText
           /\ \A i \in Task :
                 \/ builds'[i] = builds[i] /\ scans'[i].phase = scans[i].phase
                 \/ /\ scans[i].phase = "idle"
                    /\ builds'[i] = "queued" /\ scans'[i].phase = "queued"
  <1>1. ASSUME NEW r \in Root \cup {NoRoot}, Initialize(r)
        PROVE  UNCHANGED <<projectModel, disk, lombokTasks, builds, scans>>
    BY <1>1 DEF Initialize, taskVars
  <1>2. Shutdown => UNCHANGED <<projectModel, disk, lombokTasks, builds, scans>>
    BY DEF Shutdown, taskVars
  <1>3. ASSUME NEW j \in Task, Initialized(j)
        PROVE  /\ UNCHANGED <<projectModel, disk, lombokTasks>>
               /\ \A i \in Task :
                     \/ builds'[i] = builds[i] /\ scans'[i].phase = scans[i].phase
                     \/ /\ scans[i].phase = "idle"
                        /\ builds'[i] = "queued" /\ scans'[i].phase = "queued"
    BY <1>3 DEF Initialized, TypeOK
  <1>4. ASSUME NEW u \in Uri, NEW v \in Version, NEW t \in Text, DidOpen(u, v, t)
        PROVE  /\ UNCHANGED <<projectModel, disk, builds, scans>>
               /\ \A f \in lombokTasks : f \in lombokTasks'
               /\ \A f \in lombokTasks' : f \in lombokTasks \/ f.text \in LombokText
    BY <1>4, TriggerEffect DEF DidOpen
  <1>5. ASSUME NEW u \in Uri, NEW v \in Version, NEW t \in Text, DidChange(u, v, t)
        PROVE  UNCHANGED <<projectModel, disk, lombokTasks, builds, scans>>
    BY <1>5 DEF DidChange
  <1>6. ASSUME NEW u \in Uri, DidClose(u)
        PROVE  UNCHANGED <<projectModel, disk, lombokTasks, builds, scans>>
    BY <1>6 DEF DidClose, taskVars
  <1>7. ASSUME NEW u \in Uri, DidSave(u)
        PROVE  /\ UNCHANGED <<projectModel, disk, builds, scans>>
               /\ \A f \in lombokTasks : f \in lombokTasks'
               /\ \A f \in lombokTasks' : f \in lombokTasks \/ f.text \in LombokText
    BY <1>7, TriggerEffect DEF DidSave
  <1> QED
    BY <1>1, <1>2, <1>3, <1>4, <1>5, <1>6, <1>7 DEF Handler

\* A reindex or a step of a scan changes nothing the pipeline looks at.
LEMMA IndexEffect ==
    ASSUME TypeOK, IndexStep
    PROVE  /\ UNCHANGED <<projectModel, disk, lombokTasks, builds, pipelineVars>>
           /\ \A i \in Task : scans'[i].phase = "idle" => scans[i].phase = "idle"
  <1>1. ASSUME NEW e \in Edit, RunReindex(e)
        PROVE  UNCHANGED <<projectModel, disk, lombokTasks, builds, scans>>
    BY <1>1 DEF RunReindex
  <1>2. ASSUME NEW i \in Task, ScanStep(i)
        PROVE  /\ UNCHANGED <<projectModel, disk, lombokTasks, builds>>
               /\ \A j \in Task : scans'[j].phase = "idle" => scans[j].phase = "idle"
    <2>1. CASE StartScan(i)
      BY <2>1 DEF StartScan, TypeOK
    <2>2. ASSUME NEW u \in Uri, ScanRead(i, u)
          PROVE  /\ UNCHANGED <<projectModel, disk, lombokTasks, builds>>
                 /\ \A j \in Task : scans'[j].phase = "idle" => scans[j].phase = "idle"
      BY <2>2 DEF ScanRead, TypeOK
    <2>3. CASE ScanApply(i)
      BY <2>3 DEF ScanApply, TypeOK
    <2>4. CASE ScanEnd(i)
      BY <2>4 DEF ScanEnd, TypeOK
    <2> QED
      BY <1>2, <2>1, <2>2, <2>3, <2>4 DEF ScanStep
  <1> QED
    BY <1>1, <1>2 DEF IndexStep

\* The model is published while no save compiles, or not at all.
LEMMA ResolveEffect ==
    ASSUME TypeOK, NEW i \in Task, ResolveModel(i)
    PROVE  /\ UNCHANGED <<disk, lombokTasks, scans>>
           /\ builds[i] = "queued"
           /\ \/ projectModel' = TRUE /\ builds'[i] = "sweeping"
              \/ projectModel' = projectModel /\ builds'[i] = "done"
           /\ \A j \in Task \ {i} : builds'[j] = builds[j]
  BY DEF ResolveModel, TypeOK

\* A sweep that ends leaves all else alone.
LEMMA EndBuildEffect ==
    ASSUME TypeOK, NEW i \in Task, EndBuild(i)
    PROVE  /\ UNCHANGED <<disk, lombokTasks, scans, projectModel>>
           /\ builds[i] = "sweeping" /\ builds'[i] = "done"
           /\ \A j \in Task \ {i} : builds'[j] = builds[j]
  BY DEF EndBuild, TypeOK

(***************************************************************************)
(* Type correctness.                                                       *)
(***************************************************************************)

\* A job is none, or has the fields of one under way.
LEMMA JobFields ==
    ASSUME NEW j \in Job \cup {NoJob}
    PROVE  /\ j = NoJob <=> j.phase = "none"
           /\ j.held \in Read \cup {NoRead}
           /\ j.todo \subseteq Uri
           /\ j.input \in [Uri -> Text \cup {NoText}]
           /\ j # NoJob => j \in Job /\ j.uri \in Uri /\ j.text \in LombokText
  <1>1. CASE j \in Job
    BY <1>1 DEF Job, NoJob
  <1>2. CASE j = NoJob
    BY <1>2 DEF NoJob, NoInput
  <1> QED
    BY <1>1, <1>2

\* The job that a task starts.
LEMMA NewJobType ==
    ASSUME NEW u \in Uri, NEW t \in LombokText
    PROVE  /\ NewJob(u, t) \in Job
           /\ NewJob(u, t).phase = "start"
           /\ NewJob(u, t).uri = u
           /\ NewJob(u, t).held = NoRead
           /\ NewJob(u, t) # NoJob
  <1>1. NoInput \in [Uri -> Text \cup {NoText}]
    BY DEF NoInput
  <1>2. NewJob(u, t).phase = "start"
    BY DEF NewJob, NoJob
  <1>3. NewJob(u, t).uri = u
    BY DEF NewJob, NoJob
  <1>4. NewJob(u, t).held = NoRead
    BY DEF NewJob, NoJob
  <1>5. NoJob \in [phase : {"none"}, uri : {NoText}, text : {NoText}, input : {NoInput},
                   todo : {{}}, held : {NoRead}]
    BY DEF NoJob
  <1>6. NewJob(u, t) \in [phase : {"start"}, uri : {u}, text : {t}, input : {NoInput},
                          todo : {{}}, held : {NoRead}]
    BY <1>5 DEF NewJob
  <1>7. NewJob(u, t) \in Job
    BY <1>1, <1>6 DEF Job
  <1>8. NewJob(u, t) # NoJob
    BY <1>2 DEF NoJob
  <1> QED
    BY <1>2, <1>3, <1>4, <1>7, <1>8

\* A job under way stays one when it reads a class or moves on.
LEMMA JobMoves ==
    \A j \in Job : /\ \A S \in SUBSET Uri, h \in Read :
                         [j EXCEPT !.todo = S, !.held = h] \in Job
                   /\ [j EXCEPT !.held = NoRead] \in Job
                   /\ [j EXCEPT !.phase = "redirect"] \in Job
  BY DEF Job

\* An owner's job replaced by another leaves the table of jobs one.
LEMMA JobsUpdate ==
    jobs \in [Owner -> Job \cup {NoJob}] =>
        \A o \in Owner : \A j \in Job \cup {NoJob} :
            jobs' = [jobs EXCEPT ![o] = j] => jobs' \in [Owner -> Job \cup {NoJob}]
  OBVIOUS

\* The classes that a run writes have a type.
LEMMA WrittenType ==
    ASSUME classes \in [Uri -> Text \cup {NoText}],
           NEW input \in [Uri -> Text \cup {NoText}], NEW files
    PROVE  Written(input, files) \in [Uri -> Text \cup {NoText}]
  BY DEF Written

\* A step of a compile takes no variable of the pipeline out of its type.
LEMMA JobTypeStep ==
    ASSUME TypeOK, PipelineTypeOK, TasksAreTimely, NEW o \in Owner, JobStep(o)
    PROVE  PipelineTypeOK'
  <1>1. /\ jobs \in [Owner -> Job \cup {NoJob}]
        /\ jobs[o] \in Job \cup {NoJob}
        /\ classes \in [Uri -> Text \cup {NoText}]
        /\ stubIndex \in [Uri -> [class : Text \cup {NoText},
                                  source : LombokText \cup {NoText}]]
        /\ disk \in [Uri -> Text \cup {NoText}]
    BY DEF TypeOK, PipelineTypeOK
  <1>2. ASSUME JavacRead(o) PROVE PipelineTypeOK'
    <2> DEFINE in == [w \in Uri |-> IF w \in Refers[jobs[o].uri] \cup {jobs[o].uri}
                                    THEN disk[w] ELSE NoText]
    <2>1. in \in [Uri -> Text \cup {NoText}]
      BY <1>1
    <2>2. jobs[o] \in Job
      BY <1>1, <1>2, JobFields DEF JavacRead
    <2>3. jobs' = [jobs EXCEPT ![o] = [@ EXCEPT !.phase = "javac", !.input = in]]
      BY <1>2 DEF JavacRead
    <2> HIDE DEF in
    <2>4. [jobs[o] EXCEPT !.phase = "javac", !.input = in] \in Job
      BY <2>1, <2>2 DEF Job
    <2>5. jobs' \in [Owner -> Job \cup {NoJob}]
      BY <1>1, <2>3, <2>4
    <2> QED
      BY <1>2, <2>5 DEF JavacRead, PipelineTypeOK
  <1>3. ASSUME JavacWrite(o) PROVE PipelineTypeOK'
    <2> DEFINE input == jobs[o].input
               read == {w \in Uri : input[w] # NoText}
    <2>1. jobs[o] \in Job /\ input \in [Uri -> Text \cup {NoText}]
      BY <1>1, <1>3, JobFields DEF JavacWrite
    <2>2. CASE /\ classes' = Written(input, read)
               /\ jobs' = [jobs EXCEPT ![o] =
                      [@ EXCEPT !.phase = "index", !.input = NoInput,
                                !.todo = {w \in Uri : classes'[w] # NoText}]]
               /\ unindexed' = {}
      <3>1. classes' \in [Uri -> Text \cup {NoText}]
        BY <1>1, <2>1, <2>2, WrittenType
      <3>2. NoInput \in [Uri -> Text \cup {NoText}]
        BY DEF NoInput
      <3>3. [jobs[o] EXCEPT !.phase = "index", !.input = NoInput,
                            !.todo = {w \in Uri : classes'[w] # NoText}] \in Job
        BY <2>1, <3>2 DEF Job
      <3>4. jobs' \in [Owner -> Job \cup {NoJob}]
        BY <1>1, <2>2, <3>3
      <3> QED
        BY <1>3, <2>2, <3>1, <3>4 DEF JavacWrite, PipelineTypeOK
    <2>3. CASE /\ \E files \in SUBSET read : /\ classes' = Written(input, files)
                                             /\ unindexed' = unindexed \cup files
               /\ jobs' = [jobs EXCEPT ![o] = NoJob]
      <3>1. PICK files \in SUBSET read : /\ classes' = Written(input, files)
                                         /\ unindexed' = unindexed \cup files
        BY <2>3
      <3>2. classes' \in [Uri -> Text \cup {NoText}]
        BY <1>1, <2>1, <3>1, WrittenType
      <3>3. unindexed' \in SUBSET Uri
        BY <3>1 DEF PipelineTypeOK
      <3>4. jobs' \in [Owner -> Job \cup {NoJob}]
        BY <1>1, <2>3
      <3> QED
        BY <1>3, <3>2, <3>3, <3>4 DEF JavacWrite, PipelineTypeOK
    <2> QED
      BY <1>3, <2>2, <2>3 DEF JavacWrite, PipelineTypeOK
  <1>4. ASSUME NEW u \in Uri, ReadClass(o, u) PROVE PipelineTypeOK'
    <2>1. jobs[o] \in Job
      BY <1>1, <1>4, JobFields DEF ReadClass
    <2>2. classes[u] # NoText
      BY <1>4 DEF ReadClass, TasksAreTimely
    <2>3. [uri |-> u, text |-> classes[u]] \in Read
      BY <1>1, <2>2 DEF Read
    <2> DEFINE h == [uri |-> u, text |-> classes[u]]
               j == [jobs[o] EXCEPT !.todo = jobs[o].todo \ {u}, !.held = h]
    <2>4. jobs' = [jobs EXCEPT ![o] = j]
      BY <1>4 DEF ReadClass
    <2>5. j \in Job
      <3>1. jobs[o].todo \ {u} \in SUBSET Uri
        BY <2>1 DEF Job
      <3> HIDE DEF h
      <3> QED
        BY <2>1, <2>3, <3>1, JobMoves DEF h
    <2> HIDE DEF j
    <2>6. jobs' \in [Owner -> Job \cup {NoJob}]
      BY <1>1, <2>4, <2>5, JobsUpdate
    <2> QED
      BY <1>4, <2>6 DEF ReadClass, PipelineTypeOK, history
  <1>5. ASSUME WriteStub(o) PROVE PipelineTypeOK'
    <2>1. jobs[o].held \in Read /\ jobs[o] \in Job
      BY <1>1, <1>5, JobFields DEF WriteStub, NoJob
    <2>2. stubIndex' \in [Uri -> [class : Text \cup {NoText},
                                  source : LombokText \cup {NoText}]]
      BY <1>1, <1>5, <2>1 DEF WriteStub, Read
    <2> DEFINE j == [jobs[o] EXCEPT !.held = NoRead]
    <2>3. jobs' = [jobs EXCEPT ![o] = j] /\ j \in Job
      BY <1>5, <2>1, JobMoves DEF WriteStub
    <2> HIDE DEF j
    <2>4. jobs' \in [Owner -> Job \cup {NoJob}]
      BY <1>1, <2>3, JobsUpdate
    <2> QED
      BY <1>5, <2>2, <2>4 DEF WriteStub, PipelineTypeOK, history
  <1>6. ASSUME EndIndex(o) PROVE PipelineTypeOK'
    <2>1. jobs[o] \in Job
      BY <1>1, <1>6, JobFields DEF EndIndex
    <2> DEFINE j == [jobs[o] EXCEPT !.phase = "redirect"]
    <2>2. jobs' = [jobs EXCEPT ![o] = j] /\ j \in Job
      BY <1>6, <2>1, JobMoves DEF EndIndex
    <2> HIDE DEF j
    <2>3. jobs' \in [Owner -> Job \cup {NoJob}]
      BY <1>1, <2>2, JobsUpdate
    <2> QED
      BY <1>6, <2>3 DEF EndIndex, PipelineTypeOK, history
  <1>7. ASSUME Redirect(o) PROVE PipelineTypeOK'
    <2>1. jobs[o].uri \in Uri /\ jobs[o].text \in LombokText /\ jobs[o] # NoJob
      BY <1>1, <1>7, JobFields DEF Redirect
    <2>2. jobs' \in [Owner -> Job \cup {NoJob}]
      BY <1>1, <1>7 DEF Redirect
    <2>3. stubIndex' \in [Uri -> [class : Text \cup {NoText},
                                  source : LombokText \cup {NoText}]]
      BY <1>1, <1>7, <2>1 DEF Redirect
    <2>4. redirected' \in SUBSET Uri
      BY <1>7, <2>1 DEF Redirect, PipelineTypeOK
    <2>5. sweepTodo' \in [Task -> (SUBSET Uri) \cup {NotListed}]
      BY <1>7 DEF Redirect, PipelineTypeOK
    <2>6. abandoned' \in SUBSET Uri
      <3>1. o \in Task => sweepTodo[o] \in SUBSET Uri
        <4>1. o \in Task => sweepTodo[o] # NotListed
          BY <2>1 DEF TasksAreTimely
        <4> QED
          BY <4>1 DEF PipelineTypeOK
      <3> QED
        BY <1>7, <3>1 DEF Redirect, PipelineTypeOK
    <2> QED
      BY <1>7, <2>2, <2>3, <2>4, <2>5, <2>6 DEF Redirect, PipelineTypeOK
  <1> QED
    BY <1>2, <1>3, <1>4, <1>5, <1>6, <1>7 DEF JobStep

(***************************************************************************)
(* What a step of a compile does to its job, and to the classes.           *)
(***************************************************************************)

Replaces(o) == \A p \in Owner \ {o} : jobs'[p] = jobs[p]

\* javac starts: the file is served.
LEMMA JavacReadEffect ==
    ASSUME PipelineTypeOK, NEW o \in Owner, JavacRead(o)
    PROVE  /\ Replaces(o)
           /\ jobs[o].phase = "start"
           /\ jobs'[o].phase = "javac"
           /\ jobs'[o].held = jobs[o].held
           /\ jobs'[o].todo = jobs[o].todo
           /\ unserved' = unserved \ {jobs[o].uri}
           /\ abandoned' = abandoned \ {jobs[o].uri}
           /\ UNCHANGED <<vars, classes, stubIndex, sweepTodo, unindexed, overlapped>>
  <1>1. jobs \in [Owner -> Job \cup {NoJob}] /\ jobs[o] \in Job
    BY JobFields DEF JavacRead, PipelineTypeOK
  <1> DEFINE in == [w \in Uri |-> IF w \in Refers[jobs[o].uri] \cup {jobs[o].uri}
                                  THEN disk[w] ELSE NoText]
             j == [jobs[o] EXCEPT !.phase = "javac", !.input = in]
  <1>2. jobs' = [jobs EXCEPT ![o] = j]
    BY DEF JavacRead
  <1>3. j.phase = "javac" /\ j.held = jobs[o].held /\ j.todo = jobs[o].todo
    <2> HIDE DEF in
    <2> QED
      BY <1>1 DEF Job
  <1> HIDE DEF j
  <1>4. Replaces(o) /\ jobs'[o] = j
    BY <1>1, <1>2 DEF Replaces
  <1> QED
    BY <1>3, <1>4 DEF JavacRead

\* javac ends: with all classes to be indexed, or with some that are not.
LEMMA JavacWriteEffect ==
    ASSUME TypeOK, PipelineTypeOK, NEW o \in Owner, JavacWrite(o)
    PROVE  /\ Replaces(o)
           /\ jobs[o].phase = "javac"
           /\ \/ /\ jobs'[o].phase = "index"
                 /\ jobs'[o].held = jobs[o].held
                 /\ jobs'[o].todo = {w \in Uri : classes'[w] # NoText}
                 /\ unindexed' = {}
              \/ /\ jobs'[o] = NoJob
                 /\ unindexed \subseteq unindexed'
                 /\ \A w \in Uri \ unindexed' : classes'[w] = classes[w]
           /\ \A w \in Uri : classes[w] # NoText => classes'[w] # NoText
           /\ UNCHANGED <<vars, stubIndex, sweepTodo, unserved, abandoned, overlapped>>
  <1> DEFINE input == jobs[o].input
             read == {w \in Uri : input[w] # NoText}
             j == [jobs[o] EXCEPT !.phase = "index", !.input = NoInput,
                                  !.todo = {w \in Uri : classes'[w] # NoText}]
  <1>1. /\ jobs \in [Owner -> Job \cup {NoJob}] /\ jobs[o] \in Job
        /\ classes \in [Uri -> Text \cup {NoText}]
    BY JobFields DEF JavacWrite, PipelineTypeOK
  <1>2. ASSUME NEW files \in SUBSET read, classes' = Written(input, files)
        PROVE  /\ \A w \in Uri : classes[w] # NoText => classes'[w] # NoText
               /\ \A w \in Uri \ files : classes'[w] = classes[w]
    BY <1>1, <1>2 DEF Written
  <1>3. CASE /\ classes' = Written(input, read)
             /\ jobs' = [jobs EXCEPT ![o] = j]
             /\ unindexed' = {}
    <2>1. j.phase = "index" /\ j.held = jobs[o].held
          /\ j.todo = {w \in Uri : classes'[w] # NoText}
      <3> DEFINE T == {w \in Uri : classes'[w] # NoText}
      <3> HIDE DEF T
      <3>1. j = [jobs[o] EXCEPT !.phase = "index", !.input = NoInput, !.todo = T]
        BY DEF T
      <3> HIDE DEF j
      <3> QED
        BY <1>1, <3>1 DEF Job, T
    <2> HIDE DEF j
    <2>2. Replaces(o) /\ jobs'[o] = j
      BY <1>1, <1>3 DEF Replaces
    <2> QED
      BY <1>2, <1>3, <2>1, <2>2 DEF JavacWrite
  <1>4. CASE /\ \E files \in SUBSET read : /\ classes' = Written(input, files)
                                           /\ unindexed' = unindexed \cup files
             /\ jobs' = [jobs EXCEPT ![o] = NoJob]
    <2>1. PICK files \in SUBSET read : /\ classes' = Written(input, files)
                                       /\ unindexed' = unindexed \cup files
      BY <1>4
    <2>2. Replaces(o) /\ jobs'[o] = NoJob
      BY <1>1, <1>4 DEF Replaces
    <2> QED
      BY <1>2, <2>1, <2>2 DEF JavacWrite
  <1> QED
    BY <1>3, <1>4 DEF JavacWrite

\* A class is read, to be written as a stub.
LEMMA ReadClassEffect ==
    ASSUME PipelineTypeOK, NEW o \in Owner, NEW u \in Uri, ReadClass(o, u)
    PROVE  /\ Replaces(o)
           /\ jobs[o].phase = "index" /\ jobs'[o].phase = "index"
           /\ jobs[o].held = NoRead
           /\ jobs'[o].held.uri = u
           /\ jobs'[o].held.text = classes[u]
           /\ jobs'[o].held # NoRead
           /\ jobs'[o].todo = jobs[o].todo \ {u}
           /\ UNCHANGED <<vars, classes, stubIndex, sweepTodo, unserved, abandoned,
                          unindexed, overlapped>>
  <1> DEFINE h == [uri |-> u, text |-> classes[u]]
             j == [jobs[o] EXCEPT !.todo = jobs[o].todo \ {u}, !.held = h]
  <1>1. jobs \in [Owner -> Job \cup {NoJob}] /\ jobs[o] \in Job
    BY JobFields DEF ReadClass, PipelineTypeOK
  <1>2. jobs' = [jobs EXCEPT ![o] = j]
    BY DEF ReadClass
  <1>3. j.phase = jobs[o].phase /\ j.held = h /\ j.todo = jobs[o].todo \ {u}
    <2> HIDE DEF h
    <2> QED
      BY <1>1 DEF Job
  <1> HIDE DEF j
  <1>4. Replaces(o) /\ jobs'[o] = j
    BY <1>1, <1>2 DEF Replaces
  <1>5. h # NoRead /\ h.uri = u /\ h.text = classes[u]
    BY RefersAssumption DEF NoRead
  <1> HIDE DEF h
  <1>6. /\ jobs[o].phase = "index" /\ jobs[o].held = NoRead
        /\ UNCHANGED <<vars, classes, stubIndex, sweepTodo, unserved, abandoned,
                       unindexed, overlapped>>
    BY DEF ReadClass, history
  <1> QED
    BY <1>3, <1>4, <1>5, <1>6

\* The stub is written.
LEMMA WriteStubEffect ==
    ASSUME PipelineTypeOK, NEW o \in Owner, WriteStub(o)
    PROVE  /\ Replaces(o)
           /\ jobs[o].held # NoRead
           /\ jobs[o].held.uri \in Uri
           /\ jobs'[o].phase = jobs[o].phase
           /\ jobs'[o].held = NoRead
           /\ jobs'[o].todo = jobs[o].todo
           /\ stubIndex'[jobs[o].held.uri].class = jobs[o].held.text
           /\ \A w \in Uri \ {jobs[o].held.uri} : stubIndex'[w] = stubIndex[w]
           /\ UNCHANGED <<vars, classes, sweepTodo, unserved, abandoned, unindexed,
                          overlapped>>
  <1> DEFINE j == [jobs[o] EXCEPT !.held = NoRead]
  <1>1. jobs \in [Owner -> Job \cup {NoJob}] /\ jobs[o] \in Job /\ jobs[o].held \in Read
    BY JobFields DEF WriteStub, PipelineTypeOK, NoJob
  <1>2. jobs' = [jobs EXCEPT ![o] = j]
    BY DEF WriteStub
  <1>3. j.phase = jobs[o].phase /\ j.held = NoRead /\ j.todo = jobs[o].todo
    BY <1>1 DEF Job
  <1> HIDE DEF j
  <1>4. Replaces(o) /\ jobs'[o] = j
    BY <1>1, <1>2 DEF Replaces
  <1>5. jobs[o].held.uri \in Uri
    BY <1>1 DEF Read
  <1>6. /\ stubIndex'[jobs[o].held.uri].class = jobs[o].held.text
        /\ \A w \in Uri \ {jobs[o].held.uri} : stubIndex'[w] = stubIndex[w]
    BY <1>5 DEF WriteStub, PipelineTypeOK
  <1>7. /\ jobs[o].held # NoRead
        /\ UNCHANGED <<vars, classes, sweepTodo, unserved, abandoned, unindexed, overlapped>>
    BY DEF WriteStub, history
  <1> QED
    BY <1>3, <1>4, <1>5, <1>6, <1>7

\* All stubs are written.
LEMMA EndIndexEffect ==
    ASSUME PipelineTypeOK, NEW o \in Owner, EndIndex(o)
    PROVE  /\ Replaces(o)
           /\ jobs[o].phase = "index" /\ jobs[o].held = NoRead /\ jobs[o].todo = {}
           /\ jobs'[o].phase = "redirect" /\ jobs'[o].held = NoRead /\ jobs'[o].todo = {}
           /\ UNCHANGED <<vars, classes, stubIndex, sweepTodo, unserved, abandoned,
                          unindexed, overlapped>>
  <1> DEFINE j == [jobs[o] EXCEPT !.phase = "redirect"]
  <1>1. jobs \in [Owner -> Job \cup {NoJob}] /\ jobs[o] \in Job
    BY JobFields DEF EndIndex, PipelineTypeOK
  <1>2. jobs' = [jobs EXCEPT ![o] = j]
    BY DEF EndIndex
  <1>3. j.phase = "redirect" /\ j.held = jobs[o].held /\ j.todo = jobs[o].todo
    BY <1>1 DEF Job
  <1> HIDE DEF j
  <1>4. Replaces(o) /\ jobs'[o] = j
    BY <1>1, <1>2 DEF Replaces
  <1> QED
    BY <1>3, <1>4 DEF EndIndex, history

\* The compile ends, with the stub of its file corrected, or in a panic that
\* ends the whole sweep.
LEMMA RedirectEffect ==
    ASSUME PipelineTypeOK, NEW o \in Owner, Redirect(o)
    PROVE  /\ Replaces(o)
           /\ jobs[o].phase = "redirect" /\ jobs[o].uri \in Uri
           /\ jobs'[o] = NoJob
           /\ \/ /\ stubIndex'[jobs[o].uri].class = classes[jobs[o].uri]
                 /\ \A w \in Uri \ {jobs[o].uri} : stubIndex'[w] = stubIndex[w]
                 /\ UNCHANGED <<sweepTodo, abandoned>>
              \/ /\ UNCHANGED stubIndex
                 /\ o \in Task => sweepTodo'[o] = {}
                 /\ \A i \in Task \ {o} : sweepTodo'[i] = sweepTodo[i]
                 /\ abandoned' = abandoned \cup IF o \in Task THEN sweepTodo[o] ELSE {}
           /\ UNCHANGED <<vars, classes, unserved, unindexed, overlapped>>
  <1>1. jobs \in [Owner -> Job \cup {NoJob}] /\ jobs[o].uri \in Uri
    BY JobFields DEF Redirect, PipelineTypeOK
  <1>2. Replaces(o) /\ jobs'[o] = NoJob
    BY <1>1 DEF Redirect, Replaces
  <1> QED
    BY <1>1, <1>2 DEF Redirect, PipelineTypeOK

\* Starting a compile, when no other is under way, is no overlap.
LEMMA StartEffect ==
    ASSUME PipelineTypeOK, NEW o \in Owner, NEW u \in Uri, NEW t \in LombokText,
           jobs' = [jobs EXCEPT ![o] = NewJob(u, t)]
    PROVE  /\ Replaces(o)
           /\ jobs'[o] # NoJob
           /\ jobs'[o].phase = "start" /\ jobs'[o].uri = u /\ jobs'[o].held = NoRead
           /\ jobs'[o].todo = {}
           /\ jobs' \in [Owner -> Job \cup {NoJob}]
  <1>1. jobs \in [Owner -> Job \cup {NoJob}]
    BY DEF PipelineTypeOK
  <1>2. NewJob(u, t).todo = {}
    BY DEF NewJob, NoJob
  <1>3. Replaces(o) /\ jobs'[o] = NewJob(u, t)
    BY <1>1 DEF Replaces
  <1>4. NewJob(u, t) \in Job
    BY NewJobType
  <1>5. jobs' \in [Owner -> Job \cup {NoJob}]
    BY <1>1, <1>4
  <1> QED
    BY <1>2, <1>3, <1>5, NewJobType

\* A save's task starts a compile, or gives up as there is no model.
LEMMA StartLombokEffect ==
    ASSUME PipelineTypeOK, TasksAreTimely, NEW e \in Edit, StartLombokTask(e)
    PROVE  /\ e \in lombokTasks /\ lombokTasks' = lombokTasks \ {e}
           /\ e.text \in LombokText /\ e.uri \in Uri
           /\ jobs[Save] = NoJob
           /\ \/ /\ projectModel
                 /\ jobs' = [jobs EXCEPT ![Save] = NewJob(e.uri, e.text)]
                 /\ overlapped' = (overlapped \/ Compiling)
              \/ /\ ~projectModel
                 /\ UNCHANGED <<jobs, overlapped>>
           /\ UNCHANGED <<projectModel, disk, scans, builds, classes, stubIndex, sweepTodo,
                          unserved, abandoned, unindexed, redirected>>
  <1>1. jobs \in [Owner -> Job \cup {NoJob}] /\ Save \in Owner
    BY DEF PipelineTypeOK, Owner
  <1>2. e.uri \in Uri /\ (e \in lombokTasks => e.text \in LombokText)
    BY DEF Edit, TasksAreTimely
  <1>3. jobs[Save] = NoJob => [jobs EXCEPT ![Save] = NoJob] = jobs
    BY <1>1
  <1>4. overlapped \in BOOLEAN
    BY DEF PipelineTypeOK
  <1> QED
    BY <1>1, <1>2, <1>3, <1>4 DEF StartLombokTask, EndLombokTask

\* A sweep, in its time, starts a compile or passes over the file.
LEMMA SweepFileEffect ==
    ASSUME PipelineTypeOK, TypeOK, TasksAreTimely, NEW i \in Task, NEW u \in Uri,
           SweepFile(i, u)
    PROVE  /\ jobs[i] = NoJob
           /\ sweepTodo[i] \in SUBSET Uri /\ u \in sweepTodo[i]
           /\ builds[i] = "sweeping"
           /\ sweepTodo' \in [Task -> (SUBSET Uri) \cup {NotListed}]
           /\ sweepTodo'[i] = sweepTodo[i] \ {u} /\ sweepTodo'[i] # NotListed
           /\ \A k \in Task \ {i} : sweepTodo'[k] = sweepTodo[k]
           /\ \/ /\ disk[u] \in LombokText
                 /\ jobs' = [jobs EXCEPT ![i] = NewJob(u, disk[u])]
                 /\ overlapped' = (overlapped \/ Compiling)
              \/ /\ disk[u] \notin LombokText
                 /\ UNCHANGED <<jobs, overlapped>>
           /\ UNCHANGED <<vars, classes, stubIndex, unserved, abandoned, unindexed, redirected>>
  <1>1. /\ jobs \in [Owner -> Job \cup {NoJob}] /\ i \in Owner
        /\ sweepTodo \in [Task -> (SUBSET Uri) \cup {NotListed}]
        /\ overlapped \in BOOLEAN
        /\ builds[i] \in BuildPhase
    BY DEF PipelineTypeOK, TypeOK, Owner
  <1>2. u \in sweepTodo[i] /\ sweepTodo[i] # NotListed /\ sweepTodo[i] \in SUBSET Uri
    <2>1. u \in sweepTodo[i] /\ u \notin NotListed
      BY DEF SweepFile
    <2> QED
      BY <1>1, <2>1
  <1>3. builds[i] = "sweeping"
    BY <1>1, <1>2 DEF TasksAreTimely, BuildPhase
  <1>4. sweepTodo[i] \ {u} \in SUBSET Uri /\ sweepTodo[i] \ {u} # NotListed
    BY <1>2, RefersAssumption DEF NotListed
  <1>5. sweepTodo' = [sweepTodo EXCEPT ![i] = sweepTodo[i] \ {u}]
    BY DEF SweepFile
  <1>6. /\ sweepTodo' \in [Task -> (SUBSET Uri) \cup {NotListed}]
        /\ sweepTodo'[i] = sweepTodo[i] \ {u}
        /\ \A k \in Task \ {i} : sweepTodo'[k] = sweepTodo[k]
    BY <1>1, <1>4, <1>5
  <1>7. jobs[i] = NoJob /\ [jobs EXCEPT ![i] = NoJob] = jobs
    BY <1>1 DEF SweepFile
  <1>8. /\ \/ /\ disk[u] \in LombokText
              /\ jobs' = [jobs EXCEPT ![i] = NewJob(u, disk[u])]
              /\ overlapped' = (overlapped \/ Compiling)
           \/ /\ disk[u] \notin LombokText
              /\ UNCHANGED <<jobs, overlapped>>
        /\ UNCHANGED <<vars, classes, stubIndex, unserved, abandoned, unindexed, redirected>>
    BY <1>1, <1>7 DEF SweepFile
  <1> QED
    BY <1>2, <1>3, <1>4, <1>6, <1>7, <1>8

\* A sweep lists the files there are.
LEMMA ListFilesEffect ==
    ASSUME PipelineTypeOK, NEW i \in Task, ListFiles(i)
    PROVE  /\ builds[i] = "sweeping" /\ sweepTodo[i] = NotListed
           /\ sweepTodo' \in [Task -> (SUBSET Uri) \cup {NotListed}]
           /\ sweepTodo'[i] = {u \in Uri : disk[u] # NoText} /\ sweepTodo'[i] # NotListed
           /\ \A k \in Task \ {i} : sweepTodo'[k] = sweepTodo[k]
           /\ UNCHANGED <<vars, classes, stubIndex, jobs, history>>
  <1>1. sweepTodo \in [Task -> (SUBSET Uri) \cup {NotListed}]
    BY DEF PipelineTypeOK
  <1>2. {u \in Uri : disk[u] # NoText} # NotListed
    BY RefersAssumption DEF NotListed
  <1> QED
    BY <1>1, <1>2 DEF ListFiles

\* A handler adds files of the workspace to those unserved, whose content on
\* disk uses Lombok and waits to be compiled.
LEMMA HandlerStepEffect ==
    ASSUME TypeOK, HandlerStep, lombokTasks' \in SUBSET Edit
    PROVE  \A u \in unserved' : u \in unserved \/
               /\ u \in Uri
               /\ \E e \in lombokTasks' : e.uri = u /\ e.text \in LombokText /\ disk[u] = e.text
  <1> SUFFICES ASSUME NEW u \in unserved', u \notin unserved
               PROVE  /\ u \in Uri
                      /\ \E e \in lombokTasks' : e.uri = u /\ e.text \in LombokText
                                                 /\ disk[u] = e.text
    OBVIOUS
  <1>1. PICK e \in lombokTasks' \ lombokTasks : disk[e.uri] = e.text /\ e.uri = u
    BY DEF HandlerStep
  <1>2. e.text \in LombokText
    BY <1>1, HandlerEffect DEF HandlerStep
  <1>3. e.uri \in Uri
    BY <1>1 DEF Edit
  <1> QED
    BY <1>1, <1>2, <1>3

(***************************************************************************)
(* The invariant holds at first and is kept by every step.                 *)
(***************************************************************************)

\* The pipeline starts in the invariant.
LEMMA PipelineInvInit == PipelineInit => PipelineInv
  <1> SUFFICES ASSUME PipelineInit PROVE PipelineInv
    OBVIOUS
  <1>1. Init /\ TypeInv
    BY TypeInit DEF PipelineInit
  <1>2. PipelineTypeOK
    BY DEF PipelineInit, PipelineTypeOK
  <1>3. NoJob.held = NoRead /\ NoJob.todo = {}
    BY DEF NoJob
  <1>4. TasksAreTimely
    <2>1. \A i \in Task : builds[i] = "idle" /\ sweepTodo[i] = NotListed /\ i \in Owner
      BY <1>1 DEF PipelineInit, Init, Owner
    <2>2. \A o \in Owner : jobs[o] = NoJob
      BY DEF PipelineInit
    <2>3. lombokTasks = {} /\ unserved = {}
      BY <1>1 DEF PipelineInit, Init
    <2> QED
      BY <1>3, <2>1, <2>2, <2>3 DEF TasksAreTimely
  <1>5. SavesAreServed
    BY <1>1 DEF PipelineInit, SavesAreServed
  <1>6. StubsAreMade
    BY <1>1, <1>3 DEF PipelineInit, StubsAreMade
  <1> QED
    BY <1>1, <1>2, <1>4, <1>5, <1>6 DEF PipelineInv

\* No step takes a variable of the pipeline out of its type.
LEMMA PipelineTypeStep ==
    ASSUME TypeInv, PipelineTypeOK, TasksAreTimely, [PipelineNext]_allVars
    PROVE  PipelineTypeOK'
  <1>1. TypeOK /\ TypeOK'
    BY StepRefines, TypeStep DEF TypeInv
  <1>2. CASE HandlerStep
    <2>1. unserved' \in SUBSET Uri
      BY <1>1, <1>2, HandlerStepEffect DEF PipelineTypeOK, TypeOK
    <2> QED
      BY <1>2, <2>1 DEF HandlerStep, PipelineTypeOK
  <1>3. CASE WorldStep
    BY <1>3 DEF WorldStep, PipelineTypeOK
  <1>4. CASE IndexStep
    BY <1>4 DEF IndexStep, pipelineVars, history, PipelineTypeOK
  <1>5. ASSUME NEW e \in Edit, StartLombokTask(e) PROVE PipelineTypeOK'
    <2>1. jobs' \in [Owner -> Job \cup {NoJob}]
      BY <1>5, StartLombokEffect, StartEffect DEF PipelineTypeOK, Owner
    <2>2. overlapped' \in BOOLEAN
      BY <1>5 DEF StartLombokTask, PipelineTypeOK, Compiling
    <2> QED
      BY <1>5, <2>1, <2>2, StartLombokEffect DEF PipelineTypeOK
  <1>6. ASSUME NEW i \in Task, PublishModel(i) \/ EndSweep(i) PROVE PipelineTypeOK'
    BY <1>6 DEF PublishModel, EndSweep, pipelineVars, history, PipelineTypeOK
  <1>7. ASSUME NEW i \in Task, ListFiles(i) PROVE PipelineTypeOK'
    BY <1>7, ListFilesEffect DEF history, PipelineTypeOK
  <1>8. ASSUME NEW i \in Task, NEW u \in Uri, SweepFile(i, u) PROVE PipelineTypeOK'
    <2>1. i \in Owner
      BY DEF Owner
    <2>2. jobs' \in [Owner -> Job \cup {NoJob}]
      BY <1>1, <1>8, <2>1, SweepFileEffect, StartEffect DEF PipelineTypeOK
    <2>3. overlapped' \in BOOLEAN
      BY <1>8 DEF SweepFile, PipelineTypeOK, Compiling
    <2> QED
      BY <1>1, <1>8, <2>2, <2>3, SweepFileEffect DEF PipelineTypeOK
  <1>9. ASSUME NEW o \in Owner, JobStep(o) PROVE PipelineTypeOK'
    BY <1>1, <1>9, JobTypeStep
  <1>10. CASE UNCHANGED allVars
    BY <1>10 DEF allVars, pipelineVars, history, PipelineTypeOK
  <1> QED
    BY <1>2, <1>3, <1>4, <1>5, <1>6, <1>7, <1>8, <1>9, <1>10 DEF PipelineNext

\* What every step of a compile keeps to.
JobKeeps(o) ==
    /\ Replaces(o) /\ jobs[o] # NoJob
    /\ jobs'[o].held # NoRead => jobs'[o].phase = "index"
    /\ \A u \in jobs'[o].todo : classes'[u] # NoText
    /\ \A u \in Uri : classes[u] # NoText => classes'[u] # NoText
    /\ \A i \in Task : sweepTodo'[i] = sweepTodo[i] \/ (i = o /\ sweepTodo'[i] = {})
    /\ unserved' \subseteq unserved

\* A compile holds and lists classes while it indexes, only.
LEMMA JobKeepsTime ==
    ASSUME TypeOK, PipelineTypeOK, TasksAreTimely, NEW o \in Owner, JobStep(o)
    PROVE  JobKeeps(o)
  <1>1. NoJob.phase = "none" /\ NoJob.held = NoRead /\ NoJob.todo = {}
    BY DEF NoJob
  <1>2. /\ jobs[o].held # NoRead => jobs[o].phase = "index"
        /\ \A u \in jobs[o].todo : classes[u] # NoText
    BY DEF TasksAreTimely
  <1>3. ASSUME JavacRead(o) PROVE JobKeeps(o)
    <2>1. /\ Replaces(o) /\ jobs[o].phase = "start" /\ jobs'[o].phase = "javac"
          /\ jobs'[o].held = jobs[o].held /\ jobs'[o].todo = jobs[o].todo
          /\ unserved' \subseteq unserved /\ UNCHANGED <<classes, sweepTodo>>
      BY <1>3, JavacReadEffect
    <2> QED
      BY <1>1, <1>2, <2>1 DEF JobKeeps
  <1>4. ASSUME JavacWrite(o) PROVE JobKeeps(o)
    <2>1. /\ Replaces(o) /\ jobs[o].phase = "javac"
          /\ \/ /\ jobs'[o].phase = "index" /\ jobs'[o].held = jobs[o].held
                /\ jobs'[o].todo = {w \in Uri : classes'[w] # NoText}
             \/ jobs'[o] = NoJob
          /\ \A w \in Uri : classes[w] # NoText => classes'[w] # NoText
          /\ UNCHANGED <<unserved, sweepTodo>>
      BY <1>4, JavacWriteEffect
    <2> QED
      BY <1>1, <1>2, <2>1 DEF JobKeeps
  <1>5. ASSUME NEW u \in Uri, ReadClass(o, u) PROVE JobKeeps(o)
    <2>1. /\ Replaces(o) /\ jobs[o].phase = "index" /\ jobs'[o].phase = "index"
          /\ jobs'[o].todo = jobs[o].todo \ {u}
          /\ UNCHANGED <<classes, unserved, sweepTodo>>
      BY <1>5, ReadClassEffect
    <2> QED
      BY <1>1, <1>2, <2>1 DEF JobKeeps
  <1>6. ASSUME WriteStub(o) PROVE JobKeeps(o)
    <2>1. /\ Replaces(o) /\ jobs[o].held # NoRead
          /\ jobs'[o].held = NoRead /\ jobs'[o].todo = jobs[o].todo
          /\ UNCHANGED <<classes, unserved, sweepTodo>>
      BY <1>6, WriteStubEffect
    <2> QED
      BY <1>1, <1>2, <2>1 DEF JobKeeps
  <1>7. ASSUME EndIndex(o) PROVE JobKeeps(o)
    <2>1. /\ Replaces(o) /\ jobs[o].phase = "index"
          /\ jobs'[o].held = NoRead /\ jobs'[o].todo = {}
          /\ UNCHANGED <<classes, unserved, sweepTodo>>
      BY <1>7, EndIndexEffect
    <2> QED
      BY <1>1, <1>2, <2>1 DEF JobKeeps
  <1>8. ASSUME Redirect(o) PROVE JobKeeps(o)
    <2>1. /\ Replaces(o) /\ jobs[o].phase = "redirect" /\ jobs'[o] = NoJob
          /\ \A i \in Task : sweepTodo'[i] = sweepTodo[i] \/ (i = o /\ sweepTodo'[i] = {})
          /\ UNCHANGED <<classes, unserved>>
      BY <1>8, RedirectEffect
    <2> QED
      BY <1>1, <1>2, <2>1 DEF JobKeeps
  <1> QED
    BY <1>3, <1>4, <1>5, <1>6, <1>7, <1>8 DEF JobStep

\* Tasks, sweeps and compiles keep to their times.
LEMMA TimelyStep ==
    ASSUME TypeInv, PipelineTypeOK, TasksAreTimely, [PipelineNext]_allVars
    PROVE  TasksAreTimely'
  <1>1. /\ TypeOK /\ TypeOK' /\ PipelineTypeOK'
        /\ \A i \in Task : i \in Owner
    BY StepRefines, TypeStep, PipelineTypeStep DEF TypeInv, Owner
  <1>2. CASE HandlerStep
    <2>1. Handler /\ UNCHANGED <<classes, jobs, sweepTodo>>
      BY <1>2 DEF HandlerStep
    <2>2. \A u \in unserved' : disk'[u] \in LombokText
      <3>1. \A u \in unserved' : u \in unserved \/ disk[u] \in LombokText
        BY <1>1, <1>2, HandlerStepEffect DEF TypeOK
      <3> QED
        BY <1>1, <2>1, <3>1, HandlerEffect DEF TasksAreTimely
    <2>3. \A e \in lombokTasks' : e.text \in LombokText
      BY <1>1, <2>1, HandlerEffect DEF TasksAreTimely
    <2>4. ASSUME NEW i \in Task
          PROVE  /\ scans'[i].phase = "idle" => builds'[i] = "idle"
                 /\ builds'[i] \in {"idle", "queued"} => sweepTodo'[i] = NotListed
                 /\ builds'[i] = "done" => sweepTodo'[i] \in {NotListed, {}}
                 /\ builds'[i] = "sweeping" => projectModel'
                 /\ jobs'[i] # NoJob => sweepTodo'[i] # NotListed /\ builds'[i] = "sweeping"
      <3>1. projectModel' = projectModel
        BY <1>1, <2>1, HandlerEffect
      <3>2. \/ builds'[i] = builds[i] /\ scans'[i].phase = scans[i].phase
            \/ /\ scans[i].phase = "idle"
               /\ builds'[i] = "queued" /\ scans'[i].phase = "queued"
        BY <1>1, <2>1, HandlerEffect
      <3> QED
        BY <2>1, <3>1, <3>2 DEF TasksAreTimely
    <2> QED
      BY <2>1, <2>2, <2>3, <2>4 DEF TasksAreTimely
  <1>3. CASE WorldStep
    <2>1. UNCHANGED <<lombokTasks, scans, builds, projectModel, classes, jobs, sweepTodo>>
      BY <1>3 DEF WorldStep, World, WriteDisk, taskVars
    <2>2. \A u \in unserved' : u \in unserved /\ disk'[u] = disk[u]
      BY <1>3 DEF WorldStep
    <2> QED
      BY <2>1, <2>2 DEF TasksAreTimely
  <1>4. CASE IndexStep
    BY <1>1, <1>4, IndexEffect DEF pipelineVars, history, TasksAreTimely
  <1>5. ASSUME NEW e \in Edit, StartLombokTask(e) PROVE TasksAreTimely'
    <2>1. Save \in Owner /\ Save \notin Task
      BY DEF Owner, Save, Task
    <2>2. CASE jobs' = jobs
      BY <1>5, <2>2, StartLombokEffect DEF TasksAreTimely
    <2>3. CASE jobs' = [jobs EXCEPT ![Save] = NewJob(e.uri, e.text)]
      <3>1. /\ \A o \in Owner \ {Save} : jobs'[o] = jobs[o]
            /\ jobs'[Save].held = NoRead /\ jobs'[Save].todo = {}
        BY <1>5, <2>1, <2>3, StartLombokEffect, StartEffect DEF Replaces
      <3> QED
        BY <1>1, <1>5, <2>1, <3>1, StartLombokEffect DEF TasksAreTimely
    <2> QED
      BY <1>5, <2>2, <2>3, StartLombokEffect
  <1>6. ASSUME NEW i \in Task, PublishModel(i) PROVE TasksAreTimely'
    <2>1. ResolveModel(i) /\ UNCHANGED <<classes, jobs, sweepTodo, unserved>>
      BY <1>6 DEF PublishModel, pipelineVars, history
    <2>2. /\ UNCHANGED <<disk, lombokTasks, scans>>
          /\ builds[i] = "queued"
          /\ \/ projectModel' = TRUE /\ builds'[i] = "sweeping"
             \/ projectModel' = projectModel /\ builds'[i] = "done"
          /\ \A k \in Task \ {i} : builds'[k] = builds[k]
      BY <1>1, <2>1, ResolveEffect
    <2>3. ASSUME NEW k \in Task
          PROVE  /\ scans'[k].phase = "idle" => builds'[k] = "idle"
                 /\ builds'[k] \in {"idle", "queued"} => sweepTodo'[k] = NotListed
                 /\ builds'[k] = "done" => sweepTodo'[k] \in {NotListed, {}}
                 /\ builds'[k] = "sweeping" => projectModel'
                 /\ jobs'[k] # NoJob => sweepTodo'[k] # NotListed /\ builds'[k] = "sweeping"
      <3>1. /\ scans[k].phase = "idle" => builds[k] = "idle"
            /\ builds[k] \in {"idle", "queued"} => sweepTodo[k] = NotListed
            /\ builds[k] = "done" => sweepTodo[k] \in {NotListed, {}}
            /\ builds[k] = "sweeping" => projectModel
            /\ jobs[k] # NoJob => sweepTodo[k] # NotListed /\ builds[k] = "sweeping"
        BY DEF TasksAreTimely
      <3>2. CASE k = i
        BY <2>1, <2>2, <3>1, <3>2
      <3>3. CASE k # i
        BY <2>1, <2>2, <3>1, <3>3
      <3> QED
        BY <3>2, <3>3
    <2> QED
      BY <2>1, <2>2, <2>3 DEF TasksAreTimely
  <1>7. ASSUME NEW i \in Task, EndSweep(i) PROVE TasksAreTimely'
    <2>1. /\ EndBuild(i) /\ sweepTodo[i] = {} /\ jobs[i] = NoJob
          /\ UNCHANGED <<classes, jobs, sweepTodo, unserved>>
      BY <1>7 DEF EndSweep, pipelineVars, history
    <2> QED
      BY <1>1, <2>1, EndBuildEffect DEF TasksAreTimely
  <1>8. ASSUME NEW i \in Task, ListFiles(i) PROVE TasksAreTimely'
    BY <1>8, ListFilesEffect DEF TasksAreTimely, vars, mainVars, taskVars, history
  <1>9. ASSUME NEW i \in Task, NEW u \in Uri, SweepFile(i, u) PROVE TasksAreTimely'
    <2>1. UNCHANGED <<lombokTasks, scans, builds, projectModel, disk, classes, unserved>>
      BY <1>1, <1>9, SweepFileEffect DEF vars, mainVars, taskVars
    <2>2. /\ \A o \in Owner \ {i} : jobs'[o] = jobs[o]
          /\ \/ jobs'[i] = jobs[i]
             \/ jobs'[i].held = NoRead /\ jobs'[i].todo = {}
      BY <1>1, <1>9, SweepFileEffect, StartEffect DEF Replaces
    <2>3. /\ \A k \in Task \ {i} : sweepTodo'[k] = sweepTodo[k]
          /\ sweepTodo'[i] # NotListed /\ builds[i] = "sweeping"
      BY <1>1, <1>9, SweepFileEffect
    <2> QED
      BY <1>1, <2>1, <2>2, <2>3 DEF TasksAreTimely
  <1>10. ASSUME NEW o \in Owner, JobStep(o) PROVE TasksAreTimely'
    <2>1. UNCHANGED vars
      BY <1>10 DEF JobStep, JavacRead, JavacWrite, ReadClass, WriteStub, EndIndex, Redirect
    <2>2. UNCHANGED <<lombokTasks, scans, builds, projectModel, disk>>
      BY <2>1 DEF vars, mainVars, taskVars
    <2>3. JobKeeps(o)
      BY <1>1, <1>10, JobKeepsTime
    <2>4. {} # NotListed
      BY DEF NotListed
    <2>5. \A p \in Owner : jobs[p].todo \subseteq Uri
      BY JobFields DEF PipelineTypeOK
    <2> QED
      BY <1>1, <2>2, <2>3, <2>4, <2>5 DEF TasksAreTimely, JobKeeps, Replaces
  <1>11. CASE UNCHANGED allVars
    BY <1>11 DEF allVars, pipelineVars, history, vars, mainVars, taskVars, TasksAreTimely
  <1> QED
    BY <1>2, <1>3, <1>4, <1>5, <1>6, <1>7, <1>8, <1>9, <1>10, <1>11 DEF PipelineNext

\* A file waits for javac as long as its task, its compile and the sweeps do.
LEMMA AwaitsKept ==
    ASSUME NEW u, AwaitsJavac(u),
           \A e \in lombokTasks : e.uri = u => \E f \in lombokTasks' : f.uri = u,
           \A o \in Owner : jobs[o].phase = "start" /\ jobs[o].uri = u =>
                                jobs'[o].phase = "start" /\ jobs'[o].uri = u,
           \A i \in Task : builds[i] = "sweeping" => builds'[i] = "sweeping",
           \A i \in Task :
               builds[i] = "sweeping" /\ (sweepTodo[i] = NotListed \/ u \in sweepTodo[i])
                   => sweepTodo'[i] = NotListed \/ u \in sweepTodo'[i]
    PROVE  AwaitsJavac(u)'
  BY DEF AwaitsJavac

\* No step of a compile leaves a file to nobody.
LEMMA JobServes ==
    ASSUME TypeOK, PipelineTypeOK, TasksAreTimely, SavesAreServed,
           NEW o \in Owner, JobStep(o)
    PROVE  SavesAreServed'
  <1>1. UNCHANGED vars
    BY DEF JobStep, JavacRead, JavacWrite, ReadClass, WriteStub, EndIndex, Redirect
  <1>2. UNCHANGED <<lombokTasks, builds, projectModel>>
    BY <1>1 DEF vars, mainVars, taskVars
  <1> SUFFICES ASSUME projectModel, NEW u \in unserved', u \notin abandoned'
               PROVE  AwaitsJavac(u)'
    BY <1>2 DEF SavesAreServed
  <1>3. ASSUME Replaces(o), u \in unserved, u \notin abandoned,
               jobs[o].phase # "start" \/ jobs[o].uri # u,
               \A i \in Task : \/ sweepTodo'[i] = sweepTodo[i]
                               \/ sweepTodo[i] # NotListed /\ u \notin sweepTodo[i]
        PROVE  AwaitsJavac(u)'
    <2>1. AwaitsJavac(u)
      BY <1>3 DEF SavesAreServed
    <2> QED
      BY <1>2, <1>3, <2>1, AwaitsKept DEF Replaces
  <1>4. ASSUME JavacRead(o) PROVE AwaitsJavac(u)'
    <2>1. /\ Replaces(o) /\ UNCHANGED sweepTodo
          /\ unserved' = unserved \ {jobs[o].uri}
          /\ abandoned' = abandoned \ {jobs[o].uri}
      BY <1>4, JavacReadEffect
    <2> QED
      BY <1>3, <2>1
  <1>5. ASSUME JavacWrite(o) PROVE AwaitsJavac(u)'
    <2>1. /\ Replaces(o) /\ jobs[o].phase = "javac"
          /\ UNCHANGED <<sweepTodo, unserved, abandoned>>
      BY <1>5, JavacWriteEffect
    <2> QED
      BY <1>3, <2>1
  <1>6. ASSUME NEW w \in Uri, ReadClass(o, w) PROVE AwaitsJavac(u)'
    <2>1. /\ Replaces(o) /\ jobs[o].phase = "index"
          /\ UNCHANGED <<sweepTodo, unserved, abandoned>>
      BY <1>6, ReadClassEffect
    <2> QED
      BY <1>3, <2>1
  <1>7. ASSUME WriteStub(o) PROVE AwaitsJavac(u)'
    <2>1. /\ Replaces(o) /\ jobs[o].held # NoRead
          /\ UNCHANGED <<sweepTodo, unserved, abandoned>>
      BY <1>7, WriteStubEffect
    <2>2. jobs[o].phase = "index"
      BY <2>1 DEF TasksAreTimely
    <2> QED
      BY <1>3, <2>1, <2>2
  <1>8. ASSUME EndIndex(o) PROVE AwaitsJavac(u)'
    <2>1. /\ Replaces(o) /\ jobs[o].phase = "index"
          /\ UNCHANGED <<sweepTodo, unserved, abandoned>>
      BY <1>8, EndIndexEffect
    <2> QED
      BY <1>3, <2>1
  <1>9. ASSUME Redirect(o) PROVE AwaitsJavac(u)'
    <2>1. /\ Replaces(o) /\ jobs[o].phase = "redirect" /\ UNCHANGED unserved
          /\ \/ UNCHANGED <<sweepTodo, abandoned>>
             \/ /\ \A i \in Task \ {o} : sweepTodo'[i] = sweepTodo[i]
                /\ abandoned' = abandoned \cup IF o \in Task THEN sweepTodo[o] ELSE {}
      BY <1>9, RedirectEffect
    <2>2. o \in Task => sweepTodo[o] # NotListed
      <3>1. jobs[o] # NoJob
        BY <2>1 DEF NoJob
      <3> QED
        BY <3>1 DEF TasksAreTimely
    <2> QED
      BY <1>3, <2>1, <2>2
  <1> QED
    BY <1>4, <1>5, <1>6, <1>7, <1>8, <1>9 DEF JobStep

\* No step leaves a saved file to nobody once there is a model.
LEMMA ServedStep ==
    ASSUME TypeInv, PipelineTypeOK, TasksAreTimely, SavesAreServed,
           [PipelineNext]_allVars
    PROVE  SavesAreServed'
  <1>1. /\ TypeOK /\ TypeOK' /\ unserved \subseteq Uri
        /\ NoJob.phase = "none" /\ {} # NotListed
    BY StepRefines, TypeStep DEF TypeInv, PipelineTypeOK, NoJob, NotListed
  <1>2. CASE HandlerStep
    <2>1. /\ Handler /\ UNCHANGED <<jobs, sweepTodo, abandoned, projectModel>>
          /\ \A e \in lombokTasks : e \in lombokTasks'
          /\ \A i \in Task : builds'[i] = builds[i] \/ scans[i].phase = "idle"
      BY <1>1, <1>2, HandlerEffect DEF HandlerStep
    <2>2. \A i \in Task : builds[i] = "sweeping" => builds'[i] = "sweeping"
      BY <2>1 DEF TasksAreTimely
    <2>3. ASSUME projectModel, NEW u \in unserved', u \notin abandoned
          PROVE  AwaitsJavac(u)'
      <3>1. CASE u \in unserved
        <4>1. AwaitsJavac(u)
          BY <2>3, <3>1 DEF SavesAreServed
        <4> QED
          BY <2>1, <2>2, <4>1, AwaitsKept
      <3>2. CASE u \notin unserved
        <4>1. \E e \in lombokTasks' : e.uri = u
          BY <1>1, <1>2, <3>2, HandlerStepEffect DEF TypeOK
        <4> QED
          BY <4>1 DEF AwaitsJavac
      <3> QED
        BY <3>1, <3>2
    <2> QED
      BY <2>1, <2>3 DEF SavesAreServed
  <1>3. CASE WorldStep
    <2>1. UNCHANGED <<lombokTasks, builds, projectModel, jobs, sweepTodo, abandoned>>
      BY <1>3 DEF WorldStep, World, WriteDisk, taskVars
    <2>2. unserved' \subseteq unserved
      BY <1>3 DEF WorldStep
    <2> QED
      BY <2>1, <2>2 DEF SavesAreServed, AwaitsJavac
  <1>4. CASE IndexStep
    <2>1. UNCHANGED <<lombokTasks, builds, projectModel, jobs, sweepTodo, unserved, abandoned>>
      BY <1>1, <1>4, IndexEffect DEF pipelineVars, history
    <2> QED
      BY <2>1 DEF SavesAreServed, AwaitsJavac
  <1>5. ASSUME NEW e \in Edit, StartLombokTask(e) PROVE SavesAreServed'
    <2>1. /\ lombokTasks' = lombokTasks \ {e} /\ e.text \in LombokText /\ e.uri \in Uri
          /\ jobs[Save] = NoJob
          /\ \/ projectModel /\ jobs' = [jobs EXCEPT ![Save] = NewJob(e.uri, e.text)]
             \/ ~projectModel
          /\ UNCHANGED <<projectModel, builds, sweepTodo, unserved, abandoned>>
      BY <1>5, StartLombokEffect
    <2>2. ASSUME projectModel, NEW u \in unserved, u \notin abandoned
          PROVE  AwaitsJavac(u)'
      <3>1. Save \in Owner
        BY DEF Owner
      <3>2. /\ Replaces(Save)
            /\ jobs'[Save].phase = "start" /\ jobs'[Save].uri = e.uri
        BY <2>1, <2>2, <3>1, StartEffect
      <3>3. CASE u = e.uri
        BY <3>1, <3>2, <3>3 DEF AwaitsJavac
      <3>4. CASE u # e.uri
        <4>1. AwaitsJavac(u)
          BY <2>2 DEF SavesAreServed
        <4> QED
          BY <1>1, <2>1, <3>2, <3>4, <4>1, AwaitsKept DEF Replaces
      <3> QED
        BY <3>3, <3>4
    <2> QED
      BY <2>1, <2>2 DEF SavesAreServed
  <1>6. ASSUME NEW i \in Task, PublishModel(i) PROVE SavesAreServed'
    <2>1. /\ builds[i] = "queued"
          /\ \/ projectModel' = TRUE /\ builds'[i] = "sweeping"
             \/ projectModel' = projectModel /\ builds'[i] = "done"
          /\ \A k \in Task \ {i} : builds'[k] = builds[k]
          /\ UNCHANGED <<lombokTasks, jobs, sweepTodo, unserved, abandoned>>
      BY <1>1, <1>6, ResolveEffect DEF PublishModel, pipelineVars, history
    <2>2. sweepTodo'[i] = NotListed
      BY <2>1 DEF TasksAreTimely
    <2>3. CASE builds'[i] = "sweeping"
      BY <2>2, <2>3 DEF SavesAreServed, AwaitsJavac
    <2>4. CASE projectModel' = projectModel
      <3>1. ASSUME projectModel, NEW u \in unserved, u \notin abandoned
            PROVE  AwaitsJavac(u)'
        <4>1. AwaitsJavac(u)
          BY <3>1 DEF SavesAreServed
        <4> QED
          BY <2>1, <4>1, AwaitsKept
      <3> QED
        BY <2>1, <2>4, <3>1 DEF SavesAreServed
    <2> QED
      BY <2>1, <2>3, <2>4
  <1>7. ASSUME NEW i \in Task, EndSweep(i) PROVE SavesAreServed'
    <2>1. /\ EndBuild(i) /\ sweepTodo[i] = {}
          /\ UNCHANGED <<jobs, sweepTodo, unserved, abandoned>>
      BY <1>7 DEF EndSweep, pipelineVars, history
    <2>2. /\ UNCHANGED <<lombokTasks, projectModel>>
          /\ \A k \in Task \ {i} : builds'[k] = builds[k]
      BY <1>1, <2>1, EndBuildEffect
    <2>3. ASSUME projectModel, NEW u \in unserved, u \notin abandoned
          PROVE  AwaitsJavac(u)'
      <3>1. AwaitsJavac(u)
        BY <2>3 DEF SavesAreServed
      <3> QED
        BY <1>1, <2>1, <2>2, <3>1 DEF AwaitsJavac
    <2> QED
      BY <2>1, <2>2, <2>3 DEF SavesAreServed
  <1>8. ASSUME NEW i \in Task, ListFiles(i) PROVE SavesAreServed'
    <2>1. /\ builds[i] = "sweeping"
          /\ sweepTodo'[i] = {u \in Uri : disk[u] # NoText}
          /\ UNCHANGED <<builds, unserved>>
      BY <1>8, ListFilesEffect DEF vars, mainVars, taskVars, history
    <2>2. \A u \in unserved : disk[u] # NoText
      BY ServerAssumption DEF TasksAreTimely
    <2> QED
      BY <1>1, <2>1, <2>2 DEF SavesAreServed, AwaitsJavac
  <1>9. ASSUME NEW i \in Task, NEW u \in Uri, SweepFile(i, u) PROVE SavesAreServed'
    <2>1. /\ jobs[i] = NoJob /\ u \in sweepTodo[i] /\ i \in Owner
          /\ sweepTodo'[i] = sweepTodo[i] \ {u}
          /\ \A k \in Task \ {i} : sweepTodo'[k] = sweepTodo[k]
          /\ \/ disk[u] \in LombokText /\ jobs' = [jobs EXCEPT ![i] = NewJob(u, disk[u])]
             \/ disk[u] \notin LombokText /\ UNCHANGED jobs
          /\ UNCHANGED <<vars, unserved, abandoned>>
      BY <1>1, <1>9, SweepFileEffect DEF Owner
    <2>2. UNCHANGED <<lombokTasks, projectModel, builds>>
      BY <2>1 DEF vars, mainVars, taskVars
    <2>3. /\ Replaces(i)
          /\ disk[u] \in LombokText => jobs'[i].phase = "start" /\ jobs'[i].uri = u
      BY <2>1, StartEffect DEF Replaces
    <2>4. ASSUME projectModel, NEW w \in unserved, w \notin abandoned
          PROVE  AwaitsJavac(w)'
      <3>1. CASE w = u
        <4>1. disk[u] \in LombokText
          BY <2>4, <3>1 DEF TasksAreTimely
        <4> QED
          BY <2>1, <2>3, <3>1, <4>1 DEF AwaitsJavac
      <3>2. CASE w # u
        <4>1. AwaitsJavac(w)
          BY <2>4 DEF SavesAreServed
        <4>2. \A k \in Task : (sweepTodo[k] = NotListed \/ w \in sweepTodo[k])
                  => (sweepTodo'[k] = NotListed \/ w \in sweepTodo'[k])
          <5>1. u \notin NotListed
            BY <1>9 DEF SweepFile
          <5> QED
            BY <2>1, <3>2, <5>1
        <4>3. \A o \in Owner : jobs[o].phase = "start" => jobs'[o] = jobs[o]
          BY <1>1, <2>1, <2>3 DEF Replaces
        <4> QED
          BY <2>2, <4>1, <4>2, <4>3, AwaitsKept
      <3> QED
        BY <3>1, <3>2
    <2> QED
      BY <2>1, <2>2, <2>4 DEF SavesAreServed
  <1>10. ASSUME NEW o \in Owner, JobStep(o) PROVE SavesAreServed'
    BY <1>1, <1>10, JobServes
  <1>11. CASE UNCHANGED allVars
    BY <1>11 DEF allVars, pipelineVars, history, vars, mainVars, taskVars,
                 SavesAreServed, AwaitsJavac
  <1> QED
    BY <1>2, <1>3, <1>4, <1>5, <1>6, <1>7, <1>8, <1>9, <1>10, <1>11 DEF PipelineNext

\* A class whose stub the compile of an owner is about to write.
StubOwed(o, u) ==
    \/ jobs[o].phase = "index" /\ u \in jobs[o].todo
    \/ jobs[o].held # NoRead /\ jobs[o].held.uri = u

\* While no compiles overlapped, the one compile there is owes every stub that
\* does not follow its class yet.
LEMMA OnlyCompile ==
    ASSUME StubsAreMade, ~overlapped, NEW o \in Owner, jobs[o] # NoJob
    PROVE  /\ \A p \in Owner \ {o} : jobs[p] = NoJob
           /\ jobs[o].held # NoRead => jobs[o].held.text = classes[jobs[o].held.uri]
           /\ \A u \in Uri \ unindexed : \/ classes[u] = NoText
                                         \/ stubIndex[u].class = classes[u]
                                         \/ StubOwed(o, u)
  <1>1. \A p \in Owner \ {o} : jobs[p] = NoJob
    BY DEF StubsAreMade
  <1>2. NoJob.phase # "index" /\ NoJob.held = NoRead
    BY DEF NoJob
  <1>3. ASSUME NEW u, AwaitsIndexing(u) PROVE StubOwed(o, u)
    BY <1>1, <1>2, <1>3 DEF AwaitsIndexing, StubOwed
  <1> QED
    BY <1>1, <1>3 DEF StubsAreMade

\* and the other way round, after a step of that compile.
LEMMA StaysOnlyCompile ==
    ASSUME NEW o \in Owner, Replaces(o), \A p \in Owner \ {o} : jobs[p] = NoJob,
           jobs'[o].held # NoRead => jobs'[o].held.text = classes'[jobs'[o].held.uri],
           \A u \in Uri \ unindexed' : \/ classes'[u] = NoText
                                       \/ stubIndex'[u].class = classes'[u]
                                       \/ StubOwed(o, u)'
    PROVE  StubsAreMade'
  <1>1. \A p \in Owner \ {o} : jobs'[p] = NoJob
    BY DEF Replaces
  <1>2. NoJob.held = NoRead
    BY DEF NoJob
  <1>3. ASSUME NEW u, StubOwed(o, u)' PROVE AwaitsIndexing(u)'
    BY <1>3 DEF AwaitsIndexing, StubOwed
  <1>4. \A p, q \in Owner : jobs'[p] # NoJob /\ jobs'[q] # NoJob => p = q
    BY <1>1
  <1>5. \A p \in Owner : jobs'[p].held # NoRead =>
            jobs'[p].held.text = classes'[jobs'[p].held.uri]
    BY <1>1, <1>2
  <1> QED
    BY <1>3, <1>4, <1>5 DEF StubsAreMade

\* A compile that starts overlaps another, or finds every stub made.
LEMMA StartKeepsStubs ==
    ASSUME PipelineTypeOK, StubsAreMade, NEW o \in Owner, NEW u \in Uri,
           NEW t \in LombokText, jobs' = [jobs EXCEPT ![o] = NewJob(u, t)],
           overlapped' = (overlapped \/ Compiling),
           UNCHANGED <<classes, stubIndex, unindexed>>
    PROVE  StubsAreMade'
  <1> SUFFICES ASSUME ~overlapped' PROVE StubsAreMade'
    BY DEF StubsAreMade
  <1>1. ~overlapped /\ \A p \in Owner : jobs[p] = NoJob
    BY DEF Compiling
  <1>2. NoJob.phase # "index" /\ NoJob.held = NoRead
    BY DEF NoJob
  <1>3. \A w \in Uri \ unindexed : classes[w] = NoText \/ stubIndex[w].class = classes[w]
    <2>1. \A w \in Uri \ unindexed : ~AwaitsIndexing(w)
      BY <1>1, <1>2 DEF AwaitsIndexing
    <2> QED
      BY <1>1, <2>1 DEF StubsAreMade
  <1>4. Replaces(o) /\ jobs'[o].held = NoRead
    BY StartEffect
  <1> QED
    BY <1>1, <1>3, <1>4, StaysOnlyCompile

\* A step of a compile makes a stub follow its class, or owes it.
LEMMA JobKeepsStubs ==
    ASSUME TypeOK, PipelineTypeOK, TasksAreTimely, StubsAreMade,
           NEW o \in Owner, JobStep(o)
    PROVE  StubsAreMade'
  <1>1. /\ JobKeeps(o) /\ UNCHANGED overlapped
        /\ jobs[o].held # NoRead => jobs[o].phase = "index"
    BY JobKeepsTime DEF TasksAreTimely, JobStep, JavacRead, JavacWrite, ReadClass,
                        WriteStub, EndIndex, Redirect, history
  <1> SUFFICES ASSUME ~overlapped PROVE StubsAreMade'
    BY <1>1 DEF StubsAreMade
  <1>2. /\ \A p \in Owner \ {o} : jobs[p] = NoJob
        /\ jobs[o].held # NoRead => jobs[o].held.text = classes[jobs[o].held.uri]
        /\ \A u \in Uri \ unindexed : \/ classes[u] = NoText
                                      \/ stubIndex[u].class = classes[u]
                                      \/ StubOwed(o, u)
    BY <1>1, OnlyCompile DEF JobKeeps
  <1>3. NoJob.held = NoRead
    BY DEF NoJob
  <1>4. jobs[o].phase # "index" =>
            \A u \in Uri \ unindexed : classes[u] = NoText \/ stubIndex[u].class = classes[u]
    BY <1>1, <1>2 DEF StubOwed
  <1>5. ASSUME JavacRead(o) PROVE StubsAreMade'
    <2>1. /\ Replaces(o) /\ jobs[o].phase = "start" /\ jobs'[o].held = jobs[o].held
          /\ UNCHANGED <<classes, stubIndex, unindexed>>
      BY <1>5, JavacReadEffect
    <2> QED
      BY <1>1, <1>2, <1>4, <2>1, StaysOnlyCompile
  <1>6. ASSUME JavacWrite(o) PROVE StubsAreMade'
    <2>1. /\ Replaces(o) /\ jobs[o].phase = "javac" /\ UNCHANGED stubIndex
          /\ \/ /\ jobs'[o].phase = "index" /\ jobs'[o].held = jobs[o].held
                /\ jobs'[o].todo = {w \in Uri : classes'[w] # NoText}
             \/ /\ jobs'[o] = NoJob
                /\ unindexed \subseteq unindexed'
                /\ \A w \in Uri \ unindexed' : classes'[w] = classes[w]
      BY <1>6, JavacWriteEffect
    <2>2. jobs'[o].held = NoRead
      BY <1>1, <1>3, <2>1
    <2>3. \A u \in Uri \ unindexed' : \/ classes'[u] = NoText
                                      \/ stubIndex'[u].class = classes'[u]
                                      \/ StubOwed(o, u)'
      BY <1>4, <2>1 DEF StubOwed
    <2> QED
      BY <1>2, <2>1, <2>2, <2>3, StaysOnlyCompile
  <1>7. ASSUME NEW u \in Uri, ReadClass(o, u) PROVE StubsAreMade'
    <2>1. /\ Replaces(o) /\ jobs'[o].phase = "index"
          /\ jobs[o].held = NoRead /\ jobs'[o].held # NoRead
          /\ jobs'[o].held.uri = u /\ jobs'[o].held.text = classes[u]
          /\ jobs'[o].todo = jobs[o].todo \ {u}
          /\ UNCHANGED <<classes, stubIndex, unindexed>>
      BY <1>7, ReadClassEffect
    <2>2. \A w \in Uri : StubOwed(o, w) => StubOwed(o, w)'
      BY <2>1 DEF StubOwed
    <2> QED
      BY <1>2, <2>1, <2>2, StaysOnlyCompile
  <1>8. ASSUME WriteStub(o) PROVE StubsAreMade'
    <2>1. /\ Replaces(o) /\ jobs[o].held # NoRead
          /\ jobs'[o].phase = jobs[o].phase /\ jobs'[o].held = NoRead
          /\ jobs'[o].todo = jobs[o].todo
          /\ stubIndex'[jobs[o].held.uri].class = jobs[o].held.text
          /\ \A w \in Uri \ {jobs[o].held.uri} : stubIndex'[w] = stubIndex[w]
          /\ UNCHANGED <<classes, unindexed>>
      BY <1>8, WriteStubEffect
    <2>2. \A w \in Uri \ {jobs[o].held.uri} : StubOwed(o, w) => StubOwed(o, w)'
      BY <2>1 DEF StubOwed
    <2> QED
      BY <1>2, <2>1, <2>2, StaysOnlyCompile
  <1>9. ASSUME EndIndex(o) PROVE StubsAreMade'
    <2>1. /\ Replaces(o) /\ jobs[o].held = NoRead /\ jobs[o].todo = {}
          /\ jobs'[o].held = NoRead
          /\ UNCHANGED <<classes, stubIndex, unindexed>>
      BY <1>9, EndIndexEffect
    <2>2. \A w \in Uri : ~StubOwed(o, w)
      BY <2>1 DEF StubOwed
    <2> QED
      BY <1>2, <2>1, <2>2, StaysOnlyCompile
  <1>10. ASSUME Redirect(o) PROVE StubsAreMade'
    <2>1. /\ Replaces(o) /\ jobs[o].phase = "redirect" /\ jobs'[o] = NoJob
          /\ \/ /\ stubIndex'[jobs[o].uri].class = classes[jobs[o].uri]
                /\ \A w \in Uri \ {jobs[o].uri} : stubIndex'[w] = stubIndex[w]
             \/ UNCHANGED stubIndex
          /\ UNCHANGED <<classes, unindexed>>
      BY <1>10, RedirectEffect
    <2>2. \A w \in Uri \ unindexed : classes[w] = NoText \/ stubIndex'[w].class = classes[w]
      BY <1>4, <2>1
    <2> QED
      BY <1>2, <1>3, <2>1, <2>2, StaysOnlyCompile
  <1> QED
    BY <1>5, <1>6, <1>7, <1>8, <1>9, <1>10 DEF JobStep

\* No step makes a stub fall behind its class unnoticed.
LEMMA StubsStep ==
    ASSUME TypeInv, PipelineTypeOK, TasksAreTimely, StubsAreMade, [PipelineNext]_allVars
    PROVE  StubsAreMade'
  <1>1. TypeOK
    BY DEF TypeInv
  <1>2. CASE UNCHANGED <<jobs, classes, stubIndex, unindexed, overlapped>>
    BY <1>2 DEF StubsAreMade, AwaitsIndexing
  <1>3. CASE HandlerStep \/ WorldStep
    BY <1>2, <1>3 DEF HandlerStep, WorldStep
  <1>4. CASE IndexStep
    BY <1>2, <1>4 DEF IndexStep, pipelineVars, history
  <1>5. ASSUME NEW e \in Edit, StartLombokTask(e) PROVE StubsAreMade'
    <2>1. /\ e.text \in LombokText /\ e.uri \in Uri /\ Save \in Owner
          /\ \/ /\ jobs' = [jobs EXCEPT ![Save] = NewJob(e.uri, e.text)]
                /\ overlapped' = (overlapped \/ Compiling)
             \/ UNCHANGED <<jobs, overlapped>>
          /\ UNCHANGED <<classes, stubIndex, unindexed>>
      BY <1>5, StartLombokEffect DEF Owner
    <2> QED
      BY <1>2, <2>1, StartKeepsStubs
  <1>6. ASSUME NEW i \in Task, PublishModel(i) \/ ListFiles(i) \/ EndSweep(i)
        PROVE  StubsAreMade'
    BY <1>2, <1>6 DEF PublishModel, ListFiles, EndSweep, pipelineVars, history
  <1>7. ASSUME NEW i \in Task, NEW u \in Uri, SweepFile(i, u) PROVE StubsAreMade'
    <2>1. /\ i \in Owner
          /\ \/ /\ disk[u] \in LombokText
                /\ jobs' = [jobs EXCEPT ![i] = NewJob(u, disk[u])]
                /\ overlapped' = (overlapped \/ Compiling)
             \/ UNCHANGED <<jobs, overlapped>>
          /\ UNCHANGED <<classes, stubIndex, unindexed>>
      BY <1>1, <1>7, SweepFileEffect DEF Owner
    <2> QED
      BY <1>2, <2>1, StartKeepsStubs
  <1>8. ASSUME NEW o \in Owner, JobStep(o) PROVE StubsAreMade'
    BY <1>1, <1>8, JobKeepsStubs
  <1>9. CASE UNCHANGED allVars
    BY <1>2, <1>9 DEF allVars, pipelineVars, history
  <1> QED
    BY <1>3, <1>4, <1>5, <1>6, <1>7, <1>8, <1>9 DEF PipelineNext

\* The invariant is one of the pipeline.
LEMMA PipelineInvariant == PipelineSpec => []PipelineInv
  <1>1. PipelineInv /\ [PipelineNext]_allVars => PipelineInv'
    <2> SUFFICES ASSUME PipelineInv, [PipelineNext]_allVars PROVE PipelineInv'
      OBVIOUS
    <2>1. TypeInv'
      BY StepRefines, TypeStep DEF PipelineInv
    <2> QED
      BY <2>1, PipelineTypeStep, TimelyStep, ServedStep, StubsStep DEF PipelineInv
  <1> QED
    BY <1>1, PipelineInvInit, PTL DEF PipelineSpec

(***************************************************************************)
(* What the runs check, for any instance.                                  *)
(***************************************************************************)

\* PipelineTypeCorrect: every variable of the pipeline keeps its type.
THEOREM PipelineTypeCorrect == PipelineSpec => []PipelineTypeOK
  BY PipelineInvariant, PTL DEF PipelineInv

\* SavesGetServed: when everything is quiet and there is a model, javac has run
\* on every saved file since its save, but for those a panic kept from a sweep.
THEOREM SavesGetServed == PipelineSpec => []NoSaveUnserved
  <1>1. PipelineInv => NoSaveUnserved
    <2> SUFFICES ASSUME PipelineInv, Quiescent, projectModel,
                        NEW u \in unserved, u \notin abandoned
                 PROVE  FALSE
      BY DEF NoSaveUnserved
    <2>1. AwaitsJavac(u)
      BY DEF PipelineInv, SavesAreServed
    <2>2. /\ lombokTasks = {}
          /\ \A o \in Owner : jobs[o].phase = "none"
          /\ \A i \in Task : builds[i] # "sweeping"
      BY DEF Quiescent, NoJob
    <2> QED
      BY <2>1, <2>2 DEF AwaitsJavac
  <1> QED
    BY <1>1, PipelineInvariant, PTL

\* StubsAreCurrent: while no two compiles were ever under way at once, a quiet
\* index shows every class as it was last compiled, but for what a failed run left.
THEOREM StubsAreCurrent == PipelineSpec => []StubsFollowClasses
  <1>1. PipelineInv => StubsFollowClasses
    <2> SUFFICES ASSUME PipelineInv, Quiescent, ~overlapped,
                        NEW u \in Uri \ unindexed, classes[u] # NoText
                 PROVE  stubIndex[u].class = classes[u]
      BY DEF StubsFollowClasses
    <2>1. \A o \in Owner : jobs[o].phase = "none" /\ jobs[o].held = NoRead
      BY DEF Quiescent, NoJob
    <2>2. ~AwaitsIndexing(u)
      BY <2>1 DEF AwaitsIndexing
    <2> QED
      BY <2>2 DEF PipelineInv, StubsAreMade
  <1> QED
    BY <1>1, PipelineInvariant, PTL
=============================================================================
