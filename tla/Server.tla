------------------------------ MODULE Server ------------------------------
(***************************************************************************)
(* The language server of src/server.rs: the handlers the main thread runs *)
(* one at a time, the background tasks they spawn on the blocking pool,    *)
(* and the index both sides share behind a mutex.                          *)
(*                                                                         *)
(* A text stands for a document's content and for the symbols extracted    *)
(* from it, so `index[u].symbols' is the text the entry of u was made of.  *)
(* The index kept here is its part for the workspace's own files; the      *)
(* bodies of the build-resolution and Lombok tasks write no such entry     *)
(* (their files live under the cache root) and are refined by the module   *)
(* LombokPipeline.                                                         *)
(***************************************************************************)
EXTENDS Handshake, Integers, FiniteSets

CONSTANTS
    Uri,            \* the Java files of the workspace
    Text,           \* document contents
    NoText,         \* no document, no readable file, no entry
    LombokText,     \* the contents lombok::uses_lombok accepts
    Panicking,      \* the contents symbol extraction panics on
    Root,           \* what an initialize request may name: the sets of files below it
    NoRoot,         \* no root, or one that is no file: URI
    Version,        \* the document versions a client may send
    MaxGeneration,  \* bound on the didOpen notifications of a behaviour
    MaxInitialized  \* bound on its initialized notifications

ASSUME ServerAssumption ==
    /\ NoText \notin Text
    /\ LombokText \subseteq Text
    /\ Panicking \subseteq Text
    /\ Root \subseteq SUBSET Uri
    /\ NoRoot \notin Root
    /\ Version \subseteq Int
    /\ MaxGeneration \in Nat
    /\ MaxInitialized \in Nat

VARIABLES
    workspaceRoot, documents, nextGeneration, documentGenerations,
    lombokSourceHashes,
    index, projectModel,
    reindexTasks, lombokTasks, scans, builds,
    disk,           \* the file system, written by the world outside
    clientVersion,  \* the version the client last sent for each document
    edits           \* history: every edit handed to spawn_reindex

mainVars == <<state, workspaceRoot, documents, nextGeneration,
              documentGenerations, lombokSourceHashes, clientVersion>>
taskVars == <<reindexTasks, lombokTasks, scans, builds>>
vars == <<mainVars, taskVars, index, projectModel, disk, edits>>

SCANNED_FROM_DISK == 0

Task == 1..MaxInitialized
Edit == [uri : Uri, generation : 1..MaxGeneration, version : Version, text : Text]
NoRead == [uri |-> NoText, text |-> NoText]
Read == [uri : Uri, text : Text]
NoEntry == [generation |-> -1, version |-> 0, symbols |-> NoText]
Entry == [generation : 0..MaxGeneration, version : Version \cup {0}, symbols : Text]
ScanPhase == {"idle", "queued", "walking", "done", "panicked"}
BuildPhase == {"idle", "queued", "sweeping", "done"}

TypeOK ==
    /\ state \in State
    /\ workspaceRoot \in Root \cup {NoRoot}
    /\ documents \in [Uri -> Text \cup {NoText}]
    /\ nextGeneration \in 0..MaxGeneration
    /\ documentGenerations \in [Uri -> 0..MaxGeneration]
    /\ lombokSourceHashes \in [Uri -> LombokText \cup {NoText}]
    /\ index \in [Uri -> Entry \cup {NoEntry}]
    /\ projectModel \in BOOLEAN
    /\ reindexTasks \in SUBSET Edit
    /\ lombokTasks \in SUBSET Edit
    /\ scans \in [Task -> [phase : ScanPhase, todo : SUBSET Uri, held : Read \cup {NoRead}]]
    /\ builds \in [Task -> BuildPhase]
    /\ disk \in [Uri -> Text \cup {NoText}]
    /\ clientVersion \in [Uri -> Version \cup {0}]
    /\ edits \in SUBSET Edit

Init ==
    /\ HandshakeInit
    /\ workspaceRoot = NoRoot
    /\ documents = [u \in Uri |-> NoText]
    /\ nextGeneration = 0
    /\ documentGenerations = [u \in Uri |-> 0]
    /\ lombokSourceHashes = [u \in Uri |-> NoText]
    /\ index = [u \in Uri |-> NoEntry]
    /\ projectModel = FALSE
    /\ reindexTasks = {}
    /\ lombokTasks = {}
    /\ scans = [i \in Task |-> [phase |-> "idle", todo |-> {}, held |-> NoRead]]
    /\ builds = [i \in Task |-> "idle"]
    /\ disk \in [Uri -> Text \cup {NoText}]
    /\ clientVersion = [u \in Uri |-> 0]
    /\ edits = {}

---------------------------------------------------------------------------
(* The shared index.                                                       *)

\* Mutant: documents compared by version alone, as before generations.
PrecedesByVersion(a, b) == a.version < b.version

\* The order of the keys (generation, version): generation first.
Precedes(a, b) ==
    \/ a.generation < b.generation
    \/ a.generation = b.generation /\ a.version < b.version

\* Mutant: no key is compared.
UpdateFileUnguarded(u, entry) == index' = [index EXCEPT ![u] = entry]

\* Mutant: the first edit of a session to arrive is the last one shown.
UpdateFileOncePerSession(u, entry) ==
    index' = IF entry.generation <= index[u].generation THEN index
             ELSE [index EXCEPT ![u] = entry]

\* WorkspaceIndex::update_file: an entry older than the applied one is
\* refused, an equally old one replaces it.
UpdateFile(u, entry) ==
    index' = IF Precedes(entry, index[u]) THEN index
             ELSE [index EXCEPT ![u] = entry]

EntryOf(e) == [generation |-> e.generation, version |-> e.version, symbols |-> e.text]

ScannedEntry(t) == [generation |-> SCANNED_FROM_DISK, version |-> 0, symbols |-> t]

---------------------------------------------------------------------------
(* What the handlers of the main thread do.                                *)

\* spawn_reindex, for a document that is open.
SpawnReindex(e) ==
    /\ reindexTasks' = reindexTasks \cup {e}
    /\ edits' = edits \cup {e}

\* Mutant: uses_lombok is not asked.
TriggerAnyCompile(e) ==
    IF lombokSourceHashes[e.uri] # e.text
    THEN /\ lombokSourceHashes' = [lombokSourceHashes EXCEPT ![e.uri] = e.text]
         /\ lombokTasks' = lombokTasks \cup {e}
    ELSE UNCHANGED <<lombokSourceHashes, lombokTasks>>

\* trigger_lombok_compile for the open document that e is the latest edit of:
\* nothing when it uses no Lombok or has the content of the last trigger.
\* The edit's generation and version only tell two tasks apart.
TriggerLombokCompile(e) ==
    IF e.text \in LombokText /\ lombokSourceHashes[e.uri] # e.text
    THEN /\ lombokSourceHashes' = [lombokSourceHashes EXCEPT ![e.uri] = e.text]
         /\ lombokTasks' = lombokTasks \cup {e}
    ELSE UNCHANGED <<lombokSourceHashes, lombokTasks>>

LatestEdit(u) ==
    [uri |-> u, generation |-> documentGenerations[u],
     version |-> clientVersion[u], text |-> documents[u]]

\* The request stores the root it names even when the handshake rejects it.
Initialize(r) ==
    /\ workspaceRoot' = r
    /\ HandleRequest("initialize")
    /\ UNCHANGED <<documents, nextGeneration, documentGenerations,
                   lombokSourceHashes, clientVersion, taskVars, index,
                   projectModel, disk, edits>>

Shutdown ==
    /\ HandleRequest("shutdown")
    /\ UNCHANGED <<workspaceRoot, documents, nextGeneration,
                   documentGenerations, lombokSourceHashes, clientVersion,
                   taskVars, index, projectModel, disk, edits>>

\* Every `initialized' spawns a scan and a build resolution of their own.
Initialized(i) ==
    /\ IsInitialized
    /\ workspaceRoot # NoRoot
    /\ scans[i].phase = "idle"
    /\ scans' = [scans EXCEPT ![i] = [phase |-> "queued", todo |-> workspaceRoot,
                                      held |-> NoRead]]
    /\ builds' = [builds EXCEPT ![i] = "queued"]
    /\ UNCHANGED <<mainVars, reindexTasks, lombokTasks, index, projectModel,
                   disk, edits>>

DidOpen(u, v, t) ==
    /\ IsInitialized
    /\ nextGeneration < MaxGeneration
    /\ nextGeneration' = nextGeneration + 1
    /\ documentGenerations' = [documentGenerations EXCEPT ![u] = nextGeneration']
    /\ documents' = [documents EXCEPT ![u] = t]
    /\ clientVersion' = [clientVersion EXCEPT ![u] = v]
    /\ LET e == [uri |-> u, generation |-> nextGeneration + 1, version |-> v, text |-> t]
       IN  SpawnReindex(e) /\ TriggerLombokCompile(e)
    /\ UNCHANGED <<state, workspaceRoot, scans, builds, index, projectModel, disk>>

\* A change of a document that is not open changes nothing. The client raises
\* the version with every change; the text is whatever its edits produce.
DidChange(u, v, t) ==
    /\ IsInitialized
    /\ documents[u] # NoText
    /\ v > clientVersion[u]
    /\ documents' = [documents EXCEPT ![u] = t]
    /\ clientVersion' = [clientVersion EXCEPT ![u] = v]
    /\ SpawnReindex([uri |-> u, generation |-> documentGenerations[u],
                     version |-> v, text |-> t])
    /\ UNCHANGED <<state, workspaceRoot, nextGeneration, documentGenerations,
                   lombokSourceHashes, lombokTasks, scans, builds, index,
                   projectModel, disk>>

\* Only the document is forgotten: its generation, its Lombok hash, the tasks
\* in flight and the index all keep what they have.
DidClose(u) ==
    /\ IsInitialized
    /\ documents' = [documents EXCEPT ![u] = NoText]
    /\ UNCHANGED <<state, workspaceRoot, nextGeneration, documentGenerations,
                   lombokSourceHashes, clientVersion, taskVars, index,
                   projectModel, disk, edits>>

DidSave(u) ==
    /\ IsInitialized
    /\ documents[u] # NoText
    /\ TriggerLombokCompile(LatestEdit(u))
    /\ UNCHANGED <<state, workspaceRoot, documents, nextGeneration,
                   documentGenerations, clientVersion, reindexTasks, scans,
                   builds, index, projectModel, disk, edits>>

---------------------------------------------------------------------------
(* The background tasks. Extraction runs outside the lock, the update      *)
(* inside it; a panic is caught at the edge of the task.                   *)

RunReindex(e) ==
    /\ e \in reindexTasks
    /\ reindexTasks' = reindexTasks \ {e}
    /\ IF e.text \in Panicking THEN UNCHANGED index ELSE UpdateFile(e.uri, EntryOf(e))
    /\ UNCHANGED <<mainVars, lombokTasks, scans, builds, projectModel, disk, edits>>

\* find_java_files lists the files that exist when the scan starts to run.
StartScan(i) ==
    /\ scans[i].phase = "queued"
    /\ scans' = [scans EXCEPT ![i] =
           [phase |-> "walking", todo |-> {u \in @.todo : disk[u] # NoText},
            held |-> @.held]]
    /\ UNCHANGED <<mainVars, reindexTasks, lombokTasks, builds, index,
                   projectModel, disk, edits>>

\* A file gone or unreadable by now is skipped; a panic ends the whole scan.
ScanRead(i, u) ==
    /\ scans[i].phase = "walking"
    /\ scans[i].held = NoRead
    /\ u \in scans[i].todo
    /\ scans' = [scans EXCEPT ![i] =
           [phase |-> IF disk[u] \in Panicking THEN "panicked" ELSE "walking",
            todo  |-> @.todo \ {u},
            held  |-> IF disk[u] \in Panicking \cup {NoText} THEN NoRead
                      ELSE [uri |-> u, text |-> disk[u]]]]
    /\ UNCHANGED <<mainVars, reindexTasks, lombokTasks, builds, index,
                   projectModel, disk, edits>>

ScanApply(i) ==
    /\ scans[i].phase = "walking"
    /\ scans[i].held # NoRead
    /\ UpdateFile(scans[i].held.uri, ScannedEntry(scans[i].held.text))
    /\ scans' = [scans EXCEPT ![i].held = NoRead]
    /\ UNCHANGED <<mainVars, reindexTasks, lombokTasks, builds, projectModel,
                   disk, edits>>

\* Mutant: the scan gives up with files left.
ScanEndEarly(i) ==
    /\ scans[i].phase = "walking"
    /\ scans[i].held = NoRead
    /\ scans' = [scans EXCEPT ![i].phase = "done"]
    /\ UNCHANGED <<mainVars, reindexTasks, lombokTasks, builds, index,
                   projectModel, disk, edits>>

ScanEnd(i) ==
    /\ scans[i].phase = "walking"
    /\ scans[i].held = NoRead
    /\ scans[i].todo = {}
    /\ scans' = [scans EXCEPT ![i].phase = "done"]
    /\ UNCHANGED <<mainVars, reindexTasks, lombokTasks, builds, index,
                   projectModel, disk, edits>>

\* The build tool answers with a model, published before anything is made of
\* it, or fails, and then nothing is.
ResolveModel(i) ==
    /\ builds[i] = "queued"
    /\ \/ /\ projectModel' = TRUE
          /\ builds' = [builds EXCEPT ![i] = "sweeping"]
       \/ /\ builds' = [builds EXCEPT ![i] = "done"]
          /\ UNCHANGED projectModel
    /\ UNCHANGED <<mainVars, reindexTasks, lombokTasks, scans, index, disk, edits>>

\* External symbols and the Lombok sweep: no entry of a workspace file.
EndBuild(i) ==
    /\ builds[i] = "sweeping"
    /\ builds' = [builds EXCEPT ![i] = "done"]
    /\ UNCHANGED <<mainVars, reindexTasks, lombokTasks, scans, index,
                   projectModel, disk, edits>>

EndLombokTask(e) ==
    /\ e \in lombokTasks
    /\ lombokTasks' = lombokTasks \ {e}
    /\ UNCHANGED <<mainVars, reindexTasks, scans, builds, index, projectModel,
                   disk, edits>>

---------------------------------------------------------------------------
\* The editor that saves, or any other program that rewrites or removes a file.
WriteDisk(u, t) ==
    /\ disk' = [disk EXCEPT ![u] = t]
    /\ UNCHANGED <<mainVars, taskVars, index, projectModel, edits>>

Handler ==
    \/ \E r \in Root \cup {NoRoot} : Initialize(r)
    \/ Shutdown
    \/ \E i \in Task : Initialized(i)
    \/ \E u \in Uri, v \in Version, t \in Text : DidOpen(u, v, t) \/ DidChange(u, v, t)
    \/ \E u \in Uri : DidClose(u) \/ DidSave(u)

ScanStep(i) ==
    \/ StartScan(i)
    \/ \E u \in Uri : ScanRead(i, u)
    \/ ScanApply(i)
    \/ ScanEnd(i)

Background ==
    \/ \E e \in Edit : RunReindex(e) \/ EndLombokTask(e)
    \/ \E i \in Task : ScanStep(i) \/ ResolveModel(i) \/ EndBuild(i)

World == \E u \in Uri, t \in Text \cup {NoText} : WriteDisk(u, t)

Next == Handler \/ Background \/ World

Spec == Init /\ [][Next]_vars

\* A spawned task is run by a thread of the blocking pool, and each of its
\* steps ends: it takes the index lock only to update or to read the index.
Fairness ==
    /\ \A e \in Edit : WF_vars(RunReindex(e))
    /\ \A i \in Task : WF_vars(ScanStep(i))

FairSpec == Spec /\ Fairness

---------------------------------------------------------------------------
(* Properties.                                                             *)

Pending(u) == {e \in reindexTasks : e.uri = u}

\* Once no reindex of an open document is in flight, the index shows exactly
\* the document's content, however the tasks of its sessions (those of before
\* a close and reopen too) and of the workspace scan were ordered: nobody else
\* will ever correct the entry. (spawn_reindex, update_file)
NewestEditShown ==
    \A u \in Uri :
        documents[u] \notin Panicking \cup {NoText} /\ Pending(u) = {}
        => index[u].symbols = documents[u]

\* The index keeps what the module EditPromise states of it; the fair
\* specification keeps its promise of progress too. (the comment of Applied)
EP == INSTANCE EditPromise WITH shown <- index
RefinesEditPromise == EP!PromiseSafety
KeepsEditPromise == EP!Promise

\* Content that stays on disk from the start of a scan on ends up in the
\* index, for good, unless the user ever opened the file: neither an edit of
\* another file nor the order the scan reads files in may lose it.
\* (index_workspace)
ScanReachesFile ==
    \A u \in Uri, t \in Text \ Panicking :
        [](/\ \E i \in Task : scans[i].phase = "queued" /\ u \in scans[i].todo
           /\ [](disk[u] = t /\ \A w \in Uri : disk[w] \notin Panicking)
           => <>[](index[u].symbols = t \/ documentGenerations[u] # 0))
===========================================================================
