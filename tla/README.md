# A TLA+ development of java_lsp

java_lsp is a language server for Java. One thread reads JSON-RPC messages from
stdin, handles them one at a time and writes the answers; whatever takes long
(extracting symbols, scanning the workspace, asking the build tool for a project
model, compiling Lombok files with javac, reading jars and the JDK) runs on the
blocking pool of tokio and meets the main thread, and the other tasks, in two
mutexes and in the file system. Most of what can go wrong here goes wrong
because those tasks finish in an order nobody wrote down: that is what the first
part of this development is about. The second part follows a name on its way
into the index: from a file being typed, from a class file, over a cache that
outlives the process. Paths below are relative to the repository's root.

## The system

| Component | State | Operations |
|---|---|---|
| Server (`src/server.rs`, `src/documents.rs`) | workspace root, open documents, generation counter and generation per document, Lombok content hash per document, the shared index, the shared project model | didOpen, didChange, didClose, didSave, initialized, initialize, shutdown, queries; spawns the tasks |
| Handshake (`src/handshake.rs`) | lifecycle state | initialize, shutdown, exit, the refusal of everything out of session |
| Main loop (`src/main.rs`, `src/jsonrpc.rs`, `src/transport.rs`) | the runtime, the stream | read, parse, dispatch, write, exit code, drop of the runtime |
| Workspace index (`src/workspace_index.rs`) | symbols by name and by file, last applied key per file | update_file, lookup, completions, completions_by_owner |
| Symbol ranking and queries (`src/symbol.rs`, `src/hover.rs`, `src/goto_definition.rs`, `src/completion.rs`) | none | extract, rank, narrow to a receiver |
| Workspace scan (`src/workspace_scan.rs`) | none of its own | list, read, extract, apply |
| Documents' text (`src/syntax.rs`, `src/text_position.rs`) | text and tree of a document | edit, positions, identifier queries |
| Lombok pipeline (`src/server.rs`, `src/javac_compile.rs`, `src/external_index.rs`, `src/lombok.rs`) | output directories, stub files, index entries of stubs | trigger, compile, index the output, correct the stub, sweep |
| Stub cache (`src/external_index.rs`, `src/class_stub.rs`) | stub files under the cache root | reuse or write a stub, index it |
| JDK (`src/jdk_home.rs`) | what was extracted of java.base, under the cache root | locate, choose a jar or an extraction, extract |
| Class files, jars (`src/classfile.rs`, `src/jar.rs`) | none | read |
| Member references (`src/member_reference.rs`) | none | resolve a receiver's declared type |
| Project model (`src/project_model.rs`, `src/build_tool.rs`, `src/gradle.rs`, `src/maven.rs`, `src/javac_fallback.rs`) | none of its own | detect the build tool, find the modules, find a file's module |

**How they interact.** The main loop calls the server for every message. didOpen
and didChange update the document and spawn a *reindex*, with the text captured;
didOpen and didSave also *trigger* a Lombok compile when the content uses Lombok
and its hash is not that of the last trigger. `initialized` spawns a *scan* of
the workspace and a *build resolution*, which publishes a project model, indexes
jars and the JDK and *sweeps* all Lombok files. Reindexes and scans extract
outside the index's mutex and apply inside it; `update_file` refuses an entry
whose key (generation, version) is older than the one applied. A Lombok task
holds the mutex of the project model for its whole compile; the sweep does not.
Queries take the index's mutex on the main thread. Stubs and extracted classes
stay on disk: the next process finds them, whatever state this one left them in.

**What is hard.** Tasks that finish out of order, with sessions of one document
that restart its versions; a scan that applies what it read earlier; saves that
run before there is a model, and a sweep beside saves; what is recorded before
it is done (the Lombok hash); panics that end a task half-way or under a mutex;
programs that may never come back, while queries must be answered; a process
that must not end under a task that writes; and the two counts of one text,
bytes here and UTF-16 units in the editor. A process that stops between two
steps of filling its cache, and another release of what was cached. Binary
formats whose counts must stay in step. Trees in every unfinished shape that
typing goes through. Build descriptions that run in circles. `PROJECT.json` lists each hazard at
its line with the properties that cover it.

**What makes each part correct.**

- Server and scan: the index of an open document ends up, and stays, at its
  newest edit; it never goes back; no file on disk is missed.
- Handshake and main loop: every message that calls for an answer gets one, in
  order; nothing is served out of session; the exit code is honest; the process
  ends, but not under a task.
- Index and queries: buckets hold what the files hold, and no answer depends on
  the order files were indexed in.
- Text: server and editor hold the same text; positions mean the same place.
- Lombok pipeline: no save goes unserved; a quiet index shows the last compile.
- Tasks and mutexes: nobody waits for ever, and queries wait for no program.
- Symbols and member references: what a receiver's type is called agrees with
  what its members' owner is called, and the innermost declaration wins.
- Class files and stubs: a class is read as what was compiled or refused, its
  stub says what others can use of it and nothing else, and a compiled Lombok
  class lists each member once, at the right place.
- Stub cache and JDK: what is indexed is what is installed.
- Project model: the modules are those the build describes; indexing ends.

## The modules

```
EditPromise   <--implements--  Server  <--implements--  LombokPipeline
                                 |
                 Handshake <--extends-- MainLoop

ClassFile   JavaSource                 ProjectModel   Uris
      \     /                                   \     /
     ClassStub -- Javac (external)            StubCache
                    |
                 Symbols

WorkspaceIndex    TaskPool    SourceText        (on their own)

MC* modules give the instances for TLC; the theorems and their proofs:

Server_proofs (and LombokPipeline)   TaskPool_proofs   MainLoop_proofs
FoldLemmas    <--extends-- WorkspaceIndex_proofs, StubCache_proofs, SourceText_proofs,
                           Symbols_proofs
```

**Handshake** is `src/handshake.rs`: the state, the answer to each request, the
exit code. Server and MainLoop extend it.

**EditPromise** is what the index promises about files, whatever tasks update
it: a file shows nothing, then disk content, then edits, each newer than the one
before, and in the end the newest edit unless extraction panics on it. "Newer" is
the order of `Applied` (`src/workspace_index.rs`).

**Server** is the heart: one action per handler (`DidOpen`, `DidChange`,
`DidClose`, `DidSave`, `Initialized`, `Initialize`, `Shutdown`) and per step of a
task (`RunReindex`; `StartScan`, `ScanRead`, `ScanApply`, `ScanEnd`;
`ResolveModel`, `EndBuild`; `EndLombokTask`), with `WriteDisk` for the world.
Its variables are the fields of `Server` by name; tasks in flight are sets of
what their closures captured. A text stands for a document's content and for the
symbols extracted from it. A handler is atomic: the main thread runs one at a
time and shares only the index and the model with the tasks. A task's steps are
split where it leaves or takes a lock or touches the disk. The client is one
that raises a document's version with every change and starts it anew when it
opens the document, as the protocol has it. `disk` and `clientVersion` belong to
the world and the client; `edits` is a history variable no action reads.

**LombokPipeline** extends Server with what its Lombok and build tasks do
inside: `JavacRead` and `JavacWrite` (javac reads the file on disk, not the text
captured, may fail, and may leave classes of some files when it does),
`ReadClass` and `WriteStub` for each class of the output directory, `Redirect`
for the correction of the compiled file's stub, and the tasks around them
(`StartLombokTask`, `PublishModel`, `ListFiles`, `SweepFile`, `EndSweep`). The
slot 0 is the compile under the model's mutex; each sweep has one of its own. A
stub's entry is the text its class came from and the text its overrides were
computed from. `RefinesServer` states that all of it does to the rest of the
server what Server says.

**WorkspaceIndex** is the three maps of the index with their instances, buckets
and order, and the queries on them. It is checked apart from Server, which needs
of `update_file` only its order of keys.

**TaskPool** is who waits for whom: each kind of task is the sequence of the
locks it takes and the programs it runs; the pool has a bound, mutexes are
poisoned by panics, and the main thread asks for the index.

**MainLoop** is `run_server`: every kind of message `jsonrpc` tells apart,
failing reads and writes, and the runtime's drop, which forgets queued tasks and
waits for running ones.

**SourceText** is the text of a document and the positions in it. Characters
stand for their widths: one, two or four bytes, one or two UTF-16 units. The
client's text is kept beside the server's, in UTF-16, and changed by the client's
own arithmetic, so that the two can be compared.

**JavaSource** is what the server reads off a syntax tree: `ExtractSymbols`, the
receiver's type (`ReceiverType`, `ResolveIdentifierType`, `DeclaredInScope`) and
`UsesLombok`. A tree is the sequence of its nodes as a walk meets them; nodes
that only group others are left out, so a body is its class and a list of
parameters its method. A text is the sequence of its code points.

**ClassFile** is the parser of class files over the file's bytes, one step per
item (header, constant, names, interface, member, attributes), with every `?` of
the code as one action, `Refuse`.

**ClassStub** is the way from a class to symbols: `RenderStub`, the decoding of
descriptors, `StubSymbolOverrides` and their application. The rendered file is
given by its tree, since that is what is read of it.

**Javac** is external: what javac and Lombok make of a tree, and the class file
format as the JVM's specification has it. It is written from that specification,
apart from ClassFile, so that the two can disagree.

**Symbols** puts these together: a file is typed node by node, through every
unfinished shape, one of its types is compiled, possibly by a compiler that is
stopped before it wrote all, and the class file is read. Types include those that
no other file can name, the classes within methods and the ones without a name: they
have class files as well, from which no stub is to be shown.

**ProjectModel** is how modules are found: `CollectModule` through the poms, or
`Overflow` if its calls go deeper than the stack holds (`MaxDepth`); `RunMaven`,
`ReadModule`; `RunGradle`, which may print the lines of its modules' tasks in any turns, and `ParseLine`; the fallback; and `ModuleForFile`. A path
is the sequence of its names, and `MaxPath` the longest the system opens. The module a
pom names is a list of names from the pom's directory or, if absolute, from the
root; blank, it is no name, and `Join` leads back to the same path.

**Uris** is the conversion between paths and URIs, over bytes.

**StubCache** is the task that indexes the JDK and the class path, over several
starts of the server: the model is resolved (ProjectModel), a JDK is located
among those that `JAVA_HOME` and `PATH` name, its java.base is read from a jar or
extracted class by class, each class's stub is reused or created and written,
and shown. `Restart` stops the server anywhere and may install another JDK or
other jars. `stubs` and `base` are the disk; `found`, what a session found there,
and `failed` are history variables.

## What is checked

Every property has a mutant, a plausible bug in a modelled definition (marked
`Mutant` in the modules) under which TLC finds it violated. The liveness
properties are checked under the fairness stated with them.

| Run | Instance | Shows |
|---|---|---|
| `sessions` | 1 file, 2 texts, 2 versions, 2 opens, 1 `initialized` | `NewestEditShown`: with no reindex of an open document in flight the index shows its content. `RefinesEditPromise`: the index never goes back. `KeepsEditPromise`: the newest edit does end up in the index |
| `scan` | 2 files, 2 texts, one panicking and using Lombok, 1 open | `ScanReachesFile`: content that stays on disk from the start of a scan ends up in the index, for good, unless the file is opened |
| `index` | 2 files, 5 symbols, lists of up to 2, 4 keys | `BucketsMatchFiles`, `CompletionsAreBest`, `MembersAreComplete`, `HoverIsOrderFree` |
| `lombok_saves` | 1 file, 2 Lombok texts, one panicking, 2 versions | `NoSaveUnserved`: the sweep makes good what was saved before there was a model. `StubsFollowClasses`, `RefinesServer` |
| `main_loop` | 5 messages, 2 threads | `AnsweredInOrder`, `CleanExitWasShutdown`, `ServedInSessionOnly`, `LoopLeftProcessEnds` |
| `pool` | reindex, scan, build and Lombok task, 3 threads, 2 queries, programs that may hang, panics anywhere | `IndexIsHeldBriefly`, `QueriesAreAnswered`, `ReindexesRun`, and `TasksEnd` if the programs end |
| `text` | texts up to 3 characters, insertions up to 2, one change | `InSync`, `EditPointsFit`, `PositionsMatchClient`, `ReceiverPrecedesPrefix` |
| `symbols` | trees of up to 5 nodes; 6 ways to compile those of up to 3, one for the others, one class without a name in each class | `ParsedIsCompiled`, `StubShowsClass`, `MembersAreListedOnce` of what is compiled; `ReceiverIsInnermost`, `OwnersMeetReceivers` of every tree |
| `stubs` | 2 starts, 7 projects, 4 installations, 4 classes, 2 jars | `CacheIsFaithful`: the index shows what is installed. `ModelIsProject`. `IndexingEnds`, unless modules come back to a path they came from. `UrisLeadBack` |
| `lombok_hash` | as `lombok_saves`, none panicking | a violation: `SkipIsRedundant` |
| `lombok_duplicates` | 2 files that refer to each other, 1 text | a violation: `NoDuplicateEntries` |
| `lombok_reflected` | 2 files, 2 texts | a violation: `EditsAreReflected` |

**Why the bounds are enough.** For Server, LombokPipeline, TaskPool, MainLoop,
WorkspaceIndex, StubCache, SourceText and Symbols most safety properties are theorems below,
for every value of the constants; the runs confirm them and hold what is not proved.
One file is enough for sessions because `update_file` is per file and no handler
compares files; two opens and two versions give all four orders of keys, a scan
at (0, 0) the rest. The scan needs a second file, to be lost while another is
read, and a text that panics, to end it early. For the index two files and lists
of two give repeated symbols, symbols of one file's list that name another file
(redirected accessors), two kinds of one name, and a name that is a prefix of
another. In the pipeline a save, a sweep and a second save are the most that
share one file's class and stub, with one `initialized`. In SourceText every text
up to the bound is an initial state, and by `InSync` the state after a change is
again one of them, so one change from each stands for sequences of any length;
three characters hold a line end, a wide character and a neighbour. In MainLoop
five messages take the handshake through its life with one message to spare.

Five nodes hold a type, a method, a block, a declaration and a reference, or a
type, another in it, a method, a block and a reference: any two scopes around a
reference. One name for all variables makes every declaration a rival of every
other. Names are of characters of one byte and of six; the six unusual builds
hold every tag of a constant, a long before, between and after others, every
width of a character and both ends of each, a lone surrogate, and files short by
a byte or by many. They are tried on trees of up to three nodes, since what a
constant pool does to the names does not depend on how many there are. A
reference ends a tree: what comes behind it is no scope of it, and order within a
block is not looked at.

Two starts are one that leaves something behind and one that finds it; more would
find the same. The installations give a JDK with a runtime image on the `PATH`,
one of before Java 9 that `JAVA_HOME` prefers to it, a `java` that belongs to no
JDK, and no `java` at all; two releases of one jar, one jar that cannot be read
and one class that cannot. Two classes share a simple name and two jars a class;
one class is the JDK's own and one has no name; one jar holds a class twice, for
two releases of Java. The projects give a tree of poms
with one missing, named by ways round and from the root; a circle by longer and
longer paths, one of a module that names itself by a blank name, and one of two by an
absolute path; source directories within source directories, and no build tool
with and without the standard source directories. `MaxPath` of five goes round
the first circle twice, and `MaxDepth` of six is one more, so that only the other two
overflow the stack. A write that was
cut short counts as an empty stub: both are what `found` notes as not current.
URIs: every path of up to three of seven characters that matter (a slash, a backslash,
a percent sign, a colon, a digit, a letter, one of two bytes) and one that begins like
an escape, each in every spelling a client may use.

MCLombokPipeline's constraints bound what its properties do not look at:
`IndexingElsewhere` keeps reindexes and the workspace scan from multiplying the
states (their entries are not those of stubs), and `SweptBesideSaved` keeps one
file closed and the workspace whole in a run that looks for one interleaving.
TaskPool and MainLoop stop when their tasks or messages are used up,
SourceText after its last change, Symbols when a class is read, and StubCache
when the last session's indexing is done, so these do not check deadlock; that nobody
waits for ever in TaskPool is `TasksEnd`, and in StubCache `IndexingEnds`.

**Fairness.** Server's `Fairness` says that a spawned task is run and that its
steps end: tokio's blocking pool starts every queued closure when a thread is
free, and a reindex or a scan takes the index only to update it. It is assumed of
each reindex and each scan, never of a handler, of the client or of the disk.
TaskPool justifies it: there `ThreadFairness` is assumed only of threads and
mutexes (a free mutex that somebody waits for is taken), `SlowFairness` (programs
end) only by `TasksEnd`, which has it as its premise;
`QueriesAreAnswered` and `ReindexesRun` do without it. MainLoop assumes that the
main thread goes on, and that running tasks end: nothing in the code stops a
javac or a build tool, so `LoopLeftProcessEnds` stands on their ending. StubCache
assumes that its one task goes on, and with it that the build tool and jimage
end, for the same reason; a stop of the server is never assumed to happen or not
to.

**Disagreements found.** Three comments or tests say more than the code does;
each has a run whose counterexample shows it, and an entry under `findings`.

- `SkipIsRedundant`: the hash of `lombok_source_hashes` is recorded when a
  compile is spawned. If the task finds no model, or javac fails, a later save of
  the same content is skipped although its class was never compiled.
- `NoDuplicateEntries`: a compile indexes all classes of the module without
  overrides and corrects only its own file's stub, so it takes away the
  correction of every other file's.
- `EditsAreReflected`: the sweep compiles without the model's mutex, and may
  write an older class's stub after a save's newer one.

`StubsFollowClasses` is what remains true: as long as no two compiles overlapped a
quiet index shows the class of each file's last compile, but for classes that a
failed run left and that nothing has indexed since. `NoSaveUnserved` has an
exception of the same kind: a sweep that a panic ends leaves the files it had not
come to yet (`abandoned`).

**Limits met.** Where the code decides for less than one might expect and no
document says otherwise, the property says for which inputs it holds, and these
are the others:

- `CacheIsFaithful`: a stub that a stop or another release left behind is reused
  for good, and so is a java.base that was extracted in part.
- `ReceiverIsInnermost`: variables of lambdas, catches, loops over collections,
  resources, patterns and variable arguments are not looked for, nor are the
  fields of enums, interfaces and classes without a name: an outer declaration of
  the same name is taken for them. Order within a block is not looked at.
- `MembersAreListedOnce`: overrides go by name, so a name that two classes of one
  file declare may drop or redirect the wrong one.
- `IndexingEnds`: nothing keeps a directory from being collected twice. Modules in a
  circle whose names make the path longer stop when the system no longer opens it. One
  by a blank name (`<module></module>`) or an absolute path comes back to the same
  path (`ModulesRecur`): the calls go on until the stack overflows, which ends
  the server (`Overflow`).
- `StubShowsClass`: stubs of enums have no fields, and those of interfaces are
  rendered but are not extracted, being another kind of node.
- `ParsedIsCompiled`: a string constant with a lone surrogate loses the class.
- `ModelIsProject`: modules in a circle are in the model once for each way to
  them that the system opens; lines that Gradle's tasks print between those of
  another module go to the module announced last.
- `UrisLeadBack`: of a Windows path, and of one with a backslash in a name or a
  directory that looks like a drive at the root, another spelling comes back.

## What is proved

TLAPS checks the theorems below for every value of the constants, under the
named assumption of each module and nothing else. An assumption types the
constants; what it says beyond that is given with the module. TLC evaluates all of
them in the runs.

| Module | Theorem | States |
|---|---|---|
| Server_proofs | `TypeCorrect`, `Invariance` | `TypeOK`; the inductive invariant |
| | `QuiescentIndexIsCurrent` | `NewestEditShown` |
| | `IndexRefinesEditPromise` | `RefinesEditPromise` |
| | `PipelineRefinesServer` | `RefinesServer` |
| | `PipelineTypeCorrect` | `PipelineTypeOK` |
| | `SavesGetServed` | `NoSaveUnserved` |
| | `StubsAreCurrent` | `StubsFollowClasses` |
| TaskPool_proofs | `TypeCorrect`, `IndexHeldBriefly` | `TypeOK`, `IndexIsHeldBriefly` |
| | `NoCircularWait` | all tasks take the two locks in one order |
| MainLoop_proofs | `TypeCorrect`, `AnswersFollowRequests`, `CleanExits`, `SessionsAreClosed` | `TypeOK`, `AnsweredInOrder`, `CleanExitWasShutdown`, `ServedInSessionOnly` |
| | `TasksAreWaitedFor` | the process never ends under a running task |
| WorkspaceIndex_proofs | `TypeCorrect`, `BucketsAreFaithful` | `TypeOK`, `BucketsMatchFiles` |
| | `LookupsAreComplete` | a lookup finds exactly what the files hold of a name |
| | `BestMatchIsBest`, `HoversAreBest` | hover answers whenever there is something to show, with a most relevant symbol |
| | `HoversAreOrderFree`, `MembersAreAllThere` | `HoverIsOrderFree`, `MembersAreComplete` |
| | `CompletionsAreTheBest` | `CompletionsAreBest` |
| StubCache_proofs | `TypeCorrect`, `CacheFaithful` | `TypeOK`, `CacheIsFaithful` |
| | `ModuleIsInnermost` | `module_for_file` on any modules |
| | `ModelsAreTheProject` | `ModelIsProject` |
| | `UrisLeadToPaths` | `UrisLeadBack` |
| SourceText_proofs | `TypeCorrect`, `TextsAgree` | `TypeOK`, `InSync` |
| | `ParserKnowsEdits` | `EditPointsFit` |
| | `PositionsAgree`, `ReceiversAreFound` | `PositionsMatchClient`, `ReceiverPrecedesPrefix` |
| Symbols_proofs | `OwnersMeetTheirReceivers` | `OwnersMeetReceivers` |
| | `ReceiversAreInnermost` | `ReceiverIsInnermost` |
| | `TypeCorrect` | `TypeOK` |
| | `ParsedClassesAreCompiled` | `ParsedIsCompiled` |

**Server.** The assumption adds to the types that versions are integers.
`NewestEditShown` is not inductive: that a document's reindexes
are done says nothing of what they did. `IInv` has three parts. `TypeInv` adds to
the types that an open document has a generation and a version its client sent.
`EditInv` is about the numbers: generations handed out do not pass the counter;
no edit is newer than its file's current session and version; a key identifies an
edit; what an open document holds is one of the edits; tasks carry edits.
`ShownInv` is about the index: what a session left there is an edit
(`ShownIsEdit`), and no edit is lost: it waits, or panicked, or what the index
shows is at least as new (`NoEditLost`). The step cases are few because only
SpawnReindex makes edits and only RunReindex and ScanApply touch the index
(`StepCases`, `EditStep`, `UpdateFileEffect`). Then: the open document's latest
edit does not wait and did not panic, so the index is at least as new; being an
edit of that file, it is not newer; so its key is the same, and by uniqueness its
content (`InvShown`). The same facts give the refinement: an edit that is applied
is newer than what was shown, or equal and then a stutter, and a scan that is
applied shows disk content over disk content or nothing (`PromiseStep`).

**LombokPipeline.** The refinement needs no invariant of the pipeline's: each of its
actions does to Server's variables what one action of Server does, or nothing.
By it Server's `TypeInv` holds here as well. `PipelineInv` adds to that and the
pipeline's own types three parts. `TasksAreTimely`: a sweep lists and compiles
between the publication of the model and its own end, and what is compiled uses
Lombok. `SavesAreServed`: once there is a model, a save that javac has not followed
is still somebody's business (of a task, of a compile about to start, of a sweep
that has not come to it) or was left by a panicking sweep. That is what the sweep
is for, and `NoSaveUnserved` alone says nothing while anything is in flight.
`StubsAreMade`: as long as compiles never overlapped, the one under way, if any,
has between its list and what it did all the classes whose stubs are behind.

**TaskPool.** `LocksFollowPrograms` says of each task, in the middle of its
program, that it holds exactly the locks it has taken and not released there.
With it the properties are facts about four short sequences. The two locks
are taken in one order, project model before index, so no circle of waiting is
possible with any number of tasks: the code takes it for granted. That tasks end
then depends on nothing but that each program does.

**MainLoop.** `IInv` ties what was sent to the lifecycle state (`StateInv`: no answer
but a refusal before `initialize` was answered, and `null` exactly when the
session is shutting down) and the phase to the queue and the verdict
(`PhaseInv`). A property alone is not inductive since it does not say what the
handshake will do with the next message.

**WorkspaceIndex.** The assumption only gives types. `CountsInv` is the invariant: a bucket holds each symbol as often
as there are places for it in the lists of all files (pairs of file and
position), counted in numbers and not as a set, since a list may hold a symbol
twice and `update_file` takes out one instance for each. The lemmas say what
`TakeOut` and `PutIn` do to a bucket's count, by induction over the list. From the
counts follows what every query rests on: the buckets are those of the names in the
files, each with the symbols of its name (`BucketsAre`). The queries are stated with
`Arranged`, a finite set in an order; `ArrangedIs` says that it has each element once,
in that order, if the order is strict and total, which names are (`NamesAreOrdered`)
and places in a list sorted stably are (`SortedIs`). A search by prefix may stop at
the first name that does not begin with it because no name that does comes behind
(`PrefixesComeFirst`); and dropping all but the first of neighbours with one name
keeps the most relevant because sorting put it first (`FirstOfNamesIs`).

**StubCache.** `StubCacheAssumption` types installations, and says that the stamp of
a JDK stands for what its image holds: two JDKs with one stamp hold the same
classes. That is the premise of the code's own cache directory (`jdk_home.rs`
names it by a hash of the image's path and modification time, and takes it for
unique). Nothing is assumed of
jars, of classes that share a name, or of the state of the disk but that a session
found it as an earlier one left it. `CacheInv` has six parts: `ResolveInv` (the build
tool's way to the model), `TypeInv`, `BaseInv` (what was extracted is a beginning
of the image), `PlaceInv` (where the task is: the sources still to do are
the rest of the list, the classes still to do the rest of a source's),
`JdkInv` (what is worked on as java.base is all of it, unless it was found cut
short), and `ClassInv`: for each class, before the source that provides it
first nothing is shown and the disk is as found; behind it the index
shows what that source has, or one of the obstacles that `CacheIsFaithful` names
applies. There is one lemma for each action. `ModuleIsInnermost` is about any list of
modules: the fold over modules and directories ends with the longest prefix met, and the
last of those.

`ModelsAreTheProject` has an invariant of its own, `ModelInv`. The assumption adds that the
modules of a project are finitely many and, when there is a pom at the root, that the root
is one. (That the stack holds more calls than the longest path has names is
there for `IndexingEnds` and not used.) For Maven, `Collected` says of the
directories collected and those of the calls to come, taken as one list (`Dirs`), that what a
collected one's pom names is in it, that a call's directory is as many steps of the poms
from the root as the call is deep (`Within`), and, if the poms name
each directory once, that no two of the list lead to one place. `Single` says the last
as it must be said to be inductive: that two paths of one list are the same way down
from the root; each way is led to from one module by one name
(`Comes`), so two ways to one place would name it twice. Calls the stack holds
are no deeper than `MaxDepth`, so that whatever they find is among `PomPaths`, the paths so
many steps away; after an overflow there is no model and nothing is claimed.
For Gradle, `Says` compares the modules parsed so far with the lines parsed so far, by
their tags, and `Ends` says when the lines of a module were its own: from the line that
announces it, which occurs once in what Gradle prints (`PrintedLines`), to the next
that announces another. Then what was parsed between them is what the module's own lines
say, and those say what is there (`LinesSay`).

`UrisLeadToPaths` needs no invariant; of the paths it assumes that they
are not empty and made of bytes. What is read at a place of a URI is one byte and
what is read behind it (`Readings`), at an escape three places behind;
so a URI that is put together from the writings of a path's bytes is read as the path, by
induction over these (`SpellingsAreRead`). What `path_to_uri` writes is one of
those spellings (`EncodingIsSpelling`), so that two paths with one URI are read from
it as one.

**SourceText.** The invariant is `IInv`: `TypeOK`, `InSync` and `EditPointsFit`; the
last two need each other's texts to be typed but hold of every change from any texts
that agree. The argument goes through *places*, numbers of whole characters, since
bytes, units and positions are three ways to name one. The lemmas, in order: an
encoding (`IsEncoding`, which `Utf8` and `Utf16` are) takes concatenation to
concatenation, gives every character room, and keeps line ends and lines, by induction over
the text; so offsets grow with places, and a place has the same row in text,
bytes and units (`EncodeLines`, `EncodedPlace`). `Means` says of a position that it
names a place: that it has its row and column, or lies behind it at a line's or the
text's end. The scan for such a position stops there (`StopsAtPlace`), every position
a client sends means a place (`PositionsMean`), and a split pair of units is none
(`PlacesAreShared`). Then what a change takes out and puts in is the same text on both
sides (`ChangeIs`), and the point behind an insertion is that of its end
(`PointAfterInsertIs`). `ReceiversAreFound` rests on the same lemmas: a byte before a
place is a dot only if the character is (`DotBefore`), which is why slicing by
bytes is sound.

**Symbols.** The assumption says that names are sequences of characters (of code points
that are no surrogates), that those of the file, of methods and of variables are not
empty, that no variable has the name by which a receiver `this` or an expression is
known, and that a build adds a finite set of names, pads with constants of tags there
are and has a string of Java's: of code points, where half of a surrogate pair may
stand alone but the two halves are one code point. `TreeInv` is what
typing keeps, in any order and at any size: every node has its parent before it
(`IsTree`), and declarations are where Java's grammar has them, each with a type of its
own (`Grammar`). Every walk of the code over a tree then has a table of its results, found
from those of a node's parent (`AroundIs`, `UpIs`, `SearchIs`) or of its children (`WalkIs`).
`OwnersMeetTheirReceivers` goes down with the owners and up with the
receivers at once: the owner handed down to a node's children is what the walk up from
them finds (`OwnersMeet`). For `ReceiversAreInnermost` the walk outwards
ends at the innermost scope that declares the name as far as the code looks (`Found`,
`ScopeIs`); when the innermost declaration of all is of a kind it looks for,
that scope is the same, and what is left of a type without brackets, arguments
and qualifier is its name (`PlainTypes`).

For `TypeCorrect` and `ParsedClassesAreCompiled` the file is laid out first, as its pieces
one behind the other (`FlattenStands`): the header, each constant, the three indices of
names, each interface, field and method, and the counts between them (`FileIs`). What is
written of a constant's text is what is read of it: modified UTF-8 is decoded to the string
that was encoded, character by character, or refused exactly at a surrogate that stands
alone (`DecodedIsEncoded`, by induction from the end of the text). Each constant has one
index or two, and the pool grows by as many slots, so that what a number refers to is what
is found under it (`IndicesAre`, `PoolGrows`). Then a file that has all of an item reads
it, and one that was cut short within it refuses (`HeaderItem`, `ConstantItem`, `NamesItem`,
`InterfaceItem`, `FieldItem`, `MethodItem`, `CountItem`, `AttributesItem`). The
invariant, `ParseInv`, says what those steps keep: a class was compiled, the bytes are a
beginning of its file, and phase, place, what is left to read, pool and class are those of
some number of its items read (`Reads`). It is needed since `ParsedIsCompiled` looks only at the
end: that the pool is right depends on each constant before, and that a
member is right on the pool. `ParseStep` has a case for every step of the
parser, `CompileStep` shows that what is compiled of any tree is a class with names
(`ClassIs`), which takes the tree's invariant `TreeInv`. Numbers are written without a
bound, as two digits to base 256 of which the first may be large; that javac
refuses classes past the format's limits of 65535 is not modelled, and the theorem does
not depend on it.

**FoldLemmas** has what these rest on: induction over the naturals stated of a set
(the installed provers do not instantiate the library's theorems that take a
predicate, but a set of the numbers for which a predicate holds does), from it
that the tables which `FoldLeft` and recursive functions choose exist and follow their
equations, where the recursion starts at a text's end (`ValuesFromEnd`) or goes from a node
to its parent (`ValuesFromBack`) or to its children (`Recursion`), that
`FlattenSeq` puts sequences behind one another, holds what they hold and grows as its
last does, and extrema of finite sets.

**What failed attempts found.** Four statements that TLC accepted in its instances were
not provable because they were false in larger ones; each was corrected where it
was stated. The instances of the `stubs` run were extended by those that show the
difference; for the pipeline they are too large to run.

- `NoSaveUnserved` did not except files a panicking sweep had not come to.
- `StubsFollowClasses` excused files that others refer to; what matters is whether two
  compiles overlapped, and whether a failed run left the class.
- `FilesGoInnermost` said that without a build tool every file has a module; when
  the workspace has a standard source directory only files below it do.
- What `CacheIsFaithful` compares with is the first place in a source: a jar for
  several releases of Java holds a class more than once, and the first one met
  writes the stub.

Two more were slips of the model that no tree of five nodes could show: two guards of
`DeclaredInScope` overlapped for enums, and the plain names of types
collided with the characters of brackets and arguments from the twelfth node on.

**Only model-checked.**

- All liveness: `KeepsEditPromise`, `ScanReachesFile`, `QueriesAreAnswered`,
  `ReindexesRun`, `TasksEnd`, `IndexingEnds`, and of `LoopLeftProcessEnds` that it ends.
  Fairness and ENABLED are outside the prover's reach.
- `StubShowsClass` and `MembersAreListedOnce`: they follow a class through the text of
  its descriptors, the tree of its stub, the walk over that and the overrides, and back to
  the source's own symbols. What they start from is proved: the class is the one compiled.

## What is not modelled

- Parsing (tree-sitter's), the concrete text of stubs, of answers and of
  diagnostics: the trees are given, and what a query finds in them. Which of
  several names in one declaration is meant (`int a, b`), annotations other than
  Lombok's, the package and the supertypes of a stub, and the ranges of symbols,
  which stand as the node they are of.
- Header framing, JSON and the zip format: external libraries', seen as their
  outcomes. The environment's lookup of a build tool or a cache root: I/O
  without state. What `JAVA_HOME` and `PATH` name is given with an installation.
- A stub opened as a document while a compile writes it anew (its generation then
  refuses the entry, as Server shows of any file), and two servers that share one
  cache at a time.
- Classes of deleted sources in javac's output: nothing in the code removes them.
- Directory recursion of the scan, and links that lead it in circles. A module by
  the name `.`, which makes a path longer and leads nowhere else.
- Names that are not Unicode text, line ends other than `\n` (the code knows no
  other), and a client that breaks the protocol's numbering of versions.

## Plan

Done, in this order: Handshake, EditPromise, Server and its proofs,
LombokPipeline, WorkspaceIndex, TaskPool, MainLoop, SourceText; then JavaSource,
ClassFile, ClassStub, Javac and Symbols; ProjectModel, Uris and StubCache; then the
proofs of LombokPipeline, TaskPool, MainLoop, WorkspaceIndex, StubCache, SourceText and
Symbols, first of its trees and then of class files.

Next, a proof of `StubShowsClass`: that the descriptors of a class come back as the types
they were made of.

No module declares a RECURSIVE operator, so theorems can be stated about any.
