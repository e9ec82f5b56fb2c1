-------------------------- MODULE LombokPipeline --------------------------
(***************************************************************************)
(* What the Lombok and build-resolution tasks of Server do inside: compile *)
(* a file with javac, turn every class of the module's output directory    *)
(* into a stub, index the stubs, and correct the one of the file that was  *)
(* compiled (src/server.rs, src/external_index.rs, src/javac_compile.rs).  *)
(*                                                                         *)
(* The workspace is one module with a Lombok jar and a JDK. A class or a   *)
(* stub is known by the text it was compiled from. The index entry of a    *)
(* stub is `class', the text its symbols come from, and `source', the text *)
(* its overrides were computed from, or NoText when it has none.           *)
(***************************************************************************)
EXTENDS Server

CONSTANT Refers     \* the files each file refers to: javac compiles them too

ASSUME RefersAssumption == Refers \in [Uri -> SUBSET Uri] /\ NoText \notin Uri

VARIABLES
    classes,        \* the module's output directory
    stubIndex,      \* the index entries of the stub files
    jobs,           \* the compiles under way, by owner
    sweepTodo,      \* the files each sweep has still to read
    unserved,       \* history: the saved files no javac run followed yet
    abandoned,      \* history: those that no run followed either since a panic
                    \* ended a sweep that had still to read them
    unindexed,      \* history: the classes left by failed runs, as nothing was
                    \* indexed since
    redirected,     \* history: the files a compile was completed for
    overlapped      \* history: whether two compiles were ever under way at once

history == <<unserved, abandoned, unindexed, redirected, overlapped>>
pipelineVars == <<classes, stubIndex, jobs, sweepTodo, history>>
allVars == <<vars, pipelineVars>>

\* The saves' compiles share one slot: they hold the lock of project_model.
\* Each build task compiles in a slot of its own.
Save == 0
Owner == {Save} \cup Task

NoInput == [u \in Uri |-> NoText]
NoJob == [phase |-> "none", uri |-> NoText, text |-> NoText, input |-> NoInput,
          todo |-> {}, held |-> NoRead]
Job == [phase : {"start", "javac", "index", "redirect"}, uri : Uri, text : LombokText,
        input : [Uri -> Text \cup {NoText}], todo : SUBSET Uri,
        held : Read \cup {NoRead}]
NotListed == {NoText}

PipelineTypeOK ==
    /\ classes \in [Uri -> Text \cup {NoText}]
    /\ stubIndex \in [Uri -> [class : Text \cup {NoText}, source : LombokText \cup {NoText}]]
    /\ jobs \in [Owner -> Job \cup {NoJob}]
    /\ sweepTodo \in [Task -> (SUBSET Uri) \cup {NotListed}]
    /\ unserved \in SUBSET Uri
    /\ abandoned \in SUBSET Uri
    /\ unindexed \in SUBSET Uri
    /\ redirected \in SUBSET Uri
    /\ overlapped \in BOOLEAN

PipelineInit ==
    /\ Init
    /\ classes = [u \in Uri |-> NoText]
    /\ stubIndex = [u \in Uri |-> [class |-> NoText, source |-> NoText]]
    /\ jobs = [o \in Owner |-> NoJob]
    /\ sweepTodo = [i \in Task |-> NotListed]
    /\ unserved = {}
    /\ abandoned = {}
    /\ unindexed = {}
    /\ redirected = {}
    /\ overlapped = FALSE

---------------------------------------------------------------------------
(* compile_lombok_file, one step at a time, for the owner of the job.      *)

NewJob(u, t) == [NoJob EXCEPT !.phase = "start", !.uri = u, !.text = t]

\* javac reads the file itself, not the captured text, and those it refers to.
JavacRead(o) ==
    LET u == jobs[o].uri
    IN  /\ jobs[o].phase = "start"
        /\ jobs' = [jobs EXCEPT ![o] =
               [@ EXCEPT !.phase = "javac",
                         !.input = [w \in Uri |-> IF w \in Refers[u] \cup {u}
                                                  THEN disk[w] ELSE NoText]]]
        /\ unserved' = unserved \ {u}
        /\ abandoned' = abandoned \ {u}
        /\ UNCHANGED <<vars, classes, stubIndex, sweepTodo, unindexed, redirected,
                       overlapped>>

Written(input, files) ==
    [w \in Uri |-> IF w \in files THEN input[w] ELSE classes[w]]

\* It writes the classes of all it read; or it fails, without those of some
\* file at fault, and nothing follows.
JavacWrite(o) ==
    LET input == jobs[o].input
        read  == {w \in Uri : input[w] # NoText}
    IN  /\ jobs[o].phase = "javac"
        /\ \/ /\ jobs[o].uri \in read
              /\ classes' = Written(input, read)
              /\ jobs' = [jobs EXCEPT ![o] =
                     [@ EXCEPT !.phase = "index", !.input = NoInput,
                               !.todo = {w \in Uri : classes'[w] # NoText}]]
              /\ unindexed' = {}
           \/ /\ \E files \in SUBSET read :
                    /\ files = {} \/ (files # read /\ jobs[o].uri \in read)
                    /\ classes' = Written(input, files)
                    /\ unindexed' = unindexed \cup files
              /\ jobs' = [jobs EXCEPT ![o] = NoJob]
        /\ UNCHANGED <<vars, stubIndex, sweepTodo, unserved, abandoned, redirected,
                       overlapped>>

\* index_javac_output reads the classes of the directory, whoever wrote them,
ReadClass(o, u) ==
    /\ jobs[o].phase = "index"
    /\ jobs[o].held = NoRead
    /\ u \in jobs[o].todo
    /\ jobs' = [jobs EXCEPT ![o].todo = @ \ {u},
                             ![o].held = [uri |-> u, text |-> classes[u]]]
    /\ UNCHANGED <<vars, classes, stubIndex, sweepTodo, history>>

\* and overwrites each one's stub and index entry, with no overrides.
WriteStub(o) ==
    /\ jobs[o].held # NoRead
    /\ stubIndex' = [stubIndex EXCEPT ![jobs[o].held.uri] =
                        [class |-> jobs[o].held.text, source |-> NoText]]
    /\ jobs' = [jobs EXCEPT ![o] = [@ EXCEPT !.held = NoRead]]
    /\ UNCHANGED <<vars, classes, sweepTodo, history>>

EndIndex(o) ==
    /\ jobs[o].phase = "index"
    /\ jobs[o].held = NoRead
    /\ jobs[o].todo = {}
    /\ jobs' = [jobs EXCEPT ![o] = [@ EXCEPT !.phase = "redirect"]]
    /\ UNCHANGED <<vars, classes, stubIndex, sweepTodo, history>>

\* Mutant: the corrected symbols indexed under the source file's own URI.
RedirectIntoSource(o) ==
    /\ jobs[o].phase = "redirect"
    /\ UpdateFile(jobs[o].uri, ScannedEntry(jobs[o].text))
    /\ redirected' = redirected \cup {jobs[o].uri}
    /\ jobs' = [jobs EXCEPT ![o] = NoJob]
    /\ UNCHANGED <<mainVars, taskVars, projectModel, disk, edits, classes,
                   stubIndex, sweepTodo, unserved, abandoned, unindexed, overlapped>>

\* Mutant: the class taken for that of the captured text.
RedirectUncompiled(o) ==
    /\ jobs[o].phase = "redirect"
    /\ stubIndex' = [stubIndex EXCEPT ![jobs[o].uri] =
                        [class |-> jobs[o].text, source |-> jobs[o].text]]
    /\ redirected' = redirected \cup {jobs[o].uri}
    /\ jobs' = [jobs EXCEPT ![o] = NoJob]
    /\ UNCHANGED <<vars, classes, sweepTodo, unserved, abandoned, unindexed, overlapped>>

\* redirect_lombok_accessors: the compiled class against the captured text.
\* Extraction that panics on that text ends the task, and a whole sweep with it.
Redirect(o) ==
    /\ jobs[o].phase = "redirect"
    /\ jobs' = [jobs EXCEPT ![o] = NoJob]
    /\ \/ /\ jobs[o].text \notin Panicking
          /\ stubIndex' = [stubIndex EXCEPT ![jobs[o].uri] =
                              [class |-> classes[jobs[o].uri], source |-> jobs[o].text]]
          /\ redirected' = redirected \cup {jobs[o].uri}
          /\ UNCHANGED <<sweepTodo, abandoned>>
       \/ /\ jobs[o].text \in Panicking
          /\ sweepTodo' = [i \in Task |-> IF i = o THEN {} ELSE sweepTodo[i]]
          /\ abandoned' = abandoned \cup IF o \in Task THEN sweepTodo[o] ELSE {}
          /\ UNCHANGED <<stubIndex, redirected>>
    /\ UNCHANGED <<vars, classes, unserved, unindexed, overlapped>>

JobStep(o) ==
    \/ JavacRead(o)
    \/ JavacWrite(o)
    \/ \E u \in Uri : ReadClass(o, u)
    \/ WriteStub(o)
    \/ EndIndex(o)
    \/ Redirect(o)

---------------------------------------------------------------------------
(* The tasks that own the jobs.                                            *)

Compiling == \E o \in Owner : jobs[o] # NoJob

\* A save's task waits for the lock of the project model, keeps it until its
\* compile ends, and gives up at once when there is no model yet.
StartLombokTask(e) ==
    /\ jobs[Save] = NoJob
    /\ EndLombokTask(e)
    /\ jobs' = [jobs EXCEPT ![Save] = IF projectModel THEN NewJob(e.uri, e.text) ELSE NoJob]
    /\ overlapped' = (overlapped \/ (projectModel /\ Compiling))
    /\ UNCHANGED <<classes, stubIndex, sweepTodo, unserved, abandoned, unindexed,
                   redirected>>

\* Publishing the model takes the lock; the sweep that follows does not.
PublishModel(i) ==
    /\ jobs[Save] = NoJob
    /\ ResolveModel(i)
    /\ UNCHANGED pipelineVars

\* Mutant: the files are listed before the model is published.
ListFilesFirst(i) ==
    /\ builds[i] \in {"queued", "sweeping"}
    /\ sweepTodo[i] = NotListed
    /\ sweepTodo' = [sweepTodo EXCEPT ![i] = {u \in Uri : disk[u] # NoText}]
    /\ UNCHANGED <<vars, classes, stubIndex, jobs, history>>

ListFiles(i) ==
    /\ builds[i] = "sweeping"
    /\ sweepTodo[i] = NotListed
    /\ sweepTodo' = [sweepTodo EXCEPT ![i] = {u \in Uri : disk[u] # NoText}]
    /\ UNCHANGED <<vars, classes, stubIndex, jobs, history>>

\* Mutant: the sweep compiles every file, readable or not.
SweepAnyFile(i, u) ==
    /\ jobs[i] = NoJob
    /\ u \in sweepTodo[i] \ NotListed
    /\ sweepTodo' = [sweepTodo EXCEPT ![i] = @ \ {u}]
    /\ jobs' = [jobs EXCEPT ![i] = NewJob(u, disk[u])]
    /\ overlapped' = (overlapped \/ Compiling)
    /\ UNCHANGED <<vars, classes, stubIndex, unserved, abandoned, unindexed, redirected>>

\* The sweep reads the file and compiles it if what it read uses Lombok.
SweepFile(i, u) ==
    /\ jobs[i] = NoJob
    /\ u \in sweepTodo[i] \ NotListed
    /\ sweepTodo' = [sweepTodo EXCEPT ![i] = @ \ {u}]
    /\ jobs' = [jobs EXCEPT ![i] =
                   IF disk[u] \in LombokText THEN NewJob(u, disk[u]) ELSE NoJob]
    /\ overlapped' = (overlapped \/ (disk[u] \in LombokText /\ Compiling))
    /\ UNCHANGED <<vars, classes, stubIndex, unserved, abandoned, unindexed, redirected>>

EndSweep(i) ==
    /\ sweepTodo[i] = {}
    /\ jobs[i] = NoJob
    /\ EndBuild(i)
    /\ UNCHANGED pipelineVars

\* A handler that spawns a Lombok task for what is on disk leaves the file
\* unserved until a javac run starts after it, or the disk moves on.
HandlerStep ==
    /\ Handler
    /\ unserved' = unserved \cup {e.uri : e \in {f \in lombokTasks' \ lombokTasks :
                                                    disk[f.uri] = f.text}}
    /\ UNCHANGED <<classes, stubIndex, jobs, sweepTodo, abandoned, unindexed,
                   redirected, overlapped>>

WorldStep ==
    /\ World
    /\ unserved' = {u \in unserved : disk'[u] = disk[u]}
    /\ UNCHANGED <<classes, stubIndex, jobs, sweepTodo, abandoned, unindexed,
                   redirected, overlapped>>

IndexStep ==
    /\ \/ \E e \in Edit : RunReindex(e)
       \/ \E i \in Task : ScanStep(i)
    /\ UNCHANGED pipelineVars

PipelineNext ==
    \/ HandlerStep
    \/ WorldStep
    \/ IndexStep
    \/ \E e \in Edit : StartLombokTask(e)
    \/ \E i \in Task : PublishModel(i) \/ ListFiles(i) \/ EndSweep(i)
    \/ \E i \in Task, u \in Uri : SweepFile(i, u)
    \/ \E o \in Owner : JobStep(o)

PipelineSpec == PipelineInit /\ [][PipelineNext]_allVars

---------------------------------------------------------------------------
(* Properties.                                                             *)

\* Nothing that could still change a class or a stub is queued or running.
Quiescent ==
    /\ lombokTasks = {}
    /\ \A o \in Owner : jobs[o] = NoJob
    /\ \A i \in Task : builds[i] \in {"idle", "done"}

\* The tasks do to the rest of the server what the module Server says.
RefinesServer == Spec

\* A save whose task ran before there was a model, and so did nothing, is made
\* good by the sweep: when everything is quiet and a model exists, javac has
\* run on every saved file since its save, but for those a sweep was still to
\* read when symbol extraction panicked on another. It needs the model to be
\* published before the sweep lists the files. (trigger_build_resolution)
NoSaveUnserved == Quiescent /\ projectModel => unserved \subseteq abandoned

\* As long as no two compiles are ever under way at once, a quiet index shows
\* every class as it was last compiled, but for those a failed run left and
\* no run indexed since, however many saves queued, in whatever order they got
\* the lock, and whatever was written to disk meanwhile.
\* (trigger_lombok_compile holds the lock throughout)
StubsFollowClasses ==
    Quiescent /\ ~overlapped =>
        \A u \in Uri \ unindexed :
            classes[u] # NoText => stubIndex[u].class = classes[u]

\* What the repository says of the pipeline and the code does not keep.

\* "a previously cached stub is always overwritten, never reused, so edits are
\* reflected" (src/external_index.rs:57): a quiet index shows each class as it
\* was last compiled, sweep or no sweep.
EditsAreReflected ==
    Quiescent =>
        \A u \in Uri : classes[u] # NoText => stubIndex[u].class = classes[u]

\* A hand-written method of a Lombok-touched class "must not get a second,
\* duplicate entry from the synthetic stub" (src/server.rs:1057): once a
\* class was compiled and corrected, a quiet index shows it with overrides.
NoDuplicateEntries ==
    Quiescent /\ ~overlapped => \A u \in redirected : stubIndex[u].source # NoText

\* The last trigger's hash "skips a redundant recompile on a save/open with
\* byte-identical content" (src/server.rs:39): when a save now would be skipped,
\* the class is that of the content.
SkipIsRedundant ==
    Quiescent /\ projectModel =>
        \A u \in Uri :
            documents[u] # NoText /\ documents[u] = disk[u]
                /\ documents[u] = lombokSourceHashes[u]
            => classes[u] = documents[u]
===========================================================================
