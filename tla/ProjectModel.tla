---------------------------- MODULE ProjectModel ----------------------------
(***************************************************************************)
(* How the modules of a workspace are found: src/build_tool.rs,            *)
(* src/maven.rs, src/gradle.rs, src/javac_fallback.rs, and what is done    *)
(* with them, src/project_model.rs.                                        *)
(*                                                                         *)
(* A path is the sequence of the names below the workspace's root. What is *)
(* in the workspace is a project: the build tools' files in its root, and  *)
(* for each directory of a module its `children' (the modules its pom      *)
(* names), its `sources' (of the standard ones) and its `classpath', in    *)
(* their order. A child is the names between the slashes, none if it is    *)
(* blank, from the directory of the pom or, if it is absolute, from the    *)
(* workspace's root.                                                       *)
(***************************************************************************)
EXTENDS Integers, FiniteSets, SequencesExt

CONSTANTS
    Name,       \* names of directories and files
    Parent,     \* the name `..'
    Entry,      \* the entries of class paths
    Project,    \* what may be in a workspace
    File,       \* files looked for in the modules
    MaxPath,    \* the number of names in the longest path the system opens
    MaxDepth    \* how deep the calls of collect_modules go that the stack holds

VARIABLES
    project,    \* what is in the workspace
    resolution, \* what is done next to resolve the model
    calls,      \* the calls of collect_modules to come: where, and how deep
    todo,       \* the directories left to read
    dirs,       \* the directories of the modules found by their poms
    output,     \* what Gradle printed
    parsed,     \* how many of its lines are parsed
    model       \* the modules resolved so far

resolving == <<project, resolution, calls, todo, dirs, output, parsed, model>>

GradleMarker == "gradle"
PomMarker == "pom"
Root == <<>>

\* A root with a pom, and no build of Gradle's, is the directory of a module. The
\* stack holds more calls than the longest path has names.
ASSUME ProjectModelAssumption ==
    /\ MaxPath \in Nat /\ MaxDepth \in Nat /\ MaxPath < MaxDepth
    /\ File \subseteq Seq(Name)
    /\ \A p \in Project :
         /\ PomMarker \in p.markers /\ GradleMarker \notin p.markers => Root \in DOMAIN p.modules
         /\ IsFiniteSet(DOMAIN p.modules)
         /\ \A dir \in DOMAIN p.modules :
              /\ dir \in Seq(Name)
              /\ p.modules[dir].children \in Seq([absolute : BOOLEAN, names : Seq(Name)])
              /\ p.modules[dir].sources \in Seq(Name)
              /\ p.modules[dir].classpath \in Seq(Entry)

Module(root, sources, classpath) ==
    [root |-> root, source_dirs |-> sources, classpath |-> classpath]

\* Where a name leads in a directory, and a path, by the names of the directories.
Below(dir, name) ==
    IF name # Parent \/ dir = Root \/ Last(dir) = Parent THEN Append(dir, name) ELSE Front(dir)

Physical(path) ==
    LET at[n \in 0..Len(path)] == IF n = 0 THEN Root ELSE Below(at[n - 1], path[n])
    IN  at[Len(path)]

\* The directory at a path, as far as the system opens it.
Exists(path) == Len(path) <= MaxPath /\ Physical(path) \in DOMAIN project.modules
At(path) == project.modules[Physical(path)]

\* build_tool::detect
Tool ==
    IF GradleMarker \in project.markers THEN "gradle"
    ELSE IF PomMarker \in project.markers THEN "maven"
    ELSE "none"

\* standard_source_dirs
StandardSourceDirs(path) ==
    IF ~Exists(path) THEN <<>>
    ELSE [k \in DOMAIN At(path).sources |-> Append(path, At(path).sources[k])]

FallbackModule ==
    LET standard == StandardSourceDirs(Root)
    IN  Module(Root, IF standard = <<>> THEN <<Root>> ELSE standard, <<>>)

Call(dir, depth) == [dir |-> dir, depth |-> depth]

Detect ==
    /\ resolution = "idle"
    /\ CASE Tool = "gradle" -> resolution' = "run_gradle" /\ UNCHANGED <<calls, model>>
         [] Tool = "maven" ->
              resolution' = "collect" /\ calls' = <<Call(Root, 0)>> /\ UNCHANGED model
         [] OTHER -> resolution' = "done" /\ model' = <<FallbackModule>> /\ UNCHANGED calls
    /\ UNCHANGED <<project, todo, dirs, output, parsed>>

---------------------------------------------------------------------------
(* maven.rs                                                                *)

\* Path::join: an absolute path takes the place of the directory, a blank name
\* leaves it as it is.
Join(dir, child) == IF child.absolute THEN child.names ELSE dir \o child.names

\* The calls for the modules the pom of a call's directory names, in their order.
CallsBelow(call) ==
    LET children == At(call.dir).children
    IN  [k \in DOMAIN children |-> Call(Join(call.dir, children[k]), call.depth + 1)]

\* Mutant: the modules a pom names take the place of those left.
CollectModuleDeepest ==
    /\ resolution = "collect" /\ calls # <<>> /\ Head(calls).depth <= MaxDepth
    /\ LET call == Head(calls)
       IN  IF ~Exists(call.dir) THEN calls' = Tail(calls) /\ UNCHANGED dirs
           ELSE dirs' = Append(dirs, call.dir) /\ calls' = CallsBelow(call)
    /\ UNCHANGED <<project, resolution, todo, output, parsed, model>>

\* Mutant: the paths are made canonical on the way down.
CollectModuleCanonical ==
    /\ resolution = "collect" /\ calls # <<>> /\ Head(calls).depth <= MaxDepth
    /\ LET call == [Head(calls) EXCEPT !.dir = Physical(@)]
       IN  IF ~Exists(call.dir) THEN calls' = Tail(calls) /\ UNCHANGED dirs
           ELSE dirs' = Append(dirs, call.dir) /\ calls' = CallsBelow(call) \o Tail(calls)
    /\ UNCHANGED <<project, resolution, todo, output, parsed, model>>

\* collect_modules, depth first; a directory without a pom is none, and nothing
\* keeps one from being visited twice, by another path or by the same.
CollectModule ==
    /\ resolution = "collect" /\ calls # <<>> /\ Head(calls).depth <= MaxDepth
    /\ LET call == Head(calls)
       IN  IF ~Exists(call.dir) THEN calls' = Tail(calls) /\ UNCHANGED dirs
           ELSE dirs' = Append(dirs, call.dir) /\ calls' = CallsBelow(call) \o Tail(calls)
    /\ UNCHANGED <<project, resolution, todo, output, parsed, model>>

\* A call too deep for the stack ends the whole process.
Overflow ==
    /\ resolution = "collect" /\ calls # <<>> /\ Head(calls).depth > MaxDepth
    /\ resolution' = "aborted"
    /\ UNCHANGED <<project, calls, todo, dirs, output, parsed, model>>

\* run_maven, which may fail.
RunMaven ==
    /\ resolution = "collect" /\ calls = <<>>
    /\ \/ resolution' = "read" /\ todo' = dirs
       \/ resolution' = "failed" /\ UNCHANGED todo
    /\ UNCHANGED <<project, calls, dirs, output, parsed, model>>

\* The source directories of a module and the class path Maven wrote for it.
ReadModule ==
    /\ resolution = "read" /\ todo # <<>>
    /\ model' = Append(model, Module(Head(todo), StandardSourceDirs(Head(todo)),
                                     At(Head(todo)).classpath))
    /\ todo' = Tail(todo)
    /\ UNCHANGED <<project, resolution, calls, dirs, output, parsed>>

EndMaven ==
    /\ resolution = "read" /\ todo = <<>>
    /\ resolution' = "done"
    /\ UNCHANGED <<project, calls, todo, dirs, output, parsed, model>>

---------------------------------------------------------------------------
(* gradle.rs                                                               *)

Line(tag, value) == [tag |-> tag, value |-> value]

\* What the task of one module prints. (The version of Java, which nothing here
\* depends on, is left out.)
ModuleLines(dir) ==
    LET m == project.modules[dir]
    IN  <<Line("PROJECT", dir)>>
        \o [k \in DOMAIN m.sources |-> Line("SOURCE_DIR", Append(dir, m.sources[k]))]
        \o [k \in DOMAIN m.classpath |-> Line("CLASSPATH_ENTRY", m.classpath[k])]

\* The tasks of modules may run in parallel: their lines come in any turns.
Printed ==
    LET modules == DOMAIN project.modules
        n == Cardinality(UNION {{d} \X DOMAIN ModuleLines(d) : d \in modules})
        Before(turn, k) == Cardinality({j \in 1..k : turn[j] = turn[k]})
    IN  {[k \in 1..n |-> ModuleLines(turn[k])[Before(turn, k)]] :
            turn \in {t \in [1..n -> modules] :
                \A d \in modules :
                    Cardinality({k \in 1..n : t[k] = d}) = Len(ModuleLines(d))}}

\* A build script's own output comes first.
RunGradle ==
    /\ resolution = "run_gradle"
    /\ \/ \E lines \in Printed :
             output' = <<Line("other", Root)>> \o lines /\ resolution' = "parse"
       \/ resolution' = "failed" /\ UNCHANGED output
    /\ UNCHANGED <<project, calls, todo, dirs, parsed, model>>

\* parse_project_model: a line goes to the module announced last, to none if
\* there is none.
ParseLine ==
    /\ resolution = "parse" /\ parsed < Len(output)
    /\ parsed' = parsed + 1
    /\ LET line == output[parsed + 1]
           last == Len(model)
       IN  model' = CASE line.tag = "PROJECT" -> Append(model, Module(line.value, <<>>, <<>>))
                      [] line.tag = "SOURCE_DIR" /\ last > 0 ->
                           [model EXCEPT ![last].source_dirs = Append(@, line.value)]
                      [] line.tag = "CLASSPATH_ENTRY" /\ last > 0 ->
                           [model EXCEPT ![last].classpath = Append(@, line.value)]
                      [] OTHER -> model
    /\ UNCHANGED <<project, resolution, calls, todo, dirs, output>>

EndGradle ==
    /\ resolution = "parse" /\ parsed = Len(output)
    /\ resolution' = "done"
    /\ UNCHANGED <<project, calls, todo, dirs, output, parsed, model>>

Resolve ==
    \/ Detect \/ CollectModule \/ Overflow \/ RunMaven \/ ReadModule \/ EndMaven
    \/ RunGradle \/ ParseLine \/ EndGradle

Unresolved ==
    /\ resolution = "idle" /\ calls = <<>> /\ todo = <<>> /\ dirs = <<>>
    /\ output = <<>> /\ parsed = 0 /\ model = <<>>

---------------------------------------------------------------------------
(* project_model.rs                                                        *)

StartsWith(file, dir) == IsPrefix(dir, file)

\* The source directories of the i-th module that are around a file.
Around(modules, i, file) == {d \in ToSet(modules[i].source_dirs) : StartsWith(file, d)}

\* module_for_file: the number of the module with the longest source directory
\* around the file, of several the last one; 0 if there is none.
ModuleForFile(modules, file) ==
    LET best(i) == Max({Len(d) : d \in Around(modules, i, file)})
        candidates == {i \in DOMAIN modules : Around(modules, i, file) # {}}
    IN  IF candidates = {} THEN 0
        ELSE CHOOSE i \in candidates :
                \A j \in candidates : best(j) < best(i) \/ (best(j) = best(i) /\ j <= i)
---------------------------------------------------------------------------
(* Properties.                                                             *)

\* The paths to which the pom at a path leads, of those the system opens.
Named(path) ==
    {p \in {Join(path, child) : child \in ToSet(At(path).children)} : Exists(p)}

\* Those to which the poms at some paths lead, in so many steps at most.
Within(paths) ==
    LET within[n \in 0..MaxDepth] ==
            IF n = 0 THEN paths ELSE within[n - 1] \cup UNION {Named(p) : p \in within[n - 1]}
    IN  within
PomPaths == Within({Root})[MaxDepth]

\* Whether Maven's modules come back to a path they came from: a blank name or an
\* absolute path is in a circle of theirs, since other names make a path longer.
ModulesRecur == Tool = "maven" /\ \E p \in PomPaths : p \in Within(Named(p))[MaxDepth]

\* The directories to which the poms lead, and whether they lead to each in one way,
\* and to the root in none.
Reachable == {Physical(p) : p \in PomPaths}
Led(way) == Join(way[1], At(way[1]).children[way[2]])
Ways == {way \in UNION {{p} \X DOMAIN At(p).children : p \in PomPaths} : Exists(Led(way))}
NamedOnce ==
    \A v, w \in Ways :
        /\ Physical(Led(v)) # Root
        /\ Physical(Led(v)) = Physical(Led(w)) => v = w

\* The module in a directory, with all that is there.
Whole(dir, there) ==
    Module(dir, [k \in DOMAIN there.sources |-> Append(dir, there.sources[k])], there.classpath)

MavenModel ==
    /\ {Physical(model[i].root) : i \in DOMAIN model} = Reachable
    /\ NamedOnce => Len(model) = Cardinality(Reachable)
    /\ \A i \in DOMAIN model : model[i] = Whole(model[i].root, At(model[i].root))

\* What the lines with a tag hold, in their order.
Tagged(tag, lines) ==
    LET upto[n \in 0..Len(lines)] ==
            IF n = 0 THEN <<>>
            ELSE IF lines[n].tag = tag THEN Append(upto[n - 1], lines[n].value) ELSE upto[n - 1]
    IN  upto[Len(lines)]

\* Nothing printed is lost, doubled or moved before what it follows; a module
\* whose lines nothing came between has what is its own.
GradleModel ==
    /\ [i \in DOMAIN model |-> model[i].root] = Tagged("PROJECT", output)
    /\ FlattenSeq([i \in DOMAIN model |-> model[i].source_dirs]) = Tagged("SOURCE_DIR", output)
    /\ FlattenSeq([i \in DOMAIN model |-> model[i].classpath]) = Tagged("CLASSPATH_ENTRY", output)
    /\ \A i \in DOMAIN model :
          LET lines == ModuleLines(model[i].root)
              from == SelectInSeq(output, LAMBDA line : line = lines[1])
              to == from + Len(lines) - 1
          IN  to <= Len(output) /\ SubSeq(output, from, to) = lines
              /\ (to = Len(output) \/ output[to + 1].tag = "PROJECT")
              => model[i] = Whole(model[i].root, project.modules[model[i].root])

\* A file goes to a module that has it, and no other has a source directory
\* further in that has it, too; a workspace without a build tool and without
\* standard source directories has every file.
FilesGoInnermost ==
    \A f \in File :
        LET m == ModuleForFile(model, f)
        IN  /\ m = 0 => /\ Tool # "none" \/ StandardSourceDirs(Root) # <<>>
                        /\ \A i \in DOMAIN model : Around(model, i, f) = {}
            /\ m # 0 => \E d \in Around(model, m, f) :
                  \A i \in DOMAIN model : \A e \in Around(model, i, f) : StartsWith(d, e)

\* The modules resolved are those the build describes, each with what is its
\* own: those to which the poms lead, in however many ways and circles; those
\* Gradle printed; or the whole workspace. (project_model.rs, maven.rs, gradle.rs)
ModelIsProject ==
    resolution = "done" =>
        /\ CASE Tool = "maven" -> MavenModel
             [] Tool = "gradle" -> GradleModel
             [] OTHER -> Len(model) = 1 /\ model[1].root = Root
        /\ FilesGoInnermost
=============================================================================
