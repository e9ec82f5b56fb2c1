------------------------------ MODULE StubCache ------------------------------
(***************************************************************************)
(* The classes of the JDK and of the class path come into the index by     *)
(* stubs, which a cache on disk keeps from one start of the server to the  *)
(* next: index_external_symbols in src/server.rs, src/external_index.rs,   *)
(* src/jdk_home.rs, src/jar.rs. The server may stop at any point, jimage   *)
(* and writes may fail, and between two starts another JDK or other jars   *)
(* may be installed.                                                       *)
(***************************************************************************)
EXTENDS ProjectModel, Uris

CONSTANTS
    Class,          \* binary names
    SimpleName,     \* the simple name of each
    Internal,       \* those of the JDK's own packages
    Nameless,       \* those whose simple name is not valid
    Content,        \* what stubs may say
    Home,           \* what JAVA_HOME and PATH may name
    Installation,   \* what may be installed: what they name, and the jars
    MaxSession,     \* bound on the starts of the server
    Path            \* paths whose URIs are looked at

VARIABLES
    session,    \* how often the server was started
    installed,  \* the JDKs and the jars
    stubs,      \* the cache: what each stub file holds
    base,       \* the cache: what was extracted, by the JDK's stamp
    found,      \* the cache as this session found it
    failed,     \* what could not be extracted or written in this session
    step,       \* what indexing does next
    sources,    \* the JDK and the jars left
    classes,    \* the classes left of the first of them
    index       \* what the index shows of each class's stub

vars == <<project, resolution, calls, todo, dirs, output, parsed, model,
          session, installed, stubs, base, found, failed, step, sources, classes, index>>
disk == <<stubs, base>>

Absent == "absent"
Empty == "empty"
Malformed == "malformed"
Unreadable == <<[name |-> "", content |-> "unreadable"]>>
Jdk == "jdk"
NotExtracted == [dir |-> FALSE, classes |-> <<>>]

---------------------------------------------------------------------------
(* jdk_home.rs. A home that may be one of a JDK has a `java' or not, a     *)
(* version if its `release' can be read, and a runtime image or not; its   *)
(* `classes' are what its jar or that image holds, its `stamp' the image's *)
(* key in the cache.                                                       *)

\* locate, locate_with: JAVA_HOME if there is a java in it, then PATH.
Tried(i) == <<i.javaHome>> \o i.path
Located(i) == {n \in DOMAIN Tried(i) : Tried(i)[n].java}
JdkHome == Tried(installed)[Min(Located(installed))]

\* parse_java_version: the version was 1.8 once, 9 afterwards.
MajorVersion(numbers) == IF Len(numbers) > 1 /\ numbers[1] = 1 THEN numbers[2] ELSE numbers[1]

\* class_source: whether the classes are in a jar.
InJar(home) == (home.release # <<>> /\ MajorVersion(home.release) < 9) \/ ~home.modules

\* cache_key: what was extracted of this JDK's java.base.
Extracted == base[JdkHome.stamp]

---------------------------------------------------------------------------
\* What is in a jar or an image: classes, one name more than once if it has them
\* for several releases; or it cannot be read. A class may be malformed.
Held == [name : Class, content : Content \cup {Malformed}]
IsContents(contents) == contents = Unreadable \/ contents \in Seq(Held)

\* A stamp stands for one image: cache_key's hash is taken for one.
ASSUME StubCacheAssumption ==
    /\ Internal \subseteq Class /\ Nameless \subseteq Class /\ Jdk \notin Class \cup Entry
    /\ Content \cap {Absent, Empty, Malformed} = {}
    /\ Unreadable \notin Seq(Held)
    /\ MaxSession \in Nat \ {0}
    /\ \A p \in Path : p \in Seq(0..255) /\ p # <<>>
    /\ \A h \in Home :
         /\ h.java \in BOOLEAN
         /\ h.java => IsContents(h.classes) /\ (InJar(h) \/ h.classes \in Seq(Held))
    /\ \A g, h \in Home :
         g.java /\ h.java /\ g.stamp = h.stamp => g.classes = h.classes
    /\ \A i \in Installation :
         /\ i.javaHome \in Home /\ i.path \in Seq(Home)
         /\ \A e \in Entry : IsContents(i.jars[e])

---------------------------------------------------------------------------
\* Mutant: stubs kept by their simple names.
StubFileSimple(k) == CHOOSE c \in Class : SimpleName[c] = SimpleName[k]

\* The file of a class's stub, by the class whose name it has.
StubFile(k) == k

---------------------------------------------------------------------------
\* The class path entries of all modules, in their order.
AllEntries(modules) == FlattenSeq([i \in DOMAIN modules |-> modules[i].classpath])

JdkFirst(i) == IF Located(i) # {} THEN <<Jdk>> ELSE <<>>

\* Mutant: an entry indexed for every module that has it.
QueueRepeated(i, modules) == JdkFirst(i) \o AllEntries(modules)

\* index_external_symbols: the JDK, then each entry once.
AddOnce(indexed, entry) == IF Contains(indexed, entry) THEN indexed ELSE Append(indexed, entry)
Queue(i, modules) == JdkFirst(i) \o FoldLeft(AddOnce, <<>>, AllEntries(modules))

BeginIndexing ==
    /\ step = "resolve" /\ resolution \in {"done", "failed"}
    /\ IF resolution = "done" THEN step' = "source" /\ sources' = Queue(installed, model)
       ELSE step' = "quiet" /\ UNCHANGED sources
    /\ UNCHANGED <<resolving, session, installed, disk, found, failed, classes, index>>

NextSource ==
    /\ step = "source" /\ sources = <<>>
    /\ step' = "quiet"
    /\ UNCHANGED <<resolving, session, installed, disk, found, failed, sources, classes, index>>

\* index_classpath_entry: a jar that cannot be read to its end is left out.
OpenJar(content) ==
    IF content = Unreadable THEN sources' = Tail(sources) /\ UNCHANGED <<step, classes>>
    ELSE step' = "class" /\ classes' = content /\ UNCHANGED sources

\* index_jdk, class_source: before JDK 9 a jar; then what was extracted, if there
\* is a directory, whatever is in it.
OpenSource ==
    /\ step = "source" /\ sources # <<>>
    /\ IF Head(sources) # Jdk THEN OpenJar(installed.jars[Head(sources)])
       ELSE IF InJar(JdkHome) THEN OpenJar(JdkHome.classes)
       ELSE /\ step' = IF Extracted.dir THEN "class" ELSE "extract"
            /\ classes' = Extracted.classes
            /\ UNCHANGED sources
    /\ UNCHANGED <<resolving, session, installed, disk, found, failed, index>>

\* jimage writes one class after the other.
ExtractClass ==
    /\ step = "extract"
    /\ LET n == Len(Extracted.classes)
       IN  /\ n < Len(JdkHome.classes)
           /\ base' = [base EXCEPT ![JdkHome.stamp] =
                  [dir |-> TRUE, classes |-> Append(@.classes, JdkHome.classes[n + 1])]]
    /\ UNCHANGED <<resolving, session, installed, stubs, found, failed, step, sources, classes,
                   index>>

\* It comes to an end, or gives up: then the JDK is left out of this session.
EndExtraction ==
    /\ step = "extract"
    /\ \/ /\ Extracted.classes = JdkHome.classes
          /\ step' = "class" /\ classes' = Extracted.classes
          /\ UNCHANGED <<sources, failed>>
       \/ /\ step' = "source" /\ sources' = Tail(sources)
          /\ failed' = failed \cup {Jdk}
          /\ UNCHANGED classes
    /\ UNCHANGED <<resolving, session, installed, disk, found, index>>

EndSource ==
    /\ step = "class" /\ classes = <<>>
    /\ step' = "source" /\ sources' = Tail(sources)
    /\ UNCHANGED <<resolving, session, installed, disk, found, failed, classes, index>>

Skipped(c) == c.content = Malformed \/ c.name \in Internal \cup Nameless

\* index_class_bytes: a stub that is there is taken as it is.
TakeClass ==
    /\ step = "class" /\ classes # <<>>
    /\ IF Skipped(Head(classes)) THEN classes' = Tail(classes) /\ UNCHANGED step
       ELSE /\ step' = IF stubs[StubFile(Head(classes).name)] # Absent THEN "show" ELSE "create"
            /\ UNCHANGED classes
    /\ UNCHANGED <<resolving, session, installed, disk, found, failed, sources, index>>

\* write_stub: the file is made, then filled.
CreateStub ==
    /\ step = "create"
    /\ stubs' = [stubs EXCEPT ![StubFile(Head(classes).name)] = Empty]
    /\ step' = "write"
    /\ UNCHANGED <<resolving, session, installed, base, found, failed, sources, classes, index>>

WriteStub ==
    /\ step = "write"
    /\ \/ /\ stubs' = [stubs EXCEPT ![StubFile(Head(classes).name)] = Head(classes).content]
          /\ step' = "show" /\ UNCHANGED <<classes, failed>>
       \/ /\ failed' = failed \cup {Head(classes).name}
          /\ step' = "class" /\ classes' = Tail(classes) /\ UNCHANGED stubs
    /\ UNCHANGED <<resolving, session, installed, base, found, sources, index>>

\* index_source_file
ShowStub ==
    /\ step = "show"
    /\ index' = [index EXCEPT ![StubFile(Head(classes).name)] =
                    stubs[StubFile(Head(classes).name)]]
    /\ step' = "class" /\ classes' = Tail(classes)
    /\ UNCHANGED <<resolving, session, installed, disk, found, failed, sources>>

---------------------------------------------------------------------------
\* The server stops, at any point; what it is started with may be another JDK,
\* other jars.
Restart ==
    /\ session < MaxSession
    /\ session' = session + 1
    /\ installed' \in Installation
    /\ found' = [stubs |-> stubs, base |-> base]
    /\ failed' = {}
    /\ step' = "resolve" /\ sources' = <<>> /\ classes' = <<>>
    /\ index' = [k \in Class |-> Absent]
    /\ resolution' = "idle" /\ calls' = <<>> /\ todo' = <<>> /\ dirs' = <<>>
    /\ output' = <<>> /\ parsed' = 0 /\ model' = <<>>
    /\ UNCHANGED <<project, disk>>

ResolveModel ==
    /\ step = "resolve" /\ Resolve
    /\ UNCHANGED <<session, installed, disk, found, failed, step, sources, classes, index>>

Init ==
    /\ project \in Project /\ Unresolved
    /\ session = 1 /\ installed \in Installation
    /\ stubs = [k \in Class |-> Absent]
    /\ base = [s \in {h.stamp : h \in {g \in Home : g.java}} |-> NotExtracted]
    /\ found = [stubs |-> stubs, base |-> base]
    /\ failed = {}
    /\ step = "resolve" /\ sources = <<>> /\ classes = <<>>
    /\ index = [k \in Class |-> Absent]

IndexExternalSymbols ==
    \/ BeginIndexing \/ NextSource \/ OpenSource \/ ExtractClass \/ EndExtraction
    \/ EndSource \/ TakeClass \/ CreateStub \/ WriteStub \/ ShowStub

Next == ResolveModel \/ IndexExternalSymbols \/ Restart

\* The build tool and jimage come to an end, and the task goes on.
Fairness == WF_vars(ResolveModel) /\ WF_vars(IndexExternalSymbols)

Spec == Init /\ [][Next]_vars /\ Fairness
---------------------------------------------------------------------------
(* Properties.                                                             *)

\* No source is gone through twice in a session, and a class is in work while
\* its stub is.
TypeOK ==
    /\ session \in 1..MaxSession
    /\ step \in {"resolve", "source", "extract", "class", "create", "write", "show", "quiet"}
    /\ Cardinality(ToSet(sources)) = Len(sources)
    /\ step = "extract" => Head(sources) = Jdk
    /\ step \in {"create", "write", "show"} => classes # <<>> /\ ~Skipped(Head(classes))
    /\ step = "write" => stubs[StubFile(Head(classes).name)] = Empty

\* The sources in their order, and where in them a class is: it is taken from
\* the first source that has it, there from the first place.
Sources == Queue(installed, model)
Contents(source) == IF source = Jdk THEN JdkHome.classes ELSE installed.jars[source]
Readable(source) == IF Contents(source) = Unreadable THEN <<>> ELSE Contents(source)
Places(source, k) ==
    {j \in DOMAIN Readable(source) :
        Readable(source)[j].name = k /\ Readable(source)[j].content # Malformed}
Providers(k) == {i \in DOMAIN Sources : Places(Sources[i], k) # {}}
First(k) == Sources[Min(Providers(k))]
Current(k) == Readable(First(k))[Min(Places(First(k), k))].content

\* Whether nothing stood or stands in the way of the extraction of the JDK.
WholeJdk ==
    InJar(JdkHome) \/ LET was == found.base[JdkHome.stamp]
                      IN  IF was.dir THEN was.classes = JdkHome.classes ELSE Jdk \notin failed

\* When all is indexed, the index shows of each class what the first of the JDK
\* and the class path entries holds that has it, and no class that none of them
\* has, whatever stubs the cache keeps from other projects and installations;
\* if the session found no stub of it that was cut short or of another release,
\* and no java.base that was, and could write. (index_external_symbols, write_stub,
\* extract_java_base)
CacheIsFaithful ==
    step = "quiet" /\ resolution = "done" =>
        \A k \in Class :
            IF k \in Internal \cup Nameless \/ Providers(k) = {} THEN index[k] = Absent
            ELSE /\ k \notin failed
                 /\ found.stubs[k] \in {Absent, Current(k)}
                 /\ First(k) = Jdk => WholeJdk
                 => index[k] = Current(k)

\* The task of every session comes to its end, unless the server is stopped
\* first, or the modules come back to a path they came from, when it overflows its
\* stack and takes the server with it: no other circle of modules, no jar and no
\* class holds it up. (collect_modules; "must never block indexing of the rest
\* of the classpath", external_index.rs:33)
IndexingEnds == (step = "resolve") ~> (step = "quiet" \/ ModulesRecur)

\* The ways a client may write a path in a URI: any byte escaped that is no
\* slash, in digits of either case.
Lower(text) == [k \in DOMAIN text |-> IF text[k] \in 65..90 THEN text[k] + 32 ELSE text[k]]
Spellings(path) ==
    LET of(byte) == (IF byte \in Unreserved THEN {<<byte>>} ELSE {})
                    \cup (IF byte = SlashByte THEN {} ELSE {Escaped(byte), Lower(Escaped(byte))})
        upto[n \in 0..Len(path)] ==
            IF n = 0 THEN {<<>>}
            ELSE {text \o last : text \in upto[n - 1], last \in of(path[n])}
    IN  upto[Len(path)]

\* A path comes back from its URI, and from every other way to write it; two
\* paths never have one URI, but for the direction of their slashes. A path of
\* Windows comes back with the slashes of the others; elsewhere a name has no
\* backslash in it, nor the root a directory that looks like a drive.
\* (path_to_uri, uri_to_path)
UrisLeadBack ==
    session = 1 /\ resolution = "idle" =>
        /\ \A p \in Path :
              LET slashed == Normalize(p)
                  back == StripDrive(slashed)
              IN  /\ UriToPath(PathToUri(p)) = back
                  /\ \A text \in Spellings(slashed) :
                        UriToPath([scheme |-> "file", path |-> text]) = back
                  /\ Head(p) = SlashByte /\ ~HasDrivePrefix(p) /\ Backslash \notin ToSet(p)
                     => back = p
        /\ LET named == {<<PathToUri(p), Normalize(p)>> : p \in Path}
           IN  \A x, y \in named : x[1] = y[1] => x[2] = y[2]
=============================================================================
