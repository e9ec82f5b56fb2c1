-------------------------- MODULE StubCache_proofs --------------------------
(***************************************************************************)
(* Proofs about StubCache, the project model it resolves and the URIs of   *)
(* files, for any workspace, JDKs, jars, classes and paths, and any number *)
(* of starts.                                                              *)
(***************************************************************************)
EXTENDS StubCache, FoldLemmas, SequenceTheorems

(***************************************************************************)
(* The types of what is resolved.                                          *)
(***************************************************************************)

Dir == Seq(Name)
ChildRecord == [absolute : BOOLEAN, names : Dir]
CallRecord == [dir : Dir, depth : Nat]
ModuleRecord == [root : Dir, source_dirs : Seq(Dir), classpath : Seq(Entry)]
LineRecord ==
    [tag : {"PROJECT", "SOURCE_DIR", "other"}, value : Dir]
    \cup [tag : {"CLASSPATH_ENTRY"}, value : Entry]

\* What Maven is asked about is there; what Gradle printed are lines of modules.
ResolveInv ==
    /\ project \in Project
    /\ resolution \in {"idle", "collect", "aborted", "read", "run_gradle", "parse", "done",
                       "failed"}
    /\ calls \in Seq(CallRecord)
    /\ todo \in Seq(Dir) /\ dirs \in Seq(Dir)
    /\ \A j \in DOMAIN dirs : Exists(dirs[j])
    /\ resolution = "read" => \A j \in DOMAIN todo : Exists(todo[j])
    /\ output \in Seq(LineRecord) /\ parsed \in Nat
    /\ model \in Seq(ModuleRecord)

\* The names in a directory, as paths.
LEMMA PathsBelow ==
    ASSUME NEW path \in Dir, NEW names \in Seq(Name)
    PROVE  [k \in DOMAIN names |-> Append(path, names[k])] \in Seq(Dir)
  <1> DEFINE f == [k \in DOMAIN names |-> Append(path, names[k])]
  <1>1. Len(names) \in Nat /\ DOMAIN names = 1..Len(names)
    BY LenProperties
  <1>2. \A k \in 1..Len(names) : Append(path, names[k]) \in Dir
    BY ElementOfSeq, AppendProperties DEF Dir
  <1>3. f \in [1..Len(names) -> Dir]
    BY <1>1, <1>2
  <1>4. f \in Seq(Dir)
    <2> HIDE DEF f
    <2>1. Seq(Dir) = UNION {[1..n -> Dir] : n \in Nat}
      BY SeqDef
    <2> QED
      BY <1>1, <1>3, <2>1
  <1> QED
    BY <1>4

\* What a directory that exists says is typed.
LEMMA ModuleAt ==
    ASSUME project \in Project, NEW path, Exists(path)
    PROVE  /\ At(path).children \in Seq(ChildRecord)
           /\ At(path).sources \in Seq(Name)
           /\ At(path).classpath \in Seq(Entry)
  BY ProjectModelAssumption DEF Exists, At, ChildRecord, Dir

\* A path joined to another is one.
LEMMA JoinType ==
    ASSUME NEW path \in Dir, NEW child \in ChildRecord
    PROVE  Join(path, child) \in Dir
  <1>1. child.names \in Dir
    BY DEF ChildRecord
  <1>2. path \o child.names \in Dir
    BY <1>1, ConcatProperties DEF Dir
  <1> QED
    BY <1>1, <1>2 DEF Join

\* The calls for the modules that a pom names, as many as it names.
LEMMA CallsType ==
    ASSUME project \in Project, NEW call \in CallRecord, Exists(call.dir)
    PROVE  LET children == At(call.dir).children
           IN  /\ CallsBelow(call) \in Seq(CallRecord)
               /\ DOMAIN CallsBelow(call) = DOMAIN children
               /\ \A k \in DOMAIN children :
                     /\ children[k] \in ChildRecord
                     /\ CallsBelow(call)[k] = Call(Join(call.dir, children[k]), call.depth + 1)
  <1> DEFINE children == At(call.dir).children
             f == CallsBelow(call)
  <1>1. /\ Len(children) \in Nat /\ DOMAIN children = 1..Len(children)
        /\ \A k \in 1..Len(children) : children[k] \in ChildRecord
    <2>1. children \in Seq(ChildRecord)
      BY ModuleAt
    <2> QED
      BY <2>1, LenProperties, ElementOfSeq
  <1>2. f = [k \in DOMAIN children |-> Call(Join(call.dir, children[k]), call.depth + 1)]
    BY DEF CallsBelow
  <1> HIDE DEF children, f
  <1>3. \A k \in 1..Len(children) : Call(Join(call.dir, children[k]), call.depth + 1) \in CallRecord
    <2> TAKE k \in 1..Len(children)
    <2>1. call.dir \in Dir /\ call.depth + 1 \in Nat /\ children[k] \in ChildRecord
      BY <1>1 DEF CallRecord
    <2>2. Join(call.dir, children[k]) \in Dir
      BY <2>1, JoinType
    <2> QED
      BY <2>1, <2>2 DEF Call, CallRecord
  <1>4. f \in [1..Len(children) -> CallRecord]
    BY <1>1, <1>2, <1>3
  <1>5. f \in Seq(CallRecord)
    <2>1. Seq(CallRecord) = UNION {[1..n -> CallRecord] : n \in Nat}
      BY SeqDef
    <2> QED
      BY <1>1, <1>4, <2>1
  <1> QED
    BY <1>1, <1>2, <1>5 DEF children, f

\* So are its source directories, there or not.
LEMMA SourceDirsType ==
    ASSUME project \in Project, NEW path \in Dir
    PROVE  StandardSourceDirs(path) \in Seq(Dir)
  <1>1. CASE Exists(path)
    BY <1>1, ModuleAt, PathsBelow DEF StandardSourceDirs
  <1>2. CASE ~Exists(path)
    BY <1>2, EmptySeq DEF StandardSourceDirs
  <1> QED
    BY <1>1, <1>2

\* A record with these fields.
LEMMA ModuleType ==
    ASSUME NEW root \in Dir, NEW sources_ \in Seq(Dir), NEW classpath \in Seq(Entry)
    PROVE  Module(root, sources_, classpath) \in ModuleRecord
  BY DEF Module, ModuleRecord

---------------------------------------------------------------------------
\* The sum over finitely many modules of finitely many lines is finite.
LEMMA FiniteLines ==
    ASSUME NEW D, IsFiniteSet(D), NEW size \in [D -> Nat]
    PROVE  IsFiniteSet(UNION {{d} \X (1..size[d]) : d \in D})
  <1> DEFINE c == Cardinality(D)
  <1>0. c \in Nat /\ ExistsBijection(1..c, D)
    BY FS_CardinalityType
  <1> HIDE DEF c
  <1>1. PICK f \in [1..c -> D] : \A d \in D : \E j \in 1..c : f[j] = d
    BY <1>0 DEF ExistsBijection, Bijection, Injection, Surjection
  <1> DEFINE Of(j) == {f[j]} \X (1..size[f[j]])
             Upto(m) == UNION {Of(j) : j \in 1..m}
             Holds(m) == m <= c => IsFiniteSet(Upto(m))
             T == {m \in Nat : Holds(m)}
  <1>2. ASSUME NEW j \in 1..c PROVE IsFiniteSet(Of(j))
    <2>1. f[j] \in D /\ size[f[j]] \in Nat
      OBVIOUS
    <2> DEFINE g == [k \in 1..size[f[j]] |-> <<f[j], k>>]
    <2>2. g \in Surjection(1..size[f[j]], Of(j))
      <3>1. g \in [1..size[f[j]] -> Of(j)]
        OBVIOUS
      <3>2. \A p \in Of(j) : \E k \in 1..size[f[j]] : g[k] = p
        OBVIOUS
      <3> QED
        BY <3>1, <3>2 DEF Surjection
    <2>3. IsFiniteSet(1..size[f[j]])
      BY <2>1, FS_Interval
    <2> QED
      BY <2>2, <2>3, FS_Surjection
  <1>3. Holds(0)
    <2>1. Upto(0) = {}
      OBVIOUS
    <2> QED
      BY <2>1, FS_EmptySet
  <1>4. ASSUME NEW m \in Nat, Holds(m) PROVE Holds(m + 1)
    <2> SUFFICES ASSUME m + 1 <= c PROVE IsFiniteSet(Upto(m + 1))
      OBVIOUS
    <2>1. Upto(m + 1) = Upto(m) \cup Of(m + 1)
      <3>1. 1..(m + 1) = (1..m) \cup {m + 1}
        BY NextPosition
      <3> HIDE DEF Of
      <3> QED
        BY <3>1
    <2>2. IsFiniteSet(Upto(m)) /\ IsFiniteSet(Of(m + 1))
      <3>1. m + 1 \in 1..c /\ m <= c
        BY <1>0
      <3> HIDE DEF Upto, Of
      <3> QED
        BY <1>2, <1>4, <3>1
    <2> HIDE DEF Upto, Of
    <2> QED
      BY <2>1, <2>2, FS_Union
  <1>5. Holds(c)
    <2> HIDE DEF Holds
    <2>1. 0 \in T /\ \A m \in Nat : m \in T => m + 1 \in T
      BY <1>3, <1>4
    <2> HIDE DEF T
    <2>2. c \in T
      BY <1>0, <2>1, SetInduction
    <2> QED
      BY <2>2 DEF T
  <1>6. UNION {{d} \X (1..size[d]) : d \in D} \subseteq Upto(c)
    <2> SUFFICES ASSUME NEW d \in D
                 PROVE  {d} \X (1..size[d]) \subseteq Upto(c)
      OBVIOUS
    <2>1. PICK j \in 1..c : f[j] = d
      BY <1>1
    <2>2. {d} \X (1..size[d]) = Of(j)
      BY <2>1
    <2> HIDE DEF Of
    <2> QED
      BY <2>2
  <1>7. IsFiniteSet(Upto(c))
    BY <1>0, <1>5
  <1> HIDE DEF Upto
  <1> QED
    BY <1>6, <1>7, FS_Subset

\* What the task of one module prints.
LEMMA LinesType ==
    ASSUME project \in Project, NEW dir \in DOMAIN project.modules
    PROVE  ModuleLines(dir) \in Seq(LineRecord)
  <1> DEFINE m == project.modules[dir]
             first == <<Line("PROJECT", dir)>>
             middle == [k \in DOMAIN m.sources |->
                           Line("SOURCE_DIR", Append(dir, m.sources[k]))]
             last == [k \in DOMAIN m.classpath |-> Line("CLASSPATH_ENTRY", m.classpath[k])]
  <1>1. /\ dir \in Dir /\ m.sources \in Seq(Name) /\ m.classpath \in Seq(Entry)
        /\ Seq(LineRecord) = UNION {[1..n -> LineRecord] : n \in Nat}
    BY ProjectModelAssumption, SeqDef DEF Dir
  <1>2. /\ Len(m.sources) \in Nat /\ DOMAIN m.sources = 1..Len(m.sources)
        /\ Len(m.classpath) \in Nat /\ DOMAIN m.classpath = 1..Len(m.classpath)
    BY <1>1, LenProperties
  <1> HIDE DEF m
  <1>3. first \in Seq(LineRecord)
    <2>1. Line("PROJECT", dir) \in LineRecord
      BY <1>1 DEF Line, LineRecord
    <2> QED
      BY <2>1
  <1>4. middle \in Seq(LineRecord)
    <2>1. \A k \in 1..Len(m.sources) :
             Line("SOURCE_DIR", Append(dir, m.sources[k])) \in LineRecord
      <3> TAKE k \in 1..Len(m.sources)
      <3>1. Append(dir, m.sources[k]) \in Dir
        BY <1>1, ElementOfSeq, AppendProperties DEF Dir
      <3> QED
        BY <3>1 DEF Line, LineRecord
    <2>2. middle \in [1..Len(m.sources) -> LineRecord]
      BY <1>2, <2>1
    <2> HIDE DEF middle
    <2> QED
      BY <1>1, <1>2, <2>2
  <1>5. last \in Seq(LineRecord)
    <2>1. \A k \in 1..Len(m.classpath) :
             Line("CLASSPATH_ENTRY", m.classpath[k]) \in LineRecord
      <3> TAKE k \in 1..Len(m.classpath)
      <3>1. m.classpath[k] \in Entry
        BY <1>1, ElementOfSeq
      <3> QED
        BY <3>1 DEF Line, LineRecord
    <2>2. last \in [1..Len(m.classpath) -> LineRecord]
      BY <1>2, <2>1
    <2> HIDE DEF last
    <2> QED
      BY <1>1, <1>2, <2>2
  <1>6. ModuleLines(dir) = (first \o middle) \o last
    BY DEF ModuleLines, m
  <1> HIDE DEF first, middle, last
  <1>7. first \o middle \in Seq(LineRecord)
    BY <1>3, <1>4, ConcatProperties
  <1> QED
    BY <1>5, <1>6, <1>7, ConcatProperties

\* How many lines of its module a task has printed with the k-th line of all.
Before(turn, k) == Cardinality({j \in 1..k : turn[j] = turn[k]})

\* All of them print in turns; each line is the next of its module's.
LEMMA PrintedInTurns ==
    ASSUME project \in Project, NEW lines \in Printed
    PROVE  \E n \in Nat : \E turn \in [1..n -> DOMAIN project.modules] :
              /\ lines = [k \in 1..n |-> ModuleLines(turn[k])[Before(turn, k)]]
              /\ \A k \in 1..n : Before(turn, k) \in 1..Len(ModuleLines(turn[k]))
  <1> DEFINE modules == DOMAIN project.modules
             size == [d \in modules |-> Len(ModuleLines(d))]
             n == Cardinality(UNION {{d} \X DOMAIN ModuleLines(d) : d \in modules})
             Places_(turn, d) == {k \in 1..n : turn[k] = d}
             Until(turn, k) == {j \in 1..k : turn[j] = turn[k]}
  <1>1. \A d \in modules : /\ ModuleLines(d) \in Seq(LineRecord)
                           /\ Len(ModuleLines(d)) \in Nat
                           /\ DOMAIN ModuleLines(d) = 1..Len(ModuleLines(d))
    BY LinesType, LenProperties
  <1>2. size \in [modules -> Nat] /\ IsFiniteSet(modules)
    BY <1>1, ProjectModelAssumption
  <1>3. n \in Nat
    <2>1. IsFiniteSet(UNION {{d} \X (1..size[d]) : d \in modules})
      <3> HIDE DEF modules, size
      <3> QED
        BY <1>2, FiniteLines
    <2>2. UNION {{d} \X (1..size[d]) : d \in modules}
          = UNION {{d} \X DOMAIN ModuleLines(d) : d \in modules}
      BY <1>1
    <2> QED
      BY <2>1, <2>2, FS_CardinalityType
  <1>4. PICK turn \in [1..n -> modules] :
            /\ \A d \in modules : Cardinality(Places_(turn, d)) = Len(ModuleLines(d))
            /\ lines = [k \in 1..n |-> ModuleLines(turn[k])[Cardinality(Until(turn, k))]]
    BY DEF Printed
  <1> HIDE DEF n
  <1>5. ASSUME NEW k \in 1..n
        PROVE  Before(turn, k) \in 1..Len(ModuleLines(turn[k]))
    <2> DEFINE U == Until(turn, k)
               P == Places_(turn, turn[k])
    <2>1. IsFiniteSet(P)
      <3>1. IsFiniteSet(1..n)
        BY <1>3, FS_Interval
      <3> QED
        BY <3>1, FS_Subset
    <2>2. U \subseteq P /\ k \in U
      BY <1>3
    <2>3. turn[k] \in modules /\ Cardinality(P) = Len(ModuleLines(turn[k]))
      BY <1>4
    <2> HIDE DEF U, P
    <2>4. IsFiniteSet(U) /\ Cardinality(U) <= Cardinality(P) /\ Cardinality(U) \in Nat
          /\ Cardinality(U) # 0
      <3>1. IsFiniteSet(U) /\ Cardinality(U) <= Cardinality(P)
        BY <2>1, <2>2, FS_Subset
      <3> QED
        BY <2>2, <3>1, FS_CardinalityType, FS_EmptySet
    <2>5. Cardinality(U) \in 1..Len(ModuleLines(turn[k]))
      BY <1>1, <2>3, <2>4
    <2> QED
      BY <2>5 DEF U, Before
  <1>6. lines = [k \in 1..n |-> ModuleLines(turn[k])[Before(turn, k)]]
    BY <1>4 DEF Before
  <1> QED
    BY <1>3, <1>5, <1>6

\* So what is printed are lines.
LEMMA PrintedType ==
    ASSUME project \in Project, NEW lines \in Printed
    PROVE  lines \in Seq(LineRecord)
  <1>1. PICK n \in Nat : \E turn \in [1..n -> DOMAIN project.modules] :
            /\ lines = [k \in 1..n |-> ModuleLines(turn[k])[Before(turn, k)]]
            /\ \A k \in 1..n : Before(turn, k) \in 1..Len(ModuleLines(turn[k]))
    BY PrintedInTurns
  <1>2. PICK turn \in [1..n -> DOMAIN project.modules] :
            /\ lines = [k \in 1..n |-> ModuleLines(turn[k])[Before(turn, k)]]
            /\ \A k \in 1..n : Before(turn, k) \in 1..Len(ModuleLines(turn[k]))
    BY <1>1
  <1>3. \A k \in 1..n : ModuleLines(turn[k])[Before(turn, k)] \in LineRecord
    BY <1>2, LinesType, ElementOfSeq
  <1>4. lines \in [1..n -> LineRecord]
    BY <1>2, <1>3
  <1> QED
    BY <1>4, SeqDef

---------------------------------------------------------------------------
\* Before the model is resolved nothing is.
LEMMA ResolveInit ==
    ASSUME project \in Project, Unresolved
    PROVE  ResolveInv
  <1>1. /\ <<>> \in Seq(Dir) /\ <<>> \in Seq(LineRecord) /\ <<>> \in Seq(ModuleRecord)
        /\ <<>> \in Seq(CallRecord) /\ DOMAIN <<>> = {}
    BY EmptySeq
  <1> QED
    BY <1>1 DEF Unresolved, ResolveInv

\* What is left of a list of directories that are there is there.
LEMMA RestExists ==
    ASSUME NEW list \in Seq(Dir), list # <<>>, \A j \in DOMAIN list : Exists(list[j])
    PROVE  /\ Head(list) \in Dir /\ Exists(Head(list))
           /\ Tail(list) \in Seq(Dir)
           /\ \A j \in DOMAIN Tail(list) : Exists(Tail(list)[j])
  <1>1. /\ Head(list) \in Dir /\ Tail(list) \in Seq(Dir)
        /\ Len(Tail(list)) = Len(list) - 1
        /\ \A i \in 1..Len(Tail(list)) : Tail(list)[i] = list[i + 1]
    BY HeadTailProperties
  <1>2. /\ Len(list) \in Nat /\ DOMAIN list = 1..Len(list) /\ Len(list) # 0
        /\ DOMAIN Tail(list) = 1..Len(Tail(list))
    BY <1>1, LenProperties, EmptySeq
  <1>3. Head(list) = list[1]
    OBVIOUS
  <1> QED
    BY <1>1, <1>2, <1>3

\* Where a path leads depends on the project alone.
LEMMA ExistsSame ==
    ASSUME project' = project
    PROVE  \A path : Exists(path)' <=> Exists(path)
  BY DEF Exists

\* Every step of the resolution keeps the types.
LEMMA ResolveStep ==
    ASSUME ResolveInv, Resolve
    PROVE  ResolveInv'
  <1> USE DEF ResolveInv
  <1>0. Root \in Dir /\ <<>> \in Seq(Entry)
    BY EmptySeq DEF Root, Dir
  <1>1. CASE Detect
    <2>1. FallbackModule \in ModuleRecord
      <3>1. StandardSourceDirs(Root) \in Seq(Dir) /\ <<Root>> \in Seq(Dir)
        BY <1>0, SourceDirsType
      <3> QED
        BY <1>0, <3>1, ModuleType DEF FallbackModule
    <2>2. <<FallbackModule>> \in Seq(ModuleRecord) /\ <<Call(Root, 0)>> \in Seq(CallRecord)
      <3>1. Call(Root, 0) \in CallRecord
        BY <1>0 DEF Call, CallRecord
      <3> QED
        BY <2>1, <3>1
    <2>3. /\ project' = project /\ dirs' = dirs /\ output' = output /\ parsed' = parsed
          /\ model' \in {model, <<FallbackModule>>} /\ calls' \in {calls, <<Call(Root, 0)>>}
          /\ todo' = todo
          /\ resolution' \in {"run_gradle", "collect", "done"}
      BY <1>1 DEF Detect
    <2> QED
      BY <2>2, <2>3, ExistsSame
  <1>2. CASE CollectModule
    <2> DEFINE call == Head(calls)
               dir == call.dir
               below == CallsBelow(call)
    <2>1. call \in CallRecord /\ dir \in Dir /\ Tail(calls) \in Seq(CallRecord)
      <3>1. call \in CallRecord /\ Tail(calls) \in Seq(CallRecord)
        BY <1>2, HeadTailProperties DEF CollectModule
      <3> HIDE DEF call
      <3> QED
        BY <3>1 DEF CallRecord
    <2>2. /\ project' = project /\ resolution' = resolution /\ resolution = "collect"
          /\ todo' = todo /\ output' = output /\ parsed' = parsed /\ model' = model
      BY <1>2 DEF CollectModule
    <2>3. CASE ~Exists(dir)
      <3>1. calls' = Tail(calls) /\ dirs' = dirs
        BY <1>2, <2>3 DEF CollectModule
      <3> QED
        BY <2>1, <2>2, <3>1, ExistsSame
    <2>4. CASE Exists(dir)
      <3>1. calls' = below \o Tail(calls) /\ dirs' = Append(dirs, dir)
        BY <1>2, <2>4 DEF CollectModule
      <3>2. below \in Seq(CallRecord)
        BY <2>1, <2>4, CallsType
      <3> HIDE DEF below, call
      <3>3. calls' \in Seq(CallRecord)
        BY <2>1, <3>1, <3>2, ConcatProperties
      <3> HIDE DEF dir
      <3>4. /\ dirs' \in Seq(Dir) /\ Len(dirs') = Len(dirs) + 1
            /\ \A j \in 1..Len(dirs) : dirs'[j] = dirs[j]
            /\ dirs'[Len(dirs) + 1] = dir
        BY <2>1, <3>1, AppendProperties
      <3>5. Len(dirs) \in Nat /\ DOMAIN dirs = 1..Len(dirs) /\ DOMAIN dirs' = 1..Len(dirs')
        BY <3>4, LenProperties
      <3>6. ASSUME NEW j \in DOMAIN dirs' PROVE Exists(dirs'[j])
        <4>1. CASE j = Len(dirs) + 1
          BY <2>4, <3>4, <4>1
        <4>2. CASE j # Len(dirs) + 1
          <5>1. j \in DOMAIN dirs /\ dirs'[j] = dirs[j]
            BY <3>4, <3>5, <4>2
          <5> QED
            BY <5>1
        <4> QED
          BY <4>1, <4>2
      <3>7. (\A j \in DOMAIN dirs : Exists(dirs[j]))'
        BY <2>2, <3>6, ExistsSame
      <3> QED
        BY <2>2, <3>3, <3>4, <3>7
    <2> QED
      BY <2>3, <2>4
  <1>9. CASE Overflow
    <2>1. /\ project' = project /\ dirs' = dirs /\ output' = output /\ parsed' = parsed
          /\ resolution' = "aborted" /\ calls' = calls /\ todo' = todo /\ model' = model
      BY <1>9 DEF Overflow
    <2> QED
      BY <2>1, ExistsSame
  <1>3. CASE RunMaven
    <2>1. /\ project' = project /\ dirs' = dirs /\ output' = output /\ parsed' = parsed
          /\ model' = model /\ resolution' \in {"read", "failed"} /\ todo' \in {dirs, todo}
          /\ calls' = calls
          /\ resolution' = "read" => todo' = dirs
      BY <1>3 DEF RunMaven
    <2> QED
      BY <2>1, ExistsSame
  <1>4. CASE ReadModule
    <2> DEFINE new == Module(Head(todo), StandardSourceDirs(Head(todo)),
                             At(Head(todo)).classpath)
    <2>1. /\ Head(todo) \in Dir /\ Exists(Head(todo)) /\ Tail(todo) \in Seq(Dir)
          /\ \A j \in DOMAIN Tail(todo) : Exists(Tail(todo)[j])
      BY <1>4, RestExists DEF ReadModule
    <2>2. new \in ModuleRecord
      BY <2>1, ModuleAt, SourceDirsType, ModuleType
    <2>3. /\ project' = project /\ dirs' = dirs /\ output' = output /\ parsed' = parsed
          /\ resolution' = resolution /\ todo' = Tail(todo) /\ model' = Append(model, new)
          /\ calls' = calls
      BY <1>4 DEF ReadModule
    <2> HIDE DEF new
    <2>4. model' \in Seq(ModuleRecord)
      BY <2>2, <2>3, AppendProperties
    <2> QED
      BY <2>1, <2>3, <2>4, ExistsSame
  <1>5. CASE EndMaven
    <2>1. /\ project' = project /\ dirs' = dirs /\ output' = output /\ parsed' = parsed
          /\ resolution' = "done" /\ calls' = calls /\ todo' = todo /\ model' = model
      BY <1>5 DEF EndMaven
    <2> QED
      BY <2>1, ExistsSame
  <1>6. CASE RunGradle
    <2>1. /\ project' = project /\ dirs' = dirs /\ parsed' = parsed
          /\ resolution' \in {"parse", "failed"} /\ todo' = todo /\ model' = model
          /\ calls' = calls
          /\ output' = output \/ \E lines \in Printed : output' = <<Line("other", Root)>> \o lines
      BY <1>6 DEF RunGradle
    <2>2. output' \in Seq(LineRecord)
      <3>1. <<Line("other", Root)>> \in Seq(LineRecord)
        <4>1. Line("other", Root) \in LineRecord
          BY <1>0 DEF Line, LineRecord
        <4> QED
          BY <4>1
      <3>2. ASSUME NEW lines \in Printed, output' = <<Line("other", Root)>> \o lines
            PROVE  output' \in Seq(LineRecord)
        <4>1. lines \in Seq(LineRecord)
          BY PrintedType
        <4> QED
          BY <3>1, <3>2, <4>1, ConcatProperties
      <3> QED
        BY <2>1, <3>2
    <2> QED
      BY <2>1, <2>2, ExistsSame
  <1>7. CASE ParseLine
    <2> DEFINE line == output[parsed + 1]
               last == Len(model)
               sourced == [model EXCEPT ![last].source_dirs = Append(@, line.value)]
               entered == [model EXCEPT ![last].classpath = Append(@, line.value)]
    <2>1. /\ project' = project /\ dirs' = dirs /\ parsed' = parsed + 1 /\ output' = output
          /\ resolution' = resolution /\ todo' = todo /\ parsed < Len(output)
          /\ calls' = calls
      BY <1>7 DEF ParseLine
    <2>2. line \in LineRecord
      <3>1. Len(output) \in Nat /\ parsed + 1 \in 1..Len(output)
        BY <2>1, LenProperties
      <3> QED
        BY <3>1, ElementOfSeq
    <2>3. last \in Nat /\ DOMAIN model = 1..last /\ model \in [1..last -> ModuleRecord]
          /\ Seq(ModuleRecord) = UNION {[1..n -> ModuleRecord] : n \in Nat}
      BY LenProperties, SeqDef
    <2>4. \/ line.tag = "PROJECT" /\ model' = Append(model, Module(line.value, <<>>, <<>>))
          \/ line.tag = "SOURCE_DIR" /\ last > 0 /\ model' = sourced
          \/ line.tag = "CLASSPATH_ENTRY" /\ last > 0 /\ model' = entered
          \/ model' = model
      BY <1>7 DEF ParseLine
    <2> HIDE DEF line
    <2>5. CASE line.tag = "PROJECT" /\ model' = Append(model, Module(line.value, <<>>, <<>>))
      <3>1. line.value \in Dir /\ <<>> \in Seq(Dir)
        BY <2>2, <2>5, EmptySeq DEF LineRecord
      <3>2. Module(line.value, <<>>, <<>>) \in ModuleRecord
        BY <1>0, <3>1, ModuleType
      <3>3. model' \in Seq(ModuleRecord)
        BY <2>5, <3>2, AppendProperties
      <3> QED
        BY <2>1, <3>3, ExistsSame
    <2>6. CASE line.tag = "SOURCE_DIR" /\ last > 0 /\ model' = sourced
      <3>1. line.value \in Dir
        BY <2>2, <2>6 DEF LineRecord
      <3>2. model[last] \in ModuleRecord
        BY <2>3, <2>6
      <3>3. Append(model[last].source_dirs, line.value) \in Seq(Dir)
        BY <3>1, <3>2, AppendProperties DEF ModuleRecord
      <3>4. [model[last] EXCEPT !.source_dirs = Append(model[last].source_dirs, line.value)]
            \in ModuleRecord
        BY <3>2, <3>3 DEF ModuleRecord
      <3>5. model' = [model EXCEPT ![last] =
                [model[last] EXCEPT !.source_dirs = Append(model[last].source_dirs, line.value)]]
        BY <2>3, <2>6
      <3>6. model' \in [1..last -> ModuleRecord]
        BY <2>3, <3>4, <3>5
      <3>7. model' \in Seq(ModuleRecord)
        <4> HIDE DEF last
        <4> QED
          BY <2>3, <3>6
      <3> QED
        BY <2>1, <3>7, ExistsSame
    <2>7. CASE line.tag = "CLASSPATH_ENTRY" /\ last > 0 /\ model' = entered
      <3>1. line.value \in Entry
        BY <2>2, <2>7 DEF LineRecord
      <3>2. model[last] \in ModuleRecord
        BY <2>3, <2>7
      <3>3. Append(model[last].classpath, line.value) \in Seq(Entry)
        BY <3>1, <3>2, AppendProperties DEF ModuleRecord
      <3>4. [model[last] EXCEPT !.classpath = Append(model[last].classpath, line.value)]
            \in ModuleRecord
        BY <3>2, <3>3 DEF ModuleRecord
      <3>5. model' = [model EXCEPT ![last] =
                [model[last] EXCEPT !.classpath = Append(model[last].classpath, line.value)]]
        BY <2>3, <2>7
      <3>6. model' \in [1..last -> ModuleRecord]
        BY <2>3, <3>4, <3>5
      <3>7. model' \in Seq(ModuleRecord)
        <4> HIDE DEF last
        <4> QED
          BY <2>3, <3>6
      <3> QED
        BY <2>1, <3>7, ExistsSame
    <2>8. CASE model' = model
      BY <2>1, <2>8, ExistsSame
    <2> QED
      BY <2>4, <2>5, <2>6, <2>7, <2>8
  <1>8. CASE EndGradle
    <2>1. /\ project' = project /\ dirs' = dirs /\ output' = output /\ parsed' = parsed
          /\ resolution' = "done" /\ calls' = calls /\ todo' = todo /\ model' = model
      BY <1>8 DEF EndGradle
    <2> QED
      BY <2>1, ExistsSame
  <1> QED
    BY <1>1, <1>2, <1>3, <1>4, <1>5, <1>6, <1>7, <1>8, <1>9 DEF Resolve

(***************************************************************************)
(* The queue of what is indexed.                                           *)
(***************************************************************************)

\* No two places of a sequence hold the same.
Distinct(s) == \A i, j \in 1..Len(s) : s[i] = s[j] => i = j

\* An entry goes to the end, unless it is there.
LEMMA AddOnceEffect ==
    ASSUME NEW s \in Seq(Entry), NEW e \in Entry
    PROVE  /\ AddOnce(s, e) \in Seq(Entry)
           /\ Distinct(s) => Distinct(AddOnce(s, e))
           /\ ToSet(AddOnce(s, e)) = ToSet(s) \cup {e}
  <1>1. Len(s) \in Nat /\ DOMAIN s = 1..Len(s)
    BY LenProperties
  <1>2. CASE Contains(s, e)
    <2>1. AddOnce(s, e) = s
      BY <1>2 DEF AddOnce
    <2>2. e \in ToSet(s)
      BY <1>1, <1>2 DEF Contains, ToSet
    <2> QED
      BY <2>1, <2>2
  <1>3. CASE ~Contains(s, e)
    <2> DEFINE t == Append(s, e)
    <2>1. AddOnce(s, e) = t
      BY <1>3 DEF AddOnce
    <2>2. /\ t \in Seq(Entry) /\ Len(t) = Len(s) + 1
          /\ \A i \in 1..Len(s) : t[i] = s[i]
          /\ t[Len(s) + 1] = e
      BY AppendProperties
    <2>3. DOMAIN t = 1..(Len(s) + 1)
      BY <2>2, LenProperties
    <2> HIDE DEF t
    <2>4. 1..(Len(s) + 1) = (1..Len(s)) \cup {Len(s) + 1}
      BY <1>1, NextPosition
    <2>5. \A i \in 1..Len(s) : s[i] # e
      BY <1>3 DEF Contains
    <2>6. Distinct(s) => Distinct(t)
      <3> SUFFICES ASSUME Distinct(s), NEW i \in 1..Len(t), NEW j \in 1..Len(t), t[i] = t[j]
                   PROVE  i = j
        BY DEF Distinct
      <3>1. i \in (1..Len(s)) \cup {Len(s) + 1} /\ j \in (1..Len(s)) \cup {Len(s) + 1}
        BY <2>2, <2>4
      <3>2. CASE i \in 1..Len(s) /\ j \in 1..Len(s)
        BY <2>2, <3>2 DEF Distinct
      <3>3. CASE i = Len(s) + 1 \/ j = Len(s) + 1
        BY <2>2, <2>5, <3>1, <3>3
      <3> QED
        BY <3>1, <3>2, <3>3
    <2>7. ToSet(t) = ToSet(s) \cup {e}
      <3>1. \A i \in 1..Len(s) : s[i] \in ToSet(t)
        BY <2>2, <2>3, <2>4 DEF ToSet
      <3>2. e \in ToSet(t)
        BY <1>1, <2>2, <2>3 DEF ToSet
      <3>3. ToSet(t) \subseteq ToSet(s) \cup {e}
        BY <1>1, <2>2, <2>3, <2>4 DEF ToSet
      <3> QED
        BY <1>1, <3>1, <3>2, <3>3 DEF ToSet
    <2> QED
      BY <2>1, <2>2, <2>6, <2>7
  <1> QED
    BY <1>2, <1>3

\* The entries added so far, after each of the list.
LEMMA FoldAddOnce ==
    ASSUME NEW list \in Seq(Entry)
    PROVE  \E g \in [0..Len(list) -> Seq(Entry)] :
               /\ g[0] = <<>>
               /\ \A n \in 1..Len(list) : g[n] = AddOnce(g[n - 1], list[n])
               /\ FoldLeft(AddOnce, <<>>, list) = g[Len(list)]
  <1> DEFINE N == Len(list)
             B == Seq(Entry)
             F == [p \in B \X (1..N) |-> AddOnce(p[1], list[p[2]])]
  <1>1. N \in Nat /\ DOMAIN list = 1..N /\ \A i \in 1..N : list[i] \in Entry
    BY LenProperties, ElementOfSeq
  <1>2. <<>> \in B
    BY EmptySeq
  <1> HIDE DEF N
  <1>3. F \in [B \X (1..N) -> B]
    BY <1>1, AddOnceEffect
  <1> HIDE DEF B
  <1>4. \E f \in [SUBSET (1..N) -> B] : IsFoldTable(f, N, <<>>, F)
    <2> HIDE DEF F
    <2> QED
      BY <1>1, <1>2, <1>3, FoldTable
  <1>5. PICK f \in [SUBSET (1..N) -> B] : \A s \in SUBSET (1..N) :
            f[s] = IF s = {} THEN <<>> ELSE F[<<f[s \ {Max(s)}], Max(s)>>]
    <2> HIDE DEF F
    <2> QED
      BY <1>4 DEF IsFoldTable
  <1>6. \A s \in SUBSET (1..N) :
            f[s] = IF s = {} THEN <<>> ELSE AddOnce(f[s \ {Max(s)}], list[Max(s)])
    <2> TAKE s \in SUBSET (1..N)
    <2>1. CASE s = {}
      BY <1>5, <2>1
    <2>2. CASE s # {}
      <3>1. Max(s) \in 1..N /\ s \ {Max(s)} \in SUBSET (1..N)
        BY <1>1, <2>2, MaxIsElement
      <3>2. f[s] = F[<<f[s \ {Max(s)}], Max(s)>>]
        BY <1>5, <2>2
      <3> QED
        BY <2>2, <3>1, <3>2
    <2> QED
      BY <2>1, <2>2
  <1> DEFINE Table(i) == i = [s \in SUBSET (1..N) |->
                              IF s = {} THEN <<>> ELSE AddOnce(i[s \ {Max(s)}], list[Max(s)])]
             iter == CHOOSE i : Table(i)
             g == [n \in 0..N |-> iter[1..n]]
  <1>7. Table(f)
    BY <1>6
  <1>8. Table(iter)
    <2> HIDE DEF Table
    <2> QED
      BY <1>7
  <1>9. FoldLeft(AddOnce, <<>>, list) = iter[1..N]
    BY <1>1 DEF FoldLeft, MapThenFoldSet
  <1> HIDE DEF iter
  <1>10. iter[1..0] = <<>>
    BY <1>1, <1>8
  <1>11. ASSUME NEW n \in 1..N PROVE iter[1..n] = AddOnce(iter[1..(n - 1)], list[n])
    <2>1. 1..n \in SUBSET (1..N) /\ 1..n # {} /\ Max(1..n) = n /\ 1..n \ {n} = 1..(n - 1)
      BY <1>1, FirstPositions
    <2> QED
      BY <1>8, <2>1
  <1> DEFINE Holds(n) == n <= N => iter[1..n] \in B
             T == {n \in Nat : Holds(n)}
  <1>12. Holds(0)
    BY <1>2, <1>10
  <1>13. ASSUME NEW n \in Nat, Holds(n) PROVE Holds(n + 1)
    <2> SUFFICES ASSUME n + 1 <= N PROVE iter[1..(n + 1)] \in B
      OBVIOUS
    <2>1. n + 1 \in 1..N /\ iter[1..n] \in B /\ (n + 1) - 1 = n
      BY <1>1, <1>13
    <2>2. iter[1..(n + 1)] = AddOnce(iter[1..n], list[n + 1])
      BY <1>11, <2>1
    <2>3. list[n + 1] \in Entry /\ iter[1..n] \in Seq(Entry)
      BY <1>1, <2>1 DEF B
    <2>4. AddOnce(iter[1..n], list[n + 1]) \in Seq(Entry)
      <3> HIDE DEF iter
      <3> QED
        BY <2>3, AddOnceEffect
    <2> QED
      BY <2>2, <2>4 DEF B
  <1>14. \A n \in 0..N : iter[1..n] \in B
    <2>1. 0 \in T /\ \A n \in Nat : n \in T => n + 1 \in T
      <3> HIDE DEF Holds
      <3> QED
        BY <1>12, <1>13
    <2>2. Nat \subseteq T
      <3> HIDE DEF T
      <3> QED
        BY <2>1, SetInduction
    <2> QED
      BY <1>1, <2>2
  <1>15. g \in [0..N -> B] /\ g[0] = <<>> /\ g[N] = iter[1..N]
    BY <1>1, <1>10, <1>14
  <1>16. \A n \in 1..N : g[n] = AddOnce(g[n - 1], list[n])
    BY <1>1, <1>11
  <1> QED
    BY <1>9, <1>15, <1>16 DEF N, B

\* Each entry of the list is there, once.
LEMMA OnceEach ==
    ASSUME NEW list \in Seq(Entry)
    PROVE  LET once == FoldLeft(AddOnce, <<>>, list)
           IN  once \in Seq(Entry) /\ Distinct(once) /\ ToSet(once) = ToSet(list)
  <1> DEFINE N == Len(list)
  <1>1. PICK g \in [0..N -> Seq(Entry)] :
            /\ g[0] = <<>>
            /\ \A n \in 1..N : g[n] = AddOnce(g[n - 1], list[n])
            /\ FoldLeft(AddOnce, <<>>, list) = g[N]
    BY FoldAddOnce
  <1>2. N \in Nat /\ DOMAIN list = 1..N /\ \A i \in 1..N : list[i] \in Entry
    BY LenProperties, ElementOfSeq
  <1> HIDE DEF N
  <1> DEFINE Holds(n) == n <= N => Distinct(g[n]) /\ ToSet(g[n]) = {list[i] : i \in 1..n}
             T == {n \in Nat : Holds(n)}
  <1>3. Holds(0)
    <2>1. Len(<<>>) = 0 /\ DOMAIN <<>> = {}
      OBVIOUS
    <2> QED
      BY <1>1, <2>1 DEF Distinct, ToSet
  <1>4. ASSUME NEW n \in Nat, Holds(n) PROVE Holds(n + 1)
    <2> SUFFICES ASSUME n + 1 <= N
                 PROVE  Distinct(g[n + 1]) /\ ToSet(g[n + 1]) = {list[i] : i \in 1..(n + 1)}
      OBVIOUS
    <2>1. n + 1 \in 1..N /\ n \in 0..N /\ n <= N /\ (n + 1) - 1 = n
      BY <1>2
    <2>2. g[n] \in Seq(Entry) /\ list[n + 1] \in Entry /\ g[n + 1] = AddOnce(g[n], list[n + 1])
      BY <1>1, <1>2, <2>1
    <2>3. Distinct(g[n]) /\ ToSet(g[n]) = {list[i] : i \in 1..n}
      BY <1>4, <2>1
    <2>4. Distinct(g[n + 1]) /\ ToSet(g[n + 1]) = ToSet(g[n]) \cup {list[n + 1]}
      BY <2>2, <2>3, AddOnceEffect
    <2>5. 1..(n + 1) = (1..n) \cup {n + 1}
      BY NextPosition
    <2> QED
      BY <2>3, <2>4, <2>5
  <1>5. Holds(N)
    <2> HIDE DEF Holds
    <2>1. 0 \in T /\ \A n \in Nat : n \in T => n + 1 \in T
      BY <1>3, <1>4
    <2> HIDE DEF T
    <2>2. N \in T
      BY <1>2, <2>1, SetInduction
    <2> QED
      BY <2>2 DEF T
  <1>6. Distinct(g[N]) /\ ToSet(g[N]) = {list[i] : i \in 1..N} /\ g[N] \in Seq(Entry)
    BY <1>2, <1>5
  <1> QED
    BY <1>1, <1>2, <1>6 DEF ToSet

(***************************************************************************)
(* The inductive invariant.                                                *)
(***************************************************************************)

Source == Entry \cup {Jdk}
Told == Content \cup {Absent, Empty}
Hidden == Internal \cup Nameless
Stamp == {h.stamp : h \in {g \in Home : g.java}}

AtWork == step \in {"class", "create", "write", "show"}
IsImage(source) == source = Jdk /\ ~InJar(JdkHome)

\* What is gone through of a source: what there is of an image, or all of a jar.
Work(source) == IF IsImage(source) THEN Extracted.classes ELSE Contents(source)

\* How many sources are behind, and how many classes of the one in work.
Done == Len(Sources) - Len(sources)
Taken == IF AtWork THEN Len(Work(Head(sources))) - Len(classes) ELSE 0

TypeInv ==
    /\ session \in 1..MaxSession /\ installed \in Installation
    /\ step \in {"resolve", "source", "extract", "class", "create", "write", "show", "quiet"}
    /\ stubs \in [Class -> Told] /\ index \in [Class -> Told]
    /\ base \in [Stamp -> [dir : BOOLEAN, classes : Seq(Held)]]
    /\ sources \in Seq(Source) /\ classes \in Seq(Held)

\* What was extracted is the beginning of what there is, whoever extracted it.
BaseInv ==
    /\ \A s \in Stamp : ~base[s].dir => base[s].classes = <<>>
    /\ \A h \in Home : h.java =>
          /\ Len(base[h.stamp].classes) <= Len(h.classes)
          /\ \A j \in 1..Len(base[h.stamp].classes) : base[h.stamp].classes[j] = h.classes[j]

\* The sources left are the end of the queue, the classes left that of their
\* source.
PlaceInv ==
    /\ step \in {"source", "extract"} \/ AtWork => resolution = "done"
    /\ step = "quiet" => resolution \in {"done", "failed"}
    /\ step = "resolve" \/ resolution # "done" => sources = <<>>
    /\ step # "resolve" /\ resolution = "done" =>
          /\ Len(sources) <= Len(Sources)
          /\ \A i \in 1..Len(sources) : sources[i] = Sources[Done + i]
          /\ step = "quiet" => sources = <<>>
    /\ step = "extract" \/ AtWork => sources # <<>>
    /\ AtWork => /\ IsImage(Head(sources)) \/ Contents(Head(sources)) \in Seq(Held)
                 /\ Len(classes) <= Len(Work(Head(sources)))
                 /\ \A j \in 1..Len(classes) : classes[j] = Work(Head(sources))[Taken + j]
    /\ step \in {"create", "write", "show"} => classes # <<>> /\ ~Skipped(Head(classes))
    /\ step = "create" => stubs[Head(classes).name] = Absent
    /\ step = "write" => stubs[Head(classes).name] = Empty

\* A JDK that is not read yet is as the session found it; one that is read is
\* whole unless something stood in the way.
JdkInv ==
    /\ step = "resolve" => base = found.base /\ Jdk \notin failed
    /\ step = "source" /\ (\E i \in 1..Len(sources) : sources[i] = Jdk) =>
          base = found.base /\ Jdk \notin failed
    /\ step = "extract" =>
          /\ IsImage(Head(sources)) /\ ~found.base[JdkHome.stamp].dir /\ Jdk \notin failed
    /\ AtWork /\ IsImage(Head(sources)) /\ WholeJdk => Extracted.classes = JdkHome.classes

Excused(k) ==
    \/ k \in failed
    \/ found.stubs[k] \notin {Absent, Current(k)}
    \/ First(k) = Jdk /\ ~WholeJdk

\* Whether the place a class is to be taken from is behind.
Reached(k) ==
    LET i == Min(Providers(k))
        j == Min(Places(First(k), k))
    IN  i <= Done \/ (i = Done + 1 /\ j <= Taken)

InWork(k) == step \in {"write", "show"} /\ Head(classes).name = k

\* A class that nothing stands in the way of is as the session found it until
\* it is reached, and what the first source has of it from then on.
ClassOk(k) ==
    IF Providers(k) = {} THEN index[k] = Absent
    ELSE \/ Excused(k)
         \/ Reached(k) /\ stubs[k] = Current(k) /\ index[k] = Current(k)
         \/ /\ ~Reached(k) /\ index[k] = Absent
            /\ ~InWork(k) => stubs[k] = found.stubs[k]
            /\ InWork(k) /\ step = "show" => stubs[k] = Current(k)

ClassInv ==
    /\ step = "resolve" => stubs = found.stubs /\ \A k \in Class : index[k] = Absent
    /\ \A k \in Hidden : index[k] = Absent
    /\ step # "resolve" /\ resolution = "done" => \A k \in Class \ Hidden : ClassOk(k)

CacheInv == ResolveInv /\ TypeInv /\ BaseInv /\ PlaceInv /\ JdkInv /\ ClassInv

(***************************************************************************)
(* Facts about a state.                                                    *)
(***************************************************************************)

\* A JDK that is located is one that may be.
LEMMA JdkIsHome ==
    ASSUME installed \in Installation, Located(installed) # {}
    PROVE  JdkHome \in Home /\ JdkHome.java
  <1> DEFINE homes == Tried(installed)
             l == Located(installed)
  <1>1. homes \in Seq(Home)
    <2>1. installed.javaHome \in Home /\ installed.path \in Seq(Home)
      BY StubCacheAssumption
    <2>2. <<installed.javaHome>> \in Seq(Home)
      BY <2>1
    <2> QED
      BY <2>1, <2>2, ConcatProperties DEF Tried
  <1>2. Len(homes) \in Nat /\ DOMAIN homes = 1..Len(homes)
    BY <1>1, LenProperties
  <1>3. l \in SUBSET Nat /\ \A n \in l : n \in 1..Len(homes) /\ homes[n].java
    BY <1>2 DEF Located
  <1> HIDE DEF l
  <1>4. Min(l) \in l
    BY <1>3, MinIsElement DEF l
  <1> HIDE DEF homes
  <1>5. homes[Min(l)] \in Home /\ homes[Min(l)].java
    BY <1>1, <1>3, <1>4, ElementOfSeq
  <1> QED
    BY <1>5 DEF JdkHome, l, homes

\* The JDK first, then every entry of every module, each once.
LEMMA QueueIs ==
    ASSUME NEW i, NEW modules \in Seq(ModuleRecord)
    PROVE  /\ Queue(i, modules) \in Seq(Source) /\ Distinct(Queue(i, modules))
           /\ \A n \in 1..Len(Queue(i, modules)) :
                 Queue(i, modules)[n] = Jdk => n = 1 /\ Located(i) # {}
           /\ ToSet(Queue(i, modules)) =
                 (IF Located(i) # {} THEN {Jdk} ELSE {})
                 \cup UNION {ToSet(modules[m].classpath) : m \in DOMAIN modules}
  <1> DEFINE paths == [m \in DOMAIN modules |-> modules[m].classpath]
             all == AllEntries(modules)
             once == FoldLeft(AddOnce, <<>>, all)
             first == JdkFirst(i)
             q == first \o once
  <1>1. Len(modules) \in Nat /\ DOMAIN modules = 1..Len(modules)
    BY LenProperties
  <1>2. paths \in Seq(Seq(Entry)) /\ DOMAIN paths = DOMAIN modules
    <2>1. ASSUME NEW m \in 1..Len(modules) PROVE modules[m].classpath \in Seq(Entry)
      <3>1. modules[m] \in ModuleRecord
        BY ElementOfSeq
      <3> QED
        BY <3>1 DEF ModuleRecord
    <2>2. paths \in [1..Len(modules) -> Seq(Entry)]
      BY <1>1, <2>1
    <2> HIDE DEF paths
    <2>3. Seq(Seq(Entry)) = UNION {[1..n -> Seq(Entry)] : n \in Nat}
      BY SeqDef
    <2> QED
      BY <1>1, <2>2, <2>3
  <1>3. all \in Seq(Entry)
        /\ ToSet(all) = UNION {ToSet(modules[m].classpath) : m \in DOMAIN modules}
    <2>1. all = FlattenSeq(paths)
      BY DEF AllEntries
    <2>2. \A m \in DOMAIN paths : paths[m] = modules[m].classpath
      OBVIOUS
    <2> HIDE DEF paths
    <2>3. FlattenSeq(paths) \in Seq(Entry)
          /\ ToSet(FlattenSeq(paths)) = UNION {ToSet(paths[m]) : m \in DOMAIN paths}
      BY <1>2, FlattenElements
    <2>4. UNION {ToSet(paths[m]) : m \in DOMAIN paths}
          = UNION {ToSet(modules[m].classpath) : m \in DOMAIN modules}
      BY <1>2, <2>2
    <2> QED
      BY <2>1, <2>3, <2>4
  <1> HIDE DEF all
  <1>4. once \in Seq(Entry) /\ Distinct(once) /\ ToSet(once) = ToSet(all)
    BY <1>3, OnceEach
  <1>5. Queue(i, modules) = q
    BY DEF Queue, all
  <1> HIDE DEF once
  <1>6. Len(once) \in Nat /\ \A n \in 1..Len(once) : once[n] \in Entry
    BY <1>4, LenProperties, ElementOfSeq
  <1>7. once \in Seq(Source) /\ Jdk \notin Entry
    BY <1>4, SeqMonotonic, StubCacheAssumption DEF Source
  <1>8. CASE Located(i) = {}
    <2>1. first = <<>>
      BY <1>8 DEF JdkFirst
    <2>2. q = once
      BY <1>7, <2>1, ConcatEmptySeq
    <2>3. \A n \in 1..Len(once) : once[n] # Jdk
      BY <1>6, <1>7
    <2> HIDE DEF q
    <2> QED
      BY <1>3, <1>4, <1>5, <1>7, <1>8, <2>2, <2>3
  <1>9. CASE Located(i) # {}
    <2>1. first = <<Jdk>>
      BY <1>9 DEF JdkFirst
    <2>2. first \in Seq(Source) /\ Len(first) = 1 /\ first[1] = Jdk
      BY <2>1 DEF Source
    <2> HIDE DEF first
    <2>3. /\ q \in Seq(Source) /\ Len(q) = 1 + Len(once)
          /\ \A n \in 1..(1 + Len(once)) : q[n] = IF n <= 1 THEN first[n] ELSE once[n - 1]
      <3>1. /\ q \in Seq(Source) /\ Len(q) = Len(first) + Len(once)
            /\ \A n \in 1..(Len(first) + Len(once)) :
                  q[n] = IF n <= Len(first) THEN first[n] ELSE once[n - Len(first)]
        BY <1>7, <2>2, ConcatProperties
      <3> HIDE DEF q
      <3> QED
        BY <2>2, <3>1
    <2> HIDE DEF q
    <2>4. q[1] = Jdk /\ \A n \in 2..Len(q) : n - 1 \in 1..Len(once) /\ q[n] = once[n - 1]
      BY <1>6, <2>2, <2>3
    <2>5. \A n \in 1..Len(q) : n # 1 => q[n] \in Entry /\ q[n] # Jdk
      BY <1>6, <1>7, <2>3, <2>4
    <2>6. Distinct(q)
      <3> SUFFICES ASSUME NEW m \in 1..Len(q), NEW n \in 1..Len(q), q[m] = q[n]
                   PROVE  m = n
        BY DEF Distinct
      <3>1. CASE m = 1 \/ n = 1
        BY <2>4, <2>5, <3>1
      <3>2. CASE m # 1 /\ n # 1
        <4>1. m \in 2..Len(q) /\ n \in 2..Len(q)
          BY <3>2
        <4>2. m - 1 \in 1..Len(once) /\ n - 1 \in 1..Len(once) /\ once[m - 1] = once[n - 1]
          BY <2>4, <4>1
        <4>3. m - 1 = n - 1
          BY <1>4, <4>2 DEF Distinct
        <4> QED
          BY <4>3
      <3> QED
        BY <3>1, <3>2
    <2>7. ToSet(q) = {Jdk} \cup ToSet(once)
      <3>1. DOMAIN q = 1..Len(q) /\ DOMAIN once = 1..Len(once)
        BY <1>4, <2>3, LenProperties
      <3>2. 1 \in 1..Len(q)
        BY <1>6, <2>3
      <3>3. Jdk \in ToSet(q)
        BY <2>4, <3>1, <3>2 DEF ToSet
      <3>4. ASSUME NEW n \in 1..Len(once) PROVE once[n] \in ToSet(q)
        <4>1. n + 1 \in 2..Len(q) /\ (n + 1) - 1 = n /\ n + 1 \in 1..Len(q)
          BY <1>6, <2>3
        <4>2. q[n + 1] = once[n]
          BY <2>4, <4>1
        <4> QED
          BY <3>1, <4>1, <4>2 DEF ToSet
      <3>5. ASSUME NEW n \in 1..Len(q) PROVE q[n] \in {Jdk} \cup ToSet(once)
        <4>1. CASE n = 1
          BY <2>4, <4>1
        <4>2. CASE n # 1
          <5>1. n \in 2..Len(q)
            BY <4>2
          <5> QED
            BY <2>4, <3>1, <5>1 DEF ToSet
        <4> QED
          BY <4>1, <4>2
      <3> QED
        BY <3>1, <3>3, <3>4, <3>5 DEF ToSet
    <2> QED
      BY <1>3, <1>4, <1>5, <1>9, <2>3, <2>4, <2>5, <2>6, <2>7
  <1> QED
    BY <1>8, <1>9

\* Where there is a queue, it is one of sources, and a JDK in it is there.
LEMMA SourcesAre ==
    ASSUME ResolveInv, TypeInv
    PROVE  /\ Sources \in Seq(Source) /\ Distinct(Sources)
           /\ Len(Sources) \in Nat /\ DOMAIN Sources = 1..Len(Sources)
           /\ \A n \in 1..Len(Sources) :
                 /\ Sources[n] \in Source
                 /\ Sources[n] = Jdk => n = 1 /\ JdkHome \in Home /\ JdkHome.java
  <1>1. model \in Seq(ModuleRecord) /\ installed \in Installation
    BY DEF ResolveInv, TypeInv
  <1>2. /\ Sources \in Seq(Source) /\ Distinct(Sources)
        /\ \A n \in 1..Len(Sources) : Sources[n] = Jdk => n = 1 /\ Located(installed) # {}
    BY <1>1, QueueIs DEF Sources
  <1>3. Len(Sources) \in Nat /\ DOMAIN Sources = 1..Len(Sources)
    BY <1>2, LenProperties
  <1>4. \A n \in 1..Len(Sources) : Sources[n] \in Source
    BY <1>2, ElementOfSeq
  <1> QED
    BY <1>1, <1>2, <1>3, <1>4, JdkIsHome

\* What a source has is a sequence of classes, or cannot be read; an image can.
LEMMA ContentsAre ==
    ASSUME TypeInv, NEW s \in Source, s = Jdk => JdkHome \in Home /\ JdkHome.java
    PROVE  /\ Contents(s) = Unreadable \/ Contents(s) \in Seq(Held)
           /\ Contents(s) \in Seq(Held) => Contents(s) # Unreadable
           /\ IsImage(s) => Contents(s) \in Seq(Held)
           /\ Readable(s) \in Seq(Held)
           /\ Len(Readable(s)) \in Nat /\ DOMAIN Readable(s) = 1..Len(Readable(s))
           /\ \A j \in 1..Len(Readable(s)) : Readable(s)[j] \in Held
  <1>1. installed \in Installation
    BY DEF TypeInv
  <1>2. Contents(s) = Unreadable \/ Contents(s) \in Seq(Held)
    <2>1. CASE s = Jdk
      <3>1. IsContents(JdkHome.classes)
        BY <2>1, StubCacheAssumption
      <3> QED
        BY <2>1, <3>1 DEF Contents, IsContents
    <2>2. CASE s # Jdk
      <3>1. s \in Entry
        BY <2>2 DEF Source
      <3>2. IsContents(installed.jars[s])
        BY <1>1, <3>1, StubCacheAssumption
      <3> QED
        BY <2>2, <3>2 DEF Contents, IsContents
    <2> QED
      BY <2>1, <2>2
  <1>3. Contents(s) \in Seq(Held) => Contents(s) # Unreadable
    BY StubCacheAssumption
  <1>4. IsImage(s) => Contents(s) \in Seq(Held)
    <2> SUFFICES ASSUME IsImage(s) PROVE Contents(s) \in Seq(Held)
      OBVIOUS
    <2>1. s = Jdk /\ ~InJar(JdkHome)
      BY DEF IsImage
    <2>2. JdkHome.classes \in Seq(Held)
      BY <2>1, StubCacheAssumption
    <2> QED
      BY <2>1, <2>2 DEF Contents
  <1>5. Readable(s) \in Seq(Held)
    BY <1>2, EmptySeq DEF Readable
  <1>6. Len(Readable(s)) \in Nat /\ DOMAIN Readable(s) = 1..Len(Readable(s))
    BY <1>5, LenProperties
  <1>7. \A j \in 1..Len(Readable(s)) : Readable(s)[j] \in Held
    BY <1>5, ElementOfSeq
  <1> QED
    BY <1>2, <1>3, <1>4, <1>5, <1>6, <1>7

\* The first source that has a class, and its first place there.
LEMMA FirstPlace ==
    ASSUME ResolveInv, TypeInv, NEW k, Providers(k) # {}
    PROVE  LET i == Min(Providers(k))
               j == Min(Places(First(k), k))
           IN  /\ i \in 1..Len(Sources) /\ First(k) = Sources[i]
               /\ \A n \in Providers(k) : i <= n
               /\ j \in 1..Len(Readable(First(k)))
               /\ \A n \in Places(First(k), k) : j <= n
               /\ Readable(First(k))[j].name = k
               /\ Readable(First(k))[j].content \in Content
               /\ Current(k) = Readable(First(k))[j].content
  <1> DEFINE i == Min(Providers(k))
             s == First(k)
             places == Places(s, k)
             j == Min(places)
  <1>1. Providers(k) \in SUBSET Nat /\ \A n \in Providers(k) : n \in 1..Len(Sources)
    BY SourcesAre DEF Providers
  <1>2. i \in Providers(k) /\ \A n \in Providers(k) : i <= n
    BY <1>1, MinIsElement
  <1>3. s = Sources[i]
    BY DEF First
  <1> HIDE DEF i, s
  <1>4. i \in 1..Len(Sources) /\ places # {}
    BY <1>1, <1>2, <1>3 DEF Providers
  <1>5. s \in Source /\ (s = Jdk => JdkHome \in Home /\ JdkHome.java)
    BY <1>3, <1>4, SourcesAre
  <1>6. /\ DOMAIN Readable(s) = 1..Len(Readable(s)) /\ Len(Readable(s)) \in Nat
        /\ \A n \in 1..Len(Readable(s)) : Readable(s)[n] \in Held
    BY <1>5, ContentsAre
  <1>7. places \in SUBSET Nat
    BY <1>6 DEF Places
  <1>8. j \in places /\ \A n \in places : j <= n
    <2> HIDE DEF places
    <2> QED
      BY <1>4, <1>7, MinIsElement
  <1>9. /\ j \in 1..Len(Readable(s))
        /\ Readable(s)[j].name = k /\ Readable(s)[j].content # Malformed
    <2> HIDE DEF j
    <2> QED
      BY <1>6, <1>8 DEF Places
  <1>10. Readable(s)[j].content \in Content
    <2> HIDE DEF j
    <2> QED
      BY <1>6, <1>9 DEF Held
  <1>11. Current(k) = Readable(s)[j].content
    BY DEF Current, s
  <1> QED
    BY <1>2, <1>3, <1>4, <1>8, <1>9, <1>10, <1>11 DEF i, s

\* While the JDKs, the jars and the model are the same, all this is.
LEMMA SourcesSame ==
    ASSUME installed' = installed, model' = model
    PROVE  /\ Sources' = Sources /\ JdkHome' = JdkHome
           /\ \A s : Contents(s)' = Contents(s) /\ Readable(s)' = Readable(s)
           /\ \A s : IsImage(s)' <=> IsImage(s)
           /\ \A s, k : Places(s, k)' = Places(s, k)
           /\ \A k : /\ Providers(k)' = Providers(k) /\ First(k)' = First(k)
                     /\ Current(k)' = Current(k)
  <1>1. Sources' = Sources /\ JdkHome' = JdkHome
    BY DEF Sources, JdkHome
  <1>2. \A s : Contents(s)' = Contents(s)
    BY <1>1 DEF Contents
  <1>3. \A s : Readable(s)' = Readable(s)
    BY <1>2 DEF Readable
  <1>4. \A s : IsImage(s)' <=> IsImage(s)
    BY <1>1 DEF IsImage
  <1>5. \A s, k : Places(s, k)' = Places(s, k)
    BY <1>3 DEF Places
  <1>6. \A k : Providers(k)' = Providers(k)
    BY <1>1, <1>5 DEF Providers
  <1>7. \A k : First(k)' = First(k)
    BY <1>1, <1>6 DEF First
  <1>8. \A k : Current(k)' = Current(k)
    BY <1>3, <1>5, <1>7 DEF Current
  <1> QED
    BY <1>1, <1>2, <1>3, <1>4, <1>5, <1>6, <1>7, <1>8

\* What stands in the way of a class stays there to the end of the session.
LEMMA ExcuseStays ==
    ASSUME installed' = installed, model' = model, found' = found, failed \subseteq failed'
    PROVE  /\ WholeJdk' => WholeJdk
           /\ \A k : Excused(k) => Excused(k)'
  <1>1. WholeJdk' => WholeJdk
    BY SourcesSame DEF WholeJdk
  <1>2. \A k : Excused(k) => Excused(k)'
    BY <1>1, SourcesSame DEF Excused
  <1> QED
    BY <1>1, <1>2

\* What is left of a sequence, and left then.
LEMMA TailOfRest ==
    ASSUME NEW S, NEW rest \in Seq(S), NEW whole \in Seq(S), rest # <<>>,
           Len(rest) <= Len(whole),
           \A i \in 1..Len(rest) : rest[i] = whole[(Len(whole) - Len(rest)) + i]
    PROVE  /\ Tail(rest) \in Seq(S) /\ Len(Tail(rest)) = Len(rest) - 1
           /\ Len(Tail(rest)) \in Nat /\ Len(Tail(rest)) <= Len(whole)
           /\ \A i \in 1..Len(Tail(rest)) :
                 Tail(rest)[i] = whole[(Len(whole) - Len(Tail(rest))) + i]
           /\ (Len(whole) - Len(rest)) + 1 \in 1..Len(whole)
           /\ Head(rest) = whole[(Len(whole) - Len(rest)) + 1]
           /\ Head(rest) \in S
  <1>1. /\ Head(rest) \in S /\ Tail(rest) \in Seq(S) /\ Len(Tail(rest)) = Len(rest) - 1
        /\ \A i \in 1..Len(Tail(rest)) : Tail(rest)[i] = rest[i + 1]
    BY HeadTailProperties
  <1>2. Len(rest) \in Nat \ {0} /\ Len(whole) \in Nat
    BY EmptySeq, LenProperties
  <1>3. Head(rest) = rest[1]
    OBVIOUS
  <1>4. \A i \in 1..Len(Tail(rest)) :
           Tail(rest)[i] = whole[(Len(whole) - Len(Tail(rest))) + i]
    <2> TAKE i \in 1..Len(Tail(rest))
    <2>1. i + 1 \in 1..Len(rest)
          /\ (Len(whole) - Len(rest)) + (i + 1) = (Len(whole) - Len(Tail(rest))) + i
      BY <1>1, <1>2
    <2> QED
      BY <1>1, <2>1
  <1> QED
    BY <1>1, <1>2, <1>3, <1>4

\* The source that is next, or in work.
LEMMA HeadSource ==
    ASSUME CacheInv, step # "resolve", resolution = "done", sources # <<>>
    PROVE  /\ Done \in Nat /\ Done + 1 \in 1..Len(Sources)
           /\ Head(sources) = Sources[Done + 1] /\ Head(sources) \in Source
           /\ Head(sources) = Jdk => JdkHome \in Home /\ JdkHome.java
           /\ Tail(sources) \in Seq(Source) /\ Len(Tail(sources)) = Len(sources) - 1
           /\ Len(Tail(sources)) \in Nat /\ Len(Tail(sources)) <= Len(Sources)
           /\ \A i \in 1..Len(Tail(sources)) :
                 /\ Tail(sources)[i] = Sources[(Len(Sources) - Len(Tail(sources))) + i]
                 /\ Tail(sources)[i] # Jdk
  <1>1. /\ sources \in Seq(Source) /\ Sources \in Seq(Source) /\ Len(sources) <= Len(Sources)
        /\ \A i \in 1..Len(sources) : sources[i] = Sources[(Len(Sources) - Len(sources)) + i]
    BY SourcesAre DEF CacheInv, TypeInv, PlaceInv, Done
  <1>2. Len(sources) \in Nat /\ Len(Sources) \in Nat
    BY <1>1, LenProperties
  <1>3. /\ Tail(sources) \in Seq(Source) /\ Len(Tail(sources)) = Len(sources) - 1
        /\ Len(Tail(sources)) \in Nat /\ Len(Tail(sources)) <= Len(Sources)
        /\ \A i \in 1..Len(Tail(sources)) :
              Tail(sources)[i] = Sources[(Len(Sources) - Len(Tail(sources))) + i]
        /\ (Len(Sources) - Len(sources)) + 1 \in 1..Len(Sources)
        /\ Head(sources) = Sources[(Len(Sources) - Len(sources)) + 1]
        /\ Head(sources) \in Source
    BY <1>1, TailOfRest
  <1>4. \A n \in 1..Len(Sources) : Sources[n] = Jdk => n = 1 /\ JdkHome \in Home /\ JdkHome.java
    BY SourcesAre DEF CacheInv
  <1>5. \A i \in 1..Len(Tail(sources)) : Tail(sources)[i] # Jdk
    <2> TAKE i \in 1..Len(Tail(sources))
    <2> DEFINE n == (Len(Sources) - Len(Tail(sources))) + i
    <2>1. n \in 1..Len(Sources) /\ n # 1
      BY <1>1, <1>2, <1>3
    <2> QED
      BY <1>3, <1>4, <2>1
  <1>6. Head(sources) = Jdk => JdkHome \in Home /\ JdkHome.java
    BY <1>3, <1>4
  <1> QED
    BY <1>2, <1>3, <1>5, <1>6 DEF Done

\* What is gone through of the JDK's image is the beginning of it, and what is
\* gone through of a jar is the jar.
LEMMA WorkIsReadable ==
    ASSUME TypeInv, BaseInv, NEW s \in Source, s = Jdk => JdkHome \in Home /\ JdkHome.java,
           IsImage(s) \/ Contents(s) \in Seq(Held)
    PROVE  /\ Work(s) \in Seq(Held) /\ Len(Work(s)) \in Nat
           /\ Len(Work(s)) <= Len(Readable(s))
           /\ \A j \in 1..Len(Work(s)) : Work(s)[j] = Readable(s)[j]
           /\ Work(s) = Contents(s) => Work(s) = Readable(s)
  <1>1. Contents(s) \in Seq(Held) /\ Contents(s) # Unreadable
    BY ContentsAre
  <1>2. Readable(s) = Contents(s) /\ Len(Readable(s)) \in Nat
    BY <1>1, ContentsAre DEF Readable
  <1>3. CASE ~IsImage(s)
    <2>1. Work(s) = Contents(s)
      BY <1>3 DEF Work
    <2> QED
      BY <1>1, <1>2, <2>1
  <1>4. CASE IsImage(s)
    <2>1. s = Jdk /\ JdkHome \in Home /\ JdkHome.java /\ Work(s) = base[JdkHome.stamp].classes
      BY <1>4 DEF IsImage, Work, Extracted
    <2>2. JdkHome.stamp \in Stamp
      BY <2>1 DEF Stamp
    <2>3. Work(s) \in Seq(Held)
      BY <2>1, <2>2 DEF TypeInv
    <2>4. Contents(s) = JdkHome.classes
      BY <2>1 DEF Contents
    <2>5. /\ Len(Work(s)) <= Len(JdkHome.classes)
          /\ \A j \in 1..Len(Work(s)) : Work(s)[j] = JdkHome.classes[j]
      BY <2>1 DEF BaseInv
    <2>6. Len(Work(s)) \in Nat
      BY <2>3, LenProperties
    <2> QED
      BY <1>2, <2>3, <2>4, <2>5, <2>6
  <1> QED
    BY <1>3, <1>4

\* The class in work is that of its place.
LEMMA HeadClass ==
    ASSUME CacheInv, AtWork, classes # <<>>
    PROVE  /\ Taken \in Nat /\ Taken + 1 \in 1..Len(Readable(Head(sources)))
           /\ Readable(Head(sources))[Taken + 1] = Head(classes)
           /\ Head(classes) \in Held
           /\ Tail(classes) \in Seq(Held) /\ Len(Tail(classes)) = Len(classes) - 1
           /\ Len(Tail(classes)) <= Len(Work(Head(sources)))
           /\ \A j \in 1..Len(Tail(classes)) :
                 Tail(classes)[j] =
                     Work(Head(sources))[(Len(Work(Head(sources))) - Len(Tail(classes))) + j]
  <1> DEFINE s == Head(sources)
             w == Work(s)
  <1>1. step # "resolve" /\ resolution = "done" /\ sources # <<>>
    BY DEF AtWork, CacheInv, PlaceInv
  <1>2. s \in Source /\ (s = Jdk => JdkHome \in Home /\ JdkHome.java)
    BY <1>1, HeadSource
  <1>3. /\ w \in Seq(Held) /\ Len(w) \in Nat /\ Len(w) <= Len(Readable(s))
        /\ \A j \in 1..Len(w) : w[j] = Readable(s)[j]
    BY <1>2, WorkIsReadable DEF CacheInv, PlaceInv
  <1>4. /\ classes \in Seq(Held) /\ Len(classes) <= Len(w) /\ Taken = Len(w) - Len(classes)
        /\ \A j \in 1..Len(classes) : classes[j] = w[Taken + j]
    BY DEF CacheInv, TypeInv, PlaceInv, Taken
  <1>5. Len(classes) \in Nat
    BY <1>4, LenProperties
  <1> HIDE DEF w
  <1>6. /\ Tail(classes) \in Seq(Held) /\ Len(Tail(classes)) = Len(classes) - 1
        /\ Len(Tail(classes)) <= Len(w)
        /\ \A j \in 1..Len(Tail(classes)) :
              Tail(classes)[j] = w[(Len(w) - Len(Tail(classes))) + j]
        /\ (Len(w) - Len(classes)) + 1 \in 1..Len(w)
        /\ Head(classes) = w[(Len(w) - Len(classes)) + 1]
        /\ Head(classes) \in Held
    BY <1>3, <1>4, TailOfRest
  <1>7. Taken \in Nat /\ Taken + 1 \in 1..Len(w) /\ Head(classes) = w[Taken + 1]
    BY <1>3, <1>4, <1>5, <1>6
  <1>8. Len(Readable(s)) \in Nat
    BY <1>2, ContentsAre DEF CacheInv
  <1>9. Taken + 1 \in 1..Len(Readable(s)) /\ Readable(s)[Taken + 1] = Head(classes)
    BY <1>3, <1>7, <1>8
  <1> QED
    BY <1>6, <1>7, <1>9 DEF w

\* A class in work that is none of the JDK's own is to be shown, and if its first
\* place is not behind, this is it.
LEMMA HeadIsFirst ==
    ASSUME CacheInv, AtWork, classes # <<>>, Head(classes).content # Malformed
    PROVE  /\ Providers(Head(classes).name) # {}
           /\ ~Reached(Head(classes).name) =>
                 /\ Min(Providers(Head(classes).name)) = Done + 1
                 /\ Min(Places(First(Head(classes).name), Head(classes).name)) = Taken + 1
                 /\ Current(Head(classes).name) = Head(classes).content
  <1> DEFINE k == Head(classes).name
             s == Head(sources)
             i == Min(Providers(k))
             j == Min(Places(First(k), k))
  <1>1. step # "resolve" /\ resolution = "done" /\ sources # <<>> /\ ResolveInv /\ TypeInv
    BY DEF AtWork, CacheInv, PlaceInv
  <1>2. /\ Done \in Nat /\ Done + 1 \in 1..Len(Sources) /\ s = Sources[Done + 1]
        /\ s \in Source /\ (s = Jdk => JdkHome \in Home /\ JdkHome.java)
    BY <1>1, HeadSource
  <1>3. /\ Taken \in Nat /\ Taken + 1 \in 1..Len(Readable(s))
        /\ Readable(s)[Taken + 1] = Head(classes)
    BY HeadClass
  <1>4. DOMAIN Readable(s) = 1..Len(Readable(s)) /\ DOMAIN Sources = 1..Len(Sources)
    BY <1>1, <1>2, ContentsAre, SourcesAre
  <1>5. Taken + 1 \in Places(s, k)
    BY <1>3, <1>4 DEF Places
  <1>6. Done + 1 \in Providers(k)
    BY <1>2, <1>4, <1>5 DEF Providers
  <1> HIDE DEF k, s
  <1>7. /\ i \in 1..Len(Sources) /\ First(k) = Sources[i] /\ i <= Done + 1
        /\ j \in 1..Len(Readable(First(k)))
        /\ \A n \in Places(First(k), k) : j <= n
        /\ Current(k) = Readable(First(k))[j].content
    BY <1>1, <1>6, FirstPlace
  <1> HIDE DEF i, j
  <1>8. ASSUME ~Reached(k)
        PROVE  i = Done + 1 /\ j = Taken + 1 /\ Current(k) = Head(classes).content
    <2>1. ~(i <= Done) /\ (i = Done + 1 => ~(j <= Taken))
      BY <1>8 DEF Reached, i, j
    <2>2. i = Done + 1
      BY <1>2, <1>7, <2>1
    <2>3. First(k) = s
      BY <1>2, <1>7, <2>2
    <2>4. j <= Taken + 1 /\ ~(j <= Taken) /\ j \in Nat
      BY <1>5, <1>7, <2>1, <2>2, <2>3
    <2>5. j = Taken + 1
      BY <1>3, <2>4
    <2> QED
      BY <1>3, <1>7, <2>2, <2>3, <2>5
  <1> QED
    BY <1>6, <1>8 DEF k, i, j

\* Where nothing moves, nothing more is reached.
LEMMA ReachedSame ==
    ASSUME installed' = installed, model' = model, Done' = Done, Taken' = Taken
    PROVE  \A k : Reached(k)' <=> Reached(k)
  BY SourcesSame DEF Reached

\* One class further, that class is reached and no other.
LEMMA ReachedMoves ==
    ASSUME CacheInv, AtWork, classes # <<>>,
           installed' = installed, model' = model, Done' = Done, Taken' = Taken + 1,
           NEW k, Providers(k) # {}
    PROVE  /\ Reached(k) => Reached(k)'
           /\ Reached(k)' => Reached(k) \/ (/\ Head(classes).name = k
                                            /\ Head(classes).content # Malformed)
           /\ Head(classes).name = k /\ Head(classes).content # Malformed => Reached(k)'
  <1> DEFINE i == Min(Providers(k))
             j == Min(Places(First(k), k))
  <1>1. step # "resolve" /\ resolution = "done" /\ sources # <<>> /\ ResolveInv /\ TypeInv
    BY DEF AtWork, CacheInv, PlaceInv
  <1>2. /\ Done \in Nat /\ Head(sources) = Sources[Done + 1]
        /\ Taken \in Nat /\ Readable(Head(sources))[Taken + 1] = Head(classes)
    BY <1>1, HeadSource, HeadClass
  <1>3. /\ i \in Nat /\ First(k) = Sources[i] /\ j \in Nat
        /\ Readable(First(k))[j].name = k /\ Readable(First(k))[j].content \in Content
    BY <1>1, FirstPlace
  <1>4. Reached(k) <=> i <= Done \/ (i = Done + 1 /\ j <= Taken)
    BY DEF Reached
  <1>5. Reached(k)' <=> i <= Done \/ (i = Done + 1 /\ j <= Taken + 1)
    BY SourcesSame DEF Reached
  <1> HIDE DEF i, j
  <1>6. Reached(k) => Reached(k)'
    BY <1>2, <1>3, <1>4, <1>5
  <1>7. ASSUME Reached(k)', ~Reached(k)
        PROVE  Head(classes).name = k /\ Head(classes).content # Malformed
    <2>1. i = Done + 1 /\ j = Taken + 1
      BY <1>2, <1>3, <1>4, <1>5, <1>7
    <2>2. Readable(First(k))[j] = Head(classes)
      BY <1>2, <1>3, <2>1
    <2>3. Malformed \notin Content
      BY StubCacheAssumption
    <2> QED
      BY <1>3, <2>2, <2>3
  <1>8. ASSUME Head(classes).name = k, Head(classes).content # Malformed
        PROVE  Reached(k)'
    <2>1. ~Reached(k) => i = Done + 1 /\ j = Taken + 1
      BY <1>8, HeadIsFirst DEF i, j
    <2> QED
      BY <1>2, <1>3, <1>5, <1>6, <2>1
  <1> QED
    BY <1>6, <1>7, <1>8

\* One source further, the classes left in it are, those that have their first
\* place there.
LEMMA ReachedSource ==
    ASSUME CacheInv, step # "resolve", resolution = "done", sources # <<>>,
           installed' = installed, model' = model, Done' = Done + 1, Taken' = 0,
           Taken \in Nat, NEW k, Providers(k) # {}
    PROVE  /\ Reached(k) => Reached(k)'
           /\ Reached(k)' => Reached(k) \/ (/\ First(k) = Head(sources)
                                            /\ Taken < Len(Readable(Head(sources))))
  <1> DEFINE i == Min(Providers(k))
             j == Min(Places(First(k), k))
  <1>1. ResolveInv /\ TypeInv
    BY DEF CacheInv
  <1>2. Done \in Nat /\ Head(sources) = Sources[Done + 1]
    BY HeadSource
  <1>3. /\ i \in Nat /\ First(k) = Sources[i]
        /\ j \in Nat \ {0} /\ j \in 1..Len(Readable(First(k)))
    BY <1>1, FirstPlace
  <1>4. Reached(k) <=> i <= Done \/ (i = Done + 1 /\ j <= Taken)
    BY DEF Reached
  <1>5. Reached(k)' <=> i <= Done + 1 \/ (i = Done + 2 /\ j <= 0)
    BY <1>2, SourcesSame DEF Reached
  <1> HIDE DEF i, j
  <1>6. Reached(k) => Reached(k)'
    BY <1>2, <1>3, <1>4, <1>5
  <1>7. ASSUME Reached(k)', ~Reached(k)
        PROVE  First(k) = Head(sources) /\ Taken < Len(Readable(Head(sources)))
    <2>1. i = Done + 1 /\ ~(j <= Taken)
      BY <1>2, <1>3, <1>4, <1>5, <1>7
    <2>2. First(k) = Head(sources)
      BY <1>2, <1>3, <2>1
    <2> QED
      BY <1>3, <2>1, <2>2
  <1> QED
    BY <1>6, <1>7

\* A class that is not in work is left as it is.
LEMMA ClassKept ==
    ASSUME installed' = installed, model' = model, found' = found, failed \subseteq failed',
           NEW k, ClassOk(k), ~InWork(k), ~InWork(k)',
           stubs'[k] = stubs[k], index'[k] = index[k],
           Providers(k) # {} => Excused(k)' \/ (Reached(k)' <=> Reached(k))
    PROVE  ClassOk(k)'
  <1>1. CASE Providers(k) = {}
    BY <1>1, SourcesSame DEF ClassOk
  <1>2. CASE Providers(k) # {}
    <2>1. Providers(k)' # {} /\ Current(k)' = Current(k) /\ (Excused(k) => Excused(k)')
      BY <1>2, SourcesSame, ExcuseStays
    <2> QED
      BY <1>2, <2>1 DEF ClassOk
  <1> QED
    BY <1>1, <1>2

(***************************************************************************)
(* The steps.                                                              *)
(***************************************************************************)

\* What indexing leaves alone of the model.
LEMMA ResolveKept ==
    ASSUME ResolveInv, resolving' = resolving
    PROVE  ResolveInv' /\ resolution' = resolution /\ model' = model
  <1>1. /\ project' = project /\ resolution' = resolution
        /\ calls' = calls /\ todo' = todo /\ dirs' = dirs
        /\ output' = output /\ parsed' = parsed /\ model' = model
    BY DEF resolving
  <1> QED
    BY <1>1, ExistsSame DEF ResolveInv

\* A source in work is gone through as it was.
LEMMA WorkSame ==
    ASSUME installed' = installed, base' = base, sources' = sources
    PROVE  /\ Extracted' = Extracted /\ JdkHome' = JdkHome
           /\ IsImage(Head(sources))' <=> IsImage(Head(sources))
           /\ Contents(Head(sources))' = Contents(Head(sources))
           /\ Work(Head(sources))' = Work(Head(sources))
  <1>1. JdkHome' = JdkHome
    BY DEF JdkHome
  <1>2. Extracted' = Extracted
    BY <1>1 DEF Extracted
  <1>3. IsImage(Head(sources))' <=> IsImage(Head(sources))
    BY <1>1 DEF IsImage
  <1>4. Contents(Head(sources))' = Contents(Head(sources))
    BY <1>1 DEF Contents
  <1>5. Work(Head(sources))' = Work(Head(sources))
    BY <1>2, <1>3, <1>4 DEF Work
  <1> QED
    BY <1>1, <1>2, <1>3, <1>4, <1>5

\* A source is left behind: the classes that have their first place in what was
\* not gone through of it are excused.
LEMMA SourceBehind ==
    ASSUME CacheInv, resolution = "done", sources # <<>>,
           step \in {"source", "extract", "class"}, step' = "source", sources' = Tail(sources),
           resolving' = resolving, session' = session, installed' = installed,
           stubs' = stubs, base' = base, found' = found, failed \subseteq failed',
           classes' = classes, index' = index,
           \A k \in Class : Providers(k) # {} /\ First(k) = Head(sources)
                            /\ Taken < Len(Readable(Head(sources))) => Excused(k)'
    PROVE  CacheInv'
  <1>1. ResolveInv' /\ resolution' = resolution /\ model' = model
    BY ResolveKept DEF CacheInv
  <1>2. Sources' = Sources
    BY <1>1, SourcesSame
  <1>3. /\ Done \in Nat
        /\ sources' \in Seq(Source) /\ Len(sources') = Len(sources) - 1
        /\ Len(sources') \in Nat /\ Len(sources') <= Len(Sources)
        /\ \A i \in 1..Len(sources') :
              /\ sources'[i] = Sources[(Len(Sources) - Len(sources')) + i]
              /\ sources'[i] # Jdk
    BY HeadSource
  <1>4. Taken \in Nat
    <2>1. CASE ~AtWork
      BY <2>1 DEF Taken
    <2>2. CASE AtWork
      <3>1. /\ Head(sources) \in Source
            /\ Head(sources) = Jdk => JdkHome \in Home /\ JdkHome.java
        BY HeadSource
      <3>2. Len(Work(Head(sources))) \in Nat
        BY <2>2, <3>1, WorkIsReadable DEF CacheInv, PlaceInv
      <3>3. Len(classes) <= Len(Work(Head(sources))) /\ Len(classes) \in Nat
        BY <2>2, LenProperties DEF CacheInv, PlaceInv, TypeInv
      <3> QED
        BY <2>2, <3>2, <3>3 DEF Taken
    <2> QED
      BY <2>1, <2>2
  <1>5. TypeInv'
    BY <1>3 DEF CacheInv, TypeInv
  <1>6. BaseInv'
    BY DEF CacheInv, BaseInv
  <1>7. ~AtWork' /\ Taken' = 0
    BY DEF AtWork, Taken
  <1>8. Done' = Done + 1
    <2>1. Len(Sources) \in Nat /\ Len(sources) \in Nat
      BY SourcesAre, LenProperties DEF CacheInv, TypeInv
    <2> QED
      BY <1>2, <1>3, <2>1 DEF Done
  <1>9. PlaceInv'
    BY <1>1, <1>2, <1>3, <1>7 DEF PlaceInv, Done
  <1>10. JdkInv'
    BY <1>3, <1>7 DEF JdkInv
  <1>11. ClassInv'
    <2>1. \A k \in Hidden : index'[k] = Absent
      BY DEF CacheInv, ClassInv
    <2>2. ASSUME NEW k \in Class \ Hidden PROVE ClassOk(k)'
      <3>1. ClassOk(k) /\ ~InWork(k) /\ ~InWork(k)'
        BY DEF CacheInv, ClassInv, InWork
      <3>2. Providers(k) # {} => Excused(k)' \/ (Reached(k)' <=> Reached(k))
        BY <1>1, <1>4, <1>7, <1>8, ReachedSource
      <3> QED
        BY <1>1, <3>1, <3>2, ClassKept
    <2> QED
      BY <2>1, <2>2 DEF ClassInv
  <1> QED
    BY <1>1, <1>5, <1>6, <1>9, <1>10, <1>11 DEF CacheInv

\* A source is opened: its classes are in work.
LEMMA SourceOpened ==
    ASSUME CacheInv, resolution = "done", sources # <<>>,
           step \in {"source", "extract"}, step' = "class",
           classes' = Work(Head(sources)), sources' = sources,
           resolving' = resolving, session' = session, installed' = installed,
           stubs' = stubs, base' = base, found' = found, failed' = failed, index' = index,
           IsImage(Head(sources)) \/ Contents(Head(sources)) \in Seq(Held),
           IsImage(Head(sources)) /\ WholeJdk => Extracted.classes = JdkHome.classes
    PROVE  CacheInv'
  <1>1. ResolveInv' /\ resolution' = resolution /\ model' = model
    BY ResolveKept DEF CacheInv
  <1>2. Sources' = Sources /\ Done' = Done
    BY <1>1, SourcesSame DEF Done
  <1>3. /\ IsImage(Head(sources))' <=> IsImage(Head(sources))
        /\ Contents(Head(sources))' = Contents(Head(sources))
        /\ Work(Head(sources))' = Work(Head(sources))
        /\ Extracted' = Extracted /\ JdkHome' = JdkHome
    BY WorkSame
  <1>4. Work(Head(sources)) \in Seq(Held) /\ Len(Work(Head(sources))) \in Nat
    <2>1. /\ Head(sources) \in Source
          /\ Head(sources) = Jdk => JdkHome \in Home /\ JdkHome.java
      BY HeadSource
    <2> QED
      BY <2>1, WorkIsReadable DEF CacheInv
  <1>5. TypeInv'
    BY <1>4 DEF CacheInv, TypeInv
  <1>6. BaseInv'
    BY DEF CacheInv, BaseInv
  <1>7. AtWork' /\ Taken' = 0 /\ Taken = 0
    BY <1>3, <1>4 DEF AtWork, Taken
  <1>8. PlaceInv'
    BY <1>1, <1>2, <1>3, <1>4, <1>7 DEF CacheInv, PlaceInv
  <1>9. JdkInv'
    <2>1. WholeJdk' => WholeJdk
      BY <1>1, ExcuseStays
    <2> QED
      BY <1>3, <2>1 DEF JdkInv
  <1>10. ClassInv'
    <2>1. \A k \in Hidden : index'[k] = Absent
      BY DEF CacheInv, ClassInv
    <2>2. ASSUME NEW k \in Class \ Hidden PROVE ClassOk(k)'
      <3>1. ClassOk(k) /\ ~InWork(k) /\ ~InWork(k)'
        BY DEF CacheInv, ClassInv, InWork
      <3>2. Reached(k)' <=> Reached(k)
        BY <1>1, <1>2, <1>7, ReachedSame
      <3> QED
        BY <1>1, <3>1, <3>2, ClassKept
    <2> QED
      BY <2>1, <2>2 DEF ClassInv
  <1> QED
    BY <1>1, <1>5, <1>6, <1>8, <1>9, <1>10 DEF CacheInv

\* A class is left behind.
LEMMA ClassBehind ==
    ASSUME CacheInv, AtWork, classes # <<>>, step' = "class", classes' = Tail(classes),
           resolving' = resolving, installed' = installed, base' = base, sources' = sources,
           found' = found, failed \subseteq failed'
    PROVE  /\ PlaceInv' /\ JdkInv' /\ classes' \in Seq(Held)
           /\ Done' = Done /\ Taken' = Taken + 1
           /\ step # "resolve" /\ resolution = "done" /\ sources # <<>>
  <1>1. ResolveInv' /\ resolution' = resolution /\ model' = model
    BY ResolveKept DEF CacheInv
  <1>2. Sources' = Sources /\ Done' = Done
    BY <1>1, SourcesSame DEF Done
  <1>3. /\ IsImage(Head(sources))' <=> IsImage(Head(sources))
        /\ Contents(Head(sources))' = Contents(Head(sources))
        /\ Work(Head(sources))' = Work(Head(sources))
        /\ Extracted' = Extracted /\ JdkHome' = JdkHome
    BY WorkSame
  <1>4. /\ classes' \in Seq(Held) /\ Len(classes') = Len(classes) - 1
        /\ Len(classes') <= Len(Work(Head(sources)))
        /\ \A j \in 1..Len(classes') :
              classes'[j] = Work(Head(sources))[(Len(Work(Head(sources))) - Len(classes')) + j]
    BY HeadClass
  <1>5. step # "resolve" /\ resolution = "done" /\ sources # <<>>
    BY DEF AtWork, CacheInv, PlaceInv
  <1>6. AtWork' /\ Taken' = Taken + 1 /\ Taken' = Len(Work(Head(sources))) - Len(classes')
    <2>1. Len(classes) \in Nat /\ Taken \in Nat
      BY HeadClass, LenProperties DEF CacheInv, TypeInv
    <2>2. Taken = Len(Work(Head(sources))) - Len(classes)
      BY DEF Taken
    <2>3. AtWork' /\ Taken' = Len(Work(Head(sources))) - Len(classes')
      BY <1>3 DEF AtWork, Taken
    <2>4. Len(Work(Head(sources))) \in Nat
      <3>1. /\ Head(sources) \in Source
            /\ Head(sources) = Jdk => JdkHome \in Home /\ JdkHome.java
        BY <1>5, HeadSource
      <3> QED
        BY <3>1, WorkIsReadable DEF CacheInv, PlaceInv
    <2> QED
      BY <1>4, <2>1, <2>2, <2>3, <2>4
  <1>7. PlaceInv'
    BY <1>1, <1>2, <1>3, <1>4, <1>5, <1>6 DEF CacheInv, PlaceInv
  <1>8. JdkInv'
    <2>1. WholeJdk' => WholeJdk
      BY <1>1, ExcuseStays
    <2> QED
      BY <1>3, <1>6, <2>1 DEF CacheInv, JdkInv
  <1> QED
    BY <1>2, <1>4, <1>5, <1>6, <1>7, <1>8

\* A class is gone on with.
LEMMA ClassGoesOn ==
    ASSUME CacheInv, AtWork, classes # <<>>, ~Skipped(Head(classes)),
           step' \in {"create", "write", "show"},
           step' = "create" => stubs'[Head(classes).name] = Absent,
           step' = "write" => stubs'[Head(classes).name] = Empty,
           resolving' = resolving, installed' = installed, base' = base, sources' = sources,
           classes' = classes, found' = found, failed \subseteq failed'
    PROVE  /\ PlaceInv' /\ JdkInv'
           /\ Done' = Done /\ Taken' = Taken
           /\ step # "resolve" /\ resolution = "done" /\ sources # <<>>
  <1>1. ResolveInv' /\ resolution' = resolution /\ model' = model
    BY ResolveKept DEF CacheInv
  <1>2. Sources' = Sources /\ Done' = Done
    BY <1>1, SourcesSame DEF Done
  <1>3. /\ IsImage(Head(sources))' <=> IsImage(Head(sources))
        /\ Contents(Head(sources))' = Contents(Head(sources))
        /\ Work(Head(sources))' = Work(Head(sources))
        /\ Extracted' = Extracted /\ JdkHome' = JdkHome
    BY WorkSame
  <1>4. step # "resolve" /\ resolution = "done" /\ sources # <<>>
    BY DEF AtWork, CacheInv, PlaceInv
  <1>5. AtWork' /\ Taken' = Taken
    BY <1>3 DEF AtWork, Taken
  <1>6. Skipped(Head(classes))' <=> Skipped(Head(classes))
    BY DEF Skipped
  <1>7. PlaceInv'
    BY <1>1, <1>2, <1>3, <1>4, <1>5, <1>6 DEF CacheInv, PlaceInv
  <1>8. JdkInv'
    <2>1. WholeJdk' => WholeJdk
      BY <1>1, ExcuseStays
    <2> QED
      BY <1>3, <1>5, <2>1 DEF CacheInv, JdkInv
  <1> QED
    BY <1>2, <1>4, <1>5, <1>7, <1>8

\* Indexing begins at the head of the queue, with nothing shown.
LEMMA BeginIndexingStep ==
    ASSUME CacheInv, BeginIndexing
    PROVE  CacheInv'
  <1>1. /\ step = "resolve" /\ resolution \in {"done", "failed"}
        /\ resolving' = resolving /\ session' = session /\ installed' = installed
        /\ stubs' = stubs /\ base' = base /\ found' = found /\ failed' = failed
        /\ classes' = classes /\ index' = index
        /\ IF resolution = "done" THEN step' = "source" /\ sources' = Sources
           ELSE step' = "quiet" /\ sources' = sources
    BY DEF BeginIndexing, disk, Sources
  <1>2. ResolveInv' /\ resolution' = resolution /\ model' = model
    BY <1>1, ResolveKept DEF CacheInv
  <1>3. Sources' = Sources
    BY <1>1, <1>2, SourcesSame
  <1>4. Sources \in Seq(Source) /\ Len(Sources) \in Nat
    BY SourcesAre DEF CacheInv
  <1>5. TypeInv' /\ BaseInv'
    BY <1>1, <1>4 DEF CacheInv, TypeInv, BaseInv
  <1>6. ~AtWork' /\ Taken' = 0
    BY <1>1 DEF AtWork, Taken
  <1>7. CASE resolution = "done"
    <2>1. step' = "source" /\ sources' = Sources /\ Done' = 0
      BY <1>1, <1>3, <1>4, <1>7 DEF Done
    <2>2. PlaceInv'
      BY <1>2, <1>3, <1>4, <1>6, <1>7, <2>1 DEF PlaceInv
    <2>3. JdkInv'
      BY <1>1, <1>6, <2>1 DEF CacheInv, JdkInv
    <2>4. ASSUME NEW k \in Class \ Hidden PROVE ClassOk(k)'
      <3>1. index'[k] = Absent /\ stubs'[k] = found'.stubs[k] /\ ~InWork(k)'
        BY <1>1, <2>1 DEF CacheInv, ClassInv, InWork
      <3>2. CASE Providers(k) = {}
        BY <1>1, <1>2, <3>1, <3>2, SourcesSame DEF ClassOk
      <3>3. CASE Providers(k) # {}
        <4>1. Min(Providers(k)) \in Nat \ {0}
          BY <3>3, FirstPlace DEF CacheInv
        <4>2. Min(Places(First(k), k)) \in Nat \ {0}
          BY <3>3, FirstPlace DEF CacheInv
        <4>3. ~Reached(k)'
          BY <1>1, <1>2, <1>6, <2>1, <4>1, <4>2, SourcesSame DEF Reached
        <4>4. Providers(k)' # {}
          BY <1>1, <1>2, <3>3, SourcesSame
        <4> QED
          BY <3>1, <4>3, <4>4 DEF ClassOk
      <3> QED
        BY <3>2, <3>3
    <2>5. ClassInv'
      BY <1>1, <2>1, <2>4 DEF CacheInv, ClassInv
    <2> QED
      BY <1>2, <1>5, <2>2, <2>3, <2>5 DEF CacheInv
  <1>8. CASE resolution = "failed"
    <2>1. step' = "quiet" /\ sources' = sources /\ resolution' # "done"
      BY <1>1, <1>2, <1>8
    <2>2. PlaceInv' /\ JdkInv' /\ ClassInv'
      BY <1>1, <1>2, <1>6, <1>8, <2>1 DEF CacheInv, PlaceInv, JdkInv, ClassInv
    <2> QED
      BY <1>2, <1>5, <2>2 DEF CacheInv
  <1> QED
    BY <1>1, <1>7, <1>8

\* At the end of the queue nothing more is done.
LEMMA NextSourceStep ==
    ASSUME CacheInv, NextSource
    PROVE  CacheInv'
  <1>1. /\ step = "source" /\ sources = <<>> /\ step' = "quiet"
        /\ resolving' = resolving /\ session' = session /\ installed' = installed
        /\ stubs' = stubs /\ base' = base /\ found' = found /\ failed' = failed
        /\ sources' = sources /\ classes' = classes /\ index' = index
    BY DEF NextSource, disk
  <1>2. ResolveInv' /\ resolution' = resolution /\ model' = model
    BY <1>1, ResolveKept DEF CacheInv
  <1>3. Sources' = Sources /\ Done' = Done
    BY <1>1, <1>2, SourcesSame DEF Done
  <1>4. TypeInv' /\ BaseInv'
    BY <1>1 DEF CacheInv, TypeInv, BaseInv
  <1>5. ~AtWork /\ ~AtWork' /\ Taken' = Taken
    BY <1>1 DEF AtWork, Taken
  <1>6. resolution = "done"
    BY <1>1 DEF CacheInv, PlaceInv
  <1>7. PlaceInv'
    BY <1>1, <1>2, <1>3, <1>5, <1>6 DEF CacheInv, PlaceInv
  <1>8. JdkInv'
    BY <1>1, <1>5 DEF JdkInv
  <1>9. ASSUME NEW k \in Class \ Hidden PROVE ClassOk(k)'
    <2>1. ClassOk(k) /\ ~InWork(k) /\ ~InWork(k)'
      BY <1>1, <1>6 DEF CacheInv, ClassInv, InWork
    <2>2. Reached(k)' <=> Reached(k)
      BY <1>1, <1>2, <1>3, <1>5, ReachedSame
    <2> QED
      BY <1>1, <1>2, <2>1, <2>2, ClassKept
  <1>10. ClassInv'
    BY <1>1, <1>9 DEF CacheInv, ClassInv
  <1> QED
    BY <1>2, <1>4, <1>7, <1>8, <1>10 DEF CacheInv

\* A source is opened, the JDK's image extracted first, or left out.
LEMMA OpenSourceStep ==
    ASSUME CacheInv, OpenSource
    PROVE  CacheInv'
  <1> DEFINE s == Head(sources)
  <1>1. /\ step = "source" /\ sources # <<>>
        /\ resolving' = resolving /\ session' = session /\ installed' = installed
        /\ stubs' = stubs /\ base' = base /\ found' = found /\ failed' = failed
        /\ index' = index
        /\ IF s # Jdk THEN OpenJar(installed.jars[s])
           ELSE IF InJar(JdkHome) THEN OpenJar(JdkHome.classes)
           ELSE /\ step' = IF Extracted.dir THEN "class" ELSE "extract"
                /\ classes' = Extracted.classes /\ sources' = sources
    BY DEF OpenSource, disk
  <1>2. resolution = "done" /\ ~AtWork
    BY <1>1 DEF CacheInv, PlaceInv, AtWork
  <1>3. s \in Source /\ (s = Jdk => JdkHome \in Home /\ JdkHome.java)
    BY <1>1, <1>2, HeadSource
  <1>4. CASE ~IsImage(s)
    <2>1. OpenJar(Contents(s))
      BY <1>1, <1>4 DEF IsImage, Contents
    <2>2. CASE Contents(s) = Unreadable
      <3>1. sources' = Tail(sources) /\ step' = "source" /\ classes' = classes
        BY <1>1, <2>1, <2>2 DEF OpenJar
      <3>2. Readable(s) = <<>> /\ Len(Readable(s)) = 0
        BY <2>2 DEF Readable
      <3>3. Taken = 0
        BY <1>2 DEF Taken
      <3> QED
        BY <1>1, <1>2, <3>1, <3>2, <3>3, SourceBehind
    <2>3. CASE Contents(s) # Unreadable
      <3>1. step' = "class" /\ classes' = Contents(s) /\ sources' = sources
        BY <2>1, <2>3 DEF OpenJar
      <3>2. Contents(s) \in Seq(Held) /\ Work(s) = Contents(s)
        BY <1>3, <1>4, <2>3, ContentsAre DEF CacheInv, Work
      <3> QED
        BY <1>1, <1>2, <1>4, <3>1, <3>2, SourceOpened
    <2> QED
      BY <2>2, <2>3
  <1>5. CASE IsImage(s)
    <2>1. /\ s = Jdk /\ ~InJar(JdkHome) /\ sources' = sources
          /\ step' = IF Extracted.dir THEN "class" ELSE "extract"
          /\ classes' = Extracted.classes /\ Work(s) = Extracted.classes
      BY <1>1, <1>5 DEF IsImage, Work
    <2>2. base = found.base /\ Jdk \notin failed
      <3>1. Len(sources) \in Nat \ {0} /\ sources[1] = s
        BY <1>1, EmptySeq DEF CacheInv, TypeInv
      <3>2. \E i \in 1..Len(sources) : sources[i] = Jdk
        BY <2>1, <3>1
      <3> QED
        BY <1>1, <3>2 DEF CacheInv, JdkInv
    <2>3. CASE Extracted.dir
      <3>1. WholeJdk => Extracted.classes = JdkHome.classes
        BY <2>1, <2>2, <2>3 DEF WholeJdk, Extracted
      <3> QED
        BY <1>1, <1>2, <1>5, <2>1, <2>3, <3>1, SourceOpened
    <2>4. CASE ~Extracted.dir
      <3>1. step' = "extract"
        BY <2>1, <2>4
      <3>2. ResolveInv' /\ resolution' = resolution /\ model' = model
        BY <1>1, ResolveKept DEF CacheInv
      <3>3. Sources' = Sources /\ Done' = Done
        BY <1>1, <2>1, <3>2, SourcesSame DEF Done
      <3>4. /\ IsImage(Head(sources))' <=> IsImage(s)
            /\ Extracted' = Extracted /\ JdkHome' = JdkHome
        BY <1>1, <2>1, WorkSame
      <3>5. TypeInv' /\ BaseInv'
        <4>1. JdkHome.stamp \in Stamp
          BY <1>3, <2>1 DEF Stamp
        <4>2. Extracted.classes \in Seq(Held)
          BY <4>1 DEF CacheInv, TypeInv, Extracted
        <4> QED
          BY <1>1, <2>1, <3>1, <4>2 DEF CacheInv, TypeInv, BaseInv
      <3>6. ~AtWork' /\ Taken' = Taken
        BY <1>2, <3>1 DEF AtWork, Taken
      <3>7. PlaceInv'
        BY <1>1, <1>2, <2>1, <3>1, <3>2, <3>3, <3>6 DEF CacheInv, PlaceInv
      <3>8. JdkInv'
        <4>1. ~found'.base[JdkHome'.stamp].dir
          BY <1>1, <2>2, <2>4, <3>4 DEF Extracted
        <4> QED
          BY <1>1, <1>5, <2>2, <3>1, <3>4, <3>6, <4>1 DEF JdkInv
      <3>9. ASSUME NEW k \in Class \ Hidden PROVE ClassOk(k)'
        <4>1. ClassOk(k) /\ ~InWork(k) /\ ~InWork(k)'
          BY <1>1, <1>2, <3>1 DEF CacheInv, ClassInv, InWork
        <4>2. Reached(k)' <=> Reached(k)
          BY <1>1, <3>2, <3>3, <3>6, ReachedSame
        <4> QED
          BY <1>1, <3>2, <4>1, <4>2, ClassKept
      <3>10. ClassInv'
        BY <1>1, <3>1, <3>9 DEF CacheInv, ClassInv
      <3> QED
        BY <3>2, <3>5, <3>7, <3>8, <3>10 DEF CacheInv
    <2> QED
      BY <2>3, <2>4
  <1> QED
    BY <1>4, <1>5

\* One class more is extracted, the next one.
LEMMA ExtractClassStep ==
    ASSUME CacheInv, ExtractClass
    PROVE  CacheInv'
  <1> DEFINE stamp == JdkHome.stamp
             was == base[stamp]
             n == Len(was.classes)
             more == Append(was.classes, JdkHome.classes[n + 1])
  <1>1. /\ step = "extract" /\ step' = step
        /\ resolving' = resolving /\ session' = session /\ installed' = installed
        /\ stubs' = stubs /\ found' = found /\ failed' = failed
        /\ sources' = sources /\ classes' = classes /\ index' = index
        /\ n < Len(JdkHome.classes)
        /\ base' = [base EXCEPT ![stamp] = [dir |-> TRUE, classes |-> more]]
    BY DEF ExtractClass, Extracted
  <1>2. resolution = "done" /\ ~AtWork /\ sources # <<>>
    BY <1>1 DEF CacheInv, PlaceInv, AtWork
  <1>3. JdkHome \in Home /\ JdkHome.java /\ ~InJar(JdkHome)
    BY <1>1, <1>2, HeadSource DEF CacheInv, JdkInv, IsImage
  <1>4. stamp \in Stamp /\ JdkHome.classes \in Seq(Held)
    BY <1>3, StubCacheAssumption DEF Stamp
  <1>5. /\ was.classes \in Seq(Held) /\ base \in [Stamp -> [dir : BOOLEAN, classes : Seq(Held)]]
        /\ n \in Nat /\ Len(JdkHome.classes) \in Nat
    BY <1>4, LenProperties DEF CacheInv, TypeInv
  <1>6. n + 1 \in 1..Len(JdkHome.classes)
    BY <1>1, <1>5
  <1>7. JdkHome.classes[n + 1] \in Held
    BY <1>4, <1>6, ElementOfSeq
  <1>8. /\ more \in Seq(Held) /\ Len(more) = n + 1 /\ more[n + 1] = JdkHome.classes[n + 1]
        /\ \A j \in 1..n : more[j] = was.classes[j]
    BY <1>5, <1>7, AppendProperties
  <1> HIDE DEF more
  <1>9. \A j \in 1..(n + 1) : more[j] = JdkHome.classes[j]
    <2> TAKE j \in 1..(n + 1)
    <2>1. CASE j = n + 1
      BY <1>8, <2>1
    <2>2. CASE j # n + 1
      <3>1. j \in 1..n
        BY <1>5, <2>2
      <3>2. was.classes[j] = JdkHome.classes[j]
        BY <1>3, <3>1 DEF CacheInv, BaseInv
      <3> QED
        BY <1>8, <3>1, <3>2
    <2> QED
      BY <2>1, <2>2
  <1>10. base' \in [Stamp -> [dir : BOOLEAN, classes : Seq(Held)]]
    BY <1>1, <1>4, <1>5, <1>8
  <1>11. base'[stamp] = [dir |-> TRUE, classes |-> more]
         /\ \A s \in Stamp : s # stamp => base'[s] = base[s]
    BY <1>1, <1>4, <1>5
  <1>12. ResolveInv' /\ resolution' = resolution /\ model' = model
    BY <1>1, ResolveKept DEF CacheInv
  <1>13. Sources' = Sources /\ Done' = Done /\ JdkHome' = JdkHome
    BY <1>1, <1>12, SourcesSame DEF Done
  <1>14. TypeInv'
    BY <1>1, <1>10 DEF CacheInv, TypeInv
  <1>15. BaseInv'
    <2>1. ASSUME NEW s \in Stamp, ~base'[s].dir PROVE base'[s].classes = <<>>
      <3>1. s # stamp
        BY <1>11, <2>1
      <3> QED
        BY <1>11, <2>1, <3>1 DEF CacheInv, BaseInv
    <2>2. ASSUME NEW h \in Home, h.java
          PROVE  /\ Len(base'[h.stamp].classes) <= Len(h.classes)
                 /\ \A j \in 1..Len(base'[h.stamp].classes) :
                       base'[h.stamp].classes[j] = h.classes[j]
      <3>1. CASE h.stamp = stamp
        <4>1. h.classes = JdkHome.classes
          BY <1>3, <2>2, <3>1, StubCacheAssumption
        <4>2. base'[h.stamp].classes = more
          BY <1>11, <3>1
        <4> QED
          BY <1>6, <1>8, <1>9, <4>1, <4>2
      <3>2. CASE h.stamp # stamp
        <4>1. base'[h.stamp] = base[h.stamp]
          BY <1>11, <2>2, <3>2 DEF Stamp
        <4> QED
          BY <2>2, <4>1 DEF CacheInv, BaseInv
      <3> QED
        BY <3>1, <3>2
    <2> QED
      BY <2>1, <2>2 DEF BaseInv
  <1>16. ~AtWork' /\ Taken' = Taken
    BY <1>1, <1>2 DEF AtWork, Taken
  <1>17. PlaceInv'
    BY <1>1, <1>2, <1>12, <1>13, <1>16 DEF CacheInv, PlaceInv
  <1>18. JdkInv'
    <2>1. IsImage(Head(sources))' <=> IsImage(Head(sources))
      BY <1>1, <1>13 DEF IsImage
    <2> QED
      BY <1>1, <1>13, <1>16, <2>1 DEF CacheInv, JdkInv
  <1>19. ASSUME NEW k \in Class \ Hidden PROVE ClassOk(k)'
    <2>1. ClassOk(k) /\ ~InWork(k) /\ ~InWork(k)'
      BY <1>1, <1>2 DEF CacheInv, ClassInv, InWork
    <2>2. Reached(k)' <=> Reached(k)
      BY <1>1, <1>12, <1>13, <1>16, ReachedSame
    <2> QED
      BY <1>1, <1>12, <2>1, <2>2, ClassKept
  <1>20. ClassInv'
    BY <1>1, <1>19 DEF CacheInv, ClassInv
  <1> QED
    BY <1>12, <1>14, <1>15, <1>17, <1>18, <1>20 DEF CacheInv

\* The image is whole, or the JDK is left out.
LEMMA EndExtractionStep ==
    ASSUME CacheInv, EndExtraction
    PROVE  CacheInv'
  <1> DEFINE s == Head(sources)
  <1>1. /\ step = "extract"
        /\ resolving' = resolving /\ session' = session /\ installed' = installed
        /\ stubs' = stubs /\ base' = base /\ found' = found /\ index' = index
        /\ \/ /\ Extracted.classes = JdkHome.classes
              /\ step' = "class" /\ classes' = Extracted.classes
              /\ sources' = sources /\ failed' = failed
           \/ /\ step' = "source" /\ sources' = Tail(sources)
              /\ failed' = failed \cup {Jdk} /\ classes' = classes
    BY DEF EndExtraction, disk
  <1>2. resolution = "done" /\ ~AtWork /\ sources # <<>>
    BY <1>1 DEF CacheInv, PlaceInv, AtWork
  <1>3. IsImage(s) /\ ~found.base[JdkHome.stamp].dir
    BY <1>1 DEF CacheInv, JdkInv
  <1>4. CASE step' = "class" /\ Extracted.classes = JdkHome.classes
             /\ classes' = Extracted.classes /\ sources' = sources /\ failed' = failed
    <2>1. Work(s) = Extracted.classes
      BY <1>3 DEF Work
    <2> QED
      BY <1>1, <1>2, <1>3, <1>4, <2>1, SourceOpened
  <1>5. CASE step' = "source" /\ sources' = Tail(sources)
             /\ failed' = failed \cup {Jdk} /\ classes' = classes
    <2>1. ASSUME NEW k \in Class, First(k) = s PROVE Excused(k)'
      <3>1. model' = model
        BY <1>1, ResolveKept DEF CacheInv
      <3>2. JdkHome' = JdkHome /\ First(k)' = First(k)
        BY <1>1, <3>1, SourcesSame
      <3>3. s = Jdk /\ ~InJar(JdkHome)
        BY <1>3 DEF IsImage
      <3>4. ~WholeJdk'
        BY <1>1, <1>3, <1>5, <3>2, <3>3 DEF WholeJdk
      <3> QED
        BY <2>1, <3>2, <3>3, <3>4 DEF Excused
    <2> QED
      BY <1>1, <1>2, <1>5, <2>1, SourceBehind
  <1> QED
    BY <1>1, <1>4, <1>5

\* The source is gone through; the rest of an image that was cut short is excused.
LEMMA EndSourceStep ==
    ASSUME CacheInv, EndSource
    PROVE  CacheInv'
  <1> DEFINE s == Head(sources)
  <1>1. /\ step = "class" /\ classes = <<>> /\ step' = "source" /\ sources' = Tail(sources)
        /\ resolving' = resolving /\ session' = session /\ installed' = installed
        /\ stubs' = stubs /\ base' = base /\ found' = found /\ failed' = failed
        /\ classes' = classes /\ index' = index
    BY DEF EndSource, disk
  <1>2. resolution = "done" /\ AtWork /\ sources # <<>> /\ Len(classes) = 0
    BY <1>1 DEF CacheInv, PlaceInv, AtWork
  <1>3. s \in Source /\ (s = Jdk => JdkHome \in Home /\ JdkHome.java)
    BY <1>1, <1>2, HeadSource
  <1>4. /\ IsImage(s) \/ Contents(s) \in Seq(Held)
        /\ Len(Work(s)) \in Nat /\ (Work(s) = Contents(s) => Work(s) = Readable(s))
    BY <1>2, <1>3, WorkIsReadable DEF CacheInv, PlaceInv
  <1>5. Taken = Len(Work(s))
    BY <1>2, <1>4 DEF Taken
  <1>6. ASSUME NEW k \in Class, First(k) = s, Taken < Len(Readable(s)) PROVE Excused(k)'
    <2>1. Work(s) # Contents(s)
      BY <1>4, <1>5, <1>6
    <2>2. IsImage(s) /\ s = Jdk
      BY <2>1 DEF Work, IsImage
    <2>3. Extracted.classes # JdkHome.classes
      BY <2>1, <2>2 DEF Work, Contents
    <2>4. ~WholeJdk
      BY <1>2, <2>2, <2>3 DEF CacheInv, JdkInv
    <2>5. model' = model
      BY <1>1, ResolveKept DEF CacheInv
    <2>6. First(k)' = First(k) /\ ~WholeJdk'
      BY <1>1, <2>4, <2>5, SourcesSame, ExcuseStays
    <2> QED
      BY <1>6, <2>2, <2>6 DEF Excused
  <1> QED
    BY <1>1, <1>2, <1>6, SourceBehind

\* A class is passed over, or its stub is looked for.
LEMMA TakeClassStep ==
    ASSUME CacheInv, TakeClass
    PROVE  CacheInv'
  <1> DEFINE c == Head(classes)
  <1>1. /\ step = "class" /\ classes # <<>> /\ AtWork
        /\ resolving' = resolving /\ session' = session /\ installed' = installed
        /\ stubs' = stubs /\ base' = base /\ found' = found /\ failed' = failed
        /\ sources' = sources /\ index' = index
        /\ IF Skipped(c) THEN classes' = Tail(classes) /\ step' = step
           ELSE /\ step' = IF stubs[c.name] # Absent THEN "show" ELSE "create"
                /\ classes' = classes
    BY DEF TakeClass, disk, StubFile, AtWork
  <1>2. ResolveInv' /\ resolution' = resolution /\ model' = model
    BY <1>1, ResolveKept DEF CacheInv
  <1>3. c \in Held /\ step # "resolve" /\ resolution = "done"
    BY <1>1, HeadClass DEF CacheInv, PlaceInv
  <1>4. BaseInv'
    BY <1>1 DEF CacheInv, BaseInv
  <1>5. \A k \in Class \ Hidden : ClassOk(k) /\ ~InWork(k)
    BY <1>1, <1>3 DEF CacheInv, ClassInv, InWork
  <1>6. \A k \in Hidden : index'[k] = Absent
    BY <1>1 DEF CacheInv, ClassInv
  <1>7. CASE Skipped(c)
    <2>1. step' = "class" /\ classes' = Tail(classes)
      BY <1>1, <1>7
    <2>2. PlaceInv' /\ JdkInv' /\ classes' \in Seq(Held) /\ Done' = Done /\ Taken' = Taken + 1
      BY <1>1, <2>1, ClassBehind
    <2>3. TypeInv'
      BY <1>1, <2>1, <2>2 DEF CacheInv, TypeInv
    <2>4. ASSUME NEW k \in Class \ Hidden PROVE ClassOk(k)'
      <3>1. c.content = Malformed \/ c.name # k
        BY <1>7 DEF Skipped, Hidden
      <3>2. Providers(k) # {} => (Reached(k)' <=> Reached(k))
        BY <1>1, <1>2, <2>2, <3>1, ReachedMoves
      <3>3. ~InWork(k)'
        BY <2>1 DEF InWork
      <3> QED
        BY <1>1, <1>2, <1>5, <3>2, <3>3, ClassKept
    <2>5. ClassInv'
      BY <1>6, <2>1, <2>4 DEF ClassInv
    <2> QED
      BY <1>2, <1>4, <2>2, <2>3, <2>5 DEF CacheInv
  <1>8. CASE ~Skipped(c)
    <2>1. step' \in {"show", "create"} /\ classes' = classes
          /\ (step' = "create" <=> stubs[c.name] = Absent)
      BY <1>1, <1>8
    <2>2. PlaceInv' /\ JdkInv' /\ Done' = Done /\ Taken' = Taken
      BY <1>1, <1>8, <2>1, ClassGoesOn
    <2>3. TypeInv'
      BY <1>1, <2>1 DEF CacheInv, TypeInv
    <2>4. ASSUME NEW k \in Class \ Hidden PROVE ClassOk(k)'
      <3>1. Reached(k)' <=> Reached(k)
        BY <1>1, <1>2, <2>2, ReachedSame
      <3>2. CASE step' = "show" /\ c.name = k
        <4>1. InWork(k)' /\ stubs'[k] # Absent
          BY <1>1, <2>1, <3>2 DEF InWork
        <4>2. /\ Providers(k)' = Providers(k) /\ Current(k)' = Current(k)
              /\ (Excused(k) => Excused(k)')
          BY <1>1, <1>2, SourcesSame, ExcuseStays
        <4>3. stubs[k] = found.stubs[k] /\ ~Excused(k) => stubs[k] = Current(k)
          BY <1>1, <4>1 DEF Excused
        <4> QED
          BY <1>1, <1>5, <3>1, <3>2, <4>1, <4>2, <4>3 DEF ClassOk
      <3>3. CASE ~(step' = "show" /\ c.name = k)
        <4>1. ~InWork(k)'
          BY <2>1, <3>3 DEF InWork
        <4> QED
          BY <1>1, <1>2, <1>5, <3>1, <4>1, ClassKept
      <3> QED
        BY <3>2, <3>3
    <2>5. ClassInv'
      BY <1>6, <2>1, <2>4 DEF ClassInv
    <2> QED
      BY <1>2, <1>4, <2>2, <2>3, <2>5 DEF CacheInv
  <1> QED
    BY <1>7, <1>8

\* The file of a stub is made; that of no class that is shown.
LEMMA CreateStubStep ==
    ASSUME CacheInv, CreateStub
    PROVE  CacheInv'
  <1> DEFINE c == Head(classes)
  <1>1. /\ step = "create" /\ step' = "write" /\ AtWork
        /\ resolving' = resolving /\ session' = session /\ installed' = installed
        /\ stubs' = [stubs EXCEPT ![c.name] = Empty]
        /\ base' = base /\ found' = found /\ failed' = failed
        /\ sources' = sources /\ classes' = classes /\ index' = index
    BY DEF CreateStub, StubFile, AtWork
  <1>2. classes # <<>> /\ ~Skipped(c) /\ stubs[c.name] = Absent /\ resolution = "done"
    BY <1>1 DEF CacheInv, PlaceInv
  <1>3. ResolveInv' /\ resolution' = resolution /\ model' = model
    BY <1>1, ResolveKept DEF CacheInv
  <1>4. c \in Held /\ c.name \in Class
    BY <1>1, <1>2, HeadClass DEF Held
  <1>5. /\ stubs \in [Class -> Told] /\ stubs' \in [Class -> Told] /\ stubs'[c.name] = Empty
        /\ \A k \in Class : k # c.name => stubs'[k] = stubs[k]
    BY <1>1, <1>4 DEF CacheInv, TypeInv, Told
  <1>6. PlaceInv' /\ JdkInv' /\ Done' = Done /\ Taken' = Taken
    BY <1>1, <1>2, <1>5, ClassGoesOn
  <1>7. TypeInv' /\ BaseInv'
    BY <1>1, <1>5 DEF CacheInv, TypeInv, BaseInv
  <1>8. ASSUME NEW k \in Class \ Hidden PROVE ClassOk(k)'
    <2>1. ClassOk(k) /\ ~InWork(k)
      BY <1>1, <1>2 DEF CacheInv, ClassInv, InWork
    <2>2. Reached(k)' <=> Reached(k)
      BY <1>1, <1>3, <1>6, ReachedSame
    <2>3. CASE k = c.name
      <3>1. InWork(k)' /\ step' # "show"
        BY <1>1, <2>3 DEF InWork
      <3>2. /\ Providers(k)' = Providers(k) /\ Current(k)' = Current(k)
            /\ (Excused(k) => Excused(k)')
        BY <1>1, <1>3, SourcesSame, ExcuseStays
      <3>3. Providers(k) # {} => Current(k) # Absent
        <4>1. Providers(k) # {} => Current(k) \in Content
          BY FirstPlace DEF CacheInv
        <4> QED
          BY <4>1, StubCacheAssumption
      <3> QED
        BY <1>1, <1>2, <2>1, <2>2, <2>3, <3>1, <3>2, <3>3 DEF ClassOk
    <2>4. CASE k # c.name
      <3>1. ~InWork(k)'
        BY <1>1, <2>4 DEF InWork
      <3> QED
        BY <1>1, <1>3, <1>5, <2>1, <2>2, <2>4, <3>1, ClassKept
    <2> QED
      BY <2>3, <2>4
  <1>9. ClassInv'
    BY <1>1, <1>8 DEF CacheInv, ClassInv
  <1> QED
    BY <1>3, <1>6, <1>7, <1>9 DEF CacheInv

\* The stub is written, with what its first place has; or it fails.
LEMMA WriteStubStep ==
    ASSUME CacheInv, WriteStub
    PROVE  CacheInv'
  <1> DEFINE c == Head(classes)
  <1>1. /\ step = "write" /\ AtWork
        /\ resolving' = resolving /\ session' = session /\ installed' = installed
        /\ base' = base /\ found' = found /\ sources' = sources /\ index' = index
        /\ \/ /\ stubs' = [stubs EXCEPT ![c.name] = c.content]
              /\ step' = "show" /\ classes' = classes /\ failed' = failed
           \/ /\ failed' = failed \cup {c.name}
              /\ step' = "class" /\ classes' = Tail(classes) /\ stubs' = stubs
    BY DEF WriteStub, StubFile, AtWork
  <1>2. classes # <<>> /\ ~Skipped(c) /\ stubs[c.name] = Empty /\ resolution = "done"
    BY <1>1 DEF CacheInv, PlaceInv
  <1>3. ResolveInv' /\ resolution' = resolution /\ model' = model
    BY <1>1, ResolveKept DEF CacheInv
  <1>4. c \in Held /\ c.name \in Class /\ c.content # Malformed /\ c.content \in Content
    BY <1>1, <1>2, HeadClass DEF Held, Skipped
  <1>5. BaseInv' /\ failed \subseteq failed'
    BY <1>1 DEF CacheInv, BaseInv
  <1>6. \A k \in Class \ Hidden : ClassOk(k)
    BY <1>1, <1>2 DEF CacheInv, ClassInv
  <1>7. \A k \in Hidden : index'[k] = Absent
    BY <1>1 DEF CacheInv, ClassInv
  <1>8. CASE stubs' = [stubs EXCEPT ![c.name] = c.content]
             /\ step' = "show" /\ classes' = classes /\ failed' = failed
    <2>1. /\ stubs' \in [Class -> Told] /\ stubs'[c.name] = c.content
          /\ \A k \in Class : k # c.name => stubs'[k] = stubs[k]
      BY <1>4, <1>8 DEF CacheInv, TypeInv, Told
    <2>2. PlaceInv' /\ JdkInv' /\ Done' = Done /\ Taken' = Taken
      BY <1>1, <1>2, <1>8, ClassGoesOn
    <2>3. TypeInv'
      BY <1>1, <1>8, <2>1 DEF CacheInv, TypeInv
    <2>4. ASSUME NEW k \in Class \ Hidden PROVE ClassOk(k)'
      <3>1. Reached(k)' <=> Reached(k)
        BY <1>1, <1>3, <2>2, ReachedSame
      <3>2. CASE k = c.name
        <4>1. InWork(k)'
          BY <1>8, <3>2 DEF InWork
        <4>2. /\ Providers(k)' = Providers(k) /\ Current(k)' = Current(k)
              /\ (Excused(k) => Excused(k)')
          BY <1>1, <1>3, <1>5, SourcesSame, ExcuseStays
        <4>3. Current(k) # Empty /\ Providers(k) # {}
          <5>1. Providers(k) # {}
            BY <1>1, <1>2, <1>4, <3>2, HeadIsFirst
          <5>2. Current(k) \in Content
            BY <5>1, FirstPlace DEF CacheInv
          <5> QED
            BY <5>1, <5>2, StubCacheAssumption
        <4>4. ~Reached(k) => Current(k) = c.content
          BY <1>1, <1>2, <1>4, <3>2, HeadIsFirst
        <4>5. Excused(k) \/ (~Reached(k) /\ index[k] = Absent)
          BY <1>2, <1>6, <3>2, <4>3 DEF ClassOk
        <4> QED
          BY <1>1, <2>1, <3>1, <3>2, <4>1, <4>2, <4>3, <4>4, <4>5 DEF ClassOk
      <3>3. CASE k # c.name
        <4>1. ~InWork(k) /\ ~InWork(k)'
          BY <1>8, <3>3 DEF InWork
        <4> QED
          BY <1>1, <1>3, <1>5, <1>6, <2>1, <3>1, <3>3, <4>1, ClassKept
      <3> QED
        BY <3>2, <3>3
    <2>5. ClassInv'
      BY <1>7, <1>8, <2>4 DEF ClassInv
    <2> QED
      BY <1>3, <1>5, <2>2, <2>3, <2>5 DEF CacheInv
  <1>9. CASE failed' = failed \cup {c.name}
             /\ step' = "class" /\ classes' = Tail(classes) /\ stubs' = stubs
    <2>1. PlaceInv' /\ JdkInv' /\ classes' \in Seq(Held) /\ Done' = Done /\ Taken' = Taken + 1
      BY <1>1, <1>2, <1>9, ClassBehind
    <2>2. TypeInv'
      BY <1>1, <1>9, <2>1 DEF CacheInv, TypeInv
    <2>3. ASSUME NEW k \in Class \ Hidden PROVE ClassOk(k)'
      <3>1. ~InWork(k)'
        BY <1>9 DEF InWork
      <3>2. CASE k = c.name
        <4>1. Excused(k)'
          BY <1>9, <3>2 DEF Excused
        <4>2. Providers(k)' # {}
          BY <1>1, <1>2, <1>3, <1>4, <3>2, HeadIsFirst, SourcesSame
        <4> QED
          BY <4>1, <4>2 DEF ClassOk
      <3>3. CASE k # c.name
        <4>1. ~InWork(k)
          BY <3>3 DEF InWork
        <4>2. Providers(k) # {} => (Reached(k)' <=> Reached(k))
          BY <1>1, <1>2, <1>3, <2>1, <3>3, ReachedMoves
        <4> QED
          BY <1>1, <1>3, <1>5, <1>6, <1>9, <3>1, <4>1, <4>2, ClassKept
      <3> QED
        BY <3>2, <3>3
    <2>4. ClassInv'
      BY <1>7, <1>9, <2>3 DEF ClassInv
    <2> QED
      BY <1>3, <1>5, <2>1, <2>2, <2>4 DEF CacheInv
  <1> QED
    BY <1>1, <1>8, <1>9

\* The index shows the stub: that of the first place, from then on.
LEMMA ShowStubStep ==
    ASSUME CacheInv, ShowStub
    PROVE  CacheInv'
  <1> DEFINE c == Head(classes)
  <1>1. /\ step = "show" /\ AtWork /\ step' = "class" /\ classes' = Tail(classes)
        /\ resolving' = resolving /\ session' = session /\ installed' = installed
        /\ stubs' = stubs /\ base' = base /\ found' = found /\ failed' = failed
        /\ sources' = sources /\ index' = [index EXCEPT ![c.name] = stubs[c.name]]
    BY DEF ShowStub, disk, StubFile, AtWork
  <1>2. classes # <<>> /\ ~Skipped(c) /\ resolution = "done"
    BY <1>1 DEF CacheInv, PlaceInv
  <1>3. ResolveInv' /\ resolution' = resolution /\ model' = model
    BY <1>1, ResolveKept DEF CacheInv
  <1>4. c \in Held /\ c.name \in Class /\ c.content # Malformed /\ c.name \notin Hidden
    BY <1>1, <1>2, HeadClass DEF Held, Skipped, Hidden
  <1>5. /\ stubs \in [Class -> Told] /\ index' \in [Class -> Told]
        /\ index'[c.name] = stubs[c.name]
        /\ \A k \in Class : k # c.name => index'[k] = index[k]
    BY <1>1, <1>4 DEF CacheInv, TypeInv
  <1>6. PlaceInv' /\ JdkInv' /\ classes' \in Seq(Held) /\ Done' = Done /\ Taken' = Taken + 1
    BY <1>1, <1>2, ClassBehind
  <1>7. TypeInv' /\ BaseInv'
    BY <1>1, <1>5, <1>6 DEF CacheInv, TypeInv, BaseInv
  <1>8. ASSUME NEW k \in Class \ Hidden PROVE ClassOk(k)'
    <2>1. ClassOk(k) /\ ~InWork(k)'
      BY <1>1, <1>2 DEF CacheInv, ClassInv, InWork
    <2>2. CASE k = c.name
      <3>1. InWork(k)
        BY <1>1, <2>2 DEF InWork
      <3>2. Providers(k) # {} /\ Reached(k)'
        BY <1>1, <1>2, <1>3, <1>4, <1>6, <2>2, HeadIsFirst, ReachedMoves
      <3>3. /\ Providers(k)' = Providers(k) /\ Current(k)' = Current(k)
            /\ (Excused(k) => Excused(k)')
        BY <1>1, <1>3, SourcesSame, ExcuseStays
      <3> QED
        BY <1>1, <1>5, <2>1, <2>2, <3>1, <3>2, <3>3 DEF ClassOk
    <2>3. CASE k # c.name
      <3>1. ~InWork(k)
        BY <2>3 DEF InWork
      <3>2. Providers(k) # {} => (Reached(k)' <=> Reached(k))
        BY <1>1, <1>2, <1>3, <1>6, <2>3, ReachedMoves
      <3> QED
        BY <1>1, <1>3, <1>5, <2>1, <2>3, <3>1, <3>2, ClassKept
    <2> QED
      BY <2>2, <2>3
  <1>9. ClassInv'
    <2>1. Hidden \subseteq Class
      BY StubCacheAssumption DEF Hidden
    <2>2. \A k \in Hidden : index'[k] = Absent
      BY <1>4, <1>5, <2>1 DEF CacheInv, ClassInv
    <2> QED
      BY <1>1, <1>8, <2>2 DEF ClassInv
  <1> QED
    BY <1>3, <1>6, <1>7, <1>9 DEF CacheInv

\* Another start finds the cache as it is, and nothing else.
LEMMA RestartStep ==
    ASSUME CacheInv, Restart
    PROVE  CacheInv'
  <1>1. /\ session' = session + 1 /\ session < MaxSession /\ installed' \in Installation
        /\ found' = [stubs |-> stubs, base |-> base] /\ failed' = {}
        /\ step' = "resolve" /\ sources' = <<>> /\ classes' = <<>>
        /\ index' = [k \in Class |-> Absent]
        /\ project' = project /\ stubs' = stubs /\ base' = base
        /\ Unresolved' /\ resolution' = "idle"
    BY DEF Restart, disk, Unresolved
  <1>2. ResolveInv'
    <2>1. project' \in Project
      BY <1>1 DEF CacheInv, ResolveInv
    <2>2. /\ <<>> \in Seq(Dir) /\ <<>> \in Seq(LineRecord) /\ <<>> \in Seq(ModuleRecord)
          /\ <<>> \in Seq(CallRecord) /\ DOMAIN <<>> = {}
      BY EmptySeq
    <2> QED
      BY <1>1, <2>1, <2>2 DEF Unresolved, ResolveInv
  <1>3. TypeInv'
    <2>1. session' \in 1..MaxSession
      BY <1>1, StubCacheAssumption DEF CacheInv, TypeInv
    <2>2. sources' \in Seq(Source) /\ classes' \in Seq(Held)
      BY <1>1, EmptySeq
    <2>3. index' \in [Class -> Told]
      BY <1>1 DEF Told
    <2> QED
      BY <1>1, <2>1, <2>2, <2>3 DEF CacheInv, TypeInv
  <1>4. BaseInv'
    BY <1>1 DEF CacheInv, BaseInv
  <1>5. ~AtWork'
    BY <1>1 DEF AtWork
  <1>6. PlaceInv'
    BY <1>1, <1>5 DEF PlaceInv
  <1>7. JdkInv'
    BY <1>1, <1>5 DEF JdkInv
  <1>8. ClassInv'
    <2>1. Hidden \subseteq Class
      BY StubCacheAssumption DEF Hidden
    <2> QED
      BY <1>1, <2>1 DEF ClassInv
  <1> QED
    BY <1>2, <1>3, <1>4, <1>6, <1>7, <1>8 DEF CacheInv

\* While the model is resolved nothing is indexed.
LEMMA ResolveModelStep ==
    ASSUME CacheInv, ResolveModel
    PROVE  CacheInv'
  <1>1. /\ step = "resolve" /\ Resolve
        /\ session' = session /\ installed' = installed
        /\ stubs' = stubs /\ base' = base /\ found' = found /\ failed' = failed
        /\ step' = step /\ sources' = sources /\ classes' = classes /\ index' = index
    BY DEF ResolveModel, disk
  <1>2. ResolveInv'
    BY <1>1, ResolveStep DEF CacheInv
  <1>3. TypeInv' /\ BaseInv'
    BY <1>1 DEF CacheInv, TypeInv, BaseInv
  <1>4. ~AtWork'
    BY <1>1 DEF AtWork
  <1>5. PlaceInv'
    BY <1>1, <1>4 DEF CacheInv, PlaceInv
  <1>6. JdkInv'
    BY <1>1, <1>4 DEF CacheInv, JdkInv
  <1>7. ClassInv'
    BY <1>1 DEF CacheInv, ClassInv
  <1> QED
    BY <1>2, <1>3, <1>5, <1>6, <1>7 DEF CacheInv

(***************************************************************************)
(* The invariant and what it gives.                                        *)
(***************************************************************************)

\* The cache is empty before the first start.
LEMMA CacheInit == Init => CacheInv
  <1> SUFFICES ASSUME Init PROVE CacheInv
    OBVIOUS
  <1>1. /\ project \in Project /\ Unresolved
        /\ session = 1 /\ installed \in Installation
        /\ stubs = [k \in Class |-> Absent]
        /\ base = [s \in Stamp |-> NotExtracted]
        /\ found = [stubs |-> stubs, base |-> base] /\ failed = {}
        /\ step = "resolve" /\ sources = <<>> /\ classes = <<>>
        /\ index = [k \in Class |-> Absent]
    BY DEF Init, Stamp
  <1>2. ResolveInv
    BY <1>1, ResolveInit
  <1>3. <<>> \in Seq(Held) /\ <<>> \in Seq(Source) /\ Len(<<>>) = 0
    BY EmptySeq
  <1>4. TypeInv
    <2>1. session \in 1..MaxSession
      BY <1>1, StubCacheAssumption
    <2>2. stubs \in [Class -> Told] /\ index \in [Class -> Told]
      BY <1>1 DEF Told
    <2>3. base \in [Stamp -> [dir : BOOLEAN, classes : Seq(Held)]]
      BY <1>1, <1>3 DEF NotExtracted
    <2> QED
      BY <1>1, <1>3, <2>1, <2>2, <2>3 DEF TypeInv
  <1>5. BaseInv
    <2>1. \A s \in Stamp : base[s].classes = <<>>
      BY <1>1 DEF NotExtracted
    <2>2. ASSUME NEW h \in Home, h.java
          PROVE  /\ Len(base[h.stamp].classes) <= Len(h.classes)
                 /\ \A j \in 1..Len(base[h.stamp].classes) :
                       base[h.stamp].classes[j] = h.classes[j]
      <3>1. h.stamp \in Stamp
        BY <2>2 DEF Stamp
      <3>2. base[h.stamp].classes = <<>> /\ Len(base[h.stamp].classes) = 0
        BY <1>3, <2>1, <3>1
      <3>3. Len(h.classes) \in Nat
        <4>1. IsContents(h.classes)
          BY <2>2, StubCacheAssumption
        <4>2. h.classes \in Seq(Held) => Len(h.classes) \in Nat
          BY LenProperties
        <4>3. Len(Unreadable) = 1
          BY DEF Unreadable
        <4> QED
          BY <4>1, <4>2, <4>3 DEF IsContents
      <3> QED
        BY <3>2, <3>3
    <2> QED
      BY <2>1, <2>2 DEF BaseInv
  <1>6. ~AtWork
    BY <1>1 DEF AtWork
  <1>7. PlaceInv /\ JdkInv
    BY <1>1, <1>6 DEF PlaceInv, JdkInv
  <1>8. ClassInv
    <2>1. Hidden \subseteq Class
      BY StubCacheAssumption DEF Hidden
    <2> QED
      BY <1>1, <2>1 DEF ClassInv
  <1> QED
    BY <1>2, <1>4, <1>5, <1>7, <1>8 DEF CacheInv

\* Every step keeps the invariant.
LEMMA CacheStep == CacheInv /\ [Next]_vars => CacheInv'
  <1> SUFFICES ASSUME CacheInv, [Next]_vars PROVE CacheInv'
    OBVIOUS
  <1>1. CASE ResolveModel
    BY <1>1, ResolveModelStep
  <1>2. CASE IndexExternalSymbols
    <2>1. CASE BeginIndexing
      BY <2>1, BeginIndexingStep
    <2>2. CASE NextSource
      BY <2>2, NextSourceStep
    <2>3. CASE OpenSource
      BY <2>3, OpenSourceStep
    <2>4. CASE ExtractClass
      BY <2>4, ExtractClassStep
    <2>5. CASE EndExtraction
      BY <2>5, EndExtractionStep
    <2>6. CASE EndSource
      BY <2>6, EndSourceStep
    <2>7. CASE TakeClass
      BY <2>7, TakeClassStep
    <2>8. CASE CreateStub
      BY <2>8, CreateStubStep
    <2>9. CASE WriteStub
      BY <2>9, WriteStubStep
    <2>10. CASE ShowStub
      BY <2>10, ShowStubStep
    <2> QED
      BY <1>2, <2>1, <2>2, <2>3, <2>4, <2>5, <2>6, <2>7, <2>8, <2>9, <2>10
         DEF IndexExternalSymbols
  <1>3. CASE Restart
    BY <1>3, RestartStep
  <1>4. CASE UNCHANGED vars
    <2>1. /\ project' = project /\ resolution' = resolution
          /\ calls' = calls /\ todo' = todo /\ dirs' = dirs
          /\ output' = output /\ parsed' = parsed /\ model' = model
          /\ session' = session /\ installed' = installed /\ stubs' = stubs /\ base' = base
          /\ found' = found /\ failed' = failed /\ step' = step /\ sources' = sources
          /\ classes' = classes /\ index' = index
      BY <1>4 DEF vars
    <2>2. ResolveInv'
      BY <2>1, ResolveKept DEF CacheInv, resolving
    <2>3. TypeInv' /\ BaseInv'
      BY <2>1 DEF CacheInv, TypeInv, BaseInv
    <2>4. Sources' = Sources /\ Done' = Done
      BY <2>1, SourcesSame DEF Done
    <2>5. /\ IsImage(Head(sources))' <=> IsImage(Head(sources))
          /\ Contents(Head(sources))' = Contents(Head(sources))
          /\ Work(Head(sources))' = Work(Head(sources))
          /\ Extracted' = Extracted /\ JdkHome' = JdkHome
      BY <2>1, WorkSame
    <2>6. (AtWork' <=> AtWork) /\ Taken' = Taken
      BY <2>1, <2>5 DEF AtWork, Taken
    <2>7. PlaceInv'
      BY <2>1, <2>4, <2>5, <2>6 DEF CacheInv, PlaceInv, Skipped
    <2>8. JdkInv'
      <3>1. WholeJdk' => WholeJdk
        BY <2>1, ExcuseStays
      <3> QED
        BY <2>1, <2>5, <2>6, <3>1 DEF CacheInv, JdkInv
    <2>9. ASSUME NEW k \in Class \ Hidden, ClassOk(k) PROVE ClassOk(k)'
      <3>1. (Reached(k)' <=> Reached(k)) /\ (InWork(k)' <=> InWork(k))
        BY <2>1, <2>4, <2>6, ReachedSame DEF InWork
      <3>2. /\ Providers(k)' = Providers(k) /\ Current(k)' = Current(k)
            /\ (Excused(k) => Excused(k)')
        BY <2>1, SourcesSame, ExcuseStays
      <3> QED
        BY <2>1, <2>9, <3>1, <3>2 DEF ClassOk
    <2>10. ClassInv'
      BY <2>1, <2>9 DEF CacheInv, ClassInv
    <2> QED
      BY <2>2, <2>3, <2>7, <2>8, <2>10 DEF CacheInv
  <1> QED
    BY <1>1, <1>2, <1>3, <1>4 DEF Next

\* A sequence without repetition has as many elements as places.
LEMMA DistinctCount ==
    ASSUME NEW S, NEW s \in Seq(S), Distinct(s)
    PROVE  Cardinality(ToSet(s)) = Len(s)
  <1>1. Len(s) \in Nat /\ DOMAIN s = 1..Len(s) /\ s \in [1..Len(s) -> S]
    BY LenProperties
  <1>2. s \in [1..Len(s) -> ToSet(s)]
    BY <1>1 DEF ToSet
  <1>3. \A i, j \in 1..Len(s) : s[i] = s[j] => i = j
    BY DEF Distinct
  <1>4. \A e \in ToSet(s) : \E i \in 1..Len(s) : s[i] = e
    BY <1>1 DEF ToSet
  <1> DEFINE n == Len(s)
             T == ToSet(s)
  <1>5. s \in Bijection(1..n, T)
    <2> HIDE DEF n, T
    <2>1. s \in [1..n -> T]
      BY <1>2 DEF n, T
    <2>2. s \in Injection(1..n, T)
      BY <2>1, <1>3 DEF Injection, IsInjective, n
    <2>3. s \in Surjection(1..n, T)
      BY <2>1, <1>4 DEF Surjection, n, T
    <2> QED
      BY <2>2, <2>3 DEF Bijection
  <1> QED
    BY <1>1, <1>5, FS_CountingElements DEF ExistsBijection

\* The sources left are some of a queue without repetition, and the class in work
\* is one to be shown whose file is empty while it is written.
LEMMA InvTypeOK == CacheInv => TypeOK
  <1> SUFFICES ASSUME CacheInv PROVE TypeOK
    OBVIOUS
  <1>1. sources \in Seq(Source) /\ Len(sources) \in Nat
    BY LenProperties DEF CacheInv, TypeInv
  <1>2. Distinct(sources)
    <2>1. CASE step = "resolve" \/ resolution # "done"
      <3>1. Len(sources) = 0
        BY <2>1 DEF CacheInv, PlaceInv
      <3> QED
        BY <3>1 DEF Distinct
    <2>2. CASE step # "resolve" /\ resolution = "done"
      <3> SUFFICES ASSUME NEW i \in 1..Len(sources), NEW j \in 1..Len(sources),
                          sources[i] = sources[j]
                   PROVE  i = j
        BY DEF Distinct
      <3>1. /\ Len(sources) <= Len(Sources) /\ Len(Sources) \in Nat /\ Distinct(Sources)
            /\ sources[i] = Sources[Done + i] /\ sources[j] = Sources[Done + j]
        BY <2>2, SourcesAre DEF CacheInv, PlaceInv
      <3>2. Done + i \in 1..Len(Sources) /\ Done + j \in 1..Len(Sources) /\ Done \in Nat
        BY <1>1, <3>1 DEF Done
      <3>3. Done + i = Done + j
        BY <3>1, <3>2 DEF Distinct
      <3> QED
        BY <3>2, <3>3
    <2> QED
      BY <2>1, <2>2
  <1>3. Cardinality(ToSet(sources)) = Len(sources)
    BY <1>1, <1>2, DistinctCount
  <1>4. step = "extract" => Head(sources) = Jdk
    BY DEF CacheInv, JdkInv, IsImage
  <1> QED
    BY <1>3, <1>4 DEF CacheInv, TypeInv, PlaceInv, TypeOK, StubFile

\* When nothing is left every class that a source has is reached.
LEMMA InvFaithful == CacheInv => CacheIsFaithful
  <1> SUFFICES ASSUME CacheInv, step = "quiet", resolution = "done", NEW k \in Class
               PROVE  IF k \in Internal \cup Nameless \/ Providers(k) = {} THEN index[k] = Absent
                      ELSE /\ k \notin failed
                           /\ found.stubs[k] \in {Absent, Current(k)}
                           /\ First(k) = Jdk => WholeJdk
                           => index[k] = Current(k)
    BY DEF CacheIsFaithful
  <1>1. CASE k \in Hidden
    BY <1>1 DEF CacheInv, ClassInv, Hidden
  <1>2. CASE k \notin Hidden
    <2>1. ClassOk(k)
      BY <1>2 DEF CacheInv, ClassInv
    <2>2. CASE Providers(k) = {}
      BY <2>1, <2>2 DEF ClassOk
    <2>3. CASE Providers(k) # {}
      <3>1. sources = <<>> /\ Len(Sources) \in Nat
        BY SourcesAre DEF CacheInv, PlaceInv
      <3>2. Done = Len(Sources)
        BY <3>1 DEF Done
      <3>3. Min(Providers(k)) \in 1..Len(Sources)
        BY <2>3, FirstPlace DEF CacheInv
      <3>4. Reached(k)
        BY <3>1, <3>2, <3>3 DEF Reached
      <3>5. Excused(k) \/ index[k] = Current(k)
        BY <2>1, <2>3, <3>4 DEF ClassOk
      <3> QED
        BY <1>2, <2>3, <3>5 DEF Excused, Hidden
    <2> QED
      BY <2>2, <2>3
  <1> QED
    BY <1>1, <1>2

\* In every session no source is gone through twice, and a stub is made where none
\* is and written where it was made. (index_external_symbols, write_stub)
THEOREM TypeCorrect == Spec => []TypeOK
  <1> QED
    BY CacheInit, CacheStep, InvTypeOK, PTL DEF Spec

\* Whatever was cached, extracted, cut short or left by other sessions, and
\* whatever is installed: once all is indexed the index shows of each class what
\* the first source has that has it, unless a named obstacle of this class stood
\* in the way. (index_external_symbols, index_class_bytes, write_stub,
\* extract_java_base)
THEOREM CacheFaithful == Spec => []CacheIsFaithful
  <1> QED
    BY CacheInit, CacheStep, InvFaithful, PTL DEF Spec

(***************************************************************************)
(* The files of the modules.                                               *)
(***************************************************************************)

\* The greatest of some numbers up to n is one of them.
LEMMA MaxOfNumbers ==
    ASSUME NEW n \in Nat, NEW s \in SUBSET (0..n), s # {}
    PROVE  Max(s) \in s /\ \A y \in s : Max(s) >= y
  <1> DEFINE T == {n - y : y \in s}
  <1>1. T \in SUBSET Nat /\ T # {}
    <2>1. \A y \in s : n - y \in Nat
      OBVIOUS
    <2> QED
      BY <2>1
  <1>2. PICK t \in T : \A u \in T : t <= u
    <2> HIDE DEF T
    <2> QED
      BY <1>1, LeastNumber
  <1>3. PICK x \in s : t = n - x
    BY <1>2
  <1>4. \A y \in s : x >= y
    <2> TAKE y \in s
    <2>1. n - x <= n - y
      BY <1>2, <1>3
    <2> QED
      BY <2>1
  <1> QED
    BY <1>3, <1>4 DEF Max

\* Of two directories around a file the one with the shorter path is around the
\* other.
LEMMA AroundBoth ==
    ASSUME NEW S, NEW file \in Seq(S), NEW d \in Seq(S), NEW e \in Seq(S),
           StartsWith(file, d), StartsWith(file, e), Len(e) <= Len(d)
    PROVE  StartsWith(d, e)
  <1>1. Len(d) \in Nat /\ Len(e) \in Nat /\ Len(file) \in Nat /\ Len(d) <= Len(file)
    BY LenProperties DEF StartsWith, IsPrefix
  <1>2. \A i \in 1..Len(d) : d[i] \in S /\ i \in 1..Len(file) /\ file[i] \in S
    BY <1>1, ElementOfSeq
  <1>3. \A i \in 1..Len(e) : i \in 1..Len(d) /\ e[i] \in S
    BY <1>1, ElementOfSeq
  <1>4. SubSeq(d, 1, Len(d)) = SubSeq(file, 1, Len(d))
        /\ SubSeq(e, 1, Len(e)) = SubSeq(file, 1, Len(e))
    BY DEF StartsWith, IsPrefix
  <1>5. \A i \in 1..Len(d) : d[i] = file[i]
    <2>1. \A i \in 1..Len(d) : SubSeq(d, 1, Len(d))[i] = d[i]
      BY <1>1, <1>2, SubSeqProperties
    <2>2. \A i \in 1..Len(d) : SubSeq(file, 1, Len(d))[i] = file[i]
      BY <1>1, <1>2, SubSeqProperties
    <2> QED
      BY <1>4, <2>1, <2>2
  <1>6. /\ SubSeq(d, 1, Len(e)) \in Seq(S) /\ Len(SubSeq(d, 1, Len(e))) = Len(e)
        /\ \A i \in 1..Len(e) : SubSeq(d, 1, Len(e))[i] = d[i]
    <2>1. \A i \in 1..Len(e) : d[i] \in S
      BY <1>2, <1>3
    <2> QED
      BY <1>1, <2>1, SubSeqProperties
  <1>7. /\ SubSeq(file, 1, Len(e)) \in Seq(S) /\ Len(SubSeq(file, 1, Len(e))) = Len(e)
        /\ \A i \in 1..Len(e) : SubSeq(file, 1, Len(e))[i] = file[i]
    <2>1. \A i \in 1..Len(e) : file[i] \in S
      BY <1>2, <1>3
    <2> QED
      BY <1>1, <2>1, SubSeqProperties
  <1>8. SubSeq(d, 1, Len(e)) = SubSeq(file, 1, Len(e))
    <2>1. \A i \in 1..Len(e) : SubSeq(d, 1, Len(e))[i] = SubSeq(file, 1, Len(e))[i]
      BY <1>3, <1>5, <1>6, <1>7
    <2> QED
      BY <1>6, <1>7, <2>1, SeqEqual
  <1> QED
    BY <1>4, <1>8 DEF StartsWith, IsPrefix

\* Whatever the modules are: a file goes to one of those around it, no directory
\* of any module is further in, and of modules that share that directory it is the
\* last; only a file around which there is none goes to none. (module_for_file)
THEOREM ModuleIsInnermost ==
    ASSUME NEW modules \in Seq(ModuleRecord), NEW file \in Dir
    PROVE  LET m == ModuleForFile(modules, file)
           IN  \/ /\ m = 0 /\ \A i \in DOMAIN modules : Around(modules, i, file) = {}
               \/ /\ m \in DOMAIN modules
                  /\ \E d \in Around(modules, m, file) :
                        \A i \in DOMAIN modules : \A e \in Around(modules, i, file) :
                            StartsWith(d, e) /\ (e = d => i <= m)
  <1> DEFINE n == Len(file)
             lengths(i) == {Len(d) : d \in Around(modules, i, file)}
             best(i) == Max(lengths(i))
             candidates == {i \in DOMAIN modules : Around(modules, i, file) # {}}
             Preferred(i) ==
                 \A j \in candidates : best(j) < best(i) \/ (best(j) = best(i) /\ j <= i)
             m == ModuleForFile(modules, file)
  <1>1. /\ n \in Nat /\ Len(modules) \in Nat /\ DOMAIN modules = 1..Len(modules)
    BY LenProperties DEF Dir
  <1>2. ASSUME NEW i \in DOMAIN modules, NEW d \in Around(modules, i, file)
        PROVE  d \in Dir /\ StartsWith(file, d) /\ Len(d) \in 0..n
    <2>1. modules[i] \in ModuleRecord
      BY <1>1, ElementOfSeq
    <2>2. modules[i].source_dirs \in Seq(Dir)
      BY <2>1 DEF ModuleRecord
    <2>3. d \in ToSet(modules[i].source_dirs) /\ StartsWith(file, d)
      BY <1>2 DEF Around
    <2>4. d \in Dir
      BY <2>2, <2>3, LenProperties, ElementOfSeq DEF ToSet
    <2>5. Len(d) \in Nat /\ Len(d) <= n
      BY <2>3, <2>4, LenProperties DEF Dir, StartsWith, IsPrefix
    <2> QED
      BY <1>1, <2>3, <2>4, <2>5
  <1>3. ASSUME NEW i \in candidates
        PROVE  /\ best(i) \in 0..n /\ \E d \in Around(modules, i, file) : Len(d) = best(i)
               /\ \A d \in Around(modules, i, file) : Len(d) <= best(i)
    <2>1. lengths(i) \in SUBSET (0..n) /\ lengths(i) # {}
      BY <1>2
    <2>2. Max(lengths(i)) \in lengths(i) /\ \A y \in lengths(i) : Max(lengths(i)) >= y
      <3> HIDE DEF lengths
      <3> QED
        BY <1>1, <2>1, MaxOfNumbers
    <2>3. best(i) \in lengths(i) /\ \A y \in lengths(i) : y <= best(i)
      <3>1. \A y \in lengths(i) : y \in 0..n
        BY <2>1
      <3> HIDE DEF lengths
      <3> QED
        BY <2>2, <3>1
    <2>4. best(i) \in 0..n
      BY <2>1, <2>3
    <2> HIDE DEF best
    <2> QED
      BY <2>3, <2>4
  <1>4. m = IF candidates = {} THEN 0 ELSE CHOOSE i \in candidates : Preferred(i)
    BY DEF ModuleForFile
  <1> HIDE DEF m, best
  <1>5. CASE candidates = {}
    <2>1. m = 0 /\ \A i \in DOMAIN modules : Around(modules, i, file) = {}
      BY <1>4, <1>5
    <2> QED
      BY <2>1 DEF m
  <1>6. CASE candidates # {}
    <2> DEFINE bests == {best(i) : i \in candidates}
               far == Max(bests)
               furthest == {i \in candidates : best(i) = far}
               last == Max(furthest)
    <2>1. bests \in SUBSET (0..n) /\ bests # {}
      BY <1>3, <1>6
    <2>2. far \in bests /\ \A y \in bests : far >= y
      <3> HIDE DEF bests
      <3> QED
        BY <1>1, <2>1, MaxOfNumbers
    <2>3. far \in 0..n /\ (\A i \in candidates : best(i) \in 0..n /\ best(i) <= far)
          /\ furthest # {}
      <3>1. far \in 0..n
        BY <2>1, <2>2
      <3>2. \A i \in candidates : best(i) \in 0..n /\ best(i) \in bests
        BY <1>3
      <3> HIDE DEF far
      <3> QED
        BY <2>2, <3>1, <3>2
    <2> HIDE DEF far
    <2>4. furthest \in SUBSET (1..Len(modules))
      BY <1>1
    <2>5. last \in furthest /\ \A j \in furthest : last >= j
      <3> HIDE DEF furthest
      <3> QED
        BY <1>1, <2>3, <2>4, MaxIsElement
    <2> HIDE DEF last
    <2>6. Preferred(last)
      <3> SUFFICES ASSUME NEW j \in candidates
                   PROVE  best(j) < best(last) \/ (best(j) = best(last) /\ j <= last)
        OBVIOUS
      <3>1. best(last) = far /\ best(j) <= far /\ far \in 0..n /\ best(j) \in 0..n
        BY <2>3, <2>5
      <3>2. best(j) = far => j \in furthest /\ j <= last
        <4>1. last \in 1..Len(modules) /\ j \in 1..Len(modules)
          BY <1>1, <2>4, <2>5
        <4> QED
          BY <2>5, <4>1
      <3> QED
        BY <3>1, <3>2
    <2>7. last \in candidates
      BY <2>5
    <2>8. m \in candidates /\ Preferred(m)
      <3> HIDE DEF Preferred, candidates
      <3> QED
        BY <1>4, <1>6, <2>6, <2>7
    <2>9. PICK d \in Around(modules, m, file) : Len(d) = best(m)
      BY <1>3, <2>8
    <2>10. ASSUME NEW i \in DOMAIN modules, NEW e \in Around(modules, i, file)
           PROVE  StartsWith(d, e) /\ (e = d => i <= m)
      <3>1. i \in candidates /\ best(i) \in 0..n /\ best(m) \in 0..n /\ Len(e) <= best(i)
        BY <1>3, <2>8
      <3>2. best(i) < best(m) \/ (best(i) = best(m) /\ i <= m)
        BY <2>8, <3>1
      <3>3. /\ d \in Dir /\ e \in Dir /\ StartsWith(file, d) /\ StartsWith(file, e)
            /\ Len(d) \in 0..n /\ Len(e) \in 0..n
        BY <1>2, <2>8, <2>9
      <3>4. Len(e) <= Len(d)
        BY <2>9, <3>1, <3>2, <3>3
      <3>5. StartsWith(d, e)
        BY <3>3, <3>4, AroundBoth DEF Dir
      <3>6. e = d => i <= m
        BY <2>9, <3>1, <3>2
      <3> QED
        BY <3>5, <3>6
    <2>11. m \in DOMAIN modules
      BY <2>8
    <2> HIDE DEF candidates
    <2> QED
      BY <2>9, <2>10, <2>11 DEF m
  <1> QED
    BY <1>5, <1>6

\* Without a build tool the workspace is one module.
OneModule ==
    Tool = "none" => /\ resolution \in {"idle", "done"}
                     /\ resolution = "done" => model = <<FallbackModule>>

\* It holds of a start that has resolved nothing.
LEMMA OneModuleInit == Init => OneModule
  BY DEF Init, Unresolved, OneModule

\* Every step keeps it: where there is no build tool none is run.
LEMMA OneModuleStep == OneModule /\ [Next]_vars => OneModule'
  <1> SUFFICES ASSUME OneModule, [Next]_vars PROVE OneModule'
    OBVIOUS
  <1>1. project' = project => Tool' = Tool /\ FallbackModule' = FallbackModule
    <2> SUFFICES ASSUME project' = project
                 PROVE  Tool' = Tool /\ FallbackModule' = FallbackModule
      OBVIOUS
    <2>1. Tool' = Tool
      BY DEF Tool
    <2>2. StandardSourceDirs(Root)' = StandardSourceDirs(Root)
      BY DEF StandardSourceDirs, Exists, At, Root
    <2>3. FallbackModule' = FallbackModule
      BY <2>2 DEF FallbackModule, Module, Root
    <2> QED
      BY <2>1, <2>3
  <1>2. CASE UNCHANGED resolving
    BY <1>1, <1>2 DEF OneModule, resolving
  <1>3. CASE Restart
    BY <1>1, <1>3 DEF OneModule, Restart
  <1>4. CASE ResolveModel
    <2>1. project' = project
      BY <1>4 DEF ResolveModel, Resolve, Detect, CollectModule, Overflow, RunMaven, ReadModule,
                  EndMaven, RunGradle, ParseLine, EndGradle
    <2>2. CASE Detect
      BY <1>1, <2>1, <2>2 DEF OneModule, Detect
    <2>3. CASE resolution \notin {"idle", "done"}
      BY <1>1, <2>1, <2>3 DEF OneModule
    <2> QED
      BY <1>4, <2>2, <2>3
         DEF ResolveModel, Resolve, CollectModule, Overflow, RunMaven, ReadModule, EndMaven,
             RunGradle, ParseLine, EndGradle
  <1>5. IndexExternalSymbols => UNCHANGED resolving
    BY DEF IndexExternalSymbols, BeginIndexing, NextSource, OpenSource, ExtractClass,
           EndExtraction, EndSource, TakeClass, CreateStub, WriteStub, ShowStub
  <1>6. UNCHANGED vars => UNCHANGED resolving
    BY DEF vars, resolving
  <1> QED
    BY <1>2, <1>3, <1>4, <1>5, <1>6 DEF Next

\* In a model that is resolved every file goes to the innermost module, and in a
\* workspace of no build tool and no standard directories to one at all.
LEMMA InvInnermost == CacheInv /\ OneModule /\ resolution = "done" => FilesGoInnermost
  <1> SUFFICES ASSUME CacheInv, OneModule, resolution = "done", NEW f \in File
               PROVE  LET m == ModuleForFile(model, f)
                      IN  /\ m = 0 => /\ Tool # "none" \/ StandardSourceDirs(Root) # <<>>
                                      /\ \A i \in DOMAIN model : Around(model, i, f) = {}
                          /\ m # 0 => \E d \in Around(model, m, f) :
                                \A i \in DOMAIN model : \A e \in Around(model, i, f) :
                                    StartsWith(d, e)
    BY DEF FilesGoInnermost
  <1> DEFINE m == ModuleForFile(model, f)
  <1>1. model \in Seq(ModuleRecord) /\ f \in Dir
    BY ProjectModelAssumption DEF CacheInv, ResolveInv, Dir
  <1>2. \/ /\ m = 0 /\ \A i \in DOMAIN model : Around(model, i, f) = {}
        \/ /\ m \in DOMAIN model
           /\ \E d \in Around(model, m, f) :
                 \A i \in DOMAIN model : \A e \in Around(model, i, f) :
                     StartsWith(d, e) /\ (e = d => i <= m)
    BY <1>1, ModuleIsInnermost
  <1>3. 0 \notin DOMAIN model
    BY <1>1, LenProperties
  <1> HIDE DEF m
  <1>4. ASSUME m = 0, Tool = "none", StandardSourceDirs(Root) = <<>> PROVE FALSE
    <2>1. model = <<FallbackModule>> /\ FallbackModule = Module(Root, <<Root>>, <<>>)
      BY <1>4 DEF OneModule, FallbackModule
    <2>2. 1 \in DOMAIN model /\ model[1].source_dirs = <<Root>>
      BY <2>1 DEF Module
    <2>3. Root \in ToSet(<<Root>>)
      BY DEF ToSet
    <2>4. StartsWith(f, Root)
      <3>1. Len(f) \in Nat /\ Len(Root) = 0
        BY <1>1, LenProperties DEF Root, Dir
      <3>2. SubSeq(Root, 1, 0) = <<>> /\ SubSeq(f, 1, 0) = <<>>
        BY SubSeqEmpty
      <3> QED
        BY <3>1, <3>2 DEF StartsWith, IsPrefix
    <2>5. Root \in Around(model, 1, f)
      BY <2>2, <2>3, <2>4 DEF Around
    <2> QED
      BY <1>2, <1>3, <1>4, <2>2, <2>5
  <1> QED
    BY <1>2, <1>3, <1>4 DEF m

(***************************************************************************)
(* Where paths lead.                                                       *)
(***************************************************************************)

\* Where a name leads is a directory.
LEMMA BelowType ==
    ASSUME NEW dir \in Dir, NEW name \in Name
    PROVE  Below(dir, name) \in Dir
  <1>1. Append(dir, name) \in Dir
    BY AppendProperties DEF Dir
  <1>2. CASE dir = Root
    BY <1>1, <1>2 DEF Below
  <1>3. CASE dir # Root
    <2>1. Len(dir) \in Nat /\ dir # <<>>
      BY <1>3, LenProperties DEF Dir, Root
    <2>2. \A i \in 1..(Len(dir) - 1) : dir[i] \in Name
      <3> TAKE i \in 1..(Len(dir) - 1)
      <3>1. i \in 1..Len(dir)
        BY <2>1
      <3> QED
        BY <3>1, ElementOfSeq DEF Dir
    <2>3. Front(dir) \in Dir
      BY <2>1, <2>2, SubSeqProperties DEF Front, Dir
    <2> QED
      BY <1>1, <2>3 DEF Below
  <1> QED
    BY <1>2, <1>3

\* The directories on a path, one after the other.
Walks(g, path) ==
    /\ g \in [0..Len(path) -> Dir]
    /\ g[0] = Root /\ \A n \in 1..Len(path) : g[n] = Below(g[n - 1], path[n])

\* The last of them is where it leads.
LEMMA PhysicalWalk ==
    ASSUME NEW path \in Dir
    PROVE  \E g : Walks(g, path) /\ Physical(path) = g[Len(path)]
  <1> DEFINE N == Len(path)
             F == [p \in Dir \X (1..N) |-> Below(p[1], path[p[2]])]
             IsTable(f) == f = [n \in 0..N |-> IF n = 0 THEN Root ELSE Below(f[n - 1], path[n])]
             at == CHOOSE f : IsTable(f)
  <1>1. N \in Nat /\ \A n \in 1..N : path[n] \in Name
    BY LenProperties, ElementOfSeq DEF Dir
  <1>2. F \in [Dir \X (1..N) -> Dir]
    BY <1>1, BelowType
  <1>3. Root \in Dir
    BY EmptySeq DEF Root, Dir
  <1>4. PICK g : g \in [0..N -> Dir] /\ IsIteration(g, N, Root, F)
    <2> HIDE DEF F, N
    <2> QED
      BY <1>1, <1>2, <1>3, Iteration
  <1>5. \A n \in 1..N : g[n] = Below(g[n - 1], path[n])
    <2> TAKE n \in 1..N
    <2>1. n - 1 \in 0..N
      BY <1>1
    <2>2. g[n - 1] \in Dir /\ <<g[n - 1], n>> \in Dir \X (1..N)
      BY <1>4, <2>1
    <2>3. g[n] = F[<<g[n - 1], n>>]
      BY <1>4 DEF IsIteration
    <2> QED
      BY <2>2, <2>3
  <1>6. g[0] = Root
    BY <1>4 DEF IsIteration
  <1>7. IsTable(g)
    <2>1. \A n \in 0..N : g[n] = IF n = 0 THEN Root ELSE Below(g[n - 1], path[n])
      <3>1. \A n \in 0..N : n = 0 \/ n \in 1..N
        BY <1>1
      <3> QED
        BY <1>5, <1>6, <3>1
    <2>2. g = [n \in 0..N |-> g[n]]
      BY <1>4
    <2> QED
      BY <2>1, <2>2
  <1>8. IsTable(at)
    <2> HIDE DEF IsTable
    <2> QED
      BY <1>7
  <1>9. PICK a : IsTable(a) /\ Physical(path) = a[N]
    <2>1. Physical(path) = at[N]
      BY DEF Physical
    <2> HIDE DEF IsTable, at
    <2> QED
      BY <1>8, <2>1
  <1>10. a[0] = Root /\ \A n \in 1..N : a[n] = Below(a[n - 1], path[n])
    <2>1. 0 \in 0..N /\ \A n \in 1..N : n \in 0..N /\ n # 0
      BY <1>1
    <2> QED
      BY <1>9, <2>1
  <1>11. \A n \in 0..N : a[n] = g[n]
    <2>1. a[0] = g[0]
      BY <1>6, <1>10
    <2>2. \A n \in 1..N : a[n - 1] = g[n - 1] => a[n] = g[n]
      BY <1>5, <1>10
    <2> HIDE DEF N
    <2>3. Alike(a, g, N)
      BY <2>1, <2>2 DEF Alike
    <2> QED
      BY <1>1, <2>3, SameValues
  <1>12. N \in 0..N
    BY <1>1
  <1> QED
    BY <1>4, <1>5, <1>6, <1>9, <1>11, <1>12 DEF Walks

---------------------------------------------------------------------------
\* The paths that the system opens.
Opened == {p \in Dir : Exists(p)}

\* A pom leads to some of them.
LEMMA NamedOpened ==
    ASSUME project \in Project, NEW p \in Opened
    PROVE  Named(p) \subseteq Opened
  <1>1. p \in Dir /\ At(p).children \in Seq(ChildRecord)
    BY ModuleAt DEF Opened
  <1>2. \A child \in ToSet(At(p).children) : child \in ChildRecord
    <2> DEFINE children == At(p).children
    <2>1. \A k \in DOMAIN children : children[k] \in ChildRecord
      <3> HIDE DEF children
      <3>1. children \in Seq(ChildRecord)
        BY <1>1 DEF children
      <3> QED
        BY <3>1, LenProperties, ElementOfSeq
    <2> QED
      BY <2>1 DEF ToSet
  <1>3. \A child \in ToSet(At(p).children) : Join(p, child) \in Dir
    BY <1>1, <1>2, JoinType
  <1> QED
    BY <1>3 DEF Named, Opened

\* The paths to which poms lead in so many steps at most: those of the poms, and for
\* a step more those that theirs name.
LEMMA WithinIs ==
    ASSUME project \in Project, NEW paths \in SUBSET Opened
    PROVE  LET w == Within(paths)
           IN  /\ w[0] = paths
               /\ \A n \in 1..MaxDepth :
                     w[n] = w[n - 1] \cup UNION {Named(p) : p \in w[n - 1]}
               /\ \A n \in 0..MaxDepth : w[n] \subseteq Opened
  <1> DEFINE N == MaxDepth
             B == SUBSET Opened
             More(s) == s \cup UNION {Named(p) : p \in s}
             F == [p \in B \X (1..N) |-> More(p[1])]
             IsTable(f) == f = [n \in 0..N |-> IF n = 0 THEN paths ELSE More(f[n - 1])]
             at == CHOOSE f : IsTable(f)
  <1>1. N \in Nat
    BY ProjectModelAssumption
  <1>2. \A s \in B : More(s) \in B
    BY NamedOpened
  <1>3. paths \in B
    OBVIOUS
  <1>4. PICK g : g \in [0..N -> B] /\ IsIteration(g, N, paths, F)
    <2> HIDE DEF More, B
    <2>1. F \in [B \X (1..N) -> B]
      BY <1>2
    <2> HIDE DEF F
    <2> QED
      BY <1>1, <1>3, <2>1, Iteration
  <1> HIDE DEF More, B
  <1>5. \A n \in 1..N : g[n] = More(g[n - 1])
    <2> TAKE n \in 1..N
    <2>1. n - 1 \in 0..N
      BY <1>1
    <2>2. g[n - 1] \in B /\ <<g[n - 1], n>> \in B \X (1..N)
      BY <1>4, <2>1
    <2>3. g[n] = F[<<g[n - 1], n>>]
      BY <1>4 DEF IsIteration
    <2> QED
      BY <2>2, <2>3
  <1>6. g[0] = paths
    BY <1>4 DEF IsIteration
  <1>7. IsTable(g)
    <2>1. \A n \in 0..N : g[n] = IF n = 0 THEN paths ELSE More(g[n - 1])
      <3>1. \A n \in 0..N : n = 0 \/ n \in 1..N
        BY <1>1
      <3> QED
        BY <1>5, <1>6, <3>1
    <2>2. g = [n \in 0..N |-> g[n]]
      BY <1>4
    <2> QED
      BY <2>1, <2>2
  <1>8. Within(paths) = at
    BY DEF Within, More
  <1> DEFINE w == Within(paths)
  <1>9. IsTable(w)
    <2> HIDE DEF IsTable, at
    <2>1. IsTable(at)
      BY <1>7 DEF at
    <2> QED
      BY <1>8, <2>1
  <1>10. w[0] = paths /\ \A n \in 1..N : w[n] = More(w[n - 1])
    <2>1. 0 \in 0..N /\ \A n \in 1..N : n \in 0..N /\ n # 0
      BY <1>1
    <2>2. w = [n \in 0..N |-> IF n = 0 THEN paths ELSE More(w[n - 1])]
      BY <1>9
    <2> HIDE DEF w
    <2> QED
      BY <2>1, <2>2
  <1>11. \A n \in 0..N : w[n] = g[n]
    <2>1. w[0] = g[0]
      BY <1>6, <1>10
    <2>2. \A n \in 1..N : w[n - 1] = g[n - 1] => w[n] = g[n]
      BY <1>5, <1>10
    <2> HIDE DEF N, w
    <2>3. Alike(w, g, N)
      BY <2>1, <2>2 DEF Alike
    <2> QED
      BY <1>1, <2>3, SameValues
  <1>12. \A n \in 0..N : w[n] \subseteq Opened
    <2> HIDE DEF w
    <2> QED
      BY <1>4, <1>11 DEF B
  <1> QED
    BY <1>10, <1>12 DEF More

\* They are all among those to which the poms lead from the root, and what the poms
\* of these name is within a step more.
LEMMA WithinPaths ==
    ASSUME project \in Project, Root \in Opened
    PROVE  LET w == Within({Root})
           IN  /\ \A n \in 0..MaxDepth : w[n] \subseteq PomPaths
               /\ \A n \in 0..MaxDepth : \A p \in w[n] :
                     n < MaxDepth => n + 1 \in 0..MaxDepth /\ Named(p) \subseteq w[n + 1]
               /\ Root \in w[0] /\ PomPaths \subseteq Opened
  <1> DEFINE N == MaxDepth
             w == Within({Root})
             Holds(k) == k <= N => w[N - k] \subseteq w[N]
             T == {k \in Nat : Holds(k)}
  <1>1. N \in Nat
    BY ProjectModelAssumption
  <1>2. /\ w[0] = {Root} /\ \A n \in 1..N : w[n] = w[n - 1] \cup UNION {Named(d) : d \in w[n - 1]}
        /\ \A n \in 0..N : w[n] \subseteq Opened
    <2>1. {Root} \in SUBSET Opened
      OBVIOUS
    <2> HIDE DEF Holds, T
    <2> QED
      BY <2>1, WithinIs
  <1> HIDE DEF w, N
  <1>3. 0 \in T
    <2>1. N - 0 = N
      BY <1>1
    <2> QED
      BY <2>1
  <1>4. ASSUME NEW k \in Nat, k \in T PROVE k + 1 \in T
    <2> SUFFICES ASSUME k + 1 <= N PROVE w[N - (k + 1)] \subseteq w[N]
      OBVIOUS
    <2>1. N - k \in 1..N /\ (N - k) - 1 = N - (k + 1) /\ k <= N
      BY <1>1
    <2>2. w[N - (k + 1)] \subseteq w[N - k]
      BY <1>2, <2>1
    <2>3. w[N - k] \subseteq w[N]
      BY <1>4, <2>1
    <2> QED
      BY <2>2, <2>3
  <1> HIDE DEF T
  <1>5. Nat \subseteq T
    BY <1>3, <1>4, SetInduction
  <1>6. \A n \in 0..N : w[n] \subseteq w[N]
    <2> TAKE n \in 0..N
    <2>1. N - n \in Nat /\ N - n <= N /\ N - (N - n) = n
      BY <1>1
    <2>2. N - n \in T
      BY <1>5, <2>1
    <2> QED
      BY <2>1, <2>2 DEF T
  <1>7. ASSUME NEW n \in 0..N, NEW d \in w[n], n < N
        PROVE  n + 1 \in 0..N /\ Named(d) \subseteq w[n + 1]
    <2>1. n + 1 \in 1..N /\ n + 1 \in 0..N /\ (n + 1) - 1 = n
      BY <1>1, <1>7
    <2>2. w[n + 1] = w[n] \cup UNION {Named(e) : e \in w[n]}
      BY <1>2, <2>1
    <2> QED
      BY <2>1, <2>2
  <1>8. w[N] = PomPaths /\ N \in 0..N
    BY <1>1 DEF PomPaths, w, N
  <1> QED
    BY <1>2, <1>6, <1>7, <1>8 DEF w, N

---------------------------------------------------------------------------
(***************************************************************************)
(* What Maven's poms lead to.                                              *)
(***************************************************************************)

\* A path is the root, or the pom of a directory found names it.
Comes(x, list) ==
    x = Root \/ \E y \in ToSet(list) : \E k \in DOMAIN At(y).children :
                    x = Join(y, At(y).children[k])

\* No two paths of a list lead to one directory, nor do those of two lists.
Single(list) ==
    \A i, j \in DOMAIN list :
        Exists(list[i]) /\ Exists(list[j]) /\ Physical(list[i]) = Physical(list[j]) => i = j
Apart(list, other) ==
    \A x \in ToSet(list) : \A y \in ToSet(other) :
        Exists(x) /\ Exists(y) => Physical(x) # Physical(y)

\* Where the calls to come are.
Dirs(left) == [k \in DOMAIN left |-> left[k].dir]

\* The directories found so far are some to which the poms lead, with those of the
\* calls to come all that their poms name, and none comes twice if none is named
\* twice. A call is as many steps from the root as it is deep, if the stack holds it.
Collected(list, left) ==
    /\ \A x \in ToSet(list) \cup ToSet(Dirs(left)) : Comes(x, list)
    /\ ToSet(list) \subseteq PomPaths
    /\ \A c \in ToSet(left) :
          Exists(c.dir) /\ c.depth <= MaxDepth => c.dir \in Within({Root})[c.depth]
    /\ Root \in ToSet(list) \cup ToSet(Dirs(left))
    /\ \A x \in ToSet(list) : \A k \in DOMAIN At(x).children :
          Exists(Join(x, At(x).children[k]))
          => Join(x, At(x).children[k]) \in ToSet(list) \cup ToSet(Dirs(left))
    /\ NamedOnce => Single(list \o Dirs(left))

\* The calls are as many as the places where they are.
LEMMA DirsAre ==
    ASSUME NEW left \in Seq(CallRecord)
    PROVE  /\ Dirs(left) \in Seq(Dir) /\ Len(Dirs(left)) = Len(left)
           /\ \A k \in 1..Len(left) : Dirs(left)[k] = left[k].dir
           /\ ToSet(Dirs(left)) = {c.dir : c \in ToSet(left)}
  <1> DEFINE d == Dirs(left)
             n == Len(left)
  <1>1. n \in Nat /\ DOMAIN left = 1..n /\ \A k \in 1..n : left[k] \in CallRecord
    BY LenProperties, ElementOfSeq
  <1>2. d = [k \in 1..n |-> left[k].dir]
    BY <1>1 DEF Dirs
  <1>3. \A k \in 1..n : left[k].dir \in Dir
    BY <1>1 DEF CallRecord
  <1> HIDE DEF d, n
  <1>4. d \in [1..n -> Dir]
    BY <1>2, <1>3
  <1>5. d \in Seq(Dir)
    BY <1>1, <1>4, SeqDef
  <1>6. Len(d) = n /\ DOMAIN d = 1..n
    <2>1. DOMAIN d = 1..n
      BY <1>4
    <2> QED
      BY <1>1, <1>5, <2>1, LenProperties
  <1>7. ToSet(d) = {c.dir : c \in ToSet(left)}
    BY <1>1, <1>2, <1>6 DEF ToSet
  <1> QED
    BY <1>2, <1>5, <1>6, <1>7 DEF d, n

\* The first of them is that of the first call, and the rest those of the rest.
LEMMA DirsRest ==
    ASSUME NEW left \in Seq(CallRecord), left # <<>>
    PROVE  /\ Head(left) \in CallRecord /\ Tail(left) \in Seq(CallRecord)
           /\ Dirs(left) # <<>> /\ Head(Dirs(left)) = Head(left).dir
           /\ Tail(Dirs(left)) = Dirs(Tail(left))
  <1> DEFINE d == Dirs(left)
             rest == Tail(left)
             e == Dirs(rest)
             t == Tail(d)
  <1>1. /\ Head(left) \in CallRecord /\ rest \in Seq(CallRecord) /\ Len(rest) = Len(left) - 1
        /\ \A k \in 1..Len(rest) : rest[k] = left[k + 1]
    BY HeadTailProperties
  <1>2. /\ d \in Seq(Dir) /\ Len(d) = Len(left)
        /\ \A k \in 1..Len(left) : d[k] = left[k].dir
    BY DirsAre
  <1>3. Len(left) \in Nat /\ Len(left) # 0
    BY LenProperties, EmptySeq
  <1> HIDE DEF rest
  <1>4. /\ e \in Seq(Dir) /\ Len(e) = Len(rest)
        /\ \A k \in 1..Len(rest) : e[k] = rest[k].dir
    BY <1>1, DirsAre
  <1> HIDE DEF d, e
  <1>5. d # <<>>
    BY <1>2, <1>3, EmptySeq
  <1>6. Head(d) = Head(left).dir
    <2>1. Head(d) = d[1] /\ Head(left) = left[1] /\ 1 \in 1..Len(left)
      BY <1>3
    <2> QED
      BY <1>2, <2>1
  <1>7. t \in Seq(Dir) /\ Len(t) = Len(d) - 1 /\ \A k \in 1..Len(t) : t[k] = d[k + 1]
    BY <1>2, <1>5, HeadTailProperties
  <1> HIDE DEF t
  <1>8. \A k \in 1..Len(t) : t[k] = e[k]
    <2> TAKE k \in 1..Len(t)
    <2>1. k + 1 \in 1..Len(left) /\ k \in 1..Len(rest)
      BY <1>1, <1>2, <1>3, <1>7
    <2> QED
      BY <1>1, <1>2, <1>4, <1>7, <2>1
  <1>9. t = e
    <2>1. Len(t) = Len(e)
      BY <1>1, <1>2, <1>4, <1>7
    <2> QED
      BY <1>4, <1>7, <1>8, <2>1, SeqEqual
  <1> QED
    BY <1>1, <1>5, <1>6, <1>9 DEF d, e, t, rest

\* Those of two lists of calls are those of the one and of the other.
LEMMA DirsConcat ==
    ASSUME NEW a \in Seq(CallRecord), NEW b \in Seq(CallRecord)
    PROVE  a \o b \in Seq(CallRecord) /\ Dirs(a \o b) = Dirs(a) \o Dirs(b)
  <1> DEFINE c == a \o b
             da == Dirs(a)
             db == Dirs(b)
             dc == Dirs(c)
             s == da \o db
             m == Len(a)
             n == Len(b)
  <1>1. /\ c \in Seq(CallRecord) /\ Len(c) = m + n
        /\ \A k \in 1..(m + n) : c[k] = IF k <= m THEN a[k] ELSE b[k - m]
    BY ConcatProperties
  <1>2. m \in Nat /\ n \in Nat
    BY LenProperties
  <1>3. /\ da \in Seq(Dir) /\ Len(da) = m /\ \A k \in 1..m : da[k] = a[k].dir
        /\ db \in Seq(Dir) /\ Len(db) = n /\ \A k \in 1..n : db[k] = b[k].dir
    BY DirsAre
  <1> HIDE DEF c
  <1>4. dc \in Seq(Dir) /\ Len(dc) = m + n /\ \A k \in 1..(m + n) : dc[k] = c[k].dir
    BY <1>1, DirsAre
  <1> HIDE DEF da, db, dc
  <1>5. /\ s \in Seq(Dir) /\ Len(s) = m + n
        /\ \A k \in 1..(m + n) : s[k] = IF k <= m THEN da[k] ELSE db[k - m]
    <2> HIDE DEF m, n
    <2> QED
      BY <1>3, ConcatProperties
  <1> HIDE DEF s, m, n
  <1>6. \A k \in 1..(m + n) : dc[k] = s[k]
    <2> TAKE k \in 1..(m + n)
    <2>1. CASE k <= m
      <3>1. k \in 1..m
        BY <1>2, <2>1
      <3>2. c[k] = a[k] /\ s[k] = da[k]
        BY <1>1, <1>5, <2>1
      <3> QED
        BY <1>3, <1>4, <3>1, <3>2
    <2>2. CASE ~(k <= m)
      <3>1. k - m \in 1..n
        BY <1>2, <2>2
      <3>2. c[k] = b[k - m] /\ s[k] = db[k - m]
        BY <1>1, <1>5, <2>2
      <3> QED
        BY <1>3, <1>4, <3>1, <3>2
    <2> QED
      BY <2>1, <2>2
  <1>7. dc = s
    BY <1>4, <1>5, <1>6, SeqEqual
  <1> QED
    BY <1>1, <1>7 DEF c, da, db, dc, s

\* A module that a pom names is one of the ways in which the poms lead on.
LEMMA ChildLeads ==
    ASSUME NEW y \in PomPaths, NEW k \in DOMAIN At(y).children,
           Exists(Join(y, At(y).children[k]))
    PROVE  <<y, k>> \in Ways /\ Led(<<y, k>>) = Join(y, At(y).children[k])
  <1>1. Led(<<y, k>>) = Join(y, At(y).children[k])
    BY DEF Led
  <1>2. <<y, k>> \in UNION {{p} \X DOMAIN At(p).children : p \in PomPaths}
    OBVIOUS
  <1> QED
    BY <1>1, <1>2 DEF Ways

\* A path leads to a directory.
LEMMA PhysicalType ==
    ASSUME NEW path \in Dir
    PROVE  Physical(path) \in Dir
  <1>1. PICK g : Walks(g, path) /\ Physical(path) = g[Len(path)]
    BY PhysicalWalk
  <1>2. Len(path) \in 0..Len(path)
    BY LenProperties DEF Dir
  <1> QED
    BY <1>1, <1>2 DEF Walks

\* The empty path leads to the root.
LEMMA RootIsRoot == Root \in Dir /\ Len(Root) = 0 /\ Physical(Root) = Root
  <1>1. Root \in Dir /\ Len(Root) = 0
    BY EmptySeq DEF Root, Dir
  <1>2. PICK g : Walks(g, Root) /\ Physical(Root) = g[Len(Root)]
    BY <1>1, PhysicalWalk
  <1> QED
    BY <1>1, <1>2 DEF Walks

\* Two lists in a row lead to no directory twice, if neither does, nor both.
LEMMA SingleConcat ==
    ASSUME NEW a \in Seq(Dir), NEW b \in Seq(Dir)
    PROVE  Single(a \o b) <=> Single(a) /\ Single(b) /\ Apart(a, b)
  <1> DEFINE c == a \o b
             m == Len(a)
             n == Len(b)
  <1>1. /\ m \in Nat /\ DOMAIN a = 1..m /\ n \in Nat /\ DOMAIN b = 1..n
        /\ c \in Seq(Dir) /\ Len(c) = m + n
        /\ \A k \in 1..(m + n) : c[k] = IF k <= m THEN a[k] ELSE b[k - m]
    BY LenProperties, ConcatProperties
  <1>2. DOMAIN c = 1..(m + n)
    BY <1>1, LenProperties
  <1> HIDE DEF c, m, n
  <1>3. /\ \A i \in 1..m : i \in 1..(m + n) /\ c[i] = a[i]
        /\ \A i \in 1..n : m + i \in 1..(m + n) /\ c[m + i] = b[i]
    <2>1. ASSUME NEW i \in 1..m PROVE i \in 1..(m + n) /\ c[i] = a[i]
      BY <1>1
    <2>2. ASSUME NEW i \in 1..n PROVE m + i \in 1..(m + n) /\ c[m + i] = b[i]
      <3>1. m + i \in 1..(m + n) /\ ~(m + i <= m) /\ (m + i) - m = i
        BY <1>1
      <3> QED
        BY <1>1, <3>1
    <2> QED
      BY <2>1, <2>2
  <1>4. \A k \in 1..(m + n) :
            (k \in 1..m /\ c[k] = a[k]) \/ (k - m \in 1..n /\ c[k] = b[k - m])
    <2> TAKE k \in 1..(m + n)
    <2>1. CASE k <= m
      BY <1>1, <2>1
    <2>2. CASE ~(k <= m)
      BY <1>1, <2>2
    <2> QED
      BY <2>1, <2>2
  <1>5. ASSUME Single(c) PROVE Single(a) /\ Single(b) /\ Apart(a, b)
    <2>1. Single(a)
      BY <1>1, <1>2, <1>3, <1>5 DEF Single
    <2>2. ASSUME NEW i \in 1..n, NEW j \in 1..n, Exists(b[i]), Exists(b[j]),
                 Physical(b[i]) = Physical(b[j])
          PROVE  i = j
      <3>1. m + i \in DOMAIN c /\ m + j \in DOMAIN c /\ c[m + i] = b[i] /\ c[m + j] = b[j]
        BY <1>2, <1>3
      <3>2. m + i = m + j
        BY <1>5, <2>2, <3>1 DEF Single
      <3> QED
        BY <1>1, <3>2
    <2>3. ASSUME NEW i \in 1..m, NEW j \in 1..n, Exists(a[i]), Exists(b[j]),
                 Physical(a[i]) = Physical(b[j])
          PROVE  FALSE
      <3>1. i \in DOMAIN c /\ m + j \in DOMAIN c /\ c[i] = a[i] /\ c[m + j] = b[j]
        BY <1>2, <1>3
      <3>2. i = m + j
        BY <1>5, <2>3, <3>1 DEF Single
      <3> QED
        BY <1>1, <3>2
    <2>4. Single(b)
      BY <1>1, <2>2 DEF Single
    <2>5. Apart(a, b)
      BY <1>1, <2>3 DEF Apart, ToSet
    <2> QED
      BY <2>1, <2>4, <2>5
  <1>6. ASSUME Single(a), Single(b), Apart(a, b) PROVE Single(c)
    <2> SUFFICES ASSUME NEW i \in 1..(m + n), NEW j \in 1..(m + n), Exists(c[i]), Exists(c[j]),
                        Physical(c[i]) = Physical(c[j])
                 PROVE  i = j
      BY <1>2 DEF Single
    <2>1. \A k \in 1..m, l \in 1..n :
              Exists(a[k]) /\ Exists(b[l]) => Physical(a[k]) # Physical(b[l])
      BY <1>1, <1>6 DEF Apart, ToSet
    <2>2. CASE i \in 1..m /\ c[i] = a[i] /\ j \in 1..m /\ c[j] = a[j]
      BY <1>1, <1>6, <2>2 DEF Single
    <2>3. CASE i - m \in 1..n /\ c[i] = b[i - m] /\ j - m \in 1..n /\ c[j] = b[j - m]
      <3>1. i - m = j - m
        BY <1>1, <1>6, <2>3 DEF Single
      <3> QED
        BY <1>1, <3>1
    <2>4. CASE i \in 1..m /\ c[i] = a[i] /\ j - m \in 1..n /\ c[j] = b[j - m]
      BY <2>1, <2>4
    <2>5. CASE i - m \in 1..n /\ c[i] = b[i - m] /\ j \in 1..m /\ c[j] = a[j]
      BY <2>1, <2>5
    <2> QED
      BY <1>4, <2>2, <2>3, <2>4, <2>5
  <1> QED
    BY <1>5, <1>6 DEF c

\* Maven is run where the root has a pom.
LEMMA RootOpened ==
    ASSUME project \in Project, Tool = "maven"
    PROVE  Exists(Root) /\ Root \in Opened
  <1>1. Root \in DOMAIN project.modules
    BY ProjectModelAssumption DEF Tool
  <1> QED
    BY <1>1, RootIsRoot, ProjectModelAssumption DEF Exists, Opened

\* A directory without a pom leaves nothing.
LEMMA CollectNone ==
    ASSUME project \in Project, NEW list \in Seq(Dir), NEW left \in Seq(CallRecord), left # <<>>,
           Collected(list, left), ~Exists(Head(left).dir), Tool = "maven"
    PROVE  Collected(list, Tail(left))
  <1> DEFINE D == Dirs(left)
             h == Head(left).dir
             rest == Dirs(Tail(left))
  <1>1. /\ D \in Seq(Dir) /\ D # <<>> /\ h = Head(D) /\ rest = Tail(D)
        /\ Tail(left) \in Seq(CallRecord) /\ rest \in Seq(Dir) /\ h \in Dir
    <2>1. Head(left) \in CallRecord /\ Tail(left) \in Seq(CallRecord)
      BY DirsRest
    <2>2. h \in Dir
      BY <2>1 DEF CallRecord
    <2> QED
      BY <2>1, <2>2, DirsRest, DirsAre
  <1> HIDE DEF D, h, rest
  <1>2. ToSet(D) = {h} \cup ToSet(rest)
    BY <1>1, ListElements
  <1>3. ~Exists(h) /\ h # Root
    <2>1. ~Exists(h)
      BY DEF h
    <2> QED
      BY <2>1, RootOpened
  <1>4. ToSet(Tail(left)) \subseteq ToSet(left)
    <2>1. Head(left) \in CallRecord
      BY DirsRest
    <2> QED
      BY <2>1, ListElements
  <1>5. /\ \A x \in ToSet(list) \cup ToSet(D) : Comes(x, list)
        /\ Root \in ToSet(list) \cup ToSet(D)
        /\ \A x \in ToSet(list) : \A k \in DOMAIN At(x).children :
              Exists(Join(x, At(x).children[k]))
              => Join(x, At(x).children[k]) \in ToSet(list) \cup ToSet(D)
        /\ NamedOnce => Single(list \o D)
    BY DEF Collected, D
  <1>6. ASSUME NamedOnce PROVE Single(list \o rest)
    <2>1. Single(list) /\ Single(D) /\ Apart(list, D)
      BY <1>1, <1>5, <1>6, SingleConcat
    <2> DEFINE one == <<h>>
    <2>2. one \in Seq(Dir) /\ D = one \o rest
      BY <1>1, HeadTailConcat
    <2> HIDE DEF one
    <2>3. Single(rest)
      BY <1>1, <2>1, <2>2, SingleConcat
    <2>4. Apart(list, rest)
      BY <1>2, <2>1 DEF Apart
    <2> QED
      BY <1>1, <2>1, <2>3, <2>4, SingleConcat
  <1>7. \A x \in ToSet(list) \cup ToSet(rest) : Comes(x, list)
    BY <1>2, <1>5
  <1>8. Root \in ToSet(list) \cup ToSet(rest)
    BY <1>2, <1>3, <1>5
  <1>9. \A x \in ToSet(list) : \A k \in DOMAIN At(x).children :
            Exists(Join(x, At(x).children[k]))
            => Join(x, At(x).children[k]) \in ToSet(list) \cup ToSet(rest)
    BY <1>2, <1>3, <1>5
  <1> QED
    BY <1>4, <1>6, <1>7, <1>8, <1>9 DEF Collected, rest

\* A directory with a pom is found, and leaves those that the pom names.
LEMMA CollectOne ==
    ASSUME project \in Project, NEW list \in Seq(Dir), NEW left \in Seq(CallRecord), left # <<>>,
           Collected(list, left), Exists(Head(left).dir), Head(left).depth <= MaxDepth,
           Tool = "maven"
    PROVE  Collected(Append(list, Head(left).dir), CallsBelow(Head(left)) \o Tail(left))
  <1> DEFINE call == Head(left)
             D == Dirs(left)
             h == call.dir
             rest == Dirs(Tail(left))
             children == At(h).children
             below == Dirs(CallsBelow(call))
             list2 == Append(list, h)
             calls2 == CallsBelow(call) \o Tail(left)
             left2 == below \o rest
             w == Within({Root})
  <1>1. /\ D \in Seq(Dir) /\ D # <<>> /\ h = Head(D) /\ rest = Tail(D)
        /\ call \in CallRecord /\ Tail(left) \in Seq(CallRecord) /\ rest \in Seq(Dir) /\ h \in Dir
    <2>1. call \in CallRecord /\ Tail(left) \in Seq(CallRecord)
      BY DirsRest
    <2>2. h \in Dir
      BY <2>1 DEF CallRecord
    <2> QED
      BY <2>1, <2>2, DirsRest, DirsAre
  <1>2. Exists(h) /\ call.depth <= MaxDepth /\ call.depth \in Nat
    BY <1>1 DEF CallRecord
  <1>3. /\ CallsBelow(call) \in Seq(CallRecord) /\ DOMAIN CallsBelow(call) = DOMAIN children
        /\ \A k \in DOMAIN children :
              CallsBelow(call)[k] = Call(Join(h, children[k]), call.depth + 1)
    BY <1>1, <1>2, CallsType
  <1>4. /\ below \in Seq(Dir) /\ DOMAIN below = DOMAIN children
        /\ \A k \in DOMAIN children : below[k] = Join(h, children[k])
    <2>1. below \in Seq(Dir)
      BY <1>3, DirsAre
    <2>2. below = [k \in DOMAIN children |-> CallsBelow(call)[k].dir]
      BY <1>3 DEF Dirs
    <2> HIDE DEF children, below, h
    <2>3. ASSUME NEW k \in DOMAIN children
          PROVE  CallsBelow(call)[k].dir = Join(h, children[k])
      <3>1. CallsBelow(call)[k] = Call(Join(h, children[k]), call.depth + 1)
        BY <1>3
      <3> QED
        BY <3>1 DEF Call
    <2> QED
      BY <2>1, <2>2, <2>3
  <1>5. calls2 \in Seq(CallRecord) /\ Dirs(calls2) = left2
    BY <1>1, <1>3, DirsConcat
  <1>6. ToSet(left) = {call} \cup ToSet(Tail(left))
    BY <1>1, ListElements
  <1>7. ToSet(calls2) = ToSet(CallsBelow(call)) \cup ToSet(Tail(left))
    <2> DEFINE a == CallsBelow(call)
               b == Tail(left)
    <2>1. a \in Seq(CallRecord) /\ b \in Seq(CallRecord) /\ calls2 = a \o b
      BY <1>1, <1>3
    <2> HIDE DEF a, b, calls2
    <2>2. ToSet(calls2) = ToSet(a) \cup ToSet(b)
      BY <2>1, ConcatElements
    <2> QED
      BY <2>2 DEF a, b
  <1>8. /\ \A x \in ToSet(list) \cup ToSet(D) : Comes(x, list)
        /\ ToSet(list) \subseteq PomPaths
        /\ \A c \in ToSet(left) : Exists(c.dir) /\ c.depth <= MaxDepth => c.dir \in w[c.depth]
        /\ Root \in ToSet(list) \cup ToSet(D)
        /\ \A x \in ToSet(list) : \A k \in DOMAIN At(x).children :
              Exists(Join(x, At(x).children[k]))
              => Join(x, At(x).children[k]) \in ToSet(list) \cup ToSet(D)
        /\ NamedOnce => Single(list \o D)
    BY DEF Collected
  <1>9. /\ \A n \in 0..MaxDepth : w[n] \subseteq PomPaths
        /\ \A n \in 0..MaxDepth : \A p \in w[n] :
              n < MaxDepth => n + 1 \in 0..MaxDepth /\ Named(p) \subseteq w[n + 1]
    BY RootOpened, WithinPaths
  <1>10. children = At(h).children
    OBVIOUS
  <1> HIDE DEF D, h, rest, children, below, list2, calls2, left2, w
  <1>11. h \in w[call.depth] /\ call.depth \in 0..MaxDepth /\ h \in PomPaths
    <2>1. h \in w[call.depth]
      BY <1>2, <1>6, <1>8 DEF h
    <2>2. call.depth \in 0..MaxDepth
      BY <1>2, ProjectModelAssumption
    <2> QED
      BY <1>9, <2>1, <2>2
  <1> HIDE DEF call
  <1>12. /\ ToSet(D) = {h} \cup ToSet(rest) /\ ToSet(list2) = ToSet(list) \cup {h}
         /\ list2 \in Seq(Dir)
    <2>1. ToSet(list2) = ToSet(list) \cup {h} /\ list2 \in Seq(Dir)
      BY <1>1, ListElements, AppendProperties DEF list2
    <2> QED
      BY <1>1, <2>1, ListElements
  <1>13. ToSet(left2) = ToSet(below) \cup ToSet(rest) /\ left2 \in Seq(Dir)
    <2>1. below \in Seq(Dir) /\ rest \in Seq(Dir) /\ left2 = below \o rest
      BY <1>1, <1>4 DEF left2
    <2>2. ToSet(left2) = ToSet(below) \cup ToSet(rest)
      BY <2>1, ConcatElements
    <2>3. left2 \in Seq(Dir)
      BY <2>1, ConcatProperties
    <2> QED
      BY <2>2, <2>3
  <1>14. ToSet(below) = {Join(h, children[k]) : k \in DOMAIN children}
    BY <1>4 DEF ToSet
  <1>15. \A x \in ToSet(list2) \cup ToSet(left2) : Comes(x, list2)
    <2>1. ASSUME NEW x, Comes(x, list) PROVE Comes(x, list2)
      BY <1>12, <2>1 DEF Comes
    <2>2. ASSUME NEW x \in ToSet(below) PROVE Comes(x, list2)
      <3>1. PICK k \in DOMAIN At(h).children : x = Join(h, At(h).children[k])
        BY <1>10, <1>14
      <3> QED
        BY <1>12, <3>1 DEF Comes
    <2> QED
      BY <1>8, <1>12, <1>13, <2>1, <2>2
  <1>16. ToSet(list2) \subseteq PomPaths
    BY <1>8, <1>11, <1>12
  <1>17. ASSUME NEW c \in ToSet(calls2), Exists(c.dir), c.depth <= MaxDepth
         PROVE  c.dir \in w[c.depth]
    <2>1. CASE c \in ToSet(Tail(left))
      BY <1>6, <1>8, <1>17, <2>1
    <2>2. CASE c \in ToSet(CallsBelow(call))
      <3>1. PICK k \in DOMAIN children : c = Call(Join(h, children[k]), call.depth + 1)
        BY <1>3, <2>2 DEF ToSet
      <3>2. c.dir = Join(h, children[k]) /\ c.depth = call.depth + 1
        BY <3>1 DEF Call
      <3>3. c.dir \in Named(h)
        <4>1. children[k] \in ToSet(At(h).children)
          BY <1>10 DEF ToSet
        <4> QED
          BY <1>17, <3>2, <4>1 DEF Named
      <3>4. call.depth < MaxDepth
        BY <1>2, <1>17, <3>2, ProjectModelAssumption
      <3> QED
        BY <1>9, <1>11, <3>2, <3>3, <3>4
    <2> QED
      BY <1>7, <2>1, <2>2
  <1>18. Root \in ToSet(list2) \cup ToSet(left2)
    BY <1>8, <1>12, <1>13
  <1>19. ASSUME NEW x \in ToSet(list2), NEW k \in DOMAIN At(x).children,
                Exists(Join(x, At(x).children[k]))
         PROVE  Join(x, At(x).children[k]) \in ToSet(list2) \cup ToSet(left2)
    <2>1. CASE x = h
      BY <1>10, <1>13, <1>14, <2>1
    <2>2. CASE x # h
      BY <1>8, <1>12, <1>13, <1>19, <2>2
    <2> QED
      BY <2>1, <2>2
  <1>20. ASSUME NamedOnce PROVE Single(list2 \o left2)
    <2> DEFINE one == <<h>>
    <2>1. one \in Seq(Dir) /\ ToSet(one) = {h} /\ DOMAIN one = {1} /\ D = one \o rest
          /\ list2 = list \o one
      <3>1. ToSet(one) = {h} /\ DOMAIN one = {1}
        BY DEF ToSet
      <3>2. D = one \o rest
        BY <1>1, HeadTailConcat
      <3>3. list2 = list \o one
        BY <1>1, AppendIsConcat DEF list2
      <3>4. one \in Seq(Dir)
        BY <1>1
      <3> QED
        BY <3>1, <3>2, <3>3, <3>4
    <2> HIDE DEF one
    <2>2. Single(list) /\ Single(D) /\ Apart(list, D)
      BY <1>1, <1>8, <1>20, SingleConcat
    <2>3. Single(one) /\ Single(rest) /\ Apart(one, rest)
      BY <1>1, <2>1, <2>2, SingleConcat
    <2>4. ASSUME NEW k \in DOMAIN children, Exists(Join(h, children[k]))
          PROVE  <<h, k>> \in Ways /\ Led(<<h, k>>) = Join(h, children[k])
      BY <1>10, <1>11, <2>4, ChildLeads
    <2>5. ASSUME NEW k \in DOMAIN children, Exists(Join(h, children[k])),
                 NEW l \in DOMAIN children, Exists(Join(h, children[l])),
                 Physical(Join(h, children[k])) = Physical(Join(h, children[l]))
          PROVE  k = l
      <3>1. <<h, k>> = <<h, l>>
        BY <1>20, <2>4, <2>5 DEF NamedOnce
      <3> QED
        BY <3>1
    <2>6. ASSUME NEW x \in ToSet(list) \cup ToSet(D), Exists(x),
                 NEW k \in DOMAIN children, Exists(Join(h, children[k])),
                 Physical(x) = Physical(Join(h, children[k]))
          PROVE  FALSE
      <3>1. x # Root
        BY <1>20, <2>4, <2>6, RootIsRoot DEF NamedOnce
      <3>2. PICK y \in ToSet(list) : \E l \in DOMAIN At(y).children :
                x = Join(y, At(y).children[l])
        BY <1>8, <2>6, <3>1 DEF Comes
      <3>3. PICK l \in DOMAIN At(y).children : x = Join(y, At(y).children[l])
        BY <3>2
      <3>4. <<y, l>> \in Ways /\ Led(<<y, l>>) = x
        BY <1>8, <2>6, <3>3, ChildLeads
      <3>5. <<h, k>> = <<y, l>>
        BY <1>20, <2>4, <2>6, <3>4 DEF NamedOnce
      <3>6. h = y
        BY <3>5
      <3> QED
        BY <1>2, <1>12, <2>2, <3>6 DEF Apart
    <2>7. ASSUME NEW x \in ToSet(list) \cup ToSet(D), NEW y \in ToSet(below),
                 Exists(x), Exists(y)
          PROVE  Physical(x) # Physical(y)
      <3>1. PICK k \in DOMAIN children : y = Join(h, children[k])
        BY <1>14
      <3> QED
        BY <2>6, <2>7, <3>1
    <2>8. Single(below)
      BY <1>4, <2>5 DEF Single
    <2>9. Single(list2)
      <3>1. Apart(list, one)
        BY <1>12, <2>1, <2>2 DEF Apart
      <3> QED
        BY <1>1, <2>1, <2>2, <2>3, <3>1, SingleConcat
    <2>10. Single(left2)
      <3>1. Apart(below, rest)
        BY <1>12, <2>7 DEF Apart
      <3> QED
        BY <1>1, <1>4, <2>3, <2>8, <3>1, SingleConcat DEF left2
    <2>11. Apart(list2, left2)
      <3>1. ASSUME NEW x \in ToSet(list2), NEW y \in ToSet(left2), Exists(x), Exists(y)
            PROVE  Physical(x) # Physical(y)
        <4>1. CASE y \in ToSet(below)
          BY <1>12, <2>7, <3>1, <4>1
        <4>2. CASE y \in ToSet(rest) /\ x \in ToSet(list)
          BY <1>12, <2>2, <3>1, <4>2 DEF Apart
        <4>3. CASE y \in ToSet(rest) /\ x = h
          BY <2>1, <2>3, <3>1, <4>3 DEF Apart
        <4> QED
          BY <1>12, <1>13, <3>1, <4>1, <4>2, <4>3
      <3> QED
        BY <3>1 DEF Apart
    <2> QED
      BY <1>12, <1>13, <2>9, <2>10, <2>11, SingleConcat
  <1>21. Collected(list2, calls2)
    BY <1>5, <1>15, <1>16, <1>17, <1>18, <1>19, <1>20 DEF Collected, w
  <1> QED
    BY <1>21 DEF list2, calls2, h, call

\* When no call is to come, the directories found are those to which the poms lead.
LEMMA CollectedAll ==
    ASSUME project \in Project, NEW list \in Seq(Dir), Collected(list, <<>>), Tool = "maven"
    PROVE  /\ {Physical(list[i]) : i \in DOMAIN list} = Reachable
           /\ NamedOnce => Len(list) = Cardinality(Reachable)
  <1> DEFINE N == MaxDepth
             w == Within({Root})
             S == ToSet(list)
             Holds(n) == n <= N => w[n] \subseteq S
             T == {n \in Nat : Holds(n)}
  <1>1. N \in Nat /\ S \subseteq Dir /\ S = {list[i] : i \in DOMAIN list}
    BY ListElements, ProjectModelAssumption, RootIsRoot DEF ToSet
  <1>2. /\ w[0] = {Root} /\ w[N] = PomPaths /\ PomPaths \subseteq Opened
        /\ \A n \in 1..N : w[n] = w[n - 1] \cup UNION {Named(d) : d \in w[n - 1]}
    <2>1. Root \in Opened /\ {Root} \in SUBSET Opened
      BY RootOpened
    <2>2. w[N] = PomPaths
      BY DEF PomPaths
    <2> HIDE DEF Holds, T, S
    <2> QED
      BY <2>1, <2>2, WithinIs, WithinPaths
  <1>3. Dirs(<<>>) = <<>> /\ ToSet(<<>>) = {}
    BY DEF Dirs, ToSet
  <1>4. /\ Root \in S /\ S \subseteq PomPaths
        /\ \A x \in S : \A k \in DOMAIN At(x).children :
              Exists(Join(x, At(x).children[k])) => Join(x, At(x).children[k]) \in S
        /\ NamedOnce => Single(list \o <<>>)
    <2> HIDE DEF Holds, T
    <2> QED
      BY <1>3 DEF Collected
  <1> HIDE DEF w, N, S
  <1>5. 0 \in T
    BY <1>2, <1>4
  <1>6. ASSUME NEW n \in Nat, n \in T PROVE n + 1 \in T
    <2> SUFFICES ASSUME n + 1 <= N, NEW d \in w[n + 1] PROVE d \in S
      OBVIOUS
    <2>1. n + 1 \in 1..N /\ (n + 1) - 1 = n /\ n <= N
      BY <1>1
    <2>2. w[n] \subseteq S
      BY <1>6, <2>1
    <2>3. d \in w[n] \/ \E e \in w[n] : d \in Named(e)
      <3>1. w[n + 1] = w[n] \cup UNION {Named(e) : e \in w[n]}
        BY <1>2, <2>1
      <3> QED
        BY <3>1
    <2>4. CASE \E e \in w[n] : d \in Named(e)
      <3>1. PICK e \in w[n] : d \in Named(e)
        BY <2>4
      <3>2. e \in S /\ Exists(d) /\ \E child \in ToSet(At(e).children) : d = Join(e, child)
        BY <2>2, <3>1 DEF Named
      <3>3. PICK k \in DOMAIN At(e).children : d = Join(e, At(e).children[k])
        BY <3>2 DEF ToSet
      <3> QED
        BY <1>4, <3>2, <3>3
    <2> QED
      BY <2>2, <2>3, <2>4
  <1> HIDE DEF T
  <1>7. Nat \subseteq T
    BY <1>5, <1>6, SetInduction
  <1>8. S = PomPaths
    <2>1. Holds(N)
      BY <1>1, <1>7 DEF T
    <2> QED
      BY <1>1, <1>2, <1>4, <2>1
  <1>9. {Physical(list[i]) : i \in DOMAIN list} = Reachable
    <2>1. {Physical(list[i]) : i \in DOMAIN list} = {Physical(p) : p \in S}
      BY <1>1
    <2> QED
      BY <1>8, <2>1 DEF Reachable
  <1>10. ASSUME NamedOnce PROVE Len(list) = Cardinality(Reachable)
    <2> DEFINE n == Len(list)
               s == [i \in 1..n |-> Physical(list[i])]
    <2>1. n \in Nat /\ DOMAIN list = 1..n /\ \A i \in 1..n : list[i] \in S
      BY <1>1, LenProperties
    <2>2. \A i \in 1..n : Physical(list[i]) \in Dir
      BY <1>1, <2>1, PhysicalType
    <2>3. s \in [1..n -> Dir]
      BY <2>2
    <2>4. s \in Seq(Dir) /\ Len(s) = n /\ \A i \in 1..n : s[i] = Physical(list[i])
      <3> HIDE DEF s, n
      <3>1. s \in Seq(Dir)
        BY <2>1, <2>3, SeqDef
      <3>2. DOMAIN s = 1..n
        BY <2>3
      <3>3. Len(s) = n
        BY <2>1, <3>1, <3>2, LenProperties
      <3> QED
        BY <3>1, <3>3 DEF s
    <2> HIDE DEF s, n
    <2>5. list \o <<>> = list
      BY ConcatEmptySeq
    <2>6. Single(list)
      BY <1>4, <1>10, <2>5
    <2>7. Distinct(s)
      <3>1. \A i \in 1..n : Exists(list[i])
        BY <1>2, <1>8, <2>1 DEF Opened
      <3>2. ASSUME NEW i \in 1..n, NEW j \in 1..n, s[i] = s[j] PROVE i = j
        BY <2>1, <2>4, <2>6, <3>1, <3>2 DEF Single
      <3> QED
        BY <2>4, <3>2 DEF Distinct
    <2>8. ToSet(s) = Reachable
      <3>1. DOMAIN s = 1..n
        BY <2>4, LenProperties
      <3> QED
        BY <1>9, <2>1, <2>4, <3>1 DEF ToSet
    <2> QED
      BY <2>4, <2>7, <2>8, DistinctCount DEF n
  <1> QED
    BY <1>9, <1>10

---------------------------------------------------------------------------
(***************************************************************************)
(* What Gradle's lines say.                                                *)
(***************************************************************************)

\* The values of lines.
Value == Dir \cup Entry

\* The values with a tag in the first lines, of one more after the other.
Tells(g, tag, lines) ==
    /\ g \in [0..Len(lines) -> Seq(Value)] /\ g[0] = <<>>
    /\ \A n \in 1..Len(lines) :
          g[n] = IF lines[n].tag = tag THEN Append(g[n - 1], lines[n].value) ELSE g[n - 1]

\* What a line holds is a value.
LEMMA LineValue ==
    ASSUME NEW lines \in Seq(LineRecord), NEW n \in 1..Len(lines)
    PROVE  lines[n] \in LineRecord /\ lines[n].value \in Value
  <1>1. lines[n] \in LineRecord
    BY ElementOfSeq
  <1> QED
    BY <1>1 DEF LineRecord, Value

\* The last of them are those of all lines.
LEMMA TaggedTells ==
    ASSUME NEW tag, NEW lines \in Seq(LineRecord)
    PROVE  \E g : Tells(g, tag, lines) /\ Tagged(tag, lines) = g[Len(lines)]
  <1> DEFINE N == Len(lines)
             B == Seq(Value)
             More(values, n) ==
                 IF lines[n].tag = tag THEN Append(values, lines[n].value) ELSE values
             F == [p \in B \X (1..N) |-> More(p[1], p[2])]
             IsTable(f) == f = [n \in 0..N |-> IF n = 0 THEN <<>> ELSE More(f[n - 1], n)]
             at == CHOOSE f : IsTable(f)
  <1>1. N \in Nat /\ \A n \in 1..N : lines[n].value \in Value
    BY LenProperties, LineValue
  <1>2. \A s \in B : \A n \in 1..N : More(s, n) \in B
    BY <1>1, AppendProperties
  <1>3. <<>> \in B
    BY EmptySeq
  <1> HIDE DEF More, B
  <1>4. PICK g : g \in [0..N -> B] /\ IsIteration(g, N, <<>>, F)
    <2>1. F \in [B \X (1..N) -> B]
      BY <1>2
    <2> HIDE DEF F, N
    <2> QED
      BY <1>1, <1>3, <2>1, Iteration
  <1>5. \A n \in 1..N : g[n] = More(g[n - 1], n)
    <2> TAKE n \in 1..N
    <2>1. n - 1 \in 0..N
      BY <1>1
    <2>2. g[n - 1] \in B /\ <<g[n - 1], n>> \in B \X (1..N)
      BY <1>4, <2>1
    <2>3. g[n] = F[<<g[n - 1], n>>]
      BY <1>4 DEF IsIteration
    <2> QED
      BY <2>2, <2>3
  <1>6. g[0] = <<>>
    BY <1>4 DEF IsIteration
  <1>7. IsTable(g)
    <2>1. \A n \in 0..N : g[n] = IF n = 0 THEN <<>> ELSE More(g[n - 1], n)
      <3>1. \A n \in 0..N : n = 0 \/ n \in 1..N
        BY <1>1
      <3> QED
        BY <1>5, <1>6, <3>1
    <2>2. g = [n \in 0..N |-> g[n]]
      BY <1>4
    <2> QED
      BY <2>1, <2>2
  <1>8. PICK a : IsTable(a) /\ Tagged(tag, lines) = a[N]
    <2>1. Tagged(tag, lines) = at[N]
      BY DEF Tagged, More
    <2>2. IsTable(at)
      <3> HIDE DEF IsTable
      <3> QED
        BY <1>7
    <2> HIDE DEF IsTable, at
    <2> QED
      BY <2>1, <2>2
  <1>9. a[0] = <<>> /\ \A n \in 1..N : a[n] = More(a[n - 1], n)
    <2>1. 0 \in 0..N /\ \A n \in 1..N : n \in 0..N /\ n # 0
      BY <1>1
    <2> QED
      BY <1>8, <2>1
  <1>10. \A n \in 0..N : a[n] = g[n]
    <2>1. a[0] = g[0]
      BY <1>6, <1>9
    <2>2. \A n \in 1..N : a[n - 1] = g[n - 1] => a[n] = g[n]
      BY <1>5, <1>9
    <2> HIDE DEF N
    <2>3. Alike(a, g, N)
      BY <2>1, <2>2 DEF Alike
    <2> QED
      BY <1>1, <2>3, SameValues
  <1>11. N \in 0..N
    BY <1>1
  <1> QED
    BY <1>4, <1>5, <1>6, <1>8, <1>10, <1>11 DEF Tells, More, B

\* One line more adds its value, if it has the tag.
LEMMA TaggedAppend ==
    ASSUME NEW tag, NEW lines \in Seq(LineRecord), NEW line \in LineRecord
    PROVE  /\ Tagged(tag, <<>>) = <<>>
           /\ Tagged(tag, lines) \in Seq(Value)
           /\ Tagged(tag, Append(lines, line)) =
                 IF line.tag = tag THEN Append(Tagged(tag, lines), line.value)
                 ELSE Tagged(tag, lines)
  <1> DEFINE N == Len(lines)
             longer == Append(lines, line)
  <1>1. /\ longer \in Seq(LineRecord) /\ Len(longer) = N + 1 /\ longer[N + 1] = line
        /\ \A n \in 1..N : longer[n] = lines[n]
    BY AppendProperties
  <1>2. N \in Nat
    BY LenProperties
  <1> HIDE DEF longer, N
  <1>3. PICK g : Tells(g, tag, lines) /\ Tagged(tag, lines) = g[N]
    BY TaggedTells DEF N
  <1>4. PICK h : Tells(h, tag, longer) /\ Tagged(tag, longer) = h[N + 1]
    BY <1>1, TaggedTells
  <1>5. \A n \in 0..N : g[n] = h[n]
    <2>1. g[0] = h[0]
      BY <1>3, <1>4 DEF Tells
    <2>2. ASSUME NEW n \in 1..N, g[n - 1] = h[n - 1] PROVE g[n] = h[n]
      <3>1. n \in 1..(N + 1)
        BY <1>2
      <3>2. g[n] = IF lines[n].tag = tag THEN Append(g[n - 1], lines[n].value) ELSE g[n - 1]
        BY <1>3 DEF Tells, N
      <3>3. h[n] = IF longer[n].tag = tag THEN Append(h[n - 1], longer[n].value) ELSE h[n - 1]
        BY <1>1, <1>4, <3>1 DEF Tells
      <3> QED
        BY <1>1, <2>2, <3>2, <3>3
    <2>3. Alike(g, h, N)
      BY <2>1, <2>2 DEF Alike
    <2> QED
      BY <1>2, <2>3, SameValues
  <1>6. h[N + 1] = IF line.tag = tag THEN Append(h[N], line.value) ELSE h[N]
    <2>1. N + 1 \in 1..(N + 1) /\ (N + 1) - 1 = N
      BY <1>2
    <2> QED
      BY <1>1, <1>4, <2>1 DEF Tells
  <1>7. N \in 0..N
    BY <1>2
  <1>8. Tagged(tag, <<>>) = <<>>
    <2>1. <<>> \in Seq(LineRecord) /\ Len(<<>>) = 0
      BY EmptySeq
    <2>2. PICK r : Tells(r, tag, <<>>) /\ Tagged(tag, <<>>) = r[Len(<<>>)]
      BY <2>1, TaggedTells
    <2> QED
      BY <2>1, <2>2 DEF Tells
  <1>9. g[N] \in Seq(Value)
    BY <1>3, <1>7 DEF Tells, N
  <1> QED
    BY <1>3, <1>4, <1>5, <1>6, <1>7, <1>8, <1>9 DEF longer

\* The lines with the tag are b of them, behind a others.
Stretch(tag, lines, a, b) ==
    /\ a + b <= Len(lines)
    /\ \A n \in 1..Len(lines) : lines[n].tag = tag <=> a < n /\ n <= a + b

\* What they say.
SaidThere(lines, a, b) == [k \in 1..b |-> lines[a + k].value]

\* Lines that have the tag in one stretch say what is there.
LEMMA TaggedStretch ==
    ASSUME NEW tag, NEW lines \in Seq(LineRecord), NEW a \in Nat, NEW b \in Nat,
           Stretch(tag, lines, a, b)
    PROVE  Tagged(tag, lines) = SaidThere(lines, a, b)
  <1> DEFINE N == Len(lines)
             Count(n) == IF n <= a THEN 0 ELSE IF n <= a + b THEN n - a ELSE b
             First_(m) == [k \in 1..m |-> lines[a + k].value]
  <1>1. N \in Nat /\ \A n \in 1..N : lines[n].value \in Value
    BY LenProperties, LineValue
  <1> HIDE DEF N
  <1>2. PICK g : Tells(g, tag, lines) /\ Tagged(tag, lines) = g[N]
    BY TaggedTells DEF N
  <1>3. g[0] = <<>> /\ \A n \in 1..N :
            g[n] = IF a < n /\ n <= a + b THEN Append(g[n - 1], lines[n].value) ELSE g[n - 1]
    BY <1>2 DEF Tells, N, Stretch
  <1>4. \A n \in 0..N : Count(n) \in 0..b
    BY <1>1
  <1>5. ASSUME NEW m \in Nat, m + 1 <= b
        PROVE  First_(m + 1) = Append(First_(m), lines[a + (m + 1)].value)
    <2> DEFINE s == First_(m)
               v == lines[a + (m + 1)].value
               t == First_(m + 1)
    <2>1. \A k \in 1..(m + 1) : a + k \in 1..N
      BY <1>1, <1>5 DEF N, Stretch
    <2>2. s \in [1..m -> Value] /\ t \in [1..(m + 1) -> Value] /\ v \in Value
      BY <1>1, <1>5, <2>1
    <2>3. \A k \in 1..m : s[k] = t[k]
      OBVIOUS
    <2>4. t[m + 1] = v
      OBVIOUS
    <2> HIDE DEF s, t, v
    <2>5. s \in Seq(Value) /\ t \in Seq(Value) /\ m + 1 \in Nat
      BY <2>2, SeqDef
    <2>6. Len(s) = m /\ Len(t) = m + 1
      BY <2>2, <2>5, LenProperties
    <2>7. /\ Append(s, v) \in Seq(Value) /\ Len(Append(s, v)) = m + 1
          /\ \A k \in 1..m : Append(s, v)[k] = s[k]
          /\ Append(s, v)[m + 1] = v
      BY <2>2, <2>5, <2>6, AppendProperties
    <2>8. \A k \in 1..(m + 1) : t[k] = Append(s, v)[k]
      BY <2>3, <2>4, <2>7, NextPosition
    <2>9. t = Append(s, v)
      BY <2>5, <2>6, <2>7, <2>8, SeqEqual
    <2> QED
      BY <2>9 DEF s, t, v
  <1>6. First_(0) = <<>>
    OBVIOUS
  <1> HIDE DEF First_
  <1>7. PICK h : \A n \in 0..N : h[n] = First_(Count(n))
    <2> DEFINE f == [n \in 0..N |-> First_(Count(n))]
    <2>1. \A n \in 0..N : f[n] = First_(Count(n))
      OBVIOUS
    <2> HIDE DEF f
    <2> QED
      BY <2>1
  <1>8. h[0] = <<>>
    <2>1. 0 \in 0..N /\ Count(0) = 0
      BY <1>1
    <2> QED
      BY <1>6, <1>7, <2>1
  <1>9. ASSUME NEW n \in 1..N, g[n - 1] = h[n - 1] PROVE g[n] = h[n]
    <2>1. n - 1 \in 0..N /\ n \in 0..N
      BY <1>1
    <2>2. h[n - 1] = First_(Count(n - 1)) /\ h[n] = First_(Count(n))
      BY <1>7, <2>1
    <2>3. CASE a < n /\ n <= a + b
      <3>1. /\ Count(n) = (n - 1 - a) + 1 /\ Count(n - 1) = n - 1 - a
            /\ n - 1 - a \in Nat /\ (n - 1 - a) + 1 <= b /\ a + ((n - 1 - a) + 1) = n
        BY <2>1, <2>3
      <3> DEFINE m == n - 1 - a
      <3>2. m \in Nat /\ m + 1 <= b /\ a + (m + 1) = n
        BY <3>1
      <3>3. First_(m + 1) = Append(First_(m), lines[n].value)
        <4> HIDE DEF m
        <4> QED
          BY <1>5, <3>2
      <3>4. g[n] = Append(g[n - 1], lines[n].value)
        BY <1>3, <2>3
      <3> QED
        BY <1>9, <2>2, <3>1, <3>3, <3>4
    <2>4. CASE ~(a < n /\ n <= a + b)
      <3>1. Count(n) = Count(n - 1)
        BY <2>1, <2>4
      <3>2. g[n] = g[n - 1]
        BY <1>3, <2>4
      <3> QED
        BY <1>9, <2>2, <3>1, <3>2
    <2> QED
      BY <2>3, <2>4
  <1>10. \A n \in 0..N : g[n] = h[n]
    <2>1. g[0] = h[0]
      BY <1>3, <1>8
    <2>2. \A n \in 1..N : g[n - 1] = h[n - 1] => g[n] = h[n]
      BY <1>9
    <2>3. Alike(g, h, N)
      BY <2>1, <2>2 DEF Alike
    <2> QED
      BY <1>1, <2>3, SameValues
  <1>11. N \in 0..N /\ Count(N) = b
    BY <1>1 DEF N, Stretch
  <1>12. Tagged(tag, lines) = First_(b)
    BY <1>2, <1>7, <1>10, <1>11
  <1> QED
    BY <1>12 DEF First_, SaidThere

\* The lines of a module say what is its own, and announce it once, at their head.
LEMMA LinesSay ==
    ASSUME project \in Project, NEW dir \in DOMAIN project.modules
    PROVE  LET lines == ModuleLines(dir)
               whole == Whole(dir, project.modules[dir])
           IN  /\ lines \in Seq(LineRecord) /\ Len(lines) \in Nat \ {0}
               /\ lines[1] = Line("PROJECT", dir)
               /\ \A n \in 1..Len(lines) : lines[n].tag = "PROJECT" => n = 1
               /\ Tagged("SOURCE_DIR", lines) = whole.source_dirs
               /\ Tagged("CLASSPATH_ENTRY", lines) = whole.classpath
  <1> DEFINE m == project.modules[dir]
             S == LineRecord
             first == <<Line("PROJECT", dir)>>
             middle == [k \in DOMAIN m.sources |->
                           Line("SOURCE_DIR", Append(dir, m.sources[k]))]
             last == [k \in DOMAIN m.classpath |-> Line("CLASSPATH_ENTRY", m.classpath[k])]
             lines == ModuleLines(dir)
             p == Len(m.sources)
             q == Len(m.classpath)
  <1>1. lines \in Seq(S) /\ lines = (first \o middle) \o last
    BY LinesType DEF ModuleLines
  <1>2. /\ dir \in Dir /\ m.sources \in Seq(Name) /\ m.classpath \in Seq(Entry)
        /\ Seq(S) = UNION {[1..n -> S] : n \in Nat}
    BY ProjectModelAssumption, SeqDef DEF Dir
  <1>3. /\ p \in Nat /\ DOMAIN m.sources = 1..p /\ q \in Nat /\ DOMAIN m.classpath = 1..q
        /\ m.classpath = [k \in 1..q |-> m.classpath[k]]
    BY <1>2, LenProperties
  <1> HIDE DEF m, p, q
  <1>4. /\ first \in Seq(S) /\ Len(first) = 1 /\ first[1] = Line("PROJECT", dir)
    <2>1. Line("PROJECT", dir) \in S
      BY <1>2 DEF Line, LineRecord
    <2> HIDE DEF S
    <2> QED
      BY <2>1
  <1>5. /\ middle \in Seq(S) /\ Len(middle) = p
        /\ \A k \in 1..p : middle[k] = Line("SOURCE_DIR", Append(dir, m.sources[k]))
    <2>1. \A k \in 1..p : Line("SOURCE_DIR", Append(dir, m.sources[k])) \in S
      <3> TAKE k \in 1..p
      <3>1. Append(dir, m.sources[k]) \in Dir
        BY <1>2, ElementOfSeq, AppendProperties DEF Dir, p
      <3> QED
        BY <3>1 DEF Line, LineRecord
    <2> HIDE DEF S
    <2>2. middle \in [1..p -> S]
      BY <1>3, <2>1
    <2>3. \A k \in 1..p : middle[k] = Line("SOURCE_DIR", Append(dir, m.sources[k]))
      BY <1>3
    <2> HIDE DEF middle
    <2>4. middle \in Seq(S)
      BY <1>2, <1>3, <2>2
    <2> QED
      BY <1>3, <2>2, <2>3, <2>4, LenProperties
  <1>6. /\ last \in Seq(S) /\ Len(last) = q
        /\ \A k \in 1..q : last[k] = Line("CLASSPATH_ENTRY", m.classpath[k])
    <2>1. \A k \in 1..q : Line("CLASSPATH_ENTRY", m.classpath[k]) \in S
      <3> TAKE k \in 1..q
      <3>1. m.classpath[k] \in Entry
        BY <1>2, ElementOfSeq DEF q
      <3> QED
        BY <3>1 DEF Line, LineRecord
    <2> HIDE DEF S
    <2>2. last \in [1..q -> S]
      BY <1>3, <2>1
    <2>3. \A k \in 1..q : last[k] = Line("CLASSPATH_ENTRY", m.classpath[k])
      BY <1>3
    <2> HIDE DEF last
    <2>4. last \in Seq(S)
      BY <1>2, <1>3, <2>2
    <2> QED
      BY <1>3, <2>2, <2>3, <2>4, LenProperties
  <1> HIDE DEF S, first, middle, last, lines
  <1> DEFINE two == first \o middle
  <1>7. /\ two \in Seq(S) /\ Len(two) = 1 + p
        /\ \A n \in 1..(1 + p) : two[n] = IF n <= 1 THEN first[n] ELSE middle[n - 1]
    <2>1. /\ two \in Seq(S) /\ Len(two) = Len(first) + Len(middle)
          /\ \A n \in 1..(Len(first) + Len(middle)) :
                two[n] = IF n <= Len(first) THEN first[n] ELSE middle[n - Len(first)]
      BY <1>4, <1>5, ConcatProperties
    <2> QED
      BY <1>4, <1>5, <2>1
  <1>8. lines = two \o last
    BY <1>1
  <1> HIDE DEF two
  <1>9. /\ Len(lines) = (1 + p) + q
        /\ \A n \in 1..((1 + p) + q) : lines[n] = IF n <= 1 + p THEN two[n] ELSE last[n - (1 + p)]
    <2>1. /\ Len(lines) = Len(two) + Len(last)
          /\ \A n \in 1..(Len(two) + Len(last)) :
                lines[n] = IF n <= Len(two) THEN two[n] ELSE last[n - Len(two)]
      BY <1>6, <1>7, <1>8, ConcatProperties
    <2> QED
      BY <1>6, <1>7, <2>1
  <1>10. lines[1] = Line("PROJECT", dir)
    <2>1. 1 \in 1..((1 + p) + q) /\ 1 \in 1..(1 + p) /\ 1 <= 1 + p
      BY <1>3
    <2> QED
      BY <1>4, <1>7, <1>9, <2>1
  <1>11. ASSUME NEW k \in 1..p
         PROVE  lines[1 + k] = Line("SOURCE_DIR", Append(dir, m.sources[k]))
    <2>1. /\ 1 + k \in 1..((1 + p) + q) /\ 1 + k \in 1..(1 + p) /\ 1 + k <= 1 + p
          /\ ~(1 + k <= 1) /\ (1 + k) - 1 = k
      BY <1>3
    <2> QED
      BY <1>5, <1>7, <1>9, <2>1
  <1>12. ASSUME NEW k \in 1..q
         PROVE  lines[(1 + p) + k] = Line("CLASSPATH_ENTRY", m.classpath[k])
    <2>1. /\ (1 + p) + k \in 1..((1 + p) + q) /\ ~((1 + p) + k <= 1 + p)
          /\ ((1 + p) + k) - (1 + p) = k
      BY <1>3
    <2> QED
      BY <1>6, <1>9, <2>1
  <1>13. \A n \in 1..Len(lines) :
             /\ n = 1 => lines[n].tag = "PROJECT"
             /\ 1 < n /\ n <= 1 + p => lines[n].tag = "SOURCE_DIR"
             /\ 1 + p < n => lines[n].tag = "CLASSPATH_ENTRY"
    <2> TAKE n \in 1..Len(lines)
    <2>1. n = 1 => lines[n].tag = "PROJECT"
      BY <1>10 DEF Line
    <2>2. ASSUME 1 < n, n <= 1 + p PROVE lines[n].tag = "SOURCE_DIR"
      <3>1. n - 1 \in 1..p /\ 1 + (n - 1) = n
        BY <1>3, <1>9, <2>2
      <3>2. lines[1 + (n - 1)] = Line("SOURCE_DIR", Append(dir, m.sources[n - 1]))
        BY <1>11, <3>1
      <3> QED
        BY <3>1, <3>2 DEF Line
    <2>3. ASSUME 1 + p < n PROVE lines[n].tag = "CLASSPATH_ENTRY"
      <3>1. n - (1 + p) \in 1..q /\ (1 + p) + (n - (1 + p)) = n
        BY <1>3, <1>9, <2>3
      <3>2. lines[(1 + p) + (n - (1 + p))] = Line("CLASSPATH_ENTRY", m.classpath[n - (1 + p)])
        BY <1>12, <3>1
      <3> QED
        BY <3>1, <3>2 DEF Line
    <2> QED
      BY <2>1, <2>2, <2>3
  <1>14. Tagged("SOURCE_DIR", lines) = [k \in 1..p |-> Append(dir, m.sources[k])]
    <2>1. \A n \in 1..Len(lines) : lines[n].tag = "SOURCE_DIR" <=> 1 < n /\ n <= 1 + p
      BY <1>3, <1>9, <1>13
    <2>2. Stretch("SOURCE_DIR", lines, 1, p)
      BY <1>3, <1>9, <2>1 DEF Stretch
    <2>3. Tagged("SOURCE_DIR", lines) = SaidThere(lines, 1, p)
      BY <1>1, <1>3, <2>2, TaggedStretch DEF S
    <2>4. ASSUME NEW k \in 1..p PROVE lines[1 + k].value = Append(dir, m.sources[k])
      <3>1. lines[1 + k] = Line("SOURCE_DIR", Append(dir, m.sources[k]))
        BY <1>11
      <3> QED
        BY <3>1 DEF Line
    <2> QED
      BY <2>3, <2>4 DEF SaidThere
  <1>15. Tagged("CLASSPATH_ENTRY", lines) = m.classpath
    <2>1. \A n \in 1..Len(lines) :
              lines[n].tag = "CLASSPATH_ENTRY" <=> 1 + p < n /\ n <= (1 + p) + q
      BY <1>3, <1>9, <1>13
    <2>2. Stretch("CLASSPATH_ENTRY", lines, 1 + p, q)
      BY <1>3, <1>9, <2>1 DEF Stretch
    <2>3. Tagged("CLASSPATH_ENTRY", lines) = SaidThere(lines, 1 + p, q)
      <3>1. 1 + p \in Nat
        BY <1>3
      <3> QED
        BY <1>1, <1>3, <2>2, <3>1, TaggedStretch DEF S
    <2>4. ASSUME NEW k \in 1..q PROVE lines[(1 + p) + k].value = m.classpath[k]
      <3>1. lines[(1 + p) + k] = Line("CLASSPATH_ENTRY", m.classpath[k])
        BY <1>12
      <3> QED
        BY <3>1 DEF Line
    <2> QED
      BY <1>3, <2>3, <2>4 DEF SaidThere
  <1>16. \A n \in 1..Len(lines) : lines[n].tag = "PROJECT" => n = 1
    BY <1>3, <1>9, <1>13
  <1>17. Len(lines) \in Nat \ {0}
    BY <1>3, <1>9
  <1> QED
    BY <1>1, <1>3, <1>10, <1>14, <1>15, <1>16, <1>17 DEF Whole, Module, lines, m, S

\* What is printed begins with a line that is no module's, then a module's first;
\* and each module is announced once.
AreLines(lines) ==
    /\ \A n \in 1..Len(lines) : lines[n].tag = "PROJECT" =>
          lines[n].value \in DOMAIN project.modules /\ lines[n] = Line("PROJECT", lines[n].value)
    /\ \A m, n \in 1..Len(lines) :
          lines[m].tag = "PROJECT" /\ lines[n].tag = "PROJECT" /\ lines[m].value = lines[n].value
          => m = n
    /\ 1 <= Len(lines) => lines[1].tag = "other"
    /\ 2 <= Len(lines) => lines[2].tag = "PROJECT"

\* The lines PrintSettings prints of a line begin with one of its PROJECTs, and the
\* PROJECT of a line stands before what is said of it.
LEMMA PrintedLines ==
    ASSUME project \in Project, NEW lines \in Printed
    PROVE  AreLines(<<Line("other", Root)>> \o lines)
  <1> DEFINE modules == DOMAIN project.modules
             other == <<Line("other", Root)>>
             all == other \o lines
  <1>1. ASSUME NEW d \in modules
        PROVE  /\ ModuleLines(d)[1] = Line("PROJECT", d)
               /\ \A k \in 1..Len(ModuleLines(d)) : ModuleLines(d)[k].tag = "PROJECT" => k = 1
    BY LinesSay
  <1>2. PICK n \in Nat : \E turn \in [1..n -> modules] :
            /\ lines = [k \in 1..n |-> ModuleLines(turn[k])[Before(turn, k)]]
            /\ \A k \in 1..n : Before(turn, k) \in 1..Len(ModuleLines(turn[k]))
    BY PrintedInTurns
  <1>3. PICK turn : /\ turn \in [1..n -> modules]
                    /\ lines = [k \in 1..n |-> ModuleLines(turn[k])[Before(turn, k)]]
                    /\ \A k \in 1..n : Before(turn, k) \in 1..Len(ModuleLines(turn[k]))
    BY <1>2
  <1>4. /\ lines \in Seq(LineRecord) /\ Len(lines) = n
        /\ \A k \in 1..n : lines[k] = ModuleLines(turn[k])[Before(turn, k)]
    <2>1. lines \in Seq(LineRecord)
      BY PrintedType
    <2>2. DOMAIN lines = 1..n /\ \A k \in 1..n : lines[k] = ModuleLines(turn[k])[Before(turn, k)]
      BY <1>3
    <2> QED
      BY <1>2, <2>1, <2>2, LenProperties
  <1>5. ASSUME NEW k \in 1..n, lines[k].tag = "PROJECT"
        PROVE  Before(turn, k) = 1 /\ lines[k] = Line("PROJECT", turn[k]) /\ turn[k] \in modules
    <2>1. turn[k] \in modules
      BY <1>3
    <2>2. Before(turn, k) = 1
      BY <1>1, <1>3, <1>4, <1>5, <2>1
    <2> QED
      BY <1>1, <1>4, <2>1, <2>2
  <1>6. ASSUME NEW k \in 1..n, NEW l \in 1..n, k < l, turn[k] = turn[l], Before(turn, l) = 1
        PROVE  FALSE
    <2> DEFINE U == {j \in 1..l : turn[j] = turn[l]}
    <2>1. k \in U /\ l \in U /\ k # l
      BY <1>6
    <2>2. IsFiniteSet(U) /\ Cardinality(U) = 1
      <3>1. IsFiniteSet(1..l)
        BY FS_Interval
      <3>2. IsFiniteSet(U)
        BY <3>1, FS_Subset
      <3> QED
        BY <1>6, <3>2 DEF Before
    <2> HIDE DEF U
    <2>3. \E x : U = {x}
      BY <2>2, FS_Singleton
    <2> QED
      BY <2>1, <2>3
  <1>7. 1 <= n => lines[1].tag = "PROJECT"
    <2> SUFFICES ASSUME 1 <= n PROVE lines[1].tag = "PROJECT"
      OBVIOUS
    <2>1. 1 \in 1..n /\ turn[1] \in modules
      BY <1>2, <1>3
    <2>2. Before(turn, 1) = 1
      <3>1. {j \in 1..1 : turn[j] = turn[1]} = {1}
        OBVIOUS
      <3>2. Cardinality({1}) = 1
        BY FS_Singleton
      <3> QED
        BY <3>1, <3>2 DEF Before
    <2>3. lines[1] = Line("PROJECT", turn[1])
      BY <1>1, <1>4, <2>1, <2>2
    <2> QED
      BY <2>3 DEF Line
  <1>8. /\ Len(all) = 1 + n /\ all[1] = Line("other", Root)
        /\ \A k \in 1..n : all[1 + k] = lines[k]
        /\ \A i \in 1..(1 + n) : i = 1 \/ (i - 1 \in 1..n /\ all[i] = lines[i - 1])
    <2>1. other \in Seq(LineRecord) /\ Len(other) = 1 /\ other[1] = Line("other", Root)
      <3>1. Line("other", Root) \in LineRecord
        BY RootIsRoot DEF Line, LineRecord
      <3> QED
        BY <3>1
    <2> HIDE DEF other
    <2>2. /\ Len(all) = 1 + n
          /\ \A i \in 1..(1 + n) : all[i] = IF i <= 1 THEN other[i] ELSE lines[i - 1]
      <3>1. /\ Len(all) = Len(other) + Len(lines)
            /\ \A i \in 1..(Len(other) + Len(lines)) :
                  all[i] = IF i <= Len(other) THEN other[i] ELSE lines[i - Len(other)]
        BY <1>4, <2>1, ConcatProperties
      <3> QED
        BY <1>4, <2>1, <3>1
    <2> HIDE DEF all
    <2>3. all[1] = Line("other", Root)
      <3>1. 1 \in 1..(1 + n)
        BY <1>2
      <3> QED
        BY <2>1, <2>2, <3>1
    <2>4. ASSUME NEW k \in 1..n PROVE all[1 + k] = lines[k]
      <3>1. 1 + k \in 1..(1 + n) /\ ~(1 + k <= 1) /\ (1 + k) - 1 = k
        BY <1>2
      <3> QED
        BY <2>2, <3>1
    <2>5. ASSUME NEW i \in 1..(1 + n), i # 1 PROVE i - 1 \in 1..n /\ all[i] = lines[i - 1]
      <3>1. i - 1 \in 1..n /\ ~(i <= 1)
        BY <1>2, <2>5
      <3> QED
        BY <2>2, <3>1
    <2> QED
      BY <2>2, <2>3, <2>4, <2>5
  <1> HIDE DEF all, other
  <1>9. ASSUME NEW i \in 1..Len(all), all[i].tag = "PROJECT"
        PROVE  /\ i - 1 \in 1..n /\ lines[i - 1].tag = "PROJECT" /\ all[i] = lines[i - 1]
               /\ all[i] = Line("PROJECT", turn[i - 1]) /\ all[i].value = turn[i - 1]
               /\ Before(turn, i - 1) = 1 /\ turn[i - 1] \in modules
    <2>1. i # 1
      BY <1>8, <1>9 DEF Line
    <2>2. i - 1 \in 1..n /\ all[i] = lines[i - 1]
      BY <1>8, <2>1
    <2>3. /\ Before(turn, i - 1) = 1 /\ lines[i - 1] = Line("PROJECT", turn[i - 1])
          /\ turn[i - 1] \in modules
      BY <1>5, <1>9, <2>2
    <2> QED
      BY <1>9, <2>2, <2>3 DEF Line
  <1>10. ASSUME NEW i \in 1..Len(all), NEW j \in 1..Len(all), all[i].tag = "PROJECT",
                all[j].tag = "PROJECT", all[i].value = all[j].value
         PROVE  i = j
    <2>1. /\ i - 1 \in 1..n /\ j - 1 \in 1..n /\ turn[i - 1] = turn[j - 1]
          /\ Before(turn, i - 1) = 1 /\ Before(turn, j - 1) = 1
      BY <1>9, <1>10
    <2>2. ~(i - 1 < j - 1) /\ ~(j - 1 < i - 1)
      BY <1>6, <2>1
    <2> QED
      BY <1>8, <2>1, <2>2
  <1>11. 1 <= Len(all) => all[1].tag = "other"
    BY <1>8 DEF Line
  <1>12. 2 <= Len(all) => all[2].tag = "PROJECT"
    <2>1. ASSUME 2 <= 1 + n PROVE 1 \in 1..n /\ 1 + 1 = 2 /\ 1 <= n
      BY <1>2, <2>1
    <2> QED
      BY <1>7, <1>8, <2>1
  <1> QED
    BY <1>9, <1>10, <1>11, <1>12 DEF AreLines, all, other

---------------------------------------------------------------------------
\* A module is what the lines from one place to another say, the first of which
\* announces it, and none behind it another.
Own(module, lines, from, to) ==
    /\ lines[from].tag = "PROJECT" /\ lines[from].value = module.root
    /\ \A n \in (from + 1)..to : lines[n].tag # "PROJECT"
    /\ module.source_dirs = Tagged("SOURCE_DIR", SubSeq(lines, from, to))
    /\ module.classpath = Tagged("CLASSPATH_ENTRY", SubSeq(lines, from, to))

\* The fields of modules.
RootsOf(modules) == [i \in DOMAIN modules |-> modules[i].root]
SourceDirsOf(modules) == [i \in DOMAIN modules |-> modules[i].source_dirs]
EntriesOf(modules) == [i \in DOMAIN modules |-> modules[i].classpath]

\* The modules say what the first n lines say, in their order.
Says(modules, lines, n) ==
    LET told == SubSeq(lines, 1, n)
    IN  /\ modules = <<>> => n <= 1
        /\ RootsOf(modules) = Tagged("PROJECT", told)
        /\ FlattenSeq(SourceDirsOf(modules)) = Tagged("SOURCE_DIR", told)
        /\ FlattenSeq(EntriesOf(modules)) = Tagged("CLASSPATH_ENTRY", told)
\* All but the last of them have ended before.
Ends(modules, lines, n) ==
    \A i \in 1..Len(modules) : \E from \in 1..n : \E to \in from..n :
        /\ Own(modules[i], lines, from, to)
        /\ i = Len(modules) => to = n
        /\ i # Len(modules) => to < n /\ lines[to + 1].tag = "PROJECT"

\* What the modules have, one after the other.
LEMMA FieldTypes ==
    ASSUME NEW modules \in Seq(ModuleRecord)
    PROVE  LET N == Len(modules)
           IN  /\ N \in Nat /\ DOMAIN modules = 1..N /\ \A i \in 1..N : modules[i] \in ModuleRecord
               /\ RootsOf(modules) \in Seq(Dir) /\ Len(RootsOf(modules)) = N
               /\ \A i \in 1..N : RootsOf(modules)[i] = modules[i].root
               /\ SourceDirsOf(modules) \in Seq(Seq(Dir)) /\ Len(SourceDirsOf(modules)) = N
               /\ \A i \in 1..N : SourceDirsOf(modules)[i] = modules[i].source_dirs
               /\ EntriesOf(modules) \in Seq(Seq(Entry)) /\ Len(EntriesOf(modules)) = N
               /\ \A i \in 1..N : EntriesOf(modules)[i] = modules[i].classpath
  <1> DEFINE N == Len(modules)
  <1>1. N \in Nat /\ DOMAIN modules = 1..N /\ \A i \in 1..N : modules[i] \in ModuleRecord
    BY LenProperties, ElementOfSeq
  <1> HIDE DEF N
  <1>2. \A i \in 1..N : /\ modules[i].root \in Dir /\ modules[i].source_dirs \in Seq(Dir)
                        /\ modules[i].classpath \in Seq(Entry)
    BY <1>1 DEF ModuleRecord
  <1>3. /\ RootsOf(modules) \in [1..N -> Dir]
        /\ SourceDirsOf(modules) \in [1..N -> Seq(Dir)]
        /\ EntriesOf(modules) \in [1..N -> Seq(Entry)]
    BY <1>1, <1>2 DEF RootsOf, SourceDirsOf, EntriesOf
  <1>4. ASSUME NEW S, NEW f, f \in [1..N -> S] PROVE f \in Seq(S) /\ Len(f) = N
    <2>1. f \in Seq(S)
      BY <1>1, <1>4, SeqDef
    <2>2. DOMAIN f = 1..N
      BY <1>4
    <2> QED
      BY <1>1, <2>1, <2>2, LenProperties
  <1>5. /\ RootsOf(modules) \in Seq(Dir) /\ Len(RootsOf(modules)) = N
        /\ SourceDirsOf(modules) \in Seq(Seq(Dir)) /\ Len(SourceDirsOf(modules)) = N
        /\ EntriesOf(modules) \in Seq(Seq(Entry)) /\ Len(EntriesOf(modules)) = N
    BY <1>3, <1>4
  <1>6. \A i \in 1..N : /\ RootsOf(modules)[i] = modules[i].root
                        /\ SourceDirsOf(modules)[i] = modules[i].source_dirs
                        /\ EntriesOf(modules)[i] = modules[i].classpath
    BY <1>1 DEF RootsOf, SourceDirsOf, EntriesOf
  <1> QED
    BY <1>1, <1>5, <1>6 DEF N

\* One line more, of those from a place on.
LEMMA LinesGoOn ==
    ASSUME NEW lines \in Seq(LineRecord), NEW from \in 1..Len(lines), NEW n \in Nat,
           from <= n + 1, n < Len(lines)
    PROVE  /\ SubSeq(lines, from, n) \in Seq(LineRecord)
           /\ lines[n + 1] \in LineRecord
           /\ SubSeq(lines, from, n + 1) = Append(SubSeq(lines, from, n), lines[n + 1])
  <1>1. Len(lines) \in Nat /\ n + 1 \in from..Len(lines) /\ (n + 1) - 1 = n
    BY LenProperties
  <1>2. SubSeq(lines, from, n) \in Seq(LineRecord)
    <2>1. \A i \in from..n : lines[i] \in LineRecord
      <3> TAKE i \in from..n
      <3>1. i \in 1..Len(lines)
        BY <1>1
      <3> QED
        BY <3>1, ElementOfSeq
    <2> QED
      BY <1>1, <2>1, SubSeqProperties
  <1>3. lines[n + 1] \in LineRecord
    <2>1. n + 1 \in 1..Len(lines)
      BY <1>1
    <2> QED
      BY <2>1, ElementOfSeq
  <1>4. SubSeq(lines, from, n + 1) = SubSeq(lines, from, n) \o <<lines[n + 1]>>
    <2>1. SubSeq(lines, from, n + 1) = SubSeq(lines, from, (n + 1) - 1) \o <<lines[n + 1]>>
      BY <1>1, SubSeqRecursiveSecond
    <2> QED
      BY <1>1, <2>1
  <1> QED
    BY <1>2, <1>3, <1>4, AppendIsConcat

\* A module just announced says the line that announces it.
LEMMA OwnFirst ==
    ASSUME NEW lines \in Seq(LineRecord), NEW n \in 1..Len(lines), lines[n].tag = "PROJECT"
    PROVE  Own(Module(lines[n].value, <<>>, <<>>), lines, n, n)
  <1> DEFINE line == lines[n]
  <1>1. line \in LineRecord /\ SubSeq(lines, n, n) = Append(<<>>, line)
    <2>1. n - 1 \in Nat /\ n <= (n - 1) + 1 /\ n - 1 < Len(lines) /\ (n - 1) + 1 = n
      BY LenProperties
    <2> DEFINE none == SubSeq(lines, n, n - 1)
    <2>2. line \in LineRecord /\ SubSeq(lines, n, n) = Append(none, line)
      <3>1. /\ lines[(n - 1) + 1] \in LineRecord
            /\ SubSeq(lines, n, (n - 1) + 1) = Append(none, lines[(n - 1) + 1])
        BY <2>1, LinesGoOn
      <3> QED
        BY <2>1, <3>1
    <2>3. none = <<>>
      BY <2>1, SubSeqEmpty
    <2> QED
      BY <2>2, <2>3
  <1>2. /\ Tagged("SOURCE_DIR", Append(<<>>, line)) = <<>>
        /\ Tagged("CLASSPATH_ENTRY", Append(<<>>, line)) = <<>>
    <2>1. <<>> \in Seq(LineRecord)
      BY EmptySeq
    <2> QED
      BY <1>1, <2>1, TaggedAppend
  <1> QED
    BY <1>1, <1>2 DEF Own, Module

\* A module goes on with a line that announces none.
LEMMA OwnGoesOn ==
    ASSUME NEW lines \in Seq(LineRecord), NEW from \in 1..Len(lines), NEW n \in Nat,
           from <= n, n < Len(lines), NEW module \in ModuleRecord, Own(module, lines, from, n),
           lines[n + 1].tag # "PROJECT", NEW longer \in ModuleRecord, longer.root = module.root,
           longer.source_dirs = IF lines[n + 1].tag = "SOURCE_DIR"
                                THEN Append(module.source_dirs, lines[n + 1].value)
                                ELSE module.source_dirs,
           longer.classpath = IF lines[n + 1].tag = "CLASSPATH_ENTRY"
                              THEN Append(module.classpath, lines[n + 1].value)
                              ELSE module.classpath
    PROVE  Own(longer, lines, from, n + 1)
  <1>1. /\ SubSeq(lines, from, n) \in Seq(LineRecord)
        /\ lines[n + 1] \in LineRecord
        /\ SubSeq(lines, from, n + 1) = Append(SubSeq(lines, from, n), lines[n + 1])
    BY LinesGoOn
  <1>2. \A tag : Tagged(tag, SubSeq(lines, from, n + 1)) =
            IF lines[n + 1].tag = tag THEN Append(Tagged(tag, SubSeq(lines, from, n)), lines[n + 1].value)
            ELSE Tagged(tag, SubSeq(lines, from, n))
    <2> TAKE tag
    <2> DEFINE told == SubSeq(lines, from, n)
               more == SubSeq(lines, from, n + 1)
               line == lines[n + 1]
    <2>1. told \in Seq(LineRecord) /\ line \in LineRecord /\ more = Append(told, line)
      BY <1>1
    <2> HIDE DEF told, more, line
    <2>2. Tagged(tag, more) = IF line.tag = tag THEN Append(Tagged(tag, told), line.value)
                              ELSE Tagged(tag, told)
      BY <2>1, TaggedAppend
    <2> QED
      BY <2>2 DEF told, more, line
  <1>3. \A k \in (from + 1)..(n + 1) : lines[k].tag # "PROJECT"
    <2>1. \A k \in (from + 1)..(n + 1) : k \in (from + 1)..n \/ k = n + 1
      OBVIOUS
    <2> QED
      BY <2>1 DEF Own
  <1>4. longer.source_dirs = Tagged("SOURCE_DIR", SubSeq(lines, from, n + 1))
    BY <1>2 DEF Own
  <1>5. longer.classpath = Tagged("CLASSPATH_ENTRY", SubSeq(lines, from, n + 1))
    BY <1>2 DEF Own
  <1> QED
    BY <1>3, <1>4, <1>5 DEF Own

\* One line more, of the first ones.
LEMMA TaggedFirst ==
    ASSUME NEW lines \in Seq(LineRecord), NEW n \in Nat, n < Len(lines), NEW tag
    PROVE  /\ Tagged(tag, SubSeq(lines, 1, n)) \in Seq(Value)
           /\ lines[n + 1] \in LineRecord
           /\ Tagged(tag, SubSeq(lines, 1, n + 1)) =
                 IF lines[n + 1].tag = tag
                 THEN Append(Tagged(tag, SubSeq(lines, 1, n)), lines[n + 1].value)
                 ELSE Tagged(tag, SubSeq(lines, 1, n))
  <1> DEFINE told == SubSeq(lines, 1, n)
             more == SubSeq(lines, 1, n + 1)
             line == lines[n + 1]
  <1>1. told \in Seq(LineRecord) /\ line \in LineRecord /\ more = Append(told, line)
    <2>1. 1 \in 1..Len(lines) /\ 1 <= n + 1
      BY LenProperties
    <2> QED
      BY <2>1, LinesGoOn
  <1> HIDE DEF told, more, line
  <1>2. /\ Tagged(tag, told) \in Seq(Value)
        /\ Tagged(tag, more) = IF line.tag = tag THEN Append(Tagged(tag, told), line.value)
                               ELSE Tagged(tag, told)
    BY <1>1, TaggedAppend
  <1> QED
    BY <1>1, <1>2 DEF told, more, line

\* A line that announces a module begins it, and ends the one before.
LEMMA SaysModule ==
    ASSUME NEW lines \in Seq(LineRecord), NEW n \in Nat, n < Len(lines),
           NEW modules \in Seq(ModuleRecord), Says(modules, lines, n), Ends(modules, lines, n),
           lines[n + 1].tag = "PROJECT",
           NEW longer, longer = Append(modules, Module(lines[n + 1].value, <<>>, <<>>))
    PROVE  Says(longer, lines, n + 1) /\ Ends(longer, lines, n + 1)
  <1> DEFINE value == lines[n + 1].value
             module == Module(value, <<>>, <<>>)
             N == Len(modules)
  <1>1. module \in ModuleRecord /\ value \in Dir
    <2>1. lines[n + 1] \in LineRecord
      BY TaggedFirst
    <2>2. value \in Dir
      BY <2>1 DEF LineRecord
    <2>3. <<>> \in Seq(Dir) /\ <<>> \in Seq(Entry)
      BY EmptySeq
    <2> QED
      BY <2>2, <2>3 DEF Module, ModuleRecord
  <1>2. module.root = value /\ module.source_dirs = <<>> /\ module.classpath = <<>>
    BY DEF Module
  <1>3. /\ N \in Nat /\ longer \in Seq(ModuleRecord) /\ Len(longer) = N + 1
        /\ \A i \in 1..N : longer[i] = modules[i]
        /\ longer[N + 1] = module
    <2> HIDE DEF module
    <2> QED
      BY <1>1, AppendProperties, LenProperties DEF module
  <1>4. Own(module, lines, n + 1, n + 1)
    <2>1. n + 1 \in 1..Len(lines)
      BY LenProperties
    <2> QED
      BY <2>1, OwnFirst
  <1> HIDE DEF module, N, value
  <1>5. Ends(longer, lines, n + 1)
    <2> SUFFICES ASSUME NEW i \in 1..Len(longer)
                 PROVE  \E from \in 1..(n + 1) : \E to \in from..(n + 1) :
                            /\ Own(longer[i], lines, from, to)
                            /\ i = Len(longer) => to = n + 1
                            /\ i # Len(longer) => to < n + 1 /\ lines[to + 1].tag = "PROJECT"
      BY DEF Ends
    <2>1. CASE i = N + 1
      <3>1. n + 1 \in 1..(n + 1) /\ n + 1 \in (n + 1)..(n + 1)
        OBVIOUS
      <3> QED
        BY <1>3, <1>4, <2>1, <3>1
    <2>2. CASE i # N + 1
      <3>1. i \in 1..N /\ longer[i] = modules[i] /\ i # Len(longer)
        BY <1>3, <2>2
      <3>2. PICK from \in 1..n : \E to \in from..n :
                /\ Own(modules[i], lines, from, to)
                /\ i = N => to = n
                /\ i # N => to < n /\ lines[to + 1].tag = "PROJECT"
        BY <3>1 DEF Ends, N
      <3>3. PICK to \in from..n :
                /\ Own(modules[i], lines, from, to)
                /\ i = N => to = n
                /\ i # N => to < n /\ lines[to + 1].tag = "PROJECT"
        BY <3>2
      <3>4. from \in 1..(n + 1) /\ to \in from..(n + 1) /\ to < n + 1
        OBVIOUS
      <3>5. lines[to + 1].tag = "PROJECT"
        BY <3>3
      <3>6. Own(longer[i], lines, from, to)
        BY <3>1, <3>3
      <3> QED
        BY <3>1, <3>4, <3>5, <3>6
    <2> QED
      BY <2>1, <2>2
  <1> DEFINE r == RootsOf(modules)
             s == SourceDirsOf(modules)
             c == EntriesOf(modules)
  <1>6. /\ RootsOf(longer) = Append(r, value) /\ r \in Seq(Dir)
        /\ SourceDirsOf(longer) = Append(s, <<>>) /\ s \in Seq(Seq(Dir))
        /\ EntriesOf(longer) = Append(c, <<>>) /\ c \in Seq(Seq(Entry))
    <2>1. /\ r \in Seq(Dir) /\ Len(r) = N /\ \A i \in 1..N : r[i] = modules[i].root
          /\ s \in Seq(Seq(Dir)) /\ Len(s) = N /\ \A i \in 1..N : s[i] = modules[i].source_dirs
          /\ c \in Seq(Seq(Entry)) /\ Len(c) = N /\ \A i \in 1..N : c[i] = modules[i].classpath
      BY FieldTypes DEF N
    <2>2. /\ RootsOf(longer) \in Seq(Dir) /\ Len(RootsOf(longer)) = N + 1
          /\ \A i \in 1..(N + 1) : RootsOf(longer)[i] = longer[i].root
          /\ SourceDirsOf(longer) \in Seq(Seq(Dir)) /\ Len(SourceDirsOf(longer)) = N + 1
          /\ \A i \in 1..(N + 1) : SourceDirsOf(longer)[i] = longer[i].source_dirs
          /\ EntriesOf(longer) \in Seq(Seq(Entry)) /\ Len(EntriesOf(longer)) = N + 1
          /\ \A i \in 1..(N + 1) : EntriesOf(longer)[i] = longer[i].classpath
      BY <1>3, FieldTypes
    <2> HIDE DEF r, s, c
    <2>3. ASSUME NEW S, NEW a \in Seq(S), Len(a) = N, NEW e \in S, NEW b \in Seq(S),
                 Len(b) = N + 1, \A i \in 1..N : b[i] = a[i], b[N + 1] = e
          PROVE  b = Append(a, e)
      <3> DEFINE t == Append(a, e)
      <3>1. t \in Seq(S) /\ Len(t) = N + 1 /\ t[N + 1] = e /\ \A i \in 1..N : t[i] = a[i]
        BY <2>3, AppendProperties
      <3> HIDE DEF t
      <3>2. \A i \in 1..(N + 1) : i \in 1..N \/ i = N + 1
        BY <1>3
      <3>3. \A i \in 1..Len(b) : b[i] = t[i]
        BY <2>3, <3>1, <3>2
      <3>4. b = t
        BY <2>3, <3>1, <3>3, SeqEqual
      <3> QED
        BY <3>4 DEF t
    <2>4. N + 1 \in 1..(N + 1) /\ \A i \in 1..N : i \in 1..(N + 1)
      BY <1>3
    <2>5. RootsOf(longer) = Append(r, value)
      <3> DEFINE b == RootsOf(longer)
      <3>1. b \in Seq(Dir) /\ Len(b) = N + 1 /\ \A i \in 1..(N + 1) : b[i] = longer[i].root
        BY <2>2
      <3>2. r \in Seq(Dir) /\ Len(r) = N /\ \A i \in 1..N : r[i] = modules[i].root
        BY <2>1
      <3> HIDE DEF b
      <3>3. b[N + 1] = value
        BY <1>2, <1>3, <2>4, <3>1
      <3>4. \A i \in 1..N : b[i] = r[i]
        BY <1>3, <2>4, <3>1, <3>2
      <3>5. b = Append(r, value)
        BY <1>1, <2>3, <3>1, <3>2, <3>3, <3>4
      <3> QED
        BY <3>5 DEF b
    <2>6. SourceDirsOf(longer) = Append(s, <<>>)
      <3>1. /\ SourceDirsOf(longer)[N + 1] = <<>>
            /\ \A i \in 1..N : SourceDirsOf(longer)[i] = s[i]
        BY <1>2, <1>3, <2>1, <2>2, <2>4
      <3>2. <<>> \in Seq(Dir)
        BY EmptySeq
      <3> QED
        BY <2>1, <2>2, <2>3, <3>1, <3>2
    <2>7. EntriesOf(longer) = Append(c, <<>>)
      <3>1. EntriesOf(longer)[N + 1] = <<>> /\ \A i \in 1..N : EntriesOf(longer)[i] = c[i]
        BY <1>2, <1>3, <2>1, <2>2, <2>4
      <3>2. <<>> \in Seq(Entry)
        BY EmptySeq
      <3> QED
        BY <2>1, <2>2, <2>3, <3>1, <3>2
    <2> QED
      BY <2>1, <2>5, <2>6, <2>7
  <1>7. /\ FlattenSeq(SourceDirsOf(longer)) = FlattenSeq(s)
        /\ FlattenSeq(EntriesOf(longer)) = FlattenSeq(c)
    <2> HIDE DEF s, c
    <2>1. ASSUME NEW C, NEW a \in Seq(Seq(C)) PROVE FlattenSeq(Append(a, <<>>)) = FlattenSeq(a)
      <3>1. <<>> \in Seq(C)
        BY EmptySeq
      <3>2. FlattenSeq(a) \in Seq(C) /\ FlattenSeq(Append(a, <<>>)) = FlattenSeq(a) \o <<>>
        BY <2>1, <3>1, FlattenAppend
      <3> QED
        BY <3>2, ConcatEmptySeq
    <2> QED
      BY <1>6, <2>1
  <1>8. longer # <<>>
    BY <1>3, EmptySeq
  <1>9. Says(longer, lines, n + 1)
    <2>1. /\ Tagged("PROJECT", SubSeq(lines, 1, n + 1)) =
                Append(Tagged("PROJECT", SubSeq(lines, 1, n)), value)
          /\ Tagged("SOURCE_DIR", SubSeq(lines, 1, n + 1)) =
                Tagged("SOURCE_DIR", SubSeq(lines, 1, n))
          /\ Tagged("CLASSPATH_ENTRY", SubSeq(lines, 1, n + 1)) =
                Tagged("CLASSPATH_ENTRY", SubSeq(lines, 1, n))
      BY TaggedFirst DEF value
    <2>2. /\ r = Tagged("PROJECT", SubSeq(lines, 1, n))
          /\ FlattenSeq(s) = Tagged("SOURCE_DIR", SubSeq(lines, 1, n))
          /\ FlattenSeq(c) = Tagged("CLASSPATH_ENTRY", SubSeq(lines, 1, n))
      BY DEF Says
    <2> HIDE DEF r, s, c
    <2> QED
      BY <1>6, <1>7, <1>8, <2>1, <2>2 DEF Says
  <1> QED
    BY <1>5, <1>9

\* A line that announces none goes to the module announced last.
LEMMA SaysMore ==
    ASSUME NEW lines \in Seq(LineRecord), NEW n \in Nat, n < Len(lines),
           NEW modules \in Seq(ModuleRecord), Says(modules, lines, n), Ends(modules, lines, n),
           lines[n + 1].tag # "PROJECT", NEW last, last = Len(modules), last # 0,
           NEW module \in ModuleRecord, module.root = modules[last].root,
           module.source_dirs = IF lines[n + 1].tag = "SOURCE_DIR"
                                THEN Append(modules[last].source_dirs, lines[n + 1].value)
                                ELSE modules[last].source_dirs,
           module.classpath = IF lines[n + 1].tag = "CLASSPATH_ENTRY"
                              THEN Append(modules[last].classpath, lines[n + 1].value)
                              ELSE modules[last].classpath,
           NEW longer, longer = [modules EXCEPT ![last] = module]
    PROVE  Says(longer, lines, n + 1) /\ Ends(longer, lines, n + 1)
  <1> DEFINE line == lines[n + 1]
             value == line.value
             N == Len(modules)
  <1>1. N \in Nat /\ N = last /\ N \in 1..N /\ modules[N] \in ModuleRecord
    <2>1. N \in Nat /\ N # 0
      BY LenProperties
    <2> QED
      BY <2>1, ElementOfSeq
  <1>2. line \in LineRecord
    BY TaggedFirst
  <1>3. /\ longer \in Seq(ModuleRecord) /\ Len(longer) = N
        /\ \A i \in 1..N : i # N => longer[i] = modules[i]
        /\ longer[N] = module
    BY <1>1, ExceptSeq
  <1> HIDE DEF N, line, value
  <1>4. Ends(longer, lines, n + 1)
    <2> SUFFICES ASSUME NEW i \in 1..Len(longer)
                 PROVE  \E from \in 1..(n + 1) : \E to \in from..(n + 1) :
                            /\ Own(longer[i], lines, from, to)
                            /\ i = Len(longer) => to = n + 1
                            /\ i # Len(longer) => to < n + 1 /\ lines[to + 1].tag = "PROJECT"
      BY DEF Ends
    <2>1. i \in 1..N
      BY <1>3
    <2>2. PICK from \in 1..n : \E to \in from..n :
              /\ Own(modules[i], lines, from, to)
              /\ i = N => to = n
              /\ i # N => to < n /\ lines[to + 1].tag = "PROJECT"
      BY <2>1 DEF Ends, N
    <2>3. PICK to \in from..n :
              /\ Own(modules[i], lines, from, to)
              /\ i = N => to = n
              /\ i # N => to < n /\ lines[to + 1].tag = "PROJECT"
      BY <2>2
    <2>4. CASE i = N
      <3>1. Own(modules[N], lines, from, n)
        BY <2>3, <2>4
      <3>2. from \in 1..Len(lines) /\ from <= n
        BY LenProperties
      <3>3. Own(module, lines, from, n + 1)
        BY <1>1, <3>1, <3>2, OwnGoesOn
      <3>4. from \in 1..(n + 1) /\ n + 1 \in from..(n + 1)
        BY <3>2
      <3> QED
        BY <1>3, <2>4, <3>3, <3>4
    <2>5. CASE i # N
      <3>1. longer[i] = modules[i] /\ i # Len(longer)
        BY <1>3, <2>1, <2>5
      <3>2. from \in 1..(n + 1) /\ to \in from..(n + 1) /\ to < n + 1
        OBVIOUS
      <3>3. lines[to + 1].tag = "PROJECT"
        BY <2>3, <2>5
      <3>4. Own(longer[i], lines, from, to)
        BY <2>3, <3>1
      <3> QED
        BY <3>1, <3>2, <3>3, <3>4
    <2> QED
      BY <2>4, <2>5
  <1> DEFINE r == RootsOf(modules)
             s == SourceDirsOf(modules)
             c == EntriesOf(modules)
  <1>5. /\ r \in Seq(Dir) /\ Len(r) = N /\ \A i \in 1..N : r[i] = modules[i].root
        /\ s \in Seq(Seq(Dir)) /\ Len(s) = N /\ \A i \in 1..N : s[i] = modules[i].source_dirs
        /\ c \in Seq(Seq(Entry)) /\ Len(c) = N /\ \A i \in 1..N : c[i] = modules[i].classpath
    BY FieldTypes DEF N
  <1>6. /\ RootsOf(longer) \in Seq(Dir) /\ Len(RootsOf(longer)) = N
        /\ \A i \in 1..N : RootsOf(longer)[i] = longer[i].root
        /\ SourceDirsOf(longer) \in Seq(Seq(Dir)) /\ Len(SourceDirsOf(longer)) = N
        /\ \A i \in 1..N : SourceDirsOf(longer)[i] = longer[i].source_dirs
        /\ EntriesOf(longer) \in Seq(Seq(Entry)) /\ Len(EntriesOf(longer)) = N
        /\ \A i \in 1..N : EntriesOf(longer)[i] = longer[i].classpath
    BY <1>3, FieldTypes
  <1> DEFINE rs == RootsOf(longer)
             ss == SourceDirsOf(longer)
             cs == EntriesOf(longer)
  <1>7. rs = r
    <2>1. rs \in Seq(Dir) /\ Len(rs) = N /\ \A i \in 1..N : rs[i] = longer[i].root
      BY <1>6
    <2>2. r \in Seq(Dir) /\ Len(r) = N /\ \A i \in 1..N : r[i] = modules[i].root
      BY <1>5
    <2> HIDE DEF r, rs
    <2>3. \A i \in 1..N : rs[i] = r[i]
      <3> TAKE i \in 1..N
      <3>1. longer[i].root = modules[i].root
        BY <1>1, <1>3
      <3> QED
        BY <2>1, <2>2, <3>1
    <2> QED
      BY <2>1, <2>2, <2>3, SeqEqual
  <1>8. FlattenSeq(ss) = IF line.tag = "SOURCE_DIR" THEN Append(FlattenSeq(s), value)
                         ELSE FlattenSeq(s)
    <2>1. ss \in Seq(Seq(Dir)) /\ Len(ss) = N /\ \A i \in 1..N : ss[i] = longer[i].source_dirs
      BY <1>6
    <2>2. s \in Seq(Seq(Dir)) /\ Len(s) = N /\ \A i \in 1..N : s[i] = modules[i].source_dirs
      BY <1>5
    <2> HIDE DEF s, ss
    <2>3. \A i \in 1..N : i # N => ss[i] = s[i]
      <3> SUFFICES ASSUME NEW i \in 1..N, i # N PROVE ss[i] = s[i]
        OBVIOUS
      <3>1. longer[i] = modules[i]
        BY <1>3
      <3>2. ss[i] = longer[i].source_dirs /\ s[i] = modules[i].source_dirs
        BY <2>1, <2>2
      <3> QED
        BY <3>1, <3>2
    <2>4. ss[N] = IF line.tag = "SOURCE_DIR" THEN Append(s[N], value) ELSE s[N]
      <3>1. ss[N] = module.source_dirs /\ s[N] = modules[last].source_dirs
        BY <1>1, <1>3, <2>1, <2>2
      <3> QED
        BY <3>1 DEF line, value
    <2>5. CASE line.tag = "SOURCE_DIR"
      <3>1. value \in Dir
        BY <1>2, <2>5 DEF LineRecord, value
      <3>2. Grown(ss, s, value)
        <4>1. \A i \in 1..(N - 1) : i \in 1..N /\ i # N
          BY <1>1
        <4> QED
          BY <1>1, <2>1, <2>2, <2>3, <2>4, <2>5, <4>1 DEF Grown
      <3>3. FlattenSeq(ss) = Append(FlattenSeq(s), value)
        BY <2>1, <2>2, <3>1, <3>2, FlattenGrows
      <3> QED
        BY <2>5, <3>3
    <2>6. CASE line.tag # "SOURCE_DIR"
      <3>1. \A i \in 1..N : ss[i] = s[i]
        BY <2>3, <2>4, <2>6
      <3>2. ss = s
        BY <2>1, <2>2, <3>1, SeqEqual
      <3> QED
        BY <2>6, <3>2
    <2> QED
      BY <2>5, <2>6
  <1>9. FlattenSeq(cs) = IF line.tag = "CLASSPATH_ENTRY" THEN Append(FlattenSeq(c), value)
                         ELSE FlattenSeq(c)
    <2>1. cs \in Seq(Seq(Entry)) /\ Len(cs) = N /\ \A i \in 1..N : cs[i] = longer[i].classpath
      BY <1>6
    <2>2. c \in Seq(Seq(Entry)) /\ Len(c) = N /\ \A i \in 1..N : c[i] = modules[i].classpath
      BY <1>5
    <2> HIDE DEF c, cs
    <2>3. \A i \in 1..N : i # N => cs[i] = c[i]
      <3> SUFFICES ASSUME NEW i \in 1..N, i # N PROVE cs[i] = c[i]
        OBVIOUS
      <3>1. longer[i] = modules[i]
        BY <1>3
      <3>2. cs[i] = longer[i].classpath /\ c[i] = modules[i].classpath
        BY <2>1, <2>2
      <3> QED
        BY <3>1, <3>2
    <2>4. cs[N] = IF line.tag = "CLASSPATH_ENTRY" THEN Append(c[N], value) ELSE c[N]
      <3>1. cs[N] = module.classpath /\ c[N] = modules[last].classpath
        BY <1>1, <1>3, <2>1, <2>2
      <3> QED
        BY <3>1 DEF line, value
    <2>5. CASE line.tag = "CLASSPATH_ENTRY"
      <3>1. value \in Entry
        BY <1>2, <2>5 DEF LineRecord, value
      <3>2. Grown(cs, c, value)
        <4>1. \A i \in 1..(N - 1) : i \in 1..N /\ i # N
          BY <1>1
        <4> QED
          BY <1>1, <2>1, <2>2, <2>3, <2>4, <2>5, <4>1 DEF Grown
      <3>3. FlattenSeq(cs) = Append(FlattenSeq(c), value)
        BY <2>1, <2>2, <3>1, <3>2, FlattenGrows
      <3> QED
        BY <2>5, <3>3
    <2>6. CASE line.tag # "CLASSPATH_ENTRY"
      <3>1. \A i \in 1..N : cs[i] = c[i]
        BY <2>3, <2>4, <2>6
      <3>2. cs = c
        BY <2>1, <2>2, <3>1, SeqEqual
      <3> QED
        BY <2>6, <3>2
    <2> QED
      BY <2>5, <2>6
  <1>10. longer # <<>>
    BY <1>1, <1>3, EmptySeq
  <1>11. Says(longer, lines, n + 1)
    <2>1. /\ Tagged("PROJECT", SubSeq(lines, 1, n + 1)) = Tagged("PROJECT", SubSeq(lines, 1, n))
          /\ Tagged("SOURCE_DIR", SubSeq(lines, 1, n + 1)) =
                IF line.tag = "SOURCE_DIR"
                THEN Append(Tagged("SOURCE_DIR", SubSeq(lines, 1, n)), value)
                ELSE Tagged("SOURCE_DIR", SubSeq(lines, 1, n))
          /\ Tagged("CLASSPATH_ENTRY", SubSeq(lines, 1, n + 1)) =
                IF line.tag = "CLASSPATH_ENTRY"
                THEN Append(Tagged("CLASSPATH_ENTRY", SubSeq(lines, 1, n)), value)
                ELSE Tagged("CLASSPATH_ENTRY", SubSeq(lines, 1, n))
      BY TaggedFirst DEF value, line
    <2>2. /\ r = Tagged("PROJECT", SubSeq(lines, 1, n))
          /\ FlattenSeq(s) = Tagged("SOURCE_DIR", SubSeq(lines, 1, n))
          /\ FlattenSeq(c) = Tagged("CLASSPATH_ENTRY", SubSeq(lines, 1, n))
      BY DEF Says
    <2>3. Says(longer, lines, n + 1) <=>
              /\ longer = <<>> => n + 1 <= 1
              /\ rs = Tagged("PROJECT", SubSeq(lines, 1, n + 1))
              /\ FlattenSeq(ss) = Tagged("SOURCE_DIR", SubSeq(lines, 1, n + 1))
              /\ FlattenSeq(cs) = Tagged("CLASSPATH_ENTRY", SubSeq(lines, 1, n + 1))
      BY DEF Says
    <2> HIDE DEF r, s, c, rs, ss, cs
    <2> QED
      BY <1>7, <1>8, <1>9, <1>10, <2>1, <2>2, <2>3
  <1> QED
    BY <1>4, <1>11

\* What parse_project_model makes of one line more.
Parsed(modules, line) ==
    LET last == Len(modules)
    IN  CASE line.tag = "PROJECT" -> Append(modules, Module(line.value, <<>>, <<>>))
          [] line.tag = "SOURCE_DIR" /\ last > 0 ->
               [modules EXCEPT ![last].source_dirs = Append(@, line.value)]
          [] line.tag = "CLASSPATH_ENTRY" /\ last > 0 ->
               [modules EXCEPT ![last].classpath = Append(@, line.value)]
          [] OTHER -> modules

\* Before the first line there is no module.
LEMMA SaysNothing ==
    ASSUME NEW lines \in Seq(LineRecord)
    PROVE  Says(<<>>, lines, 0) /\ Ends(<<>>, lines, 0)
  <1>1. SubSeq(lines, 1, 0) = <<>>
    BY SubSeqEmpty, LenProperties
  <1>2. \A tag : Tagged(tag, <<>>) = <<>>
    <2> TAKE tag
    <2>1. <<>> \in Seq(LineRecord) /\ Line("other", Root) \in LineRecord
      BY EmptySeq, RootIsRoot DEF Line, LineRecord
    <2> QED
      BY <2>1, TaggedAppend
  <1> DEFINE none == <<>>
  <1>3. /\ RootsOf(none) = <<>> /\ FlattenSeq(SourceDirsOf(none)) = <<>>
        /\ FlattenSeq(EntriesOf(none)) = <<>> /\ Len(none) = 0
    <2>1. /\ none \in Seq(ModuleRecord) /\ none \in Seq(Seq(Dir)) /\ none \in Seq(Seq(Entry))
          /\ Len(none) = 0
      BY EmptySeq
    <2> HIDE DEF none
    <2>2. /\ Len(RootsOf(none)) = 0 /\ RootsOf(none) \in Seq(Dir)
          /\ Len(SourceDirsOf(none)) = 0 /\ SourceDirsOf(none) \in Seq(Seq(Dir))
          /\ Len(EntriesOf(none)) = 0 /\ EntriesOf(none) \in Seq(Seq(Entry))
      BY <2>1, FieldTypes
    <2>3. RootsOf(none) = <<>> /\ SourceDirsOf(none) = <<>> /\ EntriesOf(none) = <<>>
      BY <2>2, EmptySeq
    <2>4. ASSUME NEW C PROVE FlattenSeq(<<>>) = <<>>
      <3>1. <<>> \in Seq(Seq(C)) /\ <<>> \in Seq(C)
        BY EmptySeq
      <3> QED
        BY <3>1, FlattenAppend
    <2> QED
      BY <2>1, <2>3, <2>4
  <1>4. Says(none, lines, 0)
    <2> DEFINE told == SubSeq(lines, 1, 0)
    <2>1. /\ Tagged("PROJECT", told) = <<>> /\ Tagged("SOURCE_DIR", told) = <<>>
          /\ Tagged("CLASSPATH_ENTRY", told) = <<>>
      BY <1>1, <1>2
    <2> HIDE DEF told, none
    <2>2. Says(none, lines, 0) <=>
              /\ none = <<>> => 0 <= 1
              /\ RootsOf(none) = Tagged("PROJECT", told)
              /\ FlattenSeq(SourceDirsOf(none)) = Tagged("SOURCE_DIR", told)
              /\ FlattenSeq(EntriesOf(none)) = Tagged("CLASSPATH_ENTRY", told)
      BY DEF Says, told
    <2> QED
      BY <1>3, <2>1, <2>2
  <1>5. Ends(none, lines, 0)
    <2> HIDE DEF none
    <2> QED
      BY <1>3 DEF Ends
  <1> QED
    BY <1>4, <1>5

\* A module of which one field is changed keeps the others.
LEMMA FieldChanged ==
    ASSUME NEW m \in ModuleRecord
    PROVE  /\ \A v \in Seq(Dir) : LET g == [m EXCEPT !.source_dirs = v]
                                 IN  /\ g \in ModuleRecord /\ g.root = m.root
                                     /\ g.source_dirs = v /\ g.classpath = m.classpath
           /\ \A v \in Seq(Entry) : LET g == [m EXCEPT !.classpath = v]
                                   IN  /\ g \in ModuleRecord /\ g.root = m.root
                                       /\ g.source_dirs = m.source_dirs /\ g.classpath = v
  BY DEF ModuleRecord

\* The modules of n lines and one line more are the modules of n + 1 lines.
LEMMA SaysParsed ==
    ASSUME NEW lines \in Seq(LineRecord), AreLines(lines), NEW n \in Nat, n < Len(lines),
           NEW modules \in Seq(ModuleRecord), Says(modules, lines, n), Ends(modules, lines, n)
    PROVE  LET longer == Parsed(modules, lines[n + 1])
           IN  Says(longer, lines, n + 1) /\ Ends(longer, lines, n + 1)
  <1> DEFINE line == lines[n + 1]
             last == Len(modules)
             longer == Parsed(modules, line)
  <1>1. CASE line.tag = "PROJECT"
    <2>1. longer = Append(modules, Module(line.value, <<>>, <<>>))
      BY <1>1 DEF Parsed
    <2> QED
      BY <1>1, <2>1, SaysModule
  <1>2. CASE line.tag # "PROJECT" /\ last # 0
    <2> DEFINE m == modules[last]
               Goes(g) == /\ g \in ModuleRecord /\ g.root = m.root
                          /\ g.source_dirs = IF line.tag = "SOURCE_DIR"
                                             THEN Append(m.source_dirs, line.value)
                                             ELSE m.source_dirs
                          /\ g.classpath = IF line.tag = "CLASSPATH_ENTRY"
                                           THEN Append(m.classpath, line.value)
                                           ELSE m.classpath
                          /\ longer = [modules EXCEPT ![last] = g]
    <2>1. last \in 1..last /\ m \in ModuleRecord /\ last > 0
      <3>1. last \in 1..last /\ last > 0
        BY <1>2, LenProperties
      <3> QED
        BY <3>1, ElementOfSeq
    <2>2. line \in LineRecord
      BY TaggedFirst
    <2>3. m.root \in Dir /\ m.source_dirs \in Seq(Dir) /\ m.classpath \in Seq(Entry)
      BY <2>1 DEF ModuleRecord
    <2>4. \E g : Goes(g)
      <3>1. CASE line.tag = "SOURCE_DIR"
        <4> DEFINE v == Append(m.source_dirs, line.value)
                   g == [m EXCEPT !.source_dirs = v]
        <4>1. v \in Seq(Dir)
          <5>1. line.value \in Dir
            BY <2>2, <3>1 DEF LineRecord
          <5> QED
            BY <2>3, <5>1, AppendProperties
        <4>2. longer = [modules EXCEPT ![last] = g]
          BY <2>1, <3>1 DEF Parsed
        <4>3. /\ g \in ModuleRecord /\ g.root = m.root /\ g.source_dirs = v
              /\ g.classpath = m.classpath
          <5> HIDE DEF v, m
          <5> QED
            BY <2>1, <4>1, FieldChanged
        <4> HIDE DEF g, longer, m
        <4>4. Goes(g)
          BY <3>1, <4>2, <4>3
        <4> QED
          BY <4>4
      <3>2. CASE line.tag = "CLASSPATH_ENTRY"
        <4> DEFINE v == Append(m.classpath, line.value)
                   g == [m EXCEPT !.classpath = v]
        <4>1. v \in Seq(Entry)
          <5>1. line.value \in Entry
            BY <2>2, <3>2 DEF LineRecord
          <5> QED
            BY <2>3, <5>1, AppendProperties
        <4>2. longer = [modules EXCEPT ![last] = g]
          BY <2>1, <3>2 DEF Parsed
        <4>3. /\ g \in ModuleRecord /\ g.root = m.root /\ g.source_dirs = m.source_dirs
              /\ g.classpath = v
          <5> HIDE DEF v, m
          <5> QED
            BY <2>1, <4>1, FieldChanged
        <4> HIDE DEF g, longer, m
        <4>4. Goes(g)
          BY <3>2, <4>2, <4>3
        <4> QED
          BY <4>4
      <3>3. CASE line.tag # "SOURCE_DIR" /\ line.tag # "CLASSPATH_ENTRY"
        <4>1. longer = modules
          BY <1>2, <3>3 DEF Parsed
        <4>2. [modules EXCEPT ![last] = m] = modules
          <5>1. modules = [i \in DOMAIN modules |-> modules[i]]
            BY LenProperties
          <5> QED
            BY <5>1
        <4>3. Goes(m)
          BY <2>1, <3>3, <4>1, <4>2
        <4> QED
          BY <4>3
      <3> QED
        BY <3>1, <3>2, <3>3
    <2>5. PICK g : Goes(g)
      BY <2>4
    <2> HIDE DEF longer
    <2> QED
      BY <1>2, <2>5, SaysMore DEF longer
  <1>3. CASE line.tag # "PROJECT" /\ last = 0
    <2>1. modules = <<>> /\ n <= 1
      <3>1. modules = <<>>
        BY <1>3, EmptySeq
      <3> QED
        BY <3>1 DEF Says
    <2>2. n = 0 /\ line.tag = "other"
      <3>1. n = 0 \/ n = 1
        BY <2>1
      <3>2. Len(lines) \in Nat
        BY LenProperties
      <3> QED
        BY <1>3, <3>1, <3>2 DEF AreLines
    <2>3. longer = <<>>
      BY <1>3, <2>1, <2>2 DEF Parsed
    <2>4. \A tag \in {"PROJECT", "SOURCE_DIR", "CLASSPATH_ENTRY"} :
              Tagged(tag, SubSeq(lines, 1, n + 1)) = Tagged(tag, SubSeq(lines, 1, n))
      BY <2>2, TaggedFirst
    <2>5. Says(longer, lines, n + 1)
      BY <2>1, <2>2, <2>3, <2>4 DEF Says
    <2>6. Ends(longer, lines, n + 1)
      <3>1. Len(longer) = 0
        BY <2>3, EmptySeq
      <3> QED
        BY <3>1 DEF Ends
    <2> QED
      BY <2>5, <2>6
  <1> QED
    BY <1>1, <1>2, <1>3

\* A module is announced where its first line is, and only there.
LEMMA AnnouncedOnce ==
    ASSUME NEW lines \in Seq(LineRecord), AreLines(lines), NEW from \in 1..Len(lines),
           lines[from].tag = "PROJECT", NEW first, first = lines[from]
    PROVE  LET I == {i \in 1..Len(lines) : lines[i] = first}
           IN  I # {} /\ Min(I) = from
  <1> DEFINE I == {i \in 1..Len(lines) : lines[i] = first}
  <1>1. I = {from}
    BY DEF AreLines
  <1>2. Min(I) \in I
    <2>1. I \in SUBSET Nat /\ I # {}
      BY <1>1
    <2> HIDE DEF I
    <2> QED
      BY <2>1, MinIsElement
  <1> QED
    BY <1>1, <1>2

\* Where the lines of a module are together, it ends where they do.
LEMMA EndsThere ==
    ASSUME project \in Project, NEW lines \in Seq(LineRecord), AreLines(lines),
           NEW dir \in DOMAIN project.modules, NEW from \in 1..Len(lines), NEW to \in from..Len(lines),
           \A n \in (from + 1)..to : lines[n].tag # "PROJECT",
           to = Len(lines) \/ lines[to + 1].tag = "PROJECT",
           NEW end, end = from + Len(ModuleLines(dir)) - 1, end <= Len(lines),
           SubSeq(lines, from, end) = ModuleLines(dir),
           end = Len(lines) \/ lines[end + 1].tag = "PROJECT"
    PROVE  end = to
  <1> DEFINE own == ModuleLines(dir)
             L == Len(own)
  <1>1. L \in Nat \ {0} /\ \A n \in 1..L : own[n].tag = "PROJECT" => n = 1
    BY LinesSay
  <1>2. Len(lines) \in Nat /\ \A n \in 1..Len(lines) : lines[n] \in LineRecord
    BY LenProperties, ElementOfSeq
  <1> HIDE DEF own, L
  <1>3. /\ end = from + L - 1 /\ end \in Nat /\ from <= end
        /\ from \in Nat /\ to \in Nat /\ from <= to /\ to <= Len(lines)
    <2>1. end = from + L - 1
      BY DEF own, L
    <2>2. from \in Nat /\ to \in Nat /\ from <= to /\ to <= Len(lines)
      BY <1>2
    <2> DEFINE e == from + L - 1
    <2>3. e \in Nat /\ from <= e
      BY <1>1, <2>2
    <2>4. e = end
      BY <2>1
    <2> HIDE DEF e
    <2> QED
      BY <2>1, <2>2, <2>3, <2>4
  <1>4. \A n \in 1..(end - from + 1) : own[n] = lines[from + n - 1]
    <2>1. \A n \in from..end : lines[n] \in LineRecord
      <3> TAKE n \in from..end
      <3>1. n \in 1..Len(lines)
        BY <1>1, <1>2, <1>3
      <3> QED
        BY <1>2, <3>1
    <2>2. from \in Int /\ end \in Int
      BY <1>3
    <2>3. \A n \in 1..(end - from + 1) : SubSeq(lines, from, end)[n] = lines[from + n - 1]
      BY <2>1, <2>2, SubSeqProperties
    <2> QED
      BY <2>3 DEF own
  <1>5. ~(to < end)
    <2> SUFFICES ASSUME to < end PROVE FALSE
      OBVIOUS
    <2>1. lines[to + 1].tag = "PROJECT"
      BY <1>1, <1>2, <1>3
    <2> DEFINE n == to + 1 - from + 1
    <2>2. n \in 1..L /\ n # 1 /\ n \in 1..(end - from + 1) /\ from + n - 1 = to + 1
      BY <1>1, <1>2, <1>3
    <2>3. own[n] = lines[to + 1]
      BY <1>4, <2>2
    <2> QED
      BY <1>1, <2>1, <2>2, <2>3
  <1>6. ~(end < to)
    <2> SUFFICES ASSUME end < to PROVE FALSE
      OBVIOUS
    <2>1. end # Len(lines) /\ end + 1 \in (from + 1)..to
      BY <1>1, <1>2, <1>3
    <2> QED
      BY <2>1
  <1>7. \A a, b \in Nat : ~(a < b) /\ ~(b < a) => b = a
    OBVIOUS
  <1> QED
    BY <1>3, <1>5, <1>6, <1>7

\* Two modules with the same fields are one.
LEMMA ModuleIs ==
    ASSUME NEW m \in ModuleRecord
    PROVE  m = Module(m.root, m.source_dirs, m.classpath)
  BY DEF Module, ModuleRecord

\* The modules of all the lines are those of the project.
LEMMA SaysAll ==
    ASSUME project \in Project, output \in Seq(LineRecord), AreLines(output),
           model \in Seq(ModuleRecord), Says(model, output, Len(output)),
           Ends(model, output, Len(output))
    PROVE  GradleModel
  <1> DEFINE N == Len(output)
  <1>1. /\ SubSeq(output, 1, N) = output /\ N \in Nat
        /\ DOMAIN model = 1..Len(model) /\ \A i \in 1..Len(model) : model[i] \in ModuleRecord
    BY SubSeqFull, LenProperties, ElementOfSeq
  <1>2. /\ [i \in DOMAIN model |-> model[i].root] = Tagged("PROJECT", output)
        /\ FlattenSeq([i \in DOMAIN model |-> model[i].source_dirs]) = Tagged("SOURCE_DIR", output)
        /\ FlattenSeq([i \in DOMAIN model |-> model[i].classpath]) = Tagged("CLASSPATH_ENTRY", output)
    BY <1>1 DEF Says, RootsOf, SourceDirsOf, EntriesOf
  <1>3. ASSUME NEW i \in DOMAIN model
        PROVE  LET lines == ModuleLines(model[i].root)
                   from == SelectInSeq(output, LAMBDA line : line = lines[1])
                   to == from + Len(lines) - 1
               IN  to <= Len(output) /\ SubSeq(output, from, to) = lines
                   /\ (to = Len(output) \/ output[to + 1].tag = "PROJECT")
                   => model[i] = Whole(model[i].root, project.modules[model[i].root])
    <2> DEFINE root == model[i].root
               lines == ModuleLines(root)
               first == lines[1]
               start == SelectInSeq(output, LAMBDA line : line = first)
               end == start + Len(lines) - 1
               whole == Whole(root, project.modules[root])
    <2> SUFFICES ASSUME end <= N, SubSeq(output, start, end) = lines,
                        end = N \/ output[end + 1].tag = "PROJECT"
                 PROVE  model[i] = whole
      OBVIOUS
    <2>1. PICK from \in 1..N : \E to \in from..N :
              /\ Own(model[i], output, from, to)
              /\ i = Len(model) => to = N
              /\ i # Len(model) => to < N /\ output[to + 1].tag = "PROJECT"
      BY <1>1 DEF Ends
    <2>2. PICK to \in from..N :
              /\ Own(model[i], output, from, to)
              /\ i = Len(model) => to = N
              /\ i # Len(model) => to < N /\ output[to + 1].tag = "PROJECT"
      BY <2>1
    <2>3. /\ output[from].tag = "PROJECT" /\ output[from].value = root
          /\ \A n \in (from + 1)..to : output[n].tag # "PROJECT"
          /\ model[i].source_dirs = Tagged("SOURCE_DIR", SubSeq(output, from, to))
          /\ model[i].classpath = Tagged("CLASSPATH_ENTRY", SubSeq(output, from, to))
      BY <2>2 DEF Own
    <2>4. root \in DOMAIN project.modules /\ output[from] = Line("PROJECT", root)
      BY <2>3 DEF AreLines
    <2>5. /\ first = output[from]
          /\ Tagged("SOURCE_DIR", lines) = whole.source_dirs
          /\ Tagged("CLASSPATH_ENTRY", lines) = whole.classpath
      <3> HIDE DEF root
      <3> QED
        BY <2>4, LinesSay
    <2> HIDE DEF first
    <2>6. start = from
      <3> DEFINE I == {n \in 1..Len(output) : output[n] = first}
      <3>1. start = IF I # {} THEN Min(I) ELSE 0
        BY DEF SelectInSeq
      <3>2. I # {} /\ Min(I) = from
        BY <2>3, <2>5, AnnouncedOnce
      <3> HIDE DEF I, start
      <3> QED
        BY <3>1, <3>2
    <2> HIDE DEF start
    <2>7. end = to
      <3> DEFINE last == from + Len(ModuleLines(root)) - 1
      <3>1. /\ last = end /\ last <= Len(output) /\ SubSeq(output, from, last) = ModuleLines(root)
            /\ last = Len(output) \/ output[last + 1].tag = "PROJECT"
        BY <2>6
      <3>2. to = Len(output) \/ output[to + 1].tag = "PROJECT"
        BY <2>2
      <3>3. last = to
        <4> HIDE DEF root
        <4> QED
          BY <2>3, <2>4, <3>1, <3>2, EndsThere
      <3> QED
        BY <3>1, <3>3
    <2>8. SubSeq(output, from, to) = lines
      BY <2>6, <2>7
    <2>9. model[i].source_dirs = whole.source_dirs /\ model[i].classpath = whole.classpath
      <3> HIDE DEF lines, whole
      <3> QED
        BY <2>3, <2>5, <2>8
    <2>10. model[i] = Module(root, model[i].source_dirs, model[i].classpath)
      BY <1>1, ModuleIs
    <2>11. whole = Module(root, whole.source_dirs, whole.classpath)
      BY DEF Whole, Module
    <2> QED
      BY <2>9, <2>10, <2>11
  <1> QED
    BY <1>2, <1>3 DEF GradleModel

(***************************************************************************)
(* What is resolved is the project's.                                      *)
(***************************************************************************)

\* The modules read are those of the first directories, the others are left.
Took(modules, list, left) ==
    /\ Len(modules) + Len(left) = Len(list)
    /\ \A i \in 1..Len(modules) : modules[i] = Whole(list[i], At(list[i]))
    /\ \A j \in 1..Len(left) : left[j] = list[Len(modules) + j]

\* Nothing is resolved before the build tool is detected.
IdleInv == resolution = "idle" => Unresolved

\* Maven's modules: what the poms lead to is collected, then read.
MavenInv ==
    /\ resolution \in {"collect", "read"} => Tool = "maven"
    /\ resolution = "collect" => Collected(dirs, calls) /\ model = <<>>
    /\ resolution = "read" => Collected(dirs, <<>>) /\ Took(model, dirs, todo)
    /\ resolution = "done" /\ Tool = "maven" => Collected(dirs, <<>>) /\ Took(model, dirs, <<>>)

\* Gradle's modules say what is parsed of what it printed.
Parsing ==
    /\ AreLines(output) /\ parsed <= Len(output)
    /\ Says(model, output, parsed) /\ Ends(model, output, parsed)
GradleInv ==
    /\ resolution \in {"run_gradle", "parse"} => Tool = "gradle"
    /\ resolution = "run_gradle" => model = <<>> /\ parsed = 0
    /\ resolution = "parse" => Parsing
    /\ resolution = "done" /\ Tool = "gradle" => Parsing /\ parsed = Len(output)

ModelInv == IdleInv /\ MavenInv /\ GradleInv

\* All this depends on the project alone.
LEMMA ProjectSame ==
    ASSUME project' = project
    PROVE  /\ Tool' = Tool
           /\ \A a, b : Collected(a, b)' <=> Collected(a, b)
           /\ \A a, b, c : Took(a, b, c)' <=> Took(a, b, c)
           /\ \A a : AreLines(a)' <=> AreLines(a)
  <1>1. Tool' = Tool
    BY DEF Tool
  <1>2. /\ \A x : Exists(x)' <=> Exists(x)
        /\ \A x : At(x)' = At(x)
    BY DEF Exists, At
  <1>3. \A paths : Within(paths)' = Within(paths)
    BY DEF Within, Named, Join, Exists, At, Physical, Below
  <1>4. PomPaths' = PomPaths /\ (NamedOnce' <=> NamedOnce)
    <2>1. PomPaths' = PomPaths
      BY <1>3 DEF PomPaths
    <2>2. \A way : Led(way)' = Led(way)
      BY <1>2 DEF Led
    <2>3. Ways' = Ways
      BY <1>2, <2>1, <2>2 DEF Ways
    <2> QED
      BY <2>1, <2>2, <2>3 DEF NamedOnce
  <1>5. \A a, b : Collected(a, b)' <=> Collected(a, b)
    <2>1. \A x, list : Comes(x, list)' <=> Comes(x, list)
      BY <1>2 DEF Comes
    <2>2. \A list : Single(list)' <=> Single(list)
      BY <1>2 DEF Single
    <2> TAKE a, b
    <2> QED
      BY <1>2, <1>3, <1>4, <2>1, <2>2 DEF Collected
  <1>6. \A a, b, c : Took(a, b, c)' <=> Took(a, b, c)
    BY <1>2 DEF Took
  <1>7. \A a : AreLines(a)' <=> AreLines(a)
    BY DEF AreLines
  <1> QED
    BY <1>1, <1>5, <1>6, <1>7

\* The root is where Maven's modules come from.
LEMMA CollectedFirst ==
    ASSUME project \in Project, Tool = "maven"
    PROVE  Collected(<<>>, <<Call(Root, 0)>>)
  <1> DEFINE left == <<Call(Root, 0)>>
  <1>1. ToSet(<<>>) = {} /\ ToSet(left) = {Call(Root, 0)}
    BY DEF ToSet
  <1>2. Dirs(left) = <<Root>>
    BY DEF Dirs, Call
  <1>3. ToSet(<<Root>>) = {Root} /\ Comes(Root, <<>>)
    BY DEF ToSet, Comes
  <1>4. Call(Root, 0).dir = Root /\ Call(Root, 0).depth = 0
    BY DEF Call
  <1>5. Root \in Within({Root})[0]
    BY RootOpened, WithinPaths
  <1>6. Single(<<>> \o <<Root>>)
    <2>1. <<>> \o <<Root>> = <<Root>> /\ DOMAIN <<Root>> = {1}
      OBVIOUS
    <2> DEFINE one == <<Root>>
    <2> HIDE DEF one
    <2>2. DOMAIN one = {1} => Single(one)
      BY DEF Single
    <2> QED
      BY <2>1, <2>2 DEF one
  <1> HIDE DEF left
  <1>7. \A c \in ToSet(left) :
            Exists(c.dir) /\ c.depth <= MaxDepth => c.dir \in Within({Root})[c.depth]
    BY <1>1, <1>4, <1>5
  <1>8. Collected(<<>>, left)
    BY <1>1, <1>2, <1>3, <1>6, <1>7 DEF Collected
  <1> QED
    BY <1>8 DEF left

\* A module read is the next directory's.
LEMMA TookOne ==
    ASSUME NEW modules \in Seq(ModuleRecord), NEW list \in Seq(Dir), NEW left \in Seq(Dir),
           left # <<>>, Took(modules, list, left), Exists(Head(left)), NEW module \in ModuleRecord,
           module = Module(Head(left), StandardSourceDirs(Head(left)), At(Head(left)).classpath)
    PROVE  Took(Append(modules, module), list, Tail(left))
  <1> DEFINE more == Append(modules, module)
             rest == Tail(left)
             N == Len(modules)
             M == Len(left)
  <1>1. /\ more \in Seq(ModuleRecord) /\ Len(more) = N + 1 /\ more[N + 1] = module
        /\ \A i \in 1..N : more[i] = modules[i]
    BY AppendProperties
  <1>2. /\ Head(left) = left[1] /\ rest \in Seq(Dir) /\ Len(rest) = M - 1
        /\ \A j \in 1..Len(rest) : rest[j] = left[j + 1]
    BY HeadTailProperties
  <1>3. N \in Nat /\ M \in Nat /\ M # 0
    BY LenProperties, EmptySeq
  <1>4. module = Whole(Head(left), At(Head(left)))
    BY DEF Whole, StandardSourceDirs
  <1> HIDE DEF more, rest, N, M
  <1>5. /\ N + M = Len(list)
        /\ \A i \in 1..N : modules[i] = Whole(list[i], At(list[i]))
        /\ \A j \in 1..M : left[j] = list[N + j]
    BY DEF Took, N, M
  <1>6. Len(more) + Len(rest) = Len(list)
    BY <1>1, <1>2, <1>3, <1>5
  <1>7. ASSUME NEW i \in 1..Len(more) PROVE more[i] = Whole(list[i], At(list[i]))
    <2>1. CASE i = N + 1
      <3>1. Head(left) = list[i]
        BY <1>2, <1>3, <1>5, <2>1
      <3> QED
        BY <1>1, <1>4, <2>1, <3>1
    <2>2. CASE i # N + 1
      <3>1. i \in 1..N
        BY <1>1, <1>3, <2>2
      <3> QED
        BY <1>1, <1>5, <3>1
    <2> QED
      BY <2>1, <2>2
  <1>8. ASSUME NEW j \in 1..Len(rest) PROVE rest[j] = list[Len(more) + j]
    <2>1. j + 1 \in 1..M /\ N + (j + 1) = Len(more) + j
      BY <1>1, <1>2, <1>3
    <2> QED
      BY <1>2, <1>5, <2>1
  <1> QED
    BY <1>6, <1>7, <1>8 DEF Took, more, rest

\* No step of the resolution changes the project.
LEMMA ResolveKeepsProject == Resolve => project' = project
  BY DEF Resolve, Detect, CollectModule, Overflow, RunMaven, ReadModule, EndMaven, RunGradle,
         ParseLine, EndGradle

\* The invariant holds of a start that has resolved nothing.
LEMMA ModelInit == Init => ModelInv
  BY DEF Init, Unresolved, ModelInv, IdleInv, MavenInv, GradleInv

\* Every step of the resolution keeps Maven's part of the invariant.
LEMMA MavenStep ==
    ASSUME ResolveInv, IdleInv, MavenInv, GradleInv, Resolve
    PROVE  MavenInv'
  <1>0. /\ project \in Project /\ todo \in Seq(Dir) /\ dirs \in Seq(Dir)
        /\ calls \in Seq(CallRecord)
        /\ model \in Seq(ModuleRecord)
    BY DEF ResolveInv
  <1>1. project' = project
    BY ResolveKeepsProject
  <1>2. /\ Tool' = Tool
        /\ \A a, b : Collected(a, b)' <=> Collected(a, b)
        /\ \A a, b, c : Took(a, b, c)' <=> Took(a, b, c)
    BY <1>1, ProjectSame
  <1>3. CASE Detect
    <2>1. /\ resolution = "idle" /\ dirs = <<>> /\ model = <<>> /\ dirs' = dirs
      BY <1>3 DEF Detect, IdleInv, Unresolved
    <2>2. \/ Tool = "gradle" /\ resolution' = "run_gradle"
          \/ /\ Tool = "maven" /\ resolution' = "collect"
             /\ calls' = <<Call(Root, 0)>> /\ model' = model
          \/ Tool = "none" /\ resolution' = "done"
      BY <1>3 DEF Detect, Tool
    <2>3. CASE resolution' = "collect"
      <3>1. Tool = "maven" /\ calls' = <<Call(Root, 0)>> /\ model' = <<>> /\ dirs' = <<>>
        BY <2>1, <2>2, <2>3
      <3>2. Collected(dirs', calls')
        BY <1>0, <3>1, CollectedFirst
      <3>3. Collected(dirs, calls)'
        BY <1>2, <3>2
      <3> QED
        BY <1>2, <2>3, <3>1, <3>3 DEF MavenInv
    <2>4. CASE resolution' # "collect"
      BY <1>2, <2>2, <2>4 DEF MavenInv
    <2> QED
      BY <2>3, <2>4
  <1>4. CASE CollectModule
    <2> DEFINE call == Head(calls)
    <2>1. /\ resolution = "collect" /\ resolution' = "collect" /\ model' = model
          /\ calls # <<>> /\ call.depth <= MaxDepth
          /\ Collected(dirs, calls) /\ model = <<>> /\ Tool = "maven"
      BY <1>4 DEF CollectModule, MavenInv
    <2>2. Collected(dirs', calls')
      <3>1. CASE ~Exists(call.dir)
        <4>1. calls' = Tail(calls) /\ dirs' = dirs
          BY <1>4, <3>1 DEF CollectModule
        <4>2. Collected(dirs, Tail(calls))
          BY <1>0, <2>1, <3>1, CollectNone
        <4> QED
          BY <4>1, <4>2
      <3>2. CASE Exists(call.dir)
        <4>1. calls' = CallsBelow(call) \o Tail(calls) /\ dirs' = Append(dirs, call.dir)
          BY <1>4, <3>2 DEF CollectModule
        <4>2. Collected(Append(dirs, call.dir), CallsBelow(call) \o Tail(calls))
          BY <1>0, <2>1, <3>2, CollectOne
        <4> QED
          BY <4>1, <4>2
      <3> QED
        BY <3>1, <3>2
    <2>3. Collected(dirs, calls)'
      BY <1>2, <2>2
    <2> QED
      BY <1>2, <2>1, <2>3 DEF MavenInv
  <1>5. CASE RunMaven
    <2>1. /\ resolution = "collect" /\ calls = <<>> /\ dirs' = dirs /\ model' = model
          /\ Collected(dirs, calls) /\ model = <<>> /\ Tool = "maven"
          /\ \/ resolution' = "read" /\ todo' = dirs
             \/ resolution' = "failed"
      BY <1>5 DEF RunMaven, MavenInv
    <2>2. CASE resolution' = "failed"
      BY <1>2, <2>2 DEF MavenInv
    <2>3. CASE resolution' = "read" /\ todo' = dirs
      <3>1. Took(<<>>, dirs, dirs)
        <4> DEFINE none == <<>>
        <4>1. Len(none) = 0 /\ Len(dirs) \in Nat
          BY <1>0, LenProperties
        <4> HIDE DEF none
        <4>2. Took(none, dirs, dirs)
          BY <4>1 DEF Took
        <4> QED
          BY <4>2 DEF none
      <3>2. Took(model', dirs', todo') /\ Collected(dirs', <<>>)
        BY <2>1, <2>3, <3>1
      <3>3. Took(model, dirs, todo)' /\ Collected(dirs, <<>>)'
        BY <1>2, <3>2
      <3> QED
        BY <1>2, <2>1, <2>3, <3>3 DEF MavenInv
    <2> QED
      BY <2>1, <2>2, <2>3
  <1>6. CASE ReadModule
    <2> DEFINE module == Module(Head(todo), StandardSourceDirs(Head(todo)),
                                At(Head(todo)).classpath)
    <2>1. /\ resolution = "read" /\ resolution' = "read" /\ todo # <<>> /\ dirs' = dirs
          /\ todo' = Tail(todo) /\ model' = Append(model, module)
          /\ Collected(dirs, <<>>) /\ Took(model, dirs, todo) /\ Tool = "maven"
      BY <1>6 DEF ReadModule, MavenInv
    <2>2. Exists(Head(todo)) /\ Head(todo) \in Dir
      BY <1>0, <2>1, RestExists DEF ResolveInv
    <2>3. module \in ModuleRecord
      BY <1>0, <2>2, ModuleAt, SourceDirsType, ModuleType
    <2> DEFINE new == module
    <2>4. /\ new \in ModuleRecord
          /\ new = Module(Head(todo), StandardSourceDirs(Head(todo)), At(Head(todo)).classpath)
          /\ model' = Append(model, new)
      BY <2>1, <2>3
    <2> HIDE DEF new
    <2>5. Took(Append(model, new), dirs, Tail(todo))
      BY <1>0, <2>1, <2>2, <2>4, TookOne
    <2>6. Took(model', dirs', todo') /\ Collected(dirs', <<>>)
      BY <2>1, <2>4, <2>5
    <2>7. Took(model, dirs, todo)' /\ Collected(dirs, <<>>)'
      BY <1>2, <2>6
    <2> QED
      BY <1>2, <2>1, <2>7 DEF MavenInv
  <1>7. CASE EndMaven
    <2>1. /\ resolution = "read" /\ resolution' = "done" /\ todo = <<>> /\ dirs' = dirs
          /\ model' = model /\ Collected(dirs, <<>>) /\ Took(model, dirs, todo)
      BY <1>7 DEF EndMaven, MavenInv
    <2>2. Took(model', dirs', <<>>) /\ Collected(dirs', <<>>)
      BY <2>1
    <2>3. Took(model, dirs, <<>>)' /\ Collected(dirs, <<>>)'
      BY <1>2, <2>2
    <2> QED
      BY <2>1, <2>3 DEF MavenInv
  <1>8. ASSUME resolution' \in {"aborted", "parse", "failed"} PROVE MavenInv'
    BY <1>8 DEF MavenInv
  <1>9. CASE RunGradle
    BY <1>8, <1>9 DEF RunGradle
  <1>10. CASE ParseLine
    BY <1>8, <1>10 DEF ParseLine
  <1>11. CASE EndGradle
    <2>1. resolution' = "done" /\ Tool = "gradle"
      BY <1>11 DEF EndGradle, GradleInv
    <2> QED
      BY <1>2, <2>1 DEF MavenInv
  <1>12. CASE Overflow
    BY <1>8, <1>12 DEF Overflow
  <1> QED
    BY <1>3, <1>4, <1>5, <1>6, <1>7, <1>9, <1>10, <1>11, <1>12 DEF Resolve

\* And Gradle's.
LEMMA GradleStep ==
    ASSUME ResolveInv, IdleInv, MavenInv, GradleInv, Resolve
    PROVE  GradleInv'
  <1>0. /\ project \in Project /\ output \in Seq(LineRecord) /\ parsed \in Nat
        /\ model \in Seq(ModuleRecord)
    BY DEF ResolveInv
  <1>1. project' = project
    BY ResolveKeepsProject
  <1>2. /\ Tool' = Tool
        /\ \A a : AreLines(a)' <=> AreLines(a)
    BY <1>1, ProjectSame
  <1>3. CASE Detect
    <2>1. resolution = "idle" /\ model = <<>> /\ parsed = 0 /\ parsed' = parsed
      BY <1>3 DEF Detect, IdleInv, Unresolved
    <2>2. \/ Tool = "gradle" /\ resolution' = "run_gradle" /\ model' = model
          \/ Tool = "maven" /\ resolution' = "collect"
          \/ Tool = "none" /\ resolution' = "done"
      BY <1>3 DEF Detect, Tool
    <2> QED
      BY <1>2, <2>1, <2>2 DEF GradleInv
  <1>4. CASE RunGradle
    <2>1. /\ resolution = "run_gradle" /\ Tool = "gradle" /\ model = <<>> /\ parsed = 0
          /\ model' = model /\ parsed' = parsed
          /\ \/ resolution' = "failed"
             \/ /\ resolution' = "parse"
                /\ \E lines \in Printed : output' = <<Line("other", Root)>> \o lines
      BY <1>4 DEF RunGradle, GradleInv
    <2>2. CASE resolution' = "failed"
      BY <2>2 DEF GradleInv
    <2>3. CASE resolution' # "failed"
      <3>1. PICK lines \in Printed : output' = <<Line("other", Root)>> \o lines
        BY <2>1, <2>3
      <3>2. AreLines(output')
        BY <1>0, <3>1, PrintedLines
      <3>3. output' \in Seq(LineRecord)
        BY ResolveStep DEF ResolveInv
      <3>4. Says(model', output', 0) /\ Ends(model', output', 0)
        BY <2>1, <3>3, SaysNothing
      <3>5. Len(output') \in Nat /\ parsed' = 0
        BY <2>1, <3>3, LenProperties
      <3>6. Parsing'
        <4>1. AreLines(output)'
          BY <1>2, <3>2
        <4> QED
          BY <3>4, <3>5, <4>1 DEF Parsing
      <3> QED
        BY <1>2, <2>1, <2>3, <3>6 DEF GradleInv
    <2> QED
      BY <2>2, <2>3
  <1>5. CASE ParseLine
    <2>1. /\ resolution = "parse" /\ resolution' = "parse" /\ parsed < Len(output)
          /\ parsed' = parsed + 1 /\ output' = output /\ Tool = "gradle"
          /\ AreLines(output) /\ Says(model, output, parsed) /\ Ends(model, output, parsed)
      BY <1>5 DEF ParseLine, GradleInv, Parsing
    <2>2. model' = Parsed(model, output[parsed + 1])
      BY <1>5 DEF ParseLine, Parsed
    <2>3. LET longer == Parsed(model, output[parsed + 1])
          IN  Says(longer, output, parsed + 1) /\ Ends(longer, output, parsed + 1)
      BY <1>0, <2>1, SaysParsed
    <2>4. Says(model', output', parsed') /\ Ends(model', output', parsed')
      BY <2>1, <2>2, <2>3
    <2>5. parsed' <= Len(output')
      BY <1>0, <2>1, LenProperties
    <2>6. Parsing'
      <3>1. AreLines(output)'
        BY <1>2, <2>1
      <3> QED
        BY <2>4, <2>5, <3>1 DEF Parsing
    <2> QED
      BY <1>2, <2>1, <2>6 DEF GradleInv
  <1>6. CASE EndGradle
    <2>1. /\ resolution = "parse" /\ resolution' = "done" /\ parsed = Len(output)
          /\ parsed' = parsed /\ output' = output /\ model' = model /\ Parsing
      BY <1>6 DEF EndGradle, GradleInv
    <2>2. Parsing'
      <3>1. AreLines(output)'
        BY <1>2, <2>1 DEF Parsing
      <3>2. Says(model', output', parsed') /\ Ends(model', output', parsed')
        BY <2>1 DEF Parsing
      <3> QED
        BY <2>1, <3>1, <3>2 DEF Parsing
    <2> QED
      BY <2>1, <2>2 DEF GradleInv
  <1>7. ASSUME resolution' \in {"collect", "aborted", "read", "failed"} PROVE GradleInv'
    BY <1>7 DEF GradleInv
  <1>8. CASE CollectModule
    BY <1>7, <1>8 DEF CollectModule
  <1>9. CASE RunMaven
    BY <1>7, <1>9 DEF RunMaven
  <1>10. CASE ReadModule
    BY <1>7, <1>10 DEF ReadModule
  <1>11. CASE EndMaven
    <2>1. resolution' = "done" /\ Tool = "maven"
      BY <1>11 DEF EndMaven, MavenInv
    <2> QED
      BY <1>2, <2>1 DEF GradleInv
  <1>12. CASE Overflow
    BY <1>7, <1>12 DEF Overflow
  <1> QED
    BY <1>3, <1>4, <1>5, <1>6, <1>8, <1>9, <1>10, <1>11, <1>12 DEF Resolve

\* Every step keeps what is resolved the project's.
LEMMA ModelStep == CacheInv /\ ModelInv /\ [Next]_vars => ModelInv'
  <1> SUFFICES ASSUME CacheInv, ModelInv, [Next]_vars PROVE ModelInv'
    OBVIOUS
  <1>1. CASE UNCHANGED resolving
    <2>1. /\ project' = project /\ resolution' = resolution
          /\ calls' = calls /\ todo' = todo /\ dirs' = dirs
          /\ output' = output /\ parsed' = parsed /\ model' = model
      BY <1>1 DEF resolving
    <2>2. /\ Tool' = Tool
          /\ Collected(dirs, calls)' <=> Collected(dirs, calls)
          /\ Collected(dirs, <<>>)' <=> Collected(dirs, <<>>)
          /\ Took(model, dirs, todo)' <=> Took(model, dirs, todo)
          /\ Took(model, dirs, <<>>)' <=> Took(model, dirs, <<>>)
          /\ AreLines(output)' <=> AreLines(output)
      BY <2>1, ProjectSame
    <2>3. IdleInv'
      BY <2>1 DEF ModelInv, IdleInv, Unresolved
    <2>4. MavenInv'
      BY <2>1, <2>2 DEF ModelInv, MavenInv
    <2>5. GradleInv'
      BY <2>1, <2>2 DEF ModelInv, GradleInv, Parsing
    <2> QED
      BY <2>3, <2>4, <2>5 DEF ModelInv
  <1>2. CASE ResolveModel
    <2>1. Resolve /\ ResolveInv /\ IdleInv /\ MavenInv /\ GradleInv
      BY <1>2 DEF ResolveModel, CacheInv, ModelInv
    <2>2. MavenInv' /\ GradleInv'
      BY <2>1, MavenStep, GradleStep
    <2>3. resolution' # "idle"
      BY <2>1 DEF Resolve, Detect, CollectModule, Overflow, RunMaven, ReadModule, EndMaven,
                  RunGradle, ParseLine, EndGradle
    <2> QED
      BY <2>2, <2>3 DEF ModelInv, IdleInv
  <1>3. CASE Restart
    <2>1. Unresolved' /\ resolution' = "idle"
      BY <1>3 DEF Restart, Unresolved
    <2> QED
      BY <2>1 DEF ModelInv, IdleInv, MavenInv, GradleInv
  <1>4. IndexExternalSymbols => UNCHANGED resolving
    BY DEF IndexExternalSymbols, BeginIndexing, NextSource, OpenSource, ExtractClass,
           EndExtraction, EndSource, TakeClass, CreateStub, WriteStub, ShowStub
  <1>5. UNCHANGED vars => UNCHANGED resolving
    BY DEF vars, resolving
  <1> QED
    BY <1>1, <1>2, <1>3, <1>4, <1>5 DEF Next

\* The modules read of the directories collected are Maven's.
LEMMA MavenModels ==
    ASSUME CacheInv, Tool = "maven", Collected(dirs, <<>>), Took(model, dirs, <<>>)
    PROVE  MavenModel
  <1>1. project \in Project /\ dirs \in Seq(Dir) /\ model \in Seq(ModuleRecord)
    BY DEF CacheInv, ResolveInv
  <1>2. /\ DOMAIN model = 1..Len(model) /\ DOMAIN dirs = 1..Len(dirs)
        /\ Len(model) \in Nat /\ Len(dirs) \in Nat /\ Len(<<>>) = 0
    BY <1>1, LenProperties, EmptySeq
  <1>3. /\ Len(model) = Len(dirs)
        /\ \A i \in 1..Len(model) : model[i] = Whole(dirs[i], At(dirs[i]))
    BY <1>2 DEF Took
  <1>4. \A i \in 1..Len(model) : model[i].root = dirs[i]
    <2>1. \A dir, there : Whole(dir, there).root = dir
      BY DEF Whole, Module
    <2> QED
      BY <1>3, <2>1
  <1>5. /\ {Physical(dirs[i]) : i \in DOMAIN dirs} = Reachable
        /\ NamedOnce => Len(dirs) = Cardinality(Reachable)
    BY <1>1, CollectedAll
  <1>6. {Physical(model[i].root) : i \in DOMAIN model} = Reachable
    BY <1>2, <1>3, <1>4, <1>5
  <1>7. \A i \in DOMAIN model : model[i] = Whole(model[i].root, At(model[i].root))
    BY <1>2, <1>3, <1>4
  <1> QED
    BY <1>3, <1>5, <1>6, <1>7 DEF MavenModel

\* The invariants make the modules those the build describes.
LEMMA InvModel == CacheInv /\ OneModule /\ ModelInv => ModelIsProject
  <1> SUFFICES ASSUME CacheInv, OneModule, ModelInv, resolution = "done"
               PROVE  /\ CASE Tool = "maven" -> MavenModel
                           [] Tool = "gradle" -> GradleModel
                           [] OTHER -> Len(model) = 1 /\ model[1].root = Root
                      /\ FilesGoInnermost
    BY DEF ModelIsProject
  <1>1. FilesGoInnermost
    BY InvInnermost
  <1>2. CASE Tool = "maven"
    <2>1. MavenModel
      BY <1>2, MavenModels DEF ModelInv, MavenInv
    <2> QED
      BY <1>1, <1>2, <2>1
  <1>3. CASE Tool = "gradle"
    <2>1. /\ project \in Project /\ output \in Seq(LineRecord) /\ AreLines(output)
          /\ model \in Seq(ModuleRecord) /\ Says(model, output, Len(output))
          /\ Ends(model, output, Len(output))
      BY <1>3 DEF ModelInv, GradleInv, Parsing, CacheInv, ResolveInv
    <2>2. GradleModel
      BY <2>1, SaysAll
    <2> QED
      BY <1>1, <1>3, <2>2
  <1>4. CASE Tool # "maven" /\ Tool # "gradle"
    <2>1. Tool = "none"
      BY <1>4 DEF Tool
    <2>2. model = <<FallbackModule>>
      BY <2>1 DEF OneModule
    <2>3. Len(model) = 1 /\ model[1].root = Root
      BY <2>2 DEF FallbackModule, Module
    <2> QED
      BY <1>1, <1>4, <2>3
  <1> QED
    BY <1>2, <1>3, <1>4

\* Whatever the build files say, in however many ways and circles the poms lead,
\* and in whatever turns Gradle prints: the modules resolved are those of the
\* project, each with what is its own, and a file goes to the innermost.
\* (resolve_project_model, collect_modules, parse_project_model, module_for_file)
THEOREM ModelsAreTheProject == Spec => []ModelIsProject
  <1> QED
    BY CacheInit, CacheStep, OneModuleInit, OneModuleStep, ModelInit, ModelStep, InvModel, PTL
       DEF Spec

(***************************************************************************)
(* Paths and their URIs.                                                   *)
(***************************************************************************)

Byte == 0..255

\* A digit of either case stands for its number.
LEMMA Digits ==
    ASSUME NEW n \in 0..15
    PROVE  /\ DigitValue(HexDigit(n)) = n /\ HexDigit(n) # Plus /\ HexDigit(n) \in Nat
           /\ HexDigit(n) \in 65..90 =>
                DigitValue(HexDigit(n) + 32) = n /\ HexDigit(n) + 32 # Plus
  <1>1. CASE n < 10
    <2>1. HexDigit(n) = 48 + n /\ 48 + n \in 48..57 /\ (48 + n) - 48 = n
      BY <1>1 DEF HexDigit
    <2> QED
      BY <2>1 DEF DigitValue, Plus
  <1>2. CASE ~(n < 10)
    <2>1. /\ HexDigit(n) = 55 + n /\ 55 + n \in 65..70 /\ 55 + n \notin 48..57
          /\ (55 + n) - 55 = n
      BY <1>2 DEF HexDigit
    <2>2. /\ (55 + n) + 32 \in 97..102 /\ (55 + n) + 32 \notin 48..57
          /\ (55 + n) + 32 \notin 65..70 /\ ((55 + n) + 32) - 87 = n
      BY <1>2
    <2>3. DigitValue(55 + n) = n /\ 55 + n # Plus
      BY <2>1 DEF DigitValue, Plus
    <2>4. DigitValue((55 + n) + 32) = n /\ (55 + n) + 32 # Plus
      BY <2>2 DEF DigitValue, Plus
    <2> QED
      BY <2>1, <2>3, <2>4
  <1> QED
    BY <1>1, <1>2

\* What may stand for a byte in a URI.
Writings(b) ==
    (IF b \in Unreserved THEN {<<b>>} ELSE {})
    \cup (IF b = SlashByte THEN {} ELSE {Escaped(b), Lower(Escaped(b))})

\* An escape is read as its byte.
LEMMA Escapes ==
    ASSUME NEW b \in Byte, NEW c \in {Escaped(b), Lower(Escaped(b))}
    PROVE  /\ c \in Seq(Nat) /\ Len(c) = 3
           /\ c[1] = Percent /\ HexValue(c[2], c[3]) = b
  <1> DEFINE h == b \div 16
             l == b % 16
             H == HexDigit(h)
             L == HexDigit(l)
             up(d) == IF d \in 65..90 THEN d + 32 ELSE d
  <1>1. h \in 0..15 /\ l \in 0..15 /\ b = h * 16 + l
    BY DEF Byte
  <1>2. c = <<Percent, H, L>> \/ c = <<Percent, up(H), up(L)>>
    <2>1. Escaped(b) = <<Percent, H, L>>
      BY DEF Escaped
    <2>2. Percent \notin 65..90
      BY DEF Percent
    <2> HIDE DEF H, L
    <2>3. Lower(Escaped(b)) = <<Percent, up(H), up(L)>>
      BY <2>1, <2>2 DEF Lower
    <2> QED
      BY <2>1, <2>3
  <1> HIDE DEF h, l
  <1>3. /\ DigitValue(H) = h /\ H # Plus /\ H \in Nat
        /\ H \in 65..90 => DigitValue(H + 32) = h /\ H + 32 # Plus
        /\ DigitValue(L) = l /\ L # Plus /\ L \in Nat
        /\ L \in 65..90 => DigitValue(L + 32) = l /\ L + 32 # Plus
    BY <1>1, Digits
  <1> HIDE DEF H, L
  <1>4. /\ DigitValue(up(H)) = h /\ up(H) # Plus /\ up(H) \in Nat
        /\ DigitValue(up(L)) = l /\ up(L) # Plus /\ up(L) \in Nat
    BY <1>3
  <1> HIDE DEF up
  <1>5. ASSUME NEW x \in Nat, NEW y \in Nat, DigitValue(x) = h, DigitValue(y) = l, x # Plus,
               c = <<Percent, x, y>>
        PROVE  /\ c \in Seq(Nat) /\ Len(c) = 3
               /\ c[1] = Percent /\ HexValue(c[2], c[3]) = b
    <2>1. h # -1 /\ l # -1
      BY <1>1
    <2>2. HexValue(x, y) = b
      BY <1>1, <1>5, <2>1 DEF HexValue
    <2> QED
      BY <1>5, <2>2 DEF Percent
  <1> QED
    BY <1>2, <1>3, <1>4, <1>5

\* Reading a text from each of its places.
IsReading(f, text) ==
    /\ f \in [1..(Len(text) + 1) -> Seq(Int)]
    /\ f[Len(text) + 1] = <<>>
    /\ \A i \in 1..Len(text) :
          f[i] = IF text[i] = Percent /\ i + 2 <= Len(text) /\ HexValue(text[i + 1], text[i + 2]) # -1
                 THEN <<HexValue(text[i + 1], text[i + 2])>> \o f[i + 3]
                 ELSE <<text[i]>> \o f[i + 1]

\* The values of digits are numbers.
LEMMA HexValueType ==
    ASSUME NEW x \in Nat, NEW y \in Nat
    PROVE  HexValue(x, y) \in Int
  <1>1. \A c \in Nat : DigitValue(c) \in Int
    BY DEF DigitValue
  <1> QED
    BY <1>1 DEF HexValue

\* What PercentDecode gives is such a reading, from the first place on.
LEMMA Readings ==
    ASSUME NEW text \in Seq(Nat)
    PROVE  \E f : IsReading(f, text) /\ PercentDecode(text) = f[1]
  <1> DEFINE N == Len(text)
             Escape(i) == text[i] = Percent /\ i + 2 <= N /\ HexValue(text[i + 1], text[i + 2]) # -1
             IsTable(f) == f = [i \in 1..(N + 1) |->
                 IF i > N THEN <<>>
                 ELSE IF Escape(i) THEN <<HexValue(text[i + 1], text[i + 2])>> \o f[i + 3]
                 ELSE <<text[i]>> \o f[i + 1]]
             first == [i \in 1..N |-> IF Escape(i) THEN HexValue(text[i + 1], text[i + 2]) ELSE text[i]]
             next == [i \in 1..N |-> IF Escape(i) THEN i + 3 ELSE i + 1]
  <1>1. N \in Nat /\ \A i \in 1..N : text[i] \in Nat
    BY LenProperties, ElementOfSeq
  <1>2. first \in [1..N -> Int]
    <2>1. \A i \in 1..N : i + 2 <= N => i + 1 \in 1..N /\ i + 2 \in 1..N
      BY <1>1
    <2>2. \A i \in 1..N : Escape(i) => HexValue(text[i + 1], text[i + 2]) \in Int
      BY <1>1, <2>1, HexValueType
    <2> HIDE DEF Escape
    <2> QED
      BY <1>1, <2>2
  <1> DEFINE end == N + 1
  <1>3. LeadsOn(next, N, end)
    <2>1. \A i \in 1..N : i + 1 \in 1..end /\ (Escape(i) => i + 3 \in 1..end)
      BY <1>1
    <2> HIDE DEF Escape
    <2>2. next \in [1..N -> 1..end]
      <3> HIDE DEF end
      <3> QED
        BY <2>1
    <2>3. \A i \in 1..N : next[i] > i
      <3>1. \A i \in 1..N : i + 1 > i /\ i + 3 > i
        BY <1>1
      <3> QED
        BY <3>1
    <2> QED
      BY <2>2, <2>3 DEF LeadsOn
  <1>4. PICK f :
            /\ f \in [1..(N + 1) -> Seq(Int)]
            /\ f[N + 1] = <<>> /\ \A i \in 1..N : f[i] = <<first[i]>> \o f[next[i]]
    <2>1. N \in Nat
      BY <1>1
    <2> HIDE DEF N, first, next, end
    <2>2. \E f \in [1..end -> Seq(Int)] : AreFromEnd(f, N, end, first, next)
      BY <1>2, <1>3, <2>1, ValuesFromEnd
    <2> QED
      BY <2>2 DEF AreFromEnd, end
  <1>5. \A i \in 1..N : f[i] = IF Escape(i) THEN <<HexValue(text[i + 1], text[i + 2])>> \o f[i + 3]
                               ELSE <<text[i]>> \o f[i + 1]
    <2> HIDE DEF Escape
    <2> QED
      BY <1>4
  <1>6. IsTable(f)
    <2> HIDE DEF Escape
    <2>1. \A i \in 1..(N + 1) : i > N => i = N + 1
      BY <1>1
    <2>2. \A i \in 1..(N + 1) : ~(i > N) => i \in 1..N
      BY <1>1
    <2>3. \A i \in 1..(N + 1) :
              f[i] = IF i > N THEN <<>>
                     ELSE IF Escape(i) THEN <<HexValue(text[i + 1], text[i + 2])>> \o f[i + 3]
                     ELSE <<text[i]>> \o f[i + 1]
      BY <1>4, <1>5, <2>1, <2>2
    <2>4. f = [i \in 1..(N + 1) |-> f[i]]
      BY <1>4
    <2> HIDE DEF N
    <2> QED
      BY <2>3, <2>4
  <1> DEFINE from == CHOOSE g : IsTable(g)
  <1>7. IsTable(from)
    <2> HIDE DEF IsTable
    <2> QED
      BY <1>6
  <1>8. PercentDecode(text) = from[1]
    BY DEF PercentDecode
  <1>9. /\ from[N + 1] = <<>>
        /\ \A i \in 1..N : from[i] = IF Escape(i) THEN <<HexValue(text[i + 1], text[i + 2])>> \o from[i + 3]
                                     ELSE <<text[i]>> \o from[i + 1]
    <2> HIDE DEF Escape, from
    <2>1. N + 1 \in 1..(N + 1) /\ N + 1 > N /\ \A i \in 1..N : i \in 1..(N + 1) /\ ~(i > N)
      BY <1>1
    <2> HIDE DEF N
    <2> QED
      BY <1>7, <2>1
  <1> HIDE DEF from
  <1>10. \A i \in 1..N : from[i] = <<first[i]>> \o from[next[i]]
    <2> HIDE DEF Escape
    <2> QED
      BY <1>9
  <1>11. \A i \in 1..(N + 1) : f[i] = from[i]
    <2>1. N \in Nat
      BY <1>1
    <2>2. AreFromEnd(f, N, end, first, next)
      <3> HIDE DEF first, next
      <3> QED
        BY <1>4 DEF AreFromEnd
    <2>3. AreFromEnd(from, N, end, first, next)
      <3> HIDE DEF first, next
      <3> QED
        BY <1>9, <1>10 DEF AreFromEnd
    <2> HIDE DEF N, first, next, end
    <2>4. \A i \in 1..end : f[i] = from[i]
      BY <1>3, <2>1, <2>2, <2>3, ValuesFromEndAgree
    <2> QED
      BY <2>4 DEF end
  <1>12. f[1] = from[1]
    BY <1>1, <1>11
  <1>13. IsReading(f, text)
    <2> HIDE DEF first, next
    <2> QED
      BY <1>4, <1>5 DEF IsReading
  <1> QED
    BY <1>8, <1>12, <1>13

\* A writing of a byte at a place of a text is read as the byte.
LEMMA WritingIsRead ==
    ASSUME NEW text \in Seq(Nat), NEW f, IsReading(f, text),
           NEW b \in Byte, NEW c \in Writings(b), NEW n \in Nat,
           n + Len(c) <= Len(text), \A k \in 1..Len(c) : text[n + k] = c[k]
    PROVE  f[n + 1] = <<b>> \o f[n + Len(c) + 1]
  <1>1. CASE b \in Unreserved /\ c = <<b>>
    <2>1. Len(c) = 1 /\ c[1] = b /\ n + 1 \in 1..Len(text)
      BY <1>1, LenProperties
    <2>2. text[n + 1] = b /\ b # Percent
      <3>1. Percent \notin Unreserved
        BY DEF Percent, Unreserved, Alphabetic, SlashByte
      <3> QED
        BY <1>1, <2>1, <3>1
    <2>3. f[n + 1] = <<text[n + 1]>> \o f[(n + 1) + 1]
      BY <2>1, <2>2 DEF IsReading
    <2>4. n + Len(c) + 1 = (n + 1) + 1
      BY <2>1
    <2> QED
      BY <2>2, <2>3, <2>4
  <1>2. CASE c \in {Escaped(b), Lower(Escaped(b))}
    <2>1. Len(c) = 3 /\ c[1] = Percent /\ HexValue(c[2], c[3]) = b
      BY <1>2, Escapes
    <2>2. /\ n + 1 \in 1..Len(text) /\ (n + 1) + 2 <= Len(text) /\ (n + 1) + 3 = n + Len(c) + 1
          /\ (n + 1) + 1 = n + 2 /\ (n + 1) + 2 = n + 3
      BY <2>1, LenProperties
    <2>3. text[n + 1] = Percent /\ text[n + 2] = c[2] /\ text[n + 3] = c[3]
      BY <2>1
    <2>4. HexValue(text[(n + 1) + 1], text[(n + 1) + 2]) = b /\ b # -1
      <3>1. b # -1
        BY DEF Byte
      <3> QED
        BY <2>1, <2>2, <2>3, <3>1, Zenon
    <2>5. f[n + 1] = <<HexValue(text[(n + 1) + 1], text[(n + 1) + 2])>> \o f[(n + 1) + 3]
      BY <2>2, <2>3, <2>4 DEF IsReading
    <2> QED
      BY <2>2, <2>4, <2>5
  <1> QED
    BY <1>1, <1>2 DEF Writings

\* A writing of a byte is a text.
LEMMA WritingType ==
    ASSUME NEW b \in Byte, NEW c \in Writings(b)
    PROVE  c \in Seq(Nat)
  <1>1. b \in Nat
    BY DEF Byte
  <1>2. <<b>> \in Seq(Nat)
    BY <1>1
  <1> QED
    BY <1>2, Escapes DEF Writings

\* A text that goes on from one of those given with a writing of a byte.
GoesOn(t, texts, b) == \E text \in texts : \E last \in Writings(b) : t = text \o last

\* The writings of the first bytes of a path.
AreWritings(upto, path) ==
    /\ upto[0] = {<<>>}
    /\ \A n \in 1..Len(path) : \A t : t \in upto[n] <=> GoesOn(t, upto[n - 1], path[n])
    /\ \A n \in 0..Len(path) : upto[n] \subseteq Seq(Nat)

\* The spellings of a path are what comes up so, byte after byte.
LEMMA SpellingsAre ==
    ASSUME NEW path \in Seq(Byte)
    PROVE  \E upto : AreWritings(upto, path) /\ Spellings(path) = upto[Len(path)]
  <1> DEFINE N == Len(path)
             B == SUBSET Seq(Nat)
             More(texts, n) == {text \o last : text \in texts, last \in Writings(path[n])}
             F == [x \in B \X (1..N) |-> More(x[1], x[2])]
             IsTable(u) == u = [n \in 0..N |-> IF n = 0 THEN {<<>>} ELSE More(u[n - 1], n)]
  <1>1. N \in Nat /\ \A n \in 1..N : path[n] \in Byte
    BY LenProperties, ElementOfSeq
  <1>0. ASSUME NEW texts, NEW n \in 1..N, NEW t
        PROVE  t \in More(texts, n)
               <=> \E text \in texts : \E last \in Writings(path[n]) : t = text \o last
    OBVIOUS
  <1>2. \A texts \in B, n \in 1..N : More(texts, n) \in B
    <2>1. ASSUME NEW texts \in B, NEW n \in 1..N, NEW text \in texts,
                 NEW last \in Writings(path[n])
          PROVE  text \o last \in Seq(Nat)
      <3>1. last \in Seq(Nat) /\ text \in Seq(Nat)
        BY <1>1, WritingType
      <3> QED
        BY <3>1, ConcatProperties
    <2> HIDE DEF More
    <2>2. ASSUME NEW texts \in B, NEW n \in 1..N, NEW t \in More(texts, n) PROVE t \in Seq(Nat)
      <3>1. PICK text \in texts : \E last \in Writings(path[n]) : t = text \o last
        <4> HIDE DEF N, B
        <4> QED
          BY <1>0
      <3>2. PICK last \in Writings(path[n]) : t = text \o last
        BY <3>1
      <3> QED
        BY <2>1, <3>2
    <2> QED
      BY <2>2
  <1>3. {<<>>} \in B
    BY EmptySeq
  <1> HIDE DEF More, B, N
  <1>4. F \in [B \X (1..N) -> B]
    BY <1>2
  <1> DEFINE none == {<<>>}
  <1> HIDE DEF none
  <1>5. PICK g : g \in [0..N -> B] /\ IsIteration(g, N, none, F)
    <2> HIDE DEF F
    <2> QED
      BY <1>1, <1>3, <1>4, Iteration DEF none
  <1>6. g[0] = {<<>>} /\ \A n \in 1..N : g[n] = More(g[n - 1], n)
    <2>1. ASSUME NEW n \in 1..N PROVE g[n] = More(g[n - 1], n)
      <3>1. n - 1 \in 0..N
        BY <1>1
      <3>2. <<g[n - 1], n>> \in B \X (1..N)
        BY <1>5, <3>1
      <3>3. F[<<g[n - 1], n>>] = More(g[n - 1], n)
        BY <3>2
      <3> HIDE DEF F
      <3> QED
        BY <1>5, <3>3 DEF IsIteration
    <2>2. g[0] = none
      <3> HIDE DEF F
      <3> QED
        BY <1>5 DEF IsIteration
    <2> QED
      BY <2>1, <2>2 DEF none
  <1>7. IsTable(g)
    <2>1. g = [n \in 0..N |-> g[n]]
      BY <1>5
    <2>2. \A n \in 0..N : g[n] = IF n = 0 THEN {<<>>} ELSE More(g[n - 1], n)
      <3>1. \A n \in 0..N : n = 0 \/ n \in 1..N
        BY <1>1
      <3> QED
        BY <1>6, <3>1
    <2> QED
      BY <2>1, <2>2
  <1> DEFINE upto == CHOOSE u : IsTable(u)
  <1>8. IsTable(upto)
    <2> HIDE DEF IsTable
    <2> QED
      BY <1>7
  <1>9. Spellings(path) = upto[N]
    BY DEF Spellings, Writings, More, N
  <1> HIDE DEF upto
  <1>10. /\ upto[0] = {<<>>}
         /\ \A n \in 1..N : upto[n] = More(upto[n - 1], n)
    <2>1. 0 \in 0..N /\ \A n \in 1..N : n \in 0..N /\ n # 0
      BY <1>1
    <2> QED
      BY <1>8, <2>1
  <1> DEFINE Holds(n) == n <= N => upto[n] \in B
             T == {n \in Nat : Holds(n)}
  <1>11. 0 \in T
    BY <1>3, <1>10
  <1>12. ASSUME NEW n \in T PROVE n + 1 \in T
    <2> SUFFICES ASSUME n + 1 <= N PROVE upto[n + 1] \in B
      OBVIOUS
    <2>1. n \in Nat /\ upto[n] \in B /\ n + 1 \in 1..N /\ (n + 1) - 1 = n
      BY <1>1
    <2> QED
      BY <1>2, <1>10, <2>1
  <1> HIDE DEF T
  <1>13. Nat \subseteq T
    BY <1>11, <1>12, SetInduction
  <1>14. \A n \in 0..N : upto[n] \in B
    <2>1. \A n \in Nat : Holds(n)
      BY <1>13 DEF T
    <2> QED
      BY <1>1, <2>1
  <1>15. AreWritings(upto, path)
    <2>1. \A n \in 1..N : \A t : t \in upto[n] <=> GoesOn(t, upto[n - 1], path[n])
      <3> TAKE n \in 1..N
      <3> TAKE t
      <3>1. upto[n] = More(upto[n - 1], n)
        BY <1>10
      <3>2. t \in More(upto[n - 1], n) <=> GoesOn(t, upto[n - 1], path[n])
        BY DEF More, GoesOn
      <3> QED
        BY <3>1, <3>2, Zenon
    <2>2. \A n \in 0..Len(path) : upto[n] \subseteq Seq(Nat)
      BY <1>14 DEF B, N
    <2> QED
      BY <1>10, <2>1, <2>2, Zenon DEF AreWritings, N
  <1> QED
    BY <1>9, <1>15 DEF N

\* Every spelling of a path is read as the path.
LEMMA SpellingsAreRead ==
    ASSUME NEW path \in Seq(Byte), NEW text \in Spellings(path)
    PROVE  PercentDecode(text) = path
  <1> DEFINE N == Len(path)
             L == Len(text)
  <1>1. N \in Nat /\ \A n \in 1..N : path[n] \in Byte
    BY LenProperties, ElementOfSeq
  <1>2. PICK upto : AreWritings(upto, path) /\ Spellings(path) = upto[N]
    BY SpellingsAre
  <1>3. text \in Seq(Nat)
    <2>1. N \in 0..N
      BY <1>1
    <2> QED
      BY <1>2, <2>1 DEF AreWritings
  <1>4. PICK f : IsReading(f, text) /\ PercentDecode(text) = f[1]
    BY <1>3, Readings
  <1>5. L \in Nat /\ DOMAIN text = 1..L
    BY <1>3, LenProperties
  <1> DEFINE Begins(a) == Len(a) <= L /\ \A k \in 1..Len(a) : text[k] = a[k]
             Read(n, m) == /\ f[1] \in Seq(Int) /\ f[m + 1] \in Seq(Int)
                           /\ Len(f[1]) = n + Len(f[m + 1])
                           /\ \A k \in 1..n : f[1][k] = path[k]
                           /\ \A k \in 1..Len(f[m + 1]) : f[1][n + k] = f[m + 1][k]
             Holds(n) == n <= N => \A a \in upto[n] : Begins(a) => Read(n, Len(a))
             T == {n \in Nat : Holds(n)}
  <1>6. \A m \in 0..L : f[m + 1] \in Seq(Int)
    <2>1. \A m \in 0..L : m + 1 \in 1..(L + 1)
      BY <1>5
    <2> QED
      BY <1>4, <2>1 DEF IsReading
  <1>7. 0 \in T
    <2>1. \A a \in upto[0] : a = <<>> /\ Len(a) = 0
      BY <1>2, EmptySeq DEF AreWritings
    <2>2. f[0 + 1] = f[1] /\ f[1] \in Seq(Int) /\ Len(f[1]) \in Nat
      BY <1>5, <1>6, LenProperties
    <2>3. Read(0, 0)
      BY <2>2
    <2> HIDE DEF Read
    <2> QED
      BY <2>1, <2>3
  <1>8. ASSUME NEW n \in T PROVE n + 1 \in T
    <2> HIDE DEF Read
    <2> SUFFICES ASSUME n + 1 <= N, NEW t \in upto[n + 1], Begins(t)
                 PROVE  Read(n + 1, Len(t))
      OBVIOUS
    <2>1. n \in Nat /\ n + 1 \in 1..N /\ n \in 0..N /\ (n + 1) - 1 = n
      BY <1>1
    <2>2. PICK a \in upto[n] : \E c \in Writings(path[n + 1]) : t = a \o c
      <3> HIDE DEF Begins
      <3>1. GoesOn(t, upto[(n + 1) - 1], path[n + 1])
        BY <1>2, <2>1 DEF AreWritings
      <3>2. GoesOn(t, upto[n], path[n + 1])
        BY <2>1, <3>1
      <3> QED
        BY <3>2, Zenon DEF GoesOn
    <2>3. PICK c \in Writings(path[n + 1]) : t = a \o c
      BY <2>2
    <2> DEFINE b == path[n + 1]
               m == Len(a)
               z == Len(c)
               rest == f[m + z + 1]
    <2>4. a \in Seq(Nat) /\ c \in Seq(Nat) /\ b \in Byte
      <3>1. b \in Byte
        BY <1>1, <2>1
      <3> QED
        BY <1>2, <2>1, <3>1, WritingType DEF AreWritings
    <2>5. /\ m \in Nat /\ z \in Nat
          /\ Len(t) = m + z
          /\ \A k \in 1..(m + z) : t[k] = IF k <= m THEN a[k] ELSE c[k - m]
      BY <2>3, <2>4, LenProperties, ConcatProperties
    <2>6. m + z <= L /\ \A k \in 1..(m + z) : text[k] = t[k]
      BY <2>5
    <2> HIDE DEF Begins
    <2>7. Begins(a)
      <3>1. m <= L
        BY <1>5, <2>5, <2>6
      <3>2. ASSUME NEW k \in 1..m PROVE text[k] = a[k]
        <4>1. k \in 1..(m + z) /\ k <= m
          BY <2>5
        <4> QED
          BY <2>5, <2>6, <4>1
      <3> QED
        BY <3>1, <3>2 DEF Begins
    <2>8. Read(n, m)
      BY <1>1, <2>1, <2>7
    <2>9. f[m + 1] = <<b>> \o rest
      <3>1. \A k \in 1..z : text[m + k] = c[k]
        <4> TAKE k \in 1..z
        <4>1. m + k \in 1..(m + z) /\ ~(m + k <= m) /\ (m + k) - m = k
          BY <2>5
        <4> QED
          BY <2>5, <2>6, <4>1
      <3> QED
        BY <1>3, <1>4, <2>4, <2>5, <2>6, <3>1, WritingIsRead
    <2> HIDE DEF b, m, z
    <2>10. rest \in Seq(Int) /\ b \in Int
      <3>1. m + z \in 0..L
        BY <1>5, <2>5, <2>6
      <3> QED
        BY <1>6, <2>4, <3>1 DEF Byte
    <2> HIDE DEF rest
    <2>11. /\ f[m + 1] \in Seq(Int) /\ Len(rest) \in Nat
           /\ Len(f[m + 1]) = 1 + Len(rest)
           /\ f[m + 1][1] = b
           /\ \A k \in 1..Len(rest) : f[m + 1][1 + k] = rest[k]
      <3> DEFINE one == <<b>>
      <3>1. one \in Seq(Int) /\ Len(one) = 1 /\ one[1] = b
        BY <2>10
      <3> HIDE DEF one
      <3>2. Len(rest) \in Nat
        BY <2>10, LenProperties
      <3>3. /\ one \o rest \in Seq(Int)
            /\ Len(one \o rest) = 1 + Len(rest)
            /\ \A k \in 1..(1 + Len(rest)) :
                  (one \o rest)[k] = IF k <= 1 THEN one[k] ELSE rest[k - 1]
        <4> DEFINE C == Int
        <4>1. one \in Seq(C) /\ rest \in Seq(C)
          BY <2>10, <3>1
        <4> HIDE DEF C
        <4>2. /\ one \o rest \in Seq(C)
              /\ Len(one \o rest) = Len(one) + Len(rest)
              /\ \A k \in 1..(Len(one) + Len(rest)) :
                    (one \o rest)[k] = IF k <= Len(one) THEN one[k] ELSE rest[k - Len(one)]
          BY <4>1, ConcatProperties
        <4> QED
          BY <3>1, <4>2 DEF C
      <3>4. (one \o rest)[1] = b
        BY <3>1, <3>2, <3>3
      <3>5. ASSUME NEW k \in 1..Len(rest) PROVE (one \o rest)[1 + k] = rest[k]
        <4>1. 1 + k \in 1..(1 + Len(rest)) /\ ~(1 + k <= 1) /\ (1 + k) - 1 = k
          BY <3>2
        <4> QED
          BY <3>3, <4>1
      <3>6. f[m + 1] = one \o rest
        BY <2>9 DEF one
      <3> QED
        BY <3>2, <3>3, <3>4, <3>5, <3>6
    <2> DEFINE g == f[1]
               h == f[m + 1]
    <2>12. /\ g \in Seq(Int) /\ Len(g) = n + Len(h)
           /\ \A k \in 1..n : g[k] = path[k]
           /\ \A k \in 1..Len(h) : g[n + k] = h[k]
      BY <2>8 DEF Read
    <2>13. /\ Len(h) = 1 + Len(rest) /\ h[1] = b /\ Len(rest) \in Nat
           /\ \A k \in 1..Len(rest) : h[1 + k] = rest[k]
      BY <2>11
    <2> HIDE DEF g, h
    <2>14. Len(g) = (n + 1) + Len(rest)
      BY <2>1, <2>12, <2>13
    <2>15. ASSUME NEW k \in 1..(n + 1) PROVE g[k] = path[k]
      <3>1. CASE k \in 1..n
        BY <2>12, <3>1
      <3>2. CASE k = n + 1
        <4>1. 1 \in 1..Len(h)
          BY <2>13
        <4> QED
          BY <2>12, <2>13, <3>2, <4>1 DEF b
      <3> QED
        BY <2>1, <3>1, <3>2
    <2>16. ASSUME NEW k \in 1..Len(rest) PROVE g[(n + 1) + k] = rest[k]
      <3>1. 1 + k \in 1..Len(h) /\ n + (1 + k) = (n + 1) + k
        BY <2>1, <2>13
      <3> QED
        BY <2>12, <2>13, <3>1
    <2>17. rest = f[Len(t) + 1]
      BY <2>5 DEF rest, m, z
    <2> QED
      BY <2>10, <2>12, <2>14, <2>15, <2>16, <2>17 DEF Read, g
  <1> HIDE DEF T
  <1>9. Nat \subseteq T
    BY <1>7, <1>8, SetInduction
  <1>10. Holds(N)
    BY <1>1, <1>9, Zenon DEF T
  <1>11. Read(N, L)
    <2>1. Begins(text)
      BY <1>5
    <2> HIDE DEF Read, Begins
    <2> QED
      BY <1>1, <1>2, <1>10, <2>1
  <1>12. f[L + 1] = <<>> /\ Len(f[L + 1]) = 0
    BY <1>4, EmptySeq DEF IsReading
  <1>13. f[1] \in Seq(Int) /\ Len(f[1]) = N /\ \A k \in 1..N : f[1][k] = path[k]
    BY <1>1, <1>11, <1>12
  <1>14. path \in Seq(Int)
    <2>1. path = [n \in 1..N |-> path[n]]
      BY LenProperties
    <2>2. \A n \in 1..N : path[n] \in Int
      <3>1. \A b \in Byte : b \in Int
        BY DEF Byte
      <3> HIDE DEF N
      <3> QED
        BY <1>1, <3>1, Zenon
    <2>3. path \in [1..N -> Int]
      BY <2>1, <2>2
    <2> QED
      BY <1>1, <2>3, SeqDef
  <1> QED
    BY <1>4, <1>13, <1>14, SeqEqual

\* What PercentEncode gives is one of the spellings.
LEMMA EncodingIsSpelling ==
    ASSUME NEW path \in Seq(Byte)
    PROVE  PercentEncode(path) \in Spellings(path)
  <1> DEFINE N == Len(path)
             c == [k \in DOMAIN path |->
                      IF path[k] \in Unreserved THEN <<path[k]>> ELSE Escaped(path[k])]
  <1>1. N \in Nat /\ DOMAIN path = 1..N /\ \A n \in 1..N : path[n] \in Byte
    BY LenProperties, ElementOfSeq
  <1>2. \A n \in 1..N : c[n] \in Writings(path[n])
    <2>1. SlashByte \in Unreserved
      BY DEF Unreserved
    <2> QED
      BY <1>1, <2>1 DEF Writings
  <1>3. c \in Seq(Seq(Nat)) /\ Len(c) = N
    <2>1. \A n \in 1..N : c[n] \in Seq(Nat)
      BY <1>1, <1>2, WritingType
    <2>2. c = [n \in 1..N |-> c[n]]
      BY <1>1
    <2> HIDE DEF c
    <2>3. c \in [1..N -> Seq(Nat)]
      BY <2>1, <2>2
    <2>4. c \in Seq(Seq(Nat))
      BY <1>1, <2>3, SeqDef
    <2> QED
      BY <1>1, <2>3, <2>4, LenProperties
  <1>4. PercentEncode(path) = FlattenSeq(c)
    BY DEF PercentEncode
  <1> HIDE DEF c
  <1>5. PICK g : /\ g \in [0..N -> Seq(Nat)]
                 /\ g[0] = <<>> /\ \A n \in 1..N : g[n] = g[n - 1] \o c[n]
    <2>1. \E g \in [0..Len(c) -> Seq(Nat)] :
              g[0] = <<>> /\ \A n \in 1..Len(c) : g[n] = g[n - 1] \o c[n]
      BY <1>3, Concatenations
    <2> QED
      BY <1>3, <2>1
  <1>6. FlattenSeq(c) = g[N]
    <2>1. FlattenSeq(c) = g[Len(c)]
      <3> HIDE DEF N
      <3> QED
        BY <1>3, <1>5, FlattenIsLast
    <2> QED
      BY <1>3, <2>1
  <1>7. PICK upto : AreWritings(upto, path) /\ Spellings(path) = upto[N]
    BY SpellingsAre
  <1> DEFINE Holds(n) == n <= N => g[n] \in upto[n]
             T == {n \in Nat : Holds(n)}
  <1>8. 0 \in T
    BY <1>5, <1>7 DEF AreWritings
  <1>9. ASSUME NEW n \in T PROVE n + 1 \in T
    <2> SUFFICES ASSUME n + 1 <= N PROVE g[n + 1] \in upto[n + 1]
      OBVIOUS
    <2>1. n \in Nat /\ n + 1 \in 1..N /\ (n + 1) - 1 = n /\ g[n] \in upto[n]
      BY <1>1
    <2>2. g[n + 1] = g[n] \o c[n + 1]
      BY <1>5, <2>1
    <2>3. c[n + 1] \in Writings(path[n + 1])
      BY <1>2, <2>1
    <2>4. GoesOn(g[n + 1], upto[n], path[n + 1])
      BY <2>1, <2>2, <2>3, Zenon DEF GoesOn
    <2>5. GoesOn(g[n + 1], upto[(n + 1) - 1], path[n + 1])
      BY <2>1, <2>4
    <2> QED
      BY <1>7, <2>1, <2>5 DEF AreWritings
  <1> HIDE DEF T
  <1>10. Nat \subseteq T
    BY <1>8, <1>9, SetInduction
  <1>11. Holds(N)
    BY <1>1, <1>10, Zenon DEF T
  <1>12. N <= N
    BY <1>1
  <1> QED
    BY <1>4, <1>6, <1>7, <1>11, <1>12

\* A path with slashes only, from the root on, is one again, and the same if it
\* was one.
LEMMA NormalizeType ==
    ASSUME NEW p \in Seq(Byte), p # <<>>
    PROVE  /\ Normalize(p) \in Seq(Byte)
           /\ Head(p) = SlashByte /\ Backslash \notin ToSet(p) => Normalize(p) = p
  <1> DEFINE s == [k \in DOMAIN p |-> IF p[k] = Backslash THEN SlashByte ELSE p[k]]
  <1>1. /\ Len(p) \in Nat \ {0} /\ DOMAIN p = 1..Len(p) /\ Head(p) = p[1]
        /\ \A k \in 1..Len(p) : p[k] \in Byte
    <2>1. Len(p) \in Nat /\ DOMAIN p = 1..Len(p) /\ \A k \in 1..Len(p) : p[k] \in Byte
      BY LenProperties, ElementOfSeq
    <2>2. Len(p) # 0 /\ Head(p) = p[1]
      BY EmptySeq, HeadTailProperties
    <2> QED
      BY <2>1, <2>2
  <1>2. SlashByte \in Byte
    BY DEF SlashByte, Byte
  <1>3. s \in [1..Len(p) -> Byte]
    BY <1>1, <1>2
  <1>4. s \in Seq(Byte)
    <2> HIDE DEF s
    <2> QED
      BY <1>1, <1>3, SeqDef
  <1>5. Normalize(p) \in {s, <<SlashByte>> \o s}
    BY DEF Normalize
  <1>6. Normalize(p) \in Seq(Byte)
    <2>1. <<SlashByte>> \in Seq(Byte)
      BY <1>2
    <2> HIDE DEF s
    <2> QED
      BY <1>4, <1>5, <2>1, ConcatProperties
  <1>7. ASSUME Head(p) = SlashByte, Backslash \notin ToSet(p) PROVE Normalize(p) = p
    <2>1. \A k \in 1..Len(p) : p[k] # Backslash
      BY <1>1, <1>7 DEF ToSet
    <2>2. \A k \in 1..Len(p) : s[k] = p[k]
      BY <1>1, <2>1
    <2>3. s = p
      <3>1. p = [k \in 1..Len(p) |-> p[k]] /\ s = [k \in 1..Len(p) |-> s[k]]
        BY <1>1
      <3> HIDE DEF s
      <3> QED
        BY <2>2, <3>1
    <2> HIDE DEF s
    <2>4. Normalize(p) = IF s # <<>> /\ Head(s) = SlashByte THEN s ELSE <<SlashByte>> \o s
      BY DEF Normalize, s
    <2> QED
      BY <1>7, <2>3, <2>4
  <1> QED
    BY <1>6, <1>7

\* Whatever the paths: each comes back from its URI and from every other way to
\* write it, and no two have one URI but for the direction of their slashes.
\* (path_to_uri, uri_to_path)
THEOREM UrisLeadToPaths == Spec => []UrisLeadBack
  <1>1. ASSUME NEW p \in Path
        PROVE  /\ p # <<>> /\ Normalize(p) \in Seq(Byte)
               /\ Head(p) = SlashByte /\ Backslash \notin ToSet(p) => Normalize(p) = p
    <2>1. p \in Seq(Byte) /\ p # <<>>
      BY StubCacheAssumption DEF Byte
    <2> QED
      BY <2>1, NormalizeType
  <1>2. ASSUME NEW p \in Path, NEW text \in Spellings(Normalize(p))
        PROVE  UriToPath([scheme |-> "file", path |-> text]) = StripDrive(Normalize(p))
    <2>1. PercentDecode(text) = Normalize(p)
      BY <1>1, SpellingsAreRead
    <2> QED
      BY <2>1 DEF UriToPath
  <1>3. ASSUME NEW p \in Path PROVE PercentDecode(PercentEncode(Normalize(p))) = Normalize(p)
    BY <1>1, EncodingIsSpelling, SpellingsAreRead
  <1>4. ASSUME NEW p \in Path
        PROVE  UriToPath(PathToUri(p)) = StripDrive(Normalize(p))
    BY <1>3 DEF UriToPath, PathToUri
  <1>5. ASSUME NEW p \in Path, Head(p) = SlashByte, ~HasDrivePrefix(p), Backslash \notin ToSet(p)
        PROVE  StripDrive(Normalize(p)) = p
    BY <1>1, <1>5 DEF StripDrive
  <1>6. ASSUME NEW p \in Path, NEW q \in Path, PathToUri(p) = PathToUri(q)
        PROVE  Normalize(p) = Normalize(q)
    <2>1. PercentEncode(Normalize(p)) = PercentEncode(Normalize(q))
      BY <1>6 DEF PathToUri
    <2> QED
      BY <1>3, <2>1
  <1>7. UrisLeadBack
    <2>1. \A x, y \in {<<PathToUri(p), Normalize(p)>> : p \in Path} : x[1] = y[1] => x[2] = y[2]
      BY <1>6
    <2> QED
      BY <1>2, <1>4, <1>5, <2>1 DEF UrisLeadBack
  <1> QED
    BY <1>7, PTL
=============================================================================
