-------------------------- MODULE TaskPool_proofs --------------------------
(***************************************************************************)
(* Proofs about TaskPool, for any tasks of the four kinds, any number of   *)
(* threads and of queries: type correctness, that whoever has the index    *)
(* lets go of it next, and that the two locks are taken in one order only. *)
(***************************************************************************)
EXTENDS TaskPool, FiniteSetTheorems, SequenceTheorems, TLAPS

(***************************************************************************)
(* The programs, written out.                                              *)
(***************************************************************************)

AKind == {"reindex", "scan", "build", "lombok"}
AStep == {Slow, Take("index"), Release("index"), Take("project_model"), Release("project_model")}

\* Every task is of a kind that has a program.
LEMMA KindOfTask == \A t \in Task : Kind[t] \in AKind
  BY TaskPoolAssumption DEF AKind

\* Two sequences in one.
LEMMA ConcatIs ==
    ASSUME NEW S, NEW s \in Seq(S), NEW t \in Seq(S), NEW u \in Seq(S),
           Len(u) = Len(s) + Len(t),
           \A i \in 1..Len(u) : u[i] = IF i <= Len(s) THEN s[i] ELSE t[i - Len(s)]
    PROVE  s \o t = u
  BY ConcatProperties, SeqEqual

\* The same of the short programs that longer ones are put together from.
LEMMA ShortConcat ==
    /\ \A a : <<a>> \o <<>> = <<a>>
    /\ \A a, b : <<a>> \o <<b>> = <<a, b>>
    /\ \A a, b, c : <<a>> \o <<b, c>> = <<a, b, c>>
    /\ \A a, b, c, d : <<a, b>> \o <<c, d>> = <<a, b, c, d>>
    /\ \A a, b, c, d : <<a>> \o <<b, c, d>> = <<a, b, c, d>>
    /\ \A a, b, c, d, e : <<a, b, c, d>> \o <<e>> = <<a, b, c, d, e>>
    /\ \A a, b, c, d, e : <<a, b, c>> \o <<d, e>> = <<a, b, c, d, e>>
    /\ \A a, b, c, d, e, f : <<a, b, c, d, e>> \o <<f>> = <<a, b, c, d, e, f>>
    /\ \A a, b, c, d, e, f, g, h : <<a, b, c, d, e, f>> \o <<g, h>> = <<a, b, c, d, e, f, g, h>>
  <1>1. ASSUME NEW a PROVE <<a>> \o <<>> = <<a>>
    <2>1. <<a>> \in Seq({a})
      OBVIOUS
    <2> QED
      BY <2>1, ConcatEmptySeq
  <1>2. ASSUME NEW a, NEW b
       PROVE  <<a>> \o <<b>> = <<a, b>>
    <2> DEFINE S == {a, b}
    <2>1. <<a>> \in Seq(S) /\ <<b>> \in Seq(S) /\ <<a, b>> \in Seq(S)
      OBVIOUS
    <2>2. /\ Len(<<a, b>>) = Len(<<a>>) + Len(<<b>>)
          /\ \A i \in 1..Len(<<a, b>>) :
               <<a, b>>[i] = IF i <= Len(<<a>>) THEN <<a>>[i]
                        ELSE <<b>>[i - Len(<<a>>)]
      OBVIOUS
    <2> HIDE DEF S
    <2> QED
      BY <2>1, <2>2, ConcatIs
  <1>3. ASSUME NEW a, NEW b, NEW c
       PROVE  <<a>> \o <<b, c>> = <<a, b, c>>
    <2> DEFINE S == {a, b, c}
    <2>1. <<a>> \in Seq(S) /\ <<b, c>> \in Seq(S) /\ <<a, b, c>> \in Seq(S)
      OBVIOUS
    <2>2. /\ Len(<<a, b, c>>) = Len(<<a>>) + Len(<<b, c>>)
          /\ \A i \in 1..Len(<<a, b, c>>) :
               <<a, b, c>>[i] = IF i <= Len(<<a>>) THEN <<a>>[i]
                        ELSE <<b, c>>[i - Len(<<a>>)]
      OBVIOUS
    <2> HIDE DEF S
    <2> QED
      BY <2>1, <2>2, ConcatIs
  <1>4. ASSUME NEW a, NEW b, NEW c, NEW d
       PROVE  <<a, b>> \o <<c, d>> = <<a, b, c, d>>
    <2> DEFINE S == {a, b, c, d}
    <2>1. <<a, b>> \in Seq(S) /\ <<c, d>> \in Seq(S) /\ <<a, b, c, d>> \in Seq(S)
      OBVIOUS
    <2>2. /\ Len(<<a, b, c, d>>) = Len(<<a, b>>) + Len(<<c, d>>)
          /\ \A i \in 1..Len(<<a, b, c, d>>) :
               <<a, b, c, d>>[i] = IF i <= Len(<<a, b>>) THEN <<a, b>>[i]
                        ELSE <<c, d>>[i - Len(<<a, b>>)]
      OBVIOUS
    <2> HIDE DEF S
    <2> QED
      BY <2>1, <2>2, ConcatIs
  <1>5. ASSUME NEW a, NEW b, NEW c, NEW d
       PROVE  <<a>> \o <<b, c, d>> = <<a, b, c, d>>
    <2> DEFINE S == {a, b, c, d}
    <2>1. <<a>> \in Seq(S) /\ <<b, c, d>> \in Seq(S) /\ <<a, b, c, d>> \in Seq(S)
      OBVIOUS
    <2>2. /\ Len(<<a, b, c, d>>) = Len(<<a>>) + Len(<<b, c, d>>)
          /\ \A i \in 1..Len(<<a, b, c, d>>) :
               <<a, b, c, d>>[i] = IF i <= Len(<<a>>) THEN <<a>>[i]
                        ELSE <<b, c, d>>[i - Len(<<a>>)]
      OBVIOUS
    <2> HIDE DEF S
    <2> QED
      BY <2>1, <2>2, ConcatIs
  <1>6. ASSUME NEW a, NEW b, NEW c, NEW d, NEW e
       PROVE  <<a, b, c, d>> \o <<e>> = <<a, b, c, d, e>>
    <2> DEFINE S == {a, b, c, d, e}
    <2>1. <<a, b, c, d>> \in Seq(S) /\ <<e>> \in Seq(S) /\ <<a, b, c, d, e>> \in Seq(S)
      OBVIOUS
    <2>2. /\ Len(<<a, b, c, d, e>>) = Len(<<a, b, c, d>>) + Len(<<e>>)
          /\ \A i \in 1..Len(<<a, b, c, d, e>>) :
               <<a, b, c, d, e>>[i] = IF i <= Len(<<a, b, c, d>>) THEN <<a, b, c, d>>[i]
                        ELSE <<e>>[i - Len(<<a, b, c, d>>)]
      OBVIOUS
    <2> HIDE DEF S
    <2> QED
      BY <2>1, <2>2, ConcatIs
  <1>7. ASSUME NEW a, NEW b, NEW c, NEW d, NEW e
       PROVE  <<a, b, c>> \o <<d, e>> = <<a, b, c, d, e>>
    <2> DEFINE S == {a, b, c, d, e}
    <2>1. <<a, b, c>> \in Seq(S) /\ <<d, e>> \in Seq(S) /\ <<a, b, c, d, e>> \in Seq(S)
      OBVIOUS
    <2>2. /\ Len(<<a, b, c, d, e>>) = Len(<<a, b, c>>) + Len(<<d, e>>)
          /\ \A i \in 1..Len(<<a, b, c, d, e>>) :
               <<a, b, c, d, e>>[i] = IF i <= Len(<<a, b, c>>) THEN <<a, b, c>>[i]
                        ELSE <<d, e>>[i - Len(<<a, b, c>>)]
      OBVIOUS
    <2> HIDE DEF S
    <2> QED
      BY <2>1, <2>2, ConcatIs
  <1>8. ASSUME NEW a, NEW b, NEW c, NEW d, NEW e, NEW f
       PROVE  <<a, b, c, d, e>> \o <<f>> = <<a, b, c, d, e, f>>
    <2> DEFINE S == {a, b, c, d, e, f}
    <2>1. <<a, b, c, d, e>> \in Seq(S) /\ <<f>> \in Seq(S) /\ <<a, b, c, d, e, f>> \in Seq(S)
      OBVIOUS
    <2>2. /\ Len(<<a, b, c, d, e, f>>) = Len(<<a, b, c, d, e>>) + Len(<<f>>)
          /\ \A i \in 1..Len(<<a, b, c, d, e, f>>) :
               <<a, b, c, d, e, f>>[i] = IF i <= Len(<<a, b, c, d, e>>) THEN <<a, b, c, d, e>>[i]
                        ELSE <<f>>[i - Len(<<a, b, c, d, e>>)]
      OBVIOUS
    <2> HIDE DEF S
    <2> QED
      BY <2>1, <2>2, ConcatIs
  <1>9. ASSUME NEW a, NEW b, NEW c, NEW d, NEW e, NEW f, NEW g, NEW h
       PROVE  <<a, b, c, d, e, f>> \o <<g, h>> = <<a, b, c, d, e, f, g, h>>
    <2> DEFINE S == {a, b, c, d, e, f, g, h}
    <2>1. <<a, b, c, d, e, f>> \in Seq(S) /\ <<g, h>> \in Seq(S) /\ <<a, b, c, d, e, f, g, h>> \in Seq(S)
      OBVIOUS
    <2>2. /\ Len(<<a, b, c, d, e, f, g, h>>) = Len(<<a, b, c, d, e, f>>) + Len(<<g, h>>)
          /\ \A i \in 1..Len(<<a, b, c, d, e, f, g, h>>) :
               <<a, b, c, d, e, f, g, h>>[i] = IF i <= Len(<<a, b, c, d, e, f>>) THEN <<a, b, c, d, e, f>>[i]
                        ELSE <<g, h>>[i - Len(<<a, b, c, d, e, f>>)]
      OBVIOUS
    <2> HIDE DEF S
    <2> QED
      BY <2>1, <2>2, ConcatIs
  <1> QED
    BY <1>1, <1>2, <1>3, <1>4, <1>5, <1>6, <1>7, <1>8, <1>9

\* A reindex takes the index once (spawn_reindex).
LEMMA ReindexProgram == Program("reindex") = <<Take("index"), Release("index")>>
  BY DEF Program, UpdateIndex

\* The scan takes the index for each file anew.
LEMMA ScanProgram ==
    Program("scan") = <<Take("index"), Release("index"), Take("index"), Release("index")>>
  BY ShortConcat DEF Program, UpdateIndex

\* A save's compile keeps the model for as long as javac and the index take.
LEMMA LombokProgram ==
    Program("lombok") = <<Take("project_model"), Slow, Take("index"), Release("index"),
                          Release("project_model")>>
  <1>1. <<Slow>> \o UpdateIndex = <<Slow, Take("index"), Release("index")>>
    BY ShortConcat DEF UpdateIndex
  <1>2. <<Take("project_model")>> \o <<Slow, Take("index"), Release("index")>>
        = <<Take("project_model"), Slow, Take("index"), Release("index")>>
    BY ShortConcat
  <1>3. <<Take("project_model"), Slow, Take("index"), Release("index")>>
            \o <<Release("project_model")>>
        = <<Take("project_model"), Slow, Take("index"), Release("index"),
            Release("project_model")>>
    BY ShortConcat
  <1> QED
    BY <1>1, <1>2, <1>3 DEF Program, UnderModel

\* The build tool and the sweep's javac run with no lock held.
LEMMA BuildProgram ==
    Program("build") = <<Slow, Take("project_model"), Release("project_model"),
                         Take("index"), Release("index"), Slow,
                         Take("index"), Release("index")>>
  <1> DEFINE P == Take("project_model")
             Q == Release("project_model")
             T == Take("index")
             R == Release("index")
             s == Slow
  <1>1. Program("build") = <<s>> \o ((<<P>> \o <<>>) \o <<Q>>) \o <<T, R>> \o <<s>> \o <<T, R>>
    BY DEF Program, UpdateIndex, UnderModel
  <1> HIDE DEF P, Q, T, R, s
  <1>2. (<<P>> \o <<>>) \o <<Q>> = <<P, Q>>
    BY ShortConcat
  <1>3. <<s>> \o <<P, Q>> = <<s, P, Q>>
    BY ShortConcat
  <1>4. <<s, P, Q>> \o <<T, R>> = <<s, P, Q, T, R>>
    BY ShortConcat
  <1>5. <<s, P, Q, T, R>> \o <<s>> = <<s, P, Q, T, R, s>>
    BY ShortConcat
  <1>6. <<s, P, Q, T, R, s>> \o <<T, R>> = <<s, P, Q, T, R, s, T, R>>
    BY ShortConcat
  <1>7. Program("build") = <<s, P, Q, T, R, s, T, R>>
    BY <1>1, <1>2, <1>3, <1>4, <1>5, <1>6
  <1> QED
    BY <1>7 DEF P, Q, T, R, s

\* How many steps a task of the kind may have done when it has the lock.
Having(kind, l) ==
    CASE kind = "reindex" /\ l = "index"         -> {1}
      [] kind = "scan"    /\ l = "index"         -> {1, 3}
      [] kind = "build"   /\ l = "index"         -> {4, 7}
      [] kind = "lombok"  /\ l = "index"         -> {3}
      [] kind = "build"   /\ l = "project_model" -> {2}
      [] kind = "lombok"  /\ l = "project_model" -> {1, 2, 3, 4}
      [] OTHER                                   -> {}

\* What every step of a program keeps to: it takes a lock that it does not have,
\* and none when it has the index; it lets go of what it has, and of the index at
\* once.
WellLockedStep(kind, n) ==
    LET step == Program(kind)[n + 1]
    IN  /\ step \in AStep
        /\ n \in Having(kind, "index") => step = Release("index")
        /\ \A l \in Lock :
              /\ step = Take(l) => n \notin Having(kind, l) \cup Having(kind, "index")
              /\ step = Release(l) => n \in Having(kind, l)
              /\ n + 1 \in Having(kind, l) <=>
                    step = Take(l) \/ (n \in Having(kind, l) /\ step # Release(l))

WellLocked(kind) ==
    /\ Len(Program(kind)) \in Nat
    /\ \A l \in Lock : Having(kind, l) \subseteq 1..(Len(Program(kind)) - 1)
    /\ \A n \in 0..(Len(Program(kind)) - 1) : WellLockedStep(kind, n)

\* No two steps are taken for each other.
LEMMA StepsDiffer ==
    /\ \A l, m \in Lock : Take(l) # Release(m) /\ Take(l) # Slow /\ Release(l) # Slow
    /\ Take("index") # Take("project_model") /\ Release("index") # Release("project_model")
  BY DEF Take, Release, Slow

\* The program of a reindex, position by position.
LEMMA ReindexIsWellLocked == WellLocked("reindex")
  <1> DEFINE P == Program("reindex")
  <1>1. /\ Len(P) = 2
        /\ P[1] = Take("index")
        /\ P[2] = Release("index")
    BY ReindexProgram
  <1>2. /\ Having("reindex", "index") = {1}
        /\ Having("reindex", "project_model") = {}
    BY DEF Having
  <1>3. \A l \in Lock : l = "index" \/ l = "project_model"
    BY DEF Lock
  <1> HIDE DEF P
  <1> SUFFICES ASSUME NEW n \in 0..(Len(P) - 1) PROVE WellLockedStep("reindex", n)
    BY <1>1, <1>2, <1>3 DEF WellLocked, P
  <1>4. n \in {0, 1}
    BY <1>1
  <1>5. P[n + 1] \in AStep
    BY <1>1, <1>4 DEF AStep
  <1>6. n \in Having("reindex", "index") => P[n + 1] = Release("index")
    BY <1>1, <1>2, <1>4
  <1>7. ASSUME NEW l \in Lock
        PROVE  /\ P[n + 1] = Take(l) => n \notin Having("reindex", l) \cup Having("reindex", "index")
               /\ P[n + 1] = Release(l) => n \in Having("reindex", l)
               /\ n + 1 \in Having("reindex", l) <=>
                    P[n + 1] = Take(l) \/ (n \in Having("reindex", l) /\ P[n + 1] # Release(l))
    <2>1. CASE l = "index"
      BY <1>1, <1>2, <1>4, <2>1, StepsDiffer DEF Lock
    <2>2. CASE l = "project_model"
      BY <1>1, <1>2, <1>4, <2>2, StepsDiffer DEF Lock
    <2> QED
      BY <1>3, <2>1, <2>2
  <1> QED
    BY <1>5, <1>6, <1>7 DEF WellLockedStep, P

\* That of the scan.
LEMMA ScanIsWellLocked == WellLocked("scan")
  <1> DEFINE P == Program("scan")
  <1>1. /\ Len(P) = 4
        /\ P[1] = Take("index")
        /\ P[2] = Release("index")
        /\ P[3] = Take("index")
        /\ P[4] = Release("index")
    BY ScanProgram
  <1>2. /\ Having("scan", "index") = {1, 3}
        /\ Having("scan", "project_model") = {}
    BY DEF Having
  <1>3. \A l \in Lock : l = "index" \/ l = "project_model"
    BY DEF Lock
  <1> HIDE DEF P
  <1> SUFFICES ASSUME NEW n \in 0..(Len(P) - 1) PROVE WellLockedStep("scan", n)
    BY <1>1, <1>2, <1>3 DEF WellLocked, P
  <1>4. n \in {0, 1, 2, 3}
    BY <1>1
  <1>5. P[n + 1] \in AStep
    BY <1>1, <1>4 DEF AStep
  <1>6. n \in Having("scan", "index") => P[n + 1] = Release("index")
    BY <1>1, <1>2, <1>4
  <1>7. ASSUME NEW l \in Lock
        PROVE  /\ P[n + 1] = Take(l) => n \notin Having("scan", l) \cup Having("scan", "index")
               /\ P[n + 1] = Release(l) => n \in Having("scan", l)
               /\ n + 1 \in Having("scan", l) <=>
                    P[n + 1] = Take(l) \/ (n \in Having("scan", l) /\ P[n + 1] # Release(l))
    <2>1. CASE l = "index"
      BY <1>1, <1>2, <1>4, <2>1, StepsDiffer DEF Lock
    <2>2. CASE l = "project_model"
      BY <1>1, <1>2, <1>4, <2>2, StepsDiffer DEF Lock
    <2> QED
      BY <1>3, <2>1, <2>2
  <1> QED
    BY <1>5, <1>6, <1>7 DEF WellLockedStep, P

\* That of the build resolution.
LEMMA BuildIsWellLocked == WellLocked("build")
  <1> DEFINE P == Program("build")
  <1>1. /\ Len(P) = 8
        /\ P[1] = Slow
        /\ P[2] = Take("project_model")
        /\ P[3] = Release("project_model")
        /\ P[4] = Take("index")
        /\ P[5] = Release("index")
        /\ P[6] = Slow
        /\ P[7] = Take("index")
        /\ P[8] = Release("index")
    BY BuildProgram
  <1>2. /\ Having("build", "index") = {4, 7}
        /\ Having("build", "project_model") = {2}
    BY DEF Having
  <1>3. \A l \in Lock : l = "index" \/ l = "project_model"
    BY DEF Lock
  <1> HIDE DEF P
  <1>9. Len(P) \in Nat /\ \A l \in Lock : Having("build", l) \subseteq 1..(Len(P) - 1)
    BY <1>1, <1>2, <1>3
  <1> SUFFICES ASSUME NEW n \in 0..(Len(P) - 1) PROVE WellLockedStep("build", n)
    BY <1>9 DEF WellLocked, P
  <1>4. n \in {0, 1, 2, 3, 4, 5, 6, 7}
    BY <1>1
  <1>5. P[n + 1] \in AStep
    BY <1>1, <1>4 DEF AStep
  <1>6. n \in Having("build", "index") => P[n + 1] = Release("index")
    BY <1>1, <1>2, <1>4
  <1>7. ASSUME NEW l \in Lock
        PROVE  /\ P[n + 1] = Take(l) => n \notin Having("build", l) \cup Having("build", "index")
               /\ P[n + 1] = Release(l) => n \in Having("build", l)
               /\ n + 1 \in Having("build", l) <=>
                    P[n + 1] = Take(l) \/ (n \in Having("build", l) /\ P[n + 1] # Release(l))
    <2>1. CASE l = "index"
      BY <1>1, <1>2, <1>4, <2>1, StepsDiffer DEF Lock
    <2>2. CASE l = "project_model"
      BY <1>1, <1>2, <1>4, <2>2, StepsDiffer DEF Lock
    <2> QED
      BY <1>3, <2>1, <2>2
  <1> QED
    BY <1>5, <1>6, <1>7 DEF WellLockedStep, P

\* That of a Lombok task: the index is taken and left under the model.
LEMMA LombokIsWellLocked == WellLocked("lombok")
  <1> DEFINE P == Program("lombok")
  <1>1. /\ Len(P) = 5
        /\ P[1] = Take("project_model")
        /\ P[2] = Slow
        /\ P[3] = Take("index")
        /\ P[4] = Release("index")
        /\ P[5] = Release("project_model")
    BY LombokProgram
  <1>2. /\ Having("lombok", "index") = {3}
        /\ Having("lombok", "project_model") = {1, 2, 3, 4}
    BY DEF Having
  <1>3. \A l \in Lock : l = "index" \/ l = "project_model"
    BY DEF Lock
  <1> HIDE DEF P
  <1> SUFFICES ASSUME NEW n \in 0..(Len(P) - 1) PROVE WellLockedStep("lombok", n)
    BY <1>1, <1>2, <1>3 DEF WellLocked, P
  <1>4. n \in {0, 1, 2, 3, 4}
    BY <1>1
  <1>5. P[n + 1] \in AStep
    BY <1>1, <1>4 DEF AStep
  <1>6. n \in Having("lombok", "index") => P[n + 1] = Release("index")
    BY <1>1, <1>2, <1>4
  <1>7. ASSUME NEW l \in Lock
        PROVE  /\ P[n + 1] = Take(l) => n \notin Having("lombok", l) \cup Having("lombok", "index")
               /\ P[n + 1] = Release(l) => n \in Having("lombok", l)
               /\ n + 1 \in Having("lombok", l) <=>
                    P[n + 1] = Take(l) \/ (n \in Having("lombok", l) /\ P[n + 1] # Release(l))
    <2>1. CASE l = "index"
      BY <1>1, <1>2, <1>4, <2>1, StepsDiffer DEF Lock
    <2>2. CASE l = "project_model"
      BY <1>1, <1>2, <1>4, <2>2, StepsDiffer DEF Lock
    <2> QED
      BY <1>3, <2>1, <2>2
  <1> QED
    BY <1>5, <1>6, <1>7 DEF WellLockedStep, P

\* No task takes what it holds, leaves what it has not, or ends with a lock.
LEMMA ProgramsAreWellLocked == \A t \in Task : WellLocked(Kind[t])
  BY KindOfTask, ReindexIsWellLocked, ScanIsWellLocked, BuildIsWellLocked,
     LombokIsWellLocked DEF AKind

(***************************************************************************)
(* The inductive invariant: a task has a lock exactly while its program    *)
(* says so. A panic takes a task to the end of its program, where it has   *)
(* none; a task that waits in the queue has done no step of it.            *)
(***************************************************************************)

LocksFollowPrograms ==
    \A t \in Task, l \in Lock : holder[l] = t <=> pc[t] \in Having(Kind[t], l)

QueuedIsNew == \A t \in Task : Queued(t) => pc[t] = 0

FewRun == IsFiniteSet(Running) /\ Cardinality(Running) <= MaxThreads

TypeInv ==
    /\ queue \in Seq(Task)
    /\ pc \in [Task -> Int] /\ \A t \in Task : pc[t] \in -1..Length(t)
    /\ holder \in [Lock -> Task \cup {Main, Nobody}]
    /\ poisoned \in SUBSET Lock
    /\ asking \in BOOLEAN
    /\ queries \in 0..MaxQueries

IInv == TypeInv /\ LocksFollowPrograms /\ QueuedIsNew /\ FewRun

\* The program of a task has a length, and ends with no lock taken.
LEMMA LengthIsNat ==
    ASSUME NEW t \in Task
    PROVE  /\ Length(t) = Len(Program(Kind[t])) /\ Length(t) \in Nat
           /\ \A l \in Lock : /\ Length(t) \notin Having(Kind[t], l)
                              /\ 0 \notin Having(Kind[t], l)
                              /\ -1 \notin Having(Kind[t], l)
                              /\ Having(Kind[t], l) \subseteq 1..(Length(t) - 1)
  <1>1. Length(t) = Len(Program(Kind[t])) /\ WellLocked(Kind[t])
    BY ProgramsAreWellLocked DEF Length, Steps
  <1>2. /\ Length(t) \in Nat
        /\ \A l \in Lock : Having(Kind[t], l) \subseteq 1..(Length(t) - 1)
    BY <1>1 DEF WellLocked
  <1> QED
    BY <1>1, <1>2

\* A task that runs stands before a step of its program.
LEMMA RunningStep ==
    ASSUME TypeInv, NEW t \in Task, t \in Running
    PROVE  /\ pc[t] \in 0..(Length(t) - 1) /\ pc[t] + 1 \in 0..Length(t)
           /\ WellLockedStep(Kind[t], pc[t])
           /\ Step(t) = Program(Kind[t])[pc[t] + 1]
           /\ ~Queued(t)
  <1>1. Length(t) = Len(Program(Kind[t])) /\ WellLocked(Kind[t])
    BY ProgramsAreWellLocked, LengthIsNat
  <1>2. Length(t) \in Nat
    BY LengthIsNat
  <1>3. pc[t] \in -1..Length(t) /\ pc[t] >= 0 /\ pc[t] # Length(t)
    BY DEF TypeInv, Running, Spawned, Done
  <1>4. pc[t] \in 0..(Length(t) - 1) /\ pc[t] + 1 \in 0..Length(t)
    BY <1>2, <1>3
  <1> QED
    BY <1>1, <1>4 DEF WellLocked, Step, Steps, Running

\* The steps that take a lock and that release one.
LEMMA StepIsOne ==
    ASSUME NEW step \in AStep
    PROVE  /\ step.does = "take" => step.lock \in Lock /\ step = Take(step.lock)
           /\ step.does = "release" => step.lock \in Lock /\ step = Release(step.lock)
  BY DEF AStep, Take, Release, Slow, Lock

\* No more tasks run than before when none is started.
LEMMA FewerRun ==
    ASSUME FewRun, Running' \subseteq Running
    PROVE  FewRun'
  <1>1. IsFiniteSet(Running') /\ Cardinality(Running') <= Cardinality(Running)
    BY FS_Subset DEF FewRun
  <1>2. Cardinality(Running) \in Nat /\ Cardinality(Running') \in Nat /\ MaxThreads \in Nat
    BY <1>1, FS_CardinalityType, TaskPoolAssumption DEF FewRun
  <1> QED
    BY <1>1, <1>2 DEF FewRun

\* Who does a step of its program and goes on starts nothing.
LEMMA AdvanceEffect ==
    ASSUME IInv, NEW t \in Task, t \in Running, Advance(t),
           holder' \in [Lock -> Task \cup {Main, Nobody}]
    PROVE  /\ TypeInv' /\ QueuedIsNew' /\ FewRun'
           /\ pc'[t] = pc[t] + 1
           /\ \A u \in Task \ {t} : pc'[u] = pc[u]
  <1> USE DEF IInv
  <1>1. /\ pc' = [pc EXCEPT ![t] = pc[t] + 1]
        /\ UNCHANGED <<queue, poisoned, asking, queries>>
    BY DEF Advance
  <1>2. /\ pc[t] \in 0..(Length(t) - 1) /\ pc[t] + 1 \in 0..Length(t)
        /\ ~Queued(t)
    BY RunningStep
  <1>3. /\ pc'[t] = pc[t] + 1
        /\ \A u \in Task \ {t} : pc'[u] = pc[u]
        /\ pc' \in [Task -> Int]
    BY <1>1, <1>2 DEF TypeInv
  <1>4. \A u \in Task : pc'[u] \in -1..Length(u)
    BY <1>2, <1>3 DEF TypeInv
  <1>5. TypeInv'
    BY <1>1, <1>3, <1>4 DEF TypeInv, Length, Steps
  <1>6. \A u \in Task : Queued(u)' <=> Queued(u)
    BY <1>1 DEF Queued
  <1>7. QueuedIsNew'
    BY <1>2, <1>3, <1>6 DEF QueuedIsNew
  <1>8. Running' \subseteq Running
    BY <1>3, <1>6 DEF Running, Spawned, Done, Length, Steps
  <1> QED
    BY <1>3, <1>5, <1>7, <1>8, FewerRun

\* Before anything is spawned nothing is held, queued or asked for.
LEMMA InvInit == Init => IInv
  <1> SUFFICES ASSUME Init PROVE IInv
    OBVIOUS
  <1>1. \A t \in Task : -1 \in -1..Length(t)
    BY LengthIsNat
  <1>2. TypeInv
    <2>1. <<>> \in Seq(Task) /\ 0 \in 0..MaxQueries /\ -1 \in Int
      BY TaskPoolAssumption
    <2> QED
      BY <1>1, <2>1 DEF Init, TypeInv
  <1>3. LocksFollowPrograms
    <2> SUFFICES ASSUME NEW t \in Task, NEW l \in Lock
                 PROVE  holder[l] # t /\ pc[t] \notin Having(Kind[t], l)
      BY DEF LocksFollowPrograms
    <2>1. holder[l] = Nobody /\ pc[t] = -1
      BY DEF Init
    <2>2. -1 \notin Having(Kind[t], l)
      BY LengthIsNat
    <2> QED
      BY <2>1, <2>2, TaskPoolAssumption
  <1>4. QueuedIsNew
    BY DEF Init, QueuedIsNew, Queued
  <1>5. FewRun
    <2>1. Running = {}
      BY DEF Init, Running, Spawned
    <2> QED
      BY <2>1, FS_EmptySet, TaskPoolAssumption DEF FewRun
  <1> QED
    BY <1>2, <1>3, <1>4, <1>5 DEF IInv

\* A task takes what it does not have yet, and only when nobody has it.
LEMMA InvTakeLock == ASSUME IInv, NEW t \in Task, TakeLock(t) PROVE IInv'
  <1> DEFINE l == Step(t).lock
  <1>1. t \in Running /\ Advance(t) /\ holder' = [holder EXCEPT ![l] = t] /\ holder[l] = Nobody
    BY DEF TakeLock, CanLock
  <1>2. WellLockedStep(Kind[t], pc[t]) /\ Step(t) = Program(Kind[t])[pc[t] + 1]
    BY <1>1, RunningStep DEF IInv
  <1>3. l \in Lock /\ Step(t) = Take(l)
    BY <1>2, StepIsOne DEF TakeLock, WellLockedStep
  <1> HIDE DEF l
  <1>4. holder' \in [Lock -> Task \cup {Main, Nobody}]
    BY <1>1, <1>3 DEF IInv, TypeInv
  <1>5. /\ TypeInv' /\ QueuedIsNew' /\ FewRun'
        /\ pc'[t] = pc[t] + 1
        /\ \A u \in Task \ {t} : pc'[u] = pc[u]
    BY <1>1, <1>4, AdvanceEffect
  <1>6. ASSUME NEW u \in Task, NEW m \in Lock
        PROVE  holder'[m] = u <=> pc'[u] \in Having(Kind[u], m)
    <2>1. holder[m] = u <=> pc[u] \in Having(Kind[u], m)
      BY DEF IInv, LocksFollowPrograms
    <2>2. holder'[m] = IF m = l THEN t ELSE holder[m]
      BY <1>1, <1>3 DEF IInv, TypeInv
    <2>3. CASE u # t
      BY <1>1, <1>5, <2>1, <2>2, <2>3, TaskPoolAssumption
    <2>4. CASE u = t
      BY <1>2, <1>3, <1>5, <2>1, <2>2, <2>4, StepsDiffer DEF WellLockedStep, Lock
    <2> QED
      BY <2>3, <2>4
  <1> QED
    BY <1>5, <1>6 DEF IInv, LocksFollowPrograms

\* A task lets go of what it has.
LEMMA InvReleaseLock == ASSUME IInv, NEW t \in Task, ReleaseLock(t) PROVE IInv'
  <1> DEFINE l == Step(t).lock
  <1>1. t \in Running /\ Advance(t) /\ holder' = [holder EXCEPT ![l] = Nobody]
    BY DEF ReleaseLock
  <1>2. WellLockedStep(Kind[t], pc[t]) /\ Step(t) = Program(Kind[t])[pc[t] + 1]
    BY <1>1, RunningStep DEF IInv
  <1>3. l \in Lock /\ Step(t) = Release(l)
    BY <1>2, StepIsOne DEF ReleaseLock, WellLockedStep
  <1> HIDE DEF l
  <1>4. holder' \in [Lock -> Task \cup {Main, Nobody}]
    BY <1>1, <1>3 DEF IInv, TypeInv
  <1>5. /\ TypeInv' /\ QueuedIsNew' /\ FewRun'
        /\ pc'[t] = pc[t] + 1
        /\ \A u \in Task \ {t} : pc'[u] = pc[u]
    BY <1>1, <1>4, AdvanceEffect
  <1>6. holder[l] = t
    BY <1>2, <1>3 DEF WellLockedStep, IInv, LocksFollowPrograms
  <1>7. ASSUME NEW u \in Task, NEW m \in Lock
        PROVE  holder'[m] = u <=> pc'[u] \in Having(Kind[u], m)
    <2>1. holder[m] = u <=> pc[u] \in Having(Kind[u], m)
      BY DEF IInv, LocksFollowPrograms
    <2>2. holder'[m] = IF m = l THEN Nobody ELSE holder[m]
      BY <1>1, <1>3 DEF IInv, TypeInv
    <2>3. CASE u # t
      BY <1>5, <1>6, <2>1, <2>2, <2>3, TaskPoolAssumption
    <2>4. CASE u = t
      BY <1>2, <1>3, <1>5, <2>1, <2>2, <2>4, StepsDiffer, TaskPoolAssumption
      DEF WellLockedStep, Lock
    <2> QED
      BY <2>3, <2>4
  <1> QED
    BY <1>5, <1>7 DEF IInv, LocksFollowPrograms

\* A program that ends changes no lock.
LEMMA InvFinishSlow == ASSUME IInv, NEW t \in Task, FinishSlow(t) PROVE IInv'
  <1>1. t \in Running /\ Advance(t) /\ holder' = holder /\ Step(t) = Slow
    BY DEF FinishSlow
  <1>2. WellLockedStep(Kind[t], pc[t]) /\ Step(t) = Program(Kind[t])[pc[t] + 1]
    BY <1>1, RunningStep DEF IInv
  <1>3. /\ TypeInv' /\ QueuedIsNew' /\ FewRun'
        /\ pc'[t] = pc[t] + 1
        /\ \A u \in Task \ {t} : pc'[u] = pc[u]
    BY <1>1, AdvanceEffect DEF IInv, TypeInv
  <1>4. ASSUME NEW u \in Task, NEW m \in Lock
        PROVE  holder'[m] = u <=> pc'[u] \in Having(Kind[u], m)
    BY <1>1, <1>2, <1>3, StepsDiffer DEF WellLockedStep, IInv, LocksFollowPrograms
  <1> QED
    BY <1>3, <1>4 DEF IInv, LocksFollowPrograms

\* Whatever a task has is let go of when it panics.
LEMMA InvPanic == ASSUME IInv, NEW t \in Task, Panic(t) PROVE IInv'
  <1>1. /\ t \in Running
        /\ pc' = [pc EXCEPT ![t] = Length(t)]
        /\ UNCHANGED <<queue, asking, queries>>
        /\ holder' = [m \in Lock |-> IF holder[m] = t THEN Nobody ELSE holder[m]]
        /\ poisoned' \in SUBSET Lock
    BY DEF Panic, IInv, TypeInv
  <1>2. Length(t) \in Nat /\ \A l \in Lock : Length(t) \notin Having(Kind[t], l)
    BY LengthIsNat
  <1>3. /\ pc'[t] = Length(t)
        /\ \A u \in Task \ {t} : pc'[u] = pc[u]
        /\ pc' \in [Task -> Int]
    BY <1>1, <1>2 DEF IInv, TypeInv
  <1>4. holder' \in [Lock -> Task \cup {Main, Nobody}]
    BY <1>1 DEF IInv, TypeInv
  <1>5. ASSUME NEW u \in Task PROVE pc'[u] \in -1..Length(u)
    <2>1. CASE u = t
      BY <1>2, <1>3, <2>1
    <2>2. CASE u # t
      BY <1>3, <2>2 DEF IInv, TypeInv
    <2> QED
      BY <2>1, <2>2
  <1>6. TypeInv'
    BY <1>1, <1>3, <1>4, <1>5 DEF IInv, TypeInv, Length, Steps
  <1>7. \A u \in Task : Queued(u)' <=> Queued(u)
    BY <1>1 DEF Queued
  <1>8. ~Queued(t)
    BY <1>1 DEF Running
  <1>9. QueuedIsNew'
    BY <1>3, <1>7, <1>8 DEF IInv, QueuedIsNew
  <1>10. Running' \subseteq Running
    BY <1>1, <1>3, <1>7 DEF Running, Spawned, Done, Length, Steps
  <1>11. ASSUME NEW u \in Task, NEW m \in Lock
         PROVE  holder'[m] = u <=> pc'[u] \in Having(Kind[u], m)
    <2>1. holder[m] = u <=> pc[u] \in Having(Kind[u], m)
      BY DEF IInv, LocksFollowPrograms
    <2>2. CASE u # t
      BY <1>1, <1>3, <2>1, <2>2, TaskPoolAssumption
    <2>3. CASE u = t
      BY <1>1, <1>2, <1>3, <2>3, TaskPoolAssumption
    <2> QED
      BY <2>2, <2>3
  <1> QED
    BY <1>6, <1>9, <1>10, <1>11, FewerRun DEF IInv, LocksFollowPrograms

\* A task that is spawned waits before its first step.
LEMMA InvSpawn == ASSUME IInv, NEW t \in Task, Spawn(t) PROVE IInv'
  <1>1. /\ pc' = [pc EXCEPT ![t] = 0]
        /\ queue' = Append(queue, t)
        /\ UNCHANGED <<holder, poisoned, asking, queries>>
        /\ pc[t] = -1
    BY DEF Spawn, Spawned, IInv, TypeInv
  <1>2. /\ Length(t) \in Nat
        /\ \A l \in Lock : 0 \notin Having(Kind[t], l) /\ -1 \notin Having(Kind[t], l)
    BY LengthIsNat
  <1>3. /\ pc'[t] = 0
        /\ \A u \in Task \ {t} : pc'[u] = pc[u]
        /\ pc' \in [Task -> Int]
    BY <1>1 DEF IInv, TypeInv
  <1>4. /\ queue' \in Seq(Task)
        /\ \A u \in Task : Queued(u)' <=> Queued(u) \/ u = t
    <2>1. /\ queue' \in Seq(Task) /\ Len(queue') = Len(queue) + 1
          /\ \A i \in 1..Len(queue) : queue'[i] = queue[i]
          /\ queue'[Len(queue) + 1] = t
      BY <1>1, AppendProperties DEF IInv, TypeInv
    <2>2. /\ DOMAIN queue = 1..Len(queue) /\ DOMAIN queue' = 1..Len(queue')
          /\ Len(queue) \in Nat
      BY <2>1, LenProperties DEF IInv, TypeInv
    <2> QED
      BY <2>1, <2>2 DEF Queued
  <1>5. ASSUME NEW u \in Task PROVE pc'[u] \in -1..Length(u)
    <2>1. CASE u = t
      BY <1>2, <1>3, <2>1
    <2>2. CASE u # t
      BY <1>3, <2>2 DEF IInv, TypeInv
    <2> QED
      BY <2>1, <2>2
  <1>6. TypeInv'
    BY <1>1, <1>3, <1>4, <1>5 DEF IInv, TypeInv, Length, Steps
  <1>7. QueuedIsNew'
    BY <1>3, <1>4 DEF IInv, QueuedIsNew
  <1>8. Running' \subseteq Running
    BY <1>3, <1>4 DEF Running, Spawned, Done, Length, Steps
  <1>9. LocksFollowPrograms'
    BY <1>1, <1>2, <1>3 DEF IInv, LocksFollowPrograms
  <1> QED
    BY <1>6, <1>7, <1>8, <1>9, FewerRun DEF IInv

\* A thread that is free takes one task more.
LEMMA InvStart == ASSUME IInv, Start PROVE IInv'
  <1>1. /\ queue # <<>> /\ queue' = Tail(queue)
        /\ Cardinality(Running) < MaxThreads
        /\ UNCHANGED <<pc, holder, poisoned, asking, queries>>
    BY DEF Start
  <1>2. /\ queue' \in Seq(Task)
        /\ \A u \in Task : /\ Queued(u)' => Queued(u)
                           /\ Queued(u) => Queued(u)' \/ u = queue[1]
    <2>1. /\ queue' \in Seq(Task) /\ Len(queue') = Len(queue) - 1
          /\ \A i \in 1..Len(queue') : queue'[i] = queue[i + 1]
      BY <1>1, HeadTailProperties DEF IInv, TypeInv
    <2>2. /\ DOMAIN queue = 1..Len(queue) /\ DOMAIN queue' = 1..Len(queue')
          /\ Len(queue) \in Nat
      BY <2>1, LenProperties DEF IInv, TypeInv
    <2>3. ASSUME NEW u \in Task, NEW i \in 1..Len(queue), queue[i] = u, i # 1
          PROVE  Queued(u)'
      <3>1. i - 1 \in 1..Len(queue') /\ queue'[i - 1] = u
        BY <2>1, <2>2, <2>3
      <3> QED
        BY <2>2, <3>1 DEF Queued
    <2>4. ASSUME NEW u \in Task, NEW i \in 1..Len(queue'), queue'[i] = u
          PROVE  Queued(u)
      <3>1. i + 1 \in 1..Len(queue) /\ queue[i + 1] = u
        BY <2>1, <2>2, <2>4
      <3> QED
        BY <2>2, <3>1 DEF Queued
    <2>5. ASSUME NEW u \in Task, Queued(u) PROVE Queued(u)' \/ u = queue[1]
      <3>1. PICK i \in 1..Len(queue) : queue[i] = u
        BY <2>2, <2>5 DEF Queued
      <3> QED
        BY <2>3, <3>1
    <2>6. ASSUME NEW u \in Task, Queued(u)' PROVE Queued(u)
      <3>1. PICK i \in 1..Len(queue') : queue'[i] = u
        BY <2>2, <2>6 DEF Queued
      <3> QED
        BY <2>4, <3>1
    <2> QED
      BY <2>1, <2>5, <2>6
  <1>3. TypeInv' /\ QueuedIsNew' /\ LocksFollowPrograms'
    BY <1>1, <1>2 DEF IInv, TypeInv, QueuedIsNew, LocksFollowPrograms, Length, Steps
  <1>4. Running' \subseteq Running \cup {queue[1]}
    BY <1>1, <1>2 DEF Running, Spawned, Done, Length, Steps
  <1>5. /\ IsFiniteSet(Running \cup {queue[1]})
        /\ Cardinality(Running \cup {queue[1]}) <= Cardinality(Running) + 1
        /\ Cardinality(Running) \in Nat
    <2>1. IsFiniteSet(Running)
      BY DEF IInv, FewRun
    <2>2. /\ IsFiniteSet(Running \cup {queue[1]})
          /\ Cardinality(Running \cup {queue[1]})
             = IF queue[1] \in Running THEN Cardinality(Running) ELSE Cardinality(Running) + 1
          /\ Cardinality(Running) \in Nat
      BY <2>1, FS_AddElement, FS_CardinalityType
    <2> QED
      BY <2>2
  <1>6. /\ IsFiniteSet(Running')
        /\ Cardinality(Running') <= Cardinality(Running \cup {queue[1]})
    BY <1>4, <1>5, FS_Subset
  <1>7. /\ Cardinality(Running') \in Nat /\ Cardinality(Running \cup {queue[1]}) \in Nat
        /\ MaxThreads \in Nat
    BY <1>5, <1>6, FS_CardinalityType, TaskPoolAssumption
  <1>8. FewRun'
    BY <1>1, <1>5, <1>6, <1>7 DEF FewRun
  <1> QED
    BY <1>3, <1>8 DEF IInv

\* The main thread has no program: it takes and releases the index beside them.
LEMMA InvMain == ASSUME IInv, Ask \/ Query \/ Answer \/ UNCHANGED vars PROVE IInv'
  <1>1. /\ UNCHANGED <<queue, pc, poisoned>>
        /\ asking' \in BOOLEAN /\ queries' \in 0..MaxQueries
    <2> USE TaskPoolAssumption DEF IInv, TypeInv
    <2>1. CASE Ask
      BY <2>1 DEF Ask
    <2>2. CASE Query \/ Answer \/ UNCHANGED vars
      BY <2>2 DEF Query, Answer, vars
    <2> QED
      BY <2>1, <2>2
  <1>2. \/ holder' = holder
        \/ holder["index"] = Nobody /\ holder' = [holder EXCEPT !["index"] = Main]
        \/ holder["index"] = Main /\ holder' = [holder EXCEPT !["index"] = Nobody]
    BY DEF Ask, Query, Answer, vars, CanLock
  <1>3. holder' \in [Lock -> Task \cup {Main, Nobody}]
    BY <1>2 DEF IInv, TypeInv
  <1>4. \A t \in Task, l \in Lock : holder'[l] = t <=> holder[l] = t
    BY <1>2, TaskPoolAssumption DEF IInv, TypeInv
  <1>5. \A u \in Task : Queued(u)' <=> Queued(u)
    BY <1>1 DEF Queued
  <1>6. Running' \subseteq Running
    BY <1>1, <1>5 DEF Running, Spawned, Done, Length, Steps
  <1>7. TypeInv' /\ QueuedIsNew' /\ LocksFollowPrograms'
    BY <1>1, <1>3, <1>4, <1>5
    DEF IInv, TypeInv, QueuedIsNew, LocksFollowPrograms, Length, Steps
  <1> QED
    BY <1>6, <1>7, FewerRun DEF IInv

\* One lemma per action; a stutter leaves all as it is.
LEMMA InvStep == IInv /\ [Next]_vars => IInv'
  BY InvTakeLock, InvReleaseLock, InvFinishSlow, InvPanic, InvSpawn, InvStart, InvMain
  DEF Next

\* The inductive invariant, in every state of every behaviour.
LEMMA Invariant == Spec => []IInv
  BY InvInit, InvStep, PTL DEF Spec

(***************************************************************************)
(* The theorems.                                                           *)
(***************************************************************************)

\* No behaviour takes a variable of the pool out of its type, and no more tasks
\* run than there are threads.
THEOREM TypeCorrect == Spec => []TypeOK
  <1>1. IInv => TypeOK
    BY DEF IInv, TypeInv, FewRun, TypeOK
  <1> QED
    BY <1>1, Invariant, PTL

\* Who has the index lets go of it next, whatever the tasks are, in whatever order
\* they run and wherever they panic. (compile_lombok_file, update_file's callers)
THEOREM IndexHeldBriefly == Spec => []IndexIsHeldBriefly
  <1>1. IInv => IndexIsHeldBriefly
    <2> SUFFICES ASSUME IInv, NEW t \in Task, holder["index"] = t
                 PROVE  t \in Running /\ Step(t) = Release("index")
      BY DEF IndexIsHeldBriefly
    <2>1. pc[t] \in Having(Kind[t], "index")
      BY DEF IInv, LocksFollowPrograms, Lock
    <2>2. Length(t) \in Nat /\ pc[t] \in 1..(Length(t) - 1)
      BY <2>1, LengthIsNat DEF Lock
    <2>3. t \in Running
      BY <2>2 DEF Running, Spawned, Done, IInv, QueuedIsNew
    <2> QED
      BY <2>1, <2>3, RunningStep DEF IInv, WellLockedStep
  <1> QED
    BY <1>1, Invariant, PTL

\* A task that has a lock and wants another has that of the project model and
\* wants the index: never the other way round, and never one it has, so no tasks
\* ever wait for one another in a circle.
LocksInOneOrder ==
    \A t \in Running, l, m \in Lock :
        holder[l] = t /\ Step(t) = Take(m) => l = "project_model" /\ m = "index"

\* The locks are taken in one order by all tasks, the one lock() relies on to be
\* free of deadlocks. (compile_lombok_file takes the index under project_model;
\* trigger_build_resolution lets go of project_model before it indexes)
THEOREM NoCircularWait == Spec => []LocksInOneOrder
  <1>1. IInv => LocksInOneOrder
    <2> SUFFICES ASSUME IInv, NEW t \in Running, NEW l \in Lock, NEW m \in Lock,
                        holder[l] = t, Step(t) = Take(m)
                 PROVE  l = "project_model" /\ m = "index"
      BY DEF LocksInOneOrder
    <2>1. t \in Task
      BY DEF Running
    <2>2. pc[t] \in Having(Kind[t], l)
      BY <2>1 DEF IInv, LocksFollowPrograms
    <2>3. pc[t] \notin Having(Kind[t], m) \cup Having(Kind[t], "index")
      BY <2>1, RunningStep DEF IInv, WellLockedStep
    <2> QED
      BY <2>2, <2>3 DEF Lock
  <1> QED
    BY <1>1, Invariant, PTL
============================================================================
