----------------------------- MODULE TaskPool -----------------------------
(***************************************************************************)
(* Who waits for whom in the server: the tasks that src/server.rs spawns   *)
(* on the blocking pool, the main thread that answers queries, and the two *)
(* mutexes they share, `index' and `project_model'.                        *)
(*                                                                         *)
(* A task is the sequence of what it does that takes long or takes a lock: *)
(* `Slow' runs another program (javac, the build tool, jimage) or walks    *)
(* the disk, and may take for ever.                                        *)
(***************************************************************************)
EXTENDS Integers, Sequences, FiniteSets

CONSTANTS
    Kind,       \* the kind of each task spawned: a function on the tasks
    MaxThreads, \* threads of the pool
    MaxQueries, \* bound on the queries of the main thread
    Main,       \* the main thread
    Nobody

Task == DOMAIN Kind

ASSUME TaskPoolAssumption ==
    /\ \A t \in Task : Kind[t] \in {"reindex", "scan", "build", "lombok"}
    /\ MaxThreads \in Nat \ {0}
    /\ MaxQueries \in Nat
    /\ Main \notin Task
    /\ Nobody \notin Task \cup {Main}

VARIABLES
    queue,      \* the tasks no thread has taken yet, in order
    pc,         \* how much of its program each task has done
    holder,     \* who holds each lock
    poisoned,   \* the locks somebody panicked under
    asking,     \* whether the main thread waits for the index
    queries     \* how many queries it has begun

vars == <<queue, pc, holder, poisoned, asking, queries>>

Lock == {"index", "project_model"}

Take(l) == [does |-> "take", lock |-> l]
Release(l) == [does |-> "release", lock |-> l]
Slow == [does |-> "slow", lock |-> "none"]

UpdateIndex == <<Take("index"), Release("index")>>
UnderModel(steps) == <<Take("project_model")>> \o steps \o <<Release("project_model")>>

\* Mutant: the index locked before the compile that fills it.
ProgramIndexFirst(kind) ==
    CASE kind = "reindex" -> UpdateIndex
      [] kind = "scan"    -> UpdateIndex \o UpdateIndex
      [] kind = "build"   -> <<Slow>> \o UnderModel(<<>>) \o UpdateIndex
                             \o <<Slow>> \o UpdateIndex
      [] kind = "lombok"  -> UnderModel(<<Take("index"), Slow, Release("index")>>)

\* Mutant: the build publishes its model while it holds the index.
ProgramCrossed(kind) ==
    CASE kind = "reindex" -> UpdateIndex
      [] kind = "scan"    -> UpdateIndex \o UpdateIndex
      [] kind = "build"   -> <<Slow, Take("index")>> \o UnderModel(<<>>)
                             \o <<Release("index"), Slow>> \o UpdateIndex
      [] kind = "lombok"  -> UnderModel(<<Slow>> \o UpdateIndex)

\* A scan updates file by file, here two; a build publishes the model, then
\* indexes, then sweeps without the model's lock. (A Lombok task that comes too
\* early for a model takes its lock as a build does, for nothing.)
Program(kind) ==
    CASE kind = "reindex" -> UpdateIndex
      [] kind = "scan"    -> UpdateIndex \o UpdateIndex
      [] kind = "build"   -> <<Slow>> \o UnderModel(<<>>) \o UpdateIndex
                             \o <<Slow>> \o UpdateIndex
      [] kind = "lombok"  -> UnderModel(<<Slow>> \o UpdateIndex)

Steps == [t \in Task |-> Program(Kind[t])]
Length(t) == Len(Steps[t])
Step(t) == Steps[t][pc[t] + 1]
Queued(t) == \E i \in DOMAIN queue : queue[i] = t
Spawned(t) == pc[t] >= 0
Done(t) == pc[t] = Length(t)
Running == {t \in Task : Spawned(t) /\ ~Queued(t) /\ ~Done(t)}

TypeOK ==
    /\ queue \in Seq(Task)
    /\ \A t \in Task : pc[t] \in -1..Length(t)
    /\ holder \in [Lock -> Task \cup {Main, Nobody}]
    /\ poisoned \in SUBSET Lock
    /\ asking \in BOOLEAN
    /\ queries \in 0..MaxQueries
    /\ Cardinality(Running) <= MaxThreads

Init ==
    /\ queue = <<>>
    /\ pc = [t \in Task |-> -1]
    /\ holder = [l \in Lock |-> Nobody]
    /\ poisoned = {}
    /\ asking = FALSE
    /\ queries = 0

---------------------------------------------------------------------------

\* The main thread spawns and goes on: it never waits for a task.
Spawn(t) ==
    /\ ~Spawned(t)
    /\ ~asking /\ holder["index"] # Main
    /\ pc' = [pc EXCEPT ![t] = 0]
    /\ queue' = Append(queue, t)
    /\ UNCHANGED <<holder, poisoned, asking, queries>>

\* Mutant: the pool starts a thread for every task.
StartUnbounded ==
    /\ queue # <<>>
    /\ queue' = Tail(queue)
    /\ UNCHANGED <<pc, holder, poisoned, asking, queries>>

\* A free thread takes the first task of the queue.
Start ==
    /\ queue # <<>>
    /\ Cardinality(Running) < MaxThreads
    /\ queue' = Tail(queue)
    /\ UNCHANGED <<pc, holder, poisoned, asking, queries>>

\* Mutant: a poisoned mutex is given up on.
CanLockUnpoisoned(l) == holder[l] = Nobody /\ l \notin poisoned

\* lock(): a poisoned mutex is as good as any other.
CanLock(l) == holder[l] = Nobody

Advance(t) ==
    /\ pc' = [pc EXCEPT ![t] = @ + 1]
    /\ UNCHANGED <<queue, poisoned, asking, queries>>

TakeLock(t) ==
    /\ t \in Running
    /\ Step(t).does = "take"
    /\ CanLock(Step(t).lock)
    /\ holder' = [holder EXCEPT ![Step(t).lock] = t]
    /\ Advance(t)

ReleaseLock(t) ==
    /\ t \in Running
    /\ Step(t).does = "release"
    /\ holder' = [holder EXCEPT ![Step(t).lock] = Nobody]
    /\ Advance(t)

FinishSlow(t) ==
    /\ t \in Running
    /\ Step(t) = Slow
    /\ Advance(t)
    /\ UNCHANGED holder

\* A panic is caught at the edge of the task: what it holds is released, and
\* poisoned, and the rest of its program is never run.
Panic(t) ==
    /\ t \in Running
    /\ LET held == {l \in Lock : holder[l] = t}
       IN  /\ holder' = [l \in Lock |-> IF l \in held THEN Nobody ELSE holder[l]]
           /\ poisoned' = poisoned \cup held
    /\ pc' = [pc EXCEPT ![t] = Length(t)]
    /\ UNCHANGED <<queue, asking, queries>>

\* goto-definition, hover and completion take the index, and only the index.
Ask ==
    /\ ~asking /\ holder["index"] # Main
    /\ queries < MaxQueries
    /\ asking' = TRUE
    /\ queries' = queries + 1
    /\ UNCHANGED <<queue, pc, holder, poisoned>>

Query ==
    /\ asking
    /\ CanLock("index")
    /\ asking' = FALSE
    /\ holder' = [holder EXCEPT !["index"] = Main]
    /\ UNCHANGED <<queue, pc, poisoned, queries>>

Answer ==
    /\ holder["index"] = Main
    /\ holder' = [holder EXCEPT !["index"] = Nobody]
    /\ UNCHANGED <<queue, pc, poisoned, asking, queries>>

Next ==
    \/ Start \/ Ask \/ Query \/ Answer
    \/ \E t \in Task : Spawn(t) \/ TakeLock(t) \/ ReleaseLock(t) \/ FinishSlow(t) \/ Panic(t)

Spec == Init /\ [][Next]_vars

\* Threads run, and a mutex that is free is taken by somebody who waits for it;
\* nothing is assumed of the slow steps.
ThreadFairness ==
    /\ WF_vars(Start)
    /\ \A t \in Task : WF_vars(TakeLock(t)) /\ WF_vars(ReleaseLock(t))
    /\ WF_vars(Query) /\ WF_vars(Answer)

\* The programs the tasks run end.
SlowFairness == \A t \in Task : WF_vars(FinishSlow(t))

FairSpec == Spec /\ ThreadFairness

---------------------------------------------------------------------------
(* Properties.                                                             *)

\* "Interactive requests are answered from whatever's already resolved, never
\* blocked on a slower stage" (README.md:30): a query gets the index even when
\* javac or the build tool never comes back.
QueriesAreAnswered == asking ~> holder["index"] = Main

\* Who has the index lets go of it next: nobody takes another lock, runs another
\* program or walks the disk with it. (compile_lombok_file, update_file's callers)
IndexIsHeldBriefly ==
    \A t \in Task : holder["index"] = t => t \in Running /\ Step(t) = Release("index")

\* An edit reaches the index though a compile never comes back and other tasks
\* panic, as long as the pool has a thread more than there are tasks that hang.
\* (spawn_reindex, lock)
ReindexesRun ==
    \A t \in Task : Kind[t] = "reindex" /\ Spawned(t) ~> Done(t)

\* As long as the programs they run end, no order of locks and no panic under one
\* leaves a task waiting for ever.
TasksEnd == SlowFairness => \A t \in Task : Spawned(t) ~> Done(t)
===========================================================================
