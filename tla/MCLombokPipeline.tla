------------------------- MODULE MCLombokPipeline -------------------------
(***************************************************************************)
(* Instances of LombokPipeline small enough for TLC.                       *)
(***************************************************************************)
EXTENDS LombokPipeline

WholeWorkspace == {Uri}
Standalone == [u \in Uri |-> {}]
Mutual == [u \in Uri |-> Uri \ {u}]

\* The entries of the workspace files and those of the stubs do not meet, so
\* the tasks that index the former are explored no further than this; the
\* instances of Server explore them all.
IndexingElsewhere ==
    /\ Cardinality(reindexTasks) <= 1
    /\ \A i \in Task : scans[i].phase # "walking"

\* Two files of which one is only ever swept, in a session that stays up and
\* a workspace that stays whole: enough for a sweep and a save to race.
SweptBesideSaved ==
    /\ IndexingElsewhere
    /\ state # "ShuttingDown"
    /\ workspaceRoot = NoRoot => state = "Uninitialized"
    /\ documents[CHOOSE u \in Uri : TRUE] = NoText
    /\ \A u \in Uri : disk[u] # NoText
===========================================================================
