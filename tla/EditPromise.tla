--------------------------- MODULE EditPromise ---------------------------
(***************************************************************************)
(* What the index promises about edited files, whatever the tasks that     *)
(* update it: a file shows nothing, then content read from disk, then      *)
(* edits of it, each newer than the one shown before; and in the end the   *)
(* newest edit, unless extraction panics on it.                            *)
(* Newer means a later didOpen of any document or, within one session of   *)
(* the document, a higher version (src/workspace_index.rs, Applied).       *)
(***************************************************************************)
EXTENDS Integers

CONSTANTS Uri, Text, NoText, Panicking, Version, MaxGeneration

VARIABLES
    edits,  \* every edit made so far
    shown   \* what the index shows for each file

Edit == [uri : Uri, generation : 1..MaxGeneration, version : Version, text : Text]
Content(g, v, t) == [generation |-> g, version |-> v, symbols |-> t]
Nothing == Content(-1, 0, NoText)
ContentOf(e) == Content(e.generation, e.version, e.text)

Newer(a, b) ==
    \/ a.generation > b.generation
    \/ a.generation = b.generation /\ a.version > b.version

PromiseInit ==
    /\ edits = {}
    /\ shown = [u \in Uri |-> Nothing]

Newest(e) == \A f \in edits : f.uri = e.uri => f = e \/ Newer(e, f)

Issue(e) ==
    /\ \A f \in edits : f.uri = e.uri => Newer(e, f)
    /\ edits' = edits \cup {e}
    /\ UNCHANGED shown

ShowDisk(u, t) ==
    /\ shown[u].generation <= 0
    /\ shown' = [shown EXCEPT ![u] = Content(0, 0, t)]
    /\ UNCHANGED edits

ShowEdit(e) ==
    /\ e \in edits
    /\ Newer(e, shown[e.uri])
    /\ shown' = [shown EXCEPT ![e.uri] = ContentOf(e)]
    /\ UNCHANGED edits

ShowNewest(u) ==
    \E e \in edits :
        e.uri = u /\ Newest(e) /\ e.text \notin Panicking /\ ShowEdit(e)

PromiseNext ==
    \/ \E e \in Edit : Issue(e) \/ ShowEdit(e)
    \/ \E u \in Uri, t \in Text : ShowDisk(u, t)

promiseVars == <<edits, shown>>

PromiseSafety == PromiseInit /\ [][PromiseNext]_promiseVars

Promise == PromiseSafety /\ \A u \in Uri : WF_promiseVars(ShowNewest(u))
==========================================================================
