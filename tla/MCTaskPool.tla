---------------------------- MODULE MCTaskPool ----------------------------
(***************************************************************************)
(* An instance of TaskPool small enough for TLC.                           *)
(***************************************************************************)
EXTENDS TaskPool, TLC

CONSTANTS r, s, b, l

\* One task of each kind: an edit and a scan beside a build and a compile, each
\* of which may hang.
OneOfEach == r :> "reindex" @@ s :> "scan" @@ b :> "build" @@ l :> "lombok"
===========================================================================
