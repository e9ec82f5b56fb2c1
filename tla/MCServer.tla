---------------------------- MODULE MCServer ----------------------------
(***************************************************************************)
(* Instances of Server small enough for TLC. Their sets of roots are named *)
(* here because a .cfg cannot write a set of sets of model values.         *)
(***************************************************************************)
EXTENDS Server

WholeWorkspace == {Uri}
=========================================================================
