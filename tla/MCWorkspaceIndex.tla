------------------------- MODULE MCWorkspaceIndex -------------------------
(***************************************************************************)
(* Two files and five symbols: a class of file 1 and an import of it in    *)
(* file 2 under one name, an accessor whose name begins with that name and *)
(* sits at its field in file 1 although a stub may list it too, a member   *)
(* of another type under the same name, and a name of its own.             *)
(***************************************************************************)
EXTENDS WorkspaceIndex

Sym(n, u, import, l, o) ==
    [name |-> n, uri |-> u, isImport |-> import, line |-> l, owner |-> o]

Declaration == Sym(<<1>>, 2, FALSE, 0, "none")
Import      == Sym(<<1>>, 1, TRUE, 0, "none")
Accessor    == Sym(<<1, 2>>, 1, FALSE, 3, "A")
Namesake    == Sym(<<1, 2>>, 2, FALSE, 1, "B")
Unrelated   == Sym(<<2>>, 1, FALSE, 5, "A")

Symbols == {Declaration, Import, Accessor, Namesake, Unrelated}

\* Disk content, then two versions of one session, then another session.
Keys == {<<0, 0>>, <<1, 1>>, <<1, 2>>, <<2, 1>>}
===========================================================================
