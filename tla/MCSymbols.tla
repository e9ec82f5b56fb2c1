------------------------------ MODULE MCSymbols ------------------------------
(***************************************************************************)
(* An instance of Symbols small enough for TLC. The names are chosen for   *)
(* their encodings: one letter of one byte, one of six.                    *)
(***************************************************************************)
EXTENDS Symbols

A == <<65>>
B == <<66, 66560>>
X == <<120>>
GetX == <<103, 101, 116, 88>>
EqualsTo == <<101, 113>>

TypeKinds == {"class_declaration", "enum_declaration", "interface_declaration"}
TypeNames == {B}
Accessors == X :> GetX
AddedMethods == {EqualsTo}

Compiled(fields, methods, padding, string, unwritten) ==
    [fields |-> fields, methods |-> methods, padding |-> padding, string |-> string,
     unwritten |-> unwritten]

UsualBuilds == {Compiled(2, 1, <<5>>, <<65>>, 0)}

\* Every tag, every width of a character, and every boundary between two.
UnusualBuilds ==
    {Compiled(1, 4, <<5, 15, 3>>, <<0, 127, 128, 2047>>, 0),
     Compiled(2, 0, <<19, 6, 8, 18, 20, 16>>, <<2048, 55295, 57344, 65535>>, 0),
     Compiled(2, 9, <<15, 17, 12, 11, 10, 9, 4>>, <<65536, 1114111, 66560>>, 0),
     Compiled(2, 1, <<>>, <<55297, 65, 65, 65>>, 0),
     Compiled(2, 1, <<5>>, <<65>>, 1),
     Compiled(2, 1, <<5>>, <<65>>, 48)}
=============================================================================
