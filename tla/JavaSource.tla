----------------------------- MODULE JavaSource -----------------------------
(***************************************************************************)
(* What the server reads off the syntax tree of a Java file: the symbols   *)
(* it declares (src/symbol.rs), the declared type of the receiver of a     *)
(* member (src/member_reference.rs), and whether it uses Lombok            *)
(* (src/lombok.rs).                                                        *)
(*                                                                         *)
(* A tree is the sequence of its nodes as a walk meets them, each with its *)
(* parent before it. Nodes that only group others are left out: a body is  *)
(* its class, a list of parameters its method. A text is the sequence of   *)
(* its code points, as in ClassFile; no text is the text of a name that is *)
(* not written yet.                                                        *)
(***************************************************************************)
EXTENDS Integers, FiniteSets, SequencesExt

NoText == <<>>

Node(kind, parent, name, type) ==
    [kind |-> kind, parent |-> parent, name |-> name, type |-> type]

TypeDeclaration == {"class_declaration", "interface_declaration", "enum_declaration",
                    "record_declaration"}
MethodLike == {"method_declaration", "constructor_declaration",
               "compact_constructor_declaration"}

\* The children of a node, and as they are written.
ChildrenOf(t, i) == {j \in DOMAIN t : t[j].parent = i}
InOrder(t, i) ==
    LET upto[n \in 0..Len(t)] ==
            IF n = 0 THEN <<>>
            ELSE IF t[n].parent = i THEN Append(upto[n - 1], n) ELSE upto[n - 1]
    IN  upto[Len(t)]

\* The nodes around i, from its parent outwards, as numbers.
Ancestors(t, i) ==
    LET around[j \in 0..Len(t)] == IF j = 0 THEN {} ELSE {j} \cup around[t[j].parent]
    IN  around[t[i].parent]

---------------------------------------------------------------------------
(* symbol.rs: extract_symbols                                              *)

\* A symbol is known by the node that declares it in the file `uri' names.
Symbol(uri, kind, t, i, owner) ==
    [name |-> t[i].name, kind |-> kind, uri |-> uri, node |-> i, owner |-> owner]

SymbolKind(kind) ==
    CASE kind = "interface_declaration" -> "Interface"
      [] kind = "enum_declaration" -> "Enum"
      [] kind \in {"class_declaration", "record_declaration"} -> "Class"
      [] kind = "method_declaration" -> "Method"
      [] kind \in {"constructor_declaration", "compact_constructor_declaration"} -> "Constructor"
      [] kind = "field_declaration" -> "Field"
      [] kind = "import_declaration" -> "Import"
      [] OTHER -> "none"

\* push_named, push_field_declarators, push_import: a declaration without a
\* name has no symbol, nor has the import of a whole package.
Pushed(uri, t, i, owner) ==
    IF SymbolKind(t[i].kind) = "none" \/ t[i].name = NoText THEN <<>>
    ELSE <<Symbol(uri, SymbolKind(t[i].kind), t, i,
                  IF t[i].kind = "import_declaration" THEN NoText ELSE owner)>>

\* Mutant: the members of a type without a name go to the type around it.
ChildOwnerFallingBack(t, i, owner) ==
    IF t[i].kind \in TypeDeclaration /\ t[i].name # NoText THEN t[i].name ELSE owner

\* The owner handed down to what is inside a node.
ChildOwner(t, i, owner) == IF t[i].kind \in TypeDeclaration THEN t[i].name ELSE owner

ExtractSymbols(uri, t) ==
    LET owners == {NoText} \cup {t[i].name : i \in DOMAIN t}
        walk[i \in DOMAIN t] ==
            LET below == InOrder(t, i)
                of(owner) == [k \in DOMAIN below |-> walk[below[k]][owner]]
            IN  [owner \in owners |->
                    Pushed(uri, t, i, owner) \o FlattenSeq(of(ChildOwner(t, i, owner)))]
        roots == InOrder(t, 0)
    IN  FlattenSeq([k \in DOMAIN roots |-> walk[roots[k]][NoText]])

---------------------------------------------------------------------------
(* member_reference.rs                                                     *)

Dot == 46
LeftBracket == 91
RightBracket == 93
LeftAngle == 60

\* simple_type_name: array brackets off, type arguments off, qualifier off.
SimpleTypeName(text) ==
    LET stripped[n \in 0..Len(text)] ==
            IF n >= 2 /\ text[n] = RightBracket /\ text[n - 1] = LeftBracket
            THEN stripped[n - 2] ELSE SubSeq(text, 1, n)
        plain == stripped[Len(text)]
        angle == SelectInSeq(plain, LAMBDA c : c = LeftAngle)
        bare == IF angle = 0 THEN plain ELSE SubSeq(plain, 1, angle - 1)
    IN  SubSeq(bare, SelectLastInSeq(bare, LAMBDA c : c = Dot) + 1, Len(bare))

\* enclosing_type_name: the nearest type declaration around i.
EnclosingTypeName(t, i) ==
    LET up[j \in 0..Len(t)] ==
            IF j = 0 THEN NoText
            ELSE IF t[j].kind \in TypeDeclaration THEN t[j].name
            ELSE up[t[j].parent]
    IN  up[t[i].parent]

\* The first child of node c that is of the kind and has the name, 0 if none.
FirstChild(t, c, kind, name) ==
    LET found == {j \in ChildrenOf(t, c) : t[j].kind = kind /\ t[j].name = name}
    IN  IF found = {} THEN 0 ELSE CHOOSE j \in found : \A k \in found : j <= k

\* Mutant: a class's fields looked for before anything inside it.
DeclaredInScopeFieldsOnly(t, c, name) ==
    IF t[c].kind \in TypeDeclaration THEN FirstChild(t, c, "field_declaration", name)
    ELSE 0

\* declared_type_in_scope: the parameters of a method, the fields of a type,
\* the local variables of anything else. An enum's fields are not children of
\* its body but of a node of their own in it.
DeclaredInScope(t, c, name) ==
    CASE t[c].kind \in MethodLike -> FirstChild(t, c, "formal_parameter", name)
      [] t[c].kind = "enum_declaration" -> 0
      [] t[c].kind \in TypeDeclaration \ {"enum_declaration"} ->
           FirstChild(t, c, "field_declaration", name)
      [] OTHER -> FirstChild(t, c, "local_variable_declaration", name)

\* resolve_identifier_type: outwards, scope by scope.
ResolveIdentifierType(t, i, name) ==
    LET up[j \in 0..Len(t)] ==
            IF j = 0 THEN NoText
            ELSE LET d == DeclaredInScope(t, j, name)
                 IN  IF d # 0 THEN SimpleTypeName(t[d].type) ELSE up[t[j].parent]
    IN  up[t[i].parent]

\* member_reference_at: the type of the receiver of the reference i, whose
\* object is the node's name: none at all, `this', a name, or anything else.
This == <<0>>
Expression == <<1>>
ReceiverType(t, i) ==
    CASE t[i].name \in {NoText, This} -> EnclosingTypeName(t, i)
      [] t[i].name = Expression -> NoText
      [] OTHER -> ResolveIdentifierType(t, i, t[i].name)

---------------------------------------------------------------------------
(* lombok.rs: uses_lombok. An import's type is the path it names, an       *)
(* annotation's the name it is written with.                               *)

IsPrefixOf(s, text) == Len(s) <= Len(text) /\ SubSeq(text, 1, Len(s)) = s
Lombok == <<108, 111>>   \* "lombok", abbreviated
IsLombokPath(path) == path = Lombok \/ IsPrefixOf(Lombok \o <<Dot>>, path)

UsesLombok(t) ==
    \E i \in DOMAIN t :
        \/ t[i].kind = "import_declaration" /\ IsLombokPath(t[i].type)
        \/ t[i].kind = "annotation" /\ Dot \in ToSet(t[i].type) /\ IsLombokPath(t[i].type)
=============================================================================
