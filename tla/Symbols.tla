------------------------------- MODULE Symbols -------------------------------
(***************************************************************************)
(* A Java file is typed, node by node, and compiled; the class file is     *)
(* read, and its stub indexed: the way of a name from the source and from  *)
(* the class into the index. (redirect_lombok_accessors in src/server.rs,  *)
(* index_class_bytes in src/external_index.rs)                             *)
(***************************************************************************)
EXTENDS Javac

CONSTANTS
    MaxNodes,   \* bound on the nodes of a tree
    Stem,       \* the name of the file
    Variable,   \* the name of every field, parameter and variable
    MethodName, \* the name of every method
    TypeKind, TypeName,     \* those of the types typed
    Accessor,   \* the accessor Lombok adds for a field of a name
    Added,      \* the other methods it adds
    Usual, Unusual,     \* how files are compiled: the flags of fields and
                \* methods, the constants a class file holds besides its names (by
                \* tag, and one string), and how many bytes a stopped compiler
                \* leaves unwritten
    MaxUnusual  \* bound on the nodes of a tree compiled in an unusual way

\* A Java string, by its code points: of a pair of surrogates it has the one they
\* write.
IsString(text) ==
    /\ text \in Seq(0..LastCodePoint)
    /\ \A k \in 1..(Len(text) - 1) :
          ~(text[k] \in FirstHigh..(FirstLow - 1) /\ text[k + 1] \in FirstLow..LastLow)

\* A name has none of the surrogates.
IsName(text) == text \in Seq(0..LastCodePoint) /\ \A k \in DOMAIN text : IsScalar(text[k])

IsBuild(build) ==
    /\ build.fields \in Nat /\ build.methods \in Nat
    /\ build.padding \in Seq(DOMAIN Payload) /\ IsString(build.string)
    /\ build.unwritten \in Nat

ASSUME SymbolsAssumption ==
    /\ MaxNodes \in Nat /\ MaxUnusual \in Nat
    /\ TypeKind \subseteq TypeDeclaration
    /\ IsName(Stem) /\ IsName(Variable) /\ IsName(MethodName) /\ \A name \in TypeName : IsName(name)
    /\ \A x \in DOMAIN Accessor : IsName(Accessor[x])
    /\ IsFiniteSet(Added) /\ \A name \in Added : IsName(name)
    /\ \A build \in Usual \cup Unusual : IsBuild(build)
    /\ NoText \notin {MethodName, Variable, Stem} /\ Variable \notin {This, Expression}

VARIABLES
    tree,   \* what is typed
    made    \* the class that was written, and what of it

vars == <<tree, made, parser>>

NotMade == [of |-> 0]

\* The type of a declaration is one of its own, written in one of three ways; its
\* name has no character that means something in a type.
PlainType(i) == <<84, 256 + i>>
WrittenType(i) ==
    CASE i % 3 = 0 -> PlainType(i)
      [] i % 3 = 1 -> <<112, Dot>> \o PlainType(i) \o <<LeftAngle, 112, Dot, 81, 62>>
      [] OTHER -> <<112, Dot>> \o PlainType(i) \o <<LeftBracket, RightBracket>>

LastNode == Len(tree)
Open(i) == LastNode # 0 /\ (i = LastNode \/ i \in Ancestors(tree, LastNode))
HasBody(i) == \E j \in ChildrenOf(tree, i) : tree[j].kind = "block"
Add(node) == tree' = Append(tree, node)
New(kind, parent, name) == Node(kind, parent, name, WrittenType(LastNode + 1))

\* A file begins with the import that brings Lombok in, or does not.
TypeImport ==
    /\ tree = <<>>
    /\ Add(Node("import_declaration", 0, <<68>>, Lombok \o <<Dot, 68>>))

\* The file has one type of its own, named after it, or not named yet.
TypeType ==
    \E i \in {0} \cup DOMAIN tree, kind \in TypeKind :
        /\ IF i = 0 THEN \A j \in DOMAIN tree : tree[j].kind = "import_declaration"
           ELSE Open(i) /\ tree[i].kind \in TypeDeclaration \cup {"block"}
        /\ \E name \in (IF i = 0 THEN {Stem} ELSE TypeName) \cup {NoText} : Add(New(kind, i, name))

TypeAnnotation ==
    /\ LastNode # 0 /\ tree[LastNode].kind \in TypeDeclaration
    /\ Add(Node("annotation", LastNode, NoText, Lombok \o <<Dot, 68>>))

\* A class without a name has a body all the same.
TypeMember ==
    \E i \in DOMAIN tree :
        /\ Open(i) /\ tree[i].kind \in TypeDeclaration \cup {"class_body"}
        /\ \/ Add(New(IF tree[i].kind = "interface_declaration"
                      THEN "constant_declaration" ELSE "field_declaration", i, Variable))
           \/ Add(New("method_declaration", i, MethodName))
           \/ /\ tree[i].kind \in TypeDeclaration \ {"interface_declaration"}
              /\ \/ Add(New("constructor_declaration", i, tree[i].name))
                 \/ Add(New("block", i, NoText))

\* A `binder' is a variable of a kind the server does not look for: of a loop
\* over a collection, a lambda, a catch, a resource, a pattern, or a list of
\* arguments.
TypeInMethod ==
    \E i \in DOMAIN tree :
        /\ Open(i) /\ tree[i].kind \in MethodLike /\ ~HasBody(i)
        /\ \/ \E kind \in {"formal_parameter", "binder"} : Add(New(kind, i, Variable))
           \/ Add(New("block", i, NoText))

TypeInBlock ==
    \E i \in DOMAIN tree :
        /\ Open(i) /\ tree[i].kind = "block"
        /\ \/ \E kind \in {"local_variable_declaration", "binder"} : Add(New(kind, i, Variable))
           \/ \E kind \in {"block", "class_body"} : Add(New(kind, i, NoText))
           \/ \E object \in {NoText, This, Variable, Expression} :
                 Add(Node("reference", i, object, NoText))

Type ==
    /\ phase = "idle" /\ LastNode < MaxNodes
    /\ \A i \in DOMAIN tree : tree[i].kind # "reference"
    /\ \/ TypeImport \/ TypeType \/ TypeAnnotation \/ TypeMember \/ TypeInMethod \/ TypeInBlock
    /\ UNCHANGED <<made, parser>>

\* What javac takes: names that are there, and none twice in one place. Of what is
\* in bodies only the classes are taken, since nothing else of them is in a class
\* file; one class at most in each class has no name, so that every number is 1.
Compilable ==
    /\ \A i \in DOMAIN tree :
          /\ tree[i].kind \in TypeDeclaration => tree[i].name # NoText
          /\ tree[i].kind \notin {"binder", "formal_parameter", "local_variable_declaration",
                                  "reference"}
    /\ \A i, j \in DOMAIN tree :
          /\ {tree[i].kind, tree[j].kind} \subseteq TypeDeclaration /\ tree[i].name = tree[j].name
             => i = j
          /\ tree[i].kind = "class_body" /\ tree[j].kind = "class_body"
             /\ DeclaringType(tree, i) = DeclaringType(tree, j) => i = j
          /\ tree[i].parent = tree[j].parent /\ tree[i].kind = tree[j].kind
             /\ tree[i].name = tree[j].name => i = j \/ tree[i].kind = "block"

\* The file may be left short by a compiler that was stopped.
Compile ==
    /\ phase = "idle" /\ UsesLombok(tree) /\ Compilable
    /\ \E i \in {j \in DOMAIN tree : tree[j].kind \in ClassKind},
          build \in IF LastNode <= MaxUnusual THEN Usual \cup Unusual ELSE Usual :
        \E generated \in SUBSET Generatable(tree, i, Accessor, Added) :
            LET c == ClassOf(tree, i, generated, build.fields, build.methods)
                content == ClassBytes(c, build.padding, build.string)
            IN  /\ OpenFile(SubSeq(content, 1, Len(content) - build.unwritten))
                /\ made' = [of |-> i, class |-> c, generated |-> generated, build |-> build]
    /\ UNCHANGED tree

Read == Parse /\ UNCHANGED <<tree, made>>

Init ==
    /\ tree = <<>> /\ made = NotMade
    /\ bytes = <<>> /\ pos = 0 /\ phase = "idle" /\ count = 0 /\ left = 0
    /\ pool = <<>> /\ class = NoClassYet

Next == Type \/ Compile \/ Read

Spec == Init /\ [][Next]_vars
---------------------------------------------------------------------------
\* The class that is looked at again after the compile of its file: the one
\* named like the file, in its package.
ExpectedClass == Package \o <<Slash>> \o Stem

\* index_class_bytes, reindex_class_file_with_overrides: a class whose name is
\* none has no stub.
StubSymbols ==
    IF IsValidSimpleName(SimpleName(class.this_class))
    THEN ExtractSymbols("stub", RenderStub(class)) ELSE <<>>

\* What is then in the index: the symbols of the source, and those of the stub
\* but where an override leaves them out or moves them.
SourceSymbols == ExtractSymbols("source", tree)
Indexed == SourceSymbols \o WithOverrides(StubSymbols, StubSymbolOverrides(class, SourceSymbols))

---------------------------------------------------------------------------
(* Properties.                                                             *)

\* Every node has its parent before it, and the slots of the constants read and
\* those to come are as many as were announced.
TypeOK ==
    /\ \A i \in DOMAIN tree : tree[i].parent \in 0..(i - 1)
    /\ Len(tree) <= MaxNodes
    /\ pos \in 0..Len(bytes)
    /\ phase = "constants" => Len(pool) + left = count

Unpaired(text) ==
    \E k \in DOMAIN text : text[k] \in FirstHigh..LastLow

\* The methods of a class but for its static initializer.
Callable(methods) ==
    FlattenSeq([k \in DOMAIN methods |->
                   IF methods[k].name = Clinit THEN <<>> ELSE <<methods[k]>>])

\* A class file is read as the class that was compiled, whatever constants it
\* holds besides, or refused: when it was left short, never half-read, and when
\* a string in it is no text (a surrogate without its other half, which Java
\* allows), but in no other case. (parse, read_constant_pool,
\* decode_modified_utf8)
ParsedIsCompiled ==
    /\ phase = "done" =>
         /\ made.build.unwritten = 0
         /\ class = [made.class EXCEPT !.methods = Callable(@)]
         /\ \E k \in DOMAIN pool :
                pool[k].tag = "utf8" /\ pool[k].text = made.build.string
    /\ phase = "failed" => made.build.unwritten > 0 \/ Unpaired(made.build.string)

---------------------------------------------------------------------------
Declaration == {"field_declaration", "constant_declaration", "formal_parameter",
                "local_variable_declaration", "binder"}

\* The declarations of the name of reference r whose scope is around it.
Seen(r) ==
    {d \in DOMAIN tree :
        /\ tree[d].kind \in Declaration /\ tree[d].name = tree[r].name
        /\ tree[d].parent \in Ancestors(tree, r)}
Innermost(D) == CHOOSE d \in D : \A e \in D : tree[e].parent <= tree[d].parent

\* The declarations the server looks for: none of the binders, of the fields of
\* an enum, an interface or a class without a name.
LookedFor(d) ==
    /\ tree[d].kind \notin {"binder", "constant_declaration"}
    /\ tree[tree[d].parent].kind \notin {"enum_declaration", "class_body"}

\* A receiver's type is the one it is declared with in the innermost scope that
\* declares it, and none when nothing around it does: over every shape of
\* nested classes, methods and blocks in which the innermost declaration is of
\* a kind the server looks for. ("the reference's real, innermost declaration",
\* member_reference.rs:131)
ReceiverIsInnermost ==
    phase = "idle" =>
        \A r \in {i \in DOMAIN tree : tree[i].kind = "reference" /\ tree[i].name = Variable} :
            /\ Seen(r) = {} => ReceiverType(tree, r) = NoText
            /\ Seen(r) # {} /\ LookedFor(Innermost(Seen(r))) =>
                 \E d \in Seen(r) : /\ tree[d].parent = tree[Innermost(Seen(r))].parent
                                    /\ ReceiverType(tree, r) = PlainType(d)

\* The receiver of an unqualified call and of `this' is the owner of what is
\* declared beside it: what goes down the tree to the symbols comes up the tree
\* to the references, through blocks, local and unnamed classes, and types whose
\* name is not typed yet. (walk in symbol.rs, enclosing_type_name)
OwnersMeetReceivers ==
    LET symbols == ExtractSymbols("source", tree)
    IN  phase = "idle" => \A k \in DOMAIN symbols :
            symbols[k].kind # "Import" =>
                symbols[k].owner = EnclosingTypeName(tree, symbols[k].node)

---------------------------------------------------------------------------
TypeText(type) == Dotted(type.base) \o Brackets(type.dimensions)
Shown(members) == {members[k].name : k \in {j \in DOMAIN members :
                      /\ members[j].access_flags \in {1, 4, 9, 12}}}

\* The stub of a class declares what of it others can use, and nothing else:
\* its methods with the types they take and give, its constructors, its fields
\* but for those of an enum or an interface; all owned by its simple name. A local
\* class and one without a name have no stub, and nothing in the index, and every
\* other class has. (render_stub, decode_method_descriptor, is_valid_simple_name)
StubShowsClass ==
    phase = "done" =>
        LET stub == RenderStub(class)
            name == tree[made.of].name
            named(kind) == NamesOf(StubSymbols, kind)
        IN  /\ IsLocal(tree, made.of) <=> StubSymbols = <<>>
            /\ ~IsLocal(tree, made.of) =>
                 /\ \A k \in DOMAIN StubSymbols :
                        StubSymbols[k].owner = IF k = 1 THEN NoText ELSE name
                 /\ StubSymbols[1].name = name
                 /\ named("Method") = Shown(made.class.methods) \ {Init0}
                 /\ named("Constructor") = IF Init0 \in Shown(made.class.methods)
                                           THEN {name} ELSE {}
                 /\ named("Field") = IF tree[made.of].kind = "class_declaration"
                                     THEN Shown(made.class.fields) ELSE {}
                 /\ \A m \in DOMAIN stub : stub[m].kind = "method_declaration" =>
                        /\ stub[m].type = TypeText(Given)
                        /\ LET p == InOrder(stub, m)
                           IN  /\ Len(p) = Len(Taken)
                               /\ \A k \in DOMAIN p : stub[p[k]].type = TypeText(Taken[k])

\* What the index has of a name in the file's own class.
Entries(name, kind) ==
    SelectSeq(Indexed, LAMBDA s : s.name = name /\ s.kind = kind /\ s.owner = Stem)

\* Whether no other type of the file declares a member of one of the names.
NowhereElse(names) ==
    \A i \in DOMAIN tree :
        tree[i].kind \in MethodLike \cup {"field_declaration"} /\ tree[i].name \in names
        => tree[i].parent = made.of

\* After a compile each method of the file's class that others can use is in the
\* index once: where it is written, at its field if it is the accessor Lombok
\* made of one, in the stub otherwise; as long as no other class in the file has
\* a member of the same name. (stub_symbol_overrides, redirect_lombok_accessors)
MembersAreListedOnce ==
    phase = "done" /\ class.this_class = ExpectedClass =>
        \A m \in Shown(class.methods) \ {Init0} :
            LET field == FieldNameForAccessor(m)
                own(kind, name) == {j \in ChildrenOf(tree, made.of) :
                                       tree[j].kind = kind /\ tree[j].name = name}
                entries == Entries(m, "Method")
            IN  NowhereElse({m, field}) =>
                /\ Len(entries) = 1
                /\ IF m \notin made.generated
                   THEN entries[1].uri = "source"
                        /\ entries[1].node \in own("method_declaration", m)
                   ELSE IF own("field_declaration", field) # {}
                   THEN entries[1].uri = "source"
                        /\ entries[1].node \in own("field_declaration", field)
                   ELSE entries[1].uri = "stub"
=============================================================================
