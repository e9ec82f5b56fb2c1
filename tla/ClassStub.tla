------------------------------ MODULE ClassStub ------------------------------
(***************************************************************************)
(* From a class to its symbols: src/class_stub.rs, which renders a class   *)
(* read from a class file as a source file, and the overrides by which     *)
(* src/lombok.rs corrects the symbols of that file. The file rendered is   *)
(* given by its tree, since that is what is read of it.                    *)
(***************************************************************************)
EXTENDS ClassFile, JavaSource

Slash == 47
Dollar == 36
Init0 == <<60, 105, 62>>   \* "<init>"

\* The part of a text behind the last character c, all of it if there is none.
Behind(text, c) ==
    SubSeq(text, SelectLastInSeq(text, LAMBDA x : x = c) + 1, Len(text))

\* package_and_simple_name: a nested class goes by what is behind its last $.
SimpleName(binary) == Behind(Behind(binary, Slash), Dollar)

IsDigit(c) == c \in 48..57
IsAlphabetic(c) == c \in 65..90 \cup 97..122 \/ c >= 192

\* Mutant: a name may begin with a digit.
IsValidSimpleNameAnyFirst(name) ==
    /\ name # NoText
    /\ \A k \in DOMAIN name : IsAlphabetic(name[k]) \/ IsDigit(name[k]) \/ name[k] \in {95, 36}

\* is_valid_simple_name
IsValidSimpleName(name) ==
    /\ name # NoText
    /\ ~IsDigit(Head(name))
    /\ \A k \in DOMAIN name : IsAlphabetic(name[k]) \/ IsDigit(name[k]) \/ name[k] \in {95, 36}

---------------------------------------------------------------------------
(* Descriptors. A primitive type's name is abbreviated to its letter, in   *)
(* lower case.                                                             *)

Primitive == {66, 67, 68, 70, 73, 74, 83, 90}   \* BCDFIJSZ
Dotted(binary) == [k \in DOMAIN binary |-> IF binary[k] = Slash THEN Dot ELSE binary[k]]
Brackets(n) == FlattenSeq([k \in 1..n |-> <<LeftBracket, RightBracket>>])
ObjectType == <<111>>      \* "java.lang.Object", abbreviated
VoidType == <<118>>

\* The first place at or behind i with the character c, or the text's end.
Seek(text, i, c) ==
    LET found == {k \in i..Len(text) : text[k] = c}
    IN  IF found = {} THEN Len(text) + 1 ELSE CHOOSE k \in found : \A m \in found : k <= m

\* decode_field_types, up to the first that is none.
FieldTypes(d) ==
    LET Base(i) == CHOOSE b \in i..(Len(d) + 1) :
                       /\ \A k \in i..(b - 1) : d[k] = LeftBracket
                       /\ b <= Len(d) => d[b] # LeftBracket
        from[i \in 1..(Len(d) + 2)] ==
            IF i > Len(d) \/ Base(i) > Len(d) THEN <<>>
            ELSE LET b == Base(i)
                     end == Seek(d, b, 59)
                 IN  CASE d[b] \in Primitive ->
                            <<<<d[b] + 32>> \o Brackets(b - i)>> \o from[b + 1]
                       [] d[b] = 76 ->
                            <<Dotted(SubSeq(d, b + 1, end - 1)) \o Brackets(b - i)>>
                            \o from[IF end > Len(d) THEN end ELSE end + 1]
                       [] OTHER -> <<>>
    IN  from[1]

\* decode_field_type
FieldType(d) == IF FieldTypes(d) = <<>> THEN ObjectType ELSE FieldTypes(d)[1]

\* decode_method_descriptor
ParameterTypes(d) ==
    IF d = <<>> \/ d[1] # 40 \/ Seek(d, 2, 41) > Len(d) THEN <<>>
    ELSE FieldTypes(SubSeq(d, 2, Seek(d, 2, 41) - 1))
ReturnType(d) ==
    IF d = <<>> \/ d[1] # 40 \/ Seek(d, 2, 41) > Len(d) THEN ObjectType
    ELSE LET result == Behind(d, 41)
         IN  IF result = <<86>> THEN VoidType ELSE FieldType(result)

---------------------------------------------------------------------------
(* render_stub                                                             *)

IsVisible(flags) ==
    /\ Has(flags, "public") \/ Has(flags, "protected")
    /\ ~Has(flags, "synthetic") /\ ~Has(flags, "bridge")

StubKind(c) ==
    IF Has(c.access_flags, "enum") THEN "enum_declaration"
    ELSE IF Has(c.access_flags, "interface") THEN "interface_declaration"
    ELSE "class_declaration"

\* Java's grammar has another kind of node for the fields of an interface.
FieldKind(c) ==
    IF StubKind(c) = "interface_declaration" THEN "constant_declaration" ELSE "field_declaration"

RenderedFields(c) ==
    IF StubKind(c) = "enum_declaration" THEN <<>>
    ELSE LET visible == SelectSeq(c.fields, LAMBDA f : IsVisible(f.access_flags))
         IN  [k \in DOMAIN visible |->
                 Node(FieldKind(c), 1, visible[k].name, FieldType(visible[k].descriptor))]

\* A method and its parameters, below the node 1, as the node numbered at.
RenderedMethod(c, m, at) ==
    LET types == ParameterTypes(m.descriptor)
    IN  <<IF m.name = Init0
          THEN Node("constructor_declaration", 1, SimpleName(c.this_class), NoText)
          ELSE Node("method_declaration", 1, m.name, ReturnType(m.descriptor))>>
        \o [k \in DOMAIN types |-> Node("formal_parameter", at, <<112, 48 + k - 1>>, types[k])]

RenderStub(c) ==
    LET head == <<Node(StubKind(c), 0, SimpleName(c.this_class), NoText)>> \o RenderedFields(c)
        visible == SelectSeq(c.methods, LAMBDA m : IsVisible(m.access_flags))
        upto[k \in 0..Len(visible)] ==
            IF k = 0 THEN head
            ELSE upto[k - 1] \o RenderedMethod(c, visible[k], Len(upto[k - 1]) + 1)
    IN  upto[Len(visible)]

---------------------------------------------------------------------------
(* lombok.rs: stub_symbol_overrides                                        *)

\* field_name_for_accessor, NoText if it is none.
FieldNameForAccessor(method) ==
    LET get == <<103, 101, 116>>
        set == <<115, 101, 116>>
        is  == <<105, 115>>
        stripped == CASE IsPrefixOf(get, method) \/ IsPrefixOf(set, method) ->
                           SubSeq(method, 4, Len(method))
                      [] IsPrefixOf(is, method) -> SubSeq(method, 3, Len(method))
                      [] OTHER -> NoText
    IN  IF stripped = NoText \/ Head(stripped) \notin 65..90 THEN NoText
        ELSE <<Head(stripped) + 32>> \o Tail(stripped)

Excluded == [kind |-> "none"]
NamesOf(symbols, kind) ==
    {symbols[k].name : k \in {j \in DOMAIN symbols : symbols[j].kind = kind}}

\* The symbol of the last field with a name: a later one takes the place of an
\* earlier one.
FieldNamed(symbols, name) ==
    symbols[SelectLastInSeq(symbols, LAMBDA s : s.kind = "Field" /\ s.name = name)]

\* Mutant: an accessor is redirected though it is written by hand.
OverridesOfAccessors(c, original) ==
    LET methods == {c.methods[k].name : k \in DOMAIN c.methods} \ {Init0}
        accessors == {m \in methods : FieldNameForAccessor(m) \in NamesOf(original, "Field")}
        byHand == methods \cap NamesOf(original, "Method")
    IN  [m \in byHand \cup accessors |->
            IF m \in accessors
            THEN [FieldNamed(original, FieldNameForAccessor(m)) EXCEPT
                     !.name = m, !.kind = "Method"]
            ELSE Excluded]

\* What becomes of the symbols of the stub of class c, by name: those written
\* by hand are left out, the accessors of a field are taken to the field, and
\* a name that has no override stays. `original' is what the source declares,
\* in whatever class of the file.
StubSymbolOverrides(c, original) ==
    LET names == {c.methods[k].name : k \in DOMAIN c.methods}
        constructors == IF Init0 \in names /\ NamesOf(original, "Constructor") # {}
                        THEN {SimpleName(c.this_class)} ELSE {}
        byHand == (names \ {Init0}) \cap NamesOf(original, "Method")
        accessors == {m \in names \ ({Init0} \cup byHand) :
                         FieldNameForAccessor(m) \in NamesOf(original, "Field")}
    IN  [m \in constructors \cup byHand \cup accessors |->
            IF m \in accessors
            THEN [FieldNamed(original, FieldNameForAccessor(m)) EXCEPT
                     !.name = m, !.kind = "Method"]
            ELSE Excluded]

\* workspace_scan.rs: index_source_file_with_overrides
WithOverrides(symbols, overrides) ==
    LET after(s) == IF s.name \notin DOMAIN overrides THEN <<s>>
                    ELSE IF overrides[s.name] = Excluded THEN <<>>
                    ELSE <<overrides[s.name]>>
    IN  FlattenSeq([k \in DOMAIN symbols |-> after(symbols[k])])
=============================================================================
