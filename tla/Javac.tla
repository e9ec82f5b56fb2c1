-------------------------------- MODULE Javac --------------------------------
(***************************************************************************)
(* External: javac and Lombok, as src/javac_compile.rs runs them, and the  *)
(* class file format (JVMS 4) they write. From the tree of a source file   *)
(* to the classes declared in it, and from a class to its bytes.           *)
(***************************************************************************)
EXTENDS ClassStub

Package == <<112>>

---------------------------------------------------------------------------
(* The bytes of a class.                                                   *)

B2(n) == <<n \div 256, n % 256>>
Three(c) == <<224 + c \div 4096, 128 + ((c \div 64) % 64), 128 + (c % 64)>>

\* JVMS 4.4.7
EncodeChar(c) ==
    CASE 0 < c /\ c < 128 -> <<c>>
      [] c = 0 \/ (128 <= c /\ c < 2048) -> <<192 + c \div 64, 128 + (c % 64)>>
      [] 2048 <= c /\ c < FirstPaired -> Three(c)
      [] OTHER -> Three(FirstHigh + (c - FirstPaired) \div 1024)
                  \o Three(FirstLow + ((c - FirstPaired) % 1024))
EncodeText(text) == FlattenSeq([k \in DOMAIN text |-> EncodeChar(text[k])])

\* JVMS 4.4: what follows the tag of a constant nobody here reads.
Payload == [tag \in {3, 4, 5, 6, 8, 9, 10, 11, 12, 15, 16, 17, 18, 19, 20} |->
               CASE tag \in {5, 6} -> 8
                 [] tag = 15 -> 3
                 [] tag \in {8, 16, 19, 20} -> 2
                 [] OTHER -> 4]

\* The constants of a class file: the references to classes, the padding, and
\* the texts, those of the classes first.
ClassTexts(c) == <<c.this_class, c.super_class>> \o c.interfaces
Members(c) == c.fields \o c.methods
Constants(c, padding, string) ==
    LET classes == ClassTexts(c)
        texts == classes
                 \o FlattenSeq([k \in DOMAIN Members(c) |->
                                   <<Members(c)[k].name, Members(c)[k].descriptor>>])
                 \o <<string>>
    IN  [k \in DOMAIN classes |-> [tag |-> 7, text |-> Len(classes) + Len(padding) + k]]
        \o [k \in DOMAIN padding |-> [tag |-> padding[k], text |-> <<>>]]
        \o [k \in DOMAIN texts |-> [tag |-> 1, text |-> texts[k]]]

\* The index of each, and of the one that would follow: a long or a double takes
\* two slots (JVMS 4.4.5).
Indices(constants) ==
    [k \in 1..(Len(constants) + 1) |->
        k + Cardinality({j \in 1..(k - 1) : constants[j].tag \in {5, 6}})]

ConstantBytes(constant, index) ==
    <<constant.tag>> \o
    CASE constant.tag = 7 -> B2(index[constant.text])
      [] constant.tag = 1 ->
           LET text == EncodeText(constant.text) IN B2(Len(text)) \o text
      [] OTHER -> [j \in 1..Payload[constant.tag] |-> 1]

\* A member has one attribute, of one byte.
MemberBytes(m, name, descriptor) ==
    FlattenSeq(<<B2(m.access_flags), B2(name), B2(descriptor), B2(1), B2(1), <<0, 0, 0, 1, 9>>>>)

ClassBytes(c, padding, string) ==
    LET constants == Constants(c, padding, string)
        index == Indices(constants)
        classes == Len(ClassTexts(c))
        text(k) == index[2 * classes + Len(padding) + k]
        member(k) == MemberBytes(Members(c)[k], text(2 * k - 1), text(2 * k))
    IN  FlattenSeq(
            <<MAGIC, <<0, 0, 0, 65>>, B2(index[Len(constants) + 1]),
              FlattenSeq([k \in DOMAIN constants |-> ConstantBytes(constants[k], index)]),
              B2(c.access_flags), B2(1), B2(2), B2(Len(c.interfaces)),
              FlattenSeq([k \in DOMAIN c.interfaces |-> B2(2 + k)]),
              B2(Len(c.fields)), FlattenSeq([k \in DOMAIN c.fields |-> member(k)]),
              B2(Len(c.methods)),
              FlattenSeq([k \in DOMAIN c.methods |-> member(Len(c.fields) + k)]),
              B2(0)>>)

---------------------------------------------------------------------------
(* The classes of a source file.                                           *)

\* The nodes classes are made of: a body without a type is a class without a name.
ClassKind == TypeDeclaration \cup {"class_body"}

\* The class declared around a node, as a node.
DeclaringType(t, i) ==
    LET around == {j \in Ancestors(t, i) : t[j].kind \in ClassKind}
    IN  IF around = {} THEN 0 ELSE CHOOSE j \in around : \A k \in around : k <= j

\* Whether a class is declared in a body, and no member of the class around it.
IsLocal(t, i) == t[i].parent # DeclaringType(t, i)

\* A nested class is named after those around it, a local class has a number in
\* front of its name, one without a name only a number.
BinaryName(t, i) ==
    LET of[j \in DOMAIN t] ==
            LET outer == DeclaringType(t, j)
            IN  (IF outer = 0 THEN Package \o <<Slash>> ELSE of[outer] \o <<Dollar>>)
                \o (IF IsLocal(t, j) THEN <<49>> ELSE <<>>) \o t[j].name
    IN  of[i]

\* A local class is for nobody else, nor are its constructor and that of an enum.
ClassFlags(t, i) ==
    (IF IsLocal(t, i) THEN 0 ELSE Flag.public)
    + (CASE t[i].kind = "enum_declaration" -> Flag.enum
         [] t[i].kind = "interface_declaration" -> Flag.interface
         [] OTHER -> 0)
ConstructorFlags(t, i) ==
    IF IsLocal(t, i) \/ t[i].kind = "enum_declaration" THEN 0 ELSE Flag.public

\* A type of Java: a class by its binary name, a primitive by its letter.
JavaType(base, dimensions) == [base |-> base, dimensions |-> dimensions]
IsPrimitive(type) == Len(type.base) = 1 /\ type.base[1] - 32 \in Primitive
JvmType(type) ==
    [k \in 1..type.dimensions |-> LeftBracket]
    \o (IF IsPrimitive(type) THEN <<type.base[1] - 32>> ELSE <<76>> \o type.base \o <<59>>)

\* What every method takes and gives here, and every field is.
Taken == <<JavaType(<<112, 47, 66>>, 0), JavaType(<<105>>, 2), JavaType(<<112, 47, 65>>, 1)>>
Given == JavaType(<<112, 47, 65>>, 1)
MethodDescriptor ==
    <<40>> \o FlattenSeq([k \in DOMAIN Taken |-> JvmType(Taken[k])]) \o <<41>> \o JvmType(Given)
ConstructorDescriptor == <<40, 73, 41, 86>>

JvmMember(name, descriptor, flags) ==
    [name |-> name, descriptor |-> descriptor, access_flags |-> flags]
NamesIn(t, i, kind) == {t[j].name : j \in {k \in ChildrenOf(t, i) : t[k].kind = kind}}
AsSequence(S) == SetToSeq(S)

\* The class of node i. Lombok adds the methods `generated'; the compiler adds
\* a constructor if there is none, a bridge and a static initializer. All of an
\* interface is public.
ClassOf(t, i, generated, fieldFlags, methodFlags) ==
    LET interface == t[i].kind = "interface_declaration"
        Flags(written) == IF interface THEN Flag.public ELSE written
        fields == AsSequence(NamesIn(t, i, "field_declaration")
                             \cup NamesIn(t, i, "constant_declaration"))
        methods == AsSequence(NamesIn(t, i, "method_declaration"))
        made == AsSequence(generated)
    IN  [access_flags |-> ClassFlags(t, i),
         this_class |-> BinaryName(t, i),
         super_class |-> <<111>>,
         interfaces |-> IF t[i].kind = "enum_declaration" THEN <<<<112, 47, 73>>>> ELSE <<>>,
         fields |-> [k \in DOMAIN fields |-> JvmMember(fields[k], JvmType(Given), Flags(fieldFlags))],
         methods |->
            [k \in DOMAIN methods |-> JvmMember(methods[k], MethodDescriptor, Flags(methodFlags))]
            \o [k \in DOMAIN made |-> JvmMember(made[k], MethodDescriptor, Flag.public)]
            \o (IF interface THEN <<>>
                ELSE <<JvmMember(Init0, ConstructorDescriptor, ConstructorFlags(t, i))>>)
            \o <<JvmMember(<<98>>, MethodDescriptor, Flag.public + Flag.synthetic),
                 JvmMember(Clinit, <<40, 41, 86>>, Flag.static)>>]

\* The methods Lombok may add to node i: accessors of its fields and another,
\* none of a name that is there already, none to an interface or to a class that
\* has no name.
Generatable(t, i, accessors, others) ==
    IF t[i].kind \in {"interface_declaration", "class_body"} THEN {} ELSE
    ({accessors[x] : x \in NamesIn(t, i, "field_declaration") \cap DOMAIN accessors} \cup others)
    \ NamesIn(t, i, "method_declaration")
=============================================================================
