--------------------------- MODULE Symbols_proofs ---------------------------
(***************************************************************************)
(* Proofs about Symbols, for any names, trees and builds of any size: what *)
(* the server reads off the syntax tree of a file, and off the class files *)
(* that javac and Lombok make of one.                                      *)
(***************************************************************************)
EXTENDS Symbols, FoldLemmas

(***************************************************************************)
(* Trees.                                                                  *)
(***************************************************************************)

Text == Seq(Nat)
Name == {text \in Text : IsName(text)}
NodeKind == TypeDeclaration \cup MethodLike
            \cup {"import_declaration", "annotation", "field_declaration", "constant_declaration",
                  "class_body", "block", "formal_parameter", "local_variable_declaration",
                  "binder", "reference"}
NodeRecord == [kind : NodeKind, parent : Nat, name : Name, type : Text]

\* A tree: every node has its parent before it.
IsTree(t) == t \in Seq(NodeRecord) /\ \A i \in 1..Len(t) : t[i].parent \in 0..(i - 1)

\* The numbers of a tree's nodes lead back to those of their parents.
ParentOf(t) == [i \in 1..Len(t) |-> t[i].parent]

\* The nodes of a tree, typed.
LEMMA TreeNodes ==
    ASSUME NEW t, IsTree(t)
    PROVE  /\ Len(t) \in Nat /\ DOMAIN t = 1..Len(t)
           /\ \A i \in 1..Len(t) :
                 /\ t[i] \in NodeRecord /\ t[i].parent \in 0..(i - 1) /\ t[i].parent \in 0..Len(t)
                 /\ t[i].kind \in NodeKind /\ t[i].name \in Name /\ t[i].name \in Text
                 /\ t[i].type \in Text
           /\ LeadsBack(ParentOf(t), Len(t))
  <1>1. /\ Len(t) \in Nat /\ DOMAIN t = 1..Len(t)
        /\ \A i \in 1..Len(t) : t[i] \in NodeRecord
    BY LenProperties, ElementOfSeq DEF IsTree
  <1>2. \A i \in 1..Len(t) : t[i].parent \in 0..(i - 1) /\ t[i].parent \in 0..Len(t)
    BY <1>1 DEF IsTree
  <1>3. \A i \in 1..Len(t) : /\ t[i].kind \in NodeKind /\ t[i].name \in Name
                             /\ t[i].name \in Text /\ t[i].type \in Text
    BY <1>1 DEF NodeRecord, Name
  <1>4. LeadsBack(ParentOf(t), Len(t))
    BY <1>1, <1>2 DEF LeadsBack, ParentOf
  <1> QED
    BY <1>1, <1>2, <1>3, <1>4

\* The nodes around a node are its parent and the nodes around that.
IsAround(around, t) ==
    /\ around[0] = {} /\ \A j \in 1..Len(t) : around[j] = {j} \cup around[t[j].parent]
    /\ \A j \in 0..Len(t) : around[j] \subseteq 1..j
    /\ \A i \in 1..Len(t) : Ancestors(t, i) = around[t[i].parent]

\* Ancestors gives the nodes of such a table.
LEMMA AroundIs ==
    ASSUME NEW t, IsTree(t)
    PROVE  \E around : IsAround(around, t)
  <1> DEFINE N == Len(t)
             W == SUBSET (1..N)
             F == [q \in (1..N) \X W |-> {q[1]} \cup q[2]]
             IsTable(f) == f = [j \in 0..Len(t) |-> IF j = 0 THEN {} ELSE {j} \cup f[t[j].parent]]
             table == CHOOSE f : IsTable(f)
             p == ParentOf(t)
  <1>1. N \in Nat /\ LeadsBack(p, N) /\ \A j \in 1..N : t[j].parent \in 0..N /\ p[j] = t[j].parent
    BY TreeNodes DEF ParentOf
  <1> HIDE DEF N, p
  <1>2. PassesOn(F, N, W) /\ {} \in W
    BY DEF PassesOn
  <1>3. PICK f \in [0..N -> W] : f[0] = {} /\ \A j \in 1..N : f[j] = F[<<j, f[p[j]]>>]
    <2> HIDE DEF F, W
    <2> QED
      BY <1>1, <1>2, ValuesFromBack
  <1>4. \A j \in 1..N : f[j] = {j} \cup f[t[j].parent]
    <2> TAKE j \in 1..N
    <2>1. f[p[j]] \in W /\ p[j] = t[j].parent
      BY <1>1, <1>3
    <2>2. F[<<j, f[p[j]]>>] = {j} \cup f[p[j]]
      BY <2>1
    <2> QED
      BY <1>3, <2>1, <2>2
  <1>5. IsTable(f)
    <2>1. \A j \in 0..N : f[j] = IF j = 0 THEN {} ELSE {j} \cup f[t[j].parent]
      <3>1. \A j \in 0..N : j = 0 \/ j \in 1..N
        BY <1>1
      <3> QED
        BY <1>3, <1>4, <3>1
    <2>2. f = [j \in 0..N |-> f[j]]
      BY <1>3
    <2> QED
      BY <2>1, <2>2 DEF N
  <1>6. IsTable(table)
    <2> HIDE DEF IsTable
    <2> QED
      BY <1>5
  <1>7. PICK a : IsTable(a) /\ \A i \in 1..N : Ancestors(t, i) = a[t[i].parent]
    <2>1. \A i \in 1..N : Ancestors(t, i) = table[t[i].parent]
      BY DEF Ancestors
    <2> HIDE DEF IsTable, table
    <2> QED
      BY <1>6, <2>1
  <1>8. a[0] = {} /\ \A j \in 1..N : a[j] = {j} \cup a[t[j].parent]
    <2>1. 0 \in 0..N /\ \A j \in 1..N : j \in 0..N /\ j # 0
      BY <1>1
    <2> QED
      BY <1>7, <2>1 DEF N
  <1> HIDE DEF IsTable
  <1>9. \A j \in 0..N : a[j] \subseteq 1..j
    <2> DEFINE T == {j \in 0..N : a[j] \subseteq 1..j}
    <2>1. 0 \in T
      BY <1>1, <1>8
    <2>2. ASSUME NEW j \in 1..N, p[j] \in T PROVE j \in T
      <3>1. p[j] \in 0..(j - 1) /\ a[p[j]] \subseteq 1..p[j]
        BY <1>1, <2>2 DEF LeadsBack
      <3>2. 1..p[j] \subseteq 1..j
        BY <3>1
      <3>3. a[j] = {j} \cup a[p[j]]
        BY <1>1, <1>8
      <3> QED
        BY <3>1, <3>2, <3>3
    <2> HIDE DEF T
    <2>3. Carries(p, N, T)
      BY <2>1, <2>2 DEF Carries
    <2>4. 0..N \subseteq T
      BY <1>1, <2>3, BackInduction
    <2> QED
      BY <2>4 DEF T
  <1> QED
    BY <1>7, <1>8, <1>9 DEF IsAround, N

\* A walk to the type around: a declaration's name at a declaration, no name at the
\* file, what its parent has at any other node.
Owners(t) == {NoText} \cup {t[i].name : i \in DOMAIN t}
IsUp(up, t) ==
    /\ up[0] = NoText
    /\ \A j \in 1..Len(t) :
          up[j] = IF t[j].kind \in TypeDeclaration THEN t[j].name ELSE up[t[j].parent]
    /\ \A j \in 0..Len(t) : up[j] \in Owners(t)
    /\ \A i \in 1..Len(t) : EnclosingTypeName(t, i) = up[t[i].parent]

\* EnclosingTypeName walks so.
LEMMA UpIs ==
    ASSUME NEW t, IsTree(t)
    PROVE  \E up : IsUp(up, t)
  <1> DEFINE N == Len(t)
             W == Owners(t)
             Own(j, w) == IF t[j].kind \in TypeDeclaration THEN t[j].name ELSE w
             F == [q \in (1..N) \X W |-> Own(q[1], q[2])]
             IsTable(f) == f = [j \in 0..Len(t) |->
                                   IF j = 0 THEN NoText
                                   ELSE IF t[j].kind \in TypeDeclaration THEN t[j].name
                                   ELSE f[t[j].parent]]
             table == CHOOSE f : IsTable(f)
             p == ParentOf(t)
  <1>1. /\ N \in Nat /\ LeadsBack(p, N) /\ DOMAIN t = 1..N
        /\ \A j \in 1..N : t[j].parent \in 0..N /\ p[j] = t[j].parent
    BY TreeNodes DEF ParentOf
  <1> HIDE DEF N, p
  <1>2. NoText \in W /\ \A j \in 1..N : \A w \in W : Own(j, w) \in W
    BY <1>1 DEF Owners
  <1> HIDE DEF W
  <1>3. PassesOn(F, N, W)
    <2> HIDE DEF Own
    <2> QED
      BY <1>2 DEF PassesOn
  <1>4. PICK f \in [0..N -> W] : f[0] = NoText /\ \A j \in 1..N : f[j] = F[<<j, f[p[j]]>>]
    <2> HIDE DEF F
    <2> QED
      BY <1>1, <1>2, <1>3, ValuesFromBack
  <1>5. \A j \in 1..N : f[j] = Own(j, f[t[j].parent])
    <2> HIDE DEF Own
    <2> TAKE j \in 1..N
    <2>1. f[p[j]] \in W /\ p[j] = t[j].parent
      BY <1>1, <1>4
    <2>2. F[<<j, f[p[j]]>>] = Own(j, f[p[j]])
      BY <2>1
    <2> QED
      BY <1>4, <2>1, <2>2
  <1>6. IsTable(f)
    <2>1. \A j \in 0..N : f[j] = IF j = 0 THEN NoText
                                 ELSE IF t[j].kind \in TypeDeclaration THEN t[j].name
                                 ELSE f[t[j].parent]
      <3>1. \A j \in 0..N : j = 0 \/ j \in 1..N
        BY <1>1
      <3> QED
        BY <1>4, <1>5, <3>1
    <2>2. f = [j \in 0..N |-> f[j]]
      BY <1>4
    <2> QED
      BY <2>1, <2>2 DEF N
  <1>7. IsTable(table)
    <2> HIDE DEF IsTable
    <2> QED
      BY <1>6
  <1>8. PICK a : IsTable(a) /\ \A i \in 1..N : EnclosingTypeName(t, i) = a[t[i].parent]
    <2>1. \A i \in 1..N : EnclosingTypeName(t, i) = table[t[i].parent]
      BY DEF EnclosingTypeName
    <2> HIDE DEF IsTable, table
    <2> QED
      BY <1>7, <2>1
  <1>9. a[0] = NoText /\ \A j \in 1..N : a[j] = Own(j, a[t[j].parent])
    <2>1. 0 \in 0..N /\ \A j \in 1..N : j \in 0..N /\ j # 0
      BY <1>1
    <2> QED
      BY <1>8, <2>1 DEF N
  <1> HIDE DEF IsTable
  <1>10. \A j \in 0..N : a[j] \in W
    <2> DEFINE T == {j \in 0..N : a[j] \in W}
    <2>1. 0 \in T
      BY <1>1, <1>2, <1>9
    <2>2. ASSUME NEW j \in 1..N, p[j] \in T PROVE j \in T
      <3> HIDE DEF Own
      <3>1. a[j] = Own(j, a[p[j]]) /\ a[p[j]] \in W /\ j \in 0..N
        BY <1>1, <1>9, <2>2
      <3> QED
        BY <1>2, <3>1
    <2> HIDE DEF T
    <2>3. Carries(p, N, T)
      BY <2>1, <2>2 DEF Carries
    <2>4. 0..N \subseteq T
      BY <1>1, <2>3, BackInduction
    <2> QED
      BY <2>4 DEF T
  <1> QED
    BY <1>8, <1>9, <1>10 DEF IsUp, N, W

---------------------------------------------------------------------------
(***************************************************************************)
(* Symbols.                                                                *)
(***************************************************************************)

\* The children of a node, as they are written, are its children.
LEMMA InOrderIs ==
    ASSUME NEW t, IsTree(t), NEW i \in 0..Len(t)
    PROVE  InOrder(t, i) \in Seq({j \in 1..Len(t) : t[j].parent = i})
  <1> DEFINE N == Len(t)
             C == {j \in 1..N : t[j].parent = i}
             B == Seq(C)
             More(s, n) == IF t[n].parent = i THEN Append(s, n) ELSE s
             F == [q \in B \X (1..N) |-> More(q[1], q[2])]
             IsTable(f) == f = [n \in 0..Len(t) |->
                                   IF n = 0 THEN <<>>
                                   ELSE IF t[n].parent = i THEN Append(f[n - 1], n)
                                   ELSE f[n - 1]]
             table == CHOOSE f : IsTable(f)
  <1>1. N \in Nat
    BY TreeNodes
  <1> HIDE DEF N
  <1>2. <<>> \in B /\ \A s \in B : \A n \in 1..N : More(s, n) \in B
    <2>1. <<>> \in B
      BY EmptySeq
    <2>2. ASSUME NEW s \in B, NEW n \in 1..N PROVE More(s, n) \in B
      <3>1. CASE t[n].parent = i
        <4>1. n \in C
          BY <3>1
        <4> HIDE DEF C
        <4> QED
          BY <3>1, <4>1, AppendProperties
      <3>2. CASE t[n].parent # i
        BY <3>2
      <3> QED
        BY <3>1, <3>2
    <2> QED
      BY <2>1, <2>2
  <1> HIDE DEF B
  <1>3. F \in [B \X (1..N) -> B]
    <2> HIDE DEF More
    <2> QED
      BY <1>2
  <1>4. PICK f : f \in [0..N -> B] /\ IsIteration(f, N, <<>>, F)
    <2> HIDE DEF F
    <2> QED
      BY <1>1, <1>2, <1>3, Iteration
  <1>5. \A n \in 1..N : n - 1 \in 0..N /\ f[n] = More(f[n - 1], n)
    <2> HIDE DEF More
    <2> TAKE n \in 1..N
    <2>1. n - 1 \in 0..N
      BY <1>1
    <2>2. f[n - 1] \in B /\ f[n] = F[<<f[n - 1], n>>]
      BY <1>4, <2>1 DEF IsIteration
    <2>3. F[<<f[n - 1], n>>] = More(f[n - 1], n)
      BY <2>2
    <2> QED
      BY <2>1, <2>2, <2>3
  <1>6. f[0] = <<>>
    BY <1>4 DEF IsIteration
  <1>7. IsTable(f)
    <2>1. \A n \in 0..N : f[n] = IF n = 0 THEN <<>>
                                 ELSE IF t[n].parent = i THEN Append(f[n - 1], n)
                                 ELSE f[n - 1]
      <3>1. \A n \in 0..N : n = 0 \/ n \in 1..N
        BY <1>1
      <3> QED
        BY <1>5, <1>6, <3>1
    <2>2. f = [n \in 0..N |-> f[n]]
      BY <1>4
    <2> QED
      BY <2>1, <2>2 DEF N
  <1>8. IsTable(table)
    <2> HIDE DEF IsTable
    <2> QED
      BY <1>7
  <1>9. PICK a : IsTable(a) /\ InOrder(t, i) = a[N]
    <2>1. InOrder(t, i) = table[N]
      BY DEF InOrder, N
    <2> HIDE DEF IsTable, table
    <2> QED
      BY <1>8, <2>1
  <1>10. a[0] = <<>> /\ \A n \in 1..N : a[n] = More(a[n - 1], n)
    <2>1. 0 \in 0..N /\ \A n \in 1..N : n \in 0..N /\ n # 0
      BY <1>1
    <2> QED
      BY <1>9, <2>1 DEF N
  <1>11. Alike(a, f, N)
    <2> HIDE DEF More
    <2> QED
      BY <1>5, <1>6, <1>10 DEF Alike
  <1>12. \A n \in 0..N : a[n] = f[n]
    BY <1>1, <1>11, SameValues
  <1>13. a[N] = f[N] /\ f[N] \in B
    BY <1>1, <1>4, <1>12
  <1> QED
    BY <1>9, <1>13 DEF B, N

\* The symbols of a file.
Known == {"Interface", "Enum", "Class", "Method", "Constructor", "Field", "Import", "none"}
SymbolRecord(uri) == [name : Text, kind : Known, uri : {uri}, node : Nat, owner : Text]

\* What a node is known by, if it is known: the owner it is pushed with, unless it is
\* an import.
LEMMA PushedIs ==
    ASSUME NEW t, IsTree(t), NEW uri, NEW i \in 1..Len(t), NEW owner \in Text
    PROVE  /\ Pushed(uri, t, i, owner) \in Seq(SymbolRecord(uri))
           /\ \A s \in ToSet(Pushed(uri, t, i, owner)) :
                 s.node = i /\ (s.kind # "Import" => s.owner = owner)
  <1> DEFINE o == IF t[i].kind = "import_declaration" THEN NoText ELSE owner
             s == Symbol(uri, SymbolKind(t[i].kind), t, i, o)
  <1>1. i \in Nat /\ t[i].name \in Text /\ NoText \in Text
    BY TreeNodes, EmptySeq DEF Text, NoText
  <1>2. SymbolKind(t[i].kind) \in Known
    <2> DEFINE kind == t[i].kind
    <2> HIDE DEF kind
    <2>1. SymbolKind(kind) \in Known
      BY DEF SymbolKind, Known
    <2> QED
      BY <2>1 DEF kind
  <1>3. o \in Text
    BY <1>1
  <1>4. t[i].kind = "import_declaration" => SymbolKind(t[i].kind) = "Import"
    BY DEF SymbolKind
  <1>5. s.node = i /\ (s.kind # "Import" => s.owner = owner)
    BY <1>4 DEF Symbol
  <1>6. s \in SymbolRecord(uri)
    <2> HIDE DEF o
    <2> QED
      BY <1>1, <1>2, <1>3 DEF Symbol, SymbolRecord
  <1>7. CASE Pushed(uri, t, i, owner) = <<>>
    BY <1>7, EmptySeq DEF ToSet
  <1>8. CASE Pushed(uri, t, i, owner) # <<>>
    <2>1. Pushed(uri, t, i, owner) = <<s>>
      BY <1>8 DEF Pushed
    <2> HIDE DEF s
    <2>2. <<s>> \in Seq(SymbolRecord(uri))
      BY <1>6
    <2>3. ToSet(<<s>>) = {s}
      BY DEF ToSet
    <2> QED
      BY <1>5, <2>1, <2>2, <2>3
  <1> QED
    BY <1>7, <1>8

\* The walk down from a node, handing on the owner: what the node pushes, and behind
\* it what its children do.
Below(walk, t, i, owner) ==
    [k \in DOMAIN InOrder(t, i) |-> walk[InOrder(t, i)[k]][owner]]
IsWalk(walk, t, uri) ==
    /\ \A i \in 1..Len(t) : \A owner \in Owners(t) :
          walk[i][owner] = Pushed(uri, t, i, owner)
                           \o FlattenSeq(Below(walk, t, i, ChildOwner(t, i, owner)))
    /\ ExtractSymbols(uri, t) = FlattenSeq(Below(walk, t, 0, NoText))

\* The owner handed on is one of the owners there are.
LEMMA ChildOwnerIs ==
    ASSUME NEW t, IsTree(t), NEW i \in 1..Len(t), NEW owner \in Owners(t)
    PROVE  ChildOwner(t, i, owner) \in Owners(t)
  BY TreeNodes DEF ChildOwner, Owners

\* The owners are texts.
LEMMA OwnersAreTexts ==
    ASSUME NEW t, IsTree(t)
    PROVE  NoText \in Owners(t) /\ Owners(t) \subseteq Text
  <1>1. NoText \in Text
    BY EmptySeq DEF NoText, Text
  <1>2. \A i \in DOMAIN t : t[i].name \in Text
    BY TreeNodes
  <1> QED
    BY <1>1, <1>2, Zenon DEF Owners

\* A table over nodes and owners, row by row.
LEMMA WalkIs ==
    ASSUME NEW t, IsTree(t), NEW uri
    PROVE  \E walk : IsWalk(walk, t, uri)
  <1> DEFINE N == Len(t)
             O == Owners(t)
             S == SymbolRecord(uri)
             W == [O -> Seq(S)]
             C(i) == {j \in 1..N : t[j].parent = i}
             Row(f, i, owner) == [k \in DOMAIN InOrder(t, i) |->
                                     f[N + 1 - InOrder(t, i)[k]][ChildOwner(t, i, owner)]]
             Whole(f, i, owner) == Pushed(uri, t, i, owner) \o FlattenSeq(Row(f, i, owner))
             Step == [q \in [1..N -> W] \X (1..N) |->
                         [owner \in O |-> Whole(q[1], N + 1 - q[2], owner)]]
             IsTable(w) ==
                 w = [i \in DOMAIN t |->
                         [owner \in O |->
                             Pushed(uri, t, i, owner)
                             \o FlattenSeq(Below(w, t, i, ChildOwner(t, i, owner)))]]
             table == CHOOSE w : IsTable(w)
  <1>1. N \in Nat /\ DOMAIN t = 1..N
    BY TreeNodes
  <1>2. ASSUME NEW i \in 1..N
        PROVE  /\ \A k \in DOMAIN InOrder(t, i) : InOrder(t, i)[k] \in 1..N /\ InOrder(t, i)[k] > i
               /\ Len(InOrder(t, i)) \in Nat /\ DOMAIN InOrder(t, i) = 1..Len(InOrder(t, i))
    <2>1. InOrder(t, i) \in Seq(C(i)) /\ i \in 0..N
      BY <1>1, InOrderIs
    <2>2. \A j \in C(i) : j \in 1..N /\ j > i
      BY TreeNodes
    <2> HIDE DEF C
    <2> QED
      BY <2>1, <2>2, LenProperties, ElementOfSeq
  <1>3. \A owner \in O : owner \in Text
    BY OwnersAreTexts
  <1>4. \A i \in 1..N : \A owner \in O : ChildOwner(t, i, owner) \in O
    BY ChildOwnerIs
  <1> HIDE DEF N, O, C
  <1>5. ASSUME NEW f \in [1..N -> W], NEW i \in 1..N, NEW owner \in O
        PROVE  Whole(f, i, owner) \in Seq(S)
    <2>1. \A k \in DOMAIN InOrder(t, i) :
             f[N + 1 - InOrder(t, i)[k]][ChildOwner(t, i, owner)] \in Seq(S)
      <3> TAKE k \in DOMAIN InOrder(t, i)
      <3>1. N + 1 - InOrder(t, i)[k] \in 1..N
        BY <1>1, <1>2, SMTT(30)
      <3>2. f[N + 1 - InOrder(t, i)[k]] \in W
        BY <3>1
      <3> QED
        BY <1>4, <3>2
    <2>2. Row(f, i, owner) \in Seq(Seq(S))
      <3> DEFINE row == Row(f, i, owner)
      <3>1. row \in [1..Len(InOrder(t, i)) -> Seq(S)]
        BY <1>2, <2>1
      <3> HIDE DEF row
      <3>2. row \in Seq(Seq(S))
        BY <1>2, <3>1, SeqDef, SMTT(30)
      <3> QED
        BY <3>2 DEF row
    <2> HIDE DEF Row, S
    <2>3. FlattenSeq(Row(f, i, owner)) \in Seq(S)
      BY <2>2, FlattenElements
    <2>4. Pushed(uri, t, i, owner) \in Seq(S)
      BY <1>3, PushedIs DEF S, N
    <2> QED
      BY <2>3, <2>4, ConcatProperties
  <1>6. ASSUME NEW f \in [1..N -> W], NEW n \in 1..N
        PROVE  /\ Step[<<f, n>>] = [owner \in O |-> Whole(f, N + 1 - n, owner)]
               /\ Step[<<f, n>>] \in W
    <2>1. N + 1 - n \in 1..N
      BY <1>1
    <2>2. \A owner \in O : Whole(f, N + 1 - n, owner) \in Seq(S)
      BY <1>5, <2>1
    <2> HIDE DEF Whole
    <2>3. Step[<<f, n>>] = [owner \in O |-> Whole(f, N + 1 - n, owner)]
      OBVIOUS
    <2> QED
      BY <2>2, <2>3
  <1>7. ASSUME NEW f \in [1..N -> W], NEW g \in [1..N -> W], NEW n \in 1..N,
               \A m \in 1..(n - 1) : f[m] = g[m]
        PROVE  Step[<<f, n>>] = Step[<<g, n>>]
    <2> DEFINE i == N + 1 - n
    <2>1. i \in 1..N
      BY <1>1
    <2>2. ASSUME NEW k \in DOMAIN InOrder(t, i)
          PROVE  f[N + 1 - InOrder(t, i)[k]] = g[N + 1 - InOrder(t, i)[k]]
      <3>1. InOrder(t, i)[k] \in 1..N /\ InOrder(t, i)[k] > i
        BY <1>2, <2>1
      <3>2. N + 1 - InOrder(t, i)[k] \in 1..(n - 1)
        BY <1>1, <3>1
      <3> QED
        BY <1>7, <3>2
    <2> HIDE DEF i
    <2>3. \A owner \in O : Row(f, i, owner) = Row(g, i, owner)
      BY <2>2
    <2> HIDE DEF Row
    <2>4. \A owner \in O : Whole(f, i, owner) = Whole(g, i, owner)
      BY <2>3
    <2> HIDE DEF Whole, Step
    <2>5. /\ Step[<<f, n>>] = [owner \in O |-> Whole(f, i, owner)]
          /\ Step[<<g, n>>] = [owner \in O |-> Whole(g, i, owner)]
      BY <1>6 DEF i
    <2> QED
      BY <2>4, <2>5
  <1>8. LooksBack(Step, N, W)
    <2> HIDE DEF Whole
    <2>1. Step \in [[1..N -> W] \X (1..N) -> W]
      <3> HIDE DEF W
      <3> QED
        BY <1>6
    <2> HIDE DEF Step, W
    <2> QED
      BY <1>7, <2>1 DEF LooksBack
  <1>9. PICK f : f \in [1..N -> W] /\ \A n \in 1..N : f[n] = Step[<<f, n>>]
    <2>1. \E w : w \in W
      <3>1. [owner \in O |-> <<>>] \in W
        BY EmptySeq
      <3> QED
        BY <3>1
    <2> HIDE DEF Step, W
    <2>2. \E f : LedTo(f, Step, N, W)
      BY <1>1, <1>8, <2>1, Recursion
    <2> QED
      BY <2>2 DEF LedTo
  <1> DEFINE w == [i \in DOMAIN t |-> f[N + 1 - i]]
  <1>10. ASSUME NEW i \in 1..N, NEW owner \in O
         PROVE  f[N + 1 - i][owner] = Whole(f, i, owner) /\ w[i][owner] = f[N + 1 - i][owner]
    <2>1. N + 1 - i \in 1..N /\ N + 1 - (N + 1 - i) = i
      BY <1>1
    <2> HIDE DEF Whole, Step
    <2>2. f[N + 1 - i] = Step[<<f, N + 1 - i>>]
      BY <1>9, <2>1
    <2>3. Step[<<f, N + 1 - i>>] = [o \in O |-> Whole(f, N + 1 - (N + 1 - i), o)]
      BY <1>6, <1>9, <2>1
    <2>4. f[N + 1 - i] = [o \in O |-> Whole(f, i, o)]
      BY <2>1, <2>2, <2>3
    <2> QED
      BY <1>1, <2>4
  <1>11. ASSUME NEW i \in 1..N, NEW owner \in O
         PROVE  Row(f, i, owner) = Below(w, t, i, ChildOwner(t, i, owner))
    <2>1. \A k \in DOMAIN InOrder(t, i) : f[N + 1 - InOrder(t, i)[k]][ChildOwner(t, i, owner)]
                                           = w[InOrder(t, i)[k]][ChildOwner(t, i, owner)]
      BY <1>2, <1>4, <1>10
    <2> HIDE DEF w
    <2> QED
      BY <2>1 DEF Below
  <1>12. \A i \in 1..N : \A owner \in O :
            w[i][owner] = Pushed(uri, t, i, owner)
                          \o FlattenSeq(Below(w, t, i, ChildOwner(t, i, owner)))
    <2> HIDE DEF Row, w
    <2> QED
      BY <1>10, <1>11
  <1>13. IsTable(w)
    <2> DEFINE Body(i, owner) == Pushed(uri, t, i, owner)
                                 \o FlattenSeq(Below(w, t, i, ChildOwner(t, i, owner)))
    <2>1. \A i \in 1..N : f[N + 1 - i] = [owner \in O |-> Body(i, owner)]
      <3> TAKE i \in 1..N
      <3>1. \A owner \in O : Whole(f, i, owner) = Body(i, owner)
        <4> HIDE DEF Row, w
        <4> QED
          BY <1>11
      <3>2. N + 1 - i \in 1..N /\ N + 1 - (N + 1 - i) = i
        BY <1>1
      <3> HIDE DEF Whole, Step, Body
      <3>3. f[N + 1 - i] = Step[<<f, N + 1 - i>>]
        BY <1>9, <3>2
      <3>4. Step[<<f, N + 1 - i>>] = [owner \in O |-> Whole(f, N + 1 - (N + 1 - i), owner)]
        BY <1>6, <1>9, <3>2
      <3>5. f[N + 1 - i] = [owner \in O |-> Whole(f, i, owner)]
        BY <3>2, <3>3, <3>4
      <3> QED
        BY <3>1, <3>5
    <2> HIDE DEF Body
    <2>2. w = [i \in DOMAIN t |-> [owner \in O |-> Body(i, owner)]]
      BY <1>1, <2>1
    <2> HIDE DEF w
    <2> QED
      BY <2>2 DEF Body
  <1>14. IsTable(table)
    <2> HIDE DEF IsTable, w
    <2> QED
      BY <1>13
  <1>15. PICK a : IsTable(a) /\ ExtractSymbols(uri, t) = FlattenSeq(Below(a, t, 0, NoText))
    <2>1. ExtractSymbols(uri, t) = FlattenSeq(Below(table, t, 0, NoText))
      BY DEF ExtractSymbols, Below, Owners, O
    <2> HIDE DEF IsTable, table
    <2> QED
      BY <1>14, <2>1
  <1>16. ASSUME NEW i \in 1..N, NEW owner \in O
         PROVE  a[i][owner] = Pushed(uri, t, i, owner)
                              \o FlattenSeq(Below(a, t, i, ChildOwner(t, i, owner)))
    <2> DEFINE Body(j, o) == Pushed(uri, t, j, o)
                             \o FlattenSeq(Below(a, t, j, ChildOwner(t, j, o)))
    <2>1. a = [j \in DOMAIN t |-> [o \in O |-> Body(j, o)]]
      BY <1>15 DEF Below
    <2> HIDE DEF Body
    <2>2. a[i][owner] = Body(i, owner)
      BY <1>1, <2>1
    <2> QED
      BY <2>2 DEF Body
  <1> QED
    BY <1>15, <1>16 DEF IsWalk, N, O

\* The owner handed down to a node is the name of the type around it, and so the owner
\* of every symbol found there is.
Owned(t, up, s) ==
    s.node \in 1..Len(t) /\ (s.kind # "Import" => s.owner = up[t[s.node].parent])

\* So going down the tree to a symbol and up from it end at one name.
LEMMA OwnersMeet ==
    ASSUME NEW t, IsTree(t), NEW uri
    PROVE  \A s \in ToSet(ExtractSymbols(uri, t)) :
              s.kind # "Import" => s.owner = EnclosingTypeName(t, s.node)
  <1> DEFINE N == Len(t)
             O == Owners(t)
             S == SymbolRecord(uri)
  <1>1. N \in Nat /\ \A i \in 1..N : t[i].parent \in 0..N
    BY TreeNodes
  <1>2. PICK up : IsUp(up, t)
    BY UpIs
  <1>3. PICK walk : IsWalk(walk, t, uri)
    BY WalkIs
  <1> DEFINE Fine(list) == list \in Seq(S) /\ \A s \in ToSet(list) : Owned(t, up, s)
             Holds(i) == Fine(walk[i][up[t[i].parent]])
             T == {i \in 1..N : Holds(i)}
  <1>4. ASSUME NEW i \in 0..N, \A j \in 1..N : t[j].parent = i => Holds(j)
        PROVE  Fine(FlattenSeq(Below(walk, t, i, up[i])))
    <2> DEFINE order == InOrder(t, i)
               C == {j \in 1..N : t[j].parent = i}
               row == Below(walk, t, i, up[i])
    <2>1. order \in Seq(C)
      BY InOrderIs
    <2>2. \A j \in C : Fine(walk[j][up[i]])
      BY <1>4
    <2> HIDE DEF order, C, Fine
    <2>3. /\ Len(order) \in Nat /\ DOMAIN order = 1..Len(order)
          /\ \A k \in 1..Len(order) : order[k] \in C
      BY <2>1, LenProperties, ElementOfSeq
    <2>4. row = [k \in 1..Len(order) |-> walk[order[k]][up[i]]]
      BY <2>3 DEF Below, order
    <2>5. \A k \in 1..Len(order) : Fine(row[k])
      BY <2>2, <2>3, <2>4
    <2>6. row \in Seq(Seq(S)) /\ DOMAIN row = 1..Len(order)
      <3> HIDE DEF row, S
      <3>1. \A k \in 1..Len(order) : row[k] \in Seq(S)
        BY <2>5 DEF Fine
      <3>2. row \in [1..Len(order) -> Seq(S)]
        BY <2>4, <3>1
      <3> QED
        BY <2>3, <3>2, SeqDef
    <2> HIDE DEF row, S
    <2>7. /\ FlattenSeq(row) \in Seq(S)
          /\ ToSet(FlattenSeq(row)) = UNION {ToSet(row[k]) : k \in DOMAIN row}
      BY <2>6, FlattenElements
    <2>8. \A s \in ToSet(FlattenSeq(row)) : Owned(t, up, s)
      BY <2>5, <2>6, <2>7 DEF Fine
    <2> QED
      BY <2>7, <2>8 DEF Fine, row
  <1>5. ASSUME NEW i \in 1..N, \A j \in 1..N : j > i => j \in T
        PROVE  i \in T
    <2> DEFINE owner == up[t[i].parent]
               pushed == Pushed(uri, t, i, owner)
               rest == FlattenSeq(Below(walk, t, i, ChildOwner(t, i, owner)))
    <2>1. owner \in O /\ owner \in Text
      BY <1>1, <1>2, OwnersAreTexts DEF IsUp
    <2>2. ChildOwner(t, i, owner) = up[i]
      BY <1>2 DEF IsUp, ChildOwner
    <2>3. \A j \in 1..N : t[j].parent = i => Holds(j)
      <3> TAKE j \in 1..N
      <3>1. t[j].parent = i => j > i
        BY TreeNodes
      <3> QED
        BY <1>5, <3>1
    <2>4. Fine(rest)
      <3> HIDE DEF Fine, Holds
      <3> QED
        BY <1>1, <1>4, <2>2, <2>3
    <2>5. Fine(pushed)
      <3> HIDE DEF owner
      <3>1. /\ pushed \in Seq(S)
            /\ \A s \in ToSet(pushed) : s.node = i /\ (s.kind # "Import" => s.owner = owner)
        BY <2>1, PushedIs
      <3> HIDE DEF pushed
      <3> QED
        BY <3>1 DEF Owned, owner
    <2>6. walk[i][owner] = pushed \o rest
      <3> HIDE DEF owner
      <3> QED
        BY <1>3, <2>1 DEF IsWalk
    <2> HIDE DEF pushed, rest, S
    <2>7. pushed \o rest \in Seq(S) /\ ToSet(pushed \o rest) = ToSet(pushed) \cup ToSet(rest)
      BY <2>4, <2>5, ConcatProperties, ConcatElements
    <2>8. Fine(pushed \o rest)
      BY <2>4, <2>5, <2>7
    <2> HIDE DEF Fine
    <2> QED
      BY <2>6, <2>8
  <1>6. 1..N \subseteq T
    <2> HIDE DEF T
    <2> QED
      BY <1>1, <1>5, FrontInduction
  <1>7. Fine(FlattenSeq(Below(walk, t, 0, up[0])))
    <2> HIDE DEF Fine
    <2> QED
      BY <1>1, <1>4, <1>6
  <1>8. up[0] = NoText /\ \A i \in 1..N : EnclosingTypeName(t, i) = up[t[i].parent]
    BY <1>2 DEF IsUp
  <1>9. Fine(ExtractSymbols(uri, t))
    <2> HIDE DEF Fine
    <2> QED
      BY <1>3, <1>7, <1>8 DEF IsWalk
  <1> QED
    BY <1>8, <1>9 DEF Owned

---------------------------------------------------------------------------
(***************************************************************************)
(* What is typed.                                                          *)
(***************************************************************************)

\* Where declarations are: fields in types other than interfaces and in the bodies of
\* classes without a name, parameters at methods, local variables in blocks; each has a
\* type of its own.
Fits(t, node, i) ==
    /\ node.kind = "field_declaration" =>
          node.parent # 0 /\ t[node.parent].kind \in TypeDeclaration \cup {"class_body"}
    /\ node.kind = "formal_parameter" => node.parent # 0 /\ t[node.parent].kind \in MethodLike
    /\ node.kind = "local_variable_declaration" =>
          node.parent # 0 /\ t[node.parent].kind = "block"
    /\ node.kind \in Declaration => node.type = WrittenType(i)
Grammar(t) == \A i \in 1..Len(t) : Fits(t, t[i], i)

TreeInv == IsTree(tree) /\ Grammar(tree) /\ Len(tree) <= MaxNodes

\* One node more.
LEMMA TreeGrows ==
    ASSUME TreeInv, LastNode < MaxNodes, NEW node \in NodeRecord, node.parent \in 0..LastNode,
           Fits(tree, node, LastNode + 1), tree' = Append(tree, node)
    PROVE  TreeInv'
  <1> DEFINE N == Len(tree)
             more == Append(tree, node)
  <1>1. /\ tree \in Seq(NodeRecord) /\ N \in Nat /\ MaxNodes \in Nat /\ N < MaxNodes
        /\ \A i \in 1..N : tree[i].parent \in 0..(i - 1)
    BY TreeNodes, SymbolsAssumption DEF TreeInv, IsTree, LastNode
  <1>2. /\ more \in Seq(NodeRecord) /\ Len(more) = N + 1 /\ more[N + 1] = node
        /\ \A i \in 1..N : more[i] = tree[i]
    BY <1>1, AppendProperties
  <1> HIDE DEF more
  <1>3. \A i \in 1..Len(more) : i \in 1..N \/ i = N + 1
    BY <1>1, <1>2
  <1>4. IsTree(more)
    <2>1. \A i \in 1..Len(more) : more[i].parent \in 0..(i - 1)
      <3> TAKE i \in 1..Len(more)
      <3>1. CASE i \in 1..N
        BY <1>1, <1>2, <3>1
      <3>2. CASE i = N + 1
        <4>1. (N + 1) - 1 = N
          BY <1>1
        <4> QED
          BY <1>2, <3>2, <4>1 DEF LastNode
      <3> QED
        BY <1>3, <3>1, <3>2
    <2> QED
      BY <1>2, <2>1 DEF IsTree
  <1>5. \A j \in 1..N : more[j].kind = tree[j].kind
    BY <1>2
  <1>6. ASSUME NEW other \in NodeRecord, other.parent \in 0..N, NEW i, Fits(tree, other, i)
        PROVE  Fits(more, other, i)
    <2>1. other.parent # 0 => more[other.parent].kind = tree[other.parent].kind
      BY <1>1, <1>5, <1>6
    <2> QED
      BY <1>6, <2>1 DEF Fits
  <1>7. Grammar(more)
    <2> SUFFICES ASSUME NEW i \in 1..Len(more) PROVE Fits(more, more[i], i)
      BY DEF Grammar
    <2>1. CASE i \in 1..N
      <3>1. more[i] = tree[i] /\ tree[i] \in NodeRecord /\ tree[i].parent \in 0..N
        BY <1>1, <1>2, <2>1, TreeNodes DEF TreeInv
      <3>2. Fits(tree, tree[i], i)
        BY <2>1 DEF TreeInv, Grammar
      <3> QED
        BY <1>6, <3>1, <3>2
    <2>2. CASE i = N + 1
      BY <1>2, <1>6, <2>2 DEF LastNode
    <2> QED
      BY <1>3, <2>1, <2>2
  <1>8. Len(more) <= MaxNodes
    BY <1>1, <1>2
  <1> QED
    BY <1>4, <1>7, <1>8 DEF TreeInv, more

\* The ways in which a type is written.
LEMMA WrittenTypes ==
    ASSUME NEW i \in Nat
    PROVE  WrittenType(i) \in Text
  <1>1. \A a, b \in Nat : <<a, b>> \in Seq(Nat)
    OBVIOUS
  <1>2. <<112, Dot>> \in Seq(Nat) /\ PlainType(i) \in Seq(Nat)
        /\ <<LeftAngle, 112, Dot, 81, 62>> \in Seq(Nat) /\ <<LeftBracket, RightBracket>> \in Seq(Nat)
    BY <1>1 DEF PlainType, Dot, LeftAngle, LeftBracket, RightBracket
  <1>3. \A a, b \in Seq(Nat) : a \o b \in Seq(Nat)
    BY ConcatProperties
  <1>4. /\ <<112, Dot>> \o PlainType(i) \o <<LeftAngle, 112, Dot, 81, 62>> \in Seq(Nat)
        /\ <<112, Dot>> \o PlainType(i) \o <<LeftBracket, RightBracket>> \in Seq(Nat)
    <2> DEFINE a == <<112, Dot>>
               b == PlainType(i)
               c == <<LeftAngle, 112, Dot, 81, 62>>
               d == <<LeftBracket, RightBracket>>
    <2>1. a \in Seq(Nat) /\ b \in Seq(Nat) /\ c \in Seq(Nat) /\ d \in Seq(Nat)
      BY <1>2
    <2> HIDE DEF a, b, c, d
    <2>2. a \o b \in Seq(Nat)
      BY <1>3, <2>1
    <2>3. (a \o b) \o c \in Seq(Nat) /\ (a \o b) \o d \in Seq(Nat)
      BY <1>3, <2>1, <2>2
    <2> QED
      BY <2>3 DEF a, b, c, d
  <1> QED
    BY <1>2, <1>4 DEF WrittenType, Text

\* The bounds of the surrogates, in their order.
LEMMA Bounds ==
    /\ FirstHigh \in Nat /\ FirstLow \in Nat /\ LastLow \in Nat /\ LastCodePoint \in Nat
    /\ FirstPaired \in Nat
    /\ 127 < FirstHigh /\ 2047 < FirstHigh /\ FirstHigh < FirstLow /\ FirstLow < LastLow
    /\ LastLow < FirstPaired /\ FirstPaired < LastCodePoint
    /\ FirstLow = FirstHigh + 1024 /\ LastLow = FirstLow + 1023
  BY SMT DEF FirstHigh, FirstLow, LastLow, FirstPaired, LastCodePoint

\* Texts of low characters are names.
LEMMA LowNames ==
    /\ <<>> \in Name
    /\ \A a \in 0..127 : <<a>> \in Name
  <1>1. \A a \in 0..127 : IsScalar(a) /\ a \in 0..LastCodePoint /\ a \in Nat
    BY Bounds DEF IsScalar
  <1>2. ASSUME NEW a \in 0..127 PROVE <<a>> \in Name
    <2> DEFINE one == <<a>>
    <2>1. a \in Nat /\ a \in 0..LastCodePoint
      BY <1>1
    <2> DEFINE S == 0..LastCodePoint
    <2> HIDE DEF S
    <2>2. one \in Seq(Nat) /\ one \in Seq(S)
      BY <2>1 DEF S
    <2>3. DOMAIN one = {1} /\ one[1] = a
      OBVIOUS
    <2> HIDE DEF one
    <2>4. IsName(one)
      BY <1>1, <2>2, <2>3 DEF IsName, S
    <2> QED
      BY <2>2, <2>4 DEF Name, Text, one
  <1>3. <<>> \in Name
    <2>1. <<>> \in Seq(Nat) /\ <<>> \in Seq(0..LastCodePoint) /\ DOMAIN <<>> = {}
      BY EmptySeq
    <2> QED
      BY <2>1 DEF Name, IsName, Text
  <1> QED
    BY <1>2, <1>3

\* A name is a text.
LEMMA NamesAreTexts ==
    ASSUME NEW text, IsName(text)
    PROVE  text \in Name /\ text \in Text
  <1>1. text \in Seq(0..LastCodePoint)
    BY DEF IsName
  <1> DEFINE S == 0..LastCodePoint
  <1>2. S \subseteq Nat
    OBVIOUS
  <1> HIDE DEF S
  <1>3. text \in Seq(S)
    BY <1>1 DEF S
  <1>4. Len(text) \in Nat /\ text \in [1..Len(text) -> Nat]
    BY <1>2, <1>3, LenProperties
  <1>5. text \in Seq(Nat)
    BY <1>4, IsASeq
  <1> QED
    BY <1>5 DEF Name, Text

\* A file is typed as a tree.
LEMMA TypeKeepsTree == TreeInv /\ Type => TreeInv'
  <1> SUFFICES ASSUME TreeInv, Type PROVE TreeInv'
    OBVIOUS
  <1>1. /\ LastNode \in Nat /\ DOMAIN tree = 1..LastNode /\ LastNode < MaxNodes
        /\ \A i \in 1..LastNode : tree[i].name \in Name /\ tree[i].kind \in NodeKind
    BY TreeNodes DEF TreeInv, LastNode, Type
  <1>2. /\ Stem \in Name /\ Variable \in Name /\ MethodName \in Name /\ TypeName \subseteq Name
        /\ TypeKind \subseteq TypeDeclaration
    BY SymbolsAssumption, NamesAreTexts
  <1>3. /\ NoText \in Name /\ This \in Name /\ Expression \in Name /\ <<68>> \in Name
        /\ NoText \in Text /\ Lombok \o <<Dot, 68>> \in Text
    <2>1. <<Dot, 68>> \in Seq(Nat) /\ Lombok \in Seq(Nat)
      BY DEF Dot, Lombok
    <2>2. Lombok \o <<Dot, 68>> \in Seq(Nat)
      <3> DEFINE a == <<Dot, 68>>
      <3> HIDE DEF a
      <3> QED
        BY <2>1, ConcatProperties DEF a
    <2>3. 0 \in 0..127 /\ 1 \in 0..127 /\ 68 \in 0..127
      OBVIOUS
    <2> QED
      BY <2>2, <2>3, EmptySeq, LowNames DEF NoText, This, Expression, Text
  <1>4. WrittenType(LastNode + 1) \in Text
    BY <1>1, WrittenTypes
  <1>5. ASSUME NEW kind \in NodeKind, NEW parent \in 0..LastNode, NEW name \in Name,
               NEW type \in Text, Fits(tree, Node(kind, parent, name, type), LastNode + 1),
               Add(Node(kind, parent, name, type))
        PROVE  TreeInv'
    <2> DEFINE node == Node(kind, parent, name, type)
    <2>1. node \in NodeRecord /\ node.parent = parent
      BY <1>1 DEF Node, NodeRecord
    <2> HIDE DEF node
    <2> QED
      BY <1>1, <1>5, <2>1, TreeGrows DEF Add, node
  <1>6. CASE TypeImport
    <2>1. Fits(tree, Node("import_declaration", 0, <<68>>, Lombok \o <<Dot, 68>>), LastNode + 1)
      BY DEF Fits, Node, Declaration
    <2>2. "import_declaration" \in NodeKind /\ 0 \in 0..LastNode
      BY <1>1 DEF NodeKind
    <2> QED
      BY <1>3, <1>5, <1>6, <2>1, <2>2 DEF TypeImport
  <1>7. CASE TypeType
    <2>1. PICK i \in {0} \cup DOMAIN tree, kind \in TypeKind :
              \E name \in (IF i = 0 THEN {Stem} ELSE TypeName) \cup {NoText} :
                  Add(New(kind, i, name))
      BY <1>7 DEF TypeType
    <2>2. PICK name \in (IF i = 0 THEN {Stem} ELSE TypeName) \cup {NoText} :
              Add(New(kind, i, name))
      BY <2>1
    <2>3. name \in Name /\ kind \in TypeDeclaration /\ kind \in NodeKind /\ i \in 0..LastNode
      BY <1>1, <1>2, <1>3 DEF NodeKind
    <2>4. Fits(tree, Node(kind, i, name, WrittenType(LastNode + 1)), LastNode + 1)
      BY <2>3 DEF Fits, Node, Declaration, TypeDeclaration
    <2> QED
      BY <1>4, <1>5, <2>2, <2>3, <2>4 DEF New
  <1>8. CASE TypeAnnotation
    <2>1. Fits(tree, Node("annotation", LastNode, NoText, Lombok \o <<Dot, 68>>), LastNode + 1)
      BY DEF Fits, Node, Declaration
    <2>2. "annotation" \in NodeKind /\ LastNode \in 0..LastNode
      BY <1>1 DEF NodeKind
    <2> QED
      BY <1>3, <1>5, <1>8, <2>1, <2>2 DEF TypeAnnotation
  <1>9. ASSUME NEW kind \in NodeKind, NEW i \in DOMAIN tree, NEW name \in Name,
               Fits(tree, Node(kind, i, name, WrittenType(LastNode + 1)), LastNode + 1),
               Add(New(kind, i, name))
        PROVE  TreeInv'
    <2>1. i \in 0..LastNode
      BY <1>1
    <2> QED
      BY <1>4, <1>5, <1>9, <2>1 DEF New
  <1>10. CASE TypeMember
    <2>1. PICK i \in DOMAIN tree :
             /\ tree[i].kind \in TypeDeclaration \cup {"class_body"}
             /\ \/ Add(New(IF tree[i].kind = "interface_declaration"
                           THEN "constant_declaration" ELSE "field_declaration", i, Variable))
                \/ Add(New("method_declaration", i, MethodName))
                \/ Add(New("constructor_declaration", i, tree[i].name))
                \/ Add(New("block", i, NoText))
      BY <1>10 DEF TypeMember
    <2>2. i # 0 /\ tree[i].name \in Name
      BY <1>1
    <2> DEFINE T == WrittenType(LastNode + 1)
               kind == IF tree[i].kind = "interface_declaration"
                       THEN "constant_declaration" ELSE "field_declaration"
    <2>3. /\ kind \in NodeKind /\ "method_declaration" \in NodeKind
          /\ "constructor_declaration" \in NodeKind /\ "block" \in NodeKind
      BY DEF NodeKind, MethodLike
    <2>4. /\ Fits(tree, Node(kind, i, Variable, T), LastNode + 1)
          /\ Fits(tree, Node("method_declaration", i, MethodName, T), LastNode + 1)
          /\ Fits(tree, Node("constructor_declaration", i, tree[i].name, T), LastNode + 1)
          /\ Fits(tree, Node("block", i, NoText, T), LastNode + 1)
      BY <2>1, <2>2 DEF Fits, Node, Declaration
    <2> HIDE DEF kind, T
    <2> QED
      BY <1>2, <1>3, <1>9, <2>1, <2>2, <2>3, <2>4 DEF kind, T
  <1>11. CASE TypeInMethod
    <2>1. PICK i \in DOMAIN tree :
             /\ tree[i].kind \in MethodLike
             /\ \/ \E kind \in {"formal_parameter", "binder"} : Add(New(kind, i, Variable))
                \/ Add(New("block", i, NoText))
      BY <1>11 DEF TypeInMethod
    <2>2. i # 0
      BY <1>1
    <2>3. /\ "formal_parameter" \in NodeKind /\ "binder" \in NodeKind /\ "block" \in NodeKind
      BY DEF NodeKind
    <2>4. /\ \A kind \in {"formal_parameter", "binder"} :
                Fits(tree, Node(kind, i, Variable, WrittenType(LastNode + 1)), LastNode + 1)
          /\ Fits(tree, Node("block", i, NoText, WrittenType(LastNode + 1)), LastNode + 1)
      BY <2>1, <2>2 DEF Fits, Node, Declaration
    <2> QED
      BY <1>2, <1>3, <1>9, <2>1, <2>3, <2>4
  <1>12. CASE TypeInBlock
    <2>1. PICK i \in DOMAIN tree :
             /\ tree[i].kind = "block"
             /\ \/ \E kind \in {"local_variable_declaration", "binder"} :
                      Add(New(kind, i, Variable))
                \/ \E kind \in {"block", "class_body"} : Add(New(kind, i, NoText))
                \/ \E object \in {NoText, This, Variable, Expression} :
                      Add(Node("reference", i, object, NoText))
      BY <1>12 DEF TypeInBlock
    <2>2. i # 0 /\ i \in 0..LastNode
      BY <1>1
    <2>3. /\ \A kind \in {"local_variable_declaration", "binder", "block", "class_body"} :
                kind \in NodeKind
          /\ "reference" \in NodeKind
      BY DEF NodeKind
    <2>4. /\ \A kind \in {"local_variable_declaration", "binder"} :
                Fits(tree, Node(kind, i, Variable, WrittenType(LastNode + 1)), LastNode + 1)
          /\ \A kind \in {"block", "class_body"} :
                Fits(tree, Node(kind, i, NoText, WrittenType(LastNode + 1)), LastNode + 1)
          /\ \A object \in {NoText, This, Variable, Expression} :
                Fits(tree, Node("reference", i, object, NoText), LastNode + 1)
      BY <2>1, <2>2 DEF Fits, Node, Declaration
    <2>5. CASE \E kind \in {"local_variable_declaration", "binder"} : Add(New(kind, i, Variable))
      BY <1>2, <1>9, <2>3, <2>4, <2>5
    <2>6. CASE \E kind \in {"block", "class_body"} : Add(New(kind, i, NoText))
      BY <1>3, <1>9, <2>3, <2>4, <2>6
    <2>7. CASE \E object \in {NoText, This, Variable, Expression} :
                  Add(Node("reference", i, object, NoText))
      BY <1>2, <1>3, <1>5, <2>2, <2>3, <2>4, <2>7
    <2> QED
      BY <2>1, <2>5, <2>6, <2>7
  <1> QED
    BY <1>6, <1>7, <1>8, <1>10, <1>11, <1>12 DEF Type

\* No file yet is a tree.
LEMMA TreeInit == Init => TreeInv
  BY EmptySeq, SymbolsAssumption DEF Init, TreeInv, IsTree, Grammar

\* Only typing changes it.
LEMMA TreeStep == TreeInv /\ [Next]_vars => TreeInv'
  <1>1. ASSUME tree' = tree PROVE TreeInv' <=> TreeInv
    BY <1>1 DEF TreeInv
  <1>2. Compile \/ Read => tree' = tree
    BY DEF Compile, Read
  <1>3. UNCHANGED vars => tree' = tree
    BY DEF vars
  <1> QED
    BY <1>1, <1>2, <1>3, TypeKeepsTree DEF Next

\* What is typed is a tree.
LEMMA Typed == Spec => []TreeInv
  BY TreeInit, TreeStep, PTL DEF Spec

\* The type a name of a method or `this' stands for is the owner of what is beside it.
THEOREM OwnersMeetTheirReceivers == Spec => []OwnersMeetReceivers
  <1>1. TreeInv => OwnersMeetReceivers
    <2> SUFFICES ASSUME TreeInv PROVE OwnersMeetReceivers
      OBVIOUS
    <2>1. \A s \in ToSet(ExtractSymbols("source", tree)) :
             s.kind # "Import" => s.owner = EnclosingTypeName(tree, s.node)
      BY OwnersMeet DEF TreeInv
    <2> QED
      BY <2>1 DEF OwnersMeetReceivers, ToSet
  <1> QED
    BY <1>1, Typed, PTL

---------------------------------------------------------------------------
(***************************************************************************)
(* The type of a receiver.                                                 *)
(***************************************************************************)

\* The first child with a kind and a name is one, if there is one.
LEMMA FirstChildIs ==
    ASSUME NEW t, IsTree(t), NEW c, NEW kind, NEW name
    PROVE  LET d == FirstChild(t, c, kind, name)
               found == {j \in 1..Len(t) : /\ t[j].parent = c /\ t[j].kind = kind
                                           /\ t[j].name = name}
           IN  (d = 0 /\ found = {}) \/ d \in found
  <1> DEFINE found == {j \in ChildrenOf(t, c) : t[j].kind = kind /\ t[j].name = name}
             D == {j \in 1..Len(t) : t[j].parent = c /\ t[j].kind = kind /\ t[j].name = name}
  <1>1. found = D
    BY TreeNodes DEF ChildrenOf
  <1>2. D \in SUBSET Nat
    OBVIOUS
  <1> HIDE DEF found, D
  <1>3. FirstChild(t, c, kind, name)
          = IF D = {} THEN 0 ELSE CHOOSE j \in D : \A k \in D : j <= k
    <2>1. FirstChild(t, c, kind, name)
            = IF found = {} THEN 0 ELSE CHOOSE j \in found : \A k \in found : j <= k
      BY DEF FirstChild, found
    <2> QED
      BY <1>1, <2>1
  <1>4. D # {} => \E j \in D : \A k \in D : j <= k
    BY <1>2, LeastNumber
  <1>5. D # {} => (CHOOSE j \in D : \A k \in D : j <= k) \in D
    BY <1>4
  <1> QED
    BY <1>3, <1>5 DEF D

\* What a scope declares of a name is a declaration the server looks for, with the
\* scope as its parent; and it declares one if there is one.
DeclaredThere(t, c, name, d) ==
    /\ d \in 1..Len(t) /\ t[d].parent = c /\ t[d].name = name
    /\ t[d].kind \in Declaration \ {"binder", "constant_declaration"}

\* The cases of declared_type_in_scope, which are the places where Grammar lets
\* declarations be.
LEMMA ScopeIs ==
    ASSUME NEW t, IsTree(t), Grammar(t), NEW c \in 1..Len(t), NEW name
    PROVE  /\ DeclaredInScope(t, c, name) = 0
              \/ DeclaredThere(t, c, name, DeclaredInScope(t, c, name))
           /\ \A d : /\ DeclaredThere(t, c, name, d)
                     /\ t[c].kind \notin {"enum_declaration", "class_body"}
                     => DeclaredInScope(t, c, name) # 0
  <1> DEFINE D(kind) == {j \in 1..Len(t) : /\ t[j].parent = c /\ t[j].kind = kind
                                           /\ t[j].name = name}
             First(kind) == FirstChild(t, c, kind, name)
             Scope == DeclaredInScope(t, c, name)
  <1>1. \A kind : (First(kind) = 0 /\ D(kind) = {}) \/ First(kind) \in D(kind)
    BY FirstChildIs
  <1>2. \A kind \in {"field_declaration", "formal_parameter", "local_variable_declaration"} :
           \A d \in D(kind) : DeclaredThere(t, c, name, d) /\ d # 0
    BY DEF DeclaredThere, Declaration
  <1> HIDE DEF First
  <1>3. /\ t[c].kind \in MethodLike => Scope = First("formal_parameter")
        /\ t[c].kind = "enum_declaration" => Scope = 0
        /\ t[c].kind \in TypeDeclaration \ {"enum_declaration"} => Scope = First("field_declaration")
        /\ t[c].kind \notin MethodLike \cup TypeDeclaration
           => Scope = First("local_variable_declaration")
    <2> DEFINE here == t[c].kind
    <2> HIDE DEF here
    <2>1. /\ here \in MethodLike => here \notin TypeDeclaration
          /\ here = "enum_declaration" => here \in TypeDeclaration
      BY DEF MethodLike, TypeDeclaration
    <2>2. Scope = CASE here \in MethodLike -> First("formal_parameter")
                    [] here = "enum_declaration" -> 0
                    [] here \in TypeDeclaration \ {"enum_declaration"} ->
                         First("field_declaration")
                    [] OTHER -> First("local_variable_declaration")
      BY DEF DeclaredInScope, First, here
    <2> HIDE DEF Scope
    <2>3. here \in MethodLike => Scope = First("formal_parameter")
      BY <2>1, <2>2
    <2>4. here = "enum_declaration" => Scope = 0
      BY <2>1, <2>2
    <2>5. here \in TypeDeclaration \ {"enum_declaration"} => Scope = First("field_declaration")
      BY <2>1, <2>2
    <2>6. here \notin MethodLike \cup TypeDeclaration
          => Scope = First("local_variable_declaration")
      <3> SUFFICES ASSUME here \notin MethodLike \cup TypeDeclaration
                   PROVE  Scope = First("local_variable_declaration")
        OBVIOUS
      <3>1. here \notin MethodLike /\ here \notin TypeDeclaration /\ here # "enum_declaration"
        BY <2>1
      <3> QED
        BY <2>2, <3>1
    <2> QED
      BY <2>3, <2>4, <2>5, <2>6 DEF here
  <1> HIDE DEF Scope, D
  <1>4. Scope = 0 \/ DeclaredThere(t, c, name, Scope)
    BY <1>1, <1>2, <1>3
  <1>5. ASSUME NEW d, DeclaredThere(t, c, name, d),
               t[c].kind \notin {"enum_declaration", "class_body"}
        PROVE  Scope # 0
    <2>1. /\ t[d].kind \in {"field_declaration", "formal_parameter", "local_variable_declaration"}
          /\ d \in D(t[d].kind) /\ t[d].parent = c
      BY <1>5 DEF DeclaredThere, Declaration, D
    <2>2. First(t[d].kind) # 0
      BY <1>1, <1>2, <2>1
    <2>3. Fits(t, t[d], d)
      BY <1>5 DEF Grammar, DeclaredThere
    <2>4. CASE t[d].kind = "field_declaration"
      <3>1. t[c].kind \in TypeDeclaration \ {"enum_declaration"}
        BY <1>5, <2>1, <2>3, <2>4 DEF Fits
      <3> QED
        BY <1>3, <2>2, <2>4, <3>1
    <2>5. CASE t[d].kind = "formal_parameter"
      <3>1. t[c].kind \in MethodLike
        BY <2>1, <2>3, <2>5 DEF Fits
      <3> QED
        BY <1>3, <2>2, <2>5, <3>1
    <2>6. CASE t[d].kind = "local_variable_declaration"
      <3>1. t[c].kind \notin MethodLike \cup TypeDeclaration
        BY <2>1, <2>3, <2>6 DEF Fits, MethodLike, TypeDeclaration
      <3> QED
        BY <1>3, <2>2, <2>6, <3>1
    <2> QED
      BY <2>1, <2>4, <2>5, <2>6
  <1> QED
    BY <1>4, <1>5 DEF Scope

\* A walk outwards ends in the first scope that declares the name.
IsSearch(search, t, name) ==
    /\ search[0] = NoText
    /\ \A j \in 1..Len(t) :
          search[j] = LET d == DeclaredInScope(t, j, name)
                      IN  IF d # 0 THEN SimpleTypeName(t[d].type) ELSE search[t[j].parent]
    /\ \A i \in 1..Len(t) : ResolveIdentifierType(t, i, name) = search[t[i].parent]

\* ResolveIdentifierType walks so.
LEMMA SearchIs ==
    ASSUME NEW t, IsTree(t), NEW name
    PROVE  \E search : IsSearch(search, t, name)
  <1> DEFINE N == Len(t)
             Scope(j) == DeclaredInScope(t, j, name)
             There(j) == SimpleTypeName(t[Scope(j)].type)
             W == {NoText} \cup {There(j) : j \in 1..N}
             Own(j, w) == IF Scope(j) # 0 THEN There(j) ELSE w
             F == [q \in (1..N) \X W |-> Own(q[1], q[2])]
             IsTable(f) == f = [j \in 0..Len(t) |->
                                   IF j = 0 THEN NoText ELSE Own(j, f[t[j].parent])]
             table == CHOOSE f : IsTable(f)
             p == ParentOf(t)
  <1>1. /\ N \in Nat /\ LeadsBack(p, N) /\ DOMAIN t = 1..N
        /\ \A j \in 1..N : t[j].parent \in 0..N /\ p[j] = t[j].parent
    BY TreeNodes DEF ParentOf
  <1> HIDE DEF N, p, Scope, There
  <1>2. NoText \in W /\ \A j \in 1..N : \A w \in W : Own(j, w) \in W
    OBVIOUS
  <1> HIDE DEF W, Own
  <1>3. PassesOn(F, N, W)
    BY <1>2 DEF PassesOn
  <1>4. PICK f \in [0..N -> W] : f[0] = NoText /\ \A j \in 1..N : f[j] = F[<<j, f[p[j]]>>]
    <2> HIDE DEF F
    <2> QED
      BY <1>1, <1>2, <1>3, ValuesFromBack
  <1>5. \A j \in 1..N : f[j] = Own(j, f[t[j].parent])
    <2> TAKE j \in 1..N
    <2>1. f[p[j]] \in W /\ p[j] = t[j].parent
      BY <1>1, <1>4
    <2>2. F[<<j, f[p[j]]>>] = Own(j, f[p[j]])
      BY <2>1
    <2> QED
      BY <1>4, <2>1, <2>2
  <1>6. IsTable(f)
    <2>1. \A j \in 0..N : f[j] = IF j = 0 THEN NoText ELSE Own(j, f[t[j].parent])
      <3>1. \A j \in 0..N : j = 0 \/ j \in 1..N
        BY <1>1
      <3> QED
        BY <1>4, <1>5, <3>1
    <2>2. f = [j \in 0..N |-> f[j]]
      BY <1>4
    <2> QED
      BY <2>1, <2>2 DEF N
  <1>7. IsTable(table)
    <2> HIDE DEF IsTable
    <2> QED
      BY <1>6
  <1>8. PICK a : IsTable(a) /\ \A i \in 1..N : ResolveIdentifierType(t, i, name) = a[t[i].parent]
    <2>1. \A i \in 1..N : ResolveIdentifierType(t, i, name) = table[t[i].parent]
      BY DEF ResolveIdentifierType, Own, Scope, There
    <2> HIDE DEF IsTable, table
    <2> QED
      BY <1>7, <2>1
  <1>9. a[0] = NoText /\ \A j \in 1..N : a[j] = Own(j, a[t[j].parent])
    <2>1. 0 \in 0..N /\ \A j \in 1..N : j \in 0..N /\ j # 0
      BY <1>1
    <2> QED
      BY <1>8, <2>1 DEF N
  <1> QED
    BY <1>8, <1>9 DEF IsSearch, N, Own, Scope, There

\* What the walk finds from a node on: no scope around declares the name, or the
\* innermost that does gives the type.
Finds(t, name, scopes, type) ==
    \/ type = NoText /\ \A a \in scopes : DeclaredInScope(t, a, name) = 0
    \/ \E a \in scopes :
          /\ DeclaredInScope(t, a, name) # 0
          /\ \A b \in scopes : b > a => DeclaredInScope(t, b, name) = 0
          /\ type = SimpleTypeName(t[DeclaredInScope(t, a, name)].type)

\* From every node, by induction from the outermost scope inwards.
LEMMA Found ==
    ASSUME NEW t, IsTree(t), NEW name, NEW i \in 1..Len(t)
    PROVE  /\ Finds(t, name, Ancestors(t, i), ResolveIdentifierType(t, i, name))
           /\ Ancestors(t, i) \subseteq 1..Len(t)
  <1> DEFINE N == Len(t)
             p == ParentOf(t)
             Scope(j) == DeclaredInScope(t, j, name)
  <1>1. /\ N \in Nat /\ LeadsBack(p, N)
        /\ \A j \in 1..N : t[j].parent \in 0..N /\ t[j].parent < j /\ p[j] = t[j].parent
    <2>1. /\ N \in Nat /\ LeadsBack(p, N)
          /\ \A j \in 1..N : t[j].parent \in 0..(j - 1) /\ t[j].parent \in 0..N
      BY TreeNodes
    <2>2. \A j \in 1..N : t[j].parent < j /\ p[j] = t[j].parent
      BY <2>1 DEF ParentOf
    <2> QED
      BY <2>1, <2>2
  <1>2. PICK around : IsAround(around, t)
    BY AroundIs
  <1>3. PICK search : IsSearch(search, t, name)
    BY SearchIs
  <1> HIDE DEF p
  <1> DEFINE T == {j \in 0..N : Finds(t, name, around[j], search[j])}
  <1>4. 0 \in T
    BY <1>1, <1>2, <1>3 DEF IsAround, IsSearch, Finds
  <1>5. ASSUME NEW j \in 1..N, p[j] \in T PROVE j \in T
    <2> DEFINE q == t[j].parent
    <2>1. /\ Finds(t, name, around[q], search[q]) /\ q \in 0..N /\ q < j
          /\ around[q] \subseteq 1..q /\ around[j] = {j} \cup around[q]
      BY <1>1, <1>2, <1>5 DEF IsAround
    <2>2. search[j] = IF Scope(j) # 0 THEN SimpleTypeName(t[Scope(j)].type) ELSE search[q]
      BY <1>3 DEF IsSearch
    <2> HIDE DEF q
    <2>3. CASE Scope(j) # 0
      <3>1. \A b \in around[j] : ~(b > j)
        BY <2>1
      <3>2. j \in around[j]
        BY <2>1
      <3>3. search[j] = SimpleTypeName(t[Scope(j)].type)
        BY <2>2, <2>3
      <3>4. Finds(t, name, around[j], search[j])
        BY <2>3, <3>1, <3>2, <3>3 DEF Finds
      <3> QED
        BY <3>4
    <2>4. CASE Scope(j) = 0
      <3>1. search[j] = search[q]
        BY <2>2, <2>4
      <3>2. Finds(t, name, around[j], search[j])
        BY <2>1, <2>4, <3>1 DEF Finds
      <3> QED
        BY <3>2
    <2> QED
      BY <2>3, <2>4
  <1> HIDE DEF T
  <1>6. Carries(p, N, T)
    BY <1>4, <1>5 DEF Carries
  <1>7. 0..N \subseteq T
    BY <1>1, <1>6, BackInduction
  <1>8. t[i].parent \in T /\ t[i].parent \in 0..N
    BY <1>1, <1>7
  <1>9. /\ Finds(t, name, around[t[i].parent], search[t[i].parent])
        /\ around[t[i].parent] \subseteq 1..t[i].parent
    BY <1>2, <1>8 DEF T, IsAround
  <1>10. /\ Ancestors(t, i) = around[t[i].parent]
         /\ ResolveIdentifierType(t, i, name) = search[t[i].parent]
    BY <1>2, <1>3 DEF IsAround, IsSearch
  <1>11. 1..t[i].parent \subseteq 1..N
    BY <1>1, <1>8
  <1> QED
    BY <1>9, <1>10, <1>11

---------------------------------------------------------------------------
(***************************************************************************)
(* The name of a type.                                                     *)
(***************************************************************************)

\* The first place of a character in a text, if it is there.
IsFirst(p, s, c) ==
    \/ p = 0 /\ \A i \in 1..Len(s) : s[i] # c
    \/ p \in 1..Len(s) /\ s[p] = c /\ \A i \in 1..(p - 1) : s[i] # c

\* SelectInSeq finds it.
LEMMA FirstPlace ==
    ASSUME NEW s \in Text, NEW c
    PROVE  IsFirst(SelectInSeq(s, LAMBDA x : x = c), s, c)
  <1> DEFINE I == {i \in 1..Len(s) : s[i] = c}
             p == SelectInSeq(s, LAMBDA x : x = c)
  <1>1. p = IF I # {} THEN Min(I) ELSE 0
    BY DEF SelectInSeq
  <1>2. Len(s) \in Nat /\ I \in SUBSET Nat
    BY LenProperties DEF Text
  <1> HIDE DEF p
  <1>3. CASE I = {}
    BY <1>1, <1>3 DEF IsFirst, p
  <1>4. CASE I # {}
    <2>1. Min(I) \in I /\ \A y \in I : Min(I) <= y
      <3> HIDE DEF I
      <3> QED
        BY <1>2, <1>4, MinIsElement
    <2>2. p \in I /\ \A y \in I : p <= y
      BY <1>1, <1>4, <2>1
    <2>3. \A i \in 1..(p - 1) : s[i] # c
      <3> TAKE i \in 1..(p - 1)
      <3>1. p \in 1..Len(s) /\ i \in 1..Len(s) /\ ~(p <= i)
        BY <1>2, <2>2
      <3> QED
        BY <2>2, <3>1
    <2> QED
      BY <2>2, <2>3 DEF IsFirst, p
  <1> QED
    BY <1>3, <1>4

\* The last place of a character in a text, if it is there.
IsLast(p, s, c) ==
    \/ p = 0 /\ \A i \in 1..Len(s) : s[i] # c
    \/ p \in 1..Len(s) /\ s[p] = c /\ \A i \in (p + 1)..Len(s) : s[i] # c

\* SelectLastInSeq finds it.
LEMMA LastPlace ==
    ASSUME NEW s \in Text, NEW c
    PROVE  IsLast(SelectLastInSeq(s, LAMBDA x : x = c), s, c)
  <1> DEFINE N == Len(s)
             I == {i \in 1..N : s[i] = c}
             p == SelectLastInSeq(s, LAMBDA x : x = c)
  <1>1. p = IF I # {} THEN Max(I) ELSE 0
    BY DEF SelectLastInSeq
  <1>2. N \in Nat /\ I \in SUBSET (1..N)
    BY LenProperties DEF Text
  <1> HIDE DEF p
  <1>3. CASE I = {}
    BY <1>1, <1>3 DEF IsLast, p
  <1>4. CASE I # {}
    <2>1. Max(I) \in I /\ \A y \in I : Max(I) >= y
      <3> HIDE DEF I, N
      <3> QED
        BY <1>2, <1>4, MaxIsElement
    <2>2. p \in I /\ \A y \in I : p >= y
      BY <1>1, <1>4, <2>1
    <2>3. \A i \in (p + 1)..N : s[i] # c
      <3> TAKE i \in (p + 1)..N
      <3>1. p \in 1..N /\ i \in 1..N /\ ~(p >= i)
        BY <1>2, <2>2
      <3> QED
        BY <2>2, <3>1
    <2> QED
      BY <2>2, <2>3 DEF IsLast, p
  <1> QED
    BY <1>3, <1>4

\* What is left of a type without its brackets: its arguments off, and the
\* qualifier.
Before(text) ==
    LET angle == SelectInSeq(text, LAMBDA c : c = LeftAngle)
    IN  IF angle = 0 THEN text ELSE SubSeq(text, 1, angle - 1)
Unqualified(text) == SubSeq(text, SelectLastInSeq(text, LAMBDA c : c = Dot) + 1, Len(text))

\* The part of a text from one place to another.
IsPart(part, text, from, to) ==
    /\ part \in Text /\ Len(part) = to - from
    /\ \A i \in 1..(to - from) : part[i] = text[from + i]

\* SubSeq takes it.
LEMMA PartIs ==
    ASSUME NEW text \in Text, NEW to \in 0..Len(text), NEW from \in 0..to
    PROVE  IsPart(SubSeq(text, from + 1, to), text, from, to)
  <1>1. Len(text) \in Nat /\ \A i \in 1..Len(text) : text[i] \in Nat
    BY LenProperties, ElementOfSeq DEF Text
  <1>2. \A i \in (from + 1)..to : text[i] \in Nat
    BY <1>1
  <1> DEFINE part == SubSeq(text, from + 1, to)
  <1>3. /\ part \in Seq(Nat) /\ Len(part) = IF from + 1 <= to THEN to - (from + 1) + 1 ELSE 0
        /\ \A i \in 1..(to - (from + 1) + 1) : part[i] = text[from + 1 + i - 1]
    <2> DEFINE first == from + 1
    <2>1. first \in Int /\ to \in Int
      BY <1>1
    <2>2. \A i \in first..to : text[i] \in Nat
      BY <1>2
    <2> HIDE DEF first
    <2>3. /\ SubSeq(text, first, to) \in Seq(Nat)
          /\ Len(SubSeq(text, first, to)) = IF first <= to THEN to - first + 1 ELSE 0
          /\ \A i \in 1..(to - first + 1) : SubSeq(text, first, to)[i] = text[first + i - 1]
      BY <2>1, <2>2, SubSeqProperties
    <2> QED
      BY <2>3 DEF first
  <1> HIDE DEF part
  <1>4. Len(part) = to - from
    BY <1>1, <1>3
  <1>5. \A i \in 1..(to - from) : part[i] = text[from + i]
    <2> TAKE i \in 1..(to - from)
    <2>1. i \in 1..(to - (from + 1) + 1) /\ from + 1 + i - 1 = from + i
      BY <1>1
    <2> QED
      BY <1>3, <2>1
  <1> QED
    BY <1>3, <1>4, <1>5 DEF IsPart, part, Text

\* Where the simple name of a type ends: at its arguments, or at its end.
LEMMA BeforeIs ==
    ASSUME NEW text \in Text, NEW to \in 0..Len(text),
           \A i \in 1..to : text[i] # LeftAngle,
           to # Len(text) => text[to + 1] = LeftAngle
    PROVE  IsPart(Before(text), text, 0, to)
  <1> DEFINE angle == SelectInSeq(text, LAMBDA c : c = LeftAngle)
  <1>1. IsFirst(angle, text, LeftAngle)
    BY FirstPlace
  <1>2. Before(text) = IF angle = 0 THEN text ELSE SubSeq(text, 1, angle - 1)
    BY DEF Before
  <1> HIDE DEF angle
  <1>3. Len(text) \in Nat
    BY LenProperties DEF Text
  <1>4. CASE to = Len(text)
    <2>1. angle = 0
      BY <1>1, <1>3, <1>4 DEF IsFirst
    <2> QED
      BY <1>2, <1>3, <1>4, <2>1 DEF IsPart
  <1>5. CASE to # Len(text)
    <2>1. to + 1 \in 1..Len(text) /\ text[to + 1] = LeftAngle
      BY <1>3, <1>5
    <2>2. angle # 0 /\ angle \in 1..Len(text) /\ text[angle] = LeftAngle
          /\ \A i \in 1..(angle - 1) : text[i] # LeftAngle
      BY <1>1, <2>1 DEF IsFirst
    <2>3. ~(angle < to + 1)
      BY <1>3, <2>2
    <2>4. ~(to + 1 < angle)
      BY <1>3, <2>1, <2>2
    <2>5. angle = to + 1
      BY <1>3, <2>2, <2>3, <2>4
    <2>6. Before(text) = SubSeq(text, 0 + 1, to)
      BY <1>2, <1>3, <2>2, <2>5
    <2> QED
      BY <1>3, <2>6, PartIs
  <1> QED
    BY <1>4, <1>5

\* Where it begins: behind the last dot.
LEMMA BehindIs ==
    ASSUME NEW text \in Text, NEW from \in 0..Len(text),
           \A i \in (from + 1)..Len(text) : text[i] # Dot,
           from # 0 => text[from] = Dot
    PROVE  IsPart(Unqualified(text), text, from, Len(text))
  <1> DEFINE dot == SelectLastInSeq(text, LAMBDA c : c = Dot)
  <1>1. IsLast(dot, text, Dot)
    BY LastPlace
  <1>2. Unqualified(text) = SubSeq(text, dot + 1, Len(text))
    BY DEF Unqualified
  <1> HIDE DEF dot
  <1>3. Len(text) \in Nat
    BY LenProperties DEF Text
  <1>4. dot = from
    <2>1. CASE from = 0
      <3>1. \A i \in 1..Len(text) : text[i] # Dot
        BY <2>1
      <3> QED
        BY <1>1, <2>1, <3>1 DEF IsLast
    <2>2. CASE from # 0
      <3>1. from \in 1..Len(text) /\ text[from] = Dot
        BY <1>3, <2>2
      <3>2. dot \in 1..Len(text) /\ text[dot] = Dot
            /\ \A i \in (dot + 1)..Len(text) : text[i] # Dot
        BY <1>1, <3>1 DEF IsLast
      <3>3. ~(dot > from)
        BY <1>3, <3>1, <3>2
      <3>4. ~(from > dot)
        BY <1>3, <3>1, <3>2
      <3> QED
        BY <1>3, <3>1, <3>2, <3>3, <3>4
    <2> QED
      BY <2>1, <2>2
  <1>5. Len(text) \in 0..Len(text)
    BY <1>3
  <1> QED
    BY <1>2, <1>4, <1>5, PartIs

\* A type without its brackets, by how much of its text is looked at.
Bracketed(text, n) == n >= 2 /\ text[n] = RightBracket /\ text[n - 1] = LeftBracket
IsStripping(f, text) ==
    \A n \in 0..Len(text) :
        f[n] = IF Bracketed(text, n) THEN f[n - 2] ELSE SubSeq(text, 1, n)

\* SimpleTypeName takes pairs of brackets off from the end.
LEMMA StrippingIs ==
    ASSUME NEW text \in Text
    PROVE  \E f : IsStripping(f, text) /\ SimpleTypeName(text) = Unqualified(Before(f[Len(text)]))
  <1> DEFINE N == Len(text)
             p == [n \in 1..N |-> IF n >= 2 THEN n - 2 ELSE 0]
             Own(n, w) == IF Bracketed(text, n) THEN w ELSE SubSeq(text, 1, n)
             F == [q \in (1..N) \X Text |-> Own(q[1], q[2])]
             IsTable(f) == f = [n \in 0..Len(text) |->
                                   IF n >= 2 /\ text[n] = RightBracket
                                      /\ text[n - 1] = LeftBracket
                                   THEN f[n - 2] ELSE SubSeq(text, 1, n)]
             table == CHOOSE f : IsTable(f)
             empty == SubSeq(text, 1, 0)
  <1>1. N \in Nat /\ empty \in Text
    <2>1. empty = <<>>
      BY SubSeqEmpty
    <2> QED
      BY <2>1, LenProperties, EmptySeq DEF Text
  <1> HIDE DEF empty
  <1>2. LeadsBack(p, N)
    BY <1>1 DEF LeadsBack
  <1>3. \A n \in 1..N : \A w \in Text : Own(n, w) \in Text
    <2> TAKE n \in 1..N
    <2> TAKE w \in Text
    <2>1. SubSeq(text, 1, n) \in Text
      <3>1. n \in 0..Len(text) /\ 0 \in 0..n /\ 0 + 1 = 1
        BY <1>1
      <3>2. IsPart(SubSeq(text, 0 + 1, n), text, 0, n)
        BY <3>1, PartIs
      <3> QED
        BY <3>1, <3>2 DEF IsPart
    <2> QED
      BY <2>1
  <1>4. PassesOn(F, N, Text)
    <2> HIDE DEF Own
    <2> QED
      BY <1>3 DEF PassesOn
  <1>5. PICK f \in [0..N -> Text] : f[0] = empty /\ \A n \in 1..N : f[n] = F[<<n, f[p[n]]>>]
    <2> HIDE DEF F, p
    <2> QED
      BY <1>1, <1>2, <1>4, ValuesFromBack
  <1>6. \A n \in 1..N : f[n] = IF Bracketed(text, n) THEN f[n - 2] ELSE SubSeq(text, 1, n)
    <2> TAKE n \in 1..N
    <2>1. p[n] \in 0..N /\ (n >= 2 => p[n] = n - 2)
      BY <1>2
    <2>2. f[p[n]] \in Text
      BY <2>1
    <2>3. F[<<n, f[p[n]]>>] = Own(n, f[p[n]])
      <3> HIDE DEF Own, p
      <3> QED
        BY <2>2
    <2> QED
      BY <1>5, <2>1, <2>3 DEF Bracketed
  <1>7. IsTable(f)
    <2>1. \A n \in 0..N : f[n] = IF n >= 2 /\ text[n] = RightBracket /\ text[n - 1] = LeftBracket
                                 THEN f[n - 2] ELSE SubSeq(text, 1, n)
      <3>1. \A n \in 0..N : n = 0 \/ n \in 1..N
        BY <1>1
      <3>2. f[0] = SubSeq(text, 1, 0) /\ ~(0 >= 2)
        BY <1>5 DEF empty
      <3> QED
        BY <1>6, <3>1, <3>2 DEF Bracketed
    <2>2. f = [n \in 0..N |-> f[n]]
      BY <1>5
    <2> HIDE DEF p, F
    <2> QED
      BY <2>1, <2>2 DEF N
  <1>8. IsTable(table)
    <2> HIDE DEF IsTable
    <2> QED
      BY <1>7
  <1>9. SimpleTypeName(text) = Unqualified(Before(table[Len(text)]))
    <2> HIDE DEF p, F
    <2> QED
      BY DEF SimpleTypeName, Unqualified, Before
  <1>10. IsStripping(table, text)
    <2> DEFINE t == table
    <2>1. t = [n \in 0..Len(text) |->
                  IF n >= 2 /\ text[n] = RightBracket /\ text[n - 1] = LeftBracket
                  THEN t[n - 2] ELSE SubSeq(text, 1, n)]
      BY <1>8
    <2> HIDE DEF t
    <2>2. \A n \in 0..Len(text) :
             t[n] = IF n >= 2 /\ text[n] = RightBracket /\ text[n - 1] = LeftBracket
                    THEN t[n - 2] ELSE SubSeq(text, 1, n)
      BY <2>1
    <2>3. IsStripping(t, text)
      BY <2>2 DEF IsStripping, Bracketed
    <2> QED
      BY <2>3 DEF t
  <1> QED
    BY <1>9, <1>10

\* Two texts, one behind the other.
LEMMA TwoTexts ==
    ASSUME NEW a \in Text, NEW b \in Text
    PROVE  /\ a \o b \in Text /\ Len(a \o b) = Len(a) + Len(b)
           /\ \A i \in 1..(Len(a) + Len(b)) :
                 (a \o b)[i] = IF i <= Len(a) THEN a[i] ELSE b[i - Len(a)]
  <1>1. a \in Seq(Nat) /\ b \in Seq(Nat)
    BY DEF Text
  <1> QED
    BY <1>1, ConcatProperties DEF Text

\* The simple name of every type written is its plain form.
LEMMA PlainTypes ==
    ASSUME NEW d \in Nat
    PROVE  SimpleTypeName(WrittenType(d)) = PlainType(d)
  <1> DEFINE k == 256 + d
             text == WrittenType(d)
             plain == PlainType(d)
             brief == <<84, k>>
             generic == <<112, 46, 84, k, 60, 112, 46, 81, 62>>
             array == <<112, 46, 84, k, 91, 93>>
  <1>1. k \in Nat /\ k \notin {46, 60, 91, 93, 112, 84}
    OBVIOUS
  <1> HIDE DEF k
  <1>2. plain = brief
    BY DEF PlainType, k
  <1>3. Len(brief) = 2 /\ brief[1] = 84 /\ brief[2] = k
    OBVIOUS
  <1>4. /\ Len(generic) = 9 /\ generic[1] = 112 /\ generic[2] = 46 /\ generic[3] = 84
        /\ generic[4] = k /\ generic[5] = 60 /\ generic[6] = 112 /\ generic[7] = 46
        /\ generic[8] = 81 /\ generic[9] = 62
    OBVIOUS
  <1>5. /\ Len(array) = 6 /\ array[1] = 112 /\ array[2] = 46 /\ array[3] = 84
        /\ array[4] = k /\ array[5] = 91 /\ array[6] = 93
    OBVIOUS
  <1>6. brief \in Text /\ generic \in Text /\ array \in Text
    BY <1>1 DEF Text
  <1>7. text \in {brief, generic, array}
    <2> DEFINE package == <<112, 46>>
               arguments == <<60, 112, 46, 81, 62>>
               brackets == <<91, 93>>
               named == package \o brief
    <2>1. text \in {plain, package \o plain \o arguments, package \o plain \o brackets}
      <3>1. CASE d % 3 = 0
        BY <3>1 DEF WrittenType
      <3>2. CASE d % 3 = 1
        BY <3>2 DEF WrittenType, Dot, LeftAngle
      <3>3. CASE d % 3 # 0 /\ d % 3 # 1
        BY <3>3 DEF WrittenType, Dot, LeftBracket, RightBracket
      <3> QED
        BY <3>1, <3>2, <3>3
    <2>2. /\ package \in Text /\ Len(package) = 2 /\ package[1] = 112 /\ package[2] = 46
          /\ arguments \in Text /\ Len(arguments) = 5 /\ arguments[1] = 60
          /\ arguments[2] = 112 /\ arguments[3] = 46 /\ arguments[4] = 81 /\ arguments[5] = 62
          /\ brackets \in Text /\ Len(brackets) = 2 /\ brackets[1] = 91 /\ brackets[2] = 93
      BY DEF Text
    <2> HIDE DEF brief, generic, array, package, arguments, brackets
    <2>3. /\ named \in Text /\ Len(named) = 4 /\ named[1] = 112 /\ named[2] = 46
          /\ named[3] = 84 /\ named[4] = k
      <3>1. /\ named \in Text /\ Len(named) = Len(package) + Len(brief)
            /\ \A i \in 1..(Len(package) + Len(brief)) :
                  named[i] = IF i <= Len(package) THEN package[i] ELSE brief[i - Len(package)]
        <4>1. package \in Text /\ brief \in Text
          BY <1>6, <2>2
        <4> QED
          BY <4>1, TwoTexts
      <3> HIDE DEF named
      <3>2. /\ Len(named) = 4
            /\ \A i \in 1..4 : named[i] = IF i <= 2 THEN package[i] ELSE brief[i - 2]
        BY <1>3, <2>2, <3>1
      <3>3. named[1] = package[1] /\ named[2] = package[2] /\ named[3] = brief[1]
            /\ named[4] = brief[2]
        BY <3>2
      <3> QED
        BY <1>3, <2>2, <3>1, <3>2, <3>3
    <2> HIDE DEF named
    <2>4. named \o arguments = generic
      <3> DEFINE whole == named \o arguments
      <3>1. /\ whole \in Text /\ Len(whole) = Len(named) + Len(arguments)
            /\ \A i \in 1..(Len(named) + Len(arguments)) :
                  whole[i] = IF i <= Len(named) THEN named[i] ELSE arguments[i - Len(named)]
        BY <2>2, <2>3, TwoTexts
      <3> HIDE DEF whole
      <3>2. /\ Len(whole) = 9
            /\ \A i \in 1..9 : whole[i] = IF i <= 4 THEN named[i] ELSE arguments[i - 4]
        BY <2>2, <2>3, <3>1
      <3>3. \A i \in 1..4 : whole[i] = named[i] /\ i \in {1, 2, 3, 4}
        BY <3>2
      <3>4. \A i \in 5..9 : whole[i] = arguments[i - 4] /\ i \in {5, 6, 7, 8, 9}
        BY <3>2
      <3>5. \A i \in 1..4 : whole[i] = generic[i]
        BY <1>4, <2>3, <3>3
      <3>6. \A i \in 5..9 : whole[i] = generic[i]
        <4>1. whole[5] = arguments[1] /\ whole[6] = arguments[2] /\ whole[7] = arguments[3]
              /\ whole[8] = arguments[4] /\ whole[9] = arguments[5]
          BY <3>4
        <4>2. whole[5] = generic[5] /\ whole[6] = generic[6] /\ whole[7] = generic[7]
              /\ whole[8] = generic[8] /\ whole[9] = generic[9]
          BY <1>4, <2>2, <4>1
        <4> QED
          BY <3>4, <4>2
      <3>7. \A i \in 1..9 : i \in 1..4 \/ i \in 5..9
        OBVIOUS
      <3>8. Len(whole) = Len(generic) /\ \A i \in 1..Len(whole) : whole[i] = generic[i]
        BY <1>4, <3>2, <3>5, <3>6, <3>7
      <3>9. whole = generic
        BY <1>6, <3>1, <3>8, SeqEqual DEF Text
      <3> QED
        BY <3>9 DEF whole
    <2>5. named \o brackets = array
      <3> DEFINE whole == named \o brackets
      <3>1. /\ whole \in Text /\ Len(whole) = Len(named) + Len(brackets)
            /\ \A i \in 1..(Len(named) + Len(brackets)) :
                  whole[i] = IF i <= Len(named) THEN named[i] ELSE brackets[i - Len(named)]
        BY <2>2, <2>3, TwoTexts
      <3> HIDE DEF whole
      <3>2. /\ Len(whole) = 6
            /\ \A i \in 1..6 : whole[i] = IF i <= 4 THEN named[i] ELSE brackets[i - 4]
        BY <2>2, <2>3, <3>1
      <3>3. \A i \in 1..4 : whole[i] = named[i] /\ i \in {1, 2, 3, 4}
        BY <3>2
      <3>4. whole[5] = brackets[1] /\ whole[6] = brackets[2]
        BY <3>2
      <3>5. \A i \in 1..4 : whole[i] = array[i]
        BY <1>5, <2>3, <3>3
      <3>6. \A i \in 1..6 : i \in 1..4 \/ i = 5 \/ i = 6
        OBVIOUS
      <3>7. Len(whole) = Len(array) /\ \A i \in 1..Len(whole) : whole[i] = array[i]
        BY <1>5, <2>2, <3>2, <3>4, <3>5, <3>6
      <3>8. whole = array
        BY <1>6, <3>1, <3>7, SeqEqual DEF Text
      <3> QED
        BY <3>8 DEF whole
    <2> QED
      BY <1>2, <2>1, <2>4, <2>5 DEF named
  <1> HIDE DEF text, plain, brief, generic, array
  \* What is left of each without its brackets.
  <1>8. text \in Text /\ Len(text) \in Nat
    BY <1>6, <1>7, LenProperties DEF Text
  <1>9. PICK f : IsStripping(f, text) /\ SimpleTypeName(text) = Unqualified(Before(f[Len(text)]))
    BY <1>8, StrippingIs
  <1> DEFINE shorn == f[Len(text)]
             Leaves(n) ==
                /\ shorn \in Text /\ Len(shorn) = n
                /\ n = 2 => shorn[1] = 84 /\ shorn[2] = k
                /\ n # 2 => shorn[1] = 112 /\ shorn[2] = 46 /\ shorn[3] = 84 /\ shorn[4] = k
                /\ n = 9 => shorn[5] = 60
  <1>10. Leaves(2) \/ Leaves(4) \/ Leaves(9)
    <2>1. ASSUME NEW n \in 0..Len(text), f[n] = SubSeq(text, 1, n)
          PROVE  f[n] \in Text /\ Len(f[n]) = n /\ \A i \in 1..n : f[n][i] = text[i]
      <3>1. n \in Nat /\ n - 0 = n /\ \A i \in 1..n : 0 + i = i
        BY <1>8
      <3>2. 0 \in 0..n /\ 0 + 1 = 1
        BY <3>1
      <3>3. IsPart(SubSeq(text, 0 + 1, n), text, 0, n)
        BY <1>8, <3>2, PartIs
      <3> QED
        BY <2>1, <3>1, <3>2, <3>3 DEF IsPart
    <2>2. CASE text = brief
      <3>1. Len(text) = 2 /\ text[1] = 84 /\ text[2] = k
        BY <1>3, <2>2
      <3>2. ~Bracketed(text, 2) /\ 2 \in 0..Len(text)
        BY <1>1, <3>1 DEF Bracketed, RightBracket
      <3>3. f[2] \in Text /\ Len(f[2]) = 2 /\ \A i \in 1..2 : f[2][i] = text[i]
        BY <1>9, <2>1, <3>2 DEF IsStripping
      <3>4. shorn = f[2] /\ shorn[1] = text[1] /\ shorn[2] = text[2]
        BY <3>1, <3>3
      <3> HIDE DEF shorn
      <3>5. Leaves(2)
        BY <3>1, <3>3, <3>4
      <3> QED
        BY <3>5
    <2>3. CASE text = generic
      <3>1. Len(text) = 9 /\ text[9] = 62
        BY <1>4, <2>3
      <3>2. ~Bracketed(text, 9) /\ 9 \in 0..Len(text)
        BY <3>1 DEF Bracketed, RightBracket
      <3>3. f[9] \in Text /\ Len(f[9]) = 9 /\ \A i \in 1..9 : f[9][i] = text[i]
        BY <1>9, <2>1, <3>2 DEF IsStripping
      <3>4. shorn = f[9] /\ shorn[1] = text[1] /\ shorn[2] = text[2] /\ shorn[3] = text[3]
            /\ shorn[4] = text[4] /\ shorn[5] = text[5]
        BY <3>1, <3>3
      <3> HIDE DEF shorn
      <3>5. Leaves(9)
        BY <1>4, <2>3, <3>3, <3>4
      <3> QED
        BY <3>5
    <2>4. CASE text = array
      <3>1. Len(text) = 6 /\ text[6] = 93 /\ text[5] = 91 /\ text[4] = k
        BY <1>5, <2>4
      <3>2. Bracketed(text, 6) /\ ~Bracketed(text, 4)
        BY <1>1, <3>1 DEF Bracketed, RightBracket, LeftBracket
      <3>3. 6 \in 0..Len(text) /\ 4 \in 0..Len(text) /\ 6 - 2 = 4
        BY <3>1
      <3>4. f[6] = f[4] /\ f[4] = SubSeq(text, 1, 4)
        BY <1>9, <3>2, <3>3 DEF IsStripping
      <3>5. f[4] \in Text /\ Len(f[4]) = 4 /\ \A i \in 1..4 : f[4][i] = text[i]
        BY <2>1, <3>3, <3>4
      <3>6. shorn = f[4] /\ shorn[1] = text[1] /\ shorn[2] = text[2] /\ shorn[3] = text[3]
            /\ shorn[4] = text[4]
        BY <3>1, <3>4, <3>5
      <3> HIDE DEF shorn
      <3>7. Leaves(4)
        BY <1>5, <2>4, <3>5, <3>6
      <3> QED
        BY <3>7
    <2> HIDE DEF Leaves
    <2> QED
      BY <1>7, <2>2, <2>3, <2>4
  <1> HIDE DEF shorn
  \* Its arguments off.
  <1>11. PICK n \in {2, 4} : IsPart(Before(shorn), shorn, 0, n) /\ shorn \in Text
                          /\ n <= Len(shorn)
                          /\ (n = 2 => shorn[1] = 84 /\ shorn[2] = k)
                          /\ (n = 4 => shorn[1] = 112 /\ shorn[2] = 46 /\ shorn[3] = 84
                                       /\ shorn[4] = k)
    <2>1. PICK m \in {2, 4, 9} : Leaves(m)
      BY <1>10
    <2> DEFINE to == IF m = 2 THEN 2 ELSE 4
    <2>2. to \in {2, 4} /\ to \in 0..Len(shorn)
      BY <2>1
    <2>3. \A i \in 1..to : shorn[i] # LeftAngle
      <3>1. \A i \in 1..to : i \in {1, 2, 3, 4} /\ (m = 2 => i \in {1, 2})
        OBVIOUS
      <3> QED
        BY <1>1, <2>1, <3>1 DEF LeftAngle
    <2>4. to # Len(shorn) => shorn[to + 1] = LeftAngle
      BY <2>1 DEF LeftAngle
    <2> HIDE DEF to
    <2>5. IsPart(Before(shorn), shorn, 0, to)
      BY <2>1, <2>2, <2>3, <2>4, BeforeIs
    <2> QED
      BY <2>1, <2>2, <2>5 DEF to
  \* And its qualifier.
  <1> DEFINE bare == Before(shorn)
             from == n - 2
  <1>12. /\ bare \in Text /\ Len(bare) = n /\ \A i \in 1..n : bare[i] = shorn[i]
    BY <1>11 DEF IsPart
  <1> HIDE DEF bare
  <1>13. bare[from + 1] = 84 /\ bare[from + 2] = k /\ (from # 0 => bare[from] = 46)
         /\ from \in {0, 2} /\ Len(bare) = from + 2
    BY <1>11, <1>12
  <1> HIDE DEF from
  <1>14. IsPart(Unqualified(bare), bare, from, Len(bare))
    <2>1. from \in 0..Len(bare) /\ (from # 0 => bare[from] = Dot)
      BY <1>13 DEF Dot
    <2>2. \A i \in (from + 1)..Len(bare) : bare[i] # Dot
      BY <1>1, <1>13 DEF Dot
    <2> QED
      BY <1>12, <2>1, <2>2, BehindIs
  <1>15. Unqualified(bare) \in Text /\ Len(Unqualified(bare)) = 2 /\ Unqualified(bare)[1] = 84
         /\ Unqualified(bare)[2] = k
    BY <1>13, <1>14 DEF IsPart
  <1>16. Unqualified(bare) = brief
    <2> DEFINE b == Unqualified(bare)
    <2> HIDE DEF b
    <2>1. b \in Text /\ Len(b) = 2 /\ b[1] = 84 /\ b[2] = k
      BY <1>15 DEF b
    <2>2. Len(b) = Len(brief) /\ \A i \in 1..Len(b) : b[i] = brief[i]
      BY <1>3, <2>1
    <2>3. b = brief
      BY <1>6, <2>1, <2>2, SeqEqual DEF Text
    <2> QED
      BY <2>3 DEF b
  <1> QED
    BY <1>2, <1>9, <1>16 DEF shorn, bare, text, plain

\* A receiver's type is the one of the declaration nearest around it, as far as the
\* server looks for such declarations at all. (member_reference.rs)
THEOREM ReceiversAreInnermost == Spec => []ReceiverIsInnermost
  <1>1. ASSUME TreeInv, NEW r \in DOMAIN tree, tree[r].name = Variable
        PROVE  /\ Seen(r) = {} => ReceiverType(tree, r) = NoText
               /\ Seen(r) # {} /\ LookedFor(Innermost(Seen(r))) =>
                    \E d \in Seen(r) : /\ tree[d].parent = tree[Innermost(Seen(r))].parent
                                       /\ ReceiverType(tree, r) = PlainType(d)
    <2> DEFINE N == Len(tree)
               around == Ancestors(tree, r)
               S == Seen(r)
               type == ReceiverType(tree, r)
               Scope(a) == DeclaredInScope(tree, a, Variable)
    <2>1. /\ N \in Nat /\ DOMAIN tree = 1..N /\ r \in 1..N /\ IsTree(tree) /\ Grammar(tree)
          /\ \A d \in 1..N : tree[d].parent \in 0..N
      BY <1>1, TreeNodes DEF TreeInv
    <2>2. type = ResolveIdentifierType(tree, r, Variable)
      BY <1>1, SymbolsAssumption DEF ReceiverType
    <2>3. Finds(tree, Variable, around, type) /\ around \subseteq 1..N
      <3> HIDE DEF type
      <3> QED
        BY <2>1, <2>2, Found
    <2> HIDE DEF around, type
    <2>4. S = {d \in 1..N : /\ tree[d].kind \in Declaration /\ tree[d].name = Variable
                            /\ tree[d].parent \in around}
      BY <1>1, <2>1 DEF Seen, around
    <2> HIDE DEF S
    <2>5. ASSUME NEW a \in around, NEW d, DeclaredThere(tree, a, Variable, d)
          PROVE  d \in S /\ tree[d].parent = a
      BY <2>4, <2>5 DEF DeclaredThere
    <2>6. \A a \in around : Scope(a) # 0 => DeclaredThere(tree, a, Variable, Scope(a))
      BY <2>1, <2>3, ScopeIs
    <2>7. CASE S = {}
      <3>1. \A a \in around : Scope(a) = 0
        BY <2>5, <2>6, <2>7
      <3>2. type = NoText
        BY <2>3, <3>1 DEF Finds
      <3> QED
        BY <2>7, <3>2 DEF S, type
    <2>8. ASSUME S # {}, LookedFor(Innermost(S))
          PROVE  \E d \in S : tree[d].parent = tree[Innermost(S)].parent /\ type = PlainType(d)
      <3> DEFINE m == Innermost(S)
                 p == tree[m].parent
      <3>1. m \in S /\ \A e \in S : tree[e].parent <= p
        <4> DEFINE P == {tree[d].parent : d \in S}
        <4>1. P \in SUBSET (1..N) /\ P # {}
          BY <2>3, <2>4, <2>8
        <4>2. Max(P) \in P /\ \A y \in P : Max(P) >= y
          <5> HIDE DEF P
          <5> QED
            BY <2>1, <4>1, MaxIsElement
        <4>3. PICK d \in S : tree[d].parent = Max(P)
          BY <4>2
        <4>4. \A e \in S : tree[e].parent <= tree[d].parent
          <5> TAKE e \in S
          <5>1. tree[e].parent \in P /\ tree[e].parent \in 1..N /\ tree[d].parent \in 1..N
            BY <4>1
          <5> QED
            BY <4>2, <4>3, <5>1
        <4> QED
          BY <4>4 DEF Innermost
      <3> HIDE DEF m
      <3>2. /\ m \in 1..N /\ p \in around /\ p \in 1..N /\ tree[m].name = Variable
            /\ tree[m].kind \in Declaration
        BY <2>3, <2>4, <3>1
      <3>3. /\ tree[m].kind \notin {"binder", "constant_declaration"}
            /\ tree[p].kind \notin {"enum_declaration", "class_body"}
        BY <2>8 DEF LookedFor, m
      <3>4. DeclaredThere(tree, p, Variable, m)
        BY <3>2, <3>3 DEF DeclaredThere
      <3>5. Scope(p) # 0
        BY <2>1, <3>2, <3>3, <3>4, ScopeIs
      <3> HIDE DEF p
      <3>6. PICK a \in around : /\ Scope(a) # 0 /\ \A b \in around : b > a => Scope(b) = 0
                                /\ type = SimpleTypeName(tree[Scope(a)].type)
        BY <2>3, <3>2, <3>5 DEF Finds
      <3> DEFINE d == Scope(a)
      <3>7. DeclaredThere(tree, a, Variable, d) /\ d \in S /\ tree[d].parent = a
        BY <2>5, <2>6, <3>6
      <3>8. ~(p > a)
        BY <3>2, <3>5, <3>6
      <3>9. a <= p
        BY <3>1, <3>7 DEF p
      <3>10. a = p
        BY <2>3, <3>2, <3>8, <3>9
      <3>11. d \in 1..N /\ tree[d].kind \in Declaration
        BY <3>7 DEF DeclaredThere
      <3>12. tree[d].type = WrittenType(d) /\ d \in Nat
        <4> HIDE DEF d
        <4> QED
          BY <2>1, <3>11 DEF Grammar, Fits
      <3>13. type = PlainType(d)
        <4>1. type = SimpleTypeName(tree[d].type)
          BY <3>6
        <4> HIDE DEF d
        <4> QED
          BY <3>12, <4>1, PlainTypes
      <3> QED
        BY <3>7, <3>10, <3>13 DEF p, m
    <2> QED
      BY <2>7, <2>8 DEF S, type
  <1>2. TreeInv => ReceiverIsInnermost
    BY <1>1 DEF ReceiverIsInnermost
  <1> QED
    BY <1>2, Typed, PTL

(***************************************************************************)
(* Pieces of a file, and the text in it.                                   *)
(***************************************************************************)

\* The lengths of the first sequences of s, added up.
AreOffsets(at, s) ==
    /\ at \in [0..Len(s) -> Nat] /\ at[0] = 0
    /\ \A k \in 1..Len(s) : at[k] = at[k - 1] + Len(s[k])

\* A piece stands in a sequence, behind its first `at' elements.
Stands(file, at, piece) ==
    /\ at + Len(piece) <= Len(file)
    /\ \A i \in 1..Len(piece) : file[at + i] = piece[i]

\* Two pieces stand in what they make, one behind the other.
LEMMA TwoStand ==
    ASSUME NEW C, NEW a \in Seq(C), NEW b \in Seq(C)
    PROVE  /\ a \o b \in Seq(C) /\ Len(a \o b) = Len(a) + Len(b)
           /\ Stands(a \o b, 0, a) /\ Stands(a \o b, Len(a), b)
  <1>1. /\ Len(a \o b) = Len(a) + Len(b) /\ a \o b \in Seq(C)
        /\ \A k \in 1..(Len(a) + Len(b)) :
              (a \o b)[k] = IF k <= Len(a) THEN a[k] ELSE b[k - Len(a)]
    BY ConcatProperties
  <1>2. Len(a) \in Nat /\ Len(b) \in Nat
    BY LenProperties
  <1> DEFINE c == a \o b
  <1> HIDE DEF c
  <1>3. /\ Len(c) = Len(a) + Len(b)
        /\ \A k \in 1..(Len(a) + Len(b)) : c[k] = IF k <= Len(a) THEN a[k] ELSE b[k - Len(a)]
    BY <1>1 DEF c
  <1>4. Stands(c, 0, a)
    BY <1>2, <1>3 DEF Stands
  <1>5. Stands(c, Len(a), b)
    <2>1. \A i \in 1..Len(b) :
              /\ Len(a) + i \in 1..(Len(a) + Len(b)) /\ ~(Len(a) + i <= Len(a))
              /\ (Len(a) + i) - Len(a) = i
      BY <1>2
    <2>2. \A i \in 1..Len(b) : c[Len(a) + i] = b[i]
      BY <1>3, <2>1
    <2> QED
      BY <1>2, <1>3, <2>2 DEF Stands
  <1> QED
    BY <1>1, <1>4, <1>5 DEF c

\* What stands in a piece stands where the piece does.
LEMMA StandsInside ==
    ASSUME NEW C, NEW file \in Seq(C), NEW b \in Seq(C), NEW piece \in Seq(C),
           NEW at \in Nat, NEW k \in Nat, Stands(file, at, b), Stands(b, k, piece)
    PROVE  Stands(file, at + k, piece)
  <1>1. Len(file) \in Nat /\ Len(b) \in Nat /\ Len(piece) \in Nat
    BY LenProperties
  <1>2. at + k + Len(piece) <= Len(file)
    BY <1>1 DEF Stands
  <1>3. ASSUME NEW i \in 1..Len(piece) PROVE file[at + k + i] = piece[i]
    <2>1. k + i \in 1..Len(b) /\ at + (k + i) = at + k + i
      BY <1>1 DEF Stands
    <2>2. b[k + i] = piece[i] /\ file[at + (k + i)] = b[k + i]
      BY <2>1 DEF Stands
    <2> QED
      BY <2>1, <2>2
  <1> QED
    BY <1>2, <1>3 DEF Stands

\* Each of a list of sequences stands in what they make, behind those before it.
LEMMA FlattenStands ==
    ASSUME NEW C, NEW s \in Seq(Seq(C))
    PROVE  /\ FlattenSeq(s) \in Seq(C)
           /\ \E at : /\ AreOffsets(at, s) /\ at[Len(s)] = Len(FlattenSeq(s))
                      /\ \A k \in 1..Len(s) : Stands(FlattenSeq(s), at[k - 1], s[k])
  <1> DEFINE n == Len(s)
  <1>1. n \in Nat /\ \A i \in 1..n : s[i] \in Seq(C)
    BY LenProperties, ElementOfSeq
  <1>2. PICK g \in [0..Len(s) -> Seq(C)] :
            g[0] = <<>> /\ \A i \in 1..Len(s) : g[i] = g[i - 1] \o s[i]
    BY Concatenations
  <1>3. FlattenSeq(s) = g[n]
    BY <1>2, FlattenIsLast
  <1> DEFINE at == [k \in 0..n |-> Len(g[k])]
  <1>4. at \in [0..n -> Nat] /\ at[0] = 0
    <2>1. \A k \in 0..n : Len(g[k]) \in Nat
      BY <1>2, LenProperties
    <2>2. Len(g[0]) = 0
      BY <1>2, EmptySeq
    <2> QED
      BY <1>1, <2>1, <2>2
  <1>5. ASSUME NEW k \in 1..n
        PROVE  /\ k - 1 \in 0..n /\ k \in 0..n /\ g[k - 1] \in Seq(C) /\ g[k] \in Seq(C)
               /\ at[k - 1] = Len(g[k - 1]) /\ at[k] = Len(g[k])
               /\ at[k] = at[k - 1] + Len(s[k])
               /\ Stands(g[k], 0, g[k - 1]) /\ Stands(g[k], at[k - 1], s[k])
    <2>1. k - 1 \in 0..n /\ k \in 0..n
      BY <1>1
    <2>2. g[k - 1] \in Seq(C) /\ s[k] \in Seq(C) /\ g[k] = g[k - 1] \o s[k] /\ g[k] \in Seq(C)
      BY <1>1, <1>2, <2>1
    <2>3. /\ Len(g[k]) = Len(g[k - 1]) + Len(s[k])
          /\ Stands(g[k], 0, g[k - 1]) /\ Stands(g[k], Len(g[k - 1]), s[k])
      BY <2>2, TwoStand
    <2> QED
      BY <2>1, <2>2, <2>3
  <1> HIDE DEF at
  <1> DEFINE Holds(m) == m <= n => \A k \in 1..m : Stands(g[m], at[k - 1], s[k])
             T == {m \in Nat : Holds(m)}
  <1>6. 0 \in T
    OBVIOUS
  <1>7. ASSUME NEW m \in Nat, m \in T PROVE m + 1 \in T
    <2> SUFFICES ASSUME m + 1 <= n, NEW k \in 1..(m + 1)
                 PROVE  Stands(g[m + 1], at[k - 1], s[k])
      OBVIOUS
    <2>1. m + 1 \in 1..n /\ (m + 1) - 1 = m
      OBVIOUS
    <2>2. CASE k = m + 1
      BY <1>5, <2>1, <2>2
    <2>3. CASE k # m + 1
      <3>1. k \in 1..m /\ k \in 1..n
        BY <2>3
      <3>2. Stands(g[m], at[k - 1], s[k])
        BY <1>7, <3>1
      <3>3. Stands(g[m + 1], 0, g[m]) /\ g[m + 1] \in Seq(C) /\ g[m] \in Seq(C)
        BY <1>5, <2>1
      <3>4. at[k - 1] \in Nat /\ s[k] \in Seq(C) /\ 0 \in Nat
        <4>1. k - 1 \in 0..n
          BY <1>1, <3>1
        <4> QED
          BY <1>1, <1>4, <3>1, <4>1
      <3>5. Stands(g[m + 1], 0 + at[k - 1], s[k])
        BY <3>2, <3>3, <3>4, StandsInside
      <3> QED
        BY <3>4, <3>5
    <2> QED
      BY <2>2, <2>3
  <1> HIDE DEF T
  <1>8. n \in T
    BY <1>1, <1>6, <1>7, SetInduction
  <1>9. \A k \in 1..n : Stands(g[n], at[k - 1], s[k])
    BY <1>1, <1>8 DEF T
  <1>10. AreOffsets(at, s)
    BY <1>4, <1>5 DEF AreOffsets
  <1>11. at[n] = Len(g[n]) /\ g[n] \in Seq(C)
    BY <1>1, <1>2 DEF at
  <1> QED
    BY <1>3, <1>9, <1>10, <1>11

---------------------------------------------------------------------------
\* A number that three bytes write, one that two do.
IsThree(c) == c \in Int /\ 2048 <= c /\ c < FirstPaired
InThree(c, h, m, l) ==
    /\ Three(c) = <<224 + h, 128 + m, 128 + l>>
    /\ c = h * 4096 + m * 64 + l /\ c \div 64 = h * 64 + m
IsTwo(c) == c \in Int /\ 0 <= c /\ c <= 2047

\* The three bytes of a number, and how they give it back.
LEMMA ThreeAre ==
    ASSUME NEW c, IsThree(c)
    PROVE  \E h \in 0..15, m \in 0..63, l \in 0..63 : InThree(c, h, m, l)
  <1> DEFINE h == c \div 4096
             m == (c \div 64) % 64
             l == c % 64
             d == c \div 64
  <1>1. /\ h \in Int /\ m \in Int /\ l \in Int /\ 0 <= h /\ h <= 15 /\ 0 <= m /\ m <= 63
        /\ 0 <= l /\ l <= 63 /\ d \in Int
    BY SMT DEF IsThree, FirstPaired
  <1>2. c = d * 64 + l /\ d = h * 64 + m
    BY SMT DEF IsThree, FirstPaired
  <1>3. Three(c) = <<224 + h, 128 + m, 128 + l>>
    BY SMT DEF Three
  <1> HIDE DEF h, m, l
  <1>4. c = h * 4096 + m * 64 + l
    BY <1>1, <1>2, SMT
  <1>5. h \in 0..15 /\ m \in 0..63 /\ l \in 0..63
    BY <1>1, SMT
  <1>6. c \div 64 = h * 64 + m
    BY <1>2
  <1> HIDE DEF d
  <1>7. InThree(c, h, m, l)
    BY <1>3, <1>4, <1>6 DEF InThree
  <1> QED
    BY <1>5, <1>7, Zenon

\* The two bytes of a number, and what they make up.
InTwo(c, h, l) ==
    <<192 + c \div 64, 128 + (c % 64)>> = <<192 + h, 128 + l>> /\ c = h * 64 + l

\* A number of two bytes has them.
LEMMA TwoAre ==
    ASSUME NEW c, IsTwo(c)
    PROVE  \E h \in 0..31, l \in 0..63 : InTwo(c, h, l)
  <1> DEFINE h == c \div 64
             l == c % 64
  <1>1. h \in Int /\ l \in Int /\ 0 <= h /\ h <= 31 /\ 0 <= l /\ l <= 63 /\ c = h * 64 + l
    BY SMT DEF IsTwo
  <1>2. <<192 + c \div 64, 128 + (c % 64)>> = <<192 + h, 128 + l>>
    OBVIOUS
  <1> HIDE DEF h, l
  <1>3. h \in 0..31 /\ l \in 0..63
    BY <1>1, SMT
  <1>4. InTwo(c, h, l)
    BY <1>1, <1>2 DEF InTwo
  <1> QED
    BY <1>3, <1>4, Zenon

\* As many code points as there are pairs of surrogates.
LEMMA PairedCodePoints == LastCodePoint = FirstPaired + 1048575
  BY SMT DEF LastCodePoint, FirstPaired

\* The surrogates of a character that only a pair of them writes.
LEMMA SurrogatesAre ==
    ASSUME NEW c \in FirstPaired..LastCodePoint
    PROVE  \E h \in FirstHigh..(FirstLow - 1), l \in FirstLow..LastLow :
              /\ h = FirstHigh + (c - FirstPaired) \div 1024
              /\ l = FirstLow + ((c - FirstPaired) % 1024)
              /\ c = FirstPaired + (h - FirstHigh) * 1024 + l - FirstLow
  <1> DEFINE x == c - FirstPaired
             q == x \div 1024
             r == x % 1024
             h == FirstHigh + q
             l == FirstLow + r
  <1>0. c \in Int /\ FirstPaired <= c /\ c <= LastCodePoint /\ FirstPaired \in Int
    BY Bounds
  <1>1. x \in Int /\ 0 <= x /\ x <= 1048575
    <2>1. LastCodePoint = FirstPaired + 1048575
      BY PairedCodePoints
    <2> QED
      BY <1>0, <2>1, SMT
  <1>2. c = FirstPaired + x
    BY <1>0, SMT
  <1>3. h = FirstHigh + (c - FirstPaired) \div 1024 /\ l = FirstLow + ((c - FirstPaired) % 1024)
    OBVIOUS
  <1> HIDE DEF x
  <1>4. q \in Int /\ r \in Int /\ 0 <= q /\ q <= 1023 /\ 0 <= r /\ r <= 1023 /\ x = q * 1024 + r
    BY <1>1, SMT
  <1> HIDE DEF q, r
  <1>5. FirstHigh \in Int /\ FirstLow = FirstHigh + 1024 /\ LastLow = FirstLow + 1023
    BY Bounds
  <1>6. h \in FirstHigh..(FirstLow - 1) /\ l \in FirstLow..LastLow
    BY <1>4, <1>5, SMT
  <1>7. c = FirstPaired + (h - FirstHigh) * 1024 + l - FirstLow
    BY <1>0, <1>2, <1>4, <1>5, SMT
  <1> HIDE DEF h, l
  <1> QED
    BY <1>3, <1>6, <1>7, SMT

\* A code point that a pair of surrogates writes.
IsPair(c, h, l) ==
    /\ c \in FirstPaired..LastCodePoint
    /\ EncodeChar(c) = Three(h) \o Three(l)
    /\ c = FirstPaired + (h - FirstHigh) * 1024 + l - FirstLow

\* How a code point is written.
LEMMA EncodeCharIs ==
    ASSUME NEW c \in 0..LastCodePoint
    PROVE  \/ c \in 1..127 /\ EncodeChar(c) = <<c>>
           \/ IsTwo(c) /\ EncodeChar(c) = <<192 + c \div 64, 128 + (c % 64)>>
           \/ IsThree(c) /\ EncodeChar(c) = Three(c)
           \/ \E h \in FirstHigh..(FirstLow - 1), l \in FirstLow..LastLow : IsPair(c, h, l)
  <1>0. c \in Int /\ 0 <= c /\ c <= LastCodePoint /\ 2047 < FirstPaired
    BY Bounds, SMT
  <1>1. CASE 0 < c /\ c < 128
    <2>1. EncodeChar(c) = <<c>>
      BY <1>0, <1>1, SMT DEF EncodeChar
    <2> QED
      BY <1>0, <1>1, <2>1, SMT
  <1>2. CASE c = 0 \/ (128 <= c /\ c < 2048)
    <2>1. EncodeChar(c) = <<192 + c \div 64, 128 + (c % 64)>>
      BY <1>0, <1>2, SMT DEF EncodeChar
    <2>2. IsTwo(c)
      BY <1>0, <1>2, SMT DEF IsTwo
    <2> QED
      BY <2>1, <2>2
  <1>3. CASE 2048 <= c /\ c < FirstPaired
    <2>1. EncodeChar(c) = Three(c)
      BY <1>0, <1>3, SMT DEF EncodeChar
    <2>2. IsThree(c)
      BY <1>0, <1>3 DEF IsThree
    <2> QED
      BY <2>1, <2>2
  <1>4. CASE FirstPaired <= c
    <2>1. c \in FirstPaired..LastCodePoint
      BY <1>0, <1>4, Bounds, SMT
    <2> DEFINE h == FirstHigh + (c - FirstPaired) \div 1024
               l == FirstLow + ((c - FirstPaired) % 1024)
    <2> HIDE DEF h, l
    <2>0. /\ ~(0 < c /\ c < 128) /\ ~(c = 0 \/ (128 <= c /\ c < 2048))
          /\ ~(2048 <= c /\ c < FirstPaired)
      BY <1>0, <1>4, Bounds, SMT
    <2>2. EncodeChar(c) = Three(h) \o Three(l)
      BY <2>0 DEF EncodeChar, h, l
    <2>3. /\ h \in FirstHigh..(FirstLow - 1) /\ l \in FirstLow..LastLow
          /\ c = FirstPaired + (h - FirstHigh) * 1024 + l - FirstLow
      BY <2>1, SurrogatesAre DEF h, l
    <2>4. IsPair(c, h, l)
      BY <2>1, <2>2, <2>3 DEF IsPair
    <2> QED
      BY <2>3, <2>4, SMT
  <1> QED
    BY <1>0, <1>1, <1>2, <1>3, <1>4, Bounds, SMT

\* The three bytes as they are read.
ReadsThree(b, i, c) ==
    /\ i + 2 <= Len(b) /\ \E h \in 0..15 : b[i] = 224 + h
    /\ ThreeBytes(b, i) = c /\ (b[i] % 16) * 64 + (b[i + 1] % 64) = c \div 64

\* They are read as the number they write.
LEMMA ThreeStands ==
    ASSUME NEW c, IsThree(c), NEW b \in Seq(Nat), NEW i \in Nat, 1 <= i, Stands(b, i - 1, Three(c))
    PROVE  ReadsThree(b, i, c)
  <1>1. PICK h \in 0..15, m \in 0..63, l \in 0..63 : InThree(c, h, m, l)
    BY ThreeAre
  <1>2. Three(c) = <<224 + h, 128 + m, 128 + l>>
    BY <1>1 DEF InThree
  <1> DEFINE t == Three(c)
  <1>3. Len(t) = 3 /\ t[1] = 224 + h /\ t[2] = 128 + m /\ t[3] = 128 + l
    BY <1>2, SMT
  <1> HIDE DEF t
  <1>4. i - 1 + 3 <= Len(b) /\ \A k \in 1..3 : b[i - 1 + k] = t[k]
    BY <1>3 DEF Stands, t
  <1>5. b[i] = 224 + h /\ b[i + 1] = 128 + m /\ b[i + 2] = 128 + l
    <2>1. i - 1 + 1 = i /\ i - 1 + 2 = i + 1 /\ i - 1 + 3 = i + 2
      OBVIOUS
    <2>2. b[i - 1 + 1] = t[1] /\ b[i - 1 + 2] = t[2] /\ b[i - 1 + 3] = t[3]
      BY <1>4
    <2> QED
      BY <1>3, <2>1, <2>2
  <1>6. (224 + h) % 16 = h /\ (128 + m) % 64 = m /\ (128 + l) % 64 = l
    BY SMTT(30)
  <1>7. c = h * 4096 + m * 64 + l /\ c \div 64 = h * 64 + m
    BY <1>1 DEF InThree
  <1>8. ThreeBytes(b, i) = c
    BY <1>5, <1>6, <1>7, SMT DEF ThreeBytes
  <1>9. (b[i] % 16) * 64 + (b[i + 1] % 64) = c \div 64
    BY <1>5, <1>6, <1>7, SMT
  <1>10. i + 2 <= Len(b) /\ \E k \in 0..15 : b[i] = 224 + k
    <2>1. Len(b) \in Nat
      BY LenProperties
    <2> QED
      BY <1>4, <1>5, <2>1, SMT
  <1> QED
    BY <1>8, <1>9, <1>10 DEF ReadsThree

\* A high surrogate is taken for the first half of a pair, and no other number is.
LEMMA ThreeWidth ==
    ASSUME NEW c, IsThree(c), NEW b \in Seq(Nat), NEW i \in Nat, ReadsThree(b, i, c)
    PROVE  /\ c \in FirstHigh..(FirstLow - 1) => Width(b, i) = 6
           /\ c \notin FirstHigh..(FirstLow - 1) => Width(b, i) = 3 /\ CharAt(b, i) = c
  <1>1. c \div 64 \in 864..879 <=> c \in FirstHigh..(FirstLow - 1)
    <2>1. c \div 64 \in 864..879 <=> 55296 <= c /\ c <= 56319
      BY SMT DEF IsThree, FirstPaired
    <2>2. c \in FirstHigh..(FirstLow - 1) <=> FirstHigh <= c /\ c <= FirstLow - 1
      BY Bounds, SMT DEF IsThree
    <2>3. FirstHigh = 55296 /\ FirstLow - 1 = 56319
      BY SMT DEF FirstHigh, FirstLow
    <2> QED
      BY <2>1, <2>2, <2>3, SMT
  <1>2. ~(b[i] < 128) /\ b[i] \notin 192..223 /\ b[i] \in 224..239
    <2>1. PICK h \in 0..15 : b[i] = 224 + h
      BY DEF ReadsThree
    <2>2. ~(224 + h < 128) /\ 224 + h \notin 192..223 /\ 224 + h \in 224..239
      BY SMT
    <2> QED
      BY <2>1, <2>2, SMT
  <1>3. Width(b, i) = IF c \div 64 \in 864..879 THEN 6 ELSE 3
    BY <1>2, SMT DEF Width, ReadsThree
  <1>4. CASE c \in FirstHigh..(FirstLow - 1)
    <2>1. c \div 64 \in 864..879
      BY <1>1, <1>4
    <2>2. Width(b, i) = 6
      BY <1>3, <2>1, SMT
    <2> QED
      BY <1>4, <2>2
  <1>5. CASE c \notin FirstHigh..(FirstLow - 1)
    <2>1. Width(b, i) = 3
      BY <1>1, <1>3, <1>5, SMT
    <2>2. CharAt(b, i) = c
      BY <2>1, SMT DEF CharAt, ReadsThree
    <2> QED
      BY <1>5, <2>1, <2>2
  <1> QED
    BY <1>4, <1>5

\* A number that three bytes write is a sequence of three.
LEMMA ThreeTyped ==
    ASSUME NEW c, IsThree(c)
    PROVE  Three(c) \in Seq(Nat) /\ Len(Three(c)) = 3
  <1>1. PICK h \in 0..15, m \in 0..63, l \in 0..63 : InThree(c, h, m, l)
    BY ThreeAre
  <1>2. Three(c) = <<224 + h, 128 + m, 128 + l>>
    BY <1>1 DEF InThree
  <1>3. \A x, y, z \in Nat : <<x, y, z>> \in Seq(Nat) /\ Len(<<x, y, z>>) = 3
    OBVIOUS
  <1>4. 224 + h \in Nat /\ 128 + m \in Nat /\ 128 + l \in Nat
    OBVIOUS
  <1> QED
    BY <1>2, <1>3, <1>4, SMT

\* The surrogates are numbers that three bytes write.
LEMMA SurrogatesAreThree ==
    \A c \in FirstHigh..LastLow : IsThree(c)
  BY Bounds, SMT DEF IsThree

\* A code point is written with one byte or more.
LEMMA EncodeTyped ==
    ASSUME NEW c \in 0..LastCodePoint
    PROVE  EncodeChar(c) \in Seq(Nat) /\ Len(EncodeChar(c)) \in {1, 2, 3, 6}
  <1>1. CASE c \in 1..127 /\ EncodeChar(c) = <<c>>
    <2>1. \A x \in Nat : <<x>> \in Seq(Nat) /\ Len(<<x>>) = 1
      OBVIOUS
    <2> QED
      BY <1>1, <2>1, SMT
  <1>2. CASE IsTwo(c) /\ EncodeChar(c) = <<192 + c \div 64, 128 + (c % 64)>>
    <2>1. PICK h \in 0..31, l \in 0..63 : InTwo(c, h, l)
      BY <1>2, TwoAre, Zenon
    <2>2. \A x, y \in Nat : <<x, y>> \in Seq(Nat) /\ Len(<<x, y>>) = 2
      OBVIOUS
    <2>3. 192 + h \in Nat /\ 128 + l \in Nat
      OBVIOUS
    <2>4. EncodeChar(c) = <<192 + h, 128 + l>>
      BY <1>2, <2>1 DEF InTwo
    <2> QED
      BY <2>2, <2>3, <2>4, SMT
  <1>3. CASE IsThree(c) /\ EncodeChar(c) = Three(c)
    BY <1>3, ThreeTyped
  <1>4. ASSUME NEW h \in FirstHigh..(FirstLow - 1), NEW l \in FirstLow..LastLow, IsPair(c, h, l)
        PROVE  EncodeChar(c) \in Seq(Nat) /\ Len(EncodeChar(c)) = 6
    <2>1. IsThree(h) /\ IsThree(l)
      BY Bounds, SurrogatesAreThree
    <2> DEFINE s == Three(h)
               t == Three(l)
    <2>2. s \in Seq(Nat) /\ Len(s) = 3 /\ t \in Seq(Nat) /\ Len(t) = 3
      BY <2>1, ThreeTyped
    <2> HIDE DEF s, t
    <2>3. s \o t \in Seq(Nat) /\ Len(s \o t) = 6
      <3>1. s \in Seq(Nat) /\ t \in Seq(Nat)
        BY <2>2
      <3>2. s \o t \in Seq(Nat) /\ Len(s \o t) = Len(s) + Len(t)
        BY <3>1, TwoStand
      <3> QED
        BY <2>2, <3>2
    <2> QED
      BY <1>4, <2>3 DEF IsPair, s, t
  <1> QED
    BY <1>1, <1>2, <1>3, <1>4, EncodeCharIs

\* What is written of the code point c begins at place i of the bytes b.
Begins(b, i, c) == b \in Seq(Nat) /\ i \in Nat /\ 1 <= i /\ Stands(b, i - 1, EncodeChar(c))

\* How the four kinds of characters are read.
LEMMA CharIsRead ==
    ASSUME NEW c \in 0..LastCodePoint, NEW b, NEW i, Begins(b, i, c)
    PROVE  /\ c \notin FirstHigh..(FirstLow - 1) =>
                 Width(b, i) = Len(EncodeChar(c)) /\ CharAt(b, i) = c
           /\ c \in FirstHigh..(FirstLow - 1) => /\ Width(b, i) = 6 /\ Len(EncodeChar(c)) = 3
                                                 /\ ThreeBytes(b, i) = c
           /\ c \notin FirstLow..LastLow =>
                 ~(b[i] \in 224..239 /\ ThreeBytes(b, i) \in FirstLow..LastLow)
  <1>0. /\ b \in Seq(Nat) /\ i \in Nat /\ 1 <= i /\ Stands(b, i - 1, EncodeChar(c))
        /\ i - 1 + 1 = i /\ i - 1 + 2 = i + 1
    BY SMT DEF Begins
  <1>1. CASE c \in 1..127 /\ EncodeChar(c) = <<c>>
    <2>1. Len(EncodeChar(c)) = 1 /\ EncodeChar(c)[1] = c
      BY <1>1, SMT
    <2>2. b[i] = c
      BY <1>0, <2>1 DEF Stands
    <2>3. c < 128 /\ c \notin 224..239
      BY <1>1, SMT
    <2>4. Width(b, i) = 1
      BY <2>2, <2>3, SMT DEF Width
    <2>5. CharAt(b, i) = c
      BY <2>2, <2>4, SMT DEF CharAt
    <2>6. c \notin FirstHigh..(FirstLow - 1)
      BY <1>1, Bounds, SMT
    <2>7. b[i] \notin 224..239
      BY <2>2, <2>3
    <2> QED
      BY <2>1, <2>4, <2>5, <2>6, <2>7
  <1>2. CASE IsTwo(c) /\ EncodeChar(c) = <<192 + c \div 64, 128 + (c % 64)>>
    <2>1. PICK h \in 0..31, l \in 0..63 : InTwo(c, h, l)
      BY <1>2, TwoAre, Zenon
    <2>2. EncodeChar(c) = <<192 + h, 128 + l>>
      BY <1>2, <2>1 DEF InTwo
    <2>3. Len(EncodeChar(c)) = 2 /\ EncodeChar(c)[1] = 192 + h /\ EncodeChar(c)[2] = 128 + l
      BY <2>2, SMT
    <2>4. b[i] = 192 + h /\ b[i + 1] = 128 + l
      BY <1>0, <2>3 DEF Stands
    <2>5. ~(192 + h < 128) /\ 192 + h \in 192..223 /\ 192 + h \notin 224..239
      BY SMT
    <2>6. Width(b, i) = 2
      BY <2>4, <2>5, SMT DEF Width
    <2>7. (192 + h) % 32 = h /\ (128 + l) % 64 = l
      BY SMT
    <2>8. CharAt(b, i) = c
      BY <2>1, <2>4, <2>6, <2>7, SMT DEF CharAt, InTwo
    <2>9. c \notin FirstHigh..(FirstLow - 1)
      BY <1>2, Bounds, SMT DEF IsTwo
    <2>10. b[i] \notin 224..239
      BY <2>4, <2>5, SMT
    <2> QED
      BY <2>3, <2>6, <2>8, <2>9, <2>10
  <1>3. CASE IsThree(c) /\ EncodeChar(c) = Three(c)
    <2>1. ReadsThree(b, i, c) /\ Len(EncodeChar(c)) = 3
      BY <1>0, <1>3, ThreeStands, ThreeTyped
    <2>2. ThreeBytes(b, i) = c
      BY <2>1 DEF ReadsThree
    <2> QED
      BY <1>0, <1>3, <2>1, <2>2, ThreeWidth
  <1>4. ASSUME NEW h \in FirstHigh..(FirstLow - 1), NEW l \in FirstLow..LastLow, IsPair(c, h, l)
        PROVE  /\ Width(b, i) = Len(EncodeChar(c)) /\ CharAt(b, i) = c
               /\ c \notin FirstHigh..(FirstLow - 1) /\ ThreeBytes(b, i) \notin FirstLow..LastLow
    <2>1. IsThree(h) /\ IsThree(l)
      BY Bounds, SurrogatesAreThree
    <2> DEFINE s == Three(h)
               t == Three(l)
    <2>2. s \in Seq(Nat) /\ Len(s) = 3 /\ t \in Seq(Nat) /\ Len(t) = 3
      BY <2>1, ThreeTyped
    <2> HIDE DEF s, t
    <2>3. EncodeChar(c) = s \o t
      BY <1>4 DEF IsPair, s, t
    <2>4. /\ s \o t \in Seq(Nat) /\ Len(s \o t) = 6
          /\ Stands(s \o t, 0, s) /\ Stands(s \o t, 3, t)
      <3>1. s \in Seq(Nat) /\ t \in Seq(Nat)
        BY <2>2
      <3>2. /\ s \o t \in Seq(Nat) /\ Len(s \o t) = Len(s) + Len(t)
            /\ Stands(s \o t, 0, s) /\ Stands(s \o t, Len(s), t)
        BY <3>1, TwoStand
      <3> QED
        BY <2>2, <3>2
    <2>5. i - 1 \in Nat /\ i - 1 + 0 = i - 1 /\ i - 1 + 3 = i + 3 - 1 /\ i + 3 \in Nat /\ 1 <= i + 3
      BY <1>0, SMT
    <2>6. Stands(b, i - 1 + 0, s) /\ Stands(b, i - 1 + 3, t)
      <3>1. Stands(b, i - 1, s \o t)
        BY <1>0, <2>3
      <3> DEFINE st == s \o t
                 at == i - 1
      <3>2. /\ b \in Seq(Nat) /\ st \in Seq(Nat) /\ s \in Seq(Nat) /\ t \in Seq(Nat)
            /\ at \in Nat /\ 0 \in Nat /\ 3 \in Nat /\ Stands(b, at, st)
            /\ Stands(st, 0, s) /\ Stands(st, 3, t)
        BY <1>0, <2>2, <2>4, <2>5, <3>1
      <3> HIDE DEF st, at
      <3>3. Stands(b, at + 0, s)
        BY <3>2, StandsInside
      <3>4. Stands(b, at + 3, t)
        BY <3>2, StandsInside
      <3> QED
        BY <3>3, <3>4 DEF at
    <2>7. Stands(b, i - 1, Three(h)) /\ Stands(b, i + 3 - 1, Three(l))
      BY <2>5, <2>6 DEF s, t
    <2>8. ReadsThree(b, i, h) /\ ReadsThree(b, i + 3, l)
      BY <1>0, <2>1, <2>5, <2>7, ThreeStands
    <2>9. Width(b, i) = 6
      BY <1>0, <2>1, <2>8, ThreeWidth
    <2>10. /\ ThreeBytes(b, i) = h /\ ThreeBytes(b, i + 3) = l
           /\ \E k \in 0..15 : b[i + 3] = 224 + k
      BY <2>8 DEF ReadsThree
    <2>11. b[i + 3] \in 224..239
      <3>1. \A k \in 0..15 : 224 + k \in 224..239
        BY SMT
      <3> QED
        BY <2>10, <3>1
    <2>12. CharAt(b, i) = FirstPaired + (h - FirstHigh) * 1024 + l - FirstLow
      BY <2>9, <2>10, <2>11, SMT DEF CharAt
    <2>13. CharAt(b, i) = c /\ c \in FirstPaired..LastCodePoint
      BY <1>4, <2>12 DEF IsPair
    <2>14. c \notin FirstHigh..(FirstLow - 1) /\ h \notin FirstLow..LastLow
      BY <2>13, Bounds, SMT
    <2> QED
      BY <2>3, <2>4, <2>9, <2>10, <2>13, <2>14
  <1> QED
    BY <1>1, <1>2, <1>3, <1>4, EncodeCharIs

\* A high surrogate without the low one behind it is no character.
LEMMA LoneHighIsRead ==
    ASSUME NEW c \in FirstHigh..(FirstLow - 1), NEW d \in 0..LastCodePoint, NEW b, NEW i,
           Begins(b, i, c), Begins(b, i + 3, d), d \notin FirstLow..LastLow
    PROVE  CharAt(b, i) = -1
  <1>1. c \in 0..LastCodePoint
    BY Bounds, SMT
  <1>2. Width(b, i) = 6
    BY <1>1, CharIsRead
  <1>3. ~(b[i + 3] \in 224..239 /\ ThreeBytes(b, i + 3) \in FirstLow..LastLow)
    BY CharIsRead
  <1> QED
    BY <1>2, <1>3, SMT DEF CharAt

---------------------------------------------------------------------------
\* What is read from each place of the bytes b.
StopsAt(b, i) == Width(b, i) = 0 \/ i + Width(b, i) - 1 > Len(b)
IsDecoding(from, b) ==
    /\ from \in [1..(Len(b) + 1) -> Seq(Int)] /\ from[Len(b) + 1] = <<>>
    /\ \A i \in 1..Len(b) :
          from[i] = IF StopsAt(b, i) THEN <<-1>>
                    ELSE <<CharAt(b, i)>> \o from[i + Width(b, i)]
    /\ DecodeModifiedUtf8(b) =
          IF \A k \in DOMAIN from[1] : IsScalar(from[1][k]) THEN from[1] ELSE Bad

\* Three bytes are read as a number.
LEMMA ThreeBytesTyped ==
    ASSUME NEW b, NEW i, b[i] \in Nat, b[i + 1] \in Nat, b[i + 2] \in Nat
    PROVE  ThreeBytes(b, i) \in Int
  <1> DEFINE x == b[i]
             y == b[i + 1]
             z == b[i + 2]
  <1>1. ThreeBytes(b, i) = (x % 16) * 4096 + (y % 64) * 64 + (z % 64)
    BY Zenon DEF ThreeBytes
  <1>2. x \in Nat /\ y \in Nat /\ z \in Nat
    OBVIOUS
  <1> HIDE DEF x, y, z
  <1> QED
    BY <1>1, <1>2, SMT

\* A place is read as a number, of up to six bytes.
LEMMA PlaceIsRead ==
    ASSUME NEW b \in Seq(Nat), NEW i \in 1..Len(b)
    PROVE  Width(b, i) \in {0, 1, 2, 3, 6} /\ (~StopsAt(b, i) => CharAt(b, i) \in Int)
  <1>1. Len(b) \in Nat /\ \A k \in 1..Len(b) : b[k] \in Nat
    BY LenProperties, ElementOfSeq
  <1>2. Width(b, i) \in {0, 1, 2, 3, 6}
    <2>1. \A x \in Nat : ~(x < 128 /\ x \in 192..223) /\ ~(x < 128 /\ x \in 224..239)
                         /\ ~(x \in 192..223 /\ x \in 224..239)
      BY SMT
    <2>2. b[i] \in Nat
      BY <1>1
    <2> QED
      BY <2>1, <2>2, SMT DEF Width
  <1>3. ASSUME ~StopsAt(b, i) PROVE CharAt(b, i) \in Int
    <2> DEFINE w == Width(b, i)
    <2>1. w \in {1, 2, 3, 6} /\ i + w - 1 <= Len(b)
      BY <1>1, <1>2, <1>3 DEF StopsAt
    <2>2. \A x, y \in Nat : (x % 32) * 64 + (y % 64) \in Int
      BY SMT
    <2> HIDE DEF w
    <2>4. CASE w = 1
      BY <1>1, <2>4, SMT DEF CharAt, w
    <2>5. CASE w = 2
      <3>1. i + 1 \in 1..Len(b)
        BY <1>1, <2>1, <2>5, SMT
      <3>2. (b[i] % 32) * 64 + (b[i + 1] % 64) \in Int
        BY <1>1, <2>2, <3>1
      <3>3. CharAt(b, i) = (b[i] % 32) * 64 + (b[i + 1] % 64)
        BY <2>5 DEF CharAt, w
      <3> QED
        BY <3>2, <3>3
    <2>6. CASE w \in {3, 6}
      <3>1. i + 1 \in 1..Len(b) /\ i + 2 \in 1..Len(b)
        BY <1>1, <2>1, <2>6, SMT
      <3>2. ThreeBytes(b, i) \in Int
        <4>1. b[i] \in Nat /\ b[i + 1] \in Nat /\ b[i + 2] \in Nat
          BY <1>1, <3>1
        <4> QED
          BY <4>1, ThreeBytesTyped
      <3>3. CASE w = 3
        BY <3>2, <3>3 DEF CharAt, w
      <3>4. CASE w = 6
        <4>1. i + 3 \in 1..Len(b) /\ i + 3 + 1 \in 1..Len(b) /\ i + 3 + 2 \in 1..Len(b)
          BY <1>1, <2>1, <3>4, SMT
        <4>2. ThreeBytes(b, i + 3) \in Int
          <5>1. b[i + 3] \in Nat /\ b[i + 3 + 1] \in Nat /\ b[i + 3 + 2] \in Nat
            BY <1>1, <4>1
          <5> QED
            BY <5>1, ThreeBytesTyped
        <4>3. FirstPaired + (ThreeBytes(b, i) - FirstHigh) * 1024
              + ThreeBytes(b, i + 3) - FirstLow \in Int
          BY <3>2, <4>2, Bounds
        <4>4. \/ CharAt(b, i) = FirstPaired + (ThreeBytes(b, i) - FirstHigh) * 1024
                                + ThreeBytes(b, i + 3) - FirstLow
              \/ CharAt(b, i) = -1
          BY <3>4 DEF CharAt, w
        <4> QED
          BY <4>3, <4>4
      <3> QED
        BY <2>6, <3>3, <3>4
    <2> QED
      BY <2>1, <2>4, <2>5, <2>6
  <1> QED
    BY <1>2, <1>3

\* One character before others.
LEMMA OneBefore ==
    ASSUME NEW x \in Int, NEW s \in Seq(Int)
    PROVE  /\ <<x>> \o s \in Seq(Int) /\ Len(<<x>> \o s) = Len(s) + 1
           /\ (<<x>> \o s)[1] = x /\ \A j \in 1..Len(s) : (<<x>> \o s)[j + 1] = s[j]
  <1> DEFINE one == <<x>>
  <1>1. one \in Seq(Int) /\ Len(one) = 1 /\ one[1] = x
    OBVIOUS
  <1> HIDE DEF one
  <1>2. /\ one \o s \in Seq(Int) /\ Len(one \o s) = Len(one) + Len(s)
        /\ \A k \in 1..(Len(one) + Len(s)) :
              (one \o s)[k] = IF k <= Len(one) THEN one[k] ELSE s[k - Len(one)]
    BY <1>1, ConcatProperties
  <1>3. Len(s) \in Nat
    BY LenProperties
  <1>4. \A j \in 1..Len(s) : j + 1 \in 1..(1 + Len(s)) /\ ~(j + 1 <= 1) /\ (j + 1) - 1 = j
    BY <1>3
  <1>5. \A j \in 1..Len(s) : (one \o s)[j + 1] = s[j]
    BY <1>1, <1>2, <1>4
  <1>6. (one \o s)[1] = x
    BY <1>1, <1>2, <1>3
  <1> QED
    BY <1>1, <1>2, <1>3, <1>5, <1>6 DEF one

\* DecodeModifiedUtf8 reads so.
LEMMA DecodingIs ==
    ASSUME NEW b \in Seq(Nat)
    PROVE  \E from : IsDecoding(from, b)
  <1> DEFINE L == Len(b)
             Stops(i) == StopsAt(b, i)
             w(i) == Width(b, i)
             first == [i \in 1..L |-> IF Stops(i) THEN -1 ELSE CharAt(b, i)]
             next == [i \in 1..L |-> IF Stops(i) THEN L + 1 ELSE i + w(i)]
             IsTable(f) == f = [i \in 1..(Len(b) + 1) |->
                                   IF i > Len(b) THEN <<>>
                                   ELSE IF Width(b, i) = 0 \/ i + Width(b, i) - 1 > Len(b)
                                        THEN <<-1>>
                                        ELSE <<CharAt(b, i)>> \o f[i + Width(b, i)]]
             table == CHOOSE f : IsTable(f)
  <1>1. L \in Nat
    BY LenProperties
  <1> HIDE DEF L
  <1>2. \A i \in 1..L : /\ ~Stops(i) => w(i) \in {1, 2, 3, 6} /\ i + w(i) \in 1..(L + 1)
                        /\ Stops(i) \/ CharAt(b, i) \in Int
    <2> TAKE i \in 1..L
    <2>1. w(i) \in {0, 1, 2, 3, 6} /\ (~Stops(i) => CharAt(b, i) \in Int)
      BY PlaceIsRead DEF L
    <2>2. ~Stops(i) => w(i) # 0 /\ i + w(i) - 1 <= L
      BY <1>1, <2>1 DEF StopsAt, L
    <2> QED
      BY <1>1, <2>1, <2>2
  <1> HIDE DEF Stops, w
  <1>3. first \in [1..L -> Int]
    BY <1>2
  <1>4. LeadsOn(next, L, L + 1)
    <2>1. \A i \in 1..L : /\ next[i] \in 1..(L + 1) /\ next[i] > i
      <3> TAKE i \in 1..L
      <3>1. CASE Stops(i)
        BY <1>1, <3>1
      <3>2. CASE ~Stops(i)
        <4>1. next[i] = i + w(i)
          BY <3>2
        <4>2. w(i) \in {1, 2, 3, 6} /\ i + w(i) \in 1..(L + 1)
          BY <1>2, <3>2
        <4> HIDE DEF next
        <4> QED
          BY <1>1, <4>1, <4>2
      <3> QED
        BY <3>1, <3>2
    <2>2. next = [i \in 1..L |-> next[i]]
      OBVIOUS
    <2> HIDE DEF next
    <2>3. next \in [1..L -> 1..(L + 1)]
      BY <2>1, <2>2
    <2> QED
      BY <2>1, <2>3 DEF LeadsOn
  <1>5. \A i \in 1..L : /\ Stops(i) => first[i] = -1 /\ next[i] = L + 1
                        /\ ~Stops(i) => first[i] = CharAt(b, i) /\ next[i] = i + w(i)
    OBVIOUS
  <1> HIDE DEF first, next
  <1> DEFINE end == L + 1
  <1>6. PICK f \in [1..end -> Seq(Int)] : AreFromEnd(f, L, end, first, next)
    <2> HIDE DEF end
    <2>1. LeadsOn(next, L, end)
      BY <1>4 DEF end
    <2> QED
      BY <1>1, <1>3, <2>1, ValuesFromEnd
  <1>7. <<-1>> \o <<>> = <<-1>>
    OBVIOUS
  <1>8. /\ f[L + 1] = <<>>
        /\ \A i \in 1..L : f[i] = IF Stops(i) THEN <<-1>> ELSE <<CharAt(b, i)>> \o f[i + w(i)]
    BY <1>5, <1>6, <1>7 DEF AreFromEnd
  <1>9. IsTable(f)
    <2>1. \A i \in 1..(L + 1) : f[i] = IF i > L THEN <<>>
                                       ELSE IF Stops(i) THEN <<-1>>
                                       ELSE <<CharAt(b, i)>> \o f[i + w(i)]
      <3>1. \A i \in 1..(L + 1) : (i > L /\ i = L + 1) \/ (~(i > L) /\ i \in 1..L)
        BY <1>1
      <3> QED
        BY <1>8, <3>1
    <2>2. f = [i \in 1..(L + 1) |-> f[i]]
      BY <1>6
    <2>3. f = [i \in 1..(L + 1) |-> IF i > L THEN <<>>
                                       ELSE IF Stops(i) THEN <<-1>>
                                       ELSE <<CharAt(b, i)>> \o f[i + w(i)]]
      BY <2>1, <2>2
    <2> QED
      BY <2>3, Zenon DEF L, Stops, w, StopsAt
  <1>10. IsTable(table)
    <2> HIDE DEF IsTable
    <2> QED
      BY <1>9
  <1>11. PICK a : /\ IsTable(a)
                  /\ DecodeModifiedUtf8(b) =
                        IF \A k \in DOMAIN a[1] : IsScalar(a[1][k]) THEN a[1] ELSE Bad
    <2>1. DecodeModifiedUtf8(b) =
              IF \A k \in DOMAIN table[1] : IsScalar(table[1][k]) THEN table[1] ELSE Bad
      BY Zenon DEF DecodeModifiedUtf8
    <2> HIDE DEF IsTable, table
    <2> QED
      BY <1>10, <2>1
  <1>12. a = [i \in 1..(L + 1) |-> IF i > L THEN <<>>
                                   ELSE IF Stops(i) THEN <<-1>>
                                   ELSE <<CharAt(b, i)>> \o a[i + w(i)]]
    BY <1>11, Zenon DEF L, Stops, w, StopsAt
  <1> HIDE DEF IsTable
  <1>13. /\ a[L + 1] = <<>>
         /\ \A i \in 1..L : a[i] = IF Stops(i) THEN <<-1>> ELSE <<CharAt(b, i)>> \o a[i + w(i)]
    <2>1. L + 1 \in 1..(L + 1) /\ L + 1 > L /\ \A i \in 1..L : i \in 1..(L + 1) /\ ~(i > L)
      BY <1>1
    <2> QED
      BY <1>12, <2>1
  <1>14. AreFromEnd(a, L, end, first, next)
    BY <1>5, <1>7, <1>13 DEF AreFromEnd
  <1>15. \A i \in 1..end : a[i] = f[i]
    <2> HIDE DEF end
    <2>1. LeadsOn(next, L, end)
      BY <1>4 DEF end
    <2>2. AreFromEnd(a, L, end, first, next)
      BY <1>14
    <2>3. \A g : AreFromEnd(g, L, end, first, next) => \A i \in 1..end : a[i] = g[i]
      BY <1>1, <2>1, <2>2, ValuesFromEndAgree
    <2> QED
      BY <1>6, <2>3
  <1>16. a \in [1..(L + 1) -> Seq(Int)]
    <2>1. \A i \in 1..(L + 1) : a[i] \in Seq(Int)
      BY <1>6, <1>15
    <2>2. \E g : a = [i \in 1..(L + 1) |-> g[i]]
      <3>1. a = [i \in 1..(L + 1) |-> a[i]]
        BY <1>12
      <3> QED
        BY <3>1
    <2> QED
      BY <2>1, <2>2
  <1> QED
    BY <1>11, <1>13, <1>16, Zenon DEF IsDecoding, L, Stops, w

---------------------------------------------------------------------------
\* What a text is written as, and where each of its characters is.
AreWritten(at, text, b) ==
    /\ b \in Seq(Nat) /\ at \in [0..Len(text) -> Nat] /\ at[0] = 0 /\ at[Len(text)] = Len(b)
    /\ \A k \in 1..Len(text) : /\ at[k] = at[k - 1] + Len(EncodeChar(text[k])) /\ at[k] <= Len(b)
                               /\ Begins(b, at[k - 1] + 1, text[k])

\* EncodeText writes so.
LEMMA EncodeTextIs ==
    ASSUME NEW text \in Seq(0..LastCodePoint)
    PROVE  EncodeText(text) \in Seq(Nat) /\ \E at : AreWritten(at, text, EncodeText(text))
  <1> DEFINE n == Len(text)
             s == [k \in DOMAIN text |-> EncodeChar(text[k])]
             b == FlattenSeq(s)
             C == Seq(Nat)
  <1>1. n \in Nat /\ DOMAIN text = 1..n /\ \A k \in 1..n : text[k] \in 0..LastCodePoint
    BY LenProperties, ElementOfSeq
  <1>2. \A k \in 1..n : EncodeChar(text[k]) \in C
    BY <1>1, EncodeTyped
  <1>3. s \in Seq(C) /\ Len(s) = n /\ \A k \in 1..n : s[k] = EncodeChar(text[k])
    <2>1. s \in [1..n -> C] /\ \A k \in 1..n : s[k] = EncodeChar(text[k])
      BY <1>1, <1>2
    <2> HIDE DEF s
    <2>2. s \in Seq(C)
      BY <1>1, <2>1, IsASeq
    <2>3. Len(s) = n
      BY <1>1, <2>1, <2>2, LenProperties
    <2> QED
      BY <2>1, <2>2, <2>3
  <1>4. EncodeText(text) = b
    BY DEF EncodeText
  <1> HIDE DEF s, b
  <1>5. /\ b \in Seq(Nat)
        /\ \E at : /\ AreOffsets(at, s) /\ at[Len(s)] = Len(b)
                   /\ \A k \in 1..Len(s) : Stands(b, at[k - 1], s[k])
    BY <1>3, FlattenStands DEF b, C
  <1>6. PICK at : /\ AreOffsets(at, s) /\ at[Len(s)] = Len(b)
                  /\ \A k \in 1..Len(s) : Stands(b, at[k - 1], s[k])
    BY <1>5
  <1>7. at \in [0..n -> Nat] /\ at[0] = 0 /\ \A k \in 1..n : at[k] = at[k - 1] + Len(s[k])
    BY <1>3, <1>6 DEF AreOffsets
  <1>8. ASSUME NEW k \in 1..n
        PROVE  /\ at[k] = at[k - 1] + Len(EncodeChar(text[k])) /\ at[k] <= Len(b)
               /\ Begins(b, at[k - 1] + 1, text[k])
    <2>1. k - 1 \in 0..n /\ at[k - 1] \in Nat
      BY <1>1, <1>7
    <2>2. Stands(b, at[k - 1], s[k]) /\ s[k] = EncodeChar(text[k])
      BY <1>3, <1>6
    <2>3. at[k - 1] + 1 \in Nat /\ 1 <= at[k - 1] + 1 /\ at[k - 1] + 1 - 1 = at[k - 1]
      BY <2>1
    <2>4. at[k] <= Len(b)
      BY <1>7, <2>2 DEF Stands
    <2> DEFINE p == at[k - 1] + 1
    <2>5. p \in Nat /\ 1 <= p /\ Stands(b, p - 1, EncodeChar(text[k]))
      <3>1. p \in Nat /\ 1 <= p /\ p - 1 = at[k - 1]
        BY <2>1
      <3> HIDE DEF p
      <3> QED
        BY <2>2, <3>1
    <2>6. Begins(b, p, text[k])
      BY <1>5, <2>5, Zenon DEF Begins
    <2> QED
      BY <1>3, <1>7, <2>4, <2>6
  <1>9. AreWritten(at, text, b)
    BY <1>3, <1>5, <1>6, <1>7, <1>8 DEF AreWritten
  <1> QED
    BY <1>4, <1>5, <1>9

\* A text is read back, from the k-th character on: unless there is a surrogate among
\* those, which leaves what is no character.
IsClean(text, k) == \A j \in k..Len(text) : text[j] \notin FirstHigh..LastLow
ReadsBack(r, text, k) ==
    /\ r \in Seq(Int)
    /\ IsClean(text, k) => /\ Len(r) = Len(text) + 1 - k
                           /\ \A j \in 1..(Len(text) + 1 - k) : r[j] = text[k + j - 1]
    /\ ~IsClean(text, k) => \E j \in 1..Len(r) : ~IsScalar(r[j])

\* A character more.
LEMMA ReadsOneMore ==
    ASSUME NEW text \in Seq(0..LastCodePoint), NEW k \in 1..Len(text), NEW r,
           ReadsBack(r, text, k + 1), text[k] \notin FirstHigh..(FirstLow - 1)
    PROVE  ReadsBack(<<text[k]>> \o r, text, k)
  <1> DEFINE n == Len(text)
             c == text[k]
             q == <<c>> \o r
  <1>1. /\ n \in Nat /\ c \in Int /\ r \in Seq(Int) /\ Len(r) \in Nat
        /\ \A j \in 1..n : text[j] \in 0..LastCodePoint
    <2>1. n \in Nat /\ \A j \in 1..n : text[j] \in 0..LastCodePoint
      BY LenProperties, ElementOfSeq
    <2>2. r \in Seq(Int)
      BY DEF ReadsBack
    <2>3. Len(r) \in Nat
      BY <2>2, LenProperties
    <2> QED
      BY <2>1, <2>2, <2>3
  <1> HIDE DEF c
  <1>2. /\ q \in Seq(Int) /\ Len(q) = Len(r) + 1 /\ q[1] = c
        /\ \A j \in 1..Len(r) : q[j + 1] = r[j]
    BY <1>1, OneBefore
  <1> HIDE DEF q
  <1>3. CASE IsClean(text, k)
    <2>1. IsClean(text, k + 1)
      BY <1>1, <1>3 DEF IsClean
    <2>2. /\ Len(r) = n + 1 - (k + 1)
          /\ \A j \in 1..(n + 1 - (k + 1)) : r[j] = text[k + 1 + j - 1]
      BY <2>1 DEF ReadsBack
    <2>3. Len(q) = n + 1 - k
      BY <1>1, <1>2, <2>2
    <2>4. ASSUME NEW j \in 1..(n + 1 - k) PROVE q[j] = text[k + j - 1]
      <3>1. CASE j = 1
        BY <1>1, <1>2, <3>1 DEF c
      <3>2. CASE j # 1
        <4>1. /\ j - 1 \in 1..(n + 1 - (k + 1)) /\ k + 1 + (j - 1) - 1 = k + j - 1
              /\ (j - 1) + 1 = j /\ j - 1 \in 1..Len(r)
          BY <1>1, <2>2, <3>2
        <4> QED
          BY <1>2, <2>2, <4>1
      <3> QED
        BY <3>1, <3>2
    <2>5. ReadsBack(q, text, k)
      BY <1>2, <1>3, <2>3, <2>4 DEF ReadsBack
    <2> QED
      BY <2>5 DEF q, c
  <1>4. CASE ~IsClean(text, k)
    <2>1. \E j \in 1..Len(q) : ~IsScalar(q[j])
      <3>1. CASE c \in FirstHigh..LastLow
        <4>1. ~IsScalar(c)
          BY <3>1, Bounds DEF IsScalar
        <4>2. 1 \in 1..Len(q)
          BY <1>1, <1>2
        <4> QED
          BY <1>2, <4>1, <4>2
      <3>2. CASE c \notin FirstHigh..LastLow
        <4>1. PICK j \in k..n : text[j] \in FirstHigh..LastLow
          BY <1>4 DEF IsClean
        <4>2. j # k /\ j \in (k + 1)..n
          BY <1>1, <3>2, <4>1 DEF c
        <4>3. ~IsClean(text, k + 1)
          BY <4>1, <4>2 DEF IsClean
        <4>4. PICK m \in 1..Len(r) : ~IsScalar(r[m])
          BY <4>3 DEF ReadsBack
        <4>5. q[m + 1] = r[m] /\ m + 1 \in 1..Len(q)
          BY <1>1, <1>2
        <4> QED
          BY <4>4, <4>5
      <3> QED
        BY <3>1, <3>2
    <2>2. ReadsBack(q, text, k)
      BY <1>2, <1>4, <2>1 DEF ReadsBack
    <2> QED
      BY <2>2 DEF q, c
  <1> QED
    BY <1>3, <1>4 DEF q, c

\* What is no character leaves no text, whatever follows.
LEMMA ReadsNone ==
    ASSUME NEW text \in Seq(0..LastCodePoint), NEW k \in 1..Len(text), NEW r \in Seq(Int),
           text[k] \in FirstHigh..LastLow, r # <<>>, r[1] = -1
    PROVE  ReadsBack(r, text, k)
  <1>1. Len(r) \in Nat /\ Len(r) # 0 /\ Len(text) \in Nat
    BY LenProperties, EmptySeq
  <1>2. 1 \in 1..Len(r) /\ k \in k..Len(text)
    BY <1>1
  <1>3. ~IsScalar(-1)
    BY Bounds DEF IsScalar
  <1> QED
    BY <1>2, <1>3 DEF ReadsBack, IsClean

\* A Java string is read back from its bytes, unless half of a pair is missing in it.
LEMMA DecodedIsEncoded ==
    ASSUME NEW text, IsString(text)
    PROVE  /\ EncodeText(text) \in Seq(Nat)
           /\ DecodeModifiedUtf8(EncodeText(text)) = IF Unpaired(text) THEN Bad ELSE text
  <1> DEFINE n == Len(text)
             b == EncodeText(text)
  <1>1. /\ text \in Seq(0..LastCodePoint)
        /\ \A k \in 1..(n - 1) :
              ~(text[k] \in FirstHigh..(FirstLow - 1) /\ text[k + 1] \in FirstLow..LastLow)
    BY DEF IsString
  <1>2. n \in Nat /\ DOMAIN text = 1..n /\ \A k \in 1..n : text[k] \in 0..LastCodePoint
    BY <1>1, LenProperties, ElementOfSeq
  <1>3. b \in Seq(Nat) /\ \E at : AreWritten(at, text, b)
    BY <1>1, EncodeTextIs
  <1> HIDE DEF b
  <1>4. PICK at : AreWritten(at, text, b)
    BY <1>3
  <1>5. PICK from : IsDecoding(from, b)
    BY <1>3, DecodingIs
  <1>6. /\ Len(b) \in Nat /\ at[0] = 0 /\ at[n] = Len(b)
        /\ \A k \in 1..n : /\ at[k - 1] \in Nat /\ at[k] = at[k - 1] + Len(EncodeChar(text[k]))
                           /\ at[k] <= Len(b) /\ Begins(b, at[k - 1] + 1, text[k])
    <2>1. \A k \in 1..n : at[k - 1] \in Nat
      <3> TAKE k \in 1..n
      <3>1. k - 1 \in 0..n
        BY <1>2
      <3> QED
        BY <1>4, <3>1 DEF AreWritten
    <2>2. Len(b) \in Nat
      BY <1>3, LenProperties
    <2> QED
      BY <1>4, <2>1, <2>2 DEF AreWritten
  <1>7. /\ from[Len(b) + 1] = <<>>
        /\ \A i \in 1..(Len(b) + 1) : from[i] \in Seq(Int)
        /\ \A i \in 1..Len(b) :
              from[i] = IF StopsAt(b, i) THEN <<-1>>
                        ELSE <<CharAt(b, i)>> \o from[i + Width(b, i)]
    BY <1>5 DEF IsDecoding
  <1> DEFINE P(k) == ReadsBack(from[at[k - 1] + 1], text, k)
             T == {k \in 1..(n + 1) : P(k)}
  <1>8. P(n + 1)
    <2>1. n + 1 - 1 = n /\ from[at[n] + 1] = <<>>
      BY <1>2, <1>6, <1>7
    <2>2. IsClean(text, n + 1)
      BY <1>2 DEF IsClean
    <2>3. <<>> \in Seq(Int) /\ Len(<<>>) = 0 /\ n + 1 - (n + 1) = 0
      BY <1>2, EmptySeq
    <2>4. ReadsBack(<<>>, text, n + 1)
      BY <2>2, <2>3 DEF ReadsBack
    <2> QED
      BY <2>1, <2>4
  <1>9. ASSUME NEW k \in 1..n, P(k + 1) PROVE P(k)
    <2> DEFINE c == text[k]
               i == at[k - 1] + 1
    <2>1. c \in 0..LastCodePoint /\ Begins(b, i, c)
      BY <1>2, <1>6
    <2>2. /\ i \in 1..Len(b) /\ at[k] = i + Len(EncodeChar(c)) - 1 /\ at[k] <= Len(b)
          /\ Len(EncodeChar(c)) \in {1, 2, 3, 6}
      <3> DEFINE w == Len(EncodeChar(c))
                 p == at[k - 1]
                 q == at[k]
                 m == Len(b)
      <3>1. w \in {1, 2, 3, 6}
        BY <2>1, EncodeTyped
      <3>2. m \in Nat /\ p \in Nat /\ q = p + w /\ q <= m /\ i = p + 1
        BY <1>6
      <3> HIDE DEF w, p, q, m, i, c
      <3>3. i \in 1..m /\ q = i + w - 1
        BY <3>1, <3>2
      <3> QED
        BY <3>1, <3>2, <3>3 DEF w, p, q, m
    <2>3. at[(k + 1) - 1] + 1 = i + Len(EncodeChar(c)) /\ k + 1 - 1 = k
      BY <2>2, <1>6
    <2> HIDE DEF i, c
    <2>4. ReadsBack(from[i + Len(EncodeChar(c))], text, k + 1)
      BY <1>9, <2>3
    <2>5. from[i] \in Seq(Int)
      BY <1>6, <1>7, <2>2
    <2>6. CASE c \notin FirstHigh..(FirstLow - 1)
      <3>1. Width(b, i) = Len(EncodeChar(c)) /\ CharAt(b, i) = c
        BY <2>1, <2>6, CharIsRead
      <3>2. ~StopsAt(b, i)
        <4>1. /\ Width(b, i) \in {1, 2, 3, 6} /\ Len(b) \in Nat /\ i \in 1..Len(b)
              /\ i + Width(b, i) - 1 <= Len(b)
          BY <1>6, <2>2, <3>1
        <4> DEFINE w == Width(b, i)
                   m == Len(b)
        <4>2. StopsAt(b, i) <=> w = 0 \/ i + w - 1 > m
          BY DEF StopsAt
        <4>3. w \in {1, 2, 3, 6} /\ m \in Nat /\ i \in Int /\ i + w - 1 <= m
          BY <4>1
        <4> HIDE DEF w, m, i
        <4> QED
          BY <4>2, <4>3
      <3>3. from[i] = <<c>> \o from[i + Len(EncodeChar(c))]
        BY <1>7, <2>2, <3>1, <3>2
      <3>4. ReadsBack(<<text[k]>> \o from[i + Len(EncodeChar(c))], text, k)
        BY <1>1, <2>4, <2>6, ReadsOneMore DEF c
      <3> QED
        BY <3>3, <3>4 DEF c, i
    <2>7. CASE c \in FirstHigh..(FirstLow - 1)
      <3>1. Width(b, i) = 6 /\ Len(EncodeChar(c)) = 3
        BY <2>1, <2>7, CharIsRead
      <3>2. from[i] # <<>> /\ from[i][1] = -1
        <4>1. CASE StopsAt(b, i)
          <5>1. from[i] = <<-1>>
            BY <1>7, <2>2, <4>1
          <5> QED
            BY <5>1
        <4>2. CASE ~StopsAt(b, i)
          <5>1. i + 5 <= Len(b)
            BY <1>6, <2>2, <3>1, <4>2 DEF StopsAt
          <5>2. k # n
            BY <1>6, <2>2, <3>1, <5>1
          <5>3. k \in 1..(n - 1) /\ k + 1 \in 1..n /\ (k + 1) - 1 = k
            <6>1. n \in Nat /\ k \in 1..n
              BY <1>2
            <6> HIDE DEF n
            <6> QED
              BY <5>2, <6>1
          <5>4. text[k + 1] \in 0..LastCodePoint /\ text[k + 1] \notin FirstLow..LastLow
            BY <1>1, <1>2, <2>7, <5>3 DEF c
          <5>5. Begins(b, i + 3, text[k + 1])
            <6>1. Begins(b, at[(k + 1) - 1] + 1, text[k + 1])
              BY <1>6, <5>3
            <6> QED
              BY <2>3, <3>1, <6>1
          <5>6. CharAt(b, i) = -1
            BY <2>1, <2>7, <5>4, <5>5, LoneHighIsRead
          <5>7. from[i] = <<-1>> \o from[i + 6] /\ i + 6 \in 1..(Len(b) + 1)
            <6>1. from[i] = <<CharAt(b, i)>> \o from[i + Width(b, i)]
              BY <1>7, <2>2, <4>2
            <6>2. Len(b) \in Nat /\ i \in 1..Len(b)
              BY <1>6, <2>2
            <6>3. i + 6 \in 1..(Len(b) + 1)
              BY <5>1, <6>2
            <6> QED
              BY <3>1, <5>6, <6>1, <6>3
          <5>8. from[i + 6] \in Seq(Int) /\ -1 \in Int
            BY <1>7, <5>7
          <5>9. Len(from[i]) = Len(from[i + 6]) + 1 /\ from[i][1] = -1
            BY <5>7, <5>8, OneBefore
          <5>10. Len(from[i + 6]) \in Nat
            BY <5>8, LenProperties
          <5> QED
            BY <5>9, <5>10, EmptySeq
        <4> QED
          BY <4>1, <4>2
      <3>3. text[k] \in FirstHigh..LastLow
        BY <2>7, Bounds DEF c
      <3>4. ReadsBack(from[i], text, k)
        BY <1>1, <2>5, <3>2, <3>3, ReadsNone
      <3> QED
        BY <3>4 DEF i
    <2> QED
      BY <2>6, <2>7
  <1> HIDE DEF P
  <1>10. 1..(n + 1) \subseteq T
    <2> DEFINE N == n + 1
    <2>1. N \in Nat
      BY <1>2
    <2>2. ASSUME NEW j \in 1..N, \A k \in 1..N : k > j => k \in T PROVE j \in T
      <3>1. CASE j = N
        BY <1>8, <3>1
      <3>2. CASE j # N
        <4>1. j \in 1..n /\ j + 1 \in 1..N /\ j + 1 > j
          BY <1>2, <3>2
        <4>2. P(j + 1)
          BY <2>2, <4>1
        <4> QED
          BY <1>9, <4>1, <4>2
      <3> QED
        BY <3>1, <3>2
    <2> HIDE DEF T, N
    <2>3. 1..N \subseteq T
      BY <2>1, <2>2, FrontInduction
    <2> QED
      BY <2>3 DEF N
  <1>11. ReadsBack(from[1], text, 1)
    <2>1. 1 \in 1..(n + 1) /\ 1 - 1 = 0 /\ 0 + 1 = 1
      BY <1>2
    <2>2. P(1)
      BY <1>10, <2>1
    <2> QED
      BY <1>6, <2>1, <2>2 DEF P
  <1> DEFINE r == from[1]
  <1>12. DecodeModifiedUtf8(b) = IF \A k \in DOMAIN r : IsScalar(r[k]) THEN r ELSE Bad
    BY <1>5 DEF IsDecoding
  <1>13. r \in Seq(Int) /\ DOMAIN r = 1..Len(r)
    BY <1>11, LenProperties DEF ReadsBack
  <1> HIDE DEF r
  <1>14. IsClean(text, 1) <=> ~Unpaired(text)
    BY <1>2 DEF IsClean, Unpaired
  <1>15. CASE Unpaired(text)
    <2>1. \E j \in 1..Len(r) : ~IsScalar(r[j])
      BY <1>11, <1>14, <1>15 DEF ReadsBack, r
    <2>2. DecodeModifiedUtf8(b) = Bad
      BY <1>12, <1>13, <2>1
    <2> QED
      BY <1>3, <1>15, <2>2 DEF b
  <1>16. CASE ~Unpaired(text)
    <2>1. /\ Len(r) = n + 1 - 1 /\ \A j \in 1..(n + 1 - 1) : r[j] = text[1 + j - 1]
          /\ IsClean(text, 1)
      BY <1>11, <1>14, <1>16 DEF ReadsBack, r
    <2>2. n + 1 - 1 = n /\ \A j \in 1..n : 1 + j - 1 = j
      BY <1>2
    <2>3. Len(r) = n /\ \A j \in 1..n : r[j] = text[j]
      BY <2>1, <2>2
    <2>4. r = text
      BY <1>1, <1>13, <2>3, SeqEqual, SMTT(30)
    <2>5. \A k \in DOMAIN r : IsScalar(r[k])
      <3> SUFFICES ASSUME NEW k \in 1..n PROVE IsScalar(text[k])
        BY <1>2, <2>4
      <3>1. text[k] \in 0..LastCodePoint /\ text[k] \notin FirstHigh..LastLow
        BY <1>2, <2>1 DEF IsClean
      <3> QED
        BY <3>1, Bounds DEF IsScalar
    <2> QED
      BY <1>3, <1>12, <1>16, <2>4, <2>5 DEF b
  <1> QED
    BY <1>15, <1>16

(***************************************************************************)
(* Constants, their indices, and the pieces of a class file.               *)
(***************************************************************************)

\* A sequence of sequences, element by element.
LEMMA ListOf ==
    ASSUME NEW C, NEW s, NEW n \in Nat, DOMAIN s = 1..n, s = [k \in DOMAIN s |-> s[k]],
           \A k \in 1..n : s[k] \in C
    PROVE  s \in Seq(C) /\ Len(s) = n
  <1>1. s \in [1..n -> C]
    OBVIOUS
  <1>2. s \in Seq(C)
    BY <1>1, SeqDef
  <1> QED
    BY <1>1, <1>2, LenProperties

\* The pieces are all of one length.
Uniform(s, w) == w \in Nat /\ \A k \in 1..Len(s) : Len(s[k]) = w

\* Pieces of one length stand at the multiples of it.
LEMMA UniformStand ==
    ASSUME NEW C, NEW s \in Seq(Seq(C)), NEW w, Uniform(s, w)
    PROVE  /\ FlattenSeq(s) \in Seq(C) /\ Len(FlattenSeq(s)) = w * Len(s)
           /\ \A k \in 1..Len(s) : Stands(FlattenSeq(s), w * (k - 1), s[k])
  <1> DEFINE n == Len(s)
  <1>1. n \in Nat /\ w \in Nat
    BY LenProperties DEF Uniform
  <1>2. PICK at : /\ AreOffsets(at, s) /\ at[n] = Len(FlattenSeq(s))
                  /\ \A k \in 1..n : Stands(FlattenSeq(s), at[k - 1], s[k])
    BY FlattenStands
  <1>3. at[0] = 0 /\ \A k \in 1..n : at[k] = at[k - 1] + w
    BY <1>2 DEF AreOffsets, Uniform
  <1> DEFINE T == {m \in Nat : m <= n => at[m] = w * m}
  <1>4. 0 \in T
    BY <1>1, <1>3
  <1>5. ASSUME NEW m \in Nat, m \in T PROVE m + 1 \in T
    <2> SUFFICES ASSUME m + 1 <= n PROVE at[m + 1] = w * (m + 1)
      OBVIOUS
    <2>1. at[m] = w * m
      BY <1>1, <1>5
    <2>2. m + 1 \in 1..n /\ (m + 1) - 1 = m
      BY <1>1
    <2>3. at[m + 1] = at[m] + w
      BY <1>3, <2>2
    <2>4. w * (m + 1) = w * m + w
      BY <1>1
    <2> QED
      BY <2>1, <2>3, <2>4
  <1> HIDE DEF T
  <1>6. Nat \subseteq T
    BY <1>4, <1>5, SetInduction
  <1>7. \A k \in 0..n : at[k] = w * k
    BY <1>1, <1>6 DEF T
  <1>8. \A k \in 1..n : at[k - 1] = w * (k - 1)
    <2> TAKE k \in 1..n
    <2>1. k - 1 \in 0..n
      BY <1>1
    <2> QED
      BY <1>7, <2>1
  <1>9. n \in 0..n
    BY <1>1
  <1>10. Len(FlattenSeq(s)) = w * Len(s)
    BY <1>2, <1>7, <1>9
  <1>11. FlattenSeq(s) \in Seq(C)
    BY FlattenStands
  <1> QED
    BY <1>2, <1>8, <1>10, <1>11

---------------------------------------------------------------------------
MemberRecord == [name : Name, descriptor : Name, access_flags : Nat]
ClassRecord ==
    [access_flags : Nat, this_class : Name, super_class : Name, interfaces : Seq(Name),
     fields : Seq(MemberRecord), methods : Seq(MemberRecord)]

\* Two sequences, one behind the other, element by element.
Joined(ab, a, b) ==
    /\ Len(ab) = Len(a) + Len(b) /\ Len(a) \in Nat /\ Len(b) \in Nat
    /\ \A k \in 1..Len(a) : ab[k] = a[k]
    /\ \A k \in 1..Len(b) : ab[Len(a) + k] = b[k]

\* What two sequences make.
LEMMA ConcatIs ==
    ASSUME NEW C, NEW a \in Seq(C), NEW b \in Seq(C)
    PROVE  a \o b \in Seq(C) /\ Joined(a \o b, a, b)
  <1>1. /\ a \o b \in Seq(C) /\ Len(a \o b) = Len(a) + Len(b)
        /\ Stands(a \o b, 0, a) /\ Stands(a \o b, Len(a), b)
    BY TwoStand
  <1>2. Len(a) \in Nat /\ Len(b) \in Nat
    BY LenProperties
  <1>3. \A k \in 1..Len(a) : 0 + k = k
    BY <1>2
  <1>4. \A k \in 1..Len(a) : (a \o b)[k] = a[k]
    BY <1>1, <1>3 DEF Stands
  <1>5. \A k \in 1..Len(b) : (a \o b)[Len(a) + k] = b[k]
    BY <1>1 DEF Stands
  <1> QED
    BY <1>1, <1>2, <1>4, <1>5 DEF Joined

\* The names and the members of a class, in the order of its constants.
LEMMA ClassParts ==
    ASSUME NEW c \in ClassRecord
    PROVE  /\ ClassTexts(c) \in Seq(Name) /\ Len(ClassTexts(c)) = 2 + Len(c.interfaces)
           /\ Len(c.interfaces) \in Nat /\ Len(c.fields) \in Nat /\ Len(c.methods) \in Nat
           /\ ClassTexts(c)[1] = c.this_class /\ ClassTexts(c)[2] = c.super_class
           /\ \A k \in 1..Len(c.interfaces) : ClassTexts(c)[2 + k] = c.interfaces[k]
           /\ Members(c) \in Seq(MemberRecord) /\ Len(Members(c)) = Len(c.fields) + Len(c.methods)
           /\ \A k \in 1..Len(c.fields) : Members(c)[k] = c.fields[k]
           /\ \A k \in 1..Len(c.methods) : Members(c)[Len(c.fields) + k] = c.methods[k]
  <1> DEFINE two == <<c.this_class, c.super_class>>
  <1>1. /\ two \in Seq(Name) /\ Len(two) = 2 /\ two[1] = c.this_class /\ two[2] = c.super_class
        /\ c.interfaces \in Seq(Name)
    BY DEF ClassRecord
  <1>2. ClassTexts(c) = two \o c.interfaces
    BY DEF ClassTexts
  <1> HIDE DEF two
  <1>3. two \o c.interfaces \in Seq(Name) /\ Joined(two \o c.interfaces, two, c.interfaces)
    BY <1>1, ConcatIs
  <1>30. /\ Len(two \o c.interfaces) = Len(two) + Len(c.interfaces)
         /\ Len(c.interfaces) \in Nat
         /\ \A k \in 1..Len(two) : (two \o c.interfaces)[k] = two[k]
         /\ \A k \in 1..Len(c.interfaces) :
               (two \o c.interfaces)[Len(two) + k] = c.interfaces[k]
    BY <1>3 DEF Joined
  <1>4. 1 \in 1..Len(two) /\ 2 \in 1..Len(two)
    BY <1>1
  <1>5. c.fields \in Seq(MemberRecord) /\ c.methods \in Seq(MemberRecord)
    BY DEF ClassRecord
  <1>50. Members(c) \in Seq(MemberRecord) /\ Joined(Members(c), c.fields, c.methods)
    BY <1>5, ConcatIs DEF Members
  <1>6. /\ Len(Members(c)) = Len(c.fields) + Len(c.methods)
        /\ Len(c.fields) \in Nat /\ Len(c.methods) \in Nat
        /\ \A k \in 1..Len(c.fields) : Members(c)[k] = c.fields[k]
        /\ \A k \in 1..Len(c.methods) : Members(c)[Len(c.fields) + k] = c.methods[k]
    BY <1>50 DEF Joined
  <1> QED
    BY <1>1, <1>2, <1>3, <1>30, <1>4, <1>50, <1>6

\* Where the texts of a class stand among its constants, and the string.
LastText(c) == Len(ClassTexts(c)) + 2 * Len(Members(c)) + 1
AreTexts(texts, c, string) ==
    /\ texts \in Seq(Name \cup {string}) /\ Len(texts) = LastText(c)
    /\ \A k \in 1..Len(ClassTexts(c)) : texts[k] = ClassTexts(c)[k]
    /\ \A k \in 1..Len(Members(c)) :
          /\ texts[Len(ClassTexts(c)) + (2 * k - 1)] = Members(c)[k].name
          /\ texts[Len(ClassTexts(c)) + 2 * k] = Members(c)[k].descriptor
    /\ texts[LastText(c)] = string

TextsOf(c, string) ==
    ClassTexts(c)
    \o FlattenSeq([k \in DOMAIN Members(c) |-> <<Members(c)[k].name, Members(c)[k].descriptor>>])
    \o <<string>>

\* The names of the members stand in pairs.
LEMMA PairsStand ==
    ASSUME NEW S, NEW s \in Seq(MemberRecord), Name \subseteq S
    PROVE  LET pairs == FlattenSeq([k \in DOMAIN s |-> <<s[k].name, s[k].descriptor>>])
           IN  /\ pairs \in Seq(S) /\ Len(pairs) = 2 * Len(s)
               /\ \A k \in 1..Len(s) : /\ pairs[2 * k - 1] = s[k].name
                                       /\ pairs[2 * k] = s[k].descriptor
  <1> DEFINE n == Len(s)
             two == [k \in DOMAIN s |-> <<s[k].name, s[k].descriptor>>]
             pairs == FlattenSeq(two)
  <1>1. n \in Nat /\ DOMAIN s = 1..n /\ \A k \in 1..n : s[k] \in MemberRecord
    BY LenProperties, ElementOfSeq
  <1>2. DOMAIN two = 1..n /\ \A k \in 1..n : two[k] = <<s[k].name, s[k].descriptor>>
    BY <1>1
  <1>3. \A k \in 1..n : two[k] \in Seq(S) /\ Len(two[k]) = 2
    <2> TAKE k \in 1..n
    <2>1. s[k].name \in S /\ s[k].descriptor \in S
      BY <1>1 DEF MemberRecord
    <2> QED
      BY <1>2, <2>1
  <1>4. two = [k \in DOMAIN two |-> two[k]]
    OBVIOUS
  <1> HIDE DEF two
  <1>5. two \in Seq(Seq(S)) /\ Len(two) = n
    BY <1>1, <1>2, <1>3, <1>4, ListOf
  <1>6. Uniform(two, 2)
    BY <1>3, <1>5 DEF Uniform
  <1>7. /\ pairs \in Seq(S) /\ Len(pairs) = 2 * Len(two)
        /\ \A k \in 1..Len(two) : Stands(pairs, 2 * (k - 1), two[k])
    BY <1>5, <1>6, UniformStand
  <1> HIDE DEF pairs
  <1>8. ASSUME NEW k \in 1..n
        PROVE  pairs[2 * k - 1] = s[k].name /\ pairs[2 * k] = s[k].descriptor
    <2>1. 2 * (k - 1) + 1 = 2 * k - 1 /\ 2 * (k - 1) + 2 = 2 * k
      BY <1>1
    <2>2. 1 \in 1..Len(two[k]) /\ 2 \in 1..Len(two[k])
      <3>1. Len(two[k]) = 2
        BY <1>3
      <3> QED
        BY <3>1
    <2>3. pairs[2 * (k - 1) + 1] = two[k][1] /\ pairs[2 * (k - 1) + 2] = two[k][2]
      BY <1>5, <1>7, <2>2 DEF Stands
    <2> QED
      BY <1>2, <2>1, <2>3
  <1> QED
    BY <1>5, <1>7, <1>8 DEF pairs, two

\* The texts of a class are its names, those of its members, and the string.
LEMMA TextsAre ==
    ASSUME NEW c \in ClassRecord, NEW string
    PROVE  AreTexts(TextsOf(c, string), c, string)
  <1> DEFINE S == Name \cup {string}
             a == ClassTexts(c)
             members == Members(c)
             b == FlattenSeq([k \in DOMAIN members |->
                                 <<members[k].name, members[k].descriptor>>])
             d == <<string>>
             ab == a \o b
             abd == ab \o d
             n == Len(a)
             m == Len(members)
  <1>1. a \in Seq(S) /\ members \in Seq(MemberRecord) /\ n \in Nat /\ m \in Nat
    <2>1. a \in Seq(Name) /\ members \in Seq(MemberRecord)
      BY ClassParts
    <2>2. Seq(Name) \subseteq Seq(S)
      OBVIOUS
    <2> QED
      BY <2>1, <2>2, LenProperties
  <1>2. TextsOf(c, string) = abd
    BY DEF TextsOf
  <1>3. /\ b \in Seq(S) /\ Len(b) = 2 * m
        /\ \A k \in 1..m : b[2 * k - 1] = members[k].name /\ b[2 * k] = members[k].descriptor
    <2>1. Name \subseteq S
      OBVIOUS
    <2> HIDE DEF S, members
    <2> QED
      BY <1>1, <2>1, PairsStand
  <1>4. d \in Seq(S) /\ Len(d) = 1 /\ d[1] = string
    OBVIOUS
  <1>5. LastText(c) = n + 2 * m + 1
    BY DEF LastText
  <1> HIDE DEF S, a, members, b, d
  <1>6. ab \in Seq(S) /\ Joined(ab, a, b)
    BY <1>1, <1>3, ConcatIs
  <1> HIDE DEF ab
  <1>7. abd \in Seq(S) /\ Joined(abd, ab, d)
    BY <1>4, <1>6, ConcatIs
  <1> HIDE DEF abd
  <1>8. Len(ab) = n + 2 * m /\ Len(abd) = n + 2 * m + 1
    BY <1>3, <1>4, <1>6, <1>7 DEF Joined
  <1>9. ASSUME NEW k \in 1..n PROVE abd[k] = a[k]
    <2>1. k \in 1..Len(ab)
      BY <1>1, <1>8
    <2> QED
      BY <1>6, <1>7, <2>1 DEF Joined
  <1>10. ASSUME NEW j \in 1..(2 * m) PROVE abd[n + j] = b[j]
    <2>1. n + j \in 1..Len(ab)
      BY <1>1, <1>8
    <2>2. ab[n + j] = b[j]
      BY <1>3, <1>6 DEF Joined
    <2> QED
      BY <1>7, <2>1, <2>2 DEF Joined
  <1>11. ASSUME NEW k \in 1..m
         PROVE  /\ abd[n + (2 * k - 1)] = members[k].name
                /\ abd[n + 2 * k] = members[k].descriptor
    <2>1. 2 * k - 1 \in 1..(2 * m) /\ 2 * k \in 1..(2 * m)
      BY <1>1
    <2> QED
      BY <1>3, <1>10, <2>1
  <1>12. abd[n + 2 * m + 1] = string
    <2>1. 1 \in 1..Len(d)
      BY <1>4
    <2> QED
      BY <1>4, <1>7, <1>8, <2>1 DEF Joined
  <1> QED
    BY <1>2, <1>5, <1>7, <1>8, <1>9, <1>11, <1>12 DEF AreTexts, S, a, members

---------------------------------------------------------------------------
\* A constant as it is written, all that a class file is made of.
IsConstant(constant, n) ==
    \/ constant.tag = 7 /\ constant.text \in 1..n
    \/ constant.tag \in DOMAIN Payload
    \/ constant.tag = 1 /\ IsString(constant.text)

\* The constants of a class: the references to its classes, the padding, the texts.
AreConstants(K, c, padding, string) ==
    LET n == Len(ClassTexts(c))
        p == Len(padding)
        m == Len(Members(c))
    IN  /\ n \in Nat /\ p \in Nat /\ m \in Nat
        /\ DOMAIN K = 1..Len(K) /\ Len(K) = 2 * n + p + 2 * m + 1
        /\ \A k \in 1..Len(K) : IsConstant(K[k], Len(K))
        /\ \A k \in 1..n : K[k].tag = 7 /\ K[k].text = n + p + k
        /\ \A k \in 1..n : K[n + p + k].tag = 1 /\ K[n + p + k].text = ClassTexts(c)[k]
        /\ \A k \in 1..m :
              /\ K[2 * n + p + (2 * k - 1)].tag = 1
              /\ K[2 * n + p + (2 * k - 1)].text = Members(c)[k].name
              /\ K[2 * n + p + 2 * k].tag = 1
              /\ K[2 * n + p + 2 * k].text = Members(c)[k].descriptor
        /\ K[Len(K)].tag = 1 /\ K[Len(K)].text = string
        /\ \A k \in 1..(Len(K) - 1) : K[k].tag = 1 => IsName(K[k].text)

\* A name has no surrogates at all.
LEMMA NamesAreStrings ==
    ASSUME NEW text \in Name
    PROVE  IsString(text) /\ IsName(text) /\ ~Unpaired(text)
  <1>1. text \in Seq(0..LastCodePoint) /\ \A k \in DOMAIN text : IsScalar(text[k])
    BY DEF Name, IsName
  <1>2. ASSUME NEW k \in DOMAIN text PROVE text[k] \notin FirstHigh..LastLow
    <2>1. IsScalar(text[k])
      BY <1>1
    <2> QED
      BY <2>1, Bounds DEF IsScalar
  <1>3. Len(text) \in Nat /\ DOMAIN text = 1..Len(text)
    BY <1>1, LenProperties
  <1>4. ASSUME NEW k \in 1..(Len(text) - 1) PROVE text[k] \notin FirstHigh..(FirstLow - 1)
    <2>1. k \in DOMAIN text
      BY <1>3
    <2>2. text[k] \notin FirstHigh..LastLow
      BY <1>2, <2>1
    <2> QED
      BY <2>2, Bounds
  <1> QED
    BY <1>1, <1>2, <1>4 DEF IsString, Unpaired, Name

\* What the constants of a class are.
LEMMA ConstantsAre ==
    ASSUME NEW c \in ClassRecord, NEW build, IsBuild(build)
    PROVE  AreConstants(Constants(c, build.padding, build.string), c, build.padding, build.string)
  <1> DEFINE padding == build.padding
             string == build.string
             n == Len(ClassTexts(c))
             p == Len(padding)
             m == Len(Members(c))
             texts == TextsOf(c, string)
             first == [k \in DOMAIN ClassTexts(c) |-> [tag |-> 7, text |-> n + p + k]]
             second == [k \in DOMAIN padding |-> [tag |-> padding[k], text |-> <<>>]]
             third == [k \in DOMAIN texts |-> [tag |-> 1, text |-> texts[k]]]
             most == first \o second
             K == most \o third
             D == {7} \cup DOMAIN Payload \cup {1}
             R == {first[k] : k \in DOMAIN first} \cup {second[k] : k \in DOMAIN second}
                  \cup {third[k] : k \in DOMAIN third}
  <1>1. /\ n \in Nat /\ DOMAIN ClassTexts(c) = 1..n /\ m \in Nat
        /\ \A k \in 1..n : ClassTexts(c)[k] \in Name
    <2>1. ClassTexts(c) \in Seq(Name) /\ Members(c) \in Seq(MemberRecord)
      BY ClassParts
    <2> QED
      BY <2>1, LenProperties, ElementOfSeq
  <1>2. p \in Nat /\ DOMAIN padding = 1..p /\ \A k \in 1..p : padding[k] \in DOMAIN Payload
    <2>1. padding \in Seq(DOMAIN Payload)
      BY DEF IsBuild
    <2> HIDE DEF padding
    <2> QED
      BY <2>1, LenProperties, ElementOfSeq
  <1>3. AreTexts(texts, c, string)
    BY TextsAre
  <1>4. /\ texts \in Seq(Name \cup {string}) /\ Len(texts) = n + 2 * m + 1
        /\ DOMAIN texts = 1..(n + 2 * m + 1)
    BY <1>3, LenProperties DEF AreTexts, LastText
  <1>5. Constants(c, padding, string) = K
    BY DEF Constants, TextsOf
  <1>6. first \in Seq(R) /\ Len(first) = n /\ DOMAIN first = 1..n
    <2>1. DOMAIN first = 1..n /\ first = [k \in DOMAIN first |-> first[k]]
      BY <1>1
    <2>2. \A k \in 1..n : first[k] \in R
      BY <2>1
    <2> HIDE DEF first, R
    <2> QED
      BY <1>1, <2>1, <2>2, ListOf
  <1>7. second \in Seq(R) /\ Len(second) = p /\ DOMAIN second = 1..p
    <2>1. DOMAIN second = 1..p /\ second = [k \in DOMAIN second |-> second[k]]
      BY <1>2
    <2>2. \A k \in 1..p : second[k] \in R
      BY <2>1
    <2> HIDE DEF second, R
    <2> QED
      BY <1>2, <2>1, <2>2, ListOf
  <1> DEFINE l == n + 2 * m + 1
  <1>8. third \in Seq(R) /\ Len(third) = l /\ DOMAIN third = 1..l
    <2>0. l \in Nat
      BY <1>1
    <2>1. DOMAIN third = 1..l /\ third = [k \in DOMAIN third |-> third[k]]
      BY <1>4
    <2>2. \A k \in 1..l : third[k] \in R
      BY <2>1
    <2> HIDE DEF third, R, l
    <2> QED
      BY <2>0, <2>1, <2>2, ListOf
  <1>9. /\ \A k \in 1..n : first[k].tag = 7 /\ first[k].text = n + p + k
        /\ \A k \in 1..p : second[k].tag = padding[k]
        /\ \A k \in 1..l : third[k].tag = 1 /\ third[k].text = texts[k]
    BY <1>1, <1>2, <1>4
  <1> HIDE DEF first, second, third, R, texts
  <1>10. most \in Seq(R) /\ Joined(most, first, second)
    BY <1>6, <1>7, ConcatIs
  <1> HIDE DEF most
  <1>11. K \in Seq(R) /\ Joined(K, most, third)
    BY <1>8, <1>10, ConcatIs
  <1> HIDE DEF K
  <1>12. Len(most) = n + p /\ Len(K) = n + p + l /\ DOMAIN K = 1..Len(K)
    BY <1>6, <1>7, <1>8, <1>10, <1>11, LenProperties DEF Joined
  <1>13. \A k \in 1..n : K[k] = first[k]
    <2> TAKE k \in 1..n
    <2>1. k \in 1..Len(most) /\ k \in 1..Len(first)
      BY <1>1, <1>2, <1>6, <1>12
    <2> QED
      BY <1>10, <1>11, <2>1 DEF Joined
  <1>14. \A k \in 1..p : K[n + k] = second[k]
    <2> TAKE k \in 1..p
    <2>1. n + k \in 1..Len(most) /\ k \in 1..Len(second)
      BY <1>1, <1>2, <1>7, <1>12
    <2>2. most[n + k] = second[k]
      BY <1>6, <1>10, <2>1 DEF Joined
    <2> QED
      BY <1>11, <2>1, <2>2 DEF Joined
  <1>15. \A k \in 1..l : K[n + p + k] = third[k]
    BY <1>8, <1>11, <1>12 DEF Joined
  <1>150. l = n + 2 * m + 1
    OBVIOUS
  <1> HIDE DEF n, p, m, l
  <1> DEFINE N == Len(K)
  <1>16. N \in Nat /\ N = 2 * n + p + 2 * m + 1 /\ l \in Nat /\ l = n + 2 * m + 1
    BY <1>1, <1>2, <1>12, <1>150
  <1> HIDE DEF N
  <1>17. ASSUME NEW k \in 1..N
         PROVE  \/ k \in 1..n
                \/ \E j \in 1..p : k = n + j
                \/ \E j \in 1..l : k = n + p + j
    <2>1. CASE k > n /\ k <= n + p
      <3>1. k - n \in 1..p /\ k = n + (k - n)
        BY <1>1, <1>2, <1>16, <2>1
      <3> QED
        BY <3>1
    <2>2. CASE k > n + p
      <3>1. k - (n + p) \in 1..l /\ k = n + p + (k - (n + p))
        BY <1>1, <1>2, <1>16, <2>2
      <3> QED
        BY <3>1
    <2> QED
      BY <1>1, <1>2, <2>1, <2>2
  <1>18. texts[l] = string /\ \A j \in 1..l : texts[j] \in Name \cup {string}
    <2>1. texts[LastText(c)] = string /\ LastText(c) = l
      BY <1>3 DEF AreTexts, LastText, l, n, m
    <2>2. ASSUME NEW j \in 1..l PROVE texts[j] \in Name \cup {string}
      <3>1. Len(texts) = l
        BY <1>4, <1>16
      <3> QED
        BY <1>4, <3>1, ElementOfSeq
    <2> QED
      BY <2>1, <2>2
  <1>19. \A j \in 1..(l - 1) : texts[j] \in Name
    <2> TAKE j \in 1..(l - 1)
    <2>1. CASE j \in 1..n
      BY <1>1, <1>3, <2>1 DEF AreTexts, n
    <2>2. CASE j \notin 1..n
      <3>1. Members(c) \in Seq(MemberRecord) /\ DOMAIN Members(c) = 1..m
        BY ClassParts, LenProperties DEF m
      <3>2. \A k \in 1..m : Members(c)[k].name \in Name /\ Members(c)[k].descriptor \in Name
        <4> TAKE k \in 1..m
        <4>1. Members(c)[k] \in MemberRecord
          <5>1. Len(Members(c)) = m
            BY DEF m
          <5> QED
            BY <3>1, <5>1, ElementOfSeq
        <4> QED
          BY <4>1 DEF MemberRecord
      <3>3. \E k \in 1..m : j = n + (2 * k - 1) \/ j = n + 2 * k
        <4> DEFINE i == j - n
        <4>1. i \in 1..(2 * m) /\ j = n + i
          BY <1>1, <1>16, <2>2
        <4> HIDE DEF i
        <4>2. PICK h \in Int : i = 2 * h \/ i = 2 * h - 1
          <5>1. i = 2 * ((i + 1) \div 2) \/ i = 2 * ((i + 1) \div 2) - 1
            BY <1>1, <4>1, SMT
          <5>2. (i + 1) \div 2 \in Int
            BY <1>1, <4>1, SMT
          <5> QED
            BY <5>1, <5>2
        <4>3. h \in 1..m
          BY <1>1, <4>1, <4>2
        <4> QED
          BY <4>1, <4>2, <4>3
      <3> QED
        BY <1>3, <3>2, <3>3 DEF AreTexts, n, m
    <2> QED
      BY <2>1, <2>2
  <1>20. ASSUME NEW k \in 1..N
         PROVE  IsConstant(K[k], N) /\ (k # N /\ K[k].tag = 1 => IsName(K[k].text))
    <2>1. CASE k \in 1..n
      <3>1. n + p + k \in 1..N
        BY <1>1, <1>2, <1>16, <2>1
      <3>2. K[k].tag = 7 /\ K[k].text = n + p + k
        BY <1>9, <1>13, <2>1
      <3>3. 7 # 1
        OBVIOUS
      <3> QED
        BY <3>1, <3>2, <3>3 DEF IsConstant
    <2>2. CASE \E j \in 1..p : k = n + j
      <3>0. PICK j \in 1..p : k = n + j
        BY <2>2
      <3>1. K[k].tag \in DOMAIN Payload
        BY <1>2, <1>9, <1>14, <3>0
      <3>2. K[k].tag # 1
        <4>1. DOMAIN Payload = {3, 4, 5, 6, 8, 9, 10, 11, 12, 15, 16, 17, 18, 19, 20}
          BY DEF Payload
        <4> QED
          BY <3>1, <4>1
      <3> QED
        BY <3>1, <3>2 DEF IsConstant
    <2>3. CASE \E j \in 1..l : k = n + p + j
      <3>1. PICK j \in 1..l : k = n + p + j
        BY <2>3
      <3>2. K[k].tag = 1 /\ K[k].text = texts[j]
        BY <1>9, <1>15, <3>1
      <3>3. IsString(string)
        BY DEF IsBuild
      <3>4. IsString(texts[j])
        <4>1. texts[j] \in Name \/ texts[j] = string
            BY <1>18
        <4> QED
          BY <3>3, <4>1, NamesAreStrings
      <3>5. k # N => IsName(texts[j])
        <4>1. k # N => j \in 1..(l - 1)
          <5> QED
            BY <1>1, <1>2, <1>16, <3>1
        <4> QED
          BY <1>19, <4>1, NamesAreStrings
      <3> QED
        BY <3>2, <3>4, <3>5 DEF IsConstant
    <2> QED
      BY <1>17, <2>1, <2>2, <2>3
  <1>21. ASSUME NEW k \in 1..n
         PROVE K[n + p + k].tag = 1 /\ K[n + p + k].text = ClassTexts(c)[k]
    <2>1. k \in 1..l
      BY <1>1, <1>16
    <2>2. texts[k] = ClassTexts(c)[k]
      BY <1>3 DEF AreTexts, n
    <2> QED
      BY <1>9, <1>15, <2>1, <2>2
  <1>22. ASSUME NEW k \in 1..m
         PROVE  /\ K[2 * n + p + (2 * k - 1)].tag = 1
                /\ K[2 * n + p + (2 * k - 1)].text = Members(c)[k].name
                /\ K[2 * n + p + 2 * k].tag = 1
                /\ K[2 * n + p + 2 * k].text = Members(c)[k].descriptor
    <2>1. /\ n + (2 * k - 1) \in 1..l /\ n + 2 * k \in 1..l
          /\ n + p + (n + (2 * k - 1)) = 2 * n + p + (2 * k - 1)
          /\ n + p + (n + 2 * k) = 2 * n + p + 2 * k
      <3> QED
        BY <1>1, <1>2, <1>16
    <2>2. texts[n + (2 * k - 1)] = Members(c)[k].name /\ texts[n + 2 * k] = Members(c)[k].descriptor
      BY <1>3 DEF AreTexts, n, m
    <2>3. /\ K[n + p + (n + (2 * k - 1))] = third[n + (2 * k - 1)]
          /\ K[n + p + (n + 2 * k)] = third[n + 2 * k]
      BY <1>15, <2>1
    <2>4. \A j \in 1..l : third[j].tag = 1 /\ third[j].text = texts[j]
      BY <1>9
    <2> QED
      BY <2>1, <2>2, <2>3, <2>4
  <1>23. K[N].tag = 1 /\ K[N].text = string
    <2>1. l \in 1..l /\ n + p + l = N
      BY <1>1, <1>2, <1>16
    <2>2. K[n + p + l] = third[l] /\ third[l].tag = 1 /\ third[l].text = texts[l]
      BY <1>9, <1>15, <2>1
    <2> QED
      BY <1>18, <2>1, <2>2
  <1>24. \A k \in 1..(N - 1) : K[k].tag = 1 => IsName(K[k].text)
    <2> TAKE k \in 1..(N - 1)
    <2>1. k \in 1..N /\ k # N
      BY <1>16
    <2> QED
      BY <1>20, <2>1
  <1>25. \A k \in 1..n : K[k].tag = 7 /\ K[k].text = n + p + k
    BY <1>9, <1>13
  <1>26. DOMAIN K = 1..Len(K) /\ Len(K) = 2 * n + p + 2 * m + 1
    BY <1>12, <1>16 DEF N
  <1>27. AreConstants(K, c, padding, string)
    BY <1>1, <1>2, <1>20, <1>21, <1>22, <1>23, <1>24, <1>25, <1>26
       DEF AreConstants, N, n, p, m
  <1> QED
    BY <1>5, <1>27

---------------------------------------------------------------------------
\* Whether a constant takes two slots.
IsWide(constant) == constant.tag \in {5, 6}
Slots(constant) == IF IsWide(constant) THEN 2 ELSE 1

\* The indices of constants: each stands behind the slots of those before it.
AreIndices(index, K) ==
    /\ index[1] = 1
    /\ \A k \in 1..(Len(K) + 1) : index[k] \in Nat
    /\ \A k \in 1..Len(K) : index[k + 1] = index[k] + Slots(K[k])
    /\ \A j, k \in 1..(Len(K) + 1) : j < k => index[j] < index[k]
    /\ \A k \in 1..(Len(K) + 1) :
          (\A j \in 1..(k - 1) : ~IsWide(K[j])) => index[k] = k

\* What the indices of constants are.
LEMMA IndicesAre ==
    ASSUME NEW K, Len(K) \in Nat
    PROVE  AreIndices(Indices(K), K)
  <1> DEFINE n == Len(K)
             index == Indices(K)
             W(k) == {j \in 1..(k - 1) : IsWide(K[j])}
  <1>1. \A k \in 1..(n + 1) : index[k] = k + Cardinality(W(k))
    BY DEF Indices, IsWide
  <1>2. \A k \in Nat : IsFiniteSet(W(k)) /\ Cardinality(W(k)) \in Nat
    <2> TAKE k \in Nat
    <2>1. IsFiniteSet(1..(k - 1))
      BY FS_Interval
    <2>2. W(k) \subseteq 1..(k - 1)
      OBVIOUS
    <2>3. IsFiniteSet(W(k))
      BY <2>1, <2>2, FS_Subset
    <2> QED
      BY <2>3, FS_CardinalityType
  <1>3. ASSUME NEW k \in 1..n
        PROVE  Cardinality(W(k + 1)) = Cardinality(W(k)) + (IF IsWide(K[k]) THEN 1 ELSE 0)
    <2>1. k \notin W(k) /\ IsFiniteSet(W(k))
      BY <1>2
    <2>2. W(k + 1) = IF IsWide(K[k]) THEN W(k) \cup {k} ELSE W(k)
      <3>1. (k + 1) - 1 = k
        OBVIOUS
      <3>2. \A j : j \in 1..k <=> j \in 1..(k - 1) \/ j = k
        OBVIOUS
      <3> QED
        BY <3>1, <3>2
    <2> HIDE DEF W
    <2>3. Cardinality(W(k) \cup {k}) = Cardinality(W(k)) + 1
      BY <2>1, FS_AddElement
    <2>4. Cardinality(W(k)) \in Nat
      BY <1>2
    <2> QED
      BY <2>2, <2>3, <2>4
  <1>4. ASSUME NEW k \in 1..(n + 1), \A j \in 1..(k - 1) : ~IsWide(K[j])
        PROVE  index[k] = k
    <2>1. W(k) = {}
      BY <1>4
    <2>2. Cardinality(W(k)) = 0
      BY <2>1, FS_EmptySet
    <2> QED
      BY <1>1, <2>2
  <1>5. index[1] = 1
    <2>1. 1 \in 1..(n + 1) /\ 1..(1 - 1) = {}
      OBVIOUS
    <2> QED
      BY <1>4, <2>1
  <1> HIDE DEF W, index
  <1>6. \A k \in 1..(n + 1) : index[k] \in Nat
    <2> TAKE k \in 1..(n + 1)
    <2> DEFINE w == Cardinality(W(k))
    <2>1. index[k] = k + w
      BY <1>1
    <2>2. w \in Nat
      BY <1>2
    <2> HIDE DEF w
    <2> QED
      BY <2>1, <2>2
  <1>7. \A k \in 1..n : index[k + 1] = index[k] + Slots(K[k])
    <2> TAKE k \in 1..n
    <2> DEFINE w == Cardinality(W(k))
               x == Cardinality(W(k + 1))
    <2>1. k \in 1..(n + 1) /\ k + 1 \in 1..(n + 1)
      OBVIOUS
    <2>2. index[k] = k + w /\ index[k + 1] = k + 1 + x
      BY <1>1, <2>1
    <2>3. w \in Nat /\ x = w + (IF IsWide(K[k]) THEN 1 ELSE 0)
      BY <1>2, <1>3
    <2> HIDE DEF w, x
    <2> QED
      BY <2>2, <2>3 DEF Slots
  <1> DEFINE T == {d \in Nat : \A j \in 1..(n + 1) :
                       j + d + 1 <= n + 1 => index[j] < index[j + d + 1]}
  <1>8. ASSUME NEW j \in 1..n PROVE index[j] < index[j + 1]
    <2>1. index[j + 1] = index[j] + Slots(K[j]) /\ index[j] \in Nat
      BY <1>6, <1>7
    <2>2. Slots(K[j]) \in {1, 2}
      BY DEF Slots
    <2> QED
      BY <2>1, <2>2
  <1>9. 0 \in T
    BY <1>8
  <1>10. ASSUME NEW d \in Nat, d \in T PROVE d + 1 \in T
    <2> SUFFICES ASSUME NEW j \in 1..(n + 1), j + (d + 1) + 1 <= n + 1
                 PROVE  index[j] < index[j + (d + 1) + 1]
      OBVIOUS
    <2> DEFINE i == j + d + 1
    <2>1. i \in 1..n /\ i <= n + 1 /\ i + 1 = j + (d + 1) + 1 /\ i + 1 \in 1..(n + 1)
      OBVIOUS
    <2>2. index[j] < index[i]
      BY <1>10, <2>1
    <2> HIDE DEF i
    <2>3. index[i] < index[i + 1]
      BY <1>8, <2>1
    <2>4. index[j] \in Nat /\ index[i] \in Nat /\ index[i + 1] \in Nat
      BY <1>6, <2>1
    <2>5. index[j] < index[i + 1]
      <3> DEFINE x == index[j]
                 y == index[i]
                 z == index[i + 1]
      <3>1. x \in Nat /\ y \in Nat /\ z \in Nat /\ x < y /\ y < z
        BY <2>2, <2>3, <2>4
      <3> HIDE DEF x, y, z
      <3>2. x < z
        BY <3>1
      <3> QED
        BY <3>2 DEF x, z
    <2> QED
      BY <2>1, <2>5
  <1> HIDE DEF T
  <1>11. Nat \subseteq T
    BY <1>9, <1>10, SetInduction
  <1>12. ASSUME NEW j \in 1..(n + 1), NEW k \in 1..(n + 1), j < k PROVE index[j] < index[k]
    <2> DEFINE d == k - j - 1
    <2>1. d \in Nat /\ j + d + 1 = k /\ j + d + 1 <= n + 1
      BY <1>12
    <2> HIDE DEF d
    <2>2. d \in T
      BY <1>11, <2>1
    <2> QED
      BY <2>1, <2>2 DEF T
  <1> QED
    BY <1>4, <1>5, <1>6, <1>7, <1>12 DEF AreIndices, index

---------------------------------------------------------------------------
\* Two bytes of a number.
LEMMA TwoBytes ==
    ASSUME NEW n \in Nat
    PROVE  B2(n) \in Seq(Nat) /\ Len(B2(n)) = 2
  <1>1. n \div 256 \in Nat /\ n % 256 \in Nat
    BY SMT
  <1> QED
    BY <1>1 DEF B2

\* The parts of a constant's bytes.
HasParts(constant, index, written) ==
    /\ written \in Seq(Nat) /\ constant.tag \in Nat /\ Stands(written, 0, <<constant.tag>>)
    /\ constant.tag = 7 =>
          Len(written) = 3 /\ Stands(written, 1, B2(index[constant.text]))
    /\ constant.tag = 1 =>
          /\ EncodeText(constant.text) \in Seq(Nat)
          /\ Len(written) = 3 + Len(EncodeText(constant.text))
          /\ Stands(written, 1, B2(Len(EncodeText(constant.text))))
          /\ Stands(written, 3, EncodeText(constant.text))
    /\ constant.tag \in DOMAIN Payload => Len(written) = 1 + Payload[constant.tag]

\* The tags of the constants that are not for names.
LEMMA PayloadIs ==
    /\ DOMAIN Payload = {3, 4, 5, 6, 8, 9, 10, 11, 12, 15, 16, 17, 18, 19, 20}
    /\ \A tag \in DOMAIN Payload : Payload[tag] = Size(tag) /\ Size(tag) \in Nat
    /\ Size(7) = 2 /\ 7 \notin DOMAIN Payload /\ 1 \notin DOMAIN Payload
  <1>1. DOMAIN Payload = {3, 4, 5, 6, 8, 9, 10, 11, 12, 15, 16, 17, 18, 19, 20}
    BY DEF Payload
  <1>2. \A tag \in DOMAIN Payload : Payload[tag] = Size(tag) /\ Size(tag) \in Nat
    BY DEF Payload, Size
  <1> QED
    BY <1>1, <1>2 DEF Size

\* What a constant's bytes are made of.
LEMMA ConstantParts ==
    ASSUME NEW constant, NEW n, IsConstant(constant, n), NEW index,
           constant.tag = 7 => index[constant.text] \in Nat
    PROVE  HasParts(constant, index, ConstantBytes(constant, index))
  <1> DEFINE tag == constant.tag
             one == <<tag>>
             rest == CASE tag = 7 -> B2(index[constant.text])
                       [] tag = 1 -> LET text == EncodeText(constant.text)
                                     IN  B2(Len(text)) \o text
                       [] OTHER -> [j \in 1..Payload[tag] |-> 1]
             written == one \o rest
  <1>1. ConstantBytes(constant, index) = written
    BY DEF ConstantBytes
  <1>2. tag \in Nat /\ one \in Seq(Nat) /\ Len(one) = 1
    <2>1. tag \in {1, 7} \cup DOMAIN Payload
      BY DEF IsConstant
    <2>2. tag \in Nat
      BY <2>1, PayloadIs
    <2> QED
      BY <2>2
  <1>3. ASSUME rest \in Seq(Nat)
        PROVE  /\ written \in Seq(Nat) /\ Len(written) = 1 + Len(rest)
               /\ Stands(written, 0, one) /\ Stands(written, 1, rest)
    <2> HIDE DEF rest, one
    <2>1. /\ one \o rest \in Seq(Nat) /\ Len(one \o rest) = Len(one) + Len(rest)
          /\ Stands(one \o rest, 0, one) /\ Stands(one \o rest, Len(one), rest)
      BY <1>2, <1>3, TwoStand
    <2> QED
      BY <1>2, <2>1
  <1>4. CASE tag = 7
    <2>1. rest = B2(index[constant.text])
      BY <1>4
    <2>2. rest \in Seq(Nat) /\ Len(rest) = 2
      BY <1>4, <2>1, TwoBytes
    <2>3. tag # 1 /\ tag \notin DOMAIN Payload
      BY <1>4, PayloadIs
    <2> HIDE DEF rest
    <2> QED
      BY <1>1, <1>2, <1>3, <1>4, <2>1, <2>2, <2>3 DEF HasParts
  <1>5. CASE tag = 1
    <2> DEFINE text == EncodeText(constant.text)
               two == B2(Len(text))
    <2>1. IsString(constant.text)
      BY <1>5, PayloadIs DEF IsConstant
    <2>2. text \in Seq(Nat)
      BY <2>1, DecodedIsEncoded
    <2>3. two \in Seq(Nat) /\ Len(two) = 2
      BY <2>2, TwoBytes, LenProperties
    <2>4. rest = two \o text
      BY <1>5
    <2>5. tag # 7 /\ tag \notin DOMAIN Payload
      BY <1>5, PayloadIs
    <2> HIDE DEF text, two, rest
    <2>6. /\ two \o text \in Seq(Nat) /\ Len(two \o text) = 2 + Len(text)
          /\ Stands(two \o text, 0, two) /\ Stands(two \o text, 2, text)
      BY <2>2, <2>3, TwoStand
    <2>7. /\ written \in Seq(Nat) /\ Len(written) = 1 + Len(rest)
          /\ Stands(written, 0, one) /\ Stands(written, 1, rest)
      BY <1>3, <2>4, <2>6
    <2> HIDE DEF written
    <2>8. Len(text) \in Nat
      BY <2>2, LenProperties
    <2>9. Len(written) = 3 + Len(text)
      BY <2>4, <2>6, <2>7, <2>8
    <2>10. Stands(written, 1 + 0, two) /\ Stands(written, 1 + 2, text)
      <3>1. 1 \in Nat /\ 0 \in Nat /\ 2 \in Nat /\ rest \in Seq(Nat)
        BY <2>4, <2>6
      <3>2. Stands(rest, 0, two) /\ Stands(rest, 2, text)
        BY <2>4, <2>6
      <3> QED
        BY <2>2, <2>3, <2>7, <3>1, <3>2, StandsInside
    <2> QED
      BY <1>1, <1>2, <1>5, <2>2, <2>5, <2>7, <2>9, <2>10 DEF HasParts, text, two
  <1>6. CASE tag \in DOMAIN Payload
    <2>1. tag # 1 /\ tag # 7 /\ Payload[tag] \in Nat
      BY <1>6, PayloadIs
    <2> DEFINE p == Payload[tag]
    <2>2. rest = [j \in 1..p |-> 1]
      BY <2>1
    <2> HIDE DEF p
    <2>3. rest \in Seq(Nat) /\ Len(rest) = p
      <3>1. p \in Nat
        BY <2>1 DEF p
      <3>2. /\ DOMAIN rest = 1..p /\ rest = [j \in DOMAIN rest |-> rest[j]]
            /\ \A j \in 1..p : rest[j] \in Nat
        <4> DEFINE ones == [j \in 1..p |-> 1]
        <4>1. DOMAIN ones = 1..p /\ \A j \in 1..p : ones[j] \in Nat
          OBVIOUS
        <4>2. ones = [j \in DOMAIN ones |-> ones[j]]
          OBVIOUS
        <4>3. rest = ones
          BY <2>2
        <4> HIDE DEF ones
        <4> QED
          BY <4>1, <4>2, <4>3
      <3> HIDE DEF rest
      <3> QED
        BY <3>1, <3>2, ListOf
    <2> HIDE DEF rest
    <2> QED
      BY <1>1, <1>2, <1>3, <1>6, <2>1, <2>3 DEF HasParts, p
  <1> QED
    BY <1>4, <1>5, <1>6 DEF IsConstant

\* The parts of a member's bytes.
IsMemberAt(file, at, m, name, descriptor) ==
    /\ Stands(file, at, B2(m.access_flags)) /\ Stands(file, at + 2, B2(name))
    /\ Stands(file, at + 4, B2(descriptor)) /\ Stands(file, at + 6, B2(1))
    /\ Stands(file, at + 10, <<0, 0, 0, 1, 9>>)

\* What a member's bytes are made of.
LEMMA MemberParts ==
    ASSUME NEW m, m.access_flags \in Nat, NEW name \in Nat, NEW descriptor \in Nat
    PROVE  LET written == MemberBytes(m, name, descriptor)
           IN  /\ written \in Seq(Nat) /\ Len(written) = 15
               /\ IsMemberAt(written, 0, m, name, descriptor)
  <1> DEFINE a == B2(m.access_flags)
             b == B2(name)
             d == B2(descriptor)
             one == B2(1)
             e == <<0, 0, 0, 1, 9>>
             pieces == <<a, b, d, one, one, e>>
             written == FlattenSeq(pieces)
  <1>1. /\ a \in Seq(Nat) /\ b \in Seq(Nat) /\ d \in Seq(Nat) /\ one \in Seq(Nat)
        /\ Len(a) = 2 /\ Len(b) = 2 /\ Len(d) = 2 /\ Len(one) = 2
    BY TwoBytes
  <1>2. e \in Seq(Nat) /\ Len(e) = 5
    OBVIOUS
  <1>3. MemberBytes(m, name, descriptor) = written
    BY DEF MemberBytes
  <1> HIDE DEF a, b, d, one, e
  <1>4. /\ pieces \in Seq(Seq(Nat)) /\ Len(pieces) = 6 /\ pieces[1] = a /\ pieces[2] = b
        /\ pieces[3] = d /\ pieces[4] = one /\ pieces[5] = one /\ pieces[6] = e
    BY <1>1, <1>2
  <1> HIDE DEF pieces
  <1>5. PICK at : /\ AreOffsets(at, pieces) /\ at[6] = Len(written)
                  /\ \A k \in 1..6 : Stands(written, at[k - 1], pieces[k])
    BY <1>4, FlattenStands
  <1>6. written \in Seq(Nat)
    BY <1>4, FlattenStands
  <1>7. at[0] = 0 /\ \A k \in 1..6 : at[k] = at[k - 1] + Len(pieces[k])
    BY <1>4, <1>5 DEF AreOffsets
  <1>8. at[1] = 2 /\ at[2] = 4 /\ at[3] = 6 /\ at[4] = 8 /\ at[5] = 10 /\ at[6] = 15
    <2>1. at[1] = at[0] + 2 /\ at[2] = at[1] + 2 /\ at[3] = at[2] + 2 /\ at[4] = at[3] + 2
          /\ at[5] = at[4] + 2 /\ at[6] = at[5] + 5
      <3>1. 1 \in 1..6 /\ 2 \in 1..6 /\ 3 \in 1..6 /\ 4 \in 1..6 /\ 5 \in 1..6 /\ 6 \in 1..6
        OBVIOUS
      <3>2. 1 - 1 = 0 /\ 2 - 1 = 1 /\ 3 - 1 = 2 /\ 4 - 1 = 3 /\ 5 - 1 = 4 /\ 6 - 1 = 5
        OBVIOUS
      <3>3. at[1] = at[0] + Len(pieces[1]) /\ at[2] = at[1] + Len(pieces[2])
            /\ at[3] = at[2] + Len(pieces[3]) /\ at[4] = at[3] + Len(pieces[4])
            /\ at[5] = at[4] + Len(pieces[5]) /\ at[6] = at[5] + Len(pieces[6])
        BY <1>7, <3>1, <3>2
      <3> QED
        BY <1>1, <1>2, <1>4, <3>3
    <2> QED
      BY <1>7, <2>1
  <1>9. /\ Stands(written, at[0], a) /\ Stands(written, at[1], b) /\ Stands(written, at[2], d)
        /\ Stands(written, at[3], one) /\ Stands(written, at[5], e)
    BY <1>4, <1>5
  <1>10. /\ Stands(written, 0, a) /\ Stands(written, 2, b) /\ Stands(written, 4, d)
         /\ Stands(written, 6, one) /\ Stands(written, 10, e)
    BY <1>7, <1>8, <1>9
  <1>11. Stands(written, 0 + 2, b) /\ Stands(written, 0 + 4, d) /\ Stands(written, 0 + 6, one)
         /\ Stands(written, 0 + 10, e)
    BY <1>10
  <1> HIDE DEF written
  <1> QED
    BY <1>3, <1>5, <1>6, <1>8, <1>10, <1>11 DEF IsMemberAt, a, b, d, one, e

\* A member stands where its bytes do.
LEMMA MemberInside ==
    ASSUME NEW m, m.access_flags \in Nat, NEW name \in Nat, NEW descriptor \in Nat,
           NEW file \in Seq(Nat), NEW at \in Nat,
           Stands(file, at, MemberBytes(m, name, descriptor))
    PROVE  IsMemberAt(file, at, m, name, descriptor)
  <1> DEFINE written == MemberBytes(m, name, descriptor)
             a == B2(m.access_flags)
             b == B2(name)
             d == B2(descriptor)
             one == B2(1)
             e == <<0, 0, 0, 1, 9>>
  <1>1. written \in Seq(Nat) /\ IsMemberAt(written, 0, m, name, descriptor)
    BY MemberParts
  <1>2. /\ Stands(written, 0, a) /\ Stands(written, 2, b) /\ Stands(written, 4, d)
        /\ Stands(written, 6, one) /\ Stands(written, 10, e)
    <2>1. 0 + 2 = 2 /\ 0 + 4 = 4 /\ 0 + 6 = 6 /\ 0 + 10 = 10
      OBVIOUS
    <2> QED
      BY <1>1, <2>1 DEF IsMemberAt
  <1>3. a \in Seq(Nat) /\ b \in Seq(Nat) /\ d \in Seq(Nat) /\ one \in Seq(Nat) /\ e \in Seq(Nat)
    BY TwoBytes
  <1>4. Stands(file, at, written)
    OBVIOUS
  <1> HIDE DEF written, a, b, d, one, e
  <1>5. Stands(file, at + 0, a)
    BY <1>1, <1>2, <1>3, <1>4, StandsInside
  <1>6. Stands(file, at + 2, b)
    BY <1>1, <1>2, <1>3, <1>4, StandsInside
  <1>7. Stands(file, at + 4, d)
    BY <1>1, <1>2, <1>3, <1>4, StandsInside
  <1>8. Stands(file, at + 6, one)
    BY <1>1, <1>2, <1>3, <1>4, StandsInside
  <1>9. Stands(file, at + 10, e)
    BY <1>1, <1>2, <1>3, <1>4, StandsInside
  <1>10. at + 0 = at
    OBVIOUS
  <1> QED
    BY <1>5, <1>6, <1>7, <1>8, <1>9, <1>10 DEF IsMemberAt, a, b, d, one, e

---------------------------------------------------------------------------
\* Where the lists of a class file begin, behind its constants.
InterfacesAt(names) == names + 8
FieldsAt(c, names) == names + 10 + 2 * Len(c.interfaces)
MethodsAt(c, names) == FieldsAt(c, names) + 15 * Len(c.fields) + 2
AttributesAt(c, names) == MethodsAt(c, names) + 15 * Len(c.methods)

\* Where the name of a member and its descriptor are in the pool.
NameIndex(index, c, p, k) == index[2 * Len(ClassTexts(c)) + p + (2 * k - 1)]
DescriptorIndex(index, c, p, k) == index[2 * Len(ClassTexts(c)) + p + 2 * k]

\* The constants of a file stand one behind the other.
HoldsConstants(file, at, K, index) ==
    /\ at \in [0..Len(K) -> Nat] /\ at[0] = 10
    /\ \A k \in 1..Len(K) : /\ at[k] = at[k - 1] + Len(ConstantBytes(K[k], index))
                            /\ Stands(file, at[k - 1], ConstantBytes(K[k], index))

\* Behind them, the class itself and its members.
HoldsClass(file, names, index, c, p) ==
    /\ Stands(file, names, B2(c.access_flags)) /\ Stands(file, names + 2, B2(1))
    /\ Stands(file, names + 4, B2(2)) /\ Stands(file, names + 6, B2(Len(c.interfaces)))
    /\ \A k \in 1..Len(c.interfaces) :
          Stands(file, InterfacesAt(names) + 2 * (k - 1), B2(2 + k))
    /\ Stands(file, FieldsAt(c, names) - 2, B2(Len(c.fields)))
    /\ \A k \in 1..Len(c.fields) :
          IsMemberAt(file, FieldsAt(c, names) + 15 * (k - 1), c.fields[k],
                     NameIndex(index, c, p, k), DescriptorIndex(index, c, p, k))
    /\ Stands(file, MethodsAt(c, names) - 2, B2(Len(c.methods)))
    /\ \A k \in 1..Len(c.methods) :
          IsMemberAt(file, MethodsAt(c, names) + 15 * (k - 1), c.methods[k],
                     NameIndex(index, c, p, Len(c.fields) + k),
                     DescriptorIndex(index, c, p, Len(c.fields) + k))
    /\ Stands(file, AttributesAt(c, names), B2(0)) /\ Len(file) = AttributesAt(c, names) + 2

IsFile(file, at, K, index, c, p) ==
    /\ file \in Seq(Nat) /\ Stands(file, 0, MAGIC) /\ Stands(file, 8, B2(index[Len(K) + 1]))
    /\ HoldsConstants(file, at, K, index) /\ HoldsClass(file, at[Len(K)], index, c, p)

ConstantPieces(K, index) == [k \in DOMAIN K |-> ConstantBytes(K[k], index)]
InterfacePieces(c) == [k \in DOMAIN c.interfaces |-> B2(2 + k)]
MemberPieces(members, index, c, p, before) ==
    [k \in DOMAIN members |->
        MemberBytes(members[k], NameIndex(index, c, p, before + k),
                    DescriptorIndex(index, c, p, before + k))]

\* The bytes of the constants.
LEMMA ConstantsStand ==
    ASSUME NEW K, NEW index, AreIndices(index, K), Len(K) \in Nat, DOMAIN K = 1..Len(K),
           \A k \in 1..Len(K) : IsConstant(K[k], Len(K))
    PROVE  /\ ConstantPieces(K, index) \in Seq(Seq(Nat))
           /\ Len(ConstantPieces(K, index)) = Len(K)
           /\ \A k \in 1..Len(K) : /\ ConstantPieces(K, index)[k] = ConstantBytes(K[k], index)
                                   /\ HasParts(K[k], index, ConstantBytes(K[k], index))
  <1> DEFINE s == ConstantPieces(K, index)
             n == Len(K)
  <1>1. DOMAIN s = 1..n /\ s = [k \in DOMAIN s |-> s[k]]
    BY DEF ConstantPieces
  <1>2. \A k \in 1..n : s[k] = ConstantBytes(K[k], index)
    BY DEF ConstantPieces
  <1>3. ASSUME NEW k \in 1..n PROVE HasParts(K[k], index, ConstantBytes(K[k], index))
    <2>1. IsConstant(K[k], n)
      OBVIOUS
    <2>2. K[k].tag = 7 => index[K[k].text] \in Nat
      <3>1. K[k].tag = 7 => K[k].text \in 1..n
        BY <2>1, PayloadIs DEF IsConstant
      <3>2. 1..n \subseteq 1..(n + 1)
        OBVIOUS
      <3> QED
        BY <3>1, <3>2 DEF AreIndices
    <2> QED
      BY <2>1, <2>2, ConstantParts
  <1>4. \A k \in 1..n : s[k] \in Seq(Nat)
    BY <1>2, <1>3 DEF HasParts
  <1> HIDE DEF s
  <1>5. s \in Seq(Seq(Nat)) /\ Len(s) = n
    BY <1>1, <1>4, ListOf
  <1> QED
    BY <1>2, <1>3, <1>5 DEF s

\* The bytes of the names of the interfaces.
LEMMA InterfacesStand ==
    ASSUME NEW c \in ClassRecord
    PROVE  LET file == FlattenSeq(InterfacePieces(c))
           IN  /\ file \in Seq(Nat) /\ Len(file) = 2 * Len(c.interfaces)
               /\ \A k \in 1..Len(c.interfaces) : Stands(file, 2 * (k - 1), B2(2 + k))
  <1> DEFINE s == InterfacePieces(c)
             n == Len(c.interfaces)
  <1>1. n \in Nat /\ DOMAIN c.interfaces = 1..n
    BY LenProperties DEF ClassRecord
  <1>2. DOMAIN s = 1..n /\ s = [k \in DOMAIN s |-> s[k]] /\ \A k \in 1..n : s[k] = B2(2 + k)
    BY <1>1 DEF InterfacePieces
  <1>3. \A k \in 1..n : s[k] \in Seq(Nat) /\ Len(s[k]) = 2
    BY <1>2, TwoBytes
  <1> HIDE DEF s, n
  <1>4. s \in Seq(Seq(Nat)) /\ Len(s) = n
    BY <1>1, <1>2, <1>3, ListOf
  <1>5. Uniform(s, 2)
    BY <1>3, <1>4 DEF Uniform
  <1>6. /\ FlattenSeq(s) \in Seq(Nat) /\ Len(FlattenSeq(s)) = 2 * Len(s)
        /\ \A k \in 1..Len(s) : Stands(FlattenSeq(s), 2 * (k - 1), s[k])
    BY <1>4, <1>5, UniformStand
  <1> QED
    BY <1>2, <1>4, <1>6 DEF s, n

\* The bytes of members.
LEMMA MembersStand ==
    ASSUME NEW members \in Seq(MemberRecord), NEW index, NEW c, NEW p, NEW before,
           \A k \in 1..Len(members) : /\ NameIndex(index, c, p, before + k) \in Nat
                                      /\ DescriptorIndex(index, c, p, before + k) \in Nat
    PROVE  LET file == FlattenSeq(MemberPieces(members, index, c, p, before))
           IN  /\ file \in Seq(Nat) /\ Len(file) = 15 * Len(members)
               /\ \A k \in 1..Len(members) :
                     Stands(file, 15 * (k - 1),
                            MemberBytes(members[k], NameIndex(index, c, p, before + k),
                                        DescriptorIndex(index, c, p, before + k)))
  <1> DEFINE s == MemberPieces(members, index, c, p, before)
             n == Len(members)
             Written(k) == MemberBytes(members[k], NameIndex(index, c, p, before + k),
                                       DescriptorIndex(index, c, p, before + k))
  <1>1. n \in Nat /\ DOMAIN members = 1..n
    BY LenProperties
  <1>2. DOMAIN s = 1..n /\ s = [k \in DOMAIN s |-> s[k]] /\ \A k \in 1..n : s[k] = Written(k)
    BY <1>1 DEF MemberPieces
  <1>3. ASSUME NEW k \in 1..n PROVE Written(k) \in Seq(Nat) /\ Len(Written(k)) = 15
    <2>1. members[k] \in MemberRecord
      BY ElementOfSeq
    <2>2. members[k].access_flags \in Nat
      BY <2>1 DEF MemberRecord
    <2> QED
      BY <2>2, MemberParts
  <1>4. \A k \in 1..n : s[k] \in Seq(Nat) /\ Len(s[k]) = 15
    BY <1>2, <1>3
  <1> HIDE DEF s, n, Written
  <1>5. s \in Seq(Seq(Nat)) /\ Len(s) = n
    BY <1>1, <1>2, <1>4, ListOf
  <1>6. Uniform(s, 15)
    BY <1>4, <1>5 DEF Uniform
  <1>7. /\ FlattenSeq(s) \in Seq(Nat) /\ Len(FlattenSeq(s)) = 15 * Len(s)
        /\ \A k \in 1..Len(s) : Stands(FlattenSeq(s), 15 * (k - 1), s[k])
    BY <1>5, <1>6, UniformStand
  <1> QED
    BY <1>2, <1>5, <1>7 DEF s, n, Written

---------------------------------------------------------------------------
\* The indices of the texts of members are numbers.
LEMMA TextIndices ==
    ASSUME NEW K, NEW c, NEW padding, NEW string, AreConstants(K, c, padding, string),
           NEW index, AreIndices(index, K), NEW k \in 1..Len(Members(c))
    PROVE  /\ NameIndex(index, c, Len(padding), k) \in Nat
           /\ DescriptorIndex(index, c, Len(padding), k) \in Nat
  <1> DEFINE n == Len(ClassTexts(c))
             p == Len(padding)
             m == Len(Members(c))
  <1>1. n \in Nat /\ p \in Nat /\ m \in Nat /\ Len(K) = 2 * n + p + 2 * m + 1
    BY DEF AreConstants
  <1>2. /\ NameIndex(index, c, Len(padding), k) = index[2 * n + p + (2 * k - 1)]
        /\ DescriptorIndex(index, c, Len(padding), k) = index[2 * n + p + 2 * k]
    BY DEF NameIndex, DescriptorIndex
  <1>3. k \in 1..m
    OBVIOUS
  <1> HIDE DEF n, p, m
  <1>4. 2 * n + p + (2 * k - 1) \in 1..(Len(K) + 1) /\ 2 * n + p + 2 * k \in 1..(Len(K) + 1)
    BY <1>1, <1>3
  <1> QED
    BY <1>2, <1>4 DEF AreIndices

\* A class file, piece by piece.
LEMMA BytesAre ==
    ASSUME NEW c \in ClassRecord, NEW padding, NEW string
    PROVE  LET K == Constants(c, padding, string)
               index == Indices(K)
               p == Len(padding)
           IN  ClassBytes(c, padding, string) =
                   FlattenSeq(<<MAGIC, <<0, 0, 0, 65>>, B2(index[Len(K) + 1]),
                                FlattenSeq(ConstantPieces(K, index)),
                                B2(c.access_flags), B2(1), B2(2), B2(Len(c.interfaces)),
                                FlattenSeq(InterfacePieces(c)), B2(Len(c.fields)),
                                FlattenSeq(MemberPieces(c.fields, index, c, p, 0)),
                                B2(Len(c.methods)),
                                FlattenSeq(MemberPieces(c.methods, index, c, p, Len(c.fields))),
                                B2(0)>>)
  <1> DEFINE K == Constants(c, padding, string)
             index == Indices(K)
             p == Len(padding)
             classes == Len(ClassTexts(c))
             text(k) == index[2 * classes + p + k]
             member(k) == MemberBytes(Members(c)[k], text(2 * k - 1), text(2 * k))
             fields == [k \in DOMAIN c.fields |-> member(k)]
             methods == [k \in DOMAIN c.methods |-> member(Len(c.fields) + k)]
  <1>1. /\ DOMAIN c.fields = 1..Len(c.fields) /\ DOMAIN c.methods = 1..Len(c.methods)
        /\ Len(c.fields) \in Nat
        /\ \A k \in 1..Len(c.fields) : Members(c)[k] = c.fields[k]
        /\ \A k \in 1..Len(c.methods) : Members(c)[Len(c.fields) + k] = c.methods[k]
    <2>1. c.fields \in Seq(MemberRecord) /\ c.methods \in Seq(MemberRecord)
      BY DEF ClassRecord
    <2> QED
      BY <2>1, LenProperties, ClassParts
  <1> HIDE DEF K, index, classes, p
  <1>2. fields = MemberPieces(c.fields, index, c, p, 0)
    <2>1. \A k \in 1..Len(c.fields) :
              member(k) = MemberBytes(c.fields[k], NameIndex(index, c, p, 0 + k),
                                      DescriptorIndex(index, c, p, 0 + k))
      <3> TAKE k \in 1..Len(c.fields)
      <3>1. 0 + k = k
        BY <1>1
      <3> QED
        BY <1>1, <3>1 DEF NameIndex, DescriptorIndex, classes
    <2> HIDE DEF member
    <2> QED
      BY <1>1, <2>1 DEF MemberPieces
  <1>3. methods = MemberPieces(c.methods, index, c, p, Len(c.fields))
    <2>1. \A k \in 1..Len(c.methods) :
              member(Len(c.fields) + k) =
                  MemberBytes(c.methods[k], NameIndex(index, c, p, Len(c.fields) + k),
                              DescriptorIndex(index, c, p, Len(c.fields) + k))
      BY <1>1 DEF NameIndex, DescriptorIndex, classes
    <2> HIDE DEF member
    <2> QED
      BY <1>1, <2>1 DEF MemberPieces
  <1>4. ClassBytes(c, padding, string) =
            FlattenSeq(<<MAGIC, <<0, 0, 0, 65>>, B2(index[Len(K) + 1]),
                         FlattenSeq(ConstantPieces(K, index)),
                         B2(c.access_flags), B2(1), B2(2), B2(Len(c.interfaces)),
                         FlattenSeq(InterfacePieces(c)), B2(Len(c.fields)),
                         FlattenSeq(fields), B2(Len(c.methods)), FlattenSeq(methods), B2(0)>>)
    BY DEF ClassBytes, ConstantPieces, InterfacePieces, K, index, classes, p
  <1> HIDE DEF fields, methods
  <1> QED
    BY <1>2, <1>3, <1>4 DEF K, index, p

\* A class file is what the compiler lays out.
LEMMA FileIs ==
    ASSUME NEW c \in ClassRecord, NEW build, IsBuild(build)
    PROVE  LET K == Constants(c, build.padding, build.string)
           IN  \E at : IsFile(ClassBytes(c, build.padding, build.string), at, K, Indices(K), c,
                              Len(build.padding))
  <1> DEFINE padding == build.padding
             string == build.string
             K == Constants(c, padding, string)
             index == Indices(K)
             p == Len(padding)
             magic == MAGIC
             version == <<0, 0, 0, 65>>
             size == B2(index[Len(K) + 1])
             constants == FlattenSeq(ConstantPieces(K, index))
             flags == B2(c.access_flags)
             one == B2(1)
             two == B2(2)
             faces == B2(Len(c.interfaces))
             interfaces == FlattenSeq(InterfacePieces(c))
             fieldCount == B2(Len(c.fields))
             fields == FlattenSeq(MemberPieces(c.fields, index, c, p, 0))
             methodCount == B2(Len(c.methods))
             methods == FlattenSeq(MemberPieces(c.methods, index, c, p, Len(c.fields)))
             none == B2(0)
             pieces == <<magic, version, size, constants, flags, one, two, faces, interfaces,
                         fieldCount, fields, methodCount, methods, none>>
             file == FlattenSeq(pieces)
  <1>1. AreConstants(K, c, padding, string)
    BY ConstantsAre
  <1>2. /\ Len(K) \in Nat /\ DOMAIN K = 1..Len(K)
        /\ \A k \in 1..Len(K) : IsConstant(K[k], Len(K))
    <2>1. DOMAIN K = 1..Len(K) /\ \A k \in 1..Len(K) : IsConstant(K[k], Len(K))
      BY <1>1 DEF AreConstants
    <2>2. Len(K) \in Nat
      <3> DEFINE n == Len(ClassTexts(c))
                 m == Len(Members(c))
      <3>1. n \in Nat /\ p \in Nat /\ m \in Nat /\ Len(K) = 2 * n + p + 2 * m + 1
        BY <1>1 DEF AreConstants
      <3> HIDE DEF n, p, m
      <3> QED
        BY <3>1
    <2> QED
      BY <2>1, <2>2
  <1> HIDE DEF K
  <1>3. AreIndices(index, K)
    BY <1>2, IndicesAre
  <1> HIDE DEF index
  <1>4. ClassBytes(c, padding, string) = file
    BY BytesAre DEF K, index
  <1>5. /\ Len(c.interfaces) \in Nat /\ Len(c.fields) \in Nat /\ Len(c.methods) \in Nat
        /\ Len(Members(c)) = Len(c.fields) + Len(c.methods)
        /\ c.fields \in Seq(MemberRecord) /\ c.methods \in Seq(MemberRecord)
        /\ c.access_flags \in Nat
    BY ClassParts DEF ClassRecord
  <1>6. magic \in Seq(Nat) /\ Len(magic) = 4 /\ version \in Seq(Nat) /\ Len(version) = 4
    BY DEF MAGIC
  <1>7. size \in Seq(Nat) /\ Len(size) = 2
    <2>1. Len(K) + 1 \in 1..(Len(K) + 1)
      BY <1>2
    <2> QED
      BY <1>3, <2>1, TwoBytes DEF AreIndices
  <1>8. /\ flags \in Seq(Nat) /\ Len(flags) = 2 /\ one \in Seq(Nat) /\ Len(one) = 2
        /\ two \in Seq(Nat) /\ Len(two) = 2 /\ faces \in Seq(Nat) /\ Len(faces) = 2
        /\ fieldCount \in Seq(Nat) /\ Len(fieldCount) = 2
        /\ methodCount \in Seq(Nat) /\ Len(methodCount) = 2 /\ none \in Seq(Nat) /\ Len(none) = 2
    BY <1>5, TwoBytes
  <1>9. /\ ConstantPieces(K, index) \in Seq(Seq(Nat))
        /\ Len(ConstantPieces(K, index)) = Len(K)
        /\ \A k \in 1..Len(K) : /\ ConstantPieces(K, index)[k] = ConstantBytes(K[k], index)
                                /\ HasParts(K[k], index, ConstantBytes(K[k], index))
    BY <1>2, <1>3, ConstantsStand
  <1>10. PICK offset : /\ AreOffsets(offset, ConstantPieces(K, index))
                       /\ offset[Len(K)] = Len(constants)
                       /\ \A k \in 1..Len(K) :
                             Stands(constants, offset[k - 1], ConstantBytes(K[k], index))
    BY <1>9, FlattenStands
  <1>11. constants \in Seq(Nat) /\ Len(constants) \in Nat
    <2>1. constants \in Seq(Nat)
      BY <1>9, FlattenStands
    <2> QED
      BY <2>1, LenProperties
  <1>12. /\ interfaces \in Seq(Nat) /\ Len(interfaces) = 2 * Len(c.interfaces)
         /\ \A k \in 1..Len(c.interfaces) : Stands(interfaces, 2 * (k - 1), B2(2 + k))
    BY InterfacesStand
  <1> DEFINE Field(k) == MemberBytes(c.fields[k], NameIndex(index, c, p, k),
                                     DescriptorIndex(index, c, p, k))
             before == Len(c.fields)
             Method(k) == MemberBytes(c.methods[k], NameIndex(index, c, p, before + k),
                                      DescriptorIndex(index, c, p, before + k))
  <1>13. \A k \in 1..Len(Members(c)) :
            NameIndex(index, c, p, k) \in Nat /\ DescriptorIndex(index, c, p, k) \in Nat
    BY <1>1, <1>3, TextIndices
  <1>14. /\ \A k \in 1..Len(c.fields) : k \in 1..Len(Members(c)) /\ 0 + k = k
         /\ \A k \in 1..Len(c.methods) : before + k \in 1..Len(Members(c))
    <2>1. \A x, y \in Nat : /\ \A k \in 1..x : k \in 1..(x + y) /\ 0 + k = k
                            /\ \A k \in 1..y : x + k \in 1..(x + y)
      OBVIOUS
    <2> QED
      BY <1>5, <2>1
  <1>15. /\ fields \in Seq(Nat) /\ Len(fields) = 15 * Len(c.fields)
         /\ \A k \in 1..Len(c.fields) : Stands(fields, 15 * (k - 1), Field(k))
    <2>1. \A k \in 1..Len(c.fields) : /\ NameIndex(index, c, p, 0 + k) \in Nat
                                      /\ DescriptorIndex(index, c, p, 0 + k) \in Nat
      BY <1>13, <1>14
    <2>2. /\ fields \in Seq(Nat) /\ Len(fields) = 15 * Len(c.fields)
          /\ \A k \in 1..Len(c.fields) :
                Stands(fields, 15 * (k - 1),
                       MemberBytes(c.fields[k], NameIndex(index, c, p, 0 + k),
                                   DescriptorIndex(index, c, p, 0 + k)))
      BY <1>5, <2>1, MembersStand
    <2> QED
      BY <1>14, <2>2
  <1>16. /\ methods \in Seq(Nat) /\ Len(methods) = 15 * Len(c.methods)
         /\ \A k \in 1..Len(c.methods) : Stands(methods, 15 * (k - 1), Method(k))
    <2>1. \A k \in 1..Len(c.methods) : /\ NameIndex(index, c, p, before + k) \in Nat
                                       /\ DescriptorIndex(index, c, p, before + k) \in Nat
      BY <1>13, <1>14
    <2> QED
      BY <1>5, <2>1, MembersStand
  <1> HIDE DEF magic, version, size, constants, flags, one, two, faces, interfaces, fieldCount,
               fields, methodCount, methods, none, Field, Method
  <1>17. pieces \in Seq(Seq(Nat)) /\ Len(pieces) = 14
    BY <1>6, <1>7, <1>8, <1>11, <1>12, <1>15, <1>16
  <1>18. /\ pieces[1] = magic /\ pieces[2] = version /\ pieces[3] = size /\ pieces[4] = constants
         /\ pieces[5] = flags /\ pieces[6] = one /\ pieces[7] = two /\ pieces[8] = faces
         /\ pieces[9] = interfaces /\ pieces[10] = fieldCount /\ pieces[11] = fields
         /\ pieces[12] = methodCount /\ pieces[13] = methods /\ pieces[14] = none
    OBVIOUS
  <1> HIDE DEF pieces
  <1>19. PICK a : /\ AreOffsets(a, pieces) /\ a[14] = Len(file)
                  /\ \A k \in 1..14 : Stands(file, a[k - 1], pieces[k])
    BY <1>17, FlattenStands
  <1>20. file \in Seq(Nat)
    BY <1>17, FlattenStands
  <1>21. a[0] = 0 /\ \A k \in 1..14 : a[k] = a[k - 1] + Len(pieces[k])
    BY <1>17, <1>19 DEF AreOffsets
  <1>22. /\ Stands(file, a[0], magic) /\ a[1] = a[0] + Len(magic)
         /\ Stands(file, a[1], version) /\ a[2] = a[1] + Len(version)
         /\ Stands(file, a[2], size) /\ a[3] = a[2] + Len(size)
         /\ Stands(file, a[3], constants) /\ a[4] = a[3] + Len(constants)
         /\ Stands(file, a[4], flags) /\ a[5] = a[4] + Len(flags)
         /\ Stands(file, a[5], one) /\ a[6] = a[5] + Len(one)
         /\ Stands(file, a[6], two) /\ a[7] = a[6] + Len(two)
         /\ Stands(file, a[7], faces) /\ a[8] = a[7] + Len(faces)
         /\ Stands(file, a[8], interfaces) /\ a[9] = a[8] + Len(interfaces)
         /\ Stands(file, a[9], fieldCount) /\ a[10] = a[9] + Len(fieldCount)
         /\ Stands(file, a[10], fields) /\ a[11] = a[10] + Len(fields)
         /\ Stands(file, a[11], methodCount) /\ a[12] = a[11] + Len(methodCount)
         /\ Stands(file, a[12], methods) /\ a[13] = a[12] + Len(methods)
         /\ Stands(file, a[13], none) /\ a[14] = a[13] + Len(none)
    <2> DEFINE Follows(i, j, piece) == Stands(file, a[i], piece) /\ a[j] = a[i] + Len(piece)
    <2>1. ASSUME NEW j \in 1..14 PROVE Follows(j - 1, j, pieces[j])
      BY <1>19, <1>21
    <2> HIDE DEF Follows
    <2>2. /\ Follows(1 - 1, 1, pieces[1]) /\ Follows(2 - 1, 2, pieces[2])
          /\ Follows(3 - 1, 3, pieces[3]) /\ Follows(4 - 1, 4, pieces[4])
          /\ Follows(5 - 1, 5, pieces[5]) /\ Follows(6 - 1, 6, pieces[6])
          /\ Follows(7 - 1, 7, pieces[7]) /\ Follows(8 - 1, 8, pieces[8])
          /\ Follows(9 - 1, 9, pieces[9]) /\ Follows(10 - 1, 10, pieces[10])
          /\ Follows(11 - 1, 11, pieces[11]) /\ Follows(12 - 1, 12, pieces[12])
          /\ Follows(13 - 1, 13, pieces[13]) /\ Follows(14 - 1, 14, pieces[14])
      BY <2>1
    <2>3. /\ 1 - 1 = 0 /\ 2 - 1 = 1 /\ 3 - 1 = 2 /\ 4 - 1 = 3 /\ 5 - 1 = 4 /\ 6 - 1 = 5
          /\ 7 - 1 = 6 /\ 8 - 1 = 7 /\ 9 - 1 = 8 /\ 10 - 1 = 9 /\ 11 - 1 = 10 /\ 12 - 1 = 11
          /\ 13 - 1 = 12 /\ 14 - 1 = 13
      OBVIOUS
    <2>4. /\ Follows(0, 1, magic) /\ Follows(1, 2, version) /\ Follows(2, 3, size)
          /\ Follows(3, 4, constants) /\ Follows(4, 5, flags) /\ Follows(5, 6, one)
          /\ Follows(6, 7, two) /\ Follows(7, 8, faces) /\ Follows(8, 9, interfaces)
          /\ Follows(9, 10, fieldCount) /\ Follows(10, 11, fields)
          /\ Follows(11, 12, methodCount) /\ Follows(12, 13, methods)
          /\ Follows(13, 14, none)
      BY <1>18, <2>2, <2>3
    <2> QED
      BY <2>4 DEF Follows
  <1> DEFINE names == 10 + Len(constants)
  <1>23. names \in Nat
    BY <1>11
  <1>24. /\ a[1] = 4 /\ a[2] = 8 /\ a[3] = 10 /\ a[4] = names /\ a[5] = names + 2
         /\ a[6] = names + 4 /\ a[7] = names + 6 /\ a[8] = names + 8
    BY <1>6, <1>7, <1>8, <1>11, <1>21, <1>22
  <1>25. /\ FieldsAt(c, names) = names + 10 + 2 * Len(c.interfaces)
         /\ MethodsAt(c, names) = FieldsAt(c, names) + 15 * Len(c.fields) + 2
         /\ AttributesAt(c, names) = MethodsAt(c, names) + 15 * Len(c.methods)
    BY DEF FieldsAt, MethodsAt, AttributesAt
  <1> HIDE DEF names
  <1>26. /\ a[9] = FieldsAt(c, names) - 2 /\ a[10] = FieldsAt(c, names)
         /\ FieldsAt(c, names) \in Nat /\ a[8] = InterfacesAt(names)
    <2> DEFINE i == Len(c.interfaces)
               f == FieldsAt(c, names)
    <2>1. i \in Nat /\ f = names + 10 + 2 * i
      BY <1>5, <1>25
    <2>2. a[9] = a[8] + 2 * i /\ a[10] = a[9] + 2
      BY <1>8, <1>12, <1>22
    <2> HIDE DEF i, f
    <2>3. a[9] = f - 2 /\ a[10] = f /\ f \in Nat
      BY <1>23, <1>24, <2>1, <2>2
    <2> QED
      BY <1>24, <2>3 DEF f, InterfacesAt
  <1>27. /\ a[11] = MethodsAt(c, names) - 2 /\ a[12] = MethodsAt(c, names)
         /\ MethodsAt(c, names) \in Nat
    <2> DEFINE i == Len(c.fields)
               f == FieldsAt(c, names)
               g == MethodsAt(c, names)
    <2>1. i \in Nat /\ g = f + 15 * i + 2 /\ f \in Nat
      BY <1>5, <1>25, <1>26
    <2>2. a[11] = a[10] + 15 * i /\ a[12] = a[11] + 2 /\ a[10] = f
      BY <1>8, <1>15, <1>22, <1>26
    <2> HIDE DEF i, f, g
    <2>3. a[11] = g - 2 /\ a[12] = g /\ g \in Nat
      BY <2>1, <2>2
    <2> QED
      BY <2>3 DEF g
  <1>28. a[13] = AttributesAt(c, names) /\ Len(file) = AttributesAt(c, names) + 2
    <2>1. a[13] = a[12] + 15 * Len(c.methods)
      BY <1>16, <1>22
    <2>2. a[14] = a[13] + 2
      BY <1>8, <1>22
    <2> QED
      BY <1>19, <1>25, <1>27, <2>1, <2>2
  <1> HIDE DEF file
  <1> DEFINE n == Len(K)
             at == [k \in 0..n |-> 10 + offset[k]]
  <1>29. /\ offset \in [0..n -> Nat] /\ offset[0] = 0
         /\ \A k \in 1..n : offset[k] = offset[k - 1] + Len(ConstantBytes(K[k], index))
    BY <1>9, <1>10 DEF AreOffsets
  <1>30. /\ at \in [0..n -> Nat] /\ at[0] = 10 /\ at[n] = names
         /\ \A k \in 1..n : /\ at[k] = 10 + offset[k] /\ at[k - 1] = 10 + offset[k - 1]
                            /\ offset[k - 1] \in Nat /\ offset[k] \in Nat
    <2>1. n \in Nat
      BY <1>2
    <2>2. \A k \in 1..n : k - 1 \in 0..n /\ k \in 0..n
      BY <2>1
    <2>3. 0 \in 0..n /\ n \in 0..n
      BY <2>1
    <2>4. \A k \in 0..n : offset[k] \in Nat
      BY <1>29
    <2> HIDE DEF n
    <2>5. \A k \in 0..n : at[k] = 10 + offset[k] /\ 10 + offset[k] \in Nat
      BY <2>4
    <2>6. at \in [0..n -> Nat]
      BY <2>5
    <2> HIDE DEF at
    <2>7. at[0] = 10
      BY <1>29, <2>3, <2>5
    <2>8. at[n] = names
      BY <1>10, <2>3, <2>5 DEF n, names
    <2> QED
      BY <2>2, <2>4, <2>5, <2>6, <2>7, <2>8
  <1> HIDE DEF at
  <1>31. HoldsConstants(file, at, K, index)
    <2>1. ASSUME NEW k \in 1..n
          PROVE  /\ at[k] = at[k - 1] + Len(ConstantBytes(K[k], index))
                 /\ Stands(file, at[k - 1], ConstantBytes(K[k], index))
      <3> DEFINE written == ConstantBytes(K[k], index)
                 x == offset[k - 1]
      <3>1. written \in Seq(Nat) /\ x \in Nat /\ Stands(constants, x, written)
        BY <1>9, <1>10, <1>30 DEF HasParts
      <3>2. Len(written) \in Nat
        BY <3>1, LenProperties
      <3>3. at[k] = 10 + (x + Len(written)) /\ at[k - 1] = 10 + x
        BY <1>29, <1>30
      <3> HIDE DEF written, x
      <3>4. Stands(file, 10, constants) /\ 10 \in Nat
        BY <1>22, <1>24
      <3>5. Stands(file, 10 + x, written)
        BY <1>11, <1>20, <3>1, <3>4, StandsInside
      <3>6. 10 + (x + Len(written)) = (10 + x) + Len(written)
        BY <3>1, <3>2
      <3>7. at[k] = at[k - 1] + Len(written) /\ Stands(file, at[k - 1], written)
        BY <3>3, <3>5, <3>6
      <3> QED
        BY <3>7 DEF written
    <2> QED
      BY <1>30, <2>1 DEF HoldsConstants
  <1>32. \A k \in 1..Len(c.interfaces) :
            Stands(file, InterfacesAt(names) + 2 * (k - 1), B2(2 + k))
    <2> TAKE k \in 1..Len(c.interfaces)
    <2> DEFINE x == 2 * (k - 1)
               y == B2(2 + k)
               z == InterfacesAt(names)
    <2>1. x \in Nat /\ y \in Seq(Nat) /\ Stands(interfaces, x, y)
      <3>1. k \in Nat /\ k >= 1
        BY <1>5
      <3> QED
        BY <1>12, <3>1, TwoBytes
    <2>2. Stands(file, z, interfaces) /\ z \in Nat
      BY <1>22, <1>23, <1>26 DEF InterfacesAt
    <2> HIDE DEF x, y, z
    <2>3. Stands(file, z + x, y)
      BY <1>12, <1>20, <2>1, <2>2, StandsInside
    <2> QED
      BY <2>3 DEF x, y, z
  <1>33. ASSUME NEW k \in 1..Len(c.fields)
         PROVE  IsMemberAt(file, FieldsAt(c, names) + 15 * (k - 1), c.fields[k],
                           NameIndex(index, c, p, k), DescriptorIndex(index, c, p, k))
    <2> DEFINE x == 15 * (k - 1)
               y == Field(k)
               z == FieldsAt(c, names)
               nm == NameIndex(index, c, p, k)
               ds == DescriptorIndex(index, c, p, k)
    <2>1. nm \in Nat /\ ds \in Nat /\ c.fields[k].access_flags \in Nat
      <3>1. c.fields[k] \in MemberRecord
        BY <1>5, ElementOfSeq
      <3> QED
        BY <1>13, <1>14, <3>1 DEF MemberRecord
    <2>2. y = MemberBytes(c.fields[k], nm, ds)
      BY DEF Field
    <2> HIDE DEF nm, ds
    <2>3. y \in Seq(Nat)
      BY <2>1, <2>2, MemberParts
    <2>4. x \in Nat /\ Stands(fields, x, y)
      <3>1. k \in Nat /\ k >= 1
        BY <1>5
      <3> QED
        BY <1>15, <3>1
    <2>5. Stands(file, z, fields) /\ z \in Nat
      BY <1>22, <1>26
    <2> HIDE DEF x, y, z
    <2>6. Stands(file, z + x, y)
      BY <1>15, <1>20, <2>3, <2>4, <2>5, StandsInside
    <2>7. z + x \in Nat
      BY <2>4, <2>5
    <2>8. IsMemberAt(file, z + x, c.fields[k], nm, ds)
      BY <1>20, <2>1, <2>2, <2>6, <2>7, MemberInside
    <2> QED
      BY <2>8 DEF x, z, nm, ds
  <1>34. ASSUME NEW k \in 1..Len(c.methods)
         PROVE  IsMemberAt(file, MethodsAt(c, names) + 15 * (k - 1), c.methods[k],
                           NameIndex(index, c, p, before + k),
                           DescriptorIndex(index, c, p, before + k))
    <2> DEFINE x == 15 * (k - 1)
               y == Method(k)
               z == MethodsAt(c, names)
               nm == NameIndex(index, c, p, before + k)
               ds == DescriptorIndex(index, c, p, before + k)
    <2>1. nm \in Nat /\ ds \in Nat /\ c.methods[k].access_flags \in Nat
      <3>1. c.methods[k] \in MemberRecord
        BY <1>5, ElementOfSeq
      <3> QED
        BY <1>13, <1>14, <3>1 DEF MemberRecord
    <2>2. y = MemberBytes(c.methods[k], nm, ds)
      BY DEF Method
    <2> HIDE DEF nm, ds
    <2>3. y \in Seq(Nat)
      BY <2>1, <2>2, MemberParts
    <2>4. x \in Nat /\ Stands(methods, x, y)
      <3>1. k \in Nat /\ k >= 1
        BY <1>5
      <3> QED
        BY <1>16, <3>1
    <2>5. Stands(file, z, methods) /\ z \in Nat
      BY <1>22, <1>27
    <2> HIDE DEF x, y, z
    <2>6. Stands(file, z + x, y)
      BY <1>16, <1>20, <2>3, <2>4, <2>5, StandsInside
    <2>7. z + x \in Nat
      BY <2>4, <2>5
    <2>8. IsMemberAt(file, z + x, c.methods[k], nm, ds)
      BY <1>20, <2>1, <2>2, <2>6, <2>7, MemberInside
    <2> QED
      BY <2>8 DEF x, z, nm, ds
  <1>35. /\ Stands(file, names, flags) /\ Stands(file, names + 2, one)
         /\ Stands(file, names + 4, two) /\ Stands(file, names + 6, faces)
         /\ Stands(file, FieldsAt(c, names) - 2, fieldCount)
         /\ Stands(file, MethodsAt(c, names) - 2, methodCount)
         /\ Stands(file, AttributesAt(c, names), none)
    BY <1>22, <1>24, <1>26, <1>27, <1>28
  <1>36. HoldsClass(file, names, index, c, p)
    BY <1>28, <1>32, <1>33, <1>34, <1>35
       DEF HoldsClass, flags, one, two, faces, fieldCount, methodCount, none
  <1>37. Stands(file, 0, MAGIC) /\ Stands(file, 8, B2(index[Len(K) + 1]))
    BY <1>21, <1>22, <1>24 DEF magic, size
  <1>38. IsFile(file, at, K, index, c, p)
    BY <1>20, <1>30, <1>31, <1>36, <1>37 DEF IsFile
  <1> QED
    BY <1>4, <1>38 DEF K, index, padding, string

(***************************************************************************)
(* What is read off a file at a place in it.                               *)
(***************************************************************************)

\* The bytes of a file that has them, one by one.
LEMMA BytesTyped ==
    ASSUME bytes \in Seq(Nat), NEW p \in Nat
    PROVE  Byte(p) \in Nat /\ U2(p) \in Nat /\ U4(p) \in Nat
  <1>1. ASSUME NEW i \in Nat PROVE Byte(i) \in Nat
    <2>1. Len(bytes) \in Nat
      BY LenProperties
    <2>2. i < Len(bytes) => bytes[i + 1] \in Nat
      <3>1. i < Len(bytes) => i + 1 \in 1..Len(bytes)
        BY <2>1
      <3> QED
        BY <3>1, ElementOfSeq
    <2> QED
      BY <2>2 DEF Byte
  <1>2. ASSUME NEW i \in Nat PROVE U2(i) \in Nat
    <2>1. Byte(i) \in Nat /\ Byte(i + 1) \in Nat
      BY <1>1
    <2> QED
      BY <2>1 DEF U2
  <1>3. U4(p) \in Nat
    <2>1. U2(p) \in Nat /\ U2(p + 2) \in Nat
      BY <1>2
    <2> QED
      BY <2>1, SMT DEF U4
  <1> QED
    BY <1>1, <1>2, <1>3

\* A byte of what stands in the file.
LEMMA ByteIsRead ==
    ASSUME bytes \in Seq(Nat), NEW p \in Nat, NEW piece \in Seq(Nat), Stands(bytes, p, piece),
           NEW i \in 1..Len(piece)
    PROVE  Byte(p + i - 1) = piece[i]
  <1>1. Len(bytes) \in Nat /\ Len(piece) \in Nat /\ p + Len(piece) <= Len(bytes)
    BY LenProperties DEF Stands
  <1>2. bytes[p + i] = piece[i]
    BY DEF Stands
  <1>3. p + i - 1 < Len(bytes) /\ (p + i - 1) + 1 = p + i
    BY <1>1
  <1> QED
    BY <1>2, <1>3 DEF Byte

\* A number of two bytes, from them.
LEMMA TwoBytesOf ==
    ASSUME NEW n \in Nat
    PROVE  n = (n \div 256) * 256 + (n % 256)
  BY SMT

\* A number that stands in the file.
LEMMA NumberIsRead ==
    ASSUME bytes \in Seq(Nat), NEW p \in Nat, NEW n \in Nat, Stands(bytes, p, B2(n))
    PROVE  U2(p) = n
  <1> DEFINE two == B2(n)
  <1>1. two \in Seq(Nat) /\ Len(two) = 2 /\ two[1] = n \div 256 /\ two[2] = n % 256
    BY TwoBytes DEF B2
  <1>2. 1 \in 1..Len(two) /\ 2 \in 1..Len(two)
    BY <1>1
  <1>20. Stands(bytes, p, two) /\ two \in Seq(Nat)
    BY <1>1
  <1> HIDE DEF two
  <1>3. Byte(p + 1 - 1) = two[1] /\ Byte(p + 2 - 1) = two[2]
    <2>1. \A piece \in Seq(Nat) : Stands(bytes, p, piece) =>
             \A i \in 1..Len(piece) : Byte(p + i - 1) = piece[i]
      BY ByteIsRead
    <2>2. \A i \in 1..Len(two) : Byte(p + i - 1) = two[i]
      BY <1>20, <2>1, Zenon
    <2> QED
      BY <1>2, <2>2
  <1>4. p + 1 - 1 = p /\ p + 2 - 1 = p + 1
    OBVIOUS
  <1>5. Byte(p) = n \div 256 /\ Byte(p + 1) = n % 256
    BY <1>1, <1>3, <1>4
  <1>6. U2(p) = (n \div 256) * 256 + (n % 256)
    BY <1>5 DEF U2
  <1> QED
    BY <1>6, TwoBytesOf

\* Of a file of which only the beginning is there: what lies within it.
LEMMA BeginningHas ==
    ASSUME NEW file \in Seq(Nat), NEW part \in Seq(Nat), Stands(file, 0, part),
           NEW piece \in Seq(Nat), NEW at \in Nat, Stands(file, at, piece),
           at + Len(piece) <= Len(part)
    PROVE  Stands(part, at, piece)
  <1>1. Len(part) \in Nat /\ Len(piece) \in Nat
    BY LenProperties
  <1>2. ASSUME NEW i \in 1..Len(piece) PROVE part[at + i] = piece[i]
    <2>1. file[at + i] = piece[i]
      BY DEF Stands
    <2>2. at + i \in 1..Len(part) /\ 0 + (at + i) = at + i
      BY <1>1
    <2>3. file[0 + (at + i)] = part[at + i]
      BY <2>2 DEF Stands
    <2> QED
      BY <2>1, <2>2, <2>3
  <1> QED
    BY <1>2 DEF Stands

\* Where a list of attributes ends: of none, and of one.
LEMMA AttributesAre ==
    ASSUME bytes \in Seq(Nat), NEW p \in Nat
    PROVE  /\ AttributesEnd(p) \in Nat /\ AttributesEnd(p) >= p + 2
           /\ U2(p) = 0 => AttributesEnd(p) = p + 2
           /\ U2(p) = 1 /\ p + 2 <= Len(bytes) => AttributesEnd(p) = p + 8 + U4(p + 4)
  <1> DEFINE N == U2(p)
             IsTable(f) == f = [n \in 0..N |->
                                   IF n = 0 THEN p + 2
                                   ELSE IF f[n - 1] > Len(bytes) THEN f[n - 1]
                                   ELSE f[n - 1] + 6 + U4(f[n - 1] + 2)]
             table == CHOOSE f : IsTable(f)
             F == [pair \in Nat \X (1..N) |->
                      IF pair[1] > Len(bytes) THEN pair[1] ELSE pair[1] + 6 + U4(pair[1] + 2)]
  <1>1. N \in Nat /\ Len(bytes) \in Nat /\ p + 2 \in Nat
    <2>1. U2(p) \in Nat
      BY BytesTyped
    <2>2. Len(bytes) \in Nat
      BY LenProperties
    <2> QED
      BY <2>1, <2>2
  <1>2. \A x \in Nat : U4(x + 2) \in Nat
    <2> TAKE x \in Nat
    <2>1. x + 2 \in Nat
      OBVIOUS
    <2> QED
      BY <2>1, BytesTyped
  <1>3. F \in [Nat \X (1..N) -> Nat]
    BY <1>1, <1>2
  <1>4. \A x \in Nat : \A n \in 1..N :
            F[<<x, n>>] = IF x > Len(bytes) THEN x ELSE x + 6 + U4(x + 2)
    OBVIOUS
  <1> HIDE DEF F, N
  <1>5. PICK g \in [0..N -> Nat] : IsIteration(g, N, p + 2, F)
    BY <1>1, <1>3, Iteration
  <1>6. IsTable(g)
    <2>1. \A n \in 0..N : n = 0 \/ (n # 0 /\ n \in 1..N /\ n - 1 \in 0..N)
      BY <1>1
    <2>2. ASSUME NEW n \in 0..N
          PROVE  g[n] = IF n = 0 THEN p + 2
                        ELSE IF g[n - 1] > Len(bytes) THEN g[n - 1]
                        ELSE g[n - 1] + 6 + U4(g[n - 1] + 2)
      <3>1. CASE n = 0
        BY <1>5, <3>1 DEF IsIteration
      <3>2. CASE n # 0
        <4>1. n \in 1..N /\ n - 1 \in 0..N
          BY <2>1, <3>2
        <4>2. g[n] = F[<<g[n - 1], n>>] /\ g[n - 1] \in Nat
          BY <1>5, <4>1 DEF IsIteration
        <4>3. g[n] = IF g[n - 1] > Len(bytes) THEN g[n - 1]
                     ELSE g[n - 1] + 6 + U4(g[n - 1] + 2)
          BY <1>4, <4>1, <4>2
        <4> QED
          BY <3>2, <4>3
      <3> QED
        BY <3>1, <3>2
    <2>3. g = [n \in 0..N |-> g[n]]
      OBVIOUS
    <2> QED
      BY <2>2, <2>3
  <1>7. IsTable(table)
    <2> HIDE DEF IsTable
    <2> QED
      BY <1>6
  <1>8. PICK a : IsTable(a) /\ AttributesEnd(p) = a[N]
    <2>1. AttributesEnd(p) = table[N]
      BY Zenon DEF AttributesEnd, N
    <2> HIDE DEF IsTable, table
    <2> QED
      BY <1>7, <2>1
  <1>9. /\ a[0] = p + 2
        /\ \A n \in 1..N : a[n] = IF a[n - 1] > Len(bytes) THEN a[n - 1]
                                  ELSE a[n - 1] + 6 + U4(a[n - 1] + 2)
    <2>1. 0 \in 0..N /\ \A n \in 1..N : n \in 0..N /\ n # 0
      BY <1>1
    <2> QED
      BY <1>8, <2>1
  <1> HIDE DEF IsTable
  <1> DEFINE T == {n \in Nat : n <= N => a[n] \in Nat /\ a[n] >= p + 2}
  <1>10. 0 \in T
    BY <1>9
  <1>11. ASSUME NEW n \in Nat, n \in T PROVE n + 1 \in T
    <2> SUFFICES ASSUME n + 1 <= N PROVE a[n + 1] \in Nat /\ a[n + 1] >= p + 2
      OBVIOUS
    <2>1. n + 1 \in 1..N /\ (n + 1) - 1 = n /\ n <= N
      BY <1>1
    <2>2. a[n] \in Nat /\ a[n] >= p + 2
      BY <1>11, <2>1
    <2>3. a[n + 1] = IF a[n] > Len(bytes) THEN a[n] ELSE a[n] + 6 + U4(a[n] + 2)
      BY <1>9, <2>1
    <2> DEFINE x == a[n]
               u == U4(x + 2)
    <2>4. u \in Nat
      BY <1>2, <2>2
    <2>5. a[n + 1] = IF x > Len(bytes) THEN x ELSE x + 6 + u
      BY <2>3
    <2>6. x \in Nat /\ x >= p + 2
      BY <2>2
    <2> HIDE DEF x, u
    <2> QED
      BY <2>4, <2>5, <2>6
  <1> HIDE DEF T
  <1>12. Nat \subseteq T
    BY <1>10, <1>11, SetInduction
  <1>13. a[N] \in Nat /\ a[N] >= p + 2
    BY <1>1, <1>12 DEF T
  <1>14. N = 0 => a[N] = p + 2
    BY <1>9
  <1>15. ASSUME N = 1, p + 2 <= Len(bytes) PROVE a[N] = p + 8 + U4(p + 4)
    <2>1. 1 \in 1..N /\ 1 - 1 = 0 /\ ~(p + 2 > Len(bytes)) /\ p + 2 + 2 = p + 4
      BY <1>1, <1>15
    <2>2. a[1] = p + 2 + 6 + U4(p + 4)
      BY <1>9, <2>1
    <2>3. U4(p + 4) \in Nat
      <3>1. p + 4 \in Nat
        OBVIOUS
      <3> QED
        BY <3>1, BytesTyped
    <2>4. p + 2 + 6 + U4(p + 4) = p + 8 + U4(p + 4)
      BY <2>3
    <2> QED
      BY <1>15, <2>2, <2>4
  <1> QED
    BY <1>8, <1>13, <1>14, <1>15 DEF N

---------------------------------------------------------------------------
\* What a constant adds to the pool when it is read.
EntriesOf(constant, index) ==
    CASE constant.tag = 7 -> <<[tag |-> "class", name |-> index[constant.text]]>>
      [] constant.tag = 1 ->
           <<[tag |-> "utf8", text |-> IF Unpaired(constant.text) THEN Bad ELSE constant.text]>>
      [] constant.tag \in {5, 6} -> <<Other, Unusable>>
      [] OTHER -> <<Other>>

\* A constant that is written, and with which indices.
IsWritten(constant, index, n, written) ==
    /\ IsConstant(constant, n) /\ HasParts(constant, index, written)
    /\ constant.tag = 7 => index[constant.text] \in Nat

\* Every tag has a size.
LEMMA SizesAreNumbers ==
    ASSUME NEW tag
    PROVE  Size(tag) \in {2, 3, 4, 8}
  <1>1. CASE tag \in {3, 4, 9, 10, 11, 12, 17, 18}
    BY <1>1 DEF Size
  <1>2. CASE tag \in {5, 6}
    BY <1>2 DEF Size
  <1>3. CASE tag = 15
    BY <1>3 DEF Size
  <1>4. CASE tag \notin {3, 4, 9, 10, 11, 12, 17, 18, 5, 6, 15}
    BY <1>4 DEF Size
  <1> QED
    BY <1>1, <1>2, <1>3, <1>4

\* Bytes that stand in the file are those that are there.
LEMMA TextIsRead ==
    ASSUME bytes \in Seq(Nat), NEW p \in Nat, NEW piece \in Seq(Nat), Stands(bytes, p, piece)
    PROVE  Bytes(p, Len(piece)) = piece
  <1> DEFINE n == Len(piece)
             read == Bytes(p, n)
  <1>1. n \in Nat
    BY LenProperties
  <1>2. \A i \in 1..n : Byte(p + i - 1) = piece[i]
    BY ByteIsRead
  <1>3. DOMAIN read = 1..n /\ read = [k \in DOMAIN read |-> read[k]]
        /\ \A i \in 1..n : read[i] = piece[i]
    BY <1>2 DEF Bytes
  <1>4. \A i \in 1..n : read[i] \in Nat
    BY <1>3, ElementOfSeq
  <1> HIDE DEF read, n
  <1>5. read \in Seq(Nat) /\ Len(read) = n
    BY <1>1, <1>3, <1>4, ListOf
  <1>6. n = Len(piece)
    BY DEF n
  <1>7. read = piece
    BY <1>3, <1>5, <1>6, SeqEqual
  <1> QED
    BY <1>6, <1>7 DEF read

\* A constant that stands in the file is read as it was written.
LEMMA ConstantIsRead ==
    ASSUME bytes \in Seq(Nat), pos \in Nat, NEW constant, NEW index, NEW n, NEW written,
           IsWritten(constant, index, n, written), Stands(bytes, pos, written)
    PROVE  /\ Byte(pos) = constant.tag /\ constant.tag \in Tag
           /\ ConstantEnd = pos + Len(written)
           /\ Constant = EntriesOf(constant, index)
  <1> DEFINE tag == constant.tag
             one == <<tag>>
  <1>1. HasParts(constant, index, written) /\ written \in Seq(Nat) /\ tag \in Nat
    BY DEF IsWritten, HasParts
  <1>2. tag \in {1, 7} \/ tag \in DOMAIN Payload
    BY DEF IsWritten, IsConstant
  <1>3. tag \in Tag
    BY <1>2, PayloadIs DEF Tag
  <1>4. Byte(pos) = tag
    <2>1. one \in Seq(Nat) /\ Len(one) = 1 /\ one[1] = tag
      BY <1>1
    <2>2. Stands(written, 0, one)
      BY <1>1 DEF HasParts
    <2> HIDE DEF one
    <2>3. Stands(bytes, pos + 0, one)
      BY <1>1, <2>1, <2>2, StandsInside
    <2>4. pos + 0 = pos /\ pos + 1 - 1 = pos /\ 1 \in 1..Len(one)
      BY <2>1
    <2>5. \A i \in 1..Len(one) : Byte(pos + i - 1) = one[i]
      BY <2>1, <2>3, <2>4, ByteIsRead
    <2> QED
      BY <2>1, <2>4, <2>5
  <1>5. CASE tag = 7
    <2> DEFINE x == index[constant.text]
               two == B2(x)
    <2>1. x \in Nat /\ Len(written) = 3 /\ Stands(written, 1, two)
      BY <1>1, <1>5 DEF IsWritten, HasParts
    <2>2. two \in Seq(Nat)
      BY <2>1, TwoBytes
    <2> HIDE DEF two, x
    <2>3. Stands(bytes, pos + 1, two)
      BY <1>1, <2>1, <2>2, StandsInside
    <2>4. U2(pos + 1) = x
      <3>1. Stands(bytes, pos + 1, B2(x)) /\ pos + 1 \in Nat
        BY <2>3 DEF two
      <3> QED
        BY <2>1, <3>1, NumberIsRead
    <2>5. Byte(pos) = 7
      BY <1>4, <1>5
    <2>6. ConstantEnd = pos + 1 + 2
      BY <2>5, PayloadIs DEF ConstantEnd
    <2>7. Constant = <<[tag |-> "class", name |-> x]>>
      BY <2>4, <2>5 DEF Constant
    <2>8. EntriesOf(constant, index) = <<[tag |-> "class", name |-> x]>>
      BY <1>5 DEF EntriesOf, x
    <2> QED
      BY <1>3, <1>4, <2>1, <2>6, <2>7, <2>8
  <1>6. CASE tag = 1
    <2> DEFINE text == EncodeText(constant.text)
               l == Len(text)
               two == B2(l)
    <2>1. /\ text \in Seq(Nat) /\ Len(written) = 3 + l /\ Stands(written, 1, two)
          /\ Stands(written, 3, text)
      BY <1>1, <1>6 DEF HasParts
    <2>2. l \in Nat /\ two \in Seq(Nat)
      BY <2>1, LenProperties, TwoBytes
    <2>3. IsString(constant.text)
      BY <1>6, PayloadIs DEF IsWritten, IsConstant
    <2>4. DecodeModifiedUtf8(text) = IF Unpaired(constant.text) THEN Bad ELSE constant.text
      BY <2>3, DecodedIsEncoded
    <2> HIDE DEF two, text
    <2>5. Stands(bytes, pos + 1, two) /\ Stands(bytes, pos + 3, text)
      <3>1. 1 \in Nat /\ 3 \in Nat
        OBVIOUS
      <3> HIDE DEF l
      <3>2. Stands(bytes, pos + 1, two)
        BY <1>1, <2>1, <2>2, <3>1, StandsInside
      <3>3. Stands(bytes, pos + 3, text)
        BY <1>1, <2>1, <3>1, StandsInside
      <3> QED
        BY <3>2, <3>3
    <2>6. U2(pos + 1) = l
      <3>1. Stands(bytes, pos + 1, B2(l)) /\ pos + 1 \in Nat
        BY <2>5 DEF two
      <3> HIDE DEF l
      <3> QED
        BY <2>2, <3>1, NumberIsRead
    <2>7. Bytes(pos + 3, l) = text
      <3>1. pos + 3 \in Nat
        OBVIOUS
      <3> QED
        BY <2>1, <2>5, <3>1, TextIsRead
    <2> HIDE DEF l
    <2>8. Byte(pos) = 1
      BY <1>4, <1>6
    <2>9. ConstantEnd = pos + (3 + l)
      <3>1. ConstantEnd = pos + 1 + (2 + l)
        BY <2>6, <2>8 DEF ConstantEnd
      <3> QED
        BY <2>2, <3>1
    <2>10. Constant = <<[tag |-> "utf8", text |-> DecodeModifiedUtf8(text)]>>
      BY <2>6, <2>7, <2>8 DEF Constant
    <2>11. EntriesOf(constant, index) =
              <<[tag |-> "utf8", text |-> IF Unpaired(constant.text) THEN Bad ELSE constant.text]>>
      BY <1>6 DEF EntriesOf
    <2> QED
      BY <1>3, <1>4, <2>1, <2>4, <2>9, <2>10, <2>11
  <1>7. CASE tag \in DOMAIN Payload
    <2>1. /\ tag # 1 /\ tag # 7 /\ Size(tag) = Payload[tag] /\ Size(tag) \in Nat
          /\ Len(written) = 1 + Payload[tag]
      BY <1>1, <1>7, PayloadIs DEF HasParts
    <2>2. ConstantEnd = pos + 1 + Size(tag)
      BY <1>4, <2>1 DEF ConstantEnd
    <2>3. Constant = EntriesOf(constant, index)
      <3>1. CASE tag \in {5, 6}
        <4>1. Constant = <<Other, Unusable>>
          BY <1>4, <3>1 DEF Constant
        <4>2. EntriesOf(constant, index) = <<Other, Unusable>>
          BY <3>1 DEF EntriesOf
        <4> QED
          BY <4>1, <4>2
      <3>2. CASE tag \notin {5, 6}
        <4>1. Constant = <<Other>>
          BY <1>4, <2>1, <3>2 DEF Constant
        <4>2. EntriesOf(constant, index) = <<Other>>
          BY <2>1, <3>2 DEF EntriesOf
        <4> QED
          BY <4>1, <4>2
      <3> QED
        BY <3>1, <3>2
    <2>4. pos + 1 + Size(tag) = pos + Len(written)
      <3> DEFINE s == Size(tag)
      <3>1. s \in Nat /\ Len(written) = 1 + s
        BY <2>1
      <3> HIDE DEF s
      <3>2. pos + 1 + s = pos + (1 + s)
        BY <3>1
      <3> QED
        BY <3>1, <3>2 DEF s
    <2> QED
      BY <1>3, <1>4, <2>2, <2>3, <2>4
  <1> QED
    BY <1>2, <1>5, <1>6, <1>7

\* A constant that ends within the file is there as it was written, even when the
\* file was left short.
LEMMA ConstantFits ==
    ASSUME bytes \in Seq(Nat), NEW file \in Seq(Nat), Stands(file, 0, bytes), pos \in Nat,
           NEW constant, NEW index, NEW n, NEW written,
           IsWritten(constant, index, n, written), Stands(file, pos, written),
           ConstantEnd <= Len(bytes)
    PROVE  Stands(bytes, pos, written)
  <1> DEFINE tag == constant.tag
             one == <<tag>>
             m == Len(bytes)
  <1>1. /\ HasParts(constant, index, written) /\ written \in Seq(Nat) /\ tag \in Nat
        /\ m \in Nat
    BY LenProperties DEF IsWritten, HasParts
  <1>2. tag \in {1, 7} \/ tag \in DOMAIN Payload
    BY DEF IsWritten, IsConstant
  <1>3. pos + 1 <= m
    <2>1. U2(pos + 1) \in Nat /\ Size(Byte(pos)) \in {2, 3, 4, 8}
      <3>1. pos + 1 \in Nat
        OBVIOUS
      <3> QED
        BY <3>1, BytesTyped, SizesAreNumbers
    <2>2. \/ ConstantEnd = pos + 1 + (2 + U2(pos + 1))
          \/ ConstantEnd = pos + 1 + Size(Byte(pos))
      BY DEF ConstantEnd
    <2> DEFINE u == U2(pos + 1)
               s == Size(Byte(pos))
               e == ConstantEnd
    <2>3. u \in Nat /\ s \in {2, 3, 4, 8} /\ (e = pos + 1 + (2 + u) \/ e = pos + 1 + s) /\ e <= m
      BY <2>1, <2>2
    <2> HIDE DEF u, s, e, m
    <2> QED
      BY <1>1, <2>3
  <1>4. Byte(pos) = tag
    <2>1. one \in Seq(Nat) /\ Len(one) = 1 /\ one[1] = tag
      BY <1>1
    <2>2. Stands(written, 0, one)
      BY <1>1 DEF HasParts
    <2> HIDE DEF one
    <2>3. Stands(file, pos + 0, one)
      BY <1>1, <2>1, <2>2, StandsInside
    <2>4. pos + 0 = pos /\ pos + 1 - 1 = pos /\ 1 \in 1..Len(one)
      BY <2>1
    <2>5. Stands(bytes, pos, one)
      BY <1>3, <2>1, <2>3, <2>4, BeginningHas
    <2>6. \A i \in 1..Len(one) : Byte(pos + i - 1) = one[i]
      BY <2>1, <2>5, ByteIsRead
    <2> QED
      BY <2>1, <2>4, <2>6
  <1>5. CASE tag = 7
    <2>1. Len(written) = 3 /\ ConstantEnd = pos + 1 + 2
      BY <1>1, <1>4, <1>5, PayloadIs DEF HasParts, ConstantEnd
    <2>2. pos + Len(written) <= Len(bytes)
      BY <2>1
    <2> QED
      BY <1>1, <2>2, BeginningHas
  <1>6. CASE tag \in DOMAIN Payload
    <2>1. /\ tag # 1 /\ Len(written) = 1 + Size(tag) /\ ConstantEnd = pos + 1 + Size(tag)
          /\ Size(tag) \in Nat
      BY <1>1, <1>4, <1>6, PayloadIs DEF HasParts, ConstantEnd
    <2>2. pos + Len(written) <= Len(bytes)
      <3> DEFINE s == Size(tag)
      <3>1. s \in Nat /\ Len(written) = 1 + s /\ ConstantEnd = pos + 1 + s
        BY <2>1
      <3> HIDE DEF s
      <3>2. pos + (1 + s) <= m
        BY <1>1, <3>1
      <3> QED
        BY <3>1, <3>2
    <2> QED
      BY <1>1, <2>2, BeginningHas
  <1>7. CASE tag = 1
    <2> DEFINE text == EncodeText(constant.text)
               l == Len(text)
               two == B2(l)
    <2>1. /\ text \in Seq(Nat) /\ Len(written) = 3 + l /\ Stands(written, 1, two)
      BY <1>1, <1>7 DEF HasParts
    <2>2. l \in Nat /\ two \in Seq(Nat) /\ Len(two) = 2
      BY <2>1, LenProperties, TwoBytes
    <2>3. ConstantEnd = pos + 1 + (2 + U2(pos + 1)) /\ U2(pos + 1) \in Nat
      <3>1. pos + 1 \in Nat
        OBVIOUS
      <3> QED
        BY <1>4, <1>7, <3>1, BytesTyped DEF ConstantEnd
    <2> HIDE DEF text, l
    <2>4. Stands(file, pos + 1, two)
      <3>1. 1 \in Nat
        OBVIOUS
      <3> HIDE DEF two
      <3> QED
        BY <1>1, <2>1, <2>2, <3>1, StandsInside
    <2>5. Stands(bytes, pos + 1, two)
      <3>1. pos + 1 + Len(two) <= Len(bytes) /\ pos + 1 \in Nat
        <4> DEFINE u == U2(pos + 1)
                   e == ConstantEnd
        <4>1. u \in Nat /\ e = pos + 1 + (2 + u) /\ e <= m /\ Len(two) = 2
          BY <2>2, <2>3
        <4> HIDE DEF u, e, two, m
        <4>2. pos + 1 + Len(two) <= m /\ pos + 1 \in Nat
          BY <1>1, <4>1
        <4> QED
          BY <4>2 DEF m
      <3> HIDE DEF two
      <3> QED
        BY <2>2, <2>4, <3>1, BeginningHas
    <2>6. U2(pos + 1) = l
      <3>1. pos + 1 \in Nat
        OBVIOUS
      <3> QED
        BY <2>2, <2>5, <3>1, NumberIsRead
    <2>7. pos + Len(written) <= Len(bytes)
      BY <1>1, <2>1, <2>2, <2>3, <2>6
    <2> QED
      BY <1>1, <2>7, BeginningHas
  <1> QED
    BY <1>2, <1>5, <1>6, <1>7

\* A length of four bytes that is one.
LEMMA LengthIsRead ==
    ASSUME bytes \in Seq(Nat), NEW p \in Nat, Stands(bytes, p, <<0, 0, 0, 1>>)
    PROVE  U4(p) = 1
  <1> DEFINE four == <<0, 0, 0, 1>>
  <1>1. four \in Seq(Nat) /\ Len(four) = 4 /\ Stands(bytes, p, four)
        /\ four[1] = 0 /\ four[2] = 0 /\ four[3] = 0 /\ four[4] = 1
    OBVIOUS
  <1> HIDE DEF four
  <1>2. \A i \in 1..Len(four) : Byte(p + i - 1) = four[i]
    BY <1>1, ByteIsRead
  <1>3. 1 \in 1..Len(four) /\ 2 \in 1..Len(four) /\ 3 \in 1..Len(four) /\ 4 \in 1..Len(four)
    BY <1>1
  <1>4. p + 1 - 1 = p /\ p + 2 - 1 = p + 1 /\ p + 3 - 1 = p + 2 /\ p + 4 - 1 = p + 2 + 1
    OBVIOUS
  <1>5. Byte(p) = 0 /\ Byte(p + 1) = 0 /\ Byte(p + 2) = 0 /\ Byte(p + 2 + 1) = 1
    BY <1>1, <1>2, <1>3, <1>4
  <1>6. U2(p) = 0 /\ U2(p + 2) = 1
    BY <1>5 DEF U2
  <1> QED
    BY <1>6, SMT DEF U4

\* The attribute of a member is one of one byte.
LEMMA AttributeIs ==
    ASSUME NEW file \in Seq(Nat), NEW at \in Nat, Stands(file, at, <<0, 0, 0, 1, 9>>)
    PROVE  Stands(file, at, <<0, 0, 0, 1>>)
  <1> DEFINE five == <<0, 0, 0, 1, 9>>
             four == <<0, 0, 0, 1>>
  <1>1. five \in Seq(Nat) /\ four \in Seq(Nat) /\ Stands(file, at, five)
    OBVIOUS
  <1>2. Stands(five, 0, four)
    <2>1. Len(five) = 5 /\ Len(four) = 4 /\ \A i \in 1..4 : five[0 + i] = four[i]
      OBVIOUS
    <2> HIDE DEF five, four
    <2> QED
      BY <2>1 DEF Stands
  <1> HIDE DEF five, four
  <1>3. Stands(file, at + 0, four)
    BY <1>1, <1>2, StandsInside
  <1>4. at + 0 = at
    OBVIOUS
  <1> QED
    BY <1>3, <1>4 DEF four

\* A member that stands in the file is read as it was written.
LEMMA MemberIsRead ==
    ASSUME bytes \in Seq(Nat), NEW p \in Nat, NEW m, m.access_flags \in Nat,
           NEW name \in Nat, NEW descriptor \in Nat, IsMemberAt(bytes, p, m, name, descriptor)
    PROVE  /\ U2(p) = m.access_flags /\ U2(p + 2) = name /\ U2(p + 4) = descriptor
           /\ AttributesEnd(p + 6) = p + 15 /\ p + 15 <= Len(bytes)
  <1>1. p + 2 \in Nat /\ p + 4 \in Nat /\ p + 6 \in Nat /\ p + 10 \in Nat /\ 1 \in Nat
    OBVIOUS
  <1>2. /\ Stands(bytes, p, B2(m.access_flags)) /\ Stands(bytes, p + 2, B2(name))
        /\ Stands(bytes, p + 4, B2(descriptor)) /\ Stands(bytes, p + 6, B2(1))
        /\ Stands(bytes, p + 10, <<0, 0, 0, 1, 9>>)
    BY DEF IsMemberAt
  <1>3. U2(p) = m.access_flags /\ U2(p + 2) = name /\ U2(p + 4) = descriptor /\ U2(p + 6) = 1
    BY <1>1, <1>2, NumberIsRead
  <1>4. U4(p + 6 + 4) = 1
    <2>1. Stands(bytes, p + 10, <<0, 0, 0, 1>>)
      BY <1>1, <1>2, AttributeIs
    <2>2. p + 6 + 4 = p + 10
      OBVIOUS
    <2> QED
      BY <1>1, <2>1, <2>2, LengthIsRead
  <1>5. p + 15 <= Len(bytes) /\ Len(bytes) \in Nat
    <2>1. p + 10 + 5 <= Len(bytes)
      BY <1>2 DEF Stands
    <2>2. p + 10 + 5 = p + 15
      OBVIOUS
    <2> QED
      BY <2>1, <2>2, LenProperties
  <1>6. AttributesEnd(p + 6) = p + 6 + 8 + U4(p + 6 + 4)
    <2>1. p + 6 + 2 <= Len(bytes)
      BY <1>5
    <2> QED
      BY <1>1, <1>3, <2>1, AttributesAre
  <1>7. AttributesEnd(p + 6) = p + 15
    BY <1>4, <1>6
  <1> QED
    BY <1>3, <1>5, <1>7

\* A member that ends within the file is there as it was written.
LEMMA MemberFits ==
    ASSUME bytes \in Seq(Nat), NEW file \in Seq(Nat), Stands(file, 0, bytes), NEW p \in Nat,
           NEW m, m.access_flags \in Nat, NEW name \in Nat, NEW descriptor \in Nat,
           IsMemberAt(file, p, m, name, descriptor), AttributesEnd(p + 6) <= Len(bytes)
    PROVE  IsMemberAt(bytes, p, m, name, descriptor)
  <1> DEFINE n == Len(bytes)
             a == B2(m.access_flags)
             b == B2(name)
             d == B2(descriptor)
             one == B2(1)
             four == <<0, 0, 0, 1>>
             five == <<0, 0, 0, 1, 9>>
             e == AttributesEnd(p + 6)
  <1>1. /\ p + 2 \in Nat /\ p + 4 \in Nat /\ p + 6 \in Nat /\ p + 10 \in Nat /\ 1 \in Nat
        /\ n \in Nat
    BY LenProperties
  <1>2. /\ a \in Seq(Nat) /\ b \in Seq(Nat) /\ d \in Seq(Nat) /\ one \in Seq(Nat)
        /\ Len(a) = 2 /\ Len(b) = 2 /\ Len(d) = 2 /\ Len(one) = 2
    BY TwoBytes
  <1>3. four \in Seq(Nat) /\ five \in Seq(Nat) /\ Len(four) = 4 /\ Len(five) = 5
    OBVIOUS
  <1>4. /\ Stands(file, p, a) /\ Stands(file, p + 2, b) /\ Stands(file, p + 4, d)
        /\ Stands(file, p + 6, one) /\ Stands(file, p + 10, five)
    BY DEF IsMemberAt
  <1>5. Stands(file, p + 10, four)
    BY <1>1, <1>4, AttributeIs
  <1>6. e \in Nat /\ e >= p + 6 + 2 /\ e <= n
    BY <1>1, AttributesAre
  <1>7. p + 8 <= n
    <2> HIDE DEF e, n
    <2> QED
      BY <1>1, <1>6
  <1> HIDE DEF four, five
  <1>8. Stands(bytes, p, a) /\ Stands(bytes, p + 2, b) /\ Stands(bytes, p + 4, d)
        /\ Stands(bytes, p + 6, one)
    <2>1. p + Len(a) <= n /\ p + 2 + Len(b) <= n /\ p + 4 + Len(d) <= n /\ p + 6 + Len(one) <= n
      <3> HIDE DEF a, b, d, one, n
      <3> QED
        BY <1>1, <1>2, <1>7
    <2> HIDE DEF a, b, d, one
    <2>2. Stands(bytes, p, a)
      BY <1>1, <1>2, <1>4, <2>1, BeginningHas
    <2>3. Stands(bytes, p + 2, b)
      BY <1>1, <1>2, <1>4, <2>1, BeginningHas
    <2>4. Stands(bytes, p + 4, d)
      BY <1>1, <1>2, <1>4, <2>1, BeginningHas
    <2>5. Stands(bytes, p + 6, one)
      BY <1>1, <1>2, <1>4, <2>1, BeginningHas
    <2> QED
      BY <2>2, <2>3, <2>4, <2>5
  <1>9. U2(p + 6) = 1
    BY <1>1, <1>8, NumberIsRead
  <1>10. e = p + 6 + 8 + U4(p + 6 + 4) /\ U4(p + 6 + 4) \in Nat
    <2>1. p + 6 + 2 <= Len(bytes) /\ p + 6 + 4 \in Nat
      BY <1>7
    <2> QED
      BY <1>1, <1>9, <2>1, AttributesAre, BytesTyped
  <1>11. p + 10 + 4 <= n
    <2> DEFINE u == U4(p + 6 + 4)
    <2>1. u \in Nat /\ e = p + 6 + 8 + u
      BY <1>10
    <2> HIDE DEF u, e, n
    <2> QED
      BY <1>1, <1>6, <2>1
  <1>12. Stands(bytes, p + 10, four)
    BY <1>1, <1>3, <1>5, <1>11, BeginningHas
  <1>13. U4(p + 6 + 4) = 1
    <2>1. p + 6 + 4 = p + 10
      OBVIOUS
    <2> QED
      BY <1>1, <1>12, <2>1, LengthIsRead DEF four
  <1>14. p + 10 + 5 <= n
    BY <1>6, <1>10, <1>13
  <1>15. Stands(bytes, p + 10, five)
    BY <1>1, <1>3, <1>4, <1>14, BeginningHas
  <1> QED
    BY <1>8, <1>15 DEF IsMemberAt, five

---------------------------------------------------------------------------
PoolEntry ==
    [tag : {"class"}, name : Nat] \cup [tag : {"utf8"}, text : Seq(Int)] \cup {Other, Unusable}

\* The pool has the first k constants, each behind its index.
PoolIs(entries, K, index, k) ==
    /\ entries \in Seq(PoolEntry) /\ Len(entries) = index[k + 1]
    /\ \A j \in 1..k : entries[index[j] + 1] = EntriesOf(K[j], index)[1]

\* A constant adds as many entries as it takes slots.
LEMMA EntriesAre ==
    ASSUME NEW constant, NEW index, NEW n, NEW written, IsWritten(constant, index, n, written)
    PROVE  /\ EntriesOf(constant, index) \in Seq(PoolEntry)
           /\ Len(EntriesOf(constant, index)) = Slots(constant)
  <1> DEFINE tag == constant.tag
             e == EntriesOf(constant, index)
  <1>1. tag \in {1, 7} \/ tag \in DOMAIN Payload
    BY DEF IsWritten, IsConstant
  <1>2. CASE tag = 7
    <2> DEFINE x == [tag |-> "class", name |-> index[constant.text]]
    <2>1. e = <<x>>
      BY <1>2 DEF EntriesOf
    <2>2. x \in PoolEntry
      BY <1>2 DEF IsWritten, PoolEntry
    <2>3. Slots(constant) = 1
      BY <1>2 DEF Slots, IsWide
    <2> HIDE DEF e, x
    <2>4. <<x>> \in Seq(PoolEntry) /\ Len(<<x>>) = 1
      BY <2>2
    <2> QED
      BY <2>1, <2>3, <2>4 DEF e
  <1>3. CASE tag = 1
    <2> DEFINE text == IF Unpaired(constant.text) THEN Bad ELSE constant.text
               x == [tag |-> "utf8", text |-> text]
    <2>1. e = <<x>>
      BY <1>3 DEF EntriesOf
    <2>2. text \in Seq(Int)
      <3>1. constant.text \in Seq(0..LastCodePoint)
        BY <1>3, PayloadIs DEF IsWritten, IsConstant, IsString
      <3>2. constant.text \in Seq(Int)
        <4> DEFINE s == constant.text
        <4>1. /\ Len(s) \in Nat /\ DOMAIN s = 1..Len(s) /\ s = [i \in DOMAIN s |-> s[i]]
              /\ \A i \in 1..Len(s) : s[i] \in Int
          <5>1. s \in Seq(0..LastCodePoint) /\ 0..LastCodePoint \subseteq Int
            BY <3>1
          <5> HIDE DEF s
          <5>2. Len(s) \in Nat /\ DOMAIN s = 1..Len(s) /\ s \in [1..Len(s) -> 0..LastCodePoint]
            BY <5>1, LenProperties
          <5> QED
            BY <5>1, <5>2
        <4> HIDE DEF s
        <4>2. s \in Seq(Int)
          BY <4>1, ListOf
        <4> QED
          BY <4>2 DEF s
      <3>3. Bad \in Seq(Int)
        BY DEF Bad
      <3> QED
        BY <3>1, <3>2, <3>3
    <2>3. Slots(constant) = 1
      BY <1>3 DEF Slots, IsWide
    <2> HIDE DEF text, e
    <2>4. x \in PoolEntry
      BY <2>2 DEF PoolEntry
    <2> HIDE DEF x
    <2>5. <<x>> \in Seq(PoolEntry) /\ Len(<<x>>) = 1
      BY <2>4
    <2> QED
      BY <2>1, <2>3, <2>5 DEF e
  <1>4. CASE tag \in DOMAIN Payload
    <2>1. tag # 1 /\ tag # 7
      BY <1>4, PayloadIs
    <2>2. Other \in PoolEntry /\ Unusable \in PoolEntry
      BY DEF PoolEntry
    <2>3. e = IF tag \in {5, 6} THEN <<Other, Unusable>> ELSE <<Other>>
      BY <2>1 DEF EntriesOf
    <2>4. Slots(constant) = IF tag \in {5, 6} THEN 2 ELSE 1
      BY DEF Slots, IsWide
    <2> HIDE DEF e
    <2>5. /\ <<Other>> \in Seq(PoolEntry) /\ Len(<<Other>>) = 1
          /\ <<Other, Unusable>> \in Seq(PoolEntry) /\ Len(<<Other, Unusable>>) = 2
      BY <2>2
    <2> QED
      BY <2>3, <2>4, <2>5 DEF e
  <1> QED
    BY <1>1, <1>2, <1>3, <1>4

\* The pool before the first constant.
LEMMA PoolBegins ==
    ASSUME NEW K, NEW index, AreIndices(index, K)
    PROVE  PoolIs(<<Unusable>>, K, index, 0)
  <1>1. <<Unusable>> \in Seq(PoolEntry) /\ Len(<<Unusable>>) = 1
    BY DEF PoolEntry
  <1>2. 0 + 1 = 1 /\ index[1] = 1 /\ 1..0 = {}
    BY DEF AreIndices
  <1> QED
    BY <1>1, <1>2 DEF PoolIs

\* A constant that is read is in the pool behind its index.
LEMMA PoolGrows ==
    ASSUME NEW K, Len(K) \in Nat, NEW index, AreIndices(index, K), NEW k \in 0..(Len(K) - 1),
           NEW n, NEW written, IsWritten(K[k + 1], index, n, written),
           NEW entries, PoolIs(entries, K, index, k)
    PROVE  PoolIs(entries \o EntriesOf(K[k + 1], index), K, index, k + 1)
  <1> DEFINE e == EntriesOf(K[k + 1], index)
             all == entries \o e
  <1>1. e \in Seq(PoolEntry) /\ Len(e) = Slots(K[k + 1]) /\ Slots(K[k + 1]) \in {1, 2}
    BY EntriesAre DEF Slots
  <1>2. entries \in Seq(PoolEntry) /\ Len(entries) = index[k + 1]
    BY DEF PoolIs
  <1>3. /\ k + 1 \in 1..Len(K) /\ index[(k + 1) + 1] = index[k + 1] + Slots(K[k + 1])
        /\ index[k + 1] \in Nat
    <2>1. k + 1 \in 1..Len(K) /\ k + 1 \in 1..(Len(K) + 1)
      OBVIOUS
    <2> QED
      BY <2>1 DEF AreIndices
  <1> HIDE DEF e
  <1>4. all \in Seq(PoolEntry) /\ Joined(all, entries, e)
    BY <1>1, <1>2, ConcatIs
  <1>5. Len(all) = index[(k + 1) + 1]
    BY <1>1, <1>2, <1>3, <1>4 DEF Joined
  <1> HIDE DEF all
  <1>6. ASSUME NEW j \in 1..(k + 1) PROVE all[index[j] + 1] = EntriesOf(K[j], index)[1]
    <2>1. CASE j = k + 1
      <3>1. 1 \in 1..Len(e)
        BY <1>1
      <3>2. all[Len(entries) + 1] = e[1]
        BY <1>4, <3>1 DEF Joined
      <3> QED
        BY <1>2, <2>1, <3>2 DEF e
    <2>2. CASE j # k + 1
      <3>1. j \in 1..k /\ j \in 1..(Len(K) + 1) /\ k + 1 \in 1..(Len(K) + 1) /\ j < k + 1
        BY <2>2
      <3>2. index[j] < index[k + 1] /\ index[j] \in Nat
        BY <3>1 DEF AreIndices
      <3>3. index[j] + 1 \in 1..Len(entries)
        <4> DEFINE x == index[j]
                   y == index[k + 1]
        <4>1. x \in Nat /\ y \in Nat /\ x < y
          BY <1>3, <3>2
        <4> HIDE DEF x, y
        <4>2. x + 1 \in 1..y
          BY <4>1
        <4> QED
          BY <1>2, <4>2 DEF x, y
      <3>4. all[index[j] + 1] = entries[index[j] + 1]
        BY <1>4, <3>3 DEF Joined
      <3> QED
        BY <3>1, <3>4 DEF PoolIs
    <2> QED
      BY <2>1, <2>2
  <1> QED
    BY <1>4, <1>5, <1>6 DEF PoolIs, all, e

\* Names are found in the pool by their indices.
LEMMA TextIsFound ==
    ASSUME NEW K, Len(K) \in Nat, NEW index, AreIndices(index, K),
           PoolIs(pool, K, index, Len(K)), NEW k \in 1..Len(K)
    PROVE  /\ K[k].tag = 1 /\ IsName(K[k].text) =>
                 Utf8At(index[k]) = K[k].text /\ K[k].text # Bad
           /\ K[k].tag = 7 => Entry(index[k]) = [tag |-> "class", name |-> index[K[k].text]]
  <1>1. index[k] < Len(pool) /\ index[k] \in Nat
    <2>1. k \in 1..(Len(K) + 1) /\ Len(K) + 1 \in 1..(Len(K) + 1) /\ k < Len(K) + 1
      OBVIOUS
    <2> QED
      BY <2>1 DEF AreIndices, PoolIs
  <1>2. Entry(index[k]) = EntriesOf(K[k], index)[1]
    BY <1>1 DEF Entry, PoolIs
  <1>3. ASSUME K[k].tag = 1, IsName(K[k].text)
        PROVE  Utf8At(index[k]) = K[k].text /\ K[k].text # Bad
    <2> DEFINE text == K[k].text
               x == [tag |-> "utf8", text |-> text]
    <2>1. ~Unpaired(text)
      BY <1>3, NamesAreTexts, NamesAreStrings
    <2>2. EntriesOf(K[k], index) = <<x>>
      BY <1>3, <2>1 DEF EntriesOf
    <2>3. Entry(index[k]) = x
      <3> HIDE DEF x
      <3> QED
        BY <1>2, <2>2
    <2>4. Utf8At(index[k]) = text
      BY <2>3 DEF Utf8At
    <2>5. text # Bad
      <3>1. ~IsScalar(-1)
        BY Bounds DEF IsScalar
      <3>2. DOMAIN Bad = {1} /\ Bad[1] = -1
        BY DEF Bad
      <3>3. \A i \in DOMAIN text : IsScalar(text[i])
        BY <1>3 DEF IsName
      <3> QED
        BY <3>1, <3>2, <3>3
    <2> QED
      BY <2>4, <2>5
  <1>4. ASSUME K[k].tag = 7
        PROVE  Entry(index[k]) = [tag |-> "class", name |-> index[K[k].text]]
    <2> DEFINE x == [tag |-> "class", name |-> index[K[k].text]]
    <2>1. EntriesOf(K[k], index) = <<x>>
      BY <1>4 DEF EntriesOf
    <2>2. Entry(index[k]) = x
      <3> HIDE DEF x
      <3> QED
        BY <1>2, <2>1
    <2> QED
      BY <2>2
  <1> QED
    BY <1>3, <1>4

\* The names of a class and its members, where the file says they are.
ClassIsFound(c) ==
    /\ ClassNameAt(1) = c.this_class /\ ClassNameAt(1) # Bad
    /\ ClassNameAt(2) = c.super_class /\ ClassNameAt(2) # Bad
    /\ \A k \in 1..Len(c.interfaces) :
          ClassNameAt(2 + k) = c.interfaces[k] /\ ClassNameAt(2 + k) # Bad
MembersAreFound(index, c, p) ==
    \A k \in 1..Len(Members(c)) :
        /\ Utf8At(NameIndex(index, c, p, k)) = Members(c)[k].name
        /\ Utf8At(DescriptorIndex(index, c, p, k)) = Members(c)[k].descriptor
        /\ Members(c)[k].name # Bad /\ Members(c)[k].descriptor # Bad

\* What a class file is read from: its constants, where they are, and the bytes
\* that were written.
Setting(file, at, K, index, c, padding, string) ==
    /\ c \in ClassRecord /\ AreConstants(K, c, padding, string) /\ AreIndices(index, K)
    /\ Len(K) \in Nat /\ IsFile(file, at, K, index, c, Len(padding)) /\ file \in Seq(Nat)
    /\ bytes \in Seq(Nat) /\ Stands(file, 0, bytes)

\* Every name is found when all constants are read.
LEMMA NamesAreFound ==
    ASSUME NEW file, NEW at, NEW K, NEW index, NEW c, NEW padding, NEW string,
           Setting(file, at, K, index, c, padding, string), PoolIs(pool, K, index, Len(K))
    PROVE  ClassIsFound(c) /\ MembersAreFound(index, c, Len(padding))
  <1> DEFINE n == Len(ClassTexts(c))
             p == Len(padding)
             m == Len(Members(c))
             N == Len(K)
  <1>1. /\ n \in Nat /\ p \in Nat /\ m \in Nat /\ N = 2 * n + p + 2 * m + 1
        /\ \A k \in 1..n : K[k].tag = 7 /\ K[k].text = n + p + k
        /\ \A k \in 1..n : K[n + p + k].tag = 1 /\ K[n + p + k].text = ClassTexts(c)[k]
        /\ \A k \in 1..m :
              /\ K[2 * n + p + (2 * k - 1)].tag = 1
              /\ K[2 * n + p + (2 * k - 1)].text = Members(c)[k].name
              /\ K[2 * n + p + 2 * k].tag = 1
              /\ K[2 * n + p + 2 * k].text = Members(c)[k].descriptor
        /\ \A k \in 1..(N - 1) : K[k].tag = 1 => IsName(K[k].text)
    BY DEF Setting, AreConstants
  <1>2. AreIndices(index, K) /\ N \in Nat /\ c \in ClassRecord
    BY DEF Setting
  <1>3. \A k \in 1..N :
            /\ K[k].tag = 1 /\ IsName(K[k].text) => Utf8At(index[k]) = K[k].text /\ K[k].text # Bad
            /\ K[k].tag = 7 => Entry(index[k]) = [tag |-> "class", name |-> index[K[k].text]]
    BY <1>2, TextIsFound
  <1>4. n = 2 + Len(c.interfaces) /\ Len(c.interfaces) \in Nat
    BY <1>2, ClassParts
  <1> HIDE DEF n, p, m, N
  <1>5. ASSUME NEW k \in 1..n PROVE ClassNameAt(k) = ClassTexts(c)[k] /\ ClassNameAt(k) # Bad
    <2>1. /\ k \in 1..N /\ n + p + k \in 1..N /\ n + p + k \in 1..(N - 1) /\ k \in 1..(N + 1)
          /\ \A j \in 1..(k - 1) : j \in 1..n
      BY <1>1, <1>2
    <2>2. \A j \in 1..(k - 1) : ~IsWide(K[j])
      <3> TAKE j \in 1..(k - 1)
      <3>1. K[j].tag = 7
        BY <1>1, <2>1
      <3> QED
        BY <3>1 DEF IsWide
    <2>3. index[k] = k
      BY <1>2, <2>1, <2>2 DEF AreIndices, N
    <2>4. Entry(k) = [tag |-> "class", name |-> index[n + p + k]]
      BY <1>1, <1>3, <2>1, <2>3
    <2>5. /\ Utf8At(index[n + p + k]) = ClassTexts(c)[k]
          /\ ClassTexts(c)[k] # Bad
      BY <1>1, <1>3, <2>1
    <2> QED
      BY <2>4, <2>5 DEF ClassNameAt
  <1>6. ClassIsFound(c)
    <2>1. 1 \in 1..n /\ 2 \in 1..n /\ \A k \in 1..Len(c.interfaces) : 2 + k \in 1..n
      BY <1>4
    <2>2. /\ ClassTexts(c)[1] = c.this_class /\ ClassTexts(c)[2] = c.super_class
          /\ \A k \in 1..Len(c.interfaces) : ClassTexts(c)[2 + k] = c.interfaces[k]
      BY <1>2, ClassParts
    <2> QED
      BY <1>5, <2>1, <2>2 DEF ClassIsFound
  <1>7. ASSUME NEW k \in 1..m
        PROVE  /\ Utf8At(NameIndex(index, c, p, k)) = Members(c)[k].name
               /\ Utf8At(DescriptorIndex(index, c, p, k)) = Members(c)[k].descriptor
               /\ Members(c)[k].name # Bad /\ Members(c)[k].descriptor # Bad
    <2>1. /\ 2 * n + p + (2 * k - 1) \in 1..N /\ 2 * n + p + (2 * k - 1) \in 1..(N - 1)
          /\ 2 * n + p + 2 * k \in 1..N /\ 2 * n + p + 2 * k \in 1..(N - 1)
      BY <1>1
    <2>2. /\ NameIndex(index, c, p, k) = index[2 * n + p + (2 * k - 1)]
          /\ DescriptorIndex(index, c, p, k) = index[2 * n + p + 2 * k]
      BY DEF NameIndex, DescriptorIndex, n
    <2>3. /\ Utf8At(index[2 * n + p + (2 * k - 1)]) = Members(c)[k].name
          /\ Members(c)[k].name # Bad
      BY <1>1, <1>3, <2>1
    <2>4. /\ Utf8At(index[2 * n + p + 2 * k]) = Members(c)[k].descriptor
          /\ Members(c)[k].descriptor # Bad
      BY <1>1, <1>3, <2>1
    <2> QED
      BY <2>2, <2>3, <2>4
  <1> QED
    BY <1>6, <1>7 DEF MembersAreFound, m, p

---------------------------------------------------------------------------
\* The class as far as it is read: its first interfaces, fields and methods.
SoFar(c, i, f, m) ==
    [access_flags |-> c.access_flags, this_class |-> c.this_class,
     super_class |-> c.super_class, interfaces |-> SubSeq(c.interfaces, 1, i),
     fields |-> SubSeq(c.fields, 1, f), methods |-> Callable(SubSeq(c.methods, 1, m))]

\* The first elements of a sequence, and one more.
LEMMA OneMoreOf ==
    ASSUME NEW C, NEW s \in Seq(C), NEW k \in 0..(Len(s) - 1)
    PROVE  /\ SubSeq(s, 1, k + 1) = Append(SubSeq(s, 1, k), s[k + 1])
           /\ SubSeq(s, 1, k) \in Seq(C) /\ s[k + 1] \in C
  <1>1. Len(s) \in Nat /\ k + 1 \in 1..Len(s) /\ s[k + 1] \in C
    BY LenProperties, ElementOfSeq
  <1> DEFINE a == SubSeq(s, 1, k)
             b == SubSeq(s, 1, k + 1)
  <1>2. a \in Seq(C) /\ Len(a) = k /\ \A i \in 1..k : a[i] = s[i]
    BY <1>1, SubSeqProperties
  <1>3. b \in Seq(C) /\ Len(b) = k + 1 /\ \A i \in 1..(k + 1) : b[i] = s[i]
    BY <1>1, SubSeqProperties
  <1> HIDE DEF a, b
  <1> DEFINE d == Append(a, s[k + 1])
  <1>4. /\ d \in Seq(C) /\ Len(d) = k + 1 /\ d[k + 1] = s[k + 1]
        /\ \A i \in 1..k : d[i] = a[i]
    BY <1>1, <1>2, AppendProperties
  <1> HIDE DEF d
  <1>5. \A i \in 1..(k + 1) : d[i] = b[i]
    <2> TAKE i \in 1..(k + 1)
    <2>1. i = k + 1 \/ i \in 1..k
      OBVIOUS
    <2> QED
      BY <1>2, <1>3, <1>4, <2>1
  <1>6. d = b
    BY <1>3, <1>4, <1>5, SeqEqual
  <1> QED
    BY <1>1, <1>2, <1>6 DEF a, b, d

\* None, and all, of the elements of a sequence.
LEMMA NoneAndAll ==
    ASSUME NEW C, NEW s \in Seq(C)
    PROVE  SubSeq(s, 1, 0) = <<>> /\ SubSeq(s, 1, Len(s)) = s
  <1>1. SubSeq(s, 1, 0) = <<>>
    BY SubSeqProperties
  <1>2. SubSeq(s, 1, Len(s)) = s
    <2> DEFINE b == SubSeq(s, 1, Len(s))
    <2>1. Len(s) \in Nat
      BY LenProperties
    <2>2. b \in Seq(C) /\ Len(b) = Len(s) /\ \A i \in 1..Len(s) : b[i] = s[i]
      BY <2>1, SubSeqProperties
    <2> HIDE DEF b
    <2>3. b = s
      BY <2>2, SeqEqual
    <2> QED
      BY <2>3 DEF b
  <1> QED
    BY <1>1, <1>2

(***************************************************************************)
(* The pool and the class, as they grow.                                   *)
(***************************************************************************)

\* What of a method is left, if it is one to call.
Kept(m) == IF m.name = Clinit THEN <<>> ELSE <<m>>

\* One method more, of those to call.
LEMMA CallableGrows ==
    ASSUME NEW s \in Seq(MemberRecord), NEW m \in MemberRecord
    PROVE  /\ Callable(<<>>) = <<>> /\ Callable(s) \in Seq(MemberRecord)
           /\ Callable(Append(s, m)) = IF m.name = Clinit THEN Callable(s)
                                      ELSE Append(Callable(s), m)
  <1> DEFINE n == Len(s)
             t == Append(s, m)
             before == [k \in DOMAIN s |-> Kept(s[k])]
             after == [k \in DOMAIN t |-> Kept(t[k])]
  <1>1. /\ n \in Nat /\ DOMAIN s = 1..n /\ \A k \in 1..n : s[k] \in MemberRecord
        /\ Len(t) = n + 1 /\ DOMAIN t = 1..(n + 1) /\ t[n + 1] = m
        /\ \A k \in 1..n : t[k] = s[k]
    BY LenProperties, ElementOfSeq, AppendProperties
  <1>2. Callable(s) = FlattenSeq(before) /\ Callable(t) = FlattenSeq(after)
    BY DEF Callable, Kept
  <1> HIDE DEF t
  <1>3. \A x \in MemberRecord : Kept(x) \in Seq(MemberRecord)
    BY EmptySeq, SeqDef DEF Kept
  <1>4. DOMAIN before = 1..n /\ \A k \in 1..n : before[k] = Kept(s[k])
    BY <1>1
  <1>5. before \in Seq(Seq(MemberRecord)) /\ Len(before) = n
    <2>1. \A k \in 1..n : before[k] \in Seq(MemberRecord)
      BY <1>1, <1>3, <1>4
    <2>2. before = [k \in DOMAIN before |-> before[k]]
      OBVIOUS
    <2> HIDE DEF before
    <2> QED
      BY <1>1, <1>4, <2>1, <2>2, ListOf
  <1>6. Kept(m) \in Seq(MemberRecord)
    BY <1>3
  <1>7. DOMAIN after = 1..(n + 1) /\ after[n + 1] = Kept(m) /\ \A k \in 1..n : after[k] = before[k]
    <2>1. \A k \in 1..n : k \in 1..(n + 1)
      BY <1>1
    <2>2. n + 1 \in 1..(n + 1)
      BY <1>1
    <2> QED
      BY <1>1, <1>4, <2>1, <2>2
  <1>8. after = Append(before, Kept(m))
    <2>1. after = [k \in DOMAIN after |-> after[k]]
      OBVIOUS
    <2> HIDE DEF before, after
    <2>2. \A k \in 1..(n + 1) : after[k] \in Seq(MemberRecord)
      <3> TAKE k \in 1..(n + 1)
      <3>1. k = n + 1 \/ k \in 1..n
        BY <1>1
      <3>2. \A j \in 1..n : before[j] \in Seq(MemberRecord)
        BY <1>5, ElementOfSeq
      <3> QED
        BY <1>6, <1>7, <3>1, <3>2
    <2>3. after \in Seq(Seq(MemberRecord)) /\ Len(after) = n + 1
      BY <1>1, <1>7, <2>1, <2>2, ListOf
    <2> DEFINE d == Append(before, Kept(m))
    <2>4. /\ d \in Seq(Seq(MemberRecord)) /\ Len(d) = n + 1 /\ d[n + 1] = Kept(m)
          /\ \A k \in 1..n : d[k] = before[k]
      BY <1>5, <1>6, AppendProperties
    <2> HIDE DEF d
    <2>5. \A k \in 1..(n + 1) : d[k] = after[k]
      <3> TAKE k \in 1..(n + 1)
      <3>1. k = n + 1 \/ k \in 1..n
        BY <1>1
      <3> QED
        BY <1>7, <2>4, <3>1
    <2>6. d = after
      BY <2>3, <2>4, <2>5, SeqEqual
    <2> QED
      BY <2>6 DEF d
  <1> HIDE DEF before, after
  <1>9. FlattenSeq(before) \in Seq(MemberRecord) /\ FlattenSeq(after) = FlattenSeq(before) \o Kept(m)
    BY <1>5, <1>6, <1>8, FlattenAppend
  <1>10. Callable(<<>>) = <<>>
    <2> DEFINE e == <<>>
               none == [k \in DOMAIN e |-> Kept(e[k])]
    <2>0. Len(e) = 0 /\ DOMAIN e = 1..0
      BY EmptySeq
    <2> HIDE DEF e
    <2>1. none = <<>>
      <3>1. DOMAIN none = 1..0 /\ none = [k \in DOMAIN none |-> none[k]]
        BY <2>0
      <3> HIDE DEF none
      <3>2. \A k \in 1..0 : none[k] \in Seq(MemberRecord)
        OBVIOUS
      <3>3. none \in Seq(Seq(MemberRecord)) /\ Len(none) = 0
        BY <3>1, <3>2, ListOf
      <3> QED
        BY <3>3, EmptySeq
    <2>2. Callable(<<>>) = FlattenSeq(<<>>)
      BY <2>1 DEF Callable, Kept, e
    <2>3. FlattenSeq(<<>>) = <<>>
      BY <1>5, <1>6, FlattenAppend
    <2> QED
      BY <2>2, <2>3
  <1> DEFINE f == FlattenSeq(before)
  <1>11. f \o <<>> = f /\ f \o <<m>> = Append(f, m)
    <2>1. f \in Seq(MemberRecord)
      BY <1>9
    <2> HIDE DEF f
    <2> QED
      BY <2>1, ConcatEmptySeq, AppendIsConcat
  <1> QED
    BY <1>2, <1>9, <1>10, <1>11 DEF Kept, t

---------------------------------------------------------------------------
\* The lengths and places of a file.
LEMMA Places ==
    ASSUME NEW file, NEW at, NEW K, NEW index, NEW c, NEW padding, NEW string,
           Setting(file, at, K, index, c, padding, string)
    PROVE  /\ Len(file) \in Nat /\ Len(bytes) \in Nat /\ Len(bytes) <= Len(file)
           /\ \A k \in 0..Len(K) : at[k] \in Nat
           /\ \A k \in 1..(Len(K) + 1) : index[k] \in Nat
           /\ Len(K) \in Nat \ {0} /\ at[0] = 10 /\ index[1] = 1
           /\ Len(c.interfaces) \in Nat /\ Len(c.fields) \in Nat /\ Len(c.methods) \in Nat
           /\ Len(ClassTexts(c)) = 2 + Len(c.interfaces) /\ Len(padding) \in Nat
           /\ Len(Members(c)) = Len(c.fields) + Len(c.methods)
           /\ InterfacesAt(at[Len(K)]) \in Nat /\ FieldsAt(c, at[Len(K)]) \in Nat
           /\ MethodsAt(c, at[Len(K)]) \in Nat /\ AttributesAt(c, at[Len(K)]) \in Nat
  <1>1. /\ Len(file) \in Nat /\ Len(bytes) \in Nat
    BY LenProperties DEF Setting
  <1>2. Len(bytes) <= Len(file)
    BY <1>1 DEF Setting, Stands
  <1>3. /\ c \in ClassRecord /\ AreConstants(K, c, padding, string) /\ AreIndices(index, K)
        /\ Len(K) \in Nat /\ HoldsConstants(file, at, K, index)
    BY DEF Setting, IsFile
  <1>4. Len(padding) \in Nat /\ Len(K) \in Nat \ {0}
    BY <1>3 DEF AreConstants
  <1>5. (\A k \in 0..Len(K) : at[k] \in Nat) /\ at[0] = 10
    BY <1>3 DEF HoldsConstants
  <1>6. index[1] = 1 /\ \A k \in 1..(Len(K) + 1) : index[k] \in Nat
    BY <1>3 DEF AreIndices
  <1>7. /\ Len(c.interfaces) \in Nat /\ Len(c.fields) \in Nat /\ Len(c.methods) \in Nat
        /\ Len(ClassTexts(c)) = 2 + Len(c.interfaces)
        /\ Len(Members(c)) = Len(c.fields) + Len(c.methods)
    BY <1>3, ClassParts
  <1>8. at[Len(K)] \in Nat
    BY <1>4, <1>5
  <1>9. /\ InterfacesAt(at[Len(K)]) \in Nat /\ FieldsAt(c, at[Len(K)]) \in Nat
        /\ MethodsAt(c, at[Len(K)]) \in Nat /\ AttributesAt(c, at[Len(K)]) \in Nat
    <2> DEFINE names == at[Len(K)]
               i == Len(c.interfaces)
               f == Len(c.fields)
               m == Len(c.methods)
    <2>1. names \in Nat /\ i \in Nat /\ f \in Nat /\ m \in Nat
      BY <1>7, <1>8
    <2>2. /\ InterfacesAt(names) = names + 8 /\ FieldsAt(c, names) = names + 10 + 2 * i
          /\ MethodsAt(c, names) = FieldsAt(c, names) + 15 * f + 2
          /\ AttributesAt(c, names) = MethodsAt(c, names) + 15 * m
      BY DEF InterfacesAt, FieldsAt, MethodsAt, AttributesAt
    <2> HIDE DEF names, i, f, m
    <2>3. InterfacesAt(names) \in Nat /\ FieldsAt(c, names) \in Nat
      BY <2>1, <2>2
    <2>4. MethodsAt(c, names) \in Nat
      BY <2>1, <2>2, <2>3
    <2>5. AttributesAt(c, names) \in Nat
      BY <2>1, <2>2, <2>4
    <2> QED
      BY <2>3, <2>4, <2>5 DEF names
  <1> QED
    BY <1>1, <1>2, <1>4, <1>5, <1>6, <1>7, <1>9

\* A number of the file that lies within what is there is read as it was written, and
\* lies there when all of it is there.
LEMMA NumberFits ==
    ASSUME NEW file, NEW at, NEW K, NEW index, NEW c, NEW padding, NEW string,
           Setting(file, at, K, index, c, padding, string),
           NEW p \in Nat, NEW n \in Nat, Stands(file, p, B2(n))
    PROVE  /\ p + 2 <= Len(bytes) => U2(p) = n
           /\ Len(bytes) = Len(file) => p + 2 <= Len(bytes)
  <1>1. B2(n) \in Seq(Nat) /\ Len(B2(n)) = 2
    BY TwoBytes
  <1>2. file \in Seq(Nat) /\ bytes \in Seq(Nat) /\ Stands(file, 0, bytes)
    BY DEF Setting
  <1>3. p + 2 <= Len(file)
    BY <1>1 DEF Stands
  <1>4. ASSUME p + 2 <= Len(bytes) PROVE U2(p) = n
    <2>1. Stands(bytes, p, B2(n))
      BY <1>1, <1>2, <1>4, BeginningHas
    <2> QED
      BY <1>2, <2>1, NumberIsRead
  <1> QED
    BY <1>3, <1>4

\* The whole file is there, and its string is a text.
Whole(file, string) == Len(bytes) = Len(file) /\ ~Unpaired(string)

\* The header.
LEMMA HeaderItem ==
    ASSUME NEW file, NEW at, NEW K, NEW index, NEW c, NEW padding, NEW string,
           Setting(file, at, K, index, c, padding, string), phase = "header"
    PROVE  /\ ItemEnd = 10
           /\ ItemEnd <= Len(bytes) => U2(8) = index[Len(K) + 1]
           /\ Whole(file, string) => CanRead("header")
  <1>1. ItemEnd = 10
    BY DEF ItemEnd
  <1>2. Stands(file, 8, B2(index[Len(K) + 1])) /\ index[Len(K) + 1] \in Nat
    <2>1. Len(K) \in Nat \ {0} /\ \A k \in 1..(Len(K) + 1) : index[k] \in Nat
      BY Places
    <2>2. Len(K) + 1 \in 1..(Len(K) + 1)
      BY <2>1
    <2>3. Stands(file, 8, B2(index[Len(K) + 1]))
      BY DEF Setting, IsFile
    <2> QED
      BY <2>1, <2>2, <2>3
  <1>3. /\ 8 + 2 <= Len(bytes) => U2(8) = index[Len(K) + 1]
        /\ Len(bytes) = Len(file) => 8 + 2 <= Len(bytes)
    BY <1>2, NumberFits
  <1>4. ASSUME Whole(file, string) PROVE SubSeq(bytes, 1, 4) = MAGIC
    <2>1. /\ Stands(file, 0, MAGIC) /\ file \in Seq(Nat) /\ bytes \in Seq(Nat)
          /\ Stands(file, 0, bytes)
      BY DEF Setting, IsFile
    <2>2. MAGIC \in Seq(Nat) /\ Len(MAGIC) = 4
      BY DEF MAGIC
    <2> DEFINE b == SubSeq(bytes, 1, 4)
    <2>3. Len(bytes) >= 4 /\ Len(bytes) \in Nat /\ Len(bytes) = Len(file)
      BY <1>3, <1>4, Places DEF Whole
    <2>4. b \in Seq(Nat) /\ Len(b) = 4 /\ \A i \in 1..4 : b[i] = bytes[i]
      BY <2>1, <2>3, SubSeqProperties, SMTT(30)
    <2>5. Stands(bytes, 0, MAGIC)
      <3>1. 0 + Len(MAGIC) <= Len(bytes)
        BY <2>2, <2>3
      <3> QED
        BY <2>1, <2>2, <3>1, BeginningHas
    <2> HIDE DEF b
    <2>6. \A i \in 1..4 : bytes[0 + i] = MAGIC[i] /\ 0 + i = i
      BY <2>2, <2>5 DEF Stands
    <2>7. \A i \in 1..4 : b[i] = MAGIC[i]
      BY <2>4, <2>6
    <2>8. b = MAGIC
      <3>1. Len(b) = Len(MAGIC) /\ \A i \in 1..Len(b) : b[i] = MAGIC[i]
        BY <2>2, <2>4, <2>7
      <3> QED
        BY <2>2, <2>4, <3>1, SeqEqual
    <2> QED
      BY <2>8 DEF b
  <1>5. ASSUME Whole(file, string) PROVE CanRead("header")
    <2>1. ItemMakesSense
      BY <1>4, <1>5 DEF ItemMakesSense
    <2>2. ItemEnd <= Len(bytes)
      BY <1>1, <1>3, <1>5 DEF Whole
    <2> QED
      BY <2>1, <2>2 DEF CanRead
  <1> QED
    BY <1>1, <1>3, <1>5

\* A constant of the file, as it is written.
LEMMA ConstantOf ==
    ASSUME NEW file, NEW at, NEW K, NEW index, NEW c, NEW padding, NEW string,
           Setting(file, at, K, index, c, padding, string), NEW k \in 1..Len(K)
    PROVE  /\ IsWritten(K[k], index, Len(K), ConstantBytes(K[k], index))
           /\ at[k - 1] \in Nat /\ at[k] \in Nat
           /\ at[k] = at[k - 1] + Len(ConstantBytes(K[k], index))
           /\ Stands(file, at[k - 1], ConstantBytes(K[k], index)) /\ at[k] <= Len(file)
  <1> DEFINE written == ConstantBytes(K[k], index)
             n == Len(K)
  <1>1. /\ AreConstants(K, c, padding, string) /\ AreIndices(index, K) /\ n \in Nat
        /\ HoldsConstants(file, at, K, index)
    BY DEF Setting, IsFile
  <1>2. DOMAIN K = 1..n /\ \A j \in 1..n : IsConstant(K[j], n)
    BY <1>1 DEF AreConstants
  <1>3. HasParts(K[k], index, written)
    BY <1>1, <1>2, ConstantsStand
  <1>4. K[k].tag = 7 => index[K[k].text] \in Nat
    <2>1. K[k].tag = 7 => K[k].text \in 1..n
      BY <1>2, PayloadIs DEF IsConstant
    <2>2. 1..n \subseteq 1..(n + 1)
      BY <1>1
    <2> QED
      BY <1>1, <2>1, <2>2 DEF AreIndices
  <1>5. IsWritten(K[k], index, n, written)
    BY <1>2, <1>3, <1>4 DEF IsWritten
  <1>6. k - 1 \in 0..n /\ k \in 0..n
    BY <1>1
  <1>7. /\ at[k - 1] \in Nat /\ at[k] \in Nat /\ at[k] = at[k - 1] + Len(written)
        /\ Stands(file, at[k - 1], written)
    BY <1>1, <1>6 DEF HoldsConstants
  <1>8. at[k] <= Len(file)
    BY <1>7 DEF Stands
  <1> QED
    BY <1>5, <1>7, <1>8

\* A text that is one of the file's, but for the string, is a name.
LEMMA TextOfName ==
    ASSUME NEW file, NEW at, NEW K, NEW index, NEW c, NEW padding, NEW string,
           Setting(file, at, K, index, c, padding, string), NEW k \in 1..Len(K), K[k].tag = 1
    PROVE  /\ k # Len(K) => ~Unpaired(K[k].text)
           /\ k = Len(K) => K[k].text = string
           /\ K[k].text # Bad
  <1> DEFINE n == Len(K)
  <1>1. /\ n \in Nat /\ \A j \in 1..n : IsConstant(K[j], n)
        /\ \A j \in 1..(n - 1) : K[j].tag = 1 => IsName(K[j].text)
        /\ K[n].text = string
    BY DEF Setting, AreConstants
  <1>2. ASSUME k # n PROVE ~Unpaired(K[k].text)
    <2>1. IsName(K[k].text)
      BY <1>1, <1>2
    <2>2. K[k].text \in Name
      BY <2>1, NamesAreTexts
    <2> QED
      BY <2>2, NamesAreStrings
  <1>3. IsString(K[k].text)
    BY <1>1, PayloadIs DEF IsConstant
  <1>4. K[k].text # Bad
    <2> SUFFICES ASSUME K[k].text = Bad PROVE FALSE
      OBVIOUS
    <2>1. Bad \in Seq(0..LastCodePoint)
      BY <1>3 DEF IsString
    <2>2. Len(Bad) = 1 /\ Bad[1] = -1
      BY DEF Bad
    <2>3. Bad[1] \in 0..LastCodePoint
      <3>1. 1 \in 1..Len(Bad)
        BY <2>2
      <3> QED
        BY <2>1, <3>1, ElementOfSeq
    <2> QED
      BY <2>2, <2>3, Bounds
  <1> QED
    BY <1>1, <1>2, <1>4

\* A constant.
LEMMA ConstantItem ==
    ASSUME NEW file, NEW at, NEW K, NEW index, NEW c, NEW padding, NEW string,
           Setting(file, at, K, index, c, padding, string), phase = "constants",
           NEW k \in 1..Len(K), pos = at[k - 1]
    PROVE  /\ CanRead("constants") =>
                 /\ ItemEnd = at[k] /\ Constant = EntriesOf(K[k], index)
                 /\ k = Len(K) => ~Unpaired(string)
           /\ Whole(file, string) => CanRead("constants")
  <1> DEFINE written == ConstantBytes(K[k], index)
             n == Len(K)
  <1>1. /\ IsWritten(K[k], index, n, written) /\ at[k - 1] \in Nat /\ at[k] \in Nat
        /\ at[k] = at[k - 1] + Len(written)
        /\ Stands(file, at[k - 1], written) /\ at[k] <= Len(file)
    BY ConstantOf
  <1>2. /\ file \in Seq(Nat) /\ bytes \in Seq(Nat) /\ Stands(file, 0, bytes) /\ pos \in Nat
    BY <1>1 DEF Setting
  <1>3. ItemEnd = ConstantEnd
    BY DEF ItemEnd
  <1>4. written \in Seq(Nat) /\ Len(written) \in Nat
    BY <1>1, LenProperties DEF IsWritten, HasParts
  <1> HIDE DEF written
  <1>5. ASSUME Stands(bytes, pos, written)
        PROVE  /\ Byte(pos) = K[k].tag /\ K[k].tag \in Tag /\ ItemEnd = at[k]
               /\ Constant = EntriesOf(K[k], index)
    BY <1>1, <1>2, <1>3, <1>5, ConstantIsRead
  <1>6. ASSUME CanRead("constants") PROVE Stands(bytes, pos, written)
    <2>1. ConstantEnd <= Len(bytes)
      BY <1>3, <1>6 DEF CanRead
    <2> QED
      BY <1>1, <1>2, <2>1, ConstantFits
  <1>7. K[k].tag = 1 =>
            EntriesOf(K[k], index)[1].text = IF Unpaired(K[k].text) THEN Bad ELSE K[k].text
    BY DEF EntriesOf
  <1>8. ASSUME CanRead("constants"), k = n PROVE ~Unpaired(string)
    <2>1. K[k].tag = 1
      BY <1>8 DEF Setting, AreConstants
    <2>2. Byte(pos) = 1 /\ Constant = EntriesOf(K[k], index)
      BY <1>5, <1>6, <1>8, <2>1
    <2>3. Constant[1].text # Bad
      BY <1>8, <2>2 DEF CanRead, ItemMakesSense
    <2>4. K[k].text = string
      BY <1>8, <2>1, TextOfName
    <2> QED
      BY <1>7, <2>1, <2>2, <2>3, <2>4
  <1>9. ASSUME Whole(file, string) PROVE CanRead("constants")
    <2>1. at[k - 1] + Len(written) <= Len(bytes)
      BY <1>1, <1>9 DEF Whole
    <2>2. Stands(bytes, pos, written)
      BY <1>1, <1>2, <1>4, <2>1, BeginningHas
    <2>3. /\ Byte(pos) = K[k].tag /\ K[k].tag \in Tag /\ ItemEnd = at[k]
          /\ Constant = EntriesOf(K[k], index)
      BY <1>5, <2>2
    <2>4. K[k].tag = 1 => ~Unpaired(K[k].text) /\ K[k].text # Bad
      BY <1>9, TextOfName DEF Whole
    <2>5. ItemMakesSense
      BY <1>7, <2>3, <2>4 DEF ItemMakesSense
    <2>6. ItemEnd <= Len(bytes)
      BY <1>1, <1>9, <2>3 DEF Whole
    <2> QED
      BY <2>5, <2>6 DEF CanRead
  <1> QED
    BY <1>5, <1>6, <1>8, <1>9

\* The class's own names.
LEMMA NamesItem ==
    ASSUME NEW file, NEW at, NEW K, NEW index, NEW c, NEW padding, NEW string,
           Setting(file, at, K, index, c, padding, string), phase = "names",
           pos = at[Len(K)], ClassIsFound(c)
    PROVE  /\ ItemEnd = InterfacesAt(at[Len(K)])
           /\ CanRead("names") =>
                 /\ U2(pos) = c.access_flags /\ U2(pos + 4) # 0 /\ U2(pos + 6) = Len(c.interfaces)
                 /\ ClassNameAt(U2(pos + 2)) = c.this_class
                 /\ ClassNameAt(U2(pos + 4)) = c.super_class
           /\ Whole(file, string) => CanRead("names")
  <1> DEFINE i == Len(c.interfaces)
             flags == c.access_flags
  <1>1. pos \in Nat /\ i \in Nat /\ Len(K) \in Nat /\ Len(bytes) \in Nat
    <2>1. /\ i \in Nat /\ Len(K) \in Nat /\ Len(bytes) \in Nat
          /\ \A k \in 0..Len(K) : at[k] \in Nat
      BY Places
    <2>2. Len(K) \in 0..Len(K)
      BY <2>1
    <2> QED
      BY <2>1, <2>2
  <1>2. flags \in Nat
    BY DEF Setting, ClassRecord
  <1>3. /\ Stands(file, pos, B2(flags)) /\ Stands(file, pos + 2, B2(1))
        /\ Stands(file, pos + 4, B2(2)) /\ Stands(file, pos + 6, B2(i))
    BY DEF Setting, IsFile, HoldsClass
  <1>4. ItemEnd = pos + 8 /\ ItemEnd = InterfacesAt(at[Len(K)])
    BY DEF ItemEnd, InterfacesAt
  <1>5. pos + 2 \in Nat /\ pos + 4 \in Nat /\ pos + 6 \in Nat /\ 1 \in Nat /\ 2 \in Nat
    BY <1>1
  <1> HIDE DEF i, flags
  <1>6. /\ pos + 2 <= Len(bytes) => U2(pos) = flags
        /\ pos + 2 + 2 <= Len(bytes) => U2(pos + 2) = 1
        /\ pos + 4 + 2 <= Len(bytes) => U2(pos + 4) = 2
        /\ pos + 6 + 2 <= Len(bytes) => U2(pos + 6) = i
        /\ Len(bytes) = Len(file) => pos + 6 + 2 <= Len(bytes)
    BY <1>1, <1>2, <1>3, <1>5, NumberFits
  <1>7. ASSUME ItemEnd <= Len(bytes)
        PROVE  U2(pos) = flags /\ U2(pos + 2) = 1 /\ U2(pos + 4) = 2 /\ U2(pos + 6) = i
    <2>1. /\ pos + 2 <= Len(bytes) /\ pos + 2 + 2 <= Len(bytes) /\ pos + 4 + 2 <= Len(bytes)
          /\ pos + 6 + 2 <= Len(bytes)
      BY <1>1, <1>4, <1>7
    <2> QED
      BY <1>6, <2>1
  <1>8. /\ ClassNameAt(1) = c.this_class /\ ClassNameAt(1) # Bad
        /\ ClassNameAt(2) = c.super_class /\ ClassNameAt(2) # Bad
    BY DEF ClassIsFound
  <1>9. ASSUME Whole(file, string) PROVE CanRead("names")
    <2>1. ItemEnd <= Len(bytes)
      BY <1>1, <1>4, <1>6, <1>9 DEF Whole
    <2>2. ItemMakesSense
      BY <1>7, <1>8, <2>1 DEF ItemMakesSense
    <2> QED
      BY <2>1, <2>2 DEF CanRead
  <1>10. ASSUME CanRead("names")
         PROVE  /\ U2(pos) = flags /\ U2(pos + 4) # 0 /\ U2(pos + 6) = i
                /\ ClassNameAt(U2(pos + 2)) = c.this_class
                /\ ClassNameAt(U2(pos + 4)) = c.super_class
    <2>1. ItemEnd <= Len(bytes)
      BY <1>10 DEF CanRead
    <2> QED
      BY <1>7, <1>8, <2>1
  <1> QED
    BY <1>4, <1>9, <1>10 DEF i, flags

\* The name of an interface.
LEMMA InterfaceItem ==
    ASSUME NEW file, NEW at, NEW K, NEW index, NEW c, NEW padding, NEW string,
           Setting(file, at, K, index, c, padding, string), phase = "interfaces",
           NEW k \in 1..Len(c.interfaces), pos = InterfacesAt(at[Len(K)]) + 2 * (k - 1),
           ClassIsFound(c)
    PROVE  /\ ItemEnd = InterfacesAt(at[Len(K)]) + 2 * k
           /\ CanRead("interfaces") => ClassNameAt(U2(pos)) = c.interfaces[k]
           /\ Whole(file, string) => CanRead("interfaces")
  <1>1. InterfacesAt(at[Len(K)]) \in Nat /\ Len(c.interfaces) \in Nat /\ Len(bytes) \in Nat
    BY Places
  <1>2. /\ pos \in Nat /\ 2 + k \in Nat
        /\ InterfacesAt(at[Len(K)]) + 2 * k = pos + 2
    BY <1>1
  <1>3. Stands(file, pos, B2(2 + k))
    BY DEF Setting, IsFile, HoldsClass
  <1>4. ItemEnd = pos + 2
    BY DEF ItemEnd
  <1>5. /\ pos + 2 <= Len(bytes) => U2(pos) = 2 + k
        /\ Len(bytes) = Len(file) => pos + 2 <= Len(bytes)
    BY <1>2, <1>3, NumberFits
  <1>6. ClassNameAt(2 + k) = c.interfaces[k] /\ ClassNameAt(2 + k) # Bad
    BY DEF ClassIsFound
  <1>7. CanRead("interfaces") => ClassNameAt(U2(pos)) = c.interfaces[k]
    BY <1>4, <1>5, <1>6 DEF CanRead
  <1>8. ASSUME Whole(file, string) PROVE CanRead("interfaces")
    BY <1>4, <1>5, <1>6, <1>8 DEF CanRead, ItemMakesSense, Whole
  <1> QED
    BY <1>2, <1>4, <1>7, <1>8

\* A member stands in the part of a file that goes beyond it.
LEMMA MemberWithin ==
    ASSUME bytes \in Seq(Nat), NEW file \in Seq(Nat), Stands(file, 0, bytes), NEW p \in Nat,
           NEW m, m.access_flags \in Nat, NEW name \in Nat, NEW descriptor \in Nat,
           IsMemberAt(file, p, m, name, descriptor), Len(bytes) = Len(file)
    PROVE  IsMemberAt(bytes, p, m, name, descriptor)
  <1> DEFINE n == Len(bytes)
             a == B2(m.access_flags)
             b == B2(name)
             d == B2(descriptor)
             one == B2(1)
             five == <<0, 0, 0, 1, 9>>
  <1>1. /\ p + 2 \in Nat /\ p + 4 \in Nat /\ p + 6 \in Nat /\ p + 10 \in Nat /\ 1 \in Nat
        /\ n \in Nat
    BY LenProperties
  <1>2. a \in Seq(Nat) /\ b \in Seq(Nat) /\ d \in Seq(Nat) /\ one \in Seq(Nat)
    BY <1>1, TwoBytes
  <1>3. five \in Seq(Nat)
    OBVIOUS
  <1>4. /\ Stands(file, p, a) /\ Stands(file, p + 2, b) /\ Stands(file, p + 4, d)
        /\ Stands(file, p + 6, one) /\ Stands(file, p + 10, five)
    BY DEF IsMemberAt
  <1> HIDE DEF a, b, d, one, five
  <1>5. /\ p + Len(a) <= n /\ p + 2 + Len(b) <= n /\ p + 4 + Len(d) <= n
        /\ p + 6 + Len(one) <= n /\ p + 10 + Len(five) <= n
    BY <1>4 DEF Stands
  <1>6. Stands(bytes, p, a)
    BY <1>1, <1>2, <1>4, <1>5, BeginningHas
  <1>7. Stands(bytes, p + 2, b)
    BY <1>1, <1>2, <1>4, <1>5, BeginningHas
  <1>8. Stands(bytes, p + 4, d)
    BY <1>1, <1>2, <1>4, <1>5, BeginningHas
  <1>9. Stands(bytes, p + 6, one)
    BY <1>1, <1>2, <1>4, <1>5, BeginningHas
  <1>10. Stands(bytes, p + 10, five)
    BY <1>1, <1>3, <1>4, <1>5, BeginningHas
  <1> QED
    BY <1>6, <1>7, <1>8, <1>9, <1>10 DEF IsMemberAt, a, b, d, one, five

\* A member that stands at pos, as it is written.
LEMMA MemberItem ==
    ASSUME NEW file, NEW at, NEW K, NEW index, NEW c, NEW padding, NEW string,
           Setting(file, at, K, index, c, padding, string), phase \in {"fields", "methods"},
           NEW k \in 1..Len(Members(c)), pos \in Nat, MembersAreFound(index, c, Len(padding)),
           IsMemberAt(file, pos, Members(c)[k], NameIndex(index, c, Len(padding), k),
                      DescriptorIndex(index, c, Len(padding), k))
    PROVE  /\ ItemEnd <= Len(bytes) => Member = Members(c)[k] /\ ItemEnd = pos + 15
           /\ Whole(file, string) => CanRead(phase)
  <1> DEFINE m == Members(c)[k]
             name == NameIndex(index, c, Len(padding), k)
             descriptor == DescriptorIndex(index, c, Len(padding), k)
  <1>1. /\ file \in Seq(Nat) /\ bytes \in Seq(Nat) /\ Stands(file, 0, bytes)
        /\ c \in ClassRecord /\ AreConstants(K, c, padding, string) /\ AreIndices(index, K)
    BY DEF Setting
  <1>2. m \in MemberRecord
    BY <1>1, ClassParts, ElementOfSeq
  <1>3. name \in Nat /\ descriptor \in Nat
    BY <1>1, TextIndices
  <1>4. m.access_flags \in Nat /\ m = [name |-> m.name, descriptor |-> m.descriptor,
                                       access_flags |-> m.access_flags]
    BY <1>2 DEF MemberRecord
  <1>5. /\ Utf8At(name) = m.name /\ Utf8At(descriptor) = m.descriptor
        /\ m.name # Bad /\ m.descriptor # Bad
    BY DEF MembersAreFound
  <1>6. IsMemberAt(file, pos, m, name, descriptor)
    OBVIOUS
  <1>7. ItemEnd = AttributesEnd(pos + 6)
    BY DEF ItemEnd
  <1> HIDE DEF m, name, descriptor
  <1>8. ASSUME IsMemberAt(bytes, pos, m, name, descriptor)
        PROVE  Member = m /\ ItemEnd = pos + 15 /\ pos + 15 <= Len(bytes)
    <2>1. /\ U2(pos) = m.access_flags /\ U2(pos + 2) = name /\ U2(pos + 4) = descriptor
          /\ AttributesEnd(pos + 6) = pos + 15 /\ pos + 15 <= Len(bytes)
      BY <1>1, <1>3, <1>4, <1>8, MemberIsRead
    <2>2. Member = [name |-> m.name, descriptor |-> m.descriptor,
                    access_flags |-> m.access_flags]
      BY <1>5, <2>1 DEF Member
    <2> QED
      BY <1>4, <1>7, <2>1, <2>2
  <1>9. ASSUME ItemEnd <= Len(bytes) PROVE Member = m /\ ItemEnd = pos + 15
    <2>1. IsMemberAt(bytes, pos, m, name, descriptor)
      BY <1>1, <1>3, <1>4, <1>6, <1>7, <1>9, MemberFits
    <2> QED
      BY <1>8, <2>1
  <1>10. ASSUME Whole(file, string) PROVE CanRead(phase)
    <2>1. IsMemberAt(bytes, pos, m, name, descriptor)
      <3>1. Len(bytes) = Len(file)
        BY <1>10 DEF Whole
      <3> QED
        BY <1>1, <1>3, <1>4, <1>6, <3>1, MemberWithin
    <2>2. Member = m /\ ItemEnd = pos + 15 /\ pos + 15 <= Len(bytes)
      BY <1>8, <2>1
    <2>3. ItemMakesSense
      BY <1>5, <2>2 DEF ItemMakesSense
    <2> QED
      BY <2>2, <2>3 DEF CanRead
  <1> QED
    BY <1>9, <1>10 DEF m

\* A field, and a method.
LEMMA FieldItem ==
    ASSUME NEW file, NEW at, NEW K, NEW index, NEW c, NEW padding, NEW string,
           Setting(file, at, K, index, c, padding, string), phase = "fields",
           NEW k \in 1..Len(c.fields), pos = FieldsAt(c, at[Len(K)]) + 15 * (k - 1),
           MembersAreFound(index, c, Len(padding))
    PROVE  /\ ItemEnd <= Len(bytes) =>
                 /\ Member = c.fields[k]
                 /\ ItemEnd = FieldsAt(c, at[Len(K)]) + 15 * k
           /\ Whole(file, string) => CanRead("fields")
  <1> DEFINE a == FieldsAt(c, at[Len(K)])
             f == Len(c.fields)
             m == Len(Members(c))
  <1>1. a \in Nat /\ f \in Nat /\ m = f + Len(c.methods) /\ Len(c.methods) \in Nat
    BY Places
  <1>2. IsMemberAt(file, pos, c.fields[k], NameIndex(index, c, Len(padding), k),
                   DescriptorIndex(index, c, Len(padding), k))
    BY DEF Setting, IsFile, HoldsClass
  <1>3. Members(c)[k] = c.fields[k]
    BY ClassParts DEF Setting
  <1> HIDE DEF a, f, m
  <1>4. pos = a + 15 * (k - 1) /\ k \in 1..f
    BY DEF a, f
  <1>5. pos \in Nat /\ pos + 15 = a + 15 * k /\ k \in 1..m
    BY <1>1, <1>4
  <1>6. k \in 1..Len(Members(c)) /\ phase \in {"fields", "methods"}
    BY <1>5 DEF m
  <1>7. /\ ItemEnd <= Len(bytes) => Member = Members(c)[k] /\ ItemEnd = pos + 15
        /\ Whole(file, string) => CanRead(phase)
    BY <1>2, <1>3, <1>5, <1>6, MemberItem
  <1> QED
    BY <1>3, <1>5, <1>7 DEF a

\* A method.
LEMMA MethodItem ==
    ASSUME NEW file, NEW at, NEW K, NEW index, NEW c, NEW padding, NEW string,
           Setting(file, at, K, index, c, padding, string), phase = "methods",
           NEW k \in 1..Len(c.methods), pos = MethodsAt(c, at[Len(K)]) + 15 * (k - 1),
           MembersAreFound(index, c, Len(padding))
    PROVE  /\ ItemEnd <= Len(bytes) =>
                 /\ Member = c.methods[k]
                 /\ ItemEnd = MethodsAt(c, at[Len(K)]) + 15 * k
           /\ Whole(file, string) => CanRead("methods")
  <1> DEFINE a == MethodsAt(c, at[Len(K)])
             f == Len(c.fields)
             m == Len(Members(c))
             j == f + k
  <1>1. a \in Nat /\ f \in Nat /\ m = f + Len(c.methods) /\ Len(c.methods) \in Nat
    BY Places
  <1>2. IsMemberAt(file, pos, c.methods[k], NameIndex(index, c, Len(padding), j),
                   DescriptorIndex(index, c, Len(padding), j))
    BY DEF Setting, IsFile, HoldsClass
  <1>3. Members(c)[j] = c.methods[k]
    BY ClassParts DEF Setting
  <1> HIDE DEF a, f, m
  <1>4. pos = a + 15 * (k - 1)
    BY DEF a
  <1>5. pos \in Nat /\ pos + 15 = a + 15 * k /\ j \in 1..m
    BY <1>1, <1>4
  <1> HIDE DEF j
  <1>6. j \in 1..Len(Members(c)) /\ phase \in {"fields", "methods"}
    BY <1>5 DEF m
  <1>7. /\ ItemEnd <= Len(bytes) => Member = Members(c)[j] /\ ItemEnd = pos + 15
        /\ Whole(file, string) => CanRead(phase)
    BY <1>2, <1>3, <1>5, <1>6, MemberItem
  <1> QED
    BY <1>3, <1>5, <1>7 DEF a

\* The numbers of fields and of methods, in front of them.
LEMMA CountItem ==
    ASSUME NEW file, NEW at, NEW K, NEW index, NEW c, NEW padding, NEW string,
           Setting(file, at, K, index, c, padding, string)
    PROVE  /\ pos = FieldsAt(c, at[Len(K)]) - 2 =>
                 /\ pos + 2 <= Len(bytes) => U2(pos) = Len(c.fields)
                 /\ Len(bytes) = Len(file) => pos + 2 <= Len(bytes)
           /\ pos = MethodsAt(c, at[Len(K)]) - 2 =>
                 /\ pos + 2 <= Len(bytes) => U2(pos) = Len(c.methods)
                 /\ Len(bytes) = Len(file) => pos + 2 <= Len(bytes)
           /\ FieldsAt(c, at[Len(K)]) = InterfacesAt(at[Len(K)]) + 2 * Len(c.interfaces) + 2
           /\ MethodsAt(c, at[Len(K)]) = FieldsAt(c, at[Len(K)]) + 15 * Len(c.fields) + 2
           /\ AttributesAt(c, at[Len(K)]) = MethodsAt(c, at[Len(K)]) + 15 * Len(c.methods)
  <1> DEFINE names == at[Len(K)]
             i == Len(c.interfaces)
             f == Len(c.fields)
             m == Len(c.methods)
  <1>1. i \in Nat /\ f \in Nat /\ m \in Nat /\ FieldsAt(c, names) \in Nat
    BY Places
  <1>2. names \in Nat
    <2>1. Len(K) \in Nat \ {0} /\ \A k \in 0..Len(K) : at[k] \in Nat
      BY Places
    <2>2. Len(K) \in 0..Len(K)
      BY <2>1
    <2> QED
      BY <2>1, <2>2
  <1>3. /\ Stands(file, FieldsAt(c, names) - 2, B2(f))
        /\ Stands(file, MethodsAt(c, names) - 2, B2(m))
    BY DEF Setting, IsFile, HoldsClass
  <1>4. /\ FieldsAt(c, names) = names + 10 + 2 * i /\ InterfacesAt(names) = names + 8
        /\ MethodsAt(c, names) = FieldsAt(c, names) + 15 * f + 2
        /\ AttributesAt(c, names) = MethodsAt(c, names) + 15 * m
    BY DEF FieldsAt, InterfacesAt, MethodsAt, AttributesAt
  <1> HIDE DEF names, i, f, m
  <1>5. FieldsAt(c, names) - 2 \in Nat /\ FieldsAt(c, names) = InterfacesAt(names) + 2 * i + 2
    BY <1>1, <1>2, <1>4
  <1>6. MethodsAt(c, names) - 2 \in Nat
    BY <1>1, <1>4
  <1>7. pos = FieldsAt(c, names) - 2 =>
            /\ pos + 2 <= Len(bytes) => U2(pos) = f
            /\ Len(bytes) = Len(file) => pos + 2 <= Len(bytes)
    BY <1>1, <1>3, <1>5, NumberFits
  <1>8. pos = MethodsAt(c, names) - 2 =>
            /\ pos + 2 <= Len(bytes) => U2(pos) = m
            /\ Len(bytes) = Len(file) => pos + 2 <= Len(bytes)
    BY <1>1, <1>3, <1>6, NumberFits
  <1> QED
    BY <1>4, <1>5, <1>7, <1>8 DEF names, i, f, m

\* The attributes of the class: it has none, and nothing follows them.
LEMMA AttributesItem ==
    ASSUME NEW file, NEW at, NEW K, NEW index, NEW c, NEW padding, NEW string,
           Setting(file, at, K, index, c, padding, string), phase = "attributes",
           pos = AttributesAt(c, at[Len(K)])
    PROVE  /\ CanRead("attributes") => ItemEnd = Len(bytes) /\ Len(bytes) = Len(file)
           /\ Whole(file, string) => CanRead("attributes")
  <1>1. /\ pos \in Nat /\ Len(bytes) \in Nat /\ Len(file) \in Nat /\ Len(bytes) <= Len(file)
    BY Places
  <1>2. bytes \in Seq(Nat) /\ Stands(file, pos, B2(0)) /\ Len(file) = pos + 2
    BY DEF Setting, IsFile, HoldsClass
  <1>3. ItemEnd = AttributesEnd(pos)
    BY DEF ItemEnd
  <1>4. /\ AttributesEnd(pos) \in Nat /\ AttributesEnd(pos) >= pos + 2
        /\ U2(pos) = 0 => AttributesEnd(pos) = pos + 2
    BY <1>1, <1>2, AttributesAre
  <1>5. pos + 2 <= Len(bytes) => U2(pos) = 0
    BY <1>1, <1>2, NumberFits
  <1>6. ASSUME CanRead("attributes") PROVE ItemEnd = Len(bytes) /\ Len(bytes) = Len(file)
    <2>1. ItemEnd <= Len(bytes)
      BY <1>6 DEF CanRead
    <2> QED
      BY <1>1, <1>2, <1>3, <1>4, <2>1
  <1>7. ASSUME Whole(file, string) PROVE CanRead("attributes")
    <2>1. ItemEnd <= Len(bytes)
      BY <1>1, <1>2, <1>3, <1>4, <1>5, <1>7 DEF Whole
    <2> QED
      BY <2>1 DEF CanRead, ItemMakesSense
  <1> QED
    BY <1>6, <1>7

(***************************************************************************)
(* How far a file is read, and that a step reads on.                       *)
(***************************************************************************)

\* How far a file is read, phase by phase.
AtHeader == pos = 0 /\ left = 0 /\ pool = <<Unusable>> /\ class = NoClassYet
InConstants(at, K, index, string) ==
    /\ class = NoClassYet /\ count = index[Len(K) + 1]
    /\ \E k \in 0..Len(K) :
          /\ pos = at[k] /\ left = index[Len(K) + 1] - index[k + 1]
          /\ PoolIs(pool, K, index, k) /\ (k = Len(K) => ~Unpaired(string))
AtNames(names) == pos = names /\ class = NoClassYet
InInterfaces(names, c) ==
    \E k \in 0..Len(c.interfaces) :
        /\ pos = InterfacesAt(names) + 2 * k /\ left = Len(c.interfaces) - k
        /\ class = SoFar(c, k, 0, 0)
InFields(names, c) ==
    \E k \in 0..Len(c.fields) :
        /\ pos = FieldsAt(c, names) + 15 * k /\ left = Len(c.fields) - k
        /\ class = SoFar(c, Len(c.interfaces), k, 0)
InMethods(names, c) ==
    \E k \in 0..Len(c.methods) :
        /\ pos = MethodsAt(c, names) + 15 * k /\ left = Len(c.methods) - k
        /\ class = SoFar(c, Len(c.interfaces), Len(c.fields), k)
AllRead(c) == class = SoFar(c, Len(c.interfaces), Len(c.fields), Len(c.methods))

\* All constants are in the pool, and the string among them was a text.
Filled(K, index, string) == PoolIs(pool, K, index, Len(K)) /\ ~Unpaired(string)

Reads(file, at, K, index, c, string) ==
    /\ phase \in {"header", "constants", "names", "interfaces", "fields", "methods",
                  "attributes", "done", "failed"}
    /\ phase = "header" => AtHeader
    /\ phase = "constants" => InConstants(at, K, index, string)
    /\ phase = "names" => AtNames(at[Len(K)])
    /\ phase = "interfaces" => InInterfaces(at[Len(K)], c)
    /\ phase = "fields" => InFields(at[Len(K)], c)
    /\ phase = "methods" => InMethods(at[Len(K)], c)
    /\ phase = "attributes" => pos = AttributesAt(c, at[Len(K)]) /\ AllRead(c)
    /\ phase = "done" => AllRead(c) /\ Len(bytes) = Len(file)
    /\ phase = "failed" => ~Whole(file, string)
    /\ phase \in {"names", "interfaces", "fields", "methods", "attributes", "done"}
          => Filled(K, index, string)

\* The place stays within the file.
Inside == pos \in 0..Len(bytes)

\* The names are found in every phase behind the constants.
LEMMA Findable ==
    ASSUME NEW file, NEW at, NEW K, NEW index, NEW c, NEW padding, NEW string,
           Setting(file, at, K, index, c, padding, string),
           Reads(file, at, K, index, c, string),
           phase \in {"names", "interfaces", "fields", "methods", "attributes", "done"}
    PROVE  /\ Filled(K, index, string)
           /\ ClassIsFound(c) /\ MembersAreFound(index, c, Len(padding))
  <1>1. Filled(K, index, string)
    BY DEF Reads
  <1>2. PoolIs(pool, K, index, Len(K))
    BY <1>1 DEF Filled
  <1> QED
    BY <1>1, <1>2, NamesAreFound

\* The header is read.
LEMMA HeaderStep ==
    ASSUME NEW file, NEW at, NEW K, NEW index, NEW c, NEW padding, NEW string,
           Setting(file, at, K, index, c, padding, string),
           Reads(file, at, K, index, c, string), ReadHeader
    PROVE  Reads(file, at, K, index, c, string)' /\ Inside' /\ bytes' = bytes
  <1>1. /\ phase = "header" /\ ItemEnd <= Len(bytes) /\ count' = U2(8) /\ left' = U2(8) - 1
        /\ pos' = ItemEnd /\ phase' = "constants" /\ bytes' = bytes /\ pool' = pool
        /\ class' = class
    BY DEF ReadHeader, CanRead
  <1>2. AtHeader
    BY <1>1 DEF Reads
  <1>3. /\ ItemEnd = 10 /\ U2(8) = index[Len(K) + 1]
    BY <1>1, HeaderItem
  <1>4. /\ Len(K) \in Nat \ {0} /\ at[0] = 10 /\ index[1] = 1 /\ Len(bytes) \in Nat
        /\ AreIndices(index, K)
    BY Places DEF Setting
  <1>5. PoolIs(pool', K, index, 0)
    BY <1>1, <1>2, <1>4, PoolBegins DEF AtHeader
  <1>6. /\ 0 \in 0..Len(K) /\ pos' = at[0] /\ left' = index[Len(K) + 1] - index[0 + 1]
        /\ 0 # Len(K)
    BY <1>1, <1>3, <1>4
  <1>7. InConstants(at, K, index, string)'
    <2>1. /\ class' = NoClassYet /\ count' = index[Len(K) + 1]
      BY <1>1, <1>2, <1>3 DEF AtHeader
    <2> QED
      BY <1>5, <1>6, <2>1 DEF InConstants
  <1>8. Reads(file, at, K, index, c, string)'
    BY <1>1, <1>7 DEF Reads
  <1>9. Inside'
    BY <1>1, <1>3, <1>4 DEF Inside
  <1> QED
    BY <1>1, <1>8, <1>9

\* A constant is read.
LEMMA ConstantStep ==
    ASSUME NEW file, NEW at, NEW K, NEW index, NEW c, NEW padding, NEW string,
           Setting(file, at, K, index, c, padding, string),
           Reads(file, at, K, index, c, string), ReadConstant
    PROVE  Reads(file, at, K, index, c, string)' /\ Inside' /\ bytes' = bytes
  <1> DEFINE n == Len(K)
  <1>1. /\ phase = "constants" /\ CanRead("constants") /\ left > 0 /\ ItemEnd <= Len(bytes)
        /\ pool' = pool \o Constant /\ left' = left - Len(Constant)
        /\ pos' = ItemEnd /\ phase' = phase /\ bytes' = bytes /\ count' = count
        /\ class' = class
    BY DEF ReadConstant, CanRead
  <1>2. /\ n \in Nat \ {0} /\ AreIndices(index, K) /\ Len(bytes) \in Nat
        /\ \A k \in 1..(n + 1) : index[k] \in Nat
    BY Places DEF Setting
  <1>3. class = NoClassYet /\ count = index[n + 1]
    BY <1>1 DEF Reads, InConstants
  <1>4. PICK k \in 0..n : /\ pos = at[k] /\ left = index[n + 1] - index[k + 1]
                          /\ PoolIs(pool, K, index, k)
    BY <1>1 DEF Reads, InConstants
  <1>5. k # n
    <2> SUFFICES ASSUME k = n PROVE FALSE
      OBVIOUS
    <2>1. n + 1 \in 1..(n + 1)
      BY <1>2
    <2> DEFINE x == index[n + 1]
    <2>2. x \in Nat
      BY <1>2, <2>1
    <2>3. left = x - x
      BY <1>4
    <2> HIDE DEF x
    <2> QED
      BY <1>1, <2>2, <2>3
  <1> DEFINE j == k + 1
  <1>6. j \in 1..n /\ k = j - 1 /\ k \in 0..(n - 1) /\ j \in 0..n
    BY <1>2, <1>5
  <1> HIDE DEF n
  <1>7. /\ ItemEnd = at[j] /\ Constant = EntriesOf(K[j], index) /\ (j = n => ~Unpaired(string))
    <2>1. pos = at[j - 1] /\ j \in 1..Len(K)
      BY <1>4, <1>6 DEF n
    <2> HIDE DEF j
    <2> QED
      BY <1>1, <2>1, ConstantItem DEF n
  <1>8. IsWritten(K[j], index, n, ConstantBytes(K[j], index)) /\ at[j] \in Nat
    <2>1. j \in 1..Len(K)
      BY <1>6 DEF n
    <2> HIDE DEF j
    <2> QED
      BY <2>1, ConstantOf DEF n
  <1>9. Len(Constant) = Slots(K[j])
    BY <1>7, <1>8, EntriesAre
  <1>10. PoolIs(pool', K, index, j)
    <2>1. k \in 0..(Len(K) - 1) /\ Len(K) \in Nat
      BY <1>2, <1>6 DEF n
    <2>2. PoolIs(pool \o EntriesOf(K[k + 1], index), K, index, k + 1)
      BY <1>2, <1>4, <1>8, <2>1, PoolGrows
    <2> QED
      BY <1>1, <1>7, <2>2
  <1>11. left' = index[n + 1] - index[j + 1]
    <2>1. j + 1 \in 1..(n + 1) /\ j \in 1..(n + 1) /\ n + 1 \in 1..(n + 1)
      BY <1>2, <1>6
    <2>2. index[j + 1] = index[j] + Slots(K[j])
      BY <1>2, <1>6 DEF AreIndices, n
    <2> DEFINE x == index[n + 1]
               y == index[j]
               z == index[j + 1]
               w == Slots(K[j])
    <2>3. x \in Nat /\ y \in Nat /\ z \in Nat
      BY <1>2, <2>1
    <2>4. w \in Nat
      BY DEF Slots
    <2>5. left' = (x - y) - w /\ z = y + w
      BY <1>1, <1>4, <1>9, <2>2
    <2> HIDE DEF x, y, z, w
    <2>6. left' = x - z
      BY <2>3, <2>4, <2>5
    <2> QED
      BY <2>6 DEF x, z
  <1>12. InConstants(at, K, index, string)'
    <2>1. class' = NoClassYet /\ count' = index[Len(K) + 1]
      BY <1>1, <1>3 DEF n
    <2>2. j \in 0..Len(K) /\ pos' = at[j] /\ left' = index[Len(K) + 1] - index[j + 1]
          /\ PoolIs(pool', K, index, j) /\ (j = Len(K) => ~Unpaired(string))
      BY <1>1, <1>6, <1>7, <1>10, <1>11 DEF n
    <2> HIDE DEF j
    <2> QED
      BY <2>1, <2>2 DEF InConstants
  <1>13. Reads(file, at, K, index, c, string)'
    BY <1>1, <1>12 DEF Reads
  <1>14. Inside'
    BY <1>1, <1>2, <1>7, <1>8 DEF Inside
  <1> QED
    BY <1>1, <1>13, <1>14

\* The last constant is read.
LEMMA ConstantsEnd ==
    ASSUME NEW file, NEW at, NEW K, NEW index, NEW c, NEW padding, NEW string,
           Setting(file, at, K, index, c, padding, string),
           Reads(file, at, K, index, c, string), Inside, EndConstants
    PROVE  Reads(file, at, K, index, c, string)' /\ Inside' /\ bytes' = bytes
  <1> DEFINE n == Len(K)
  <1>1. /\ phase = "constants" /\ left <= 0 /\ phase' = "names" /\ bytes' = bytes /\ pos' = pos
        /\ pool' = pool /\ class' = class
    BY DEF EndConstants
  <1>2. /\ n \in Nat \ {0} /\ AreIndices(index, K) /\ \A k \in 1..(n + 1) : index[k] \in Nat
    BY Places DEF Setting
  <1>3. class = NoClassYet
    BY <1>1 DEF Reads, InConstants
  <1>4. PICK k \in 0..n : /\ pos = at[k] /\ left = index[n + 1] - index[k + 1]
                          /\ PoolIs(pool, K, index, k) /\ (k = n => ~Unpaired(string))
    BY <1>1 DEF Reads, InConstants
  <1>5. k = n
    <2> SUFFICES ASSUME k # n PROVE FALSE
      OBVIOUS
    <2>1. k + 1 \in 1..(n + 1) /\ n + 1 \in 1..(n + 1) /\ k + 1 < n + 1
      BY <1>2
    <2> DEFINE x == index[n + 1]
               y == index[k + 1]
    <2>2. x \in Nat /\ y \in Nat
      BY <1>2, <2>1
    <2>3. y < x
      BY <1>2, <2>1 DEF AreIndices
    <2>4. left = x - y
      BY <1>4
    <2> HIDE DEF x, y
    <2> QED
      BY <1>1, <2>2, <2>3, <2>4
  <1>6. Filled(K, index, string)' /\ AtNames(at[Len(K)])'
    BY <1>1, <1>3, <1>4, <1>5 DEF Filled, AtNames
  <1>7. Reads(file, at, K, index, c, string)'
    BY <1>1, <1>6 DEF Reads
  <1> QED
    BY <1>1, <1>7 DEF Inside

\* The members of a class are sequences.
LEMMA ListsOfClass ==
    ASSUME NEW c \in ClassRecord
    PROVE  /\ c.interfaces \in Seq(Name) /\ c.fields \in Seq(MemberRecord)
           /\ c.methods \in Seq(MemberRecord)
  BY DEF ClassRecord

\* The class, before its lists are read.
LEMMA NothingYet ==
    ASSUME NEW c \in ClassRecord
    PROVE  SoFar(c, 0, 0, 0) = [NoClassYet EXCEPT !.access_flags = c.access_flags,
                                                  !.this_class = c.this_class,
                                                  !.super_class = c.super_class]
  <1>1. /\ SubSeq(c.interfaces, 1, 0) = <<>> /\ SubSeq(c.fields, 1, 0) = <<>>
        /\ SubSeq(c.methods, 1, 0) = <<>>
    BY ListsOfClass, NoneAndAll
  <1>2. Callable(<<>>) = <<>>
    <2> DEFINE m == [name |-> <<>>, descriptor |-> <<>>, access_flags |-> 0]
    <2>1. <<>> \in Seq(MemberRecord) /\ m \in MemberRecord
      BY EmptySeq, LowNames DEF MemberRecord
    <2> HIDE DEF m
    <2> QED
      BY <2>1, CallableGrows
  <1> DEFINE none == [access_flags |-> c.access_flags, this_class |-> c.this_class,
                      super_class |-> c.super_class, interfaces |-> <<>>, fields |-> <<>>,
                      methods |-> <<>>]
  <1>3. SoFar(c, 0, 0, 0) = none
    BY <1>1, <1>2 DEF SoFar
  <1>4. [NoClassYet EXCEPT !.access_flags = c.access_flags, !.this_class = c.this_class,
                           !.super_class = c.super_class] = none
    <2> DEFINE a == [NoClassYet EXCEPT !.access_flags = c.access_flags]
               b == [a EXCEPT !.this_class = c.this_class]
               d == [b EXCEPT !.super_class = c.super_class]
    <2>1. [NoClassYet EXCEPT !.access_flags = c.access_flags, !.this_class = c.this_class,
                             !.super_class = c.super_class] = d
      OBVIOUS
    <2>2. a = [access_flags |-> c.access_flags, this_class |-> <<>>, super_class |-> <<>>,
               interfaces |-> <<>>, fields |-> <<>>, methods |-> <<>>]
      BY DEF NoClassYet, NoClass
    <2> HIDE DEF a
    <2>3. b = [access_flags |-> c.access_flags, this_class |-> c.this_class,
               super_class |-> <<>>, interfaces |-> <<>>, fields |-> <<>>, methods |-> <<>>]
      BY <2>2
    <2> HIDE DEF b
    <2>4. d = none
      BY <2>3
    <2> QED
      BY <2>1, <2>4
  <1> QED
    BY <1>3, <1>4

\* The class's own names are read.
LEMMA NamesStep ==
    ASSUME NEW file, NEW at, NEW K, NEW index, NEW c, NEW padding, NEW string,
           Setting(file, at, K, index, c, padding, string),
           Reads(file, at, K, index, c, string), ReadNames
    PROVE  Reads(file, at, K, index, c, string)' /\ Inside' /\ bytes' = bytes
  <1> DEFINE names == at[Len(K)]
             i == Len(c.interfaces)
  <1>1. /\ phase = "names" /\ CanRead("names") /\ ItemEnd <= Len(bytes)
        /\ left' = U2(pos + 6) /\ pos' = ItemEnd /\ phase' = "interfaces"
        /\ bytes' = bytes /\ pool' = pool
        /\ class' = [class EXCEPT
              !.access_flags = U2(pos),
              !.this_class = ClassNameAt(U2(pos + 2)),
              !.super_class = IF U2(pos + 4) = 0 THEN NoClass ELSE ClassNameAt(U2(pos + 4))]
    BY DEF ReadNames, CanRead
  <1>2. pos = names /\ class = NoClassYet
    BY <1>1 DEF Reads, AtNames
  <1>3. Filled(K, index, string) /\ ClassIsFound(c)
    BY <1>1, Findable
  <1>4. /\ ItemEnd = InterfacesAt(names)
        /\ U2(pos) = c.access_flags /\ U2(pos + 4) # 0 /\ U2(pos + 6) = i
        /\ ClassNameAt(U2(pos + 2)) = c.this_class
        /\ ClassNameAt(U2(pos + 4)) = c.super_class
    BY <1>1, <1>2, <1>3, NamesItem
  <1>5. c \in ClassRecord /\ i \in Nat /\ InterfacesAt(names) \in Nat /\ Len(bytes) \in Nat
    BY Places DEF Setting
  <1>6. class' = SoFar(c, 0, 0, 0)
    <2>1. class' = [NoClassYet EXCEPT !.access_flags = c.access_flags,
                                      !.this_class = c.this_class,
                                      !.super_class = c.super_class]
      BY <1>1, <1>2, <1>4
    <2> QED
      BY <1>5, <2>1, NothingYet
  <1>7. 0 \in 0..i /\ pos' = InterfacesAt(names) + 2 * 0 /\ left' = i - 0
    BY <1>1, <1>4, <1>5
  <1>8. InInterfaces(names, c)'
    BY <1>6, <1>7 DEF InInterfaces
  <1>9. Reads(file, at, K, index, c, string)'
    BY <1>1, <1>3, <1>8 DEF Reads, Filled
  <1>10. Inside'
    BY <1>1, <1>4, <1>5 DEF Inside
  <1> QED
    BY <1>1, <1>9, <1>10

\* An interface is read.
LEMMA InterfaceStep ==
    ASSUME NEW file, NEW at, NEW K, NEW index, NEW c, NEW padding, NEW string,
           Setting(file, at, K, index, c, padding, string),
           Reads(file, at, K, index, c, string), ReadInterface
    PROVE  Reads(file, at, K, index, c, string)' /\ Inside' /\ bytes' = bytes
  <1> DEFINE names == at[Len(K)]
             i == Len(c.interfaces)
  <1>1. /\ phase = "interfaces" /\ CanRead("interfaces") /\ ItemEnd <= Len(bytes) /\ left > 0
        /\ left' = left - 1 /\ pos' = ItemEnd /\ phase' = phase
        /\ bytes' = bytes /\ pool' = pool
        /\ class' = [class EXCEPT !.interfaces = Append(@, ClassNameAt(U2(pos)))]
    BY DEF ReadInterface, CanRead
  <1>2. c \in ClassRecord /\ i \in Nat /\ InterfacesAt(names) \in Nat /\ Len(bytes) \in Nat
    BY Places DEF Setting
  <1>3. PICK k \in 0..i : /\ pos = InterfacesAt(names) + 2 * k /\ left = i - k
                          /\ class = SoFar(c, k, 0, 0)
    BY <1>1 DEF Reads, InInterfaces
  <1>4. Filled(K, index, string) /\ ClassIsFound(c)
    BY <1>1, Findable
  <1> HIDE DEF i
  <1>5. k \in 0..(i - 1) /\ k + 1 \in 1..i /\ k + 1 \in 0..i /\ k = (k + 1) - 1
    BY <1>1, <1>2, <1>3, SMTT(30)
  <1>6. ItemEnd = InterfacesAt(names) + 2 * (k + 1) /\ ClassNameAt(U2(pos)) = c.interfaces[k + 1]
    <2>1. k + 1 \in 1..Len(c.interfaces) /\ pos = InterfacesAt(names) + 2 * ((k + 1) - 1)
      BY <1>3, <1>5 DEF i
    <2> QED
      BY <1>1, <1>4, <2>1, InterfaceItem
  <1>7. class' = SoFar(c, k + 1, 0, 0)
    <2>1. SubSeq(c.interfaces, 1, k + 1) = Append(SubSeq(c.interfaces, 1, k), c.interfaces[k + 1])
      BY <1>2, <1>5, ListsOfClass, OneMoreOf DEF i
    <2> QED
      BY <1>1, <1>3, <1>6, <2>1 DEF SoFar
  <1>8. left' = i - (k + 1)
    BY <1>1, <1>2, <1>3
  <1>9. InInterfaces(names, c)'
    BY <1>1, <1>5, <1>6, <1>7, <1>8 DEF InInterfaces, i
  <1>10. Reads(file, at, K, index, c, string)'
    BY <1>1, <1>4, <1>9 DEF Reads, Filled
  <1>11. Inside'
    BY <1>1, <1>2, <1>5, <1>6 DEF Inside
  <1> QED
    BY <1>1, <1>10, <1>11

\* A field is read.
LEMMA FieldStep ==
    ASSUME NEW file, NEW at, NEW K, NEW index, NEW c, NEW padding, NEW string,
           Setting(file, at, K, index, c, padding, string),
           Reads(file, at, K, index, c, string), ReadField
    PROVE  Reads(file, at, K, index, c, string)' /\ Inside' /\ bytes' = bytes
  <1> DEFINE names == at[Len(K)]
             f == Len(c.fields)
             a == FieldsAt(c, names)
  <1>1. /\ phase = "fields" /\ CanRead("fields") /\ ItemEnd <= Len(bytes) /\ left > 0
        /\ left' = left - 1 /\ pos' = ItemEnd /\ phase' = phase
        /\ bytes' = bytes /\ pool' = pool
        /\ class' = [class EXCEPT !.fields = Append(@, Member)]
    BY DEF ReadField, CanRead
  <1>2. c \in ClassRecord /\ f \in Nat /\ a \in Nat /\ Len(bytes) \in Nat
    BY Places DEF Setting
  <1>3. PICK k \in 0..f : /\ pos = a + 15 * k /\ left = f - k
                          /\ class = SoFar(c, Len(c.interfaces), k, 0)
    BY <1>1 DEF Reads, InFields
  <1>4. Filled(K, index, string) /\ MembersAreFound(index, c, Len(padding))
    BY <1>1, Findable
  <1> HIDE DEF f, a
  <1>5. k \in 0..(f - 1) /\ k + 1 \in 1..f /\ k + 1 \in 0..f /\ k = (k + 1) - 1
    BY <1>1, <1>2, <1>3, SMTT(30)
  <1>6. ItemEnd = a + 15 * (k + 1) /\ Member = c.fields[k + 1]
    <2>1. k + 1 \in 1..Len(c.fields) /\ pos = FieldsAt(c, at[Len(K)]) + 15 * ((k + 1) - 1)
      BY <1>3, <1>5 DEF f, a
    <2> QED
      BY <1>1, <1>4, <2>1, FieldItem DEF a
  <1>7. class' = SoFar(c, Len(c.interfaces), k + 1, 0)
    <2>1. SubSeq(c.fields, 1, k + 1) = Append(SubSeq(c.fields, 1, k), c.fields[k + 1])
      BY <1>2, <1>5, ListsOfClass, OneMoreOf DEF f
    <2> QED
      BY <1>1, <1>3, <1>6, <2>1 DEF SoFar
  <1>8. left' = f - (k + 1)
    BY <1>1, <1>2, <1>3
  <1>9. InFields(names, c)'
    BY <1>1, <1>5, <1>6, <1>7, <1>8 DEF InFields, f, a
  <1>10. Reads(file, at, K, index, c, string)'
    BY <1>1, <1>4, <1>9 DEF Reads, Filled
  <1>11. Inside'
    BY <1>1, <1>2, <1>5, <1>6 DEF Inside
  <1> QED
    BY <1>1, <1>10, <1>11

\* A method is read, and kept if it is one to call.
LEMMA MethodStep ==
    ASSUME NEW file, NEW at, NEW K, NEW index, NEW c, NEW padding, NEW string,
           Setting(file, at, K, index, c, padding, string),
           Reads(file, at, K, index, c, string), ReadMethod
    PROVE  Reads(file, at, K, index, c, string)' /\ Inside' /\ bytes' = bytes
  <1> DEFINE names == at[Len(K)]
             f == Len(c.methods)
             a == MethodsAt(c, names)
  <1>1. /\ phase = "methods" /\ CanRead("methods") /\ ItemEnd <= Len(bytes) /\ left > 0
        /\ left' = left - 1 /\ pos' = ItemEnd /\ phase' = phase
        /\ bytes' = bytes /\ pool' = pool
        /\ class' = IF Member.name = Clinit THEN class
                    ELSE [class EXCEPT !.methods = Append(@, Member)]
    BY DEF ReadMethod, CanRead
  <1>2. c \in ClassRecord /\ f \in Nat /\ a \in Nat /\ Len(bytes) \in Nat
    BY Places DEF Setting
  <1>3. PICK k \in 0..f : /\ pos = a + 15 * k /\ left = f - k
                          /\ class = SoFar(c, Len(c.interfaces), Len(c.fields), k)
    BY <1>1 DEF Reads, InMethods
  <1>4. Filled(K, index, string) /\ MembersAreFound(index, c, Len(padding))
    BY <1>1, Findable
  <1> HIDE DEF f, a
  <1>5. k \in 0..(f - 1) /\ k + 1 \in 1..f /\ k + 1 \in 0..f /\ k = (k + 1) - 1
    BY <1>1, <1>2, <1>3, SMTT(30)
  <1>6. ItemEnd = a + 15 * (k + 1) /\ Member = c.methods[k + 1]
    <2>1. k + 1 \in 1..Len(c.methods) /\ pos = MethodsAt(c, at[Len(K)]) + 15 * ((k + 1) - 1)
      BY <1>3, <1>5 DEF f, a
    <2> QED
      BY <1>1, <1>4, <2>1, MethodItem DEF a
  <1>7. class' = SoFar(c, Len(c.interfaces), Len(c.fields), k + 1)
    <2> DEFINE before == SubSeq(c.methods, 1, k)
               after == SubSeq(c.methods, 1, k + 1)
               m == c.methods[k + 1]
    <2>1. after = Append(before, m) /\ before \in Seq(MemberRecord) /\ m \in MemberRecord
      BY <1>2, <1>5, ListsOfClass, OneMoreOf DEF f
    <2> HIDE DEF before, m
    <2>2. Callable(after) = IF m.name = Clinit THEN Callable(before) ELSE Append(Callable(before), m)
      BY <2>1, CallableGrows
    <2> HIDE DEF after
    <2>3. /\ class = SoFar(c, Len(c.interfaces), Len(c.fields), k) /\ Member = m
          /\ class.methods = Callable(before)
      BY <1>3, <1>6 DEF SoFar, before, m
    <2>4. CASE m.name = Clinit
      BY <1>1, <2>2, <2>3, <2>4 DEF SoFar, after, before
    <2>5. CASE m.name # Clinit
      <3>1. class' = [class EXCEPT !.methods = Callable(after)]
        BY <1>1, <2>2, <2>3, <2>5
      <3> QED
        BY <2>3, <3>1 DEF SoFar, after
    <2> QED
      BY <2>4, <2>5
  <1>8. left' = f - (k + 1)
    BY <1>1, <1>2, <1>3
  <1>9. InMethods(names, c)'
    BY <1>1, <1>5, <1>6, <1>7, <1>8 DEF InMethods, f, a
  <1>10. Reads(file, at, K, index, c, string)'
    BY <1>1, <1>4, <1>9 DEF Reads, Filled
  <1>11. Inside'
    BY <1>1, <1>2, <1>5, <1>6 DEF Inside
  <1> QED
    BY <1>1, <1>10, <1>11

\* A list is read, and the number of members in the next.
LEMMA ListStep ==
    ASSUME NEW file, NEW at, NEW K, NEW index, NEW c, NEW padding, NEW string,
           Setting(file, at, K, index, c, padding, string),
           Reads(file, at, K, index, c, string), Inside, NextList
    PROVE  Reads(file, at, K, index, c, string)' /\ Inside' /\ bytes' = bytes
  <1> DEFINE names == at[Len(K)]
             i == Len(c.interfaces)
             f == Len(c.fields)
             m == Len(c.methods)
  <1>1. /\ i \in Nat /\ f \in Nat /\ m \in Nat /\ Len(bytes) \in Nat
        /\ InterfacesAt(names) \in Nat /\ FieldsAt(c, names) \in Nat /\ MethodsAt(c, names) \in Nat
    BY Places
  <1>2. /\ pos = FieldsAt(c, names) - 2 =>
              /\ pos + 2 <= Len(bytes) => U2(pos) = f
              /\ Len(bytes) = Len(file) => pos + 2 <= Len(bytes)
        /\ pos = MethodsAt(c, names) - 2 =>
              /\ pos + 2 <= Len(bytes) => U2(pos) = m
              /\ Len(bytes) = Len(file) => pos + 2 <= Len(bytes)
        /\ FieldsAt(c, names) = InterfacesAt(names) + 2 * i + 2
        /\ MethodsAt(c, names) = FieldsAt(c, names) + 15 * f + 2
    BY CountItem
  <1>3. /\ phase \in {"interfaces", "fields"} /\ left = 0 /\ bytes' = bytes /\ pool' = pool
        /\ class' = class
    BY DEF NextList
  <1>4. Filled(K, index, string)
    BY <1>3, Findable
  <1>5. ASSUME phase = "interfaces"
        PROVE  pos = FieldsAt(c, names) - 2 /\ class = SoFar(c, i, 0, 0)
    <2>1. PICK k \in 0..i : /\ pos = InterfacesAt(names) + 2 * k /\ left = i - k
                            /\ class = SoFar(c, k, 0, 0)
      BY <1>5 DEF Reads, InInterfaces
    <2> HIDE DEF i, f, m, names
    <2>2. k = i
      BY <1>1, <1>3, <2>1
    <2> QED
      BY <1>1, <1>2, <2>1, <2>2
  <1>6. ASSUME phase = "fields"
        PROVE  pos = MethodsAt(c, names) - 2 /\ class = SoFar(c, i, f, 0)
    <2>1. PICK k \in 0..f : /\ pos = FieldsAt(c, names) + 15 * k /\ left = f - k
                            /\ class = SoFar(c, i, k, 0)
      BY <1>6 DEF Reads, InFields
    <2> HIDE DEF i, f, m, names
    <2>2. k = f
      BY <1>1, <1>3, <2>1
    <2> QED
      BY <1>1, <1>2, <2>1, <2>2
  <1>7. CASE pos + 2 > Len(bytes)
    <2>1. phase' = "failed" /\ pos' = pos
      BY <1>7 DEF NextList
    <2>2. Len(bytes) # Len(file)
      <3>1. pos = FieldsAt(c, names) - 2 \/ pos = MethodsAt(c, names) - 2
        BY <1>3, <1>5, <1>6
      <3>2. pos \in Nat
        BY <1>1 DEF Inside
      <3>3. ~(pos + 2 <= Len(bytes))
        BY <1>1, <1>7, <3>2
      <3> QED
        BY <1>2, <3>1, <3>3
    <2>3. ~Whole(file, string)'
      BY <1>3, <2>2 DEF Whole
    <2>4. Reads(file, at, K, index, c, string)'
      BY <2>1, <2>3 DEF Reads
    <2> QED
      BY <1>3, <2>1, <2>4 DEF Inside
  <1>8. CASE ~(pos + 2 > Len(bytes))
    <2>1. /\ phase' = IF phase = "interfaces" THEN "fields" ELSE "methods"
          /\ left' = U2(pos) /\ pos' = pos + 2
      BY <1>8 DEF NextList
    <2>2. pos \in Nat /\ pos + 2 <= Len(bytes)
      BY <1>1, <1>8 DEF Inside
    <2>3. Inside'
      BY <1>1, <1>3, <2>1, <2>2 DEF Inside
    <2>4. CASE phase = "interfaces"
      <3>1. /\ pos' = FieldsAt(c, names) + 15 * 0 /\ left' = f - 0 /\ 0 \in 0..f
            /\ class' = SoFar(c, i, 0, 0)
        <4> HIDE DEF i, f, m, names
        <4> QED
          BY <1>1, <1>2, <1>3, <1>5, <2>1, <2>2, <2>4
      <3>2. InFields(names, c)'
        BY <3>1 DEF InFields
      <3>3. phase' = "fields"
        BY <2>1, <2>4
      <3>4. Reads(file, at, K, index, c, string)'
        BY <1>3, <1>4, <3>2, <3>3 DEF Reads, Filled
      <3> QED
        BY <1>3, <2>3, <3>4
    <2>5. CASE phase = "fields"
      <3>1. /\ pos' = MethodsAt(c, names) + 15 * 0 /\ left' = m - 0 /\ 0 \in 0..m
            /\ class' = SoFar(c, i, f, 0)
        <4> HIDE DEF i, f, m, names
        <4> QED
          BY <1>1, <1>2, <1>3, <1>6, <2>1, <2>2, <2>5
      <3>2. InMethods(names, c)'
        BY <3>1 DEF InMethods
      <3>3. phase' = "methods"
        BY <2>1, <2>5
      <3>4. Reads(file, at, K, index, c, string)'
        BY <1>3, <1>4, <3>2, <3>3 DEF Reads, Filled
      <3> QED
        BY <1>3, <2>3, <3>4
    <2> QED
      BY <1>3, <2>4, <2>5
  <1> QED
    BY <1>7, <1>8

\* The last method is read.
LEMMA MethodsEnd ==
    ASSUME NEW file, NEW at, NEW K, NEW index, NEW c, NEW padding, NEW string,
           Setting(file, at, K, index, c, padding, string),
           Reads(file, at, K, index, c, string), Inside, EndMethods
    PROVE  Reads(file, at, K, index, c, string)' /\ Inside' /\ bytes' = bytes
  <1> DEFINE names == at[Len(K)]
             m == Len(c.methods)
  <1>1. m \in Nat /\ MethodsAt(c, names) \in Nat
    BY Places
  <1>2. /\ phase = "methods" /\ left = 0 /\ phase' = "attributes" /\ bytes' = bytes
        /\ pool' = pool /\ class' = class /\ pos' = pos
    BY DEF EndMethods
  <1>3. PICK k \in 0..m : /\ pos = MethodsAt(c, names) + 15 * k /\ left = m - k
                          /\ class = SoFar(c, Len(c.interfaces), Len(c.fields), k)
    BY <1>2 DEF Reads, InMethods
  <1>4. k = m
    <2> HIDE DEF m
    <2> QED
      BY <1>1, <1>2, <1>3
  <1>5. AttributesAt(c, names) = MethodsAt(c, names) + 15 * m
    BY CountItem
  <1>6. pos' = AttributesAt(c, names) /\ AllRead(c)'
    BY <1>2, <1>3, <1>4, <1>5 DEF AllRead
  <1>7. Filled(K, index, string)
    BY <1>2, Findable
  <1>8. Reads(file, at, K, index, c, string)'
    BY <1>2, <1>6, <1>7 DEF Reads, Filled
  <1> QED
    BY <1>2, <1>8 DEF Inside

\* The attributes are read, and with them the file.
LEMMA AttributesStep ==
    ASSUME NEW file, NEW at, NEW K, NEW index, NEW c, NEW padding, NEW string,
           Setting(file, at, K, index, c, padding, string),
           Reads(file, at, K, index, c, string), ReadAttributes
    PROVE  Reads(file, at, K, index, c, string)' /\ Inside' /\ bytes' = bytes
  <1>1. /\ phase = "attributes" /\ CanRead("attributes") /\ phase' = "done" /\ bytes' = bytes
        /\ pool' = pool /\ class' = class /\ pos' = ItemEnd
    BY DEF ReadAttributes, CanRead
  <1>2. pos = AttributesAt(c, at[Len(K)]) /\ AllRead(c)
    BY <1>1 DEF Reads
  <1>3. ItemEnd = Len(bytes) /\ Len(bytes) = Len(file) /\ Len(bytes) \in Nat
    BY <1>1, <1>2, AttributesItem, Places
  <1>4. Filled(K, index, string)
    BY <1>1, Findable
  <1>5. AllRead(c)'
    BY <1>1, <1>2 DEF AllRead
  <1>6. Reads(file, at, K, index, c, string)'
    BY <1>1, <1>3, <1>4, <1>5 DEF Reads, Filled
  <1> QED
    BY <1>1, <1>3, <1>6 DEF Inside

\* Nothing is refused but what is not all there, or a string that is no text.
LEMMA RefuseStep ==
    ASSUME NEW file, NEW at, NEW K, NEW index, NEW c, NEW padding, NEW string,
           Setting(file, at, K, index, c, padding, string),
           Reads(file, at, K, index, c, string), Inside, Refuse
    PROVE  Reads(file, at, K, index, c, string)' /\ Inside' /\ bytes' = bytes
  <1> DEFINE names == at[Len(K)]
             n == Len(K)
             i == Len(c.interfaces)
             f == Len(c.fields)
             m == Len(c.methods)
  <1>1. /\ phase' = "failed" /\ pos' = pos /\ bytes' = bytes /\ ~CanRead(phase)
        /\ left > 0 \/ phase \in {"header", "names", "attributes"}
        /\ phase \in {"header", "constants", "names", "interfaces", "fields", "methods",
                      "attributes"}
    BY DEF Refuse, Parsing, Reads
  <1>2. /\ i \in Nat /\ f \in Nat /\ m \in Nat /\ n \in Nat \ {0}
        /\ \A k \in 1..(n + 1) : index[k] \in Nat
    BY Places
  <1>3. ASSUME Whole(file, string) PROVE FALSE
    <2>1. CASE phase = "header"
      BY <1>1, <1>3, <2>1, HeaderItem
    <2>2. CASE phase = "constants"
      <3>1. left > 0
        BY <1>1, <2>2
      <3>2. PICK k \in 0..n : pos = at[k] /\ left = index[n + 1] - index[k + 1]
        BY <2>2 DEF Reads, InConstants
      <3>3. k # n
        <4> SUFFICES ASSUME k = n PROVE FALSE
          OBVIOUS
        <4> DEFINE x == index[n + 1]
        <4>1. n + 1 \in 1..(n + 1)
          BY <1>2
        <4>2. x \in Nat /\ left = x - x
          BY <1>2, <3>2, <4>1
        <4> HIDE DEF x
        <4> QED
          BY <3>1, <4>2
      <3> DEFINE j == k + 1
      <3>4. j \in 1..Len(K) /\ pos = at[j - 1]
        BY <1>2, <3>2, <3>3
      <3> HIDE DEF j
      <3>5. CanRead("constants")
        BY <1>3, <2>2, <3>4, ConstantItem
      <3> QED
        BY <1>1, <2>2, <3>5
    <2>3. CASE phase = "names"
      <3>1. pos = at[Len(K)] /\ ClassIsFound(c)
        BY <2>3, Findable DEF Reads, AtNames
      <3> QED
        BY <1>1, <1>3, <2>3, <3>1, NamesItem
    <2>4. CASE phase = "interfaces"
      <3>1. PICK k \in 0..i : pos = InterfacesAt(names) + 2 * k /\ left = i - k
        BY <2>4 DEF Reads, InInterfaces
      <3> DEFINE j == k + 1
      <3>2. j \in 1..Len(c.interfaces) /\ k = j - 1
        <4>1. left > 0
          BY <1>1, <2>4
        <4> HIDE DEF i
        <4>2. j \in 1..i /\ k = j - 1
          BY <1>2, <3>1, <4>1
        <4> QED
          BY <4>2 DEF i
      <3> HIDE DEF j
      <3>3. ClassIsFound(c)
        BY <2>4, Findable
      <3>4. CanRead("interfaces")
        BY <1>3, <2>4, <3>1, <3>2, <3>3, InterfaceItem
      <3> QED
        BY <1>1, <2>4, <3>4
    <2>5. CASE phase = "fields"
      <3>1. PICK k \in 0..f : pos = FieldsAt(c, names) + 15 * k /\ left = f - k
        BY <2>5 DEF Reads, InFields
      <3> DEFINE j == k + 1
      <3>2. j \in 1..Len(c.fields) /\ k = j - 1
        <4>1. left > 0
          BY <1>1, <2>5
        <4> HIDE DEF f
        <4>2. j \in 1..f /\ k = j - 1
          BY <1>2, <3>1, <4>1
        <4> QED
          BY <4>2 DEF f
      <3> HIDE DEF j
      <3>3. MembersAreFound(index, c, Len(padding))
        BY <2>5, Findable
      <3>4. CanRead("fields")
        BY <1>3, <2>5, <3>1, <3>2, <3>3, FieldItem
      <3> QED
        BY <1>1, <2>5, <3>4
    <2>6. CASE phase = "methods"
      <3>1. PICK k \in 0..m : pos = MethodsAt(c, names) + 15 * k /\ left = m - k
        BY <2>6 DEF Reads, InMethods
      <3> DEFINE j == k + 1
      <3>2. j \in 1..Len(c.methods) /\ k = j - 1
        <4>1. left > 0
          BY <1>1, <2>6
        <4> HIDE DEF m
        <4>2. j \in 1..m /\ k = j - 1
          BY <1>2, <3>1, <4>1
        <4> QED
          BY <4>2 DEF m
      <3> HIDE DEF j
      <3>3. MembersAreFound(index, c, Len(padding))
        BY <2>6, Findable
      <3>4. CanRead("methods")
        BY <1>3, <2>6, <3>1, <3>2, <3>3, MethodItem
      <3> QED
        BY <1>1, <2>6, <3>4
    <2>7. CASE phase = "attributes"
      <3>1. pos = AttributesAt(c, at[Len(K)])
        BY <2>7 DEF Reads
      <3> QED
        BY <1>1, <1>3, <2>7, <3>1, AttributesItem
    <2> QED
      BY <1>1, <2>1, <2>2, <2>3, <2>4, <2>5, <2>6, <2>7
  <1>4. ~Whole(file, string)'
    BY <1>1, <1>3 DEF Whole
  <1>5. Reads(file, at, K, index, c, string)'
    BY <1>1, <1>4 DEF Reads
  <1> QED
    BY <1>1, <1>5 DEF Inside

\* Every step of the parser goes on through the file.
LEMMA ParseStep ==
    ASSUME NEW file, NEW at, NEW K, NEW index, NEW c, NEW padding, NEW string,
           Setting(file, at, K, index, c, padding, string),
           Reads(file, at, K, index, c, string), Inside, Parse
    PROVE  Reads(file, at, K, index, c, string)' /\ Inside' /\ bytes' = bytes
  BY HeaderStep, ConstantStep, ConstantsEnd, NamesStep, InterfaceStep, FieldStep, MethodStep,
     ListStep, MethodsEnd, AttributesStep, RefuseStep DEF Parse

(***************************************************************************)
(* What javac and Lombok compile, and the invariant of the parser.         *)
(***************************************************************************)

\* A name is a sequence of characters.
Scalar == {c \in Nat : IsScalar(c)}

\* Names are sequences like others.
LEMMA NamesAre == Name = Seq(Scalar)
  <1>1. ASSUME NEW text \in Name PROVE text \in Seq(Scalar)
    <2>1. text \in Seq(0..LastCodePoint) /\ \A k \in DOMAIN text : IsScalar(text[k])
      BY <1>1 DEF Name, IsName
    <2>2. Len(text) \in Nat /\ DOMAIN text = 1..Len(text) /\ text = [k \in DOMAIN text |-> text[k]]
      BY <2>1, LenProperties
    <2>3. \A k \in 1..Len(text) : text[k] \in 0..LastCodePoint
      BY <2>1, ElementOfSeq
    <2>4. \A k \in 1..Len(text) : text[k] \in Scalar
      BY <2>1, <2>2, <2>3, Bounds DEF Scalar
    <2> QED
      BY <2>2, <2>4, ListOf
  <1>2. ASSUME NEW text \in Seq(Scalar) PROVE text \in Name
    <2>1. Len(text) \in Nat /\ DOMAIN text = 1..Len(text) /\ text = [k \in DOMAIN text |-> text[k]]
      BY LenProperties
    <2>2. \A k \in 1..Len(text) : text[k] \in Scalar
      BY ElementOfSeq
    <2>3. \A x \in Scalar : x \in 0..LastCodePoint /\ IsScalar(x)
      BY Bounds DEF Scalar, IsScalar
    <2>4. \A k \in 1..Len(text) : text[k] \in 0..LastCodePoint
      BY <2>2, <2>3
    <2>5. text \in Seq(0..LastCodePoint)
      BY <2>1, <2>4, ListOf
    <2>6. IsName(text)
      BY <2>1, <2>2, <2>3, <2>5 DEF IsName
    <2> QED
      BY <2>6, NamesAreTexts
  <1> QED
    BY <1>1, <1>2

\* Names in a row make a name.
LEMMA NamesJoin ==
    /\ \A a, b \in Name : a \o b \in Name
    /\ \A s \in Seq(Name) : FlattenSeq(s) \in Name
    /\ \A n \in Nat : \A a \in 0..127 : [k \in 1..n |-> a] \in Name
  <1>1. \A a, b \in Seq(Scalar) : a \o b \in Seq(Scalar)
    BY ConcatProperties
  <1>2. ASSUME NEW s \in Seq(Seq(Scalar)) PROVE FlattenSeq(s) \in Seq(Scalar)
    BY EmptySeq, FlattenAppend
  <1>3. ASSUME NEW n \in Nat, NEW a \in 0..127 PROVE [k \in 1..n |-> a] \in Seq(Scalar)
    <2>1. a \in Scalar
      BY Bounds DEF Scalar, IsScalar
    <2> DEFINE s == [k \in 1..n |-> a]
    <2>2. DOMAIN s = 1..n /\ s = [k \in DOMAIN s |-> s[k]] /\ \A k \in 1..n : s[k] \in Scalar
      BY <2>1
    <2> HIDE DEF s
    <2>3. s \in Seq(Scalar)
      BY <2>2, ListOf
    <2> QED
      BY <2>3 DEF s
  <1> QED
    BY <1>1, <1>2, <1>3, NamesAre

\* The types of Java are written by names.
LEMMA JvmTypes ==
    ASSUME NEW type, type.base \in Name, type.dimensions \in Nat
    PROVE  JvmType(type) \in Name
  <1> DEFINE brackets == [k \in 1..type.dimensions |-> LeftBracket]
             plain == IF IsPrimitive(type) THEN <<type.base[1] - 32>>
                      ELSE <<76>> \o type.base \o <<59>>
  <1>1. brackets \in Name
    <2>1. LeftBracket \in 0..127
      BY DEF LeftBracket
    <2> QED
      BY <2>1, NamesJoin
  <1>2. ASSUME IsPrimitive(type) PROVE <<type.base[1] - 32>> \in Name
    <2>1. type.base[1] - 32 \in 0..127
      BY <1>2 DEF IsPrimitive, Primitive
    <2> QED
      BY <2>1, LowNames
  <1>3. <<76>> \o type.base \o <<59>> \in Name
    <2>1. <<76>> \in Name /\ <<59>> \in Name
      BY LowNames
    <2>2. <<76>> \o type.base \in Name
      BY <2>1, NamesJoin
    <2> QED
      BY <2>1, <2>2, NamesJoin
  <1>4. plain \in Name
    BY <1>2, <1>3
  <1>5. JvmType(type) = brackets \o plain
    BY DEF JvmType
  <1> HIDE DEF brackets, plain
  <1> QED
    BY <1>1, <1>4, <1>5, NamesJoin

\* The names a compiler writes itself.
LEMMA WrittenNames ==
    /\ JvmType(Given) \in Name /\ MethodDescriptor \in Name /\ ConstructorDescriptor \in Name
    /\ Init0 \in Name /\ Clinit \in Name /\ <<98>> \in Name /\ <<40, 41, 86>> \in Name
    /\ <<111>> \in Name /\ <<112, 47, 73>> \in Name /\ Package \o <<Slash>> \in Name
    /\ <<Dollar>> \in Name /\ <<49>> \in Name /\ <<>> \in Name
  <1>1. /\ <<40>> \in Name /\ <<41>> \in Name /\ <<47>> \in Name /\ <<105>> \in Name
        /\ <<98>> \in Name /\ <<111>> \in Name /\ <<112>> \in Name /\ <<36>> \in Name
        /\ <<49>> \in Name
        /\ <<112, 47, 65>> \in Name /\ <<112, 47, 66>> \in Name /\ <<112, 47, 73>> \in Name
        /\ <<40, 41, 86>> \in Name /\ <<60, 105, 62>> \in Name /\ <<60, 99, 62>> \in Name
        /\ <<40, 73, 41, 86>> \in Name
    <2>1. \A a \in 0..127 : a \in Scalar
      BY Bounds DEF Scalar, IsScalar
    <2>2. /\ 36 \in Scalar /\ 40 \in Scalar /\ 41 \in Scalar /\ 47 \in Scalar /\ 49 \in Scalar
          /\ 60 \in Scalar /\ 62 \in Scalar /\ 65 \in Scalar /\ 66 \in Scalar /\ 73 \in Scalar
          /\ 86 \in Scalar /\ 98 \in Scalar /\ 99 \in Scalar /\ 105 \in Scalar
          /\ 111 \in Scalar /\ 112 \in Scalar
      BY <2>1
    <2> QED
      BY <2>2, NamesAre
  <1>2. /\ JavaType(<<112, 47, 66>>, 0).base \in Name /\ JavaType(<<105>>, 2).base \in Name
        /\ JavaType(<<112, 47, 65>>, 1).base \in Name
        /\ JavaType(<<112, 47, 66>>, 0).dimensions \in Nat
        /\ JavaType(<<105>>, 2).dimensions \in Nat
        /\ JavaType(<<112, 47, 65>>, 1).dimensions \in Nat
    BY <1>1 DEF JavaType
  <1>3. /\ JvmType(JavaType(<<112, 47, 66>>, 0)) \in Name /\ JvmType(JavaType(<<105>>, 2)) \in Name
        /\ JvmType(JavaType(<<112, 47, 65>>, 1)) \in Name
    BY <1>2, JvmTypes
  <1>4. JvmType(Given) \in Name
    BY <1>3 DEF Given
  <1>5. FlattenSeq([k \in DOMAIN Taken |-> JvmType(Taken[k])]) \in Name
    <2> DEFINE s == [k \in DOMAIN Taken |-> JvmType(Taken[k])]
    <2>1. /\ DOMAIN Taken = 1..3 /\ Taken[1] = JavaType(<<112, 47, 66>>, 0)
          /\ Taken[2] = JavaType(<<105>>, 2) /\ Taken[3] = JavaType(<<112, 47, 65>>, 1)
      BY DEF Taken
    <2>2. DOMAIN s = 1..3 /\ s = [k \in DOMAIN s |-> s[k]]
      BY <2>1
    <2>3. \A k \in 1..3 : s[k] \in Name
      <3> TAKE k \in 1..3
      <3>1. k = 1 \/ k = 2 \/ k = 3
        OBVIOUS
      <3> QED
        BY <1>3, <2>1, <3>1
    <2> HIDE DEF s
    <2>4. s \in Seq(Name)
      BY <2>2, <2>3, ListOf
    <2>5. FlattenSeq(s) \in Name
      BY <2>4, NamesJoin
    <2> QED
      BY <2>5 DEF s
  <1>6. MethodDescriptor \in Name
    <2> DEFINE s == FlattenSeq([k \in DOMAIN Taken |-> JvmType(Taken[k])])
               g == JvmType(Given)
    <2>1. s \in Name /\ g \in Name /\ <<40>> \in Name /\ <<41>> \in Name
      BY <1>1, <1>4, <1>5
    <2>2. MethodDescriptor = <<40>> \o s \o <<41>> \o g
      BY DEF MethodDescriptor
    <2> HIDE DEF s, g
    <2>3. <<40>> \o s \in Name
      BY <2>1, NamesJoin
    <2>4. <<40>> \o s \o <<41>> \in Name
      BY <2>1, <2>3, NamesJoin
    <2>5. <<40>> \o s \o <<41>> \o g \in Name
      BY <2>1, <2>4, NamesJoin
    <2> QED
      BY <2>2, <2>5
  <1>7. Package \o <<Slash>> \in Name
    <2>1. Package \in Name /\ <<Slash>> \in Name
      BY <1>1 DEF Package, Slash
    <2> QED
      BY <2>1, NamesJoin
  <1>8. /\ ConstructorDescriptor \in Name /\ Init0 \in Name /\ Clinit \in Name /\ <<98>> \in Name
        /\ <<40, 41, 86>> \in Name /\ <<111>> \in Name /\ <<112, 47, 73>> \in Name
        /\ <<Dollar>> \in Name /\ <<49>> \in Name
    BY <1>1 DEF ConstructorDescriptor, Init0, Clinit, Dollar
  <1> QED
    BY <1>4, <1>6, <1>7, <1>8, LowNames

---------------------------------------------------------------------------
\* The declaration around a node is a node before it.
LEMMA DeclaringIs ==
    ASSUME NEW t, IsTree(t), NEW i \in 1..Len(t)
    PROVE  DeclaringType(t, i) \in 0..(i - 1)
  <1> DEFINE around == {j \in Ancestors(t, i) : t[j].kind \in ClassKind}
             n == i - 1
  <1>1. n \in Nat /\ Len(t) \in Nat
    BY TreeNodes
  <1>2. around \subseteq 1..n
    <2>1. PICK table : IsAround(table, t)
      BY AroundIs
    <2>2. t[i].parent \in 0..(i - 1) /\ t[i].parent \in 0..Len(t)
      BY TreeNodes
    <2>3. Ancestors(t, i) \subseteq 1..(t[i].parent)
      BY <2>1, <2>2 DEF IsAround
    <2> QED
      BY <1>1, <2>2, <2>3
  <1>3. DeclaringType(t, i) = IF around = {} THEN 0
                              ELSE CHOOSE j \in around : \A k \in around : k <= j
    BY DEF DeclaringType
  <1> HIDE DEF around
  <1>4. ASSUME around # {}
        PROVE  \E j \in around : \A k \in around : k <= j
    <2>1. Max(around) \in around /\ \A y \in around : Max(around) >= y
      BY <1>1, <1>2, <1>4, MaxIsElement
    <2> DEFINE m == Max(around)
    <2>2. m \in around /\ \A y \in around : m >= y
      BY <2>1
    <2> HIDE DEF m
    <2>3. \A k \in around : k <= m
      BY <1>1, <1>2, <2>2
    <2> QED
      BY <2>2, <2>3
  <1> DEFINE d == DeclaringType(t, i)
  <1>5. d \in around \/ d = 0
    BY <1>3, <1>4
  <1> HIDE DEF d, n
  <1>6. d \in 0..n
    <2>1. d \in 1..n \/ d = 0
      BY <1>2, <1>5
    <2> QED
      BY <1>1, <2>1
  <1> QED
    BY <1>6 DEF d, n

\* A class is named by a name.
LEMMA BinaryNameIs ==
    ASSUME NEW t, IsTree(t), NEW i \in 1..Len(t)
    PROVE  BinaryName(t, i) \in Name
  <1> DEFINE N == Len(t)
             outer(j) == DeclaringType(t, j)
             Own(j, w) == (IF outer(j) = 0 THEN Package \o <<Slash>> ELSE w \o <<Dollar>>)
                          \o (IF IsLocal(t, j) THEN <<49>> ELSE <<>>)
                          \o t[j].name
             F == [q \in (1..N) \X Name |-> Own(q[1], q[2])]
             p == [j \in 1..N |-> outer(j)]
             IsTable(f) ==
                 f = [j \in DOMAIN t |->
                         (IF outer(j) = 0 THEN Package \o <<Slash>> ELSE f[outer(j)] \o <<Dollar>>)
                         \o (IF IsLocal(t, j) THEN <<49>> ELSE <<>>)
                         \o t[j].name]
             table == CHOOSE f : IsTable(f)
  <1>1. /\ N \in Nat /\ DOMAIN t = 1..N
        /\ \A j \in 1..N : t[j].name \in Name /\ outer(j) \in 0..(j - 1)
    BY TreeNodes, DeclaringIs
  <1>2. BinaryName(t, i) = table[i]
    BY DEF BinaryName
  <1> HIDE DEF outer, N
  <1>3. LeadsBack(p, N)
    BY <1>1 DEF LeadsBack
  <1>4. /\ Package \o <<Slash>> \in Name /\ <<Dollar>> \in Name /\ <<49>> \in Name
        /\ <<>> \in Name
    BY WrittenNames
  <1>5. ASSUME NEW j \in 1..N, NEW w \in Name PROVE Own(j, w) \in Name
    <2> DEFINE a == IF outer(j) = 0 THEN Package \o <<Slash>> ELSE w \o <<Dollar>>
               b == IF IsLocal(t, j) THEN <<49>> ELSE <<>>
               d == t[j].name
    <2>1. a \in Name
      BY <1>4, NamesJoin
    <2>2. b \in Name /\ d \in Name
      BY <1>1, <1>4
    <2> HIDE DEF a, b, d
    <2>3. a \o b \in Name
      BY <2>1, <2>2, NamesJoin
    <2>4. a \o b \o d \in Name
      BY <2>2, <2>3, NamesJoin
    <2> QED
      BY <2>4 DEF a, b, d
  <1>6. PassesOn(F, N, Name)
    <2> HIDE DEF Own
    <2> QED
      BY <1>5 DEF PassesOn
  <1> DEFINE none == <<>>
  <1>7. PICK f \in [0..N -> Name] : f[0] = none /\ \A j \in 1..N : f[j] = F[<<j, f[p[j]]>>]
    <2>1. none \in Name
      BY <1>4
    <2> HIDE DEF F, p, none
    <2> QED
      BY <1>1, <1>3, <1>6, <2>1, ValuesFromBack
  <1>8. \A j \in 1..N : f[j] = Own(j, f[outer(j)])
    <2> HIDE DEF Own
    <2> TAKE j \in 1..N
    <2>1. p[j] = outer(j) /\ outer(j) \in 0..N
      BY <1>1
    <2>2. f[outer(j)] \in Name
      BY <1>7, <2>1
    <2>3. F[<<j, f[p[j]]>>] = Own(j, f[outer(j)])
      BY <2>1, <2>2
    <2> QED
      BY <1>7, <2>3
  <1> DEFINE g == [j \in 1..N |-> f[j]]
  <1>9. IsTable(g)
    <2>1. \A j \in 1..N : outer(j) # 0 => g[outer(j)] = f[outer(j)]
      BY <1>1, SMTT(30)
    <2>2. \A j \in 1..N :
              g[j] = (IF outer(j) = 0 THEN Package \o <<Slash>> ELSE g[outer(j)] \o <<Dollar>>)
                     \o (IF IsLocal(t, j) THEN <<49>> ELSE <<>>)
                     \o t[j].name
      <3> TAKE j \in 1..N
      <3>1. g[j] = Own(j, f[outer(j)])
        BY <1>8
      <3> HIDE DEF g
      <3> QED
        BY <2>1, <3>1
    <2>3. g = [j \in 1..N |-> g[j]]
      OBVIOUS
    <2> HIDE DEF g
    <2> QED
      BY <1>1, <2>2, <2>3
  <1>10. IsTable(table)
    <2> HIDE DEF IsTable
    <2> QED
      BY <1>9
  <1>11. PICK a : IsTable(a) /\ BinaryName(t, i) = a[i]
    <2> HIDE DEF IsTable, table
    <2> QED
      BY <1>2, <1>10
  <1>12. \A j \in 1..N : a[j] = Own(j, IF outer(j) = 0 THEN <<>> ELSE a[outer(j)])
    BY <1>1, <1>11
  <1> DEFINE T == {j \in 0..N : j = 0 \/ a[j] \in Name}
  <1>13. Carries(p, N, T)
    <2>1. 0 \in T
      BY <1>1
    <2>2. ASSUME NEW j \in 1..N, p[j] \in T PROVE j \in T
      <3> DEFINE w == IF outer(j) = 0 THEN <<>> ELSE a[outer(j)]
      <3>1. w \in Name
        BY <1>4, <2>2
      <3> HIDE DEF w, Own
      <3>2. a[j] = Own(j, w)
        BY <1>12 DEF w
      <3>3. a[j] \in Name
        BY <1>5, <3>1, <3>2
      <3> QED
        BY <3>3
    <2> HIDE DEF T, p
    <2> QED
      BY <2>1, <2>2 DEF Carries
  <1> HIDE DEF T, p
  <1>14. 0..N \subseteq T
    BY <1>1, <1>3, <1>13, BackInduction
  <1>15. i \in 0..N /\ i # 0
    BY <1>1 DEF N
  <1>16. a[i] \in Name
    BY <1>14, <1>15 DEF T
  <1> QED
    BY <1>11, <1>16

\* The elements of a finite set of names, in a row.
LEMMA AsSequenceIs ==
    ASSUME NEW S, IsFiniteSet(S), S \subseteq Name
    PROVE  AsSequence(S) \in Seq(Name)
  <1> DEFINE n == Cardinality(S)
             s == CHOOSE f \in [1..n -> S] : IsInjective(f)
  <1>1. n \in Nat /\ ExistsBijection(1..n, S)
    BY FS_CardinalityType
  <1>2. \E f \in [1..n -> S] : IsInjective(f)
    BY <1>1 DEF ExistsBijection, Bijection, Injection, IsInjective
  <1>3. s \in [1..n -> S]
    BY <1>2
  <1>4. AsSequence(S) = s
    BY DEF AsSequence, SetToSeq
  <1> HIDE DEF s, n
  <1>5. DOMAIN s = 1..n /\ s = [k \in DOMAIN s |-> s[k]] /\ \A k \in 1..n : s[k] \in Name
    BY <1>3
  <1> QED
    BY <1>1, <1>4, <1>5, ListOf

\* The image of a finite set.
LEMMA ImageIsFinite ==
    ASSUME NEW S, IsFiniteSet(S), NEW f
    PROVE  IsFiniteSet({f[x] : x \in S})
  <1>1. PICK n \in Nat : ExistsSurjection(1..n, S)
    BY FS_NatSurjection
  <1>2. PICK g \in [1..n -> S] : \A x \in S : \E k \in 1..n : g[k] = x
    BY <1>1 DEF ExistsSurjection, Surjection
  <1> DEFINE T == {f[x] : x \in S}
             h == [k \in 1..n |-> f[g[k]]]
  <1>3. h \in [1..n -> T]
    BY <1>2
  <1>4. \A y \in T : \E k \in 1..n : h[k] = y
    BY <1>2
  <1> HIDE DEF T, h
  <1>5. ExistsSurjection(1..n, T)
    BY <1>3, <1>4 DEF ExistsSurjection, Surjection
  <1>6. IsFiniteSet(T)
    BY <1>1, <1>5, FS_NatSurjection
  <1> QED
    BY <1>6 DEF T

\* The names of the members of a declaration.
LEMMA NamesInAre ==
    ASSUME NEW t, IsTree(t), NEW i, NEW kind
    PROVE  IsFiniteSet(NamesIn(t, i, kind)) /\ NamesIn(t, i, kind) \subseteq Name
  <1> DEFINE N == Len(t)
             D == {k \in ChildrenOf(t, i) : t[k].kind = kind}
             f == [j \in 1..N |-> t[j].name]
  <1>1. N \in Nat /\ DOMAIN t = 1..N /\ \A j \in 1..N : t[j].name \in Name
    BY TreeNodes
  <1>2. D \subseteq 1..N
    BY <1>1 DEF ChildrenOf
  <1>3. IsFiniteSet(D)
    <2>1. IsFiniteSet(1..N)
      BY <1>1, FS_Interval
    <2>2. D \in SUBSET (1..N)
      BY <1>2
    <2> HIDE DEF D, N
    <2> QED
      BY <2>1, <2>2, FS_Subset
  <1>4. NamesIn(t, i, kind) = {t[j].name : j \in D}
    BY DEF NamesIn
  <1> HIDE DEF D
  <1>5. {t[j].name : j \in D} = {f[j] : j \in D}
    BY <1>2
  <1>6. {t[j].name : j \in D} \subseteq Name
    BY <1>1, <1>2
  <1> HIDE DEF f
  <1>7. IsFiniteSet({f[j] : j \in D})
    BY <1>3, ImageIsFinite
  <1> QED
    BY <1>4, <1>5, <1>6, <1>7

\* The methods Lombok adds.
LEMMA GeneratedAre ==
    ASSUME TreeInv, NEW i, NEW generated \in SUBSET Generatable(tree, i, Accessor, Added)
    PROVE  IsFiniteSet(generated) /\ generated \subseteq Name
  <1> DEFINE S == NamesIn(tree, i, "field_declaration") \cap DOMAIN Accessor
             T == {Accessor[x] : x \in S} \cup Added
  <1>1. generated \subseteq T
    <2>1. generated \subseteq Generatable(tree, i, Accessor, Added)
      OBVIOUS
    <2>2. Generatable(tree, i, Accessor, Added) \subseteq T
      BY DEF Generatable
    <2> HIDE DEF T
    <2> QED
      BY <2>1, <2>2
  <1>2. IsFiniteSet(S)
    <2>1. IsFiniteSet(NamesIn(tree, i, "field_declaration"))
      BY NamesInAre DEF TreeInv
    <2> QED
      BY <2>1, FS_Subset
  <1>3. {Accessor[x] : x \in S} \subseteq Name
    BY SymbolsAssumption, NamesAreTexts
  <1>4. Added \subseteq Name /\ IsFiniteSet(Added)
    BY SymbolsAssumption, NamesAreTexts
  <1> HIDE DEF S
  <1>5. IsFiniteSet({Accessor[x] : x \in S})
    BY <1>2, ImageIsFinite
  <1>6. IsFiniteSet(T) /\ T \subseteq Name
    BY <1>3, <1>4, <1>5, FS_Union
  <1> HIDE DEF T
  <1> QED
    BY <1>1, <1>6, FS_Subset

\* Members of one descriptor, named after a list of names.
LEMMA MembersOf ==
    ASSUME NEW s \in Seq(Name), NEW descriptor \in Name, NEW flags \in Nat
    PROVE  [k \in DOMAIN s |-> JvmMember(s[k], descriptor, flags)] \in Seq(MemberRecord)
  <1> DEFINE members == [k \in DOMAIN s |-> JvmMember(s[k], descriptor, flags)]
  <1>1. Len(s) \in Nat /\ DOMAIN s = 1..Len(s) /\ \A k \in 1..Len(s) : s[k] \in Name
    BY LenProperties, ElementOfSeq
  <1>2. \A k \in 1..Len(s) : members[k] \in MemberRecord
    BY <1>1 DEF JvmMember, MemberRecord
  <1>3. DOMAIN members = 1..Len(s) /\ members = [k \in DOMAIN members |-> members[k]]
    BY <1>1
  <1> HIDE DEF members
  <1>4. members \in Seq(MemberRecord)
    BY <1>1, <1>2, <1>3, ListOf
  <1> QED
    BY <1>4 DEF members

\* What is compiled is a class, by the names the file gives it.
LEMMA ClassIs ==
    ASSUME TreeInv, NEW i \in 1..Len(tree),
           NEW generated \in SUBSET Generatable(tree, i, Accessor, Added),
           NEW fieldFlags \in Nat, NEW methodFlags \in Nat
    PROVE  ClassOf(tree, i, generated, fieldFlags, methodFlags) \in ClassRecord
  <1> DEFINE interface == tree[i].kind = "interface_declaration"
             flagsOf(written) == IF interface THEN Flag.public ELSE written
             fieldNames == AsSequence(NamesIn(tree, i, "field_declaration")
                                      \cup NamesIn(tree, i, "constant_declaration"))
             methodNames == AsSequence(NamesIn(tree, i, "method_declaration"))
             added == AsSequence(generated)
             a == [k \in DOMAIN methodNames |->
                      JvmMember(methodNames[k], MethodDescriptor, flagsOf(methodFlags))]
             b == [k \in DOMAIN added |-> JvmMember(added[k], MethodDescriptor, Flag.public)]
             d == IF interface THEN <<>>
                  ELSE <<JvmMember(Init0, ConstructorDescriptor, ConstructorFlags(tree, i))>>
             e == <<JvmMember(<<98>>, MethodDescriptor, Flag.public + Flag.synthetic),
                    JvmMember(Clinit, <<40, 41, 86>>, Flag.static)>>
             f == [k \in DOMAIN fieldNames |->
                      JvmMember(fieldNames[k], JvmType(Given), flagsOf(fieldFlags))]
             interfaces == IF tree[i].kind = "enum_declaration" THEN <<<<112, 47, 73>>>> ELSE <<>>
  <1>1. IsTree(tree)
    BY DEF TreeInv
  <1>2. /\ Flag.public \in Nat /\ Flag.static \in Nat /\ Flag.public + Flag.synthetic \in Nat
        /\ ClassFlags(tree, i) \in Nat /\ ConstructorFlags(tree, i) \in Nat
    BY DEF Flag, ClassFlags, ConstructorFlags
  <1>3. flagsOf(fieldFlags) \in Nat /\ flagsOf(methodFlags) \in Nat
    BY <1>2
  <1>4. fieldNames \in Seq(Name) /\ methodNames \in Seq(Name) /\ added \in Seq(Name)
    <2> DEFINE x == NamesIn(tree, i, "field_declaration")
               y == NamesIn(tree, i, "constant_declaration")
               z == NamesIn(tree, i, "method_declaration")
    <2>1. /\ IsFiniteSet(x) /\ x \subseteq Name /\ IsFiniteSet(y) /\ y \subseteq Name
          /\ IsFiniteSet(z) /\ z \subseteq Name
      BY <1>1, NamesInAre
    <2> HIDE DEF x, y, z
    <2>2. IsFiniteSet(x \cup y) /\ x \cup y \subseteq Name
      BY <2>1, FS_Union
    <2>3. AsSequence(x \cup y) \in Seq(Name) /\ AsSequence(z) \in Seq(Name)
      BY <2>1, <2>2, AsSequenceIs
    <2>4. AsSequence(generated) \in Seq(Name)
      BY GeneratedAre, AsSequenceIs
    <2> QED
      BY <2>3, <2>4 DEF x, y, z
  <1> HIDE DEF fieldNames, methodNames, added, flagsOf
  <1>5. a \in Seq(MemberRecord) /\ b \in Seq(MemberRecord) /\ f \in Seq(MemberRecord)
    <2>1. MethodDescriptor \in Name /\ JvmType(Given) \in Name
      BY WrittenNames
    <2>2. a \in Seq(MemberRecord)
      BY <1>3, <1>4, <2>1, MembersOf
    <2>3. b \in Seq(MemberRecord)
      BY <1>2, <1>4, <2>1, MembersOf
    <2>4. f \in Seq(MemberRecord)
      BY <1>3, <1>4, <2>1, MembersOf
    <2> QED
      BY <2>2, <2>3, <2>4
  <1>6. d \in Seq(MemberRecord) /\ e \in Seq(MemberRecord)
    <2>1. /\ JvmMember(Init0, ConstructorDescriptor, ConstructorFlags(tree, i)) \in MemberRecord
          /\ JvmMember(<<98>>, MethodDescriptor, Flag.public + Flag.synthetic) \in MemberRecord
          /\ JvmMember(Clinit, <<40, 41, 86>>, Flag.static) \in MemberRecord
      BY <1>2, WrittenNames DEF JvmMember, MemberRecord
    <2> DEFINE u == JvmMember(Init0, ConstructorDescriptor, ConstructorFlags(tree, i))
               v == JvmMember(<<98>>, MethodDescriptor, Flag.public + Flag.synthetic)
               w == JvmMember(Clinit, <<40, 41, 86>>, Flag.static)
    <2> HIDE DEF u, v, w
    <2>2. u \in MemberRecord /\ v \in MemberRecord /\ w \in MemberRecord
      BY <2>1 DEF u, v, w
    <2>3. <<>> \in Seq(MemberRecord) /\ <<u>> \in Seq(MemberRecord)
          /\ <<v, w>> \in Seq(MemberRecord)
      BY <2>2, EmptySeq
    <2> QED
      BY <2>3 DEF u, v, w
  <1>7. interfaces \in Seq(Name)
    <2>1. <<112, 47, 73>> \in Name
      BY WrittenNames
    <2> DEFINE x == <<112, 47, 73>>
    <2> HIDE DEF x
    <2>2. <<x>> \in Seq(Name) /\ <<>> \in Seq(Name)
      BY <2>1, EmptySeq DEF x
    <2> QED
      BY <2>2 DEF x
  <1>8. BinaryName(tree, i) \in Name /\ <<111>> \in Name
    BY <1>1, BinaryNameIs, WrittenNames
  <1>9. ClassOf(tree, i, generated, fieldFlags, methodFlags) =
            [access_flags |-> ClassFlags(tree, i), this_class |-> BinaryName(tree, i),
             super_class |-> <<111>>, interfaces |-> interfaces, fields |-> f,
             methods |-> a \o b \o d \o e]
    BY DEF ClassOf, flagsOf, fieldNames, methodNames, added
  <1> HIDE DEF a, b, d, e, f, interfaces
  <1>10. a \o b \o d \o e \in Seq(MemberRecord)
    <2>1. a \o b \in Seq(MemberRecord)
      BY <1>5, ConcatProperties
    <2>2. a \o b \o d \in Seq(MemberRecord)
      BY <1>6, <2>1, ConcatProperties
    <2> QED
      BY <1>6, <2>2, ConcatProperties
  <1> QED
    BY <1>2, <1>5, <1>7, <1>8, <1>9, <1>10 DEF ClassRecord

---------------------------------------------------------------------------
\* The class that was written, and whether all of it was.
MadeIs(file, c, string) ==
    /\ made.class = c /\ made.build.string = string
    /\ made.build.unwritten \in Nat
    /\ made.build.unwritten = 0 <=> Len(bytes) = Len(file)

\* A file is being read that the compiler wrote.
Reading ==
    \E file, at, K, index, c, padding, string :
        /\ Setting(file, at, K, index, c, padding, string)
        /\ Reads(file, at, K, index, c, string)
        /\ MadeIs(file, c, string)

ParseInv == Inside /\ (phase # "idle" => Reading)

\* The beginning of a file.
LEMMA PartOfFile ==
    ASSUME NEW file \in Seq(Nat), Stands(file, 0, MAGIC), NEW unwritten \in Nat
    PROVE  LET part == SubSeq(file, 1, Len(file) - unwritten)
           IN  /\ part \in Seq(Nat) /\ Stands(file, 0, part)
               /\ unwritten = 0 <=> Len(part) = Len(file)
  <1> DEFINE n == Len(file)
             part == SubSeq(file, 1, n - unwritten)
  <1>1. n \in Nat /\ n # 0
    <2>1. Len(MAGIC) = 4
      BY DEF MAGIC
    <2>2. 0 + Len(MAGIC) <= n /\ n \in Nat
      BY LenProperties DEF Stands
    <2> QED
      BY <2>1, <2>2
  <1>2. CASE unwritten <= n
    <2> DEFINE m == n - unwritten
    <2>1. m \in 0..n /\ (unwritten = 0 <=> m = n)
      BY <1>1, <1>2
    <2>2. part \in Seq(Nat) /\ Len(part) = m /\ \A i \in 1..m : part[i] = file[i]
      <3>1. m \in 0..Len(file)
        BY <2>1
      <3> HIDE DEF m, n
      <3>2. /\ SubSeq(file, 1, m) \in Seq(Nat) /\ Len(SubSeq(file, 1, m)) = m
            /\ \A i \in 1..m : SubSeq(file, 1, m)[i] = file[i]
        BY <3>1, SubSeqProperties
      <3> QED
        BY <3>2 DEF m
    <2> HIDE DEF part, m
    <2>3. Stands(file, 0, part)
      BY <1>1, <2>1, <2>2 DEF Stands
    <2> QED
      BY <2>1, <2>2, <2>3 DEF part
  <1>3. CASE ~(unwritten <= n)
    <2>1. part = <<>>
      <3> DEFINE m == n - unwritten
      <3>1. m \in Int /\ m < 1
        BY <1>1, <1>3
      <3> HIDE DEF m, n
      <3>2. SubSeq(file, 1, m) = <<>>
        BY <3>1, SubSeqEmpty
      <3> QED
        BY <3>2 DEF m
    <2>2. part \in Seq(Nat) /\ Len(part) = 0
      BY <2>1, EmptySeq
    <2> HIDE DEF part
    <2>3. Stands(file, 0, part)
      BY <1>1, <2>2 DEF Stands
    <2>4. unwritten # 0 /\ Len(part) # n
      BY <1>1, <1>3, <2>2
    <2> QED
      BY <2>2, <2>3, <2>4 DEF part
  <1> QED
    BY <1>2, <1>3

\* A compiler writes a class file, or the beginning of one.
LEMMA CompileStep ==
    ASSUME TreeInv, Compile
    PROVE  ParseInv'
  <1>1. PICK i \in {j \in DOMAIN tree : tree[j].kind \in ClassKind},
             build \in Usual \cup Unusual :
            \E generated \in SUBSET Generatable(tree, i, Accessor, Added) :
                LET c == ClassOf(tree, i, generated, build.fields, build.methods)
                    content == ClassBytes(c, build.padding, build.string)
                IN  /\ OpenFile(SubSeq(content, 1, Len(content) - build.unwritten))
                    /\ made' = [of |-> i, class |-> c, generated |-> generated, build |-> build]
    BY DEF Compile
  <1>0. PICK generated \in SUBSET Generatable(tree, i, Accessor, Added) :
            LET c == ClassOf(tree, i, generated, build.fields, build.methods)
                content == ClassBytes(c, build.padding, build.string)
            IN  /\ OpenFile(SubSeq(content, 1, Len(content) - build.unwritten))
                /\ made' = [of |-> i, class |-> c, generated |-> generated, build |-> build]
    BY <1>1
  <1> DEFINE padding == build.padding
             string == build.string
  <1>2. IsBuild(build) /\ build.fields \in Nat /\ build.methods \in Nat /\ build.unwritten \in Nat
    BY SymbolsAssumption DEF IsBuild
  <1>3. i \in 1..Len(tree)
    BY TreeNodes DEF TreeInv
  <1>4. PICK c : /\ c = ClassOf(tree, i, generated, build.fields, build.methods)
                 /\ c \in ClassRecord
    BY <1>2, <1>3, ClassIs
  <1>5. PICK K, file : K = Constants(c, padding, string) /\ file = ClassBytes(c, padding, string)
    OBVIOUS
  <1>6. PICK index : index = Indices(K)
    OBVIOUS
  <1>7. PICK part : part = SubSeq(file, 1, Len(file) - build.unwritten)
    OBVIOUS
  <1>8. OpenFile(part) /\ made'.class = c /\ made'.build = build
    BY <1>0, <1>4, <1>5, <1>7
  <1>9. AreConstants(K, c, padding, string)
    BY <1>2, <1>4, <1>5, ConstantsAre
  <1>10. Len(K) \in Nat
    <2> DEFINE n == Len(ClassTexts(c))
               p == Len(padding)
               m == Len(Members(c))
    <2>1. n \in Nat /\ p \in Nat /\ m \in Nat /\ Len(K) = 2 * n + p + 2 * m + 1
      BY <1>9 DEF AreConstants
    <2> HIDE DEF n, p, m
    <2> QED
      BY <2>1
  <1>11. AreIndices(index, K)
    BY <1>6, <1>10, IndicesAre
  <1>12. PICK at : IsFile(file, at, K, index, c, Len(padding))
    <2>1. \E at : IsFile(ClassBytes(c, build.padding, build.string), at,
                         Constants(c, build.padding, build.string),
                         Indices(Constants(c, build.padding, build.string)), c,
                         Len(build.padding))
      BY <1>2, <1>4, FileIs
    <2> QED
      BY <1>5, <1>6, <2>1
  <1>13. file \in Seq(Nat) /\ Stands(file, 0, MAGIC)
    BY <1>12 DEF IsFile
  <1>14. /\ part \in Seq(Nat) /\ Stands(file, 0, part)
         /\ build.unwritten = 0 <=> Len(part) = Len(file)
    BY <1>2, <1>7, <1>13, PartOfFile
  <1>15. /\ bytes' = part /\ pos' = 0 /\ phase' = "header" /\ left' = 0
         /\ pool' = <<Unusable>> /\ class' = NoClassYet
    BY <1>8 DEF OpenFile
  <1>16. Setting(file, at, K, index, c, padding, string)'
    BY <1>4, <1>9, <1>10, <1>11, <1>12, <1>13, <1>14, <1>15 DEF Setting
  <1>17. Reads(file, at, K, index, c, string)'
    BY <1>15 DEF Reads, AtHeader
  <1>18. MadeIs(file, c, string)'
    BY <1>2, <1>8, <1>14, <1>15 DEF MadeIs
  <1>19. Reading'
    BY <1>16, <1>17, <1>18 DEF Reading
  <1>20. Inside'
    <2>1. Len(part) \in Nat
      BY <1>14, LenProperties
    <2> QED
      BY <1>15, <2>1 DEF Inside
  <1> QED
    BY <1>19, <1>20 DEF ParseInv

\* Reading goes on with the file that was written.
LEMMA ReadStep ==
    ASSUME ParseInv, Read
    PROVE  ParseInv'
  <1>1. Parse /\ made' = made /\ phase # "idle" /\ Inside
    BY DEF Read, ParseInv, Parse, Refuse, Parsing, ReadHeader, ReadConstant, EndConstants,
           ReadNames, ReadInterface, ReadField, ReadMethod, NextList, EndMethods,
           ReadAttributes, CanRead
  <1>2. PICK file, at, K, index, c, padding, string :
            /\ Setting(file, at, K, index, c, padding, string)
            /\ Reads(file, at, K, index, c, string)
            /\ MadeIs(file, c, string)
    BY <1>1 DEF ParseInv, Reading
  <1>3. Reads(file, at, K, index, c, string)' /\ Inside' /\ bytes' = bytes
    BY <1>1, <1>2, ParseStep
  <1>4. Setting(file, at, K, index, c, padding, string)'
    BY <1>2, <1>3 DEF Setting
  <1>5. MadeIs(file, c, string)'
    BY <1>1, <1>2, <1>3 DEF MadeIs
  <1>6. Reading'
    BY <1>3, <1>4, <1>5 DEF Reading
  <1> QED
    BY <1>3, <1>6 DEF ParseInv

\* Before anything is compiled there is nothing to read.
LEMMA ParseInit == Init => ParseInv
  BY EmptySeq DEF Init, ParseInv, Inside

\* Every step keeps to the file that was written.
LEMMA ParseInvStep == TreeInv /\ ParseInv /\ [Next]_vars => ParseInv'
  <1> SUFFICES ASSUME TreeInv, ParseInv, [Next]_vars PROVE ParseInv'
    OBVIOUS
  <1>1. ASSUME UNCHANGED <<made, parser>> PROVE ParseInv'
    <2>1. /\ bytes' = bytes /\ pos' = pos /\ phase' = phase /\ count' = count /\ left' = left
          /\ pool' = pool /\ class' = class /\ made' = made
      BY <1>1 DEF parser
    <2> QED
      BY <2>1 DEF ParseInv, Inside, Reading, Setting, Reads, MadeIs, AtHeader, InConstants,
                  AtNames, InInterfaces, InFields, InMethods, AllRead, Filled, Whole
  <1>2. CASE Type
    BY <1>1, <1>2 DEF Type
  <1>3. CASE Compile
    BY <1>3, CompileStep
  <1>4. CASE Read
    BY <1>4, ReadStep
  <1>5. CASE UNCHANGED vars
    BY <1>1, <1>5 DEF vars
  <1> QED
    BY <1>2, <1>3, <1>4, <1>5 DEF Next

\* What is read is what was written.
LEMMA Parsed == Spec => []ParseInv
  <1>1. Init => ParseInv
    BY ParseInit
  <1>2. TreeInv /\ ParseInv /\ [Next]_vars => ParseInv'
    BY ParseInvStep
  <1>3. Spec => []TreeInv
    BY Typed
  <1> QED
    BY <1>1, <1>2, <1>3, PTL DEF Spec

\* The tree is one, and the slots of the constants read and those to come are as many
\* as were announced, a long counted as two. (read_constant_pool)
THEOREM TypeCorrect == Spec => []TypeOK
  <1>1. TreeInv /\ ParseInv => TypeOK
    <2> SUFFICES ASSUME TreeInv, ParseInv PROVE TypeOK
      OBVIOUS
    <2>1. /\ \A i \in DOMAIN tree : tree[i].parent \in 0..(i - 1)
          /\ Len(tree) <= MaxNodes
      BY TreeNodes DEF TreeInv
    <2>2. pos \in 0..Len(bytes)
      BY DEF ParseInv, Inside
    <2>3. ASSUME phase = "constants" PROVE Len(pool) + left = count
      <3>1. PICK file, at, K, index, c, padding, string :
                /\ Setting(file, at, K, index, c, padding, string)
                /\ Reads(file, at, K, index, c, string)
        BY <2>3 DEF ParseInv, Reading
      <3>2. PICK k \in 0..Len(K) : /\ left = index[Len(K) + 1] - index[k + 1]
                                   /\ PoolIs(pool, K, index, k)
        BY <2>3, <3>1 DEF Reads, InConstants
      <3>3. count = index[Len(K) + 1] /\ Len(pool) = index[k + 1]
        BY <2>3, <3>1, <3>2 DEF Reads, InConstants, PoolIs
      <3>4. Len(K) \in Nat \ {0} /\ \A j \in 1..(Len(K) + 1) : index[j] \in Nat
        BY <3>1, Places
      <3> DEFINE x == index[Len(K) + 1]
                 y == index[k + 1]
      <3>5. x \in Nat /\ y \in Nat
        <4>1. k + 1 \in 1..(Len(K) + 1) /\ Len(K) + 1 \in 1..(Len(K) + 1)
          BY <3>4
        <4> QED
          BY <3>4, <4>1
      <3>6. left = x - y /\ count = x /\ Len(pool) = y
        BY <3>2, <3>3
      <3> HIDE DEF x, y
      <3> QED
        BY <3>5, <3>6
    <2> QED
      BY <2>1, <2>2, <2>3 DEF TypeOK
  <1> QED
    BY <1>1, Typed, Parsed, PTL

\* A class file is read as the class that was compiled, whatever constants it holds
\* besides, or refused: never half-read, and only when it was left short or a string
\* in it is no text. (parse, decode_modified_utf8)
THEOREM ParsedClassesAreCompiled == Spec => []ParsedIsCompiled
  <1>1. ParseInv => ParsedIsCompiled
    <2> SUFFICES ASSUME ParseInv, phase \in {"done", "failed"} PROVE ParsedIsCompiled
      BY DEF ParsedIsCompiled
    <2>1. PICK file, at, K, index, c, padding, string :
              /\ Setting(file, at, K, index, c, padding, string)
              /\ Reads(file, at, K, index, c, string)
              /\ MadeIs(file, c, string)
      BY DEF ParseInv, Reading
    <2>2. CASE phase = "failed"
      <3>1. ~Whole(file, string)
        BY <2>1, <2>2 DEF Reads
      <3>2. made.build.unwritten # 0 \/ Unpaired(made.build.string)
        BY <2>1, <3>1 DEF Whole, MadeIs
      <3>3. made.build.unwritten \in Nat
        BY <2>1 DEF MadeIs
      <3>4. made.build.unwritten > 0 \/ Unpaired(made.build.string)
        BY <3>2, <3>3
      <3> QED
        BY <2>2, <3>4 DEF ParsedIsCompiled
    <2>3. CASE phase = "done"
      <3>1. AllRead(c) /\ Len(bytes) = Len(file) /\ Filled(K, index, string)
        BY <2>1, <2>3 DEF Reads
      <3>2. c \in ClassRecord /\ made.class = c /\ made.build.string = string
            /\ made.build.unwritten = 0
        BY <2>1, <3>1 DEF Setting, MadeIs
      <3>3. class = [made.class EXCEPT !.methods = Callable(@)]
        <4>1. /\ SubSeq(c.interfaces, 1, Len(c.interfaces)) = c.interfaces
              /\ SubSeq(c.fields, 1, Len(c.fields)) = c.fields
              /\ SubSeq(c.methods, 1, Len(c.methods)) = c.methods
          BY <3>2, ListsOfClass, NoneAndAll
        <4>2. class = [access_flags |-> c.access_flags, this_class |-> c.this_class,
                       super_class |-> c.super_class, interfaces |-> c.interfaces,
                       fields |-> c.fields, methods |-> Callable(c.methods)]
          BY <3>1, <4>1 DEF AllRead, SoFar
        <4>3. c = [access_flags |-> c.access_flags, this_class |-> c.this_class,
                   super_class |-> c.super_class, interfaces |-> c.interfaces,
                   fields |-> c.fields, methods |-> c.methods]
          BY <3>2 DEF ClassRecord
        <4>4. [c EXCEPT !.methods = Callable(c.methods)] = class
          BY <3>2, <4>2, <4>3 DEF ClassRecord
        <4> QED
          BY <3>2, <4>4
      <3>4. \E k \in DOMAIN pool : pool[k].tag = "utf8" /\ pool[k].text = made.build.string
        <4> DEFINE n == Len(K)
                   k == index[n] + 1
        <4>1. PoolIs(pool, K, index, n) /\ ~Unpaired(string) /\ n \in Nat \ {0}
          BY <2>1, <3>1, Places DEF Filled
        <4>2. pool \in Seq(PoolEntry) /\ Len(pool) = index[n + 1]
              /\ pool[k] = EntriesOf(K[n], index)[1]
          BY <4>1 DEF PoolIs
        <4>3. K[n].tag = 1 /\ K[n].text = string
          BY <2>1 DEF Setting, AreConstants
        <4>4. pool[k] = [tag |-> "utf8", text |-> string]
          BY <4>1, <4>2, <4>3 DEF EntriesOf
        <4>5. k \in 1..Len(pool)
          <5>1. n \in 1..(n + 1) /\ n + 1 \in 1..(n + 1) /\ n < n + 1
            BY <4>1
          <5> DEFINE x == index[n]
                     y == index[n + 1]
          <5>2. x \in Nat /\ y \in Nat /\ x < y
            BY <2>1, <5>1 DEF Setting, AreIndices
          <5>3. Len(pool) = y /\ k = x + 1
            BY <4>2
          <5> HIDE DEF x, y, k
          <5> QED
            BY <5>2, <5>3
        <4>6. DOMAIN pool = 1..Len(pool)
          BY <4>2, LenProperties
        <4> HIDE DEF k
        <4> QED
          BY <3>2, <4>4, <4>5, <4>6
      <3> QED
        BY <2>3, <3>2, <3>3, <3>4 DEF ParsedIsCompiled
    <2> QED
      BY <2>2, <2>3
  <1> QED
    BY <1>1, Parsed, PTL
=============================================================================
