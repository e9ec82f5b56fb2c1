----------------------------- MODULE FoldLemmas -----------------------------
(***************************************************************************)
(* Induction over the natural numbers, stated for a set instead of a       *)
(* predicate, and what it gives for the folds of SequencesExt: the table   *)
(* of partial results that FoldLeft chooses exists.                        *)
(***************************************************************************)
EXTENDS SequencesExt, FiniteSetTheorems, SequenceTheorems, WellFoundedInduction, TLAPS

\* Every nonempty set of natural numbers has a least one: the intervals below
\* its elements are finite sets, and well-founded by inclusion.
LEMMA LeastNumber ==
    ASSUME NEW T \in SUBSET Nat, T # {}
    PROVE  \E x \in T : \A y \in T : x <= y
  <1> DEFINE Below(n) == 0..(n - 1)
             U == {Below(n) : n \in T}
  <1>1. \A n \in T : Below(n) \in FiniteSubsetsOf(Nat)
    <2> TAKE n \in T
    <2>1. IsFiniteSet(Below(n))
      BY FS_Interval
    <2>2. Below(n) \in SUBSET Nat
      OBVIOUS
    <2> QED
      BY <2>1, <2>2 DEF FiniteSubsetsOf
  <1>2. U \subseteq FiniteSubsetsOf(Nat) /\ U # {}
    BY <1>1
  <1>3. \E x \in U : \A y \in U : <<y, x>> \notin StrictSubsetOrdering(Nat)
    <2> HIDE DEF U
    <2> QED
      BY <1>2, FS_StrictSubsetOrderingWellFounded, WFMin
  <1>4. PICK x \in T : \A y \in T : <<Below(y), Below(x)>> \notin StrictSubsetOrdering(Nat)
    BY <1>3
  <1>5. ASSUME NEW y \in T, y < x PROVE FALSE
    <2>1. Below(y) \subseteq Below(x) /\ Below(x) # Below(y)
      <3>1. y \in Below(x) /\ y \notin Below(y)
        BY <1>5
      <3> QED
        BY <1>5, <3>1
    <2> HIDE DEF Below
    <2> QED
      BY <1>1, <1>4, <2>1 DEF StrictSubsetOrdering, FiniteSubsetsOf
  <1> QED
    BY <1>5

\* A set that holds 0 and with every number the next holds all of them.
LEMMA SetInduction ==
    ASSUME NEW T, 0 \in T, \A n \in Nat : n \in T => n + 1 \in T
    PROVE  Nat \subseteq T
  <1>1. ASSUME NEW m \in Nat, m \notin T PROVE FALSE
    <2> DEFINE B == Nat \ T
    <2>1. PICK x \in B : \A y \in B : x <= y
      BY <1>1, LeastNumber
    <2>2. x # 0 /\ x - 1 \in Nat
      BY <2>1
    <2>3. x - 1 \in T
      BY <2>1, <2>2
    <2> QED
      BY <2>1, <2>2, <2>3
  <1> QED
    BY <1>1

\* The greatest element of a nonempty set of positions is one of them, and
\* that of an initial interval is its end.
LEMMA MaxIsElement ==
    ASSUME NEW n \in Nat, NEW s \in SUBSET (1..n), s # {}
    PROVE  Max(s) \in s /\ Max(s) \in 1..n /\ \A y \in s : Max(s) >= y
  <1> DEFINE T == {n - y : y \in s}
  <1>1. T \in SUBSET Nat /\ T # {}
    <2>1. \A y \in s : n - y \in Nat
      OBVIOUS
    <2> QED
      BY <2>1
  <1>2. PICK t \in T : \A u \in T : t <= u
    <2> HIDE DEF T
    <2> QED
      BY <1>1, LeastNumber
  <1>3. PICK x \in s : t = n - x
    BY <1>2
  <1>4. \A y \in s : x >= y
    <2> TAKE y \in s
    <2>1. n - x <= n - y
      BY <1>2, <1>3
    <2> QED
      BY <2>1
  <1> QED
    BY <1>3, <1>4 DEF Max

\* The greatest number up to n is n.
LEMMA MaxOfInterval ==
    ASSUME NEW n \in Nat \ {0}
    PROVE  Max(1..n) = n
  BY MaxIsElement

\* One position more.
LEMMA NextPosition ==
    ASSUME NEW n \in Nat
    PROVE  1..(n + 1) = (1..n) \cup {n + 1}
  OBVIOUS

\* The first n of N positions, and what is left of them without the last.
LEMMA FirstPositions ==
    ASSUME NEW N \in Nat, NEW n \in 1..N
    PROVE  1..n \in SUBSET (1..N) /\ 1..n # {} /\ Max(1..n) = n /\ 1..n \ {n} = 1..(n - 1)
  <1>1. n \in Nat \ {0}
    OBVIOUS
  <1>2. Max(1..n) = n
    BY <1>1, MaxOfInterval
  <1>3. 1..n \ {n} = 1..(n - 1)
    OBVIOUS
  <1>4. 1..n \in SUBSET (1..N) /\ 1..n # {}
    OBVIOUS
  <1> QED
    BY <1>2, <1>3, <1>4

\* The least element of a nonempty set of numbers is one of them.
LEMMA MinIsElement ==
    ASSUME NEW s \in SUBSET Nat, s # {}
    PROVE  Min(s) \in s /\ \A y \in s : Min(s) <= y
  <1>1. \E x \in s : \A y \in s : x <= y
    BY LeastNumber
  <1> QED
    BY <1>1 DEF Min

\* The table in which FoldLeft looks up its partial results, by the set of the
\* positions folded, for steps given as a function F.
IsFoldTable(f, n, base, F) ==
    \A s \in SUBSET (1..n) :
        f[s] = IF s = {} THEN base ELSE F[<<f[s \ {Max(s)}], Max(s)>>]

\* There is such a table.
LEMMA FoldTable ==
    ASSUME NEW n \in Nat, NEW B, NEW base \in B, NEW F \in [B \X (1..n) -> B]
    PROVE  \E f \in [SUBSET (1..n) -> B] : IsFoldTable(f, n, base, F)
  <1> DEFINE Table(m, f) == IsFoldTable(f, m, base, F)
             Holds(m) == m <= n => \E f \in [SUBSET (1..m) -> B] : Table(m, f)
             T == {m \in Nat : Holds(m)}
  <1>1. Holds(0)
    <2> DEFINE f == [s \in SUBSET (1..0) |-> base]
    <2>1. f \in [SUBSET (1..0) -> B]
      OBVIOUS
    <2>2. \A s \in SUBSET (1..0) : s = {}
      OBVIOUS
    <2>3. Table(0, f)
      BY <2>2 DEF IsFoldTable
    <2> QED
      BY <2>1, <2>3
  <1>2. ASSUME NEW m \in Nat, Holds(m) PROVE Holds(m + 1)
    <2> SUFFICES ASSUME m + 1 <= n
                 PROVE  \E f \in [SUBSET (1..(m + 1)) -> B] : Table(m + 1, f)
      OBVIOUS
    <2>1. PICK f \in [SUBSET (1..m) -> B] : Table(m, f)
      <3>1. m <= n
        OBVIOUS
      <3> HIDE DEF Table
      <3> QED
        BY <1>2, <3>1
    <2> DEFINE h == [s \in SUBSET (1..(m + 1)) |->
                        IF m + 1 \in s THEN F[<<f[s \ {m + 1}], m + 1>>] ELSE f[s]]
    <2>2. \A s \in SUBSET (1..(m + 1)) :
              /\ s \ {m + 1} \in SUBSET (1..m)
              /\ m + 1 \notin s => s \in SUBSET (1..m)
      OBVIOUS
    <2>3. h \in [SUBSET (1..(m + 1)) -> B]
      BY <2>2
    <2>4. ASSUME NEW s \in SUBSET (1..(m + 1))
          PROVE  h[s] = IF s = {} THEN base ELSE F[<<h[s \ {Max(s)}], Max(s)>>]
      <3>1. CASE m + 1 \in s
        <4>1. Max(s) = m + 1
          BY <3>1, MaxIsElement
        <4>2. h[s \ {m + 1}] = f[s \ {m + 1}]
          BY <2>2
        <4>3. h[s] = F[<<f[s \ {m + 1}], m + 1>>]
          BY <3>1
        <4> HIDE DEF h
        <4> QED
          BY <3>1, <4>1, <4>2, <4>3
      <3>2. CASE m + 1 \notin s
        <4>1. s \in SUBSET (1..m) /\ s \ {Max(s)} \in SUBSET (1..m)
          BY <2>2, <3>2
        <4>2. h[s] = f[s] /\ h[s \ {Max(s)}] = f[s \ {Max(s)}]
          BY <3>2, <4>1
        <4> HIDE DEF h
        <4> QED
          BY <2>1, <4>1, <4>2 DEF IsFoldTable
      <3> QED
        BY <3>1, <3>2
    <2> QED
      BY <2>3, <2>4 DEF IsFoldTable
  <1>3. Holds(n)
    <2> HIDE DEF Holds
    <2>1. 0 \in T /\ \A m \in Nat : m \in T => m + 1 \in T
      BY <1>1, <1>2
    <2> HIDE DEF T
    <2>2. n \in T
      BY <2>1, SetInduction
    <2> QED
      BY <2>2 DEF T
  <1>4. \E f \in [SUBSET (1..n) -> B] : Table(n, f)
    <2>1. n <= n
      OBVIOUS
    <2> HIDE DEF Table
    <2> QED
      BY <1>3, <2>1
  <1> QED
    BY <1>4

\* The values that come up step by step from a first one.
IsIteration(g, n, base, F) == g[0] = base /\ \A i \in 1..n : g[i] = F[<<g[i - 1], i>>]

\* There are such values.
LEMMA Iteration ==
    ASSUME NEW n \in Nat, NEW B, NEW base \in B, NEW F \in [B \X (1..n) -> B]
    PROVE  \E g \in [0..n -> B] : IsIteration(g, n, base, F)
  <1>1. PICK f \in [SUBSET (1..n) -> B] : IsFoldTable(f, n, base, F)
    BY FoldTable
  <1> DEFINE g == [i \in 0..n |-> f[1..i]]
  <1>2. \A i \in 0..n : 1..i \in SUBSET (1..n)
    OBVIOUS
  <1>3. g \in [0..n -> B]
    BY <1>2
  <1>4. g[0] = base
    <2>1. 1..0 = {} /\ {} \in SUBSET (1..n)
      OBVIOUS
    <2>2. f[{}] = base
      BY <1>1, <2>1 DEF IsFoldTable
    <2> QED
      BY <2>1, <2>2
  <1>5. ASSUME NEW i \in 1..n PROVE g[i] = F[<<g[i - 1], i>>]
    <2>1. 1..i \in SUBSET (1..n) /\ 1..i # {} /\ Max(1..i) = i /\ 1..i \ {i} = 1..(i - 1)
      BY FirstPositions
    <2>2. f[1..i] = F[<<f[1..(i - 1)], i>>]
      BY <1>1, <2>1 DEF IsFoldTable
    <2>3. g[i] = f[1..i] /\ g[i - 1] = f[1..(i - 1)]
      OBVIOUS
    <2> QED
      BY <2>2, <2>3
  <1> QED
    BY <1>3, <1>4, <1>5 DEF IsIteration

(***************************************************************************)
(* Sequences of sequences, in one.                                         *)
(***************************************************************************)

\* What FlattenSeq makes of a sequence is the last of the concatenations of its
\* first elements.
LEMMA FlattenIsLast ==
    ASSUME NEW C, NEW s \in Seq(Seq(C)), NEW g \in [0..Len(s) -> Seq(C)], g[0] = <<>>,
           \A i \in 1..Len(s) : g[i] = g[i - 1] \o s[i]
    PROVE  FlattenSeq(s) = g[Len(s)]
  <1> DEFINE n == Len(s)
             IsTable(f) == f = [i \in 1..n |-> IF i = 1 THEN s[i] ELSE f[i - 1] \o s[i]]
             h == [i \in 1..n |-> g[i]]
  <1>1. n \in Nat /\ \A i \in 1..n : s[i] \in Seq(C)
    BY LenProperties, ElementOfSeq
  <1>2. CASE n = 0
    <2>1. s = <<>>
      BY <1>2, EmptySeq
    <2> QED
      BY <1>2, <2>1 DEF FlattenSeq
  <1>3. CASE n # 0
    <2>1. IsTable(h)
      <3>1. ASSUME NEW i \in 1..n PROVE h[i] = IF i = 1 THEN s[i] ELSE h[i - 1] \o s[i]
        <4>1. CASE i = 1
          <5> HIDE DEF IsTable, h
          <5>0. 1 \in 1..Len(s) /\ 1 - 1 = 0 /\ s[1] \in Seq(C)
            BY <1>1, <4>1
          <5>1. g[1] = <<>> \o s[1]
            BY <5>0
          <5>2. h[i] = g[1]
            BY <4>1 DEF h
          <5> QED
            BY <4>1, <5>0, <5>1, <5>2, ConcatEmptySeq
        <4>2. CASE i # 1
          <5>1. i - 1 \in 1..n /\ h[i] = g[i] /\ h[i - 1] = g[i - 1]
            BY <1>1, <4>2
          <5> QED
            BY <4>2, <5>1
        <4> QED
          BY <4>1, <4>2
      <3> QED
        BY <3>1
    <2>2. \A f : IsTable(f) => f[n] = h[n]
      <3> SUFFICES ASSUME NEW f, IsTable(f) PROVE f[n] = h[n]
        OBVIOUS
      <3> DEFINE Holds(i) == i + 1 <= n => f[i + 1] = h[i + 1]
                 T == {i \in Nat : Holds(i)}
      <3>1. \A i \in 1..n : f[i] = IF i = 1 THEN s[i] ELSE f[i - 1] \o s[i]
        OBVIOUS
      <3>2. \A i \in 1..n : h[i] = IF i = 1 THEN s[i] ELSE h[i - 1] \o s[i]
        BY <2>1
      <3> HIDE DEF IsTable, h
      <3>3. Holds(0)
        BY <1>1, <3>1, <3>2
      <3>4. ASSUME NEW i \in Nat, Holds(i) PROVE Holds(i + 1)
        <4> SUFFICES ASSUME i + 2 <= n PROVE f[i + 2] = h[i + 2]
          BY <1>1
        <4>1. i + 1 \in 1..n /\ i + 2 \in 1..n /\ (i + 2) - 1 = i + 1 /\ i + 2 # 1
          BY <1>1
        <4>2. f[i + 2] = f[i + 1] \o s[i + 2] /\ h[i + 2] = h[i + 1] \o s[i + 2]
          BY <3>1, <3>2, <4>1
        <4>3. f[i + 1] = h[i + 1]
          BY <3>4, <4>1
        <4> QED
          BY <4>2, <4>3
      <3> HIDE DEF Holds
      <3>5. 0 \in T /\ \A i \in Nat : i \in T => i + 1 \in T
        BY <3>3, <3>4
      <3> HIDE DEF T
      <3>6. Nat \subseteq T
        BY <3>5, SetInduction
      <3>7. n - 1 \in T /\ (n - 1) + 1 = n
        BY <3>6, <1>1, <1>3
      <3> QED
        BY <3>7, <1>1 DEF T, Holds
    <2>3. FlattenSeq(s) = (CHOOSE f : IsTable(f))[n]
      BY <1>3 DEF FlattenSeq
    <2>4. IsTable(CHOOSE f : IsTable(f))
      <3> HIDE DEF IsTable, h
      <3> QED
        BY <2>1
    <2> QED
      <3> HIDE DEF IsTable
      <3>1. FlattenSeq(s) = h[n]
        BY <2>2, <2>3, <2>4
      <3>2. n \in 1..n
        BY <1>1, <1>3
      <3> QED
        BY <3>1, <3>2
  <1> QED
    BY <1>2, <1>3

\* There is a sequence of concatenations.
LEMMA Concatenations ==
    ASSUME NEW C, NEW s \in Seq(Seq(C))
    PROVE  \E g \in [0..Len(s) -> Seq(C)] :
               g[0] = <<>> /\ \A i \in 1..Len(s) : g[i] = g[i - 1] \o s[i]
  <1> DEFINE n == Len(s)
             F == [p \in Seq(C) \X (1..n) |-> p[1] \o s[p[2]]]
  <1>1. n \in Nat /\ \A i \in 1..n : s[i] \in Seq(C)
    BY LenProperties, ElementOfSeq
  <1>2. F \in [Seq(C) \X (1..n) -> Seq(C)]
    BY <1>1, ConcatProperties
  <1>3. <<>> \in Seq(C)
    BY EmptySeq
  <1>4. PICK g \in [0..n -> Seq(C)] : IsIteration(g, n, <<>>, F)
    BY <1>1, <1>2, <1>3, Iteration
  <1>5. ASSUME NEW i \in 1..n PROVE g[i] = g[i - 1] \o s[i]
    <2> DEFINE p == <<g[i - 1], i>>
    <2>1. i - 1 \in 0..n
      BY <1>1
    <2>2. g[i - 1] \in Seq(C)
      BY <1>4, <2>1
    <2>3. p \in Seq(C) \X (1..n)
      BY <2>2
    <2>4. g[i] = F[p]
      BY <1>4 DEF IsIteration
    <2> QED
      BY <2>3, <2>4
  <1> QED
    BY <1>4, <1>5 DEF IsIteration

\* One sequence more comes behind the others.
LEMMA FlattenAppend ==
    ASSUME NEW C, NEW s \in Seq(Seq(C)), NEW e \in Seq(C)
    PROVE  /\ FlattenSeq(<<>>) = <<>>
           /\ FlattenSeq(s) \in Seq(C)
           /\ FlattenSeq(Append(s, e)) = FlattenSeq(s) \o e
  <1> DEFINE n == Len(s)
             t == Append(s, e)
  <1>1. n \in Nat /\ t \in Seq(Seq(C)) /\ Len(t) = n + 1 /\ t[n + 1] = e
        /\ \A i \in 1..n : t[i] = s[i]
    BY LenProperties, AppendProperties
  <1>2. PICK g \in [0..Len(t) -> Seq(C)] :
            g[0] = <<>> /\ \A i \in 1..Len(t) : g[i] = g[i - 1] \o t[i]
    BY <1>1, Concatenations
  <1> DEFINE h == [i \in 0..n |-> g[i]]
  <1>3. h \in [0..Len(s) -> Seq(C)] /\ h[0] = <<>>
    BY <1>1, <1>2
  <1>4. \A i \in 1..Len(s) : h[i] = h[i - 1] \o s[i]
    <2> TAKE i \in 1..Len(s)
    <2>1. i \in 1..Len(t) /\ i - 1 \in 0..n /\ h[i] = g[i] /\ h[i - 1] = g[i - 1]
      BY <1>1
    <2> QED
      BY <1>1, <1>2, <2>1
  <1>5. FlattenSeq(s) = g[n]
    <2> HIDE DEF h
    <2>1. FlattenSeq(s) = h[n]
      BY <1>3, <1>4, FlattenIsLast
    <2> QED
      BY <2>1, <1>1 DEF h
  <1>6. FlattenSeq(t) = g[n + 1]
    <2> HIDE DEF t
    <2> QED
      BY <1>1, <1>2, FlattenIsLast
  <1>7. g[n + 1] = g[n] \o e /\ g[n] \in Seq(C)
    <2>1. n \in Nat /\ Len(t) = n + 1
      BY <1>1
    <2> HIDE DEF n, t
    <2>2. n + 1 \in 1..(n + 1) /\ (n + 1) - 1 = n /\ n \in 0..(n + 1)
      BY <2>1
    <2>3. t[n + 1] = e
      BY <1>1
    <2>4. \A i \in 1..(n + 1) : g[i] = g[i - 1] \o t[i]
      BY <1>2, <2>1
    <2>5. g[n + 1] = g[n] \o e
      BY <2>2, <2>3, <2>4
    <2>6. g \in [0..(n + 1) -> Seq(C)]
      BY <1>2, <2>1
    <2> QED
      BY <2>2, <2>5, <2>6
  <1>8. FlattenSeq(<<>>) = <<>>
    BY EmptySeq DEF FlattenSeq
  <1> QED
    BY <1>5, <1>6, <1>7, <1>8

\* Two sequences in a row hold what each of them does.
LEMMA ConcatElements ==
    ASSUME NEW C, NEW a \in Seq(C), NEW b \in Seq(C)
    PROVE  ToSet(a \o b) = ToSet(a) \cup ToSet(b)
  <1>1. /\ Len(a \o b) = Len(a) + Len(b) /\ a \o b \in Seq(C)
        /\ \A k \in 1..(Len(a) + Len(b)) :
              (a \o b)[k] = IF k <= Len(a) THEN a[k] ELSE b[k - Len(a)]
    BY ConcatProperties
  <1> DEFINE c == a \o b
  <1> HIDE DEF c
  <1>2. /\ Len(a) \in Nat /\ DOMAIN a = 1..Len(a)
        /\ Len(b) \in Nat /\ DOMAIN b = 1..Len(b)
        /\ DOMAIN c = 1..(Len(a) + Len(b))
    BY <1>1, LenProperties DEF c
  <1>3. \A k \in 1..(Len(a) + Len(b)) : c[k] = IF k <= Len(a) THEN a[k] ELSE b[k - Len(a)]
    BY <1>1 DEF c
  <1>4. ToSet(c) \subseteq ToSet(a) \cup ToSet(b)
    <2>1. ASSUME NEW k \in 1..(Len(a) + Len(b)) PROVE c[k] \in ToSet(a) \cup ToSet(b)
      <3>1. CASE k <= Len(a)
        <4>1. k \in DOMAIN a /\ c[k] = a[k]
          BY <1>2, <1>3, <3>1
        <4> QED
          BY <4>1 DEF ToSet
      <3>2. CASE ~(k <= Len(a))
        <4>1. k - Len(a) \in DOMAIN b /\ c[k] = b[k - Len(a)]
          BY <1>2, <1>3, <3>2
        <4> QED
          BY <4>1 DEF ToSet
      <3> QED
        BY <3>1, <3>2
    <2> QED
      BY <1>2, <2>1 DEF ToSet
  <1>5. ToSet(a) \subseteq ToSet(c)
    BY <1>2, <1>3 DEF ToSet
  <1>6. ASSUME NEW k \in 1..Len(b) PROVE b[k] \in ToSet(c)
    <2>1. Len(a) + k \in 1..(Len(a) + Len(b)) /\ (Len(a) + k) - Len(a) = k
          /\ ~(Len(a) + k <= Len(a))
      BY <1>2
    <2>2. c[Len(a) + k] = b[k]
      BY <1>3, <2>1
    <2> QED
      BY <1>2, <2>1, <2>2 DEF ToSet
  <1>7. ToSet(b) \subseteq ToSet(c)
    BY <1>2, <1>6 DEF ToSet
  <1> QED
    BY <1>4, <1>5, <1>7 DEF c

\* So do any number of them.
LEMMA FlattenElements ==
    ASSUME NEW C, NEW s \in Seq(Seq(C))
    PROVE  /\ FlattenSeq(s) \in Seq(C)
           /\ ToSet(FlattenSeq(s)) = UNION {ToSet(s[i]) : i \in DOMAIN s}
  <1>1. Len(s) \in Nat /\ DOMAIN s = 1..Len(s) /\ \A i \in 1..Len(s) : s[i] \in Seq(C)
    BY LenProperties, ElementOfSeq
  <1>2. PICK g \in [0..Len(s) -> Seq(C)] :
            g[0] = <<>> /\ \A i \in 1..Len(s) : g[i] = g[i - 1] \o s[i]
    BY Concatenations
  <1> DEFINE Of(i) == ToSet(s[i])
             Holds(i) == i <= Len(s) => ToSet(g[i]) = UNION {Of(j) : j \in 1..i}
             T == {i \in Nat : Holds(i)}
  <1>3. 0 \in T
    <2>1. ToSet(g[0]) = {} /\ 1..0 = {}
      BY <1>2, EmptySeq DEF ToSet
    <2> QED
      BY <2>1
  <1>4. ASSUME NEW i \in T PROVE i + 1 \in T
    <2> HIDE DEF Of
    <2> SUFFICES ASSUME i + 1 <= Len(s)
                 PROVE  ToSet(g[i + 1]) = UNION {Of(j) : j \in 1..(i + 1)}
      OBVIOUS
    <2>1. i + 1 \in 1..Len(s) /\ i \in 0..Len(s) /\ i \in Nat /\ (i + 1) - 1 = i
      BY <1>1
    <2>2. g[i + 1] = g[i] \o s[i + 1]
      BY <1>2, <2>1
    <2>3. g[i] \in Seq(C) /\ s[i + 1] \in Seq(C)
      BY <1>1, <1>2, <2>1
    <2>4. ToSet(g[i + 1]) = ToSet(g[i]) \cup Of(i + 1)
      BY <2>2, <2>3, ConcatElements DEF Of
    <2>5. ToSet(g[i]) = UNION {Of(j) : j \in 1..i}
      BY <2>1
    <2>6. 1..(i + 1) = (1..i) \cup {i + 1}
      BY <2>1
    <2>7. UNION {Of(j) : j \in (1..i) \cup {i + 1}} = (UNION {Of(j) : j \in 1..i}) \cup Of(i + 1)
      OBVIOUS
    <2> QED
      BY <2>4, <2>5, <2>6, <2>7
  <1> HIDE DEF T
  <1>5. Nat \subseteq T
    BY <1>3, <1>4, SetInduction
  <1>6. ToSet(g[Len(s)]) = UNION {Of(j) : j \in 1..Len(s)}
    <2>1. Holds(Len(s))
      BY <1>1, <1>5, Zenon DEF T
    <2> HIDE DEF Of
    <2> QED
      BY <1>1, <2>1
  <1>7. FlattenSeq(s) = g[Len(s)]
    BY <1>2, FlattenIsLast
  <1>8. g[Len(s)] \in Seq(C)
    BY <1>1, <1>2
  <1> QED
    BY <1>1, <1>6, <1>7, <1>8

\* Values that are found from the end of a sequence of positions, each from one
\* behind it: next[i] is the position whose value that of i goes on with.
LeadsOn(next, L, end) == end = L + 1 /\ next \in [1..L -> 1..end] /\ \A i \in 1..L : next[i] > i
AreFromEnd(f, L, end, first, next) ==
    f[end] = <<>> /\ \A i \in 1..L : f[i] = <<first[i]>> \o f[next[i]]

\* There are such values.
LEMMA ValuesFromEnd ==
    ASSUME NEW S, NEW L \in Nat, NEW end, NEW first \in [1..L -> S],
           NEW next, LeadsOn(next, L, end)
    PROVE  \E f \in [1..end -> Seq(S)] : AreFromEnd(f, L, end, first, next)
  <1>0. /\ end = L + 1 /\ next \in [1..L -> 1..(L + 1)] /\ \A i \in 1..L : next[i] > i
    BY DEF LeadsOn
  <1> DEFINE Rule(f, m) == /\ f[L + 1] = <<>>
                           /\ \A i \in (L + 1 - m)..L : f[i] = <<first[i]>> \o f[next[i]]
             Holds(m) == m <= L => \E f \in [(L + 1 - m)..(L + 1) -> Seq(S)] : Rule(f, m)
             T == {m \in Nat : Holds(m)}
  <1>1. Holds(0)
    <2> DEFINE f == [i \in (L + 1 - 0)..(L + 1) |-> <<>>]
    <2>1. f \in [(L + 1 - 0)..(L + 1) -> Seq(S)]
      BY EmptySeq
    <2>2. L + 1 - 0 = L + 1 /\ (L + 1)..L = {} /\ L + 1 \in (L + 1 - 0)..(L + 1)
      OBVIOUS
    <2>3. Rule(f, 0)
      BY <2>2
    <2> QED
      BY <2>1, <2>3
  <1>2. ASSUME NEW m \in Nat, Holds(m) PROVE Holds(m + 1)
    <2> SUFFICES ASSUME m + 1 <= L
                 PROVE  \E f \in [(L + 1 - (m + 1))..(L + 1) -> Seq(S)] : Rule(f, m + 1)
      OBVIOUS
    <2>1. PICK f \in [(L + 1 - m)..(L + 1) -> Seq(S)] : Rule(f, m)
      <3>1. m <= L
        OBVIOUS
      <3> HIDE DEF Rule
      <3> QED
        BY <1>2, <3>1
    <2> DEFINE k == L - m
               h == [i \in k..(L + 1) |-> IF i = k THEN <<first[k]>> \o f[next[k]] ELSE f[i]]
    <2>2. /\ k \in 1..L /\ L + 1 - (m + 1) = k /\ L + 1 - m = k + 1
          /\ next[k] \in (k + 1)..(L + 1)
      BY <1>0
    <2>3. f \in [(k + 1)..(L + 1) -> Seq(S)] /\ f[L + 1] = <<>>
          /\ \A i \in (k + 1)..L : f[i] = <<first[i]>> \o f[next[i]]
      BY <2>1, <2>2
    <2> HIDE DEF k
    <2>4. <<first[k]>> \o f[next[k]] \in Seq(S)
      <3>1. f[next[k]] \in Seq(S) /\ <<first[k]>> \in Seq(S)
        BY <2>2, <2>3
      <3> QED
        BY <3>1, ConcatProperties
    <2>5. h \in [k..(L + 1) -> Seq(S)]
      <3>1. \A i \in k..(L + 1) : i # k => i \in (k + 1)..(L + 1)
        BY <2>2
      <3>2. \A i \in k..(L + 1) : i # k => f[i] \in Seq(S)
        BY <2>3, <3>1
      <3> QED
        BY <2>4, <3>2
    <2>6. h[L + 1] = <<>>
      BY <2>2, <2>3
    <2>7. ASSUME NEW i \in k..L PROVE h[i] = <<first[i]>> \o h[next[i]]
      <3>1. i \in 1..L /\ next[i] \in (k + 1)..(L + 1) /\ i \in k..(L + 1)
        BY <1>0, <2>2
      <3>2. h[next[i]] = f[next[i]]
        BY <2>2, <3>1
      <3>3. CASE i = k
        BY <3>1, <3>2, <3>3
      <3>4. CASE i # k
        <4>1. i \in (k + 1)..L
          BY <2>2, <3>1, <3>4
        <4> QED
          BY <2>3, <3>1, <3>2, <3>4, <4>1
      <3> QED
        BY <3>3, <3>4
    <2> HIDE DEF h
    <2>8. Rule(h, m + 1)
      BY <2>2, <2>6, <2>7
    <2> QED
      BY <2>2, <2>5, <2>8
  <1>3. Holds(L)
    <2> HIDE DEF Holds
    <2>1. 0 \in T /\ \A m \in Nat : m \in T => m + 1 \in T
      BY <1>1, <1>2
    <2> HIDE DEF T
    <2>2. L \in T
      BY <2>1, SetInduction
    <2> QED
      BY <2>2 DEF T
  <1>4. PICK f \in [(L + 1 - L)..(L + 1) -> Seq(S)] : Rule(f, L)
    <2>1. L <= L
      OBVIOUS
    <2> HIDE DEF Rule
    <2> QED
      BY <1>3, <2>1
  <1>5. L + 1 - L = 1
    OBVIOUS
  <1> QED
    BY <1>0, <1>4, <1>5 DEF AreFromEnd

\* There are no other such values.
LEMMA ValuesFromEndAgree ==
    ASSUME NEW L \in Nat, NEW end, NEW first, NEW next, LeadsOn(next, L, end),
           NEW f, AreFromEnd(f, L, end, first, next),
           NEW g, AreFromEnd(g, L, end, first, next)
    PROVE  \A i \in 1..end : f[i] = g[i]
  <1>0. /\ end = L + 1 /\ next \in [1..L -> 1..(L + 1)] /\ \A i \in 1..L : next[i] > i
        /\ f[L + 1] = <<>> /\ \A i \in 1..L : f[i] = <<first[i]>> \o f[next[i]]
        /\ g[L + 1] = <<>> /\ \A i \in 1..L : g[i] = <<first[i]>> \o g[next[i]]
    BY DEF LeadsOn, AreFromEnd
  <1> DEFINE D == {i \in 1..(L + 1) : f[i] # g[i]}
             m == Max(D)
  <1>1. ASSUME D # {} PROVE FALSE
    <2>1. m \in D /\ \A i \in D : m >= i
      <3>1. D \in SUBSET (1..(L + 1)) /\ L + 1 \in Nat
        OBVIOUS
      <3> HIDE DEF D
      <3> QED
        BY <1>1, <3>1, MaxIsElement
    <2> HIDE DEF m
    <2>2. m \in 1..(L + 1) /\ f[m] # g[m]
      BY <2>1
    <2>3. m # L + 1
      BY <1>0, <2>2
    <2>4. m \in 1..L /\ next[m] \in 1..(L + 1) /\ next[m] > m
      BY <1>0, <2>2, <2>3
    <2>5. next[m] \notin D
      BY <2>1, <2>4
    <2>6. f[next[m]] = g[next[m]]
      BY <2>4, <2>5
    <2> QED
      BY <1>0, <2>2, <2>4, <2>6
  <1> QED
    BY <1>0, <1>1

\* Two runs of values that begin as one and go on alike are one.
Alike(g, h, N) == g[0] = h[0] /\ \A n \in 1..N : g[n - 1] = h[n - 1] => g[n] = h[n]

\* Two functions that start alike and step alike have the same values.
LEMMA SameValues ==
    ASSUME NEW N \in Nat, NEW g, NEW h, Alike(g, h, N)
    PROVE  \A n \in 0..N : g[n] = h[n]
  <1> DEFINE Holds(n) == n <= N => g[n] = h[n]
             T == {n \in Nat : Holds(n)}
  <1>0. g[0] = h[0] /\ \A n \in 1..N : g[n - 1] = h[n - 1] => g[n] = h[n]
    BY DEF Alike
  <1>1. 0 \in T
    BY <1>0
  <1>2. ASSUME NEW n \in Nat, n \in T PROVE n + 1 \in T
    <2> SUFFICES ASSUME n + 1 <= N PROVE g[n + 1] = h[n + 1]
      OBVIOUS
    <2>1. n + 1 \in 1..N /\ (n + 1) - 1 = n /\ g[n] = h[n]
      BY <1>2
    <2>2. g[(n + 1) - 1] = h[(n + 1) - 1]
      BY <2>1
    <2> QED
      BY <1>0, <2>1, <2>2
  <1> HIDE DEF T
  <1>3. Nat \subseteq T
    BY <1>1, <1>2, SetInduction
  <1> QED
    BY <1>3 DEF T

\* The elements of a list with one more, and of one without the first.
LEMMA ListElements ==
    ASSUME NEW S, NEW s \in Seq(S), NEW e \in S
    PROVE  /\ ToSet(s) \subseteq S
           /\ ToSet(Append(s, e)) = ToSet(s) \cup {e}
           /\ s # <<>> => ToSet(s) = {Head(s)} \cup ToSet(Tail(s))
  <1>1. /\ Len(s) \in Nat /\ DOMAIN s = 1..Len(s) /\ \A i \in 1..Len(s) : s[i] \in S
    BY LenProperties, ElementOfSeq
  <1>2. ToSet(Append(s, e)) = ToSet(s) \cup {e}
    <2> DEFINE t == Append(s, e)
    <2>1. /\ t \in Seq(S) /\ Len(t) = Len(s) + 1 /\ t[Len(s) + 1] = e
          /\ \A i \in 1..Len(s) : t[i] = s[i]
      BY AppendProperties
    <2> HIDE DEF t
    <2>2. DOMAIN t = (1..Len(s)) \cup {Len(s) + 1}
      BY <1>1, <2>1, LenProperties, NextPosition
    <2>3. ToSet(t) = ToSet(s) \cup {e}
      BY <1>1, <2>1, <2>2 DEF ToSet
    <2> QED
      BY <2>3 DEF t
  <1>3. ASSUME s # <<>> PROVE ToSet(s) = {Head(s)} \cup ToSet(Tail(s))
    <2> DEFINE t == Tail(s)
    <2>1. /\ t \in Seq(S) /\ Len(t) = Len(s) - 1 /\ Head(s) = s[1]
          /\ \A i \in 1..Len(t) : t[i] = s[i + 1]
      BY <1>3, HeadTailProperties
    <2>2. Len(s) # 0
      BY <1>3, EmptySeq
    <2> HIDE DEF t
    <2>3. DOMAIN t = 1..(Len(s) - 1)
      BY <2>1, LenProperties
    <2>4. \A i \in 1..Len(s) : i = 1 \/ (i - 1 \in 1..(Len(s) - 1) /\ s[i] = t[i - 1])
      BY <1>1, <2>1, <2>2
    <2>5. \A i \in 1..(Len(s) - 1) : i + 1 \in 1..Len(s) /\ t[i] = s[i + 1]
      BY <1>1, <2>1, <2>2
    <2>6. 1 \in 1..Len(s)
      BY <1>1, <2>2
    <2>7. ToSet(s) \subseteq {s[1]} \cup ToSet(t)
      BY <1>1, <2>3, <2>4 DEF ToSet
    <2>8. {s[1]} \cup ToSet(t) \subseteq ToSet(s)
      BY <1>1, <2>3, <2>5, <2>6 DEF ToSet
    <2> QED
      BY <2>1, <2>7, <2>8 DEF t
  <1>4. ToSet(s) \subseteq S
    BY <1>1 DEF ToSet
  <1> QED
    BY <1>2, <1>3, <1>4

\* A list is its first element and the rest.
LEMMA HeadTailConcat ==
    ASSUME NEW S, NEW s \in Seq(S), s # <<>>
    PROVE  Head(s) \in S /\ Tail(s) \in Seq(S) /\ s = <<Head(s)>> \o Tail(s)
  <1> DEFINE h == Head(s)
             t == Tail(s)
             one == <<h>>
  <1>1. /\ h \in S /\ t \in Seq(S) /\ Len(t) = Len(s) - 1 /\ h = s[1]
        /\ \A i \in 1..Len(t) : t[i] = s[i + 1]
    BY HeadTailProperties
  <1>2. Len(s) \in Nat /\ Len(s) # 0
    BY EmptySeq, LenProperties
  <1>3. one \in Seq(S) /\ Len(one) = 1 /\ one[1] = h
    BY <1>1
  <1> HIDE DEF t, one, h
  <1>4. /\ one \o t \in Seq(S) /\ Len(one \o t) = Len(s)
        /\ \A k \in 1..Len(s) : (one \o t)[k] = IF k <= 1 THEN one[k] ELSE t[k - 1]
    <2>1. /\ one \o t \in Seq(S) /\ Len(one \o t) = Len(one) + Len(t)
          /\ \A k \in 1..(Len(one) + Len(t)) :
                (one \o t)[k] = IF k <= Len(one) THEN one[k] ELSE t[k - Len(one)]
      <3>1. one \in Seq(S) /\ t \in Seq(S)
        BY <1>1, <1>3
      <3> QED
        BY <3>1, ConcatProperties
    <2>2. Len(one) = 1 /\ Len(one) + Len(t) = Len(s)
      BY <1>1, <1>2, <1>3
    <2> QED
      BY <2>1, <2>2
  <1>5. \A k \in 1..Len(s) : (one \o t)[k] = s[k]
    <2> TAKE k \in 1..Len(s)
    <2>1. CASE k = 1
      BY <1>1, <1>3, <1>4, <2>1
    <2>2. CASE k # 1
      <3>1. k - 1 \in 1..Len(t) /\ (k - 1) + 1 = k /\ ~(k <= 1)
        BY <1>1, <1>2, <2>2
      <3> QED
        BY <1>1, <1>4, <3>1
    <2> QED
      BY <2>1, <2>2
  <1>6. s = one \o t
    BY <1>4, <1>5, SeqEqual
  <1> QED
    BY <1>1, <1>6 DEF one, h, t

\* A sequence whose last element grows by one grows by it, flattened.
Grown(t, s, v) ==
    /\ Len(s) # 0 /\ Len(t) = Len(s)
    /\ \A i \in 1..(Len(s) - 1) : t[i] = s[i]
    /\ t[Len(s)] = Append(s[Len(s)], v)

\* Flattening a list with one more element appends that element's list.
LEMMA FlattenGrows ==
    ASSUME NEW C, NEW s \in Seq(Seq(C)), NEW t \in Seq(Seq(C)), NEW v \in C, Grown(t, s, v)
    PROVE  FlattenSeq(t) = Append(FlattenSeq(s), v)
  <1> DEFINE D == Seq(C)
  <1>1. s \in Seq(D) /\ t \in Seq(D) /\ s # <<>>
    BY EmptySeq DEF Grown
  <1> HIDE DEF D
  <1>2. PICK front \in Seq(D), e \in D : s = Append(front, e)
    BY <1>1, SequenceEmptyOrAppend
  <1>3. /\ Len(s) = Len(front) + 1 /\ Len(front) \in Nat
        /\ \A i \in 1..Len(front) : s[i] = front[i]
        /\ s[Len(front) + 1] = e
    BY <1>2, AppendProperties, LenProperties
  <1> DEFINE longer == Append(e, v)
             u == Append(front, longer)
  <1>4. longer \in D
    BY <1>2, AppendProperties DEF D
  <1> HIDE DEF longer
  <1>5. /\ u \in Seq(D) /\ Len(u) = Len(front) + 1
        /\ \A i \in 1..Len(front) : u[i] = front[i]
        /\ u[Len(front) + 1] = longer
    BY <1>2, <1>4, AppendProperties
  <1> HIDE DEF u
  <1>6. /\ Len(t) = Len(front) + 1
        /\ \A i \in 1..Len(front) : t[i] = s[i]
        /\ t[Len(front) + 1] = longer
    <2>1. Len(s) - 1 = Len(front)
      BY <1>3
    <2> QED
      BY <1>3, <2>1 DEF Grown, longer
  <1>7. \A i \in 1..Len(t) : t[i] = u[i]
    <2>1. 1..Len(t) = (1..Len(front)) \cup {Len(front) + 1}
      BY <1>3, <1>6, NextPosition
    <2> QED
      BY <1>3, <1>5, <1>6, <2>1
  <1>8. t = u
    <2>1. Len(t) = Len(u)
      BY <1>5, <1>6
    <2> QED
      BY <1>1, <1>5, <1>7, <2>1, SeqEqual
  <1>9. FlattenSeq(t) = FlattenSeq(front) \o longer
    BY <1>2, <1>4, <1>8, FlattenAppend DEF u, D
  <1>10. FlattenSeq(s) = FlattenSeq(front) \o e /\ FlattenSeq(front) \in D
    BY <1>2, FlattenAppend DEF D
  <1> DEFINE f == FlattenSeq(front)
  <1>11. f \o longer = Append(f \o e, v)
    <2> DEFINE one == <<v>>
    <2>1. one \in D /\ f \in D /\ e \in D
      BY <1>2, <1>10 DEF D
    <2>2. longer = e \o one
      BY <2>1, AppendIsConcat DEF longer, D
    <2>3. f \o e \in D
      BY <2>1, ConcatProperties DEF D
    <2>4. Append(f \o e, v) = (f \o e) \o one
      <3> DEFINE fe == f \o e
      <3>1. fe \in Seq(C)
        BY <2>3 DEF D
      <3> HIDE DEF fe
      <3>2. Append(fe, v) = fe \o <<v>>
        BY <3>1, AppendIsConcat
      <3> QED
        BY <3>2 DEF fe
    <2> HIDE DEF one, f
    <2>5. (f \o e) \o one = f \o (e \o one)
      BY <2>1, ConcatAssociative DEF D
    <2> QED
      BY <2>2, <2>4, <2>5
  <1> QED
    BY <1>9, <1>10, <1>11

---------------------------------------------------------------------------
(***************************************************************************)
(* Recursion: functions whose value at a number is found from those at     *)
(* lower ones.                                                             *)
(***************************************************************************)

\* A step from the values so far to the next, that does not look at those to come.
LooksBack(Step, N, W) ==
    /\ Step \in [[1..N -> W] \X (1..N) -> W]
    /\ \A f, g \in [1..N -> W] : \A n \in 1..N :
        (\A m \in 1..(n - 1) : f[m] = g[m]) => Step[<<f, n>>] = Step[<<g, n>>]

\* The values such steps lead to.
LedTo(f, Step, N, W) == f \in [1..N -> W] /\ \A n \in 1..N : f[n] = Step[<<f, n>>]

\* There are such values.
LEMMA Recursion ==
    ASSUME NEW N \in Nat, NEW W, NEW w \in W,
           NEW Step, LooksBack(Step, N, W)
    PROVE  \E f : LedTo(f, Step, N, W)
  <1> DEFINE B == [1..N -> W]
             start == [n \in 1..N |-> w]
             F == [p \in B \X (1..N) |->
                      [m \in 1..N |-> IF m = p[2] THEN Step[p] ELSE p[1][m]]]
  <1>0. Step \in [B \X (1..N) -> W]
    BY DEF LooksBack
  <1>1. ASSUME NEW h \in B, NEW n \in 1..N
        PROVE  /\ F[<<h, n>>] \in B /\ F[<<h, n>>][n] = Step[<<h, n>>]
               /\ \A m \in 1..N : m # n => F[<<h, n>>][m] = h[m]
    <2>1. Step[<<h, n>>] \in W
      BY <1>0, <1>1
    <2>2. F[<<h, n>>] = [m \in 1..N |-> IF m = n THEN Step[<<h, n>>] ELSE h[m]]
      OBVIOUS
    <2> QED
      BY <2>1, <2>2
  <1>2. start \in B
    OBVIOUS
  <1> HIDE DEF start
  <1>3. PICK g : g \in [0..N -> B] /\ IsIteration(g, N, start, F)
    <2>1. F \in [B \X (1..N) -> B]
      BY <1>0, <1>1
    <2> HIDE DEF F, B
    <2> QED
      BY <1>2, <2>1, Iteration
  <1> HIDE DEF F
  <1>4. ASSUME NEW n \in 1..N
        PROVE  /\ g[n - 1] \in B /\ g[n] \in B /\ g[n][n] = Step[<<g[n - 1], n>>]
               /\ \A m \in 1..N : m # n => g[n][m] = g[n - 1][m]
    <2>1. n - 1 \in 0..N /\ n \in 0..N
      OBVIOUS
    <2>2. g[n - 1] \in B /\ g[n] \in B
      BY <1>3, <2>1
    <2>3. g[n] = F[<<g[n - 1], n>>]
      BY <1>3 DEF IsIteration
    <2> HIDE DEF B
    <2> DEFINE h == g[n - 1]
    <2> HIDE DEF h
    <2>4. h \in B /\ g[n] = F[<<h, n>>]
      BY <2>2, <2>3 DEF h
    <2> DEFINE k == F[<<h, n>>]
    <2>5. k[n] = Step[<<h, n>>] /\ \A m \in 1..N : m # n => k[m] = h[m]
      BY <1>1, <2>4
    <2> HIDE DEF k
    <2>6. g[n] = k
      BY <2>4 DEF k
    <2> QED
      BY <2>2, <2>5, <2>6 DEF h
  <1> DEFINE Holds(n) == n <= N => \A m \in 1..n : g[n][m] = g[m][m]
             T == {n \in Nat : Holds(n)}
  <1>5. 0 \in T
    OBVIOUS
  <1>6. ASSUME NEW n \in Nat, n \in T PROVE n + 1 \in T
    <2> SUFFICES ASSUME n + 1 <= N, NEW m \in 1..(n + 1) PROVE g[n + 1][m] = g[m][m]
      OBVIOUS
    <2>1. n + 1 \in 1..N /\ (n + 1) - 1 = n
      OBVIOUS
    <2>2. CASE m = n + 1
      BY <2>2
    <2>3. CASE m # n + 1
      <3>1. m \in 1..n /\ m \in 1..N
        BY <2>3
      <3>2. g[n + 1][m] = g[(n + 1) - 1][m]
        BY <1>4, <2>1, <2>3, <3>1
      <3>3. g[n][m] = g[m][m]
        BY <1>6, <3>1
      <3> QED
        BY <2>1, <3>2, <3>3
    <2> QED
      BY <2>2, <2>3
  <1> HIDE DEF T
  <1>7. Nat \subseteq T
    BY <1>5, <1>6, SetInduction
  <1>8. \A n \in 0..N : \A m \in 1..n : g[n][m] = g[m][m]
    <2> TAKE n \in 0..N
    <2>1. n \in T
      BY <1>7
    <2> QED
      BY <2>1 DEF T
  <1> DEFINE f == g[N]
  <1>9. f \in B
    BY <1>3
  <1>10. ASSUME NEW n \in 1..N PROVE f[n] = Step[<<f, n>>]
    <2>1. f[n] = g[n][n]
      BY <1>8
    <2>2. g[n][n] = Step[<<g[n - 1], n>>] /\ g[n - 1] \in B
      BY <1>4
    <2>3. \A m \in 1..(n - 1) : f[m] = g[n - 1][m]
      <3> TAKE m \in 1..(n - 1)
      <3>1. n - 1 \in 0..N /\ N \in 0..N /\ m \in 1..N
        OBVIOUS
      <3> QED
        BY <1>8, <3>1
    <2> HIDE DEF f
    <2>4. Step[<<g[n - 1], n>>] = Step[<<f, n>>]
      BY <1>9, <2>2, <2>3 DEF LooksBack
    <2> QED
      BY <2>1, <2>2, <2>4
  <1> HIDE DEF f
  <1> QED
    BY <1>9, <1>10 DEF LedTo

\* Numbers of which each leads back to a lower one, in the end to 0.
LeadsBack(p, N) == p \in [1..N -> 0..N] /\ \A j \in 1..N : p[j] < j

\* What holds of 0, and of a number if it does of where that leads back to.
Carries(p, N, T) == 0 \in T /\ \A j \in 1..N : p[j] \in T => j \in T

\* Such a thing holds of all of them.
LEMMA BackInduction ==
    ASSUME NEW N \in Nat, NEW p, LeadsBack(p, N), NEW T, Carries(p, N, T)
    PROVE  0..N \subseteq T
  <1> DEFINE U == {n \in Nat : \A j \in 0..N : j <= n => j \in T}
  <1>1. 0 \in U
    BY DEF Carries
  <1>2. ASSUME NEW n \in Nat, n \in U PROVE n + 1 \in U
    <2> SUFFICES ASSUME NEW j \in 0..N, j <= n + 1 PROVE j \in T
      OBVIOUS
    <2>1. CASE j <= n
      BY <1>2, <2>1
    <2>2. CASE j = n + 1
      <3>1. j \in 1..N
        BY <2>2
      <3>2. p[j] \in 0..N /\ p[j] <= n
        BY <2>2, <3>1 DEF LeadsBack
      <3>3. p[j] \in T
        BY <1>2, <3>2
      <3> QED
        BY <3>1, <3>3 DEF Carries
    <2> QED
      BY <2>1, <2>2
  <1> HIDE DEF U
  <1>3. Nat \subseteq U
    BY <1>1, <1>2, SetInduction
  <1>4. N \in U
    BY <1>3
  <1> QED
    BY <1>4 DEF U

\* What takes a number and the value where it leads back to to its own value.
PassesOn(F, N, W) == F \in [(1..N) \X W -> W]

\* There are such values, beginning with any w.
LEMMA ValuesFromBack ==
    ASSUME NEW N \in Nat, NEW p, LeadsBack(p, N), NEW W, NEW w \in W, NEW F, PassesOn(F, N, W)
    PROVE  \E f \in [0..N -> W] : f[0] = w /\ \A j \in 1..N : f[j] = F[<<j, f[p[j]]>>]
  <1> DEFINE B == [1..N -> W]
             Back(f, n) == IF p[n] = 0 THEN w ELSE f[p[n]]
             Step == [q \in B \X (1..N) |-> F[<<q[2], Back(q[1], q[2])>>]]
  <1>1. ASSUME NEW f \in B, NEW n \in 1..N
        PROVE  Back(f, n) \in W /\ Step[<<f, n>>] = F[<<n, Back(f, n)>>]
    <2>1. p[n] = 0 \/ p[n] \in 1..N
      BY DEF LeadsBack
    <2>2. Back(f, n) \in W
      <3>1. CASE p[n] = 0
        BY <3>1
      <3>2. CASE p[n] \in 1..N
        <4>1. f[p[n]] \in W /\ p[n] # 0
          BY <3>2
        <4> QED
          BY <4>1, Zenon
      <3> QED
        BY <2>1, <3>1, <3>2
    <2> HIDE DEF B, Back
    <2>3. Step[<<f, n>>] = F[<<n, Back(f, n)>>]
      OBVIOUS
    <2> QED
      BY <2>2, <2>3
  <1>2. Step \in [B \X (1..N) -> W]
    <2>1. F \in [(1..N) \X W -> W]
      BY DEF PassesOn
    <2> HIDE DEF B, Back
    <2> QED
      BY <1>1, <2>1
  <1>3. LooksBack(Step, N, W)
    <2> SUFFICES ASSUME NEW f \in B, NEW g \in B, NEW n \in 1..N,
                        \A m \in 1..(n - 1) : f[m] = g[m]
                 PROVE  Step[<<f, n>>] = Step[<<g, n>>]
      BY <1>2, Zenon DEF LooksBack
    <2>1. p[n] = 0 \/ p[n] \in 1..(n - 1)
      BY DEF LeadsBack
    <2>2. Back(f, n) = Back(g, n)
      <3>1. CASE p[n] = 0
        BY <3>1
      <3>2. CASE p[n] \in 1..(n - 1)
        <4>1. f[p[n]] = g[p[n]]
          BY <3>2
        <4>2. p[n] # 0
          BY <3>2
        <4> QED
          BY <4>1, <4>2, Zenon
      <3> QED
        BY <2>1, <3>1, <3>2
    <2> HIDE DEF B, Back, Step
    <2> QED
      BY <1>1, <2>2
  <1> HIDE DEF Step
  <1>4. PICK f : f \in [1..N -> W] /\ \A n \in 1..N : f[n] = Step[<<f, n>>]
    <2>1. \E f : LedTo(f, Step, N, W)
      BY <1>3, Recursion
    <2> QED
      BY <2>1 DEF LedTo
  <1> DEFINE g == [j \in 0..N |-> IF j = 0 THEN w ELSE f[j]]
  <1>5. g \in [0..N -> W] /\ g[0] = w /\ \A j \in 1..N : g[j] = f[j]
    BY <1>4
  <1> HIDE DEF g
  <1>6. ASSUME NEW j \in 1..N PROVE g[j] = F[<<j, g[p[j]]>>]
    <2>1. p[j] \in 0..N /\ (p[j] = 0 \/ p[j] \in 1..N)
      BY DEF LeadsBack
    <2>2. g[p[j]] = Back(f, j)
      BY <1>5, <2>1
    <2>3. g[j] = F[<<j, Back(f, j)>>]
      <3> HIDE DEF Back
      <3> QED
        BY <1>1, <1>4, <1>5
    <2> QED
      BY <2>2, <2>3
  <1> QED
    BY <1>5, <1>6

\* What holds of a number if it does of all above it holds of all of them.
LEMMA FrontInduction ==
    ASSUME NEW N \in Nat, NEW T, \A j \in 1..N : (\A k \in 1..N : k > j => k \in T) => j \in T
    PROVE  1..N \subseteq T
  <1> DEFINE U == {n \in Nat : \A j \in 1..N : j > N - n => j \in T}
  <1>1. 0 \in U
    OBVIOUS
  <1>2. ASSUME NEW n \in Nat, n \in U PROVE n + 1 \in U
    <2> SUFFICES ASSUME NEW j \in 1..N, j > N - (n + 1) PROVE j \in T
      OBVIOUS
    <2>1. \A k \in 1..N : k > j => k > N - n
      OBVIOUS
    <2>2. \A k \in 1..N : k > j => k \in T
      BY <1>2, <2>1
    <2> QED
      BY <2>2
  <1> HIDE DEF U
  <1>3. Nat \subseteq U
    BY <1>1, <1>2, SetInduction
  <1>4. N \in U
    BY <1>3
  <1>5. \A j \in 1..N : j > N - N
    OBVIOUS
  <1> QED
    BY <1>4, <1>5 DEF U
=============================================================================
