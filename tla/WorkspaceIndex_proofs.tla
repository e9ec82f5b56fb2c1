----------------------- MODULE WorkspaceIndex_proofs -----------------------
(***************************************************************************)
(* Proofs about WorkspaceIndex, for any files, symbols and keys: type      *)
(* correctness, that the buckets hold what the lists of the files do, and  *)
(* that each query answers with what the files have, best first.           *)
(***************************************************************************)
EXTENDS WorkspaceIndex, FoldLemmas, SequenceTheorems

(***************************************************************************)
(* How often a list holds a symbol.                                        *)
(***************************************************************************)

\* A list has finitely many positions.
LEMMA PositionsFinite ==
    ASSUME NEW list \in Seq(Symbol), NEW s
    PROVE  /\ IsFiniteSet(Positions(s, list))
           /\ Positions(s, list) \subseteq 1..Len(list)
           /\ Occurrences(s, list) \in Nat
  <1>1. DOMAIN list = 1..Len(list) /\ Len(list) \in Nat
    BY LenProperties
  <1>2. IsFiniteSet(1..Len(list))
    BY <1>1, FS_Interval
  <1>3. Positions(s, list) \in SUBSET (1..Len(list))
    BY <1>1 DEF Positions
  <1>4. IsFiniteSet(Positions(s, list))
    BY <1>2, <1>3, FS_Subset
  <1> QED
    BY <1>3, <1>4, FS_CardinalityType DEF Occurrences

\* An empty list holds nothing.
LEMMA OccurrencesInEmpty ==
    ASSUME NEW s
    PROVE  Occurrences(s, <<>>) = 0
  <1>1. Positions(s, <<>>) = {}
    BY DEF Positions
  <1> QED
    BY <1>1, FS_EmptySet DEF Occurrences

\* A symbol appended is held once more, any other as often as before.
LEMMA OccurrencesInAppend ==
    ASSUME NEW list \in Seq(Symbol), NEW e \in Symbol, NEW s
    PROVE  Occurrences(s, Append(list, e))
           = IF s = e THEN Occurrences(s, list) + 1 ELSE Occurrences(s, list)
  <1> DEFINE n == Len(list) + 1
  <1>1. /\ DOMAIN list = 1..Len(list) /\ Len(list) \in Nat
        /\ DOMAIN Append(list, e) = 1..n
        /\ \A i \in 1..Len(list) : Append(list, e)[i] = list[i]
        /\ Append(list, e)[n] = e
    BY LenProperties, AppendProperties
  <1>2. /\ IsFiniteSet(Positions(s, list)) /\ n \notin Positions(s, list)
        /\ Occurrences(s, list) \in Nat
    BY <1>1, PositionsFinite
  <1>3. Positions(s, Append(list, e))
        = IF s = e THEN Positions(s, list) \cup {n} ELSE Positions(s, list)
    BY <1>1 DEF Positions
  <1> HIDE DEF n
  <1> QED
    BY <1>2, <1>3, FS_AddElement DEF Occurrences

\* A list is held together by what is before and what is after a position.
LEMMA RemovedPosition ==
    ASSUME NEW list \in Seq(Symbol), NEW k \in 1..Len(list)
    PROVE  /\ RemoveAt(list, k) \in Seq(Symbol)
           /\ Len(RemoveAt(list, k)) = Len(list) - 1
           /\ \A i \in 1..(k - 1) : RemoveAt(list, k)[i] = list[i]
           /\ \A i \in k..(Len(list) - 1) : RemoveAt(list, k)[i] = list[i + 1]
  <1> DEFINE a == SubSeq(list, 1, k - 1)
             b == SubSeq(list, k + 1, Len(list))
  <1>1. Len(list) \in Nat /\ \A i \in 1..Len(list) : list[i] \in Symbol
    BY ElementOfSeq, LenProperties
  <1>2. /\ a \in Seq(Symbol) /\ Len(a) = k - 1
        /\ \A i \in 1..(k - 1) : a[i] = list[i]
    BY <1>1, SubSeqProperties
  <1>3. /\ b \in Seq(Symbol) /\ Len(b) = Len(list) - k
        /\ \A i \in 1..(Len(list) - k) : b[i] = list[k + i]
    BY <1>1, SubSeqProperties
  <1>4. RemoveAt(list, k) = a \o b
    BY DEF RemoveAt
  <1> HIDE DEF a, b
  <1>5. /\ a \o b \in Seq(Symbol)
        /\ Len(a \o b) = Len(list) - 1
        /\ \A i \in 1..(Len(list) - 1) : (a \o b)[i] = IF i <= k - 1 THEN a[i] ELSE b[i - (k - 1)]
    BY <1>1, <1>2, <1>3, ConcatProperties
  <1>6. \A i \in k..(Len(list) - 1) : (a \o b)[i] = list[i + 1]
    BY <1>1, <1>3, <1>5
  <1> QED
    BY <1>1, <1>2, <1>4, <1>5, <1>6

\* The first instance taken out is one less of the symbol, and nothing else.
LEMMA OccurrencesInRemoveFirst ==
    ASSUME NEW list \in Seq(Symbol), NEW e \in Symbol
    PROVE  /\ RemoveFirst(list, e) \in Seq(Symbol)
           /\ \A i \in DOMAIN RemoveFirst(list, e) :
                 \E j \in DOMAIN list : RemoveFirst(list, e)[i] = list[j]
           /\ \A s : Occurrences(s, RemoveFirst(list, e))
                     = IF s = e /\ Occurrences(s, list) > 0
                       THEN Occurrences(s, list) - 1 ELSE Occurrences(s, list)
  <1>1. DOMAIN list = 1..Len(list) /\ Len(list) \in Nat
    BY LenProperties
  <1>2. CASE \A i \in 1..Len(list) : list[i] # e
    <2>1. RemoveFirst(list, e) = list
      BY <1>2 DEF RemoveFirst
    <2>2. Positions(e, list) = {}
      BY <1>1, <1>2 DEF Positions
    <2>3. Occurrences(e, list) = 0
      BY <2>2, FS_EmptySet DEF Occurrences
    <2> QED
      BY <2>1, <2>3
  <1>3. CASE \E i \in 1..Len(list) : list[i] = e
    <2> DEFINE k == Min({i \in 1..Len(list) : list[i] = e})
               rest == RemoveAt(list, k)
    <2>1. k \in 1..Len(list) /\ list[k] = e
      <3> DEFINE I == {i \in 1..Len(list) : list[i] = e}
      <3>1. I \in SUBSET Nat /\ I # {}
        BY <1>1, <1>3
      <3> HIDE DEF I
      <3>2. Min(I) \in I
        BY <3>1, MinIsElement
      <3> QED
        BY <3>2 DEF I
    <2>2. RemoveFirst(list, e) = rest
      BY <1>3 DEF RemoveFirst, SelectInSeq
    <2> HIDE DEF k
    <2>3. /\ rest \in Seq(Symbol)
          /\ DOMAIN rest = 1..(Len(list) - 1)
          /\ \A i \in 1..(k - 1) : rest[i] = list[i]
          /\ \A i \in k..(Len(list) - 1) : rest[i] = list[i + 1]
      BY <2>1, RemovedPosition, LenProperties
    <2> HIDE DEF rest
    <2>4. \A i \in DOMAIN rest : \E j \in DOMAIN list : rest[i] = list[j]
      BY <1>1, <2>1, <2>3
    <2>5. ASSUME NEW s
          PROVE  Occurrences(s, rest) = Cardinality(Positions(s, list) \ {k})
      <3> DEFINE S == Positions(s, list) \ {k}
                 f == [i \in S |-> IF i < k THEN i ELSE i - 1]
      <3>1. IsFiniteSet(S)
        BY PositionsFinite, FS_RemoveElement
      <3>2. \A i \in S : i \in 1..Len(list) /\ i # k /\ list[i] = s
        BY <1>1 DEF Positions
      <3>3. f \in [S -> Positions(s, rest)]
        BY <1>1, <2>1, <2>3, <3>2 DEF Positions
      <3>4. \A i, j \in S : f[i] = f[j] => i = j
        BY <1>1, <2>1, <3>2
      <3>5. \A p \in Positions(s, rest) : \E i \in S : f[i] = p
        <4> TAKE p \in Positions(s, rest)
        <4>1. p \in 1..(Len(list) - 1) /\ rest[p] = s
          BY <2>3 DEF Positions
        <4>2. CASE p < k
          <5>1. p \in S
            BY <1>1, <2>1, <2>3, <4>1, <4>2 DEF Positions
          <5> QED
            BY <4>2, <5>1
        <4>3. CASE p >= k
          <5>1. p + 1 \in S
            BY <1>1, <2>1, <2>3, <4>1, <4>3 DEF Positions
          <5>2. f[p + 1] = p
            BY <2>1, <4>1, <4>3, <5>1
          <5> QED
            BY <5>1, <5>2
        <4> QED
          BY <2>1, <4>1, <4>2, <4>3
      <3> HIDE DEF f, S
      <3>6. f \in Bijection(S, Positions(s, rest))
        BY <3>3, <3>4, <3>5 DEF Bijection, Injection, Surjection, IsInjective
      <3>7. ExistsBijection(S, Positions(s, rest))
        BY <3>6 DEF ExistsBijection
      <3> QED
        BY <3>1, <3>7, FS_Bijection DEF Occurrences, S
    <2>6. \A s : IsFiniteSet(Positions(s, list)) /\ Occurrences(s, list) \in Nat
      BY PositionsFinite
    <2>7. \A s : k \in Positions(s, list) <=> s = e
      BY <1>1, <2>1 DEF Positions
    <2>8. \A s : Cardinality(Positions(s, list) \ {k})
                 = IF s = e THEN Occurrences(s, list) - 1 ELSE Occurrences(s, list)
      BY <2>6, <2>7, FS_RemoveElement DEF Occurrences
    <2>9. Occurrences(e, list) > 0
      BY <2>6, <2>7, FS_EmptySet DEF Occurrences
    <2> QED
      BY <2>2, <2>3, <2>4, <2>5, <2>8, <2>9
  <1> QED
    BY <1>2, <1>3

(***************************************************************************)
(* The buckets, and what taking a symbol out or putting one in does.       *)
(***************************************************************************)

\* Nonempty lists by name, each of symbols of that name.
Buckets ==
    {b \in UNION {[D -> Seq(Symbol) \ {<<>>}] : D \in SUBSET Name} :
        \A n \in DOMAIN b : \A i \in DOMAIN b[n] : b[n][i].name = n}

\* How often a symbol is in its bucket.
Count(b, s) == Occurrences(s, Bucket(b, s.name))

\* What the type of the buckets says of each: it is never empty and holds one name.
LEMMA BucketsType ==
    ASSUME NEW b \in Buckets
    PROVE  /\ DOMAIN b \subseteq Name
           /\ b = [n \in DOMAIN b |-> b[n]]
           /\ \A n \in DOMAIN b : b[n] \in Seq(Symbol) /\ b[n] # <<>>
           /\ \A n \in DOMAIN b : \A i \in DOMAIN b[n] : b[n][i].name = n
           /\ \A n : Bucket(b, n) \in Seq(Symbol)
           /\ \A n : \A i \in DOMAIN Bucket(b, n) : Bucket(b, n)[i].name = n
  <1>1. PICK D \in SUBSET Name : b \in [D -> Seq(Symbol) \ {<<>>}]
    BY DEF Buckets
  <1>2. \A n \in DOMAIN b : \A i \in DOMAIN b[n] : b[n][i].name = n
    BY DEF Buckets
  <1>3. <<>> \in Seq(Symbol) /\ DOMAIN <<>> = {}
    BY EmptySeq
  <1> QED
    BY <1>1, <1>2, <1>3 DEF Bucket

\* A bucket set to a nonempty list of symbols of its name.
LEMMA PutType ==
    ASSUME NEW b \in Buckets, NEW n \in Name, NEW list \in Seq(Symbol), list # <<>>,
           \A i \in DOMAIN list : list[i].name = n
    PROVE  /\ Put(b, n, list) \in Buckets
           /\ \A m : Bucket(Put(b, n, list), m) = IF m = n THEN list ELSE Bucket(b, m)
  <1>1. DOMAIN b \cup {n} \in SUBSET Name
    BY BucketsType
  <1>2. Put(b, n, list) \in [DOMAIN b \cup {n} -> Seq(Symbol) \ {<<>>}]
    BY BucketsType DEF Put
  <1>3. \A m \in DOMAIN Put(b, n, list) : \A i \in DOMAIN Put(b, n, list)[m] :
            Put(b, n, list)[m][i].name = m
    BY BucketsType DEF Put
  <1>4. Put(b, n, list) \in Buckets
    BY <1>1, <1>2, <1>3 DEF Buckets
  <1>5. \A m : Bucket(Put(b, n, list), m) = IF m = n THEN list ELSE Bucket(b, m)
    BY DEF Put, Bucket
  <1> QED
    BY <1>4, <1>5

\* A bucket dropped.
LEMMA DropType ==
    ASSUME NEW b \in Buckets, NEW n
    PROVE  /\ Drop(b, n) \in Buckets
           /\ \A m : Bucket(Drop(b, n), m) = IF m = n THEN <<>> ELSE Bucket(b, m)
  <1>1. DOMAIN b \ {n} \in SUBSET Name
    BY BucketsType
  <1>2. Drop(b, n) \in [DOMAIN b \ {n} -> Seq(Symbol) \ {<<>>}]
    BY BucketsType DEF Drop
  <1>3. \A m \in DOMAIN Drop(b, n) : \A i \in DOMAIN Drop(b, n)[m] : Drop(b, n)[m][i].name = m
    BY BucketsType DEF Drop
  <1>4. Drop(b, n) \in Buckets
    BY <1>1, <1>2, <1>3 DEF Buckets
  <1>5. \A m : Bucket(Drop(b, n), m) = IF m = n THEN <<>> ELSE Bucket(b, m)
    BY DEF Drop, Bucket
  <1> QED
    BY <1>4, <1>5

\* Taking a symbol out concerns its bucket, and there one instance of it.
LEMMA TakeOutEffect ==
    ASSUME NEW b \in Buckets, NEW old \in Symbol
    PROVE  /\ TakeOut(b, old) \in Buckets
           /\ \A s \in Symbol :
                 Count(TakeOut(b, old), s)
                 = IF s = old /\ Count(b, s) > 0 THEN Count(b, s) - 1 ELSE Count(b, s)
  <1> DEFINE n == old.name
             list == RemoveFirst(Bucket(b, n), old)
  <1>1. /\ Bucket(b, n) \in Seq(Symbol)
        /\ \A i \in DOMAIN Bucket(b, n) : Bucket(b, n)[i].name = n
        /\ n \in Name
    BY BucketsType DEF Name
  <1>2. /\ list \in Seq(Symbol)
        /\ \A i \in DOMAIN list : list[i].name = n
        /\ \A s : Occurrences(s, list)
                  = IF s = old /\ Occurrences(s, Bucket(b, n)) > 0
                    THEN Occurrences(s, Bucket(b, n)) - 1 ELSE Occurrences(s, Bucket(b, n))
    <2> HIDE DEF n
    <2>1. /\ list \in Seq(Symbol)
          /\ \A i \in DOMAIN list : \E j \in DOMAIN Bucket(b, n) : list[i] = Bucket(b, n)[j]
          /\ \A s : Occurrences(s, list)
                    = IF s = old /\ Occurrences(s, Bucket(b, n)) > 0
                      THEN Occurrences(s, Bucket(b, n)) - 1 ELSE Occurrences(s, Bucket(b, n))
      BY <1>1, OccurrencesInRemoveFirst
    <2> HIDE DEF list
    <2> QED
      BY <1>1, <2>1
  <1>3. TakeOut(b, old) = IF list = <<>> THEN Drop(b, n) ELSE Put(b, n, list)
    BY DEF TakeOut
  <1> HIDE DEF n, list
  <1>4. /\ TakeOut(b, old) \in Buckets
        /\ \A m : Bucket(TakeOut(b, old), m) = IF m = n THEN list ELSE Bucket(b, m)
    <2>1. CASE list = <<>>
      <3>1. TakeOut(b, old) = Drop(b, n)
        BY <1>3, <2>1
      <3> QED
        BY <2>1, <3>1, DropType
    <2>2. CASE list # <<>>
      <3>1. TakeOut(b, old) = Put(b, n, list)
        BY <1>3, <2>2
      <3> QED
        BY <1>1, <1>2, <2>2, <3>1, PutType
    <2> QED
      BY <2>1, <2>2
  <1>5. ASSUME NEW s \in Symbol
        PROVE  Count(TakeOut(b, old), s)
               = IF s = old /\ Count(b, s) > 0 THEN Count(b, s) - 1 ELSE Count(b, s)
    <2>1. CASE s.name = n
      BY <1>2, <1>4, <2>1 DEF Count
    <2>2. CASE s.name # n
      BY <1>4, <2>2 DEF Count, n
    <2> QED
      BY <2>1, <2>2
  <1> QED
    BY <1>4, <1>5

\* Putting a symbol in concerns its bucket, which holds it once more.
LEMMA PutInEffect ==
    ASSUME NEW b \in Buckets, NEW e \in Symbol
    PROVE  /\ PutIn(b, e) \in Buckets
           /\ \A s \in Symbol :
                 Count(PutIn(b, e), s) = IF s = e THEN Count(b, s) + 1 ELSE Count(b, s)
  <1> DEFINE n == e.name
             list == Append(Bucket(b, n), e)
  <1>1. /\ Bucket(b, n) \in Seq(Symbol)
        /\ \A i \in DOMAIN Bucket(b, n) : Bucket(b, n)[i].name = n
        /\ n \in Name
    BY BucketsType DEF Name
  <1>2. /\ list \in Seq(Symbol) /\ list # <<>>
        /\ \A i \in DOMAIN list : list[i].name = n
        /\ \A s : Occurrences(s, list)
                  = IF s = e THEN Occurrences(s, Bucket(b, n)) + 1
                    ELSE Occurrences(s, Bucket(b, n))
    <2>1. /\ list \in Seq(Symbol) /\ list # <<>>
          /\ Len(list) = Len(Bucket(b, n)) + 1
          /\ \A i \in 1..Len(Bucket(b, n)) : list[i] = Bucket(b, n)[i]
          /\ list[Len(Bucket(b, n)) + 1] = e
      BY <1>1, AppendProperties
    <2>2. /\ Len(Bucket(b, n)) \in Nat
          /\ DOMAIN list = 1..Len(list)
          /\ DOMAIN Bucket(b, n) = 1..Len(Bucket(b, n))
      BY <1>1, <2>1, LenProperties
    <2>3. \A s : Occurrences(s, list)
                 = IF s = e THEN Occurrences(s, Bucket(b, n)) + 1
                   ELSE Occurrences(s, Bucket(b, n))
      BY <1>1, OccurrencesInAppend
    <2> HIDE DEF list
    <2>4. \A i \in DOMAIN list : list[i].name = n
      BY <1>1, <2>1, <2>2
    <2> QED
      BY <2>1, <2>3, <2>4
  <1>3. PutIn(b, e) = Put(b, n, list)
    BY DEF PutIn
  <1> HIDE DEF n, list
  <1>4. /\ PutIn(b, e) \in Buckets
        /\ \A m : Bucket(PutIn(b, e), m) = IF m = n THEN list ELSE Bucket(b, m)
    BY <1>1, <1>2, <1>3, PutType
  <1>5. ASSUME NEW s \in Symbol
        PROVE  Count(PutIn(b, e), s) = IF s = e THEN Count(b, s) + 1 ELSE Count(b, s)
    <2>1. CASE s.name = n
      BY <1>2, <1>4, <2>1 DEF Count
    <2>2. CASE s.name # n
      BY <1>4, <2>2 DEF Count, n
    <2> QED
      BY <2>1, <2>2
  <1> QED
    BY <1>4, <1>5

(***************************************************************************)
(* The loops of update_file.                                               *)
(***************************************************************************)

\* The buckets after each symbol of the list is taken out.
LEMMA FoldTakeOut ==
    ASSUME NEW b \in Buckets, NEW list \in Seq(Symbol)
    PROVE  \E g \in [0..Len(list) -> Buckets] :
               /\ g[0] = b
               /\ \A n \in 1..Len(list) : g[n] = TakeOut(g[n - 1], list[n])
               /\ FoldLeft(TakeOut, b, list) = g[Len(list)]
  <1> DEFINE N == Len(list)
             F == [p \in Buckets \X (1..N) |-> TakeOut(p[1], list[p[2]])]
  <1>1. N \in Nat /\ DOMAIN list = 1..N /\ \A i \in 1..N : list[i] \in Symbol
    BY LenProperties, ElementOfSeq
  <1> HIDE DEF N
  <1>2. F \in [Buckets \X (1..N) -> Buckets]
    BY <1>1, TakeOutEffect
  <1>3. \E f \in [SUBSET (1..N) -> Buckets] : IsFoldTable(f, N, b, F)
    <2> HIDE DEF F
    <2> QED
      BY <1>1, <1>2, FoldTable
  <1>4. PICK f \in [SUBSET (1..N) -> Buckets] : \A s \in SUBSET (1..N) :
            f[s] = IF s = {} THEN b ELSE F[<<f[s \ {Max(s)}], Max(s)>>]
    <2> HIDE DEF F
    <2> QED
      BY <1>3 DEF IsFoldTable
  <1>5. \A s \in SUBSET (1..N) :
            f[s] = IF s = {} THEN b ELSE TakeOut(f[s \ {Max(s)}], list[Max(s)])
    <2> TAKE s \in SUBSET (1..N)
    <2>1. CASE s = {}
      BY <1>4, <2>1
    <2>2. CASE s # {}
      <3>1. Max(s) \in 1..N /\ s \ {Max(s)} \in SUBSET (1..N)
        BY <1>1, <2>2, MaxIsElement
      <3>2. f[s] = F[<<f[s \ {Max(s)}], Max(s)>>]
        BY <1>4, <2>2
      <3> QED
        BY <2>2, <3>1, <3>2
    <2> QED
      BY <2>1, <2>2
  <1> DEFINE Table(i) == i = [s \in SUBSET (1..N) |->
                                 IF s = {} THEN b ELSE TakeOut(i[s \ {Max(s)}], list[Max(s)])]
             iter == CHOOSE i : Table(i)
             g == [n \in 0..N |-> iter[1..n]]
  <1>6. Table(f)
    BY <1>5
  <1>7. Table(iter)
    <2> HIDE DEF Table
    <2> QED
      BY <1>6
  <1>8. FoldLeft(TakeOut, b, list) = iter[1..N]
    BY <1>1 DEF FoldLeft, MapThenFoldSet
  <1> HIDE DEF iter
  <1>9. iter[1..0] = b
    BY <1>1, <1>7
  <1>10. ASSUME NEW n \in 1..N PROVE iter[1..n] = TakeOut(iter[1..(n - 1)], list[n])
    <2>1. 1..n \in SUBSET (1..N) /\ 1..n # {} /\ Max(1..n) = n /\ 1..n \ {n} = 1..(n - 1)
      BY <1>1, FirstPositions
    <2> QED
      BY <1>7, <2>1
  <1>11. \A n \in Nat : n <= N => iter[1..n] \in Buckets
    <2> DEFINE T == {n \in Nat : n <= N => iter[1..n] \in Buckets}
    <2>1. 0 \in T
      BY <1>9
    <2>2. ASSUME NEW n \in Nat, n \in T PROVE n + 1 \in T
      <3> SUFFICES ASSUME n + 1 <= N PROVE iter[1..(n + 1)] \in Buckets
        OBVIOUS
      <3>1. n + 1 \in 1..N /\ iter[1..n] \in Buckets /\ (n + 1) - 1 = n
        BY <1>1, <2>2
      <3>2. iter[1..(n + 1)] = TakeOut(iter[1..n], list[n + 1])
        BY <1>10, <3>1
      <3> QED
        BY <1>1, <3>1, <3>2, TakeOutEffect
    <2> HIDE DEF T
    <2>3. Nat \subseteq T
      BY <2>1, <2>2, SetInduction
    <2> QED
      BY <2>3 DEF T
  <1>12. g \in [0..N -> Buckets] /\ g[0] = b /\ g[N] = iter[1..N]
    BY <1>1, <1>9, <1>11
  <1>13. \A n \in 1..N : g[n] = TakeOut(g[n - 1], list[n])
    BY <1>1, <1>10
  <1> QED
    BY <1>8, <1>12, <1>13 DEF N

\* The buckets after each symbol of the list is put in.
LEMMA FoldPutIn ==
    ASSUME NEW b \in Buckets, NEW list \in Seq(Symbol)
    PROVE  \E g \in [0..Len(list) -> Buckets] :
               /\ g[0] = b
               /\ \A n \in 1..Len(list) : g[n] = PutIn(g[n - 1], list[n])
               /\ FoldLeft(PutIn, b, list) = g[Len(list)]
  <1> DEFINE N == Len(list)
             F == [p \in Buckets \X (1..N) |-> PutIn(p[1], list[p[2]])]
  <1>1. N \in Nat /\ DOMAIN list = 1..N /\ \A i \in 1..N : list[i] \in Symbol
    BY LenProperties, ElementOfSeq
  <1> HIDE DEF N
  <1>2. F \in [Buckets \X (1..N) -> Buckets]
    BY <1>1, PutInEffect
  <1>3. \E f \in [SUBSET (1..N) -> Buckets] : IsFoldTable(f, N, b, F)
    <2> HIDE DEF F
    <2> QED
      BY <1>1, <1>2, FoldTable
  <1>4. PICK f \in [SUBSET (1..N) -> Buckets] : \A s \in SUBSET (1..N) :
            f[s] = IF s = {} THEN b ELSE F[<<f[s \ {Max(s)}], Max(s)>>]
    <2> HIDE DEF F
    <2> QED
      BY <1>3 DEF IsFoldTable
  <1>5. \A s \in SUBSET (1..N) :
            f[s] = IF s = {} THEN b ELSE PutIn(f[s \ {Max(s)}], list[Max(s)])
    <2> TAKE s \in SUBSET (1..N)
    <2>1. CASE s = {}
      BY <1>4, <2>1
    <2>2. CASE s # {}
      <3>1. Max(s) \in 1..N /\ s \ {Max(s)} \in SUBSET (1..N)
        BY <1>1, <2>2, MaxIsElement
      <3>2. f[s] = F[<<f[s \ {Max(s)}], Max(s)>>]
        BY <1>4, <2>2
      <3> QED
        BY <2>2, <3>1, <3>2
    <2> QED
      BY <2>1, <2>2
  <1> DEFINE Table(i) == i = [s \in SUBSET (1..N) |->
                                 IF s = {} THEN b ELSE PutIn(i[s \ {Max(s)}], list[Max(s)])]
             iter == CHOOSE i : Table(i)
             g == [n \in 0..N |-> iter[1..n]]
  <1>6. Table(f)
    BY <1>5
  <1>7. Table(iter)
    <2> HIDE DEF Table
    <2> QED
      BY <1>6
  <1>8. FoldLeft(PutIn, b, list) = iter[1..N]
    BY <1>1 DEF FoldLeft, MapThenFoldSet
  <1> HIDE DEF iter
  <1>9. iter[1..0] = b
    BY <1>1, <1>7
  <1>10. ASSUME NEW n \in 1..N PROVE iter[1..n] = PutIn(iter[1..(n - 1)], list[n])
    <2>1. 1..n \in SUBSET (1..N) /\ 1..n # {} /\ Max(1..n) = n /\ 1..n \ {n} = 1..(n - 1)
      BY <1>1, FirstPositions
    <2> QED
      BY <1>7, <2>1
  <1>11. \A n \in Nat : n <= N => iter[1..n] \in Buckets
    <2> DEFINE T == {n \in Nat : n <= N => iter[1..n] \in Buckets}
    <2>1. 0 \in T
      BY <1>9
    <2>2. ASSUME NEW n \in Nat, n \in T PROVE n + 1 \in T
      <3> SUFFICES ASSUME n + 1 <= N PROVE iter[1..(n + 1)] \in Buckets
        OBVIOUS
      <3>1. n + 1 \in 1..N /\ iter[1..n] \in Buckets /\ (n + 1) - 1 = n
        BY <1>1, <2>2
      <3>2. iter[1..(n + 1)] = PutIn(iter[1..n], list[n + 1])
        BY <1>10, <3>1
      <3> QED
        BY <1>1, <3>1, <3>2, PutInEffect
    <2> HIDE DEF T
    <2>3. Nat \subseteq T
      BY <2>1, <2>2, SetInduction
    <2> QED
      BY <2>3 DEF T
  <1>12. g \in [0..N -> Buckets] /\ g[0] = b /\ g[N] = iter[1..N]
    BY <1>1, <1>9, <1>11
  <1>13. \A n \in 1..N : g[n] = PutIn(g[n - 1], list[n])
    BY <1>1, <1>10
  <1> QED
    BY <1>8, <1>12, <1>13 DEF N

\* How often the first n positions of a list hold a symbol.
Upto(s, list, n) == Cardinality({i \in 1..n : list[i] = s})

\* The count grows by one at each position that holds the symbol.
LEMMA UptoSteps ==
    ASSUME NEW list \in Seq(Symbol), NEW s
    PROVE  /\ Upto(s, list, 0) = 0
           /\ \A n \in 1..Len(list) :
                 Upto(s, list, n) = Upto(s, list, n - 1) + IF list[n] = s THEN 1 ELSE 0
           /\ \A n \in 0..Len(list) :
                 Upto(s, list, n) \in Nat /\ Upto(s, list, n) <= Occurrences(s, list)
           /\ Upto(s, list, Len(list)) = Occurrences(s, list)
  <1> DEFINE P(n) == {i \in 1..n : list[i] = s}
  <1>1. /\ DOMAIN list = 1..Len(list) /\ Len(list) \in Nat
        /\ IsFiniteSet(Positions(s, list))
    BY LenProperties, PositionsFinite
  <1>2. P(0) = {} /\ P(Len(list)) = Positions(s, list)
    BY <1>1 DEF Positions
  <1>3. \A n \in 0..Len(list) : P(n) \in SUBSET Positions(s, list)
    BY <1>1 DEF Positions
  <1>4. \A n \in 0..Len(list) : IsFiniteSet(P(n)) /\ Cardinality(P(n)) <= Occurrences(s, list)
    <2> HIDE DEF P
    <2> QED
      BY <1>1, <1>3, FS_Subset DEF Occurrences
  <1>5. \A n \in 1..Len(list) : /\ list[n] = s => P(n) = P(n - 1) \cup {n}
                                /\ list[n] # s => P(n) = P(n - 1)
                                /\ n \notin P(n - 1) /\ n - 1 \in 0..Len(list)
    BY <1>1
  <1> HIDE DEF P
  <1>6. \A n \in 0..Len(list) : Cardinality(P(n)) \in Nat
    BY <1>4, FS_CardinalityType
  <1>7. ASSUME NEW n \in 1..Len(list)
        PROVE  Cardinality(P(n)) = Cardinality(P(n - 1)) + IF list[n] = s THEN 1 ELSE 0
    <2>1. IsFiniteSet(P(n - 1)) /\ n \notin P(n - 1) /\ Cardinality(P(n - 1)) \in Nat
      BY <1>4, <1>5, <1>6
    <2>2. CASE list[n] = s
      <3>1. P(n) = P(n - 1) \cup {n}
        BY <1>5, <2>2
      <3> QED
        BY <2>1, <2>2, <3>1, FS_AddElement
    <2>3. CASE list[n] # s
      <3>1. P(n) = P(n - 1)
        BY <1>5, <2>3
      <3> QED
        BY <2>1, <2>3, <3>1
    <2> QED
      BY <2>2, <2>3
  <1>8. \A n : Upto(s, list, n) = Cardinality(P(n))
    BY DEF Upto, P
  <1>9. Cardinality(P(0)) = 0 /\ Cardinality(P(Len(list))) = Occurrences(s, list)
    BY <1>2, FS_EmptySet DEF Occurrences
  <1> QED
    BY <1>4, <1>6, <1>7, <1>8, <1>9

\* A list of symbols that all are there, taken out, leaves the rest of each.
LEMMA CountTakenOut ==
    ASSUME NEW b \in Buckets, NEW list \in Seq(Symbol)
    PROVE  /\ FoldLeft(TakeOut, b, list) \in Buckets
           /\ \A s \in Symbol : Occurrences(s, list) <= Count(b, s) =>
                 Count(FoldLeft(TakeOut, b, list), s) = Count(b, s) - Occurrences(s, list)
  <1> DEFINE N == Len(list)
  <1>1. N \in Nat /\ \A n \in 1..N : list[n] \in Symbol
    BY LenProperties, ElementOfSeq
  <1>2. PICK g \in [0..N -> Buckets] :
            /\ g[0] = b
            /\ \A n \in 1..N : g[n] = TakeOut(g[n - 1], list[n])
            /\ FoldLeft(TakeOut, b, list) = g[N]
    BY FoldTakeOut
  <1>3. ASSUME NEW s \in Symbol, Occurrences(s, list) <= Count(b, s)
        PROVE  Count(g[N], s) = Count(b, s) - Occurrences(s, list)
    <2>1. /\ Count(b, s) \in Nat
          /\ Upto(s, list, 0) = 0
          /\ Upto(s, list, N) = Occurrences(s, list)
          /\ \A n \in 1..N : Upto(s, list, n)
                             = Upto(s, list, n - 1) + IF list[n] = s THEN 1 ELSE 0
          /\ \A n \in 0..N : Upto(s, list, n) \in Nat /\ Upto(s, list, n) <= Occurrences(s, list)
          /\ Occurrences(s, list) \in Nat
      <3>1. Count(b, s) \in Nat /\ Occurrences(s, list) \in Nat
        BY PositionsFinite, BucketsType DEF Count
      <3> QED
        BY <3>1, UptoSteps
    <2> HIDE DEF N
    <2> DEFINE T == {n \in Nat : n <= N => Count(g[n], s) = Count(b, s) - Upto(s, list, n)}
    <2>2. 0 \in T
      BY <1>2, <2>1
    <2>3. ASSUME NEW n \in Nat, n \in T PROVE n + 1 \in T
      <3> SUFFICES ASSUME n + 1 <= N
                   PROVE  Count(g[n + 1], s) = Count(b, s) - Upto(s, list, n + 1)
        OBVIOUS
      <3>1. /\ Count(g[n], s) = Count(b, s) - Upto(s, list, n)
            /\ n \in 0..N /\ n + 1 \in 1..N /\ (n + 1) - 1 = n
        BY <1>1, <2>3
      <3>2. g[n + 1] = TakeOut(g[n], list[n + 1]) /\ g[n] \in Buckets /\ list[n + 1] \in Symbol
        BY <1>1, <1>2, <3>1
      <3>3. Count(g[n + 1], s)
            = IF s = list[n + 1] /\ Count(g[n], s) > 0 THEN Count(g[n], s) - 1 ELSE Count(g[n], s)
        BY <3>2, TakeOutEffect
      <3>4. /\ Upto(s, list, n + 1) = Upto(s, list, n) + IF list[n + 1] = s THEN 1 ELSE 0
            /\ Upto(s, list, n + 1) <= Occurrences(s, list)
            /\ Upto(s, list, n) \in Nat
        BY <1>1, <2>1, <3>1
      <3> HIDE DEF T
      <3> QED
        BY <1>3, <2>1, <3>1, <3>3, <3>4
    <2> HIDE DEF T
    <2>4. N \in T
      BY <1>1, <2>2, <2>3, SetInduction
    <2> QED
      BY <1>1, <2>1, <2>4 DEF T
  <1> QED
    BY <1>1, <1>2, <1>3

\* A list of symbols put in adds as many of each as the list holds.
LEMMA CountPutIn ==
    ASSUME NEW b \in Buckets, NEW list \in Seq(Symbol)
    PROVE  /\ FoldLeft(PutIn, b, list) \in Buckets
           /\ \A s \in Symbol :
                 Count(FoldLeft(PutIn, b, list), s) = Count(b, s) + Occurrences(s, list)
  <1> DEFINE N == Len(list)
  <1>1. N \in Nat /\ \A n \in 1..N : list[n] \in Symbol
    BY LenProperties, ElementOfSeq
  <1>2. PICK g \in [0..N -> Buckets] :
            /\ g[0] = b
            /\ \A n \in 1..N : g[n] = PutIn(g[n - 1], list[n])
            /\ FoldLeft(PutIn, b, list) = g[N]
    BY FoldPutIn
  <1>3. ASSUME NEW s \in Symbol
        PROVE  Count(g[N], s) = Count(b, s) + Occurrences(s, list)
    <2>1. /\ Count(b, s) \in Nat
          /\ Upto(s, list, 0) = 0
          /\ Upto(s, list, N) = Occurrences(s, list)
          /\ \A n \in 1..N : Upto(s, list, n)
                             = Upto(s, list, n - 1) + IF list[n] = s THEN 1 ELSE 0
          /\ \A n \in 0..N : Upto(s, list, n) \in Nat
      BY UptoSteps, PositionsFinite, BucketsType DEF Count
    <2> HIDE DEF N
    <2> DEFINE T == {n \in Nat : n <= N => Count(g[n], s) = Count(b, s) + Upto(s, list, n)}
    <2>2. 0 \in T
      BY <1>2, <2>1
    <2>3. ASSUME NEW n \in Nat, n \in T PROVE n + 1 \in T
      <3> SUFFICES ASSUME n + 1 <= N
                   PROVE  Count(g[n + 1], s) = Count(b, s) + Upto(s, list, n + 1)
        OBVIOUS
      <3>1. /\ Count(g[n], s) = Count(b, s) + Upto(s, list, n)
            /\ n \in 0..N /\ n + 1 \in 1..N /\ (n + 1) - 1 = n
        BY <1>1, <2>3
      <3>2. g[n + 1] = PutIn(g[n], list[n + 1]) /\ g[n] \in Buckets /\ list[n + 1] \in Symbol
        BY <1>1, <1>2, <3>1
      <3>3. Count(g[n + 1], s) = IF s = list[n + 1] THEN Count(g[n], s) + 1 ELSE Count(g[n], s)
        BY <3>2, PutInEffect
      <3>4. /\ Upto(s, list, n + 1) = Upto(s, list, n) + IF list[n + 1] = s THEN 1 ELSE 0
            /\ Upto(s, list, n) \in Nat
        BY <1>1, <2>1, <3>1
      <3> HIDE DEF T
      <3> QED
        BY <2>1, <3>1, <3>3, <3>4
    <2> HIDE DEF T
    <2>4. N \in T
      BY <1>1, <2>2, <2>3, SetInduction
    <2> QED
      BY <1>1, <2>1, <2>4 DEF T
  <1> QED
    BY <1>1, <1>2, <1>3

(***************************************************************************)
(* The places of a symbol in the lists of all files.                       *)
(***************************************************************************)

\* What a file is recorded with, if anything.
ListOf(u) == IF u \in DOMAIN byUri THEN byUri[u] ELSE <<>>

\* The places in other files than u.
Elsewhere(u, s) == UNION {{w} \X Positions(s, byUri[w]) : w \in DOMAIN byUri \ {u}}

\* A file has as many places of a symbol as its list has positions.
LEMMA PlacesInFile ==
    ASSUME NEW list \in Seq(Symbol), NEW s, NEW u
    PROVE  /\ IsFiniteSet({u} \X Positions(s, list))
           /\ Cardinality({u} \X Positions(s, list)) = Occurrences(s, list)
  <1> DEFINE P == Positions(s, list)
             f == [i \in P |-> <<u, i>>]
  <1>1. IsFiniteSet(P)
    BY PositionsFinite
  <1>2. f \in Bijection(P, {u} \X P)
    BY DEF Bijection, Injection, Surjection, IsInjective
  <1>3. ExistsBijection(P, {u} \X P)
    BY <1>2 DEF ExistsBijection
  <1> QED
    BY <1>1, <1>3, FS_Bijection DEF Occurrences

\* Its places and those elsewhere are apart.
LEMMA PlacesAddUp ==
    ASSUME NEW list \in Seq(Symbol), NEW s, NEW u, NEW E, IsFiniteSet(E),
           \A p \in E : p[1] # u
    PROVE  /\ IsFiniteSet(E \cup ({u} \X Positions(s, list)))
           /\ Cardinality(E \cup ({u} \X Positions(s, list)))
              = Cardinality(E) + Occurrences(s, list)
  <1> DEFINE H == {u} \X Positions(s, list)
  <1>1. IsFiniteSet(H) /\ Cardinality(H) = Occurrences(s, list)
    BY PlacesInFile
  <1>2. E \cap H = {}
    OBVIOUS
  <1> HIDE DEF H
  <1>3. /\ IsFiniteSet(E \cup H)
        /\ Cardinality(E \cup H) = Cardinality(E) + Cardinality(H) - Cardinality(E \cap H)
    BY <1>1, FS_Union
  <1>4. Cardinality(E \cap H) = 0 /\ Cardinality(E) \in Nat /\ Cardinality(H) \in Nat
    BY <1>1, <1>2, FS_EmptySet, FS_CardinalityType
  <1> QED
    BY <1>1, <1>3, <1>4 DEF H

(***************************************************************************)
(* The inductive invariant: the buckets are well formed, and count what    *)
(* the finitely many places of each symbol are.                            *)
(***************************************************************************)

ListsInv ==
    /\ DOMAIN byUri \subseteq Uri
    /\ \A u \in DOMAIN byUri : byUri[u] \in SymbolList
    /\ DOMAIN applied = DOMAIN byUri
    /\ \A u \in DOMAIN applied : applied[u] \in Key
    /\ IsFiniteSet(DOMAIN byUri)

CountsInv ==
    \A s \in Symbol : IsFiniteSet(Places(s)) /\ Count(byName, s) = Cardinality(Places(s))

IInv == byName \in Buckets /\ ListsInv /\ CountsInv

\* The lists that arrive are lists of symbols.
LEMMA SymbolListType == SymbolList \subseteq Seq(Symbol)
  BY SeqDef, WorkspaceIndexAssumption DEF SymbolList, BoundedSeq, SeqOf

\* An empty index satisfies it.
LEMMA InvInit == Init => IInv
  <1> SUFFICES ASSUME Init PROVE IInv
    OBVIOUS
  <1>1. byName = <<>> /\ byUri = <<>> /\ applied = <<>> /\ DOMAIN <<>> = {}
    BY EmptySeq DEF Init
  <1>2. byName \in [{} -> Seq(Symbol) \ {<<>>}]
    BY <1>1
  <1>3. byName \in Buckets
    BY <1>1, <1>2 DEF Buckets
  <1>4. \A s : Places(s) = {}
    BY <1>1 DEF Places
  <1>5. \A s : Count(byName, s) = 0
    BY <1>1, OccurrencesInEmpty DEF Count, Bucket
  <1> QED
    BY <1>1, <1>3, <1>4, <1>5, FS_EmptySet DEF IInv, ListsInv, CountsInv

\* An update keeps it.
LEMMA InvStep == IInv /\ [Next]_vars => IInv'
  <1> SUFFICES ASSUME IInv, [Next]_vars PROVE IInv'
    OBVIOUS
  <1>1. CASE UNCHANGED vars
    BY <1>1 DEF vars, IInv, ListsInv, CountsInv, Places
  <1>2. ASSUME NEW u \in Uri, NEW key \in Key, NEW symbols \in SymbolList,
               UpdateFile(u, key, symbols)
        PROVE  IInv'
    <2> DEFINE taken == FoldLeft(TakeOut, byName, ListOf(u))
    <2>1. /\ byName' = FoldLeft(PutIn, taken, symbols)
          /\ byUri' = Put(byUri, u, symbols)
          /\ applied' = Put(applied, u, key)
      BY <1>2 DEF UpdateFile, ListOf
    <2>2. symbols \in Seq(Symbol) /\ ListOf(u) \in Seq(Symbol)
      BY SymbolListType, EmptySeq DEF IInv, ListsInv, ListOf
    <2>3. ListsInv'
      <3>1. IsFiniteSet(DOMAIN byUri \cup {u})
        BY FS_AddElement DEF IInv, ListsInv
      <3>2. DOMAIN byUri' = DOMAIN byUri \cup {u}
        BY <2>1 DEF Put
      <3>3. IsFiniteSet(DOMAIN byUri')
        BY <3>1, <3>2
      <3> QED
        BY <2>1, <3>3 DEF IInv, ListsInv, Put
    <2>4. /\ taken \in Buckets
          /\ \A s \in Symbol : Occurrences(s, ListOf(u)) <= Count(byName, s) =>
                Count(taken, s) = Count(byName, s) - Occurrences(s, ListOf(u))
      BY <2>2, CountTakenOut DEF IInv
    <2> HIDE DEF taken
    <2>5. /\ byName' \in Buckets
          /\ \A s \in Symbol : Count(byName', s) = Count(taken, s) + Occurrences(s, symbols)
      BY <2>1, <2>2, <2>4, CountPutIn
    <2>6. ASSUME NEW s \in Symbol
          PROVE  IsFiniteSet(Places(s)') /\ Count(byName, s)' = Cardinality(Places(s)')
      <3> DEFINE E == Elsewhere(u, s)
      <3>1. Places(s) = E \cup ({u} \X Positions(s, ListOf(u)))
        <4>1. Positions(s, <<>>) = {}
          BY DEF Positions
        <4> QED
          BY <4>1 DEF Places, Elsewhere, ListOf
      <3>2. Places(s)' = E \cup ({u} \X Positions(s, symbols))
        BY <2>1 DEF Places, Elsewhere, Put
      <3>3. \A p \in E : p[1] # u
        BY DEF Elsewhere
      <3> HIDE DEF E
      <3>4. IsFiniteSet(Places(s)) /\ Count(byName, s) = Cardinality(Places(s))
        BY DEF IInv, CountsInv
      <3>5. IsFiniteSet(E) /\ Cardinality(E) \in Nat
        <4>1. E \subseteq Places(s)
          BY <3>1
        <4>2. IsFiniteSet(E)
          BY <3>4, <4>1, FS_Subset
        <4> QED
          BY <4>2, FS_CardinalityType
      <3>6. Cardinality(Places(s)) = Cardinality(E) + Occurrences(s, ListOf(u))
        <4>1. Cardinality(E \cup ({u} \X Positions(s, ListOf(u))))
                 = Cardinality(E) + Occurrences(s, ListOf(u))
          BY <2>2, <3>3, <3>5, PlacesAddUp
        <4> QED
          BY <3>1, <4>1
      <3>7. /\ IsFiniteSet(Places(s)')
            /\ Cardinality(Places(s)') = Cardinality(E) + Occurrences(s, symbols)
        <4>1. /\ IsFiniteSet(E \cup ({u} \X Positions(s, symbols)))
              /\ Cardinality(E \cup ({u} \X Positions(s, symbols)))
                 = Cardinality(E) + Occurrences(s, symbols)
          BY <2>2, <3>3, <3>5, PlacesAddUp
        <4> QED
          BY <3>2, <4>1
      <3>8. Occurrences(s, ListOf(u)) \in Nat /\ Occurrences(s, symbols) \in Nat
        BY <2>2, PositionsFinite
      <3>9. Count(taken, s) = Cardinality(E)
        BY <2>4, <3>4, <3>5, <3>6, <3>8
      <3>10. Count(byName', s) = Cardinality(E) + Occurrences(s, symbols)
        BY <2>5, <3>9
      <3> QED
        BY <3>7, <3>10 DEF Count
    <2>7. CountsInv'
      BY <2>6 DEF CountsInv
    <2> QED
      BY <2>3, <2>5, <2>7 DEF IInv
  <1> QED
    BY <1>1, <1>2 DEF Next

\* The inductive invariant, whatever files were indexed in whatever order.
LEMMA Invariant == Spec => []IInv
  BY InvInit, InvStep, PTL DEF Spec

(***************************************************************************)
(* What the run checks, for any instance.                                  *)
(***************************************************************************)

\* TypeCorrect: the maps keep their types, and by file and applied keep step.
THEOREM TypeCorrect == Spec => []TypeOK
  <1>1. IInv => TypeOK
    BY BucketsType DEF IInv, ListsInv, TypeOK
  <1> QED
    BY <1>1, Invariant, PTL

\* BucketsAreFaithful: a name's bucket holds each symbol exactly as often as
\* the lists of all files do, and no bucket is empty or holds another name.
THEOREM BucketsAreFaithful == Spec => []BucketsMatchFiles
  <1>1. IInv => BucketsMatchFiles
    <2> SUFFICES ASSUME IInv PROVE BucketsMatchFiles
      OBVIOUS
    <2>1. \A n \in DOMAIN byName :
              byName[n] # <<>> /\ \A s \in ToSet(byName[n]) : s.name = n
      BY BucketsType DEF IInv, ToSet
    <2>2. \A s \in Symbol :
              Occurrences(s, Bucket(byName, s.name)) = Cardinality(Places(s))
      BY DEF IInv, CountsInv, Count
    <2> QED
      BY <2>1, <2>2 DEF BucketsMatchFiles
  <1> QED
    BY <1>1, Invariant, PTL

\* What a lookup of a name finds is what the files hold of it.
LookupIsComplete == \A n \in Name : ToSet(Lookup(n)) = {s \in Indexed : s.name = n}

\* The invariant has it.
LEMMA LookupComplete == IInv => LookupIsComplete
  <1> SUFFICES ASSUME IInv, NEW n \in Name
               PROVE  ToSet(Lookup(n)) = {s \in Indexed : s.name = n}
    BY DEF LookupIsComplete
  <1>1. /\ Lookup(n) \in Seq(Symbol)
        /\ \A i \in DOMAIN Lookup(n) : Lookup(n)[i].name = n
    BY BucketsType DEF IInv, Lookup
  <1>2. \A u \in DOMAIN byUri : byUri[u] \in Seq(Symbol)
    BY SymbolListType DEF IInv, ListsInv
  <1>3. ASSUME NEW s \in Symbol, s.name = n
        PROVE  s \in ToSet(Lookup(n)) <=> s \in Indexed
    <2>1. IsFiniteSet(Places(s)) /\ Occurrences(s, Lookup(n)) = Cardinality(Places(s))
      BY <1>3 DEF IInv, CountsInv, Count, Lookup
    <2>2. IsFiniteSet(Positions(s, Lookup(n)))
      BY <1>1, PositionsFinite
    <2>3. Positions(s, Lookup(n)) = {} <=> Places(s) = {}
      BY <2>1, <2>2, FS_EmptySet DEF Occurrences
    <2>4. s \in ToSet(Lookup(n)) <=> Positions(s, Lookup(n)) # {}
      BY DEF ToSet, Positions
    <2>5. s \in Indexed <=> Places(s) # {}
      <3>1. s \in Indexed <=> \E u \in DOMAIN byUri : \E i \in DOMAIN byUri[u] : byUri[u][i] = s
        BY DEF Indexed, ToSet
      <3>2. ASSUME NEW u \in DOMAIN byUri, NEW i \in DOMAIN byUri[u], byUri[u][i] = s
            PROVE  Places(s) # {}
        <4>1. <<u, i>> \in {u} \X Positions(s, byUri[u])
          BY <3>2 DEF Positions
        <4> QED
          BY <4>1 DEF Places
      <3>3. ASSUME NEW p \in Places(s)
            PROVE  \E u \in DOMAIN byUri : \E i \in DOMAIN byUri[u] : byUri[u][i] = s
        BY DEF Places, Positions
      <3> QED
        BY <3>1, <3>2, <3>3
    <2> QED
      BY <2>3, <2>4, <2>5
  <1>4. \A s \in ToSet(Lookup(n)) : s \in Symbol /\ s.name = n
    BY <1>1, ElementOfSeq, LenProperties DEF ToSet
  <1>5. \A s \in Indexed : s \in Symbol
    BY <1>2, ElementOfSeq, LenProperties DEF Indexed, ToSet
  <1> QED
    BY <1>3, <1>4, <1>5

\* LookupsAreComplete: a lookup finds every symbol of the name in any file, and
\* nothing that no file holds any more.
THEOREM LookupsAreComplete == Spec => []LookupIsComplete
  BY LookupComplete, Invariant, PTL

(***************************************************************************)
(* The best match.                                                         *)
(***************************************************************************)

\* The order of relevance: declarations before imports, then by file and line.
LEMMA Relevance ==
    ASSUME NEW s \in Symbol, NEW t \in Symbol
    PROVE  MoreRelevant(s, t) <=>
               \/ ~s.isImport /\ t.isImport
               \/ s.isImport = t.isImport /\ s.uri < t.uri
               \/ s.isImport = t.isImport /\ s.uri = t.uri /\ s.line < t.line
  <1> DEFINE rank(x) == <<IF x.isImport THEN 1 ELSE 0, x.uri, x.line>>
             a == rank(s)
             b == rank(t)
  <1>1. /\ s.isImport \in BOOLEAN /\ t.isImport \in BOOLEAN
        /\ s.uri \in Nat /\ t.uri \in Nat /\ s.line \in Nat /\ t.line \in Nat
    BY WorkspaceIndexAssumption
  <1>2. a \in [1..3 -> Nat] /\ b \in [1..3 -> Nat] /\ Len(a) = 3 /\ Len(b) = 3
    BY <1>1
  <1>3. ~IsStrictPrefix(a, b)
    BY <1>2 DEF IsStrictPrefix, IsPrefix
  <1>4. MoreRelevant(s, t) <=> \E i \in 1..3 : a[i] < b[i] /\ \A j \in 1..(i - 1) : a[j] = b[j]
    BY <1>2, <1>3 DEF MoreRelevant, NameLess
  <1>5. (\E i \in 1..3 : a[i] < b[i] /\ \A j \in 1..(i - 1) : a[j] = b[j])
        <=> \/ a[1] < b[1]
            \/ a[1] = b[1] /\ a[2] < b[2]
            \/ a[1] = b[1] /\ a[2] = b[2] /\ a[3] < b[3]
    <2> HIDE DEF a, b
    <2>1. 1..3 = {1, 2, 3} /\ 1..0 = {} /\ 1..1 = {1} /\ 1..2 = {1, 2}
      OBVIOUS
    <2> QED
      BY <1>2, <2>1
  <1> QED
    BY <1>1, <1>4, <1>5

\* Any candidates there are have a most relevant one.
LEMMA MostRelevantExists ==
    ASSUME NEW C \in SUBSET Symbol, C # {}
    PROVE  \E s \in C : \A t \in C : ~MoreRelevant(t, s)
  <1> DEFINE A == {s \in C : ~s.isImport \/ \A t \in C : t.isImport}
             U == {s.uri : s \in A}
  <1>1. \A s \in C : s.isImport \in BOOLEAN /\ s.uri \in Nat /\ s.line \in Nat
    BY WorkspaceIndexAssumption
  <1>2. A # {} /\ A \subseteq C
    OBVIOUS
  <1>3. U \in SUBSET Nat /\ U # {}
    BY <1>1, <1>2
  <1>4. PICK u \in U : \A v \in U : u <= v
    <2> HIDE DEF U
    <2> QED
      BY <1>3, LeastNumber
  <1> DEFINE B == {s \in A : s.uri = u}
             L == {s.line : s \in B}
  <1>5. L \in SUBSET Nat /\ L # {} /\ B \subseteq A
    BY <1>1, <1>2
  <1>6. PICK l \in L : \A m \in L : l <= m
    <2> HIDE DEF L
    <2> QED
      BY <1>5, LeastNumber
  <1>7. PICK s \in B : s.line = l
    OBVIOUS
  <1>8. ASSUME NEW t \in C PROVE ~MoreRelevant(t, s)
    <2>1. s \in C /\ s \in A /\ s.uri = u
      BY <1>2
    <2>2. ~(~t.isImport /\ s.isImport)
      BY <2>1
    <2>3. t.isImport = s.isImport => t \in A
      BY <1>1, <2>1
    <2>4. t \in A => u <= t.uri
      BY <1>4
    <2>5. t \in A /\ t.uri = u => s.line <= t.line
      BY <1>6, <1>7
    <2> QED
      BY <1>1, <2>1, <2>2, <2>3, <2>4, <2>5, Relevance
  <1> QED
    BY <1>2, <1>5, <1>8

\* BestMatchIsBest: the best match of any candidates is one of them, and none
\* of them is more relevant.
THEOREM BestMatchIsBest ==
    ASSUME NEW candidates \in Seq(Symbol), candidates # <<>>
    PROVE  /\ BestMatch(candidates) \in ToSet(candidates)
           /\ \A t \in ToSet(candidates) : ~MoreRelevant(t, BestMatch(candidates))
  <1> DEFINE Best(s) == \A t \in ToSet(candidates) : ~MoreRelevant(t, s)
             I == {i \in 1..Len(candidates) : Best(candidates[i])}
  <1>1. /\ DOMAIN candidates = 1..Len(candidates) /\ Len(candidates) \in Nat \ {0}
        /\ \A i \in 1..Len(candidates) : candidates[i] \in Symbol
    BY LenProperties, ElementOfSeq, EmptySeq
  <1>2. ToSet(candidates) \in SUBSET Symbol /\ ToSet(candidates) # {}
    BY <1>1 DEF ToSet
  <1>3. PICK s \in ToSet(candidates) : Best(s)
    BY <1>2, MostRelevantExists
  <1>4. I # {} /\ I \in SUBSET Nat
    <2> HIDE DEF Best
    <2> QED
      BY <1>1, <1>3 DEF ToSet
  <1>5. BestMatch(candidates) = candidates[Min(I)]
    <2>1. BestMatch(candidates) = candidates[IF I # {} THEN Min(I) ELSE 0]
      BY DEF BestMatch, SelectInSeq
    <2> HIDE DEF I
    <2> QED
      BY <1>4, <2>1
  <1>6. Min(I) \in I
    <2> HIDE DEF I
    <2> QED
      BY <1>4, MinIsElement
  <1>7. Min(I) \in 1..Len(candidates) /\ Best(candidates[Min(I)])
    BY <1>6
  <1> QED
    BY <1>1, <1>5, <1>7 DEF ToSet

(***************************************************************************)
(* Answers in an order.                                                    *)
(***************************************************************************)

\* What `less' has to be for Arranged to be more than a choice.
IsOrder(S, less) ==
    /\ \A x \in S : <<x, x>> \notin less
    /\ \A x, y, z \in S : <<x, y>> \in less /\ <<y, z>> \in less => <<x, z>> \in less
    /\ \A x, y \in S : x = y \/ <<x, y>> \in less \/ <<y, x>> \in less

\* Each element of the set has its place, in the order.
LEMMA ArrangedIs ==
    ASSUME NEW S, IsFiniteSet(S), NEW less, IsOrder(S, less)
    PROVE  /\ Arranged(S, less) \in Seq(S)
           /\ Len(Arranged(S, less)) = Cardinality(S)
           /\ ToSet(Arranged(S, less)) = S
           /\ \A j, k \in 1..Cardinality(S) :
                 j < k => <<Arranged(S, less)[j], Arranged(S, less)[k]>> \in less
  <1> DEFINE n == Cardinality(S)
             below(x) == {y \in S : <<y, x>> \in less}
             rank == [x \in S |-> Cardinality(below(x)) + 1]
             a == Arranged(S, less)
             at(k) == CHOOSE x \in S : Cardinality(below(x)) = k - 1
  <1>0. a = [k \in 1..n |-> at(k)]
    BY DEF Arranged
  <1>1. n \in Nat
    BY FS_CardinalityType
  <1>2. ASSUME NEW x \in S
        PROVE  IsFiniteSet(below(x)) /\ Cardinality(below(x)) \in Nat /\ Cardinality(below(x)) < n
    <2>1. below(x) \in SUBSET S /\ below(x) # S
      BY DEF IsOrder
    <2> HIDE DEF below
    <2>2. IsFiniteSet(below(x)) /\ Cardinality(below(x)) <= n
      BY <2>1, FS_Subset
    <2>3. Cardinality(below(x)) # n
      BY <2>1, FS_Subset
    <2>4. Cardinality(below(x)) \in Nat
      BY <2>2, FS_CardinalityType
    <2> QED
      BY <1>1, <2>2, <2>3, <2>4
  <1>3. ASSUME NEW x \in S, NEW y \in S, <<x, y>> \in less
        PROVE  Cardinality(below(x)) < Cardinality(below(y))
    <2>1. below(x) \in SUBSET below(y) /\ x \in below(y) /\ x \notin below(x)
      BY <1>3 DEF IsOrder
    <2>2. /\ IsFiniteSet(below(x)) /\ Cardinality(below(x)) \in Nat
          /\ IsFiniteSet(below(y)) /\ Cardinality(below(y)) \in Nat
      BY <1>2
    <2> HIDE DEF below
    <2>3. Cardinality(below(x)) <= Cardinality(below(y))
      BY <2>1, <2>2, FS_Subset
    <2>4. Cardinality(below(x)) # Cardinality(below(y))
      BY <2>1, <2>2, FS_Subset
    <2> QED
      BY <2>2, <2>3, <2>4
  <1>4. \A x, y \in S : Cardinality(below(x)) = Cardinality(below(y)) => x = y
    <2> SUFFICES ASSUME NEW x \in S, NEW y \in S, x # y
                 PROVE  Cardinality(below(x)) # Cardinality(below(y))
      OBVIOUS
    <2>1. <<x, y>> \in less \/ <<y, x>> \in less
      BY DEF IsOrder
    <2>2. Cardinality(below(x)) \in Nat /\ Cardinality(below(y)) \in Nat
      BY <1>2
    <2> HIDE DEF below
    <2> QED
      BY <1>3, <2>1, <2>2
  <1>5. rank \in Injection(S, 1..n)
    <2> HIDE DEF below, n
    <2>1. \A x \in S : rank[x] = Cardinality(below(x)) + 1 /\ rank[x] \in 1..n
      BY <1>1, <1>2
    <2>2. \A x, y \in S : rank[x] = rank[y] => x = y
      BY <1>2, <1>4, <2>1
    <2> QED
      BY <2>1, <2>2 DEF Injection, IsInjective
  <1>6. rank \in Surjection(S, 1..n)
    <2>1. IsFiniteSet(1..n) /\ Cardinality(1..n) = n
      BY <1>1, FS_Interval
    <2> HIDE DEF rank
    <2> QED
      BY <1>5, <2>1, FS_Injection
  <1>7. ASSUME NEW k \in 1..n
        PROVE  a[k] \in S /\ Cardinality(below(a[k])) = k - 1
    <2>1. PICK x \in S : rank[x] = k
      BY <1>6 DEF Surjection
    <2>2. rank[x] = Cardinality(below(x)) + 1
      OBVIOUS
    <2> HIDE DEF rank, below
    <2>3. \E y \in S : Cardinality(below(y)) = k - 1
      BY <1>1, <1>2, <2>1, <2>2
    <2>4. a[k] = at(k)
      BY <1>0
    <2> QED
      BY <2>3, <2>4
  <1> HIDE DEF a, below, at
  <1>9. a \in Seq(S) /\ Len(a) = n /\ DOMAIN a = 1..n
    <2> HIDE DEF n
    <2>1. a \in [1..n -> S]
      BY <1>7, <1>0
    <2> QED
      BY <1>1, <2>1, LenProperties
  <1>10. ASSUME NEW x \in S PROVE x \in ToSet(a)
    <2>1. Cardinality(below(x)) + 1 \in 1..n
      BY <1>1, <1>2
    <2>2. a[Cardinality(below(x)) + 1] = x
      BY <1>2, <1>4, <1>7, <2>1
    <2> QED
      BY <1>9, <2>1, <2>2 DEF ToSet
  <1>11. ASSUME NEW j \in 1..n, NEW k \in 1..n, j < k PROVE <<a[j], a[k]>> \in less
    <2>1. /\ a[j] \in S /\ Cardinality(below(a[j])) = j - 1
          /\ a[k] \in S /\ Cardinality(below(a[k])) = k - 1
      BY <1>7
    <2>2. j - 1 < k - 1 /\ j \in Nat /\ k \in Nat
      BY <1>1, <1>11
    <2>3. a[j] # a[k]
      BY <2>1, <2>2
    <2>4. ~(<<a[k], a[j]>> \in less)
      BY <1>3, <2>1, <2>2
    <2> QED
      BY <2>1, <2>3, <2>4 DEF IsOrder
  <1>12. ToSet(a) = S
    BY <1>7, <1>9, <1>10 DEF ToSet
  <1> QED
    BY <1>9, <1>11, <1>12 DEF a

\* What is kept of a list, and in which order.
LEMMA KeptIs ==
    ASSUME NEW C, NEW list \in Seq(C), NEW places \in SUBSET (DOMAIN list)
    PROVE  /\ Kept(list, places) \in Seq(C)
           /\ ToSet(Kept(list, places)) = {list[i] : i \in places}
           /\ \E order \in Seq(places) :
                 /\ Len(order) = Len(Kept(list, places)) /\ ToSet(order) = places
                 /\ \A k \in DOMAIN order : Kept(list, places)[k] = list[order[k]]
                 /\ \A j, k \in DOMAIN order : j < k => order[j] < order[k]
  <1> DEFINE less == {p \in places \X places : p[1] < p[2]}
             order == Arranged(places, less)
             kept == Kept(list, places)
  <1>1. /\ DOMAIN list = 1..Len(list) /\ Len(list) \in Nat
        /\ \A i \in DOMAIN list : list[i] \in C
    BY LenProperties, ElementOfSeq
  <1>2. IsFiniteSet(places)
    <2>1. IsFiniteSet(1..Len(list)) /\ places \in SUBSET (1..Len(list))
      BY <1>1, FS_Interval
    <2> QED
      BY <2>1, FS_Subset
  <1>3. \A i, j \in places : i \in Nat /\ j \in Nat /\ (<<i, j>> \in less <=> i < j)
    BY <1>1
  <1>4. IsOrder(places, less)
    <2> HIDE DEF less
    <2> QED
      BY <1>3 DEF IsOrder
  <1>5. /\ order \in Seq(places) /\ ToSet(order) = places
        /\ \A j, k \in 1..Len(order) : j < k => <<order[j], order[k]>> \in less
    <2> HIDE DEF less
    <2> QED
      BY <1>2, <1>4, ArrangedIs
  <1>6. kept = [k \in DOMAIN order |-> list[order[k]]]
    BY DEF Kept
  <1> HIDE DEF order, less, kept
  <1>7. /\ DOMAIN order = 1..Len(order) /\ Len(order) \in Nat
        /\ \A k \in 1..Len(order) : order[k] \in places
    BY <1>5, LenProperties, ElementOfSeq
  <1>8. /\ kept \in Seq(C) /\ Len(kept) = Len(order)
        /\ \A k \in DOMAIN order : kept[k] = list[order[k]]
    <2>1. kept \in [1..Len(order) -> C]
      BY <1>1, <1>6, <1>7
    <2> QED
      BY <1>6, <1>7, <2>1, LenProperties
  <1>9. ToSet(kept) = {list[i] : i \in places}
    <2>1. DOMAIN kept = DOMAIN order
      BY <1>6
    <2>2. \A i \in places : \E k \in DOMAIN order : order[k] = i
      BY <1>5 DEF ToSet
    <2> QED
      BY <1>7, <1>8, <2>1, <2>2 DEF ToSet
  <1>10. \A j, k \in DOMAIN order : j < k => order[j] < order[k]
    BY <1>3, <1>5, <1>7
  <1> QED
    BY <1>5, <1>8, <1>9, <1>10 DEF kept

\* The filter by owner.
LEMMA OwnedByIs ==
    ASSUME NEW list \in Seq(Symbol), NEW o
    PROVE  /\ OwnedBy(list, o) \in Seq(Symbol)
           /\ ToSet(OwnedBy(list, o)) = {s \in ToSet(list) : s.owner = o}
  <1> DEFINE places == {i \in DOMAIN list : list[i].owner = o}
  <1>1. places \in SUBSET DOMAIN list
    OBVIOUS
  <1>2. {list[i] : i \in places} = {s \in ToSet(list) : s.owner = o}
    BY DEF ToSet
  <1> HIDE DEF places
  <1>3. Kept(list, places) \in Seq(Symbol) /\ ToSet(Kept(list, places)) = {list[i] : i \in places}
    BY <1>1, KeptIs
  <1> QED
    BY <1>2, <1>3 DEF OwnedBy, places

(***************************************************************************)
(* The order of names.                                                     *)
(***************************************************************************)

\* A beginning of a name.
LEMMA PrefixIs ==
    ASSUME NEW a \in Seq(Nat), NEW b \in Seq(Nat)
    PROVE  IsPrefix(a, b) <=> Len(a) <= Len(b) /\ \A i \in 1..Len(a) : a[i] = b[i]
  BY LenProperties DEF IsPrefix

\* a comes before b by what stands at i, where one ends or they first differ.
LessAt(a, b, i) ==
    /\ \A j \in 1..(i - 1) : j <= Len(a) /\ a[j] = b[j]
    /\ i = Len(a) + 1 \/ (i <= Len(a) /\ a[i] < b[i])

\* There is such a place.
LEMMA NameLessIs ==
    ASSUME NEW a \in Seq(Nat), NEW b \in Seq(Nat)
    PROVE  NameLess(a, b) <=> \E i \in 1..Len(b) : LessAt(a, b, i)
  <1>1. Len(a) \in Nat /\ Len(b) \in Nat /\ DOMAIN a = 1..Len(a) /\ DOMAIN b = 1..Len(b)
    BY LenProperties
  <1>2. IsStrictPrefix(a, b) <=> Len(a) < Len(b) /\ \A i \in 1..Len(a) : a[i] = b[i]
    <2>1. ASSUME Len(a) = Len(b), \A i \in 1..Len(a) : a[i] = b[i] PROVE a = b
      BY <2>1, SeqEqual
    <2>2. IsPrefix(a, b) <=> Len(a) <= Len(b) /\ \A i \in 1..Len(a) : a[i] = b[i]
      BY PrefixIs
    <2>3. IsStrictPrefix(a, b) <=> IsPrefix(a, b) /\ a # b
      BY DEF IsStrictPrefix
    <2>4. a = b => Len(a) = Len(b)
      OBVIOUS
    <2> DEFINE same == \A i \in 1..Len(a) : a[i] = b[i]
    <2> HIDE DEF same
    <2>5. IsStrictPrefix(a, b) <=> Len(a) <= Len(b) /\ same /\ a # b
      BY <2>2, <2>3 DEF same
    <2>6. Len(a) = Len(b) /\ same => a = b
      BY <2>1 DEF same
    <2>7. IsStrictPrefix(a, b) <=> Len(a) < Len(b) /\ same
      <3>0. \A k, l \in Nat : k < l <=> k <= l /\ k # l
        OBVIOUS
      <3>1. Len(a) < Len(b) <=> Len(a) <= Len(b) /\ Len(a) # Len(b)
        BY <1>1, <3>0, Zenon
      <3> QED
        BY <2>4, <2>5, <2>6, <3>1, Zenon
    <2> QED
      BY <2>7 DEF same
  <1>3. ASSUME Len(a) < Len(b), \A i \in 1..Len(a) : a[i] = b[i]
        PROVE  Len(a) + 1 \in 1..Len(b) /\ LessAt(a, b, Len(a) + 1)
    <2>1. Len(a) + 1 \in 1..Len(b)
      BY <1>1, <1>3
    <2>2. ASSUME NEW j \in 1..((Len(a) + 1) - 1) PROVE j <= Len(a) /\ a[j] = b[j]
      <3>1. j \in 1..Len(a)
        BY <1>1
      <3> QED
        BY <1>1, <1>3, <3>1
    <2> QED
      BY <2>1, <2>2 DEF LessAt
  <1>4. ASSUME NEW i \in (1..Len(a)) \cap (1..Len(b)), a[i] < b[i], \A j \in 1..(i - 1) : a[j] = b[j]
        PROVE  i \in 1..Len(b) /\ LessAt(a, b, i)
    BY <1>1, <1>4 DEF LessAt
  <1>5. ASSUME NEW i \in 1..Len(b), LessAt(a, b, i)
        PROVE  NameLess(a, b)
    <2>1. CASE i = Len(a) + 1
      BY <1>1, <1>2, <1>5, <2>1 DEF LessAt, NameLess
    <2>2. CASE i # Len(a) + 1
      <3>1. i \in DOMAIN a \cap DOMAIN b /\ a[i] < b[i] /\ \A j \in 1..(i - 1) : a[j] = b[j]
        BY <1>1, <1>5, <2>2 DEF LessAt
      <3> QED
        BY <3>1 DEF NameLess
    <2> QED
      BY <2>1, <2>2
  <1> QED
    BY <1>1, <1>2, <1>3, <1>4, <1>5 DEF NameLess

\* Names are totally ordered.
LEMMA NamesAreOrdered ==
    /\ \A a \in Seq(Nat) : ~NameLess(a, a)
    /\ \A a, b, c \in Seq(Nat) : NameLess(a, b) /\ NameLess(b, c) => NameLess(a, c)
    /\ \A a, b \in Seq(Nat) : a = b \/ NameLess(a, b) \/ NameLess(b, a)
  <1>1. ASSUME NEW a \in Seq(Nat) PROVE ~NameLess(a, a)
    <2>1. Len(a) \in Nat /\ \A i \in 1..Len(a) : a[i] \in Nat
      BY LenProperties, ElementOfSeq
    <2> QED
      BY <2>1, NameLessIs DEF LessAt
  <1>2. ASSUME NEW a \in Seq(Nat), NEW b \in Seq(Nat), NEW c \in Seq(Nat),
               NameLess(a, b), NameLess(b, c)
        PROVE  NameLess(a, c)
    <2>1. /\ Len(a) \in Nat /\ \A i \in 1..Len(a) : a[i] \in Nat
          /\ Len(b) \in Nat /\ \A i \in 1..Len(b) : b[i] \in Nat
          /\ Len(c) \in Nat /\ \A i \in 1..Len(c) : c[i] \in Nat
      BY LenProperties, ElementOfSeq
    <2>2. PICK i \in 1..Len(b) : LessAt(a, b, i)
      BY <1>2, NameLessIs
    <2>3. PICK k \in 1..Len(c) : LessAt(b, c, k)
      BY <1>2, NameLessIs
    <2>4. CASE i <= k
      <3>1. i \in 1..Len(c)
        BY <2>1, <2>4
      <3>2. ASSUME NEW j \in 1..(i - 1) PROVE j <= Len(a) /\ a[j] = c[j]
        <4>1. j \in 1..(k - 1)
          BY <2>1, <2>4
        <4> QED
          BY <2>2, <2>3, <4>1 DEF LessAt
      <3>3. b[i] <= c[i]
        <4>1. i <= Len(b) /\ b[i] \in Nat /\ c[i] \in Nat
          BY <2>1, <3>1
        <4>2. i < k => i \in 1..(k - 1)
          BY <2>1
        <4>3. i < k => b[i] = c[i]
          BY <2>3, <4>2 DEF LessAt
        <4>4. i = k => b[i] < c[i]
          BY <2>1, <2>3, <4>1 DEF LessAt
        <4> QED
          BY <2>1, <2>4, <4>1, <4>3, <4>4
      <3>4. i <= Len(a) => a[i] \in Nat /\ b[i] \in Nat /\ c[i] \in Nat
        BY <2>1, <3>1
      <3>5. i = Len(a) + 1 \/ (i <= Len(a) /\ a[i] < b[i])
        BY <2>2 DEF LessAt
      <3>6. i = Len(a) + 1 \/ (i <= Len(a) /\ a[i] < c[i])
        <4>1. ASSUME i <= Len(a), a[i] < b[i] PROVE a[i] < c[i]
          <5> DEFINE x == a[i]
                     y == b[i]
                     z == c[i]
          <5>1. x \in Nat /\ y \in Nat /\ z \in Nat /\ x < y /\ y <= z
            BY <3>3, <3>4, <4>1
          <5> HIDE DEF x, y, z
          <5>2. x < z
            BY <5>1
          <5> QED
            BY <5>2 DEF x, z
        <4> QED
          BY <3>5, <4>1, Zenon
      <3> QED
        BY <3>1, <3>2, <3>6, NameLessIs DEF LessAt
    <2>5. CASE k < i
      <3>1. ASSUME NEW j \in 1..(k - 1) PROVE j <= Len(a) /\ a[j] = c[j]
        <4>1. j \in 1..(i - 1)
          BY <2>1, <2>5
        <4> QED
          BY <2>2, <2>3, <4>1 DEF LessAt
      <3>2. k <= Len(a) /\ a[k] < c[k]
        BY <2>1, <2>2, <2>3, <2>5 DEF LessAt
      <3> QED
        BY <3>1, <3>2, NameLessIs DEF LessAt
    <2> QED
      BY <2>1, <2>4, <2>5
  <1>3. ASSUME NEW a \in Seq(Nat), NEW b \in Seq(Nat)
        PROVE  a = b \/ NameLess(a, b) \/ NameLess(b, a)
    <2>1. /\ Len(a) \in Nat /\ \A i \in 1..Len(a) : a[i] \in Nat
          /\ Len(b) \in Nat /\ \A i \in 1..Len(b) : b[i] \in Nat
      BY LenProperties, ElementOfSeq
    <2> DEFINE D == {i \in Nat \ {0} : i > Len(a) \/ i > Len(b) \/ a[i] # b[i]}
    <2>2. Len(a) + 1 \in D /\ D \in SUBSET Nat
      BY <2>1
    <2>3. PICK i \in D : \A j \in D : i <= j
      <3> HIDE DEF D
      <3> QED
        BY <2>2, LeastNumber
    <2>4. \A j \in 1..(i - 1) : j <= Len(a) /\ j <= Len(b) /\ a[j] = b[j]
      BY <2>1, <2>3
    <2>5. i \in Nat \ {0} /\ i <= Len(a) + 1 /\ i <= Len(b) + 1
      <3>1. Len(b) + 1 \in D
        BY <2>1
      <3> QED
        BY <2>2, <2>3, <3>1
    <2>6. CASE i > Len(a) /\ i > Len(b)
      <3>1. Len(a) = Len(b) /\ \A j \in 1..Len(a) : a[j] = b[j]
        BY <2>1, <2>4, <2>5, <2>6
      <3> QED
        BY <3>1, SeqEqual
    <2>7. CASE i <= Len(b) /\ (i <= Len(a) => a[i] < b[i])
      <3>1. i \in 1..Len(b)
        BY <2>1, <2>5, <2>7
      <3>2. LessAt(a, b, i)
        <4>1. i = Len(a) + 1 \/ (i <= Len(a) /\ a[i] < b[i])
          BY <2>1, <2>5, <2>7
        <4>2. \A j \in 1..(i - 1) : j <= Len(a) /\ a[j] = b[j]
          BY <2>4
        <4> QED
          BY <4>1, <4>2 DEF LessAt
      <3> QED
        BY <3>1, <3>2, NameLessIs
    <2>8. CASE i <= Len(a) /\ (i <= Len(b) => b[i] < a[i])
      <3>1. i \in 1..Len(a)
        BY <2>1, <2>5, <2>8
      <3>2. LessAt(b, a, i)
        <4>1. i = Len(b) + 1 \/ (i <= Len(b) /\ b[i] < a[i])
          BY <2>1, <2>5, <2>8
        <4>2. \A j \in 1..(i - 1) : j <= Len(b) /\ b[j] = a[j]
          BY <2>4
        <4> QED
          BY <4>1, <4>2 DEF LessAt
      <3> QED
        BY <3>1, <3>2, NameLessIs
    <2>9. i <= Len(a) /\ i <= Len(b) => a[i] < b[i] \/ b[i] < a[i]
      BY <2>1, <2>3
    <2> QED
      BY <2>1, <2>6, <2>7, <2>8, <2>9
  <1> QED
    BY <1>1, <1>2, <1>3

\* From a prefix on, the names that begin with it come before all others.
LEMMA PrefixesComeFirst ==
    ASSUME NEW p \in Seq(Nat), NEW a \in Seq(Nat), NEW b \in Seq(Nat),
           ~NameLess(a, p), NameLess(a, b), IsPrefix(p, b)
    PROVE  IsPrefix(p, a)
  <1>1. /\ Len(a) \in Nat /\ \A i \in 1..Len(a) : a[i] \in Nat
        /\ Len(b) \in Nat /\ \A i \in 1..Len(b) : b[i] \in Nat
        /\ Len(p) \in Nat /\ \A i \in 1..Len(p) : p[i] \in Nat
    BY LenProperties, ElementOfSeq
  <1>2. Len(p) <= Len(b) /\ \A i \in 1..Len(p) : p[i] = b[i]
    BY PrefixIs
  <1>3. PICK i \in 1..Len(b) : LessAt(a, b, i)
    BY NameLessIs
  <1>4. CASE i <= Len(p)
    <2>1. LessAt(a, p, i) /\ i \in 1..Len(p)
      <3>1. i \in 1..Len(p) /\ b[i] = p[i]
        BY <1>1, <1>2, <1>4
      <3>2. ASSUME NEW j \in 1..(i - 1) PROVE j <= Len(a) /\ a[j] = p[j]
        <4>1. j \in 1..Len(p)
          BY <1>1, <1>4
        <4> QED
          BY <1>2, <1>3, <4>1 DEF LessAt
      <3>3. i = Len(a) + 1 \/ (i <= Len(a) /\ a[i] < p[i])
        BY <1>3, <3>1 DEF LessAt
      <3> QED
        BY <3>1, <3>2, <3>3 DEF LessAt
    <2> QED
      BY <2>1, NameLessIs
  <1>5. CASE i > Len(p)
    <2>1. Len(p) <= Len(a) /\ \A j \in 1..Len(p) : p[j] = a[j]
      BY <1>1, <1>2, <1>3, <1>5 DEF LessAt
    <2> QED
      BY <2>1, PrefixIs
  <1> QED
    BY <1>1, <1>4, <1>5

(***************************************************************************)
(* The names in the index, and those that begin with a prefix.             *)
(***************************************************************************)

\* What a function has for finitely many arguments is finite.
LEMMA ValuesFinite ==
    ASSUME NEW f, NEW D, f = [x \in D |-> f[x]], IsFiniteSet(D)
    PROVE  IsFiniteSet({f[x] : x \in D})
  <1>1. f \in Surjection(D, {f[x] : x \in D})
    BY DEF Surjection
  <1> QED
    BY <1>1, FS_Surjection

\* There are finitely many symbols in the index.
LEMMA IndexFinite ==
    ASSUME IInv
    PROVE  Indexed \in SUBSET Symbol /\ IsFiniteSet(Indexed)
  <1> DEFINE f == [u \in DOMAIN byUri |-> ToSet(byUri[u])]
  <1>1. \A u \in DOMAIN byUri : byUri[u] \in Seq(Symbol)
    BY SymbolListType DEF IInv, ListsInv
  <1>2. IsFiniteSet({f[u] : u \in DOMAIN byUri})
    BY ValuesFinite DEF IInv, ListsInv
  <1>3. ASSUME NEW u \in DOMAIN byUri
        PROVE  IsFiniteSet(f[u]) /\ f[u] \in SUBSET Symbol
    <2> DEFINE list == byUri[u]
    <2>1. list \in Seq(Symbol)
      BY <1>1
    <2> HIDE DEF list
    <2>2. /\ DOMAIN list = 1..Len(list) /\ Len(list) \in Nat
          /\ list = [i \in 1..Len(list) |-> list[i]]
          /\ \A i \in 1..Len(list) : list[i] \in Symbol
      BY <2>1, LenProperties, ElementOfSeq
    <2>3. IsFiniteSet(1..Len(list))
      <3>1. 1 \in Int /\ Len(list) \in Int
        BY <2>1, LenProperties
      <3> QED
        BY <3>1, FS_Interval
    <2>4. IsFiniteSet({list[i] : i \in 1..Len(list)})
      BY <2>2, <2>3, ValuesFinite
    <2>5. f[u] = {list[i] : i \in 1..Len(list)}
      BY <2>2 DEF list, ToSet
    <2> QED
      BY <2>2, <2>4, <2>5
  <1>4. Indexed = UNION {f[u] : u \in DOMAIN byUri}
    BY DEF Indexed
  <1> HIDE DEF f
  <1>5. IsFiniteSet(UNION {f[u] : u \in DOMAIN byUri})
    BY <1>2, <1>3, FS_UNION
  <1> QED
    BY <1>3, <1>4, <1>5

\* A name is a sequence of numbers.
LEMMA NameType == Name \subseteq Seq(Nat)
  <1>1. Letter \subseteq Nat /\ \A n \in Name : n \in Seq(Letter)
    BY WorkspaceIndexAssumption DEF Name
  <1>2. ASSUME NEW n \in Name PROVE n \in Seq(Nat)
    <2>1. Len(n) \in Nat /\ n \in [1..Len(n) -> Nat]
      BY <1>1, LenProperties, ElementOfSeq
    <2> QED
      BY <2>1, SeqDef
  <1> QED
    BY <1>2

\* The names with a bucket are those of the symbols in the index, each bucket
\* has the symbols of its name, and the names are finitely many.
LEMMA BucketsAre ==
    ASSUME IInv
    PROVE  /\ DOMAIN byName = {s.name : s \in Indexed}
           /\ DOMAIN byName \in SUBSET Seq(Nat)
           /\ IsFiniteSet(DOMAIN byName)
           /\ \A n \in DOMAIN byName :
                 byName[n] \in Seq(Symbol) /\ ToSet(byName[n]) = {s \in Indexed : s.name = n}
  <1>1. Indexed \in SUBSET Symbol /\ IsFiniteSet(Indexed)
    BY IndexFinite
  <1>2. \A n \in Name : ToSet(Lookup(n)) = {s \in Indexed : s.name = n}
    BY LookupComplete DEF LookupIsComplete
  <1>3. /\ DOMAIN byName \subseteq Name
        /\ \A n \in DOMAIN byName : byName[n] \in Seq(Symbol) /\ byName[n] # <<>>
    BY BucketsType DEF IInv
  <1>4. \A n \in DOMAIN byName : Lookup(n) = byName[n]
    BY DEF Lookup, Bucket
  <1>5. ASSUME NEW n \in DOMAIN byName
        PROVE  n \in {s.name : s \in Indexed}
    <2>1. byName[n] \in Seq(Symbol) /\ byName[n] # <<>>
      BY <1>3
    <2> DEFINE b == byName[n]
    <2> HIDE DEF b
    <2>2. b[1] \in ToSet(b)
      BY <2>1, EmptySeq, LenProperties DEF ToSet, b
    <2> QED
      BY <1>2, <1>3, <1>4, <2>2 DEF b
  <1>6. ASSUME NEW s \in Indexed
        PROVE  s.name \in DOMAIN byName
    <2>1. s.name \in Name /\ s \in ToSet(Lookup(s.name))
      BY <1>1, <1>2 DEF Name
    <2>2. ToSet(<<>>) = {}
      BY EmptySeq DEF ToSet
    <2> QED
      BY <2>1, <2>2 DEF Lookup, Bucket
  <1>7. DOMAIN byName = {s.name : s \in Indexed}
    BY <1>5, <1>6
  <1>8. IsFiniteSet({s.name : s \in Indexed})
    <2> DEFINE f == [s \in Indexed |-> s.name]
    <2>1. IsFiniteSet({f[s] : s \in Indexed})
      BY <1>1, ValuesFinite
    <2> QED
      BY <2>1
  <1>9. Name \subseteq Seq(Nat)
    BY NameType
  <1> QED
    BY <1>2, <1>3, <1>4, <1>7, <1>8, <1>9

\* What begins with a prefix does not come before it.
LEMMA NotBeforeItsPrefix ==
    ASSUME NEW p \in Seq(Nat), NEW a \in Seq(Nat), IsPrefix(p, a)
    PROVE  ~NameLess(a, p)
  <1>1. /\ Len(a) \in Nat /\ \A i \in 1..Len(a) : a[i] \in Nat
        /\ Len(p) \in Nat /\ \A i \in 1..Len(p) : p[i] \in Nat
    BY LenProperties, ElementOfSeq
  <1>2. Len(p) <= Len(a) /\ \A i \in 1..Len(p) : p[i] = a[i]
    BY PrefixIs
  <1>3. ASSUME NEW i \in 1..Len(p), LessAt(a, p, i) PROVE FALSE
    <2>1. i = Len(a) + 1 \/ (i <= Len(a) /\ a[i] < p[i])
      BY <1>3 DEF LessAt
    <2>2. p[i] = a[i] /\ a[i] \in Nat /\ i <= Len(a)
      BY <1>1, <1>2
    <2> QED
      BY <1>1, <2>1, <2>2
  <1> QED
    BY <1>3, NameLessIs

\* The symbols found by a prefix are all there are whose names begin with it.
LEMMA MatchesAre ==
    ASSUME IInv, NEW prefix \in Seq(Nat)
    PROVE  /\ MatchingByPrefix(prefix) \in Seq(Symbol)
           /\ ToSet(MatchingByPrefix(prefix)) = {s \in Indexed : IsPrefix(prefix, s.name)}
  <1> DEFINE from  == {n \in DOMAIN byName : ~NameLess(n, prefix)}
             less  == {p \in from \X from : NameLess(p[1], p[2])}
             names == Arranged(from, less)
             I     == {i \in 1..Len(names) : ~IsPrefix(prefix, names[i])}
             stop  == IF I # {} THEN Min(I) ELSE 0
             taken == IF stop = 0 THEN names ELSE SubSeq(names, 1, stop - 1)
             lists == [i \in DOMAIN taken |-> byName[taken[i]]]
  <1>1. MatchingByPrefix(prefix) = FlattenSeq(lists)
    BY DEF MatchingByPrefix, SelectInSeq
  <1>2. /\ DOMAIN byName = {s.name : s \in Indexed}
        /\ from \in SUBSET Seq(Nat) /\ IsFiniteSet(from)
        /\ \A n \in from : byName[n] \in Seq(Symbol)
                           /\ ToSet(byName[n]) = {s \in Indexed : s.name = n}
    <2>1. from \in SUBSET DOMAIN byName
      OBVIOUS
    <2>2. IsFiniteSet(from)
      <3> HIDE DEF from
      <3> QED
        BY <2>1, BucketsAre, FS_Subset
    <2> QED
      BY <2>1, <2>2, BucketsAre
  <1>3. IsOrder(from, less)
    <2>1. \A a, b \in from : <<a, b>> \in less <=> NameLess(a, b)
      <3> HIDE DEF from
      <3> QED
        OBVIOUS
    <2> HIDE DEF from, less
    <2> QED
      BY <1>2, <2>1, NamesAreOrdered DEF IsOrder
  <1>4. /\ names \in Seq(from) /\ ToSet(names) = from
        /\ \A j, k \in 1..Len(names) : j < k => <<names[j], names[k]>> \in less
    <2> HIDE DEF from, less
    <2> QED
      BY <1>2, <1>3, ArrangedIs
  <1>5. \A j, k \in 1..Len(names) : j < k => NameLess(names[j], names[k])
    <2> HIDE DEF from, names
    <2> QED
      BY <1>4
  <1>6. \A n \in from : ~NameLess(n, prefix)
    OBVIOUS
  <1>7. \A s \in Indexed : IsPrefix(prefix, s.name) => s.name \in from
    BY <1>2, NotBeforeItsPrefix, BucketsAre
  <1> HIDE DEF from, less, names
  <1>8. /\ DOMAIN names = 1..Len(names) /\ Len(names) \in Nat
        /\ \A i \in 1..Len(names) : names[i] \in from /\ names[i] \in Seq(Nat)
    BY <1>2, <1>4, LenProperties, ElementOfSeq
  <1> DEFINE N == IF I = {} THEN Len(names) ELSE Min(I) - 1
  <1>9. /\ N \in 0..Len(names)
        /\ taken \in Seq(from) /\ Len(taken) = N
        /\ \A i \in 1..N : taken[i] = names[i]
        /\ \A i \in 1..Len(names) : IsPrefix(prefix, names[i]) <=> i <= N
    <2>1. CASE I = {}
      <3>1. taken = names /\ N = Len(names)
        <4> HIDE DEF I
        <4> QED
          BY <2>1
      <3>2. \A i \in 1..Len(names) : IsPrefix(prefix, names[i])
        BY <2>1
      <3> HIDE DEF I, taken, N
      <3> QED
        BY <1>4, <1>8, <3>1, <3>2
    <2>2. CASE I # {}
      <3> DEFINE m == Min(I)
      <3>1. m \in I /\ \A i \in I : m <= i
        <4>1. I \in SUBSET Nat
          OBVIOUS
        <4> HIDE DEF I
        <4> QED
          BY <2>2, <4>1, MinIsElement
      <3> HIDE DEF m
      <3>2. m \in 1..Len(names) /\ ~IsPrefix(prefix, names[m])
        BY <3>1
      <3>3. taken = SubSeq(names, 1, m - 1) /\ N = m - 1
        <4>1. m # 0
          BY <3>2
        <4> HIDE DEF I
        <4> QED
          BY <2>2, <4>1 DEF m
      <3> HIDE DEF taken, N
      <3>4. \A i \in 1..Len(names) : i <= m - 1 => IsPrefix(prefix, names[i])
        BY <1>8, <3>1, <3>2
      <3>5. ASSUME NEW i \in 1..Len(names), i > m - 1, IsPrefix(prefix, names[i])
            PROVE  FALSE
        <4>1. i # m
          BY <3>2, <3>5
        <4>2. m < i
          BY <1>8, <3>2, <3>5, <4>1
        <4>3. NameLess(names[m], names[i])
          BY <1>5, <3>2, <4>2
        <4>4. IsPrefix(prefix, names[m])
          BY <1>6, <1>8, <3>2, <3>5, <4>3, PrefixesComeFirst
        <4> QED
          BY <3>2, <4>4
      <3>6. /\ SubSeq(names, 1, m - 1) \in Seq(from)
            /\ Len(SubSeq(names, 1, m - 1)) = m - 1
            /\ \A i \in 1..(m - 1) : SubSeq(names, 1, m - 1)[i] = names[i]
        <4>1. m - 1 \in Int /\ \A i \in 1..(m - 1) : names[i] \in from
          BY <1>8, <3>2
        <4> QED
          BY <3>2, <4>1, SubSeqProperties
      <3> QED
        BY <1>8, <3>2, <3>3, <3>4, <3>5, <3>6
    <2> QED
      BY <2>1, <2>2
  <1> HIDE DEF taken, N
  <1>10. DOMAIN taken = 1..N /\ \A i \in 1..N : taken[i] \in from
    BY <1>9, LenProperties, ElementOfSeq
  <1>11. lists \in Seq(Seq(Symbol)) /\ DOMAIN lists = 1..N
    <2>1. lists \in [1..N -> Seq(Symbol)]
      BY <1>2, <1>10
    <2>2. N \in Nat
      BY <1>8, <1>9
    <2> QED
      BY <1>10, <2>1, <2>2, LenProperties
  <1>12. \A i \in 1..N : ToSet(lists[i]) = {s \in Indexed : s.name = taken[i]}
    BY <1>2, <1>10
  <1> HIDE DEF lists
  <1>13. /\ FlattenSeq(lists) \in Seq(Symbol)
         /\ ToSet(FlattenSeq(lists)) = UNION {ToSet(lists[i]) : i \in 1..N}
    BY <1>11, FlattenElements
  <1>14. ASSUME NEW s \in Indexed
         PROVE  IsPrefix(prefix, s.name) <=> \E i \in 1..N : s.name = taken[i]
    <2>1. ASSUME IsPrefix(prefix, s.name) PROVE \E i \in 1..N : s.name = taken[i]
      <3>1. PICK i \in 1..Len(names) : names[i] = s.name
        BY <1>4, <1>7, <1>8, <2>1 DEF ToSet
      <3>2. i \in 1..N
        BY <1>8, <1>9, <2>1, <3>1
      <3> QED
        BY <1>9, <3>1, <3>2
    <2>2. ASSUME NEW i \in 1..N, s.name = taken[i] PROVE IsPrefix(prefix, s.name)
      <3>1. i \in 1..Len(names) /\ i <= N
        BY <1>8, <1>9
      <3> QED
        BY <1>9, <2>2, <3>1
    <2> QED
      BY <2>1, <2>2
  <1>15. UNION {ToSet(lists[i]) : i \in 1..N} = {s \in Indexed : IsPrefix(prefix, s.name)}
    BY <1>12, <1>14
  <1> QED
    BY <1>1, <1>13, <1>15

\* What may be typed of a name is a sequence of numbers.
LEMMA PrefixType == Prefix \subseteq Seq(Nat)
  <1>1. ASSUME NEW n \in Name, NEW l \in 0..Len(n) PROVE SubSeq(n, 1, l) \in Seq(Nat)
    <2>1. n \in Seq(Nat)
      BY NameType
    <2>2. Len(n) \in Nat /\ \A i \in 1..Len(n) : n[i] \in Nat
      BY <2>1, LenProperties, ElementOfSeq
    <2>3. l \in Int /\ \A i \in 1..l : n[i] \in Nat
      BY <2>2
    <2> QED
      BY <2>3, SubSeqProperties
  <1> QED
    BY <1>1 DEF Prefix, Prefixes

\* MembersAreAllThere: completion after a dot offers all members the receiver's type has in any file
\* whose names begin with what is typed, and nothing else.
THEOREM MembersAreAllThere == Spec => []MembersAreComplete
  <1>1. IInv => MembersAreComplete
    <2> SUFFICES ASSUME IInv, NEW p \in Prefix, NEW o \in Owner
                 PROVE  ToSet(Completion(p, TRUE, o))
                        = {s \in Indexed : s.owner = o /\ IsPrefix(p, s.name)}
      BY DEF MembersAreComplete
    <2>1. p \in Seq(Nat)
      BY PrefixType
    <2>2. Completion(p, TRUE, o) = OwnedBy(MatchingByPrefix(p), o)
      BY DEF Completion, CompletionsByOwner, Owner
    <2>3. /\ MatchingByPrefix(p) \in Seq(Symbol)
          /\ ToSet(MatchingByPrefix(p)) = {s \in Indexed : IsPrefix(p, s.name)}
      BY <2>1, MatchesAre
    <2>4. ToSet(OwnedBy(MatchingByPrefix(p), o)) = {s \in ToSet(MatchingByPrefix(p)) : s.owner = o}
      BY <2>3, OwnedByIs
    <2> QED
      BY <2>2, <2>3, <2>4
  <1> QED
    BY <1>1, Invariant, PTL

(***************************************************************************)
(* Hover and goto-definition.                                              *)
(***************************************************************************)

\* What a name on a receiver of the type leads to: the symbols of the name the
\* type owns, or all of the name when it owns none or is not known.
Choice(n, o) ==
    LET named == {s \in Indexed : s.name = n}
        owned == {s \in named : o # NoOwner /\ s.owner = o}
    IN  IF owned # {} THEN owned ELSE named

\* A list without elements is empty.
LEMMA EmptyList ==
    ASSUME NEW list \in Seq(Symbol)
    PROVE  list = <<>> <=> ToSet(list) = {}
  <1>1. DOMAIN list = 1..Len(list) /\ Len(list) \in Nat
    BY LenProperties
  <1>2. list # <<>> => 1 \in DOMAIN list
    BY <1>1, EmptySeq
  <1>3. list = <<>> => DOMAIN list = {}
    BY EmptySeq
  <1> QED
    BY <1>2, <1>3 DEF ToSet

\* The candidates left are just these.
LEMMA NarrowedIs ==
    ASSUME IInv, NEW n \in Name, NEW o
    PROVE  /\ NarrowToReceiverType(Lookup(n), o) \in Seq(Symbol)
           /\ ToSet(NarrowToReceiverType(Lookup(n), o)) = Choice(n, o)
  <1> DEFINE found == Lookup(n)
             owned == OwnedBy(found, o)
             left  == NarrowToReceiverType(found, o)
             named == {s \in Indexed : s.name = n}
             own   == {s \in named : o # NoOwner /\ s.owner = o}
  <1>1. found \in Seq(Symbol) /\ ToSet(found) = named
    BY BucketsType, LookupComplete DEF IInv, Lookup, LookupIsComplete
  <1>2. left = IF o # NoOwner /\ owned # <<>> THEN owned ELSE found
    BY DEF NarrowToReceiverType
  <1>3. Choice(n, o) = IF own # {} THEN own ELSE named
    BY DEF Choice
  <1> HIDE DEF found, left
  <1>4. owned \in Seq(Symbol) /\ ToSet(owned) = {s \in named : s.owner = o}
    <2> HIDE DEF named
    <2> QED
      BY <1>1, OwnedByIs
  <1>5. owned = <<>> <=> ToSet(owned) = {}
    BY <1>4, EmptyList
  <1>6. o # NoOwner => own = ToSet(owned)
    BY <1>4
  <1>7. o = NoOwner => own = {}
    OBVIOUS
  <1> HIDE DEF own, owned, named
  <1> QED
    BY <1>1, <1>2, <1>3, <1>4, <1>5, <1>6, <1>7 DEF found, left

\* Goto-definition leads to the whole choice, and hover shows a most relevant one
\* of it whenever the name is in the index at all.
HoverIsBest ==
    \A n \in Name, o \in Owner \cup {NoOwner} :
        /\ ToSet(GotoDefinition(n, o)) = {[uri |-> s.uri, line |-> s.line] : s \in Choice(n, o)}
        /\ Choice(n, o) = {} => Hover(n, o) = <<>>
        /\ Choice(n, o) # {} => \E s \in Choice(n, o) :
              /\ Hover(n, o) = <<s>>
              /\ \A t \in Choice(n, o) : ~MoreRelevant(t, s)

\* HoversAreBest: for every name and receiver goto-definition and hover answer with
\* what any file has of the name now, narrowed to what the receiver's type owns, and
\* hover has an answer when there is one.
THEOREM HoversAreBest == Spec => []HoverIsBest
  <1>1. IInv => HoverIsBest
    <2> SUFFICES ASSUME IInv, NEW n \in Name, NEW o \in Owner \cup {NoOwner}
                 PROVE  /\ ToSet(GotoDefinition(n, o))
                           = {[uri |-> s.uri, line |-> s.line] : s \in Choice(n, o)}
                        /\ Choice(n, o) = {} => Hover(n, o) = <<>>
                        /\ Choice(n, o) # {} => \E s \in Choice(n, o) :
                              /\ Hover(n, o) = <<s>>
                              /\ \A t \in Choice(n, o) : ~MoreRelevant(t, s)
      BY DEF HoverIsBest
    <2> DEFINE left == NarrowToReceiverType(Lookup(n), o)
    <2>1. ToSet(left) = Choice(n, o) /\ left \in Seq(Symbol)
      BY NarrowedIs
    <2>2. /\ GotoDefinition(n, o) = [i \in DOMAIN left |-> [uri |-> left[i].uri, line |-> left[i].line]]
          /\ Hover(n, o) = IF left = <<>> THEN <<>> ELSE <<BestMatch(left)>>
      BY DEF GotoDefinition, Hover
    <2> HIDE DEF left
    <2>3. ToSet(GotoDefinition(n, o)) = {[uri |-> s.uri, line |-> s.line] : s \in ToSet(left)}
      BY <2>2 DEF ToSet
    <2>4. left = <<>> <=> ToSet(left) = {}
      BY <2>1, EmptyList
    <2>5. left # <<>> => /\ BestMatch(left) \in ToSet(left)
                         /\ \A t \in ToSet(left) : ~MoreRelevant(t, BestMatch(left))
      BY <2>1, BestMatchIsBest
    <2> QED
      BY <2>1, <2>2, <2>3, <2>4, <2>5
  <1> QED
    BY <1>1, Invariant, PTL

\* HoversAreOrderFree: whatever the order the files were indexed in, goto-definition
\* leads to the choice and hover shows nothing less relevant than another of it.
THEOREM HoversAreOrderFree == Spec => []HoverIsOrderFree
  <1>1. IInv /\ HoverIsBest => HoverIsOrderFree
    <2> SUFFICES ASSUME IInv, HoverIsBest, NEW n \in DOMAIN byName, NEW o \in Owner \cup {NoOwner}
                 PROVE  /\ ToSet(GotoDefinition(n, o))
                           = {[uri |-> s.uri, line |-> s.line] : s \in Choice(n, o)}
                        /\ \A s \in ToSet(Hover(n, o)) :
                              s \in Choice(n, o) /\ \A t \in Choice(n, o) : ~MoreRelevant(t, s)
      BY DEF HoverIsOrderFree, Choice
    <2>1. n \in Name
      BY BucketsType DEF IInv
    <2>2. ToSet(<<>>) = {} /\ \A s : ToSet(<<s>>) = {s}
      BY EmptySeq DEF ToSet
    <2>3. Hover(n, o) = <<>> \/ \E s \in Choice(n, o) :
              Hover(n, o) = <<s>> /\ \A t \in Choice(n, o) : ~MoreRelevant(t, s)
      BY <2>1 DEF HoverIsBest
    <2> QED
      BY <2>1, <2>2, <2>3 DEF HoverIsBest
  <1> QED
    BY <1>1, Invariant, HoversAreBest, PTL

(***************************************************************************)
(* Completion of a name.                                                   *)
(***************************************************************************)

\* Symbols are ordered but for those at one place, which are before and behind the
\* same others.
LEMMA SymbolsAreOrdered ==
    /\ \A s \in Symbol : ~Before(s, s)
    /\ \A r, s, t \in Symbol : Before(r, s) /\ Before(s, t) => Before(r, t)
    /\ \A r, s, t \in Symbol : ~Before(s, t) /\ ~Before(t, s) =>
          (Before(r, s) <=> Before(r, t)) /\ (Before(s, r) <=> Before(t, r))
  <1>1. \A s \in Symbol : /\ s.name \in Seq(Nat) /\ s.isImport \in BOOLEAN
                          /\ s.uri \in Nat /\ s.line \in Nat
    BY WorkspaceIndexAssumption, NameType DEF Name
  <1>2. ASSUME NEW s \in Symbol PROVE ~Before(s, s)
    <2>1. ~NameLess(s.name, s.name)
      BY <1>1, NamesAreOrdered
    <2>2. ~MoreRelevant(s, s)
      BY <1>1, Relevance
    <2> QED
      BY <2>1, <2>2 DEF Before
  <1>3. ASSUME NEW r \in Symbol, NEW s \in Symbol, NEW t \in Symbol,
               MoreRelevant(r, s), MoreRelevant(s, t)
        PROVE  MoreRelevant(r, t)
    <2>1. /\ r.uri \in Nat /\ s.uri \in Nat /\ t.uri \in Nat
          /\ r.line \in Nat /\ s.line \in Nat /\ t.line \in Nat
          /\ r.isImport \in BOOLEAN /\ s.isImport \in BOOLEAN /\ t.isImport \in BOOLEAN
      BY <1>1
    <2> QED
      BY <1>3, <2>1, Relevance
  <1>4. ASSUME NEW r \in Symbol, NEW s \in Symbol, NEW t \in Symbol, Before(r, s), Before(s, t)
        PROVE  Before(r, t)
    <2>1. r.name \in Seq(Nat) /\ s.name \in Seq(Nat) /\ t.name \in Seq(Nat)
      BY <1>1
    <2>2. /\ NameLess(r.name, s.name) \/ (r.name = s.name /\ MoreRelevant(r, s))
          /\ NameLess(s.name, t.name) \/ (s.name = t.name /\ MoreRelevant(s, t))
      BY <1>4 DEF Before
    <2>3. NameLess(r.name, s.name) /\ NameLess(s.name, t.name) => NameLess(r.name, t.name)
      BY <2>1, NamesAreOrdered
    <2> QED
      BY <1>3, <2>2, <2>3 DEF Before
  <1>5. ASSUME NEW r \in Symbol, NEW s \in Symbol, NEW t \in Symbol, ~Before(s, t), ~Before(t, s)
        PROVE  (Before(r, s) <=> Before(r, t)) /\ (Before(s, r) <=> Before(t, r))
    <2>1. s.name = t.name
      BY <1>1, <1>5, NamesAreOrdered DEF Before
    <2>2. ~MoreRelevant(s, t) /\ ~MoreRelevant(t, s)
      BY <1>5, <2>1 DEF Before
    <2>3. s.isImport = t.isImport /\ s.uri = t.uri /\ s.line = t.line
      <3>1. /\ s.uri \in Nat /\ t.uri \in Nat /\ s.line \in Nat /\ t.line \in Nat
            /\ s.isImport \in BOOLEAN /\ t.isImport \in BOOLEAN
        BY <1>1
      <3> QED
        BY <2>2, <3>1, Relevance
    <2>4. (MoreRelevant(r, s) <=> MoreRelevant(r, t)) /\ (MoreRelevant(s, r) <=> MoreRelevant(t, r))
      BY <2>3, Relevance
    <2> QED
      BY <2>1, <2>4 DEF Before
  <1> QED
    BY <1>2, <1>4, <1>5

\* A sorted list holds what it held, nothing after what it comes before.
LEMMA SortedIs ==
    ASSUME NEW list \in Seq(Symbol)
    PROVE  /\ Sorted(list) \in Seq(Symbol)
           /\ ToSet(Sorted(list)) = ToSet(list)
           /\ \A j, k \in DOMAIN Sorted(list) : j < k => ~Before(Sorted(list)[k], Sorted(list)[j])
  <1> DEFINE earlier(i, j) ==
                 Before(list[i], list[j]) \/ (~Before(list[j], list[i]) /\ i < j)
             places == DOMAIN list
             less   == {p \in places \X places : earlier(p[1], p[2])}
             order  == Arranged(places, less)
             sorted == Sorted(list)
  <1>1. /\ places = 1..Len(list) /\ Len(list) \in Nat
        /\ \A i \in places : i \in Nat /\ list[i] \in Symbol
    BY LenProperties, ElementOfSeq
  <1>2. IsFiniteSet(places)
    <2>1. 1 \in Int /\ Len(list) \in Int
      BY <1>1
    <2>2. IsFiniteSet(1..Len(list))
      BY <2>1, FS_Interval
    <2> QED
      BY <1>1, <2>2
  <1>3. sorted = [k \in DOMAIN order |-> list[order[k]]]
    BY DEF Sorted
  <1>4. \A i, j \in places : <<i, j>> \in less <=> earlier(i, j)
    <2> HIDE DEF earlier, places
    <2> QED
      OBVIOUS
  <1> HIDE DEF places, less
  <1>5. IsOrder(places, less)
    <2>1. ASSUME NEW i \in places PROVE ~earlier(i, i)
      BY <1>1, SymbolsAreOrdered
    <2>2. ASSUME NEW i \in places, NEW j \in places, NEW k \in places,
                 earlier(i, j), earlier(j, k)
          PROVE  earlier(i, k)
      <3> DEFINE a == list[i]
                 b == list[j]
                 c == list[k]
      <3>1. a \in Symbol /\ b \in Symbol /\ c \in Symbol
        BY <1>1
      <3>2. /\ Before(a, b) \/ (~Before(b, a) /\ i < j)
            /\ Before(b, c) \/ (~Before(c, b) /\ j < k)
        BY <2>2
      <3> SUFFICES Before(a, c) \/ (~Before(c, a) /\ i < k)
        OBVIOUS
      <3> HIDE DEF a, b, c
      <3>3. CASE Before(a, b) \/ Before(b, c)
        BY <3>1, <3>2, <3>3, SymbolsAreOrdered
      <3>4. CASE ~Before(a, b) /\ ~Before(b, c)
        <4>1. ~Before(c, a)
          BY <3>1, <3>2, <3>4, SymbolsAreOrdered
        <4>2. i < k
          BY <1>1, <3>2, <3>4
        <4> QED
          BY <4>1, <4>2
      <3> QED
        BY <3>3, <3>4
    <2>3. ASSUME NEW i \in places, NEW j \in places
          PROVE  i = j \/ earlier(i, j) \/ earlier(j, i)
      <3>1. i < j \/ i = j \/ j < i
        BY <1>1
      <3> QED
        BY <3>1
    <2> HIDE DEF earlier
    <2> QED
      BY <1>4, <2>1, <2>2, <2>3 DEF IsOrder
  <1>6. /\ order \in Seq(places) /\ ToSet(order) = places
        /\ \A j, k \in 1..Len(order) : j < k => <<order[j], order[k]>> \in less
    BY <1>2, <1>5, ArrangedIs
  <1> HIDE DEF order, sorted
  <1>7. /\ DOMAIN order = 1..Len(order) /\ Len(order) \in Nat
        /\ \A k \in 1..Len(order) : order[k] \in places
    BY <1>6, LenProperties, ElementOfSeq
  <1>8. sorted \in Seq(Symbol) /\ DOMAIN sorted = DOMAIN order
    <2>1. sorted \in [1..Len(order) -> Symbol]
      BY <1>1, <1>3, <1>7
    <2> QED
      BY <1>3, <1>7, <2>1, LenProperties
  <1>9. ToSet(sorted) = ToSet(list)
    <2>1. ToSet(list) = {list[i] : i \in places}
      BY DEF ToSet, places
    <2>2. \A i \in places : \E k \in DOMAIN order : order[k] = i
      BY <1>6 DEF ToSet
    <2>3. \A k \in DOMAIN order : sorted[k] = list[order[k]]
      BY <1>3
    <2>4. ToSet(sorted) = {sorted[k] : k \in DOMAIN order}
      BY <1>8 DEF ToSet
    <2>5. ASSUME NEW i \in places PROVE list[i] \in ToSet(sorted)
      BY <2>2, <2>3, <2>4
    <2>6. ASSUME NEW k \in DOMAIN order PROVE sorted[k] \in ToSet(list)
      BY <1>7, <2>1, <2>3
    <2> QED
      BY <2>1, <2>4, <2>5, <2>6
  <1>10. ASSUME NEW j \in DOMAIN order, NEW k \in DOMAIN order, j < k
         PROVE  ~Before(sorted[k], sorted[j])
    <2>1. earlier(order[j], order[k]) /\ order[j] \in places /\ order[k] \in places
      BY <1>4, <1>6, <1>7, <1>10
    <2>2. ~Before(list[order[k]], list[order[j]])
      BY <1>1, <2>1, SymbolsAreOrdered
    <2> QED
      BY <1>3, <2>2
  <1> QED
    BY <1>8, <1>9, <1>10 DEF sorted

\* Of a sorted list each name is kept once, with its most relevant symbol.
LEMMA FirstOfNamesIs ==
    ASSUME NEW list \in Seq(Symbol),
           \A j, k \in DOMAIN list : j < k => ~Before(list[k], list[j]),
           NEW kept, kept = FirstOfNames(list)
    PROVE  /\ kept \in Seq(Symbol) /\ ToSet(kept) \subseteq ToSet(list)
           /\ \A s \in ToSet(list) : \E i \in DOMAIN kept : kept[i].name = s.name
           /\ \A i \in DOMAIN kept : \A s \in ToSet(list) :
                 s.name = kept[i].name => ~MoreRelevant(s, kept[i])
           /\ \A i \in DOMAIN kept : i > 1 => NameLess(kept[i - 1].name, kept[i].name)
  <1> DEFINE places == {i \in DOMAIN list : i = 1 \/ list[i].name # list[i - 1].name}
  <1>1. /\ DOMAIN list = 1..Len(list) /\ Len(list) \in Nat
        /\ \A i \in 1..Len(list) : list[i] \in Symbol /\ list[i].name \in Seq(Nat)
    <2>1. \A s \in Symbol : s.name \in Seq(Nat)
      BY NameType DEF Name
    <2> QED
      BY <2>1, LenProperties, ElementOfSeq
  <1>2. kept = Kept(list, places)
    BY DEF FirstOfNames
  <1>3. ASSUME NEW j \in 1..Len(list), NEW k \in 1..Len(list), j <= k
        PROVE  ~NameLess(list[k].name, list[j].name)
    <2>1. CASE j = k
      BY <1>1, <2>1, NamesAreOrdered
    <2>2. CASE j # k
      <3>1. ~Before(list[k], list[j])
        BY <1>1, <1>3, <2>2
      <3> QED
        BY <3>1 DEF Before
    <2> QED
      BY <2>1, <2>2
  <1>4. ASSUME NEW q \in places, NEW j \in 1..Len(list), j < q
        PROVE  list[j].name # list[q].name
    <2>1. q \in 1..Len(list) /\ q - 1 \in 1..Len(list) /\ j <= q - 1 /\ q - 1 <= q
      BY <1>1, <1>4
    <2>2. list[q].name # list[q - 1].name
      BY <1>1, <1>4
    <2>3. ~NameLess(list[q - 1].name, list[j].name) /\ ~NameLess(list[q].name, list[q - 1].name)
      BY <1>3, <2>1
    <2> QED
      BY <1>1, <2>1, <2>2, <2>3, NamesAreOrdered
  <1>5. ASSUME NEW i \in 1..Len(list)
        PROVE  \E q \in places : list[q].name = list[i].name
    <2> DEFINE J == {j \in 1..Len(list) : list[j].name = list[i].name}
    <2>1. J \in SUBSET Nat /\ J # {}
      OBVIOUS
    <2>2. PICK q \in J : \A j \in J : q <= j
      <3> HIDE DEF J
      <3> QED
        BY <2>1, LeastNumber
    <2>3. q \in 1..Len(list) /\ list[q].name = list[i].name
      OBVIOUS
    <2>4. ASSUME q # 1 PROVE list[q].name # list[q - 1].name
      <3>1. q - 1 \in 1..Len(list) /\ ~(q <= q - 1)
        BY <1>1, <2>3, <2>4
      <3>2. q - 1 \notin J
        BY <2>2, <3>1
      <3> QED
        BY <2>3, <3>1, <3>2
    <2>5. q \in places
      BY <1>1, <2>3, <2>4
    <2> QED
      BY <2>3, <2>5
  <1>6. ASSUME NEW q \in places, NEW j \in 1..Len(list), list[j].name = list[q].name
        PROVE  ~MoreRelevant(list[j], list[q])
    <2>1. q <= j /\ q \in 1..Len(list) /\ q \in DOMAIN list /\ j \in DOMAIN list
      <3>1. q \in 1..Len(list)
        BY <1>1
      <3>2. ~(j < q)
        <4> HIDE DEF places
        <4> QED
          BY <1>4, <1>6
      <3> QED
        BY <1>1, <3>1, <3>2
    <2>2. CASE q = j
      <3>1. ~Before(list[q], list[q])
        BY <1>1, <2>1, SymbolsAreOrdered
      <3> QED
        BY <2>2, <3>1 DEF Before
    <2>3. CASE q # j
      <3>1. ~Before(list[j], list[q])
        BY <1>1, <2>1, <2>3
      <3> QED
        BY <1>6, <3>1 DEF Before
    <2> QED
      BY <2>2, <2>3
  <1>7. ASSUME NEW j \in places, NEW q \in places, j < q
        PROVE  NameLess(list[j].name, list[q].name)
    <2>1. j \in 1..Len(list) /\ q \in 1..Len(list) /\ j <= q
      BY <1>1, <1>7
    <2>2. list[j].name # list[q].name
      BY <1>4, <1>7, <2>1
    <2>3. ~NameLess(list[q].name, list[j].name)
      BY <1>3, <2>1
    <2> QED
      BY <1>1, <2>1, <2>2, <2>3, NamesAreOrdered
  <1>8. places \in SUBSET DOMAIN list
    OBVIOUS
  <1> HIDE DEF places
  <1>9. kept \in Seq(Symbol) /\ ToSet(kept) = {list[i] : i \in places}
    BY <1>2, <1>8, KeptIs
  <1>10. PICK order \in Seq(places) :
            /\ Len(order) = Len(kept) /\ ToSet(order) = places
            /\ \A k \in DOMAIN order : kept[k] = list[order[k]]
            /\ \A j, k \in DOMAIN order : j < k => order[j] < order[k]
    BY <1>2, <1>8, KeptIs
  <1>11. /\ DOMAIN order = 1..Len(kept) /\ DOMAIN kept = 1..Len(kept) /\ Len(kept) \in Nat
         /\ \A k \in 1..Len(kept) : order[k] \in places /\ kept[k] = list[order[k]]
    BY <1>9, <1>10, LenProperties, ElementOfSeq
  <1>12. \A s \in ToSet(list) : \E i \in 1..Len(list) : s = list[i]
    BY <1>1 DEF ToSet
  <1>13. ToSet(kept) \subseteq ToSet(list)
    BY <1>8, <1>9 DEF ToSet
  <1>14. ASSUME NEW s \in ToSet(list) PROVE \E i \in DOMAIN kept : kept[i].name = s.name
    <2>1. PICK q \in places : list[q].name = s.name
      BY <1>5, <1>12
    <2>2. PICK i \in DOMAIN order : order[i] = q
      BY <1>10 DEF ToSet
    <2> QED
      BY <1>11, <2>1, <2>2
  <1>15. ASSUME NEW i \in DOMAIN kept, NEW s \in ToSet(list), s.name = kept[i].name
         PROVE  ~MoreRelevant(s, kept[i])
    <2>1. PICK j \in 1..Len(list) : s = list[j]
      BY <1>12
    <2> QED
      BY <1>6, <1>11, <1>15, <2>1
  <1>16. ASSUME NEW i \in DOMAIN kept, i > 1
         PROVE  NameLess(kept[i - 1].name, kept[i].name)
    <2>1. i \in 1..Len(kept) /\ i - 1 \in 1..Len(kept) /\ i - 1 < i
      BY <1>11, <1>16
    <2>2. order[i - 1] < order[i]
      BY <1>10, <1>11, <2>1
    <2> QED
      BY <1>7, <1>11, <2>1, <2>2
  <1> QED
    BY <1>9, <1>13, <1>14, <1>15, <1>16

\* CompletionsAreTheBest: completion offers each name with the prefix that any file
\* has, once and in order, as a most relevant symbol of the name, whatever was
\* indexed in which order and how often again.
THEOREM CompletionsAreTheBest == Spec => []CompletionsAreBest
  <1>1. IInv => CompletionsAreBest
    <2> SUFFICES ASSUME IInv, NEW p \in Prefix \ {<<>>}
                 PROVE  LET offered == Completion(p, FALSE, NoOwner)
                            wanted  == {s \in Indexed : IsPrefix(p, s.name)}
                        IN  /\ {s.name : s \in ToSet(offered)} = {s.name : s \in wanted}
                            /\ \A i \in DOMAIN offered :
                                 /\ \A s \in wanted :
                                      s.name = offered[i].name => ~MoreRelevant(s, offered[i])
                                 /\ i > 1 => NameLess(offered[i - 1].name, offered[i].name)
      BY DEF CompletionsAreBest
    <2> DEFINE offered == Completion(p, FALSE, NoOwner)
               wanted  == {s \in Indexed : IsPrefix(p, s.name)}
               found   == MatchingByPrefix(p)
               list    == Sorted(found)
    <2>1. p \in Seq(Nat)
      BY PrefixType
    <2>2. found \in Seq(Symbol) /\ ToSet(found) = wanted
      BY <2>1, MatchesAre
    <2>3. offered = FirstOfNames(list)
      BY DEF Completion, Completions
    <2> HIDE DEF offered, found, wanted
    <2>4. /\ list \in Seq(Symbol) /\ ToSet(list) = wanted
          /\ \A j, k \in DOMAIN list : j < k => ~Before(list[k], list[j])
      BY <2>2, SortedIs
    <2> HIDE DEF list
    <2>5. /\ ToSet(offered) \subseteq wanted
          /\ \A s \in wanted : \E i \in DOMAIN offered : offered[i].name = s.name
          /\ \A i \in DOMAIN offered : \A s \in wanted :
                s.name = offered[i].name => ~MoreRelevant(s, offered[i])
          /\ \A i \in DOMAIN offered : i > 1 => NameLess(offered[i - 1].name, offered[i].name)
      BY <2>3, <2>4, FirstOfNamesIs
    <2>6. \A i \in DOMAIN offered : offered[i] \in ToSet(offered)
      BY DEF ToSet
    <2>7. {s.name : s \in ToSet(offered)} = {s.name : s \in wanted}
      BY <2>5, <2>6
    <2> QED
      BY <2>5, <2>7 DEF offered, wanted
  <1> QED
    BY <1>1, Invariant, PTL
=============================================================================
