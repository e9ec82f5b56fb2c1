-------------------------- MODULE SourceText_proofs --------------------------
(***************************************************************************)
(* Proofs about SourceText, for texts and changes of any length: server    *)
(* and client hold the same text, the parser is told of the places that    *)
(* changed, the positions of both sides mean the same places, and the      *)
(* receiver of a completion is found.                                      *)
(***************************************************************************)
EXTENDS SourceText, FoldLemmas

(***************************************************************************)
(* The first elements of a sequence, and the others.                       *)
(***************************************************************************)

Pre(s, n) == SubSeq(s, 1, n)
Rest(s, n) == SubSeq(s, n + 1, Len(s))

\* The first n elements.
LEMMA PreIs ==
    ASSUME NEW C, NEW s \in Seq(C), NEW n \in 0..Len(s)
    PROVE  /\ Pre(s, n) \in Seq(C)
           /\ Len(Pre(s, n)) = n
           /\ \A i \in 1..n : Pre(s, n)[i] = s[i]
           /\ Pre(s, 0) = <<>>
           /\ Pre(s, Len(s)) = s
  <1>1. Len(s) \in Nat /\ n \in Int /\ \A i \in 1..Len(s) : s[i] \in C
    BY LenProperties, ElementOfSeq
  <1>2. \A i \in 1..n : s[i] \in C
    BY <1>1
  <1>3. /\ SubSeq(s, 1, n) \in Seq(C)
        /\ Len(SubSeq(s, 1, n)) = IF 1 <= n THEN n - 1 + 1 ELSE 0
        /\ \A i \in 1..(n - 1 + 1) : SubSeq(s, 1, n)[i] = s[1 + i - 1]
    BY <1>1, <1>2, SubSeqProperties
  <1>4. /\ (IF 1 <= n THEN n - 1 + 1 ELSE 0) = n
        /\ n - 1 + 1 = n
        /\ \A i \in 1..n : 1 + i - 1 = i
    BY <1>1
  <1>5. Pre(s, 0) = <<>>
    BY SubSeqEmpty DEF Pre
  <1>6. Pre(s, Len(s)) = s
    BY SubSeqFull DEF Pre
  <1> QED
    BY <1>3, <1>4, <1>5, <1>6 DEF Pre

\* The elements behind m, up to n.
LEMMA MiddleIs ==
    ASSUME NEW C, NEW s \in Seq(C), NEW m \in 0..Len(s), NEW n \in m..Len(s)
    PROVE  /\ SubSeq(s, m + 1, n) \in Seq(C)
           /\ Len(SubSeq(s, m + 1, n)) = n - m
           /\ \A i \in 1..(n - m) : SubSeq(s, m + 1, n)[i] = s[m + i]
           /\ Pre(s, n) = Pre(s, m) \o SubSeq(s, m + 1, n)
  <1>1. Len(s) \in Nat /\ \A i \in 1..Len(s) : s[i] \in C
    BY LenProperties, ElementOfSeq
  <1>2. m + 1 \in Int /\ n \in Int /\ \A i \in (m + 1)..n : s[i] \in C
    BY <1>1
  <1>3. /\ SubSeq(s, m + 1, n) \in Seq(C)
        /\ Len(SubSeq(s, m + 1, n)) = IF m + 1 <= n THEN n - (m + 1) + 1 ELSE 0
        /\ \A i \in 1..(n - (m + 1) + 1) : SubSeq(s, m + 1, n)[i] = s[m + 1 + i - 1]
    BY <1>2, SubSeqProperties
  <1>4. /\ (IF m + 1 <= n THEN n - (m + 1) + 1 ELSE 0) = n - m
        /\ n - (m + 1) + 1 = n - m
        /\ \A i \in 1..(n - m) : m + 1 + i - 1 = m + i
    BY <1>1
  <1>5. 1 \in 1..Len(s) + 1 /\ m \in 1 - 1..Len(s)
    BY <1>1
  <1>6. SubSeq(s, 1, m) \o SubSeq(s, m + 1, n) = SubSeq(s, 1, n)
    BY <1>5, ConcatAdjacentSubSeq
  <1> QED
    BY <1>3, <1>4, <1>6 DEF Pre

\* The elements behind n.
LEMMA RestIs ==
    ASSUME NEW C, NEW s \in Seq(C), NEW n \in 0..Len(s)
    PROVE  /\ Rest(s, n) \in Seq(C)
           /\ Len(Rest(s, n)) = Len(s) - n
           /\ \A i \in 1..(Len(s) - n) : Rest(s, n)[i] = s[n + i]
           /\ s = Pre(s, n) \o Rest(s, n)
  <1>1. Len(s) \in Nat /\ Len(s) \in n..Len(s)
    BY LenProperties
  <1>2. Pre(s, Len(s)) = s
    BY PreIs
  <1>3. /\ SubSeq(s, n + 1, Len(s)) \in Seq(C)
        /\ Len(SubSeq(s, n + 1, Len(s))) = Len(s) - n
        /\ \A i \in 1..(Len(s) - n) : SubSeq(s, n + 1, Len(s))[i] = s[n + i]
        /\ Pre(s, Len(s)) = Pre(s, n) \o SubSeq(s, n + 1, Len(s))
    BY <1>1, MiddleIs
  <1> QED
    BY <1>2, <1>3 DEF Rest

\* One element more.
LEMMA PreStep ==
    ASSUME NEW C, NEW s \in Seq(C), NEW n \in Nat, n + 1 <= Len(s)
    PROVE  /\ Pre(s, n + 1) = Append(Pre(s, n), s[n + 1])
           /\ Pre(s, n) \in Seq(C) /\ s[n + 1] \in C
  <1>1. Len(s) \in Nat /\ n \in 0..Len(s) /\ n + 1 \in 0..Len(s) /\ n + 1 \in 1..Len(s)
    BY LenProperties
  <1>2. Pre(s, n) \in Seq(C) /\ Len(Pre(s, n)) = n /\ \A i \in 1..n : Pre(s, n)[i] = s[i]
    BY <1>1, PreIs
  <1>3. s[n + 1] \in C
    BY <1>1, ElementOfSeq
  <1>4. /\ Pre(s, n + 1) \in Seq(C) /\ Len(Pre(s, n + 1)) = n + 1
        /\ \A i \in 1..(n + 1) : Pre(s, n + 1)[i] = s[i]
    BY <1>1, PreIs
  <1> DEFINE a == Append(Pre(s, n), s[n + 1])
  <1>5. /\ a \in Seq(C) /\ Len(a) = n + 1 /\ a[n + 1] = s[n + 1]
        /\ \A i \in 1..n : a[i] = s[i]
    BY <1>2, <1>3, AppendProperties
  <1>6. \A i \in 1..(n + 1) : Pre(s, n + 1)[i] = a[i]
    BY <1>4, <1>5
  <1> HIDE DEF a
  <1>7. Pre(s, n + 1) = a
    BY <1>4, <1>5, <1>6, SeqEqual
  <1> QED
    BY <1>2, <1>3, <1>7 DEF a

\* The first elements of the first elements.
LEMMA PreOfPre ==
    ASSUME NEW C, NEW s \in Seq(C), NEW n \in 0..Len(s), NEW m \in 0..n
    PROVE  Pre(Pre(s, n), m) = Pre(s, m)
  <1>1. Len(s) \in Nat /\ m \in 0..Len(s) /\ n \in Nat
    BY LenProperties
  <1>2. Pre(s, n) \in Seq(C) /\ Len(Pre(s, n)) = n /\ \A i \in 1..n : Pre(s, n)[i] = s[i]
    BY PreIs
  <1>3. Pre(s, m) \in Seq(C) /\ Len(Pre(s, m)) = m /\ \A i \in 1..m : Pre(s, m)[i] = s[i]
    BY <1>1, PreIs
  <1> DEFINE p == Pre(s, n)
             q == Pre(p, m)
  <1>4. p \in Seq(C) /\ m \in 0..Len(p)
    BY <1>2
  <1> HIDE DEF p
  <1>5. q \in Seq(C) /\ Len(q) = m /\ \A i \in 1..m : q[i] = p[i]
    BY <1>4, PreIs
  <1>6. \A i \in 1..m : q[i] = Pre(s, m)[i]
    BY <1>1, <1>2, <1>3, <1>5 DEF p
  <1> HIDE DEF q
  <1>7. q = Pre(s, m)
    BY <1>3, <1>5, <1>6, SeqEqual
  <1> QED
    BY <1>7 DEF p, q

\* What is put together comes apart again.
LEMMA PartsOfConcat ==
    ASSUME NEW C, NEW s \in Seq(C), NEW t \in Seq(C)
    PROVE  Pre(s \o t, Len(s)) = s /\ Rest(s \o t, Len(s)) = t
  <1> DEFINE u == s \o t
             n == Len(s)
  <1>1. /\ u \in Seq(C) /\ Len(u) = n + Len(t)
        /\ \A i \in 1..(n + Len(t)) : u[i] = IF i <= n THEN s[i] ELSE t[i - n]
    BY ConcatProperties
  <1>2. n \in Nat /\ Len(t) \in Nat
    BY LenProperties
  <1> HIDE DEF u, n
  <1>3. n \in 0..Len(u) /\ Len(u) - n = Len(t)
    BY <1>1, <1>2
  <1>4. Pre(u, n) \in Seq(C) /\ Len(Pre(u, n)) = n /\ \A i \in 1..n : Pre(u, n)[i] = u[i]
    BY <1>1, <1>3, PreIs
  <1>5. /\ Rest(u, n) \in Seq(C) /\ Len(Rest(u, n)) = Len(t)
        /\ \A i \in 1..Len(t) : Rest(u, n)[i] = u[n + i]
    BY <1>1, <1>3, RestIs
  <1>6. \A i \in 1..n : Pre(u, n)[i] = s[i]
    BY <1>1, <1>2, <1>4
  <1>7. \A i \in 1..Len(t) : Rest(u, n)[i] = t[i]
    <2> TAKE i \in 1..Len(t)
    <2>1. n + i \in 1..(n + Len(t)) /\ ~(n + i <= n) /\ (n + i) - n = i
      BY <1>2
    <2>2. u[n + i] = t[i]
      BY <1>1, <2>1
    <2> QED
      BY <1>5, <2>2
  <1>8. Pre(u, n) = s
    BY <1>4, <1>6, SeqEqual DEF n
  <1>9. Rest(u, n) = t
    BY <1>5, <1>7, SeqEqual
  <1> QED
    BY <1>8, <1>9 DEF u, n

\* What is left of two sequences, behind a place in the first or in the second.
LEMMA RestOfConcat ==
    ASSUME NEW C, NEW s \in Seq(C), NEW t \in Seq(C)
    PROVE  /\ \A n \in 0..Len(s) : Rest(s \o t, n) = Rest(s, n) \o t
           /\ \A n \in 0..Len(t) : Rest(s \o t, Len(s) + n) = Rest(t, n)
           /\ \A n \in 0..Len(s) : Pre(s \o t, n) = Pre(s, n)
           /\ \A n \in 0..Len(t) : Pre(s \o t, Len(s) + n) = s \o Pre(t, n)
  <1>1. ASSUME NEW n \in 0..Len(s)
        PROVE  Rest(s \o t, n) = Rest(s, n) \o t /\ Pre(s \o t, n) = Pre(s, n)
    <2>1. Pre(s, n) \in Seq(C) /\ Len(Pre(s, n)) = n
      BY PreIs
    <2>2. Rest(s, n) \in Seq(C) /\ s = Pre(s, n) \o Rest(s, n)
      BY RestIs
    <2> DEFINE p == Pre(s, n)
               r == Rest(s, n)
               q == r \o t
    <2>3. p \in Seq(C) /\ q \in Seq(C) /\ Len(p) = n
      BY <2>1, <2>2, ConcatProperties
    <2>4. s \o t = p \o q
      <3>1. p \in Seq(C) /\ r \in Seq(C) /\ s = p \o r
        BY <2>1, <2>2
      <3> HIDE DEF p, r
      <3>2. (p \o r) \o t = p \o (r \o t)
        BY <3>1, ConcatAssociative, SMTT(20)
      <3> QED
        BY <3>1, <3>2, Zenon
    <2> HIDE DEF p, q
    <2>5. Rest(p \o q, n) = q /\ Pre(p \o q, n) = p
      BY <2>3, PartsOfConcat
    <2> QED
      BY <2>4, <2>5 DEF p, q
  <1>2. ASSUME NEW n \in 0..Len(t)
        PROVE  Rest(s \o t, Len(s) + n) = Rest(t, n) /\ Pre(s \o t, Len(s) + n) = s \o Pre(t, n)
    <2>1. Pre(t, n) \in Seq(C) /\ Len(Pre(t, n)) = n
      BY PreIs
    <2>2. Rest(t, n) \in Seq(C) /\ t = Pre(t, n) \o Rest(t, n)
      BY RestIs
    <2> DEFINE r == Pre(t, n)
               p == s \o r
               q == Rest(t, n)
    <2>3. p \in Seq(C) /\ q \in Seq(C) /\ Len(p) = Len(s) + n
      BY <2>1, <2>2, ConcatProperties
    <2>4. s \o t = p \o q
      <3>1. q \in Seq(C) /\ r \in Seq(C) /\ t = r \o q
        BY <2>1, <2>2
      <3> HIDE DEF q, r
      <3>2. (s \o r) \o q = s \o (r \o q)
        BY <3>1, ConcatAssociative, SMTT(20)
      <3> QED
        BY <3>1, <3>2, Zenon
    <2> HIDE DEF p, q
    <2>5. Rest(p \o q, Len(p)) = q /\ Pre(p \o q, Len(p)) = p
      BY <2>3, PartsOfConcat
    <2> QED
      BY <2>3, <2>4, <2>5 DEF p, q
  <1> QED
    BY <1>1, <1>2

\* An element appended to the second of two sequences is appended to both.
LEMMA ConcatAppend ==
    ASSUME NEW C, NEW s \in Seq(C), NEW t \in Seq(C), NEW c \in C
    PROVE  s \o Append(t, c) = Append(s \o t, c)
  <1>1. <<c>> \in Seq(C) /\ s \o t \in Seq(C)
    BY ConcatProperties
  <1>2. Append(t, c) = t \o <<c>> /\ Append(s \o t, c) = (s \o t) \o <<c>>
    BY <1>1, AppendIsConcat
  <1> QED
    BY <1>1, <1>2, ConcatAssociative

(***************************************************************************)
(* Lines.                                                                  *)
(***************************************************************************)

\* The line ends of a text are finitely many of its places.
LEMMA NewlinesAre ==
    ASSUME NEW C, NEW s \in Seq(C)
    PROVE  /\ Newlines(s) \in SUBSET (1..Len(s))
           /\ IsFiniteSet(Newlines(s))
           /\ NewlinesIn(s) \in Nat
           /\ NewlinesIn(s) = 0 <=> Newlines(s) = {}
  <1>1. Len(s) \in Nat /\ DOMAIN s = 1..Len(s)
    BY LenProperties
  <1>2. IsFiniteSet(1..Len(s))
    BY <1>1, FS_Interval
  <1>3. Newlines(s) \in SUBSET (1..Len(s))
    BY <1>1 DEF Newlines
  <1>4. IsFiniteSet(Newlines(s))
    BY <1>2, <1>3, FS_Subset
  <1> QED
    BY <1>3, <1>4, FS_CardinalityType, FS_EmptySet DEF NewlinesIn

\* One character more is one line more, if it ends one.
LEMMA NewlinesOfAppend ==
    ASSUME NEW C, NEW s \in Seq(C), NEW c \in C
    PROVE  /\ NewlinesIn(<<>>) = 0
           /\ NewlinesIn(Append(s, c)) = NewlinesIn(s) + (IF c = "newline" THEN 1 ELSE 0)
  <1>1. NewlinesIn(<<>>) = 0
    <2>1. DOMAIN <<>> = {}
      OBVIOUS
    <2>2. Newlines(<<>>) = {}
      BY <2>1 DEF Newlines
    <2> QED
      BY <2>2, FS_EmptySet DEF NewlinesIn
  <1> DEFINE t == Append(s, c)
             n == Len(s) + 1
  <1>2. /\ t \in Seq(C) /\ Len(t) = n /\ t[n] = c
        /\ \A i \in 1..Len(s) : t[i] = s[i]
        /\ Len(s) \in Nat
    BY AppendProperties, LenProperties
  <1>3. DOMAIN s = 1..Len(s) /\ DOMAIN t = 1..n
    BY <1>2, LenProperties
  <1>4. IsFiniteSet(Newlines(s)) /\ NewlinesIn(s) \in Nat
    BY NewlinesAre
  <1>5. n \notin DOMAIN s /\ DOMAIN t = DOMAIN s \cup {n} /\ \A i \in DOMAIN s : t[i] = s[i]
    BY <1>2, <1>3
  <1> HIDE DEF t, n
  <1>6. CASE c = "newline"
    <2>1. Newlines(t) = Newlines(s) \cup {n} /\ n \notin Newlines(s)
      BY <1>2, <1>5, <1>6 DEF Newlines
    <2>2. Cardinality(Newlines(t)) = Cardinality(Newlines(s)) + 1
      BY <1>4, <2>1, FS_AddElement
    <2> QED
      BY <1>1, <1>6, <2>2 DEF NewlinesIn, t
  <1>7. CASE c # "newline"
    <2>1. Newlines(t) = Newlines(s)
      BY <1>2, <1>5, <1>7 DEF Newlines
    <2>2. NewlinesIn(t) = NewlinesIn(s)
      BY <2>1 DEF NewlinesIn
    <2> QED
      BY <1>1, <1>4, <1>7, <2>2 DEF t
  <1> QED
    BY <1>6, <1>7

\* The line ends of two texts, one behind the other, are those of both.
LEMMA NewlinesOfConcat ==
    ASSUME NEW C, NEW s \in Seq(C), NEW t \in Seq(C)
    PROVE  NewlinesIn(s \o t) = NewlinesIn(s) + NewlinesIn(t)
  <1> DEFINE Holds(n) ==
                 n <= Len(t) => NewlinesIn(s \o Pre(t, n)) = NewlinesIn(s) + NewlinesIn(Pre(t, n))
             T == {n \in Nat : Holds(n)}
  <1>0. Len(t) \in Nat /\ NewlinesIn(s) \in Nat
    BY LenProperties, NewlinesAre
  <1>1. Holds(0)
    <2>1. Pre(t, 0) = <<>> /\ s \o <<>> = s
      BY <1>0, PreIs, ConcatEmptySeq
    <2>2. NewlinesIn(<<>>) = 0
      <3>1. DOMAIN <<>> = {}
        OBVIOUS
      <3>2. Newlines(<<>>) = {}
        BY <3>1 DEF Newlines
      <3> QED
        BY <3>2, FS_EmptySet DEF NewlinesIn
    <2>3. NewlinesIn(s \o Pre(t, 0)) = NewlinesIn(s) /\ NewlinesIn(Pre(t, 0)) = 0
      BY <2>1, <2>2, Zenon
    <2> QED
      BY <1>0, <2>3
  <1>2. ASSUME NEW n \in Nat, Holds(n) PROVE Holds(n + 1)
    <2> SUFFICES ASSUME n + 1 <= Len(t)
                 PROVE  NewlinesIn(s \o Pre(t, n + 1)) = NewlinesIn(s) + NewlinesIn(Pre(t, n + 1))
      OBVIOUS
    <2> DEFINE p == Pre(t, n)
               c == t[n + 1]
    <2>1. Pre(t, n + 1) = Append(p, c) /\ p \in Seq(C) /\ c \in C
      BY PreStep
    <2>2. NewlinesIn(s \o p) = NewlinesIn(s) + NewlinesIn(p)
      BY <1>0, <1>2
    <2> HIDE DEF p, c
    <2>3. s \o Append(p, c) = Append(s \o p, c) /\ s \o p \in Seq(C)
      BY <2>1, ConcatAppend, ConcatProperties
    <2>4. NewlinesIn(p) \in Nat
      BY <2>1, NewlinesAre
    <2>5. /\ NewlinesIn(Append(s \o p, c)) = NewlinesIn(s \o p) + (IF c = "newline" THEN 1 ELSE 0)
          /\ NewlinesIn(Append(p, c)) = NewlinesIn(p) + (IF c = "newline" THEN 1 ELSE 0)
      BY <2>1, <2>3, NewlinesOfAppend
    <2>6. NewlinesIn(Append(s \o p, c)) = NewlinesIn(s) + NewlinesIn(Append(p, c))
      BY <1>0, <2>2, <2>4, <2>5
    <2> QED
      BY <2>1, <2>3, <2>6, Zenon
  <1> HIDE DEF Holds
  <1>3. 0 \in T /\ \A n \in Nat : n \in T => n + 1 \in T
    BY <1>1, <1>2
  <1> HIDE DEF T
  <1>4. Nat \subseteq T
    BY <1>3, SetInduction
  <1>5. Holds(Len(t))
    BY <1>0, <1>4 DEF T
  <1>6. Pre(t, Len(t)) = t
    BY <1>0, PreIs
  <1> QED
    BY <1>0, <1>5, <1>6 DEF Holds

\* The lines above a place are no fewer further on, and as many only in its line.
LEMMA NewlinesGrow ==
    ASSUME NEW C, NEW s \in Seq(C), NEW n \in 0..Len(s), NEW m \in 0..n
    PROVE  /\ NewlinesIn(Pre(s, m)) <= NewlinesIn(Pre(s, n))
           /\ NewlinesIn(Pre(s, m)) = NewlinesIn(Pre(s, n)) =>
                  \A i \in (m + 1)..n : s[i] # "newline"
  <1> DEFINE b == SubSeq(s, m + 1, n)
  <1>1. Len(s) \in Nat /\ m \in 0..Len(s) /\ n \in m..Len(s)
    BY LenProperties
  <1>2. /\ b \in Seq(C) /\ Len(b) = n - m /\ \A i \in 1..(n - m) : b[i] = s[m + i]
        /\ Pre(s, n) = Pre(s, m) \o b
    BY <1>1, MiddleIs
  <1> HIDE DEF b
  <1>3. Pre(s, m) \in Seq(C)
    BY <1>1, PreIs
  <1>4. NewlinesIn(Pre(s, n)) = NewlinesIn(Pre(s, m)) + NewlinesIn(b)
    BY <1>2, <1>3, NewlinesOfConcat
  <1>5. NewlinesIn(Pre(s, m)) \in Nat /\ NewlinesIn(b) \in Nat
        /\ (NewlinesIn(b) = 0 => Newlines(b) = {})
    BY <1>2, <1>3, NewlinesAre
  <1>6. ASSUME Newlines(b) = {}, NEW i \in (m + 1)..n PROVE s[i] # "newline"
    <2>1. i - m \in 1..(n - m) /\ m + (i - m) = i
      BY <1>1
    <2>2. DOMAIN b = 1..(n - m)
      BY <1>2, LenProperties
    <2>3. b[i - m] = s[i]
      BY <1>2, <2>1
    <2> QED
      BY <1>6, <2>1, <2>2, <2>3 DEF Newlines
  <1>7. NewlinesIn(Pre(s, m)) = NewlinesIn(Pre(s, n)) => NewlinesIn(b) = 0
    BY <1>4, <1>5
  <1> QED
    BY <1>4, <1>5, <1>6, <1>7

\* Behind the last of some places of a sequence.
LEMMA AfterLastIs ==
    ASSUME NEW C, NEW s \in Seq(C), NEW S \in SUBSET (1..Len(s))
    PROVE  /\ \E m \in 0..Len(s) : (m = 0 \/ m \in S) /\ \A x \in S : x <= m
           /\ \A m \in 0..Len(s) :
                  (m = 0 \/ m \in S) /\ (\A x \in S : x <= m) => AfterLast(s, S) = Rest(s, m)
  <1>0. Len(s) \in Nat
    BY LenProperties
  <1>1. \E m \in 0..Len(s) : (m = 0 \/ m \in S) /\ \A x \in S : x <= m
    <2>1. CASE S = {}
      BY <1>0, <2>1
    <2>2. CASE S # {}
      <3>1. Max(S) \in S /\ Max(S) \in 1..Len(s) /\ \A y \in S : Max(S) >= y
        BY <1>0, <2>2, MaxIsElement
      <3> QED
        BY <1>0, <3>1
    <2> QED
      BY <2>1, <2>2
  <1>2. ASSUME NEW m \in 0..Len(s), m = 0 \/ m \in S, \A x \in S : x <= m
        PROVE  AfterLast(s, S) = Rest(s, m)
    <2> DEFINE T == {0} \cup S
               M == CHOOSE x \in T : \A y \in T : x >= y
    <2>1. T \subseteq 0..Len(s)
      BY <1>0
    <2>2. m \in T /\ \A y \in T : m >= y
      BY <1>0, <1>2
    <2>3. M \in T /\ \A y \in T : M >= y
      <3> HIDE DEF T
      <3> QED
        BY <2>2
    <2>4. M = m
      <3> HIDE DEF T, M
      <3>1. M \in Nat /\ m \in Nat /\ M >= m /\ m >= M
        BY <1>0, <2>1, <2>2, <2>3
      <3> QED
        BY <3>1
    <2>5. Max(T) = m
      BY <2>4 DEF Max
    <2> QED
      BY <2>5 DEF AfterLast, Rest
  <1> QED
    BY <1>1, <1>2

\* The last line begins behind the last line end.
LEMMA LastLineIs ==
    ASSUME NEW C, NEW s \in Seq(C)
    PROVE  /\ \E m \in 0..Len(s) : /\ m = 0 \/ (m \in 1..Len(s) /\ s[m] = "newline")
                                   /\ \A i \in (m + 1)..Len(s) : s[i] # "newline"
           /\ \A m \in 0..Len(s) :
                  /\ m = 0 \/ (m \in 1..Len(s) /\ s[m] = "newline")
                  /\ \A i \in (m + 1)..Len(s) : s[i] # "newline"
                  => LastLine(s) = Rest(s, m)
  <1> DEFINE S == Newlines(s)
  <1>1. S \in SUBSET (1..Len(s)) /\ Len(s) \in Nat
    BY NewlinesAre, LenProperties
  <1>2. \A i \in 1..Len(s) : i \in S <=> s[i] = "newline"
    BY LenProperties DEF Newlines
  <1>3. ASSUME NEW m \in 0..Len(s)
        PROVE  /\ (m = 0 \/ m \in S) <=> (m = 0 \/ (m \in 1..Len(s) /\ s[m] = "newline"))
               /\ (\A x \in S : x <= m) <=> \A i \in (m + 1)..Len(s) : s[i] # "newline"
    <2> HIDE DEF S
    <2>1. \A x \in S : x \in 1..Len(s)
      BY <1>1
    <2>2. ASSUME \A x \in S : x <= m, NEW i \in (m + 1)..Len(s) PROVE s[i] # "newline"
      BY <1>1, <1>2, <2>2
    <2>3. ASSUME \A i \in (m + 1)..Len(s) : s[i] # "newline", NEW x \in S PROVE x <= m
      <3>1. x \in 1..Len(s) /\ s[x] = "newline" /\ m \in Nat
        BY <1>1, <1>2, <2>1
      <3>2. ~(x \in (m + 1)..Len(s))
        BY <2>3, <3>1
      <3> QED
        BY <1>1, <3>1, <3>2
    <2>4. m = 0 \/ m \in 1..Len(s)
      BY <1>1
    <2> QED
      BY <1>2, <2>1, <2>2, <2>3, <2>4
  <1> HIDE DEF S
  <1>4. PICK m \in 0..Len(s) : (m = 0 \/ m \in S) /\ \A x \in S : x <= m
    BY <1>1, AfterLastIs
  <1>5. \A n \in 0..Len(s) :
            (n = 0 \/ n \in S) /\ (\A x \in S : x <= n) => AfterLast(s, S) = Rest(s, n)
    BY <1>1, AfterLastIs
  <1> QED
    BY <1>3, <1>4, <1>5 DEF LastLine, S

\* A last line is made of what its text is made of.
LEMMA LastLineType ==
    ASSUME NEW C, NEW s \in Seq(C)
    PROVE  LastLine(s) \in Seq(C) /\ Len(LastLine(s)) \in Nat /\ Len(LastLine(s)) <= Len(s)
  <1>1. PICK m \in 0..Len(s) : LastLine(s) = Rest(s, m)
    BY LastLineIs
  <1>2. Rest(s, m) \in Seq(C) /\ Len(Rest(s, m)) = Len(s) - m /\ Len(s) \in Nat
    BY RestIs, LenProperties
  <1> QED
    BY <1>1, <1>2

\* The last line of two texts: the second's, if it ends a line; or both.
LEMMA LastLineOfConcat ==
    ASSUME NEW C, NEW s \in Seq(C), NEW t \in Seq(C)
    PROVE  LastLine(s \o t) = IF NewlinesIn(t) = 0 THEN LastLine(s) \o t ELSE LastLine(t)
  <1> DEFINE u == s \o t
             n == Len(s)
  <1>1. /\ u \in Seq(C) /\ Len(u) = n + Len(t)
        /\ \A i \in 1..(n + Len(t)) : u[i] = IF i <= n THEN s[i] ELSE t[i - n]
    BY ConcatProperties
  <1>2. n \in Nat /\ Len(t) \in Nat /\ DOMAIN t = 1..Len(t)
    BY LenProperties
  <1>3. (NewlinesIn(t) = 0) = (\A i \in 1..Len(t) : t[i] # "newline")
    <2>1. NewlinesIn(t) = 0 <=> Newlines(t) = {}
      BY NewlinesAre
    <2> QED
      BY <1>2, <2>1 DEF Newlines
  <1> HIDE DEF u, n
  <1>4. /\ \A i \in 1..n : i \in 1..Len(u) /\ u[i] = s[i]
        /\ \A i \in 1..Len(t) : n + i \in 1..Len(u) /\ u[n + i] = t[i]
    <2>1. ASSUME NEW i \in 1..n PROVE i \in 1..Len(u) /\ u[i] = s[i]
      BY <1>1, <1>2
    <2>2. ASSUME NEW i \in 1..Len(t) PROVE n + i \in 1..Len(u) /\ u[n + i] = t[i]
      <3>1. n + i \in 1..(n + Len(t)) /\ ~(n + i <= n) /\ (n + i) - n = i
        BY <1>2
      <3> QED
        BY <1>1, <3>1
    <2> QED
      BY <2>1, <2>2
  <1>5. CASE NewlinesIn(t) = 0
    <2>1. PICK m \in 0..Len(s) : /\ m = 0 \/ (m \in 1..Len(s) /\ s[m] = "newline")
                                 /\ \A i \in (m + 1)..Len(s) : s[i] # "newline"
      BY LastLineIs
    <2>2. LastLine(s) = Rest(s, m)
      BY <2>1, LastLineIs
    <2>3. m \in 0..n /\ m \in 0..Len(u)
      BY <1>1, <1>2, <2>1 DEF n
    <2>4. m = 0 \/ (m \in 1..Len(u) /\ u[m] = "newline")
      BY <1>4, <2>1 DEF n
    <2>5. ASSUME NEW i \in (m + 1)..Len(u) PROVE u[i] # "newline"
      <3>1. CASE i <= n
        <4>1. i \in 1..n /\ i \in (m + 1)..n
          BY <1>1, <1>2, <2>3, <3>1
        <4> QED
          BY <1>4, <2>1, <4>1 DEF n
      <3>2. CASE ~(i <= n)
        <4>1. i - n \in 1..Len(t) /\ n + (i - n) = i
          BY <1>1, <1>2, <2>3, <3>2
        <4> QED
          BY <1>3, <1>4, <1>5, <4>1
      <3> QED
        BY <3>1, <3>2
    <2>6. LastLine(u) = Rest(u, m)
      BY <1>1, <2>3, <2>4, <2>5, LastLineIs
    <2>7. Rest(u, m) = Rest(s, m) \o t
      BY <2>1, RestOfConcat DEF u
    <2> QED
      BY <1>5, <2>2, <2>6, <2>7 DEF u
  <1>6. CASE NewlinesIn(t) # 0
    <2>1. PICK m \in 0..Len(t) : /\ m = 0 \/ (m \in 1..Len(t) /\ t[m] = "newline")
                                 /\ \A i \in (m + 1)..Len(t) : t[i] # "newline"
      BY LastLineIs
    <2>2. LastLine(t) = Rest(t, m)
      BY <2>1, LastLineIs
    <2>3. m # 0
      <3> SUFFICES ASSUME m = 0 PROVE FALSE
        OBVIOUS
      <3>1. (m + 1)..Len(t) = 1..Len(t)
        BY <1>2
      <3>2. \A i \in 1..Len(t) : t[i] # "newline"
        BY <2>1, <3>1
      <3> QED
        BY <1>3, <1>6, <3>2
    <2>4. n + m \in 0..Len(u) /\ n + m \in 1..Len(u)
      BY <1>1, <1>2, <2>3
    <2>5. u[n + m] = "newline"
      BY <1>4, <2>1, <2>3
    <2>6. ASSUME NEW i \in (n + m + 1)..Len(u) PROVE u[i] # "newline"
      <3>1. i - n \in 1..Len(t) /\ n + (i - n) = i /\ i - n \in (m + 1)..Len(t)
        BY <1>1, <1>2
      <3> QED
        BY <1>4, <2>1, <3>1
    <2>7. LastLine(u) = Rest(u, n + m)
      BY <1>1, <2>4, <2>5, <2>6, LastLineIs
    <2>8. Rest(u, n + m) = Rest(t, m)
      BY <2>1, RestOfConcat DEF u, n
    <2> QED
      BY <1>6, <2>2, <2>7, <2>8 DEF u
  <1> QED
    BY <1>5, <1>6

(***************************************************************************)
(* The two encodings. A line end is itself in both, and no other character *)
(* holds one.                                                              *)
(***************************************************************************)

Code == Char \cup {"a1", "a2", "c1", "c2", "c3", "c4", "high", "low"}

IsEncoding(code) ==
    /\ code \in [Char -> Seq(Code)]
    /\ \A ch \in Char :
          /\ Len(code[ch]) \in Nat \ {0}
          /\ NewlinesIn(code[ch]) = IF ch = "newline" THEN 1 ELSE 0
          /\ ch = "newline" => LastLine(code[ch]) = <<>>

Offset(text, n, code) == Len(Encode(Pre(text, n), code))

\* What has no line end has no lines.
LEMMA NoNewlines ==
    ASSUME NEW C, NEW s \in Seq(C), \A i \in 1..Len(s) : s[i] # "newline"
    PROVE  NewlinesIn(s) = 0
  <1>1. Newlines(s) = {}
    BY LenProperties DEF Newlines
  <1> QED
    BY <1>1, NewlinesAre

\* A line end is one, and the line behind it is empty.
LEMMA OneNewline == NewlinesIn(<<"newline">>) = 1 /\ LastLine(<<"newline">>) = <<>>
  <1> DEFINE s == <<"newline">>
  <1>1. s \in Seq({"newline"}) /\ Len(s) = 1 /\ s[1] = "newline" /\ DOMAIN s = {1}
    OBVIOUS
  <1>2. Newlines(s) = {1}
    BY <1>1 DEF Newlines
  <1>3. NewlinesIn(s) = 1
    BY <1>2, FS_Singleton DEF NewlinesIn
  <1>4. LastLine(s) = Rest(s, 1)
    <2> HIDE DEF s
    <2>1. 1 \in 0..Len(s) /\ 1 \in 1..Len(s) /\ s[1] = "newline" /\ (1 + 1)..Len(s) = {}
      BY <1>1
    <2> QED
      BY <1>1, <2>1, LastLineIs
  <1>5. Rest(s, 1) = <<>>
    BY <1>1, SubSeqEmpty DEF Rest
  <1> QED
    BY <1>3, <1>4, <1>5

\* UTF-8 is an encoding.
LEMMA Utf8IsEncoding == IsEncoding(Utf8)
  <1>1. ASSUME NEW ch \in Char
        PROVE  /\ Utf8[ch] \in Seq(Code)
               /\ Len(Utf8[ch]) \in Nat \ {0}
               /\ NewlinesIn(Utf8[ch]) = IF ch = "newline" THEN 1 ELSE 0
               /\ ch = "newline" => LastLine(Utf8[ch]) = <<>>
    <2>1. CASE ch = "accented"
      <3> DEFINE s == <<"a1", "a2">>
      <3>1. Utf8[ch] = s
        BY <2>1 DEF Utf8
      <3>2. s \in Seq(Code) /\ Len(s) = 2 /\ \A i \in 1..2 : s[i] # "newline"
        BY DEF Code
      <3> HIDE DEF s
      <3> QED
        BY <2>1, <3>1, <3>2, NoNewlines
    <2>2. CASE ch = "clef"
      <3> DEFINE s == <<"c1", "c2", "c3", "c4">>
      <3>1. Utf8[ch] = s
        BY <2>2 DEF Utf8
      <3>2. s \in Seq(Code) /\ Len(s) = 4 /\ \A i \in 1..4 : s[i] # "newline"
        BY DEF Code
      <3> HIDE DEF s
      <3> QED
        BY <2>2, <3>1, <3>2, NoNewlines
    <2>3. CASE ch \notin {"accented", "clef"}
      <3>1. Utf8[ch] = <<ch>>
        BY <2>3 DEF Utf8
      <3>2. <<ch>> \in Seq(Code) /\ Len(<<ch>>) = 1 /\ \A i \in 1..1 : <<ch>>[i] = ch
        BY DEF Code
      <3>3. CASE ch = "newline"
        BY <3>1, <3>2, <3>3, OneNewline
      <3>4. CASE ch # "newline"
        <4>1. NewlinesIn(<<ch>>) = 0
          BY <3>2, <3>4, NoNewlines
        <4> QED
          BY <3>1, <3>2, <3>4, <4>1
      <3> QED
        BY <3>3, <3>4
    <2> QED
      BY <2>1, <2>2, <2>3
  <1>2. Utf8 \in [Char -> Seq(Code)]
    <2>1. DOMAIN Utf8 = Char /\ Utf8 = [ch \in Char |-> Utf8[ch]]
      BY DEF Utf8
    <2> QED
      BY <1>1, <2>1
  <1> QED
    BY <1>1, <1>2 DEF IsEncoding

\* So is UTF-16.
LEMMA Utf16IsEncoding == IsEncoding(Utf16)
  <1>1. ASSUME NEW ch \in Char
        PROVE  /\ Utf16[ch] \in Seq(Code)
               /\ Len(Utf16[ch]) \in Nat \ {0}
               /\ NewlinesIn(Utf16[ch]) = IF ch = "newline" THEN 1 ELSE 0
               /\ ch = "newline" => LastLine(Utf16[ch]) = <<>>
    <2>1. CASE ch = "clef"
      <3> DEFINE s == <<"high", "low">>
      <3>1. Utf16[ch] = s
        BY <2>1 DEF Utf16
      <3>2. s \in Seq(Code) /\ Len(s) = 2 /\ \A i \in 1..2 : s[i] # "newline"
        BY DEF Code
      <3> HIDE DEF s
      <3> QED
        BY <2>1, <3>1, <3>2, NoNewlines
    <2>2. CASE ch # "clef"
      <3>1. Utf16[ch] = <<ch>>
        BY <2>2 DEF Utf16
      <3>2. <<ch>> \in Seq(Code) /\ Len(<<ch>>) = 1 /\ \A i \in 1..1 : <<ch>>[i] = ch
        BY DEF Code
      <3>3. CASE ch = "newline"
        BY <3>1, <3>2, <3>3, OneNewline
      <3>4. CASE ch # "newline"
        <4>1. NewlinesIn(<<ch>>) = 0
          BY <3>2, <3>4, NoNewlines
        <4> QED
          BY <3>1, <3>2, <3>4, <4>1
      <3> QED
        BY <3>3, <3>4
    <2> QED
      BY <2>1, <2>2
  <1>2. Utf16 \in [Char -> Seq(Code)]
    <2>1. DOMAIN Utf16 = Char /\ Utf16 = [ch \in Char |-> Utf16[ch]]
      BY DEF Utf16
    <2> QED
      BY <1>1, <2>1
  <1> QED
    BY <1>1, <1>2 DEF IsEncoding

\* Character by character.
LEMMA EncodeAppend ==
    ASSUME NEW code, IsEncoding(code), NEW text \in Seq(Char), NEW ch \in Char
    PROVE  /\ Encode(<<>>, code) = <<>>
           /\ Encode(text, code) \in Seq(Code)
           /\ Encode(Append(text, ch), code) = Encode(text, code) \o code[ch]
  <1> DEFINE Codes(s) == [i \in DOMAIN s |-> code[s[i]]]
             longer == Append(text, ch)
  <1>1. code \in [Char -> Seq(Code)]
    BY DEF IsEncoding
  <1>2. /\ Len(text) \in Nat /\ DOMAIN text = 1..Len(text)
        /\ \A i \in 1..Len(text) : text[i] \in Char
    BY LenProperties, ElementOfSeq
  <1>3. /\ longer \in Seq(Char) /\ Len(longer) = Len(text) + 1
        /\ \A i \in 1..Len(text) : longer[i] = text[i]
        /\ longer[Len(text) + 1] = ch
        /\ DOMAIN longer = 1..(Len(text) + 1)
    BY AppendProperties, LenProperties
  <1> HIDE DEF longer
  <1>4. Codes(text) \in Seq(Seq(Code)) /\ Len(Codes(text)) = Len(text)
        /\ \A i \in 1..Len(text) : Codes(text)[i] = code[text[i]]
    BY <1>1, <1>2
  <1>5. Codes(longer) = Append(Codes(text), code[ch])
    <2>1. \A i \in 1..(Len(text) + 1) : longer[i] \in Char
      BY <1>3, ElementOfSeq
    <2>2. Codes(longer) \in Seq(Seq(Code)) /\ Len(Codes(longer)) = Len(text) + 1
          /\ \A i \in 1..(Len(text) + 1) : Codes(longer)[i] = code[longer[i]]
      BY <1>1, <1>2, <1>3, <2>1
    <2> DEFINE a == Append(Codes(text), code[ch])
               b == Codes(longer)
               c == Codes(text)
    <2>3. code[ch] \in Seq(Code)
      BY <1>1
    <2>4. c \in Seq(Seq(Code)) /\ Len(c) = Len(text) /\ \A i \in 1..Len(text) : c[i] = code[text[i]]
      BY <1>4
    <2> HIDE DEF c
    <2>5. /\ a \in Seq(Seq(Code)) /\ Len(a) = Len(text) + 1
          /\ \A i \in 1..Len(text) : a[i] = code[text[i]]
          /\ a[Len(text) + 1] = code[ch]
      <3>1. /\ a \in Seq(Seq(Code)) /\ Len(a) = Len(c) + 1
            /\ \A i \in 1..Len(c) : a[i] = c[i]
            /\ a[Len(c) + 1] = code[ch]
        BY <2>3, <2>4, AppendProperties
      <3> HIDE DEF a
      <3> QED
        BY <2>4, <3>1
    <2> HIDE DEF a, b, Codes
    <2>6. \A i \in 1..(Len(text) + 1) : b[i] = a[i]
      <3> TAKE i \in 1..(Len(text) + 1)
      <3>1. b[i] = code[longer[i]]
        BY <2>2 DEF b
      <3>2. CASE i = Len(text) + 1
        BY <1>3, <2>5, <3>1, <3>2
      <3>3. CASE i \in 1..Len(text)
        BY <1>3, <2>5, <3>1, <3>3
      <3> QED
        BY <1>2, <3>2, <3>3
    <2>7. b \in Seq(Seq(Code)) /\ Len(b) = Len(text) + 1
      BY <2>2 DEF b
    <2>8. a = b
      BY <2>5, <2>6, <2>7, SeqEqual
    <2> QED
      BY <2>8 DEF a, b, c
  <1>6. code[ch] \in Seq(Code)
    BY <1>1
  <1>7. /\ FlattenSeq(<<>>) = <<>>
        /\ FlattenSeq(Codes(text)) \in Seq(Code)
        /\ FlattenSeq(Append(Codes(text), code[ch])) = FlattenSeq(Codes(text)) \o code[ch]
    <2> HIDE DEF Codes
    <2> QED
      BY <1>4, <1>6, FlattenAppend
  <1>8. [i \in DOMAIN <<>> |-> code[<<>>[i]]] = <<>>
    OBVIOUS
  <1>9. /\ Encode(<<>>, code) = FlattenSeq(<<>>)
        /\ Encode(text, code) = FlattenSeq(Codes(text))
        /\ Encode(longer, code) = FlattenSeq(Codes(longer))
    BY <1>8 DEF Encode
  <1> QED
    BY <1>5, <1>7, <1>9 DEF longer

\* What is encoded is bytes or units.
LEMMA EncodeType ==
    ASSUME NEW code, IsEncoding(code), NEW text \in Seq(Char)
    PROVE  Encode(text, code) \in Seq(Code) /\ Len(Encode(text, code)) \in Nat
  <1>1. "letter" \in Char
    BY DEF Char
  <1> QED
    BY <1>1, EncodeAppend, LenProperties

\* One text behind another.
LEMMA EncodeConcat ==
    ASSUME NEW code, IsEncoding(code), NEW s \in Seq(Char), NEW t \in Seq(Char)
    PROVE  Encode(s \o t, code) = Encode(s, code) \o Encode(t, code)
  <1> DEFINE E(x) == Encode(x, code)
             Holds(n) == n <= Len(t) => E(s \o Pre(t, n)) = E(s) \o E(Pre(t, n))
             T == {n \in Nat : Holds(n)}
  <1>0. Len(t) \in Nat /\ E(s) \in Seq(Code)
    BY LenProperties, EncodeType
  <1>1. Holds(0)
    <2>1. Pre(t, 0) = <<>> /\ s \o <<>> = s
      BY <1>0, PreIs, ConcatEmptySeq
    <2>2. "letter" \in Char
      BY DEF Char
    <2>3. E(<<>>) = <<>>
      BY <2>2, EncodeAppend
    <2>4. E(s) \o <<>> = E(s)
      BY <1>0, ConcatEmptySeq
    <2> HIDE DEF E
    <2>5. E(s \o Pre(t, 0)) = E(s) /\ E(Pre(t, 0)) = <<>>
      BY <2>1, <2>3, Zenon
    <2> QED
      BY <2>4, <2>5, Zenon
  <1>2. ASSUME NEW n \in Nat, Holds(n) PROVE Holds(n + 1)
    <2> SUFFICES ASSUME n + 1 <= Len(t)
                 PROVE  E(s \o Pre(t, n + 1)) = E(s) \o E(Pre(t, n + 1))
      OBVIOUS
    <2> DEFINE p == Pre(t, n)
               c == t[n + 1]
    <2>1. Pre(t, n + 1) = Append(p, c) /\ p \in Seq(Char) /\ c \in Char
      BY PreStep
    <2>2. E(s \o p) = E(s) \o E(p)
      BY <1>0, <1>2
    <2> HIDE DEF p, c
    <2>3. s \o Append(p, c) = Append(s \o p, c) /\ s \o p \in Seq(Char)
      BY <2>1, ConcatAppend, ConcatProperties
    <2>4. E(Append(s \o p, c)) = E(s \o p) \o code[c] /\ E(Append(p, c)) = E(p) \o code[c]
      BY <2>1, <2>3, EncodeAppend
    <2>5. E(p) \in Seq(Code) /\ code[c] \in Seq(Code)
      BY <2>1, EncodeType DEF IsEncoding
    <2> HIDE DEF E
    <2>6. (E(s) \o E(p)) \o code[c] = E(s) \o (E(p) \o code[c])
      <3> DEFINE x == E(s)
                 y == E(p)
                 z == code[c]
      <3>1. x \in Seq(Code) /\ y \in Seq(Code) /\ z \in Seq(Code)
        BY <1>0, <2>5
      <3> HIDE DEF x, y, z
      <3>2. (x \o y) \o z = x \o (y \o z)
        BY <3>1, ConcatAssociative, SMTT(20)
      <3> QED
        BY <3>2 DEF x, y, z
    <2>7. E(Append(s \o p, c)) = E(s) \o E(Append(p, c))
      BY <2>2, <2>4, <2>6, Zenon
    <2> QED
      BY <2>1, <2>3, <2>7, Zenon
  <1> HIDE DEF Holds
  <1>3. 0 \in T /\ \A n \in Nat : n \in T => n + 1 \in T
    BY <1>1, <1>2
  <1> HIDE DEF T
  <1>4. Nat \subseteq T
    BY <1>3, SetInduction
  <1>5. Holds(Len(t))
    BY <1>0, <1>4 DEF T
  <1>6. Pre(t, Len(t)) = t
    BY <1>0, PreIs
  <1> QED
    BY <1>0, <1>5, <1>6 DEF Holds

\* Each character takes room.
LEMMA OffsetStep ==
    ASSUME NEW code, IsEncoding(code), NEW text \in Seq(Char),
           NEW n \in Nat, n + 1 <= Len(text)
    PROVE  /\ Offset(text, n, code) \in Nat
           /\ Len(code[text[n + 1]]) \in Nat \ {0}
           /\ Offset(text, n + 1, code) = Offset(text, n, code) + Len(code[text[n + 1]])
  <1> DEFINE p == Pre(text, n)
             c == text[n + 1]
  <1>1. Pre(text, n + 1) = Append(p, c) /\ p \in Seq(Char) /\ c \in Char
    BY PreStep
  <1> HIDE DEF p, c
  <1>2. /\ Encode(p, code) \in Seq(Code)
        /\ Encode(Append(p, c), code) = Encode(p, code) \o code[c]
    BY <1>1, EncodeAppend
  <1>3. code[c] \in Seq(Code) /\ Len(code[c]) \in Nat \ {0}
    BY <1>1 DEF IsEncoding
  <1>4. Len(Encode(p, code) \o code[c]) = Len(Encode(p, code)) + Len(code[c])
    BY <1>2, <1>3, ConcatProperties
  <1>5. Len(Encode(p, code)) \in Nat
    BY <1>2, LenProperties
  <1>6. Offset(text, n + 1, code) = Len(Encode(p, code)) + Len(code[c])
    BY <1>1, <1>2, <1>4, Zenon DEF Offset
  <1>7. Offset(text, n, code) = Len(Encode(p, code))
    BY DEF Offset, p
  <1> QED
    BY <1>3, <1>5, <1>6, <1>7 DEF c

\* An offset is a number.
LEMMA OffsetType ==
    ASSUME NEW code, IsEncoding(code), NEW text \in Seq(Char), NEW n \in 0..Len(text)
    PROVE  /\ Offset(text, n, code) \in Nat
           /\ Offset(text, 0, code) = 0
           /\ Offset(text, Len(text), code) = Len(Encode(text, code))
  <1>1. Pre(text, n) \in Seq(Char) /\ Pre(text, 0) = <<>> /\ Pre(text, Len(text)) = text
    BY PreIs
  <1>2. Offset(text, n, code) \in Nat
    BY <1>1, EncodeType DEF Offset
  <1>3. "letter" \in Char
    BY DEF Char
  <1>4. Encode(<<>>, code) = <<>>
    BY <1>3, EncodeAppend
  <1>5. Len(<<>>) = 0
    OBVIOUS
  <1>6. Offset(text, 0, code) = 0
    BY <1>1, <1>4, <1>5, Zenon DEF Offset
  <1> QED
    BY <1>1, <1>2, <1>6, Zenon DEF Offset

\* Places keep their order when they are counted in bytes or units.
LEMMA OffsetsGrow ==
    ASSUME NEW code, IsEncoding(code), NEW text \in Seq(Char),
           NEW m \in 0..Len(text), NEW n \in 0..Len(text)
    PROVE  /\ m < n => Offset(text, m, code) < Offset(text, n, code)
           /\ m = n <=> Offset(text, m, code) = Offset(text, n, code)
           /\ m <= n <=> Offset(text, m, code) <= Offset(text, n, code)
  <1> DEFINE O(i) == Offset(text, i, code)
             Holds(d) == \A i \in 0..Len(text) : i + d + 1 <= Len(text) => O(i) < O(i + d + 1)
             T == {d \in Nat : Holds(d)}
  <1>0. Len(text) \in Nat /\ \A i \in 0..Len(text) : O(i) \in Nat
    BY LenProperties, OffsetType
  <1>1. \A i \in Nat : i + 1 <= Len(text) => O(i) < O(i + 1)
    <2> TAKE i \in Nat
    <2> HAVE i + 1 <= Len(text)
    <2>1. O(i) \in Nat /\ Len(code[text[i + 1]]) \in Nat \ {0}
          /\ O(i + 1) = O(i) + Len(code[text[i + 1]])
      BY OffsetStep
    <2> QED
      BY <2>1
  <1> HIDE DEF O
  <1>2. Holds(0)
    BY <1>0, <1>1
  <1>3. ASSUME NEW d \in Nat, Holds(d) PROVE Holds(d + 1)
    <2> SUFFICES ASSUME NEW i \in 0..Len(text), i + (d + 1) + 1 <= Len(text)
                 PROVE  O(i) < O(i + (d + 1) + 1)
      OBVIOUS
    <2>1. i + d + 1 <= Len(text) /\ i + d + 1 \in 0..Len(text) /\ i + (d + 1) + 1 = (i + d + 1) + 1
          /\ (i + d + 1) + 1 \in 0..Len(text)
      BY <1>0
    <2>2. O(i) < O(i + d + 1)
      BY <1>3, <2>1
    <2>3. O(i + d + 1) < O((i + d + 1) + 1)
      BY <1>1, <2>1
    <2>4. O(i) \in Nat /\ O(i + d + 1) \in Nat /\ O((i + d + 1) + 1) \in Nat
      BY <1>0, <2>1
    <2> QED
      BY <2>1, <2>2, <2>3, <2>4
  <1> HIDE DEF Holds
  <1>4. 0 \in T /\ \A d \in Nat : d \in T => d + 1 \in T
    BY <1>2, <1>3
  <1> HIDE DEF T
  <1>5. Nat \subseteq T
    BY <1>4, SetInduction
  <1>6. \A i, j \in 0..Len(text) : i < j => O(i) < O(j)
    <2> TAKE i, j \in 0..Len(text)
    <2> HAVE i < j
    <2>1. j - i - 1 \in Nat /\ i + (j - i - 1) + 1 = j
      BY <1>0
    <2>2. Holds(j - i - 1)
      BY <1>5, <2>1 DEF T
    <2> QED
      BY <1>0, <2>1, <2>2 DEF Holds
  <1>7. /\ m < n => O(m) < O(n)
        /\ n < m => O(n) < O(m)
        /\ O(m) \in Nat /\ O(n) \in Nat
    BY <1>0, <1>6
  <1> QED
    BY <1>0, <1>7 DEF O

\* What is encoded up to a place is the encoding of what is before the place, and
\* the same behind it.
LEMMA EncodeParts ==
    ASSUME NEW code, IsEncoding(code), NEW text \in Seq(Char), NEW n \in 0..Len(text)
    PROVE  /\ Offset(text, n, code) \in 0..Len(Encode(text, code))
           /\ Pre(Encode(text, code), Offset(text, n, code)) = Encode(Pre(text, n), code)
           /\ Rest(Encode(text, code), Offset(text, n, code)) = Encode(Rest(text, n), code)
  <1> DEFINE p == Pre(text, n)
             r == Rest(text, n)
             x == Encode(p, code)
             y == Encode(r, code)
  <1>1. p \in Seq(Char) /\ r \in Seq(Char) /\ text = p \o r
    BY PreIs, RestIs
  <1>2. x \in Seq(Code) /\ y \in Seq(Code) /\ Len(x) \in Nat /\ Len(y) \in Nat
    BY <1>1, EncodeType
  <1>3. Encode(text, code) = x \o y
    <2> HIDE DEF p, r
    <2>1. Encode(p \o r, code) = x \o y
      BY <1>1, EncodeConcat
    <2> QED
      BY <1>1, <2>1, Zenon
  <1>4. Offset(text, n, code) = Len(x)
    BY DEF Offset
  <1> HIDE DEF x, y
  <1>5. Pre(x \o y, Len(x)) = x /\ Rest(x \o y, Len(x)) = y
    BY <1>2, PartsOfConcat
  <1>6. Len(x \o y) = Len(x) + Len(y)
    BY <1>2, ConcatProperties
  <1>7. Len(x) \in 0..(Len(x) + Len(y))
    BY <1>2
  <1> QED
    BY <1>3, <1>4, <1>5, <1>6, <1>7, Zenon DEF x, y

\* Line ends are the same, and so are lines.
LEMMA EncodeLines ==
    ASSUME NEW code, IsEncoding(code), NEW text \in Seq(Char)
    PROVE  /\ NewlinesIn(Encode(text, code)) = NewlinesIn(text)
           /\ LastLine(Encode(text, code)) = Encode(LastLine(text), code)
           /\ LastLine(text) \in Seq(Char)
  <1> DEFINE E(x) == Encode(x, code)
             Same(s) == NewlinesIn(E(s)) = NewlinesIn(s) /\ LastLine(E(s)) = E(LastLine(s))
             Holds(n) == n <= Len(text) => Same(Pre(text, n))
             T == {n \in Nat : Holds(n)}
  <1>0. Len(text) \in Nat
    BY LenProperties
  <1>1. Holds(0)
    <2>1. Pre(text, 0) = <<>> /\ "letter" \in Char
      BY <1>0, PreIs DEF Char
    <2>2. E(<<>>) = <<>>
      BY <2>1, EncodeAppend
    <2>3. LastLine(<<>>) = <<>>
      <3>1. <<>> \in Seq(Char) /\ Len(<<>>) = 0
        BY EmptySeq
      <3>2. LastLine(<<>>) \in Seq(Char) /\ Len(LastLine(<<>>)) \in Nat /\ Len(LastLine(<<>>)) <= 0
        BY <3>1, LastLineType
      <3> QED
        BY <3>2, EmptySeq
    <2> HIDE DEF E
    <2>4. Same(<<>>)
      BY <2>2, <2>3, Zenon
    <2> HIDE DEF Same
    <2> QED
      BY <2>1, <2>4, Zenon
  <1>2. ASSUME NEW n \in Nat, Holds(n) PROVE Holds(n + 1)
    <2> SUFFICES ASSUME n + 1 <= Len(text) PROVE Same(Pre(text, n + 1))
      OBVIOUS
    <2> DEFINE p == Pre(text, n)
               c == text[n + 1]
               one == <<c>>
    <2>1. Pre(text, n + 1) = Append(p, c) /\ p \in Seq(Char) /\ c \in Char
      BY PreStep
    <2>2. Same(p)
      BY <1>0, <1>2
    <2> HIDE DEF p, c
    <2>3. /\ code[c] \in Seq(Code)
          /\ NewlinesIn(code[c]) = IF c = "newline" THEN 1 ELSE 0
          /\ c = "newline" => LastLine(code[c]) = <<>>
      BY <2>1 DEF IsEncoding
    <2>4. E(Append(p, c)) = E(p) \o code[c] /\ E(p) \in Seq(Code)
      BY <2>1, EncodeAppend
    <2>5. one \in Seq(Char) /\ Append(p, c) = p \o one
      BY <2>1, AppendIsConcat
    <2>6. NewlinesIn(one) = IF c = "newline" THEN 1 ELSE 0
      <3>1. CASE c = "newline"
        BY <3>1, OneNewline
      <3>2. CASE c # "newline"
        <4>1. Len(one) = 1 /\ \A i \in 1..1 : one[i] # "newline"
          BY <3>2
        <4> HIDE DEF one
        <4> QED
          BY <2>5, <3>2, <4>1, NoNewlines
      <3> QED
        BY <3>1, <3>2
    <2>7. c = "newline" => LastLine(one) = <<>>
      BY OneNewline
    <2> HIDE DEF one, E
    <2>8. NewlinesIn(E(p) \o code[c]) = NewlinesIn(E(p)) + NewlinesIn(code[c])
      BY <2>3, <2>4, NewlinesOfConcat
    <2>9. NewlinesIn(p \o one) = NewlinesIn(p) + NewlinesIn(one)
      BY <2>1, <2>5, NewlinesOfConcat
    <2>10. LastLine(E(p) \o code[c]) =
               IF NewlinesIn(code[c]) = 0 THEN LastLine(E(p)) \o code[c] ELSE LastLine(code[c])
      BY <2>3, <2>4, LastLineOfConcat
    <2>11. LastLine(p \o one) = IF NewlinesIn(one) = 0 THEN LastLine(p) \o one ELSE LastLine(one)
      BY <2>1, <2>5, LastLineOfConcat
    <2>12. LastLine(p) \in Seq(Char)
      BY <2>1, LastLineType
    <2>13. CASE c = "newline"
      <3>1. LastLine(E(p) \o code[c]) = <<>> /\ LastLine(p \o one) = <<>>
        BY <2>3, <2>6, <2>7, <2>10, <2>11, <2>13
      <3>2. E(<<>>) = <<>>
        BY <2>1, EncodeAppend DEF E
      <3>3. NewlinesIn(E(p) \o code[c]) = NewlinesIn(p \o one)
        BY <2>2, <2>3, <2>6, <2>8, <2>9, <2>13
      <3>4. Same(Append(p, c))
        BY <2>4, <2>5, <3>1, <3>2, <3>3, Zenon
      <3> HIDE DEF Same
      <3> QED
        BY <2>1, <3>4, Zenon
    <2>14. CASE c # "newline"
      <3>1. NewlinesIn(E(p) \o code[c]) = NewlinesIn(p \o one)
        BY <2>2, <2>3, <2>6, <2>8, <2>9, <2>14
      <3>2. LastLine(E(p) \o code[c]) = LastLine(E(p)) \o code[c]
        BY <2>3, <2>10, <2>14
      <3>3. LastLine(p \o one) = LastLine(p) \o one
        BY <2>6, <2>11, <2>14
      <3>4. Append(LastLine(p), c) = LastLine(p) \o one
        BY <2>1, <2>12, AppendIsConcat DEF one
      <3>5. E(Append(LastLine(p), c)) = E(LastLine(p)) \o code[c]
        BY <2>1, <2>12, EncodeAppend DEF E
      <3>6. Same(Append(p, c))
        BY <2>2, <2>4, <2>5, <3>1, <3>2, <3>3, <3>4, <3>5, Zenon
      <3> HIDE DEF Same
      <3> QED
        BY <2>1, <3>6, Zenon
    <2> QED
      BY <2>13, <2>14
  <1> HIDE DEF Holds
  <1>3. 0 \in T /\ \A n \in Nat : n \in T => n + 1 \in T
    BY <1>1, <1>2
  <1> HIDE DEF T
  <1>4. Nat \subseteq T
    BY <1>3, SetInduction
  <1>5. Holds(Len(text))
    BY <1>0, <1>4 DEF T
  <1>6. Pre(text, Len(text)) = text
    BY <1>0, PreIs
  <1>7. Same(text)
    <2> HIDE DEF Same
    <2>1. Same(Pre(text, Len(text)))
      BY <1>0, <1>5 DEF Holds
    <2> QED
      BY <1>6, <2>1, Zenon
  <1> QED
    BY <1>7, LastLineType

(***************************************************************************)
(* Places: row and column, in bytes or units.                              *)
(***************************************************************************)

Row(text, n) == NewlinesIn(Pre(text, n))
Column(text, n, code) == Len(Encode(LastLine(Pre(text, n)), code))

\* So are a row and a column.
LEMMA RowAndColumnType ==
    ASSUME NEW code, IsEncoding(code), NEW text \in Seq(Char), NEW n \in 0..Len(text)
    PROVE  Row(text, n) \in Nat /\ Column(text, n, code) \in Nat
  <1>1. Pre(text, n) \in Seq(Char)
    BY PreIs
  <1>2. LastLine(Pre(text, n)) \in Seq(Char)
    BY <1>1, LastLineType
  <1> QED
    BY <1>1, <1>2, NewlinesAre, EncodeType DEF Row, Column

\* Further on in a line the column is greater.
LEMMA ColumnsGrow ==
    ASSUME NEW code, IsEncoding(code), NEW text \in Seq(Char),
           NEW n \in 0..Len(text), NEW m \in 0..n, m < n, Row(text, m) = Row(text, n)
    PROVE  Column(text, m, code) < Column(text, n, code)
  <1> DEFINE b == SubSeq(text, m + 1, n)
             p == Pre(text, m)
             L == LastLine(p)
  <1>1. Len(text) \in Nat /\ m \in 0..Len(text) /\ n \in m..Len(text)
    BY LenProperties
  <1>2. b \in Seq(Char) /\ Len(b) = n - m /\ Pre(text, n) = p \o b
    BY <1>1, MiddleIs
  <1>3. p \in Seq(Char)
    BY <1>1, PreIs
  <1> HIDE DEF b, p
  <1>4. NewlinesIn(p \o b) = NewlinesIn(p) + NewlinesIn(b)
    BY <1>2, <1>3, NewlinesOfConcat
  <1>5. NewlinesIn(p) \in Nat /\ NewlinesIn(b) \in Nat
    BY <1>2, <1>3, NewlinesAre
  <1>6. NewlinesIn(p \o b) = NewlinesIn(p)
    BY <1>2, Zenon DEF Row, p
  <1>7. NewlinesIn(b) = 0
    BY <1>4, <1>5, <1>6
  <1>8. LastLine(p \o b) = L \o b
    BY <1>2, <1>3, <1>7, LastLineOfConcat
  <1>9. L \in Seq(Char)
    BY <1>3, LastLineType
  <1> HIDE DEF L
  <1>10. Encode(L \o b, code) = Encode(L, code) \o Encode(b, code)
    BY <1>2, <1>9, EncodeConcat
  <1>11. /\ Encode(L, code) \in Seq(Code) /\ Len(Encode(L, code)) \in Nat
         /\ Encode(b, code) \in Seq(Code) /\ Len(Encode(b, code)) \in Nat
    BY <1>2, <1>9, EncodeType
  <1>12. Len(Encode(L, code) \o Encode(b, code)) = Len(Encode(L, code)) + Len(Encode(b, code))
    BY <1>11, ConcatProperties
  <1>13. Len(Encode(b, code)) > 0
    <2>1. Len(b) \in Nat /\ 0 \in 0..Len(b) /\ Len(b) \in 0..Len(b) /\ 0 < Len(b)
      BY <1>1, <1>2
    <2>2. Offset(b, 0, code) < Offset(b, Len(b), code)
      BY <1>2, <2>1, OffsetsGrow
    <2>3. Offset(b, 0, code) = 0 /\ Offset(b, Len(b), code) = Len(Encode(b, code))
      BY <1>2, <2>1, OffsetType
    <2> QED
      BY <2>2, <2>3, <1>11
  <1>14. Column(text, n, code) = Len(Encode(L, code)) + Len(Encode(b, code))
    BY <1>2, <1>8, <1>10, <1>12, Zenon DEF Column
  <1>15. Column(text, m, code) = Len(Encode(L, code))
    BY DEF Column, L, p
  <1> QED
    BY <1>11, <1>13, <1>14, <1>15

\* A scan of the text that stops at none of its first n characters, but at the
\* next one or at the end.
LEMMA ScanStops ==
    ASSUME NEW text \in Seq(Char), NEW n \in 0..Len(text), NEW places \in SUBSET (1..Len(text)),
           \A i \in 1..n : i \notin places, n = Len(text) \/ n + 1 \in places
    PROVE  UptoFirst(text, places) = Pre(text, n)
  <1>0. Len(text) \in Nat /\ n \in Nat
    BY LenProperties
  <1>1. CASE places = {}
    <2>1. n = Len(text)
      BY <1>1
    <2>2. Pre(text, n) = text
      BY <2>1, PreIs
    <2> QED
      BY <1>1, <2>2 DEF UptoFirst
  <1>2. CASE places # {}
    <2>1. places \in SUBSET Nat
      BY <1>0
    <2>2. Min(places) \in places /\ \A y \in places : Min(places) <= y
      BY <1>2, <2>1, MinIsElement
    <2>3. Min(places) \in 1..Len(text) /\ ~(Min(places) \in 1..n)
      BY <2>2
    <2>4. n + 1 \in places
      BY <1>0, <2>3
    <2>5. Min(places) <= n + 1
      BY <2>2, <2>4
    <2>6. Min(places) = n + 1
      BY <1>0, <2>3, <2>5
    <2>7. (n + 1) - 1 = n
      BY <1>0
    <2> QED
      BY <1>2, <2>6, <2>7, Zenon DEF UptoFirst, Upto, Pre
  <1> QED
    BY <1>1, <1>2

\* The place one character further, and the characters up to a place.
LEMMA NextPlace ==
    ASSUME NEW N \in Nat, NEW n \in 0..N
    PROVE  /\ n # N => n + 1 \in 1..N /\ (n + 1) - 1 = n /\ n + 1 > n /\ n + 1 \in 0..N
           /\ \A i \in 1..n : i \in 1..N /\ ~(i > n) /\ i - 1 \in 0..N
  OBVIOUS

\* The characters before the one at i.
LEMMA UptoIs ==
    ASSUME NEW text \in Seq(Char), NEW i \in 1..Len(text)
    PROVE  i - 1 \in 0..Len(text) /\ Upto(text, i) = Pre(text, i - 1)
  BY LenProperties DEF Upto, Pre

(***************************************************************************)
(* Positions mean places.                                                  *)
(***************************************************************************)

\* The positions that mean the place behind the first n characters: those of its
\* line and column, at a line's end those behind, at the text's those below.
Means(p, text, n) ==
    /\ p.line \in Nat /\ p.character \in Nat
    /\ \/ /\ p.line = Row(text, n)
          /\ p.character >= Column(text, n, Utf16)
          /\ \/ p.character = Column(text, n, Utf16)
             \/ n = Len(text)
             \/ text[n + 1] = "newline"
       \/ n = Len(text) /\ p.line > Row(text, n)

\* The scan for a position that means a place ends there.
LEMMA StopsAtPlace ==
    ASSUME NEW text \in Seq(Char), NEW n \in 0..Len(text), NEW p, Means(p, text, n)
    PROVE  UptoFirst(text, {i \in DOMAIN text : Stops(text, p, i)}) = Pre(text, n)
  <1> DEFINE places == {i \in DOMAIN text : Stops(text, p, i)}
  <1>0. Len(text) \in Nat /\ DOMAIN text = 1..Len(text) /\ n \in Nat
    BY LenProperties
  <1>1. places \in SUBSET (1..Len(text))
    BY <1>0
  <1>2. ASSUME NEW i \in 1..Len(text)
        PROVE  Stops(text, p, i) <=> /\ Row(text, i - 1) = p.line
                                     /\ \/ Column(text, i - 1, Utf16) >= p.character
                                        \/ text[i] = "newline"
    BY UptoIs DEF Stops, Units, Row, Column
  <1>3. ASSUME NEW i \in 1..n, Stops(text, p, i) PROVE FALSE
    <2>1. i \in 1..Len(text) /\ i - 1 \in 0..n /\ i - 1 < n /\ i \in (i - 1 + 1)..n
      BY <1>0
    <2>2. /\ Row(text, i - 1) = p.line
          /\ Column(text, i - 1, Utf16) >= p.character \/ text[i] = "newline"
      BY <1>2, <1>3, <2>1
    <2>3. i - 1 \in 0..Len(text)
      BY <1>0, <2>1
    <2>4. Row(text, i - 1) <= Row(text, n) /\ Row(text, n) \in Nat
          /\ (Row(text, i - 1) = Row(text, n) => text[i] # "newline")
      BY <2>1, NewlinesGrow, RowAndColumnType, Utf16IsEncoding DEF Row
    <2>5. Row(text, i - 1) = Row(text, n) /\ p.character >= Column(text, n, Utf16)
      BY <2>2, <2>4 DEF Means
    <2>6. Column(text, i - 1, Utf16) < Column(text, n, Utf16)
      BY <2>1, <2>5, ColumnsGrow, Utf16IsEncoding
    <2>7. Column(text, i - 1, Utf16) \in Nat /\ Column(text, n, Utf16) \in Nat /\ p.character \in Nat
      BY <2>3, RowAndColumnType, Utf16IsEncoding DEF Means
    <2> QED
      BY <2>2, <2>4, <2>5, <2>6, <2>7
  <1>4. ASSUME n # Len(text) PROVE n + 1 \in places
    <2>1. n + 1 \in 1..Len(text) /\ (n + 1) - 1 = n
      BY <1>0, <1>4, NextPlace
    <2>2. /\ p.line = Row(text, n)
          /\ p.character = Column(text, n, Utf16) \/ text[n + 1] = "newline"
      BY <1>4 DEF Means
    <2>3. Column(text, n, Utf16) \in Nat
      BY RowAndColumnType, Utf16IsEncoding
    <2>4. Stops(text, p, n + 1)
      BY <1>2, <2>1, <2>2, <2>3
    <2> QED
      BY <1>0, <2>1, <2>4
  <1>5. \A i \in 1..n : i \notin places
    BY <1>3
  <1> HIDE DEF places
  <1>6. UptoFirst(text, places) = Pre(text, n)
    BY <1>1, <1>4, <1>5, ScanStops
  <1> QED
    BY <1>6 DEF places

\* The server finds the offset and the byte column of that place.
LEMMA ByteOffsetAndColumnIs ==
    ASSUME NEW text \in Seq(Char), NEW n \in 0..Len(text), NEW p, Means(p, text, n)
    PROVE  ByteOffsetAndColumn(text, p)
             = [offset |-> Offset(text, n, Utf8), column |-> Column(text, n, Utf8)]
  BY StopsAtPlace, Zenon DEF ByteOffsetAndColumn, Offset, Column, Bytes

\* The position the server gives of an offset is that of its place.
LEMMA PositionOfByteIs ==
    ASSUME NEW text \in Seq(Char), NEW n \in 0..Len(text)
    PROVE  PositionOfByte(text, Offset(text, n, Utf8))
             = Position(Row(text, n), Column(text, n, Utf16))
  <1> DEFINE places == {i \in DOMAIN text : Len(Bytes(Upto(text, i))) >= Offset(text, n, Utf8)}
  <1>0. Len(text) \in Nat /\ DOMAIN text = 1..Len(text) /\ n \in Nat
    BY LenProperties
  <1>1. ASSUME NEW i \in 1..Len(text) PROVE i \in places <=> i > n
    <2>1. i - 1 \in 0..Len(text) /\ Upto(text, i) = Pre(text, i - 1)
      BY UptoIs
    <2>2. Len(Bytes(Upto(text, i))) = Offset(text, i - 1, Utf8)
      BY <2>1 DEF Bytes, Offset
    <2>3. /\ n <= i - 1 <=> Offset(text, n, Utf8) <= Offset(text, i - 1, Utf8)
          /\ Offset(text, n, Utf8) \in Nat /\ Offset(text, i - 1, Utf8) \in Nat
      BY <2>1, OffsetsGrow, OffsetType, Utf8IsEncoding
    <2> QED
      BY <1>0, <2>2, <2>3
  <1>2. places \in SUBSET (1..Len(text))
    BY <1>0
  <1> HIDE DEF places
  <1>3. (\A i \in 1..n : i \notin places) /\ (n = Len(text) \/ n + 1 \in places)
    <2>1. \A i \in 1..n : i \in 1..Len(text) /\ ~(i > n)
      BY <1>0, NextPlace
    <2>2. n = Len(text) \/ (n + 1 \in 1..Len(text) /\ n + 1 > n)
      BY <1>0, NextPlace
    <2> QED
      BY <1>1, <2>1, <2>2
  <1>4. UptoFirst(text, places) = Pre(text, n)
    BY <1>2, <1>3, ScanStops
  <1> QED
    BY <1>4, Zenon DEF PositionOfByte, Row, Column, Units, places

\* A slice between two places.
LEMMA BetweenIs ==
    ASSUME NEW text \in Seq(Char), NEW m \in 0..Len(text), NEW n \in 0..Len(text)
    PROVE  Between(text, Offset(text, m, Utf8), Offset(text, n, Utf8)) = SubSeq(text, m + 1, n)
  <1> DEFINE starting(limit) == {i \in DOMAIN text : Len(Bytes(Upto(text, i))) < limit}
  <1>0. Len(text) \in Nat /\ DOMAIN text = 1..Len(text)
    BY LenProperties
  <1>1. ASSUME NEW k \in 0..Len(text)
        PROVE  Cardinality(starting(Offset(text, k, Utf8))) = k
    <2>1. ASSUME NEW i \in 1..Len(text)
          PROVE  Len(Bytes(Upto(text, i))) < Offset(text, k, Utf8) <=> i <= k
      <3>1. i - 1 \in 0..Len(text) /\ Upto(text, i) = Pre(text, i - 1)
        BY UptoIs
      <3>2. Len(Bytes(Upto(text, i))) = Offset(text, i - 1, Utf8)
        BY <3>1 DEF Bytes, Offset
      <3>3. /\ k <= i - 1 <=> Offset(text, k, Utf8) <= Offset(text, i - 1, Utf8)
            /\ Offset(text, k, Utf8) \in Nat /\ Offset(text, i - 1, Utf8) \in Nat
        BY <3>1, OffsetsGrow, OffsetType, Utf8IsEncoding
      <3> QED
        BY <1>0, <3>2, <3>3
    <2>2. starting(Offset(text, k, Utf8)) = 1..k
      BY <1>0, <2>1
    <2>3. Cardinality(1..k) = k
      BY <1>0, FS_Interval
    <2> HIDE DEF starting
    <2> QED
      BY <2>2, <2>3, Zenon
  <1> HIDE DEF starting
  <1>2. Between(text, Offset(text, m, Utf8), Offset(text, n, Utf8))
          = SubSeq(text, Cardinality(starting(Offset(text, m, Utf8))) + 1,
                   Cardinality(starting(Offset(text, n, Utf8))))
    BY DEF Between, starting
  <1> QED
    BY <1>1, <1>2, Zenon

(***************************************************************************)
(* The client's places.                                                    *)
(***************************************************************************)

\* What stands in the encoding of a text for one of its characters.
LEMMA CodeAt ==
    ASSUME NEW code, IsEncoding(code), NEW text \in Seq(Char),
           NEW n \in Nat, n + 1 <= Len(text), NEW i \in 1..Len(code[text[n + 1]])
    PROVE  /\ Offset(text, n, code) + i \in 1..Len(Encode(text, code))
           /\ Encode(text, code)[Offset(text, n, code) + i] = code[text[n + 1]][i]
  <1> DEFINE p == Pre(text, n)
             c == text[n + 1]
             x == Encode(p, code)
             y == Encode(text, code)
             k == Offset(text, n, code)
             l == Offset(text, n + 1, code)
  <1>1. Pre(text, n + 1) = Append(p, c) /\ p \in Seq(Char) /\ c \in Char
    BY PreStep
  <1>2. n + 1 \in 0..Len(text)
    BY LenProperties
  <1>3. l = k + Len(code[c]) /\ k \in Nat /\ Len(code[c]) \in Nat
    BY OffsetStep
  <1>4. /\ l \in 0..Len(y)
        /\ Pre(y, l) = Encode(Pre(text, n + 1), code)
    BY <1>2, EncodeParts
  <1>5. x \in Seq(Code) /\ y \in Seq(Code) /\ Len(y) \in Nat /\ code[c] \in Seq(Code) /\ k = Len(x)
    BY <1>1, EncodeType DEF Offset, IsEncoding
  <1> HIDE DEF p, c
  <1>6. Encode(Append(p, c), code) = x \o code[c]
    BY <1>1, EncodeAppend
  <1>7. Pre(y, l) = x \o code[c]
    BY <1>1, <1>4, <1>6, Zenon
  <1> HIDE DEF x, y, k, l
  <1>8. \A j \in 1..l : Pre(y, l)[j] = y[j]
    BY <1>4, <1>5, PreIs
  <1>9. \A j \in 1..(k + Len(code[c])) :
            (x \o code[c])[j] = IF j <= k THEN x[j] ELSE code[c][j - k]
    BY <1>5, ConcatProperties
  <1>10. i \in 1..Len(code[c])
    BY DEF c
  <1>11. k + i \in 1..(k + Len(code[c])) /\ ~(k + i <= k) /\ (k + i) - k = i
    BY <1>3, <1>10
  <1>12. (x \o code[c])[k + i] = code[c][i]
    BY <1>9, <1>11
  <1>13. y[k + i] = code[c][i]
    BY <1>3, <1>7, <1>8, <1>11, <1>12
  <1>14. k + i \in 1..Len(y)
    BY <1>3, <1>4, <1>5, <1>11
  <1> QED
    BY <1>13, <1>14 DEF c, y, k

\* A place between whole characters of the client's text is one of the server's.
LEMMA PlacesAreShared ==
    ASSUME NEW text \in Seq(Char), NEW k \in Places(Units(text))
    PROVE  \E n \in 0..Len(text) : k = Offset(text, n, Utf16)
  <1> DEFINE O(i) == Offset(text, i, Utf16)
             S == {i \in 0..Len(text) : k <= O(i)}
  <1>0. /\ Len(text) \in Nat /\ k \in 0..Len(Units(text)) /\ Whole(Units(text), k)
        /\ Len(Units(text)) \in Nat
        /\ \A i \in 0..Len(text) : O(i) \in Nat
        /\ O(0) = 0 /\ O(Len(text)) = Len(Units(text))
    BY LenProperties, OffsetType, EncodeType, Utf16IsEncoding DEF Places, Units
  <1> HIDE DEF O
  <1>1. S \in SUBSET Nat /\ S # {}
    BY <1>0
  <1>2. PICK n \in S : \A y \in S : n <= y
    BY <1>1, LeastNumber
  <1>3. CASE k = O(n)
    BY <1>2, <1>3 DEF O
  <1>4. CASE k # O(n)
    <2> DEFINE m == n - 1
    <2>1. n # 0 /\ n \in 0..Len(text) /\ k < O(n)
      BY <1>0, <1>2, <1>4
    <2>2. m \in Nat /\ m \in 0..Len(text) /\ m + 1 = n /\ m + 1 <= Len(text) /\ ~(n <= m)
      BY <1>0, <2>1
    <2> HIDE DEF m
    <2>3. O(m) < k
      <3>1. m \notin S
        BY <1>2, <2>2
      <3> QED
        BY <1>0, <2>2, <3>1
    <2> DEFINE c == text[m + 1]
    <2>4. O(m + 1) = O(m) + Len(Utf16[c])
      BY <2>2, OffsetStep, Utf16IsEncoding DEF O
    <2>5. c \in Char
      BY <2>2, PreStep
    <2>6. CASE c = "clef"
      <3>1. Utf16[c] = <<"high", "low">>
        BY <2>5, <2>6 DEF Utf16
      <3>2. Len(Utf16[c]) = 2 /\ Utf16[c][2] = "low"
        BY <3>1
      <3>3. k = O(m) + 1 /\ O(m) + 2 = k + 1
        BY <1>0, <2>1, <2>2, <2>3, <2>4, <3>2
      <3>4. 2 \in 1..Len(Utf16[c])
        BY <3>2
      <3>5. O(m) + 2 \in 1..Len(Units(text)) /\ Units(text)[O(m) + 2] = Utf16[c][2]
        BY <2>2, <3>4, CodeAt, Utf16IsEncoding DEF O, Units
      <3>6. k < Len(Units(text)) /\ Units(text)[k + 1] = "low"
        BY <1>0, <3>2, <3>3, <3>5
      <3> QED
        BY <1>0, <3>6 DEF Whole
    <2>7. CASE c # "clef"
      <3>1. Utf16[c] = <<c>>
        BY <2>5, <2>7 DEF Utf16
      <3>2. Len(Utf16[c]) = 1
        BY <3>1
      <3> QED
        BY <1>0, <2>1, <2>2, <2>3, <2>4, <3>2
    <2> QED
      BY <2>6, <2>7
  <1> QED
    BY <1>3, <1>4

\* The row and column of a place in an encoded text.
LEMMA EncodedPlace ==
    ASSUME NEW code, IsEncoding(code), NEW text \in Seq(Char), NEW n \in 0..Len(text)
    PROVE  /\ NewlinesIn(SubSeq(Encode(text, code), 1, Offset(text, n, code))) = Row(text, n)
           /\ Len(LastLine(SubSeq(Encode(text, code), 1, Offset(text, n, code))))
                = Column(text, n, code)
  <1> DEFINE p == Pre(text, n)
  <1>1. SubSeq(Encode(text, code), 1, Offset(text, n, code)) = Encode(p, code)
    BY EncodeParts DEF Pre
  <1>2. p \in Seq(Char)
    BY PreIs
  <1> HIDE DEF p
  <1>3. /\ NewlinesIn(Encode(p, code)) = NewlinesIn(p)
        /\ LastLine(Encode(p, code)) = Encode(LastLine(p), code)
    BY <1>2, EncodeLines
  <1> QED
    BY <1>1, <1>3, Zenon DEF Row, Column, p

\* A position of the client's is a row and a column in its units.
LEMMA ClientPositionIs ==
    ASSUME NEW text \in Seq(Char), NEW n \in 0..Len(text)
    PROVE  ClientPosition(Units(text), Offset(text, n, Utf16))
             = Position(Row(text, n), Column(text, n, Utf16))
  BY EncodedPlace, Utf16IsEncoding, Zenon DEF ClientPosition, Units

\* Every position a client gives of a place means that place.
LEMMA PositionsMean ==
    ASSUME NEW text \in Seq(Char), NEW n \in 0..Len(text),
           NEW p \in PositionsOf(Units(text), Offset(text, n, Utf16))
    PROVE  Means(p, text, n)
  <1> DEFINE k == Offset(text, n, Utf16)
             own == ClientPosition(Units(text), k)
             r == Row(text, n)
             c == Column(text, n, Utf16)
  <1>0. Len(text) \in Nat /\ r \in Nat /\ c \in Nat /\ k \in Nat
    BY LenProperties, RowAndColumnType, OffsetType, Utf16IsEncoding
  <1>1. own = Position(r, c)
    BY ClientPositionIs
  <1>2. k = Len(Units(text)) => n = Len(text)
    <2>1. /\ Len(text) \in 0..Len(text)
          /\ Offset(text, Len(text), Utf16) = Len(Units(text))
      BY <1>0, OffsetType, Utf16IsEncoding DEF Units
    <2> QED
      BY <2>1, OffsetsGrow, Utf16IsEncoding
  <1>3. ASSUME n # Len(text), Units(text)[k + 1] = "newline" PROVE text[n + 1] = "newline"
    <2>1. n + 1 <= Len(text) /\ n \in Nat
      BY <1>0, <1>3
    <2>2. text[n + 1] \in Char
      BY <2>1, PreStep
    <2>3. Utf16[text[n + 1]] = IF text[n + 1] = "clef" THEN <<"high", "low">> ELSE <<text[n + 1]>>
      BY <2>2 DEF Utf16
    <2>4. 1 \in 1..Len(Utf16[text[n + 1]])
          /\ Utf16[text[n + 1]][1] = IF text[n + 1] = "clef" THEN "high" ELSE text[n + 1]
      BY <2>3
    <2>5. Units(text)[k + 1] = Utf16[text[n + 1]][1]
      BY <2>1, <2>4, CodeAt, Utf16IsEncoding DEF Units
    <2> QED
      BY <1>3, <2>4, <2>5
  <1> HIDE DEF k, own, r, c
  <1>4. \/ p = own
        \/ /\ k = Len(Units(text)) \/ Units(text)[k + 1] = "newline"
           /\ p = [own EXCEPT !.character = @ + 2]
        \/ k = Len(Units(text)) /\ p = Position(own.line + 1, 0)
    BY DEF PositionsOf, own, k
  <1>5. p.line \in Nat /\ p.character \in Nat
    BY <1>0, <1>1, <1>4 DEF Position
  <1>6. CASE p = own
    BY <1>0, <1>1, <1>5, <1>6 DEF Position, Means, r, c
  <1>7. CASE /\ k = Len(Units(text)) \/ Units(text)[k + 1] = "newline"
             /\ p = [own EXCEPT !.character = @ + 2]
    <2>1. p.line = r /\ p.character = c + 2
      BY <1>1, <1>7 DEF Position
    <2>2. n = Len(text) \/ text[n + 1] = "newline"
      BY <1>2, <1>3, <1>7
    <2>3. c + 2 >= c
      BY <1>0
    <2> QED
      BY <1>5, <2>1, <2>2, <2>3 DEF Means, r, c
  <1>8. CASE k = Len(Units(text)) /\ p = Position(own.line + 1, 0)
    <2>1. p.line = r + 1
      BY <1>1, <1>8 DEF Position
    <2>2. r + 1 > r
      BY <1>0
    <2> QED
      BY <1>2, <1>5, <1>8, <2>1, <2>2 DEF Means, r
  <1> QED
    BY <1>4, <1>6, <1>7, <1>8

(***************************************************************************)
(* A change.                                                               *)
(***************************************************************************)

\* A bounded text is a text.
LEMMA BoundedText ==
    ASSUME NEW n \in Nat, NEW text
    PROVE  text \in BoundedSeq(Char, n) <=> text \in Seq(Char) /\ Len(text) <= n
  <1>1. BoundedSeq(Char, n) = UNION {[1..m -> Char] : m \in 0..n}
    BY DEF BoundedSeq, SeqOf
  <1>2. ASSUME text \in BoundedSeq(Char, n) PROVE text \in Seq(Char) /\ Len(text) <= n
    <2>1. PICK m \in 0..n : text \in [1..m -> Char]
      BY <1>1, <1>2
    <2>2. text \in Seq(Char) /\ Len(text) = m
      BY <2>1
    <2> QED
      BY <2>1, <2>2
  <1>3. ASSUME text \in Seq(Char), Len(text) <= n PROVE text \in BoundedSeq(Char, n)
    <2>1. Len(text) \in 0..n /\ text \in [1..Len(text) -> Char]
      BY <1>3, LenProperties
    <2> QED
      BY <1>1, <2>1
  <1> QED
    BY <1>2, <1>3

\* What is left of a text when what is between two places gives way to an insertion.
Changed(text, m, n, inserted) == Pre(text, m) \o inserted \o Rest(text, n)

\* A changed text is a text, and the places of the change are places in it.
LEMMA ChangedIs ==
    ASSUME NEW text \in Seq(Char), NEW m \in 0..Len(text), NEW n \in 0..Len(text),
           NEW inserted \in Seq(Char)
    PROVE  /\ Pre(text, m) \in Seq(Char) /\ Rest(text, n) \in Seq(Char)
           /\ Pre(text, m) \o inserted \in Seq(Char)
           /\ Len(Pre(text, m) \o inserted) = m + Len(inserted)
           /\ Changed(text, m, n, inserted) \in Seq(Char)
           /\ m + Len(inserted) \in 0..Len(Changed(text, m, n, inserted))
           /\ Pre(Changed(text, m, n, inserted), m + Len(inserted)) = Pre(text, m) \o inserted
  <1> DEFINE p == Pre(text, m)
             q == p \o inserted
             r == Rest(text, n)
  <1>1. p \in Seq(Char) /\ Len(p) = m /\ r \in Seq(Char) /\ Len(inserted) \in Nat /\ m \in Nat
    BY PreIs, RestIs, LenProperties
  <1> HIDE DEF p, r
  <1>2. q \in Seq(Char) /\ Len(q) = m + Len(inserted)
    BY <1>1, ConcatProperties
  <1> HIDE DEF q
  <1>3. q \o r \in Seq(Char) /\ Len(q \o r) = Len(q) + Len(r) /\ Len(r) \in Nat
    BY <1>1, <1>2, ConcatProperties, LenProperties
  <1>4. Pre(q \o r, Len(q)) = q
    BY <1>1, <1>2, PartsOfConcat
  <1>5. Len(q) \in 0..Len(q \o r)
    BY <1>1, <1>2, <1>3
  <1>6. Changed(text, m, n, inserted) = q \o r
    BY DEF Changed, p, q, r
  <1>7. Pre(q \o r, m + Len(inserted)) = q /\ m + Len(inserted) \in 0..Len(q \o r)
    BY <1>2, <1>4, <1>5, Zenon
  <1> QED
    BY <1>1, <1>2, <1>3, <1>6, <1>7, Zenon DEF p, q, r

\* The client makes the same of its text.
LEMMA SplicedIs ==
    ASSUME NEW text \in Seq(Char), NEW m \in 0..Len(text), NEW n \in 0..Len(text),
           NEW inserted \in Seq(Char)
    PROVE  Spliced(Units(text), Offset(text, m, Utf16), Offset(text, n, Utf16), inserted)
             = Units(Changed(text, m, n, inserted))
  <1> DEFINE p == Pre(text, m)
             r == Rest(text, n)
  <1>1. p \in Seq(Char) /\ r \in Seq(Char) /\ p \o inserted \in Seq(Char)
    BY ChangedIs
  <1>2. SubSeq(Units(text), 1, Offset(text, m, Utf16)) = Units(p)
    BY EncodeParts, Utf16IsEncoding DEF Units, Pre
  <1>3. SubSeq(Units(text), Offset(text, n, Utf16) + 1, Len(Units(text))) = Units(r)
    BY EncodeParts, Utf16IsEncoding DEF Units, Rest
  <1> HIDE DEF p, r
  <1>4. Units(p \o inserted) = Units(p) \o Units(inserted)
    BY <1>1, EncodeConcat, Utf16IsEncoding DEF Units
  <1>5. Units((p \o inserted) \o r) = Units(p \o inserted) \o Units(r)
    BY <1>1, EncodeConcat, Utf16IsEncoding DEF Units
  <1>6. Changed(text, m, n, inserted) = (p \o inserted) \o r
    BY DEF Changed, p, r
  <1> QED
    BY <1>2, <1>3, <1>4, <1>5, <1>6, Zenon DEF Spliced

\* The point behind an insertion.
LEMMA PointAfterInsertIs ==
    ASSUME NEW text \in Seq(Char), NEW m \in 0..Len(text), NEW n \in 0..Len(text),
           NEW inserted \in Seq(Char)
    PROVE  LET after == Changed(text, m, n, inserted)
               end   == m + Len(inserted)
           IN  /\ Offset(after, end, Utf8) = Offset(text, m, Utf8) + Len(Bytes(inserted))
               /\ PointAfterInsert(Point(Row(text, m), Column(text, m, Utf8)), inserted)
                    = Point(Row(after, end), Column(after, end, Utf8))
  <1> DEFINE p == Pre(text, m)
             q == p \o inserted
             after == Changed(text, m, n, inserted)
             end == m + Len(inserted)
             L == LastLine(p)
  <1>1. p \in Seq(Char) /\ q \in Seq(Char) /\ Pre(after, end) = q
    BY ChangedIs
  <1> HIDE DEF p, after, end
  <1>2. Bytes(q) = Bytes(p) \o Bytes(inserted)
    BY <1>1, EncodeConcat, Utf8IsEncoding DEF Bytes
  <1>3. /\ Bytes(p) \in Seq(Code) /\ Len(Bytes(p)) \in Nat
        /\ Bytes(inserted) \in Seq(Code) /\ Len(Bytes(inserted)) \in Nat
    BY <1>1, EncodeType, Utf8IsEncoding DEF Bytes
  <1>4. Len(Bytes(q)) = Len(Bytes(p)) + Len(Bytes(inserted))
    BY <1>2, <1>3, ConcatProperties
  <1>5. Offset(after, end, Utf8) = Len(Bytes(q))
    BY <1>1, Zenon DEF Offset, Bytes
  <1>6. Offset(text, m, Utf8) = Len(Bytes(p))
    BY DEF Offset, Bytes, p
  <1>7. Row(after, end) = NewlinesIn(p) + NewlinesIn(inserted)
    <2>1. NewlinesIn(q) = NewlinesIn(p) + NewlinesIn(inserted)
      BY <1>1, NewlinesOfConcat
    <2> QED
      BY <1>1, <2>1, Zenon DEF Row
  <1>8. Column(after, end, Utf8) = Len(Bytes(LastLine(q)))
    BY <1>1, Zenon DEF Column, Bytes
  <1>9. LastLine(q) = IF NewlinesIn(inserted) = 0 THEN L \o inserted ELSE LastLine(inserted)
    BY <1>1, LastLineOfConcat
  <1>10. "newline" \in ToSet(inserted) <=> NewlinesIn(inserted) # 0
    <2>1. NewlinesIn(inserted) = 0 <=> Newlines(inserted) = {}
      BY NewlinesAre
    <2>2. "newline" \in ToSet(inserted) <=> \E i \in DOMAIN inserted : inserted[i] = "newline"
      BY LenProperties DEF ToSet
    <2> QED
      BY <2>1, <2>2 DEF Newlines
  <1>11. Row(text, m) = NewlinesIn(p) /\ Column(text, m, Utf8) = Len(Bytes(L))
    BY DEF Row, Column, Bytes, p, L
  <1>12. L \in Seq(Char)
    BY <1>1, LastLineType
  <1>13. NewlinesIn(p) \in Nat
    BY <1>1, NewlinesAre
  <1> HIDE DEF q, L
  <1> DEFINE start == Point(Row(text, m), Column(text, m, Utf8))
  <1>14. start.row = NewlinesIn(p) /\ start.column = Len(Bytes(L))
    BY <1>11 DEF Point
  <1> HIDE DEF start
  <1>15. PointAfterInsert(start, inserted) = Point(Row(after, end), Column(after, end, Utf8))
    <2>1. CASE NewlinesIn(inserted) # 0
      <3>1. LastLine(q) = LastLine(inserted)
        BY <1>9, <2>1
      <3>2. PointAfterInsert(start, inserted)
              = Point(start.row + NewlinesIn(inserted), Len(Bytes(LastLine(inserted))))
        BY <1>10, <2>1 DEF PointAfterInsert
      <3> QED
        BY <1>7, <1>8, <1>14, <3>1, <3>2, Zenon
    <2>2. CASE NewlinesIn(inserted) = 0
      <3>1. LastLine(q) = L \o inserted
        BY <1>9, <2>2
      <3>2. PointAfterInsert(start, inserted)
              = Point(start.row, start.column + Len(Bytes(inserted)))
        BY <1>10, <2>2 DEF PointAfterInsert
      <3>3. Bytes(L \o inserted) = Bytes(L) \o Bytes(inserted)
        BY <1>12, EncodeConcat, Utf8IsEncoding DEF Bytes
      <3>4. Bytes(L) \in Seq(Code)
        BY <1>12, EncodeType, Utf8IsEncoding DEF Bytes
      <3>5. Len(Bytes(L) \o Bytes(inserted)) = Len(Bytes(L)) + Len(Bytes(inserted))
        BY <1>3, <3>4, ConcatProperties
      <3>6. Column(after, end, Utf8) = Len(Bytes(L)) + Len(Bytes(inserted))
        BY <1>8, <3>1, <3>3, <3>5, Zenon
      <3>7. Row(after, end) = NewlinesIn(p)
        BY <1>7, <1>13, <2>2
      <3> QED
        BY <1>14, <3>2, <3>6, <3>7, Zenon
    <2> QED
      BY <2>1, <2>2
  <1> QED
    BY <1>4, <1>5, <1>6, <1>15, Zenon DEF start, after, end

---------------------------------------------------------------------------

ByteEnd(text, n, point) == [byte |-> Offset(text, n, Utf8), point |-> point]

\* What an edit between two places of the text does.
LEMMA ApplyIs ==
    ASSUME source \in Seq(Char), NEW m \in 0..Len(source), NEW n \in 0..Len(source),
           NEW P, NEW Q, NEW inserted \in Seq(Char),
           Apply(ByteEnd(source, m, P), ByteEnd(source, n, Q), inserted)
    PROVE  /\ source' = Changed(source, m, n, inserted)
           /\ parserEdit' = [start_byte |-> Offset(source, m, Utf8),
                             old_end_byte |-> Offset(source, n, Utf8),
                             new_end_byte |-> Offset(source, m, Utf8) + Len(Bytes(inserted)),
                             start_position |-> P,
                             old_end_position |-> Q,
                             new_end_position |-> PointAfterInsert(P, inserted)]
  <1>1. Len(source) \in Nat /\ 0 \in 0..Len(source) /\ Len(source) \in 0..Len(source)
    BY LenProperties
  <1>2. Offset(source, 0, Utf8) = 0 /\ Offset(source, Len(source), Utf8) = Len(Bytes(source))
    BY <1>1, OffsetType, Utf8IsEncoding DEF Bytes
  <1>3. Between(source, 0, Offset(source, m, Utf8)) = Pre(source, m)
    <2>1. Between(source, Offset(source, 0, Utf8), Offset(source, m, Utf8)) = SubSeq(source, 0 + 1, m)
      BY <1>1, BetweenIs
    <2>2. 0 + 1 = 1
      OBVIOUS
    <2> QED
      BY <1>2, <2>1, <2>2, Zenon DEF Pre
  <1>4. Between(source, Offset(source, n, Utf8), Len(Bytes(source))) = Rest(source, n)
    <2>1. Between(source, Offset(source, n, Utf8), Offset(source, Len(source), Utf8))
            = SubSeq(source, n + 1, Len(source))
      BY <1>1, BetweenIs
    <2> QED
      BY <1>2, <2>1, Zenon DEF Rest
  <1> DEFINE start == ByteEnd(source, m, P)
             end == ByteEnd(source, n, Q)
  <1>5. /\ start.byte = Offset(source, m, Utf8) /\ start.point = P
        /\ end.byte = Offset(source, n, Utf8) /\ end.point = Q
    BY DEF ByteEnd
  <1>6. Apply(start, end, inserted)
    OBVIOUS
  <1> HIDE DEF start, end
  <1>7. source' = Between(source, 0, start.byte) \o inserted
                     \o Between(source, end.byte, Len(Bytes(source)))
    BY <1>6 DEF Apply
  <1>8. parserEdit' = [start_byte |-> start.byte,
                       old_end_byte |-> end.byte,
                       new_end_byte |-> start.byte + Len(Bytes(inserted)),
                       start_position |-> start.point,
                       old_end_position |-> end.point,
                       new_end_position |-> PointAfterInsert(start.point, inserted)]
    BY <1>6 DEF Apply
  <1>9. source' = Changed(source, m, n, inserted)
    BY <1>3, <1>4, <1>5, <1>7, Zenon DEF Changed
  <1> QED
    BY <1>5, <1>8, <1>9, Zenon

\* An edit whose range names two places, in either order.
LEMMA EditIs ==
    ASSUME source \in Seq(Char), NEW a \in 0..Len(source), NEW b \in 0..Len(source),
           NEW p, Means(p, source, a), NEW q, Means(q, source, b),
           NEW inserted \in Seq(Char), Edit([start |-> p, end |-> q], inserted)
    PROVE  LET P == Point(p.line, Column(source, a, Utf8))
               Q == Point(q.line, Column(source, b, Utf8))
           IN  \/ a <= b /\ Apply(ByteEnd(source, a, P), ByteEnd(source, b, Q), inserted)
               \/ b < a /\ Apply(ByteEnd(source, b, Q), ByteEnd(source, a, P), inserted)
  <1> DEFINE P == Point(p.line, Column(source, a, Utf8))
             Q == Point(q.line, Column(source, b, Utf8))
             x == ByteEnd(source, a, P)
             y == ByteEnd(source, b, Q)
             range == [start |-> p, end |-> q]
  <1>1. /\ ByteOffsetAndColumn(source, p)
             = [offset |-> Offset(source, a, Utf8), column |-> Column(source, a, Utf8)]
        /\ ByteOffsetAndColumn(source, q)
             = [offset |-> Offset(source, b, Utf8), column |-> Column(source, b, Utf8)]
    BY ByteOffsetAndColumnIs
  <1>2. range.start = p /\ range.end = q
    OBVIOUS
  <1> HIDE DEF range
  <1>3. Ends(range) = <<x, y>>
    BY <1>1, <1>2 DEF Ends, ByteEnd
  <1>4. x.byte = Offset(source, a, Utf8) /\ y.byte = Offset(source, b, Utf8)
    BY DEF ByteEnd
  <1>5. /\ a <= b <=> Offset(source, a, Utf8) <= Offset(source, b, Utf8)
        /\ Offset(source, a, Utf8) \in Nat /\ Offset(source, b, Utf8) \in Nat
        /\ a \in Nat /\ b \in Nat
    BY OffsetsGrow, OffsetType, Utf8IsEncoding, LenProperties
  <1>6. Edit(range, inserted)
    BY DEF range
  <1> HIDE DEF x, y
  <1>7. IF x.byte > y.byte THEN Apply(y, x, inserted) ELSE Apply(x, y, inserted)
    <2>1. <<x, y>>[1] = x /\ <<x, y>>[2] = y
      OBVIOUS
    <2>2. IF Ends(range)[1].byte > Ends(range)[2].byte
          THEN Apply(Ends(range)[2], Ends(range)[1], inserted)
          ELSE Apply(Ends(range)[1], Ends(range)[2], inserted)
      BY <1>6 DEF Edit
    <2> QED
      BY <1>3, <2>1, <2>2, Zenon
  <1>8. x.byte > y.byte <=> b < a
    BY <1>4, <1>5
  <1>9. (a <= b /\ Apply(x, y, inserted)) \/ (b < a /\ Apply(y, x, inserted))
    BY <1>5, <1>7, <1>8
  <1> QED
    BY <1>9 DEF x, y

\* The text between two places gives way to an insertion, the same on both sides,
\* and the parser is told of it; if the lines named exist, by the places' points.
Replaces(m, n, inserted, P, Q) ==
    /\ source' = Changed(source, m, n, inserted)
    /\ clientText' = Units(source')
    /\ before' = source
    /\ Len(source') <= MaxLength
    /\ exact' \in BOOLEAN
    /\ exact' => /\ P = Point(Row(source, m), Column(source, m, Utf8))
                 /\ Q = Point(Row(source, n), Column(source, n, Utf8))
    /\ parserEdit' = [start_byte |-> Offset(source, m, Utf8),
                      old_end_byte |-> Offset(source, n, Utf8),
                      new_end_byte |-> Offset(source, m, Utf8) + Len(Bytes(inserted)),
                      start_position |-> P,
                      old_end_position |-> Q,
                      new_end_position |-> PointAfterInsert(P, inserted)]

\* That is what a change of the user's does.
LEMMA ChangeIs ==
    ASSUME source \in Seq(Char), InSync, Change
    PROVE  \E m \in 0..Len(source) : \E n \in m..Len(source) :
           \E inserted \in Seq(Char) : \E P, Q : Replaces(m, n, inserted, P, Q)
  <1> DEFINE low(j, k) == IF j < k THEN j ELSE k
             high(j, k) == IF j < k THEN k ELSE j
             Made(j, k, inserted, p, q) ==
                 /\ Edit([start |-> p, end |-> q], inserted)
                 /\ exact' = (/\ p.line = ClientPosition(clientText, j).line
                              /\ q.line = ClientPosition(clientText, k).line)
  <1>1. PICK j \in Places(clientText), k \in Places(clientText),
             inserted \in BoundedSeq(Char, MaxInsert) :
            /\ \E p \in PositionsOf(clientText, j), q \in PositionsOf(clientText, k) :
                 Made(j, k, inserted, p, q)
            /\ Len(source') <= MaxLength
            /\ clientText' = Spliced(clientText, low(j, k), high(j, k), inserted)
            /\ before' = source
    BY DEF Change
  <1>2. PICK p \in PositionsOf(clientText, j) :
            \E q \in PositionsOf(clientText, k) : Made(j, k, inserted, p, q)
    BY <1>1
  <1>3. PICK q \in PositionsOf(clientText, k) : Made(j, k, inserted, p, q)
    BY <1>2
  <1>4. clientText = Units(source)
    BY DEF InSync
  <1>5. PICK a \in 0..Len(source) : j = Offset(source, a, Utf16)
    BY <1>4, PlacesAreShared
  <1>6. PICK b \in 0..Len(source) : k = Offset(source, b, Utf16)
    BY <1>4, PlacesAreShared
  <1>7. Means(p, source, a) /\ Means(q, source, b)
    BY <1>4, <1>5, <1>6, PositionsMean
  <1>8. inserted \in Seq(Char)
    BY BoundedText, SourceTextAssumption
  <1> DEFINE P == Point(p.line, Column(source, a, Utf8))
             Q == Point(q.line, Column(source, b, Utf8))
  <1>9. \/ a <= b /\ Apply(ByteEnd(source, a, P), ByteEnd(source, b, Q), inserted)
        \/ b < a /\ Apply(ByteEnd(source, b, Q), ByteEnd(source, a, P), inserted)
    BY <1>3, <1>7, <1>8, EditIs
  <1>10. /\ exact' \in BOOLEAN
         /\ exact' => /\ P = Point(Row(source, a), Column(source, a, Utf8))
                      /\ Q = Point(Row(source, b), Column(source, b, Utf8))
    <2>1. /\ ClientPosition(clientText, j).line = Row(source, a)
          /\ ClientPosition(clientText, k).line = Row(source, b)
      BY <1>4, <1>5, <1>6, ClientPositionIs DEF Position
    <2>2. exact' = (p.line = Row(source, a) /\ q.line = Row(source, b))
      BY <1>3, <2>1
    <2> QED
      BY <2>2
  <1>11. /\ a <= b <=> j <= k
         /\ a = b <=> j = k
         /\ j \in Nat /\ k \in Nat /\ a \in Nat /\ b \in Nat /\ Len(source) \in Nat
    BY <1>5, <1>6, OffsetsGrow, OffsetType, Utf16IsEncoding, LenProperties
  <1> HIDE DEF P, Q, Made
  <1>12. CASE a <= b
    <2>1. low(j, k) = j /\ high(j, k) = k
      BY <1>11, <1>12
    <2>2. Apply(ByteEnd(source, a, P), ByteEnd(source, b, Q), inserted)
      BY <1>9, <1>11, <1>12
    <2>3. source' = Changed(source, a, b, inserted)
      BY <1>8, <2>2, ApplyIs
    <2>4. clientText' = Spliced(Units(source), Offset(source, a, Utf16), Offset(source, b, Utf16),
                                inserted)
      BY <1>1, <1>4, <1>5, <1>6, <2>1, Zenon
    <2>5. clientText' = Units(source')
      BY <1>8, <2>3, <2>4, SplicedIs
    <2>6. b \in a..Len(source)
      BY <1>11, <1>12
    <2>7. parserEdit' = [start_byte |-> Offset(source, a, Utf8),
                         old_end_byte |-> Offset(source, b, Utf8),
                         new_end_byte |-> Offset(source, a, Utf8) + Len(Bytes(inserted)),
                         start_position |-> P,
                         old_end_position |-> Q,
                         new_end_position |-> PointAfterInsert(P, inserted)]
      BY <1>8, <2>2, ApplyIs
    <2>8. Replaces(a, b, inserted, P, Q)
      BY <1>1, <1>10, <2>3, <2>5, <2>7, Zenon DEF Replaces
    <2> QED
      BY <1>8, <2>6, <2>8
  <1>13. CASE ~(a <= b)
    <2>1. low(j, k) = k /\ high(j, k) = j
      BY <1>11, <1>13
    <2>2. Apply(ByteEnd(source, b, Q), ByteEnd(source, a, P), inserted)
      BY <1>9, <1>11, <1>13
    <2>3. source' = Changed(source, b, a, inserted)
      BY <1>8, <2>2, ApplyIs
    <2>4. clientText' = Spliced(Units(source), Offset(source, b, Utf16), Offset(source, a, Utf16),
                                inserted)
      BY <1>1, <1>4, <1>5, <1>6, <2>1, Zenon
    <2>5. clientText' = Units(source')
      BY <1>8, <2>3, <2>4, SplicedIs
    <2>6. a \in b..Len(source)
      BY <1>11, <1>13
    <2>7. parserEdit' = [start_byte |-> Offset(source, b, Utf8),
                         old_end_byte |-> Offset(source, a, Utf8),
                         new_end_byte |-> Offset(source, b, Utf8) + Len(Bytes(inserted)),
                         start_position |-> Q,
                         old_end_position |-> P,
                         new_end_position |-> PointAfterInsert(Q, inserted)]
      BY <1>8, <2>2, ApplyIs
    <2>8. Replaces(b, a, inserted, Q, P)
      BY <1>1, <1>10, <2>3, <2>5, <2>7, Zenon DEF Replaces
    <2> QED
      BY <1>8, <2>6, <2>8
  <1> QED
    BY <1>12, <1>13

(***************************************************************************)
(* The inductive invariant.                                                *)
(***************************************************************************)

IInv == TypeOK /\ InSync /\ EditPointsFit

\* A point of the parser is a row and a column in bytes.
LEMMA PointIs ==
    ASSUME NEW text \in Seq(Char), NEW n \in 0..Len(text)
    PROVE  PointOf(Bytes(text), Offset(text, n, Utf8)) = Point(Row(text, n), Column(text, n, Utf8))
  BY EncodedPlace, Utf8IsEncoding, Zenon DEF PointOf, Bytes

\* The text starts in the invariant.
LEMMA InvInit == Init => IInv
  <1> SUFFICES ASSUME Init PROVE IInv
    OBVIOUS
  <1>1. source \in Seq(Char)
    BY BoundedText, SourceTextAssumption DEF Init, Text
  <1>2. Len(Bytes(before)) \in Nat
    BY <1>1, EncodeType, Utf8IsEncoding DEF Init, Bytes
  <1>3. TypeOK
    <2>1. parserEdit.start_byte = 0 /\ parserEdit.old_end_byte = 0 /\ parserEdit.new_end_byte = 0
      BY DEF Init, NoEdit
    <2>2. 0 <= Len(Bytes(before)) /\ 0 <= 0
      BY <1>2
    <2>3. changes \in 0..MaxChanges
      BY SourceTextAssumption DEF Init
    <2>4. exact \in BOOLEAN /\ source \in Text /\ before \in Text
      BY Zenon DEF Init
    <2> QED
      BY <2>1, <2>2, <2>3, <2>4, Zenon DEF TypeOK
  <1> QED
    BY <1>3 DEF Init, IInv, InSync, EditPointsFit

\* A change with a range keeps it.
LEMMA ChangeKeepsInv ==
    ASSUME IInv, Change, changes' \in 0..MaxChanges
    PROVE  IInv'
  <1>1. source \in Seq(Char) /\ source \in Text
    BY BoundedText, SourceTextAssumption DEF IInv, TypeOK, Text
  <1>2. PICK m \in 0..Len(source) : \E n \in m..Len(source) :
           \E inserted \in Seq(Char) : \E P, Q : Replaces(m, n, inserted, P, Q)
    BY <1>1, ChangeIs DEF IInv
  <1>3. PICK n \in m..Len(source) : \E inserted \in Seq(Char) : \E P, Q :
             Replaces(m, n, inserted, P, Q)
    BY <1>2, Zenon
  <1>4. PICK inserted \in Seq(Char) : \E P, Q : Replaces(m, n, inserted, P, Q)
    BY <1>3, Zenon
  <1>5. PICK P, Q : Replaces(m, n, inserted, P, Q)
    BY <1>4, Zenon
  <1>6. /\ n \in m..Len(source) /\ inserted \in Seq(Char)
        /\ source' = Changed(source, m, n, inserted)
        /\ clientText' = Units(source')
        /\ before' = source
        /\ Len(source') <= MaxLength
        /\ exact' \in BOOLEAN
        /\ exact' => /\ P = Point(Row(source, m), Column(source, m, Utf8))
                     /\ Q = Point(Row(source, n), Column(source, n, Utf8))
        /\ parserEdit' = [start_byte |-> Offset(source, m, Utf8),
                          old_end_byte |-> Offset(source, n, Utf8),
                          new_end_byte |-> Offset(source, m, Utf8) + Len(Bytes(inserted)),
                          start_position |-> P,
                          old_end_position |-> Q,
                          new_end_position |-> PointAfterInsert(P, inserted)]
    BY <1>3, <1>4, <1>5 DEF Replaces
  <1>7. Len(source) \in Nat /\ n \in 0..Len(source) /\ m <= n
    BY <1>1, LenProperties
  <1> DEFINE after == Changed(source, m, n, inserted)
             end == m + Len(inserted)
  <1>8. after \in Seq(Char) /\ end \in 0..Len(after)
    BY <1>1, <1>6, <1>7, ChangedIs
  <1>9. /\ Offset(source, m, Utf8) \in Nat /\ Offset(source, n, Utf8) \in Nat
        /\ Offset(source, m, Utf8) <= Offset(source, n, Utf8)
        /\ Offset(source, n, Utf8) <= Len(Bytes(source))
    <2>1. Len(source) \in 0..Len(source) /\ n <= Len(source)
      BY <1>7
    <2> QED
      BY <1>1, <1>7, <2>1, OffsetsGrow, OffsetType, Utf8IsEncoding DEF Bytes
  <1>10. Len(Bytes(inserted)) \in Nat
    BY <1>6, EncodeType, Utf8IsEncoding DEF Bytes
  <1>11. /\ Offset(after, end, Utf8) = Offset(source, m, Utf8) + Len(Bytes(inserted))
        /\ PointAfterInsert(Point(Row(source, m), Column(source, m, Utf8)), inserted)
             = Point(Row(after, end), Column(after, end, Utf8))
    BY <1>1, <1>6, <1>7, PointAfterInsertIs
  <1> HIDE DEF after, end
  <1>12. source' = after
    BY <1>6 DEF after
  <1>13. TypeOK'
    <2>1. source' \in Text
      BY <1>6, <1>8, <1>12, BoundedText, SourceTextAssumption DEF Text
    <2>2. before' \in Text
      BY <1>1, <1>6
    <2>3. /\ parserEdit'.start_byte = Offset(source, m, Utf8)
          /\ parserEdit'.old_end_byte = Offset(source, n, Utf8)
          /\ parserEdit'.new_end_byte = Offset(source, m, Utf8) + Len(Bytes(inserted))
      BY <1>6
    <2>4. parserEdit'.start_byte <= parserEdit'.new_end_byte
      BY <1>9, <1>10, <2>3
    <2>5. Bytes(before)' = Bytes(source)
      BY <1>6 DEF Bytes
    <2>6. parserEdit'.old_end_byte <= Len(Bytes(before)')
      BY <1>9, <2>3, <2>5
    <2>7. parserEdit'.start_byte <= parserEdit'.old_end_byte
      BY <1>9, <2>3
    <2>8. exact' \in BOOLEAN
      BY <1>6
    <2> QED
      BY <2>1, <2>2, <2>4, <2>6, <2>7, <2>8 DEF TypeOK
  <1>14. InSync'
    BY <1>6 DEF InSync
  <1>15. EditPointsFit'
    <2> SUFFICES ASSUME exact'
                 PROVE  /\ parserEdit'.start_position = PointOf(Bytes(before'), parserEdit'.start_byte)
                        /\ parserEdit'.old_end_position = PointOf(Bytes(before'), parserEdit'.old_end_byte)
                        /\ parserEdit'.new_end_position = PointOf(Bytes(source'), parserEdit'.new_end_byte)
      BY DEF EditPointsFit
    <2>1. /\ P = Point(Row(source, m), Column(source, m, Utf8))
          /\ Q = Point(Row(source, n), Column(source, n, Utf8))
      BY <1>6
    <2>2. /\ PointOf(Bytes(source), Offset(source, m, Utf8)) = P
          /\ PointOf(Bytes(source), Offset(source, n, Utf8)) = Q
      BY <1>1, <1>7, <2>1, PointIs
    <2>3. PointOf(Bytes(after), Offset(after, end, Utf8)) = PointAfterInsert(P, inserted)
      BY <1>8, <1>11, <2>1, PointIs
    <2>4. /\ parserEdit'.start_byte = Offset(source, m, Utf8)
          /\ parserEdit'.old_end_byte = Offset(source, n, Utf8)
          /\ parserEdit'.new_end_byte = Offset(after, end, Utf8)
          /\ parserEdit'.start_position = P
          /\ parserEdit'.old_end_position = Q
          /\ parserEdit'.new_end_position = PointAfterInsert(P, inserted)
      BY <1>6, <1>11
    <2>5. before' = source
      BY <1>6
    <2> QED
      BY <1>12, <2>2, <2>3, <2>4, <2>5, Zenon
  <1> QED
    BY <1>13, <1>14, <1>15 DEF IInv

\* So does a change of the whole text.
LEMMA ChangeAllKeepsInv ==
    ASSUME IInv, ChangeAll, changes' \in 0..MaxChanges
    PROVE  IInv'
  <1>1. PICK text \in Text :
            /\ source' = text /\ parserEdit' = NoEdit
            /\ clientText' = Units(text) /\ before' = source /\ exact' = FALSE
    BY DEF ChangeAll, Replace
  <1>2. source \in Seq(Char) /\ source \in Text
    BY BoundedText, SourceTextAssumption DEF IInv, TypeOK, Text
  <1>3. Len(Bytes(source)) \in Nat
    BY <1>2, EncodeType, Utf8IsEncoding DEF Bytes
  <1>4. TypeOK'
    <2>1. Bytes(before)' = Bytes(source)
      BY <1>1 DEF Bytes
    <2>2. /\ parserEdit'.start_byte = 0 /\ parserEdit'.old_end_byte = 0
          /\ parserEdit'.new_end_byte = 0
      BY <1>1 DEF NoEdit
    <2>3. 0 <= Len(Bytes(before)') /\ 0 <= 0
      BY <1>3, <2>1
    <2>4. exact' \in BOOLEAN /\ source' \in Text /\ before' \in Text
      BY <1>1, <1>2
    <2> QED
      BY <2>2, <2>3, <2>4, Zenon DEF TypeOK
  <1> QED
    BY <1>1, <1>4 DEF IInv, InSync, EditPointsFit

\* The invariant holds in every reachable state.
LEMMA Invariant == Spec => []IInv
  <1>1. ASSUME IInv, [Next]_vars PROVE IInv'
    <2>1. CASE Next
      <3>1. changes' \in 0..MaxChanges
        BY <1>1, <2>1, SourceTextAssumption DEF Next, IInv, TypeOK
      <3> QED
        BY <1>1, <2>1, <3>1, ChangeKeepsInv, ChangeAllKeepsInv DEF Next
    <2>2. CASE UNCHANGED vars
      BY <1>1, <2>2 DEF vars, IInv, TypeOK, InSync, EditPointsFit
    <2> QED
      BY <1>1, <2>1, <2>2
  <1> QED
    BY <1>1, InvInit, PTL DEF Spec

(***************************************************************************)
(* The theorems.                                                           *)
(***************************************************************************)

\* TypeCorrect: the edit the parser is told of is a range of bytes of the text it
\* was made in, for texts, insertions and sequences of changes of any length.
THEOREM TypeCorrect == Spec => []TypeOK
  BY Invariant, PTL DEF IInv

\* TextsAgree: server and client hold the same text, whatever changes the client
\* makes and from which end it names them. (edit, position_to_byte_offset_and_column)
THEOREM TextsAgree == Spec => []InSync
  BY Invariant, PTL DEF IInv

\* ParserKnowsEdits: the offsets and the points the parser is told of a change are
\* those of the same places. (edit, point_after_insert)
THEOREM ParserKnowsEdits == Spec => []EditPointsFit
  BY Invariant, PTL DEF IInv

\* PositionsAgree: of every place the server gives the position its client has for
\* it, and finds the place by it. (byte_offset_to_position, position_to_byte_offset)
THEOREM PositionsAgree == Spec => []PositionsMatchClient
  <1>1. ASSUME IInv PROVE PositionsMatchClient
    <2>1. source \in Seq(Char) /\ clientText = Units(source)
      BY <1>1, BoundedText, SourceTextAssumption DEF IInv, TypeOK, InSync, Text
    <2> SUFFICES ASSUME NEW n \in 0..Len(source)
                 PROVE  LET byte == Len(Bytes(SubSeq(source, 1, n)))
                            unit == Len(Units(SubSeq(source, 1, n)))
                        IN  /\ PositionOfByte(source, byte) = ClientPosition(clientText, unit)
                            /\ ByteOffset(source, PositionOfByte(source, byte)) = byte
      BY DEF PositionsMatchClient
    <2> DEFINE own == Position(Row(source, n), Column(source, n, Utf16))
    <2>2. /\ Len(Bytes(SubSeq(source, 1, n))) = Offset(source, n, Utf8)
          /\ Len(Units(SubSeq(source, 1, n))) = Offset(source, n, Utf16)
      BY DEF Offset, Bytes, Units, Pre
    <2>3. PositionOfByte(source, Offset(source, n, Utf8)) = own
      BY <2>1, PositionOfByteIs
    <2>4. ClientPosition(clientText, Offset(source, n, Utf16)) = own
      BY <2>1, ClientPositionIs
    <2>5. Row(source, n) \in Nat /\ Column(source, n, Utf16) \in Nat
      BY <2>1, RowAndColumnType, Utf16IsEncoding
    <2>6. Means(own, source, n)
      BY <2>5 DEF Means, Position
    <2>7. ByteOffsetAndColumn(source, own)
            = [offset |-> Offset(source, n, Utf8), column |-> Column(source, n, Utf8)]
      BY <2>1, <2>6, ByteOffsetAndColumnIs
    <2>8. ByteOffset(source, own) = Offset(source, n, Utf8)
      BY <2>7 DEF ByteOffset
    <2> HIDE DEF own
    <2> QED
      BY <2>2, <2>3, <2>4, <2>8, Zenon
  <1> QED
    BY <1>1, Invariant, PTL

(***************************************************************************)
(* The receiver of a completion.                                           *)
(***************************************************************************)

\* The identifier that ends behind the first k characters begins behind the first f.
Begins(text, k, f) ==
    /\ f = 0 \/ ~IsIdentifier(text[f])
    /\ \A i \in (f + 1)..k : IsIdentifier(text[i])

\* The characters of an identifier before a place begin somewhere.
LEMMA SomewhereItBegins ==
    ASSUME NEW text \in Seq(Char), NEW k \in 0..Len(text)
    PROVE  \E f \in 0..k : Begins(text, k, f)
  <1> DEFINE S == {i \in 1..k : ~IsIdentifier(text[i])}
  <1>0. k \in Nat
    BY LenProperties
  <1>1. CASE S = {}
    <2>1. \A i \in (0 + 1)..k : IsIdentifier(text[i])
      BY <1>0, <1>1
    <2>2. Begins(text, k, 0) /\ 0 \in 0..k
      BY <1>0, <2>1 DEF Begins
    <2> QED
      BY <2>2, Zenon
  <1>2. CASE S # {}
    <2>1. S \in SUBSET (1..k)
      OBVIOUS
    <2>2. Max(S) \in S /\ Max(S) \in 1..k /\ \A y \in S : Max(S) >= y
      BY <1>0, <1>2, <2>1, MaxIsElement
    <2>3. ~IsIdentifier(text[Max(S)])
      BY <2>2
    <2>4. ASSUME NEW i \in (Max(S) + 1)..k PROVE IsIdentifier(text[i])
      <3>1. i \in 1..k /\ ~(Max(S) >= i)
        BY <1>0, <2>2
      <3> QED
        BY <2>2, <3>1
    <2> QED
      BY <1>0, <2>2, <2>3, <2>4 DEF Begins
  <1> QED
    BY <1>1, <1>2

\* They are what the server takes for the identifier before it.
LEMMA IdentifierBeforeIs ==
    ASSUME source \in Seq(Char), NEW k \in 0..Len(source), NEW f \in 0..k, Begins(source, k, f)
    PROVE  /\ IdentifierBefore(Offset(source, k, Utf8)) = SubSeq(source, f + 1, k)
           /\ Offset(source, k, Utf8) - Len(Bytes(SubSeq(source, f + 1, k))) = Offset(source, f, Utf8)
           /\ SubSeq(source, f + 1, k) = <<>> <=> f = k
  <1> DEFINE head == Pre(source, k)
             others == {i \in DOMAIN head : ~IsIdentifier(head[i])}
             b == SubSeq(source, f + 1, k)
  <1>0. Len(source) \in Nat /\ k \in Nat /\ f \in 0..Len(source) /\ k \in f..Len(source)
        /\ 0 \in 0..Len(source)
    BY LenProperties
  <1>1. Between(source, 0, Offset(source, k, Utf8)) = head
    <2>1. Between(source, Offset(source, 0, Utf8), Offset(source, k, Utf8)) = SubSeq(source, 0 + 1, k)
      BY <1>0, BetweenIs
    <2>2. Offset(source, 0, Utf8) = 0 /\ 0 + 1 = 1
      BY <1>0, OffsetType, Utf8IsEncoding
    <2> QED
      BY <2>1, <2>2, Zenon DEF Pre
  <1>2. /\ head \in Seq(Char) /\ Len(head) = k /\ DOMAIN head = 1..k
        /\ \A i \in 1..k : head[i] = source[i]
    BY PreIs, LenProperties
  <1>3. b \in Seq(Char) /\ Len(b) = k - f /\ Pre(source, k) = Pre(source, f) \o b
    BY <1>0, MiddleIs
  <1>4. Pre(source, f) \in Seq(Char) /\ Len(Pre(source, f)) = f
    BY <1>0, PreIs
  <1> HIDE DEF head, b
  <1>5. others \in SUBSET (1..Len(head)) /\ f \in 0..Len(head)
    BY <1>0, <1>2
  <1>6. f = 0 \/ f \in others
    BY <1>0, <1>2 DEF Begins
  <1>7. ASSUME NEW x \in others PROVE x <= f
    <2>1. x \in 1..k /\ ~IsIdentifier(source[x])
      BY <1>2
    <2>2. ~(x \in (f + 1)..k)
      BY <2>1 DEF Begins
    <2> QED
      BY <1>0, <2>1, <2>2
  <1> HIDE DEF others
  <1>8. AfterLast(head, others) = Rest(head, f)
    BY <1>2, <1>5, <1>6, <1>7, AfterLastIs
  <1>9. Rest(head, f) = b
    <2> DEFINE p == Pre(source, f)
    <2>1. p \in Seq(Char) /\ Len(p) = f /\ head = p \o b
      BY <1>3, <1>4 DEF head
    <2> HIDE DEF p
    <2>2. Rest(p \o b, Len(p)) = b
      BY <1>3, <2>1, PartsOfConcat
    <2> QED
      BY <2>1, <2>2, Zenon
  <1>10. IdentifierBefore(Offset(source, k, Utf8)) = b
    BY <1>1, <1>8, <1>9, Zenon DEF IdentifierBefore, others
  <1>11. Offset(source, k, Utf8) = Offset(source, f, Utf8) + Len(Bytes(b))
    <2> DEFINE p == Pre(source, f)
    <2>1. p \in Seq(Char) /\ Pre(source, k) = p \o b
      BY <1>3, <1>4
    <2>2. Offset(source, f, Utf8) = Len(Bytes(p))
      BY DEF Offset, Bytes
    <2> HIDE DEF p
    <2>3. Bytes(p \o b) = Bytes(p) \o Bytes(b)
      BY <1>3, <2>1, EncodeConcat, Utf8IsEncoding DEF Bytes
    <2>4. Bytes(p) \in Seq(Code) /\ Bytes(b) \in Seq(Code)
      BY <1>3, <2>1, EncodeType, Utf8IsEncoding DEF Bytes
    <2>5. Len(Bytes(p) \o Bytes(b)) = Len(Bytes(p)) + Len(Bytes(b))
      BY <2>4, ConcatProperties
    <2> QED
      BY <2>1, <2>2, <2>3, <2>5, Zenon DEF Offset, Bytes
  <1>12. Offset(source, k, Utf8) \in Nat /\ Offset(source, f, Utf8) \in Nat /\ Len(Bytes(b)) \in Nat
    BY <1>0, <1>3, OffsetType, EncodeType, Utf8IsEncoding DEF Bytes
  <1>13. b = <<>> <=> f = k
    <2>1. b = <<>> <=> Len(b) = 0
      BY <1>3, EmptySeq
    <2> QED
      BY <1>0, <1>3, <2>1
  <1>14. Offset(source, k, Utf8) - Len(Bytes(b)) = Offset(source, f, Utf8)
    BY <1>11, <1>12
  <1> QED
    BY <1>10, <1>13, <1>14, Zenon DEF b

\* The byte before a place is a dot only if the character before it is.
LEMMA DotBefore ==
    ASSUME source \in Seq(Char), NEW f \in 1..Len(source)
    PROVE  /\ Offset(source, f, Utf8) - 1 >= 0
           /\ Between(source, Offset(source, f, Utf8) - 1, Offset(source, f, Utf8) - 1 + 1) = <<"dot">>
                <=> source[f] = "dot"
           /\ source[f] = "dot" =>
                  Offset(source, f, Utf8) - 1 = Offset(source, f - 1, Utf8)
  <1> DEFINE e == f - 1
             c == source[e + 1]
             O(i) == Offset(source, i, Utf8)
  <1>0. /\ Len(source) \in Nat /\ e \in Nat /\ e + 1 = f /\ e + 1 <= Len(source)
        /\ e \in 0..Len(source) /\ f \in 0..Len(source) /\ DOMAIN source = 1..Len(source)
    BY LenProperties
  <1> HIDE DEF e
  <1>1. c \in Char /\ c = source[f]
    BY <1>0, PreStep
  <1>2. O(e) \in Nat /\ O(f) = O(e) + Len(Utf8[c]) /\ Len(Utf8[c]) \in Nat \ {0}
    BY <1>0, OffsetStep, Utf8IsEncoding
  <1>3. O(f) - 1 + 1 = O(f) /\ O(f) - 1 >= 0 /\ O(f) \in Nat
    BY <1>2
  <1>4. CASE Len(Utf8[c]) = 1
    <2>1. O(f) - 1 = O(e)
      BY <1>2, <1>4
    <2>2. Between(source, O(e), O(f)) = SubSeq(source, e + 1, f)
      BY <1>0, BetweenIs
    <2>3. SubSeq(source, e + 1, f) = <<c>>
      <3> DEFINE b == SubSeq(source, e + 1, f)
      <3>1. f \in e..Len(source) /\ f - e = 1
        BY <1>0
      <3>2. b \in Seq(Char) /\ Len(b) = 1 /\ \A i \in 1..1 : b[i] = source[e + i]
        BY <1>0, <3>1, MiddleIs
      <3>3. <<c>> \in Seq(Char) /\ Len(<<c>>) = 1 /\ \A i \in 1..1 : <<c>>[i] = source[e + i]
        BY <1>1
      <3> HIDE DEF b
      <3>4. \A i \in 1..1 : b[i] = <<c>>[i]
        BY <3>2, <3>3
      <3>5. b = <<c>>
        BY <3>2, <3>3, <3>4, SeqEqual
      <3> QED
        BY <3>5 DEF b
    <2>4. <<c>> = <<"dot">> <=> c = "dot"
      OBVIOUS
    <2>5. Between(source, O(f) - 1, O(f) - 1 + 1) = <<c>>
      BY <1>3, <2>1, <2>2, <2>3, Zenon
    <2>6. e = f - 1
      BY <1>0
    <2> QED
      BY <1>1, <1>3, <2>1, <2>4, <2>5, <2>6
  <1>5. CASE Len(Utf8[c]) # 1
    <2>1. c # "dot"
      <3>1. "dot" \in Char /\ Utf8["dot"] = <<"dot">>
        BY DEF Utf8, Char
      <3>2. Len(<<"dot">>) = 1
        OBVIOUS
      <3> QED
        BY <1>5, <3>1, <3>2
    <2>2. O(e) < O(f) - 1
      <3> DEFINE width == Len(Utf8[c])
      <3>1. O(e) \in Nat /\ O(f) = O(e) + width /\ width \in Nat \ {0} /\ width # 1
        BY <1>2, <1>5
      <3> HIDE DEF O, width
      <3> QED
        BY <3>1
    <2> DEFINE starting(limit) == {i \in DOMAIN source : Len(Bytes(Upto(source, i))) < limit}
    <2>3. ASSUME NEW i \in 1..Len(source), NEW limit \in {O(f) - 1, O(f)}
          PROVE  Len(Bytes(Upto(source, i))) < limit <=> i <= f
      <3>1. i - 1 \in 0..Len(source) /\ Upto(source, i) = Pre(source, i - 1)
        BY UptoIs
      <3>2. Len(Bytes(Upto(source, i))) = O(i - 1)
        BY <3>1 DEF Bytes, Offset
      <3>3. /\ f <= i - 1 <=> O(f) <= O(i - 1)
            /\ i - 1 <= e <=> O(i - 1) <= O(e)
            /\ O(i - 1) \in Nat
        BY <1>0, <3>1, OffsetsGrow, OffsetType, Utf8IsEncoding
      <3> HIDE DEF O
      <3>4. CASE i <= f
        <4>1. i - 1 <= e
          BY <1>0, <3>4
        <4> QED
          BY <1>2, <1>3, <2>2, <3>2, <3>3, <3>4, <4>1
      <3>5. CASE ~(i <= f)
        <4>1. f <= i - 1
          BY <1>0, <3>5
        <4> QED
          BY <1>2, <1>3, <3>2, <3>3, <3>5, <4>1
      <3> QED
        BY <3>4, <3>5
    <2>4. starting(O(f) - 1) = 1..f /\ starting(O(f)) = 1..f
      BY <1>0, <2>3
    <2>5. Cardinality(1..f) = f
      BY <1>0, FS_Interval
    <2>6. Between(source, O(f) - 1, O(f)) = SubSeq(source, f + 1, f)
      BY <2>4, <2>5, Zenon DEF Between
    <2>7. SubSeq(source, f + 1, f) = <<>>
      BY <1>0, SubSeqEmpty
    <2>8. <<>> # <<"dot">>
      OBVIOUS
    <2>9. Between(source, O(f) - 1, O(f) - 1 + 1) # <<"dot">>
      BY <1>3, <2>6, <2>7, <2>8, Zenon
    <2> QED
      BY <1>1, <1>3, <2>1, <2>9
  <1> QED
    BY <1>4, <1>5

\* What a completion finds before a place, by where its prefix and its receiver
\* begin.
LEMMA ReceiverIs ==
    ASSUME source \in Seq(Char), NEW n \in 0..Len(source), NEW cursor,
           ByteOffset(source, cursor) = Offset(source, n, Utf8),
           NEW f \in 0..n, Begins(source, n, f)
    PROVE  /\ IdentifierPrefixBefore(cursor) = SubSeq(source, f + 1, n)
           /\ f = 0 => QualifiedCompletionReceiver(cursor) = NoReceiver
           /\ f # 0 /\ source[f] # "dot" => QualifiedCompletionReceiver(cursor) = NoReceiver
           /\ f # 0 /\ source[f] = "dot" =>
                  \A g \in 0..(f - 1) : Begins(source, f - 1, g) =>
                      QualifiedCompletionReceiver(cursor) =
                          IF g = f - 1 THEN NoReceiver
                          ELSE [name |-> SubSeq(source, g + 1, f - 1),
                                position |-> Position(Row(source, g), Column(source, g, Utf16))]
  <1> DEFINE prefix == SubSeq(source, f + 1, n)
             dot == Offset(source, f, Utf8) - 1
             name == IdentifierBefore(dot)
             found == [name |-> name, position |-> PositionOfByte(source, dot - Len(Bytes(name)))]
  <1>0. Len(source) \in Nat /\ n \in Nat /\ f \in 0..Len(source) /\ Offset(source, f, Utf8) \in Nat
    BY LenProperties, OffsetType, Utf8IsEncoding
  <1>1. IdentifierPrefixBefore(cursor) = prefix
    BY IdentifierBeforeIs, Zenon DEF IdentifierPrefixBefore
  <1>2. Offset(source, n, Utf8) - Len(Bytes(prefix)) = Offset(source, f, Utf8)
    BY IdentifierBeforeIs
  <1>3. QualifiedCompletionReceiver(cursor) =
            IF dot < 0 \/ Between(source, dot, dot + 1) # <<"dot">> \/ name = <<>>
            THEN NoReceiver ELSE found
    <2> HIDE DEF prefix
    <2>1. ByteOffset(source, cursor) - Len(Bytes(IdentifierPrefixBefore(cursor))) - 1 = dot
      BY <1>1, <1>2, Zenon
    <2> HIDE DEF dot
    <2> QED
      BY <2>1, Zenon DEF QualifiedCompletionReceiver
  <1>4. ASSUME f = 0 PROVE QualifiedCompletionReceiver(cursor) = NoReceiver
    <2>1. Offset(source, 0, Utf8) = 0
      BY <1>0, OffsetType, Utf8IsEncoding
    <2>2. dot < 0
      BY <1>4, <2>1
    <2> QED
      BY <1>3, <2>2, Zenon
  <1>5. ASSUME f # 0, source[f] # "dot" PROVE QualifiedCompletionReceiver(cursor) = NoReceiver
    <2>1. f \in 1..Len(source)
      BY <1>0, <1>5
    <2>2. Between(source, dot, dot + 1) # <<"dot">>
      BY <1>5, <2>1, DotBefore
    <2> QED
      BY <1>3, <2>2, Zenon
  <1>6. ASSUME f # 0, source[f] = "dot", NEW g \in 0..(f - 1), Begins(source, f - 1, g)
        PROVE  QualifiedCompletionReceiver(cursor) =
                   IF g = f - 1 THEN NoReceiver
                   ELSE [name |-> SubSeq(source, g + 1, f - 1),
                         position |-> Position(Row(source, g), Column(source, g, Utf16))]
    <2>1. f \in 1..Len(source) /\ f - 1 \in 0..Len(source) /\ g \in 0..Len(source)
      BY <1>0, <1>6
    <2>2. /\ dot >= 0 /\ Between(source, dot, dot + 1) = <<"dot">>
          /\ dot = Offset(source, f - 1, Utf8)
      BY <1>6, <2>1, DotBefore
    <2> DEFINE e == f - 1
               b == SubSeq(source, g + 1, e)
    <2>3. e \in 0..Len(source) /\ g \in 0..e /\ Begins(source, e, g)
          /\ dot = Offset(source, e, Utf8)
      BY <1>6, <2>1, <2>2
    <2> HIDE DEF e
    <2>4. /\ IdentifierBefore(Offset(source, e, Utf8)) = b
          /\ Offset(source, e, Utf8) - Len(Bytes(b)) = Offset(source, g, Utf8)
          /\ b = <<>> <=> g = e
      BY <2>3, IdentifierBeforeIs
    <2> HIDE DEF b, dot
    <2>5. name = b /\ dot - Len(Bytes(name)) = Offset(source, g, Utf8)
      BY <2>3, <2>4, Zenon
    <2>6. PositionOfByte(source, Offset(source, g, Utf8))
            = Position(Row(source, g), Column(source, g, Utf16))
      BY <2>1, PositionOfByteIs
    <2>7. ~(dot < 0)
      <3>1. dot \in Int /\ dot >= 0
        BY <1>0, <2>2 DEF dot
      <3> QED
        BY <3>1
    <2>8. QualifiedCompletionReceiver(cursor) = IF name = <<>> THEN NoReceiver ELSE found
      BY <1>3, <2>2, <2>7, Zenon
    <2>9. QualifiedCompletionReceiver(cursor) =
              IF g = e THEN NoReceiver
              ELSE [name |-> b, position |-> Position(Row(source, g), Column(source, g, Utf16))]
      BY <2>4, <2>5, <2>6, <2>8, Zenon
    <2> QED
      BY <2>9 DEF b, e
  <1> QED
    BY <1>1, <1>4, <1>5, <1>6

\* ReceiversAreFound: of every place a completion finds the whole identifier before
\* the dot before the prefix, if there is one, and where it begins.
\* (qualified_completion_receiver, identifier_prefix_before)
THEOREM ReceiversAreFound == Spec => []ReceiverPrecedesPrefix
  <1>1. ASSUME IInv PROVE ReceiverPrecedesPrefix
    <2>1. source \in Seq(Char) /\ clientText = Units(source)
      BY <1>1, BoundedText, SourceTextAssumption DEF IInv, TypeOK, InSync, Text
    <2> SUFFICES ASSUME NEW n \in 0..Len(source)
        PROVE LET cursor   == ClientPosition(clientText, Len(Units(SubSeq(source, 1, n))))
                  prefix   == IdentifierPrefixBefore(cursor)
                  receiver == QualifiedCompletionReceiver(cursor)
                  dotted   == {m \in 1..n : /\ source[m] = "dot"
                                            /\ \A i \in (m + 1)..n : IsIdentifier(source[i])
                                            /\ m > 1 /\ IsIdentifier(source[m - 1])}
              IN  IF dotted = {} THEN receiver = NoReceiver
                  ELSE \A m \in dotted :
                         \E first \in 1..(m - 1) :
                             /\ receiver.name = SubSeq(source, first, m - 1)
                             /\ \A i \in first..(m - 1) : IsIdentifier(source[i])
                             /\ first > 1 => ~IsIdentifier(source[first - 1])
                             /\ receiver.position =
                                  ClientPosition(clientText, Len(Units(SubSeq(source, 1, first - 1))))
                             /\ prefix = SubSeq(source, m + 1, n)
      BY DEF ReceiverPrecedesPrefix
    <2> DEFINE cursor == ClientPosition(clientText, Len(Units(SubSeq(source, 1, n))))
               prefix == IdentifierPrefixBefore(cursor)
               receiver == QualifiedCompletionReceiver(cursor)
               dotted == {m \in 1..n : /\ source[m] = "dot"
                                       /\ \A i \in (m + 1)..n : IsIdentifier(source[i])
                                       /\ m > 1 /\ IsIdentifier(source[m - 1])}
    <2>2. Len(source) \in Nat /\ n \in Nat
      BY <2>1, LenProperties
    <2>3. \A k \in 0..Len(source) : ClientPosition(clientText, Len(Units(SubSeq(source, 1, k))))
                                      = Position(Row(source, k), Column(source, k, Utf16))
      <3> TAKE k \in 0..Len(source)
      <3>1. Len(Units(SubSeq(source, 1, k))) = Offset(source, k, Utf16)
        BY DEF Offset, Units, Pre
      <3>2. ClientPosition(Units(source), Offset(source, k, Utf16))
              = Position(Row(source, k), Column(source, k, Utf16))
        BY <2>1, ClientPositionIs
      <3> QED
        BY <2>1, <3>1, <3>2, Zenon
    <2>4. ByteOffset(source, cursor) = Offset(source, n, Utf8)
      <3>1. cursor = Position(Row(source, n), Column(source, n, Utf16))
        BY <2>3
      <3>2. Row(source, n) \in Nat /\ Column(source, n, Utf16) \in Nat
        BY <2>1, RowAndColumnType, Utf16IsEncoding
      <3> HIDE DEF cursor
      <3>3. Means(cursor, source, n)
        BY <3>1, <3>2 DEF Means, Position
      <3>4. ByteOffsetAndColumn(source, cursor)
              = [offset |-> Offset(source, n, Utf8), column |-> Column(source, n, Utf8)]
        BY <2>1, <3>3, ByteOffsetAndColumnIs
      <3> QED
        BY <3>4 DEF ByteOffset
    <2>5. PICK f \in 0..n : Begins(source, n, f)
      BY <2>1, SomewhereItBegins
    <2> HIDE DEF cursor
    <2>6. /\ prefix = SubSeq(source, f + 1, n)
          /\ f = 0 => receiver = NoReceiver
          /\ f # 0 /\ source[f] # "dot" => receiver = NoReceiver
          /\ f # 0 /\ source[f] = "dot" =>
                 \A g \in 0..(f - 1) : Begins(source, f - 1, g) =>
                     receiver = IF g = f - 1 THEN NoReceiver
                                ELSE [name |-> SubSeq(source, g + 1, f - 1),
                                      position |-> Position(Row(source, g), Column(source, g, Utf16))]
      BY <2>1, <2>4, <2>5, ReceiverIs
    <2>7. ASSUME NEW m \in dotted PROVE f = m /\ m # 0 /\ source[m] = "dot" /\ m > 1
                                        /\ IsIdentifier(source[m - 1])
      <3>1. /\ m \in 1..n /\ source[m] = "dot" /\ m > 1 /\ IsIdentifier(source[m - 1])
            /\ \A i \in (m + 1)..n : IsIdentifier(source[i])
        OBVIOUS
      <3>2. ~IsIdentifier(source[m])
        BY <3>1 DEF IsIdentifier
      <3>3. ~(m \in (f + 1)..n)
        BY <2>5, <3>2 DEF Begins
      <3>4. f # 0 => ~(f \in (m + 1)..n)
        BY <2>5, <3>1 DEF Begins
      <3> QED
        BY <2>2, <2>5, <3>1, <3>3, <3>4
    <2> HIDE DEF prefix, receiver
    <2>8. CASE f = 0 \/ source[f] # "dot"
      <3>1. receiver = NoReceiver
        BY <2>6, <2>8
      <3>2. dotted = {}
        BY <2>7, <2>8
      <3> QED
        BY <3>1, <3>2 DEF cursor, receiver
    <2>9. CASE f # 0 /\ source[f] = "dot"
      <3>1. f - 1 \in 0..Len(source) /\ f \in 1..n /\ f - 1 \in Nat
        BY <2>2, <2>5, <2>9
      <3>2. PICK g \in 0..(f - 1) : Begins(source, f - 1, g)
        BY <2>1, <3>1, SomewhereItBegins
      <3>3. receiver = IF g = f - 1 THEN NoReceiver
                       ELSE [name |-> SubSeq(source, g + 1, f - 1),
                             position |-> Position(Row(source, g), Column(source, g, Utf16))]
        BY <2>6, <2>9, <3>2
      <3>4. CASE g = f - 1
        <4>1. f - 1 = 0 \/ ~IsIdentifier(source[f - 1])
          BY <3>2, <3>4 DEF Begins
        <4>2. ASSUME NEW m \in dotted PROVE FALSE
          <5>1. f = m /\ m > 1 /\ IsIdentifier(source[m - 1])
            BY <2>7
          <5>2. f - 1 # 0
            BY <3>1, <5>1
          <5> QED
            BY <4>1, <5>1, <5>2
        <4>3. dotted = {}
          BY <4>2
        <4>4. receiver = NoReceiver
          BY <3>3, <3>4
        <4> QED
          BY <4>3, <4>4 DEF cursor, receiver
      <3>5. CASE g # f - 1
        <4> DEFINE first == g + 1
        <4>1. /\ first \in 1..(f - 1) /\ first - 1 = g /\ g \in 0..Len(source)
              /\ first > 1 => g # 0
          BY <2>2, <3>1, <3>2, <3>5
        <4> HIDE DEF first
        <4>2. /\ \A i \in first..(f - 1) : IsIdentifier(source[i])
              /\ first > 1 => ~IsIdentifier(source[first - 1])
          BY <3>2, <4>1 DEF Begins, first
        <4>3. /\ receiver.name = SubSeq(source, first, f - 1)
              /\ receiver.position = Position(Row(source, g), Column(source, g, Utf16))
          BY <3>3, <3>5 DEF first
        <4>4. receiver.position = ClientPosition(clientText, Len(Units(SubSeq(source, 1, first - 1))))
          BY <2>3, <4>1, <4>3
        <4>5. prefix = SubSeq(source, f + 1, n)
          BY <2>6
        <4>6. ASSUME dotted = {} PROVE FALSE
          <5>1. f - 1 \in first..(f - 1) /\ f > 1
            BY <3>1, <4>1
          <5>2. IsIdentifier(source[f - 1])
            BY <4>2, <5>1
          <5>3. f \in dotted
            BY <2>5, <2>9, <3>1, <5>1, <5>2 DEF Begins
          <5> QED
            BY <4>6, <5>3
        <4>7. \A m \in dotted :
                \E h \in 1..(m - 1) :
                    /\ receiver.name = SubSeq(source, h, m - 1)
                    /\ \A i \in h..(m - 1) : IsIdentifier(source[i])
                    /\ h > 1 => ~IsIdentifier(source[h - 1])
                    /\ receiver.position =
                         ClientPosition(clientText, Len(Units(SubSeq(source, 1, h - 1))))
                    /\ prefix = SubSeq(source, m + 1, n)
          <5> TAKE m \in dotted
          <5>1. m = f
            BY <2>7
          <5> QED
            BY <4>1, <4>2, <4>3, <4>4, <4>5, <5>1
        <4> QED
          BY <4>6, <4>7 DEF cursor, receiver, prefix
      <3> QED
        BY <3>4, <3>5
    <2> QED
      BY <2>8, <2>9
  <1> QED
    BY <1>1, Invariant, PTL
=============================================================================
