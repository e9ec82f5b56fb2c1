-------------------------- MODULE WorkspaceIndex --------------------------
(***************************************************************************)
(* The symbol index of src/workspace_index.rs: three maps that update_file *)
(* keeps in step, and the queries that completion, hover and               *)
(* goto-definition make of them (src/symbol.rs ranks and narrows).         *)
(*                                                                         *)
(* A name is a sequence of letters, a letter and a URI a number, ordered   *)
(* as the strings are. A symbol in the list of a file may carry another    *)
(* file's URI: a Lombok accessor redirected to its field does.             *)
(***************************************************************************)
EXTENDS Integers, SequencesExt

CONSTANTS
    Uri,
    Letter,
    Symbol,       \* the symbols extraction and redirection may produce
    NoOwner,      \* the owner of a top-level type or an import
    Key,          \* the pairs (generation, version) that arrive
    MaxSymbols    \* bound on the symbols of one file

ASSUME WorkspaceIndexAssumption ==
    /\ Uri \subseteq Nat
    /\ Letter \subseteq Nat
    /\ MaxSymbols \in Nat
    /\ \A s \in Symbol :
         /\ s.name \in Seq(Letter) \ {<<>>}
         /\ s.uri \in Uri
         /\ s.isImport \in BOOLEAN
         /\ s.line \in Nat

VARIABLES byName, byUri, applied

vars == <<byName, byUri, applied>>

SymbolList == BoundedSeq(Symbol, MaxSymbols)
Name == {s.name : s \in Symbol}

TypeOK ==
    /\ DOMAIN byName \subseteq Name
    /\ \A n \in DOMAIN byName : byName[n] \in Seq(Symbol)
    /\ DOMAIN byUri \subseteq Uri
    /\ \A u \in DOMAIN byUri : byUri[u] \in SymbolList
    /\ DOMAIN applied = DOMAIN byUri
    /\ \A u \in DOMAIN applied : applied[u] \in Key

Init ==
    /\ byName = <<>>
    /\ byUri = <<>>
    /\ applied = <<>>

---------------------------------------------------------------------------
(* update_file                                                             *)

KeyLess(a, b) == a[1] < b[1] \/ (a[1] = b[1] /\ a[2] < b[2])

\* f with the value v at x, whether or not f had one.
Put(f, x, v) == [y \in DOMAIN f \cup {x} |-> IF y = x THEN v ELSE f[y]]
Drop(f, x) == [y \in DOMAIN f \ {x} |-> f[y]]

Bucket(buckets, n) == IF n \in DOMAIN buckets THEN buckets[n] ELSE <<>>

\* Mutant: every equal symbol goes, those of other files too.
TakeOutAll(buckets, old) ==
    LET bucket == SelectSeq(Bucket(buckets, old.name), LAMBDA s : s # old)
    IN  IF bucket = <<>> THEN Drop(buckets, old.name) ELSE Put(buckets, old.name, bucket)

\* Takes one instance of the symbol out of its bucket, found by value, and
\* drops a bucket left empty.
TakeOut(buckets, old) ==
    LET bucket == RemoveFirst(Bucket(buckets, old.name), old)
    IN  IF bucket = <<>> THEN Drop(buckets, old.name) ELSE Put(buckets, old.name, bucket)

PutIn(buckets, symbol) ==
    Put(buckets, symbol.name, Append(Bucket(buckets, symbol.name), symbol))

\* Mutant: a file without symbols is kept out of byUri, not out of applied.
UpdateFileNonEmpty(u, key, symbols) ==
    /\ u \in DOMAIN applied => ~KeyLess(key, applied[u])
    /\ LET old == IF u \in DOMAIN byUri THEN byUri[u] ELSE <<>>
       IN  byName' = FoldLeft(PutIn, FoldLeft(TakeOut, byName, old), symbols)
    /\ byUri' = IF symbols = <<>> THEN Drop(byUri, u) ELSE Put(byUri, u, symbols)
    /\ applied' = Put(applied, u, key)

\* The key refused is one older than the key applied; an equal one is not.
UpdateFile(u, key, symbols) ==
    /\ u \in DOMAIN applied => ~KeyLess(key, applied[u])
    /\ LET old == IF u \in DOMAIN byUri THEN byUri[u] ELSE <<>>
       IN  byName' = FoldLeft(PutIn, FoldLeft(TakeOut, byName, old), symbols)
    /\ byUri' = Put(byUri, u, symbols)
    /\ applied' = Put(applied, u, key)

Next ==
    \E u \in Uri, key \in Key, symbols \in SymbolList : UpdateFile(u, key, symbols)

Spec == Init /\ [][Next]_vars

---------------------------------------------------------------------------
(* The queries.                                                            *)

Lookup(n) == Bucket(byName, n)

\* The order of strings: a prefix comes before what it begins.
NameLess(a, b) ==
    \/ IsStrictPrefix(a, b)
    \/ \E i \in DOMAIN a \cap DOMAIN b :
         a[i] < b[i] /\ \A j \in 1..(i - 1) : a[j] = b[j]

\* The elements of a set, one after the other as the pairs in `less' have them.
Arranged(S, less) ==
    [k \in 1..Cardinality(S) |->
        CHOOSE x \in S : Cardinality({y \in S : <<y, x>> \in less}) = k - 1]

\* What a list holds at some of its places.
Kept(list, places) ==
    LET order == Arranged(places, {p \in places \X places : p[1] < p[2]})
    IN  [k \in DOMAIN order |-> list[order[k]]]

\* BTreeMap::range from the prefix on, while the names still start with it.
MatchingByPrefix(prefix) ==
    LET from  == {n \in DOMAIN byName : ~NameLess(n, prefix)}
        names == Arranged(from, {p \in from \X from : NameLess(p[1], p[2])})
        stop  == SelectInSeq(names, LAMBDA n : ~IsPrefix(prefix, n))
        taken == IF stop = 0 THEN names ELSE SubSeq(names, 1, stop - 1)
    IN  FlattenSeq([i \in DOMAIN taken |-> byName[taken[i]]])

\* relevance_key: declarations before imports, then by URI, then by place.
MoreRelevant(s, t) ==
    LET rank(x) == <<IF x.isImport THEN 1 ELSE 0, x.uri, x.line>>
    IN  NameLess(rank(s), rank(t))

\* By name and relevance; what is the same in both stays in its order.
Before(s, t) == NameLess(s.name, t.name) \/ (s.name = t.name /\ MoreRelevant(s, t))

Sorted(list) ==
    LET earlier(i, j) ==
            Before(list[i], list[j]) \/ (~Before(list[j], list[i]) /\ i < j)
        places == DOMAIN list
        order  == Arranged(places, {p \in places \X places : earlier(p[1], p[2])})
    IN  [k \in DOMAIN order |-> list[order[k]]]

\* dedup_by: of neighbours with one name the first.
FirstOfNames(list) ==
    Kept(list, {i \in DOMAIN list : i = 1 \/ list[i].name # list[i - 1].name})

\* Mutant: the first indexed symbol of each name, not the most relevant.
CompletionsFirstIndexed(prefix) == FirstOfNames(MatchingByPrefix(prefix))

Completions(prefix) == FirstOfNames(Sorted(MatchingByPrefix(prefix)))

OwnedBy(list, owner) == Kept(list, {i \in DOMAIN list : list[i].owner = owner})

\* Mutant: the members of the completions, one per name.
CompletionsThenOwner(prefix, owner) == OwnedBy(Completions(prefix), owner)

CompletionsByOwner(prefix, owner) == OwnedBy(MatchingByPrefix(prefix), owner)

\* The candidates the receiver's type owns, or all when it owns none or there is
\* no receiver whose type is known.
NarrowToReceiverType(candidates, receiver) ==
    LET owned == OwnedBy(candidates, receiver)
    IN  IF receiver # NoOwner /\ owned # <<>> THEN owned ELSE candidates

\* Mutant: whatever was indexed first.
FirstMatch(candidates) == candidates[1]

\* min_by_key: the first of the most relevant candidates.
BestMatch(candidates) ==
    candidates[SelectInSeq(candidates, LAMBDA s :
        \A t \in ToSet(candidates) : ~MoreRelevant(t, s))]

\* goto_definition and hover of a name, on a receiver of the type given.
GotoDefinition(name, receiver) ==
    LET selected == NarrowToReceiverType(Lookup(name), receiver)
    IN  [i \in DOMAIN selected |-> [uri |-> selected[i].uri, line |-> selected[i].line]]

Hover(name, receiver) ==
    LET selected == NarrowToReceiverType(Lookup(name), receiver)
    IN  IF selected = <<>> THEN <<>> ELSE <<BestMatch(selected)>>

\* completion: after a dot the members of the receiver's type, or nothing when
\* it is not known; elsewhere a name, once a letter of it is there.
Completion(prefix, dotted, receiver) ==
    IF dotted
    THEN IF receiver = NoOwner THEN <<>> ELSE CompletionsByOwner(prefix, receiver)
    ELSE IF prefix = <<>> THEN <<>> ELSE Completions(prefix)

---------------------------------------------------------------------------
(* Properties.                                                             *)

Positions(s, list) == {i \in DOMAIN list : list[i] = s}
Occurrences(s, list) == Cardinality(Positions(s, list))

\* Where the lists of all files have the symbol.
Places(s) == UNION {{u} \X Positions(s, byUri[u]) : u \in DOMAIN byUri}

\* The symbols the lists of all files hold, whatever order they came in.
Indexed == UNION {ToSet(byUri[u]) : u \in DOMAIN byUri}

\* A name's bucket holds each symbol exactly as often as the lists of all
\* files do, however often and in whatever order the files were indexed again
\* and whatever URI the symbols carry: nothing stale stays, nothing of another
\* file goes with it, and no bucket is left empty. (update_file's cleanup)
BucketsMatchFiles ==
    /\ \A n \in DOMAIN byName :
          byName[n] # <<>> /\ \A s \in ToSet(byName[n]) : s.name = n
    /\ \A s \in Symbol :
          Occurrences(s, Bucket(byName, s.name)) = Cardinality(Places(s))

Prefix == UNION {Prefixes(n) : n \in Name}
Owner == {s.owner : s \in Symbol} \ {NoOwner}

\* Completion offers each indexed name with the prefix once, in order, as the
\* most relevant symbol of that name any file has: an answer the order in
\* which files were indexed cannot change. (completion, relevance_key)
CompletionsAreBest ==
    \A p \in Prefix \ {<<>>} :
        LET offered == Completion(p, FALSE, NoOwner)
            wanted  == {s \in Indexed : IsPrefix(p, s.name)}
        IN  /\ {s.name : s \in ToSet(offered)} = {s.name : s \in wanted}
            /\ \A i \in DOMAIN offered :
                 /\ \A s \in wanted : s.name = offered[i].name => ~MoreRelevant(s, offered[i])
                 /\ i > 1 => NameLess(offered[i - 1].name, offered[i].name)

\* Completion after a dot offers all members the receiver's type has in any
\* file and nothing else: a more relevant symbol of the same name that another
\* type owns takes nothing away. (completion, completions_by_owner)
MembersAreComplete ==
    \A p \in Prefix, o \in Owner :
        ToSet(Completion(p, TRUE, o))
        = {s \in Indexed : s.owner = o /\ IsPrefix(p, s.name)}

\* Goto-definition leads to every symbol of the name the receiver's type owns,
\* or to all of the name when it owns none or is not known; and hover shows the
\* most relevant of just these, whatever the order the bucket was filled in.
\* (goto_definition, hover)
HoverIsOrderFree ==
    \A n \in DOMAIN byName, o \in Owner \cup {NoOwner} :
        LET named  == {s \in Indexed : s.name = n}
            owned  == {s \in named : o # NoOwner /\ s.owner = o}
            choice == IF owned # {} THEN owned ELSE named
        IN  /\ ToSet(GotoDefinition(n, o)) = {[uri |-> s.uri, line |-> s.line] : s \in choice}
            /\ \A s \in ToSet(Hover(n, o)) :
                 s \in choice /\ \A t \in choice : ~MoreRelevant(t, s)
===========================================================================
