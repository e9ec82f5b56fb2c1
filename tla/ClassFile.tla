------------------------------ MODULE ClassFile ------------------------------
(***************************************************************************)
(* src/classfile.rs: from the bytes of a class file to its names and       *)
(* members. The parser goes over the bytes once; a step reads one item of  *)
(* the file: the header, a constant, the class's own names, an interface,  *)
(* a member, the attributes at the end.                                    *)
(*                                                                         *)
(* A text is the sequence of its code points. Bytes behind the end of the  *)
(* file count as zero here: an item that needs one ends behind the end     *)
(* itself, and is refused for that (UnexpectedEof).                        *)
(***************************************************************************)
EXTENDS Integers, FiniteSets, SequencesExt

VARIABLES
    bytes,  \* the file
    pos,    \* how far it is read
    phase,  \* what is read next
    count,  \* the constants announced, plus one
    left,   \* how many items of this phase are left
    pool,   \* the constants read: pool[i + 1] is the one with the index i
    class   \* the class read so far

parser == <<bytes, pos, phase, count, left, pool, class>>

MAGIC == <<202, 254, 186, 190>>
Flag == [public |-> 1, protected |-> 4, static |-> 8, bridge |-> 64, interface |-> 512,
         synthetic |-> 4096, enum |-> 16384]
Has(flags, f) == (flags \div Flag[f]) % 2 = 1

Bad == <<-1>>            \* no text: -1 is no code point
NoClass == <<>>
Clinit == <<60, 99, 62>>    \* "<clinit>"
Other == [tag |-> "other"]
Unusable == [tag |-> "unusable"]

NoClassYet == [access_flags |-> 0, this_class |-> <<>>, super_class |-> NoClass,
               interfaces |-> <<>>, fields |-> <<>>, methods |-> <<>>]

Byte(p) == IF p < Len(bytes) THEN bytes[p + 1] ELSE 0
U2(p) == Byte(p) * 256 + Byte(p + 1)
\* A length beyond 2^30 is cut down to it: both lie behind every end.
U4(p) == IF U2(p) >= 16384 THEN 1073741824 ELSE U2(p) * 65536 + U2(p + 2)
Bytes(p, n) == [i \in 1..n |-> Byte(p + i - 1)]

---------------------------------------------------------------------------
(* decode_modified_utf8                                                    *)

\* Code points: two kinds of surrogates, and what only a pair of them writes.
FirstHigh == 55296
FirstLow == 56320
LastLow == 57343
FirstPaired == 65536
LastCodePoint == 1114111
IsScalar(c) == c \in 0..(FirstHigh - 1) \/ c \in (LastLow + 1)..LastCodePoint

\* How many bytes the character at i takes, 0 if there is none.
Width(b, i) ==
    CASE b[i] < 128 -> 1
      [] b[i] \in 192..223 -> 2
      [] b[i] \in 224..239 ->
           IF i + 2 <= Len(b) /\ (b[i] % 16) * 64 + (b[i + 1] % 64) \in 864..879 THEN 6 ELSE 3
      [] OTHER -> 0

ThreeBytes(b, i) == (b[i] % 16) * 4096 + (b[i + 1] % 64) * 64 + (b[i + 2] % 64)

\* Mutant: every three bytes are a character of their own.
CharAtUnpaired(b, i) ==
    CASE Width(b, i) = 1 -> b[i]
      [] Width(b, i) = 2 -> (b[i] % 32) * 64 + (b[i + 1] % 64)
      [] OTHER -> ThreeBytes(b, i)

\* The code point there, -1 if it is no character: an unpaired surrogate is none.
CharAt(b, i) ==
    CASE Width(b, i) = 1 -> b[i]
      [] Width(b, i) = 2 -> (b[i] % 32) * 64 + (b[i + 1] % 64)
      [] Width(b, i) = 3 -> ThreeBytes(b, i)
      [] OTHER ->
           IF b[i + 3] \in 224..239 /\ ThreeBytes(b, i + 3) \in FirstLow..LastLow
           THEN FirstPaired + (ThreeBytes(b, i) - FirstHigh) * 1024
                + ThreeBytes(b, i + 3) - FirstLow
           ELSE -1

DecodeModifiedUtf8(b) ==
    LET from[i \in 1..(Len(b) + 1)] ==
            IF i > Len(b) THEN <<>>
            ELSE LET w == Width(b, i)
                 IN  IF w = 0 \/ i + w - 1 > Len(b) THEN <<-1>>
                     ELSE <<CharAt(b, i)>> \o from[i + w]
        text == from[1]
    IN  IF \A k \in DOMAIN text : IsScalar(text[k]) THEN text ELSE Bad

---------------------------------------------------------------------------
(* The constant pool                                                       *)

Size(tag) ==
    CASE tag \in {3, 4, 9, 10, 11, 12, 17, 18} -> 4
      [] tag \in {5, 6} -> 8
      [] tag = 15 -> 3
      [] OTHER -> 2   \* 7, 8, 16, 19, 20

Tag == {1} \cup 3..12 \cup 15..20
ConstantEnd == pos + 1 + (IF Byte(pos) = 1 THEN 2 + U2(pos + 1) ELSE Size(Byte(pos)))

\* What the constant at pos adds to the pool: a long or a double two entries.
Constant ==
    LET tag == Byte(pos)
    IN  CASE tag = 1 ->
               <<[tag |-> "utf8", text |-> DecodeModifiedUtf8(Bytes(pos + 3, U2(pos + 1)))]>>
          [] tag = 7 -> <<[tag |-> "class", name |-> U2(pos + 1)]>>
          [] tag \in {5, 6} -> <<Other, Unusable>>
          [] OTHER -> <<Other>>

Entry(i) == IF i < Len(pool) THEN pool[i + 1] ELSE Unusable
Utf8At(i) == IF Entry(i).tag = "utf8" THEN Entry(i).text ELSE Bad
ClassNameAt(i) == IF Entry(i).tag = "class" THEN Utf8At(Entry(i).name) ELSE Bad

---------------------------------------------------------------------------
(* Members and attributes                                                  *)

\* skip_attributes: the end of the list of attributes that begins at p.
AttributesEnd(p) ==
    LET ends[n \in 0..U2(p)] ==
            IF n = 0 THEN p + 2
            ELSE IF ends[n - 1] > Len(bytes) THEN ends[n - 1]
            ELSE ends[n - 1] + 6 + U4(ends[n - 1] + 2)
    IN  ends[U2(p)]

Member == [name |-> Utf8At(U2(pos + 2)), descriptor |-> Utf8At(U2(pos + 4)),
           access_flags |-> U2(pos)]

\* Where the item ends that is read next, and whether what it says makes sense.
ItemEnd ==
    CASE phase = "header" -> 10
      [] phase = "constants" -> ConstantEnd
      [] phase = "names" -> pos + 8
      [] phase = "interfaces" -> pos + 2
      [] phase \in {"fields", "methods"} -> AttributesEnd(pos + 6)
      [] OTHER -> AttributesEnd(pos)

ItemMakesSense ==
    CASE phase = "header" -> SubSeq(bytes, 1, 4) = MAGIC
      [] phase = "constants" ->
           Byte(pos) \in Tag /\ (Byte(pos) = 1 => Constant[1].text # Bad)
      [] phase = "names" ->
           /\ ClassNameAt(U2(pos + 2)) # Bad
           /\ U2(pos + 4) # 0 => ClassNameAt(U2(pos + 4)) # Bad
      [] phase = "interfaces" -> ClassNameAt(U2(pos)) # Bad
      [] phase \in {"fields", "methods"} -> Member.name # Bad /\ Member.descriptor # Bad
      [] OTHER -> TRUE

Parsing == phase \notin {"idle", "done", "failed"}
CanRead(p) == phase = p /\ ItemEnd <= Len(bytes) /\ ItemMakesSense

\* Open a file: what parse() begins with.
OpenFile(content) ==
    /\ bytes' = content
    /\ pos' = 0 /\ phase' = "header" /\ count' = 0 /\ left' = 0
    /\ pool' = <<Unusable>> /\ class' = NoClassYet

\* Every `?' of the parser: the class is given up.
Refuse ==
    /\ Parsing
    /\ \/ left > 0 \/ phase \in {"header", "names", "attributes"}
    /\ ~CanRead(phase)
    /\ phase' = "failed"
    /\ UNCHANGED <<bytes, pos, count, left, pool, class>>

ReadHeader ==
    /\ CanRead("header")
    /\ count' = U2(8) /\ left' = U2(8) - 1
    /\ pos' = ItemEnd /\ phase' = "constants"
    /\ UNCHANGED <<bytes, pool, class>>

\* Mutant: a long counted as one constant.
ReadConstantByOne ==
    /\ left > 0 /\ CanRead("constants")
    /\ pool' = pool \o Constant
    /\ left' = left - 1
    /\ pos' = ItemEnd
    /\ UNCHANGED <<bytes, phase, count, class>>

ReadConstant ==
    /\ left > 0 /\ CanRead("constants")
    /\ pool' = pool \o Constant
    /\ left' = left - Len(Constant)
    /\ pos' = ItemEnd
    /\ UNCHANGED <<bytes, phase, count, class>>

EndConstants ==
    /\ phase = "constants" /\ left <= 0
    /\ phase' = "names"
    /\ UNCHANGED <<bytes, pos, count, left, pool, class>>

\* access_flags, this_class, super_class and the number of interfaces.
ReadNames ==
    /\ CanRead("names")
    /\ class' = [class EXCEPT
          !.access_flags = U2(pos),
          !.this_class = ClassNameAt(U2(pos + 2)),
          !.super_class = IF U2(pos + 4) = 0 THEN NoClass ELSE ClassNameAt(U2(pos + 4))]
    /\ left' = U2(pos + 6)
    /\ pos' = ItemEnd /\ phase' = "interfaces"
    /\ UNCHANGED <<bytes, count, pool>>

ReadInterface ==
    /\ left > 0 /\ CanRead("interfaces")
    /\ class' = [class EXCEPT !.interfaces = Append(@, ClassNameAt(U2(pos)))]
    /\ left' = left - 1 /\ pos' = ItemEnd
    /\ UNCHANGED <<bytes, phase, count, pool>>

ReadField ==
    /\ left > 0 /\ CanRead("fields")
    /\ class' = [class EXCEPT !.fields = Append(@, Member)]
    /\ left' = left - 1 /\ pos' = ItemEnd
    /\ UNCHANGED <<bytes, phase, count, pool>>

\* The static initializer is nobody's to call.
ReadMethod ==
    /\ left > 0 /\ CanRead("methods")
    /\ class' = IF Member.name = Clinit THEN class
                ELSE [class EXCEPT !.methods = Append(@, Member)]
    /\ left' = left - 1 /\ pos' = ItemEnd
    /\ UNCHANGED <<bytes, phase, count, pool>>

\* The count of the next list of members is read when the last one is done.
NextList ==
    /\ left = 0 /\ phase \in {"interfaces", "fields"}
    /\ IF pos + 2 > Len(bytes) THEN phase' = "failed" /\ UNCHANGED <<pos, left>>
       ELSE /\ phase' = IF phase = "interfaces" THEN "fields" ELSE "methods"
            /\ left' = U2(pos)
            /\ pos' = pos + 2
    /\ UNCHANGED <<bytes, count, pool, class>>

EndMethods ==
    /\ phase = "methods" /\ left = 0
    /\ phase' = "attributes"
    /\ UNCHANGED <<bytes, pos, count, left, pool, class>>

ReadAttributes ==
    /\ CanRead("attributes")
    /\ phase' = "done" /\ pos' = ItemEnd
    /\ UNCHANGED <<bytes, count, left, pool, class>>

Parse ==
    \/ Refuse \/ ReadHeader \/ ReadConstant \/ EndConstants \/ ReadNames \/ ReadInterface
    \/ ReadField \/ ReadMethod \/ NextList \/ EndMethods \/ ReadAttributes
=============================================================================
