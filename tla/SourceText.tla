----------------------------- MODULE SourceText -----------------------------
(***************************************************************************)
(* The text of an open document: src/text_position.rs, which turns the     *)
(* positions of the protocol into byte offsets and back, and the edits and *)
(* text queries of src/syntax.rs built on it.                              *)
(*                                                                         *)
(* The server holds the text in UTF-8 and its client in UTF-16: a position *)
(* is a line and a number of UTF-16 units, a place in the server's text a  *)
(* byte offset, and a point of the incremental parser a row and a number   *)
(* of bytes. A character stands for those of its width.                    *)
(***************************************************************************)
EXTENDS Integers, SequencesExt

CONSTANTS
    MaxLength,  \* bound on the characters of a text
    MaxInsert,  \* bound on those one change inserts
    MaxChanges  \* bound on the changes made

ASSUME SourceTextAssumption ==
    MaxLength \in Nat /\ MaxInsert \in Nat /\ MaxChanges \in Nat

VARIABLES
    source,     \* the server's text
    clientText, \* the client's, a sequence of UTF-16 units
    before,     \* history: the server's text before the last change
    parserEdit, \* history: what the last change told the parser of it
    exact,      \* history: whether its range was one of places in the text
    changes     \* how many changes were made

vars == <<source, clientText, before, parserEdit, exact, changes>>

Char == {"letter", "accented", "clef", "dot", "newline"}
IsIdentifier(ch) == ch \in {"letter", "accented"}

\* The encodings: what is counted in bytes, and what in UTF-16 units.
Utf8 == [ch \in Char |-> CASE ch = "accented" -> <<"a1", "a2">>
                          [] ch = "clef" -> <<"c1", "c2", "c3", "c4">>
                          [] OTHER -> <<ch>>]
Utf16 == [ch \in Char |-> IF ch = "clef" THEN <<"high", "low">> ELSE <<ch>>]
Encode(text, code) == FlattenSeq([i \in DOMAIN text |-> code[text[i]]])
Bytes(text) == Encode(text, Utf8)
Units(text) == Encode(text, Utf16)

Text == BoundedSeq(Char, MaxLength)
Position(l, c) == [line |-> l, character |-> c]
Point(r, c) == [row |-> r, column |-> c]
NoEdit == [start_byte |-> 0, old_end_byte |-> 0, new_end_byte |-> 0,
           start_position |-> Point(0, 0), old_end_position |-> Point(0, 0),
           new_end_position |-> Point(0, 0)]

TypeOK ==
    /\ source \in Text
    /\ before \in Text
    /\ parserEdit.start_byte <= parserEdit.old_end_byte
    /\ parserEdit.old_end_byte <= Len(Bytes(before))
    /\ parserEdit.start_byte <= parserEdit.new_end_byte
    /\ exact \in BOOLEAN
    /\ changes \in 0..MaxChanges

---------------------------------------------------------------------------
(* text_position.rs                                                        *)

Upto(text, i) == SubSeq(text, 1, i - 1)
UptoFirst(text, places) == IF places = {} THEN text ELSE Upto(text, Min(places))
AfterLast(text, places) == SubSeq(text, Max({0} \cup places) + 1, Len(text))

Newlines(text) == {i \in DOMAIN text : text[i] = "newline"}
NewlinesIn(text) == Cardinality(Newlines(text))
LastLine(text) == AfterLast(text, Newlines(text))

\* Mutant: the characters of the line counted, not their UTF-16 units.
StopsByCharacters(text, position, i) ==
    /\ NewlinesIn(Upto(text, i)) = position.line
    /\ \/ Len(LastLine(Upto(text, i))) >= position.character
       \/ text[i] = "newline"

\* The scan for a position stops at the first character at or behind it in its
\* line, at the line's end if the line is shorter.
Stops(text, position, i) ==
    /\ NewlinesIn(Upto(text, i)) = position.line
    /\ \/ Len(Units(LastLine(Upto(text, i)))) >= position.character
       \/ text[i] = "newline"

\* position_to_byte_offset_and_column; a line past the end stops at the end.
ByteOffsetAndColumn(text, position) ==
    LET head == UptoFirst(text, {i \in DOMAIN text : Stops(text, position, i)})
    IN  [offset |-> Len(Bytes(head)), column |-> Len(Bytes(LastLine(head)))]

ByteOffset(text, position) == ByteOffsetAndColumn(text, position).offset

\* Mutant: characters instead of UTF-16 units.
PositionOfCharacter(text, byteOffset) ==
    LET head == UptoFirst(text, {i \in DOMAIN text : Len(Bytes(Upto(text, i))) >= byteOffset})
    IN  Position(NewlinesIn(head), Len(LastLine(head)))

\* byte_offset_to_position
PositionOfByte(text, byteOffset) ==
    LET head == UptoFirst(text, {i \in DOMAIN text : Len(Bytes(Upto(text, i))) >= byteOffset})
    IN  Position(NewlinesIn(head), Len(Units(LastLine(head))))

\* The characters of the text between two byte offsets, as a String slices them.
Between(text, from, to) ==
    LET starting(limit) == {i \in DOMAIN text : Len(Bytes(Upto(text, i))) < limit}
    IN  SubSeq(text, Cardinality(starting(from)) + 1, Cardinality(starting(to)))

---------------------------------------------------------------------------
(* SyntaxTree::edit                                                        *)

\* point_after_insert
PointAfterInsert(start, inserted) ==
    IF "newline" \in ToSet(inserted)
    THEN Point(start.row + NewlinesIn(inserted), Len(Bytes(LastLine(inserted))))
    ELSE Point(start.row, start.column + Len(Bytes(inserted)))

Ends(range) ==
    LET first == ByteOffsetAndColumn(source, range.start)
        last  == ByteOffsetAndColumn(source, range.end)
    IN  <<[byte |-> first.offset, point |-> Point(range.start.line, first.column)],
          [byte |-> last.offset, point |-> Point(range.end.line, last.column)]>>

Apply(start, end, inserted) ==
    /\ source' = Between(source, 0, start.byte) \o inserted
                     \o Between(source, end.byte, Len(Bytes(source)))
    /\ parserEdit' = [start_byte |-> start.byte,
                      old_end_byte |-> end.byte,
                      new_end_byte |-> start.byte + Len(Bytes(inserted)),
                      start_position |-> start.point,
                      old_end_position |-> end.point,
                      new_end_position |-> PointAfterInsert(start.point, inserted)]

\* Mutant: a backwards range is taken as it comes.
EditUnswapped(range, inserted) == Apply(Ends(range)[1], Ends(range)[2], inserted)

\* Mutant: the offsets of a backwards range swapped, its points forgotten.
EditSwappingBytes(range, inserted) ==
    LET e == Ends(range)
        low == IF e[1].byte > e[2].byte THEN e[2].byte ELSE e[1].byte
        high == IF e[1].byte > e[2].byte THEN e[1].byte ELSE e[2].byte
    IN  Apply([e[1] EXCEPT !.byte = low], [e[2] EXCEPT !.byte = high], inserted)

\* A change with a range; its two ends change places if they come backwards.
Edit(range, inserted) ==
    LET e == Ends(range)
    IN  IF e[1].byte > e[2].byte THEN Apply(e[2], e[1], inserted)
        ELSE Apply(e[1], e[2], inserted)

\* A change without one is the whole text, parsed afresh.
Replace(text) ==
    /\ source' = text
    /\ parserEdit' = NoEdit

---------------------------------------------------------------------------
(* The queries of completion. A place is given as a byte offset.           *)

\* The characters of an identifier that end right at the byte offset.
IdentifierBefore(byteOffset) ==
    LET head == Between(source, 0, byteOffset)
    IN  AfterLast(head, {i \in DOMAIN head : ~IsIdentifier(head[i])})

\* identifier_prefix_before
IdentifierPrefixBefore(position) == IdentifierBefore(ByteOffset(source, position))

NoReceiver == [name |-> <<>>, position |-> Position(0, 0)]

\* Mutant: the prefix measured in characters.
ReceiverByCharacters(position) ==
    LET dot  == ByteOffset(source, position) - Len(IdentifierPrefixBefore(position)) - 1
        name == IdentifierBefore(dot)
    IN  IF dot < 0 \/ Between(source, dot, dot + 1) # <<"dot">> \/ name = <<>>
        THEN NoReceiver
        ELSE [name |-> name, position |-> PositionOfByte(source, dot - Len(Bytes(name)))]

\* qualified_completion_receiver
QualifiedCompletionReceiver(position) ==
    LET dot  == ByteOffset(source, position) - Len(Bytes(IdentifierPrefixBefore(position))) - 1
        name == IdentifierBefore(dot)
    IN  IF dot < 0 \/ Between(source, dot, dot + 1) # <<"dot">> \/ name = <<>>
        THEN NoReceiver
        ELSE [name |-> name, position |-> PositionOfByte(source, dot - Len(Bytes(name)))]

---------------------------------------------------------------------------
(* The client, which keeps the same text in UTF-16.                        *)

Whole(units, k) == k < Len(units) => units[k + 1] # "low"
Places(units) == {k \in 0..Len(units) : Whole(units, k)}

\* The place k of the client's text, in its own counting.
ClientPosition(units, k) ==
    Position(NewlinesIn(SubSeq(units, 1, k)), Len(LastLine(SubSeq(units, 1, k))))

\* The positions that mean the place k: its own and, at the end of a line or
\* of the text, those that lie behind.
PositionsOf(units, k) ==
    LET own == ClientPosition(units, k)
    IN  {own}
        \cup (IF k = Len(units) \/ units[k + 1] = "newline"
              THEN {[own EXCEPT !.character = @ + 2]} ELSE {})
        \cup (IF k = Len(units) THEN {Position(own.line + 1, 0)} ELSE {})

Spliced(units, j, k, inserted) ==
    SubSeq(units, 1, j) \o Units(inserted) \o SubSeq(units, k + 1, Len(units))

\* The user replaces what is between two places, from either end.
Change ==
    \E j, k \in Places(clientText), inserted \in BoundedSeq(Char, MaxInsert) :
        LET low == IF j < k THEN j ELSE k
            high == IF j < k THEN k ELSE j
        IN  /\ \E p \in PositionsOf(clientText, j), q \in PositionsOf(clientText, k) :
                 /\ Edit([start |-> p, end |-> q], inserted)
                 /\ exact' = (/\ p.line = ClientPosition(clientText, j).line
                              /\ q.line = ClientPosition(clientText, k).line)
            /\ Len(source') <= MaxLength
            /\ clientText' = Spliced(clientText, low, high, inserted)
            /\ before' = source

\* Or the editor sends the whole text.
ChangeAll ==
    \E text \in Text :
        /\ Replace(text)
        /\ clientText' = Units(text)
        /\ before' = source
        /\ exact' = FALSE

Init ==
    /\ source \in Text
    /\ clientText = Units(source)
    /\ before = source
    /\ parserEdit = NoEdit
    /\ exact = FALSE
    /\ changes = 0

Next ==
    /\ changes < MaxChanges
    /\ changes' = changes + 1
    /\ Change \/ ChangeAll

Spec == Init /\ [][Next]_vars

---------------------------------------------------------------------------
(* Properties.                                                             *)

\* Both sides hold the same text after every sequence of changes, forwards or
\* backwards, between characters of any width, and up to or behind the end of
\* a line or of the text. (edit, position_to_byte_offset_and_column)
InSync == clientText = Units(source)

\* The row and the byte column of a place in a sequence of bytes.
PointOf(bytes, k) ==
    Point(NewlinesIn(SubSeq(bytes, 1, k)), Len(LastLine(SubSeq(bytes, 1, k))))

\* The parser is told of a change by the offsets and by the points of the same
\* three places, in the text it was made in and in the one it makes, as long
\* as the lines the client named exist. (edit, point_after_insert)
EditPointsFit ==
    exact =>
        /\ parserEdit.start_position = PointOf(Bytes(before), parserEdit.start_byte)
        /\ parserEdit.old_end_position = PointOf(Bytes(before), parserEdit.old_end_byte)
        /\ parserEdit.new_end_position = PointOf(Bytes(source), parserEdit.new_end_byte)

\* The position the server gives of a place is the one the client has for it,
\* and leads back to it. (byte_offset_to_position)
PositionsMatchClient ==
    \A n \in 0..Len(source) :
        LET byte == Len(Bytes(SubSeq(source, 1, n)))
            unit == Len(Units(SubSeq(source, 1, n)))
        IN  /\ PositionOfByte(source, byte) = ClientPosition(clientText, unit)
            /\ ByteOffset(source, PositionOfByte(source, byte)) = byte

\* The receiver of a completion, its dot and the prefix stand one after the
\* other and end at the cursor, the receiver is a whole identifier, and the
\* position given of it is where it begins. (qualified_completion_receiver)
ReceiverPrecedesPrefix ==
    \A n \in 0..Len(source) :
        LET cursor   == ClientPosition(clientText, Len(Units(SubSeq(source, 1, n))))
            prefix   == IdentifierPrefixBefore(cursor)
            receiver == QualifiedCompletionReceiver(cursor)
            dotted   == {m \in 1..n : /\ source[m] = "dot"
                                      /\ \A i \in (m + 1)..n : IsIdentifier(source[i])
                                      /\ m > 1 /\ IsIdentifier(source[m - 1])}
        IN  IF dotted = {} THEN receiver = NoReceiver
            ELSE \A m \in dotted :
                   \E first \in 1..(m - 1) :
                       /\ receiver.name = SubSeq(source, first, m - 1)
                       /\ \A i \in first..(m - 1) : IsIdentifier(source[i])
                       /\ first > 1 => ~IsIdentifier(source[first - 1])
                       /\ receiver.position =
                            ClientPosition(clientText, Len(Units(SubSeq(source, 1, first - 1))))
                       /\ prefix = SubSeq(source, m + 1, n)
=============================================================================
