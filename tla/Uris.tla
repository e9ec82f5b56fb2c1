--------------------------------- MODULE Uris ---------------------------------
(***************************************************************************)
(* src/workspace_scan.rs: from a path to the URI the index knows its file  *)
(* by, and back from a client's URI to the path. A path or a URI's path is *)
(* the sequence of its bytes.                                              *)
(***************************************************************************)
EXTENDS Integers, SequencesExt

SlashByte == 47
Backslash == 92
Percent == 37
Plus == 43

Alphabetic == 65..90 \cup 97..122
Unreserved == Alphabetic \cup 48..57 \cup {45, 46, 95, 126, SlashByte}

NoPath == <<>>

\* normalize_path_for_uri
Normalize(path) ==
    LET slashed == [k \in DOMAIN path |-> IF path[k] = Backslash THEN SlashByte ELSE path[k]]
    IN  IF slashed # <<>> /\ Head(slashed) = SlashByte THEN slashed ELSE <<SlashByte>> \o slashed

HexDigit(n) == IF n < 10 THEN 48 + n ELSE 55 + n
Escaped(byte) == <<Percent, HexDigit(byte \div 16), HexDigit(byte % 16)>>

PercentEncode(path) ==
    FlattenSeq([k \in DOMAIN path |->
        IF path[k] \in Unreserved THEN <<path[k]>> ELSE Escaped(path[k])])

PathToUri(path) == [scheme |-> "file", path |-> PercentEncode(Normalize(path))]

---------------------------------------------------------------------------
DigitValue(c) ==
    CASE c \in 48..57 -> c - 48
      [] c \in 65..70 -> c - 55
      [] c \in 97..102 -> c - 87
      [] OTHER -> -1

\* u8::from_str_radix takes a plus sign, too; -1 if there is no number.
HexValue(high, low) ==
    IF DigitValue(low) = -1 \/ (DigitValue(high) = -1 /\ high # Plus) THEN -1
    ELSE (IF high = Plus THEN 0 ELSE DigitValue(high) * 16) + DigitValue(low)

\* Mutant: an escape at the very end is not seen.
PercentDecodeButLast(text) ==
    LET from[i \in 1..(Len(text) + 1)] ==
            IF i > Len(text) THEN <<>>
            ELSE IF text[i] = Percent /\ i + 2 < Len(text) /\ HexValue(text[i + 1], text[i + 2]) # -1
            THEN <<HexValue(text[i + 1], text[i + 2])>> \o from[i + 3]
            ELSE <<text[i]>> \o from[i + 1]
    IN  from[1]

\* What is no escape stays as it is. (Bytes that are no text then are replaced:
\* paths here are text.)
PercentDecode(text) ==
    LET from[i \in 1..(Len(text) + 1)] ==
            IF i > Len(text) THEN <<>>
            ELSE IF text[i] = Percent /\ i + 2 <= Len(text) /\ HexValue(text[i + 1], text[i + 2]) # -1
            THEN <<HexValue(text[i + 1], text[i + 2])>> \o from[i + 3]
            ELSE <<text[i]>> \o from[i + 1]
    IN  from[1]

HasDrivePrefix(path) ==
    Len(path) >= 3 /\ path[1] = SlashByte /\ path[2] \in Alphabetic /\ path[3] = 58

\* strip_windows_drive_prefix
StripDrive(path) == IF HasDrivePrefix(path) THEN Tail(path) ELSE path

UriToPath(uri) ==
    IF uri.scheme # "file" THEN NoPath ELSE StripDrive(PercentDecode(uri.path))
=============================================================================
