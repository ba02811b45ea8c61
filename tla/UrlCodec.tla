------------------------------- MODULE UrlCodec -------------------------------
(***************************************************************************)
(* Percent-encoding (url_encode.cpp). A string is a sequence of bytes.     *)
(***************************************************************************)
EXTENDS Integers, SequencesExt

Byte    == 0 .. 255
Space   == 32
Percent == 37
Plus    == 43

\* The bytes that encode leaves alone: letters, digits and -_.!~*'()
Unreserved == (65 .. 90) \cup (97 .. 122) \cup (48 .. 57) \cup {45, 95, 46, 33, 126, 42, 39, 40, 41}

\* charToHex, half a byte at a time, in capitals.
HexDigit(d)  == IF d > 9 THEN d + 55 ELSE d + 48
CharToHex(c) == <<HexDigit(c \div 16), HexDigit(c % 16)>>

\* Mutant: small letters are not made capitals.
SameCase(c) == c

\* c & 0xDF
Capital(c) == IF (c \div 32) % 2 = 1 THEN c - 32 ELSE c

\* hexToChar
DigitValue(c)    == IF c >= 65 THEN Capital(c) - 55 ELSE c - 48
HexToChar(a, b)  == (DigitValue(a) * 16 + DigitValue(b)) % 256
IsXDigit(c)      == c \in (48 .. 57) \cup (65 .. 70) \cup (97 .. 102)

\* Mutant: the plus sign is left alone.
EncodeCharKeepsPlus(c) ==
    CASE c = Space -> <<Plus>>
      [] c \in Unreserved \cup {Plus} -> <<c>>
      [] c \notin Unreserved \cup {Space, Plus} -> <<Percent>> \o CharToHex(c)

EncodeChar(c) ==
    CASE c = Space -> <<Plus>>
      [] c \in Unreserved -> <<c>>
      [] c \notin Unreserved \cup {Space} -> <<Percent>> \o CharToHex(c)

Encode(s) == FlattenSeq([i \in 1 .. Len(s) |-> EncodeChar(s[i])])

\* Whether a percent sequence starts at i.
Escaped(s, i) == i + 2 <= Len(s) /\ s[i] = Percent /\ IsXDigit(s[i + 1]) /\ IsXDigit(s[i + 2])

\* From position i of s on.
Decode(s) ==
    LET decoded[i \in 1 .. Len(s) + 3] ==
            IF i > Len(s) THEN <<>>
            ELSE IF s[i] = Plus THEN <<Space>> \o decoded[i + 1]
            ELSE IF Escaped(s, i) THEN <<HexToChar(s[i + 1], s[i + 2])>> \o decoded[i + 3]
            ELSE <<s[i]>> \o decoded[i + 1]
    IN  decoded[1]
=============================================================================
