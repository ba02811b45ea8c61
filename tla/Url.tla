---------------------------------- MODULE Url ----------------------------------
(***************************************************************************)
(* Url (url.cpp) and the builder of local paths, uri (url.hpp). A string   *)
(* is a sequence of bytes.                                                 *)
(***************************************************************************)
EXTENDS UrlCodec

Slash == 47
Colon == 58
Digit == 48 .. 57
LineBreaks == {10, 13}      \* what "." does not match in a regular expression
MaxPort    == 65535         \* numeric_limits<unsigned short>::max()

\* The first position of one of the bytes, from pos on, or one behind the string.
FirstOf(s, bytes, pos) == Min({i \in pos .. Len(s) : s[i] \in bytes} \cup {Len(s) + 1})

Scheme(ssl)  == <<104, 116, 116, 112>> \o (IF ssl THEN <<115>> ELSE <<>>) \o <<Colon, Slash, Slash>>

\* lexical_cast and operator<< of numbers
NumberOf(digits) == FoldLeft(LAMBDA n, c : 10 * n + c - 48, 0, digits)
DigitsOfPort[n \in Nat] == IF n < 10 THEN <<48 + n>> ELSE Append(DigitsOfPort[n \div 10], 48 + (n % 10))

DefaultUrl == [ssl |-> FALSE, host |-> <<>>, port |-> 80, target |-> <<>>]

\* Mutant: the largest port is refused.
PortBelow(port) == port < MaxPort

PortFits(port) == port <= MaxPort

\* The address behind its scheme: a host, a colon and up to five digits or nothing, a slash
\* or nothing, and the rest.
Address(ssl, s) ==
    LET hostEnd   == FirstOf(s, {Colon, Slash}, 1)
        digitsEnd == Min({FirstOf(s, Byte \ Digit, hostEnd + 1), hostEnd + 6})
        ported    == hostEnd < Len(s) /\ s[hostEnd] = Colon /\ digitsEnd > hostEnd + 1
        rest      == IF ported THEN digitsEnd ELSE hostEnd
        slash     == rest <= Len(s) /\ s[rest] = Slash
    IN  [ssl    |-> ssl,
         host   |-> SubSeq(s, 1, hostEnd - 1),
         port   |-> IF ported THEN NumberOf(SubSeq(s, hostEnd + 1, digitsEnd - 1)) ELSE IF ssl THEN 443 ELSE 80,
         target |-> SubSeq(s, IF slash THEN rest + 1 ELSE rest, Len(s))]

\* Url::from_string
UrlFromString(s) ==
    LET schemes == {ssl \in BOOLEAN : IsPrefix(Scheme(ssl), s)}
        urls    == {Address(ssl, SubSeq(s, Len(Scheme(ssl)) + 1, Len(s))) : ssl \in schemes}
        matches == {url \in urls : url.host # <<>> /\ Range(url.target) \cap LineBreaks = {} /\ PortFits(url.port)}
    IN  IF matches = {} THEN DefaultUrl ELSE CHOOSE url \in matches : TRUE

\* Url::to_string
UrlToString(url) == Scheme(url.ssl) \o url.host \o <<Colon>> \o DigitsOfPort[url.port] \o <<Slash>> \o url.target

\* uri, of fragments that are texts; a number is the text of its digits, which encode leaves alone.
Uri(fragments) ==
    <<Slash>> \o FlattenSeq([i \in 1 .. Len(fragments) |->
                    (IF i = 1 THEN <<>> ELSE <<Slash>>) \o Encode(fragments[i])])
=============================================================================
