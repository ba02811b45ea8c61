-------------------------------- MODULE Cookies --------------------------------
(***************************************************************************)
(* parse_cookie_values (utils/parse_cookie_values.cpp): a regular          *)
(* expression that is searched for again behind each match.                *)
(***************************************************************************)
EXTENDS Url

Equals    == 61
Semicolon == 59
Blank     == (9 .. 13) \cup {Space}     \* what \s matches

\* Mutant: the blanks before a key belong to it.
KeyStartHere(s, pos, end) == pos

\* Blanks are skipped, but a key has one character at least.
KeyStart(s, pos, end) == Min({FirstOf(s, Byte \ Blank, pos), end - 1})

\* The keys and values that the callback gets, if its call number `last` is the one that
\* answers false.
ParseCookieValues(s, last) ==
    LET from[pos \in 1 .. Len(s) + 2] ==
            LET start == FirstOf(s, Byte \ {Equals}, pos)
                equal == FirstOf(s, {Equals}, start)
                end   == FirstOf(s, {Semicolon}, equal + 1)
            IN  [left \in 0 .. last |->
                    IF left = 0 \/ equal > Len(s) THEN <<>>
                    ELSE <<[key   |-> Decode(SubSeq(s, KeyStart(s, start, equal), equal - 1)),
                            value |-> Decode(SubSeq(s, equal + 1, end - 1))]>>
                         \o from[end + 1][left - 1]]
    IN  from[1][last]
=============================================================================
