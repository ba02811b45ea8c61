----------------------------- MODULE PureFunctions -----------------------------
(***************************************************************************)
(* What the codecs and the file handler promise for one input, which the   *)
(* initial states enumerate. The file handler's promises quantify over     *)
(* what it may find on the disk.                                           *)
(***************************************************************************)
EXTENDS UrlCodec, Url, Cookies, CgiParams, FileHandler, SequencesExt

CONSTANTS
    Bytes,          \* the bytes of texts, beside every text of one byte
    UrlBytes,       \* the bytes of addresses behind the scheme, of hosts and of targets
    CookieBytes,    \* the bytes of the keys and values of cookies
    Ports,          \* numbers of five digits at most
    Numbers,        \* the numbers of a range and the sizes of a file
    MaxText,        \* the lengths: of a text,
    MaxQuery,       \* of a query,
    MaxParams,      \* of a list of parameters,
    MaxPath,        \* of the path of a parameter, in keys,
    MaxKey,         \* of a key, and of the value of a parameter,
    MaxAddress,     \* of an address,
    MaxRest,        \* of what follows a port in an address,
    MaxHost,        \* of a host,
    MaxTarget,      \* of a target,
    MaxCookies,     \* of a list of cookies,
    MaxName,        \* of the key of a cookie,
    MaxValue        \* of its value

ASSUME LengthsAssumption ==
    {MaxText, MaxQuery, MaxParams, MaxPath, MaxKey, MaxAddress, MaxRest, MaxHost, MaxTarget,
     MaxCookies, MaxName, MaxValue} \subseteq Nat
ASSUME NumbersAssumption == Numbers \subseteq Nat
ASSUME PortsAssumption   == \A n \in Ports : n \in Nat /\ n <= 99999
ASSUME BytesAssumption   == Bytes \cup UrlBytes \cup CookieBytes \subseteq Byte

VARIABLE input

Keys    == BoundedSeq(Characters, MaxKey)
Params  == [keys : BoundedSeq(Keys, MaxPath) \ {<<>>}, value : Keys]
Texts   == BoundedSeq(Bytes, MaxText) \cup {<<b>> : b \in Byte}
Queries == BoundedSeq(Tokens, MaxQuery)
Hosts   == BoundedSeq(UrlBytes \ {Colon, Slash}, MaxHost) \ {<<>>}
Targets == BoundedSeq(UrlBytes \ LineBreaks, MaxTarget)
Ported  == {<<97, Colon>> \o DigitsOfPort[n] \o rest : n \in Ports, rest \in BoundedSeq(UrlBytes, MaxRest)}
Named   == [key : BoundedSeq(CookieBytes, MaxName) \ {<<>>}, value : BoundedSeq(CookieBytes, MaxValue)]

Init ==
    \/ input \in [kind : {"text"}, text : Texts]
    \/ input \in [kind : {"query"}, query : Queries]
    \/ input \in [kind : {"params"}, params : BoundedSeq(Params, MaxParams) \ {<<>>}]
    \/ input \in [kind : {"address"}, ssl : BOOLEAN, rest : BoundedSeq(UrlBytes, MaxAddress) \cup Ported]
    \/ input \in [kind : {"url"}, url : [ssl : BOOLEAN, host : Hosts, port : Ports, target : Targets]]
    \/ input \in [kind : {"cookies"}, cookies : BoundedSeq(Named, MaxCookies), blank : BOOLEAN]
    \/ input \in [kind : {"request"}, request : RequestFields(Numbers)]

Next == UNCHANGED input

Spec == Init /\ [][Next]_input

\* The numbers of a set, each once, the least first.
InOrder(S) ==
    CHOOSE order \in [1 .. Cardinality(S) -> S] : \A i, j \in DOMAIN order : i < j => order[i] < order[j]

\* A string cut at the bytes that equal cut.
Pieces(s, cut) ==
    LET cuts == <<0>> \o InOrder({i \in 1 .. Len(s) : s[i] = cut}) \o <<Len(s) + 1>>
    IN  [k \in 1 .. Len(cuts) - 1 |-> SubSeq(s, cuts[k] + 1, cuts[k + 1] - 1)]

\* A path that uri built (url.hpp:56), cut at its slashes and decoded, gives back the fragments,
\* whatever they contain, empty ones too: none is taken for two, none spills into the next, and
\* decode (url_encode.cpp:71) undoes encode.
FragmentsRecovered ==
    input.kind = "text" =>
        LET text == input.text IN
        \A fragments \in {<<text>>} \cup {<<SubSeq(text, 1, i), SubSeq(text, i + 1, Len(text))>> : i \in 0 .. Len(text)} :
            LET pieces == Tail(Pieces(Uri(fragments), Slash))
            IN  [k \in DOMAIN pieces |-> Decode(pieces[k])] = fragments

\* The digits of a number below 16, and where %xy stands in a text.
DigitsOf(n)     == IF n < 10 THEN {48 + n} ELSE {55 + n, 87 + n}
Escape(s, i, n) ==
    /\ i \in 1 .. Len(s) - 2
    /\ s[i] = 37 /\ s[i + 1] \in DigitsOf(n \div 16) /\ s[i + 2] \in DigitsOf(n % 16)
Escapes(s)      == {i \in 1 .. Len(s) : \E n \in Byte : Escape(s, i, n)}
DecodedAt(s, i) ==
    IF i \in Escapes(s) THEN CHOOSE n \in Byte : Escape(s, i, n)
    ELSE IF s[i] = 43 THEN 32 ELSE s[i]

\* Decoding replaces each percent sign followed by two digits, in capitals or not and also at the
\* very end, and each plus, and leaves every other byte alone, cut sequences included: the
\* cursor of decode (url_encode.cpp:78) and its test of the distance to the end agree.
DecodesEveryEscape ==
    input.kind = "text" =>
        LET s       == input.text
            covered == {i + 1 : i \in Escapes(s)} \cup {i + 2 : i \in Escapes(s)}
            kept    == InOrder((1 .. Len(s)) \ covered)
        IN  Decode(s) = [k \in 1 .. Len(kept) |-> DecodedAt(s, kept[k])]

\* Every turn of the loop of cgi2params (cgi2params.cpp:101) moves its cursor forward, to the end at
\* most, wherever it starts: the loop ends and reads nothing behind the query.
CursorAdvances ==
    input.kind = "query" =>
        \A pos \in 1 .. Len(input.query) :
            LET turn == Turn(input.query, pos)
            IN  turn.ok => turn.pos \in pos + 1 .. Len(input.query) + 1

\* A parameter ends at its separator: if what stands in front of one is parsed to its end, what
\* follows does not change its parameters, and is parsed as if it stood alone. If it is not, for a
\* bracket that is left open there or nested too deeply, its parameters up to that bracket remain;
\* the bracket may be closed behind the separator, and what lies between is one key (cgi2params.cpp:67).
ParametersAreSeparate ==
    input.kind = "query" =>
        \A i \in {i \in DOMAIN input.query : input.query[i] = "&"} :
            LET before == Parse(SubSeq(input.query, 1, i - 1))
                after  == Parse(SubSeq(input.query, i + 1, Len(input.query)))
            IN  IF before.ok
                THEN Parse(input.query) = [after EXCEPT !.params = before.params \o @]
                ELSE IsPrefix(before.params, Parse(input.query).params)

\* cgi2params gives back the leaves that params2cgi wrote, keys, empty keys of arrays, values and
\* order, up to the first that is nested deeper than the limit (cgi2params.cpp:72).
ParsesRendered ==
    input.kind = "params" =>
        LET deep == {i \in DOMAIN input.params : Len(input.params[i].keys) > MaxKeyDepth}
            stop == IF deep = {} THEN Len(input.params) + 1 ELSE Min(deep)
        IN  Parse(Render(input.params)) = [ok |-> deep = {}, params |-> SubSeq(input.params, 1, stop - 1)]

\* from_string (url.cpp:10) reads back what to_string (url.cpp:35) wrote of any URL, up to the largest
\* port and no further. What it makes of any other address is refused or, written with its port
\* and read again, remains the same: no part of it moves from one field to another.
UrlRoundTrip ==
    /\ input.kind = "url" =>
        UrlFromString(UrlToString(input.url)) = IF input.url.port <= MaxPort THEN input.url ELSE DefaultUrl
    /\ input.kind = "address" =>
        LET url == UrlFromString(Scheme(input.ssl) \o input.rest)
        IN  url = DefaultUrl \/ (url.ssl = input.ssl /\ UrlFromString(UrlToString(url)) = url)

\* A Cookie header whose keys are encoded, and whose values are but for the equals signs, which
\* many leave alone.
WrittenValue(v) == FlattenSeq([i \in 1 .. Len(v) |-> IF v[i] = Equals THEN <<Equals>> ELSE EncodeChar(v[i])])
Written(cookies, blank) ==
    FlattenSeq([i \in 1 .. Len(cookies) |->
        (IF i = 1 THEN <<>> ELSE <<Semicolon>> \o (IF blank THEN <<Space>> ELSE <<>>))
        \o Encode(cookies[i].key) \o <<Equals>> \o WrittenValue(cookies[i].value)])

\* parse_cookie_values (parse_cookie_values.cpp:9) calls back with the cookies of a header, in order, up
\* to the one whose callback answers false: the search of the regular expression goes on where a
\* cookie ends, and neither an equals sign in a value nor an empty value makes it slip.
CookiesRecovered ==
    input.kind = "cookies" =>
        \A last \in 1 .. Len(input.cookies) + 1 :
            ParseCookieValues(Written(input.cookies, input.blank), last)
                = SubSeq(input.cookies, 1, Min({last, Len(input.cookies)}))

\* The body given to set_body (file.cpp:220) lies inside of the file, whatever the range.
BodyInsideFile ==
    input.kind = "request" =>
        \A disk \in Disk(Numbers) :
            LET body == Process(input.request, disk).body
            IN  body # Missing => 0 <= body.from /\ body.from <= body.to /\ body.to <= disk.length

\* Without a Range header the body is the whole file, also an empty one.
WholeFileSent ==
    input.kind = "request" /\ input.request.range = "none" =>
        \A disk \in Disk(Numbers) :
            LET body == Process(input.request, disk).body
            IN  body # Missing => body = [from |-> 0, to |-> disk.length]
=============================================================================
