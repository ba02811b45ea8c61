-------------------------- MODULE PureFunctionsProofs --------------------------
(***************************************************************************)
(* What the file handler promises, for every size of a file, every range   *)
(* and every state of the disk, and what the codecs promise, for every     *)
(* query, list of parameters, text, address and list of cookies.           *)
(***************************************************************************)
EXTENDS PureFunctions, UrlCodecProofs, CgiParamsProofs, FiniteSetTheorems, TLAPS

\* What an input holds, of each kind.
LEMMA InputsOf ==
    ASSUME Init
    PROVE  /\ input.kind = "text" => input.text \in Texts
           /\ input.kind = "query" => input.query \in Queries
           /\ input.kind = "params" => input.params \in BoundedSeq(Params, MaxParams) \ {<<>>}
           /\ input.kind = "address" =>
                 input.ssl \in BOOLEAN /\ input.rest \in BoundedSeq(UrlBytes, MaxAddress) \cup Ported
           /\ input.kind = "url" =>
                 input.url \in [ssl : BOOLEAN, host : Hosts, port : Ports, target : Targets]
           /\ input.kind = "cookies" => input.cookies \in BoundedSeq(Named, MaxCookies) /\ input.blank \in BOOLEAN
           /\ input.kind = "request" => input.request \in RequestFields(Numbers)
<1> DEFINE Queried == BoundedSeq(Params, MaxParams) \ {<<>>}
           Rests   == BoundedSeq(UrlBytes, MaxAddress) \cup Ported
           Urls    == [ssl : BOOLEAN, host : Hosts, port : Ports, target : Targets]
           Jars    == BoundedSeq(Named, MaxCookies)
           Asked   == RequestFields(Numbers)
<1> HIDE DEF Queried, Rests, Urls, Jars, Asked
<1>1. \/ input \in [kind : {"text"}, text : Texts]
      \/ input \in [kind : {"query"}, query : Queries]
      \/ input \in [kind : {"params"}, params : Queried]
      \/ input \in [kind : {"address"}, ssl : BOOLEAN, rest : Rests]
      \/ input \in [kind : {"url"}, url : Urls]
      \/ input \in [kind : {"cookies"}, cookies : Jars, blank : BOOLEAN]
      \/ input \in [kind : {"request"}, request : Asked]
  BY DEF Init, Queried, Rests, Urls, Jars, Asked
<1>2. /\ input.kind = "text" => input.text \in Texts
      /\ input.kind = "query" => input.query \in Queries
      /\ input.kind = "params" => input.params \in Queried
      /\ input.kind = "address" => input.ssl \in BOOLEAN /\ input.rest \in Rests
      /\ input.kind = "url" => input.url \in Urls
      /\ input.kind = "cookies" => input.cookies \in Jars /\ input.blank \in BOOLEAN
      /\ input.kind = "request" => input.request \in Asked
  BY <1>1
<1> QED BY <1>2 DEF Queried, Rests, Urls, Jars, Asked

\* One element is a sequence.
LEMMA OneElement ==
    ASSUME NEW S, NEW c \in S
    PROVE  <<c>> \in Seq(S) /\ <<c>> # <<>>
OBVIOUS

\* A bounded sequence is a sequence.
LEMMA BoundedSequence ==
    ASSUME NEW S, NEW T, S \subseteq T, NEW n, NEW s \in BoundedSeq(S, n)
    PROVE  s \in Seq(T)
<1>1. PICK m \in 0 .. n : s \in [1 .. m -> S]
  BY DEF BoundedSeq, SeqOf
<1>2. m \in Nat /\ s \in [1 .. m -> T]
  BY <1>1
<1> QED BY <1>2

-----------------------------------------------------------------------------
\* A request has the fields of a request.
RequestInv == input.kind = "request" => input.request \in RequestFields(Numbers)

\* The inputs of a run do not change.
LEMMA RequestsStay == Spec => []RequestInv
<1>1. Init => RequestInv
  <2> SUFFICES ASSUME Init, input.kind = "request" PROVE input.request \in RequestFields(Numbers)
    BY DEF RequestInv
  <2> QED BY InputsOf
<1>2. RequestInv /\ [Next]_input => RequestInv'
  BY DEF RequestInv, Next
<1> QED BY <1>1, <1>2, PTL DEF Spec

\* The bounds of a range are numbers, and none without a header.
LEMMA RangeBounds ==
    ASSUME NEW request \in RequestFields(Numbers), request.range # "malformed"
    PROVE  /\ RangeFromHeader(request).first \in Nat
           /\ RangeFromHeader(request).second \in Nat
           /\ request.range = "none" => RangeFromHeader(request) = [first |-> 0, second |-> 0]
BY NumbersAssumption DEF RequestFields, RangeFromHeader, Bound

\* The slice of a range in order lies inside of the file; without a range it is the file.
LEMMA SliceBounds ==
    ASSUME NEW first \in Nat, NEW second \in Nat, NEW length \in Nat, first <= second
    PROVE  LET slice == Slice([first |-> first, second |-> second], length)
           IN  /\ 0 <= slice.from /\ slice.from <= slice.to /\ slice.to <= length
               /\ second = 0 => slice = [from |-> 0, to |-> length]
BY DEF Slice, Min2

\* A body comes from send_file only, with the range of the request.
LEMMA BodyIsSlice ==
    ASSUME NEW request \in RequestFields(Numbers), NEW disk \in Disk(Numbers),
           Process(request, disk).body # Missing
    PROVE  LET range == RangeFromHeader(request)
           IN  /\ request.range # "malformed"
               /\ disk.length \in Nat
               /\ range.first <= range.second
               /\ Process(request, disk).body = Slice(range, disk.length)
<1> DEFINE range == RangeFromHeader(request)
           code  == IF request.range = "none" THEN 200 ELSE 206
<1>1. /\ ~Throws(request, disk)
      /\ Process(request, disk) = SendFile(range, code, disk)
  BY DEF Process, Declined, Failed, NotModified
<1>2. request.range # "malformed"
  BY <1>1 DEF Throws
<1>3. range.first \in Nat /\ range.second \in Nat
  BY <1>2, RangeBounds
<1>4. /\ disk.length # Missing
      /\ ~(range.first > range.second)
      /\ SendFile(range, code, disk).body = Slice(range, disk.length)
  <2> HIDE DEF range, code
  <2> QED BY <1>1 DEF SendFile, Declined, Failed
<1>5. disk.length \in Nat
  BY <1>4, NumbersAssumption DEF Disk
<1> QED BY <1>1, <1>2, <1>3, <1>4, <1>5

\* A range has two bounds.
LEMMA RangeIsRecord ==
    ASSUME NEW request
    PROVE  RangeFromHeader(request) =
              [first |-> RangeFromHeader(request).first, second |-> RangeFromHeader(request).second]
BY DEF RangeFromHeader

\* For every size of a file and every range, the body that send_file passes to set_body
\* (file.cpp:220) lies inside of the file.
THEOREM BodiesInsideFiles == Spec => []BodyInsideFile
<1>1. RequestInv => BodyInsideFile
  <2> SUFFICES ASSUME input.request \in RequestFields(Numbers), NEW disk \in Disk(Numbers),
                      Process(input.request, disk).body # Missing
               PROVE  LET body == Process(input.request, disk).body
                      IN  0 <= body.from /\ body.from <= body.to /\ body.to <= disk.length
    BY DEF RequestInv, BodyInsideFile
  <2> DEFINE range == RangeFromHeader(input.request)
  <2> HIDE DEF range
  <2>1. /\ range.first <= range.second /\ disk.length \in Nat
        /\ input.request.range # "malformed"
        /\ Process(input.request, disk).body = Slice(range, disk.length)
    BY BodyIsSlice DEF range
  <2>2. range.first \in Nat /\ range.second \in Nat
    BY <2>1, RangeBounds DEF range
  <2>3. range = [first |-> range.first, second |-> range.second]
    BY RangeIsRecord DEF range
  <2> DEFINE slice == Slice([first |-> range.first, second |-> range.second], disk.length)
  <2>4. 0 <= slice.from /\ slice.from <= slice.to /\ slice.to <= disk.length
    BY <2>1, <2>2, SliceBounds
  <2>5. Process(input.request, disk).body = slice
    BY <2>1, <2>3
  <2> QED BY <2>4, <2>5
<1> QED BY <1>1, RequestsStay, PTL

\* For every size of a file, a request without a Range header is sent the whole file
\* (file.cpp:218 reads the bounds {0, 0} of such a request).
THEOREM WholeFilesSent == Spec => []WholeFileSent
<1>1. RequestInv => WholeFileSent
  <2> SUFFICES ASSUME input.request \in RequestFields(Numbers), input.request.range = "none",
                      NEW disk \in Disk(Numbers), Process(input.request, disk).body # Missing
               PROVE  Process(input.request, disk).body = [from |-> 0, to |-> disk.length]
    BY DEF RequestInv, WholeFileSent
  <2> QED BY BodyIsSlice, RangeBounds, SliceBounds
<1> QED BY <1>1, RequestsStay, PTL

-----------------------------------------------------------------------------
\* A query is a string of tokens.
QueryInv == input.kind = "query" => input.query \in Seq(Tokens)

\* The inputs of a run do not change.
LEMMA QueriesStay == Spec => []QueryInv
<1>1. Init => QueryInv
  <2> SUFFICES ASSUME Init, input.kind = "query" PROVE input.query \in Seq(Tokens)
    BY DEF QueryInv
  <2>2. input.query \in Queries
    BY InputsOf
  <2> QED BY <2>2, BoundedSequence DEF Queries
<1>2. QueryInv /\ [Next]_input => QueryInv'
  BY DEF QueryInv, Next
<1> QED BY <1>1, <1>2, PTL DEF Spec

\* For every query and every limit of the depth, each turn of the loop of cgi2params
\* (cgi2params.cpp:101) moves the cursor forward, to the end at most.
THEOREM CursorsAdvance == Spec => []CursorAdvances
<1>1. QueryInv => CursorAdvances
  <2> SUFFICES ASSUME input.query \in Seq(Tokens), NEW pos \in 1 .. Len(input.query),
                      Turn(input.query, pos).ok
               PROVE  Turn(input.query, pos).pos \in pos + 1 .. Len(input.query) + 1
    BY DEF QueryInv, CursorAdvances
  <2>1. Len(input.query) \in Nat
    OBVIOUS
  <2> QED BY <2>1, TurnsAdvance
<1> QED BY <1>1, QueriesStay, PTL

\* For every query and every limit of the depth: if what stands in front of a separator is parsed to its
\* end, it and what follows are parsed each on its own (cgi2params.cpp:101); if it is not, because a
\* bracket is left open in it or nested too deeply, its parameters up to that bracket remain, also when
\* the bracket is closed behind the separator (cgi2params.cpp:67).
THEOREM ParametersSeparate == Spec => []ParametersAreSeparate
<1>1. QueryInv => ParametersAreSeparate
  <2> SUFFICES ASSUME input.query \in Seq(Tokens), NEW i \in DOMAIN input.query, input.query[i] = "&"
               PROVE  IF Parse(SubSeq(input.query, 1, i - 1)).ok
                      THEN Parse(input.query) =
                             [Parse(SubSeq(input.query, i + 1, Len(input.query)))
                                EXCEPT !.params = Parse(SubSeq(input.query, 1, i - 1)).params \o @]
                      ELSE IsPrefix(Parse(SubSeq(input.query, 1, i - 1)).params, Parse(input.query).params)
    BY DEF QueryInv, ParametersAreSeparate
  <2>1. i \in 1 .. Len(input.query)
    OBVIOUS
  <2>2. CASE Parse(SubSeq(input.query, 1, i - 1)).ok
    BY <2>1, <2>2, ParseSplits
  <2>3. CASE ~Parse(SubSeq(input.query, 1, i - 1)).ok
    BY <2>1, <2>3, FrontStays
  <2> QED BY <2>2, <2>3
<1> QED BY <1>1, QueriesStay, PTL

\* Parameters have a path and a value of characters.
ParamsInv == input.kind = "params" => input.params \in Seq(Leaves) /\ input.params # <<>>

\* The inputs of a run do not change.
LEMMA ParamsStay == Spec => []ParamsInv
<1>1. Init => ParamsInv
  <2> SUFFICES ASSUME Init, input.kind = "params" PROVE input.params \in Seq(Leaves) /\ input.params # <<>>
    BY DEF ParamsInv
  <2>2. input.params \in BoundedSeq(Params, MaxParams) \ {<<>>}
    BY InputsOf
  <2>3. Keys \subseteq Seq(Characters)
    BY BoundedSequence DEF Keys
  <2>4. Params \subseteq Leaves
    <3> SUFFICES ASSUME NEW param \in Params PROVE param \in Leaves
      OBVIOUS
    <3>1. /\ param.keys \in BoundedSeq(Keys, MaxPath) \ {<<>>} /\ param.value \in Keys
          /\ param = [keys |-> param.keys, value |-> param.value]
      BY DEF Params
    <3>2. param.keys \in Seq(Seq(Characters)) \ {<<>>}
      BY <2>3, <3>1, BoundedSequence
    <3> QED BY <2>3, <3>1, <3>2 DEF Leaves
  <2> QED BY <2>2, <2>4, BoundedSequence
<1>2. ParamsInv /\ [Next]_input => ParamsInv'
  BY DEF ParamsInv, Next
<1> QED BY <1>1, <1>2, PTL DEF Spec

\* For every list of parameters and every limit of the depth, cgi2params gives back what params2cgi wrote,
\* up to the first parameter that is nested deeper than the limit (cgi2params.cpp:72).
THEOREM RenderedParametersParse == Spec => []ParsesRendered
<1>1. ParamsInv => ParsesRendered
  <2> DEFINE params == input.params
             Deep   == {i \in DOMAIN params : Len(params[i].keys) > MaxKeyDepth}
             stop   == IF Deep = {} THEN Len(params) + 1 ELSE Min(Deep)
  <2> SUFFICES ASSUME params \in Seq(Leaves), params # <<>>
               PROVE  Parse(Render(params)) = [ok |-> Deep = {}, params |-> SubSeq(params, 1, stop - 1)]
    BY DEF ParamsInv, ParsesRendered
  <2> HIDE DEF params
  <2>1. Len(params) \in Nat /\ DOMAIN params = 1 .. Len(params) /\ MaxKeyDepth \in Nat
    BY CgiAssumption
  <2>2. \A i \in 1 .. Len(params) : Len(params[i].keys) \in Nat
    <3> TAKE i \in 1 .. Len(params)
    <3>1. params[i] \in Leaves
      BY ElementOfSeq
    <3>2. params[i].keys \in Seq(Seq(Characters))
      BY <3>1 DEF Leaves
    <3> QED BY <3>2
  <2>3. /\ stop \in 1 .. Len(params) + 1
        /\ \A i \in 1 .. stop - 1 : Len(params[i].keys) <= MaxKeyDepth
        /\ stop <= Len(params) => Len(params[stop].keys) > MaxKeyDepth
        /\ (Deep = {}) <=> stop = Len(params) + 1
    <3>1. CASE Deep = {}
      BY <2>1, <2>2, <3>1
    <3>2. CASE Deep # {}
      <4>1. Deep \subseteq Nat
        BY <2>1
      <4>2. \E i \in Deep : \A j \in Deep : i <= j
        <5> HIDE DEF Deep
        <5> QED BY <3>2, <4>1, LeastNumber
      <4>3. stop \in Deep /\ \A j \in Deep : stop <= j
        <5> HIDE DEF Deep
        <5> QED BY <3>2, <4>2 DEF Min
      <4> HIDE DEF stop
      <4>4. stop \in 1 .. Len(params) /\ Len(params[stop].keys) > MaxKeyDepth
        BY <2>1, <4>3
      <4>5. \A i \in 1 .. stop - 1 : Len(params[i].keys) <= MaxKeyDepth
        <5> TAKE i \in 1 .. stop - 1
        <5>1. i \in 1 .. Len(params) /\ i \notin Deep
          BY <2>1, <4>3, <4>4
        <5> QED BY <2>1, <2>2, <5>1
      <4> QED BY <2>1, <3>2, <4>4, <4>5
    <3> QED BY <3>1, <3>2
  <2> HIDE DEF Deep, stop
  <2>4. Parse(Render(params)) = [ok |-> stop = Len(params) + 1, params |-> SubSeq(params, 1, stop - 1)]
    BY <2>3, RenderParses
  <2> QED BY <2>3, <2>4
<1> QED BY <1>1, ParamsStay, PTL

-----------------------------------------------------------------------------
\* What encode writes for a byte holds none of the separators of paths, queries and cookies: an
\* encoded text stays inside of the part of an address that it was written to.
THEOREM CodesAreInert ==
    \A c \in Byte : \A i \in DOMAIN EncodeChar(c) :
        EncodeChar(c)[i] \notin {Space, Slash, Colon, Equals, Semicolon}
<1> SUFFICES ASSUME NEW c \in Byte, NEW i \in DOMAIN EncodeChar(c)
             PROVE  EncodeChar(c)[i] \in Unreserved \cup {Plus, Percent}
  BY DEF Unreserved, Plus, Percent, Space, Slash, Colon, Equals, Semicolon
<1>1. CASE c = Space
  BY <1>1 DEF EncodeChar
<1>2. CASE c # Space /\ c \in Unreserved
  BY <1>2 DEF EncodeChar
<1>3. CASE c \notin Unreserved \cup {Space}
  <2>1. c \div 16 \in 0 .. 15 /\ c % 16 \in 0 .. 15
    BY DEF Byte
  <2>2. \A d \in 0 .. 15 : HexDigit(d) \in Unreserved
    BY DEF HexDigit, Unreserved
  <2>3. /\ <<Percent>> \in Seq(Unreserved \cup {Percent})
        /\ CharToHex(c) \in Seq(Unreserved \cup {Percent})
    BY <2>1, <2>2 DEF CharToHex
  <2>4. EncodeChar(c) = <<Percent>> \o CharToHex(c)
    BY <1>3 DEF EncodeChar
  <2>5. EncodeChar(c) \in Seq(Unreserved \cup {Percent})
    BY <2>3, <2>4
  <2> QED BY <2>5
<1> QED BY <1>1, <1>2, <1>3

-----------------------------------------------------------------------------
\* Texts, addresses and URLs are made of bytes.
TextInv == input.kind = "text" => input.text \in Seq(Byte)
AddressInv == input.kind = "address" => input.ssl \in BOOLEAN /\ input.rest \in Seq(Byte)
UrlInv ==
    input.kind = "url" =>
        /\ input.url = [ssl |-> input.url.ssl, host |-> input.url.host, port |-> input.url.port, target |-> input.url.target]
        /\ input.url.ssl \in BOOLEAN
        /\ input.url.host \in Seq(Byte \ {Colon, Slash}) /\ input.url.host # <<>>
        /\ input.url.port \in Nat /\ input.url.port < 10 * (10 * (10 * (10 * 10)))
        /\ input.url.target \in Seq(Byte \ LineBreaks)

\* The inputs of a run do not change.
LEMMA TextsStay == Spec => []TextInv
<1>1. Init => TextInv
  <2> SUFFICES ASSUME Init, input.kind = "text" PROVE input.text \in Seq(Byte)
    BY DEF TextInv
  <2>1. input.text \in Texts
    BY InputsOf
  <2>2. CASE input.text \in BoundedSeq(Bytes, MaxText)
    BY <2>2, BytesAssumption, BoundedSequence
  <2>3. CASE input.text \in {<<b>> : b \in Byte}
    <3>1. PICK c \in Byte : input.text = <<c>>
      BY <2>3
    <3> QED BY <3>1, OneElement
  <2> QED BY <2>1, <2>2, <2>3 DEF Texts
<1>2. TextInv /\ [Next]_input => TextInv'
  BY DEF TextInv, Next
<1> QED BY <1>1, <1>2, PTL DEF Spec

\* A number of five digits at most.
LEMMA PortsAre ==
    ASSUME NEW n \in Ports
    PROVE  n \in Nat /\ n < 10 * (10 * (10 * (10 * 10)))
BY PortsAssumption, SMT

\* The inputs of a run do not change.
LEMMA AddressesStay == Spec => []AddressInv
<1>1. Init => AddressInv
  <2> SUFFICES ASSUME Init, input.kind = "address" PROVE input.ssl \in BOOLEAN /\ input.rest \in Seq(Byte)
    BY DEF AddressInv
  <2>1. input.ssl \in BOOLEAN /\ input.rest \in BoundedSeq(UrlBytes, MaxAddress) \cup Ported
    BY InputsOf
  <2>2. CASE input.rest \in BoundedSeq(UrlBytes, MaxAddress)
    <3>1. input.rest \in Seq(Byte)
      BY <2>2, BytesAssumption, BoundedSequence
    <3> QED BY <2>1, <3>1
  <2>3. CASE input.rest \in Ported
    <3> DEFINE port(n, rest) == <<97, Colon>> \o DigitsOfPort[n] \o rest
               Rests == BoundedSeq(UrlBytes, MaxRest)
    <3> HIDE DEF port, Rests
    <3>0. Ported = {port(n, rest) : n \in Ports, rest \in Rests}
      BY DEF Ported, port, Rests
    <3>1. PICK n \in Ports, rest \in Rests : input.rest = port(n, rest)
      BY <2>3, <3>0
    <3> DEFINE a == <<97, Colon>>
               d == DigitsOfPort[n]
    <3>2. rest \in Seq(Byte)
      BY BytesAssumption, BoundedSequence DEF Rests
    <3>3. d \in Seq(Byte)
      <4>1. n \in Nat /\ n < 10 * (10 * (10 * (10 * 10)))
        BY PortsAre
      <4>2. d \in Seq(Digit)
        BY <4>1, DigitsCount
      <4>3. Digit \subseteq Byte
        BY DEF Digit, Byte
      <4> HIDE DEF d
      <4> QED BY <4>2, <4>3
    <3>4. a \in Seq(Byte)
      BY DEF Colon, Byte
    <3> HIDE DEF a, d
    <3>5. a \o d \in Seq(Byte)
      BY <3>3, <3>4, ConcatProperties
    <3>6. (a \o d) \o rest \in Seq(Byte)
      BY <3>2, <3>5, ConcatProperties
    <3> QED BY <2>1, <3>1, <3>6 DEF a, d, port
  <2> QED BY <2>1, <2>2, <2>3
<1>2. AddressInv /\ [Next]_input => AddressInv'
  BY DEF AddressInv, Next
<1> QED BY <1>1, <1>2, PTL DEF Spec

\* The inputs of a run do not change.
LEMMA UrlsStay == Spec => []UrlInv
<1>1. Init => UrlInv
  <2> SUFFICES ASSUME Init, input.kind = "url" PROVE UrlInv
    BY DEF UrlInv
  <2>1. input.url \in [ssl : BOOLEAN, host : Hosts, port : Ports, target : Targets]
    BY InputsOf
  <2>2. /\ input.url = [ssl |-> input.url.ssl, host |-> input.url.host, port |-> input.url.port, target |-> input.url.target]
        /\ input.url.ssl \in BOOLEAN /\ input.url.host \in Hosts
        /\ input.url.port \in Ports /\ input.url.target \in Targets
    BY <2>1
  <2>3. input.url.host \in Seq(Byte \ {Colon, Slash}) /\ input.url.host # <<>>
    <3>1. UrlBytes \ {Colon, Slash} \subseteq Byte \ {Colon, Slash}
      BY BytesAssumption
    <3> QED BY <2>2, <3>1, BoundedSequence DEF Hosts
  <2>4. input.url.target \in Seq(Byte \ LineBreaks)
    <3>1. UrlBytes \ LineBreaks \subseteq Byte \ LineBreaks
      BY BytesAssumption
    <3> QED BY <2>2, <3>1, BoundedSequence DEF Targets
  <2>5. input.url.port \in Nat /\ input.url.port < 10 * (10 * (10 * (10 * 10)))
    BY <2>2, PortsAre
  <2> QED BY <2>2, <2>3, <2>4, <2>5 DEF UrlInv
<1>2. UrlInv /\ [Next]_input => UrlInv'
  BY DEF UrlInv, Next
<1> QED BY <1>1, <1>2, PTL DEF Spec

-----------------------------------------------------------------------------
\* a lists the numbers of S, the least first.
Lists(a, m, S) ==
    /\ a \in [1 .. m -> S]
    /\ \A i, j \in 1 .. m : i < j => a[i] < a[j]
    /\ \A x \in S : \E i \in 1 .. m : a[i] = x

\* There is one way only to put the numbers of a set in order.
LEMMA OrderIs ==
    ASSUME NEW S, S \subseteq Nat, NEW m \in Nat, NEW a, Lists(a, m, S)
    PROVE  InOrder(S) = a
<1>1. a \in [1 .. m -> S] /\ (\A i, j \in 1 .. m : i < j => a[i] < a[j]) /\ (\A x \in S : \E i \in 1 .. m : a[i] = x)
  BY DEF Lists
<1>2. Cardinality(S) = m
  <2>1. ExistsBijection(1 .. m, S)
    <3>1. \A i, j \in 1 .. m : a[i] = a[j] => i = j
      <4> SUFFICES ASSUME NEW i \in 1 .. m, NEW j \in 1 .. m, a[i] = a[j], i # j PROVE FALSE
        OBVIOUS
      <4>1. i < j \/ j < i
        OBVIOUS
      <4>2. a[i] \in Nat /\ a[j] \in Nat
        BY <1>1
      <4> QED BY <1>1, <4>1, <4>2
    <3>2. a \in Bijection(1 .. m, S)
      BY <1>1, <3>1 DEF Bijection, Injection, Surjection, IsInjective
    <3> QED BY <3>2 DEF ExistsBijection
  <2> QED BY <2>1, FS_CountingElements
<1>3. ASSUME NEW o \in [1 .. m -> S], \A i, j \in DOMAIN o : i < j => o[i] < o[j]
      PROVE  o = a
  <2>0. \A i \in 1 .. m : o[i] \in S /\ a[i] \in S /\ o[i] \in Nat /\ a[i] \in Nat
    BY <1>1
  <2>1. \A i \in 0 .. m : i \in {0} \cup {k \in 1 .. m : a[k] <= o[k]}
    <3> DEFINE G == {0} \cup {k \in 1 .. m : a[k] <= o[k]}
    <3>1. ASSUME NEW k \in 0 .. m, \A l \in 0 .. k - 1 : l \in G PROVE k \in G
      <4> SUFFICES ASSUME k > 0, ~(a[k] <= o[k]) PROVE FALSE
        OBVIOUS
      <4>1. k \in 1 .. m /\ o[k] < a[k]
        BY <2>0
      <4>2. PICK j \in 1 .. m : a[j] = o[k]
        BY <1>1, <2>0, <4>1
      <4>3. j < k
        <5>1. k \in 1 .. m /\ j \in 1 .. m /\ a[j] < a[k] /\ a[j] \in Nat /\ a[k] \in Nat
          BY <2>0, <4>1, <4>2
        <5>2. k < j => a[k] < a[j]
          BY <1>1, <5>1
        <5>3. k = j => a[k] = a[j]
          OBVIOUS
        <5> QED BY <5>1, <5>2, <5>3
      <4>4. j \in G /\ j # 0
        BY <3>1, <4>3
      <4>5. a[j] <= o[j] /\ o[j] < o[k]
        BY <1>3, <4>1, <4>3, <4>4
      <4> QED BY <2>0, <4>1, <4>2, <4>5
    <3> HIDE DEF G
    <3> QED BY <3>1, Upwards DEF G
  <2>2. \A i \in 0 .. m : i \in {0} \cup {k \in 1 .. m : o[k] <= a[k]}
    <3> DEFINE G == {0} \cup {k \in 1 .. m : o[k] <= a[k]}
    <3>1. ASSUME NEW k \in 0 .. m, \A l \in k + 1 .. m : l \in G PROVE k \in G
      <4> SUFFICES ASSUME k > 0, ~(o[k] <= a[k]) PROVE FALSE
        OBVIOUS
      <4>1. k \in 1 .. m /\ a[k] < o[k]
        BY <2>0
      <4>2. PICK j \in 1 .. m : a[j] = o[k]
        BY <1>1, <2>0, <4>1
      <4>3. k < j
        <5>1. k \in 1 .. m /\ j \in 1 .. m /\ a[k] < a[j] /\ a[j] \in Nat /\ a[k] \in Nat
          BY <2>0, <4>1, <4>2
        <5>2. j < k => a[j] < a[k]
          BY <1>1, <5>1
        <5>3. k = j => a[k] = a[j]
          OBVIOUS
        <5> QED BY <5>1, <5>2, <5>3
      <4>4. j \in G /\ j # 0
        BY <3>1, <4>3
      <4>5. o[j] <= a[j] /\ o[k] < o[j]
        BY <1>3, <4>1, <4>3, <4>4
      <4> QED BY <2>0, <4>1, <4>2, <4>5
    <3> HIDE DEF G
    <3> QED BY <3>1, Downwards DEF G
  <2>3. \A i \in 1 .. m : o[i] = a[i]
    <3> TAKE i \in 1 .. m
    <3>1. a[i] <= o[i]
      BY <2>1
    <3>2. o[i] <= a[i]
      BY <2>2
    <3> QED BY <2>0, <3>1, <3>2
  <2> QED BY <1>1, <2>3
<1> DEFINE IsOrder(o) == \A i, j \in DOMAIN o : i < j => o[i] < o[j]
           order == CHOOSE o \in [1 .. m -> S] : IsOrder(o)
<1>4. IsOrder(a)
  BY <1>1
<1>5. order \in [1 .. m -> S] /\ IsOrder(order)
  <2> HIDE DEF IsOrder
  <2> QED BY <1>1, <1>4
<1>6. InOrder(S) = order
  BY <1>2 DEF InOrder
<1> HIDE DEF order
<1> QED BY <1>3, <1>5, <1>6

\* The numbers up to n of a set can be put in order.
LEMMA OrderExists ==
    ASSUME NEW n \in Nat, NEW S, S \subseteq 1 .. n
    PROVE  \E m \in Nat : \E a : Lists(a, m, S)
<1> DEFINE G == {k \in 0 .. n : \E m \in Nat : \E a : Lists(a, m, S \cap (1 .. k))}
<1>1. ASSUME NEW k \in 0 .. n, \A l \in 0 .. k - 1 : l \in G PROVE k \in G
  <2>1. CASE k = 0
    <3>1. S \cap (1 .. k) = {}
      BY <2>1
    <3>2. Lists([i \in {} |-> 0], 0, {})
      BY DEF Lists
    <3> QED BY <3>1, <3>2
  <2>2. CASE k > 0
    <3> DEFINE T == S \cap (1 .. k - 1)
    <3>0. k - 1 \in 0 .. k - 1 /\ T \subseteq 1 .. k - 1
      BY <2>2
    <3>1. \E m \in Nat : \E a : Lists(a, m, T)
      BY <1>1, <3>0
    <3>2. PICK m \in Nat : \E a : Lists(a, m, T)
      BY <3>1
    <3>3. PICK a : Lists(a, m, T)
      BY <3>2
    <3>4. CASE k \notin S
      <4>1. S \cap (1 .. k) = T
        BY <3>4
      <4> QED BY <3>3, <4>1
    <3>5. CASE k \in S
      <4> DEFINE b == [i \in 1 .. m + 1 |-> IF i = m + 1 THEN k ELSE a[i]]
      <4>1. S \cap (1 .. k) = T \cup {k}
        BY <2>2, <3>5
      <4> HIDE DEF T
      <4>2. a \in [1 .. m -> T] /\ (\A i, j \in 1 .. m : i < j => a[i] < a[j]) /\ (\A x \in T : \E i \in 1 .. m : a[i] = x)
        BY <3>3 DEF Lists
      <4>3. b \in [1 .. m + 1 -> T \cup {k}]
        BY <4>2
      <4>4. \A i \in 1 .. m : b[i] = a[i] /\ b[i] \in 1 .. k - 1
        <5> TAKE i \in 1 .. m
        <5>1. b[i] = a[i]
          OBVIOUS
        <5>2. a[i] \in T
          BY <4>2
        <5>3. a[i] \in 1 .. k - 1
          BY <3>0, <5>2
        <5> QED BY <5>1, <5>3
      <4>5. b[m + 1] = k
        OBVIOUS
      <4>6. \A x \in T \cup {k} : \E i \in 1 .. m + 1 : b[i] = x
        <5> TAKE x \in T \cup {k}
        <5>1. CASE x = k
          BY <4>5, <5>1
        <5>2. CASE x \in T
          <6>1. PICK i \in 1 .. m : a[i] = x
            BY <4>2, <5>2
          <6>2. i \in 1 .. m + 1 /\ b[i] = x
            BY <4>4, <6>1
          <6> QED BY <6>2
        <5> QED BY <5>1, <5>2
      <4> HIDE DEF b
      <4>7. \A i, j \in 1 .. m + 1 : i < j => b[i] < b[j]
        <5> TAKE i, j \in 1 .. m + 1
        <5> HAVE i < j
        <5>1. i \in 1 .. m
          OBVIOUS
        <5>2. CASE j = m + 1
          BY <4>4, <4>5, <5>1, <5>2
        <5>3. CASE j \in 1 .. m
          BY <4>2, <4>4, <5>1, <5>3
        <5> QED BY <5>2, <5>3
      <4>8. Lists(b, m + 1, S \cap (1 .. k))
        BY <4>1, <4>3, <4>6, <4>7 DEF Lists
      <4>9. m + 1 \in Nat
        OBVIOUS
      <4> QED BY <4>8, <4>9
    <3> QED BY <3>4, <3>5
  <2> QED BY <2>1, <2>2
<1>2. n \in G
  <2> HIDE DEF G
  <2>1. \A k \in 0 .. n : k \in G
    BY <1>1, Upwards
  <2> QED BY <2>1
<1>3. S \cap (1 .. n) = S
  OBVIOUS
<1> QED BY <1>2, <1>3

-----------------------------------------------------------------------------
\* The digits of the reference are those of decode.
LEMMA DigitsAgree ==
    /\ \A c \in Byte : IsXDigit(c) => \E d \in 0 .. 15 : c \in DigitsOf(d)
    /\ \A d \in 0 .. 15 : \A c \in DigitsOf(d) : IsXDigit(c) /\ DigitValue(c) = d
<1>1. ASSUME NEW c \in Byte, IsXDigit(c) PROVE \E d \in 0 .. 15 : c \in DigitsOf(d)
  <2>1. CASE c \in 48 .. 57
    <3>1. c - 48 \in 0 .. 15 /\ c \in DigitsOf(c - 48)
      BY <2>1 DEF DigitsOf
    <3> QED BY <3>1
  <2>2. CASE c \in 65 .. 70
    <3>1. c - 55 \in 0 .. 15 /\ c \in DigitsOf(c - 55)
      BY <2>2 DEF DigitsOf
    <3> QED BY <3>1
  <2>3. CASE c \in 97 .. 102
    <3>1. c - 87 \in 0 .. 15 /\ c \in DigitsOf(c - 87)
      BY <2>3 DEF DigitsOf
    <3> QED BY <3>1
  <2> QED BY <1>1, <2>1, <2>2, <2>3 DEF IsXDigit
<1>2. ASSUME NEW d \in 0 .. 15, NEW c \in DigitsOf(d) PROVE IsXDigit(c) /\ DigitValue(c) = d
  <2>1. CASE d < 10
    BY <1>2, <2>1 DEF DigitsOf, IsXDigit, DigitValue
  <2>2. CASE d >= 10 /\ c = 55 + d
    BY <2>2 DEF IsXDigit, DigitValue, Capital
  <2>3. CASE d >= 10 /\ c = 87 + d
    BY <2>3 DEF IsXDigit, DigitValue, Capital
  <2> QED BY <1>2, <2>1, <2>2, <2>3 DEF DigitsOf
<1> QED BY <1>1, <1>2

\* The test of decode finds the escapes of the reference, and yields the same byte.
LEMMA EscapesAgree ==
    ASSUME NEW s \in Seq(Byte), NEW i \in 1 .. Len(s)
    PROVE  /\ Escaped(s, i) <=> i \in Escapes(s)
           /\ i \in Escapes(s) => DecodedAt(s, i) = HexToChar(s[i + 1], s[i + 2])
           /\ DecodedAt(s, i) \in Byte
<1>0. Len(s) \in Nat /\ \A j \in 1 .. Len(s) : s[j] \in Byte
  BY ElementOfSeq
<1>1. ASSUME NEW n \in Byte, Escape(s, i, n)
      PROVE  Escaped(s, i) /\ HexToChar(s[i + 1], s[i + 2]) = n
  <2> DEFINE h == n \div 16
             l == n % 16
  <2>1. h \in 0 .. 15 /\ l \in 0 .. 15 /\ (h * 16 + l) % 256 = n
    BY DEF Byte
  <2>2. i + 2 <= Len(s) /\ s[i] = Percent /\ s[i + 1] \in DigitsOf(h) /\ s[i + 2] \in DigitsOf(l)
    BY <1>0, <1>1 DEF Escape, Percent
  <2> HIDE DEF h, l
  <2>3. /\ IsXDigit(s[i + 1]) /\ DigitValue(s[i + 1]) = h
        /\ IsXDigit(s[i + 2]) /\ DigitValue(s[i + 2]) = l
    BY <2>1, <2>2, DigitsAgree, ZenonT(60)
  <2> QED BY <2>1, <2>2, <2>3 DEF Escaped, HexToChar
<1>2. ASSUME Escaped(s, i) PROVE \E n \in Byte : Escape(s, i, n)
  <2>1. /\ i \in 1 .. Len(s) - 2 /\ s[i] = Percent
        /\ s[i + 1] \in Byte /\ IsXDigit(s[i + 1]) /\ s[i + 2] \in Byte /\ IsXDigit(s[i + 2])
    BY <1>0, <1>2 DEF Escaped
  <2>2. PICK d \in 0 .. 15, e \in 0 .. 15 : s[i + 1] \in DigitsOf(d) /\ s[i + 2] \in DigitsOf(e)
    BY <2>1, DigitsAgree
  <2> DEFINE n == d * 16 + e
  <2>3. n \in Byte /\ n \div 16 = d /\ n % 16 = e
    BY DEF Byte
  <2>4. Escape(s, i, n)
    BY <2>1, <2>2, <2>3 DEF Escape, Percent
  <2> QED BY <2>3, <2>4
<1>3. Escaped(s, i) <=> i \in Escapes(s)
  BY <1>1, <1>2 DEF Escapes
<1>4. ASSUME i \in Escapes(s)
      PROVE  DecodedAt(s, i) = HexToChar(s[i + 1], s[i + 2]) /\ DecodedAt(s, i) \in Byte
  <2> DEFINE byte == CHOOSE n \in Byte : Escape(s, i, n)
  <2>1. byte \in Byte /\ Escape(s, i, byte)
    BY <1>4 DEF Escapes
  <2>2. DecodedAt(s, i) = byte
    BY <1>4 DEF DecodedAt
  <2> HIDE DEF byte
  <2> QED BY <1>1, <2>1, <2>2
<1>5. i \notin Escapes(s) => DecodedAt(s, i) \in Byte
  BY <1>0 DEF DecodedAt, Byte
<1> QED BY <1>3, <1>4, <1>5

\* The places behind the percent signs.
Covered(s) == {i + 1 : i \in Escapes(s)} \cup {i + 2 : i \in Escapes(s)}

\* Where decode goes on.
Following(s, i) == IF i \in Escapes(s) THEN i + 3 ELSE i + 1

\* Decode goes from one place that is kept to the next.
LEMMA FollowingIsKept ==
    ASSUME NEW s \in Seq(Byte), NEW i \in (1 .. Len(s)) \ Covered(s)
    PROVE  /\ Following(s, i) \in ((1 .. Len(s)) \ Covered(s)) \cup {Len(s) + 1}
           /\ Following(s, i) > i
           /\ \A x \in i + 1 .. Following(s, i) - 1 : x \in Covered(s)
<1>0. Len(s) \in Nat /\ \A j \in 1 .. Len(s) : s[j] \in Byte
  BY ElementOfSeq
<1>1. \A j \in Escapes(s) : /\ j \in 1 .. Len(s) - 2 /\ s[j] = 37
                            /\ s[j + 1] # 37 /\ s[j + 2] # 37
  <2> TAKE j \in Escapes(s)
  <2>1. j \in 1 .. Len(s)
    BY DEF Escapes
  <2>2. Escaped(s, j)
    BY <2>1, EscapesAgree
  <2>3. j + 2 <= Len(s) /\ s[j] = 37 /\ IsXDigit(s[j + 1]) /\ IsXDigit(s[j + 2])
    BY <2>2 DEF Escaped, Percent
  <2>4. ~IsXDigit(37)
    BY DEF IsXDigit
  <2> QED BY <1>0, <2>1, <2>3, <2>4
<1>2. CASE i \in Escapes(s)
  <2>1. i + 1 \notin Escapes(s) /\ i + 2 \notin Escapes(s)
    BY <1>1, <1>2
  <2>2. i + 3 \notin Covered(s)
    <3> SUFFICES ASSUME NEW j \in Escapes(s), i + 3 = j + 1 \/ i + 3 = j + 2 PROVE FALSE
      BY DEF Covered
    <3>1. j = i + 1 \/ j = i + 2
      BY <1>1
    <3> QED BY <2>1, <3>1
  <2>3. i + 1 \in Covered(s) /\ i + 2 \in Covered(s)
    BY <1>2 DEF Covered
  <2>4. i + 3 <= Len(s) + 1
    BY <1>0, <1>1, <1>2
  <2>5. Following(s, i) = i + 3
    BY <1>2 DEF Following
  <2>6. \A x \in i + 1 .. i + 2 : x = i + 1 \/ x = i + 2
    OBVIOUS
  <2>7. i + 3 \in ((1 .. Len(s)) \ Covered(s)) \cup {Len(s) + 1}
    BY <1>0, <2>2, <2>4
  <2> QED BY <1>0, <2>3, <2>5, <2>6, <2>7
<1>3. CASE i \notin Escapes(s)
  <2>1. i + 1 \notin Covered(s)
    <3> SUFFICES ASSUME NEW j \in Escapes(s), i + 1 = j + 1 \/ i + 1 = j + 2 PROVE FALSE
      BY DEF Covered
    <3>1. j = i \/ j + 1 = i
      BY <1>1
    <3>2. j + 1 \in Covered(s)
      BY DEF Covered
    <3> QED BY <1>3, <3>1, <3>2
  <2>2. Following(s, i) = i + 1
    BY <1>3 DEF Following
  <2> QED BY <1>0, <2>1, <2>2
<1> QED BY <1>2, <1>3

\* What decode does at a place that is kept.
LEMMA DecodesAt ==
    ASSUME NEW s \in Seq(Byte), NEW f, NEW i \in 1 .. Len(s)
    PROVE  DecodeBody(s, f, i) = <<DecodedAt(s, i)>> \o f[Following(s, i)]
<1>0. Len(s) \in Nat
  OBVIOUS
<1>1. CASE i \in Escapes(s)
  <2>1. Escaped(s, i) /\ DecodedAt(s, i) = HexToChar(s[i + 1], s[i + 2])
    BY <1>1, EscapesAgree
  <2>2. s[i] # Plus
    BY <2>1 DEF Escaped, Plus, Percent
  <2> QED BY <1>0, <1>1, <2>1, <2>2 DEF DecodeBody, Following
<1>2. CASE i \notin Escapes(s)
  <2>1. ~Escaped(s, i)
    BY <1>2, EscapesAgree
  <2>2. DecodedAt(s, i) = IF s[i] = Plus THEN Space ELSE s[i]
    BY <1>2 DEF DecodedAt, Plus, Space
  <2> QED BY <1>0, <1>2, <2>1, <2>2 DEF DecodeBody, Following
<1> QED BY <1>1, <1>2

\* Decode yields one byte for each place that is kept.
LEMMA DecodesKept ==
    ASSUME NEW s \in Seq(Byte), NEW m \in Nat, NEW a, Lists(a, m, (1 .. Len(s)) \ Covered(s))
    PROVE  Decode(s) = [k \in 1 .. m |-> DecodedAt(s, a[k])]
<1> DEFINE n == Len(s)
           K == (1 .. n) \ Covered(s)
           d == [k \in 1 .. m |-> DecodedAt(s, a[k])]
           P(k) == IF k = m THEN n + 1 ELSE a[k + 1]
<1>0. n \in Nat
  OBVIOUS
<1>1. PICK f : /\ \A i \in 1 .. n + 3 : f[i] = DecodeBody(s, f, i)
               /\ Decode(s) = f[1]
  BY DecodeIs DEF IsDecoding
<1>2. /\ a \in [1 .. m -> K] /\ \A i, j \in 1 .. m : i < j => a[i] < a[j]
      /\ \A x \in K : \E i \in 1 .. m : a[i] = x
  BY DEF Lists
<1>3. \A i \in 1 .. m : a[i] \in K /\ a[i] \in 1 .. n
  BY <1>2
<1>4. d \in Seq(Byte) /\ Len(d) = m
  <2>1. \A k \in 1 .. m : DecodedAt(s, a[k]) \in Byte
    BY <1>3, EscapesAgree
  <2> QED BY <2>1
<1>5. ASSUME NEW k \in 0 .. m - 1 PROVE Following(s, a[k + 1]) = P(k + 1)
  <2> DEFINE i == a[k + 1]
             x == Following(s, i)
  <2>1. k + 1 \in 1 .. m /\ i \in K
    BY <1>3
  <2>2. x \in K \cup {n + 1} /\ x > i /\ \A y \in i + 1 .. x - 1 : y \notin K
    BY <2>1, FollowingIsKept
  <2>3. CASE k + 1 = m
    <3>1. x \notin K
      <4> SUFFICES ASSUME x \in K PROVE FALSE
        OBVIOUS
      <4>1. PICK j \in 1 .. m : a[j] = x
        BY <1>2
      <4>2. j # m /\ ~(j < m)
        BY <1>2, <1>3, <2>1, <2>2, <2>3, <4>1
      <4> QED BY <4>2
    <3> QED BY <2>2, <2>3, <3>1
  <2>4. CASE k + 1 # m
    <3>1. k + 2 \in 1 .. m /\ k + 1 < k + 2 /\ P(k + 1) = a[k + 2]
      BY <2>1, <2>4
    <3>2. i < a[k + 2] /\ a[k + 2] \in K /\ a[k + 2] \in 1 .. n /\ i \in 1 .. n
      BY <1>2, <1>3, <2>1, <3>1
    <3> HIDE DEF x, K, P
    <3>3. x \in Nat
      BY <1>0, <2>2 DEF K
    <3>4. ~(a[k + 2] < x)
      <4> HIDE DEF i
      <4> QED BY <2>2, <3>2, <3>3
    <3>5. x # n + 1
      BY <1>0, <3>2, <3>4
    <3>6. PICK j \in 1 .. m : a[j] = x
      BY <1>2, <2>2, <3>5
    <3>7. ~(j < k + 1) /\ j # k + 1
      BY <1>2, <1>3, <2>1, <2>2, <3>2, <3>3, <3>6
    <3>8. j = k + 2 \/ k + 2 < j
      BY <3>7
    <3>9. a[k + 2] <= x
      BY <1>2, <3>1, <3>2, <3>3, <3>6, <3>8
    <3>10. x = a[k + 2]
      BY <3>2, <3>3, <3>4, <3>9
    <3> QED BY <3>1, <3>10 DEF x
  <2> QED BY <2>3, <2>4
<1> DEFINE G == {k \in 0 .. m : f[P(k)] = SubSeq(d, k + 1, m)}
<1>6. ASSUME NEW k \in 0 .. m, \A l \in k + 1 .. m : l \in G PROVE k \in G
  <2>1. CASE k = m
    <3>1. f[n + 1] = <<>>
      <4>1. DecodeBody(s, f, n + 1) = <<>>
        BY <1>0 DEF DecodeBody
      <4> HIDE DEF n, d, P, G
      <4> QED BY <1>0, <1>1, <4>1
    <3>2. SubSeq(d, m + 1, m) = <<>>
      <4> HIDE DEF d
      <4> QED BY <1>4
    <3> QED BY <2>1, <3>1, <3>2
  <2>2. CASE k # m
    <3>0. k \in 0 .. m - 1 /\ k + 1 \in 1 .. m /\ k + 1 \in k + 1 .. m /\ P(k) = a[k + 1]
      BY <2>2
    <3>1. f[P(k + 1)] = SubSeq(d, k + 2, m)
      <4>1. k + 1 \in G
        BY <1>6, <3>0
      <4>2. (k + 1) + 1 = k + 2
        OBVIOUS
      <4> HIDE DEF d, P
      <4>3. f[P(k + 1)] = SubSeq(d, (k + 1) + 1, m)
        BY <4>1
      <4> QED BY <4>2, <4>3
    <3>2. d[k + 1] = DecodedAt(s, a[k + 1])
      BY <3>0
    <3> HIDE DEF d, P, G
    <3>3. a[k + 1] \in 1 .. n /\ a[k + 1] \in 1 .. n + 3
      BY <1>0, <1>3, <3>0
    <3>4. f[a[k + 1]] = <<DecodedAt(s, a[k + 1])>> \o f[Following(s, a[k + 1])]
      BY <1>1, <3>3, DecodesAt
    <3>5. f[a[k + 1]] = <<d[k + 1]>> \o SubSeq(d, k + 2, m)
      BY <1>5, <3>0, <3>1, <3>2, <3>4
    <3>6. <<d[k + 1]>> \o SubSeq(d, k + 2, m) = SubSeq(d, k + 1, m)
      <4>1. m \in 0 .. Len(d)
        BY <1>4
      <4> QED BY <1>4, <3>0, <4>1, FirstAndRest
    <3> QED BY <3>0, <3>5, <3>6 DEF G
  <2> QED BY <2>1, <2>2
<1>7. 0 \in G
  <2> HIDE DEF G
  <2>1. \A k \in 0 .. m : k \in G
    BY <1>6, Downwards
  <2> QED BY <2>1
<1>8. P(0) = 1
  <2>1. CASE n = 0
    BY <1>3, <2>1
  <2>2. CASE n > 0
    <3>1. 1 \notin Covered(s)
      <4>1. \A j \in Escapes(s) : j \in 1 .. Len(s)
        BY DEF Escapes
      <4> QED BY <1>0, <4>1 DEF Covered
    <3>2. PICK i \in 1 .. m : a[i] = 1
      BY <1>0, <1>2, <2>2, <3>1
    <3>3. ~(1 < i)
      BY <1>2, <1>3, <3>2
    <3> QED BY <3>2, <3>3
  <2> QED BY <1>0, <2>1, <2>2
<1>9. Decode(s) = SubSeq(d, 1, m)
  <2> HIDE DEF d, P
  <2> QED BY <1>1, <1>7, <1>8
<1>10. SubSeq(d, 1, m) = d
  <2> HIDE DEF d
  <2> QED BY <1>4
<1> QED BY <1>9, <1>10

\* For every text, decode replaces each percent sign followed by two digits and each plus, and leaves
\* every other byte alone (url_encode.cpp:71).
THEOREM EscapesAreDecoded == Spec => []DecodesEveryEscape
<1>1. TextInv => DecodesEveryEscape
  <2> DEFINE s == input.text
             covered == {i + 1 : i \in Escapes(s)} \cup {i + 2 : i \in Escapes(s)}
             kept == InOrder((1 .. Len(s)) \ covered)
  <2> SUFFICES ASSUME s \in Seq(Byte)
               PROVE  Decode(s) = [k \in 1 .. Len(kept) |-> DecodedAt(s, kept[k])]
    BY DEF TextInv, DecodesEveryEscape
  <2> HIDE DEF s
  <2>1. Len(s) \in Nat /\ (1 .. Len(s)) \ covered \subseteq 1 .. Len(s) /\ covered = Covered(s)
    BY DEF Covered
  <2>2. (1 .. Len(s)) \ covered \subseteq Nat
    BY <2>1
  <2> HIDE DEF covered
  <2>3. PICK m \in Nat : \E a : Lists(a, m, (1 .. Len(s)) \ covered)
    BY <2>1, OrderExists
  <2>4. PICK a : Lists(a, m, (1 .. Len(s)) \ covered)
    BY <2>3
  <2>5. kept = a
    BY <2>2, <2>4, OrderIs
  <2>6. Len(kept) = m
    <3>1. a \in [1 .. m -> (1 .. Len(s)) \ covered]
      BY <2>4 DEF Lists
    <3>2. a \in Seq((1 .. Len(s)) \ covered) /\ Len(a) = m
      BY <3>1
    <3> QED BY <2>5, <3>2
  <2>7. Decode(s) = [k \in 1 .. m |-> DecodedAt(s, a[k])]
    BY <2>1, <2>4, DecodesKept
  <2> QED BY <2>5, <2>6, <2>7
<1> QED BY <1>1, TextsStay, PTL

-----------------------------------------------------------------------------
\* The slashes of a path that uri built: one in front of each fragment.
AreSlashes(c, fragments, u) ==
    /\ c \in [1 .. Len(fragments) + 1 -> Nat] /\ c[1] = 1 /\ c[Len(fragments) + 1] = Len(u) + 1
    /\ \A k \in 1 .. Len(fragments) :
          /\ c[k + 1] = c[k] + Len(Encode(fragments[k])) + 1
          /\ u[c[k]] = Slash
          /\ LiesAt(Encode(fragments[k]), u, c[k])

\* uri writes one slash in front of each fragment, and the codes between them.
LEMMA UriWrites ==
    ASSUME NEW fragments \in Seq(Seq(Byte)), fragments # <<>>
    PROVE  Uri(fragments) \in Seq(Byte) /\ \E c : AreSlashes(c, fragments, Uri(fragments))
<1> DEFINE n == Len(fragments)
           e(k) == Encode(fragments[k])
           q == [i \in 1 .. n |-> (IF i = 1 THEN <<>> ELSE <<Slash>>) \o e(i)]
           t == FlattenSeq(q)
           u == <<Slash>> \o t
<1>1. n \in Nat /\ n > 0
  BY LenProperties, EmptySeq
<1>2. Slash \in Byte /\ \A k \in 1 .. n : e(k) \in Seq(Byte)
  BY ElementOfSeq, EncodedText DEF Slash, Byte
<1>3. u = Uri(fragments)
  BY DEF Uri
<1> HIDE DEF e
<1>4. q \in Seq(Seq(Byte)) /\ Len(q) = n /\ q # <<>>
  <2>1. \A k \in 1 .. n : (IF k = 1 THEN <<>> ELSE <<Slash>>) \o e(k) \in Seq(Byte)
    BY <1>2
  <2>2. q \in Seq(Seq(Byte)) /\ Len(q) = n
    BY <1>1, <2>1
  <2> QED BY <1>1, <2>2
<1>5. q[1] = e(1) /\ \A k \in 2 .. n : q[k] = <<Slash>> \o e(k)
  BY <1>1, <1>2
<1>6. t \in Seq(Byte) /\ \E p : ArePlaces(p, q, t)
  <2> HIDE DEF q
  <2> QED BY <1>4, FlattenWrites
<1>7. PICK p : ArePlaces(p, q, t)
  BY <1>6
<1> HIDE DEF q, t
<1>8. /\ p \in [0 .. n -> Nat] /\ p[0] = 0 /\ p[n] = Len(t)
      /\ \A k \in 1 .. n : p[k] = p[k - 1] + Len(q[k]) /\ LiesAt(q[k], t, p[k - 1])
  BY <1>4, <1>7 DEF ArePlaces
<1>9. u \in Seq(Byte) /\ Len(u) = Len(t) + 1 /\ u[1] = Slash /\ Len(t) \in Nat
  BY <1>2, <1>6
<1> DEFINE c == [k \in 1 .. n + 1 |-> IF k = 1 THEN 1 ELSE p[k - 1] + 2]
<1>10. c \in [1 .. n + 1 -> Nat] /\ c[1] = 1 /\ c[n + 1] = Len(u) + 1
  <2>1. \A k \in 2 .. n + 1 : p[k - 1] \in Nat
    <3>1. \A k \in 2 .. n + 1 : k - 1 \in 0 .. n
      BY <1>1
    <3> QED BY <1>8, <3>1
  <2> QED BY <1>1, <1>8, <1>9, <2>1
<1>11. ASSUME NEW k \in 1 .. n
       PROVE  c[k + 1] = c[k] + Len(e(k)) + 1 /\ u[c[k]] = Slash /\ LiesAt(e(k), u, c[k])
  <2>0. /\ k - 1 \in 0 .. n /\ k \in 0 .. n /\ p[k - 1] \in Nat /\ p[k] \in Nat /\ (k + 1) - 1 = k
        /\ p[k] = p[k - 1] + Len(q[k]) /\ LiesAt(q[k], t, p[k - 1])
        /\ e(k) \in Seq(Byte) /\ Len(e(k)) \in Nat /\ q[k] \in Seq(Byte)
    <3>1. k - 1 \in 0 .. n /\ k \in 0 .. n /\ (k + 1) - 1 = k
      BY <1>1
    <3>2. q[k] \in Seq(Byte)
      BY <1>4, ElementOfSeq
    <3>3. p[k - 1] \in Nat /\ p[k] \in Nat
      BY <1>8, <3>1
    <3>4. e(k) \in Seq(Byte) /\ Len(e(k)) \in Nat
      BY <1>2, LenProperties
    <3> QED BY <1>8, <3>1, <3>2, <3>3, <3>4
  <2>1. LiesAt(q[k], u, 1 + p[k - 1])
    <3>1. <<Slash>> \in Seq(Byte) /\ Len(<<Slash>>) = 1
      BY <1>2
    <3> HIDE DEF u
    <3> QED BY <1>6, <2>0, <3>1, WrittenBehind DEF u
  <2>2. c[k + 1] = p[k] + 2
    BY <2>0, SMTT(40)
  <2> HIDE DEF u
  <2>3. CASE k = 1
    <3>1. q[k] = e(k) /\ c[k] = 1 /\ p[k - 1] = 0
      BY <1>5, <1>8, <2>3
    <3> HIDE DEF c
    <3> QED BY <1>9, <2>0, <2>1, <2>2, <3>1
  <2>4. CASE k # 1
    <3>1. q[k] = <<Slash>> \o e(k) /\ c[k] = p[k - 1] + 2 /\ <<Slash>> \in Seq(Byte) /\ Len(<<Slash>>) = 1
      BY <1>2, <1>5, <2>4
    <3> HIDE DEF c
    <3>2. Len(q[k]) = 1 + Len(e(k))
      BY <2>0, <3>1
    <3>3. LiesAt(<<Slash>>, u, 1 + p[k - 1]) /\ LiesAt(e(k), u, 1 + p[k - 1] + 1)
      <4>1. LiesAt(<<Slash>> \o e(k), u, 1 + p[k - 1]) /\ 1 + p[k - 1] \in Nat
        <5>1. LiesAt(<<Slash>> \o e(k), u, 1 + p[k - 1])
          BY <2>1, <3>1
        <5>2. 1 + p[k - 1] \in Nat
          BY <2>0
        <5> QED BY <5>1, <5>2
      <4>2. LiesAt(<<Slash>>, u, 1 + p[k - 1]) /\ LiesAt(e(k), u, 1 + p[k - 1] + Len(<<Slash>>))
        BY <1>9, <2>0, <3>1, <4>1, WrittenParts
      <4> QED BY <3>1, <4>2
    <3>4. u[1 + p[k - 1] + 1] = Slash
      BY <3>3 DEF LiesAt
    <3>5. 1 + p[k - 1] + 1 = c[k]
      BY <2>0, <3>1
    <3>6. c[k + 1] = c[k] + Len(e(k)) + 1
      <4>1. p[k] = p[k - 1] + (1 + Len(e(k))) /\ p[k] \in Nat /\ p[k - 1] \in Nat /\ Len(e(k)) \in Nat
        BY <2>0, <3>2
      <4> DEFINE l == Len(e(k))
                 x == p[k - 1]
                 y == p[k]
      <4>2. y = x + (1 + l) /\ y \in Nat /\ x \in Nat /\ l \in Nat /\ c[k] = 1 + x + 1 /\ c[k + 1] = y + 2
        BY <2>2, <3>5, <4>1
      <4> HIDE DEF l, x, y
      <4>3. c[k + 1] = c[k] + l + 1
        BY <4>2
      <4> QED BY <4>3 DEF l
    <3> QED BY <3>3, <3>4, <3>5, <3>6
  <2> QED BY <2>3, <2>4
<1>12. AreSlashes(c, fragments, u)
  <2> HIDE DEF c, u
  <2> QED BY <1>10, <1>11 DEF AreSlashes, e
<1> HIDE DEF c, u
<1> QED BY <1>3, <1>9, <1>12

\* No other byte of it is a slash.
LEMMA SlashesAre ==
    ASSUME NEW fragments \in Seq(Seq(Byte)), fragments # <<>>,
           NEW u \in Seq(Byte), NEW c, AreSlashes(c, fragments, u)
    PROVE  Lists([k \in 1 .. Len(fragments) |-> c[k]], Len(fragments), {i \in 1 .. Len(u) : u[i] = Slash})
<1> DEFINE n == Len(fragments)
           e(k) == Encode(fragments[k])
           a == [k \in 1 .. n |-> c[k]]
           T == {i \in 1 .. Len(u) : u[i] = Slash}
<1>1. n \in Nat /\ n > 0 /\ Len(u) \in Nat
  BY LenProperties, EmptySeq
<1>2. \A k \in 1 .. n : e(k) \in Seq(CodeBytes)
  BY ElementOfSeq, EncodedBytes
<1> HIDE DEF e
<1>3. /\ c \in [1 .. n + 1 -> Nat] /\ c[1] = 1 /\ c[n + 1] = Len(u) + 1
      /\ \A k \in 1 .. n : c[k + 1] = c[k] + Len(e(k)) + 1 /\ u[c[k]] = Slash /\ LiesAt(e(k), u, c[k])
  BY DEF AreSlashes, e
<1>4. ASSUME NEW k \in 1 .. n
      PROVE  c[k] \in Nat /\ c[k + 1] \in Nat /\ Len(e(k)) \in Nat /\ c[k] < c[k + 1]
  <2>1. k \in 1 .. n + 1 /\ k + 1 \in 1 .. n + 1
    BY <1>1
  <2>2. Len(e(k)) \in Nat
    BY <1>2, LenProperties
  <2> HIDE DEF n
  <2>3. c[k] \in Nat /\ c[k + 1] \in Nat /\ c[k + 1] = c[k] + Len(e(k)) + 1
    BY <1>3, <2>1
  <2> QED BY <2>2, <2>3
<1>5. \A i, j \in 1 .. n + 1 : i < j => c[i] < c[j]
  <2>1. \A k \in 1 .. (n + 1) - 1 : c[k] < c[k + 1]
    BY <1>1, <1>4
  <2>2. n + 1 \in Nat
    BY <1>1
  <2> HIDE DEF n
  <2> QED BY <1>3, <2>1, <2>2, Ascends
<1>6. \A k \in 1 .. n : c[k] \in T
  <2> TAKE k \in 1 .. n
  <2>1. 1 <= c[k] /\ c[k] < c[n + 1]
    <3>1. k \in 1 .. n + 1 /\ n + 1 \in 1 .. n + 1 /\ 1 \in 1 .. n + 1
      BY <1>1
    <3>2. k < n + 1 /\ (k = 1 \/ 1 < k)
      BY <1>1
    <3> QED BY <1>3, <1>4, <1>5, <3>1, <3>2
  <2> QED BY <1>1, <1>3, <1>4, <2>1
<1>7. ASSUME NEW x \in T PROVE \E k \in 1 .. n : c[k] = x
  <2>1. x \in Nat /\ c[1] <= x /\ x < c[n + 1] /\ u[x] = Slash
    BY <1>1, <1>3
  <2>2. PICK k \in 1 .. n : c[k] <= x /\ x < c[k + 1]
    <3> HIDE DEF n
    <3> QED BY <1>1, <1>3, <2>1, Between
  <2>3. ASSUME c[k] < x PROVE FALSE
    <3> DEFINE j == x - c[k]
    <3>1. j \in 1 .. Len(e(k)) /\ c[k] + j = x
      BY <1>3, <1>4, <2>1, <2>2, <2>3, SMTT(40)
    <3>2. u[c[k] + j] = e(k)[j]
      <4> HIDE DEF j
      <4> QED BY <1>3, <3>1 DEF LiesAt
    <3>3. e(k)[j] \in CodeBytes
      <4> HIDE DEF j
      <4> QED BY <1>2, <3>1, ElementOfSeq
    <3> QED BY <2>1, <3>1, <3>2, <3>3, CodeBytesAreInert
  <2> QED BY <1>4, <2>1, <2>2, <2>3
<1>8. a \in [1 .. n -> T] /\ (\A i, j \in 1 .. n : i < j => a[i] < a[j]) /\ \A x \in T : \E k \in 1 .. n : a[k] = x
  <2>1. \A i \in 1 .. n : i \in 1 .. n + 1
    BY <1>1
  <2> HIDE DEF T
  <2> QED BY <1>5, <1>6, <1>7, <2>1
<1> HIDE DEF a, T, n
<1>9. Lists(a, n, T)
  BY <1>8 DEF Lists
<1> QED BY <1>9 DEF a, T, n

\* Cut at its slashes it falls into the codes of its fragments.
LEMMA PiecesOfUri ==
    ASSUME NEW fragments \in Seq(Seq(Byte)), fragments # <<>>
    PROVE  Tail(Pieces(Uri(fragments), Slash)) = [k \in 1 .. Len(fragments) |-> Encode(fragments[k])]
<1> DEFINE n == Len(fragments)
           u == Uri(fragments)
           T == {i \in 1 .. Len(u) : u[i] = Slash}
<1>1. u \in Seq(Byte) /\ \E c : AreSlashes(c, fragments, u)
  BY UriWrites
<1>2. PICK c : AreSlashes(c, fragments, u)
  BY <1>1
<1> HIDE DEF u
<1> DEFINE a == [k \in 1 .. n |-> c[k]]
           cuts == <<0>> \o a \o <<Len(u) + 1>>
           pieces == [k \in 1 .. Len(cuts) - 1 |-> SubSeq(u, cuts[k] + 1, cuts[k + 1] - 1)]
<1>3. n \in Nat /\ n > 0 /\ Len(u) \in Nat
  BY <1>1, LenProperties, EmptySeq
<1>4. Lists(a, n, T)
  BY <1>1, <1>2, SlashesAre
<1>5. InOrder(T) = a
  <2>1. T \subseteq Nat
    OBVIOUS
  <2> HIDE DEF T, a, n
  <2> QED BY <1>3, <1>4, <2>1, OrderIs
<1>6. Pieces(u, Slash) = pieces
  <2> HIDE DEF a
  <2> QED BY <1>5 DEF Pieces
<1>7. /\ c \in [1 .. n + 1 -> Nat] /\ c[n + 1] = Len(u) + 1
      /\ \A k \in 1 .. n : c[k + 1] = c[k] + Len(Encode(fragments[k])) + 1 /\ LiesAt(Encode(fragments[k]), u, c[k])
  BY <1>2 DEF AreSlashes
<1>8. a \in Seq(Nat) /\ Len(a) = n /\ \A k \in 1 .. n : a[k] = c[k]
  <2>1. \A k \in 1 .. n : c[k] \in Nat
    <3> HIDE DEF n
    <3> QED BY <1>3, <1>7
  <2> QED BY <1>3, <2>1
<1> HIDE DEF a, n
<1>9. cuts \in Seq(Nat) /\ Len(cuts) = n + 2 /\ \A k \in 1 .. n + 1 : cuts[k + 1] = c[k]
  <2> DEFINE b == <<0>> \o a
             e == <<Len(u) + 1>>
  <2>1. b \in Seq(Nat) /\ Len(b) = n + 1 /\ \A k \in 1 .. n : b[k + 1] = a[k]
    BY <1>3, <1>8
  <2>2. e \in Seq(Nat) /\ Len(e) = 1 /\ e[1] = Len(u) + 1
    BY <1>3
  <2> HIDE DEF b, e
  <2>3. b \o e \in Seq(Nat) /\ Len(b \o e) = n + 2 /\ (\A k \in 1 .. n + 1 : (b \o e)[k] = b[k]) /\ (b \o e)[n + 2] = e[1]
    <3>1. /\ Len(b \o e) = Len(b) + Len(e)
          /\ \A i \in 1 .. Len(b) : (b \o e)[i] = b[i]
          /\ \A j \in 1 .. Len(e) : (b \o e)[Len(b) + j] = e[j]
      <4>1. b \in Seq(Nat) /\ e \in Seq(Nat)
        BY <2>1, <2>2
      <4> QED BY <4>1, ConcatOf
    <3>2. 1 \in 1 .. Len(e) /\ Len(b) + 1 = n + 2
      BY <1>3, <2>1, <2>2
    <3>3. b \o e \in Seq(Nat)
      BY <2>1, <2>2
    <3>4. Len(b \o e) = n + 2
      BY <1>3, <2>1, <2>2, <3>1
    <3> QED BY <2>1, <3>1, <3>2, <3>3, <3>4
  <2>4. ASSUME NEW k \in 1 .. n + 1 PROVE (b \o e)[k + 1] = c[k]
    <3>1. CASE k = n + 1
      <4>1. k + 1 = n + 2
        BY <1>3, <3>1
      <4>2. (b \o e)[k + 1] = Len(u) + 1
        BY <2>2, <2>3, <4>1
      <4> QED BY <1>7, <3>1, <4>2
    <3>2. CASE k # n + 1
      <4>1. k \in 1 .. n /\ k + 1 \in 1 .. n + 1
        BY <1>3, <3>2
      <4>2. (b \o e)[k + 1] = b[k + 1]
        BY <2>3, <4>1
      <4>3. b[k + 1] = a[k] /\ a[k] = c[k]
        BY <1>8, <2>1, <4>1
      <4> QED BY <4>2, <4>3
    <3> QED BY <3>1, <3>2
  <2> QED BY <2>3, <2>4 DEF b, e
<1> HIDE DEF cuts
<1>10. pieces \in Seq(Seq(Byte)) /\ Len(pieces) = n + 1
  <2>1. \A k \in 1 .. n + 1 : cuts[k] \in Nat /\ cuts[k + 1] \in Nat
    <3> TAKE k \in 1 .. n + 1
    <3>1. k \in 1 .. Len(cuts) /\ k + 1 \in 1 .. Len(cuts)
      BY <1>3, <1>9
    <3> QED BY <1>9, <3>1, ElementOfSeq
  <2>2. \A k \in 1 .. n + 1 : SubSeq(u, cuts[k] + 1, cuts[k + 1] - 1) \in Seq(Byte)
    <3> TAKE k \in 1 .. n + 1
    <3>1. ASSUME NEW i \in cuts[k] + 1 .. cuts[k + 1] - 1 PROVE i \in 1 .. Len(u)
      <4>1. cuts[k + 1] <= Len(u) + 1
        <5>1. CASE k = n + 1
          BY <1>3, <1>7, <1>9, <5>1
        <5>2. CASE k \in 1 .. n
          <6>1. c[k] \in Nat /\ cuts[k + 1] = c[k]
            BY <1>3, <1>7, <1>9, <5>2
          <6>2. c[k] + Len(Encode(fragments[k])) <= Len(u)
            BY <1>7, <5>2 DEF LiesAt
          <6>3. Len(Encode(fragments[k])) \in Nat
            BY <5>2, ElementOfSeq, EncodedText, LenProperties DEF n
          <6> QED BY <1>3, <6>1, <6>2, <6>3
        <5> QED BY <1>3, <5>1, <5>2
      <4>2. i \in Int /\ cuts[k] + 1 <= i /\ i <= cuts[k + 1] - 1 /\ cuts[k] \in Nat /\ cuts[k + 1] \in Nat
        BY <2>1
      <4> QED BY <1>3, <4>1, <4>2, SMTT(40)
    <3>2. cuts[k] + 1 \in Nat \ {0} /\ cuts[k + 1] - 1 \in Int
      BY <2>1
    <3> HIDE DEF cuts
    <3> QED BY <1>1, <3>1, <3>2, SubSeqProperties
  <2>3. Len(cuts) - 1 = n + 1 /\ n + 1 \in Nat
    BY <1>3, <1>9
  <2> QED BY <2>2, <2>3
<1>11. ASSUME NEW k \in 1 .. n PROVE pieces[k + 1] = Encode(fragments[k])
  <2>1. k + 1 \in 1 .. Len(cuts) - 1 /\ cuts[k + 1] = c[k] /\ cuts[(k + 1) + 1] = c[k + 1]
    <3>1. k \in 1 .. n + 1 /\ k + 1 \in 1 .. n + 1
      BY <1>3
    <3> QED BY <1>3, <1>9, <3>1
  <2>2. pieces[k + 1] = SubSeq(u, c[k] + 1, c[k + 1] - 1)
    BY <2>1
  <2>3. Encode(fragments[k]) \in Seq(Byte) /\ c[k] \in Nat
    <3>1. Encode(fragments[k]) \in Seq(Byte)
      BY ElementOfSeq, EncodedText DEF n
    <3>2. k \in 1 .. n + 1
      BY <1>3
    <3> QED BY <1>7, <3>1, <3>2
  <2>4. c[k + 1] - 1 = c[k] + Len(Encode(fragments[k]))
    <3>1. Len(Encode(fragments[k])) \in Nat
      BY <2>3
    <3> QED BY <1>7, <2>3, <3>1
  <2>5. SubSeq(u, c[k] + 1, c[k] + Len(Encode(fragments[k]))) = Encode(fragments[k])
    BY <1>1, <1>7, <2>3, WrittenIsPart, SMTT(40)
  <2> QED BY <2>2, <2>4, <2>5
<1> HIDE DEF pieces
<1>12. Tail(pieces) = [k \in 1 .. n |-> pieces[k + 1]]
  <2>1. Tail(pieces) \in Seq(Seq(Byte)) /\ Len(Tail(pieces)) = n /\ \A k \in 1 .. n : Tail(pieces)[k] = pieces[k + 1]
    BY <1>3, <1>10
  <2>2. Tail(pieces) = [k \in 1 .. n |-> Tail(pieces)[k]]
    <3> DEFINE rest == Tail(pieces)
    <3>1. rest \in Seq(Seq(Byte)) /\ Len(rest) = n
      BY <2>1
    <3> HIDE DEF rest
    <3>2. rest = [k \in 1 .. n |-> rest[k]]
      BY <3>1
    <3> QED BY <3>2 DEF rest
  <2> QED BY <2>1, <2>2
<1>13. Tail(pieces) = [k \in 1 .. n |-> Encode(fragments[k])]
  BY <1>11, <1>12
<1> QED BY <1>6, <1>13 DEF u, n

\* And decoded, into the fragments.
LEMMA FragmentsOfUri ==
    ASSUME NEW fragments \in Seq(Seq(Byte)), fragments # <<>>
    PROVE  LET pieces == Tail(Pieces(Uri(fragments), Slash))
           IN  [k \in DOMAIN pieces |-> Decode(pieces[k])] = fragments
<1> DEFINE n == Len(fragments)
           pieces == [k \in 1 .. n |-> Encode(fragments[k])]
<1>1. \A k \in 1 .. n : Decode(pieces[k]) = fragments[k]
  BY ElementOfSeq, DecodeUndoesEncode
<1>2. DOMAIN pieces = 1 .. n
  OBVIOUS
<1>3. fragments = [k \in 1 .. n |-> fragments[k]]
  OBVIOUS
<1> HIDE DEF pieces
<1>4. [k \in DOMAIN pieces |-> Decode(pieces[k])] = fragments
  BY <1>1, <1>2, <1>3
<1> QED BY <1>4, PiecesOfUri DEF pieces

\* For every text, a path that uri built (url.hpp:56) of one fragment or of two, cut at its slashes and
\* decoded, gives back the fragments; FragmentsOfUri says so of any number of them.
THEOREM FragmentsComeBack == Spec => []FragmentsRecovered
<1>1. TextInv => FragmentsRecovered
  <2> DEFINE text == input.text
             Recovers(fragments) ==
                LET pieces == Tail(Pieces(Uri(fragments), Slash))
                IN  [k \in DOMAIN pieces |-> Decode(pieces[k])] = fragments
  <2> SUFFICES ASSUME text \in Seq(Byte)
               PROVE  /\ Recovers(<<text>>)
                      /\ \A i \in 0 .. Len(text) :
                            Recovers(<<SubSeq(text, 1, i), SubSeq(text, i + 1, Len(text))>>)
    BY DEF TextInv, FragmentsRecovered
  <2>1. ASSUME NEW fragments \in Seq(Seq(Byte)), fragments # <<>> PROVE Recovers(fragments)
    BY <2>1, FragmentsOfUri
  <2> HIDE DEF text, Recovers
  <2>2. Recovers(<<text>>)
    <3>1. <<text>> \in Seq(Seq(Byte)) /\ <<text>> # <<>>
      BY OneElement
    <3> QED BY <2>1, <3>1
  <2>3. ASSUME NEW i \in 0 .. Len(text)
        PROVE  Recovers(<<SubSeq(text, 1, i), SubSeq(text, i + 1, Len(text))>>)
    <3> DEFINE a == SubSeq(text, 1, i)
               b == SubSeq(text, i + 1, Len(text))
    <3>1. Len(text) \in Nat
      OBVIOUS
    <3>2. a \in Seq(Byte)
      BY <3>1
    <3>3. b \in Seq(Byte)
      BY <3>1
    <3> HIDE DEF a, b
    <3>4. <<a, b>> \in Seq(Seq(Byte)) /\ <<a, b>> # <<>>
      BY <3>2, <3>3
    <3>5. Recovers(<<a, b>>)
      BY <2>1, <3>4
    <3> QED BY <3>5 DEF a, b
  <2> QED BY <2>2, <2>3
<1> QED BY <1>1, TextsStay, PTL

-----------------------------------------------------------------------------
\* For every URL with a host, and every port of five digits at most, from_string (url.cpp:10) reads back
\* what to_string (url.cpp:35) wrote, up to the largest port; what it makes of any other address is
\* refused or remains the same once it is written and read again.
THEOREM UrlsComeBack == Spec => []UrlRoundTrip
<1>1. UrlInv /\ AddressInv => UrlRoundTrip
  <2>1. ASSUME UrlInv, input.kind = "url"
        PROVE  UrlFromString(UrlToString(input.url)) = IF input.url.port <= MaxPort THEN input.url ELSE DefaultUrl
    <3> DEFINE url == input.url
    <3>1. /\ url = [ssl |-> url.ssl, host |-> url.host, port |-> url.port, target |-> url.target]
          /\ url.ssl \in BOOLEAN
          /\ url.host \in Seq(Byte \ {Colon, Slash}) /\ url.host # <<>>
          /\ url.port \in Nat /\ url.port < 10 * (10 * (10 * (10 * 10)))
          /\ url.target \in Seq(Byte \ LineBreaks)
      BY <2>1 DEF UrlInv
    <3> HIDE DEF url
    <3>2. UrlFromString(UrlToString(url)) = IF PortFits(url.port) THEN url ELSE DefaultUrl
      BY <3>1, WrittenUrlRead, SMTT(40)
    <3> QED BY <3>2 DEF url, PortFits
  <2>2. ASSUME AddressInv, input.kind = "address"
        PROVE  LET url == UrlFromString(Scheme(input.ssl) \o input.rest)
               IN  url = DefaultUrl \/ (url.ssl = input.ssl /\ UrlFromString(UrlToString(url)) = url)
    <3>1. input.ssl \in BOOLEAN /\ input.rest \in Seq(Byte)
      BY <2>2 DEF AddressInv
    <3> QED BY <3>1, ReadUrlStays
  <2> QED BY <2>1, <2>2 DEF UrlRoundTrip
<1> QED BY <1>1, UrlsStay, AddressesStay, PTL

-----------------------------------------------------------------------------
\* The values of cookies are codes, but for the equals signs.
LEMMA WrittenValueIs ==
    ASSUME NEW v \in Seq(Byte)
    PROVE  WrittenValue(v) \in Seq(CodeBytes \cup {Equals}) /\ Decode(WrittenValue(v)) = v
<1> DEFINE w(i) == IF v[i] = Equals THEN <<Equals>> ELSE EncodeChar(v[i])
           q == [i \in 1 .. Len(v) |-> w(i)]
           T == CodeBytes \cup {Equals}
<1>1. ASSUME NEW i \in 1 .. Len(v) PROVE w(i) \in Seq(T) /\ Stands(w(i), v[i])
  <2>1. v[i] \in Byte
    BY ElementOfSeq
  <2>2. EncodeChar(v[i]) \in Seq(CodeBytes)
    BY <2>1, CodeBytesAre
  <2>3. EncodeChar(v[i]) \in Seq(T) /\ <<Equals>> \in Seq(T)
    BY <2>2
  <2>4. w(i) \in Seq(T)
    BY <2>3
  <2>5. Stands(w(i), v[i])
    <3>1. Equals \notin {Plus, Percent}
      BY DEF Equals, Plus, Percent
    <3>2. v[i] # Equals => w(i) = EncodeChar(v[i])
      OBVIOUS
    <3>3. v[i] = Equals => w(i) = <<v[i]>>
      OBVIOUS
    <3> HIDE DEF w
    <3> QED BY <3>1, <3>2, <3>3 DEF Stands
  <2> QED BY <2>4, <2>5
<1> HIDE DEF w, T
<1>2. q \in Seq(Seq(T)) /\ Len(q) = Len(v) /\ \A i \in 1 .. Len(v) : q[i] = w(i)
  BY <1>1
<1>3. T \subseteq Byte
  BY CodeBytesAreInert DEF T, Equals, Byte
<1>4. q \in Seq(Seq(Byte))
  <2>1. Seq(T) \subseteq Seq(Byte)
    BY <1>3
  <2> HIDE DEF q
  <2> QED BY <1>2, <2>1
<1>5. WrittenValue(v) = FlattenSeq(q)
  BY DEF WrittenValue, w
<1> HIDE DEF q
<1>6. Decode(FlattenSeq(q)) = v
  <2>1. \A i \in 1 .. Len(v) : Stands(q[i], v[i])
    BY <1>1, <1>2
  <2> QED BY <1>2, <1>4, <2>1, CodesDecode
<1>7. FlattenSeq(q) \in Seq(T)
  <2>1. CASE q = <<>>
    <3>1. FlattenSeq(<<>>) = <<>> /\ <<>> \in Seq(T)
      BY DEF FlattenSeq
    <3> QED BY <2>1, <3>1
  <2>2. CASE q # <<>>
    BY <1>2, <2>2, FlattenType
  <2> QED BY <2>1, <2>2
<1> QED BY <1>5, <1>6, <1>7 DEF T

\* A text is not empty if there is something to encode.
LEMMA EncodedIsText ==
    ASSUME NEW s \in Seq(Byte), s # <<>>
    PROVE  Encode(s) # <<>>
<1> SUFFICES ASSUME Encode(s) = <<>> PROVE FALSE
  OBVIOUS
<1>1. Encode(<<>>) = <<>>
  BY DEF Encode, FlattenSeq
<1>2. <<>> \in Seq(Byte)
  OBVIOUS
<1>3. Decode(Encode(s)) = s /\ Decode(Encode(<<>>)) = <<>>
  BY <1>2, DecodeUndoesEncode
<1> QED BY <1>1, <1>3

-----------------------------------------------------------------------------
\* From pos on there are blanks, up to o, then a key, an equals sign and a value, and at the end a
\* semicolon or nothing.
CookieLies(t, pos, o, key, value, end) ==
    /\ pos \in Nat /\ o \in Nat /\ 1 <= pos /\ pos <= o + 1
    /\ \A j \in pos .. o : t[j] = Space
    /\ LiesAt(Encode(key), t, o)
    /\ t[o + Len(Encode(key)) + 1] = Equals
    /\ LiesAt(WrittenValue(value), t, o + Len(Encode(key)) + 1)
    /\ end = o + Len(Encode(key)) + Len(WrittenValue(value)) + 2
    /\ end = Len(t) + 1 \/ (end <= Len(t) /\ t[end] = Semicolon)

\* From such a place on the cookie is read, and the search goes on behind its end.
LEMMA CookieRead ==
    ASSUME NEW t \in Seq(Byte), NEW key \in Seq(Byte), key # <<>>, NEW value \in Seq(Byte),
           NEW pos, NEW o, NEW end, CookieLies(t, pos, o, key, value, end), NEW f, NEW last
    PROVE  CookieBody(t, last, f, pos) =
              [left \in 0 .. last |->
                  IF left = 0 THEN <<>> ELSE <<[key |-> key, value |-> value]>> \o f[end + 1][left - 1]]
<1> DEFINE K == Encode(key)
           V == WrittenValue(value)
           lk == Len(K)
           lv == Len(V)
           eq == o + lk + 1
<1>1. K \in Seq(CodeBytes) /\ K \in Seq(Byte) /\ Decode(K) = key /\ K # <<>>
  BY EncodedBytes, EncodedText, DecodeUndoesEncode, EncodedIsText
<1>2. V \in Seq(CodeBytes \cup {Equals}) /\ V \in Seq(Byte) /\ Decode(V) = value
  <2>1. CodeBytes \cup {Equals} \subseteq Byte
    BY CodeBytesAreInert DEF Equals, Byte
  <2>2. V \in Seq(CodeBytes \cup {Equals}) /\ Decode(V) = value
    BY WrittenValueIs
  <2> HIDE DEF V
  <2> QED BY <2>1, <2>2
<1> HIDE DEF K, V
<1>3. /\ pos \in Nat /\ o \in Nat /\ 1 <= pos /\ pos <= o + 1
      /\ lk \in Nat /\ lk >= 1 /\ lv \in Nat /\ Len(t) \in Nat
      /\ end = o + lk + lv + 2 /\ end <= Len(t) + 1
  <2>1. lk \in Nat /\ lk >= 1
    BY <1>1, LenProperties, EmptySeq
  <2>2. lv \in Nat /\ Len(t) \in Nat
    BY <1>2, LenProperties
  <2>3. pos \in Nat /\ o \in Nat /\ 1 <= pos /\ pos <= o + 1 /\ end = o + lk + lv + 2
    BY DEF CookieLies, K, V
  <2>4. end = Len(t) + 1 \/ end <= Len(t)
    BY DEF CookieLies
  <2> HIDE DEF lk, lv
  <2> QED BY <2>1, <2>2, <2>3, <2>4
<1>4. /\ \A j \in pos .. o : t[j] = Space
      /\ LiesAt(K, t, o) /\ t[eq] = Equals /\ LiesAt(V, t, eq)
      /\ end = Len(t) + 1 \/ (end <= Len(t) /\ t[end] = Semicolon)
  BY DEF CookieLies, K, V
<1>5. \A j \in o + 1 .. o + lk : t[j] \in CodeBytes
  <2> TAKE j \in o + 1 .. o + lk
  <2> DEFINE i == j - o
  <2>1. i \in 1 .. lk /\ o + i = j
    BY <1>3
  <2> HIDE DEF i
  <2>2. t[o + i] = K[i]
    BY <1>4, <2>1 DEF LiesAt
  <2>3. K[i] \in CodeBytes
    BY <1>1, <2>1, ElementOfSeq
  <2> QED BY <2>1, <2>2, <2>3
<1>6. \A j \in eq + 1 .. eq + lv : t[j] \in CodeBytes \cup {Equals}
  <2> TAKE j \in eq + 1 .. eq + lv
  <2> DEFINE i == j - eq
  <2>1. i \in 1 .. lv /\ eq + i = j
    BY <1>3
  <2> HIDE DEF i
  <2>2. t[eq + i] = V[i]
    BY <1>4, <2>1 DEF LiesAt
  <2>3. V[i] \in CodeBytes \cup {Equals}
    BY <1>2, <2>1, ElementOfSeq
  <2> QED BY <2>1, <2>2, <2>3
<1>7. /\ \A c \in CodeBytes : c \in Byte /\ c \notin Blank /\ c # Equals /\ c # Semicolon
      /\ Space \in Byte /\ Space \in Blank /\ Space # Equals /\ Equals # Semicolon
  <2>1. Space \in Byte /\ Space \in Blank /\ Space # Equals /\ Equals # Semicolon
    BY DEF Space, Byte, Blank, Equals, Semicolon
  <2> QED BY <2>1, CodeBytesAreInert
<1> HIDE DEF lk, lv
<1>8. eq \in Nat /\ eq <= Len(t) /\ pos < eq /\ end = eq + lv + 1
  BY <1>3
<1>9. \A j \in pos .. eq - 1 : t[j] \in Byte \ {Equals}
  <2> TAKE j \in pos .. eq - 1
  <2>1. j \in pos .. o \/ j \in o + 1 .. o + lk
    BY <1>3
  <2> QED BY <1>4, <1>5, <1>7, <2>1
<1>10. FirstOf(t, Byte \ {Equals}, pos) = pos
  <2>1. pos \in pos .. eq - 1 /\ pos \in pos .. Len(t) /\ pos .. pos - 1 = {}
    BY <1>3, <1>8
  <2>2. IsFirst(pos, t, Byte \ {Equals}, pos)
    BY <1>3, <1>9, <2>1 DEF IsFirst
  <2> QED BY <1>3, <2>2, FirstUnique
<1>11. FirstOf(t, {Equals}, pos) = eq
  <2>1. eq \in pos .. Len(t)
    BY <1>3, <1>8
  <2>2. IsFirst(eq, t, {Equals}, pos)
    BY <1>4, <1>8, <1>9, <2>1 DEF IsFirst
  <2> QED BY <1>3, <2>2, FirstUnique
<1>12. FirstOf(t, {Semicolon}, eq + 1) = end
  <2>1. end \in Nat /\ eq + 1 \in Nat /\ (end = Len(t) + 1 \/ (end \in eq + 1 .. Len(t) /\ t[end] \in {Semicolon}))
    BY <1>3, <1>4, <1>8
  <2>2. \A j \in eq + 1 .. end - 1 : t[j] \notin {Semicolon}
    <3>1. end - 1 = eq + lv
      BY <1>3, <1>8
    <3> QED BY <1>6, <1>7, <3>1
  <2>3. IsFirst(end, t, {Semicolon}, eq + 1)
    BY <2>1, <2>2 DEF IsFirst
  <2> QED BY <1>3, <2>1, <2>3, FirstUnique
<1>13. KeyStart(t, pos, eq) = o + 1
  <2>1. o + 1 \in Nat /\ o + 1 \in pos .. Len(t) /\ o + 1 \in o + 1 .. o + lk
    BY <1>3
  <2>2. t[o + 1] \in Byte \ Blank
    BY <1>5, <1>7, <2>1
  <2>3. \A j \in pos .. (o + 1) - 1 : t[j] \notin Byte \ Blank
    <3>1. (o + 1) - 1 = o
      BY <1>3
    <3> QED BY <1>4, <1>7, <3>1
  <2>4. IsFirst(o + 1, t, Byte \ Blank, pos)
    BY <2>1, <2>2, <2>3 DEF IsFirst
  <2>5. FirstOf(t, Byte \ Blank, pos) = o + 1
    BY <1>3, <2>4, FirstUnique
  <2>6. o + 1 \in Int /\ eq - 1 \in Int /\ o + 1 <= eq - 1
    BY <1>3
  <2>7. Min({o + 1, eq - 1}) = o + 1
    BY <2>6, MinOfTwo
  <2> QED BY <2>5, <2>7 DEF KeyStart
<1>14. SubSeq(t, o + 1, eq - 1) = K
  <2>1. SubSeq(t, o + 1, o + Len(K)) = K
    BY <1>1, <1>3, <1>4, WrittenIsPart
  <2>2. o + Len(K) = eq - 1
    BY <1>3 DEF lk
  <2> QED BY <2>1, <2>2
<1>15. SubSeq(t, eq + 1, end - 1) = V
  <2>1. SubSeq(t, eq + 1, eq + Len(V)) = V
    BY <1>2, <1>4, <1>8, WrittenIsPart
  <2>2. eq + Len(V) = end - 1
    BY <1>3, <1>8 DEF lv
  <2> QED BY <2>1, <2>2
<1>16. ~(eq > Len(t))
  BY <1>3, <1>8
<1> HIDE DEF eq
<1>17. CookieBody(t, last, f, pos) =
          [left \in 0 .. last |->
              IF left = 0 \/ eq > Len(t) THEN <<>>
              ELSE <<[key |-> Decode(K), value |-> Decode(V)]>> \o f[end + 1][left - 1]]
  BY <1>10, <1>11, <1>12, <1>13, <1>14, <1>15 DEF CookieBody
<1> QED BY <1>1, <1>2, <1>16, <1>17

-----------------------------------------------------------------------------
\* Four texts, the third of one byte.
AreFour(S, a, k, e, v) == a \in Seq(S) /\ k \in Seq(S) /\ e \in Seq(S) /\ v \in Seq(S) /\ Len(e) = 1

\* Where they are, one behind the other.
LEMMA FourTexts ==
    ASSUME NEW S, NEW a, NEW k, NEW e, NEW v, AreFour(S, a, k, e, v),
           NEW t \in Seq(S), NEW i \in Nat, LiesAt(a \o k \o e \o v, t, i)
    PROVE  /\ Len(a \o k \o e \o v) = Len(a) + Len(k) + Len(v) + 1
           /\ LiesAt(a, t, i) /\ LiesAt(k, t, i + Len(a)) /\ LiesAt(e, t, i + Len(a) + Len(k))
           /\ LiesAt(v, t, i + Len(a) + Len(k) + 1)
<1> DEFINE p2 == a \o k
           p3 == p2 \o e
           p4 == p3 \o v
           la == Len(a)
           lk == Len(k)
           lv == Len(v)
<1> HIDE DEF p2, p3, p4
<1>a. a \in Seq(S)
  BY DEF AreFour
<1>k. k \in Seq(S)
  BY DEF AreFour
<1>e. e \in Seq(S) /\ Len(e) = 1
  BY DEF AreFour
<1>v. v \in Seq(S)
  BY DEF AreFour
<1>0. la \in Nat /\ lk \in Nat /\ lv \in Nat
  BY <1>a, <1>k, <1>v, LenProperties
<1>2. p2 \in Seq(S) /\ Len(p2) = la + lk
  <2>1. Joins(p2, a, k)
    BY DEF Joins, p2
  <2> QED BY <1>a, <1>k, <2>1, Joined
<1>3. p3 \in Seq(S) /\ Len(p3) = Len(p2) + Len(e)
  <2>1. Joins(p3, p2, e)
    BY DEF Joins, p3
  <2> QED BY <1>2, <1>e, <2>1, Joined
<1>4. p4 \in Seq(S) /\ Len(p4) = Len(p3) + lv
  <2>1. Joins(p4, p3, v)
    BY DEF Joins, p4
  <2> QED BY <1>3, <1>v, <2>1, Joined
<1>5. LiesAt(p3, t, i) /\ LiesAt(v, t, i + Len(p3))
  <2>1. LiesAt(p3 \o v, t, i)
    BY DEF p2, p3
  <2> QED BY <1>3, <1>v, <2>1, WrittenParts
<1>6. LiesAt(p2, t, i) /\ LiesAt(e, t, i + Len(p2))
  <2>1. LiesAt(p2 \o e, t, i)
    BY <1>5 DEF p3
  <2> QED BY <1>2, <1>e, <2>1, WrittenParts
<1>7. LiesAt(a, t, i) /\ LiesAt(k, t, i + la)
  <2>1. LiesAt(a \o k, t, i)
    BY <1>6 DEF p2
  <2> QED BY <1>a, <1>k, <2>1, WrittenParts
<1> HIDE DEF la, lk, lv
<1>8. Len(p3) = la + lk + 1 /\ i + Len(p2) = i + la + lk /\ i + Len(p3) = i + la + lk + 1
  BY <1>0, <1>2, <1>3, <1>e
<1>9. Len(p4) = la + lk + lv + 1
  BY <1>0, <1>4, <1>8
<1>10. /\ LiesAt(a, t, i) /\ LiesAt(k, t, i + la) /\ LiesAt(e, t, i + la + lk)
       /\ LiesAt(v, t, i + la + lk + 1)
  BY <1>5, <1>6, <1>7, <1>8
<1> QED BY <1>9, <1>10 DEF p2, p3, p4, la, lk, lv

\* What stands in front of a cookie.
Separator(i, blank) == IF i = 1 THEN <<>> ELSE <<Semicolon>> \o (IF blank THEN <<Space>> ELSE <<>>)

CookieText(i, cookie, blank) ==
    Separator(i, blank) \o Encode(cookie.key) \o <<Equals>> \o WrittenValue(cookie.value)

\* A separator is a semicolon and a blank perhaps, and the first cookie has none.
LEMMA SeparatorIs ==
    ASSUME NEW i, NEW blank \in BOOLEAN
    PROVE  LET s == Separator(i, blank)
           IN  /\ s \in Seq(Byte) /\ Len(s) \in Nat
               /\ i = 1 => Len(s) = 0
               /\ i # 1 => Len(s) >= 1 /\ s[1] = Semicolon /\ \A j \in 2 .. Len(s) : s[j] = Space
<1> DEFINE s == Separator(i, blank)
<1>1. Semicolon \in Byte /\ Space \in Byte
  BY DEF Semicolon, Space, Byte
<1>2. CASE i = 1
  <2>1. s = <<>>
    BY <1>2 DEF Separator
  <2>2. s \in Seq(Byte) /\ Len(s) = 0
    <3> HIDE DEF s
    <3> QED BY <2>1
  <2> QED BY <1>2, <2>2
<1>3. CASE i # 1 /\ blank = TRUE
  <2> DEFINE x == <<Semicolon>>
             y == <<Space>>
  <2>1. s = x \o y
    BY <1>3 DEF Separator
  <2> HIDE DEF s
  <2>2. s \in Seq(Byte) /\ Len(s) = 2 /\ s[1] = Semicolon /\ s[2] = Space
    <3>1. x \in Seq(Byte) /\ Len(x) = 1 /\ x[1] = Semicolon /\ y \in Seq(Byte) /\ Len(y) = 1 /\ y[1] = Space
      BY <1>1
    <3> HIDE DEF x, y
    <3>2. Joins(s, x, y)
      BY <2>1 DEF Joins
    <3>3. s \in Seq(Byte) /\ Len(s) = Len(x) + Len(y) /\ LiesAt(x, s, 0) /\ LiesAt(y, s, Len(x))
      <4>1. x \in Seq(Byte)
        BY <3>1
      <4>2. y \in Seq(Byte)
        BY <3>1
      <4> QED BY <3>2, <4>1, <4>2, Joined
    <3>4. s[0 + 1] = x[1] /\ s[1 + 1] = y[1]
      BY <3>1, <3>3 DEF LiesAt
    <3> QED BY <3>1, <3>3, <3>4
  <2>3. s \in Seq(Byte) /\ Len(s) \in Nat /\ Len(s) >= 1 /\ s[1] = Semicolon /\ \A j \in 2 .. Len(s) : s[j] = Space
    BY <2>2
  <2> QED BY <1>3, <2>3 DEF s
<1>4. CASE i # 1 /\ blank = FALSE
  <2>1. s = <<Semicolon>>
    <3>1. s = <<Semicolon>> \o <<>>
      BY <1>4 DEF Separator
    <3>2. <<Semicolon>> \o <<>> = <<Semicolon>>
      BY <1>1
    <3> QED BY <3>1, <3>2
  <2> HIDE DEF s
  <2>2. s \in Seq(Byte) /\ Len(s) = 1 /\ s[1] = Semicolon
    BY <1>1, <2>1
  <2>3. s \in Seq(Byte) /\ Len(s) \in Nat /\ Len(s) >= 1 /\ s[1] = Semicolon /\ \A j \in 2 .. Len(s) : s[j] = Space
    BY <2>2
  <2> QED BY <1>4, <2>3 DEF s
<1> QED BY <1>2, <1>3, <1>4

\* One cookie of a header.
LEMMA CookiePlaced ==
    ASSUME NEW i \in Nat, i >= 1, NEW blank \in BOOLEAN, NEW key \in Seq(Byte), NEW value \in Seq(Byte),
           NEW t \in Seq(Byte), NEW x \in Nat,
           LiesAt(CookieText(i, [key |-> key, value |-> value], blank), t, x),
           i = 1 => x = 0,
           NEW y, y = x + Len(CookieText(i, [key |-> key, value |-> value], blank)),
           y = Len(t) \/ (y < Len(t) /\ t[y + 1] = Semicolon)
    PROVE  \E o : CookieLies(t, IF i = 1 THEN 1 ELSE x + 2, o, key, value, y + 1)
<1> DEFINE s == Separator(i, blank)
           K == Encode(key)
           V == WrittenValue(value)
           e == <<Equals>>
           ls == Len(s)
           lk == Len(K)
           lv == Len(V)
<1>1. /\ s \in Seq(Byte) /\ ls \in Nat
      /\ i = 1 => ls = 0
      /\ i # 1 => ls >= 1 /\ s[1] = Semicolon /\ \A j \in 2 .. ls : s[j] = Space
  BY SeparatorIs
<1>2. K \in Seq(Byte)
  BY EncodedText
<1>3. V \in Seq(Byte)
  <2>1. CodeBytes \cup {Equals} \subseteq Byte
    BY CodeBytesAreInert DEF Equals, Byte
  <2>2. V \in Seq(CodeBytes \cup {Equals})
    BY WrittenValueIs
  <2> HIDE DEF V
  <2> QED BY <2>1, <2>2
<1>4. e \in Seq(Byte) /\ Len(e) = 1 /\ e[1] = Equals
  BY DEF Equals, Byte
<1>5. CookieText(i, [key |-> key, value |-> value], blank) = s \o K \o e \o V
  BY DEF CookieText
<1> HIDE DEF s, K, V, e
<1>6. AreFour(Byte, s, K, e, V)
  BY <1>1, <1>2, <1>3, <1>4 DEF AreFour
<1>7. LiesAt(s \o K \o e \o V, t, x)
  BY <1>5
<1>8. /\ Len(s \o K \o e \o V) = ls + lk + lv + 1
      /\ LiesAt(s, t, x) /\ LiesAt(K, t, x + ls) /\ LiesAt(e, t, x + ls + lk) /\ LiesAt(V, t, x + ls + lk + 1)
  BY <1>6, <1>7, FourTexts
<1>9. lk \in Nat /\ lv \in Nat /\ Len(t) \in Nat
  BY <1>2, <1>3, LenProperties
<1> DEFINE o == x + ls
           pos == IF i = 1 THEN 1 ELSE x + 2
<1>10. y = x + (ls + lk + lv + 1)
  BY <1>5, <1>8
<1>11. t[o + lk + 1] = Equals
  BY <1>4, <1>8 DEF LiesAt
<1>12. \A j \in 1 .. ls : t[x + j] = s[j]
  BY <1>8 DEF LiesAt
<1> HIDE DEF ls, lk, lv
<1>13. pos \in Nat /\ o \in Nat /\ 1 <= pos /\ pos <= o + 1
  <2>1. ls \in Nat /\ (i # 1 => ls >= 1)
    BY <1>1
  <2>2. CASE i = 1
    BY <2>1, <2>2
  <2>3. CASE i # 1
    BY <2>1, <2>3
  <2> QED BY <2>2, <2>3
<1>14. \A j \in pos .. o : t[j] = Space
  <2> TAKE j \in pos .. o
  <2>1. i # 1
    BY <1>1
  <2> DEFINE g == j - x
  <2>2. g \in 2 .. ls /\ g \in 1 .. ls /\ x + g = j
    BY <1>1, <2>1
  <2> HIDE DEF g
  <2> QED BY <1>1, <1>12, <2>1, <2>2
<1>15. y + 1 = o + lk + lv + 2 /\ y \in Nat
  <2>1. ls \in Nat /\ lk \in Nat /\ lv \in Nat
    BY <1>1, <1>9
  <2> DEFINE lt == Len(t)
  <2> HIDE DEF lt
  <2>2. y \in Nat
    BY <1>10, <2>1
  <2>3. x + (ls + lk + lv + 1) + 1 = x + ls + lk + lv + 2
    BY <2>1
  <2> QED BY <1>10, <2>2, <2>3
<1>16. y + 1 = Len(t) + 1 \/ (y + 1 <= Len(t) /\ t[y + 1] = Semicolon)
  BY <1>9, <1>15
<1>17. o + lk + 1 = x + ls + lk + 1
  OBVIOUS
<1>18. LiesAt(K, t, o) /\ LiesAt(V, t, o + lk + 1)
  BY <1>8
<1> HIDE DEF o, pos
<1>19. CookieLies(t, pos, o, key, value, y + 1)
  BY <1>11, <1>13, <1>14, <1>15, <1>16, <1>18 DEF CookieLies, lk, lv, K, V
<1> QED BY <1>19 DEF pos

\* Cookies with a key.
Jar == Seq([key : Seq(Byte) \ {<<>>}, value : Seq(Byte)])

\* Where the search for each of them begins.
ArePlacesOfCookies(P, cookies, t) ==
    /\ P \in [1 .. Len(cookies) + 1 -> Nat] /\ P[1] = 1 /\ P[Len(cookies) + 1] = Len(t) + 2
    /\ \A i \in 1 .. Len(cookies) :
          \E o : CookieLies(t, P[i], o, cookies[i].key, cookies[i].value, P[i + 1] - 1)

\* Every header that is written has such places.
LEMMA CookiesPlaced ==
    ASSUME NEW cookies \in Jar, cookies # <<>>, NEW blank \in BOOLEAN
    PROVE  /\ Written(cookies, blank) \in Seq(Byte)
           /\ \E P : ArePlacesOfCookies(P, cookies, Written(cookies, blank))
<1> DEFINE n == Len(cookies)
           q == [i \in 1 .. n |-> CookieText(i, cookies[i], blank)]
           t == FlattenSeq(q)
<1>1. Written(cookies, blank) = t
  BY DEF Written, CookieText, Separator
<1>2. n \in Nat /\ n >= 1
  BY LenProperties, EmptySeq DEF Jar
<1>3. ASSUME NEW i \in 1 .. n
      PROVE  /\ cookies[i].key \in Seq(Byte) /\ cookies[i].value \in Seq(Byte)
             /\ cookies[i] = [key |-> cookies[i].key, value |-> cookies[i].value]
  <2>1. cookies[i] \in [key : Seq(Byte) \ {<<>>}, value : Seq(Byte)]
    BY ElementOfSeq DEF Jar
  <2> QED BY <2>1
<1>4. ASSUME NEW i \in 1 .. n PROVE CookieText(i, cookies[i], blank) \in Seq(Byte)
  <2> DEFINE s == Separator(i, blank)
             K == Encode(cookies[i].key)
             V == WrittenValue(cookies[i].value)
             e == <<Equals>>
  <2>1. s \in Seq(Byte)
    BY SeparatorIs
  <2>2. K \in Seq(Byte)
    BY <1>3, EncodedText
  <2>3. V \in Seq(Byte)
    <3>1. CodeBytes \cup {Equals} \subseteq Byte
      BY CodeBytesAreInert DEF Equals, Byte
    <3>2. V \in Seq(CodeBytes \cup {Equals})
      BY <1>3, WrittenValueIs
    <3> HIDE DEF V
    <3> QED BY <3>1, <3>2
  <2>4. e \in Seq(Byte)
    BY DEF Equals, Byte
  <2>5. CookieText(i, cookies[i], blank) = s \o K \o e \o V
    BY DEF CookieText
  <2> HIDE DEF s, K, V, e
  <2>6. s \o K \in Seq(Byte)
    BY <2>1, <2>2, ConcatProperties
  <2>7. (s \o K) \o e \in Seq(Byte)
    BY <2>4, <2>6, ConcatProperties
  <2>8. ((s \o K) \o e) \o V \in Seq(Byte)
    BY <2>3, <2>7, ConcatProperties
  <2> QED BY <2>5, <2>8
<1>5. q \in Seq(Seq(Byte)) /\ Len(q) = n /\ q # <<>> /\ \A i \in 1 .. n : q[i] = CookieText(i, cookies[i], blank)
  <2> HIDE DEF n
  <2>1. q \in Seq(Seq(Byte)) /\ Len(q) = n /\ \A i \in 1 .. n : q[i] = CookieText(i, cookies[i], blank)
    BY <1>2, <1>4
  <2> HIDE DEF q
  <2> QED BY <1>2, <2>1, EmptySeq
<1> HIDE DEF q
<1>6. t \in Seq(Byte) /\ \E p : ArePlaces(p, q, t)
  BY <1>5, FlattenWrites
<1>7. PICK p : ArePlaces(p, q, t)
  BY <1>6
<1> HIDE DEF t, n
<1>8. /\ p \in [0 .. n -> Nat] /\ p[0] = 0 /\ p[n] = Len(t)
      /\ \A k \in 1 .. n : p[k] = p[k - 1] + Len(q[k]) /\ LiesAt(q[k], t, p[k - 1])
  BY <1>5, <1>7 DEF ArePlaces
<1> DEFINE P == [i \in 1 .. n + 1 |-> IF i = 1 THEN 1 ELSE p[i - 1] + 2]
<1>9. P \in [1 .. n + 1 -> Nat] /\ P[1] = 1 /\ P[n + 1] = Len(t) + 2
  <2>1. \A i \in 1 .. n + 1 : p[i - 1] \in Nat
    BY <1>2, <1>8
  <2>2. (n + 1) - 1 = n /\ n + 1 # 1 /\ 1 \in 1 .. n + 1 /\ n + 1 \in 1 .. n + 1
    BY <1>2
  <2> QED BY <1>8, <2>1, <2>2
<1>10. ASSUME NEW i \in 1 .. n
       PROVE  \E o : CookieLies(t, P[i], o, cookies[i].key, cookies[i].value, P[i + 1] - 1)
  <2> DEFINE x == p[i - 1]
             y == p[i]
             key == cookies[i].key
             value == cookies[i].value
  <2>1. i \in Nat /\ i >= 1 /\ i - 1 \in 0 .. n /\ i \in 0 .. n /\ (i = 1 => i - 1 = 0)
    BY <1>2
  <2>2. x \in Nat /\ y \in Nat /\ (i = 1 => x = 0)
    BY <1>8, <2>1
  <2>3. q[i] = CookieText(i, [key |-> key, value |-> value], blank)
    BY <1>3, <1>5
  <2>4. LiesAt(CookieText(i, [key |-> key, value |-> value], blank), t, x)
        /\ y = x + Len(CookieText(i, [key |-> key, value |-> value], blank))
    BY <1>8, <2>3
  <2>5. y = Len(t) \/ (y < Len(t) /\ t[y + 1] = Semicolon)
    <3>1. CASE i = n
      BY <1>8, <3>1
    <3>2. CASE i # n
      <4>1. i + 1 \in 1 .. n /\ (i + 1) - 1 = i /\ i + 1 \in Nat /\ i + 1 # 1
        BY <1>2, <2>1, <3>2
      <4> DEFINE s == Separator(i + 1, blank)
                 c == cookies[i + 1]
                 K == Encode(c.key)
                 V == WrittenValue(c.value)
                 e == <<Equals>>
      <4>2. s \in Seq(Byte) /\ Len(s) \in Nat /\ Len(s) >= 1 /\ s[1] = Semicolon
        BY <4>1, SeparatorIs
      <4>3. LiesAt(q[i + 1], t, y)
        BY <1>8, <4>1
      <4>4. q[i + 1] = s \o K \o e \o V
        BY <1>5, <4>1 DEF CookieText
      <4>5. AreFour(Byte, s, K, e, V)
        <5>1. c.key \in Seq(Byte) /\ c.value \in Seq(Byte)
          BY <1>3, <4>1
        <5>2. K \in Seq(Byte)
          BY <5>1, EncodedText
        <5>3. V \in Seq(Byte)
          <6>1. CodeBytes \cup {Equals} \subseteq Byte
            BY CodeBytesAreInert DEF Equals, Byte
          <6>2. V \in Seq(CodeBytes \cup {Equals})
            BY <5>1, WrittenValueIs
          <6> HIDE DEF V
          <6> QED BY <6>1, <6>2
        <5>4. e \in Seq(Byte) /\ Len(e) = 1
          BY DEF Equals, Byte
        <5> HIDE DEF s, K, V, e
        <5> QED BY <4>2, <5>2, <5>3, <5>4 DEF AreFour
      <4> HIDE DEF s, K, V, e, y
      <4>6. LiesAt(s, t, y)
        <5>1. LiesAt(s \o K \o e \o V, t, y)
          BY <4>3, <4>4
        <5> QED BY <1>6, <2>2, <4>5, <5>1, FourTexts
      <4>7. y + Len(s) <= Len(t) /\ \A j \in 1 .. Len(s) : t[y + j] = s[j]
        BY <4>6 DEF LiesAt
      <4>8. 1 \in 1 .. Len(s) /\ Len(t) \in Nat
        BY <1>6, <4>2, LenProperties
      <4> QED BY <2>2, <4>2, <4>7, <4>8
    <3> QED BY <3>1, <3>2
  <2>6. P[i] = (IF i = 1 THEN 1 ELSE x + 2) /\ P[i + 1] - 1 = y + 1
    <3>1. i \in 1 .. n + 1 /\ i + 1 \in 1 .. n + 1 /\ i + 1 # 1 /\ (i + 1) - 1 = i
      BY <1>2, <2>1
    <3>2. P[i] = (IF i = 1 THEN 1 ELSE x + 2) /\ P[i + 1] = y + 2
      BY <3>1
    <3> HIDE DEF P, x, y
    <3> QED BY <2>2, <3>2
  <2>7. key \in Seq(Byte) /\ value \in Seq(Byte)
    BY <1>3
  <2> HIDE DEF x, y, key, value, P
  <2>8. \E o : CookieLies(t, IF i = 1 THEN 1 ELSE x + 2, o, key, value, y + 1)
    BY <1>6, <2>1, <2>2, <2>4, <2>5, <2>7, CookiePlaced, ZenonT(60)
  <2> QED BY <2>6, <2>8 DEF key, value
<1> HIDE DEF P
<1>11. ArePlacesOfCookies(P, cookies, t)
  BY <1>9, <1>10 DEF ArePlacesOfCookies, n
<1> QED BY <1>1, <1>6, <1>11

-----------------------------------------------------------------------------
\* Behind the last cookie there is none.
LEMMA NoMoreCookies ==
    ASSUME NEW t, Len(t) \in Nat, NEW last \in Nat, NEW f
    PROVE  CookieBody(t, last, f, Len(t) + 2) = [left \in 0 .. last |-> <<>>]
<1> DEFINE l == Len(t)
           start == FirstOf(t, Byte \ {Equals}, l + 2)
           equal == FirstOf(t, {Equals}, start)
<1>1. start = l + 1
  <2>1. l + 1 \in Nat /\ l + 2 \in Nat /\ l + 2 .. (l + 1) - 1 = {}
    OBVIOUS
  <2>2. IsFirst(l + 1, t, Byte \ {Equals}, l + 2)
    BY <2>1 DEF IsFirst
  <2> QED BY <2>1, <2>2, FirstUnique
<1> HIDE DEF start
<1>2. equal = l + 1
  <2>1. l + 1 \in Nat /\ l + 1 .. (l + 1) - 1 = {}
    OBVIOUS
  <2>2. IsFirst(l + 1, t, {Equals}, l + 1)
    BY <2>1 DEF IsFirst
  <2> QED BY <1>1, <2>1, <2>2, FirstUnique
<1> HIDE DEF equal
<1>3. equal > Len(t)
  BY <1>2
<1> QED BY <1>3 DEF CookieBody, start, equal

\* What is read from a cookie on.
CookiesFrom(cookies, i, left) ==
    SubSeq(cookies, i, IF i + left - 1 <= Len(cookies) THEN i + left - 1 ELSE Len(cookies))

\* A cookie and those behind it.
LEMMA OneCookieMore ==
    ASSUME NEW S, NEW cookies \in Seq(S), NEW i \in 1 .. Len(cookies), NEW left \in Nat, left # 0
    PROVE  <<cookies[i]>> \o CookiesFrom(cookies, i + 1, left - 1) = CookiesFrom(cookies, i, left)
<1> DEFINE n == Len(cookies)
           m == IF i + left - 1 <= n THEN i + left - 1 ELSE n
           k == i - 1
<1>1. n \in Nat
  BY LenProperties
<1>2. m \in 0 .. Len(cookies) /\ k \in 0 .. m - 1 /\ k + 1 = i /\ k + 2 = i + 1
  BY <1>1
<1>3. CookiesFrom(cookies, i + 1, left - 1) = SubSeq(cookies, i + 1, m)
  <2>1. (i + 1) + (left - 1) - 1 = i + left - 1
    BY <1>1
  <2> QED BY <2>1 DEF CookiesFrom
<1>4. CookiesFrom(cookies, i, left) = SubSeq(cookies, i, m)
  BY DEF CookiesFrom
<1> HIDE DEF m, k, n
<1>5. <<cookies[k + 1]>> \o SubSeq(cookies, k + 2, m) = SubSeq(cookies, k + 1, m)
  BY <1>2, FirstAndRest
<1> QED BY <1>2, <1>3, <1>4, <1>5

\* At each place the cookies from there on are read.
LEMMA CookiesReadFrom ==
    ASSUME NEW cookies \in Jar, cookies # <<>>, NEW t \in Seq(Byte), NEW P, ArePlacesOfCookies(P, cookies, t),
           NEW last \in Nat, NEW f, AreCookies(f, t, last, 1)
    PROVE  f[1] = [left \in 0 .. last |-> CookiesFrom(cookies, 1, left)]
<1> DEFINE n == Len(cookies)
           Read(i) == [left \in 0 .. last |-> CookiesFrom(cookies, i, left)]
           G == {k \in 0 .. n : f[P[k + 1]] = Read(k + 1)}
<1>1. n \in Nat /\ n >= 1 /\ Len(t) \in Nat
  BY LenProperties, EmptySeq DEF Jar
<1>2. /\ P \in [1 .. n + 1 -> Nat] /\ P[1] = 1 /\ P[n + 1] = Len(t) + 2
      /\ \A i \in 1 .. n :
            \E o : CookieLies(t, P[i], o, cookies[i].key, cookies[i].value, P[i + 1] - 1)
  BY DEF ArePlacesOfCookies
<1>3. \A pos \in 1 .. Len(t) + 2 : f[pos] = CookieBody(t, last, f, pos)
  BY DEF AreCookies
<1>4. n \in G
  <2>1. f[Len(t) + 2] = [left \in 0 .. last |-> <<>>]
    <3>1. Len(t) + 2 \in 1 .. Len(t) + 2
      BY <1>1
    <3> QED BY <1>1, <1>3, <3>1, NoMoreCookies
  <2>2. \A left \in 0 .. last : CookiesFrom(cookies, n + 1, left) = <<>>
    <3> TAKE left \in 0 .. last
    <3> DEFINE m == IF (n + 1) + left - 1 <= n THEN (n + 1) + left - 1 ELSE n
    <3>1. m = n
      BY <1>1
    <3>2. CookiesFrom(cookies, n + 1, left) = SubSeq(cookies, n + 1, n)
      BY <3>1 DEF CookiesFrom
    <3>3. SubSeq(cookies, n + 1, n) = <<>>
      BY <1>1 DEF Jar
    <3> QED BY <3>2, <3>3
  <2>3. Read(n + 1) = [left \in 0 .. last |-> <<>>]
    BY <2>2
  <2>4. n \in 0 .. n
    BY <1>1
  <2> HIDE DEF Read, n
  <2> QED BY <1>2, <2>1, <2>3, <2>4
<1>5. ASSUME NEW k \in 0 .. n, \A m \in k + 1 .. n : m \in G PROVE k \in G
  <2>1. CASE k = n
    BY <1>4, <2>1
  <2>2. CASE k # n
    <3> DEFINE i == k + 1
               key == cookies[i].key
               value == cookies[i].value
    <3>1. i \in 1 .. n /\ i \in k + 1 .. n /\ i \in 1 .. n + 1 /\ i + 1 \in 1 .. n + 1
      BY <1>1, <2>2
    <3>2. f[P[i + 1]] = Read(i + 1)
      <4>1. i \in G
        <5> HIDE DEF G, i, n
        <5> QED BY <1>5, <3>1
      <4> QED BY <4>1
    <3> HIDE DEF i, G, n, Read
    <3>3. cookies[i] = [key |-> key, value |-> value] /\ key \in Seq(Byte) /\ key # <<>> /\ value \in Seq(Byte)
      <4>1. cookies[i] \in [key : Seq(Byte) \ {<<>>}, value : Seq(Byte)]
        BY <3>1, ElementOfSeq DEF Jar, n
      <4> QED BY <4>1
    <3>4. PICK o : CookieLies(t, P[i], o, key, value, P[i + 1] - 1)
      BY <1>2, <3>1
    <3> HIDE DEF key, value
    <3>5. /\ P[i] \in Nat /\ P[i + 1] \in Nat /\ 1 <= P[i] /\ P[i] <= Len(t) + 2
      <4>1. P[i] \in Nat /\ P[i + 1] \in Nat
        BY <1>2, <3>1
      <4>2. o \in Nat /\ 1 <= P[i] /\ P[i] <= o + 1
        BY <3>4 DEF CookieLies
      <4>3. LiesAt(Encode(key), t, o)
        BY <3>4 DEF CookieLies
      <4>4. o + Len(Encode(key)) <= Len(t)
        BY <4>3 DEF LiesAt
      <4>5. Len(Encode(key)) \in Nat
        BY <3>3, EncodedText, LenProperties
      <4> QED BY <1>1, <4>1, <4>2, <4>4, <4>5
    <3>6. P[i] \in 1 .. Len(t) + 2 /\ (P[i + 1] - 1) + 1 = P[i + 1]
      BY <1>1, <3>5
    <3>7. f[P[i]] = CookieBody(t, last, f, P[i])
      BY <1>3, <3>6
    <3>8. CookieBody(t, last, f, P[i]) =
             [left \in 0 .. last |->
                 IF left = 0 THEN <<>> ELSE <<[key |-> key, value |-> value]>> \o f[(P[i + 1] - 1) + 1][left - 1]]
      <4> DEFINE pos == P[i]
                 end == P[i + 1] - 1
      <4>1. CookieLies(t, pos, o, key, value, end)
        BY <3>4
      <4> HIDE DEF pos, end
      <4>2. CookieBody(t, last, f, pos) =
               [left \in 0 .. last |->
                   IF left = 0 THEN <<>> ELSE <<[key |-> key, value |-> value]>> \o f[end + 1][left - 1]]
        BY <3>3, <4>1, CookieRead
      <4> QED BY <4>2 DEF pos, end
    <3>9. f[P[i]] = [left \in 0 .. last |-> IF left = 0 THEN <<>> ELSE <<cookies[i]>> \o Read(i + 1)[left - 1]]
      BY <3>2, <3>3, <3>6, <3>7, <3>8
    <3>10. ASSUME NEW left \in 0 .. last
           PROVE  CookiesFrom(cookies, i, left) = IF left = 0 THEN <<>> ELSE <<cookies[i]>> \o Read(i + 1)[left - 1]
      <4>1. CASE left = 0
        <5>1. i + left - 1 = i - 1 /\ i + left - 1 <= Len(cookies)
          BY <1>1, <3>1, <4>1 DEF n
        <5>2. SubSeq(cookies, i, i - 1) = <<>>
          BY <1>1, <3>1 DEF Jar
        <5> QED BY <4>1, <5>1, <5>2 DEF CookiesFrom
      <4>2. CASE left # 0
        <5>1. left - 1 \in 0 .. last /\ left \in Nat
          BY <4>2
        <5>2. Read(i + 1)[left - 1] = CookiesFrom(cookies, i + 1, left - 1)
          BY <5>1 DEF Read
        <5>3. <<cookies[i]>> \o CookiesFrom(cookies, i + 1, left - 1) = CookiesFrom(cookies, i, left)
          <6>1. i \in 1 .. Len(cookies) /\ cookies \in Seq([key : Seq(Byte) \ {<<>>}, value : Seq(Byte)])
            BY <3>1 DEF n, Jar
          <6> QED BY <4>2, <5>1, <6>1, OneCookieMore
        <5> QED BY <4>2, <5>2, <5>3
      <4> QED BY <4>1, <4>2
    <3>11. f[P[i]] = Read(i)
      <4>1. Read(i) = [left \in 0 .. last |-> CookiesFrom(cookies, i, left)]
        BY DEF Read
      <4> QED BY <3>9, <3>10, <4>1
    <3> QED BY <3>11 DEF G, i
  <2> QED BY <2>1, <2>2
<1>6. 0 \in G
  <2>1. \A k \in 0 .. n : k \in G
    <3> HIDE DEF G, n
    <3> QED BY <1>1, <1>5, Downwards
  <2>2. 0 \in 0 .. n
    BY <1>1
  <2> HIDE DEF G, n
  <2> QED BY <2>1, <2>2
<1>7. 0 + 1 = 1
  OBVIOUS
<1> QED BY <1>2, <1>6, <1>7

\* A header is read back, up to the cookie whose callback answers false.
LEMMA WrittenCookiesRead ==
    ASSUME NEW cookies \in Jar, NEW blank \in BOOLEAN, NEW last \in 1 .. Len(cookies) + 1
    PROVE  ParseCookieValues(Written(cookies, blank), last) = SubSeq(cookies, 1, Min({last, Len(cookies)}))
<1> DEFINE n == Len(cookies)
           t == Written(cookies, blank)
<1>1. n \in Nat /\ last \in Nat /\ last >= 1
  BY LenProperties DEF Jar
<1>2. SubSeq(cookies, 1, Min({last, n})) = CookiesFrom(cookies, 1, last)
  <2>1. Min({last, n}) = IF last <= n THEN last ELSE n
    BY <1>1, MinOfTwo
  <2>2. 1 + last - 1 = last
    BY <1>1
  <2> QED BY <2>1, <2>2 DEF CookiesFrom
<1>3. CASE cookies = <<>>
  <2>1. t = <<>> /\ n = 0
    BY <1>3 DEF Written, FlattenSeq
  <2> HIDE DEF t
  <2>2. Len(t) = 0 /\ Len(t) \in Nat
    BY <2>1
  <2>3. PICK f : AreCookies(f, t, last, 1) /\ ParseCookieValues(t, last) = f[1][last]
    BY <2>2, CookiesAre
  <2> DEFINE start == FirstOf(t, Byte \ {Equals}, 1)
             equal == FirstOf(t, {Equals}, start)
  <2>4. f[1] = CookieBody(t, last, f, 1)
    BY <2>2, <2>3 DEF AreCookies
  <2>5. start = 1
    <3>1. IsFirst(1, t, Byte \ {Equals}, 1)
      BY <2>2 DEF IsFirst
    <3> QED BY <2>2, <3>1, FirstUnique
  <2> HIDE DEF start
  <2>6. equal = 1
    <3>1. IsFirst(1, t, {Equals}, 1)
      BY <2>2 DEF IsFirst
    <3> QED BY <2>2, <2>5, <3>1, FirstUnique
  <2> HIDE DEF equal
  <2>7. equal > Len(t)
    BY <2>2, <2>6
  <2>8. f[1] = [left \in 0 .. last |-> <<>>]
    BY <2>4, <2>7 DEF CookieBody, start, equal
  <2>9. f[1][last] = <<>>
    BY <1>1, <2>8
  <2>10. CookiesFrom(cookies, 1, last) = <<>>
    <3>1. (IF 1 + last - 1 <= Len(cookies) THEN 1 + last - 1 ELSE Len(cookies)) = 0
      BY <1>1, <2>1
    <3>2. CookiesFrom(cookies, 1, last) = SubSeq(cookies, 1, 0)
      BY <3>1 DEF CookiesFrom
    <3>3. SubSeq(cookies, 1, 0) = <<>>
      BY DEF Jar
    <3> QED BY <3>2, <3>3
  <2> QED BY <1>2, <2>3, <2>9, <2>10 DEF t
<1>4. CASE cookies # <<>>
  <2>1. t \in Seq(Byte) /\ \E P : ArePlacesOfCookies(P, cookies, t)
    BY <1>4, CookiesPlaced
  <2>2. PICK P : ArePlacesOfCookies(P, cookies, t)
    BY <2>1
  <2> HIDE DEF t
  <2>3. PICK f : AreCookies(f, t, last, 1) /\ ParseCookieValues(t, last) = f[1][last]
    BY <2>1, CookiesAre, LenProperties
  <2>4. f[1] = [left \in 0 .. last |-> CookiesFrom(cookies, 1, left)]
    BY <1>1, <1>4, <2>1, <2>2, <2>3, CookiesReadFrom
  <2>5. f[1][last] = CookiesFrom(cookies, 1, last)
    <3>1. last \in 0 .. last
      BY <1>1
    <3> QED BY <2>4, <3>1
  <2> QED BY <1>2, <2>3, <2>5 DEF t
<1> QED BY <1>3, <1>4

\* The cookies of an input have a key.
CookiesInv == input.kind = "cookies" => input.cookies \in Jar /\ input.blank \in BOOLEAN

\* The inputs of a run do not change.
LEMMA CookiesStay == Spec => []CookiesInv
<1>1. Init => CookiesInv
  <2> SUFFICES ASSUME Init, input.kind = "cookies" PROVE input.cookies \in Jar /\ input.blank \in BOOLEAN
    BY DEF CookiesInv
  <2>1. input.cookies \in BoundedSeq(Named, MaxCookies) /\ input.blank \in BOOLEAN
    BY InputsOf
  <2>2. Named \subseteq [key : Seq(Byte) \ {<<>>}, value : Seq(Byte)]
    <3> SUFFICES ASSUME NEW cookie \in Named
                 PROVE  cookie \in [key : Seq(Byte) \ {<<>>}, value : Seq(Byte)]
      OBVIOUS
    <3>1. /\ cookie = [key |-> cookie.key, value |-> cookie.value]
          /\ cookie.key \in BoundedSeq(CookieBytes, MaxName) \ {<<>>}
          /\ cookie.value \in BoundedSeq(CookieBytes, MaxValue)
      BY DEF Named
    <3>2. cookie.key \in Seq(Byte) \ {<<>>}
      BY <3>1, BytesAssumption, BoundedSequence
    <3>3. cookie.value \in Seq(Byte)
      BY <3>1, BytesAssumption, BoundedSequence
    <3> QED BY <3>1, <3>2, <3>3
  <2>3. input.cookies \in Jar
    BY <2>1, <2>2, BoundedSequence DEF Jar
  <2> QED BY <2>1, <2>3
<1>2. CookiesInv /\ [Next]_input => CookiesInv'
  BY DEF CookiesInv, Next
<1> QED BY <1>1, <1>2, PTL DEF Spec

\* For every list of cookies with a key, parse_cookie_values (parse_cookie_values.cpp:9) calls back with the
\* cookies of the header that was written, in order, up to the one whose callback answers false.
THEOREM CookiesComeBack == Spec => []CookiesRecovered
<1>1. CookiesInv => CookiesRecovered
  <2> SUFFICES ASSUME input.cookies \in Jar, input.blank \in BOOLEAN, NEW last \in 1 .. Len(input.cookies) + 1
               PROVE  ParseCookieValues(Written(input.cookies, input.blank), last)
                         = SubSeq(input.cookies, 1, Min({last, Len(input.cookies)}))
    BY DEF CookiesInv, CookiesRecovered
  <2> QED BY WrittenCookiesRead
<1> QED BY <1>1, CookiesStay, PTL
=============================================================================
