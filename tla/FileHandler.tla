------------------------------ MODULE FileHandler ------------------------------
(***************************************************************************)
(* The request handler for public files (request_handlers/file.cpp).  What *)
(* it finds on the disk may change between two of its looks, so that each  *)
(* look is a field of its own in `disk`; numbers are positions in a file.  *)
(***************************************************************************)
EXTENDS Integers

CONSTANT Missing    \* an absent number, header, or body

\* What a request asks for: whether its method is GET; the numbers of its Range header, of
\* "bytes=2-4", "bytes=2-", "bytes=-4" or something that is no number; whether it has an
\* If-Modified-Since header.
RequestFields(numbers) ==
    [get : BOOLEAN, range : {"none", "numbers", "malformed"}, first : numbers \cup {Missing},
     second : numbers \cup {Missing}, since : BOOLEAN]

\* What the handler finds: the path, under a public directory; the time of the last
\* change, or no file any more; the file's existence, its size; its content.
Disk(sizes) ==
    [path : BOOLEAN, changed : {TRUE, FALSE, Missing}, exists : BOOLEAN,
     size : BOOLEAN, length : sizes \cup {Missing}]

Min2(a, b) == IF a <= b THEN a ELSE b

\* range_from_header, {0, 0} without a header.
Bound(request, number) == IF request.range = "none" \/ number = Missing THEN 0 ELSE number
RangeFromHeader(request) ==
    [first |-> Bound(request, request.first), second |-> Bound(request, request.second)]

\* Mutants: the upper bound is not clamped; a file is cut by one byte.
SliceUnclamped(range, length) ==
    [from |-> Min2(range.first, length),
     to   |-> IF range.second = 0 THEN length ELSE range.second]
SliceShort(range, length) ==
    [from |-> Min2(range.first, length),
     to   |-> IF range.second = 0 THEN length - 1 ELSE Min2(range.second, length)]

\* The part of the file that send_file gives to set_body, `to` excluded.
Slice(range, length) ==
    LET to == Min2(range.second, length)
    IN  [from |-> Min2(range.first, length), to |-> IF to = 0 THEN length ELSE to]

Declined(status) == [handled |-> FALSE, status |-> status, body |-> Missing]
Failed           == [handled |-> Missing, status |-> 500, body |-> Missing]

\* send_file; file_size throws if the file disappeared.
SendFile(range, code, disk) ==
    IF disk.exists /\ ~disk.size THEN Failed
    ELSE IF disk.length = Missing \/ range.first > range.second THEN Declined(200)
    ELSE [handled |-> TRUE, status |-> code, body |-> Slice(range, disk.length)]

NotModified == [handled |-> TRUE, status |-> 304, body |-> Missing]

\* Exceptions before send_file: lexical_cast of a range, last_write_time of a file that is gone.
Throws(request, disk) ==
    request.range = "malformed" \/ (request.since /\ disk.changed = Missing)

\* operator() and process: what the callback is called with, the status, the body.
Process(request, disk) ==
    IF ~request.get THEN Declined(200)
    ELSE IF ~disk.path THEN Declined(404)
    ELSE IF Throws(request, disk) THEN Failed
    ELSE IF request.since /\ disk.changed = FALSE THEN NotModified
    ELSE SendFile(RangeFromHeader(request), IF request.range = "none" THEN 200 ELSE 206, disk)
=============================================================================
