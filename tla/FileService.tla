------------------------------- MODULE FileService -------------------------------
(***************************************************************************)
(* Threads that serve a public file while it changes: the steps of         *)
(* FileRequestHandler::process and send_file (request_handlers/file.cpp)   *)
(* and the cache of file contents they share (file_cache.hpp).  What a     *)
(* request is answered with, once it knows its file, is the subject of     *)
(* FileHandler.                                                            *)
(*                                                                         *)
(* A content is the number of the write that it comes from; it is read in  *)
(* one step.  Each thread serves one client, which revalidates the copy it *)
(* got last with an If-Modified-Since header.  Flyweight, the container of *)
(* the cache, belongs to another library: `require` looks a content up,    *)
(* makes it with create_instance if it is missing, and keeps it.           *)
(***************************************************************************)
EXTENDS Integers

CONSTANTS
    Threads,
    Free,           \* "nobody holds the mutex of the cache"
    MaxWrites,      \* bound: how often the file is written
    MaxSecond,      \* bound: how long the clock runs
    Zones           \* seconds that local time may be ahead of GMT

ASSUME LockAssumption   == Free \notin Threads
ASSUME BoundsAssumption == MaxWrites \in Nat /\ MaxSecond \in Nat /\ Zones \subseteq Int

VARIABLES
    file,           \* the content of the file, None if there is none, its size, its last change
    writes,         \* how often the file was written
    second,         \* the clock
    zone,           \* the local time, ahead of GMT
    enabled,        \* FileRequestHandler::cache_enabled
    cache,          \* the content in the cache, or None
    holder,         \* the thread that holds FileCache::mutex
    pc,             \* per thread, its next step
    work,           \* per thread: when it began, the local variable cacheable, what it read
    copy            \* per client: its copy, whether it is of the cache, when it was asked for and sent

vars == <<file, writes, second, zone, enabled, cache, holder, pc, work, copy>>

None == 0
Idle == [from |-> 0, cacheable |-> FALSE, content |-> None]

NoFile == [content |-> None, large |-> FALSE, changed |-> 0]

Init ==
    /\ file = NoFile
    /\ writes = 0 /\ second = 0
    /\ zone \in Zones /\ enabled \in BOOLEAN
    /\ cache = None /\ holder = Free
    /\ pc = [t \in Threads |-> "idle"]
    /\ work = [t \in Threads |-> Idle]
    /\ copy = [t \in Threads |-> [content |-> None, cached |-> FALSE, from |-> 0, to |-> 0]]

-----------------------------------------------------------------------------
\* Somebody writes or removes the file; time passes.
Write ==
    /\ writes < MaxWrites
    /\ writes' = writes + 1
    /\ \E large \in BOOLEAN : file' = [content |-> writes', large |-> large, changed |-> second]
    /\ UNCHANGED <<second, zone, enabled, cache, holder, pc, work, copy>>

Remove ==
    /\ file.content # None
    /\ file' = NoFile
    /\ UNCHANGED <<writes, second, zone, enabled, cache, holder, pc, work, copy>>

Tick ==
    /\ second < MaxSecond
    /\ second' = second + 1
    /\ UNCHANGED <<file, writes, zone, enabled, cache, holder, pc, work, copy>>

disk == <<file, writes, second, zone, enabled>>

-----------------------------------------------------------------------------
Exists          == file.content # None
At(t, label)    == pc[t] = label
Goto(t, label)  == pc' = [pc EXCEPT ![t] = label]
Set(t, changes) == work' = [work EXCEPT ![t] = changes]

\* Mutant: the lock is not released by an exception.
EndHolding(t) == Goto(t, "idle") /\ Set(t, Idle) /\ UNCHANGED holder

\* The end of a request, with an answer, without, or by an exception: the destructor of
\* FileCache::Lock unlocks the cache.
End(t) ==
    /\ Goto(t, "idle")
    /\ Set(t, Idle)
    /\ holder' = IF holder = t THEN Free ELSE holder

\* process: filepath_from_uri finds the file, or the request is declined.
Resolve(t) ==
    /\ At(t, "idle")
    /\ IF Exists
       THEN Goto(t, "check") /\ Set(t, [Idle EXCEPT !.from = second])
       ELSE UNCHANGED <<pc, work>>
    /\ UNCHANGED <<disk, cache, holder, copy>>

\* http_date_to_timestamp: mktime takes the date, which is GMT, for local time.
ConditionTime(t) == copy[t].to - zone

\* to_time_t: the time of the last change, less the one clock's time of now, plus the
\* other's. The clocks are read one after the other, in either order, and the sum is cut to
\* seconds, so that a change close to the edge of a second moves across it.
ModifiedTimes == file.changed - 1 .. file.changed + 1

\* Mutant: a copy of the last second counts as fresh.
NotModifiedSlack(t) == \E time \in ModifiedTimes : time <= ConditionTime(t) + 1

\* if_not_modified
NotModified(t) == \E time \in ModifiedTimes : time <= ConditionTime(t)

\* A client revalidates its copy: last_write_time throws if the file has disappeared.
Revalidate(t) ==
    /\ At(t, "check") /\ copy[t].content # None
    /\ ~Exists \/ NotModified(t)
    /\ End(t)
    /\ UNCHANGED <<disk, cache, copy>>

\* Mutant: the cache is not locked.
LockNothing(t) ==
    /\ At(t, "check")
    /\ Goto(t, IF Exists THEN "size" ELSE "find")
    /\ UNCHANGED <<disk, cache, holder, work, copy>>

\* The request has no If-Modified-Since header, or the file was modified: send_file locks
\* the cache. A file that does not exist is not cacheable.
Lock(t) ==
    /\ At(t, "check") /\ holder = Free
    /\ holder' = t
    /\ Goto(t, IF Exists THEN "size" ELSE "find")
    /\ UNCHANGED <<disk, cache, work, copy>>

\* file_size throws if the file has disappeared.
LookSize(t) ==
    /\ At(t, "size")
    /\ IF Exists
       THEN Goto(t, "find") /\ Set(t, [work[t] EXCEPT !.cacheable = ~file.large]) /\ UNCHANGED holder
       ELSE End(t)
    /\ UNCHANGED <<disk, cache, copy>>

Cacheable(t) == enabled /\ work[t].cacheable

\* Flyweight::require finds the content, or makes it; that of a large file is always made.
Find(t) ==
    /\ At(t, "find")
    /\ IF Cacheable(t) /\ cache # None
       THEN Goto(t, "respond") /\ Set(t, [work[t] EXCEPT !.content = cache])
       ELSE Goto(t, "create") /\ UNCHANGED work
    /\ UNCHANGED <<disk, cache, holder, copy>>

\* FileCache::create_instance: without a file the request is declined.
Create(t) ==
    /\ At(t, "create")
    /\ IF Exists
       THEN Goto(t, "respond") /\ Set(t, [work[t] EXCEPT !.content = file.content]) /\ UNCHANGED holder
       ELSE End(t)
    /\ UNCHANGED <<disk, cache, copy>>

\* Mutant: a content is kept whatever its size and although the cache is disabled.
KeptAlways(t) == work[t].content

\* Flyweight::require keeps what it made.
Kept(t) == IF Cacheable(t) THEN work[t].content ELSE cache

\* The rest of send_file: set_body, unless the range is refused or
\* set_headers_for_file throws; with a cache that is disabled, there is no garbage.
Respond(t) ==
    /\ At(t, "respond")
    /\ cache' = Kept(t)
    /\ \/ copy' = [copy EXCEPT ![t] = [content |-> work[t].content, cached |-> Cacheable(t),
                                       from |-> work[t].from, to |-> second]]
       \/ UNCHANGED copy
    /\ End(t)
    /\ UNCHANGED disk

-----------------------------------------------------------------------------
Serve(t) ==
    \/ Revalidate(t) \/ Lock(t) \/ LookSize(t) \/ Find(t) \/ Create(t) \/ Respond(t)

Next == Write \/ Remove \/ Tick \/ \E t \in Threads : Resolve(t) \/ Serve(t)

Spec == Init /\ [][Next]_vars

\* A thread that serves a request goes on. Nothing makes the mutex fair.
FairSpec == Spec /\ \A t \in Threads : WF_vars(Serve(t))
=============================================================================
