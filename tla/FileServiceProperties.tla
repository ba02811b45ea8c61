-------------------------- MODULE FileServiceProperties --------------------------
(***************************************************************************)
(* What the clients of a public file can rely on while it changes.         *)
(***************************************************************************)
EXTENDS FileService

Contents == 0 .. MaxWrites
Seconds  == 0 .. MaxSecond

\* The types of the file, the cache and the requests under way; the cache is used under its
\* lock, and stays empty if it is disabled.
TypeOK ==
    /\ file \in [content : Contents, large : BOOLEAN, changed : Seconds]
    /\ writes \in Contents /\ second \in Seconds /\ zone \in Zones /\ enabled \in BOOLEAN
    /\ cache \in Contents /\ (cache # None => enabled)
    /\ holder \in Threads \cup {Free}
    /\ pc \in [Threads -> {"idle", "check", "size", "find", "create", "respond"}]
    /\ \A t \in Threads : pc[t] \in {"idle", "check"} <=> holder # t
    /\ work \in [Threads -> [from : Seconds, cacheable : BOOLEAN, content : Contents]]
    /\ copy \in [Threads -> [content : Contents, cached : BOOLEAN, from : Seconds, to : Seconds]]

\* Whatever disappears under a request and whatever throws, the lock of the cache, which all
\* other requests wait for, is released (file.cpp:199).
LockIsReleased == \A t \in Threads : holder = t ~> holder # t

\* The contents that a client gets go back in time only from one that was too large for the
\* cache to the one in the cache (file.cpp:202): contents that are read at the same time by
\* two threads do not overtake each other on their way into the cache.
OnlyTheCacheGoesBack ==
    [][\A t \in Threads :
         copy'[t].content < copy[t].content => ~copy[t].cached /\ copy'[t].cached]_vars

\* What a request would be answered with now.
Full == IF enabled /\ cache # None /\ ~file.large THEN cache ELSE file.content

\* A client whose copy is confirmed (file.cpp:147) would get nothing newer by asking for the
\* whole file, unless the file changed while the copy was on its way or in the second after,
\* whose changes may be dated a second early (file.cpp:136), or the local time is behind GMT
\* (file.cpp:127 reads the client's date as local time).
ConfirmedCopyStands ==
    [][\A t \in Threads :
         pc[t] = "check" /\ pc'[t] = "idle" /\ Exists =>
            \/ Full <= copy[t].content
            \/ file.changed \in copy[t].from .. copy[t].to + 1
            \/ zone < 0]_vars
=============================================================================
