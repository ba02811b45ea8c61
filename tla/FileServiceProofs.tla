---------------------------- MODULE FileServiceProofs ----------------------------
(***************************************************************************)
(* The contents of a changing file, for any number of threads, writes and  *)
(* seconds: what a client gets goes back in time only into the cache, and  *)
(* a copy that is confirmed is still what it would get.                    *)
(***************************************************************************)
EXTENDS FileServiceProperties, TLAPS

\* The first state is well typed: no file, no request.
LEMMA TypeInit == Init => TypeOK
<1> SUFFICES ASSUME Init PROVE TypeOK
  OBVIOUS
<1>1. 0 \in Contents /\ 0 \in Seconds
  BY BoundsAssumption DEF Contents, Seconds
<1>2. /\ file \in [content : Contents, large : BOOLEAN, changed : Seconds]
      /\ work \in [Threads -> [from : Seconds, cacheable : BOOLEAN, content : Contents]]
      /\ copy \in [Threads -> [content : Contents, cached : BOOLEAN, from : Seconds, to : Seconds]]
  BY <1>1 DEF Init, NoFile, Idle, None
<1>3. \A t \in Threads : pc[t] \in {"idle", "check"} <=> holder # t
  BY LockAssumption DEF Init
<1> QED BY <1>1, <1>2, <1>3 DEF Init, TypeOK, None

\* The steps outside of the threads, and the values they take.
LEMMA DiskTypes ==
    ASSUME TypeOK, Write \/ Remove \/ Tick
    PROVE  /\ file' \in [content : Contents, large : BOOLEAN, changed : Seconds]
           /\ writes' \in Contents /\ second' \in Seconds
           /\ UNCHANGED <<zone, enabled, cache, holder, pc, work, copy>>
<1>1. CASE Write
  <2>1. writes + 1 \in Contents
    BY <1>1, BoundsAssumption DEF Write, TypeOK, Contents
  <2> QED BY <1>1, <2>1 DEF Write, TypeOK
<1>2. CASE Remove
  <2>1. 0 \in Contents /\ 0 \in Seconds
    BY BoundsAssumption DEF Contents, Seconds
  <2> QED BY <1>2, <2>1 DEF Remove, NoFile, None, TypeOK
<1>3. CASE Tick
  <2>1. second + 1 \in Seconds
    BY <1>3, BoundsAssumption DEF Tick, TypeOK, Seconds
  <2> QED BY <1>3, <2>1 DEF Tick, TypeOK
<1> QED BY <1>1, <1>2, <1>3

\* A thread leaves the file and the clock alone, and the other threads.
LEMMA OneThread ==
    ASSUME TypeOK, NEW t \in Threads, Resolve(t) \/ Serve(t)
    PROVE  /\ UNCHANGED <<file, writes, second, zone, enabled>>
           /\ \A u \in Threads : u # t => pc'[u] = pc[u] /\ work'[u] = work[u] /\ copy'[u] = copy[u]
BY DEF TypeOK, Resolve, Serve, Revalidate, Lock, LookSize, Find, Create, Respond, End, Goto, Set, disk

\* What a thread works on keeps its type.
LEMMA WorkType ==
    ASSUME TypeOK, NEW t \in Threads, Resolve(t) \/ Serve(t)
    PROVE  work' \in [Threads -> [from : Seconds, cacheable : BOOLEAN, content : Contents]]
<1>1. Idle \in [from : Seconds, cacheable : BOOLEAN, content : Contents]
  BY BoundsAssumption DEF Idle, None, Contents, Seconds
<1>2. CASE Resolve(t)
  <2>1. [Idle EXCEPT !.from = second] \in [from : Seconds, cacheable : BOOLEAN, content : Contents]
    BY <1>1 DEF TypeOK
  <2> QED BY <1>2, <2>1 DEF Resolve, Set, TypeOK
<1>3. CASE Revalidate(t) \/ Respond(t)
  BY <1>1, <1>3 DEF Revalidate, Respond, End, Set, TypeOK
<1>4. CASE Lock(t)
  BY <1>4 DEF Lock, TypeOK
<1>5. CASE LookSize(t)
  <2> PICK small \in BOOLEAN : small = ~file.large
    OBVIOUS
  <2>1. [work[t] EXCEPT !.cacheable = small] \in [from : Seconds, cacheable : BOOLEAN, content : Contents]
    <3>1. work[t] \in [from : Seconds, cacheable : BOOLEAN, content : Contents]
      BY DEF TypeOK
    <3> QED BY <3>1
  <2>2. \/ work' = [work EXCEPT ![t] = Idle]
        \/ work' = [work EXCEPT ![t] = [work[t] EXCEPT !.cacheable = small]]
    BY <1>5 DEF LookSize, End, Set
  <2> QED BY <1>1, <2>1, <2>2 DEF TypeOK
<1>6. CASE Find(t)
  <2>1. [work[t] EXCEPT !.content = cache] \in [from : Seconds, cacheable : BOOLEAN, content : Contents]
    BY DEF TypeOK
  <2>2. work' = work \/ work' = [work EXCEPT ![t] = [work[t] EXCEPT !.content = cache]]
    BY <1>6 DEF Find, Set
  <2> QED BY <2>1, <2>2 DEF TypeOK
<1>7. CASE Create(t)
  <2>1. [work[t] EXCEPT !.content = file.content] \in [from : Seconds, cacheable : BOOLEAN, content : Contents]
    BY DEF TypeOK
  <2>2. \/ work' = [work EXCEPT ![t] = Idle]
        \/ work' = [work EXCEPT ![t] = [work[t] EXCEPT !.content = file.content]]
    BY <1>7 DEF Create, End, Set
  <2> QED BY <1>1, <2>1, <2>2 DEF TypeOK
<1> QED BY <1>2, <1>3, <1>4, <1>5, <1>6, <1>7 DEF Serve

\* The lock is held exactly from Lock to End.
LEMMA LockStep ==
    ASSUME TypeOK, NEW t \in Threads, Resolve(t) \/ Serve(t)
    PROVE  /\ pc' \in [Threads -> {"idle", "check", "size", "find", "create", "respond"}]
           /\ holder' \in Threads \cup {Free}
           /\ \A u \in Threads : pc'[u] \in {"idle", "check"} <=> holder' # u
<1>1. CASE Resolve(t)
  BY <1>1 DEF Resolve, At, Goto, TypeOK
<1>2. CASE Lock(t)
  BY <1>2, LockAssumption DEF Lock, At, Goto, TypeOK
<1>3. CASE End(t)
  BY <1>3, LockAssumption DEF End, Goto, TypeOK
<1>4. CASE (LookSize(t) \/ Find(t) \/ Create(t)) /\ ~End(t)
  <2>1. CASE LookSize(t)
    BY <1>4, <2>1 DEF LookSize, At, Goto, TypeOK
  <2>2. CASE Find(t)
    BY <1>4, <2>2 DEF Find, At, Goto, TypeOK
  <2>3. CASE Create(t)
    BY <1>4, <2>3 DEF Create, At, Goto, TypeOK
  <2> QED BY <1>4, <2>1, <2>2, <2>3
<1> QED BY <1>1, <1>2, <1>3, <1>4 DEF Serve, Revalidate, Respond

\* The content of the cache, and the copies, come from what threads read.
LEMMA CopyType ==
    ASSUME TypeOK, NEW t \in Threads, Resolve(t) \/ Serve(t)
    PROVE  /\ cache' \in Contents /\ (cache' # None => enabled')
           /\ copy' \in [Threads -> [content : Contents, cached : BOOLEAN, from : Seconds, to : Seconds]]
<1>1. CASE Respond(t)
  <2>1. work[t].content \in Contents /\ work[t].from \in Seconds /\ Cacheable(t) \in BOOLEAN
    BY DEF TypeOK, Cacheable
  <2>2. cache' \in Contents /\ (cache' # None => enabled')
    BY <1>1, <2>1 DEF Respond, Kept, Cacheable, TypeOK, disk
  <2>3. [content |-> work[t].content, cached |-> Cacheable(t), from |-> work[t].from, to |-> second]
            \in [content : Contents, cached : BOOLEAN, from : Seconds, to : Seconds]
    BY <2>1 DEF TypeOK
  <2> QED BY <1>1, <2>2, <2>3 DEF Respond, TypeOK
<1>2. CASE UNCHANGED <<cache, copy>> /\ UNCHANGED enabled
  BY <1>2 DEF TypeOK
<1> QED BY <1>1, <1>2 DEF Serve, Resolve, Revalidate, Lock, LookSize, Find, Create, disk

\* Every step keeps the types.
LEMMA TypeStep == TypeOK /\ [Next]_vars => TypeOK'
<1> SUFFICES ASSUME TypeOK, [Next]_vars PROVE TypeOK'
  OBVIOUS
<1>1. CASE Write \/ Remove \/ Tick
  <2>1. /\ zone' \in Zones /\ enabled' \in BOOLEAN /\ cache' \in Contents /\ (cache' # None => enabled')
        /\ UNCHANGED <<holder, pc, work, copy>>
    BY <1>1, DiskTypes DEF TypeOK
  <2> QED BY <1>1, <2>1, DiskTypes DEF TypeOK
<1>2. CASE \E t \in Threads : Resolve(t) \/ Serve(t)
  <2> PICK t \in Threads : Resolve(t) \/ Serve(t)
    BY <1>2
  <2>1. UNCHANGED <<file, writes, second, zone, enabled>>
    BY OneThread
  <2> QED BY <2>1, WorkType, LockStep, CopyType DEF TypeOK
<1>3. CASE UNCHANGED vars
  BY <1>3 DEF vars, TypeOK
<1> QED BY <1>1, <1>2, <1>3 DEF Next

\* The variables keep their types; a thread holds the lock of the cache exactly between its Lock
\* and its End, whatever ends it, and a cache that is disabled stays empty (file.cpp:199 and 202).
THEOREM TypeCorrect == Spec => []TypeOK
BY TypeInit, TypeStep, PTL DEF Spec

-----------------------------------------------------------------------------
\* The file is as new as anything.
AgeInv ==
    /\ file.content \in {None, writes}
    /\ cache <= writes
    /\ \A t \in Threads : work[t].content <= writes /\ copy[t].content <= writes

\* What is in the cache stays there, and a thread that made a content made the newest.
CacheOf(t) ==
    /\ copy[t].cached => cache # None /\ copy[t].content = cache
    /\ pc[t] = "create" => ~(Cacheable(t) /\ cache # None)
    /\ pc[t] = "respond" /\ Cacheable(t) /\ cache # None => work[t].content = cache
    /\ pc[t] = "respond" => work[t].content # None
    /\ pc[t] = "respond" /\ ~Cacheable(t) => copy[t].content <= work[t].content

CacheInv == \A t \in Threads : CacheOf(t)

Inv == TypeOK /\ AgeInv /\ CacheInv

\* Contents are numbers, which the provers order.
LEMMA Numbers ==
    ASSUME TypeOK
    PROVE  /\ writes \in Nat /\ cache \in Nat /\ file.content \in Nat
           /\ \A t \in Threads : work[t].content \in Nat /\ copy[t].content \in Nat
BY BoundsAssumption DEF TypeOK, Contents

\* No content is newer than the last write.
LEMMA AgeStep == TypeOK /\ AgeInv /\ [Next]_vars => AgeInv'
<1> SUFFICES ASSUME TypeOK, AgeInv, [Next]_vars PROVE AgeInv'
  OBVIOUS
<1>1. CASE Write
  <2>1. writes' = writes + 1 /\ file'.content = writes' /\ UNCHANGED <<cache, work, copy>>
    BY <1>1 DEF Write
  <2> QED BY <2>1, Numbers DEF AgeInv
<1>2. CASE Remove \/ Tick
  BY <1>2 DEF Remove, Tick, NoFile, AgeInv
<1>3. CASE \E t \in Threads : Resolve(t) \/ Serve(t)
  <2> PICK t \in Threads : Resolve(t) \/ Serve(t)
    BY <1>3
  <2>1. work'[t].content \in {work[t].content, cache, file.content, None}
    BY DEF TypeOK, Resolve, Serve, Revalidate, Lock, LookSize, Find, Create, Respond, End, Goto, Set, Idle
  <2>2. /\ copy'[t].content \in {copy[t].content, work[t].content}
        /\ cache' \in {cache, work[t].content}
    BY DEF TypeOK, Resolve, Serve, Revalidate, Lock, LookSize, Find, Create, Respond, Kept
  <2>3. file.content <= writes /\ None <= writes
    BY Numbers DEF AgeInv, None
  <2> QED BY <2>1, <2>2, <2>3, OneThread, Numbers DEF AgeInv
<1>4. CASE UNCHANGED vars
  BY <1>4 DEF vars, AgeInv
<1> QED BY <1>1, <1>2, <1>3, <1>4 DEF Next

\* A thread that makes a content makes the newest; only Respond changes the cache and a copy.
LEMMA CacheSame ==
    ASSUME Inv, NEW t \in Threads, Resolve(t) \/ Serve(t), UNCHANGED <<cache, copy>>
    PROVE  CacheInv'
<1>1. \A u \in Threads : u # t => CacheOf(u)'
  BY OneThread DEF Inv, CacheInv, CacheOf, Cacheable
<1>2. CASE pc'[t] \notin {"create", "respond"}
  <2>1. CacheOf(t)'
    BY <1>2 DEF Inv, CacheInv, CacheOf
  <2> QED BY <1>1, <2>1 DEF CacheInv
<1>3. CASE Find(t)
  <2>1. \/ /\ pc' = [pc EXCEPT ![t] = "respond"]
           /\ work' = [work EXCEPT ![t] = [work[t] EXCEPT !.content = cache]]
           /\ Cacheable(t) /\ cache # None
        \/ pc' = [pc EXCEPT ![t] = "create"] /\ UNCHANGED work /\ ~(Cacheable(t) /\ cache # None)
    BY <1>3 DEF Find, Goto, Set
  <2>2. UNCHANGED enabled
    BY OneThread DEF Inv
  <2>3. (Cacheable(t)' <=> Cacheable(t))
    BY <2>1, <2>2 DEF Inv, Cacheable, TypeOK
  <2>4. \/ pc'[t] = "respond" /\ work'[t].content = cache /\ Cacheable(t) /\ cache # None
        \/ pc'[t] = "create" /\ ~(Cacheable(t) /\ cache # None)
    BY <2>1 DEF Inv, TypeOK
  <2>5. copy[t].cached => cache # None /\ copy[t].content = cache
    BY DEF Inv, CacheInv, CacheOf
  <2>6. CacheOf(t)'
    <3>1. CASE pc'[t] = "create"
      BY <2>3, <2>4, <2>5, <3>1 DEF CacheOf
    <3>2. CASE pc'[t] = "respond" /\ work'[t].content = cache /\ Cacheable(t) /\ cache # None
      BY <2>3, <2>5, <3>2 DEF CacheOf
    <3> QED BY <2>1, <2>4, <3>1, <3>2
  <2> QED BY <1>1, <2>6 DEF CacheInv
<1>4. CASE Create(t) /\ Exists
  <2>1. /\ pc' = [pc EXCEPT ![t] = "respond"] /\ pc[t] = "create"
        /\ work' = [work EXCEPT ![t] = [work[t] EXCEPT !.content = file.content]]
    BY <1>4 DEF Create, Goto, Set, At
  <2>2. UNCHANGED enabled
    BY OneThread DEF Inv
  <2>3. file.content # None /\ file.content = writes /\ copy[t].content <= writes
    BY <1>4 DEF Exists, Inv, AgeInv
  <2>4. pc'[t] = "respond" /\ work'[t].content = file.content /\ (Cacheable(t)' <=> Cacheable(t))
    BY <2>1, <2>2 DEF Inv, Cacheable, TypeOK
  <2>5. /\ copy[t].cached => cache # None /\ copy[t].content = cache
        /\ ~(Cacheable(t) /\ cache # None)
    BY <2>1 DEF Inv, CacheInv, CacheOf
  <2>6. CacheOf(t)'
    BY <2>3, <2>4, <2>5 DEF CacheOf
  <2> QED BY <1>1, <2>6 DEF CacheInv
<1>5. CASE Create(t) /\ ~Exists
  <2>1. pc'[t] = "idle"
    BY <1>5 DEF Create, End, Goto, Inv, TypeOK
  <2> QED BY <1>2, <2>1
<1>6. CASE ~Find(t) /\ ~Create(t)
  <2>1. CASE Respond(t) \/ Revalidate(t) \/ (LookSize(t) /\ ~Exists)
    <3>1. pc'[t] = "idle"
      BY <2>1 DEF Respond, Revalidate, LookSize, End, Goto, Inv, TypeOK
    <3> QED BY <1>2, <3>1
  <2>2. CASE Lock(t) \/ (LookSize(t) /\ Exists)
    <3>1. pc'[t] \in {"size", "find"}
      BY <2>2 DEF Lock, LookSize, Goto, Inv, TypeOK
    <3> QED BY <1>2, <3>1
  <2>3. CASE Resolve(t)
    <3>1. pc'[t] \in {"idle", "check"}
      BY <2>3 DEF Resolve, At, Goto, Inv, TypeOK
    <3> QED BY <1>2, <3>1
  <2> QED BY <1>6, <2>1, <2>2, <2>3 DEF Serve
<1> QED BY <1>3, <1>4, <1>5, <1>6

\* Who responds holds the lock: the other threads have read nothing yet.
LEMMA CacheRespond ==
    ASSUME Inv, NEW t \in Threads, Respond(t)
    PROVE  CacheInv'
<1>1. /\ pc[t] = "respond" /\ pc' = [pc EXCEPT ![t] = "idle"]
      /\ work[t].content # None
      /\ \A u \in Threads : u # t => pc'[u] \in {"idle", "check"}
  BY DEF Respond, At, End, Goto, Inv, TypeOK, CacheInv, CacheOf
<1>2. /\ cache # None => cache' = cache
      /\ Cacheable(t) => cache' = work[t].content
  BY <1>1 DEF Respond, Kept, Inv, CacheInv, CacheOf
<1>3. ASSUME NEW u \in Threads, copy'[u] = copy[u]
      PROVE  CacheOf(u)'
  <2>1. pc'[u] \in {"idle", "check"}
    BY <1>1 DEF Inv, TypeOK
  <2>2. copy[u].cached => cache # None /\ copy[u].content = cache
    BY DEF Inv, CacheInv, CacheOf
  <2> QED BY <1>2, <1>3, <2>1, <2>2 DEF CacheOf
<1>4. \A u \in Threads : u # t => copy'[u] = copy[u]
  BY DEF Respond, Inv, TypeOK
<1>5. CASE copy'[t] # copy[t]
  <2>1. copy'[t] = [content |-> work[t].content, cached |-> Cacheable(t),
                    from |-> work[t].from, to |-> second]
    BY <1>5 DEF Respond, Inv, TypeOK
  <2>2. (copy'[t].cached <=> Cacheable(t)) /\ copy'[t].content = work[t].content
    BY <2>1 DEF Cacheable, Inv, TypeOK
  <2>3. pc'[t] = "idle"
    BY <1>1 DEF Inv, TypeOK
  <2>4. CacheOf(t)'
    BY <1>1, <1>2, <2>2, <2>3 DEF CacheOf
  <2> QED BY <1>3, <1>4, <2>4 DEF CacheInv
<1> QED BY <1>3, <1>4, <1>5 DEF CacheInv

\* Every step keeps the invariant.
LEMMA InvStep == Inv /\ [Next]_vars => Inv'
<1> SUFFICES ASSUME Inv, [Next]_vars PROVE Inv'
  OBVIOUS
<1>1. TypeOK' /\ AgeInv'
  BY TypeStep, AgeStep DEF Inv
<1>2. CASE \E t \in Threads : Resolve(t) \/ Serve(t)
  <2> PICK t \in Threads : Resolve(t) \/ Serve(t)
    BY <1>2
  <2>1. Respond(t) \/ UNCHANGED <<cache, copy>>
    BY DEF Serve, Resolve, Revalidate, Lock, LookSize, Find, Create
  <2> QED BY <1>1, <2>1, CacheRespond, CacheSame DEF Inv
<1>3. CASE Write \/ Remove \/ Tick \/ UNCHANGED vars
  <2>1. UNCHANGED <<enabled, cache, pc, work, copy>>
    BY <1>3 DEF Write, Remove, Tick, vars
  <2>2. CacheInv'
    BY <2>1 DEF Inv, CacheInv, CacheOf, Cacheable
  <2> QED BY <1>1, <2>2 DEF Inv
<1> QED BY <1>2, <1>3 DEF Next

\* The invariant holds before the first write.
LEMMA InvInit == Init => Inv
<1> SUFFICES ASSUME Init PROVE Inv
  OBVIOUS
<1>1. AgeInv
  BY DEF Init, AgeInv, NoFile, Idle, None
<1>2. CacheInv
  BY DEF Init, CacheInv, CacheOf
<1> QED BY <1>1, <1>2, TypeInit DEF Inv

\* A response that is older than the client's copy comes from the cache, and the copy does not.
LEMMA OlderComesFromTheCache ==
    ASSUME Inv, NEW t \in Threads, Respond(t), copy'[t].content < copy[t].content
    PROVE  ~copy[t].cached /\ copy'[t].cached
<1>1. /\ copy'[t].content = work[t].content /\ (copy'[t].cached <=> Cacheable(t))
  <2>1. copy'[t] # copy[t]
    BY Numbers DEF Inv
  <2>2. copy'[t] = [content |-> work[t].content, cached |-> Cacheable(t),
                    from |-> work[t].from, to |-> second]
    BY <2>1 DEF Respond, Inv, TypeOK
  <2> QED BY <2>2 DEF Cacheable, Inv, TypeOK
<1>2. work[t].content \in Nat /\ copy[t].content \in Nat
  BY Numbers DEF Inv
<1>3. pc[t] = "respond" /\ CacheOf(t)
  BY DEF Respond, At, Inv, CacheInv
<1>4. Cacheable(t)
  BY <1>1, <1>2, <1>3 DEF CacheOf
<1>5. ~copy[t].cached
  BY <1>1, <1>2, <1>3, <1>4 DEF CacheOf
<1> QED BY <1>1, <1>4, <1>5

\* Contents read by several threads do not overtake each other: a client's copy becomes older
\* only when one that did not come from the cache is replaced by the cached one (file.cpp:202).
THEOREM CopiesGoBackOnlyToTheCache == Spec => OnlyTheCacheGoesBack
<1>1. ASSUME Inv, [Next]_vars, NEW t \in Threads, copy'[t].content < copy[t].content
      PROVE  ~copy[t].cached /\ copy'[t].cached
  <2>1. copy' # copy
    BY <1>1, Numbers DEF Inv
  <2>2. CASE Respond(t)
    BY <1>1, <2>2, OlderComesFromTheCache
  <2>3. PICK u \in Threads : Respond(u)
    BY <1>1, <2>1 DEF Next, vars, Write, Remove, Tick, Serve, Resolve, Revalidate, Lock, LookSize, Find, Create
  <2>4. u = t
    <3>1. u # t => copy'[t] = copy[t]
      BY <1>1, <2>3 DEF Respond, Inv, TypeOK
    <3>2. copy'[t].content # copy[t].content
      BY <1>1, Numbers DEF Inv
    <3> QED BY <3>1, <3>2
  <2> QED BY <2>2, <2>3, <2>4
<1>2. Inv /\ [Next]_vars =>
         [\A t \in Threads : copy'[t].content < copy[t].content => ~copy[t].cached /\ copy'[t].cached]_vars
  BY <1>1
<1> QED BY <1>2, InvInit, InvStep, PTL DEF Spec, OnlyTheCacheGoesBack

-----------------------------------------------------------------------------
\* The file is as it was when second s began.
Since(s) == Exists /\ file.changed < s

\* What a thread found out about a file that does not change, and what its client got of it.
WorkIsFresh(t) ==
    Since(work[t].from) =>
        /\ pc[t] \in {"find", "create", "respond"} => (work[t].cacheable <=> ~file.large)
        /\ pc[t] = "respond" /\ ~Cacheable(t) => work[t].content = file.content

CopyIsFresh(t) ==
    Since(copy[t].from) =>
        \/ copy[t].cached /\ enabled /\ ~file.large
        \/ copy[t].content = file.content /\ (enabled => file.large)

FreshInv ==
    \A t \in Threads :
        /\ work[t].from <= second /\ copy[t].from <= second
        /\ WorkIsFresh(t) /\ CopyIsFresh(t)

\* The seconds are numbers, too.
LEMMA Times ==
    ASSUME TypeOK
    PROVE  /\ second \in Nat /\ file.changed \in Nat /\ zone \in Int
           /\ \A t \in Threads : work[t].from \in Nat /\ copy[t].from \in Nat /\ copy[t].to \in Nat
BY BoundsAssumption DEF TypeOK, Seconds

\* A file that is written is not what it was before this second.
LEMMA FreshDisk ==
    ASSUME TypeOK, FreshInv, Write \/ Remove \/ Tick
    PROVE  FreshInv'
<1>1. UNCHANGED <<enabled, cache, pc, work, copy>> /\ second' \in {second, second + 1}
  BY DEF Write, Remove, Tick
<1>2. \A t \in Threads : work'[t].from <= second' /\ copy'[t].from <= second'
  BY <1>1, Times DEF FreshInv
<1>3. CASE Write
  <2>1. file'.changed = second /\ second' = second
    BY <1>3 DEF Write
  <2>2. \A t \in Threads : ~(file'.changed < work'[t].from) /\ ~(file'.changed < copy'[t].from)
    BY <1>1, <2>1, Times DEF FreshInv
  <2> QED BY <1>2, <2>2 DEF FreshInv, WorkIsFresh, CopyIsFresh, Since
<1>4. CASE Remove
  <2>1. ~Exists'
    BY <1>4 DEF Remove, NoFile, Exists
  <2> QED BY <1>2, <2>1 DEF FreshInv, WorkIsFresh, CopyIsFresh, Since
<1>5. CASE Tick
  <2>1. UNCHANGED file
    BY <1>5 DEF Tick
  <2> QED BY <1>1, <1>2, <2>1 DEF FreshInv, WorkIsFresh, CopyIsFresh, Since, Exists, Cacheable
<1> QED BY <1>3, <1>4, <1>5

\* What thread t finds out.
LEMMA FreshWork ==
    ASSUME Inv, FreshInv, NEW t \in Threads, Resolve(t) \/ Serve(t)
    PROVE  WorkIsFresh(t)' /\ work'[t].from <= second
<1>1. TypeOK /\ UNCHANGED <<file, enabled>> /\ work[t].from <= second /\ WorkIsFresh(t)
  BY OneThread DEF Inv, FreshInv
<1>2. \A s : Since(s)' <=> Since(s)
  BY <1>1 DEF Since, Exists
<1>3. CASE Resolve(t)
  <2>1. pc'[t] \in {"idle", "check"} /\ work'[t].from \in {work[t].from, second}
    BY <1>1, <1>3 DEF Resolve, At, Goto, Set, Idle, TypeOK
  <2> QED BY <1>1, <2>1, Times DEF WorkIsFresh
<1>4. CASE End(t)
  <2>1. pc'[t] = "idle" /\ work'[t].from = 0
    BY <1>1, <1>4 DEF End, Goto, Set, Idle, TypeOK
  <2> QED BY <1>1, <2>1, Times DEF WorkIsFresh
<1>5. CASE Lock(t)
  <2>1. /\ pc' = [pc EXCEPT ![t] = IF Exists THEN "size" ELSE "find"] /\ UNCHANGED work
    BY <1>5 DEF Lock, Goto
  <2>2. Exists => pc'[t] = "size"
    BY <1>1, <2>1 DEF TypeOK
  <2>3. ~Exists => pc'[t] = "find"
    BY <1>1, <2>1 DEF TypeOK
  <2> QED BY <1>1, <1>2, <2>1, <2>2, <2>3 DEF WorkIsFresh, Since
<1>6. CASE LookSize(t) /\ ~End(t)
  <2> PICK small \in BOOLEAN : small = ~file.large
    OBVIOUS
  <2>1. /\ pc' = [pc EXCEPT ![t] = "find"]
        /\ work' = [work EXCEPT ![t] = [work[t] EXCEPT !.cacheable = small]]
    BY <1>6 DEF LookSize, Goto, Set
  <2>2. work[t] \in [from : Seconds, cacheable : BOOLEAN, content : Contents]
    BY <1>1 DEF TypeOK
  <2>3. pc'[t] = "find" /\ work'[t].from = work[t].from /\ work'[t].cacheable = small
    BY <1>1, <2>1, <2>2 DEF TypeOK
  <2>4. work'[t].cacheable <=> ~file'.large
    BY <1>1, <2>3
  <2> QED BY <1>1, <2>3, <2>4 DEF WorkIsFresh
<1>7. CASE Find(t)
  <2>1. work[t] \in [from : Seconds, cacheable : BOOLEAN, content : Contents]
    BY <1>1 DEF TypeOK
  <2>2. CASE Cacheable(t) /\ cache # None
    <3>1. /\ pc' = [pc EXCEPT ![t] = "respond"] /\ pc[t] = "find"
          /\ work' = [work EXCEPT ![t] = [work[t] EXCEPT !.content = cache]]
      BY <1>7, <2>2 DEF Find, At, Goto, Set
    <3>2. /\ pc'[t] = "respond" /\ work'[t].from = work[t].from
          /\ (work'[t].cacheable <=> work[t].cacheable)
      BY <1>1, <2>1, <3>1 DEF TypeOK
    <3>3. Cacheable(t)'
      BY <1>1, <2>2, <3>2 DEF Cacheable
    <3>4. Since(work[t].from) => (work[t].cacheable <=> ~file.large)
      BY <1>1, <3>1 DEF WorkIsFresh
    <3> QED BY <1>1, <1>2, <3>2, <3>3, <3>4 DEF WorkIsFresh
  <2>3. CASE ~(Cacheable(t) /\ cache # None)
    <3>1. pc' = [pc EXCEPT ![t] = "create"] /\ pc[t] = "find" /\ UNCHANGED work
      BY <1>7, <2>3 DEF Find, At, Goto
    <3>2. pc'[t] = "create"
      BY <1>1, <3>1 DEF TypeOK
    <3> QED BY <1>1, <1>2, <3>1, <3>2 DEF WorkIsFresh
  <2> QED BY <2>2, <2>3
<1>8. CASE Create(t) /\ ~End(t)
  <2>1. /\ pc' = [pc EXCEPT ![t] = "respond"] /\ pc[t] = "create"
        /\ work' = [work EXCEPT ![t] = [work[t] EXCEPT !.content = file.content]]
    BY <1>8 DEF Create, At, Goto, Set
  <2>2. work[t] \in [from : Seconds, cacheable : BOOLEAN, content : Contents]
    BY <1>1 DEF TypeOK
  <2>3. /\ pc'[t] = "respond" /\ work'[t].from = work[t].from /\ work'[t].content = file.content
        /\ (work'[t].cacheable <=> work[t].cacheable)
    BY <1>1, <2>1, <2>2 DEF TypeOK
  <2>4. Since(work[t].from) => (work[t].cacheable <=> ~file.large)
    BY <1>1, <2>1 DEF WorkIsFresh
  <2> QED BY <1>1, <1>2, <2>3, <2>4 DEF WorkIsFresh
<1> QED BY <1>3, <1>4, <1>5, <1>6, <1>7, <1>8 DEF Serve, Revalidate, Respond

\* What the client of thread t gets.
LEMMA FreshCopy ==
    ASSUME Inv, FreshInv, NEW t \in Threads, Resolve(t) \/ Serve(t)
    PROVE  CopyIsFresh(t)' /\ copy'[t].from <= second
<1>1. /\ TypeOK /\ UNCHANGED <<file, enabled>>
      /\ work[t].from <= second /\ copy[t].from <= second /\ WorkIsFresh(t) /\ CopyIsFresh(t)
  BY OneThread DEF Inv, FreshInv
<1>2. CASE copy'[t] = copy[t]
  BY <1>1, <1>2 DEF CopyIsFresh, Since, Exists
<1>3. CASE copy'[t] # copy[t]
  <2>1. /\ copy'[t] = [content |-> work[t].content, cached |-> Cacheable(t),
                       from |-> work[t].from, to |-> second]
        /\ pc[t] = "respond"
    BY <1>1, <1>3 DEF Resolve, Serve, Revalidate, Lock, LookSize, Find, Create, Respond, At, TypeOK
  <2>2. /\ copy'[t].content = work[t].content /\ copy'[t].from = work[t].from
        /\ (copy'[t].cached <=> Cacheable(t))
    BY <1>1, <2>1 DEF Cacheable, TypeOK
  <2>3. Since(copy[t].from)' => Since(work[t].from)
    BY <1>1, <2>2 DEF Since, Exists
  <2>4. ASSUME Since(work[t].from)
        PROVE  \/ Cacheable(t) /\ enabled /\ ~file.large
               \/ work[t].content = file.content /\ (enabled => file.large)
    BY <1>1, <2>1, <2>4 DEF WorkIsFresh, Cacheable
  <2> QED BY <1>1, <2>2, <2>3, <2>4 DEF CopyIsFresh
<1> QED BY <1>2, <1>3

\* Every step keeps what is fresh.
LEMMA FreshStep == Inv /\ FreshInv /\ [Next]_vars => FreshInv'
<1> SUFFICES ASSUME Inv, FreshInv, [Next]_vars PROVE FreshInv'
  OBVIOUS
<1>1. CASE Write \/ Remove \/ Tick
  BY <1>1, FreshDisk DEF Inv
<1>2. CASE \E t \in Threads : Resolve(t) \/ Serve(t)
  <2> PICK t \in Threads : Resolve(t) \/ Serve(t)
    BY <1>2
  <2>1. /\ UNCHANGED <<file, second, enabled>>
        /\ \A u \in Threads : u # t => pc'[u] = pc[u] /\ work'[u] = work[u] /\ copy'[u] = copy[u]
    BY OneThread DEF Inv
  <2>2. ASSUME NEW u \in Threads, u # t
        PROVE  /\ work'[u].from <= second' /\ copy'[u].from <= second'
               /\ WorkIsFresh(u)' /\ CopyIsFresh(u)'
    BY <2>1, <2>2 DEF FreshInv, WorkIsFresh, CopyIsFresh, Since, Exists, Cacheable
  <2>3. /\ work'[t].from <= second' /\ copy'[t].from <= second'
        /\ WorkIsFresh(t)' /\ CopyIsFresh(t)'
    BY <2>1, FreshWork, FreshCopy
  <2> QED BY <2>2, <2>3 DEF FreshInv
<1>3. CASE UNCHANGED vars
  BY <1>3 DEF vars, FreshInv, WorkIsFresh, CopyIsFresh, Since, Exists, Cacheable
<1> QED BY <1>1, <1>2, <1>3 DEF Next

\* At first nobody has a copy.
LEMMA FreshInit == Init => FreshInv
<1> SUFFICES ASSUME Init PROVE FreshInv
  OBVIOUS
<1>1. ~Exists /\ second = 0
  BY DEF Init, Exists, NoFile
<1>2. \A t \in Threads : work[t].from = 0 /\ copy[t].from = 0
  BY DEF Init, Idle
<1>3. \A t \in Threads : WorkIsFresh(t) /\ CopyIsFresh(t)
  BY <1>1 DEF WorkIsFresh, CopyIsFresh, Since
<1>4. \A t \in Threads : work[t].from <= second /\ copy[t].from <= second
  <2>1. 0 <= second
    BY <1>1
  <2> QED BY <1>2, <2>1
<1> QED BY <1>3, <1>4 DEF FreshInv

\* A confirmed copy whose request began after the last change is what the file would give now.
LEMMA FreshIsFull ==
    ASSUME Inv, FreshInv, NEW t \in Threads, Since(copy[t].from)
    PROVE  Full = copy[t].content
<1>1. CopyIsFresh(t) /\ (copy[t].cached => cache # None /\ copy[t].content = cache)
  BY DEF FreshInv, Inv, CacheInv, CacheOf
<1>2. CASE copy[t].cached /\ enabled /\ ~file.large
  BY <1>1, <1>2 DEF Full
<1>3. CASE copy[t].content = file.content /\ (enabled => file.large)
  BY <1>3 DEF Full
<1> QED BY <1>1, <1>2, <1>3 DEF CopyIsFresh

\* A client that is told that its copy still stands (file.cpp:147) holds what it would get, unless
\* the file changed in the seconds in which the copy was on its way or in the one after, which may
\* be dated a second early (file.cpp:136), or local time is behind GMT.
THEOREM ConfirmedCopies == Spec => ConfirmedCopyStands
<1>1. ASSUME Inv, FreshInv, [Next]_vars, NEW t \in Threads, pc[t] = "check", pc'[t] = "idle", Exists
      PROVE  \/ Full <= copy[t].content
             \/ file.changed \in copy[t].from .. copy[t].to + 1
             \/ zone < 0
  <2>1. NotModified(t)
    <3>1. PICK u \in Threads : Resolve(u) \/ Serve(u)
      BY <1>1 DEF Next, vars, Write, Remove, Tick
    <3>2. u = t
      <4>1. \A w \in Threads : w # u => pc'[w] = pc[w]
        BY <1>1, <3>1, OneThread DEF Inv
      <4> QED BY <1>1, <4>1
    <3>3. ~Lock(t)
      <4>1. Lock(t) => pc'[t] = "size"
        BY <1>1 DEF Lock, Goto, Inv, TypeOK
      <4> QED BY <1>1, <4>1
    <3> QED BY <1>1, <3>1, <3>2, <3>3
            DEF Serve, Resolve, Revalidate, LookSize, Find, Create, Respond, At
  <2>2. file.changed - 1 <= copy[t].to - zone
    <3>1. PICK time \in ModifiedTimes : time <= copy[t].to - zone
      BY <2>1 DEF NotModified, ConditionTime
    <3> QED BY <1>1, <3>1, Times DEF ModifiedTimes, Inv
  <2>3. ASSUME ~(zone < 0), file.changed \notin copy[t].from .. copy[t].to + 1
        PROVE  Full <= copy[t].content
    <3>1. TypeOK
      BY <1>1 DEF Inv
    <3>2. file.changed < copy[t].from
      BY <2>2, <2>3, <3>1, Times
    <3>3. Full = copy[t].content
      BY <1>1, <3>2, FreshIsFull DEF Since
    <3> QED BY <3>1, <3>3, Numbers
  <2> QED BY <2>3
<1>2. Inv /\ FreshInv /\ [Next]_vars =>
         [\A t \in Threads :
            pc[t] = "check" /\ pc'[t] = "idle" /\ Exists =>
              \/ Full <= copy[t].content
              \/ file.changed \in copy[t].from .. copy[t].to + 1
              \/ zone < 0]_vars
  BY <1>1
<1> QED BY <1>2, InvInit, InvStep, FreshInit, FreshStep, PTL DEF Spec, ConfirmedCopyStands
=============================================================================
