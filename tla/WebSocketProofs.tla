---------------------------- MODULE WebSocketProofs ----------------------------
(***************************************************************************)
(* A websocket implements the channel, for any set of messages and any     *)
(* order of its tasks: the proofs of its properties.                       *)
(***************************************************************************)
EXTENDS WebSocketProperties, TLAPS, SequenceTheorems

Tasks == [op : Operations, message : Messages \cup {Nothing}, ok : BOOLEAN]

\* What a task of the strand stands for, and the failures that it brings.
TaskInv ==
    /\ \A i \in DOMAIN tasks :
        /\ tasks[i].op = "send" => tasks[i].message \in Messages
        /\ ~tasks[i].ok => broken /\ tasks[i].op \in {"on_read", "on_write"}
    /\ closed => broken
    /\ broken => closed \/ \E i \in DOMAIN tasks : ~tasks[i].ok

\* At most one task of a kind waits.
Single(op) == \A i, j \in DOMAIN tasks : tasks[i].op = op /\ tasks[j].op = op => i = j

\* A read is in flight or its completion is queued, not both, and only while `reading` is set.
ReadInv ==
    /\ readOps <= 1
    /\ readOps = 1 \/ Queued("on_read") => reading
    /\ readOps = 1 => ~Queued("on_read")
    /\ Single("on_read")

\* The same of writes; what is written is the first message of the queue.
WriteInv ==
    /\ Len(writeOps) <= 1
    /\ writeOps # <<>> => writing /\ queue # <<>> /\ Head(writeOps) = Head(queue) /\ ~Queued("on_write")
    /\ Queued("on_write") => writing /\ queue # <<>>
    /\ Single("on_write")
    /\ queue # <<>> => writing
    /\ writing => writeOps # <<>> \/ Queued("on_write") \/ closed

\* The messages that did not reach the peer yet: the first of the queue did if its
\* completion is queued.
Written == \E i \in DOMAIN tasks : tasks[i].op = "on_write" /\ tasks[i].ok
Rest    == IF Written THEN Tail(queue) ELSE queue

StreamInv == ~broken => accepted = wire \o Rest

\* The destructor found nothing left to do.
ByeInv == goodbye => ~alive /\ tasks = <<>> /\ wire = accepted

Inv == TypeOK /\ TaskInv /\ ReadInv /\ WriteInv /\ StreamInv /\ ByeInv

-----------------------------------------------------------------------------
\* What a task appended to the strand changes for those who look at all tasks.
LEMMA Appended ==
    ASSUME NEW S, NEW s \in Seq(S), NEW e \in S
    PROVE  /\ Append(s, e) \in Seq(S)
           /\ DOMAIN Append(s, e) = DOMAIN s \cup {Len(s) + 1} /\ Len(s) + 1 \notin DOMAIN s
           /\ Append(s, e)[Len(s) + 1] = e
           /\ \A i \in DOMAIN s : Append(s, e)[i] = s[i]
BY AppendProperties, LenProperties

\* The same of the first task, which is taken.
LEMMA Taken ==
    ASSUME NEW S, NEW s \in Seq(S), s # <<>>
    PROVE  /\ Tail(s) \in Seq(S) /\ Head(s) = s[1] /\ Head(s) \in S /\ 1 \in DOMAIN s
           /\ \A i \in DOMAIN Tail(s) : i + 1 \in DOMAIN s /\ i + 1 # 1 /\ Tail(s)[i] = s[i + 1]
           /\ \A i \in DOMAIN s : i # 1 => i - 1 \in DOMAIN Tail(s) /\ Tail(s)[i - 1] = s[i]
<1>1. Len(s) \in Nat \ {0}
  BY EmptySeq
<1>2. DOMAIN s = 1 .. Len(s) /\ Tail(s) \in Seq(S) /\ Len(Tail(s)) = Len(s) - 1
  BY HeadTailProperties, LenProperties
<1>3. DOMAIN Tail(s) = 1 .. Len(s) - 1
  BY <1>1, <1>2, LenProperties
<1>4. \A i \in 1 .. Len(s) - 1 : Tail(s)[i] = s[i + 1]
  BY <1>2, HeadTailProperties
<1> QED BY <1>1, <1>2, <1>3, <1>4, HeadTailProperties

\* A stutter keeps the invariant.
LEMMA Unchanged ==
    ASSUME TypeOK, UNCHANGED vars
    PROVE  Inv => Inv'
BY DEF vars, operations, flags, life, network, Inv, TypeOK, TaskInv, ReadInv, WriteInv, StreamInv, ByeInv,
       Queued, Single, Rest, Written

\* A task waits: those who waited before keep their places.
LEMMA QueuedMore ==
    ASSUME TypeOK, NEW t \in Tasks, tasks' = Append(tasks, t)
    PROVE  /\ tasks' \in Seq(Tasks)
           /\ \A op : Queued(op)' <=> Queued(op) \/ t.op = op
           /\ Written' <=> Written \/ (t.op = "on_write" /\ t.ok)
           /\ \A op : Single(op) /\ (t.op = op => ~Queued(op)) => Single(op)'
<1>1. tasks \in Seq(Tasks)
  BY DEF TypeOK, Tasks
<1>2. /\ tasks' \in Seq(Tasks) /\ DOMAIN tasks' = DOMAIN tasks \cup {Len(tasks) + 1}
      /\ tasks'[Len(tasks) + 1] = t /\ \A i \in DOMAIN tasks : tasks'[i] = tasks[i]
  BY <1>1, Appended
<1>3. \A op : Single(op) /\ (t.op = op => ~Queued(op)) => Single(op)'
  BY <1>2 DEF Single, Queued
<1> QED BY <1>2, <1>3 DEF Queued, Written

\* The first task runs: it waits no more.
LEMMA QueuedLess ==
    ASSUME TypeOK, tasks # <<>>, tasks' = Tail(tasks)
    PROVE  /\ tasks' \in Seq(Tasks) /\ Head(tasks) = tasks[1] /\ 1 \in DOMAIN tasks
           /\ \A op : Queued(op) <=> Queued(op)' \/ Head(tasks).op = op
           /\ Written <=> Written' \/ (Head(tasks).op = "on_write" /\ Head(tasks).ok)
           /\ \A op : Single(op) => Single(op)' /\ (Head(tasks).op = op => ~Queued(op)')
<1>1. tasks \in Seq(Tasks)
  BY DEF TypeOK, Tasks
<1>2. 1 \in DOMAIN tasks /\ Head(tasks) = tasks[1] /\ tasks' \in Seq(Tasks)
  BY <1>1, Taken
<1>3. /\ \A i \in DOMAIN tasks' : i + 1 \in DOMAIN tasks /\ tasks'[i] = tasks[i + 1]
      /\ \A i \in DOMAIN tasks : i = 1 \/ (i - 1 \in DOMAIN tasks' /\ tasks'[i - 1] = tasks[i])
  BY <1>1, Taken
<1>4. ASSUME NEW op PROVE Queued(op) <=> Queued(op)' \/ Head(tasks).op = op
  <2>1. ASSUME Queued(op), Head(tasks).op # op PROVE Queued(op)'
    <3>1. PICK i \in DOMAIN tasks : tasks[i].op = op
      BY <2>1 DEF Queued
    <3> QED BY <1>2, <1>3, <2>1, <3>1 DEF Queued
  <2>2. Queued(op)' => Queued(op)
    BY <1>3 DEF Queued
  <2>3. Head(tasks).op = op => Queued(op)
    BY <1>2 DEF Queued
  <2> QED BY <2>1, <2>2, <2>3
<1>5. Written <=> Written' \/ (Head(tasks).op = "on_write" /\ Head(tasks).ok)
  <2>1. ASSUME Written, ~(Head(tasks).op = "on_write" /\ Head(tasks).ok) PROVE Written'
    <3>1. PICK i \in DOMAIN tasks : tasks[i].op = "on_write" /\ tasks[i].ok
      BY <2>1 DEF Written
    <3> QED BY <1>2, <1>3, <2>1, <3>1 DEF Written
  <2>2. Written' => Written
    BY <1>3 DEF Written
  <2>3. Head(tasks).op = "on_write" /\ Head(tasks).ok => Written
    BY <1>2 DEF Written
  <2> QED BY <2>1, <2>2, <2>3
<1>6. ASSUME NEW op, Single(op) PROVE Single(op)' /\ (Head(tasks).op = op => ~Queued(op)')
  <2>1. ASSUME NEW i \in DOMAIN tasks', NEW j \in DOMAIN tasks', tasks'[i].op = op, tasks'[j].op = op
        PROVE  i = j
    <3>1. i + 1 = j + 1
      BY <1>3, <1>6, <2>1 DEF Single
    <3>2. DOMAIN tasks' = 1 .. Len(tasks')
      BY <1>2, LenProperties
    <3> QED BY <3>1, <3>2
  <2>2. ASSUME Head(tasks).op = op, Queued(op)' PROVE FALSE
    <3>1. PICK i \in DOMAIN tasks' : tasks'[i].op = op
      BY <2>2 DEF Queued
    <3>2. i + 1 \in DOMAIN tasks /\ i + 1 # 1 /\ tasks[i + 1].op = op
      BY <1>1, <3>1, Taken
    <3> QED BY <1>2, <1>6, <2>2, <3>2 DEF Single
  <2> QED BY <2>1, <2>2 DEF Single
<1> QED BY <1>2, <1>4, <1>5, <1>6

-----------------------------------------------------------------------------
\* A new websocket is well typed: nothing queued, nothing in flight.
LEMMA TypeInit == Init => TypeOK
<1> SUFFICES ASSUME Init PROVE TypeOK
  OBVIOUS
<1>1. tasks \in Seq(Tasks) /\ queue \in Seq(Messages) /\ writeOps \in Seq(Messages)
  BY EmptySeq DEF Init
<1>2. accepted \in Seq(Messages) /\ wire \in Seq(Messages)
  BY EmptySeq DEF Init
<1> QED BY <1>1, <1>2 DEF Init, TypeOK, Tasks

\* What a message that is pushed changes, and what a read that is asked for.
LEMMA PushType ==
    ASSUME TypeOK, NEW m \in Messages, Push(m)
    PROVE  /\ queue' \in Seq(Messages) /\ accepted' \in Seq(Messages)
           /\ writing' \in BOOLEAN /\ writeOps' \in Seq(Messages)
<1>0. queue \in Seq(Messages) /\ accepted \in Seq(Messages)
  BY DEF TypeOK
<1>1. queue' = Append(queue, m) /\ queue' \in Seq(Messages) /\ queue' # <<>>
  BY <1>0, AppendProperties DEF Push
<1>2. accepted' \in Seq(Messages)
  BY <1>0, AppendProperties DEF Push
<1>3. Head(queue') \in Messages
  BY <1>1, HeadTailProperties
<1>4. CASE writing
  BY <1>1, <1>2, <1>4 DEF Push, TypeOK
<1>5. CASE ~writing
  <2>1. writing' = TRUE /\ writeOps' = Append(writeOps, Head(queue'))
    BY <1>1, <1>5 DEF Push, WriteNext
  <2> QED BY <1>1, <1>2, <1>3, <2>1, AppendProperties DEF TypeOK
<1> QED BY <1>4, <1>5

\* A read that is asked for starts unless one is in flight.
LEMMA StartReadType ==
    ASSUME TypeOK, StartRead
    PROVE  reading' \in BOOLEAN /\ readOps' \in Nat
<1>1. readOps \in Nat /\ reading \in BOOLEAN
  BY DEF TypeOK
<1>2. CASE reading
  BY <1>1, <1>2 DEF StartRead
<1>3. CASE ~reading
  <2>1. reading' = TRUE /\ readOps' = readOps + 1
    BY <1>3 DEF StartRead
  <2> QED BY <1>1, <2>1
<1> QED BY <1>2, <1>3

\* The application queues a task.
LEMMA TypeUser ==
    ASSUME Inv, NEW m, (m \in Messages /\ Send(m)) \/ Read \/ Forget
    PROVE  TypeOK'
<1>1. (m \in Messages => Task("send", m, TRUE) \in Tasks) /\ Task("read", Nothing, TRUE) \in Tasks
  BY DEF Task, Tasks, Operations
<1>2. tasks \in Seq(Tasks)
  BY DEF Inv, TypeOK, Tasks
<1>3. tasks' = tasks \/ \E t \in Tasks : tasks' = Append(tasks, t)
  BY <1>1 DEF Send, Read, Forget
<1>4. tasks' \in Seq(Tasks)
  BY <1>2, <1>3, AppendProperties
<1> QED BY <1>4 DEF Inv, TypeOK, Tasks, Send, Read, Forget, flags, operations, life, network

\* Methods that run on the strand at once keep the types.
LEMMA TypeStrandUser ==
    ASSUME Inv, NEW m, (m \in Messages /\ SendFromStrand(m)) \/ ReadFromStrand \/ Return
    PROVE  TypeOK'
<1>1. CASE m \in Messages /\ SendFromStrand(m)
  <2>1. m \in Messages /\ Push(m) /\ UNCHANGED <<tasks, reading, closed, readOps, pc, owned, alive, goodbye, wire, broken>>
    BY <1>1 DEF SendFromStrand, life, network
  <2> QED BY <2>1, PushType DEF Inv, TypeOK
<1>2. CASE ReadFromStrand
  <2>1. /\ StartRead
        /\ UNCHANGED <<tasks, queue, writing, closed, writeOps, pc, owned, alive, goodbye, accepted, wire, broken>>
    BY <1>2 DEF ReadFromStrand, life, network
  <2> QED BY <2>1, StartReadType DEF Inv, TypeOK
<1>3. CASE Return
  BY <1>3 DEF Return, Inv, TypeOK, flags, operations, life, network
<1> QED BY <1>1, <1>2, <1>3

\* Completions of reads and writes keep the types.
LEMMA TypeNetwork ==
    ASSUME Inv, Network
    PROVE  TypeOK'
<1>1. CASE ReadCompletes
  <2>1. PICK ok \in BOOLEAN : broken' = ~ok /\ tasks' = Append(tasks, Task("on_read", Nothing, ok))
    BY <1>1 DEF ReadCompletes
  <2>2. Task("on_read", Nothing, ok) \in Tasks
    BY DEF Task, Tasks, Operations
  <2>3. tasks' \in Seq(Tasks)
    BY <2>1, <2>2, AppendProperties DEF Inv, TypeOK, Tasks
  <2>4. readOps' \in Nat /\ broken' \in BOOLEAN
    BY <1>1, <2>1 DEF ReadCompletes, Inv, TypeOK
  <2> QED BY <1>1, <2>3, <2>4 DEF ReadCompletes, Inv, TypeOK, Tasks, flags, life
<1>2. CASE WriteCompletes
  <2>1. PICK ok \in BOOLEAN :
            /\ broken' = ~ok
            /\ wire' = IF ok THEN Append(wire, Head(writeOps)) ELSE wire
            /\ tasks' = Append(tasks, Task("on_write", Head(writeOps), ok))
    BY <1>2 DEF WriteCompletes
  <2>2. Head(writeOps) \in Messages /\ writeOps' \in Seq(Messages)
    BY <1>2, HeadTailProperties DEF WriteCompletes, Inv, TypeOK
  <2>3. Task("on_write", Head(writeOps), ok) \in Tasks
    BY <2>2 DEF Task, Tasks, Operations
  <2>4. tasks' \in Seq(Tasks) /\ wire' \in Seq(Messages)
    BY <2>1, <2>2, <2>3, AppendProperties DEF Inv, TypeOK, Tasks
  <2> QED BY <1>2, <2>1, <2>2, <2>4 DEF WriteCompletes, Inv, TypeOK, Tasks, flags, life
<1> QED BY <1>1, <1>2 DEF Network

\* Tasks other than the completion of a write keep the types.
LEMMA TypeTasks ==
    ASSUME Inv, RunRead \/ RunSend \/ OnRead
    PROVE  TypeOK'
<1>1. tasks # <<>> /\ tasks' = Tail(tasks) /\ TypeOK
  BY DEF RunRead, RunSend, OnRead, Dequeue, Inv
<1>2. tasks' \in Seq(Tasks)
  BY <1>1, QueuedLess
<1>3. CASE RunRead
  <2>1. StartRead /\ UNCHANGED <<queue, writing, closed, writeOps, pc, owned, alive, goodbye, accepted, wire, broken>>
    BY <1>3 DEF RunRead, life, network
  <2> QED BY <1>1, <1>2, <2>1, StartReadType DEF TypeOK, Tasks
<1>4. CASE RunSend
  <2>1. Head(tasks).message \in Messages
    BY <1>1, <1>4, QueuedLess DEF RunSend, Dequeue, Inv, TaskInv
  <2>2. /\ Push(Head(tasks).message)
        /\ UNCHANGED <<reading, closed, readOps, pc, owned, alive, goodbye, wire, broken>>
    BY <1>4 DEF RunSend, life, network
  <2> QED BY <1>1, <1>2, <2>1, <2>2, PushType DEF TypeOK, Tasks
<1>5. CASE OnRead
  BY <1>1, <1>2, <1>5 DEF OnRead, TypeOK, Tasks, life, network, operations
<1> QED BY <1>3, <1>4, <1>5

\* on_write keeps the types: the message it erases is there.
LEMMA TypeOnWrite ==
    ASSUME Inv, OnWrite
    PROVE  TypeOK'
<1>1. tasks # <<>> /\ tasks' = Tail(tasks) /\ TypeOK /\ Head(tasks).op = "on_write"
  BY DEF OnWrite, Dequeue, Inv
<1>2. tasks' \in Seq(Tasks) /\ Queued("on_write")
  BY <1>1, QueuedLess
<1>3. queue # <<>> /\ Tail(queue) \in Seq(Messages)
  BY <1>1, <1>2, HeadTailProperties DEF Inv, WriteInv, TypeOK
<1>4. UNCHANGED <<owned, alive, goodbye, accepted, wire, broken>>
  BY DEF OnWrite, life, network
<1>5. CASE Head(tasks).ok
  <2>1. queue' = Tail(queue) /\ WriteRest /\ UNCHANGED <<closed, pc>>
    BY <1>5 DEF OnWrite
  <2>2. CASE Tail(queue) = <<>>
    <3>1. writing' = FALSE /\ UNCHANGED writeOps /\ StartRead
      BY <2>1, <2>2 DEF WriteRest
    <3> QED BY <1>1, <1>2, <1>3, <1>4, <2>1, <3>1, StartReadType DEF TypeOK, Tasks
  <2>3. CASE Tail(queue) # <<>>
    <3>1. /\ writing' = TRUE /\ writeOps' = Append(writeOps, Head(Tail(queue)))
          /\ UNCHANGED <<reading, readOps>>
      BY <2>1, <2>3 DEF WriteRest, WriteNext
    <3>2. writeOps' \in Seq(Messages)
      BY <1>1, <1>3, <2>3, <3>1, HeadTailProperties, AppendProperties DEF TypeOK
    <3> QED BY <1>1, <1>2, <1>3, <1>4, <2>1, <3>1, <3>2 DEF TypeOK, Tasks
  <2> QED BY <2>2, <2>3
<1>6. CASE ~Head(tasks).ok
  <2>1. closed' = TRUE /\ pc' = "disconnected" /\ UNCHANGED <<queue, reading, writing, readOps, writeOps>>
    BY <1>6 DEF OnWrite, operations
  <2> QED BY <1>1, <1>2, <1>4, <2>1 DEF TypeOK, Tasks
<1> QED BY <1>5, <1>6

\* The destructor keeps the types.
LEMMA TypeDestroy ==
    ASSUME Inv, Destroy
    PROVE  TypeOK'
BY DEF Destroy, Inv, TypeOK, flags, operations, network

-----------------------------------------------------------------------------
\* What each part of the invariant looks at: a step that leaves that alone keeps it.
Facts == TaskInv /\ ReadInv /\ WriteInv /\ StreamInv /\ ByeInv

\* A part of the invariant depends on its variables only.
LEMMA TaskKept ==
    ASSUME TaskInv, UNCHANGED <<tasks, closed, broken>>
    PROVE  TaskInv'
BY DEF TaskInv

\* A task that is appended stands for something.
LEMMA TaskMore ==
    ASSUME TypeOK, TaskInv, NEW t \in Tasks, tasks' = Append(tasks, t), UNCHANGED closed,
           t.op = "send" => t.message \in Messages,
           ~t.ok => t.op \in {"on_read", "on_write"},
           broken' <=> broken \/ ~t.ok
    PROVE  TaskInv'
<1>1. /\ DOMAIN tasks' = DOMAIN tasks \cup {Len(tasks) + 1}
      /\ tasks'[Len(tasks) + 1] = t /\ \A i \in DOMAIN tasks : tasks'[i] = tasks[i]
  <2>1. tasks \in Seq(Tasks)
    BY DEF TypeOK, Tasks
  <2> QED BY <2>1, Appended
<1>2. ASSUME NEW i \in DOMAIN tasks'
      PROVE  /\ tasks'[i].op = "send" => tasks'[i].message \in Messages
             /\ ~tasks'[i].ok => broken' /\ tasks'[i].op \in {"on_read", "on_write"}
  <2>1. CASE i = Len(tasks) + 1
    BY <1>1, <2>1
  <2>2. CASE i \in DOMAIN tasks
    BY <1>1, <2>2 DEF TaskInv
  <2> QED BY <1>1, <2>1, <2>2
<1>3. broken' => closed' \/ \E i \in DOMAIN tasks' : ~tasks'[i].ok
  <2>1. CASE ~t.ok
    BY <1>1, <2>1
  <2>2. CASE broken
    BY <1>1, <2>2 DEF TaskInv
  <2> QED BY <2>1, <2>2
<1> QED BY <1>2, <1>3 DEF TaskInv

\* The first task is taken: its failure is handled.
LEMMA TaskLess ==
    ASSUME TypeOK, TaskInv, tasks # <<>>, tasks' = Tail(tasks), UNCHANGED broken,
           closed' <=> closed \/ ~Head(tasks).ok
    PROVE  TaskInv'
<1>1. tasks \in Seq(Tasks)
  BY DEF TypeOK, Tasks
<1>2. /\ Head(tasks) = tasks[1] /\ 1 \in DOMAIN tasks
      /\ \A i \in DOMAIN tasks' : i + 1 \in DOMAIN tasks /\ tasks'[i] = tasks[i + 1]
      /\ \A i \in DOMAIN tasks : i # 1 => i - 1 \in DOMAIN tasks' /\ tasks'[i - 1] = tasks[i]
  BY <1>1, Taken
<1>3. \A i \in DOMAIN tasks' :
        /\ tasks'[i].op = "send" => tasks'[i].message \in Messages
        /\ ~tasks'[i].ok => broken' /\ tasks'[i].op \in {"on_read", "on_write"}
  BY <1>2 DEF TaskInv
<1>4. closed' => broken'
  BY <1>2 DEF TaskInv
<1>5. broken' => closed' \/ \E i \in DOMAIN tasks' : ~tasks'[i].ok
  <2>1. ASSUME broken, ~closed, Head(tasks).ok PROVE \E i \in DOMAIN tasks' : ~tasks'[i].ok
    <3>1. PICK i \in DOMAIN tasks : ~tasks[i].ok
      BY <2>1 DEF TaskInv
    <3> QED BY <1>2, <2>1, <3>1
  <2> QED BY <2>1
<1> QED BY <1>3, <1>4, <1>5 DEF TaskInv

\* The same of reads, writes and messages.
LEMMA ReadKept ==
    ASSUME ReadInv, UNCHANGED <<readOps, reading>>, Queued("on_read")' <=> Queued("on_read"),
           Single("on_read") => Single("on_read")'
    PROVE  ReadInv'
BY DEF ReadInv

\* A step that touches neither queue nor writes keeps what is known of them.
LEMMA WriteKept ==
    ASSUME WriteInv, UNCHANGED <<writeOps, writing, queue>>, closed => closed',
           Queued("on_write")' <=> Queued("on_write"), Single("on_write") => Single("on_write")'
    PROVE  WriteInv'
BY DEF WriteInv

\* A step that touches no message keeps the stream.
LEMMA StreamKept ==
    ASSUME StreamInv, UNCHANGED <<accepted, wire, queue>>, broken => broken', Written' <=> Written
    PROVE  StreamInv'
BY DEF StreamInv, Rest

\* A read that is asked for.
LEMMA ReadStarts ==
    ASSUME TypeOK, ReadInv, StartRead, Queued("on_read")' <=> Queued("on_read"),
           Single("on_read") => Single("on_read")'
    PROVE  ReadInv'
<1>1. CASE reading
  <2>1. UNCHANGED <<reading, readOps>>
    BY <1>1 DEF StartRead
  <2> QED BY <2>1, ReadKept
<1>2. CASE ~reading
  <2>1. reading' = TRUE /\ readOps' = readOps + 1
    BY <1>2 DEF StartRead
  <2>2. readOps = 0 /\ ~Queued("on_read") /\ Single("on_read")
    BY <1>2 DEF ReadInv, TypeOK
  <2> QED BY <2>1, <2>2 DEF ReadInv
<1> QED BY <1>1, <1>2

\* Messages on their way: concatenations.
LEMMA AppendBehind ==
    ASSUME NEW S, NEW s \in Seq(S), NEW t \in Seq(S), NEW e \in S
    PROVE  Append(s \o t, e) = s \o Append(t, e)
<1>1. s \o t \in Seq(S) /\ <<e>> \in Seq(S)
  BY ConcatProperties
<1>2. Append(s \o t, e) = (s \o t) \o <<e>> /\ Append(t, e) = t \o <<e>>
  BY <1>1, AppendIsConcat
<1>3. (s \o t) \o <<e>> = s \o (t \o <<e>>)
  BY <1>1, ConcatAssociative
<1> QED BY <1>2, <1>3

\* Moving the head of t behind s does not change their concatenation.
LEMMA MovedHead ==
    ASSUME NEW S, NEW s \in Seq(S), NEW t \in Seq(S), t # <<>>
    PROVE  /\ s \o t = Append(s, Head(t)) \o Tail(t)
           /\ Len(s) < Len(s \o t) /\ (s \o t)[Len(s) + 1] = Head(t)
<1>1. /\ Head(t) \in S /\ Tail(t) \in Seq(S) /\ Head(t) = t[1] /\ Len(Tail(t)) = Len(t) - 1
      /\ \A i \in 1 .. Len(t) - 1 : Tail(t)[i] = t[i + 1]
  BY Taken, HeadTailProperties
<1>2. Len(s) \in Nat /\ Len(t) \in Nat \ {0}
  BY EmptySeq, LenProperties
<1>3. /\ s \o t \in Seq(S) /\ Len(s \o t) = Len(s) + Len(t)
      /\ \A i \in 1 .. Len(s) + Len(t) : (s \o t)[i] = IF i <= Len(s) THEN s[i] ELSE t[i - Len(s)]
  BY ConcatProperties
<1> DEFINE a == Append(s, Head(t))
<1>4. /\ a \in Seq(S) /\ Len(a) = Len(s) + 1 /\ a[Len(s) + 1] = Head(t)
      /\ \A i \in 1 .. Len(s) : a[i] = s[i]
  BY <1>1, AppendProperties
<1>5. /\ a \o Tail(t) \in Seq(S) /\ Len(a \o Tail(t)) = Len(s) + Len(t)
      /\ \A i \in 1 .. Len(s) + Len(t) :
            (a \o Tail(t))[i] = IF i <= Len(s) + 1 THEN a[i] ELSE Tail(t)[i - (Len(s) + 1)]
  <2> HIDE DEF a
  <2>1. Len(a) + Len(Tail(t)) = Len(s) + Len(t)
    BY <1>1, <1>2, <1>4
  <2> QED BY <1>1, <1>4, <2>1, ConcatProperties
<1>6. \A i \in 1 .. Len(s) + Len(t) : (s \o t)[i] = (a \o Tail(t))[i]
  <2> HIDE DEF a
  <2> TAKE i \in 1 .. Len(s) + Len(t)
  <2>1. CASE i <= Len(s)
    BY <1>2, <1>3, <1>4, <1>5, <2>1
  <2>2. CASE i = Len(s) + 1
    BY <1>1, <1>2, <1>3, <1>4, <1>5, <2>2
  <2>3. CASE i > Len(s) + 1
    <3>0. i - (Len(s) + 1) \in 1 .. Len(t) - 1 /\ (i - (Len(s) + 1)) + 1 = i - Len(s)
      BY <1>2, <2>3
    <3>1. PICK k \in 1 .. Len(t) - 1 : k = i - (Len(s) + 1) /\ k + 1 = i - Len(s)
      BY <3>0
    <3>2. (s \o t)[i] = t[i - Len(s)]
      BY <1>2, <1>3, <2>3
    <3>3. (a \o Tail(t))[i] = Tail(t)[i - (Len(s) + 1)]
      BY <1>2, <1>5, <2>3
    <3>4. Tail(t)[k] = t[k + 1]
      BY <1>1
    <3> QED BY <3>1, <3>2, <3>3, <3>4
  <2>4. i <= Len(s) \/ i = Len(s) + 1 \/ i > Len(s) + 1
    BY <1>2
  <2> QED BY <2>1, <2>2, <2>3, <2>4
<1>7. s \o t = a \o Tail(t)
  <2> HIDE DEF a
  <2> QED BY <1>3, <1>5, <1>6, SeqEqual
<1> QED BY <1>1, <1>2, <1>3, <1>7

\* A message is pushed: it goes behind the others.
LEMMA Pushes ==
    ASSUME TypeOK, WriteInv, StreamInv, NEW m \in Messages, Push(m), UNCHANGED <<wire, broken, closed>>,
           Queued("on_write")' <=> Queued("on_write"), Single("on_write") => Single("on_write")',
           Written' <=> Written
    PROVE  WriteInv' /\ StreamInv'
<1>1. queue \in Seq(Messages) /\ wire \in Seq(Messages) /\ accepted \in Seq(Messages)
  BY DEF TypeOK
<1>0. queue' = Append(queue, m) /\ accepted' = Append(accepted, m)
  BY DEF Push
<1>2. /\ queue' = Append(queue, m) /\ accepted' = Append(accepted, m)
      /\ queue' # <<>> /\ Head(queue') = IF queue = <<>> THEN m ELSE Head(queue)
  BY <1>0, <1>1, AppendProperties, HeadTailAppend
<1>3. WriteInv'
  <2>1. CASE writing
    <3>1. UNCHANGED <<writing, writeOps>>
      BY <2>1 DEF Push
    <3> QED BY <1>2, <2>1, <3>1 DEF WriteInv
  <2>2. CASE ~writing
    <3>1. writing' = TRUE /\ writeOps' = Append(writeOps, Head(queue'))
      BY <1>2, <2>2 DEF Push, WriteNext
    <3>2. writeOps = <<>> /\ ~Queued("on_write")
      BY <2>2 DEF WriteInv
    <3>3. writeOps' = <<Head(queue')>>
      BY <3>1, <3>2
    <3>4. Len(writeOps') = 1 /\ Head(writeOps') = Head(queue') /\ writeOps' # <<>>
      BY <3>3
    <3> QED BY <1>2, <3>1, <3>2, <3>4 DEF WriteInv
  <2> QED BY <2>1, <2>2
<1>4. StreamInv'
  <2> SUFFICES ASSUME ~broken PROVE accepted' = wire' \o Rest'
    BY DEF StreamInv
  <2>1. accepted = wire \o Rest
    BY DEF StreamInv
  <2>2. Written => queue # <<>>
    BY DEF Written, WriteInv, Queued
  <2>3. Rest \in Seq(Messages) /\ Rest' = Append(Rest, m)
    <3>1. CASE Written
      <4>1. queue # <<>> /\ Rest = Tail(queue) /\ Rest' = Tail(queue')
        BY <2>2, <3>1 DEF Rest
      <4>2. Tail(queue) \in Seq(Messages)
        BY <1>1, <4>1, HeadTailProperties
      <4>3. Tail(Append(queue, m)) = Append(Tail(queue), m)
        BY <1>1, <4>1, HeadTailAppend
      <4> QED BY <1>2, <4>1, <4>2, <4>3
    <3>2. CASE ~Written
      BY <1>1, <1>2, <3>2 DEF Rest
    <3> QED BY <3>1, <3>2
  <2>4. wire \o Append(Rest, m) = Append(wire \o Rest, m)
    <3>1. wire \in Seq(Messages) /\ Rest \in Seq(Messages)
      BY <1>1, <2>3
    <3> QED BY <3>1, AppendBehind
  <2> QED BY <1>2, <2>1, <2>3, <2>4
<1> QED BY <1>3, <1>4

-----------------------------------------------------------------------------
\* The steps: first those of the application, which queue a task or push a message.
LEMMA ByeKept ==
    ASSUME Inv, alive, UNCHANGED goodbye
    PROVE  ByeInv'
BY DEF Inv, ByeInv

\* send queues a task.
LEMMA StepSend ==
    ASSUME Inv, alive, NEW m, (m \in Messages /\ Send(m)) \/ Read \/ Forget
    PROVE  Facts'
<1>1. CASE Forget
  <2>1. /\ UNCHANGED <<tasks, queue, reading, writing, closed, readOps, writeOps, goodbye>>
        /\ UNCHANGED <<accepted, wire, broken>>
    BY <1>1 DEF Forget, flags, operations, network
  <2> QED BY <2>1, ByeKept DEF Facts, Inv, TaskInv, ReadInv, WriteInv, StreamInv, Queued, Single, Rest, Written
<1>2. CASE (m \in Messages /\ Send(m)) \/ Read
  <2>1. PICK t : /\ \/ m \in Messages /\ t = Task("send", m, TRUE)
                    \/ t = Task("read", Nothing, TRUE)
                 /\ tasks' = Append(tasks, t)
    BY <1>2 DEF Send, Read
  <2>2. /\ UNCHANGED <<queue, reading, writing, closed, readOps, writeOps, goodbye>>
        /\ UNCHANGED <<accepted, wire, broken>>
    BY <1>2 DEF Send, Read, flags, operations, life, network
  <2>3. /\ t \in Tasks /\ t.op \in {"send", "read"} /\ (t.op = "send" => t.message \in Messages) /\ t.ok
    <3>1. CASE m \in Messages /\ t = Task("send", m, TRUE)
      BY <3>1 DEF Task, Tasks, Operations
    <3>2. CASE t = Task("read", Nothing, TRUE)
      BY <3>2 DEF Task, Tasks, Operations
    <3> QED BY <2>1, <3>1, <3>2
  <2>4. /\ Queued("on_read")' <=> Queued("on_read")
        /\ Queued("on_write")' <=> Queued("on_write")
        /\ Written' <=> Written
        /\ Single("on_read") => Single("on_read")'
        /\ Single("on_write") => Single("on_write")'
    BY <2>1, <2>3, QueuedMore DEF Inv
  <2>5. TaskInv'
    BY <2>1, <2>2, <2>3, TaskMore DEF Inv
  <2> QED BY <2>2, <2>4, <2>5, ReadKept, WriteKept, StreamKept, ByeKept DEF Facts, Inv
<1> QED BY <1>1, <1>2

\* send and read, called on the strand, run at once.
LEMMA StepFromStrand ==
    ASSUME Inv, alive, NEW m, (m \in Messages /\ SendFromStrand(m)) \/ ReadFromStrand \/ Return
    PROVE  Facts'
<1>1. UNCHANGED <<tasks, closed, goodbye, wire, broken>>
  BY DEF SendFromStrand, ReadFromStrand, Return, life, network, flags
<1>2. /\ Queued("on_read")' <=> Queued("on_read")
      /\ Queued("on_write")' <=> Queued("on_write")
      /\ Written' <=> Written
      /\ Single("on_read") => Single("on_read")'
      /\ Single("on_write") => Single("on_write")'
  BY <1>1 DEF Queued, Written, Single
<1>3. CASE m \in Messages /\ SendFromStrand(m)
  <2>1. m \in Messages /\ Push(m) /\ UNCHANGED <<reading, readOps>>
    BY <1>3 DEF SendFromStrand
  <2> QED BY <1>1, <1>2, <2>1, TaskKept, ReadKept, Pushes, ByeKept DEF Facts, Inv
<1>4. CASE ReadFromStrand
  <2>1. StartRead /\ UNCHANGED <<queue, writing, writeOps, accepted>>
    BY <1>4 DEF ReadFromStrand
  <2> QED BY <1>1, <1>2, <2>1, TaskKept, ReadStarts, WriteKept, StreamKept, ByeKept DEF Facts, Inv
<1>5. CASE Return
  <2>1. UNCHANGED <<queue, reading, writing, readOps, writeOps, accepted>>
    BY <1>5 DEF Return, flags, operations
  <2> QED BY <1>1, <1>2, <2>1, TaskKept, ReadKept, WriteKept, StreamKept, ByeKept DEF Facts, Inv
<1> QED BY <1>3, <1>4, <1>5

\* A task that is not a completion runs, and asks for a read or sends.
LEMMA StepRun ==
    ASSUME Inv, alive, RunRead \/ RunSend
    PROVE  Facts'
<1>1. /\ tasks # <<>> /\ tasks' = Tail(tasks) /\ Head(tasks).op \in {"read", "send"}
      /\ UNCHANGED <<closed, goodbye, wire, broken>>
  BY DEF RunRead, RunSend, Dequeue, life, network
<1>2. /\ Queued("on_read")' <=> Queued("on_read")
      /\ Queued("on_write")' <=> Queued("on_write")
      /\ Written' <=> Written
      /\ Single("on_read") => Single("on_read")'
      /\ Single("on_write") => Single("on_write")'
  BY <1>1, QueuedLess DEF Inv
<1>3. Head(tasks) = tasks[1] /\ 1 \in DOMAIN tasks
  BY <1>1, QueuedLess DEF Inv
<1>4. Head(tasks).ok
  BY <1>1, <1>3 DEF Inv, TaskInv
<1>5. TaskInv'
  BY <1>1, <1>4, TaskLess DEF Inv
<1>6. CASE RunRead
  <2>1. StartRead /\ UNCHANGED <<queue, writing, writeOps, accepted>>
    BY <1>6 DEF RunRead
  <2> QED BY <1>1, <1>2, <1>5, <2>1, ReadStarts, WriteKept, StreamKept, ByeKept DEF Facts, Inv
<1>7. CASE RunSend
  <2>1. Push(Head(tasks).message) /\ UNCHANGED <<reading, readOps>>
    BY <1>7 DEF RunSend
  <2>2. Head(tasks).message \in Messages
    BY <1>3, <1>7 DEF RunSend, Dequeue, Inv, TaskInv
  <2> QED BY <1>1, <1>2, <1>5, <2>1, <2>2, ReadKept, Pushes, ByeKept DEF Facts, Inv
<1> QED BY <1>6, <1>7

\* The completion of a read runs: no other one waits.
LEMMA StepOnRead ==
    ASSUME Inv, alive, OnRead
    PROVE  Facts'
<1>1. /\ tasks # <<>> /\ tasks' = Tail(tasks) /\ Head(tasks).op = "on_read" /\ reading' = FALSE
      /\ UNCHANGED <<queue, writing, readOps, writeOps, goodbye, accepted, wire, broken>>
  BY DEF OnRead, Dequeue, life, network, operations
<1>2. /\ Queued("on_read") /\ Single("on_read")
      /\ Queued("on_write")' <=> Queued("on_write")
      /\ Written' <=> Written
      /\ Single("on_write") => Single("on_write")'
      /\ ~Queued("on_read")' /\ Single("on_read")'
  BY <1>1, QueuedLess DEF Inv, ReadInv
<1>3. readOps = 0
  BY <1>2 DEF Inv, TypeOK, ReadInv
<1>4. ReadInv'
  BY <1>1, <1>2, <1>3 DEF ReadInv
<1>5. CASE Head(tasks).ok
  <2>1. UNCHANGED closed
    BY <1>5 DEF OnRead
  <2>2. TaskInv'
    BY <1>1, <1>5, <2>1, TaskLess DEF Inv
  <2> QED BY <1>1, <1>2, <1>4, <2>1, <2>2, WriteKept, StreamKept, ByeKept DEF Facts, Inv
<1>6. CASE ~Head(tasks).ok
  <2>1. closed' = TRUE
    BY <1>6 DEF OnRead
  <2>2. TaskInv'
    BY <1>1, <1>6, <2>1, TaskLess DEF Inv
  <2> QED BY <1>1, <1>2, <1>4, <2>1, <2>2, WriteKept, StreamKept, ByeKept DEF Facts, Inv
<1> QED BY <1>5, <1>6

\* The completion of a write runs: the message that was written leaves the queue, and with
\* the next one, if there is one, all begins again.
LEMMA StepOnWrite ==
    ASSUME Inv, alive, OnWrite
    PROVE  Facts'
<1>1. /\ tasks # <<>> /\ tasks' = Tail(tasks) /\ Head(tasks).op = "on_write"
      /\ UNCHANGED <<goodbye, accepted, wire, broken>>
  BY DEF OnWrite, Dequeue, life, network
<1>2. /\ Queued("on_write") /\ Single("on_write")
      /\ Queued("on_read")' <=> Queued("on_read")
      /\ Single("on_read") => Single("on_read")'
      /\ ~Queued("on_write")' /\ Single("on_write")'
      /\ Written <=> Written' \/ Head(tasks).ok
  BY <1>1, QueuedLess DEF Inv, WriteInv
<1>3. ~Written'
  BY <1>2 DEF Written, Queued
<1>4. writing /\ queue # <<>> /\ writeOps = <<>>
  BY <1>2 DEF Inv, WriteInv
<1>5. CASE Head(tasks).ok
  <2>1. queue' = Tail(queue) /\ WriteRest /\ UNCHANGED closed
    BY <1>5 DEF OnWrite
  <2>2. TaskInv'
    BY <1>1, <1>5, <2>1, TaskLess DEF Inv
  <2>3. Written /\ Rest = Tail(queue) /\ Rest' = queue'
    BY <1>2, <1>3, <1>5 DEF Rest
  <2>4. StreamInv'
    BY <1>1, <2>1, <2>3 DEF Inv, StreamInv
  <2>5. CASE Tail(queue) = <<>>
    <3>1. writing' = FALSE /\ UNCHANGED writeOps /\ StartRead
      BY <2>1, <2>5 DEF WriteRest
    <3>2. WriteInv'
      BY <1>2, <1>4, <2>1, <2>5, <3>1 DEF Inv, WriteInv
    <3> QED BY <1>1, <1>2, <2>2, <2>4, <3>1, <3>2, ReadStarts, ByeKept DEF Facts, Inv
  <2>6. CASE Tail(queue) # <<>>
    <3>1. writing' = TRUE /\ writeOps' = <<Head(queue')>> /\ UNCHANGED <<reading, readOps>>
      BY <1>4, <2>1, <2>6 DEF WriteRest, WriteNext
    <3>2. Len(writeOps') = 1 /\ writeOps' # <<>> /\ Head(writeOps') = Head(queue')
      BY <3>1
    <3>3. WriteInv'
      BY <1>2, <2>1, <2>6, <3>1, <3>2 DEF WriteInv
    <3> QED BY <1>1, <1>2, <2>2, <2>4, <3>1, <3>3, ReadKept, ByeKept DEF Facts, Inv
  <2> QED BY <2>5, <2>6
<1>6. CASE ~Head(tasks).ok
  <2>1. closed' = TRUE /\ UNCHANGED <<queue, reading, writing, readOps, writeOps>>
    BY <1>6 DEF OnWrite, operations
  <2>2. TaskInv'
    BY <1>1, <1>6, <2>1, TaskLess DEF Inv
  <2>3. WriteInv'
    BY <1>2, <1>4, <2>1 DEF Inv, WriteInv
  <2>4. Written' <=> Written
    BY <1>2, <1>6
  <2> QED BY <1>1, <1>2, <2>1, <2>2, <2>3, <2>4, ReadKept, StreamKept, ByeKept DEF Facts, Inv
<1> QED BY <1>5, <1>6

\* The network completes a read.
LEMMA StepReadCompletes ==
    ASSUME Inv, alive, ReadCompletes
    PROVE  Facts'
<1>1. PICK ok \in BOOLEAN :
        /\ ok => ~broken
        /\ broken' = ~ok
        /\ tasks' = Append(tasks, Task("on_read", Nothing, ok))
  BY DEF ReadCompletes
<1>2. /\ readOps > 0 /\ readOps' = readOps - 1
      /\ UNCHANGED <<queue, reading, writing, closed, writeOps, goodbye, accepted, wire>>
  BY DEF ReadCompletes, flags, life
<1>3. PICK t \in Tasks : t = Task("on_read", Nothing, ok)
  BY DEF Task, Tasks, Operations
<1>4. t.op = "on_read" /\ (t.ok <=> ok) /\ tasks' = Append(tasks, t)
  BY <1>1, <1>3 DEF Task
<1>5. /\ Queued("on_read")'
      /\ Queued("on_write")' <=> Queued("on_write")
      /\ Written' <=> Written
      /\ Single("on_write") => Single("on_write")'
      /\ Single("on_read") /\ ~Queued("on_read") => Single("on_read")'
  BY <1>4, QueuedMore DEF Inv
<1>6. readOps = 1 /\ readOps' = 0
  BY <1>2 DEF Inv, TypeOK, ReadInv
<1>7. ReadInv'
  BY <1>2, <1>5, <1>6 DEF Inv, ReadInv
<1>8. broken' <=> broken \/ ~t.ok
  BY <1>1, <1>4
<1>9. TaskInv'
  BY <1>2, <1>4, <1>8, TaskMore DEF Inv
<1> QED BY <1>2, <1>5, <1>7, <1>8, <1>9, WriteKept, StreamKept, ByeKept DEF Facts, Inv

\* The network completes a write: the message is on the wire, or the connection breaks.
LEMMA StepWriteCompletes ==
    ASSUME Inv, alive, WriteCompletes
    PROVE  Facts'
<1>1. PICK ok \in BOOLEAN :
        /\ ok => ~broken
        /\ broken' = ~ok
        /\ wire' = IF ok THEN Append(wire, Head(writeOps)) ELSE wire
        /\ tasks' = Append(tasks, Task("on_write", Head(writeOps), ok))
  BY DEF WriteCompletes
<1>2. /\ writeOps # <<>> /\ writeOps' = Tail(writeOps)
      /\ UNCHANGED <<queue, reading, writing, closed, readOps, goodbye, accepted>>
  BY DEF WriteCompletes, flags, life
<1>3. /\ queue \in Seq(Messages) /\ wire \in Seq(Messages) /\ writeOps \in Seq(Messages)
      /\ queue # <<>> /\ Head(writeOps) = Head(queue) /\ ~Queued("on_write") /\ writing
      /\ Len(writeOps) <= 1 /\ Single("on_write")
  BY <1>2 DEF Inv, TypeOK, WriteInv
<1>4. writeOps' = <<>> /\ Head(writeOps) \in Messages
  BY <1>2, <1>3
<1>5. PICK t \in Tasks : t = Task("on_write", Head(writeOps), ok)
  BY <1>4 DEF Task, Tasks, Operations
<1>6. t.op = "on_write" /\ (t.ok <=> ok) /\ tasks' = Append(tasks, t)
  BY <1>1, <1>5 DEF Task
<1>7. /\ Queued("on_write")'
      /\ Queued("on_read")' <=> Queued("on_read")
      /\ Written' <=> Written \/ ok
      /\ Single("on_read") => Single("on_read")'
      /\ Single("on_write")'
  BY <1>3, <1>6, QueuedMore DEF Inv
<1>8. broken' <=> broken \/ ~t.ok
  BY <1>1, <1>6
<1>9. TaskInv'
  BY <1>2, <1>6, <1>8, TaskMore DEF Inv
<1>10. WriteInv'
  BY <1>2, <1>3, <1>4, <1>7 DEF WriteInv
<1>11. StreamInv'
  <2> SUFFICES ASSUME ~broken' PROVE accepted' = wire' \o Rest'
    BY DEF StreamInv
  <2>1. ok /\ ~broken /\ wire' = Append(wire, Head(queue))
    BY <1>1, <1>3
  <2>2. ~Written
    BY <1>3 DEF Written, Queued
  <2>3. Rest = queue /\ Rest' = Tail(queue)
    BY <1>2, <1>7, <2>1, <2>2 DEF Rest
  <2>4. wire \o queue = Append(wire, Head(queue)) \o Tail(queue)
    BY <1>3, MovedHead
  <2>5. accepted = wire \o queue
    BY <2>1, <2>3 DEF Inv, StreamInv
  <2> QED BY <1>2, <2>1, <2>3, <2>4, <2>5
<1> QED BY <1>2, <1>7, <1>9, <1>10, <1>11, ReadKept, ByeKept DEF Facts, Inv

\* The destructor finds nothing in flight: no failure that was not handled, and
\* nothing to write.
LEMMA StepDestroy ==
    ASSUME Inv, alive, Destroy
    PROVE  Facts'
<1>1. /\ tasks = <<>> /\ writeOps = <<>> /\ alive' = FALSE /\ goodbye' = ~closed
      /\ UNCHANGED <<tasks, queue, reading, writing, closed, readOps, writeOps, accepted, wire, broken>>
  BY DEF Destroy, Unused, flags, operations, network
<1>2. ~Queued("on_write") /\ ~Written
  BY <1>1 DEF Queued, Written
<1>3. ASSUME goodbye' PROVE wire = accepted
  <2>0. DOMAIN tasks = {}
    BY <1>1
  <2>1. ~closed /\ ~broken
    BY <1>1, <1>3, <2>0 DEF Inv, TaskInv
  <2>2. queue = <<>>
    BY <1>1, <1>2, <2>1 DEF Inv, WriteInv
  <2>3. accepted = wire \o <<>>
    BY <1>2, <2>1, <2>2 DEF Inv, StreamInv, Rest
  <2> QED BY <2>3, ConcatEmptySeq DEF Inv, TypeOK
<1>4. ByeInv'
  BY <1>1, <1>3 DEF ByeInv
<1>5. TaskInv' /\ ReadInv' /\ WriteInv' /\ StreamInv'
  BY <1>1 DEF Inv, TaskInv, ReadInv, WriteInv, StreamInv, Queued, Single, Rest, Written
<1> QED BY <1>4, <1>5 DEF Facts

-----------------------------------------------------------------------------
\* A new websocket satisfies every part.
LEMMA InvInit == Init => Inv
<1> SUFFICES ASSUME Init PROVE Inv
  OBVIOUS
<1>1. tasks = <<>> /\ ~Queued("on_read") /\ ~Queued("on_write") /\ ~Written
  BY DEF Init, Queued, Written
<1>2. TaskInv /\ ReadInv
  BY <1>1 DEF Init, TaskInv, ReadInv, Single
<1>3. WriteInv
  BY <1>1 DEF Init, WriteInv, Single
<1>4. StreamInv /\ ByeInv
  <2>1. accepted = <<>> /\ wire = <<>> /\ Rest = <<>> /\ goodbye = FALSE
    BY <1>1 DEF Init, Rest
  <2> QED BY <2>1 DEF StreamInv, ByeInv
<1> QED BY <1>2, <1>3, <1>4, TypeInit DEF Inv

\* So does every later state, whatever step leads to it.
LEMMA InvStep == Inv /\ [Next]_vars => Inv'
<1> SUFFICES ASSUME Inv, [Next]_vars PROVE Inv'
  OBVIOUS
<1> USE DEF Facts
<1>1. ASSUME alive, NEW m, (m \in Messages /\ Send(m)) \/ Read \/ Forget PROVE Inv'
  BY <1>1, TypeUser, StepSend DEF Inv
<1>2. ASSUME alive, NEW m, (m \in Messages /\ SendFromStrand(m)) \/ ReadFromStrand \/ Return PROVE Inv'
  BY <1>2, TypeStrandUser, StepFromStrand DEF Inv
<1>3. ASSUME alive, RunRead \/ RunSend PROVE Inv'
  BY <1>3, TypeTasks, StepRun DEF Inv
<1>4. ASSUME alive, OnRead PROVE Inv'
  BY <1>4, TypeTasks, StepOnRead DEF Inv
<1>5. ASSUME alive, OnWrite PROVE Inv'
  BY <1>5, TypeOnWrite, StepOnWrite DEF Inv
<1>6. ASSUME alive, Network PROVE Inv'
  BY <1>6, TypeNetwork, StepReadCompletes, StepWriteCompletes DEF Inv, Network
<1>7. ASSUME alive, Destroy PROVE Inv'
  BY <1>7, TypeDestroy, StepDestroy DEF Inv
<1>8. CASE UNCHANGED vars
  BY <1>8, Unchanged DEF Inv
<1>9. CASE Over
  BY <1>9, Unchanged DEF Over, Inv
<1> QED BY <1>1, <1>2, <1>3, <1>4, <1>5, <1>6, <1>7, <1>8, <1>9 DEF Next, Strand, User

\* The invariant holds whatever the application and the network do.
LEMMA Invariance == Spec => []Inv
BY InvInit, InvStep, PTL DEF Spec

-----------------------------------------------------------------------------
\* The members of WebSocket keep their types, and the operations in flight too: in
\* particular on_write never takes a message from an empty queue (websocket.cpp).
THEOREM TypeCorrect == Spec => []TypeOK
<1>1. Inv => TypeOK
  BY DEF Inv
<1> QED BY <1>1, Invariance, PTL

\* Whatever threads call send and read, Beast is given one read and one write at a time, and
\* the message it writes stays in the queue until on_write erases it.
THEOREM OneOperationAtATime == Spec => []OneOperation
<1>1. Inv => OneOperation
  BY DEF Inv, ReadInv, WriteInv, OneOperation
<1> QED BY <1>1, Invariance, PTL

\* A message in the queue has a write that works for it, or the socket is closed: `writing` is
\* never left set without an operation, nor reset with messages in the queue.
THEOREM MessagesRemembered == Spec => []NoMessageForgotten
<1>1. Inv => NoMessageForgotten
  BY DEF Inv, WriteInv, NoMessageForgotten
<1> QED BY <1>1, Invariance, PTL

\* The destructor sends a close frame only behind every message: nothing is queued and what
\* was accepted is on the wire.
THEOREM GoodbyeIsLast == Spec => []GoodbyeComesLast
<1>1. Inv => GoodbyeComesLast
  BY DEF Inv, ByeInv, GoodbyeComesLast, Queued
<1> QED BY <1>1, Invariance, PTL

-----------------------------------------------------------------------------
\* The refinement: a push accepts a message, a completed write delivers or breaks, the
\* destructor closes; all other steps leave the channel alone.
LEMMA ChannelInit == Init => TheChannel!Init
BY DEF Init, TheChannel!Init

\* A push is an acceptance, unless the channel is broken.
LEMMA ChannelAccepts ==
    ASSUME alive, NEW m \in Messages, Push(m), UNCHANGED <<wire, broken, alive>>
    PROVE  TheChannel!Next
BY DEF Push, TheChannel!Next, TheChannel!Accept

\* A completed read breaks the channel, or does not concern it.
LEMMA ChannelReads ==
    ASSUME Inv, ReadCompletes
    PROVE  TheChannel!Break \/ UNCHANGED TheChannel!channel
<1>1. UNCHANGED <<accepted, wire, alive>> /\ broken' \in BOOLEAN /\ (broken' \/ ~broken)
  BY DEF ReadCompletes, life
<1>2. CASE broken'
  BY <1>1, <1>2 DEF TheChannel!Break
<1>3. CASE ~broken'
  BY <1>1, <1>3 DEF TheChannel!channel, Inv, TypeOK
<1> QED BY <1>2, <1>3

\* A completed write delivers the first message, or breaks the channel.
LEMMA ChannelWrites ==
    ASSUME Inv, alive, WriteCompletes
    PROVE  TheChannel!Next
<1>1. PICK ok \in BOOLEAN :
        /\ ok => ~broken
        /\ broken' = ~ok
        /\ wire' = IF ok THEN Append(wire, Head(writeOps)) ELSE wire
  BY DEF WriteCompletes
<1>2. writeOps # <<>> /\ UNCHANGED <<accepted, alive>>
  BY DEF WriteCompletes, life
<1>3. CASE ~ok
  <2>1. wire' = wire /\ broken' = TRUE
    BY <1>1, <1>3
  <2> QED BY <1>2, <2>1 DEF TheChannel!Next, TheChannel!Break
<1>4. CASE ok
  <2>1. ~broken /\ ~broken' /\ wire' = Append(wire, Head(queue))
    BY <1>1, <1>2, <1>4 DEF Inv, WriteInv
  <2>2. queue # <<>> /\ queue \in Seq(Messages) /\ wire \in Seq(Messages)
    BY <1>2 DEF Inv, WriteInv, TypeOK
  <2>3. ~Written
    BY <1>2 DEF Inv, WriteInv, Written, Queued
  <2>4. accepted = wire \o queue
    BY <2>1, <2>3 DEF Inv, StreamInv, Rest
  <2>5. Len(wire) < Len(accepted) /\ accepted[Len(wire) + 1] = Head(queue)
    BY <2>2, <2>4, MovedHead
  <2>6. UNCHANGED broken
    BY <1>1, <2>1 DEF Inv, TypeOK
  <2> QED BY <1>2, <2>1, <2>5, <2>6 DEF TheChannel!Next, TheChannel!Deliver
<1> QED BY <1>3, <1>4

\* The destructor closes a channel that is empty or broken.
LEMMA ChannelCloses ==
    ASSUME Inv, alive, Destroy
    PROVE  TheChannel!Next
<1>1. Facts' /\ UNCHANGED <<accepted, wire, broken>> /\ alive' = FALSE /\ goodbye' = ~closed
  BY StepDestroy DEF Destroy, network
<1>2. broken \/ wire = accepted
  <2>1. closed => broken
    BY DEF Inv, TaskInv
  <2>2. goodbye' => wire = accepted
    BY <1>1 DEF Facts, ByeInv
  <2> QED BY <1>1, <2>1, <2>2
<1> QED BY <1>1, <1>2 DEF TheChannel!Next, TheChannel!Close

\* Every step of the socket is one of the channel or none.
LEMMA ChannelStep == Inv /\ [Next]_vars => [TheChannel!Next]_(TheChannel!channel)
<1> SUFFICES ASSUME Inv, [Next]_vars
             PROVE  TheChannel!Next \/ UNCHANGED TheChannel!channel
  OBVIOUS
<1>1. CASE UNCHANGED <<accepted, wire, broken, alive>>
  BY <1>1 DEF TheChannel!channel
<1>2. ASSUME alive, NEW m \in Messages, SendFromStrand(m) PROVE TheChannel!Next
  BY <1>2, ChannelAccepts DEF SendFromStrand, life, network
<1>3. ASSUME alive, RunSend PROVE TheChannel!Next
  <2>1. Head(tasks) = tasks[1] /\ 1 \in DOMAIN tasks /\ Head(tasks).op = "send"
    BY <1>3, QueuedLess DEF RunSend, Dequeue, Inv
  <2>2. Head(tasks).message \in Messages
    BY <2>1 DEF Inv, TaskInv
  <2> QED BY <1>3, <2>2, ChannelAccepts DEF RunSend, life, network
<1>4. ASSUME alive, Network PROVE TheChannel!Next \/ UNCHANGED TheChannel!channel
  BY <1>4, ChannelReads, ChannelWrites DEF Network, TheChannel!Next
<1>5. ASSUME alive, Destroy PROVE TheChannel!Next
  BY <1>5, ChannelCloses
<1>6. ASSUME NEW m, Send(m) \/ Read \/ ReadFromStrand \/ Forget \/ Return \/ RunRead \/ OnRead \/ OnWrite
      PROVE  UNCHANGED <<accepted, wire, broken, alive>>
  BY <1>6 DEF Send, Read, ReadFromStrand, Forget, Return, RunRead, OnRead, OnWrite, life, network
<1>7. UNCHANGED vars \/ Over => UNCHANGED <<accepted, wire, broken, alive>>
  BY DEF Over, vars, life, network
<1> QED BY <1>1, <1>2, <1>3, <1>4, <1>5, <1>6, <1>7 DEF Next, Strand, User

\* The socket implements the channel for any set of messages: what it accepted arrives in
\* order, once, without a gap, until the connection breaks, and a destructor that finds the
\* connection intact has lost nothing (websocket.cpp).
THEOREM SocketIsAChannel == Spec => ImplementsChannel
BY Invariance, ChannelInit, ChannelStep, PTL DEF Spec, ImplementsChannel, TheChannel!Spec
=============================================================================
