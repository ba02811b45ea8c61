------------------------------- MODULE WebSocket -------------------------------
(***************************************************************************)
(* A websocket (websocket.cpp).  Its methods may be called from any thread *)
(* and do their work on its strand: they dispatch a task, which is queued, *)
(* or runs at once when the caller is on the strand already, in received() *)
(* or disconnected().  Completions of reads and writes are tasks as well.  *)
(* Tasks and operations share the ownership of the socket.                 *)
(*                                                                         *)
(* on_run and on_accept are left out: they are private and never called.   *)
(***************************************************************************)
EXTENDS Integers, Sequences

CONSTANTS
    Messages,       \* messages to send, each of them once
    Nothing         \* no message

ASSUME NothingAssumption == Nothing \notin Messages

Operations == {"read", "send", "on_read", "on_write"}

VARIABLES
    tasks,      \* tasks of the strand, in the order they were dispatched
    queue,      \* send_buffers
    reading,    \* WebSocket::reading
    writing,    \* WebSocket::writing
    closed,     \* WebSocket::closed
    readOps,    \* reads in flight
    writeOps,   \* messages of the writes in flight
    pc,         \* idle, or the application's method the strand is in
    owned,      \* whether the application refers to the socket
    alive,      \* whether the socket exists
    goodbye,    \* whether the destructor sent a close frame
    accepted,   \* the messages that entered the queue, in order
    wire,       \* the messages that reached the peer, in order
    broken      \* whether an operation failed: all later ones will

operations == <<readOps, writeOps>>
flags      == <<reading, writing, closed>>
life       == <<owned, alive, goodbye>>
network    == <<wire, broken>>
vars       == <<tasks, queue, flags, operations, pc, life, accepted, network>>

Task(op, message, ok) == [op |-> op, message |-> message, ok |-> ok]

Init ==
    /\ tasks = <<>> /\ queue = <<>>
    /\ reading = FALSE /\ writing = FALSE /\ closed = FALSE
    /\ readOps = 0 /\ writeOps = <<>>
    /\ pc = "idle"
    /\ owned = TRUE /\ alive = TRUE /\ goodbye = FALSE
    /\ accepted = <<>> /\ wire = <<>> /\ broken = FALSE

Sent(m) ==
    \/ \E i \in DOMAIN accepted : accepted[i] = m
    \/ \E i \in DOMAIN tasks : tasks[i].message = m /\ tasks[i].op = "send"

-----------------------------------------------------------------------------
\* The tasks, as the methods dispatch them.

\* Mutant: a second read is started.
StartReadAlways == reading' = TRUE /\ readOps' = readOps + 1

\* read(): one read at a time.
StartRead ==
    IF reading THEN UNCHANGED <<reading, readOps>>
    ELSE reading' = TRUE /\ readOps' = readOps + 1

\* write_next_message, for a queue whose first message is m.
WriteNext(m) == writing' = TRUE /\ writeOps' = Append(writeOps, m)

\* Mutant: the message is written although another one is.
PushAndWrite(m) ==
    /\ queue' = Append(queue, m)
    /\ accepted' = Append(accepted, m)
    /\ WriteNext(Head(Append(queue, m)))

\* send(): a write is started unless there is one, whose completion goes on.
Push(m) ==
    /\ queue' = Append(queue, m)
    /\ accepted' = Append(accepted, m)
    /\ IF writing THEN UNCHANGED <<writing, writeOps>> ELSE WriteNext(Head(Append(queue, m)))

-----------------------------------------------------------------------------
\* The application, on any thread: the task is queued.
Send(m) ==
    /\ alive /\ owned /\ ~Sent(m)
    /\ tasks' = Append(tasks, Task("send", m, TRUE))
    /\ UNCHANGED <<queue, flags, operations, pc, life, accepted, network>>

\* Bound: one call of read() is queued at a time.
Read ==
    /\ alive /\ owned
    /\ \A i \in DOMAIN tasks : tasks[i].op # "read"
    /\ tasks' = Append(tasks, Task("read", Nothing, TRUE))
    /\ UNCHANGED <<queue, flags, operations, pc, life, accepted, network>>

\* The application, in received() or disconnected(): the task runs at once, before
\* the tasks that other threads have queued.
SendFromStrand(m) ==
    /\ pc # "idle" /\ ~Sent(m)
    /\ Push(m)
    /\ UNCHANGED <<tasks, reading, closed, readOps, pc, life, network>>

ReadFromStrand ==
    /\ pc # "idle"
    /\ StartRead
    /\ UNCHANGED <<tasks, queue, writing, closed, writeOps, pc, life, accepted, network>>

Forget ==
    /\ owned
    /\ owned' = FALSE
    /\ UNCHANGED <<tasks, queue, flags, operations, pc, alive, goodbye, accepted, network>>

\* received() and disconnected() return, and with them the task that called them.
Return ==
    /\ pc # "idle"
    /\ pc' = "idle"
    /\ UNCHANGED <<tasks, queue, flags, operations, life, accepted, network>>

-----------------------------------------------------------------------------
\* The network: an operation completes, and its completion handler dispatches a task.
ReadCompletes ==
    /\ readOps > 0
    /\ readOps' = readOps - 1
    /\ \E ok \in BOOLEAN :
        /\ ok => ~broken
        /\ broken' = ~ok
        /\ tasks' = Append(tasks, Task("on_read", Nothing, ok))
    /\ UNCHANGED <<queue, flags, writeOps, pc, life, accepted, wire>>

WriteCompletes ==
    /\ writeOps # <<>>
    /\ writeOps' = Tail(writeOps)
    /\ \E ok \in BOOLEAN :
        /\ ok => ~broken
        /\ broken' = ~ok
        /\ wire' = IF ok THEN Append(wire, Head(writeOps)) ELSE wire
        /\ tasks' = Append(tasks, Task("on_write", Head(writeOps), ok))
    /\ UNCHANGED <<queue, flags, readOps, pc, life, accepted>>

\* The next task of the strand.
Dequeue(op) == pc = "idle" /\ tasks # <<>> /\ Head(tasks).op = op /\ tasks' = Tail(tasks)

RunRead ==
    /\ Dequeue("read")
    /\ StartRead
    /\ UNCHANGED <<queue, writing, closed, writeOps, pc, life, accepted, network>>

RunSend ==
    /\ Dequeue("send")
    /\ Push(Head(tasks).message)
    /\ UNCHANGED <<reading, closed, readOps, pc, life, network>>

\* on_read: the message is received, or the socket is closed.
OnRead ==
    /\ Dequeue("on_read")
    /\ reading' = FALSE
    /\ IF Head(tasks).ok
       THEN pc' = "received" /\ UNCHANGED closed
       ELSE pc' = "disconnected" /\ closed' = TRUE
    /\ UNCHANGED <<queue, writing, operations, life, accepted, network>>

\* Mutant: the first element of an empty list is written.
WriteBegin == WriteNext(IF Tail(queue) = <<>> THEN Nothing ELSE Head(Tail(queue))) /\ UNCHANGED <<reading, readOps>>

\* Mutant: after a message, the next one waits for the next send.
ForgetNext == writing' = FALSE /\ UNCHANGED writeOps /\ StartRead

\* The queue without its first message goes on, or a read is started.
WriteRest ==
    IF Tail(queue) = <<>>
    THEN writing' = FALSE /\ UNCHANGED writeOps /\ StartRead
    ELSE WriteNext(Head(Tail(queue))) /\ UNCHANGED <<reading, readOps>>

\* on_write: the message is erased; or the socket is closed, with `writing` still set,
\* so that nothing is ever written again.
OnWrite ==
    /\ Dequeue("on_write")
    /\ IF Head(tasks).ok
       THEN queue' = Tail(queue) /\ WriteRest /\ UNCHANGED <<closed, pc>>
       ELSE closed' = TRUE /\ pc' = "disconnected" /\ UNCHANGED <<queue, reading, writing, operations>>
    /\ UNCHANGED <<life, accepted, network>>

\* Mutant: queued tasks do not own the socket.
UnusedButQueued == ~owned /\ readOps = 0 /\ writeOps = <<>> /\ pc = "idle"

\* No reference to the socket is left.
Unused == ~owned /\ tasks = <<>> /\ readOps = 0 /\ writeOps = <<>> /\ pc = "idle"

\* ~WebSocket
Destroy ==
    /\ alive /\ Unused
    /\ alive' = FALSE
    /\ goodbye' = ~closed
    /\ UNCHANGED <<tasks, queue, flags, operations, pc, owned, accepted, network>>

\* Nothing to do: the socket is gone, or the application keeps it.
Over ==
    /\ ~alive \/ (tasks = <<>> /\ readOps = 0 /\ writeOps = <<>> /\ pc = "idle")
    /\ UNCHANGED vars

Strand  == RunRead \/ RunSend \/ OnRead \/ OnWrite \/ Return
Network == ReadCompletes \/ WriteCompletes
User    == Read \/ ReadFromStrand \/ Forget \/ \E m \in Messages : Send(m) \/ SendFromStrand(m)

Next ==
    \/ alive /\ (Strand \/ Network \/ User \/ Destroy)
    \/ Over

Spec == Init /\ [][Next]_vars

\* The strand runs its tasks and the application's methods return.  Nothing is assumed
\* of reads and writes: the timeouts of the stream are set in on_run, which is never
\* called, so that an operation whose peer is silent stays in flight.
FairSpec == Spec /\ WF_vars(Strand)
=============================================================================
