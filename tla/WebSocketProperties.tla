------------------------- MODULE WebSocketProperties --------------------------
(***************************************************************************)
(* What a websocket guarantees, whichever threads use it.                  *)
(***************************************************************************)
EXTENDS WebSocket

\* The types of the members of WebSocket and of what it has in flight.
TypeOK ==
    /\ tasks \in Seq([op : Operations, message : Messages \cup {Nothing}, ok : BOOLEAN])
    /\ queue \in Seq(Messages) /\ writeOps \in Seq(Messages)
    /\ accepted \in Seq(Messages) /\ wire \in Seq(Messages)
    /\ reading \in BOOLEAN /\ writing \in BOOLEAN /\ closed \in BOOLEAN
    /\ readOps \in Nat
    /\ pc \in {"idle", "received", "disconnected"}
    /\ owned \in BOOLEAN /\ alive \in BOOLEAN /\ goodbye \in BOOLEAN /\ broken \in BOOLEAN

\* Beast allows one read and one write at a time; the message being written is the
\* first of the queue, which keeps its memory until on_write erases it.
OneOperation ==
    /\ readOps <= 1 /\ Len(writeOps) <= 1
    /\ writeOps # <<>> => queue # <<>> /\ Head(queue) = Head(writeOps)

Queued(op) == \E i \in DOMAIN tasks : tasks[i].op = op

\* A queued message is never forgotten: as long as the queue is not empty, a write is in
\* flight, its completion is on its way, or the socket is closed.
NoMessageForgotten ==
    queue # <<>> => writing /\ (writeOps # <<>> \/ Queued("on_write") \/ closed)

\* A socket that was not closed says goodbye to its peer, and only after every message.
GoodbyeComesLast == goodbye => wire = accepted /\ ~Queued("send")

TheChannel == INSTANCE Channel WITH delivered <- wire, gone <- ~alive

\* The socket implements the channel: messages arrive in order, once, without a gap, and
\* its destruction loses none unless the connection broke.
ImplementsChannel == TheChannel!Spec

Arrived(m) == \E i \in DOMAIN wire : wire[i] = m

\* A message given to a socket arrives, or the connection breaks, unless a write stays in
\* flight for ever: no timeout ends one, and the messages behind it wait with it.
EveryMessageArrives ==
    []<>(writeOps = <<>>) => \A m \in Messages : Sent(m) ~> (broken \/ Arrived(m))
=============================================================================
