------------------------- MODULE ConnectionProperties -------------------------
(***************************************************************************)
(* What a connection guarantees to its request, whatever the client and    *)
(* the application do.                                                     *)
(***************************************************************************)
EXTENDS Connection

Listeners == {"wait", "get"}
Holders   == {"run", "worker"} \cup Listeners

PendingBodies == [state : {"none", "made", "armed", "done"}, toRead : Nat, skipped : Nat,
                  read : Nat, buffer : Nat, received : Nat]

\* The types of the state of Connection, BodyParser and Context.
TypeOK ==
    /\ phase \in {"none", "header", "body0", "body", "complete"}
    /\ length \in Nat /\ left \in Nat /\ max \in 0 .. MaxBodySize
    /\ reads \in Nat /\ writes \in Nat /\ written \in Nat
    /\ failed \in BOOLEAN
    /\ body \in Nat
    /\ callback \in Seq(Listeners) /\ todo \in Seq(Listeners) /\ copied \in Seq(Listeners)
    /\ pending \in PendingBodies
    /\ got \in Seq(Nat)
    /\ pc \in {"start", "idle", "app", "leave", "ran", "chunk", "read", "last"}
    /\ back \in {"idle", "ran", "chunk", "last"}
    /\ worker \in {"idle", "app", "wait", "get", "leave"} /\ missed \in BOOLEAN
    /\ ctx \in {"none", "live", "destroyed", "terminated"}
    /\ refs \subseteq Holders /\ sent \in BOOLEAN

\* Beast allows one read and one write at a time, and a response is written once:
\* not by on_body_too_large and by a Context, nor by two of those who answer.
OneOperation == reads <= 1 /\ writes <= 1 /\ written <= 1

\* A parser that waits for the body gets all that was not read before it asked, once: no
\* chunk, early or last, is missing when body_received is called, which it is not again
\* although the listener gets an empty chunk when the body was read (connection.cpp:134).
\* That is the whole body for a parser on the strand or for a worker that asks before the
\* first chunk, and excludes listeners that missed a chunk while they registered.
BodyComplete ==
    /\ pending.received <= 1
    /\ pending.received = 1 /\ ~missed => pending.skipped + pending.buffer = length

\* When nothing is in flight any more, the Context is gone, and thereby answered. A
\* listener waits for ever only after a read error, or because it missed a chunk: the
\* strand took one between the steps of the worker that registered it, all were taken
\* when the worker or a second parser asked, or another listener took its place.
NobodyWaitsInVain ==
    Quiet /\ ctx = "live" => refs \subseteq Listeners /\ (failed \/ (missed /\ phase = "complete"))

\* Every request whose header was read is answered, unless its body cannot be read, or a
\* listener missed a chunk of it.
EveryRequestAnswered == ctx = "live" ~> (sent \/ failed \/ missed \/ ctx = "terminated")

\* What a parser does with the body is caught like everything a parser does.
ParserExceptionsCaught == ctx # "terminated"

\* No stage is called any more once the request is answered.
HandlersStop == [][sent => got' = got]_vars
=============================================================================
