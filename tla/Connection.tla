------------------------------ MODULE Connection ------------------------------
(***************************************************************************)
(* A client's connection (server/connection.cpp): the asynchronous reads   *)
(* of a header and of a body, the callback that receives the body, the     *)
(* parsers that wait for it (body_parser.cpp), the write of the response.  *)
(*                                                                         *)
(* Completion handlers run one at a time on the connection's strand.  The  *)
(* request is carried forward by one stage at a time: application code on  *)
(* the strand, a worker it was handed to, or a body callback.  The stages  *)
(* in detail are the subject of RequestPipeline; here a Context is alive   *)
(* as long as one of `refs` refers to it, and its end sends the response.  *)
(*                                                                         *)
(* A connection serves one request: Server::allow_keep_alive is false, for *)
(* nothing sets keep_alive_enabled (server.hpp:74).                        *)
(*                                                                         *)
(* Lengths count body chunks: a read completes when body_buffer is full or *)
(* the body ends, so that every completed read of a body is one chunk.     *)
(***************************************************************************)
EXTENDS Integers, Sequences

CONSTANTS
    Lengths,        \* content lengths of requests, 0 without a body
    MaxBodySize,    \* Server::max_body_size
    SmallerSizes,   \* values application code may give set_max_body_size
    MayThrow        \* whether application code may throw

ASSUME SizesAssumption ==
    Lengths \subseteq Nat /\ MaxBodySize \in Nat /\ SmallerSizes \subseteq 0 .. MaxBodySize
ASSUME FlagsAssumption == MayThrow \in BOOLEAN

VARIABLES
    phase,      \* what the parser has read: none, header (pending), body0, body, complete
    length,     \* Content-Length of the request
    left,       \* chunks of the body not parsed yet
    max,        \* Connection::max_body_size
    reads,      \* asynchronous reads in flight
    writes,     \* asynchronous writes in flight
    written,    \* calls to Connection::write and on_body_too_large
    failed,     \* whether a read ended with an error
    body,       \* length of Connection::body
    callback,   \* listeners of body_chunk_callback, in the order they are called
    todo,       \* listeners still to call for the current chunk
    pending,    \* the PendingBody of wait_for_body
    got,        \* lengths of the bodies given to the callback of get_body
    pc,         \* what the strand runs
    back,       \* where application code on the strand returns to
    worker,     \* what the worker does
    copied,     \* the worker's local chunk_callback
    missed,     \* whether a listener missed a chunk: it came after it, or was replaced
    ctx,        \* life of the Context, and of the process
    refs,       \* who refers to the Context
    sent        \* BuildingResponse::already_sent

parser   == <<phase, length, left>>
network  == <<reads, writes, written>>
bodyVars == <<body, callback, todo, pending, got>>
flow     == <<pc, back>>
thread   == <<worker, copied, missed>>
context  == <<ctx, refs, sent>>
vars     == <<parser, max, network, failed, bodyVars, flow, thread, context>>

NoBody == [state |-> "none", toRead |-> 0, skipped |-> 0, read |-> 0, buffer |-> 0, received |-> 0]

Init ==
    /\ phase = "none" /\ length = 0 /\ left = 0 /\ max = MaxBodySize
    /\ reads = 0 /\ writes = 0 /\ written = 0 /\ failed = FALSE
    /\ body = 0 /\ callback = <<>> /\ todo = <<>> /\ pending = NoBody /\ got = <<>>
    /\ pc = "start" /\ back = "idle" /\ worker = "idle" /\ copied = <<>> /\ missed = FALSE
    /\ ctx = "none" /\ refs = {} /\ sent = FALSE

-----------------------------------------------------------------------------
\* Connection::get_content_length_remaining: Beast knows it only while it parses
\* the body, neither before the first chunk nor after the last one.
Remaining == IF phase = "body" THEN left ELSE 0

\* Connection::write. It cancels the read of a body that nobody wants any more, which
\* may fail then, as a read may at any time (ReadFails), or has completed before and is
\* delivered all the same (ReadChunk).
Write ==
    /\ writes' = writes + 1
    /\ written' = written + 1
    /\ UNCHANGED reads

\* BuildingResponse::send
Send ==
    /\ sent' = TRUE
    /\ IF sent THEN UNCHANGED network ELSE Write

\* Mutant: a destructor that does not send.
ReleaseSilently(remaining) ==
    /\ refs' = remaining
    /\ ctx' = IF remaining = {} /\ ctx = "live" THEN "destroyed" ELSE ctx
    /\ UNCHANGED <<sent, network>>

\* The references to the Context that remain; the last one to go answers.
Release(remaining) ==
    /\ refs' = remaining
    /\ IF remaining = {} /\ ctx = "live"
       THEN ctx' = "destroyed" /\ Send
       ELSE UNCHANGED <<ctx, sent, network>>

Has(listeners, l) == \E i \in DOMAIN listeners : listeners[i] = l

\* Connection::start and expect_read
Start ==
    /\ pc = "start"
    /\ pc' = "idle"
    /\ phase' = "header"
    /\ reads' = reads + 1
    /\ UNCHANGED <<length, left, max, writes, written, failed, bodyVars, back, thread, context>>

\* Connection::read_header, up to the call of Context::run.
ReadHeader(n) ==
    /\ pc = "idle" /\ reads > 0 /\ phase = "header" /\ n <= max
    /\ phase' = IF n > 0 THEN "body0" ELSE "complete"
    /\ length' = n /\ left' = n
    /\ reads' = reads - 1
    /\ ctx' = "live" /\ refs' = {"run"}
    /\ pc' = "app" /\ back' = "ran"
    /\ UNCHANGED <<max, writes, written, failed, bodyVars, thread, sent>>

\* The parser refuses the header of a body beyond its limit: on_body_too_large
\* writes the response, without any Context.
BodyTooLarge(n) ==
    /\ pc = "idle" /\ reads > 0 /\ phase = "header" /\ n > max
    /\ phase' = "body0" /\ length' = n /\ left' = n
    /\ reads' = reads - 1 /\ writes' = writes + 1 /\ written' = written + 1
    /\ UNCHANGED <<max, failed, bodyVars, flow, thread, context>>

\* The rest of read_header, once Context::run has returned.
Ran ==
    /\ pc = "ran"
    /\ pc' = "idle"
    /\ IF length > 0
       THEN reads' = reads + 1 /\ UNCHANGED callback
       ELSE callback' = <<>> /\ UNCHANGED reads
    /\ UNCHANGED <<parser, max, writes, written, failed, body, todo, pending, got, back,
                   thread, context>>

\* The parser's state after a chunk.
Parsed == IF left = 1 THEN "complete" ELSE "body"

\* Connection::read: a chunk for the listeners, if there are any.
ReadChunk ==
    /\ pc = "idle" /\ reads > 0 /\ phase \in {"body0", "body"}
    /\ reads' = reads - 1
    /\ left' = left - 1
    /\ phase' = Parsed
    /\ IF callback # <<>>
       THEN /\ body' = IF body + 1 <= max THEN body + 1 ELSE body
            /\ todo' = callback
            /\ pc' = "chunk"
       ELSE pc' = "read" /\ UNCHANGED <<body, todo>>
    /\ UNCHANGED <<length, max, writes, written, failed, callback, pending, got, back, thread,
                   context>>

\* Mutant: finished_callback is not cleared.
WholeBodyAgain(size) == pending.read + size >= pending.toRead

\* The body was received, which finished_callback was not told yet.
WholeBody(size) == pending.read + size >= pending.toRead /\ pending.state = "armed"

\* PendingBody::on_received_chunk: the whole body is there, or not yet.
Received(size) ==
    /\ Head(todo) = "wait"
    /\ IF WholeBody(size)
       THEN /\ pending' = [pending EXCEPT !.state = "done", !.read = @ + size,
                              !.buffer = @ + size, !.received = @ + 1]
            /\ pc' = "app" /\ back' = pc
            /\ UNCHANGED todo
       ELSE /\ pending' = [pending EXCEPT !.read = @ + size, !.buffer = @ + size]
            /\ todo' = Tail(todo)
            /\ UNCHANGED flow
    /\ UNCHANGED got

\* The listener of get_body: its callback gets the body when nothing remains.
Listen ==
    /\ Head(todo) = "get"
    /\ IF Remaining = 0
       THEN got' = Append(got, body) /\ pc' = "app" /\ back' = pc /\ UNCHANGED todo
       ELSE todo' = Tail(todo) /\ UNCHANGED <<got, flow>>
    /\ UNCHANGED pending

\* The chunk goes to the next listener: a body chunk, then, after the last one, an
\* empty chunk.
CallListener ==
    /\ pc \in {"chunk", "last"} /\ todo # <<>>
    /\ Received(IF pc = "chunk" THEN 1 ELSE 0) \/ Listen
    /\ UNCHANGED <<parser, max, network, failed, body, callback, thread, context>>

\* Mutant: the last chunk is not expected.
MoreToReadButOne == Remaining > 1

MoreToRead == Remaining > 0

\* The rest of Connection::read: more chunks, or the farewell of the listeners.
Continue ==
    /\ pc = "read" \/ (pc = "chunk" /\ todo = <<>>)
    /\ IF MoreToRead
       THEN reads' = reads + 1 /\ pc' = "idle" /\ UNCHANGED <<callback, todo>>
       ELSE /\ todo' = callback /\ callback' = <<>>
            /\ pc' = IF callback = <<>> THEN "idle" ELSE "last"
            /\ UNCHANGED reads
    /\ UNCHANGED <<parser, max, writes, written, failed, body, pending, got, back, thread,
                   context>>

\* The moved callback is destroyed at the end of Connection::read, and with it its
\* references to the Context; a PendingBody that still waits refers to itself.
EndOfBody ==
    /\ pc = "last" /\ todo = <<>>
    /\ pc' = "idle"
    /\ Release(refs \ {"get"})
    /\ UNCHANGED <<parser, max, failed, bodyVars, back, thread>>

\* on_read_error: end of file, time out, abort. Nobody is told.
ReadFails ==
    /\ pc = "idle" /\ reads > 0
    /\ reads' = reads - 1
    /\ failed' = TRUE
    /\ UNCHANGED <<parser, max, writes, written, bodyVars, flow, thread, context>>

\* Mutant: what on_write does for a connection that is kept alive.
OnWriteReads ==
    /\ pc = "idle" /\ writes > 0
    /\ writes' = writes - 1
    /\ reads' = reads + 1
    /\ UNCHANGED <<parser, max, written, failed, bodyVars, flow, thread, context>>

\* Mutant: the completion of a write is handled again.
OnWriteAgain ==
    /\ pc = "idle" /\ written > 0
    /\ writes' = writes - 1
    /\ UNCHANGED <<parser, max, reads, written, failed, bodyVars, flow, thread, context>>

\* Connection::on_write: request and response are reset, nothing more is sent.
OnWrite ==
    /\ pc = "idle" /\ writes > 0
    /\ writes' = writes - 1
    /\ UNCHANGED <<parser, max, reads, written, failed, bodyVars, flow, thread, context>>

-----------------------------------------------------------------------------
\* Application code on the strand (pc = "app") or in the worker it was handed to.
\* A stage does one thing that decides how the request goes on, then returns.
StrandStage == pc = "app" /\ pc' = "leave" /\ UNCHANGED <<back, worker>>
WorkerStage == worker = "app" /\ worker' = "leave" /\ UNCHANGED flow
Stage       == StrandStage \/ WorkerStage

\* The stage answers: the rest of the pipeline sends the response.
Answer ==
    /\ Stage
    /\ Send
    /\ UNCHANGED <<parser, max, failed, bodyVars, copied, missed, ctx, refs>>

\* An exception is caught by the `protect` that Context::run or a worker opened;
\* there is none around the callbacks of a body.
Throw ==
    /\ MayThrow
    /\ \/ Stage /\ Send /\ UNCHANGED <<copied, missed, ctx, refs>>
       \/ /\ pc = "app" /\ back \in {"chunk", "last"}
          /\ ctx' = "terminated"
          /\ UNCHANGED <<flow, thread, refs, sent, network>>
    /\ UNCHANGED <<parser, max, failed, bodyVars>>

\* The stage hands the request over to a worker.
HandOver ==
    /\ pc = "app" /\ pc' = "leave"
    /\ worker = "idle" /\ worker' = "app"
    /\ refs' = refs \cup {"worker"}
    /\ UNCHANGED <<parser, max, network, failed, bodyVars, back, copied, missed, ctx, sent>>

\* Connection::set_max_body_size, called by a stage before the body is read.
Shrink ==
    /\ pc = "app" /\ back = "ran"
    /\ \E m \in SmallerSizes : max' = m
    /\ UNCHANGED <<parser, network, failed, bodyVars, flow, thread, context>>

\* PendingBody::PendingBody: what was read is unknown unless the body is being read.
Made ==
    LET read == IF phase = "body" THEN length - left ELSE 0 IN
    [NoBody EXCEPT !.state = "made", !.toRead = length, !.skipped = read, !.read = read]

\* on_received_body_chunk, unless the body is refused. The listener misses a chunk that was
\* read since `made`, and takes the place of any other.
Register(made) ==
    \/ /\ length <= max
       /\ pending' = [made EXCEPT !.state = "armed"]
       /\ callback' = <<"wait">>
       /\ refs' = refs \cup {"wait"}
       /\ missed' = (missed \/ made.read # length - left)
       /\ UNCHANGED <<sent, network>>
    \/ /\ length > max
       /\ pending' = NoBody
       /\ Send
       /\ UNCHANGED <<callback, refs, missed>>

\* One PendingBody at a time (bound), and once that of a second parser, which the callback
\* of the first one calls.
MayWait ==
    /\ pending.state = "none" \/ (pending.state = "done" /\ ~missed)
    /\ Made.read < length

\* BodyParser::wait_for_body, on the strand, which is the only one to move the parser.
WaitForBody ==
    /\ MayWait
    /\ StrandStage
    /\ Register(Made)
    /\ UNCHANGED <<parser, max, failed, body, todo, got, copied, ctx>>

\* ... and of a worker, between whose steps the strand may go on.
WorkerMakes ==
    /\ MayWait
    /\ worker = "app" /\ worker' = "wait"
    /\ pending' = Made
    /\ UNCHANGED <<parser, max, network, failed, body, callback, todo, got, flow, copied,
                   missed, context>>

WorkerRegisters ==
    /\ worker = "wait" /\ worker' = "leave"
    /\ Register(pending)
    /\ UNCHANGED <<parser, max, failed, body, todo, got, flow, copied, ctx>>

\* ... whose caller goes on at once when there is nothing to wait for.
NoBodyToWaitFor ==
    /\ pending.state = "none" /\ length = 0
    /\ pc = "app" \/ worker = "app"
    /\ pending' = [NoBody EXCEPT !.state = "done", !.received = 1]
    /\ UNCHANGED <<parser, max, network, failed, body, callback, todo, got, flow, thread, context>>

\* Connection::get_body: nothing remains to be read, now or not yet.
GetBody ==
    /\ got = <<>> /\ ~Has(callback, "get")
    /\ \/ /\ Remaining = 0
          /\ pc = "app" \/ worker = "app"
          /\ got' = Append(got, body)
          /\ UNCHANGED thread
       \/ /\ Remaining > 0
          /\ worker = "app"
          /\ worker' = "get"
          /\ copied' = callback
          /\ UNCHANGED <<got, missed>>
    /\ UNCHANGED <<parser, max, network, failed, body, callback, todo, pending, flow, context>>

\* Connection::read is yet to call the listeners, for a chunk or to tell them the end.
StillReads ==
    \/ phase # "complete"
    \/ pc \in {"chunk", "read"}
    \/ pc \in {"app", "leave"} /\ back = "chunk"

\* ... then the callback is replaced by one that calls the previous one first. A
\* worker does this while the strand goes on: it may come after the last call, and
\* replace a listener that its copy does not have.
Chain ==
    /\ worker = "get"
    /\ callback' = Append(copied, "get")
    /\ refs' = refs \cup {"get"}
    /\ worker' = "leave"
    /\ copied' = <<>>
    /\ missed' = (missed \/ ~StillReads)
    /\ UNCHANGED <<parser, max, network, failed, body, todo, pending, got, flow, ctx, sent>>

\* A stage returns, to Context::run or to Connection::read.
StrandReturns ==
    /\ pc \in {"app", "leave"}
    /\ pc' = back
    /\ todo' = IF back = "ran" THEN todo ELSE Tail(todo)
    /\ Release(CASE back = "ran" -> refs \ {"run"}
                 [] back # "ran" /\ Head(todo) = "wait" /\ pending.state # "armed" -> refs \ {"wait"}
                 [] OTHER -> refs)
    /\ UNCHANGED <<parser, max, failed, body, callback, pending, got, back, thread>>

WorkerReturns ==
    /\ worker \in {"app", "leave"}
    /\ worker' = "idle"
    /\ Release(refs \ {"worker"})
    /\ UNCHANGED <<parser, max, failed, bodyVars, flow, copied, missed>>

-----------------------------------------------------------------------------
Quiet == pc = "idle" /\ worker = "idle" /\ reads = 0 /\ writes = 0

\* Nothing is in flight any more, or the process ended.
Over ==
    /\ Quiet \/ ctx = "terminated"
    /\ UNCHANGED vars

Reads  == ReadChunk \/ ReadFails \/ \E n \in Lengths : ReadHeader(n) \/ BodyTooLarge(n)
Strand == Start \/ Ran \/ CallListener \/ Continue \/ EndOfBody \/ OnWrite \/ Reads

Application ==
    \/ Answer \/ Throw \/ HandOver \/ Shrink \/ WaitForBody \/ WorkerMakes \/ WorkerRegisters
    \/ NoBodyToWaitFor \/ GetBody \/ Chain

Next ==
    \/ ctx # "terminated" /\ (Strand \/ Application \/ StrandReturns \/ WorkerReturns)
    \/ Over

Spec == Init /\ [][Next]_vars

\* The strand runs; the client sends, leaves, or lets the stream expire; a stage returns.
Fairness ==
    /\ WF_vars(ctx # "terminated" /\ (Strand \/ WorkerRegisters \/ Chain))
    /\ WF_vars(ctx # "terminated" /\ StrandReturns)
    /\ WF_vars(ctx # "terminated" /\ WorkerReturns)

FairSpec == Spec /\ Fairness
=============================================================================
