# A TLA+ verification of libcrails

libcrails is the core of the crails web framework: an HTTP server on top of
Boost.Asio and Boost.Beast, with a pipeline of request parsers and request
handlers that applications extend. This directory holds TLA+ modules that model
its state machines, TLC configurations that check them on small instances, and
proofs of the main properties that TLAPS checks for every instance.

All paths below are relative to `src/libcrails/crails/`.

## 1. The system

### Components, their state and their operations

| component | state | operations |
|---|---|---|
| **Listener** (`server/listener.cpp`) | acceptor | listen, run/accept loop, stop |
| **Connection** (`server/connection.cpp`) | strand, parser, request, response, body, `body_chunk_callback`, pending operations | start, expect_read, read_header, expect_body, read, get_body, write, on_write, close |
| **Context** (`context.cpp`) | recursive mutex, `finished`, `handled`, promise, shared ownership | run, run_parser, run_handler, protect, on_parsed, on_handled, on_finished, destruction |
| **BuildingResponse** (`http_response.cpp`) | `already_sent`, the status and body of the connection's response | set_status_code, set_body, send |
| **ExceptionCatcher** (`exception_catcher.cpp`) | list of handlers, `sealed` | run, dispatch_exception, response_exception, add_exception_catcher |
| **Error views** (`error_view.cpp`) | none | render_error_view, render_exception_view |
| **BodyParser** (`body_parser.cpp`) | one PendingBody per request | wait_for_body, on_received_chunk |
| **WebSocket** (`websocket.cpp`) | send queue, receive buffer, writing flag | accept, read, send, close |
| **Server** (`server.cpp`, `restart.cpp`) | io_context, pool of threads, `running`, `marked_for_restart` | launch, stop, restart, do_restart, set_environment |
| **File handler and caches** (`request_handlers/`, `file_cache.*`) | cache of file contents | process, send_file, range arithmetic |
| **Codecs** (`url.cpp`, `url_encode.cpp`, `cgi2params.cpp`, `params2cgi.cpp`, `mimetype.cpp`, `utils/`) | none, pure functions | parse, encode, decode |
| **Params, sessions, options, logs** | data holders | construction, file I/O |

### How they interact

* The listener hands each accepted socket to a Connection whose asynchronous
  operations run on a **strand**: their completion handlers never run at the same
  time, though on any thread of the pool.
* `Connection::read_header` makes a Context and calls `Context::run`, which walks
  through parsers, then handlers. Each is application code that is given a
  **callback** and may call it at once, later, or **from any other thread**; the
  callback owns the Context (`self`), which owns the Connection.
* Every stage starts inside `Context::protect`, which holds the Context's
  recursive mutex and routes exceptions to the ExceptionCatcher. A callback that
  the application calls outside of a `protect` has neither.
* `BuildingResponse::send` starts the write of the response. The completion,
  `Connection::on_write`, replaces request and response by default objects.
* BodyParser registers a chunk callback in the Connection, which owns it: a
  reference cycle Connection → callback → Context → Connection.

### What is hard

Stages answering from several threads while the exception catcher answers too;
late status changes against the completion of the write; ownership through
callbacks stored in the objects they own; exceptions thrown while exceptions are
handled; body registration racing the reads of the strand; read errors with a
stage waiting; websocket errors with queued messages; shutdown with requests in
flight; a file that changes while threads serve it from a cache. PROJECT.json lists each under `hazards` with its line.

## 2. Plan

The order is that of importance: what every request goes through, then what
carries it, then what surrounds it, then pure functions.

| module | models | composed of | state |
|---|---|---|---|
| `RequestPipeline` | Context, ExceptionCatcher, BuildingResponse, error views | | done |
| `Exchange` | abstract: one request, one response, one promise | refined by RequestPipeline | done |
| `Connection` | reads, body, BodyParser, get_body, write | stages in short, a Context by its references | done |
| `WebSocket` | reads, send queue, destruction | | done |
| `Channel` | abstract: a FIFO of messages | refined by WebSocket | done |
| `ServerLifecycle` | Server, Listener, pool, signals | | done |
| `UrlCodec`, `Url`, `Cookies`, `CgiParams`, `FileHandler` | pure functions | checked by `PureFunctions` | done |
| `FileService` | threads, a changing file, the lock and content of the cache | `FileHandler` in short | done |

Each module `M` has its properties in `MProperties`, its instances in `MCM` and the
.cfg files, its proofs in `MProofs`. Those of `PureFunctions` are in `UrlCodecProofs`,
`CgiParamsProofs` and `PureFunctionsProofs`. Every invariant and action
property that a passing run checks is also a theorem; section 9 says what is not, and why.

## 3. RequestPipeline

### Model and code

A *position* is what `run_parser` and `run_handler` are called with: a parser, the
end of the parsers, a handler, the end of the handlers. `stack[t]` is the
sequence of positions whose `protect` frame thread `t` is inside, innermost
first, because a stage that calls its callback calls the next stage from its own
frame. `base[t]` is a stage whose callback `t` calls outside of any `protect`.
`pc[t]` names the step the thread is at, `level[t]` whether it is in
`dispatch_exception` (1) or in its fallback (2).

| action | code |
|---|---|
| `Run` | `Connection::read_header` making the Context, `Context::run` |
| `Protect`, `Return` | `ExceptionCatcher::run`: lock, callback, unlock on the way out; the last reference to go destroys the Context, which sends |
| `AnswerParser`, `OnParsed`, `AnswerHandler` | the callbacks of `run_parser`, `on_parsed`, `run_handler` |
| `ErrorView`, `Render` | `on_handled(false)`, `render_error_view` and the exception view |
| `ReadCode`, `Claim`, `FinalSend`, `Resolve` | the four accesses of `on_finished` to shared state |
| `Catch`, `Respond`, `CheckFinished` | `dispatch_exception`, `response_exception` |
| `StageReturns`, `StageThrows`, `StageSetsStatus`, `StageSends`, `StageHolds`, `Resume`, `Drop` | application code: what a stage may do, at any point of its frame |
| `Write` | the second line of `BuildingResponse::send`: `Connection::write` |
| `OnWrite` | `Connection::on_write`, on the strand when no other handler of it runs |

`BuildingResponse::send` is two steps. Whoever calls it tests and sets `already_sent`
(`Send`, part of the caller's action); the thread that set it is in `writing` until
`Write`, which serialises the status as it is by then (Beast formats the status line
inside `async_write`). In between, another thread may set the status, or finish the
request: its own `send` does nothing, it wins `finished` and fulfils the promise. Hence
`Exchange` says that somebody *undertakes* to answer before the promise is fulfilled or the
request released, and the answer follows.

`verdicts[s]` remembers what stage `s` answered; nothing in the model reads it but
`StagesStartInOrder`.

Abstractions: header fields and bodies are left out; a rendering has three outcomes; the
matching of exception types is a choice among what registered handlers can do
(answer 500, swallow, throw). An application is not modelled to catch the
exceptions that its callback throws, nor to call a callback after giving it away.

### Runs

| run | instance | what it shows |
|---|---|---|
| `pipeline_threads` | 1 parser, 2 handlers, strand + 1 worker, every behaviour of catchers and views, and of stages but setting a status | type invariant, mutual exclusion, one response, one promise once the response counts as sent, no use after destruction, order of stages, nothing runs after a handled request, refinement of Exchange |
| `pipeline_ends` | 1 parser, 1 handler, strand + 1 worker, fair, stages change the status at will | every request is answered and released; as long as no worker runs stages, the promise and the log report the status that was written |
| `pipeline_not_found` | 1 parser, 1 handler, strand + 1 worker, an error view that sends | *violation*: the promise says 200 for a request that was answered 404 |

Two handlers are the fewest with a handler that must not start; one parser and
one handler already give nested frames, a callback stored by each, and two
threads inside the pipeline at once. Stages set a status only in `pipeline_ends` (`AppCodes`),
which checks the one property that depends on the status. `MaxAnswers = 1` states the contract of
`RequestParser` and `RequestHandler` that a stage calls its callback once.

Fairness in `pipeline_ends`: threads of the pool run (weak fairness of the
pipeline's steps, of `Write` and of the completion of a write, which the 30 s expiry of the
stream bounds), a stage returns, a stored callback is eventually called or
destroyed. No stage is assumed to answer.

### Finding

`pipeline_not_found`: `on_finished` (context.cpp:146) reads the status from the
Connection, after the error view may already have sent it. When the handler
answers from a worker and the view sends, the strand may complete the write and
reset the response first: promise and log then report 200 although the client got
404, where tests/request_pipe/driver.cpp:99 says "Returns 404 for unhandled
requests". `PromiseMatchesResponse` (stages do not send) shows that this needs a worker that runs
stages, or a stage that sends by itself: without these, nothing resets or changes
the response between the answer and the promise.

### Proofs

`RequestPipelineProofs` proves, for any number of threads, parsers and handlers,
from the assumptions of `RequestPipeline` on its constants:

* `TypeCorrect`: `Spec => []TypeOK`.
* `StagesExclude`: `ProtectExcludes` is inductive given the types; only Protect and
  Return touch the stack and the mutex.
* `OneResponse`: `SingleResponse`, and `OnTheWire`, that a status is on the wire exactly when
  the response was written: only a thread that set `already_sent` writes.
* `DestructionIsSafe`: needs that an idle thread has no frame (`IdleHasNoFrame`), and where
  threads are that are about to write (`WritersAtWork`): none but the last owner when the
  context is destroyed.
* `PromiseOnce`: `PromiseAfterResponse`, strengthened by `FinishInv` (a finishing
  thread carries a real status, and fulfils the promise when the response counts as sent) and
  `PromiseKeptByThen`, that such a response was written when the context is destroyed.
* `Implements`: every step is a step of Exchange or a stutter, from the previous invariants.
* `StopsOnTrue`: assumes `MaxAnswers = 1`. `TokenInv` says that one stage that did not
  answer yet, or one thread on its way to a stage, carries the request forward, and
  that nobody does once it is handled.
* `StagesAreOrdered`: `StagesStartInOrder` looks only at the stages that started, and asks
  for each what those before it answered (`verdicts`); `OrderInv` says the same of the stage a thread is about to start (`Due`), and needs that
  threads are in the code, or hold a callback, of stages that started (`EnteredInv`).
* `PromiseMatches`: assumes `AppMaySend = FALSE`, besides the property's own condition that
  no worker ever runs a stage. `AloneInv` follows the status from `ReadCode` to `Resolve`:
  without other threads nothing sends or resets the response in between.

Liveness (`EveryRequestEnds`) is model-checked only.

## 4. Connection

### Model and code

`phase`, `length` and `left` are what Beast's parser knows; `reads` and `writes`
count operations in flight; `callback` is `body_chunk_callback`, as the sequence of
listeners it calls; `refs` is who refers to the Context, whose end sends.

| action | code |
|---|---|
| `Start`, `ReadHeader`, `Ran` | `start`, `expect_read`, `read_header` before and after `Context::run` |
| `BodyTooLarge` | `on_body_too_large` |
| `ReadChunk`, `CallListener`, `Continue`, `EndOfBody` | `read`, its calls of the body callback, for the chunk and once more with an empty chunk, and the end of the moved callback |
| `ReadFails`, `OnWrite` | `on_read_error`, `on_write` |
| `WaitForBody`, `NoBodyToWaitFor` | `BodyParser::wait_for_body` on the strand |
| `WorkerMakes`, `WorkerRegisters` | the same on a worker: the PendingBody reads what remains, then its listener is registered; the strand may go on in between |
| `GetBody`, `Chain` | the two halves of `get_body`: its test and copy, then the replaced callback |
| `Answer`, `Throw`, `HandOver`, `Shrink` | what application code may do |
| `StrandReturns`, `WorkerReturns` | a stage returns and drops its reference |

Lengths count chunks, since every completed read is a full buffer or the end of the
body. The request is carried by one stage at a time; stages that do several of these
things are RequestPipeline's subject. A connection serves **one** request:
`Server::allow_keep_alive` needs `keep_alive_enabled`, which nothing sets
(server.hpp:74). Were it set, `on_write` would start a second read beside that of the
body, as the mutant `OnWriteReads` does.

`write` cancels the read of a body that is still under way. That read fails then
(`ReadFails`), or had completed before and is delivered all the same (`ReadChunk`).

`get_content_length_remaining` gives nothing before the first chunk was parsed, so
that `get_body` called while the header is handled answers at once with an empty
body; this is modelled (`Remaining`), and no property calls it wrong.

### Runs

| run | instance | what it shows |
|---|---|---|
| `connection_bodies` | bodies of 0 to 4 chunks, limit 3, stages that shrink the limit, throw, answer, hand over or wait; a worker that asks for the body; a second parser that does | type invariant, one read, one write and one response, `body_received` once, with all that was not read before its parser asked; nobody waits in vain unless a read failed or a listener missed a chunk; (fair) every other request is answered |
| `connection_throws` | bodies of 0 to 3 chunks | *violation*: an exception in `body_received` ends the process |
| `connection_get_body` | the same, workers ask for the body | *violation*: a handler is called back after its request was answered |

Four chunks include a body that is too large, three distinguish the first, a middle
and the last chunk; one chunk is both first and last.

Fairness: the strand runs; a read completes with data or with an error, at the
latest when the stream expires; application code returns. No stage is assumed to
answer, no client to send.

### Findings

* `connection_throws`: `Connection::read` calls the body callback outside of any
  `protect`. A parser's exception is caught while the header is handled
  (tests/exception_catcher/driver.cpp:57 "Catches exception from RequestParsers as
  well"), but leaves `io_context::run` when the body arrives later.
* `connection_get_body`: the listener of `get_body` calls back whenever nothing
  remains to be read, which holds for the last chunk and again for the empty one.

Not findings, since nothing in the repository says otherwise: after a read error the
listeners, their Context and the Connection keep each other alive;
a listener that missed a chunk waits for ever. `missed` becomes true in these cases only:

* the strand takes a chunk after the worker's PendingBody read what remains and before the
  worker registers its listener;
* `get_body` of a worker tests that something remains, and replaces the callback after
  `Connection::read` has called it for the last time (`StillReads`), or a second parser waits
  for a body that was read; what such a registration replaces, the listener of somebody else
  perhaps, is not called either.

A worker that registers in time is none of them: it gets its body, whatever the strand does in
between. `NobodyWaitsInVain` names the two exceptions, `failed` and `missed`: there is no third.

### Proofs

`ConnectionProofs` proves the four invariants of `connection_bodies` for bodies of any length,
any limit and any smaller limits, from `SizesAssumption` alone. None of them is inductive;
`Inv` joins six parts, each with a lemma that goes through the steps:

* `PhaseInv`: what is left of the body agrees with how far the parser is, and with where
  the strand is;
* `StrandInv`: a read is in flight only while the strand is in nothing, and a strand with
  nothing to do, no read and no failure has the whole body;
* `NoneInv`: before there is a Context nothing happened but a refusal;
* `WrittenInv`: writes agree with `sent`, or with the refusal (`OneResponse`);
* `RefsInv`: a live Context has a reference, and who holds one is at work, or waits
  (`ContextsEnd`);
* `BodyInv`: a PendingBody that is made but not registered belongs to the worker (`MadeInv`); and
  as long as no listener missed a chunk, those that are registered will still be called
  (`Listening`), that of `get_body` too (`GetOnTime`), and the parser that waits counted exactly
  what was read and not handed on yet, which ties `pending.read` to `left` across the reads,
  the chunk in between and the last, empty one (`WaitOnTime`; `WholeBodyOnce`). Registrations,
  chunks, calls and returns disturb it and have lemmas of their own.

`EveryRequestAnswered`, a liveness property, is model-checked only.

## 5. WebSocket

Methods of a websocket dispatch tasks on its strand. `tasks` is the strand's queue;
a method called from `received()` or `disconnected()` is on the strand already and
runs at once (`SendFromStrand`, `ReadFromStrand`), before queued tasks. The order of
messages is therefore that in which they enter `send_buffers` (`accepted`), not that
of the calls of `send` of different threads.

| action | code |
|---|---|
| `Send`, `Read`, `RunSend`, `RunRead` | `send`, `read`, and the tasks they dispatch |
| `ReadCompletes`, `WriteCompletes`, `OnRead`, `OnWrite`, `Return` | the operations, `on_read`, `on_write`, and the end of the methods they call |
| `Forget`, `Destroy` | the application drops the socket, `~WebSocket` |

Once an operation failed (`broken`), all later ones fail. The receive buffer is data,
`on_run` and `on_accept` are private and never called.

`websocket` checks, with three messages and every interleaving, that one read and one
write are in flight, of the first message of the queue; that a queue that is not
empty is being written or the socket is closed; that the close frame comes after every
message; that the socket **implements `Channel`** (messages arrive in order, once,
without a gap, and a socket that disappears without a failure has delivered all); and
that every message arrives or the connection breaks, if no write stays in flight for ever. Three messages are one in
flight, one queued and one that is sent while another completes. The bound on
`Read`, one queued call at a time, loses nothing: a second call finds `reading` set.
Fairness: the strand runs its tasks and the application's methods return. Nothing is assumed
of reads and writes: the timeouts of the stream are set in `on_run` only (websocket.cpp:78),
which nothing calls, so that a peer that stops reading leaves a write in flight for ever, and
the messages behind it in the queue. `EveryMessageArrives` is therefore conditional: a message
that was given to the socket arrives, or the connection breaks, unless from some time on one
write stays in flight.

### Proofs

`WebSocketProofs` proves the types, the three safety invariants and `ImplementsChannel` for
any set of messages, any number of calls and any order of tasks. The inductive
invariant joins to the types:

* `TaskInv`: a queued completion that failed means `broken`, and what broke was either
  handled (`closed`) or its completion still waits;
* `ReadInv`, `WriteInv`: an operation is in flight, or its completion is queued, never
  both and never two, exactly while its flag is set; the message being written is the
  first of the queue (`OneOperationAtATime`, `MessagesRemembered`);
* `StreamInv`: unless broken, what was accepted is what is on the wire followed by the
  queue, without its first message between the completion of its write and `on_write`;
* `ByeInv`: a socket that said goodbye had nothing left (`GoodbyeIsLast`).

`SocketIsAChannel` maps each step: `StreamInv` makes the message that a completed
write delivers the next one of the channel, and with `WriteInv` nothing undelivered is left
when an unbroken socket is destroyed. `EveryMessageArrives`, a liveness property, is
model-checked only.

## 6. ServerLifecycle

`main` follows `Server::launch`; each thread of the pool and, later, the main thread
runs handlers of one io_context, which once begun run to their end and never begin
after `stopped`.

| action | code |
|---|---|
| `Listen`, `Arm`, `Spawn`, `MainRuns`, `MainReturns`, `Join`, `End` | `launch` in its order, `Listener::listen`, `run`, `stop`, `do_restart` |
| `BeginAccept`, `OnAccept` | the accept loop |
| `BeginStep`, `EndStep` | a completion handler of some connection |
| `Raise`, `BeginSignal`, `OnRestart`, `OnStop`, `PoolReturns` | the signal sets, `restart`, `stop`, `run` returning |
| `Terminate` | an exception leaves a handler and with it `io_context::run`: the process ends |
| `CallStop`, `CallRestart`, `FinishRestart` | a handler of a request calls `stop` or `restart`, which marks, then stops |
| `CheckEnvironment`, `AssignEnvironment` | `set_environment`: its test of `running`, its assignment |
| `AddCatcher` | `add_exception_catcher`, which throws once the catcher is sealed |

Application code calls the server from a handler or before `launch` (`Applies`); `inside`
is the function a handler is in the middle of, `begun` remembers that `Server::restart` was
entered. Calls that throw or change nothing are left out.

No handler of the io_context is inside a `protect` from its start, so that an exception may
end the process. `on_accept` makes a Connection whose constructor asks for the address of the
client (server/connection.cpp:32), which throws if the client has gone: no further accept is
posted then and the process is terminated. The listener of a body may throw likewise
(`connection_throws`). Nothing in the repository says otherwise of the former.

`server_stops` (pool of three threads with the main one, two requests of two handlers,
both signals, two exception catchers): when launch ends no thread runs a handler; a restart
is carried out once `Server::restart` was entered, even if the main thread had left its
loop, and no other; as long as the server runs it accepts connections, also after an accept
that failed; the exception catchers, which threads read
without a lock, do not change once a thread is in its loop; a signal ends the process, unless
an exception does. A signal only queues its handler: a SIGUSR2 that arrives while a stop ends the
io_context is lost, and `RestartHonoured` does not count it.
Three threads allow both signals and a request to be handled at once; two handlers give a
request a gap between handlers; two catchers leave room for one that comes too late.
One value of the environment is enough for these properties.

Fairness: threads run and handlers end (weak); the handler of a signal is begun (strong
fairness: the queue of the io_context is served in turn, so that requests cannot
overtake it for ever, although any one of them may keep a thread busy).

`server_requests` is a *violation*: `Server::stop` logs ">> Waiting for requests to
end..." (server.cpp:134), then stops the io_context, which abandons every request that
is between two handlers. Only handlers that are running end.

`server_environment` is a *violation*: `set_environment` throws "calling
Server::set_environment while the server is running is forbidden" (server.cpp:125), but
the pool starts (server.cpp:106) before `running` is set (server.cpp:108), and the test is
not one step with the assignment. A handler of the pool that passed the test in between
changes the environment of a running server, under the requests that read it in
`response_exception`.

### Proofs

`ServerLifecycleProofs` proves the four invariants of `server_stops` and `CatchersSealed`
for any pool, any requests and any number of handlers and catchers:

* `TypeCorrect`: not inductive alone, since a handler that ends decrements its request;
  `StrandInv` says that a request somebody works on still takes handlers, and that
  nobody else works on it.
* `LaunchEndsAlone`: `EndInv` ties `main` and the threads to what they may work on; a
  thread with work is in its loop (`LoopInv`).
* `RestartsHonoured`: `MarkInv`, a restart was begun exactly if it is marked or a
  thread is about to mark it, unless the process was terminated; at the end no thread is.
* `CatchersStay`: `SealInv`, the catcher is sealed from `Arm` on, and with `EndInv` no thread
  is in its loop before.
* `AcceptsForEver`: `AcceptInv`, which adds that the acceptor is open while the server runs.

## 7. FileService

Threads serve one public file while somebody writes it, small or too large for the cache,
or removes it, and the clock runs. A content is the number of the write it comes from, so
that contents are compared by age. Each thread serves one client, which may revalidate the
copy it got (`copy`, with the times at which it was asked for and sent).

| action | code |
|---|---|
| `Resolve` | `filepath_from_uri` |
| `Revalidate` | the If-Modified-Since branch of `process`: `last_write_time` throws, or `if_not_modified` |
| `Lock`, `LookSize`, `Find`, `Create`, `Respond` | `send_file`: the lock and `exists`, `file_size`, `require` or `create_instance`, the rest |
| `End` | the destructor of `FileCache::Lock`, also after an exception or a refusal |

The lock and `exists`, and the insertion into the cache and the answer, are one step each,
because nothing else looks at the cache in between. `require` is that of Flyweight, of
another library: it gives what the cache has, or keeps what it made. Dates of HTTP have
whole seconds; `zone` is what `mktime` gets wrong by reading a GMT date as local time
(file.cpp:127). The time of a file is converted between two clocks over two readings of them
and cut to a second (`to_time_t`, file.cpp:132), so that it may come out a second early or late
(`ModifiedTimes`).

`file_service` (two threads, two writes, three seconds, local time at or behind GMT) checks

* `LockIsReleased`: whatever disappears or throws, the one mutex that every other request
  waits for is released. Fairness: a thread that serves a request goes on; the mutex is
  not assumed to be fair.
* `OnlyTheCacheGoesBack`: what one client gets goes back in time only from a content too
  large for the cache to the one in it, which is never replaced. Without the lock two
  reads overtake each other.
* `ConfirmedCopyStands`: a copy is confirmed with 304 although something newer would be sent
  only if the file changed in a second in which it was served (times are compared with `<=`,
  file.cpp:147) or in the second after, which may be dated a second early, or where local time
  is behind GMT. Nothing in the repository promises more.

Two writes are what a file needs that is replaced by a newer one, small or large; three seconds
separate a change from the second of the answer and from the one after it. Clients whose local time is ahead of GMT
are answered in full more often than needed and are left out of the instance.

### Proofs

`FileServiceProofs` proves `TypeOK`, `OnlyTheCacheGoesBack` and `ConfirmedCopyStands` for any
number of threads, writes and seconds. `TypeOK` says who holds the lock and is inductive as it stands. `OnlyTheCacheGoesBack` needs two more parts. `AgeInv`: no content is newer than the last write,
and the file, if it exists, has the last one. `CacheInv`: the cache, once filled, keeps
its content; a cached copy equals it; a thread makes a content only while there is none to
share, and then one no older than the client's copy. `CacheInv` survives `Respond`, the one
step that fills the cache, because the lock keeps all other threads from reading a
content. `ConfirmedCopyStands` needs `FreshInv`: if the file did not change since the second in
which a request began, then what its thread found out about the file still holds, and so does
what its client got, either the present content or the cached one; a copy confirmed for
a client whose clock is not behind is such a copy. The proofs use the assumptions `LockAssumption` and `BoundsAssumption`, no others.

## 8. Pure functions

`UrlCodec`, `Url` and `Cookies` translate `url_encode.cpp`, `url.cpp`, `uri` of `url.hpp` and
`parse_cookie_values` byte by byte, regular expressions by what their greedy match is;
`CgiParams` translates the cursor of `cgi2params` and the writer `params2cgi` over tokens,
`FileHandler` the decisions of `FileRequestHandler::process` and `send_file`, where every look
at the disk is a field of its own because the file may change between two looks.
`PureFunctions` enumerates inputs as initial states. The lengths of all inputs are constants
(`LengthsAssumption`: natural numbers), which the run gives small values and the theorems any.

`pure_functions` checks every text of one byte and of at most 4 bytes over 9
representatives, every query of at most 6 tokens, every list of at most two parameters
with keys up to one deeper than a limit of 2 (in the code 32), addresses of at most 5 bytes
behind the scheme and with ports around 10, 10000 and 65536, at most two cookies with values
of at most 2 bytes, and every request against files of 0 to 3 bytes, with numbers that may
lie behind the end:

* `FragmentsRecovered`: a path that `uri` built, cut at its slashes and decoded, gives back its
  fragments (so decoding undoes encoding); `uri()` and `uri("")` are both "/";
* `DecodesEveryEscape`, against a definition without a cursor;
* `CursorAdvances`: the loop of `cgi2params` ends; `ParametersAreSeparate`: a parameter
  that is parsed to its end does not swallow the next, and one that is not leaves those before
  it alone; `ParsesRendered`: the parser is the inverse of the writer,
  up to the first parameter nested too deep;
* `UrlRoundTrip`: a URL is read back as it was written up to port 65535, and what is made of
  any other address is refused or stable, also where digits behind the fifth go to the target;
* `CookiesRecovered`: the cookies of a header, up to the one whose callback answers false;
* `BodyInsideFile`, `WholeFileSent`: what the file handler answers.

A bracket that is left open in front of a separator and closed behind it
(`a%5Bb&c%5D=1`) does swallow what lies between (cgi2params.cpp:67): the property then says only
that the parameters in front of the bracket remain.

The numbers of a Range header are taken to fit, and files to be shorter than
2^32 bytes. Not modelled: headers, among them Content-Range, whose second bound is
included while the body ends before it (file.cpp:110 and 220); objects in arrays, which
`params2cgi` writes as empty values. An attribute without an equals sign becomes part of the
next cookie's key (the expression's `[^=]+`), and a compressed .svg or .txt file loses its
MIME type (mimetype.cpp:30); nothing in the repository says otherwise, and no property does.

### Proofs

For every set of numbers, `BodiesInsideFiles` and `WholeFilesSent`: a body comes from
`send_file` only (`BodyIsSlice`), and a slice of a range in order lies inside of the file
(`SliceBounds`).

`decode`, `cgi2params`, `parse_cookie_values`, the fold that reads a number and the
concatenations of their writers are recursive functions, so that theorems about texts of
every length need an induction. The library's rules take a predicate as a parameter, which
the installed provers cannot instantiate; `LeastNumber` states instead that each non-empty
set of numbers has a least one, from the fact that `<` is well-founded on the numbers, and
`Upwards` and `Downwards` are the inductions it gives, over sets. Each recursion ends
(`DecodeExists`, `FlattenExists`, `SubscriptsExist`, `ParseExists`, `NumbersExist`,
`CookiesExist`, by the same inductions), so that its function equals its body everywhere, and
what it computes follows from there:

* `DecodeUndoesEncode`: `Decode(Encode(s)) = s` for every text of bytes. `FlattenPlaces` says
  where in the encoded text each code begins, `CodeDecodes` that `decode` at that place
  yields the byte and goes on behind the code, which rests on `EscapesDecode`, the same for
  the two digits of one byte. `CodesAreInert`: none of the bytes written separates the parts
  of an address, a query or a cookie.
* `CursorsAdvance`: `parse_base_key` and `parse_subscripts` never go back, and a turn of the loop
  that accepts its key goes on behind the value, or behind a key that has none.
* `ParametersSeparate`: a query that agrees with another one up to a separator, with the rest of
  either behind it, is read in the same way (`Part`); so the loop arrives exactly at the
  separator if it comes that far at all (`ParseSplits`), and if it stops before, the loop over
  the whole query assigns at least the same parameters first (`FrontStays`).
* `RenderedParametersParse` (`ParsesRendered`): `FlattenPlaces` says where the keys of a path and the
  parameters of a list are written (`KeyPlaces`, `RenderWrites`); at a written parameter a turn of
  the loop reads its keys and its value (`LeafTurns`), or stops if it is nested too deep
  (`LeafStops`), and `ParseSplits` takes one parameter after the other from the list.
* `EscapesAreDecoded` (`DecodesEveryEscape`): `OrderIs` says that there is one way only to put
  the numbers of a set in order, `EscapesAgree` that the escapes of the reference are those
  that `decode` sees, and `DecodesKept`, from the end of the text to its beginning, that from
  the place of each byte that is kept `decode` yields what the reference has from there on.
* `FragmentsComeBack` (`FragmentsRecovered`): `UriWrites` says where `uri` wrote its slashes and
  `SlashesAre` that there are no others, since `EncodedBytes` contain none; so the pieces are the
  codes (`PiecesOfUri`), for any number of fragments (`FragmentsOfUri`).
* `UrlsComeBack` (`UrlRoundTrip`): `DigitsCount` says that the digits of a number of at most five
  give the number back, `ToStringIs` where the parts of an address stand that `to_string` wrote,
  `PartsAreRead` that the expression finds them there (`WrittenUrlRead`). What `from_string` makes of
  any address has parts that can be written again (`AddressType`, `ReadUrlStays`), since it refuses
  an address without a host or with a line break in its target.
* `CookiesComeBack` (`CookiesRecovered`): `CookiesPlaced` says where in a header each cookie begins,
  `CookieRead` that the expression finds it there, with the blanks in front of its key skipped, and
  goes on behind its semicolon, and `CookiesReadFrom`, from the last cookie to the first, what is
  yielded. This holds for any number of cookies, with keys and values of any length
  (`WrittenCookiesRead`); keys must not be empty.

That an input is of its kind and stays what it is (`TextsStay`, `UrlsStay` and the like) rests on
`BytesAssumption`, that the bytes of texts, addresses and cookies are bytes, and
`PortsAssumption`, that the port of a written address has five digits at most: a `Url` holds a
number of 16 bits, and the expression (url.cpp:12) leaves a sixth digit to the target. The other
theorems of these modules rest on `CgiAssumption` and `NumbersAssumption`; none needs anything of the lengths. That a host has
no colon or slash, and a target no line break, is in the definition of the inputs (`Hosts`,
`Targets`), not in assumptions.

## 9. Limits

Liveness (`EveryRequestEnds`, `EveryRequestAnswered`, `EveryMessageArrives`,
`SignalEndsServer`, `LockIsReleased`) is model-checked only: the prover has no rules for
fairness. Every other property that a passing run checks is a theorem. The two theorems with
a hypothesis on a constant, `StopsOnTrue` (`MaxAnswers = 1`) and `PromiseMatches`
(`AppMaySend = FALSE`), say nothing of stages that answer twice or send by themselves.

Boost.Asio and Boost.Beast are taken at their documentation: a strand runs one handler
at a time, operations on a stream with an expiry complete, with an error if need be, and a
stopped io_context begins no handler. Built-in assets are a constant table whose
handler sends at once or declines, as stages of RequestPipeline do. MIME types, parameters, sessions, options and
logs have no state that steps of others interleave with; they are listed in
PROJECT.json with the reason.
