--------------------------- MODULE RequestPipeline ---------------------------
(***************************************************************************)
(* One HTTP request going through the parsers and the handlers of a server *)
(* (context.cpp), with the response it builds (http_response.cpp), the     *)
(* exception catcher around every stage (exception_catcher.cpp) and the    *)
(* error views (error_view.cpp).                                           *)
(*                                                                         *)
(* A stage is application code: it answers through the callback it is      *)
(* given, at once, later, from another thread or never; it may write and   *)
(* send the response by itself; it may throw.  Each stage runs inside a    *)
(* `protect`, whose frame holds the context's recursive mutex and catches  *)
(* what the stage throws.  Since a stage calls its callback from inside    *)
(* its frame, the frames of the following stages nest in it.               *)
(***************************************************************************)
EXTENDS Integers, Sequences

CONSTANTS
    Strand,         \* the thread running the connection's strand
    Workers,        \* other threads that may call a stage's callback
    NoThread,       \* "nobody holds the mutex"
    NParsers,       \* number of request parsers of the server
    NHandlers,      \* number of request handlers of the server
    MaxAnswers,     \* bound: calls a stage makes of its callback
    AppCodes,       \* statuses that application code sets by itself
    AppMaySend,     \* whether application code calls response.send()
    AppMayThrow,    \* whether a stage may throw
    Catchers,       \* what the registered exception handlers may do
    ErrorViews      \* what rendering an error view may do

Threads   == {Strand} \cup Workers
OK        == 200
BadRequest == 400
NotFound  == 404
InternalError == 500
NoCode    == 0
Codes     == {OK, BadRequest, NotFound, InternalError} \cup AppCodes

\* The iterators run_parser and run_handler are called with: the parsers, the
\* end of the parsers, the handlers, the end of the handlers.
Parsers      == 1 .. NParsers
ParsersEnd   == NParsers + 1
FirstHandler == NParsers + 2
Handlers     == FirstHandler .. NParsers + NHandlers + 1
HandlersEnd  == NParsers + NHandlers + 2
Stages       == Parsers \cup Handlers
Positions    == 1 .. HandlersEnd

Verdicts == {"abort", "stop", "continue", "handled", "passed"}

PCs == {"idle", "protect", "user", "parsed", "unparsed", "error_view", "render",
        "finish", "claim", "send", "resolve", "catch", "respond", "check", "return"}

ASSUME ThreadsAssumption == Strand \notin Workers /\ NoThread \notin Threads
ASSUME StagesAssumption  == NParsers \in Nat /\ NHandlers \in Nat /\ MaxAnswers \in Nat
ASSUME AppAssumption ==
    /\ AppCodes \subseteq Nat \ {NoCode}
    /\ AppMaySend \in BOOLEAN /\ AppMayThrow \in BOOLEAN
    /\ Catchers \subseteq {"respond", "swallow", "throw"}
    /\ ErrorViews \subseteq {"quiet", "send", "throw"}

VARIABLES
    ctx,        \* life of the Context and of the process it runs in
    pc,         \* what each thread is about to do
    stack,      \* per thread, the stages whose protect frames it is in, innermost first
    base,       \* per thread, the stage it is in outside of any protect, 0 if none
    next,       \* per thread, the stage whose frame it is about to enter
    code,       \* per thread, the local variable of on_finished
    level,      \* per thread, 1 in dispatch_exception, 2 in its fallback, 0 elsewhere
    owner,      \* the thread that holds Context::mutex
    status,     \* status code of the connection's response object
    sent,       \* BuildingResponse::already_sent
    writing,    \* threads between the two lines of BuildingResponse::send
    wire,       \* status code that Connection::write serialised, NoCode before
    writes,     \* number of calls to Connection::write
    flushed,    \* whether Connection::on_write has run
    finished,   \* Context::finished
    promise,    \* value of Context::end_promise, NoCode if unset
    handled,    \* Context::handled
    held,       \* per stage, whether the application stored its callback
    answers,    \* per stage, number of calls of its callback
    verdicts,   \* per stage, what it answered
    entered     \* stages that the pipeline has run

control  == <<pc, stack, base, next, code, level, owner>>
response == <<status, sent, writing, wire, writes, flushed>>
outcome  == <<finished, promise, handled>>
app      == <<held, answers, verdicts, entered>>
vars     == <<ctx, control, response, outcome, app>>

Init ==
    /\ ctx = "created"
    /\ pc = [t \in Threads |-> "idle"]
    /\ stack = [t \in Threads |-> <<>>]
    /\ base = [t \in Threads |-> 0]
    /\ next = [t \in Threads |-> 0]
    /\ code = [t \in Threads |-> NoCode]
    /\ level = [t \in Threads |-> 0]
    /\ owner = NoThread
    /\ status = OK /\ sent = FALSE /\ writing = {}
    /\ wire = NoCode /\ writes = 0 /\ flushed = FALSE
    /\ finished = FALSE /\ promise = NoCode /\ handled = FALSE
    /\ held = [s \in Stages |-> "no"]
    /\ answers = [s \in Stages |-> 0]
    /\ verdicts = [s \in Stages |-> {}]
    /\ entered = {}

-----------------------------------------------------------------------------
\* The stage thread t is in.
Top(t) == IF stack[t] = <<>> THEN base[t] ELSE Head(stack[t])

\* A thread that is about to write does nothing else before.
At(t, label) == ctx = "live" /\ pc[t] = label /\ t \notin writing
Goto(t, label) == pc' = [pc EXCEPT ![t] = label]

\* Back in whoever called the code that just ended: the stage that called its
\* callback, or, from the end of a list or from the exception catcher, the
\* frame that is about to be left.
GoBack(t) ==
    /\ Goto(t, IF Top(t) \in Stages /\ level[t] = 0 THEN "user" ELSE "return")
    /\ level' = [level EXCEPT ![t] = 0]

\* Mutant: the iterator is advanced once too often.
GoProtectTwice(t, position) ==
    /\ Goto(t, "protect")
    /\ next' = [next EXCEPT ![t] = position + 1]

\* Opens the protect of the next stage: the caller goes on once it has the mutex.
GoProtect(t, position) ==
    /\ Goto(t, "protect")
    /\ next' = [next EXCEPT ![t] = position]

\* Mutant: after a stage that handled the request, the handler list goes on.
HandledFallsThrough(t) == handled' = TRUE /\ GoProtect(t, Top(t) + 1)

\* Context::on_handled(true)
Handled(t) == handled' = TRUE /\ Goto(t, "finish") /\ UNCHANGED next

\* Mutant: send without its test_and_set.
SendAgain(t) == sent' = TRUE /\ writing' = writing \cup {t}

\* BuildingResponse::send, first line: only the thread that sets already_sent goes on
\* to Connection::write.
Send(t) ==
    /\ sent' = TRUE
    /\ writing' = IF sent THEN writing ELSE writing \cup {t}

\* An exception unwinds thread t up to its innermost protect; without one it
\* leaves io_context::run or the thread's function, and the process terminates.
Raise(t) ==
    IF stack[t] = <<>>
    THEN ctx' = "terminated" /\ UNCHANGED <<pc, level>>
    ELSE /\ ctx' = ctx
         /\ Goto(t, "catch")
         /\ level' = [level EXCEPT ![t] = 1]

\* Mutant: stored callbacks refer to the context without owning it.
LastThread(t, s) == \A u \in Threads \ {t} : pc[u] = "idle"

\* Whether only thread t and the callback of stage s (0 for none) still refer to the context.
LastReference(t, s) ==
    /\ \A u \in Threads \ {t} : pc[u] = "idle"
    /\ \A p \in Stages \ {s} : held[p] # "yes"

\* Mutant: a destructor that does not send.
ReleaseSilently(t, s) ==
    /\ ctx' = IF LastReference(t, s) THEN "destroyed" ELSE ctx
    /\ UNCHANGED <<sent, writing>>

\* The reference goes away; with the last one, ~Context answers what nobody answered.
Release(t, s) ==
    IF LastReference(t, s)
    THEN ctx' = "destroyed" /\ Send(t)
    ELSE UNCHANGED <<ctx, sent, writing>>

\* What a step that may send leaves of the response.
NothingWritten == UNCHANGED <<status, wire, writes, flushed>>

-----------------------------------------------------------------------------
\* Connection::read_header creates the context and calls Context::run.
Run ==
    /\ ctx = "created"
    /\ ctx' = "live"
    /\ GoProtect(Strand, IF NParsers > 0 THEN 1 ELSE FirstHandler)
    /\ UNCHANGED <<stack, base, code, level, owner, response, outcome, app>>

\* ExceptionCatcher::run takes the recursive mutex, then calls what
\* run_parser or run_handler gave it.
Protect(t) ==
    /\ At(t, "protect")
    /\ owner \in {NoThread, t}
    /\ owner' = t
    /\ stack' = [stack EXCEPT ![t] = <<next[t]>> \o stack[t]]
    /\ entered' = entered \cup ({next[t]} \cap Stages)
    /\ next' = [next EXCEPT ![t] = 0]
    /\ Goto(t, CASE next[t] = ParsersEnd  -> "parsed"
                 [] next[t] = HandlersEnd -> "error_view"
                 [] OTHER                 -> "user")
    /\ UNCHANGED <<ctx, base, code, level, response, outcome, held, answers, verdicts>>

\* The stage that thread t runs calls its callback.
Answer(t, verdict) ==
    /\ answers[Top(t)] < MaxAnswers
    /\ answers' = [answers EXCEPT ![Top(t)] = @ + 1]
    /\ verdicts' = [verdicts EXCEPT ![Top(t)] = @ \cup {verdict}]

\* Mutant: a parser that aborts the parsing counts as one that ends it.
AbortParses(t) ==
    /\ At(t, "user") /\ Top(t) \in Parsers
    /\ \/ Answer(t, "abort") /\ Goto(t, "parsed") /\ UNCHANGED next
       \/ Answer(t, "stop") /\ Goto(t, "parsed") /\ UNCHANGED next
       \/ Answer(t, "continue") /\ GoProtect(t, Top(t) + 1)
    /\ UNCHANGED <<ctx, stack, base, code, level, owner, response, outcome, held, entered>>

\* The parser thread t runs gives its answer: Abort, Stop or Continue.
AnswerParser(t) ==
    /\ At(t, "user") /\ Top(t) \in Parsers
    /\ \/ Answer(t, "abort") /\ Goto(t, "unparsed") /\ UNCHANGED next
       \/ Answer(t, "stop") /\ Goto(t, "parsed") /\ UNCHANGED next
       \/ Answer(t, "continue") /\ GoProtect(t, Top(t) + 1)
    /\ UNCHANGED <<ctx, stack, base, code, level, owner, response, outcome, held, entered>>

\* Context::on_parsed
OnParsed(t) ==
    /\ At(t, "parsed") \/ At(t, "unparsed")
    /\ \/ /\ sent
          /\ Handled(t)
          /\ UNCHANGED status
       \/ /\ ~sent /\ pc[t] = "parsed"
          /\ GoProtect(t, FirstHandler)
          /\ UNCHANGED <<status, handled>>
       \/ /\ ~sent /\ pc[t] = "unparsed"
          /\ status' = BadRequest
          /\ Goto(t, "error_view")
          /\ UNCHANGED <<next, handled>>
    /\ UNCHANGED <<ctx, stack, base, code, level, owner, sent, writing, wire, writes, flushed,
                   finished, promise, app>>

\* The handler thread t runs gives its answer: handled or not.
AnswerHandler(t) ==
    /\ At(t, "user") /\ Top(t) \in Handlers
    /\ \/ Answer(t, "handled") /\ Handled(t)
       \/ Answer(t, "passed") /\ GoProtect(t, Top(t) + 1) /\ UNCHANGED handled
    /\ UNCHANGED <<ctx, stack, base, code, level, owner, response, finished, promise,
                   held, entered>>

\* Context::on_handled(false) starts render_error_view(not_found).
ErrorView(t) ==
    /\ At(t, "error_view")
    /\ handled' = FALSE
    /\ status' = NotFound
    /\ Goto(t, "render")
    /\ UNCHANGED <<ctx, stack, base, next, code, level, owner, sent, writing, wire, writes,
                   flushed, finished, promise, app>>

\* The view itself: a file or a template may fill the body, render_custom_error_view
\* sends, and both may throw. An exception inside dispatch_exception leads to the
\* fallback response; inside the fallback it is only logged.
Render(t) ==
    /\ At(t, "render")
    /\ \/ /\ "quiet" \in ErrorViews
          /\ Goto(t, "finish")
          /\ UNCHANGED <<ctx, level, sent, writing>>
       \/ /\ "send" \in ErrorViews
          /\ Send(t)
          /\ Goto(t, "finish")
          /\ UNCHANGED <<ctx, level>>
       \/ /\ "throw" \in ErrorViews
          /\ \/ level[t] = 0 /\ Raise(t)
             \/ /\ level[t] = 1 /\ Goto(t, "respond")
                /\ level' = [level EXCEPT ![t] = 2] /\ UNCHANGED ctx
             \/ level[t] = 2 /\ GoBack(t) /\ UNCHANGED ctx
          /\ UNCHANGED <<sent, writing>>
    /\ NothingWritten
    /\ UNCHANGED <<stack, base, next, code, owner, outcome, app>>

-----------------------------------------------------------------------------
\* Context::on_finished, one access to shared state at a time.
ReadCode(t) ==
    /\ At(t, "finish")
    /\ code' = [code EXCEPT ![t] = status]
    /\ Goto(t, "claim")
    /\ UNCHANGED <<ctx, stack, base, next, level, owner, response, outcome, app>>

\* Mutant: nothing checks that the response was not claimed before.
ClaimAlways(t) ==
    /\ At(t, "claim")
    /\ finished' = TRUE
    /\ Goto(t, "send")
    /\ UNCHANGED <<ctx, stack, base, next, level, code, owner, response, promise, handled, app>>

Claim(t) ==
    /\ At(t, "claim")
    /\ finished' = TRUE
    /\ IF finished
       THEN GoBack(t) /\ code' = [code EXCEPT ![t] = NoCode]
       ELSE Goto(t, "send") /\ UNCHANGED <<level, code>>
    /\ UNCHANGED <<ctx, stack, base, next, owner, response, promise, handled, app>>

FinalSend(t) ==
    /\ At(t, "send")
    /\ Send(t)
    /\ Goto(t, "resolve")
    /\ NothingWritten
    /\ UNCHANGED <<ctx, stack, base, next, code, level, owner, outcome, app>>

\* BuildingResponse::send, second line: Connection::write serialises the response as it
\* is now. The destructor of the context gets here too.
Write(t) ==
    /\ ctx \in {"live", "destroyed"}
    /\ t \in writing
    /\ writing' = writing \ {t}
    /\ wire' = status
    /\ writes' = writes + 1
    /\ UNCHANGED <<ctx, control, status, sent, flushed, outcome, app>>

Resolve(t) ==
    /\ At(t, "resolve")
    /\ promise' = code[t]
    /\ code' = [code EXCEPT ![t] = NoCode]
    /\ GoBack(t)
    /\ UNCHANGED <<ctx, stack, base, next, owner, response, finished, handled, app>>

-----------------------------------------------------------------------------
\* dispatch_exception: a registered handler may call the default one, deal with
\* the exception without a response, or throw; no handler means the default response.
Catch(t) ==
    /\ At(t, "catch")
    /\ \/ "respond" \in Catchers /\ Goto(t, "respond") /\ UNCHANGED level
       \/ "swallow" \in Catchers /\ GoBack(t)
       \/ /\ "throw" \in Catchers
          /\ Goto(t, "respond")
          /\ level' = [level EXCEPT ![t] = 2]
    /\ UNCHANGED <<ctx, stack, base, next, code, owner, response, outcome, app>>

\* response_exception: the status first, then the test of is_finished.
Respond(t) ==
    /\ At(t, "respond")
    /\ status' = InternalError
    /\ Goto(t, "check")
    /\ UNCHANGED <<ctx, stack, base, next, code, level, owner, sent, writing, wire, writes,
                   flushed, outcome, app>>

CheckFinished(t) ==
    /\ At(t, "check")
    /\ IF finished THEN GoBack(t) ELSE Goto(t, "render") /\ UNCHANGED level
    /\ UNCHANGED <<ctx, stack, base, next, code, owner, response, outcome, app>>

\* Mutants: the mutex is not recursive, or it is never released.
UnlockAtOnce(t, rest) == owner' = IF stack[t] # <<>> THEN NoThread ELSE owner
KeepLock(t, rest) == owner' = owner

\* The recursive mutex is released with the last frame, rest being the frames left.
Unlock(t, rest) == owner' = IF stack[t] # <<>> /\ rest = <<>> THEN NoThread ELSE owner

\* The end of a protect frame, or of a callback called outside of one.
Return(t) ==
    LET rest   == IF stack[t] = <<>> THEN <<>> ELSE Tail(stack[t])
        leaves == rest = <<>> /\ (stack[t] = <<>> \/ base[t] = 0)
        below  == IF rest = <<>> THEN base[t] ELSE Head(rest)
    IN  /\ At(t, "return")
        /\ stack' = [stack EXCEPT ![t] = rest]
        /\ Unlock(t, rest)
        /\ IF leaves
           THEN Goto(t, "idle") /\ base' = [base EXCEPT ![t] = 0] /\ Release(t, 0)
           ELSE /\ Goto(t, IF below \in Stages THEN "user" ELSE "return")
                /\ UNCHANGED <<ctx, base, sent, writing>>
        /\ NothingWritten
        /\ UNCHANGED <<next, code, level, outcome, app>>

-----------------------------------------------------------------------------
\* Application code: what a stage does besides answering.
StageReturns(t) ==
    /\ At(t, "user")
    /\ Goto(t, "return")
    /\ UNCHANGED <<ctx, stack, base, next, code, level, owner, response, outcome, app>>

StageThrows(t) ==
    /\ AppMayThrow /\ At(t, "user")
    /\ Raise(t)
    /\ UNCHANGED <<stack, base, next, code, owner, response, outcome, app>>

\* BuildingResponse::set_status_code, which is not guarded by sent().
StageSetsStatus(t) ==
    /\ At(t, "user")
    /\ \E c \in AppCodes : status' = c
    /\ UNCHANGED <<ctx, control, sent, writing, wire, writes, flushed, outcome, app>>

StageSends(t) ==
    /\ AppMaySend /\ At(t, "user")
    /\ Send(t)
    /\ NothingWritten
    /\ UNCHANGED <<ctx, control, outcome, app>>

\* The stage keeps its callback, which shares the ownership of the context.
StageHolds(t) ==
    /\ At(t, "user")
    /\ held[Top(t)] = "no"
    /\ held' = [held EXCEPT ![Top(t)] = "yes"]
    /\ UNCHANGED <<ctx, control, response, outcome, answers, verdicts, entered>>

\* A stored callback is picked up by a thread that goes on with the stage, in a
\* `protect` of its own as ThreadHandler does or outside of any as BodyParser does.
Resume(t, s) ==
    /\ ctx = "live" /\ pc[t] = "idle"
    /\ held[s] = "yes"
    /\ held' = [held EXCEPT ![s] = "taken"]
    /\ \/ GoProtect(t, s) /\ UNCHANGED base
       \/ /\ Goto(t, "user")
          /\ base' = [base EXCEPT ![t] = s]
          /\ UNCHANGED next
    /\ UNCHANGED <<ctx, stack, code, level, owner, response, outcome, answers, verdicts, entered>>

\* ... or it is destroyed without having been called.
Drop(t, s) ==
    /\ ctx = "live" /\ pc[t] = "idle"
    /\ held[s] = "yes"
    /\ held' = [held EXCEPT ![s] = "taken"]
    /\ Release(t, s)
    /\ NothingWritten
    /\ UNCHANGED <<control, outcome, answers, verdicts, entered>>

\* Connection::on_write, on the strand, once the response went out: the
\* response object is replaced by a default one.
OnWrite ==
    /\ ctx # "terminated"
    /\ writes > 0 /\ ~flushed /\ pc[Strand] = "idle"
    /\ flushed' = TRUE
    /\ status' = OK
    /\ UNCHANGED <<ctx, control, sent, writing, wire, writes, outcome, app>>

\* The request is over.
Over ==
    /\ ctx = "terminated" \/ (ctx = "destroyed" /\ flushed)
    /\ UNCHANGED vars

Pipeline(t) ==
    \/ Protect(t) \/ OnParsed(t) \/ ErrorView(t) \/ Render(t)
    \/ ReadCode(t) \/ Claim(t) \/ FinalSend(t) \/ Resolve(t)
    \/ Catch(t) \/ Respond(t) \/ CheckFinished(t) \/ Return(t)

Application(t) ==
    \/ AnswerParser(t) \/ AnswerHandler(t) \/ StageReturns(t) \/ StageThrows(t)
    \/ StageSetsStatus(t) \/ StageSends(t) \/ StageHolds(t)
    \/ \E s \in Stages : Resume(t, s) \/ Drop(t, s)

Next ==
    \/ Run \/ OnWrite \/ Over
    \/ \E t \in Threads : Write(t) \/ Pipeline(t) \/ Application(t)

Spec == Init /\ [][Next]_vars

\* The code runs, and application code ends: a stage returns, a stored callback is
\* called or destroyed. Nothing makes a stage answer.
Fairness ==
    /\ WF_vars(Run) /\ WF_vars(OnWrite)
    /\ \A t \in Threads : WF_vars(Write(t)) /\ WF_vars(Pipeline(t)) /\ WF_vars(StageReturns(t))
    /\ \A s \in Stages : WF_vars(\E t \in Threads : Resume(t, s) \/ Drop(t, s))

FairSpec == Spec /\ Fairness
=============================================================================
