---------------------- MODULE RequestPipelineProperties ----------------------
(***************************************************************************)
(* What is expected of the request pipeline.                               *)
(***************************************************************************)
EXTENDS RequestPipeline

\* Every variable keeps its type.
TypeOK ==
    /\ ctx \in {"created", "live", "destroyed", "terminated"}
    /\ pc \in [Threads -> PCs]
    /\ stack \in [Threads -> Seq(Positions)]
    /\ base \in [Threads -> Stages \cup {0}]
    /\ next \in [Threads -> Positions \cup {0}]
    /\ \A t \in Threads : pc[t] = "protect" => next[t] # 0
    /\ code \in [Threads -> Codes \cup {NoCode}]
    /\ level \in [Threads -> 0 .. 2]
    /\ owner \in Threads \cup {NoThread}
    /\ status \in Codes
    /\ writing \subseteq Threads
    /\ sent \in BOOLEAN /\ flushed \in BOOLEAN
    /\ wire \in Codes \cup {NoCode}
    /\ writes \in Nat
    /\ finished \in BOOLEAN /\ handled \in BOOLEAN
    /\ promise \in Codes \cup {NoCode}
    /\ held \in [Stages -> {"no", "yes", "taken"}]
    /\ answers \in [Stages -> 0 .. MaxAnswers]
    /\ verdicts \in [Stages -> SUBSET Verdicts]
    /\ entered \subseteq Stages

\* Stages and their exception handlers never run on two threads at once: a thread
\* inside a protect holds the mutex of the context, and it holds it no longer than that
\* (ExceptionCatcher::run, with the mutex released on every way out of nested frames).
ProtectExcludes == \A t \in Threads : (stack[t] # <<>>) <=> (owner = t)

\* However stages, error views, the exception catcher and the destructor of the context
\* race to answer, Connection::write is called once at most; and when the response counts
\* as sent, it was written, or exactly one thread is about to write it
\* (BuildingResponse::send).
SingleResponse ==
    IF sent
    THEN \/ writes = 1 /\ writing = {}
         \/ writes = 0 /\ \E t \in Threads : writing = {t}
    ELSE writes = 0 /\ writing = {}

\* The promise of a request is fulfilled once, only by the thread that won
\* Context::finished, and only when the response counts as sent. It comes before the
\* response is written only if a stage, or an error view, sends by itself and its thread
\* is between the two lines of send (Context::on_finished).
PromiseAfterResponse ==
    /\ promise # NoCode => finished /\ sent
    /\ promise # NoCode /\ wire = NoCode =>
         \E t \in writing : pc[t] \in {"user", "finish"}
    /\ \A t, u \in Threads :
         pc[t] \in {"send", "resolve"} =>
           /\ finished /\ promise = NoCode
           /\ pc[u] \in {"send", "resolve"} => t = u

\* Nobody uses a context after its destruction: no thread is inside its code and no
\* callback of it can still be called; and the client got an answer by then, or gets it
\* from the destructor (ownership through `self` in context.cpp, Context::~Context).
NoUseAfterDestruction ==
    ctx = "destroyed" =>
      /\ \A t \in Threads : pc[t] = "idle" /\ stack[t] = <<>> /\ base[t] = 0
      /\ \A s \in Stages : held[s] # "yes"
      /\ wire # NoCode \/ writing # {}

\* Once a stage handled the request, no other stage starts, whichever threads stages
\* answer from, provided that a stage calls its callback at most once (run_handler).
HandlersStopOnTrue == [][handled => UNCHANGED entered]_vars

\* Stages start in the order in which the server registered them: a parser only when
\* all parsers before it told to go on; a handler only when all handlers before it left
\* the request to others, and a parser stopped the parsing or all of them told to go on
\* (run_parser, on_parsed, run_handler).
StagesStartInOrder ==
    /\ \A p \in Parsers \cap entered :
         \A q \in Parsers : q < p => "continue" \in verdicts[q]
    /\ \A h \in Handlers \cap entered :
         /\ \A g \in Handlers : g < h => "passed" \in verdicts[g]
         /\ \/ \E p \in Parsers : "stop" \in verdicts[p]
            \/ \A p \in Parsers : "continue" \in verdicts[p]

\* The code that the promise gives and that the log reports is the one the client got,
\* as long as only the strand runs the request and stages leave sending to the pipeline
\* (on_finished reads the status before it sends).
PromiseMatchesResponse ==
    [](\A w \in Workers : pc[w] = "idle") => [](promise # NoCode => promise = wire)

\* "Returns 404 for unhandled requests" (tests/request_pipe/driver.cpp:99): when every
\* stage passed and nothing was thrown, the promise gives 404.
ReturnsNotFound ==
    promise # NoCode /\ HandlersEnd - 1 \in entered /\ ~handled => promise = NotFound

\* The pipeline is a correct exchange: the first Send is Undertake, Write is Answer,
\* Resolve is Fulfil and the release of the last reference is Release.
Exchanged == INSTANCE Exchange WITH
    undertaken <- sent, answer <- wire, promise <- promise, released <- (ctx = "destroyed")
ImplementsExchange == Exchanged!Spec

\* Every request ends: it is answered and the context is destroyed, unless an exception
\* terminated the process, whether or not the stages answer and however they throw.
EveryRequestEnds == <>(ctx = "terminated" \/ (ctx = "destroyed" /\ flushed))
=============================================================================
