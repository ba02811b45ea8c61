---------------------------- MODULE ServerLifecycle ----------------------------
(***************************************************************************)
(* The life of a server process: Server::launch with its pool of threads,  *)
(* the listener (server/listener.cpp), the signals that stop or restart    *)
(* the server, and the requests that are under way meanwhile, whose        *)
(* handlers may call the server's functions.                               *)
(*                                                                         *)
(* The threads of the pool, and the main thread once the pool is started,  *)
(* run the handlers of one io_context.  A handler that has started goes on *)
(* when the io_context is stopped; one that has not never starts.          *)
(***************************************************************************)
EXTENDS Naturals

CONSTANTS
    Main,           \* the thread that called Server::launch
    Pool,           \* the other threads of the pool: thread_count - 1 of them
    Requests,       \* requests that clients may send
    Steps,          \* bound: handlers that a request takes
    MaxCatchers,    \* bound: exception catchers that the application adds
    Environments,   \* the values of Crails::environment
    Nothing         \* what a thread between two handlers works on

Signals == {"stop", "restart"}
Jobs    == Requests \cup Signals \cup {"accept"}

ASSUME PoolAssumption == Main \notin Pool
ASSUME EnvironmentAssumption == "Production" \in Environments
ASSUME WorkAssumption ==
    Steps \in Nat \ {0} /\ MaxCatchers \in Nat /\ Nothing \notin Jobs /\ Requests \cap (Signals \cup {"accept"}) = {}

VARIABLES
    main,       \* where Server::launch is
    thread,     \* per thread of the pool: none, running, returned, joined or gone
    work,       \* per thread, the handler it runs
    stopped,    \* whether the io_context was stopped
    marked,     \* Server::marked_for_restart
    acceptor,   \* whether the acceptor is open
    accept,     \* whether async_accept is pending
    signal,     \* per signal set: unset, waiting, raised or handled
    request,    \* per request: the handlers it still takes, Unconnected at first
    running,    \* Server::running
    sealed,     \* ExceptionCatcher::sealed
    catchers,   \* how many handlers the exception catcher has
    environment,\* Crails::environment
    inside,     \* per thread, the function of Server that a handler is in the middle of
    begun       \* history: whether Server::restart was entered

launched == <<running, sealed, catchers>>
called   == <<environment, inside, begun>>
vars     == <<main, thread, work, stopped, marked, acceptor, accept, signal, request, launched, called>>

Unconnected == Steps + 1

Init ==
    /\ main = "listen"
    /\ thread = [t \in Pool |-> "none"]
    /\ work = [t \in {Main} \cup Pool |-> Nothing]
    /\ stopped = FALSE /\ marked = FALSE
    /\ acceptor = FALSE /\ accept = FALSE
    /\ signal = [s \in Signals |-> "unset"]
    /\ request = [r \in Requests |-> Unconnected]
    /\ running = FALSE /\ sealed = FALSE /\ catchers = 0
    /\ environment = "Production"
    /\ inside = [t \in {Main} \cup Pool |-> "none"] /\ begun = FALSE

-----------------------------------------------------------------------------
\* Server::launch. Listening may fail, with an error or, in bind, with an exception.
Listen ==
    /\ main = "listen" /\ inside[Main] = "none"
    /\ \E ok \in BOOLEAN :
        /\ main' = IF ok THEN "arm" ELSE "failed"
        /\ acceptor' = ok
    /\ UNCHANGED <<thread, work, stopped, marked, accept, signal, request, launched, called>>

\* Mutant: the exception catcher is not sealed.
ArmUnsealed ==
    /\ main = "arm"
    /\ main' = "spawn"
    /\ accept' = TRUE
    /\ catchers' = catchers + 1
    /\ signal' = [s \in Signals |-> "waiting"]
    /\ UNCHANGED <<thread, work, stopped, marked, acceptor, request, running, sealed, called>>

\* Listener::run, initialize_exception_catcher, then async_wait on both signal sets.
Arm ==
    /\ main = "arm"
    /\ main' = "spawn"
    /\ accept' = TRUE
    /\ catchers' = catchers + 1 /\ sealed' = TRUE
    /\ signal' = [s \in Signals |-> "waiting"]
    /\ UNCHANGED <<thread, work, stopped, marked, acceptor, request, running, called>>

Spawn(t) ==
    /\ main = "spawn" /\ thread[t] = "none"
    /\ thread' = [thread EXCEPT ![t] = "running"]
    /\ UNCHANGED <<main, work, stopped, marked, acceptor, accept, signal, request, launched, called>>

MainRuns ==
    /\ main = "spawn" /\ \A t \in Pool : thread[t] # "none"
    /\ main' = "run"
    /\ running' = TRUE
    /\ UNCHANGED <<thread, work, stopped, marked, acceptor, accept, signal, request, sealed, catchers, called>>

\* io_context::run returns in the main thread, whose Listener::stop follows at once,
\* whatever the threads of the pool do.
MainReturns ==
    /\ main = "run" /\ stopped /\ work[Main] = Nothing
    /\ main' = "join"
    /\ acceptor' = FALSE /\ accept' = FALSE
    /\ UNCHANGED <<thread, work, stopped, marked, signal, request, launched, called>>

\* Mutant: threads are detached.
JoinRunning(t) ==
    /\ main = "join" /\ thread[t] \in {"running", "returned"}
    /\ thread' = [thread EXCEPT ![t] = "joined"]
    /\ UNCHANGED <<main, work, stopped, marked, acceptor, accept, signal, request, launched, called>>

Join(t) ==
    /\ main = "join" /\ thread[t] = "returned"
    /\ thread' = [thread EXCEPT ![t] = "joined"]
    /\ UNCHANGED <<main, work, stopped, marked, acceptor, accept, signal, request, launched, called>>

\* Mutant: the mark is not read.
EndRestarting ==
    /\ main = "join" /\ \A t \in Pool : thread[t] = "joined"
    /\ main' \in {"exec", "exec_failed"}
    /\ UNCHANGED <<thread, work, stopped, marked, acceptor, accept, signal, request, launched, called>>

\* The end of launch: do_restart replaces the process, unless execvp fails.
End ==
    /\ main = "join" /\ \A t \in Pool : thread[t] = "joined"
    /\ \/ ~marked /\ main' = "exit"
       \/ marked /\ main' \in {"exec", "exec_failed"}
    /\ UNCHANGED <<thread, work, stopped, marked, acceptor, accept, signal, request, launched, called>>

-----------------------------------------------------------------------------
\* The threads in io_context::run.
InLoop(t) == IF t = Main THEN main = "run" ELSE thread[t] = "running"

Begin(t, job) ==
    /\ InLoop(t) /\ ~stopped /\ work[t] = Nothing
    /\ work' = [work EXCEPT ![t] = job]

Done(t) == work' = [work EXCEPT ![t] = Nothing]

\* Listener::on_accept makes a connection, then waits for the next one.
BeginAccept(t) ==
    /\ accept
    /\ Begin(t, "accept")
    /\ accept' = FALSE
    /\ UNCHANGED <<main, thread, stopped, marked, acceptor, signal, request, launched, called>>

\* Mutant: the listener does not wait for the next connection.
AcceptOnce(t) ==
    /\ work[t] = "accept"
    /\ \E r \in Requests :
        /\ request[r] = Unconnected
        /\ request' = [request EXCEPT ![r] = Steps]
    /\ Done(t)
    /\ UNCHANGED <<main, thread, stopped, marked, acceptor, accept, signal, launched, called>>

OnAccept(t) ==
    /\ work[t] = "accept"
    /\ \/ \E r \in Requests :
            /\ request[r] = Unconnected
            /\ request' = [request EXCEPT ![r] = Steps]
       \/ UNCHANGED request     \* an error is logged
    /\ accept' = acceptor
    /\ Done(t)
    /\ UNCHANGED <<main, thread, stopped, marked, acceptor, signal, launched, called>>

\* An exception leaves a handler, and with it io_context::run: it ends the process.
\* Connection's constructor throws in on_accept if the client has gone; a listener of a
\* request's body may.
Terminate(t) ==
    /\ work[t] \in Requests \cup {"accept"} /\ inside[t] = "none"
    /\ main' = "terminated"
    /\ thread' = [u \in Pool |-> "gone"]
    /\ work' = [u \in DOMAIN work |-> Nothing]
    /\ inside' = [u \in DOMAIN inside |-> "none"]
    /\ UNCHANGED <<stopped, marked, acceptor, accept, signal, request, launched, environment, begun>>

\* Mutant: a request that is over gets one more handler.
BeginStepTooMany(t, r) ==
    /\ request[r] \in 0 .. Steps
    /\ \A u \in DOMAIN work : work[u] # r
    /\ Begin(t, r)
    /\ UNCHANGED <<main, thread, stopped, marked, acceptor, accept, signal, request, launched, called>>

\* A handler of a connection's strand: a request takes several, one at a time.
BeginStep(t, r) ==
    /\ request[r] \in 1 .. Steps
    /\ \A u \in DOMAIN work : work[u] # r
    /\ Begin(t, r)
    /\ UNCHANGED <<main, thread, stopped, marked, acceptor, accept, signal, request, launched, called>>

EndStep(t) ==
    /\ work[t] \in Requests /\ inside[t] = "none"
    /\ request' = [request EXCEPT ![work[t]] = @ - 1]
    /\ Done(t)
    /\ UNCHANGED <<main, thread, stopped, marked, acceptor, accept, signal, launched, called>>

Ended == main \in {"failed", "exit", "exec", "exec_failed"}

\* The process gets SIGINT or SIGTERM ("stop") or SIGUSR2 ("restart"); each set is
\* waited for once. Its handler is queued, and lost if the io_context is stopped first.
Raise(s) ==
    /\ signal[s] = "waiting" /\ ~Ended /\ main # "terminated"
    /\ signal' = [signal EXCEPT ![s] = "raised"]
    /\ UNCHANGED <<main, thread, work, stopped, marked, acceptor, accept, request, launched, called>>

BeginSignal(t, s) ==
    /\ signal[s] = "raised"
    /\ Begin(t, s)
    /\ signal' = [signal EXCEPT ![s] = "handled"]
    /\ begun' = (begun \/ s = "restart")
    /\ UNCHANGED <<main, thread, stopped, marked, acceptor, accept, request, launched, environment, inside>>

\* Mutant: restart forgets to stop.
RestartOnlyMarks(t) ==
    /\ work[t] = "restart"
    /\ marked' = TRUE
    /\ Done(t)
    /\ UNCHANGED <<main, thread, stopped, acceptor, accept, signal, request, launched, called>>

\* Server::restart, whose second half is stop.
OnRestart(t) ==
    /\ work[t] = "restart"
    /\ marked' = TRUE
    /\ work' = [work EXCEPT ![t] = "stop"]
    /\ UNCHANGED <<main, thread, stopped, acceptor, accept, signal, request, launched, called>>

\* Server::stop
OnStop(t) ==
    /\ work[t] = "stop"
    /\ stopped' = TRUE
    /\ Done(t)
    /\ UNCHANGED <<main, thread, marked, acceptor, accept, signal, request, launched, called>>

PoolReturns(t) ==
    /\ thread[t] = "running" /\ stopped /\ work[t] = Nothing
    /\ thread' = [thread EXCEPT ![t] = "returned"]
    /\ UNCHANGED <<main, work, stopped, marked, acceptor, accept, signal, request, launched, called>>

-----------------------------------------------------------------------------
\* What application code calls, from a handler or before launch. Calls that throw, and calls
\* that change nothing, are left out.
Applies(t) == inside[t] = "none" /\ (work[t] \in Requests \/ (t = Main /\ main = "listen"))

\* ExceptionCatcher::add_exception_catcher
AddCatcher(t) ==
    /\ Applies(t) /\ ~sealed /\ catchers < MaxCatchers
    /\ catchers' = catchers + 1
    /\ UNCHANGED <<main, thread, work, stopped, marked, acceptor, accept, signal, request, running, sealed, called>>

\* Server::set_environment: the test, then the assignment.
CheckEnvironment(t) ==
    /\ Applies(t) /\ ~running
    /\ inside' = [inside EXCEPT ![t] = "set_environment"]
    /\ UNCHANGED <<main, thread, work, stopped, marked, acceptor, accept, signal, request, launched, environment, begun>>

AssignEnvironment(t) ==
    /\ inside[t] = "set_environment"
    /\ environment' \in Environments
    /\ inside' = [inside EXCEPT ![t] = "none"]
    /\ UNCHANGED <<main, thread, work, stopped, marked, acceptor, accept, signal, request, launched, begun>>

\* Server::stop and Server::restart, from a handler of a request.
CallStop(t) ==
    /\ work[t] \in Requests /\ inside[t] = "none"
    /\ stopped' = TRUE
    /\ UNCHANGED <<main, thread, work, marked, acceptor, accept, signal, request, launched, called>>

CallRestart(t) ==
    /\ work[t] \in Requests /\ inside[t] = "none" /\ ~marked
    /\ marked' = TRUE /\ begun' = TRUE
    /\ inside' = [inside EXCEPT ![t] = "restart"]
    /\ UNCHANGED <<main, thread, work, stopped, acceptor, accept, signal, request, launched, environment>>

FinishRestart(t) ==
    /\ inside[t] = "restart"
    /\ stopped' = TRUE
    /\ inside' = [inside EXCEPT ![t] = "none"]
    /\ UNCHANGED <<main, thread, work, marked, acceptor, accept, signal, request, launched, environment, begun>>

-----------------------------------------------------------------------------
Over == (Ended \/ main = "terminated") /\ UNCHANGED vars

Launch   == Listen \/ Arm \/ MainRuns \/ MainReturns \/ End \/ \E t \in Pool : Spawn(t) \/ Join(t)
Loop(t)  == OnAccept(t) \/ EndStep(t) \/ OnRestart(t) \/ OnStop(t)
Queue(t) == BeginAccept(t) \/ \E r \in Requests : BeginStep(t, r)
Call(t)  == AddCatcher(t) \/ CheckEnvironment(t) \/ CallStop(t) \/ CallRestart(t)
Finish(t) == AssignEnvironment(t) \/ FinishRestart(t)
Handle   == \E t \in {Main} \cup Pool, s \in Signals : BeginSignal(t, s)

Next ==
    \/ Launch \/ Handle \/ Over
    \/ \E t \in {Main} \cup Pool : Loop(t) \/ Queue(t) \/ Call(t) \/ Finish(t) \/ Terminate(t)
    \/ \E t \in Pool : PoolReturns(t)
    \/ \E s \in Signals : Raise(s)

Spec == Init /\ [][Next]_vars

\* Threads run and handlers end. The io_context runs its handlers in turn, so that the
\* handler of a signal is not overtaken for ever.
FairSpec ==
    /\ Spec /\ WF_vars(Launch) /\ SF_vars(Handle)
    /\ \A t \in {Main} \cup Pool : WF_vars(Loop(t)) /\ WF_vars(Finish(t))
    /\ \A t \in Pool : WF_vars(PoolReturns(t))
=============================================================================
