----------------------- MODULE ServerLifecycleProperties -----------------------
(***************************************************************************)
(* What the end of a server's life guarantees.                             *)
(***************************************************************************)
EXTENDS ServerLifecycle

\* The types of what application code may reach.
CallsTypeOK ==
    /\ running \in BOOLEAN /\ sealed \in BOOLEAN /\ catchers \in 0 .. MaxCatchers + 1
    /\ environment \in Environments /\ begun \in BOOLEAN
    /\ inside \in [{Main} \cup Pool -> {"none", "set_environment", "restart"}]

\* The types of the state of Server, Listener and the pool of threads.
TypeOK ==
    /\ main \in {"listen", "arm", "spawn", "run", "join", "failed", "exit", "exec", "exec_failed", "terminated"}
    /\ thread \in [Pool -> {"none", "running", "returned", "joined", "gone"}]
    /\ work \in [{Main} \cup Pool -> Jobs \cup {Nothing}]
    /\ stopped \in BOOLEAN /\ marked \in BOOLEAN /\ acceptor \in BOOLEAN /\ accept \in BOOLEAN
    /\ signal \in [Signals -> {"unset", "waiting", "raised", "handled"}]
    /\ request \in [Requests -> 0 .. Unconnected]
    /\ CallsTypeOK

\* When launch returns or replaces the process, no thread runs a handler any more: none is cut by the exit of the
\* process or by execvp, and none uses what is destroyed with it.
EndsAlone == Ended => \A t \in {Main} \cup Pool : work[t] = Nothing

\* Once Server::restart was entered, by the handler of SIGUSR2 or by an application, launch
\* restarts, even if a stop came first and the main thread had already left its loop: it reads
\* the mark after the last handler. It restarts for no other reason. A SIGUSR2 whose handler
\* had not begun when a stop ended the loop is lost, and does not count.
RestartHonoured == (main = "exit" => ~begun) /\ (main = "exec" => begun)

\* The list of exception catchers, which threads read without a lock (exception_catcher.cpp:54),
\* does not change once a thread is in the loop.
CatchersSealed == [][(\E t \in {Main} \cup Pool : InLoop(t)) => UNCHANGED catchers]_vars

\* The environment does not change while the server is running.
EnvironmentIsStable == [][running => UNCHANGED environment]_vars

\* While the server runs, it waits for a connection or is accepting one, also after an accept
\* that failed: on_accept waits for the next one unless it throws, which ends the process.
KeepsAccepting ==
    main = "run" /\ ~stopped => accept \/ \E t \in {Main} \cup Pool : work[t] = "accept"

\* A signal that is raised ends the process, unless something else does before.
SignalEndsServer == \A s \in Signals : signal[s] = "raised" ~> (Ended \/ main = "terminated")

\* A server that ends has served the requests it accepted.
RequestsEnd == Ended => \A r \in Requests : request[r] \in {0, Unconnected}
=============================================================================
