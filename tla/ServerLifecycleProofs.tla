------------------------ MODULE ServerLifecycleProofs ------------------------
(***************************************************************************)
(* The end of a server's life, for any pool, any requests and any number   *)
(* of handlers that they take.                                             *)
(***************************************************************************)
EXTENDS ServerLifecycleProperties, TLAPS

Threads == {Main} \cup Pool

\* A request that a thread works on still takes handlers, and nobody else works on it.
StrandInv ==
    \A t \in Threads :
        work[t] \in Requests =>
            /\ request[work[t]] \in 1 .. Steps
            /\ \A u \in Threads : u # t => work[u] # work[t]

\* Once a thread may run handlers, the exception catcher is sealed.
SealInv ==
    /\ main \in {"listen", "arm"} => ~sealed
    /\ main \notin {"listen", "arm", "failed", "terminated"} => sealed
    /\ ~sealed => catchers <= MaxCatchers

\* The jobs differ from each other and from Nothing.
LEMMA JobsDiffer ==
    /\ Nothing \notin Requests /\ Nothing # "accept" /\ Nothing # "stop" /\ Nothing # "restart"
    /\ "stop" \notin Requests /\ "restart" \notin Requests /\ "accept" \notin Requests
BY WorkAssumption DEF Jobs, Signals

LEMMA Bounds ==
    /\ Steps \in Nat /\ Unconnected \in Nat
    /\ Unconnected \in 0 .. Unconnected /\ Steps \in 0 .. Unconnected
    /\ Unconnected \notin 1 .. Steps
    /\ \A n \in 1 .. Steps : n - 1 \in 0 .. Unconnected
BY WorkAssumption DEF Unconnected

\* What application code calls leaves everything that the loop relies on alone.
LEMMA CallKeeps ==
    ASSUME NEW t \in Threads, Call(t) \/ Finish(t)
    PROVE  UNCHANGED <<main, thread, work, acceptor, accept, signal, request>>
BY DEF Call, Finish, AddCatcher, CheckEnvironment, AssignEnvironment, CallStop, CallRestart, FinishRestart

\* The catchers, and what else a call reaches, change in these actions only.
LEMMA LaunchedKept ==
    ASSUME [Next]_vars
    PROVE  Arm \/ MainRuns \/ UNCHANGED launched \/ \E t \in Threads : AddCatcher(t)
BY DEF Next, vars, launched, Launch, Handle, Over, Loop, Queue, Call, Finish, Listen, MainReturns, End, Spawn,
       Join, BeginSignal, OnAccept, EndStep, OnRestart, OnStop, BeginAccept, BeginStep, PoolReturns, Raise,
       CheckEnvironment, AssignEnvironment, CallStop, CallRestart, FinishRestart, Terminate, Threads

LEMMA CalledKept ==
    ASSUME [Next]_vars
    PROVE  \/ UNCHANGED called
           \/ \E t \in Threads : Call(t) \/ Finish(t) \/ Terminate(t) \/ \E s \in Signals : BeginSignal(t, s)
BY DEF Next, vars, called, Launch, Handle, Over, Loop, Queue, Listen, Arm, MainRuns, MainReturns, End, Spawn,
       Join, OnAccept, EndStep, OnRestart, OnStop, BeginAccept, BeginStep, PoolReturns, Raise, Threads

LEMMA CallTypes ==
    ASSUME CallsTypeOK, SealInv, [Next]_vars
    PROVE  CallsTypeOK'
<1>1. running' \in BOOLEAN /\ sealed' \in BOOLEAN /\ catchers' \in 0 .. MaxCatchers + 1
  <2>1. CASE Arm
    BY <2>1, WorkAssumption DEF Arm, CallsTypeOK, SealInv
  <2>2. CASE MainRuns
    BY <2>2 DEF MainRuns, CallsTypeOK
  <2>3. CASE UNCHANGED launched
    BY <2>3 DEF launched, CallsTypeOK
  <2>4. CASE \E t \in Threads : AddCatcher(t)
    BY <2>4, WorkAssumption DEF AddCatcher, CallsTypeOK
  <2> QED BY <2>1, <2>2, <2>3, <2>4, LaunchedKept
<1>2. /\ environment' \in Environments /\ begun' \in BOOLEAN
      /\ inside' \in [Threads -> {"none", "set_environment", "restart"}]
  <2>1. CASE UNCHANGED called
    BY <2>1 DEF called, CallsTypeOK, Threads
  <2>2. CASE \E t \in Threads : Call(t) \/ Finish(t)
    <3> PICK t \in Threads : Call(t) \/ Finish(t)
      BY <2>2
    <3>1. CASE AddCatcher(t) \/ CallStop(t)
      BY <3>1 DEF AddCatcher, CallStop, called, CallsTypeOK, Threads
    <3>2. CASE CheckEnvironment(t) \/ CallRestart(t) \/ AssignEnvironment(t) \/ FinishRestart(t)
      BY <3>2 DEF CheckEnvironment, CallRestart, AssignEnvironment, FinishRestart, CallsTypeOK, Threads
    <3> QED BY <3>1, <3>2 DEF Call, Finish
  <2>3. CASE \E t \in Threads, s \in Signals : BeginSignal(t, s)
    BY <2>3 DEF BeginSignal, CallsTypeOK, Threads
  <2>4. CASE \E t \in Threads : Terminate(t)
    BY <2>4 DEF Terminate, CallsTypeOK, Threads
  <2> QED BY <2>1, <2>2, <2>3, <2>4, CalledKept
<1> QED BY <1>1, <1>2 DEF CallsTypeOK, Threads

\* Only these actions change where Server::launch is.
LEMMA MainKept ==
    ASSUME [Next]_vars
    PROVE  Listen \/ Arm \/ MainRuns \/ MainReturns \/ End \/ main' \in {main, "terminated"}
BY CallKeeps DEF Next, vars, Launch, Handle, Over, Loop, Queue, Spawn, Join, BeginSignal, OnAccept, EndStep,
   OnRestart, OnStop, BeginAccept, BeginStep, PoolReturns, Raise, Terminate, Threads

LEMMA SealStep ==
    ASSUME CallsTypeOK, SealInv, [Next]_vars
    PROVE  SealInv'
<1>1. CASE Arm
  BY <1>1 DEF Arm, SealInv
<1>2. CASE MainRuns
  BY <1>2 DEF MainRuns, SealInv
<1>3. CASE \E t \in Threads : AddCatcher(t)
  <2> PICK t \in Threads : AddCatcher(t)
    BY <1>3
  <2>1. catchers < MaxCatchers /\ catchers' = catchers + 1 /\ UNCHANGED <<main, sealed>>
    BY DEF AddCatcher
  <2> QED BY <2>1, WorkAssumption DEF SealInv, CallsTypeOK
<1>4. CASE UNCHANGED launched
  <2>1. UNCHANGED <<sealed, catchers>>
    BY <1>4 DEF launched
  <2>2. CASE Listen \/ MainReturns \/ End
    BY <2>1, <2>2 DEF SealInv, Listen, MainReturns, End
  <2>3. CASE main' \in {main, "terminated"}
    BY <2>1, <2>3 DEF SealInv
  <2> QED BY <1>1, <1>2, <2>2, <2>3, MainKept
<1> QED BY <1>1, <1>2, <1>3, <1>4, LaunchedKept

LEMMA TypeInit == Init => TypeOK /\ StrandInv /\ SealInv
<1> SUFFICES ASSUME Init PROVE TypeOK /\ StrandInv /\ SealInv
  OBVIOUS
<1>1. request \in [Requests -> 0 .. Unconnected]
  BY Bounds DEF Init
<1>2. CallsTypeOK /\ SealInv
  <2>1. catchers \in 0 .. MaxCatchers + 1 /\ (~sealed => catchers <= MaxCatchers)
    BY WorkAssumption DEF Init
  <2>2. inside \in [Threads -> {"none", "set_environment", "restart"}]
    BY DEF Init, Threads
  <2> QED BY <2>1, <2>2, EnvironmentAssumption DEF Init, CallsTypeOK, SealInv, Threads
<1>3. TypeOK
  BY <1>1, <1>2 DEF Init, TypeOK, Signals
<1>4. StrandInv
  BY JobsDiffer DEF Init, StrandInv, Threads
<1> QED BY <1>2, <1>3, <1>4

LEMMA TypeStep == TypeOK /\ StrandInv /\ SealInv /\ [Next]_vars => TypeOK'
<1> SUFFICES ASSUME TypeOK, StrandInv, SealInv, [Next]_vars PROVE TypeOK'
  OBVIOUS
<1>0. CallsTypeOK'
  BY CallTypes DEF TypeOK
<1> USE <1>0 DEF TypeOK, Threads
<1>1. CASE Launch
  BY <1>1 DEF Launch, Listen, Arm, MainRuns, MainReturns, End, Spawn, Join
<1>2. CASE Handle
  BY <1>2 DEF Handle, BeginSignal, Begin, Jobs
<1>3. CASE \E t \in Threads : Loop(t)
  <2> PICK t \in Threads : Loop(t)
    BY <1>3
  <2>1. CASE OnAccept(t)
    <3>1. request' \in [Requests -> 0 .. Unconnected]
      BY <2>1, Bounds DEF OnAccept
    <3> QED BY <2>1, <3>1 DEF OnAccept, Done
  <2>2. CASE EndStep(t)
    <3>1. request[work[t]] - 1 \in 0 .. Unconnected
      BY <2>2, Bounds DEF EndStep, StrandInv
    <3> QED BY <2>2, <3>1 DEF EndStep, Done
  <2>3. CASE OnRestart(t)
    BY <2>3 DEF OnRestart, Jobs, Signals
  <2>4. CASE OnStop(t)
    BY <2>4 DEF OnStop, Done
  <2> QED BY <2>1, <2>2, <2>3, <2>4 DEF Loop
<1>4. CASE \E t \in Threads : Queue(t)
  <2>1. ASSUME NEW t \in Threads, BeginAccept(t) PROVE TypeOK'
    BY <2>1 DEF BeginAccept, Begin, Jobs
  <2>2. ASSUME NEW t \in Threads, NEW r \in Requests, BeginStep(t, r) PROVE TypeOK'
    BY <2>2 DEF BeginStep, Begin, Jobs
  <2> QED BY <1>4, <2>1, <2>2 DEF Queue
<1>5. CASE \E t \in Pool : PoolReturns(t)
  BY <1>5 DEF PoolReturns
<1>6. CASE \E s \in Signals : Raise(s)
  BY <1>6 DEF Raise
<1>7. CASE UNCHANGED vars
  BY <1>7 DEF vars
<1>8. CASE \E t \in Threads : Call(t) \/ Finish(t)
  <2>1. UNCHANGED <<main, thread, work, acceptor, accept, signal, request>>
    BY <1>8, CallKeeps
  <2>2. stopped' \in BOOLEAN /\ marked' \in BOOLEAN
    BY <1>8 DEF Call, Finish, AddCatcher, CheckEnvironment, AssignEnvironment, CallStop, CallRestart, FinishRestart
  <2> QED BY <2>1, <2>2
<1>9. CASE \E t \in Threads : Terminate(t)
  BY <1>9 DEF Terminate
<1> QED BY <1>1, <1>2, <1>3, <1>4, <1>5, <1>6, <1>7, <1>8, <1>9 DEF Next, Over

\* A step that begins or ends no handler of a request preserves StrandInv if it leaves the requests
\* that are worked on alone.
LEMMA StrandKept ==
    ASSUME TypeOK, StrandInv,
           \A t \in Threads : work'[t] = work[t] \/ work'[t] \notin Requests,
           \A t \in Threads : work[t] \in Requests => request'[work[t]] = request[work[t]]
    PROVE  StrandInv'
BY DEF StrandInv, TypeOK

LEMMA StrandStep == TypeOK /\ StrandInv /\ [Next]_vars => StrandInv'
<1> SUFFICES ASSUME TypeOK, StrandInv, [Next]_vars PROVE StrandInv'
  OBVIOUS
<1> USE DEF TypeOK, Threads
<1>1. CASE Launch
  BY <1>1, StrandKept DEF Launch, Listen, Arm, MainRuns, MainReturns, End, Spawn, Join
<1>2. CASE Handle
  BY <1>2, StrandKept, JobsDiffer DEF Handle, BeginSignal, Begin, Signals
<1>3. CASE \E t \in Threads : Loop(t)
  <2> PICK t \in Threads : Loop(t)
    BY <1>3
  <2>1. CASE OnAccept(t)
    <3>1. \A u \in Threads : work[u] \in Requests => request'[work[u]] = request[work[u]]
      BY <2>1, Bounds DEF OnAccept, StrandInv
    <3> QED BY <2>1, <3>1, StrandKept, JobsDiffer DEF OnAccept, Done
  <2>2. CASE EndStep(t)
    <3>1. \A u \in Threads : u # t => work'[u] = work[u] /\ work[u] # work[t]
      BY <2>2 DEF EndStep, Done, StrandInv
    <3>2. work'[t] = Nothing
      BY <2>2 DEF EndStep, Done
    <3>3. \A r \in Requests : r # work[t] => request'[r] = request[r]
      BY <2>2 DEF EndStep
    <3> QED BY <3>1, <3>2, <3>3, JobsDiffer DEF StrandInv
  <2>3. CASE OnRestart(t)
    BY <2>3, StrandKept, JobsDiffer DEF OnRestart
  <2>4. CASE OnStop(t)
    BY <2>4, StrandKept, JobsDiffer DEF OnStop, Done
  <2> QED BY <2>1, <2>2, <2>3, <2>4 DEF Loop
<1>4. CASE \E t \in Threads : Queue(t)
  <2> PICK t \in Threads : Queue(t)
    BY <1>4
  <2>1. CASE BeginAccept(t)
    BY <2>1, StrandKept, JobsDiffer DEF BeginAccept, Begin
  <2>2. CASE \E r \in Requests : BeginStep(t, r)
    <3> PICK r \in Requests : BeginStep(t, r)
      BY <2>2
    <3>1. request' = request /\ request[r] \in 1 .. Steps /\ \A u \in Threads : work[u] # r
      BY DEF BeginStep
    <3>2. work'[t] = r /\ \A u \in Threads : u # t => work'[u] = work[u]
      BY DEF BeginStep, Begin
    <3> QED BY <3>1, <3>2 DEF StrandInv
  <2> QED BY <2>1, <2>2 DEF Queue
<1>5. CASE \E t \in Pool : PoolReturns(t)
  BY <1>5, StrandKept DEF PoolReturns
<1>6. CASE \E s \in Signals : Raise(s)
  BY <1>6, StrandKept DEF Raise
<1>7. CASE UNCHANGED vars
  BY <1>7, StrandKept DEF vars
<1>8. CASE \E t \in Threads : Call(t) \/ Finish(t)
  BY <1>8, CallKeeps, StrandKept
<1>9. CASE \E t \in Threads : Terminate(t)
  BY <1>9, StrandKept, JobsDiffer DEF Terminate
<1> QED BY <1>1, <1>2, <1>3, <1>4, <1>5, <1>6, <1>7, <1>8, <1>9 DEF Next, Over

LEMMA TypesAndStrands == Spec => [](TypeOK /\ StrandInv /\ SealInv)
<1>1. TypeOK /\ SealInv /\ [Next]_vars => SealInv'
  BY SealStep DEF TypeOK
<1> QED BY <1>1, TypeInit, TypeStep, StrandStep, PTL DEF Spec

\* The variables keep their types; that the handlers of a request do not exceed those it
\* takes needs that they run one at a time.
THEOREM TypeCorrect == Spec => []TypeOK
BY TypesAndStrands, PTL

-----------------------------------------------------------------------------
\* Where main and the threads are when no handler may run.
EndInv ==
    /\ main \in {"listen", "arm", "failed"} => \A t \in Pool : thread[t] = "none"
    /\ main \in {"exit", "exec", "exec_failed"} => \A t \in Pool : thread[t] = "joined"
    /\ main = "terminated" => \A t \in Pool : thread[t] = "gone"
    /\ main # "run" => work[Main] = Nothing
    /\ \A t \in Pool : thread[t] # "running" => work[t] = Nothing

\* Handlers run in the loop only.
LEMMA LoopInv ==
    ASSUME TypeOK, EndInv, NEW t \in Threads, work[t] # Nothing
    PROVE  InLoop(t)
BY DEF EndInv, InLoop, Threads

LEMMA EndEndsAlone == EndInv => EndsAlone
BY DEF EndInv, EndsAlone, Ended

\* Steps that leave main and the threads alone, and give work in the loop only.
LEMMA EndKept ==
    ASSUME TypeOK, EndInv, UNCHANGED <<main, thread>>,
           \A t \in Threads : work'[t] \in {work[t], Nothing} \/ InLoop(t)
    PROVE  EndInv'
<1> USE PoolAssumption DEF EndInv, InLoop, Threads
<1>1. main # "run" => work'[Main] = Nothing
  OBVIOUS
<1>2. \A t \in Pool : thread[t] # "running" => work'[t] = Nothing
  OBVIOUS
<1> QED BY <1>1, <1>2

LEMMA EndStepInv == TypeOK /\ EndInv /\ [Next]_vars => EndInv'
<1> SUFFICES ASSUME TypeOK, EndInv, [Next]_vars PROVE EndInv'
  OBVIOUS
<1>1. CASE Launch
  <2>1. CASE Listen \/ Arm \/ MainRuns \/ MainReturns \/ End
    BY <2>1 DEF EndInv, Listen, Arm, MainRuns, MainReturns, End
  <2>2. CASE \E t \in Pool : Spawn(t) \/ Join(t)
    BY <2>2 DEF EndInv, Spawn, Join, TypeOK
  <2> QED BY <1>1, <2>1, <2>2 DEF Launch
<1>2. CASE Handle
  BY <1>2, EndKept DEF Handle, BeginSignal, Begin, TypeOK, Threads
<1>3. CASE \E t \in Threads : Loop(t)
  <2> PICK t \in Threads : Loop(t)
    BY <1>3
  <2>1. work[t] # Nothing
    BY JobsDiffer DEF Loop, OnAccept, EndStep, OnRestart, OnStop
  <2>2. InLoop(t)
    BY <2>1, LoopInv
  <2>3. UNCHANGED <<main, thread>> /\ \A u \in Threads : u # t => work'[u] = work[u]
    BY DEF Loop, OnAccept, EndStep, OnRestart, OnStop, Done, TypeOK, Threads
  <2> QED BY <2>2, <2>3, EndKept
<1>4. CASE \E t \in Threads : Queue(t)
  BY <1>4, EndKept DEF Queue, BeginAccept, BeginStep, Begin, TypeOK, Threads
<1>5. CASE \E t \in Pool : PoolReturns(t)
  BY <1>5 DEF PoolReturns, EndInv, TypeOK
<1>6. CASE \E s \in Signals : Raise(s)
  BY <1>6, EndKept DEF Raise
<1>7. CASE UNCHANGED vars
  BY <1>7, EndKept DEF vars
<1>8. CASE \E t \in Threads : Call(t) \/ Finish(t)
  BY <1>8, CallKeeps, EndKept
<1>9. CASE \E t \in Threads : Terminate(t)
  BY <1>9 DEF Terminate, EndInv, TypeOK, Threads
<1> QED BY <1>1, <1>2, <1>3, <1>4, <1>5, <1>6, <1>7, <1>8, <1>9 DEF Next, Over, Threads

LEMMA EndAlways == Spec => []EndInv
<1>1. Init => EndInv
  BY DEF Init, EndInv
<1> QED BY <1>1, EndStepInv, TypeCorrect, PTL DEF Spec

\* When Server::launch ends (server.cpp:113), no thread runs a handler, however large the pool:
\* the main thread left the loop between two handlers, and the others were joined.
THEOREM LaunchEndsAlone == Spec => []EndsAlone
BY EndAlways, EndEndsAlone, PTL

-----------------------------------------------------------------------------
\* A restart was begun exactly if it is marked, or about to be.
MarkInv ==
    /\ marked => begun
    /\ \A t \in Threads : work[t] = "restart" => begun
    /\ begun => marked \/ main = "terminated" \/ \E t \in Threads : work[t] = "restart"
    /\ main = "exit" => ~marked
    /\ main = "exec" => marked

\* Steps that neither ask nor mark, and begin or end no handler of a restart.
LEMMA MarkKept ==
    ASSUME MarkInv, UNCHANGED <<main, marked, begun>>,
           \A t \in Threads : work[t] = "restart" <=> work'[t] = "restart"
    PROVE  MarkInv'
BY DEF MarkInv

LEMMA MarkStep == TypeOK /\ EndInv /\ MarkInv /\ [Next]_vars => MarkInv'
<1> SUFFICES ASSUME TypeOK, EndInv, MarkInv, [Next]_vars PROVE MarkInv'
  OBVIOUS
<1>1. CASE Launch
  <2>1. UNCHANGED <<marked, begun, work>>
    BY <1>1 DEF Launch, Listen, Arm, MainRuns, MainReturns, End, Spawn, Join, called
  <2>2. (main' = "exit" => main = "exit" \/ ~marked) /\ (main' = "exec" => main = "exec" \/ marked)
    BY <1>1 DEF Launch, Listen, Arm, MainRuns, MainReturns, End, Spawn, Join
  <2>3. main # "terminated"
    BY <1>1 DEF Launch, Listen, Arm, MainRuns, MainReturns, End, Spawn, Join
  <2> QED BY <2>1, <2>2, <2>3 DEF MarkInv
<1>2. CASE Handle
  <2> PICK t \in Threads, s \in Signals : BeginSignal(t, s)
    BY <1>2 DEF Handle, Threads
  <2>1. /\ UNCHANGED <<main, marked>> /\ begun' = (begun \/ s = "restart")
        /\ work[t] = Nothing /\ work'[t] = s
        /\ \A u \in Threads : u # t => work'[u] = work[u]
    BY DEF BeginSignal, Begin, TypeOK, Threads
  <2>2. CASE s = "restart"
    BY <2>1, <2>2 DEF MarkInv
  <2>3. CASE s = "stop"
    <3>1. begun' = begun
      BY <2>1, <2>3 DEF TypeOK, CallsTypeOK
    <3>2. work'[t] # "restart" /\ work[t] # "restart"
      BY <2>1, <2>3, JobsDiffer
    <3> QED BY <2>1, <3>1, <3>2, MarkKept
  <2> QED BY <2>2, <2>3 DEF Signals
<1>3. CASE \E t \in Threads : Loop(t)
  <2> PICK t \in Threads : Loop(t)
    BY <1>3
  <2>1. work[t] # Nothing /\ InLoop(t)
    BY JobsDiffer, LoopInv DEF Loop, OnAccept, EndStep, OnRestart, OnStop
  <2>2. main \notin {"exit", "exec"} /\ UNCHANGED <<main, begun>>
    BY <2>1 DEF InLoop, EndInv, Loop, OnAccept, EndStep, OnRestart, OnStop, Threads, called
  <2>3. CASE OnRestart(t)
    BY <2>2, <2>3 DEF OnRestart, MarkInv, TypeOK, Threads
  <2>4. CASE OnAccept(t) \/ EndStep(t) \/ OnStop(t)
    <3>1. marked' = marked /\ work[t] # "restart" /\ work'[t] = Nothing
      BY <2>4, JobsDiffer DEF OnAccept, EndStep, OnStop, Done, TypeOK, Threads
    <3>2. \A u \in Threads : u # t => work'[u] = work[u]
      BY <2>4 DEF OnAccept, EndStep, OnStop, Done, TypeOK, Threads
    <3> QED BY <2>2, <3>1, <3>2, JobsDiffer, MarkKept
  <2> QED BY <2>3, <2>4 DEF Loop
<1>4. CASE \E t \in Threads : Queue(t)
  <2> PICK t \in Threads : Queue(t)
    BY <1>4
  <2>1. UNCHANGED <<main, marked, begun>> /\ work[t] = Nothing /\ work'[t] # "restart"
    BY JobsDiffer DEF Queue, BeginAccept, BeginStep, Begin, TypeOK, Threads, called
  <2>2. \A u \in Threads : u # t => work'[u] = work[u]
    BY DEF Queue, BeginAccept, BeginStep, Begin, TypeOK, Threads
  <2> QED BY <2>1, <2>2, JobsDiffer, MarkKept
<1>5. CASE \E t \in Pool : PoolReturns(t)
  BY <1>5, MarkKept DEF PoolReturns, called
<1>6. CASE \E s \in Signals : Raise(s)
  BY <1>6, MarkKept DEF Raise, called
<1>7. CASE UNCHANGED vars
  BY <1>7, MarkKept DEF vars, called
<1>8. CASE \E t \in Threads : Call(t) \/ Finish(t)
  <2> PICK t \in Threads : Call(t) \/ Finish(t)
    BY <1>8
  <2>1. UNCHANGED <<main, work>>
    BY CallKeeps
  <2>2. CASE CallRestart(t)
    <3>1. InLoop(t)
      BY <2>2, JobsDiffer, LoopInv DEF CallRestart
    <3>2. main \notin {"exit", "exec"}
      BY <3>1 DEF InLoop, EndInv, Threads
    <3>3. marked' /\ begun'
      BY <2>2 DEF CallRestart
    <3> QED BY <2>1, <3>2, <3>3 DEF MarkInv
  <2>3. CASE ~CallRestart(t)
    <3>1. UNCHANGED <<marked, begun>>
      BY <2>3 DEF Call, Finish, AddCatcher, CheckEnvironment, AssignEnvironment, CallStop, FinishRestart, called
    <3> QED BY <2>1, <3>1, MarkKept
  <2> QED BY <2>2, <2>3
<1>9. CASE \E t \in Threads : Terminate(t)
  BY <1>9, JobsDiffer DEF Terminate, MarkInv, TypeOK, Threads
<1> QED BY <1>1, <1>2, <1>3, <1>4, <1>5, <1>6, <1>7, <1>8, <1>9 DEF Next, Over, Threads

LEMMA MarkAlways == Spec => []MarkInv
<1>1. Init => MarkInv
  BY JobsDiffer DEF Init, MarkInv, Signals, Threads
<1> QED BY <1>1, MarkStep, TypeCorrect, EndAlways, PTL DEF Spec

\* Once Server::restart was entered, launch restarts if it ends, and it does not otherwise: it reads
\* the mark (server.cpp:113) after every thread was joined, so that nobody is still about to set it.
THEOREM RestartsHonoured == Spec => []RestartHonoured
<1>1. EndInv /\ MarkInv => RestartHonoured
  <2> SUFFICES ASSUME EndInv, MarkInv PROVE RestartHonoured
    OBVIOUS
  <2>1. main = "exit" => \A t \in Threads : work[t] # "restart"
    BY EndEndsAlone, JobsDiffer DEF EndsAlone, Ended, Threads
  <2> QED BY <2>1 DEF MarkInv, RestartHonoured
<1> QED BY <1>1, EndAlways, MarkAlways, PTL

-----------------------------------------------------------------------------
\* The acceptor is open while the server runs, and somebody waits for a connection or accepts one.
AcceptInv ==
    /\ main \in {"arm", "spawn", "run"} => acceptor
    /\ main \in {"spawn", "run"} => accept \/ \E t \in Threads : work[t] = "accept"

LEMMA AcceptStep == TypeOK /\ AcceptInv /\ [Next]_vars => AcceptInv'
<1> SUFFICES ASSUME TypeOK, AcceptInv, [Next]_vars PROVE AcceptInv'
  OBVIOUS
<1>1. CASE Launch
  BY <1>1 DEF AcceptInv, Launch, Listen, Arm, MainRuns, MainReturns, End, Spawn, Join
<1>2. CASE Handle \/ \E t \in Threads : Queue(t)
  <2> PICK t \in Threads : Queue(t) \/ \E s \in Signals : BeginSignal(t, s)
    BY <1>2 DEF Handle, Threads
  <2>1. /\ UNCHANGED <<main, acceptor>> /\ work[t] = Nothing
        /\ accept' = accept \/ work'[t] = "accept"
    BY DEF Queue, BeginAccept, BeginStep, BeginSignal, Begin, TypeOK, Threads
  <2>2. \A u \in Threads : u # t => work'[u] = work[u]
    BY DEF Queue, BeginAccept, BeginStep, BeginSignal, Begin, TypeOK, Threads
  <2> QED BY <2>1, <2>2, JobsDiffer DEF AcceptInv
<1>3. CASE \E t \in Threads : Loop(t)
  <2> PICK t \in Threads : Loop(t)
    BY <1>3
  <2>1. CASE OnAccept(t)
    BY <2>1 DEF AcceptInv, OnAccept
  <2>2. CASE EndStep(t) \/ OnRestart(t) \/ OnStop(t)
    <3>1. work[t] # "accept" /\ UNCHANGED <<main, acceptor, accept>>
      BY <2>2, JobsDiffer DEF EndStep, OnRestart, OnStop
    <3>2. \A u \in Threads : u # t => work'[u] = work[u]
      BY <2>2 DEF EndStep, OnRestart, OnStop, Done, TypeOK, Threads
    <3> QED BY <3>1, <3>2 DEF AcceptInv
  <2> QED BY <2>1, <2>2 DEF Loop
<1>4. CASE \E t \in Pool : PoolReturns(t)
  BY <1>4 DEF PoolReturns, AcceptInv
<1>5. CASE \E s \in Signals : Raise(s)
  BY <1>5 DEF Raise, AcceptInv
<1>6. CASE UNCHANGED vars
  BY <1>6 DEF vars, AcceptInv
<1>7. CASE \E t \in Threads : Call(t) \/ Finish(t)
  BY <1>7, CallKeeps DEF AcceptInv
<1>8. CASE \E t \in Threads : Terminate(t)
  BY <1>8 DEF AcceptInv, Terminate
<1> QED BY <1>1, <1>2, <1>3, <1>4, <1>5, <1>6, <1>7, <1>8 DEF Next, Over, Threads

\* A running server never stops to accept connections, also after an accept that failed
\* (server/listener.cpp:57); the exception of a connection that cannot be made (server/listener.cpp:53)
\* leaves no server that runs without accepting, it ends the process.
THEOREM AcceptsForEver == Spec => []KeepsAccepting
<1>1. Init => AcceptInv
  BY DEF Init, AcceptInv
<1>2. AcceptInv => KeepsAccepting
  BY DEF AcceptInv, KeepsAccepting, Threads
<1> QED BY <1>1, <1>2, AcceptStep, TypeCorrect, PTL DEF Spec

-----------------------------------------------------------------------------
\* Threads read the list of exception catchers without a lock (exception_catcher.cpp:54), and may:
\* launch seals it (server.cpp:98) before the first of them can be in the loop.
THEOREM CatchersStay == Spec => CatchersSealed
<1>1. TypeOK /\ EndInv /\ SealInv /\ [Next]_vars => [(\E t \in Threads : InLoop(t)) => UNCHANGED catchers]_vars
  <2> SUFFICES ASSUME TypeOK, EndInv, SealInv, [Next]_vars, NEW t \in Threads, InLoop(t)
               PROVE  UNCHANGED catchers
    OBVIOUS
  <2>1. main \notin {"listen", "arm", "failed", "terminated"}
    BY DEF EndInv, InLoop, Threads
  <2>2. sealed
    BY <2>1 DEF SealInv
  <2> QED BY <2>1, <2>2, LaunchedKept DEF Arm, MainRuns, AddCatcher, launched
<1> QED BY <1>1, TypesAndStrands, EndAlways, PTL DEF Spec, CatchersSealed, Threads
=============================================================================
