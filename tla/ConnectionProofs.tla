---------------------------- MODULE ConnectionProofs ----------------------------
(***************************************************************************)
(* What a connection guarantees to its request, for bodies of any length   *)
(* and any limit of their size.                                            *)
(***************************************************************************)
EXTENDS ConnectionProperties, SequenceTheorems, TLAPS

\* The application is called, by Context::run, or by a listener of the body.
InRun      == pc = "ran" \/ (pc \in {"app", "leave"} /\ back = "ran")
InListener == pc \in {"app", "leave"} /\ back \in {"chunk", "last"}

\* How far the parser is.
PhaseInv ==
    /\ phase = "body0" => left = length /\ length > 0
    /\ phase = "body" => 0 < left /\ left < length
    /\ phase = "complete" => left = 0
    /\ phase \in {"none", "header"} <=> ctx = "none" /\ phase # "body0"
    /\ InRun => left = length /\ phase \in {"body0", "complete"}
    /\ pc \in {"chunk", "read", "last"} \/ InListener => phase \in {"body", "complete"}
    /\ pc = "last" \/ (InListener /\ back = "last") => phase = "complete"

\* What the strand is in, and that it reads only when it is in nothing.
StrandInv ==
    /\ reads <= 1 /\ (pc # "idle" => reads = 0)
    /\ pc \in {"app", "leave"} => back \in {"ran", "chunk", "last"}
    /\ InListener => todo # <<>>
    /\ pc = "start" => phase = "none"
    /\ ctx # "none" /\ pc = "idle" /\ reads = 0 /\ ~failed => phase = "complete"

\* Before the request has a Context nothing happened, but that its header was refused.
NoneInv ==
    ctx = "none" =>
        /\ pc \in {"start", "idle"} /\ worker = "idle" /\ refs = {} /\ ~sent /\ ~missed
        /\ phase \in {"none", "header", "body0"} /\ (reads > 0 => phase = "header")
        /\ pending.state = "none" /\ callback = <<>> /\ todo = <<>>

\* The response is written when the request is answered, or refused.
WrittenInv ==
    /\ writes <= written
    /\ written = (IF sent \/ (ctx = "none" /\ phase = "body0") THEN 1 ELSE 0)

\* Who refers to the Context.
RefsInv ==
    /\ ctx = "live" => refs # {}
    /\ "run" \in refs => pc \in {"app", "leave"} /\ back = "ran"
    /\ "worker" \in refs => worker # "idle"

\* The lists of listeners: a parser's comes first, and get_body's calls it.
Waiting  == <<"wait">>
Getting  == <<"get">>
Both     == <<"wait", "get">>
Waits(l) == l = Waiting \/ l = Both
Gets(l)  == l = Getting \/ l = Both
Lists    == {<<>>, Waiting, Getting, Both}

\* As long as no listener missed a chunk, those that are registered will be called.
Listening ==
    /\ callback \in Lists /\ todo \in Lists
    /\ callback # <<>> => StillReads
    /\ todo # <<>> => pc \in {"chunk", "last"} \/ InListener
    /\ InListener => phase = "complete"

\* The listener of get_body, and the worker that is about to register it.
GetOnTime ==
    /\ "get" \in refs => Gets(callback) \/ pc = "last" \/ (InListener /\ back = "last")
    /\ Gets(callback) =>
        /\ phase # "body0" /\ worker # "get"
        /\ phase = "body" => worker \in {"idle", "leave"}
    /\ copied \in {<<>>, Waiting}
    /\ worker = "get" => phase \in {"body", "complete"} /\ (StillReads => copied = callback)

\* The parser that waits for the body has counted what the strand has read.
WaitOnTime ==
    /\ "wait" \in refs => pending.state = "armed" \/ (InListener /\ Waits(todo))
    /\ Waits(callback) => pending.state = "armed" \/ left = 0
    /\ pc = "chunk" /\ Waits(todo) => pending.state = "armed"
    /\ pending.state = "made" => pending.buffer = 0 /\ pending.skipped = pending.read
    /\ pending.state \in {"made", "armed"} => pending.toRead = length /\ pending.read < length
    /\ pending.state = "armed" =>
        /\ Waits(callback) /\ ~InListener
        /\ pending.skipped + pending.buffer = pending.read
        /\ IF pc = "chunk" /\ Waits(todo) THEN pending.read + 1 = length - left
           ELSE pending.read = length - left
    /\ pending.state = "done" => left = 0 /\ pending.skipped + pending.buffer = length

\* A PendingBody that is not registered yet belongs to the worker.
MadeInv == worker = "wait" <=> pending.state = "made"

BodyInv ==
    /\ MadeInv
    /\ pending.received = (IF pending.state = "done" THEN 1 ELSE 0)
    /\ ~missed => Listening /\ GetOnTime /\ WaitOnTime

Inv == TypeOK /\ PhaseInv /\ StrandInv /\ NoneInv /\ WrittenInv /\ RefsInv /\ BodyInv

-----------------------------------------------------------------------------
\* A new connection is well typed, for every limit of the body.
LEMMA TypeInit == Init => TypeOK
<1> SUFFICES ASSUME Init PROVE TypeOK
  OBVIOUS
<1>1. max \in 0 .. MaxBodySize
  BY SizesAssumption DEF Init
<1>2. pending \in PendingBodies
  BY DEF Init, NoBody, PendingBodies
<1>3. callback \in Seq(Listeners) /\ todo \in Seq(Listeners) /\ copied \in Seq(Listeners) /\ got \in Seq(Nat)
  BY DEF Init
<1> QED BY <1>1, <1>2, <1>3 DEF Init, TypeOK

\* What the response leaves of the types, and the end of a reference to the Context.
LEMMA SendType ==
    ASSUME TypeOK, Send
    PROVE  /\ sent' \in BOOLEAN
           /\ writes' \in Nat /\ written' \in Nat /\ reads' = reads
<1>1. writes \in Nat /\ written \in Nat /\ sent \in BOOLEAN
  BY DEF TypeOK
<1>2. CASE sent
  BY <1>1, <1>2 DEF Send, network
<1>3. CASE ~sent
  <2>1. writes' = writes + 1 /\ written' = written + 1 /\ UNCHANGED reads
    BY <1>3 DEF Send, Write
  <2> QED BY <1>1, <2>1 DEF Send
<1> QED BY <1>2, <1>3

\* Dropping a reference keeps the types; the last one sends.
LEMMA ReleaseType ==
    ASSUME TypeOK, NEW remaining \in SUBSET Holders, Release(remaining)
    PROVE  /\ refs' \subseteq Holders /\ ctx' \in {"none", "live", "destroyed", "terminated"}
           /\ sent' \in BOOLEAN
           /\ writes' \in Nat /\ written' \in Nat /\ reads' = reads
<1>1. CASE remaining = {} /\ ctx = "live"
  <2>1. Send /\ ctx' = "destroyed" /\ refs' = remaining
    BY <1>1 DEF Release
  <2> QED BY <2>1, SendType
<1>2. CASE ~(remaining = {} /\ ctx = "live")
  <2>1. UNCHANGED <<ctx, sent, reads, writes, written>> /\ refs' = remaining
    BY <1>2 DEF Release, network
  <2> QED BY <2>1 DEF TypeOK
<1> QED BY <1>1, <1>2

\* A stage that returns leaves strand and worker at a known place.
LEMMA StageType ==
    ASSUME TypeOK, Stage
    PROVE  /\ pc' \in {"start", "idle", "app", "leave", "ran", "chunk", "read", "last"}
           /\ back' = back /\ worker' \in {"idle", "app", "wait", "get", "leave"}
BY DEF TypeOK, Stage, StrandStage, WorkerStage, flow

\* The steps of the strand: reads, chunks for the listeners, the write.
LEMMA TypeStrand ==
    ASSUME Inv, Start \/ Ran \/ Continue \/ OnWrite \/ Reads
    PROVE  TypeOK'
<1> USE DEF parser, network, bodyVars, flow, thread, context
<1>0. TypeOK
  BY DEF Inv
<1>s. /\ callback \in Seq(Listeners) /\ todo \in Seq(Listeners) /\ copied \in Seq(Listeners)
      /\ <<>> \in Seq(Listeners)
  BY <1>0 DEF TypeOK
<1>1. CASE Start
  BY <1>0, <1>1 DEF TypeOK, Start
<1>2. CASE Ran
  <2>1. reads' \in Nat
    BY <1>0, <1>2 DEF TypeOK, Ran
  <2>2. callback' \in {callback, <<>>}
    BY <1>2 DEF Ran
  <2>3. callback' \in Seq(Listeners)
    BY <1>s, <2>2
  <2> QED BY <1>0, <1>2, <2>1, <2>3 DEF TypeOK, Ran
<1>3. CASE Continue
  <2>1. reads' \in Nat /\ pc' \in {"idle", "last"}
    BY <1>0, <1>3 DEF TypeOK, Continue
  <2>2. callback' \in {callback, <<>>} /\ todo' \in {todo, callback}
    BY <1>3 DEF Continue
  <2>3. callback' \in Seq(Listeners) /\ todo' \in Seq(Listeners)
    BY <1>s, <2>2
  <2> QED BY <1>0, <1>3, <2>1, <2>3 DEF TypeOK, Continue
<1>4. CASE OnWrite
  BY <1>0, <1>4 DEF TypeOK, OnWrite
<1>5. CASE ReadChunk
  <2>1. left' \in Nat /\ reads' \in Nat /\ phase' \in {"body", "complete"}
    BY <1>0, <1>5 DEF Inv, PhaseInv, TypeOK, ReadChunk, Parsed
  <2>2. body' \in Nat /\ todo' \in Seq(Listeners) /\ pc' \in {"chunk", "read"}
    BY <1>0, <1>5 DEF TypeOK, ReadChunk
  <2> QED BY <1>0, <1>5, <2>1, <2>2 DEF TypeOK, ReadChunk
<1>6. CASE ReadFails
  <2>1. reads' \in Nat /\ failed' = TRUE
    BY <1>0, <1>6 DEF TypeOK, ReadFails
  <2>2. UNCHANGED <<phase, length, left, max, writes, written, body, callback, todo, copied, pending, got,
                    pc, back, worker, missed, ctx, refs, sent>>
    BY <1>6 DEF ReadFails
  <2>3. failed' \in BOOLEAN
    BY <2>1
  <2> QED BY <1>0, <2>1, <2>2, <2>3 DEF TypeOK
<1>7. ASSUME NEW n \in Lengths, ReadHeader(n) PROVE TypeOK'
  <2>1. n \in Nat
    BY SizesAssumption
  <2> QED BY <1>0, <1>7, <2>1 DEF TypeOK, ReadHeader, Holders
<1>8. ASSUME NEW n \in Lengths, BodyTooLarge(n) PROVE TypeOK'
  <2>1. n \in Nat
    BY SizesAssumption
  <2> QED BY <1>0, <1>8, <2>1 DEF TypeOK, BodyTooLarge
<1> QED BY <1>1, <1>2, <1>3, <1>4, <1>5, <1>6, <1>7, <1>8 DEF Reads

\* The listeners of the body are called.
LEMMA TypeListener ==
    ASSUME Inv, CallListener
    PROVE  TypeOK'
<1> USE DEF parser, network, bodyVars, flow, thread, context
<1>0. TypeOK /\ todo # <<>> /\ todo \in Seq(Listeners) /\ Tail(todo) \in Seq(Listeners)
  BY DEF Inv, TypeOK, CallListener
<1>1. ASSUME NEW size \in Nat, Received(size)
      PROVE  /\ pending' \in PendingBodies
             /\ todo' \in {todo, Tail(todo)} /\ UNCHANGED got
             /\ (pc' = "app" /\ back' = pc) \/ UNCHANGED <<pc, back>>
  <2>1. pending.read + size \in Nat /\ pending.buffer + size \in Nat /\ pending.received + 1 \in Nat
    <3>1. pending \in PendingBodies /\ size \in Nat
      BY <1>0 DEF TypeOK
    <3> QED BY <3>1 DEF PendingBodies
  <2>2. CASE WholeBody(size)
    BY <1>0, <1>1, <2>1, <2>2 DEF Received, TypeOK, PendingBodies
  <2>3. CASE ~WholeBody(size)
    BY <1>0, <1>1, <2>1, <2>3 DEF Received, TypeOK, PendingBodies
  <2> QED BY <2>2, <2>3
<1>2. ASSUME Listen
      PROVE  /\ pending' = pending /\ got' \in Seq(Nat) /\ todo' \in {todo, Tail(todo)}
             /\ (pc' = "app" /\ back' = pc) \/ UNCHANGED <<pc, back>>
  <2>1. Append(got, body) \in Seq(Nat) /\ got \in Seq(Nat)
    BY <1>0 DEF TypeOK
  <2> QED BY <1>2, <2>1 DEF Listen
<1>3. UNCHANGED <<phase, length, left, max, reads, writes, written, failed, body, callback,
                  worker, copied, missed, ctx, refs, sent>> /\ pc \in {"chunk", "last"}
  BY DEF CallListener
<1>4. ASSUME todo' \in {todo, Tail(todo)}, got' \in Seq(Nat),
             (pc' = "app" /\ back' = pc) \/ UNCHANGED <<pc, back>>,
             pending' \in PendingBodies
      PROVE  TypeOK'
  <2>1. todo' \in Seq(Listeners)
    BY <1>0, <1>4
  <2>2. /\ pc' \in {"start", "idle", "app", "leave", "ran", "chunk", "read", "last"}
        /\ back' \in {"idle", "ran", "chunk", "last"}
    BY <1>0, <1>3, <1>4 DEF TypeOK
  <2> QED BY <1>0, <1>3, <1>4, <2>1, <2>2 DEF TypeOK
<1>5. CASE Listen
  <2>1. pending \in PendingBodies
    BY <1>0 DEF TypeOK
  <2> QED BY <1>2, <1>4, <1>5, <2>1
<1>6. ASSUME NEW size \in Nat, Received(size) PROVE TypeOK'
  <2>1. got \in Seq(Nat)
    BY <1>0 DEF TypeOK
  <2> QED BY <1>1, <1>4, <1>6, <2>1
<1> QED BY <1>5, <1>6 DEF CallListener

\* A stage or the body's callback returns its reference to the Context.
LEMMA TypeReturns ==
    ASSUME Inv, EndOfBody \/ StrandReturns \/ WorkerReturns
    PROVE  TypeOK'
<1> USE DEF parser, network, bodyVars, flow, thread, context
<1>0. TypeOK
  BY DEF Inv
<1>1. CASE EndOfBody
  <2>1. Release(refs \ {"get"}) /\ refs \ {"get"} \in SUBSET Holders
    BY <1>0, <1>1 DEF EndOfBody, TypeOK
  <2>2. pc' = "idle" /\ UNCHANGED <<phase, length, left, max, failed, body, callback, todo, pending, got,
                                    back, worker, copied, missed>>
    BY <1>1 DEF EndOfBody
  <2> QED BY <1>0, <2>1, <2>2, ReleaseType DEF TypeOK
<1>2. CASE StrandReturns
  <2>1. PICK remaining \in SUBSET Holders : Release(remaining)
    <3>1. refs \ {"run"} \in SUBSET Holders /\ refs \ {"wait"} \in SUBSET Holders /\ refs \in SUBSET Holders
      BY <1>0 DEF TypeOK
    <3> QED BY <1>2, <3>1 DEF StrandReturns
  <2>2. todo' \in Seq(Listeners) /\ pc' \in {"ran", "chunk", "last"}
    <3>1. pc \in {"app", "leave"} /\ pc' = back /\ todo \in Seq(Listeners)
          /\ todo' = (IF back = "ran" THEN todo ELSE Tail(todo))
      BY <1>0, <1>2 DEF StrandReturns, TypeOK
    <3>2. back \in {"ran", "chunk", "last"} /\ (back # "ran" => todo # <<>>)
      BY <3>1 DEF Inv, StrandInv, InListener
    <3>3. Tail(todo) \in Seq(Listeners) \/ todo = <<>>
      BY <3>1
    <3> QED BY <3>1, <3>2, <3>3
  <2>3. UNCHANGED <<phase, length, left, max, failed, body, callback, pending, got, back, worker, copied, missed>>
    BY <1>2 DEF StrandReturns
  <2>4. /\ refs' \subseteq Holders /\ ctx' \in {"none", "live", "destroyed", "terminated"}
        /\ sent' \in BOOLEAN
        /\ writes' \in Nat /\ written' \in Nat /\ reads' = reads
    BY <1>0, <2>1, ReleaseType
  <2> QED BY <1>0, <2>2, <2>3, <2>4 DEF TypeOK
<1>3. CASE WorkerReturns
  <2>1. Release(refs \ {"worker"}) /\ refs \ {"worker"} \in SUBSET Holders
    BY <1>0, <1>3 DEF WorkerReturns, TypeOK
  <2>2. worker' = "idle" /\ UNCHANGED <<phase, length, left, max, failed, body, callback, todo, pending, got,
                                        pc, back, copied, missed>>
    BY <1>3 DEF WorkerReturns
  <2> QED BY <1>0, <2>1, <2>2, ReleaseType DEF TypeOK
<1> QED BY <1>1, <1>2, <1>3

\* Application code, on the strand or in a worker.
LEMMA TypeApplication ==
    ASSUME Inv, Application
    PROVE  TypeOK'
<1> USE DEF parser, network, bodyVars, flow, thread, context
<1>0. TypeOK
  BY DEF Inv
<1>1. ASSUME Stage, Send, UNCHANGED <<parser, max, failed, bodyVars, copied, missed, ctx, refs>>
      PROVE  TypeOK'
  <2>1. /\ pc' \in {"start", "idle", "app", "leave", "ran", "chunk", "read", "last"}
        /\ back' = back /\ worker' \in {"idle", "app", "wait", "get", "leave"}
    BY <1>0, <1>1, StageType
  <2>2. /\ sent' \in BOOLEAN
        /\ writes' \in Nat /\ written' \in Nat /\ reads' = reads
    BY <1>0, <1>1, SendType
  <2> QED BY <1>0, <1>1, <2>1, <2>2 DEF TypeOK
<1>2. CASE Answer
  BY <1>1, <1>2 DEF Answer
<1>3. CASE Throw
  <2>1. CASE ctx' = "terminated" /\ UNCHANGED <<flow, thread, refs, sent, network, parser, max, failed, bodyVars>>
    BY <1>0, <2>1 DEF TypeOK
  <2> QED BY <1>1, <1>3, <2>1 DEF Throw
<1>4. CASE HandOver
  BY <1>0, <1>4 DEF TypeOK, HandOver, Holders
<1>5. CASE Shrink
  BY <1>0, <1>5, SizesAssumption DEF TypeOK, Shrink
<1>6. ASSUME NEW made \in PendingBodies, Register(made),
             UNCHANGED <<parser, max, failed, body, todo, got, copied, ctx>>, back' = back,
             pc' \in {pc, "leave"}, worker' \in {worker, "leave"}
      PROVE  TypeOK'
  <2>1. CASE Send /\ pending' = NoBody /\ UNCHANGED <<callback, refs, missed>>
    <3>1. /\ sent' \in BOOLEAN
          /\ writes' \in Nat /\ written' \in Nat /\ reads' = reads
      BY <1>0, <2>1, SendType
    <3>2. pending' \in PendingBodies
      BY <2>1 DEF NoBody, PendingBodies
    <3> QED BY <1>0, <1>6, <2>1, <3>1, <3>2 DEF TypeOK
  <2>2. CASE /\ pending' = [made EXCEPT !.state = "armed"] /\ callback' = <<"wait">>
             /\ refs' = refs \cup {"wait"}
             /\ missed' = (missed \/ made.read # length - left)
             /\ UNCHANGED <<sent, reads, writes, written>>
    <3>1. pending' \in PendingBodies
      BY <1>6, <2>2 DEF PendingBodies
    <3>2. callback' \in Seq(Listeners) /\ refs' \subseteq Holders /\ missed' \in BOOLEAN
      BY <1>0, <2>2 DEF TypeOK, Listeners, Holders
    <3>3. UNCHANGED <<sent, reads, writes, written>>
      BY <2>2
    <3> QED BY <1>0, <1>6, <3>1, <3>2, <3>3 DEF TypeOK
  <2> QED BY <1>6, <2>1, <2>2 DEF Register
<1>10. Made \in PendingBodies
  <2>1. length \in Nat /\ left \in Nat /\ (phase = "body" => left < length)
    BY <1>0 DEF Inv, PhaseInv, TypeOK
  <2>2. (IF phase = "body" THEN length - left ELSE 0) \in Nat
    BY <2>1
  <2> QED BY <2>1, <2>2 DEF Made, NoBody, PendingBodies
<1>11. CASE WaitForBody
  BY <1>6, <1>10, <1>11 DEF WaitForBody, StrandStage
<1>12. CASE WorkerMakes
  <2>1. /\ pending' = Made /\ worker' = "wait"
        /\ UNCHANGED <<phase, length, left, max, reads, writes, written, failed, body, callback, todo,
                       got, pc, back, copied, missed, ctx, refs, sent>>
    BY <1>12 DEF WorkerMakes
  <2> QED BY <1>0, <1>10, <2>1 DEF TypeOK
<1>13. CASE WorkerRegisters
  <2>1. pending \in PendingBodies
    BY <1>0 DEF TypeOK
  <2> QED BY <1>6, <1>13, <2>1 DEF WorkerRegisters
<1>7. CASE NoBodyToWaitFor
  <2>1. pending' \in PendingBodies
    BY <1>7 DEF NoBodyToWaitFor, NoBody, PendingBodies
  <2> QED BY <1>0, <1>7, <2>1 DEF TypeOK, NoBodyToWaitFor
<1>8. CASE GetBody
  <2>0. got \in Seq(Nat) /\ Append(got, body) \in Seq(Nat)
    BY <1>0 DEF TypeOK
  <2>1. got' \in {got, Append(got, body)} /\ copied' \in {copied, callback}
    BY <1>8 DEF GetBody
  <2>2. worker' \in {worker, "get"} /\ UNCHANGED missed
    BY <1>8 DEF GetBody
  <2>3. got' \in Seq(Nat) /\ copied' \in Seq(Listeners)
    BY <1>0, <2>0, <2>1 DEF TypeOK
  <2> QED BY <1>0, <1>8, <2>2, <2>3 DEF TypeOK, GetBody
<1>9. CASE Chain
  <2>1. callback' \in Seq(Listeners) /\ copied' \in Seq(Listeners)
    BY <1>0, <1>9 DEF TypeOK, Chain, Listeners
  <2> QED BY <1>0, <1>9, <2>1 DEF TypeOK, Chain, Holders, Listeners
<1> QED BY <1>2, <1>3, <1>4, <1>5, <1>7, <1>8, <1>9, <1>11, <1>12, <1>13 DEF Application

\* Every step keeps the types.
LEMMA TypeStep ==
    ASSUME Inv, ctx # "terminated", Strand \/ Application \/ StrandReturns \/ WorkerReturns
    PROVE  TypeOK'
BY TypeStrand, TypeListener, TypeReturns, TypeApplication DEF Strand


-----------------------------------------------------------------------------
\* What three larger steps do to the rest of the state, whichever way they go.
LEMMA ListenerCalled ==
    ASSUME CallListener
    PROVE  /\ pc \in {"chunk", "last"} /\ todo # <<>>
           /\ (pc' = pc /\ back' = back) \/ (pc' = "app" /\ back' = pc /\ todo' = todo)
           /\ UNCHANGED <<phase, length, left, sent, reads, writes, written, failed, callback>>
           /\ UNCHANGED <<worker, missed, ctx, refs>>
BY DEF CallListener, Received, Listen, parser, network, flow, thread, context

\* wait_for_body registers the parser, or refuses the body.
LEMMA BodyRegistered ==
    ASSUME WaitForBody \/ WorkerRegisters
    PROVE  /\ \/ pc = "app" /\ pc' = "leave" /\ UNCHANGED <<back, worker>>
              \/ worker # "idle" /\ worker' = "leave" /\ UNCHANGED <<pc, back>>
           /\ \/ /\ UNCHANGED <<sent, reads, writes, written>>
                 /\ refs' = refs \cup {"wait"}
              \/ Send /\ UNCHANGED <<refs, callback, missed>>
           /\ UNCHANGED <<phase, length, left, failed, todo, ctx>>
BY DEF WaitForBody, WorkerRegisters, Register, StrandStage, parser, network, flow

\* A stage on the strand drops its reference.
LEMMA StrandReturned ==
    ASSUME StrandReturns
    PROVE  /\ pc \in {"app", "leave"} /\ pc' = back
           /\ back # "ran" => todo' = Tail(todo)
           /\ ctx' \in {ctx, "destroyed"} /\ (ctx = "none" => ctx' = "none")
           /\ UNCHANGED <<sent, reads, writes, written>> \/ Send
           /\ refs' \subseteq refs /\ (back = "ran" => "run" \notin refs')
           /\ ctx = "live" /\ refs' = {} => ctx' # "live"
           /\ UNCHANGED <<phase, length, left, failed, callback, pending, back, worker, missed>>
BY DEF StrandReturns, Release, parser, network, thread

\* A response is written unless one was.
LEMMA SentOnce ==
    ASSUME Send
    PROVE  /\ reads' = reads
           /\ sent' /\ (sent => UNCHANGED <<writes, written>>)
           /\ ~sent => writes' = writes + 1 /\ written' = written + 1
BY DEF Send, Write, network

\* No step makes the connection lose count of what is left of the body.
LEMMA PhaseStep ==
    ASSUME Inv, ctx # "terminated", Strand \/ Application \/ StrandReturns \/ WorkerReturns
    PROVE  PhaseInv'
<1>1. CASE Start
  BY <1>1 DEF Start, Inv, PhaseInv, StrandInv, InRun, InListener, context
<1>2. CASE Ran
  BY <1>2 DEF Ran, Inv, PhaseInv, InRun, InListener, parser, context
<1>3. CASE CallListener
  BY <1>3, ListenerCalled DEF Inv, PhaseInv, NoneInv, InRun, InListener
<1>4. CASE Continue
  BY <1>4 DEF Continue, Inv, PhaseInv, InRun, InListener, MoreToRead, Remaining, parser,
      context
<1>5. CASE EndOfBody
  BY <1>5 DEF EndOfBody, Inv, PhaseInv, InRun, Release, parser
<1>6. CASE OnWrite
  BY <1>6 DEF OnWrite, Inv, PhaseInv, InRun, InListener, parser, flow, context
<1>7. CASE ReadChunk
  BY <1>7 DEF ReadChunk, Inv, TypeOK, PhaseInv, NoneInv, InRun, InListener, Parsed, context
<1>8. CASE ReadFails
  BY <1>8 DEF ReadFails, Inv, PhaseInv, InRun, InListener, parser, flow, context
<1>9. ASSUME NEW n \in Lengths, ReadHeader(n) PROVE PhaseInv'
  BY <1>9, SizesAssumption DEF ReadHeader, Inv, PhaseInv, InListener
<1>10. ASSUME NEW n \in Lengths, BodyTooLarge(n) PROVE PhaseInv'
  BY <1>10, SizesAssumption DEF BodyTooLarge, Inv, TypeOK, PhaseInv, InListener, flow
<1>11. CASE Answer
  BY <1>11 DEF Answer, Inv, PhaseInv, InRun, InListener, Stage, StrandStage, WorkerStage,
      parser, flow
<1>12. CASE Throw
  BY <1>12 DEF Throw, Inv, PhaseInv, InRun, InListener, Stage, StrandStage, WorkerStage,
      parser, flow
<1>13. CASE HandOver
  BY <1>13 DEF HandOver, Inv, PhaseInv, InRun, InListener, parser
<1>14. CASE Shrink
  BY <1>14 DEF Shrink, Inv, PhaseInv, InRun, InListener, parser, flow, context
<1>15. CASE WaitForBody
  BY <1>15, BodyRegistered DEF Inv, PhaseInv, InRun, InListener
<1>16. CASE NoBodyToWaitFor
  BY <1>16 DEF NoBodyToWaitFor, Inv, PhaseInv, InRun, InListener, parser, flow, context
<1>17. CASE GetBody
  BY <1>17 DEF GetBody, Inv, PhaseInv, InRun, InListener, parser, flow, context
<1>18. CASE Chain
  BY <1>18 DEF Chain, Inv, PhaseInv, InRun, InListener, parser, flow
<1>19. CASE StrandReturns
  BY <1>19, StrandReturned DEF Inv, TypeOK, PhaseInv, StrandInv, NoneInv, InRun, InListener
<1>20. CASE WorkerReturns
  BY <1>20 DEF WorkerReturns, Inv, PhaseInv, InRun, InListener, Release, parser, flow
<1>21. CASE WorkerRegisters
  BY <1>21, BodyRegistered DEF Inv, PhaseInv, InRun, InListener
<1>22. CASE WorkerMakes
  BY <1>22 DEF WorkerMakes, Inv, PhaseInv, InRun, InListener, parser, flow, context
<1> QED BY <1>1, <1>2, <1>3, <1>4, <1>5, <1>6, <1>7, <1>8, <1>9, <1>10, <1>11, <1>12, <1>13,
           <1>14, <1>15, <1>16, <1>17, <1>18, <1>19, <1>20, <1>21, <1>22 DEF Strand, Reads, Application

\* No step makes the strand read while it is busy, or read twice.
LEMMA StrandStep ==
    ASSUME Inv, ctx # "terminated", Strand \/ Application \/ StrandReturns \/ WorkerReturns
    PROVE  StrandInv'
<1>1. CASE Start
  BY <1>1 DEF Start, Inv, StrandInv, InListener
<1>2. CASE Ran
  BY <1>2 DEF Ran, Inv, PhaseInv, StrandInv, InRun, InListener, parser
<1>3. CASE CallListener
  BY <1>3, ListenerCalled DEF Inv, PhaseInv, StrandInv, NoneInv, InListener
<1>4. CASE Continue
  BY <1>4 DEF Continue, Inv, PhaseInv, StrandInv, InListener, MoreToRead, Remaining, parser
<1>5. CASE EndOfBody
  BY <1>5 DEF EndOfBody, Inv, PhaseInv, StrandInv, InListener, Release, Send, Write, parser,
      network
<1>6. CASE OnWrite
  BY <1>6 DEF OnWrite, Inv, StrandInv, InListener, parser, flow, context
<1>7. CASE ReadChunk
  BY <1>7 DEF ReadChunk, Inv, TypeOK, StrandInv, InListener
<1>8. CASE ReadFails
  BY <1>8 DEF ReadFails, Inv, TypeOK, StrandInv, InListener, flow
<1>9. ASSUME NEW n \in Lengths, ReadHeader(n) PROVE StrandInv'
  BY <1>9 DEF ReadHeader, Inv, TypeOK, StrandInv, InListener
<1>10. ASSUME NEW n \in Lengths, BodyTooLarge(n) PROVE StrandInv'
  BY <1>10 DEF BodyTooLarge, Inv, TypeOK, PhaseInv, StrandInv, InListener, flow, context
<1>11. CASE Answer
  BY <1>11 DEF Answer, Inv, StrandInv, InListener, Send, Write, Stage, StrandStage,
      WorkerStage, parser, network, bodyVars, flow
<1>12. CASE Throw
  BY <1>12 DEF Throw, Inv, StrandInv, InListener, Send, Write, Stage, StrandStage,
      WorkerStage, parser, network, bodyVars, flow
<1>13. CASE HandOver
  BY <1>13 DEF HandOver, Inv, StrandInv, InListener, network, bodyVars
<1>14. CASE Shrink
  BY <1>14 DEF Shrink, Inv, StrandInv, InListener, network, flow
<1>15. CASE WaitForBody
  BY <1>15, BodyRegistered, SentOnce DEF Inv, StrandInv, InListener
<1>16. CASE NoBodyToWaitFor
  BY <1>16 DEF NoBodyToWaitFor, Inv, StrandInv, NoneInv, InListener, parser, network, flow
<1>17. CASE GetBody
  BY <1>17 DEF GetBody, Inv, StrandInv, NoneInv, InListener, parser, network, flow
<1>18. CASE Chain
  BY <1>18 DEF Chain, Inv, StrandInv, InListener, parser, network, flow
<1>19. CASE StrandReturns
  BY <1>19, StrandReturned, SentOnce DEF Inv, TypeOK, PhaseInv, StrandInv, NoneInv, InListener
<1>20. CASE WorkerReturns
  BY <1>20 DEF WorkerReturns, Inv, StrandInv, InListener, Release, Send, Write, parser,
      network, bodyVars, flow
<1>21. CASE WorkerRegisters
  BY <1>21, BodyRegistered, SentOnce DEF Inv, StrandInv, InListener
<1>22. CASE WorkerMakes
  BY <1>22 DEF WorkerMakes, Inv, StrandInv, InListener, parser, network, flow, context
<1> QED BY <1>1, <1>2, <1>3, <1>4, <1>5, <1>6, <1>7, <1>8, <1>9, <1>10, <1>11, <1>12, <1>13,
           <1>14, <1>15, <1>16, <1>17, <1>18, <1>19, <1>20, <1>21, <1>22 DEF Strand, Reads, Application

\* Nothing starts for a request before it has a Context.
LEMMA NoneStep ==
    ASSUME Inv, ctx # "terminated", Strand \/ Application \/ StrandReturns \/ WorkerReturns
    PROVE  NoneInv'
<1>1. CASE Start
  BY <1>1 DEF Start, Inv, NoneInv, bodyVars, thread, context
<1>2. CASE Ran
  BY <1>2 DEF Ran, Inv, NoneInv, context
<1>3. CASE CallListener
  BY <1>3 DEF CallListener, Inv, NoneInv, context
<1>4. CASE Continue
  BY <1>4 DEF Continue, Inv, NoneInv, context
<1>5. CASE EndOfBody
  BY <1>5 DEF EndOfBody, Inv, NoneInv, Release
<1>6. CASE OnWrite
  BY <1>6 DEF OnWrite, Inv, NoneInv, parser, bodyVars, flow, thread, context
<1>7. CASE ReadChunk
  BY <1>7 DEF ReadChunk, Inv, NoneInv, context
<1>8. CASE ReadFails
  BY <1>8 DEF ReadFails, Inv, NoneInv, parser, bodyVars, flow, thread, context
<1>9. ASSUME NEW n \in Lengths, ReadHeader(n) PROVE NoneInv'
  BY <1>9 DEF ReadHeader, Inv, NoneInv
<1>10. ASSUME NEW n \in Lengths, BodyTooLarge(n) PROVE NoneInv'
  BY <1>10 DEF BodyTooLarge, Inv, TypeOK, StrandInv, NoneInv, bodyVars, flow, thread, context
<1>11. CASE Answer
  BY <1>11 DEF Answer, Inv, NoneInv, Stage, StrandStage, WorkerStage
<1>12. CASE Throw
  BY <1>12 DEF Throw, Inv, NoneInv, Stage, StrandStage, WorkerStage
<1>13. CASE HandOver
  BY <1>13 DEF HandOver, Inv, NoneInv
<1>14. CASE Shrink
  BY <1>14 DEF Shrink, Inv, NoneInv, context
<1>15. CASE WaitForBody
  BY <1>15, BodyRegistered DEF Inv, NoneInv
<1>16. CASE NoBodyToWaitFor
  BY <1>16 DEF NoBodyToWaitFor, Inv, NoneInv, context
<1>17. CASE GetBody
  BY <1>17 DEF GetBody, Inv, NoneInv, context
<1>18. CASE Chain
  BY <1>18 DEF Chain, Inv, NoneInv
<1>19. CASE StrandReturns
  BY <1>19 DEF StrandReturns, Inv, NoneInv, Release
<1>20. CASE WorkerReturns
  BY <1>20 DEF WorkerReturns, Inv, NoneInv, Release
<1>21. CASE WorkerRegisters
  BY <1>21, BodyRegistered DEF Inv, NoneInv
<1>22. CASE WorkerMakes
  BY <1>22 DEF WorkerMakes, Inv, NoneInv, context
<1> QED BY <1>1, <1>2, <1>3, <1>4, <1>5, <1>6, <1>7, <1>8, <1>9, <1>10, <1>11, <1>12, <1>13,
           <1>14, <1>15, <1>16, <1>17, <1>18, <1>19, <1>20, <1>21, <1>22 DEF Strand, Reads, Application

\* Every write belongs to the answer of the request, or to its refusal.
LEMMA WrittenStep ==
    ASSUME Inv, ctx # "terminated", Strand \/ Application \/ StrandReturns \/ WorkerReturns
    PROVE  WrittenInv'
<1>1. CASE Start
  BY <1>1 DEF Start, Inv, StrandInv, WrittenInv, context
<1>2. CASE Ran
  BY <1>2 DEF Ran, Inv, NoneInv, WrittenInv, context
<1>3. CASE CallListener
  BY <1>3 DEF CallListener, Inv, NoneInv, WrittenInv, network, context
<1>4. CASE Continue
  BY <1>4 DEF Continue, Inv, NoneInv, WrittenInv, context
<1>5. CASE EndOfBody
  BY <1>5 DEF EndOfBody, Inv, TypeOK, NoneInv, WrittenInv, Release, Send, Write, network
<1>6. CASE OnWrite
  BY <1>6 DEF OnWrite, Inv, TypeOK, WrittenInv, parser, context
<1>7. CASE ReadChunk
  BY <1>7 DEF ReadChunk, Inv, NoneInv, WrittenInv, context
<1>8. CASE ReadFails
  BY <1>8 DEF ReadFails, Inv, WrittenInv, parser, context
<1>9. ASSUME NEW n \in Lengths, ReadHeader(n) PROVE WrittenInv'
  BY <1>9 DEF ReadHeader, Inv, WrittenInv
<1>10. ASSUME NEW n \in Lengths, BodyTooLarge(n) PROVE WrittenInv'
  BY <1>10 DEF BodyTooLarge, Inv, TypeOK, PhaseInv, NoneInv, WrittenInv, context
<1>11. CASE Answer
  BY <1>11 DEF Answer, Inv, TypeOK, NoneInv, WrittenInv, Send, Write, Stage, StrandStage,
      WorkerStage, network
<1>12. CASE Throw
  BY <1>12 DEF Throw, Inv, TypeOK, NoneInv, WrittenInv, Send, Write, Stage, StrandStage,
      WorkerStage, network
<1>13. CASE HandOver
  BY <1>13 DEF HandOver, Inv, NoneInv, WrittenInv, network
<1>14. CASE Shrink
  BY <1>14 DEF Shrink, Inv, NoneInv, WrittenInv, network, context
<1>15. CASE WaitForBody
  <2>1. writes \in Nat /\ written \in Nat /\ ctx' = ctx /\ ctx # "none"
    BY <1>15, BodyRegistered DEF Inv, TypeOK, NoneInv
  <2>2. CASE UNCHANGED <<sent, reads, writes, written>>
    BY <1>15, <2>1, <2>2 DEF Inv, WrittenInv
  <2>3. CASE Send
    BY <2>1, <2>3, SentOnce DEF Inv, WrittenInv
  <2> QED BY <1>15, <2>2, <2>3, BodyRegistered
<1>16. CASE NoBodyToWaitFor
  BY <1>16 DEF NoBodyToWaitFor, Inv, NoneInv, WrittenInv, network, context
<1>17. CASE GetBody
  BY <1>17 DEF GetBody, Inv, NoneInv, WrittenInv, network, context
<1>18. CASE Chain
  BY <1>18 DEF Chain, Inv, NoneInv, WrittenInv, network
<1>19. CASE StrandReturns
  BY <1>19, StrandReturned, SentOnce DEF Inv, TypeOK, NoneInv, WrittenInv
<1>20. CASE WorkerReturns
  BY <1>20 DEF WorkerReturns, Inv, TypeOK, NoneInv, WrittenInv, Release, Send, Write, network
<1>21. CASE WorkerRegisters
  <2>1. writes \in Nat /\ written \in Nat /\ ctx' = ctx /\ ctx # "none"
    BY <1>21, BodyRegistered DEF Inv, TypeOK, NoneInv
  <2>2. CASE UNCHANGED <<sent, reads, writes, written>>
    BY <1>21, <2>1, <2>2 DEF Inv, WrittenInv
  <2>3. CASE Send
    BY <2>1, <2>3, SentOnce DEF Inv, WrittenInv
  <2> QED BY <1>21, <2>2, <2>3, BodyRegistered
<1>22. CASE WorkerMakes
  BY <1>22 DEF WorkerMakes, Inv, NoneInv, WrittenInv, network, parser, context
<1> QED BY <1>1, <1>2, <1>3, <1>4, <1>5, <1>6, <1>7, <1>8, <1>9, <1>10, <1>11, <1>12, <1>13,
           <1>14, <1>15, <1>16, <1>17, <1>18, <1>19, <1>20, <1>21, <1>22 DEF Strand, Reads, Application

\* Who holds a reference to the Context is at work for it.
LEMMA RefsStep ==
    ASSUME Inv, ctx # "terminated", Strand \/ Application \/ StrandReturns \/ WorkerReturns
    PROVE  RefsInv'
<1>1. CASE Start
  BY <1>1 DEF Start, Inv, PhaseInv, StrandInv, NoneInv, RefsInv, context
<1>2. CASE Ran
  BY <1>2 DEF Ran, Inv, RefsInv, thread, context
<1>3. CASE CallListener
  BY <1>3, ListenerCalled DEF Inv, RefsInv
<1>4. CASE Continue
  BY <1>4 DEF Continue, Inv, RefsInv, thread, context
<1>5. CASE EndOfBody
  BY <1>5 DEF EndOfBody, Inv, RefsInv, Release, thread
<1>6. CASE OnWrite
  BY <1>6 DEF OnWrite, Inv, RefsInv, thread, context
<1>7. CASE ReadChunk
  BY <1>7 DEF ReadChunk, Inv, RefsInv, thread, context
<1>8. CASE ReadFails
  BY <1>8 DEF ReadFails, Inv, RefsInv, thread, context
<1>9. ASSUME NEW n \in Lengths, ReadHeader(n) PROVE RefsInv'
  BY <1>9 DEF ReadHeader, Inv, RefsInv
<1>10. ASSUME NEW n \in Lengths, BodyTooLarge(n) PROVE RefsInv'
  BY <1>10 DEF BodyTooLarge, Inv, PhaseInv, NoneInv, RefsInv, context
<1>11. CASE Answer
  BY <1>11 DEF Answer, Inv, RefsInv, Stage, StrandStage, WorkerStage, flow
<1>12. CASE Throw
  BY <1>12 DEF Throw, Inv, RefsInv, Stage, StrandStage, WorkerStage, flow, thread
<1>13. CASE HandOver
  BY <1>13 DEF HandOver, Inv, RefsInv
<1>14. CASE Shrink
  BY <1>14 DEF Shrink, Inv, RefsInv, flow, thread, context
<1>15. CASE WaitForBody
  BY <1>15, BodyRegistered DEF Inv, RefsInv
<1>16. CASE NoBodyToWaitFor
  BY <1>16 DEF NoBodyToWaitFor, Inv, RefsInv, flow, thread, context
<1>17. CASE GetBody
  BY <1>17 DEF GetBody, Inv, RefsInv, flow, thread, context
<1>18. CASE Chain
  BY <1>18 DEF Chain, Inv, RefsInv, flow
<1>19. CASE StrandReturns
  BY <1>19, StrandReturned DEF Inv, RefsInv
<1>20. CASE WorkerReturns
  BY <1>20 DEF WorkerReturns, Inv, RefsInv, Release, flow
<1>21. CASE WorkerRegisters
  BY <1>21, BodyRegistered DEF Inv, RefsInv
<1>22. CASE WorkerMakes
  BY <1>22 DEF WorkerMakes, Inv, RefsInv, flow, context
<1> QED BY <1>1, <1>2, <1>3, <1>4, <1>5, <1>6, <1>7, <1>8, <1>9, <1>10, <1>11, <1>12, <1>13,
           <1>14, <1>15, <1>16, <1>17, <1>18, <1>19, <1>20, <1>21, <1>22 DEF Strand, Reads, Application

\* What is listened to, for the four lists of listeners.
LEMMA ListFacts ==
    /\ ~Waits(<<>>) /\ ~Gets(<<>>) /\ Waits(Waiting) /\ ~Gets(Waiting)
    /\ Gets(Getting) /\ ~Waits(Getting) /\ Waits(Both) /\ Gets(Both)
    /\ Lists = {<<>>, Waiting, Getting, Both}
    /\ Waiting # <<>> /\ Getting # <<>> /\ Both # <<>>
    /\ \A l \in Lists : l # <<>> => /\ Tail(l) \in {<<>>, Getting} /\ ~Waits(Tail(l))
                                    /\ Waits(l) <=> Head(l) = "wait"
                                    /\ ~Waits(l) <=> Head(l) = "get"
    /\ \A l \in {<<>>, Waiting} : Append(l, "get") \in {Getting, Both} /\ (Waits(Append(l, "get")) <=> Waits(l))
    /\ \A l \in Lists : Has(l, "get") <=> Gets(l)
<1>1. /\ Waiting # Getting /\ Waiting # Both /\ Getting # Both
      /\ Waiting # <<>> /\ Getting # <<>> /\ Both # <<>>
  <2>1. Len(Waiting) = 1 /\ Len(Getting) = 1 /\ Len(Both) = 2 /\ Len(<<>>) = 0
    BY DEF Waiting, Getting, Both
  <2>2. Waiting[1] # Getting[1]
    BY DEF Waiting, Getting
  <2> QED BY <2>1, <2>2
<1>2. /\ ~Waits(<<>>) /\ ~Gets(<<>>) /\ Waits(Waiting) /\ ~Gets(Waiting)
      /\ Gets(Getting) /\ ~Waits(Getting) /\ Waits(Both) /\ Gets(Both)
  BY <1>1 DEF Waits, Gets
<1>3. Tail(Waiting) = <<>> /\ Tail(Getting) = <<>> /\ Tail(Both) = Getting
  BY DEF Waiting, Getting, Both
<1>4. Head(Waiting) = "wait" /\ Head(Getting) = "get" /\ Head(Both) = "wait"
  BY DEF Waiting, Getting, Both
<1>5. Append(<<>>, "get") = Getting /\ Append(Waiting, "get") = Both
  <2>1. Append(<<>>, "get") = Getting
    BY DEF Getting
  <2>2. Waiting \in Seq(Listeners) /\ Both \in Seq(Listeners) /\ Append(Waiting, "get") \in Seq(Listeners)
    BY DEF Waiting, Both, Listeners
  <2>3. Len(Append(Waiting, "get")) = 2 /\ Len(Both) = 2
    BY DEF Waiting, Both
  <2>4. /\ Append(Waiting, "get")[1] = "wait" /\ Append(Waiting, "get")[2] = "get"
        /\ Both[1] = "wait" /\ Both[2] = "get"
    BY DEF Waiting, Both
  <2>5. \A i \in 1 .. 2 : Append(Waiting, "get")[i] = Both[i]
    BY <2>4
  <2> QED BY <2>1, <2>2, <2>3, <2>5, SeqEqual
<1>6. ~Has(<<>>, "get") /\ ~Has(Waiting, "get") /\ Has(Getting, "get") /\ Has(Both, "get")
  <2>1. DOMAIN <<>> = {} /\ DOMAIN Waiting = {1} /\ DOMAIN Getting = {1} /\ DOMAIN Both = {1, 2}
    BY DEF Waiting, Getting, Both
  <2>2. Waiting[1] = "wait" /\ Getting[1] = "get" /\ Both[2] = "get"
    BY DEF Waiting, Getting, Both
  <2> QED BY <2>1, <2>2 DEF Has
<1>7. "wait" # "get"
  OBVIOUS
<1> QED BY <1>1, <1>2, <1>3, <1>4, <1>5, <1>6, <1>7 DEF Lists

\* A registration in time: the body is refused, or its first chunk is still to come, or the
\* worker has counted what the strand has read meanwhile.
LEMMA InTime ==
    ASSUME Inv, ~missed, ~missed', WaitForBody \/ WorkerRegisters
    PROVE  /\ pending.state \in {"none", "made", "done"}
           /\ worker = "wait" <=> pending.state = "made"
           /\ \/ pc = "app" /\ pc' = "leave" /\ worker' = worker /\ pending.state # "made"
              \/ worker = "wait" /\ worker' = "leave" /\ pc' = pc
           /\ \/ pending' = NoBody /\ UNCHANGED <<callback, refs>>
              \/ /\ pending'.state = "armed" /\ pending'.toRead = length /\ pending'.buffer = 0
                 /\ pending'.read = length - left /\ pending'.skipped = pending'.read
                 /\ pending'.read < length
                 /\ phase \in {"body0", "body"} /\ (worker' = worker => phase = "body0")
                 /\ callback' = Waiting /\ refs' = refs \cup {"wait"}
           /\ UNCHANGED <<phase, length, left, back, todo, copied, ctx>>
<1> USE DEF parser, network, bodyVars, flow, thread, context
<1>0. TypeOK /\ PhaseInv /\ StrandInv /\ NoneInv /\ MadeInv /\ Listening /\ GetOnTime /\ WaitOnTime
  BY DEF Inv, BodyInv
<1>1. ASSUME NEW made \in PendingBodies, Register(made), UNCHANGED <<length, left>>,
             made.toRead = length, made.buffer = 0, made.skipped = made.read, made.read < length
      PROVE  \/ pending' = NoBody /\ UNCHANGED <<callback, refs>>
             \/ /\ pending'.state = "armed" /\ pending'.toRead = length /\ pending'.buffer = 0
                /\ pending'.read = length - left /\ pending'.skipped = pending'.read
                /\ pending'.read < length
                /\ callback' = Waiting /\ refs' = refs \cup {"wait"}
  BY <1>1 DEF Register, PendingBodies, Waiting
<1>2. left \in Nat /\ length \in Nat /\ (length - left < length => left > 0)
  BY <1>0 DEF TypeOK
<1>3. CASE WaitForBody
  <2>1. /\ pending.state \in {"none", "done"} /\ Made.read < length /\ Register(Made)
        /\ pc = "app" /\ pc' = "leave" /\ worker' = worker
        /\ UNCHANGED <<phase, length, left, back, todo, copied, ctx>>
    BY <1>3 DEF WaitForBody, MayWait, StrandStage
  <2>2. /\ Made \in PendingBodies
        /\ Made.toRead = length /\ Made.buffer = 0 /\ Made.skipped = Made.read
    <3>1. (IF phase = "body" THEN length - left ELSE 0) \in Nat
      BY <1>0, <1>2 DEF PhaseInv
    <3> QED BY <1>2, <3>1 DEF Made, NoBody, PendingBodies
  <2>3. phase \in {"body0", "complete"}
    BY <1>0, <2>1 DEF PhaseInv, Listening, StrandInv, InRun, InListener
  <2>4. phase = "complete" => left = 0
    BY <1>0 DEF PhaseInv
  <2>5. worker # "wait"
    BY <1>0, <2>1 DEF MadeInv
  <2> QED BY <1>1, <1>2, <2>1, <2>2, <2>3, <2>4, <2>5
<1>4. CASE WorkerRegisters
  <2>1. /\ worker = "wait" /\ worker' = "leave" /\ pc' = pc /\ Register(pending)
        /\ UNCHANGED <<phase, length, left, back, todo, copied, ctx>>
    BY <1>4 DEF WorkerRegisters
  <2>2. /\ pending.state = "made" /\ pending \in PendingBodies
        /\ pending.toRead = length /\ pending.buffer = 0 /\ pending.skipped = pending.read /\ pending.read < length
    BY <1>0, <2>1 DEF MadeInv, WaitOnTime, TypeOK
  <2>3. left > 0 => phase \in {"body0", "body"}
    BY <1>0, <2>1 DEF PhaseInv, NoneInv, TypeOK
  <2> QED BY <1>1, <1>2, <2>1, <2>2, <2>3
<1>5. (worker = "wait" <=> pending.state = "made") /\ pending.state \in {"none", "made", "armed", "done"}
  BY <1>0 DEF MadeInv, TypeOK, PendingBodies
<1> QED BY <1>3, <1>4, <1>5

\* What a listener gets in time: a parser its chunk, or the last one; get_body's the end.
LEMMA CalledInTime ==
    ASSUME Inv, ~missed, CallListener
    PROVE  /\ pc \in {"chunk", "last"} /\ todo # <<>>
           /\ UNCHANGED <<phase, length, left, callback, worker, copied, refs, ctx>>
           /\ \/ /\ Waits(todo) /\ pc = "chunk" /\ pending.state = "armed"
                 /\ left = 0 /\ phase = "complete"
                 /\ pending'.state = "done" /\ pending'.skipped + pending'.buffer = length
                 /\ pc' = "app" /\ back' = pc /\ todo' = todo
              \/ /\ Waits(todo) /\ pc = "chunk" /\ pending.state = "armed"
                 /\ pending'.state = "armed" /\ pending'.toRead = length
                 /\ pending'.read = length - left /\ pending'.read < length
                 /\ pending'.skipped + pending'.buffer = pending'.read
                 /\ todo' = Tail(todo) /\ UNCHANGED <<pc, back>>
              \/ /\ pc = "last" /\ pending.state # "armed" /\ pending' = pending
                 /\ todo' = Tail(todo) /\ UNCHANGED <<pc, back>>
              \/ /\ ~Waits(todo) /\ pending' = pending /\ phase = "complete" /\ pending.state # "armed"
                 /\ pc' = "app" /\ back' = pc /\ todo' = todo
              \/ /\ ~Waits(todo) /\ pending' = pending
                 /\ todo' = Tail(todo) /\ UNCHANGED <<pc, back>>
<1> USE DEF parser, network, bodyVars, flow, thread, context
<1>0. TypeOK /\ PhaseInv /\ StrandInv /\ NoneInv /\ MadeInv /\ Listening /\ GetOnTime /\ WaitOnTime
  BY DEF Inv, BodyInv
<1>1. /\ pc \in {"chunk", "last"} /\ todo # <<>> /\ todo \in Lists
      /\ UNCHANGED <<phase, length, left, callback, worker, copied, refs, ctx>>
  BY <1>0 DEF CallListener, Listening
<1>2. /\ Waits(todo) <=> Head(todo) = "wait"
      /\ ~Waits(todo) <=> Head(todo) = "get"
  BY <1>1, ListFacts
<1>3. phase \in {"body", "complete"} /\ (pc = "last" => phase = "complete")
      /\ (phase = "body" => left > 0) /\ (phase = "complete" => left = 0)
  BY <1>0, <1>1 DEF PhaseInv, TypeOK
<1>4. pc = "last" => pending.state # "armed"
  BY <1>0, <1>3, ListFacts DEF WaitOnTime, Listening, StillReads
<1>5. /\ length \in Nat /\ left \in Nat /\ pending \in PendingBodies
  BY <1>0 DEF TypeOK
<1>6. CASE Listen
  <2>1. Head(todo) = "get" /\ pending' = pending
    BY <1>6 DEF Listen
  <2>2. ~Waits(todo)
    BY <1>2, <2>1
  <2>3. CASE Remaining = 0
    <3>1. phase = "complete" /\ pc' = "app" /\ back' = pc /\ todo' = todo
      BY <1>3, <1>6, <2>3 DEF Listen, Remaining
    <3>2. pending.state # "armed"
      BY <1>0, <1>3, <1>5, <2>2, <3>1 DEF WaitOnTime
    <3> QED BY <1>1, <2>1, <2>2, <3>1, <3>2
  <2>4. CASE Remaining # 0
    BY <1>1, <1>6, <2>1, <2>2, <2>4 DEF Listen
  <2> QED BY <2>3, <2>4
<1>7. CASE Received(1) /\ pc = "chunk"
  <2>1. Waits(todo) /\ pending.state = "armed"
    BY <1>0, <1>2, <1>7 DEF Received, WaitOnTime
  <2>2. /\ pending.toRead = length /\ pending.read + 1 = length - left
        /\ pending.skipped + pending.buffer = pending.read
    BY <1>0, <1>7, <2>1 DEF WaitOnTime
  <2>3. pending.read \in Nat /\ pending.buffer \in Nat /\ pending.skipped \in Nat
    BY <1>5 DEF PendingBodies
  <2>4. CASE WholeBody(1)
    <3>1. pending.read + 1 >= length
      BY <2>2, <2>4 DEF WholeBody
    <3>2. left = 0
      BY <1>5, <2>2, <2>3, <3>1
    <3>3. /\ pending'.state = "done" /\ pending'.skipped = pending.skipped
          /\ pending'.buffer = pending.buffer + 1
          /\ pc' = "app" /\ back' = pc /\ todo' = todo
      BY <1>5, <1>7, <2>4 DEF Received, PendingBodies
    <3>4. pending'.skipped + pending'.buffer = length
      BY <1>5, <2>2, <2>3, <3>2, <3>3
    <3> QED BY <1>1, <1>3, <1>7, <2>1, <3>2, <3>3, <3>4
  <2>5. CASE ~WholeBody(1)
    <3>1. pending.read + 1 < length
      BY <1>5, <2>1, <2>2, <2>3, <2>5 DEF WholeBody
    <3>2. /\ pending'.state = "armed" /\ pending'.skipped = pending.skipped
          /\ pending'.toRead = length
          /\ pending'.buffer = pending.buffer + 1 /\ pending'.read = pending.read + 1
          /\ UNCHANGED <<pc, back>> /\ todo' = Tail(todo)
      BY <1>5, <1>7, <2>1, <2>2, <2>5 DEF Received, PendingBodies
    <3> QED BY <1>1, <1>7, <2>1, <2>2, <2>3, <3>1, <3>2
  <2> QED BY <2>4, <2>5
<1>8. CASE Received(0) /\ pc = "last"
  <2>1. ~WholeBody(0)
    BY <1>4, <1>8 DEF WholeBody
  <2>2. /\ pending' = [pending EXCEPT !.read = @ + 0, !.buffer = @ + 0]
        /\ UNCHANGED <<pc, back>> /\ todo' = Tail(todo)
    BY <1>8, <2>1 DEF Received
  <2>3. pending' = pending
    <3>1. pending.read + 0 = pending.read /\ pending.buffer + 0 = pending.buffer
      BY <1>5 DEF PendingBodies
    <3>2. pending' = [pending EXCEPT !.read = pending.read, !.buffer = pending.buffer]
      BY <2>2, <3>1
    <3> QED BY <1>5, <3>2 DEF PendingBodies
  <2> QED BY <1>1, <1>4, <1>8, <2>2, <2>3
<1>9. Listen \/ (Received(1) /\ pc = "chunk") \/ (Received(0) /\ pc = "last")
  BY DEF CallListener
<1> QED BY <1>6, <1>7, <1>8, <1>9

\* A step in time leaves the listeners where the strand will find them.
LEMMA ListeningStep ==
    ASSUME Inv, ~missed, ctx # "terminated",
           Strand \/ Application \/ StrandReturns \/ WorkerReturns, ~missed'
    PROVE  Listening'
<1> USE ListFacts DEF parser, network, bodyVars, flow, thread, context
<1>0. TypeOK /\ PhaseInv /\ StrandInv /\ NoneInv /\ MadeInv /\ Listening /\ GetOnTime /\ WaitOnTime
  BY DEF Inv, BodyInv
<1> USE <1>0 DEF TypeOK, PhaseInv, StrandInv, NoneInv, MadeInv,
            Listening, GetOnTime, WaitOnTime, InListener, InRun, StillReads
<1>1. CASE Start
  BY <1>1 DEF Start
<1>2. CASE Ran
  BY <1>2 DEF Ran
<1>3. CASE Continue
  BY <1>3 DEF Continue, MoreToRead, Remaining
<1>4. CASE EndOfBody
  BY <1>4 DEF EndOfBody, Release
<1>5. CASE OnWrite
  BY <1>5 DEF OnWrite
<1>6. CASE ReadChunk
  BY <1>6 DEF ReadChunk, Parsed
<1>7. CASE ReadFails
  BY <1>7 DEF ReadFails
<1>8. CASE Answer
  BY <1>8 DEF Answer, Stage, StrandStage, WorkerStage
<1>9. CASE Throw
  BY <1>9 DEF Throw, Stage, StrandStage, WorkerStage
<1>10. CASE HandOver
  BY <1>10 DEF HandOver
<1>11. CASE Shrink
  BY <1>11 DEF Shrink
<1>12. CASE WorkerMakes
  BY <1>12 DEF WorkerMakes, MayWait, Made, NoBody
<1>13. CASE NoBodyToWaitFor
  BY <1>13 DEF NoBodyToWaitFor, NoBody
<1>14. CASE GetBody
  BY <1>14 DEF GetBody, Remaining
<1>15. CASE Chain
  BY <1>15 DEF Chain
<1>16. CASE WorkerReturns
  BY <1>16 DEF WorkerReturns, Release
<1>17. CASE WaitForBody
  BY <1>17, InTime DEF NoBody
<1>18. CASE WorkerRegisters
  BY <1>18, InTime DEF NoBody
<1>19. CASE StrandReturns
  BY <1>19 DEF StrandReturns, Release
<1>20. CASE CallListener
  BY <1>20, CalledInTime
<1>21. ASSUME NEW n \in Lengths, ReadHeader(n) PROVE Listening'
  BY <1>21, SizesAssumption DEF ReadHeader
<1>22. ASSUME NEW n \in Lengths, BodyTooLarge(n) PROVE Listening'
  BY <1>22, SizesAssumption DEF BodyTooLarge
<1> QED BY <1>1, <1>2, <1>3, <1>4, <1>5, <1>6, <1>7, <1>8, <1>9, <1>10, <1>11, <1>12, <1>13, <1>14, <1>15, <1>16, <1>17, <1>18, <1>19, <1>20, <1>21, <1>22 DEF Strand, Reads, Application

\* ... does not lose the listener of get_body,
LEMMA GetStep ==
    ASSUME Inv, ~missed, ctx # "terminated",
           Strand \/ Application \/ StrandReturns \/ WorkerReturns, ~missed'
    PROVE  GetOnTime'
<1> USE ListFacts DEF parser, network, bodyVars, flow, thread, context
<1>0. TypeOK /\ PhaseInv /\ StrandInv /\ NoneInv /\ MadeInv /\ Listening /\ GetOnTime /\ WaitOnTime
  BY DEF Inv, BodyInv
<1> USE <1>0 DEF TypeOK, PhaseInv, StrandInv, NoneInv, MadeInv,
            Listening, GetOnTime, WaitOnTime, InListener, InRun, StillReads
<1>1. CASE Start
  BY <1>1 DEF Start
<1>2. CASE Ran
  BY <1>2 DEF Ran
<1>3. CASE Continue
  BY <1>3 DEF Continue, MoreToRead, Remaining
<1>4. CASE EndOfBody
  BY <1>4 DEF EndOfBody, Release
<1>5. CASE OnWrite
  BY <1>5 DEF OnWrite
<1>6. CASE ReadChunk
  BY <1>6 DEF ReadChunk, Parsed
<1>7. CASE ReadFails
  BY <1>7 DEF ReadFails
<1>8. CASE Answer
  BY <1>8 DEF Answer, Stage, StrandStage, WorkerStage
<1>9. CASE Throw
  BY <1>9 DEF Throw, Stage, StrandStage, WorkerStage
<1>10. CASE HandOver
  BY <1>10 DEF HandOver
<1>11. CASE Shrink
  BY <1>11 DEF Shrink
<1>12. CASE WorkerMakes
  BY <1>12 DEF WorkerMakes, MayWait, Made, NoBody
<1>13. CASE NoBodyToWaitFor
  BY <1>13 DEF NoBodyToWaitFor, NoBody
<1>14. CASE GetBody
  BY <1>14 DEF GetBody, Remaining
<1>15. CASE Chain
  <2>1. /\ copied \in {<<>>, Waiting} /\ callback' = Append(copied, "get") /\ copied' = <<>>
        /\ worker = "get" /\ worker' = "leave" /\ phase' = phase
    BY <1>15 DEF Chain
  <2>2. phase # "body0"
    BY <2>1
  <2>3. callback' \in {Getting, Both}
    BY <2>1
  <2>4. Gets(callback')
    BY <2>3
  <2> QED BY <2>1, <2>2, <2>4
<1>16. CASE WorkerReturns
  BY <1>16 DEF WorkerReturns, Release
<1>17. CASE WaitForBody
  BY <1>17, InTime DEF NoBody
<1>18. CASE WorkerRegisters
  BY <1>18, InTime DEF NoBody
<1>19. CASE StrandReturns
  BY <1>19 DEF StrandReturns, Release
<1>20. CASE CallListener
  BY <1>20, CalledInTime
<1>21. ASSUME NEW n \in Lengths, ReadHeader(n) PROVE GetOnTime'
  BY <1>21, SizesAssumption DEF ReadHeader
<1>22. ASSUME NEW n \in Lengths, BodyTooLarge(n) PROVE GetOnTime'
  BY <1>22, SizesAssumption DEF BodyTooLarge
<1> QED BY <1>1, <1>2, <1>3, <1>4, <1>5, <1>6, <1>7, <1>8, <1>9, <1>10, <1>11, <1>12, <1>13, <1>14, <1>15, <1>16, <1>17, <1>18, <1>19, <1>20, <1>21, <1>22 DEF Strand, Reads, Application

\* ... nor the count of the parser that waits.
LEMMA WaitStep ==
    ASSUME Inv, ~missed, ctx # "terminated",
           Strand \/ Application \/ StrandReturns \/ WorkerReturns, ~missed'
    PROVE  WaitOnTime'
<1> USE ListFacts DEF parser, network, bodyVars, flow, thread, context
<1>0. TypeOK /\ PhaseInv /\ StrandInv /\ NoneInv /\ MadeInv /\ Listening /\ GetOnTime /\ WaitOnTime
  BY DEF Inv, BodyInv
<1> USE <1>0 DEF TypeOK, PhaseInv, StrandInv, NoneInv, MadeInv,
            Listening, GetOnTime, WaitOnTime, InListener, InRun, StillReads
<1>1. CASE Start
  BY <1>1 DEF Start
<1>2. CASE Ran
  BY <1>2 DEF Ran
<1>3. CASE Continue
  BY <1>3 DEF Continue, MoreToRead, Remaining
<1>4. CASE EndOfBody
  BY <1>4 DEF EndOfBody, Release
<1>5. CASE OnWrite
  BY <1>5 DEF OnWrite
<1>6. CASE ReadChunk
  BY <1>6 DEF ReadChunk, Parsed
<1>7. CASE ReadFails
  BY <1>7 DEF ReadFails
<1>8. CASE Answer
  BY <1>8 DEF Answer, Stage, StrandStage, WorkerStage
<1>9. CASE Throw
  BY <1>9 DEF Throw, Stage, StrandStage, WorkerStage
<1>10. CASE HandOver
  BY <1>10 DEF HandOver
<1>11. CASE Shrink
  BY <1>11 DEF Shrink
<1>12. CASE WorkerMakes
  BY <1>12 DEF WorkerMakes, MayWait, Made, NoBody
<1>13. CASE NoBodyToWaitFor
  <2>1. /\ pending.state = "none" /\ length = 0 /\ ctx # "none"
        /\ UNCHANGED <<phase, length, left, callback, todo, pc, back, worker, refs>>
    BY <1>13 DEF NoBodyToWaitFor
  <2>2. left = 0
    BY <2>1
  <2>3. pending'.state = "done" /\ pending'.skipped = 0 /\ pending'.buffer = 0
    BY <1>13 DEF NoBodyToWaitFor, NoBody
  <2> QED BY <2>1, <2>2, <2>3
<1>14. CASE GetBody
  BY <1>14 DEF GetBody, Remaining
<1>15. CASE Chain
  <2>1. /\ copied = callback /\ copied \in {<<>>, Waiting} /\ callback' = Append(copied, "get")
        /\ worker = "get" /\ worker' = "leave" /\ refs' = refs \cup {"get"}
        /\ UNCHANGED <<phase, length, left, todo, pending, pc, back>>
    BY <1>15 DEF Chain
  <2>2. (Waits(callback') <=> Waits(callback)) /\ ("wait" \in refs' <=> "wait" \in refs)
    BY <2>1
  <2>3. InListener' <=> InListener
    BY <2>1
  <2> QED BY <2>1, <2>2, <2>3
<1>16. CASE WorkerReturns
  BY <1>16 DEF WorkerReturns, Release
<1>17. CASE WaitForBody
  BY <1>17, InTime DEF NoBody
<1>18. CASE WorkerRegisters
  BY <1>18, InTime DEF NoBody
<1>19. CASE StrandReturns
  BY <1>19 DEF StrandReturns, Release
<1>20. CASE CallListener
  <2>1. /\ pc \in {"chunk", "last"} /\ todo # <<>> /\ ~Waits(Tail(todo)) /\ ~InListener
        /\ UNCHANGED <<phase, length, left, callback, worker, refs>>
    BY <1>20, CalledInTime
  <2>2. CASE pending'.state = "done" /\ pending.state = "armed"
    BY <1>20, <2>1, <2>2, CalledInTime
  <2>3. CASE pending'.state = "armed" /\ Waits(todo)
    <3>1. /\ pc = "chunk" /\ pending.state = "armed"
          /\ pending'.toRead = length /\ pending'.read = length - left /\ pending'.read < length
          /\ pending'.skipped + pending'.buffer = pending'.read
          /\ todo' = Tail(todo) /\ UNCHANGED <<pc, back>>
      BY <1>20, <2>3, CalledInTime
    <3>2. ~InListener' /\ Waits(callback)
      BY <2>1, <3>1
    <3> QED BY <2>1, <2>3, <3>1, <3>2
  <2>4. CASE pending' = pending /\ todo' = Tail(todo) /\ UNCHANGED <<pc, back>>
             /\ (Waits(todo) => pc = "last")
    BY <2>1, <2>4
  <2>5. CASE /\ pending' = pending /\ todo' = todo /\ pc' = "app" /\ back' = pc
             /\ ~Waits(todo) /\ pending.state # "armed"
    BY <2>1, <2>5
  <2> QED BY <1>20, <2>2, <2>3, <2>4, <2>5, CalledInTime
<1>21. ASSUME NEW n \in Lengths, ReadHeader(n) PROVE WaitOnTime'
  BY <1>21, SizesAssumption DEF ReadHeader
<1>22. ASSUME NEW n \in Lengths, BodyTooLarge(n) PROVE WaitOnTime'
  BY <1>22, SizesAssumption DEF BodyTooLarge
<1> QED BY <1>1, <1>2, <1>3, <1>4, <1>5, <1>6, <1>7, <1>8, <1>9, <1>10, <1>11, <1>12, <1>13, <1>14, <1>15, <1>16, <1>17, <1>18, <1>19, <1>20, <1>21, <1>22 DEF Strand, Reads, Application

\* The listeners are in order as long as none missed a chunk; the callback is called once.
LEMMA BodyStep ==
    ASSUME Inv, ctx # "terminated", Strand \/ Application \/ StrandReturns \/ WorkerReturns
    PROVE  BodyInv'
<1> USE DEF parser, network, bodyVars, flow, thread, context
<1>0. pending.received = (IF pending.state = "done" THEN 1 ELSE 0) /\ pending \in PendingBodies
      /\ length \in Nat /\ missed \in BOOLEAN
  BY DEF Inv, BodyInv, TypeOK
<1>1. \/ UNCHANGED <<pending, missed>>
      \/ CallListener
      \/ WaitForBody \/ WorkerMakes \/ WorkerRegisters \/ NoBodyToWaitFor
      \/ Chain
  BY DEF Strand, Reads, Application, Start, Ran, Continue, EndOfBody, OnWrite, ReadChunk, ReadFails,
         ReadHeader, BodyTooLarge, Answer, Throw, HandOver, Shrink, GetBody, StrandReturns,
         WorkerReturns
<1>2. ASSUME NEW made \in PendingBodies, made.received = 0, Register(made)
      PROVE  (missed => missed') /\ pending'.state \in {"none", "armed"} /\ pending'.received = 0
  <2>1. CASE pending' = NoBody /\ UNCHANGED missed
    BY <2>1 DEF NoBody
  <2>2. CASE pending' = [made EXCEPT !.state = "armed"] /\ missed' = (missed \/ made.read # length - left)
    BY <1>2, <2>2 DEF PendingBodies
  <2> QED BY <1>2, <2>1, <2>2 DEF Register
<1>3. Made.received = 0 /\ Made.state = "made"
  BY DEF Made, NoBody
<1>4. Made \in PendingBodies
  <2>1. (IF phase = "body" THEN length - left ELSE 0) \in Nat
    BY DEF Inv, PhaseInv, TypeOK
  <2> QED BY <1>0, <2>1 DEF Made, NoBody, PendingBodies
<1>5. /\ missed => missed'
      /\ pending'.received = (IF pending'.state = "done" THEN 1 ELSE 0)
  <2>1. CASE UNCHANGED <<pending, missed>>
    BY <1>0, <2>1
  <2>2. CASE WaitForBody
    BY <1>2, <1>3, <1>4, <2>2 DEF WaitForBody
  <2>3. CASE WorkerMakes
    BY <1>3, <2>3 DEF WorkerMakes
  <2>4. CASE WorkerRegisters
    <3>1. pending.state # "done"
      BY <2>4 DEF WorkerRegisters, Inv, BodyInv, MadeInv
    <3> QED BY <1>0, <1>2, <2>4, <3>1 DEF WorkerRegisters
  <2>5. CASE NoBodyToWaitFor
    BY <2>5 DEF NoBodyToWaitFor, NoBody
  <2>6. CASE Chain
    BY <1>0, <2>6 DEF Chain
  <2>7. CASE CallListener
    <3>1. UNCHANGED missed
      BY <2>7 DEF CallListener
    <3>2. CASE Listen
      BY <1>0, <3>1, <3>2 DEF Listen
    <3>3. ASSUME NEW size \in Nat, Received(size)
          PROVE  pending'.received = (IF pending'.state = "done" THEN 1 ELSE 0)
      <4>1. CASE WholeBody(size)
        <5>1. pending.state = "armed" /\ pending.received = 0
          BY <1>0, <4>1 DEF WholeBody
        <5>2. pending'.state = "done" /\ pending'.received = 0 + 1
          BY <1>0, <3>3, <4>1, <5>1 DEF Received, PendingBodies
        <5> QED BY <5>2
      <4>2. CASE ~WholeBody(size)
        BY <1>0, <3>3, <4>2 DEF Received, PendingBodies
      <4> QED BY <4>1, <4>2
    <3> QED BY <2>7, <3>1, <3>2, <3>3 DEF CallListener
  <2> QED BY <1>1, <2>1, <2>2, <2>3, <2>4, <2>5, <2>6, <2>7
<1>6. ~missed' => ~missed
  BY <1>5
<1>7. MadeInv'
  <2>1. (worker = "wait" <=> pending.state = "made") /\ pending.state \in {"none", "made", "armed", "done"}
    BY <1>0 DEF Inv, BodyInv, MadeInv, PendingBodies
  <2>2. CASE WaitForBody
    <3>1. pending.state # "made" /\ worker' = worker /\ Register(Made)
      BY <2>2 DEF WaitForBody, MayWait, StrandStage
    <3>2. pending'.state \in {"none", "armed"}
      BY <1>2, <1>3, <1>4, <3>1
    <3> QED BY <2>1, <3>1, <3>2 DEF MadeInv
  <2>3. CASE WorkerMakes
    BY <1>3, <2>3 DEF WorkerMakes, MadeInv
  <2>4. CASE WorkerRegisters
    <3>1. pending'.state \in {"none", "armed"} /\ worker' = "leave"
      BY <1>0, <1>2, <2>1, <2>4 DEF WorkerRegisters
    <3> QED BY <3>1 DEF MadeInv
  <2>5. CASE NoBodyToWaitFor
    BY <2>1, <2>5 DEF NoBodyToWaitFor, NoBody, MadeInv
  <2>6. CASE Chain
    BY <2>1, <2>6 DEF Chain, MadeInv
  <2>7. CASE CallListener
    <3>1. UNCHANGED worker
      BY <2>7 DEF CallListener
    <3>2. CASE Listen
      BY <2>1, <3>1, <3>2 DEF Listen, MadeInv
    <3>3. ASSUME NEW size \in Nat, Received(size) PROVE MadeInv'
      <4>1. CASE WholeBody(size)
        <5>1. pending.state = "armed" /\ pending'.state = "done"
          BY <1>0, <3>3, <4>1 DEF Received, WholeBody, PendingBodies
        <5> QED BY <2>1, <3>1, <5>1 DEF MadeInv
      <4>2. CASE ~WholeBody(size)
        <5>1. pending'.state = pending.state
          BY <1>0, <3>3, <4>2 DEF Received, PendingBodies
        <5> QED BY <2>1, <3>1, <5>1 DEF MadeInv
      <4> QED BY <4>1, <4>2
    <3> QED BY <2>7, <3>2, <3>3 DEF CallListener
  <2>8. ASSUME UNCHANGED pending, worker' = worker \/ (worker # "wait" /\ worker' # "wait") PROVE MadeInv'
    BY <2>1, <2>8 DEF MadeInv
  <2>9. CASE ~(CallListener \/ WaitForBody \/ WorkerMakes \/ WorkerRegisters \/ NoBodyToWaitFor \/ Chain)
    <3>1. UNCHANGED pending
      BY <1>1, <2>9
    <3>2. worker' = worker \/ (worker # "wait" /\ worker' # "wait")
      BY <2>9 DEF Strand, Reads, Application, Start, Ran, Continue, EndOfBody, OnWrite, ReadChunk,
                  ReadFails, ReadHeader, BodyTooLarge, Answer, Throw, HandOver, Shrink, GetBody,
                  StrandReturns, WorkerReturns, Stage, StrandStage, WorkerStage
    <3> QED BY <2>8, <3>1, <3>2
  <2> QED BY <2>2, <2>3, <2>4, <2>5, <2>6, <2>7, <2>9
<1> QED BY <1>5, <1>6, <1>7, ListeningStep, GetStep, WaitStep DEF BodyInv

-----------------------------------------------------------------------------
\* A new connection satisfies every part.
LEMMA InvInit == Init => Inv
<1> SUFFICES ASSUME Init PROVE Inv
  OBVIOUS
<1>1. TypeOK
  BY TypeInit
<1>2. PhaseInv /\ StrandInv /\ NoneInv
  BY DEF Init, PhaseInv, StrandInv, NoneInv, InRun, InListener, NoBody
<1>3. WrittenInv /\ RefsInv /\ BodyInv
  BY ListFacts DEF Init, WrittenInv, RefsInv, BodyInv, MadeInv, Listening, GetOnTime, WaitOnTime, InListener,
                   NoBody
<1> QED BY <1>1, <1>2, <1>3 DEF Inv

\* So does every later state.
LEMMA InvStep == Inv /\ [Next]_vars => Inv'
<1> SUFFICES ASSUME Inv, [Next]_vars PROVE Inv'
  OBVIOUS
<1>1. CASE ctx # "terminated" /\ (Strand \/ Application \/ StrandReturns \/ WorkerReturns)
  BY <1>1, TypeStep, PhaseStep, StrandStep, NoneStep, WrittenStep, RefsStep, BodyStep DEF Inv
<1>2. CASE UNCHANGED vars
  BY <1>2 DEF Inv, TypeOK, PhaseInv, StrandInv, NoneInv, WrittenInv, RefsInv, BodyInv, Listening,
              MadeInv, GetOnTime, WaitOnTime, StillReads, InRun, InListener, vars, parser, network, bodyVars, flow, thread, context
<1> QED BY <1>1, <1>2 DEF Next, Over

\* Everything above holds in every state a connection can reach.
LEMMA Invariance == Spec => []Inv
BY InvInit, InvStep, PTL DEF Spec

\* The state of a connection, its parser and its Context keeps its types.
THEOREM TypeCorrect == Spec => []TypeOK
<1>1. Inv => TypeOK
  BY DEF Inv
<1> QED BY <1>1, Invariance, PTL

\* Whatever strand, worker and callbacks do, at most one read and one write are in flight,
\* and one response is written: by on_body_too_large, by who answers, or by the end of the Context.
THEOREM OneResponse == Spec => []OneOperation
<1>1. Inv => OneOperation
  BY DEF Inv, TypeOK, StrandInv, WrittenInv, OneOperation
<1> QED BY <1>1, Invariance, PTL

\* A parser that waits for the body, on the strand or in a worker, is given once all that
\* was not read before it asked, for a body of any length (BodyParser::wait_for_body).
THEOREM WholeBodyOnce == Spec => []BodyComplete
<1>1. Inv => BodyComplete
  BY DEF Inv, TypeOK, BodyInv, WaitOnTime, BodyComplete
<1> QED BY <1>1, Invariance, PTL

\* A Context outlives the connection's last operation only when a read failed, or a
\* listener missed a chunk: Connection::read calls whoever is registered before the chunk
\* that follows what it has counted, a parser or a listener of get_body, until the end.
THEOREM ContextsEnd == Spec => []NobodyWaitsInVain
<1>1. Inv => NobodyWaitsInVain
  <2> SUFFICES ASSUME Inv, Quiet, ctx = "live"
               PROVE  refs \subseteq Listeners /\ (failed \/ (missed /\ phase = "complete"))
    BY DEF NobodyWaitsInVain
  <2>1. TypeOK /\ pc = "idle" /\ worker = "idle" /\ reads = 0
    BY DEF Inv, Quiet
  <2>2. refs \subseteq Listeners /\ refs # {}
    BY <2>1 DEF Inv, TypeOK, RefsInv, Holders
  <2>3. ~failed => phase = "complete" /\ left = 0
    BY <2>1 DEF Inv, StrandInv, PhaseInv
  <2>4. ASSUME ~missed, phase = "complete" PROVE FALSE
    <3>1. Listening /\ GetOnTime /\ WaitOnTime
      BY <2>4 DEF Inv, BodyInv
    <3>2. callback = <<>>
      BY <2>1, <2>4, <3>1 DEF Listening, StillReads
    <3>3. "get" \notin refs
      BY <2>1, <3>1, <3>2, ListFacts DEF GetOnTime, InListener
    <3>4. "wait" \notin refs
      BY <2>1, <3>1, <3>2, ListFacts DEF WaitOnTime, InListener
    <3> QED BY <2>2, <3>3, <3>4 DEF Listeners
  <2> QED BY <2>2, <2>3, <2>4
<1> QED BY <1>1, Invariance, PTL
=============================================================================
