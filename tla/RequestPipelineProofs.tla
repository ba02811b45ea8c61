------------------------ MODULE RequestPipelineProofs ------------------------
(***************************************************************************)
(* Proofs that the properties of the request pipeline hold for every       *)
(* number of parsers, handlers and threads.                                *)
(***************************************************************************)
EXTENDS RequestPipelineProperties, TLAPS

\* The positions of the pipeline, and what the assumptions say of them.
LEMMA PositionFacts ==
    /\ Stages \subseteq Positions /\ Positions \subseteq Nat \ {0}
    /\ 1 \in Positions /\ ParsersEnd \in Positions
    /\ FirstHandler \in Positions /\ HandlersEnd \in Positions
    /\ \A s \in Stages : s + 1 \in Positions
    /\ ParsersEnd \notin Stages /\ HandlersEnd \notin Stages
    /\ ParsersEnd # HandlersEnd
BY StagesAssumption
   DEF Stages, Positions, Parsers, Handlers, ParsersEnd, FirstHandler, HandlersEnd

\* The statuses that the code uses are codes; no code is not.
LEMMA CodeFacts == NoCode \notin Codes /\ {OK, BadRequest, NotFound, InternalError} \subseteq Codes
BY AppAssumption DEF Codes, NoCode, OK, BadRequest, NotFound, InternalError

\* The strand is a thread, and nobody is not.
LEMMA ThreadFacts == Strand \in Threads /\ NoThread \notin Threads
BY ThreadsAssumption DEF Threads

-----------------------------------------------------------------------------
\* Where the innermost frame of a thread is.
LEMMA TopType ==
    ASSUME TypeOK, NEW t \in Threads
    PROVE  Top(t) \in Positions \cup {0}
<1>1. CASE stack[t] = <<>>
  BY <1>1, PositionFacts DEF TypeOK, Top
<1>2. CASE stack[t] # <<>>
  <2>1. stack[t] \in Seq(Positions)
    BY DEF TypeOK
  <2>2. Head(stack[t]) \in Positions
    BY <1>2, <2>1
  <2> QED
    BY <1>2, <2>2 DEF Top
<1> QED
  BY <1>1, <1>2

\* What the operators that actions share leave of the types.
LEMMA GotoType ==
    ASSUME TypeOK, NEW t \in Threads, NEW label \in PCs \ {"protect"}, Goto(t, label)
    PROVE  /\ pc' \in [Threads -> PCs]
           /\ \A u \in Threads : pc'[u] = "protect" => pc[u] = "protect"
BY DEF TypeOK, Goto, PCs

\* The step to the next stage keeps the types.
LEMMA GoProtectType ==
    ASSUME TypeOK, NEW t \in Threads, NEW position \in Positions, GoProtect(t, position)
    PROVE  /\ pc' \in [Threads -> PCs]
           /\ next' \in [Threads -> Positions \cup {0}]
           /\ \A u \in Threads : pc'[u] = "protect" => next'[u] # 0
BY PositionFacts DEF TypeOK, GoProtect, Goto, PCs

\* So does the way back to the caller.
LEMMA GoBackType ==
    ASSUME TypeOK, NEW t \in Threads, GoBack(t)
    PROVE  /\ pc' \in [Threads -> PCs]
           /\ \A u \in Threads : pc'[u] = "protect" => pc[u] = "protect"
           /\ level' \in [Threads -> 0 .. 2]
<1>1. PICK label \in {"user", "return"} : Goto(t, label)
  BY DEF GoBack
<1>2. label \in PCs \ {"protect"}
  BY DEF PCs
<1> QED
  BY <1>1, <1>2, GotoType DEF GoBack, TypeOK

\* So does an exception, whoever catches it.
LEMMA RaiseType ==
    ASSUME TypeOK, NEW t \in Threads, Raise(t)
    PROVE  /\ ctx' \in {ctx, "terminated"}
           /\ pc' \in [Threads -> PCs]
           /\ \A u \in Threads : pc'[u] = "protect" => pc[u] = "protect"
           /\ level' \in [Threads -> 0 .. 2]
<1>1. CASE stack[t] = <<>>
  BY <1>1 DEF Raise, TypeOK
<1>2. CASE stack[t] # <<>>
  <2>1. Goto(t, "catch") /\ ctx' = ctx /\ level' = [level EXCEPT ![t] = 1]
    BY <1>2 DEF Raise
  <2>2. "catch" \in PCs \ {"protect"}
    BY DEF PCs
  <2>3. /\ pc' \in [Threads -> PCs]
        /\ \A u \in Threads : pc'[u] = "protect" => pc[u] = "protect"
    BY <2>1, <2>2, GotoType
  <2>4. level' \in [Threads -> 0 .. 2]
    BY <2>1 DEF TypeOK
  <2> QED
    BY <2>1, <2>3, <2>4
<1> QED
  BY <1>1, <1>2

\* So does an exception inside dispatch_exception.
LEMMA LevelType ==
    ASSUME TypeOK, NEW t \in Threads, level' \in {level, [level EXCEPT ![t] = 2]}
    PROVE  level' \in [Threads -> 0 .. 2]
<1>1. level \in [Threads -> 0 .. 2] /\ 2 \in 0 .. 2
  BY DEF TypeOK
<1>2. [level EXCEPT ![t] = 2] \in [Threads -> 0 .. 2]
  BY <1>1
<1> QED
  BY <1>1, <1>2

\* So does sending.
LEMMA SendType ==
    ASSUME TypeOK, NEW t \in Threads, Send(t)
    PROVE  sent' \in BOOLEAN /\ writing' \subseteq Threads
BY DEF TypeOK, Send

\* So does the last reference, which sends.
LEMMA ReleaseType ==
    ASSUME TypeOK, NEW t \in Threads, NEW s, Release(t, s)
    PROVE  /\ ctx' \in {ctx, "destroyed"}
           /\ sent' \in BOOLEAN /\ writing' \subseteq Threads
<1>1. CASE LastReference(t, s)
  BY <1>1, SendType DEF Release
<1>2. CASE ~LastReference(t, s)
  BY <1>2 DEF Release, TypeOK
<1> QED
  BY <1>1, <1>2

\* So does an answer of a stage.
LEMMA AnswersType ==
    ASSUME TypeOK, NEW t \in Threads, Top(t) \in Stages, NEW verdict \in Verdicts,
           Answer(t, verdict)
    PROVE  /\ answers' \in [Stages -> 0 .. MaxAnswers]
           /\ verdicts' \in [Stages -> SUBSET Verdicts]
<1>1. answers[Top(t)] \in 0 .. MaxAnswers
  BY DEF TypeOK
<1>2. answers[Top(t)] + 1 \in 0 .. MaxAnswers
  BY <1>1, StagesAssumption DEF Answer
<1>3. verdicts[Top(t)] \cup {verdict} \in SUBSET Verdicts
  BY DEF TypeOK
<1> QED
  BY <1>2, <1>3 DEF TypeOK, Answer

\* A new request is well typed.
LEMMA InitType == Init => TypeOK
<1> SUFFICES ASSUME Init PROVE TypeOK
  OBVIOUS
<1>1. stack \in [Threads -> Seq(Positions)]
  BY DEF Init
<1>2. /\ answers \in [Stages -> 0 .. MaxAnswers]
      /\ level \in [Threads -> 0 .. 2]
  BY StagesAssumption DEF Init
<1>3. status \in Codes
  BY CodeFacts DEF Init
<1> QED
  BY <1>1, <1>2, <1>3 DEF Init, TypeOK, PCs

\* Every step keeps the types.
LEMMA NextType == TypeOK /\ [Next]_vars => TypeOK'
<1> SUFFICES ASSUME TypeOK, [Next]_vars PROVE TypeOK'
  OBVIOUS
<1> USE ThreadFacts, CodeFacts, PositionFacts
<1>1. CASE Run
  BY <1>1 DEF TypeOK, PCs, Run, GoProtect, Goto, response, outcome, app
<1>2. CASE OnWrite
  BY <1>2 DEF TypeOK, OnWrite, control, outcome, app
<1>3. CASE UNCHANGED vars
  BY <1>3 DEF TypeOK, vars, control, response, outcome, app
<1>0. ASSUME NEW t \in Threads, Write(t) PROVE TypeOK'
  BY <1>0 DEF TypeOK, Write, control, outcome, app
<1>4. ASSUME NEW t \in Threads, Pipeline(t) PROVE TypeOK'
  <2>0. Top(t) \in Positions \cup {0}
    BY TopType
  <2>1. CASE Protect(t)
    <3>1. next[t] \in Positions
      BY <2>1 DEF Protect, At, TypeOK
    <3> QED
      BY <2>1, <3>1 DEF TypeOK, PCs, Protect, At, Goto, response, outcome
  <2>2. CASE OnParsed(t)
    <3>1. CASE sent
      <4>1. /\ pc' \in [Threads -> PCs]
            /\ \A u \in Threads : pc'[u] = "protect" => pc[u] = "protect"
        BY <2>2, <3>1, GotoType DEF PCs, OnParsed, Handled
      <4> QED
        BY <2>2, <3>1, <4>1 DEF TypeOK, OnParsed, Handled, app
    <3>2. CASE ~sent /\ pc[t] = "parsed"
      <4>1. GoProtect(t, FirstHandler)
        BY <2>2, <3>2 DEF OnParsed
      <4> QED
        BY <2>2, <3>2, <4>1, GoProtectType DEF TypeOK, OnParsed, app
    <3>3. CASE ~sent /\ pc[t] = "unparsed"
      <4>1. /\ pc' \in [Threads -> PCs]
            /\ \A u \in Threads : pc'[u] = "protect" => pc[u] = "protect"
        BY <2>2, <3>3, GotoType DEF PCs, OnParsed
      <4> QED
        BY <2>2, <3>3, <4>1 DEF TypeOK, Codes, OnParsed, app
    <3> QED
      BY <2>2, <3>1, <3>2, <3>3 DEF OnParsed, At
  <2>3. CASE ErrorView(t)
    BY <2>3 DEF TypeOK, PCs, ErrorView, At, Goto, app
  <2>4. CASE Render(t)
    <3> USE <2>4 DEF Render, NothingWritten
    <3>1. CASE Goto(t, "finish") /\ UNCHANGED <<ctx, level, sent, writing>>
      BY <3>1 DEF TypeOK, PCs, Goto, outcome, app
    <3>2. CASE Send(t) /\ Goto(t, "finish") /\ UNCHANGED <<ctx, level>>
      BY <3>2, SendType DEF TypeOK, PCs, Goto, outcome, app
    <3>3. CASE Raise(t) /\ UNCHANGED <<sent, writing>>
      <4>1. /\ pc' \in [Threads -> PCs]
            /\ \A u \in Threads : pc'[u] = "protect" => pc[u] = "protect"
            /\ ctx' \in {"created", "live", "destroyed", "terminated"} /\ level' \in [Threads -> 0 .. 2]
        BY <3>3, RaiseType DEF TypeOK
      <4> QED
        BY <3>3, <4>1 DEF TypeOK, outcome, app
    <3>4. CASE /\ Goto(t, "respond") /\ level' = [level EXCEPT ![t] = 2]
               /\ UNCHANGED <<ctx, sent, writing>>
      <4>1. /\ pc' \in [Threads -> PCs]
            /\ \A u \in Threads : pc'[u] = "protect" => pc[u] = "protect"
            /\ level' \in [Threads -> 0 .. 2]
        BY <3>4, GotoType, LevelType DEF PCs
      <4> QED
        BY <3>4, <4>1 DEF TypeOK, outcome, app
    <3>5. CASE GoBack(t) /\ UNCHANGED <<ctx, sent, writing>>
      <4>1. /\ pc' \in [Threads -> PCs]
            /\ \A u \in Threads : pc'[u] = "protect" => pc[u] = "protect"
            /\ level' \in [Threads -> 0 .. 2]
        BY <3>5, GoBackType
      <4> QED
        BY <3>5, <4>1 DEF TypeOK, outcome, app
    <3> QED
      BY <3>1, <3>2, <3>3, <3>4, <3>5
  <2>5. CASE ReadCode(t)
    BY <2>5 DEF TypeOK, PCs, ReadCode, At, Goto, response, outcome, app
  <2>6. CASE Claim(t)
    <3>1. CASE finished
      <4>1. /\ GoBack(t) /\ code' = [code EXCEPT ![t] = NoCode] /\ finished' = TRUE
            /\ UNCHANGED <<ctx, stack, base, next, owner, response, promise, handled, app>>
        BY <2>6, <3>1 DEF Claim
      <4>2. code' \in [Threads -> Codes \cup {NoCode}]
        BY <4>1 DEF TypeOK
      <4> QED
        BY <4>1, <4>2, GoBackType DEF TypeOK, response, app
    <3>2. CASE ~finished
      <4>1. /\ pc' \in [Threads -> PCs]
            /\ \A u \in Threads : pc'[u] = "protect" => pc[u] = "protect"
        BY <2>6, <3>2, GotoType DEF PCs, Claim
      <4> QED
        BY <2>6, <3>2, <4>1 DEF TypeOK, Claim, response, app
    <3> QED
      BY <3>1, <3>2
  <2>7. CASE FinalSend(t)
    BY <2>7, SendType DEF TypeOK, PCs, FinalSend, NothingWritten, At, Goto, outcome, app
  <2>8. CASE Resolve(t)
    <3>1. /\ pc' \in [Threads -> PCs]
          /\ \A u \in Threads : pc'[u] = "protect" => pc[u] = "protect"
          /\ level' \in [Threads -> 0 .. 2]
      BY <2>8, GoBackType DEF Resolve
    <3> QED
      BY <2>8, <3>1 DEF TypeOK, Resolve, At, response, app
  <2>9. CASE Catch(t)
    <3>1. CASE GoBack(t)
      <4>1. /\ pc' \in [Threads -> PCs]
            /\ \A u \in Threads : pc'[u] = "protect" => pc[u] = "protect"
            /\ level' \in [Threads -> 0 .. 2]
        BY <3>1, GoBackType
      <4> QED
        BY <2>9, <4>1 DEF TypeOK, Catch, response, outcome, app
    <3>2. CASE Goto(t, "respond") /\ level' \in {level, [level EXCEPT ![t] = 2]}
      <4>1. level' \in [Threads -> 0 .. 2]
        BY <3>2, LevelType
      <4>2. /\ pc' \in [Threads -> PCs]
            /\ \A u \in Threads : pc'[u] = "protect" => pc[u] = "protect"
        BY <3>2, GotoType DEF PCs
      <4> QED
        BY <2>9, <4>1, <4>2 DEF TypeOK, Catch, response, outcome, app
    <3> QED
      BY <2>9, <3>1, <3>2 DEF Catch
  <2>10. CASE Respond(t)
    BY <2>10 DEF TypeOK, PCs, Respond, At, Goto, outcome, app
  <2>11. CASE CheckFinished(t)
    <3>1. CASE finished
      <4>1. /\ pc' \in [Threads -> PCs]
            /\ \A u \in Threads : pc'[u] = "protect" => pc[u] = "protect"
            /\ level' \in [Threads -> 0 .. 2]
        BY <2>11, <3>1, GoBackType DEF CheckFinished
      <4> QED
        BY <2>11, <4>1 DEF TypeOK, CheckFinished, response, outcome, app
    <3>2. CASE ~finished
      <4>1. /\ pc' \in [Threads -> PCs]
            /\ \A u \in Threads : pc'[u] = "protect" => pc[u] = "protect"
        BY <2>11, <3>2, GotoType DEF PCs, CheckFinished
      <4> QED
        BY <2>11, <3>2, <4>1 DEF TypeOK, CheckFinished, response, outcome, app
    <3> QED
      BY <3>1, <3>2
  <2>12. CASE Return(t)
    <3> DEFINE rest == IF stack[t] = <<>> THEN <<>> ELSE Tail(stack[t])
    <3>1. rest \in Seq(Positions)
      BY DEF TypeOK
    <3>2. stack' \in [Threads -> Seq(Positions)]
      BY <2>12, <3>1 DEF TypeOK, Return
    <3>3. owner' \in Threads \cup {NoThread}
      BY <2>12 DEF TypeOK, Return, Unlock
    <3>4. /\ pc' \in [Threads -> PCs] /\ base' \in [Threads -> Stages \cup {0}]
          /\ \A u \in Threads : pc'[u] = "protect" => next'[u] # 0
      <4>1. base' \in [Threads -> Stages \cup {0}] /\ next' = next
        BY <2>12 DEF TypeOK, Return
      <4>2. PICK label \in {"idle", "user", "return"} : Goto(t, label)
        BY <2>12 DEF Return
      <4>3. label \in PCs \ {"protect"}
        BY DEF PCs
      <4> QED
        BY <4>1, <4>2, <4>3, GotoType DEF TypeOK
    <3>5. /\ ctx' \in {"created", "live", "destroyed", "terminated"}
          /\ sent' \in BOOLEAN /\ writing' \subseteq Threads
      BY <2>12, ReleaseType DEF TypeOK, Return
    <3> QED
      BY <2>12, <3>2, <3>3, <3>4, <3>5 DEF TypeOK, Return, NothingWritten, outcome, app
  <2> QED
    BY <1>4, <2>1, <2>2, <2>3, <2>4, <2>5, <2>6, <2>7, <2>8, <2>9, <2>10, <2>11, <2>12
       DEF Pipeline
<1>5. ASSUME NEW t \in Threads, Application(t) PROVE TypeOK'
  <2>0. Top(t) \in Positions \cup {0}
    BY TopType
  <2>1. CASE AnswerParser(t)
    <3>1. Top(t) \in Stages
      BY <2>1 DEF AnswerParser, Stages
    <3>2. /\ answers' \in [Stages -> 0 .. MaxAnswers]
          /\ verdicts' \in [Stages -> SUBSET Verdicts]
      BY <2>1, <3>1, AnswersType DEF AnswerParser, Verdicts
    <3> QED
      <4>1. CASE GoProtect(t, Top(t) + 1)
        <5>0. Top(t) + 1 \in Positions
          BY <3>1, PositionFacts
        <5>1. /\ pc' \in [Threads -> PCs] /\ next' \in [Threads -> Positions \cup {0}]
              /\ \A u \in Threads : pc'[u] = "protect" => next'[u] # 0
          BY <4>1, <5>0, GoProtectType
        <5> QED
          BY <2>1, <3>2, <5>1 DEF TypeOK, AnswerParser, response, outcome
      <4>2. CASE (Goto(t, "unparsed") \/ Goto(t, "parsed")) /\ UNCHANGED next
        <5>1. /\ pc' \in [Threads -> PCs]
              /\ \A u \in Threads : pc'[u] = "protect" => pc[u] = "protect"
          BY <4>2, GotoType DEF PCs
        <5> QED
          BY <2>1, <3>2, <4>2, <5>1 DEF TypeOK, AnswerParser, response, outcome
      <4> QED
        BY <2>1, <4>1, <4>2 DEF AnswerParser
  <2>2. CASE AnswerHandler(t)
    <3>1. Top(t) \in Stages
      BY <2>2 DEF AnswerHandler, Stages
    <3>2. /\ answers' \in [Stages -> 0 .. MaxAnswers]
          /\ verdicts' \in [Stages -> SUBSET Verdicts]
      BY <2>2, <3>1, AnswersType DEF AnswerHandler, Verdicts
    <3> QED
      <4>1. CASE GoProtect(t, Top(t) + 1) /\ UNCHANGED handled
        <5>0. Top(t) + 1 \in Positions
          BY <3>1, PositionFacts
        <5>1. /\ pc' \in [Threads -> PCs] /\ next' \in [Threads -> Positions \cup {0}]
              /\ \A u \in Threads : pc'[u] = "protect" => next'[u] # 0
          BY <4>1, <5>0, GoProtectType
        <5> QED
          BY <2>2, <3>2, <4>1, <5>1 DEF TypeOK, AnswerHandler, response
      <4>2. CASE Handled(t)
        BY <2>2, <3>2, <4>2 DEF TypeOK, PCs, AnswerHandler, Handled, At, Goto, response
      <4> QED
        BY <2>2, <4>1, <4>2 DEF AnswerHandler
  <2>3. CASE StageReturns(t)
    BY <2>3 DEF TypeOK, PCs, StageReturns, At, Goto, response, outcome, app
  <2>4. CASE StageThrows(t)
    <3>1. /\ pc' \in [Threads -> PCs]
          /\ \A u \in Threads : pc'[u] = "protect" => pc[u] = "protect"
          /\ ctx' \in {"created", "live", "destroyed", "terminated"} /\ level' \in [Threads -> 0 .. 2]
      BY <2>4, RaiseType DEF StageThrows, TypeOK
    <3> QED
      BY <2>4, <3>1 DEF TypeOK, StageThrows, response, outcome, app
  <2>5. CASE StageSetsStatus(t)
    BY <2>5 DEF TypeOK, Codes, StageSetsStatus, control, outcome, app
  <2>6. CASE StageSends(t)
    BY <2>6, SendType DEF TypeOK, StageSends, NothingWritten, control, outcome, app
  <2>7. CASE StageHolds(t)
    BY <2>7 DEF TypeOK, StageHolds, control, response, outcome
  <2>8. ASSUME NEW s \in Stages, Resume(t, s) PROVE TypeOK'
    <3>1. CASE GoProtect(t, s) /\ UNCHANGED base
      BY <2>8, <3>1, GoProtectType DEF TypeOK, Resume, response, outcome
    <3>2. CASE Goto(t, "user") /\ base' = [base EXCEPT ![t] = s] /\ UNCHANGED next
      BY <2>8, <3>2 DEF TypeOK, PCs, Resume, Goto, response, outcome
    <3> QED
      BY <2>8, <3>1, <3>2 DEF Resume
  <2>9. ASSUME NEW s \in Stages, Drop(t, s) PROVE TypeOK'
    BY <2>9, ReleaseType DEF TypeOK, Drop, NothingWritten, control, outcome
  <2> QED
    BY <1>5, <2>1, <2>2, <2>3, <2>4, <2>5, <2>6, <2>7, <2>8, <2>9 DEF Application
<1> QED
  BY <1>0, <1>1, <1>2, <1>3, <1>4, <1>5 DEF Next, Over

\* Type correctness of the pipeline, whatever the numbers of stages and threads.
THEOREM TypeCorrect == Spec => []TypeOK
<1>1. Init => TypeOK
  BY InitType
<1>2. TypeOK /\ [Next]_vars => TypeOK'
  BY NextType
<1> QED
  BY <1>1, <1>2, PTL DEF Spec

-----------------------------------------------------------------------------
\* Only Protect and Return open and close frames; the mutex follows the frames.
LEMMA FramesKept ==
    ASSUME [Next]_vars
    PROVE  \/ UNCHANGED <<stack, owner>>
           \/ \E t \in Threads : Protect(t) \/ Return(t)
<1>1. CASE Run \/ OnWrite \/ Over \/ UNCHANGED vars \/ \E t \in Threads : Write(t)
  BY <1>1 DEF Run, OnWrite, Over, vars, control, Write
<1>2. ASSUME NEW t \in Threads, Pipeline(t)
      PROVE  UNCHANGED <<stack, owner>> \/ Protect(t) \/ Return(t)
  BY <1>2 DEF Pipeline, OnParsed, ErrorView, Render, ReadCode, Claim, FinalSend, Resolve,
              Catch, Respond, CheckFinished
<1>3. ASSUME NEW t \in Threads, Application(t)
      PROVE  UNCHANGED <<stack, owner>>
  BY <1>3 DEF Application, AnswerParser, AnswerHandler, StageReturns, StageThrows,
              StageSetsStatus, StageSends, StageHolds, Resume, Drop, control
<1> QED
  BY <1>1, <1>2, <1>3 DEF Next

\* Every step keeps threads without the mutex out of protect.
LEMMA ProtectExcludesStep ==
    ASSUME TypeOK, ProtectExcludes, [Next]_vars
    PROVE  ProtectExcludes'
<1>1. CASE UNCHANGED <<stack, owner>>
  BY <1>1 DEF ProtectExcludes
<1>2. ASSUME NEW t \in Threads, Protect(t) PROVE ProtectExcludes'
  <2>1. owner \in {NoThread, t} /\ owner' = t
    BY <1>2 DEF Protect
  <2>2. stack'[t] # <<>> /\ \A u \in Threads \ {t} : stack'[u] = stack[u]
    <3>1. stack[t] \in Seq(Positions) /\ next[t] \in Positions
      BY <1>2, PositionFacts DEF TypeOK, Protect, At
    <3>2. <<next[t]>> \o stack[t] # <<>>
      BY <3>1
    <3> QED
      BY <1>2, <3>2 DEF TypeOK, Protect
  <2> QED
    BY <2>1, <2>2, ThreadFacts DEF ProtectExcludes
<1>3. ASSUME NEW t \in Threads, Return(t) PROVE ProtectExcludes'
  <2> DEFINE rest == IF stack[t] = <<>> THEN <<>> ELSE Tail(stack[t])
  <2>1. stack'[t] = rest /\ \A u \in Threads \ {t} : stack'[u] = stack[u]
    BY <1>3 DEF TypeOK, Return
  <2>2. owner' = IF stack[t] # <<>> /\ rest = <<>> THEN NoThread ELSE owner
    BY <1>3 DEF Return, Unlock
  <2>3. CASE stack[t] # <<>> /\ rest = <<>>
    <3>1. owner = t
      BY <2>3 DEF ProtectExcludes
    <3> QED
      BY <2>1, <2>2, <2>3, <3>1, ThreadFacts DEF ProtectExcludes
  <2>4. CASE ~(stack[t] # <<>> /\ rest = <<>>)
    BY <2>1, <2>2, <2>4 DEF ProtectExcludes
  <2> QED
    BY <2>3, <2>4
<1> QED
  BY <1>1, <1>2, <1>3, FramesKept

\* The mutex protects the stages from each other, for any number of threads.
THEOREM StagesExclude == Spec => []ProtectExcludes
<1>1. Init => ProtectExcludes
  BY ThreadFacts DEF Init, ProtectExcludes
<1>2. TypeOK /\ ProtectExcludes /\ [Next]_vars => ProtectExcludes'
  BY ProtectExcludesStep
<1> QED
  BY <1>1, <1>2, TypeCorrect, PTL DEF Spec

-----------------------------------------------------------------------------
\* A step of a thread leaves the other threads where they are, and is one of a living context.
LEMMA StepIsLocal ==
    ASSUME TypeOK, NEW t \in Threads, Pipeline(t) \/ Application(t)
    PROVE  ctx = "live" /\ \A u \in Threads \ {t} : pc'[u] = pc[u]
<1>1. ASSUME Pipeline(t) PROVE ctx = "live" /\ \A u \in Threads \ {t} : pc'[u] = pc[u]
  BY <1>1 DEF TypeOK, Pipeline, At, Protect, OnParsed, Handled, ErrorView, Render, Raise,
              ReadCode, Claim, FinalSend, Resolve, Catch, Respond, CheckFinished, Return, Goto,
              GoBack, GoProtect
<1>2. ASSUME Application(t) PROVE ctx = "live" /\ \A u \in Threads \ {t} : pc'[u] = pc[u]
  BY <1>2 DEF TypeOK, Application, At, AnswerParser, AnswerHandler, Handled, GoProtect, Goto,
              StageReturns, StageThrows, Raise, StageSetsStatus, StageSends, StageHolds,
              Resume, Drop, control
<1> QED
  BY <1>1, <1>2

\* Only threads of a living context send; what the client sees changes by Write only.
LEMMA SendOrKeep ==
    ASSUME [Next]_vars
    PROVE  \/ UNCHANGED <<sent, writing, wire, writes>>
           \/ \E t \in Threads : ctx = "live" /\ Send(t) /\ UNCHANGED <<wire, writes>>
           \/ \E t \in Threads : Write(t)
<1> DEFINE Kept     == UNCHANGED <<sent, writing, wire, writes>>
           Sends(t) == ctx = "live" /\ Send(t) /\ UNCHANGED <<wire, writes>>
<1>1. CASE Run \/ OnWrite \/ Over \/ UNCHANGED vars
  BY <1>1 DEF Run, OnWrite, Over, vars, response
<1>2. ASSUME NEW t \in Threads, Pipeline(t) PROVE Kept \/ Sends(t)
  <2>1. CASE Return(t)
    BY <2>1 DEF Return, Release, NothingWritten, At
  <2>2. CASE Render(t) \/ FinalSend(t)
    BY <2>2 DEF Render, FinalSend, NothingWritten, At
  <2> QED
    BY <1>2, <2>1, <2>2
       DEF Pipeline, Protect, OnParsed, ErrorView, ReadCode, Claim, Resolve, Catch, Respond,
           CheckFinished, response
<1>3. ASSUME NEW t \in Threads, Application(t) PROVE Kept \/ Sends(t)
  BY <1>3 DEF Application, AnswerParser, AnswerHandler, StageReturns, StageThrows,
              StageSetsStatus, StageSends, StageHolds, Resume, Drop, Release, NothingWritten,
              response, At
<1> QED
  BY <1>1, <1>2, <1>3 DEF Next

\* A response was written exactly when a status is on the wire.
OnTheWire == writes = 1 <=> wire # NoCode

\* Every step keeps one response, with the status on the wire.
LEMMA ResponseStep ==
    ASSUME TypeOK, SingleResponse, OnTheWire, [Next]_vars
    PROVE  SingleResponse' /\ OnTheWire'
<1>1. CASE UNCHANGED <<sent, writing, wire, writes>>
  BY <1>1 DEF SingleResponse, OnTheWire
<1>2. ASSUME NEW t \in Threads, Send(t), UNCHANGED <<wire, writes>>
      PROVE  SingleResponse' /\ OnTheWire'
  <2>1. CASE sent
    BY <1>2, <2>1 DEF Send, SingleResponse, OnTheWire
  <2>2. CASE ~sent
    <3>1. sent' = TRUE /\ writes' = 0 /\ writing' = {t}
      BY <1>2, <2>2 DEF Send, SingleResponse
    <3> QED
      BY <1>2, <3>1 DEF SingleResponse, OnTheWire
  <2> QED
    BY <2>1, <2>2 DEF TypeOK
<1>3. ASSUME NEW t \in Threads, Write(t) PROVE SingleResponse' /\ OnTheWire'
  <2>1. t \in writing /\ sent' = sent /\ wire' = status /\ writes' = writes + 1 /\ writing' = writing \ {t}
    BY <1>3 DEF Write
  <2>2. sent /\ writes = 0 /\ writing = {t}
    BY <2>1 DEF SingleResponse
  <2>3. status # NoCode
    BY CodeFacts DEF TypeOK
  <2> QED
    BY <2>1, <2>2, <2>3 DEF SingleResponse, OnTheWire
<1> QED
  BY <1>1, <1>2, <1>3, SendOrKeep

\* The client gets one response at most, whoever races to send it; and somebody writes it
\* once it counts as sent.
THEOREM OneResponse == Spec => [](SingleResponse /\ OnTheWire)
<1>1. Init => SingleResponse /\ OnTheWire
  BY DEF Init, SingleResponse, OnTheWire
<1>2. TypeOK /\ SingleResponse /\ OnTheWire /\ [Next]_vars => (SingleResponse /\ OnTheWire)'
  BY ResponseStep
<1> QED
  BY <1>1, <1>2, TypeCorrect, PTL DEF Spec

-----------------------------------------------------------------------------
\* Where threads are that are about to write: in a stage, after an error view, in
\* on_finished, or in the destructor.
WritersAtWork ==
    /\ ctx = "created" => writing = {}
    /\ \A t \in writing : ctx = "destroyed" \/ pc[t] \in {"user", "finish", "resolve"}

\* Every step leaves such a thread where it is until it wrote.
LEMMA WritersStep ==
    ASSUME TypeOK, WritersAtWork, [Next]_vars
    PROVE  WritersAtWork'
<1>1. CASE OnWrite \/ Over \/ UNCHANGED vars
  <2>1. UNCHANGED <<ctx, pc, writing>>
    BY <1>1 DEF OnWrite, Over, vars, control, response
  <2> QED
    BY <2>1 DEF WritersAtWork
<1>2. CASE Run
  <2>1. writing' = {}
    BY <1>2 DEF Run, response, WritersAtWork
  <2> QED
    BY <2>1 DEF WritersAtWork
<1>3. ASSUME NEW t \in Threads, Write(t) PROVE WritersAtWork'
  <2>1. UNCHANGED <<ctx, pc>> /\ writing' \subseteq writing
    BY <1>3 DEF Write, control
  <2> QED
    BY <2>1 DEF WritersAtWork
<1>4. ASSUME NEW t \in Threads, Pipeline(t) \/ Application(t), ctx' # "created",
             writing' \subseteq writing \cup {t},
             t \in writing' => ctx' = "destroyed" \/ pc'[t] \in {"user", "finish", "resolve"}
      PROVE  WritersAtWork'
  BY <1>4, StepIsLocal DEF WritersAtWork, TypeOK
<1>5. ASSUME NEW t \in Threads, Pipeline(t) PROVE WritersAtWork'
  <2>1. t \notin writing /\ ctx = "live"
    BY <1>5 DEF Pipeline, At, Protect, OnParsed, ErrorView, Render, ReadCode, Claim, FinalSend,
                Resolve, Catch, Respond, CheckFinished, Return
  <2>2. ctx' # "created"
    BY <1>5, <2>1 DEF Pipeline, Protect, OnParsed, ErrorView, Render, Raise, ReadCode, Claim,
                      FinalSend, Resolve, Catch, Respond, CheckFinished, Return, Release
  <2>3. CASE Render(t) \/ FinalSend(t)
    <3>1. \/ UNCHANGED writing
          \/ Send(t) /\ (Goto(t, "finish") \/ Goto(t, "resolve"))
      BY <2>3 DEF Render, FinalSend
    <3>2. Goto(t, "finish") \/ Goto(t, "resolve") => pc'[t] \in {"user", "finish", "resolve"}
      BY DEF Goto, TypeOK
    <3> QED
      BY <1>4, <1>5, <2>1, <2>2, <3>1, <3>2 DEF Send
  <2>4. CASE Return(t)
    <3>1. UNCHANGED writing \/ (Send(t) /\ ctx' = "destroyed")
      BY <2>4 DEF Return, Release
    <3> QED
      BY <1>4, <1>5, <2>1, <2>2, <3>1 DEF Send
  <2>5. CASE UNCHANGED writing
    BY <1>4, <1>5, <2>1, <2>2, <2>5
  <2> QED
    BY <1>5, <2>3, <2>4, <2>5
       DEF Pipeline, Protect, OnParsed, ErrorView, ReadCode, Claim, Resolve, Catch, Respond,
           CheckFinished, response
<1>6. ASSUME NEW t \in Threads, Application(t) PROVE WritersAtWork'
  <2>1. t \notin writing /\ ctx = "live"
    <3>1. ctx = "live" /\ (t \notin writing \/ pc[t] = "idle")
      BY <1>6 DEF Application, At, AnswerParser, AnswerHandler, StageReturns, StageThrows,
                  StageSetsStatus, StageSends, StageHolds, Resume, Drop
    <3> QED
      BY <3>1 DEF WritersAtWork
  <2>2. ctx' # "created"
    BY <1>6, <2>1 DEF Application, AnswerParser, AnswerHandler, StageReturns, StageThrows, Raise,
                StageSetsStatus, StageSends, StageHolds, Resume, Drop, Release
  <2>3. \/ UNCHANGED writing
        \/ Send(t) /\ ctx' = "destroyed"
        \/ Send(t) /\ pc'[t] = "user"
    BY <1>6 DEF Application, AnswerParser, AnswerHandler, StageReturns, StageThrows,
                StageSetsStatus, StageSends, StageHolds, Resume, Drop, Release, response,
                control, At
  <2> QED
    BY <1>4, <1>6, <2>1, <2>2, <2>3 DEF Send
<1> QED
  BY <1>1, <1>2, <1>3, <1>5, <1>6 DEF Next

\* Nobody is about to write when the last reference to the context goes away: a response
\* that counts as sent was written by then.
LEMMA WrittenByThen ==
    ASSUME TypeOK, SingleResponse, OnTheWire, WritersAtWork, NEW t \in Threads, NEW s,
           ctx = "live", t \notin writing, LastReference(t, s), sent
    PROVE  wire # NoCode
<1>1. \A u \in writing : u = t
  BY DEF WritersAtWork, LastReference, TypeOK
<1> QED
  BY <1>1 DEF SingleResponse, OnTheWire

-----------------------------------------------------------------------------
\* A thread that is not in the code of the context has no frame of it.
IdleHasNoFrame ==
    \A t \in Threads : pc[t] = "idle" => stack[t] = <<>> /\ base[t] = 0

\* A thread gets idle by Return only, and gets a frame only when it is not idle.
LEMMA IdleStep ==
    ASSUME TypeOK, IdleHasNoFrame, [Next]_vars
    PROVE  IdleHasNoFrame'
<1>1. CASE Run \/ OnWrite \/ Over \/ UNCHANGED vars \/ \E t \in Threads : Write(t)
  BY <1>1 DEF IdleHasNoFrame, TypeOK, Run, GoProtect, Goto, OnWrite, Over, vars, control, Write
<1>2. ASSUME NEW t \in Threads, Pipeline(t), ~Return(t) PROVE IdleHasNoFrame'
  <2>1. pc[t] # "idle" /\ base' = base
    BY <1>2 DEF Pipeline, At, Protect, OnParsed, ErrorView, Render, ReadCode, Claim, FinalSend,
                Resolve, Catch, Respond, CheckFinished
  <2>2. \A u \in Threads \ {t} : stack'[u] = stack[u] /\ pc'[u] = pc[u]
    BY <1>2 DEF TypeOK, Pipeline, At, Protect, OnParsed, Handled, ErrorView, Render, Raise,
                ReadCode, Claim, FinalSend, Resolve, Catch, Respond, CheckFinished, Goto,
                GoBack, GoProtect
  <2>3. pc'[t] # "idle"
    <3>1. pc' = pc \/ \E label \in PCs \ {"idle"} : pc' = [pc EXCEPT ![t] = label]
      <4>1. CASE Protect(t)
        <5>1. PICK label \in {"parsed", "error_view", "user"} : Goto(t, label)
          <6>1. CASE next[t] = ParsersEnd
            BY <4>1, <6>1 DEF Protect
          <6>2. CASE next[t] # ParsersEnd /\ next[t] = HandlersEnd
            BY <4>1, <6>2 DEF Protect
          <6>3. CASE next[t] # ParsersEnd /\ next[t] # HandlersEnd
            BY <4>1, <6>3 DEF Protect
          <6> QED
            BY <6>1, <6>2, <6>3
        <5> QED
          BY <5>1 DEF Goto, PCs
      <4>2. CASE OnParsed(t)
        BY <4>2 DEF OnParsed, Handled, GoProtect, Goto, PCs
      <4>3. CASE Render(t)
        BY <4>3 DEF Render, Raise, GoBack, Goto, PCs
      <4>4. CASE Claim(t) \/ Resolve(t) \/ Catch(t) \/ CheckFinished(t)
        BY <4>4 DEF Claim, Resolve, Catch, CheckFinished, GoBack, Goto, PCs
      <4>5. CASE ErrorView(t) \/ ReadCode(t) \/ FinalSend(t) \/ Respond(t)
        BY <4>5 DEF ErrorView, ReadCode, FinalSend, Respond, Goto, PCs
      <4> QED
        BY <1>2, <4>1, <4>2, <4>3, <4>4, <4>5 DEF Pipeline
    <3> QED
      BY <2>1, <3>1 DEF TypeOK
  <2> QED
    BY <2>1, <2>2, <2>3 DEF IdleHasNoFrame
<1>3. ASSUME NEW t \in Threads, Return(t) PROVE IdleHasNoFrame'
  <2>1. \A u \in Threads \ {t} : stack'[u] = stack[u] /\ pc'[u] = pc[u] /\ base'[u] = base[u]
    BY <1>3 DEF TypeOK, Return, Goto
  <2>2. pc'[t] = "idle" => stack'[t] = <<>> /\ base'[t] = 0
    BY <1>3 DEF TypeOK, Return, Goto
  <2> QED
    BY <2>1, <2>2 DEF IdleHasNoFrame
<1>4. ASSUME NEW t \in Threads, Application(t) PROVE IdleHasNoFrame'
  <2>1. stack' = stack
    BY <1>4 DEF Application, AnswerParser, AnswerHandler, StageReturns, StageThrows,
                StageSetsStatus, StageSends, StageHolds, Resume, Drop, control
  <2>2. \A u \in Threads \ {t} : pc'[u] = pc[u] /\ base'[u] = base[u]
    BY <1>4 DEF TypeOK, Application, AnswerParser, AnswerHandler, Handled, GoProtect, Goto,
                StageReturns, StageThrows, Raise, StageSetsStatus, StageSends, StageHolds,
                Resume, Drop, control
  <2>3. pc'[t] = "idle" => pc[t] = "idle" /\ base'[t] = base[t]
    BY <1>4 DEF TypeOK, Application, AnswerParser, AnswerHandler, Handled, GoProtect, Goto,
                StageReturns, StageThrows, Raise, StageSetsStatus, StageSends, StageHolds,
                Resume, Drop, control, At
  <2> QED
    BY <2>1, <2>2, <2>3 DEF IdleHasNoFrame
<1> QED
  BY <1>1, <1>2, <1>3, <1>4 DEF Next

\* Every step keeps a destroyed context unused.
LEMMA DestructionStep ==
    ASSUME TypeOK, SingleResponse, OnTheWire, WritersAtWork, IdleHasNoFrame,
           NoUseAfterDestruction, [Next]_vars
    PROVE  NoUseAfterDestruction'
<1> USE DEF NoUseAfterDestruction
<1>1. CASE ctx = "destroyed"
  <2>1. CASE UNCHANGED <<pc, stack, base, held, writing, wire>>
    BY <1>1, <2>1
  <2>2. ASSUME NEW t \in Threads, Write(t) PROVE NoUseAfterDestruction'
    <3>1. UNCHANGED <<pc, stack, base, held>> /\ wire' # NoCode
      BY <2>2, CodeFacts DEF Write, control, app, TypeOK
    <3> QED
      BY <1>1, <3>1
  <2>3. CASE Run \/ OnWrite \/ Over \/ UNCHANGED vars
    BY <1>1, <2>1, <2>3 DEF Run, OnWrite, Over, vars, control, response, app
  <2>4. ASSUME NEW t \in Threads, Pipeline(t) \/ Application(t) PROVE FALSE
    BY <1>1, <2>4, StepIsLocal
  <2> QED
    BY <2>2, <2>3, <2>4 DEF Next
<1>2. CASE ctx # "destroyed" /\ ctx' = "destroyed"
  <2>1. \E t \in Threads : Return(t) \/ \E s \in Stages : Drop(t, s)
    <3>1. CASE Run \/ OnWrite \/ Over \/ UNCHANGED vars \/ \E t \in Threads : Write(t)
      BY <1>2, <3>1 DEF Run, OnWrite, Over, vars, Write
    <3>2. ASSUME NEW t \in Threads, Pipeline(t) PROVE Return(t)
      BY <1>2, <3>2 DEF Pipeline, Protect, OnParsed, ErrorView, Render, Raise, ReadCode, Claim,
                        FinalSend, Resolve, Catch, Respond, CheckFinished, At
    <3>3. ASSUME NEW t \in Threads, Application(t) PROVE \E s \in Stages : Drop(t, s)
      BY <1>2, <3>3 DEF Application, AnswerParser, AnswerHandler, StageReturns, StageThrows, Raise,
                        StageSetsStatus, StageSends, StageHolds, Resume, At
    <3> QED
      BY <3>1, <3>2, <3>3 DEF Next
  <2>0. ASSUME NEW t \in Threads, NEW s, ctx = "live", t \notin writing, LastReference(t, s), Send(t),
               UNCHANGED wire
        PROVE  wire' # NoCode \/ writing' # {}
    <3>1. CASE sent
      BY <2>0, <3>1, WrittenByThen
    <3>2. CASE ~sent
      BY <2>0, <3>2 DEF Send
    <3> QED
      BY <3>1, <3>2
  <2>2. ASSUME NEW t \in Threads, Return(t) PROVE NoUseAfterDestruction'
    <3>1. LastReference(t, 0) /\ Send(t) /\ held' = held /\ UNCHANGED wire
      BY <1>2, <2>2 DEF Return, Release, NothingWritten, app
    <3>2. \A s \in Stages : held[s] # "yes"
      BY <3>1, PositionFacts DEF LastReference
    <3>3. pc'[t] = "idle" /\ stack'[t] = <<>> /\ base'[t] = 0
      BY <1>2, <2>2 DEF TypeOK, Return, Goto
    <3>4. \A u \in Threads \ {t} : pc'[u] = "idle" /\ stack'[u] = <<>> /\ base'[u] = 0
      BY <2>2, <3>1 DEF TypeOK, Return, Goto, LastReference, IdleHasNoFrame
    <3>5. wire' # NoCode \/ writing' # {}
      BY <2>0, <2>2, <3>1 DEF Return, At
    <3> QED
      BY <3>1, <3>2, <3>3, <3>4, <3>5
  <2>3. ASSUME NEW t \in Threads, NEW s \in Stages, Drop(t, s) PROVE NoUseAfterDestruction'
    <3>1. LastReference(t, s) /\ Send(t) /\ UNCHANGED wire
      BY <1>2, <2>3 DEF Drop, Release, NothingWritten
    <3>2. \A p \in Stages : held'[p] # "yes"
      BY <2>3, <3>1 DEF TypeOK, Drop, LastReference
    <3>3. \A u \in Threads : pc'[u] = "idle" /\ stack'[u] = <<>> /\ base'[u] = 0
      BY <2>3, <3>1 DEF Drop, LastReference, IdleHasNoFrame, control
    <3>4. ctx = "live" /\ t \notin writing
      BY <2>3 DEF Drop, WritersAtWork
    <3>5. wire' # NoCode \/ writing' # {}
      BY <2>0, <3>1, <3>4
    <3> QED
      BY <3>1, <3>2, <3>3, <3>5
  <2> QED
    BY <2>1, <2>2, <2>3
<1>3. CASE ctx' # "destroyed"
  BY <1>3
<1> QED
  BY <1>1, <1>2, <1>3

\* Shared ownership keeps the context alive as long as anybody can use it, and the client
\* gets its answer from the destructor at the latest.
THEOREM DestructionIsSafe == Spec => []NoUseAfterDestruction
<1>1. Init => WritersAtWork /\ IdleHasNoFrame /\ NoUseAfterDestruction
  BY DEF Init, WritersAtWork, IdleHasNoFrame, NoUseAfterDestruction
<1>2. TypeOK /\ WritersAtWork /\ [Next]_vars => WritersAtWork'
  BY WritersStep
<1>3. TypeOK /\ IdleHasNoFrame /\ [Next]_vars => IdleHasNoFrame'
  BY IdleStep
<1>4. TypeOK /\ SingleResponse /\ OnTheWire /\ WritersAtWork /\ IdleHasNoFrame
      /\ NoUseAfterDestruction /\ [Next]_vars => NoUseAfterDestruction'
  BY DestructionStep
<1> QED
  BY <1>1, <1>2, <1>3, <1>4, TypeCorrect, OneResponse, PTL DEF Spec

-----------------------------------------------------------------------------
\* The steps of on_finished that come after it read the status.
Finishing == {"claim", "send", "resolve"}

\* The thread that won `finished` is the only one that goes on to fulfil the promise.
PromiseClaimed ==
    /\ promise # NoCode => finished /\ sent
    /\ \A t, u \in Threads :
         pc[t] \in {"send", "resolve"} =>
           /\ finished /\ promise = NoCode
           /\ pc[u] \in {"send", "resolve"} => t = u

\* It does so with a status, and the response counts as sent when it does.
FinishInv ==
    /\ PromiseClaimed
    /\ \A t \in Threads :
         /\ pc[t] \in Finishing => code[t] \in Codes
         /\ pc[t] = "resolve" => sent

\* A step that leaves on_finished alone, except that a thread may leave it.
LEMMA FinishKept ==
    ASSUME TypeOK, FinishInv, NEW t \in Threads,
           \/ pc' = pc
           \/ \E label \in PCs \ Finishing : pc' = [pc EXCEPT ![t] = label],
           UNCHANGED <<finished, promise, code>>, sent => sent'
    PROVE  FinishInv'
<1>1. \A u \in Threads : pc'[u] \in Finishing => pc'[u] = pc[u]
  BY DEF TypeOK
<1>2. "send" \in Finishing /\ "resolve" \in Finishing
  BY DEF Finishing
<1> QED
  BY <1>1, <1>2 DEF FinishInv, PromiseClaimed

\* Every step keeps the promise behind the claim of the response.
LEMMA FinishStep ==
    ASSUME TypeOK, FinishInv, [Next]_vars
    PROVE  FinishInv'
<1>0. sent => sent'
  BY SendOrKeep DEF Send, Write
<1>1. CASE OnWrite \/ Over \/ UNCHANGED vars \/ \E t \in Threads : Write(t)
  <2>1. UNCHANGED <<pc, finished, promise, code>>
    BY <1>1 DEF OnWrite, Over, vars, control, outcome, Write
  <2> QED
    BY <1>0, <2>1, FinishKept, ThreadFacts
<1>2. CASE Run
  <2>1. pc' = [pc EXCEPT ![Strand] = "protect"] /\ "protect" \in PCs \ Finishing
    BY <1>2 DEF Run, GoProtect, Goto, PCs, Finishing
  <2>2. UNCHANGED <<finished, promise, code>>
    BY <1>2 DEF Run, outcome
  <2> QED
    BY <1>0, <2>1, <2>2, FinishKept, ThreadFacts
<1>3. ASSUME NEW t \in Threads, Application(t) PROVE FinishInv'
  <2>1. UNCHANGED <<finished, promise, code>>
    BY <1>3 DEF Application, AnswerParser, AnswerHandler, StageReturns, StageThrows,
                StageSetsStatus, StageSends, StageHolds, Resume, Drop, control, outcome
  <2>2. pc' = pc \/ \E label \in PCs \ Finishing : pc' = [pc EXCEPT ![t] = label]
    BY <1>3 DEF Application, AnswerParser, AnswerHandler, Handled, GoProtect, Goto,
                StageReturns, StageThrows, Raise, StageSetsStatus, StageSends, StageHolds,
                Resume, Drop, control, PCs, Finishing
  <2> QED
    BY <1>0, <2>1, <2>2, FinishKept
<1>4. ASSUME NEW t \in Threads, Pipeline(t) PROVE FinishInv'
  <2>1. CASE ReadCode(t)
    <3>1. pc' = [pc EXCEPT ![t] = "claim"] /\ code' = [code EXCEPT ![t] = status]
      BY <2>1 DEF ReadCode, Goto
    <3>2. UNCHANGED <<finished, promise, sent>>
      BY <2>1 DEF ReadCode, response, outcome
    <3> QED
      BY <3>1, <3>2 DEF TypeOK, FinishInv, PromiseClaimed, Finishing
  <2>2. CASE Claim(t) /\ finished
    <3>1. code' = [code EXCEPT ![t] = NoCode] /\ UNCHANGED <<finished, promise, sent>>
      BY <2>2 DEF Claim, response, TypeOK
    <3>2. PICK label \in {"user", "return"} : pc' = [pc EXCEPT ![t] = label]
      BY <2>2 DEF Claim, GoBack, Goto
    <3> QED
      BY <3>1, <3>2 DEF TypeOK, FinishInv, PromiseClaimed, Finishing
  <2>3. CASE Claim(t) /\ ~finished
    <3>1. finished' = TRUE /\ UNCHANGED <<promise, sent, code>>
      BY <2>3 DEF Claim, response
    <3>2. pc' = [pc EXCEPT ![t] = "send"] /\ pc[t] = "claim"
      BY <2>3 DEF Claim, Goto, At
    <3>3. promise = NoCode /\ \A u \in Threads : pc[u] \notin {"send", "resolve"}
      BY <2>3 DEF FinishInv, PromiseClaimed
    <3> QED
      BY <3>1, <3>2, <3>3 DEF TypeOK, FinishInv, PromiseClaimed, Finishing
  <2>4. CASE FinalSend(t)
    <3>1. pc' = [pc EXCEPT ![t] = "resolve"] /\ pc[t] = "send" /\ sent'
      BY <2>4 DEF FinalSend, Goto, At, Send
    <3>2. UNCHANGED <<finished, promise, code>>
      BY <2>4 DEF FinalSend, outcome
    <3> QED
      BY <3>1, <3>2 DEF TypeOK, FinishInv, PromiseClaimed, Finishing
  <2>5. CASE Resolve(t)
    <3>1. PICK label \in {"user", "return"} : pc' = [pc EXCEPT ![t] = label]
      BY <2>5 DEF Resolve, GoBack, Goto
    <3>2. pc[t] = "resolve" /\ code' = [code EXCEPT ![t] = NoCode]
      BY <2>5 DEF Resolve, At
    <3>3. UNCHANGED <<finished, sent>> /\ finished /\ sent
      BY <2>5, <3>2 DEF Resolve, response, FinishInv, PromiseClaimed
    <3>4. \A u \in Threads \ {t} : pc[u] \notin {"send", "resolve"}
      BY <3>2 DEF FinishInv, PromiseClaimed
    <3> QED
      BY <3>1, <3>2, <3>3, <3>4 DEF TypeOK, FinishInv, PromiseClaimed, Finishing
  <2>6. CASE \/ Protect(t) \/ OnParsed(t) \/ ErrorView(t) \/ Render(t)
             \/ Catch(t) \/ Respond(t) \/ CheckFinished(t) \/ Return(t)
    <3>1. UNCHANGED <<finished, promise, code>>
      BY <2>6 DEF Protect, OnParsed, ErrorView, Render, Catch, Respond, CheckFinished,
                  Return, outcome
    <3>2. pc' = pc \/ \E label \in PCs \ Finishing : pc' = [pc EXCEPT ![t] = label]
      <4>1. CASE Protect(t)
        <5>1. CASE next[t] = ParsersEnd
          BY <4>1, <5>1 DEF Protect, Goto, PCs, Finishing
        <5>2. CASE next[t] # ParsersEnd /\ next[t] = HandlersEnd
          BY <4>1, <5>2 DEF Protect, Goto, PCs, Finishing
        <5>3. CASE next[t] # ParsersEnd /\ next[t] # HandlersEnd
          BY <4>1, <5>3 DEF Protect, Goto, PCs, Finishing
        <5> QED
          BY <5>1, <5>2, <5>3
      <4>2. CASE OnParsed(t) \/ ErrorView(t) \/ Respond(t)
        BY <4>2 DEF OnParsed, Handled, GoProtect, ErrorView, Respond, Goto, PCs, Finishing
      <4>3. CASE Render(t) \/ Catch(t) \/ CheckFinished(t)
        BY <4>3 DEF Render, Raise, Catch, CheckFinished, GoBack, Goto, PCs, Finishing
      <4>4. CASE Return(t)
        BY <4>4 DEF Return, Goto, PCs, Finishing
      <4> QED
        BY <2>6, <4>1, <4>2, <4>3, <4>4
    <3> QED
      BY <1>0, <3>1, <3>2, FinishKept
  <2> QED
    BY <1>4, <2>1, <2>2, <2>3, <2>4, <2>5, <2>6 DEF Pipeline
<1> QED
  BY <1>1, <1>2, <1>3, <1>4 DEF Next

\* Nothing but Resolve fulfils the promise.
LEMMA PromiseKept ==
    ASSUME [Next]_vars
    PROVE  UNCHANGED promise \/ \E t \in Threads : Resolve(t)
<1>1. CASE Run \/ OnWrite \/ Over \/ UNCHANGED vars \/ \E t \in Threads : Write(t)
  BY <1>1 DEF Run, OnWrite, Over, vars, outcome, Write
<1>2. ASSUME NEW t \in Threads, Pipeline(t) PROVE UNCHANGED promise \/ Resolve(t)
  BY <1>2 DEF Pipeline, Protect, OnParsed, ErrorView, Render, ReadCode, Claim, FinalSend,
              Catch, Respond, CheckFinished, Return, outcome
<1>3. ASSUME NEW t \in Threads, Application(t) PROVE UNCHANGED promise
  BY <1>3 DEF Application, AnswerParser, AnswerHandler, StageReturns, StageThrows,
              StageSetsStatus, StageSends, StageHolds, Resume, Drop, outcome
<1> QED
  BY <1>1, <1>2, <1>3 DEF Next

\* A context is destroyed for good, by a thread that owns its last reference and sends.
LEMMA Destruction ==
    ASSUME WritersAtWork, [Next]_vars
    PROVE  /\ ctx = "destroyed" => ctx' = "destroyed"
           /\ ctx # "destroyed" /\ ctx' = "destroyed" =>
                \E t \in Threads, s \in Stages \cup {0} :
                  /\ ctx = "live" /\ t \notin writing /\ LastReference(t, s)
                  /\ Send(t) /\ UNCHANGED wire
<1>1. CASE Run \/ OnWrite \/ Over \/ UNCHANGED vars \/ \E t \in Threads : Write(t)
  BY <1>1 DEF Run, OnWrite, Over, vars, Write
<1>2. ASSUME NEW t \in Threads, Pipeline(t)
      PROVE  /\ ctx = "live" /\ t \notin writing
             /\ ctx' # "destroyed" \/ (LastReference(t, 0) /\ Send(t) /\ UNCHANGED wire)
  BY <1>2 DEF Pipeline, At, Protect, OnParsed, ErrorView, Render, Raise, ReadCode, Claim,
              FinalSend, Resolve, Catch, Respond, CheckFinished, Return, Release, NothingWritten
<1>3. ASSUME NEW t \in Threads, Application(t), ~\E s \in Stages : Drop(t, s)
      PROVE  ctx = "live" /\ ctx' # "destroyed"
  BY <1>3 DEF Application, At, AnswerParser, AnswerHandler, StageReturns, StageThrows, Raise,
              StageSetsStatus, StageSends, StageHolds, Resume
<1>4. ASSUME NEW t \in Threads, NEW s \in Stages, Drop(t, s)
      PROVE  /\ ctx = "live" /\ t \notin writing
             /\ ctx' # "destroyed" \/ (LastReference(t, s) /\ Send(t) /\ UNCHANGED wire)
  BY <1>4 DEF Drop, Release, NothingWritten, WritersAtWork
<1> QED
  BY <1>1, <1>2, <1>3, <1>4 DEF Next

\* A promise that was fulfilled while the context lived had its response written by the
\* end of it.
PromiseKeptByThen == ctx = "destroyed" /\ promise # NoCode => wire # NoCode

\* Every step keeps it so.
LEMMA PromiseByThenStep ==
    ASSUME TypeOK, SingleResponse, OnTheWire, WritersAtWork, FinishInv, PromiseKeptByThen,
           [Next]_vars
    PROVE  PromiseKeptByThen'
<1>1. wire # NoCode => wire' # NoCode
  BY SendOrKeep, CodeFacts DEF Write, TypeOK
<1>2. CASE ctx = "destroyed"
  <2>1. UNCHANGED promise
    <3>1. ASSUME NEW t \in Threads, Resolve(t) PROVE FALSE
      BY <1>2, <3>1 DEF Resolve, At
    <3> QED
      BY <3>1, PromiseKept
  <2> QED
    BY <1>1, <1>2, <2>1 DEF PromiseKeptByThen
<1>3. CASE ctx # "destroyed" /\ ctx' = "destroyed"
  <2>1. PICK t \in Threads, s \in Stages \cup {0} :
             /\ ctx = "live" /\ t \notin writing /\ LastReference(t, s)
             /\ Send(t) /\ UNCHANGED wire
    BY <1>3, Destruction
  <2>2. promise' = promise
    <3>1. ASSUME NEW u \in Threads, Resolve(u) PROVE FALSE
      BY <1>3, <3>1 DEF Resolve, At
    <3> QED
      BY <3>1, PromiseKept
  <2>3. promise # NoCode => sent
    BY DEF FinishInv, PromiseClaimed
  <2> QED
    BY <2>1, <2>2, <2>3, WrittenByThen DEF PromiseKeptByThen
<1>4. CASE ctx' # "destroyed"
  BY <1>4 DEF PromiseKeptByThen
<1> QED
  BY <1>2, <1>3, <1>4

\* The promise is fulfilled once, when the response counts as sent; before it is written
\* only while a stage or an error view is about to write it on another thread.
THEOREM PromiseOnce == Spec => []PromiseAfterResponse
<1>1. Init => FinishInv /\ WritersAtWork /\ PromiseKeptByThen
  BY DEF Init, FinishInv, PromiseClaimed, Finishing, WritersAtWork, PromiseKeptByThen
<1>2. TypeOK /\ FinishInv /\ [Next]_vars => FinishInv'
  BY FinishStep
<1>3. TypeOK /\ WritersAtWork /\ [Next]_vars => WritersAtWork'
  BY WritersStep
<1>4. TypeOK /\ SingleResponse /\ OnTheWire /\ WritersAtWork /\ FinishInv /\ PromiseKeptByThen
      /\ [Next]_vars => PromiseKeptByThen'
  BY PromiseByThenStep
<1>5. TypeOK /\ SingleResponse /\ OnTheWire /\ WritersAtWork /\ FinishInv /\ PromiseKeptByThen
      => PromiseAfterResponse
  <2> SUFFICES ASSUME TypeOK, SingleResponse, OnTheWire, WritersAtWork, FinishInv, PromiseKeptByThen,
                      promise # NoCode, wire = NoCode
               PROVE  \E t \in writing : pc[t] \in {"user", "finish"}
    BY DEF FinishInv, PromiseClaimed, PromiseAfterResponse
  <2>1. sent /\ ctx # "destroyed"
    BY DEF FinishInv, PromiseClaimed, PromiseKeptByThen
  <2>2. PICK t \in Threads : t \in writing
    BY <2>1 DEF SingleResponse, OnTheWire
  <2>3. pc[t] # "resolve"
    BY DEF FinishInv, PromiseClaimed
  <2> QED
    BY <2>1, <2>2, <2>3 DEF WritersAtWork
<1> QED
  BY <1>1, <1>2, <1>3, <1>4, <1>5, TypeCorrect, OneResponse, PTL DEF Spec

-----------------------------------------------------------------------------
\* Every step is one of the exchange, or none.
LEMMA ExchangeStep ==
    ASSUME TypeOK, SingleResponse, OnTheWire, WritersAtWork, FinishInv, [Next]_vars
    PROVE  [Exchanged!Next]_(Exchanged!exchange)
<1> USE DEF Exchanged!Next, Exchanged!exchange
<1>1. CASE \E t \in Threads : Resolve(t)
  <2>1. PICK t \in Threads : Resolve(t)
    BY <1>1
  <2>2. pc[t] = "resolve" /\ ctx = "live" /\ promise' = code[t] /\ UNCHANGED <<ctx, sent, wire>>
    BY <2>1 DEF Resolve, At, response
  <2>3. code[t] \in Codes /\ sent /\ promise = NoCode
    BY <2>2 DEF FinishInv, PromiseClaimed, Finishing
  <2>4. Exchanged!Fulfil
    BY <2>2, <2>3 DEF Exchanged!Fulfil
  <2> QED
    BY <2>4
<1>2. CASE UNCHANGED promise /\ ctx # "destroyed" /\ ctx' = "destroyed"
  <2>1. PICK t \in Threads, s \in Stages \cup {0} :
             /\ ctx = "live" /\ t \notin writing /\ LastReference(t, s)
             /\ Send(t) /\ UNCHANGED wire
    BY <1>2, Destruction
  <2>2. sent => wire # NoCode
    BY <2>1, WrittenByThen
  <2>3. Exchanged!Release
    BY <1>2, <2>1, <2>2 DEF Exchanged!Release, Send
  <2> QED
    BY <2>3
<1>3. CASE UNCHANGED promise /\ ~(ctx # "destroyed" /\ ctx' = "destroyed")
  <2>1. (ctx' = "destroyed") = (ctx = "destroyed")
    BY <1>3, Destruction
  <2>2. CASE UNCHANGED <<sent, wire>>
    BY <1>3, <2>1, <2>2
  <2>3. ASSUME NEW t \in Threads, ctx = "live", Send(t), UNCHANGED wire, ~UNCHANGED sent
        PROVE  Exchanged!Undertake
    <3>1. sent = FALSE /\ sent' = TRUE
      BY <2>3 DEF Send, TypeOK
    <3> QED
      BY <1>3, <2>1, <2>3, <3>1 DEF Exchanged!Undertake
  <2>4. ASSUME NEW t \in Threads, Write(t) PROVE Exchanged!Answer
    <3>1. t \in writing /\ wire' = status /\ sent' = sent
      BY <2>4 DEF Write
    <3>2. sent /\ wire = NoCode /\ wire' \in Codes
      BY <3>1 DEF SingleResponse, OnTheWire, TypeOK
    <3> QED
      BY <1>3, <2>1, <3>1, <3>2 DEF Exchanged!Answer
  <2> QED
    BY <2>2, <2>3, <2>4, SendOrKeep
<1> QED
  BY <1>1, <1>2, <1>3, PromiseKept

\* The pipeline implements the exchange it promises to the client.
THEOREM Implements == Spec => ImplementsExchange
<1>1. Init => FinishInv /\ WritersAtWork
  BY DEF Init, FinishInv, PromiseClaimed, Finishing, WritersAtWork
<1>2. Init => Exchanged!Init
  BY DEF Init, Exchanged!Init
<1>3. TypeOK /\ FinishInv /\ [Next]_vars => FinishInv'
  BY FinishStep
<1>4. TypeOK /\ WritersAtWork /\ [Next]_vars => WritersAtWork'
  BY WritersStep
<1>5. TypeOK /\ SingleResponse /\ OnTheWire /\ WritersAtWork /\ FinishInv /\ [Next]_vars
      => [Exchanged!Next]_(Exchanged!exchange)
  BY ExchangeStep
<1> QED
  BY <1>1, <1>2, <1>3, <1>4, <1>5, TypeCorrect, OneResponse, PTL
     DEF Spec, ImplementsExchange, Exchanged!Spec

-----------------------------------------------------------------------------
\* Frames and stored callbacks are those of stages that the pipeline has run.
Ends == {ParsersEnd, HandlersEnd}

EnteredInv ==
    /\ \A s \in Stages : held[s] # "no" => s \in entered
    /\ \A t \in Threads : base[t] \in entered \cup {0} /\ stack[t] \in Seq(entered \cup Ends)

\* The stage whose code a thread is in has been entered.
LEMMA TopEntered ==
    ASSUME TypeOK, EnteredInv, NEW t \in Threads, Top(t) \in Stages
    PROVE  Top(t) \in entered
<1>1. CASE stack[t] = <<>>
  BY <1>1, PositionFacts DEF Top, EnteredInv
<1>2. CASE stack[t] # <<>>
  <2>1. stack[t] \in Seq(entered \cup Ends)
    BY DEF EnteredInv
  <2>2. Head(stack[t]) \in entered \cup Ends
    BY <1>2, <2>1
  <2> QED
    BY <1>2, <2>2, PositionFacts DEF Top, Ends
<1> QED
  BY <1>1, <1>2

\* What Protect does with the stage, or the end of a list, that comes next.
LEMMA EnteredByProtect ==
    ASSUME TypeOK, EnteredInv, NEW t \in Threads, Protect(t)
    PROVE  EnteredInv'
<1>1. /\ next[t] \in Positions /\ UNCHANGED <<base, held>>
      /\ entered' = entered \cup ({next[t]} \cap Stages)
      /\ stack' = [stack EXCEPT ![t] = <<next[t]>> \o stack[t]]
  BY PositionFacts DEF Protect, At, TypeOK
<1> DEFINE T == entered' \cup Ends
<1>2. next[t] \in T
  <2>1. next[t] \in Stages \cup Ends
    BY <1>1, StagesAssumption
       DEF Ends, Positions, Stages, Parsers, Handlers, ParsersEnd, HandlersEnd, FirstHandler
  <2> QED
    BY <1>1, <2>1
<1>3. \A u \in Threads : stack[u] \in Seq(T)
  <2>1. entered \cup Ends \subseteq T
    BY <1>1
  <2>2. \A u \in Threads : stack[u] \in Seq(entered \cup Ends)
    BY DEF EnteredInv
  <2> HIDE DEF T
  <2> QED
    BY <2>1, <2>2
<1>4. \A u \in Threads : stack'[u] \in Seq(T)
  <2> HIDE DEF T
  <2>1. <<next[t]>> \o stack[t] \in Seq(T)
    BY <1>2, <1>3
  <2> QED
    BY <1>1, <1>3, <2>1 DEF TypeOK
<1>5. \A u \in Threads : base'[u] \in entered' \cup {0}
  BY <1>1 DEF EnteredInv
<1>6. \A s \in Stages : held'[s] # "no" => s \in entered'
  BY <1>1 DEF EnteredInv
<1>7. Ends' = Ends
  BY DEF Ends
<1> QED
  BY <1>4, <1>5, <1>6, <1>7 DEF EnteredInv

\* Threads are in the code of, and hold callbacks of, stages that were entered.
LEMMA EnteredStep ==
    ASSUME TypeOK, EnteredInv, [Next]_vars
    PROVE  EnteredInv'
<1> USE DEF Ends
<1>1. CASE UNCHANGED <<stack, base, held, entered>>
  BY <1>1 DEF EnteredInv
<1>2. ASSUME NEW t \in Threads, Protect(t) PROVE EnteredInv'
  BY <1>2, EnteredByProtect
<1>3. ASSUME NEW t \in Threads, Return(t) PROVE EnteredInv'
  <2> DEFINE rest == IF stack[t] = <<>> THEN <<>> ELSE Tail(stack[t])
             T    == entered \cup Ends
  <2>1. UNCHANGED <<held, entered>> /\ stack' = [stack EXCEPT ![t] = rest]
    BY <1>3 DEF Return, app
  <2>2. \A u \in Threads : stack'[u] \in Seq(T)
    <3>1. \A u \in Threads : stack[u] \in Seq(T)
      BY DEF EnteredInv
    <3> HIDE DEF T
    <3>2. rest \in Seq(T)
      BY <3>1
    <3> HIDE DEF rest
    <3> QED
      BY <2>1, <3>1, <3>2 DEF TypeOK
  <2>3. \A u \in Threads : base'[u] \in entered \cup {0}
    BY <1>3 DEF Return, TypeOK, EnteredInv
  <2> QED
    BY <2>1, <2>2, <2>3 DEF EnteredInv
<1>4. ASSUME NEW t \in Threads, StageHolds(t) PROVE EnteredInv'
  <2>1. UNCHANGED <<stack, base, entered>>
    BY <1>4 DEF StageHolds, control
  <2>2. \A s \in Stages : held'[s] # "no" => s \in entered
    BY <1>4, TopEntered DEF StageHolds, TypeOK, EnteredInv
  <2> QED
    BY <2>1, <2>2 DEF EnteredInv
<1>5. ASSUME NEW t \in Threads, NEW s \in Stages, Resume(t, s) PROVE EnteredInv'
  <2>1. s \in entered /\ UNCHANGED <<stack, entered>>
    BY <1>5 DEF Resume, EnteredInv
  <2>2. \A p \in Stages : held'[p] # "no" => p \in entered
    BY <1>5, <2>1 DEF Resume, TypeOK, EnteredInv
  <2>3. \A u \in Threads : base'[u] \in entered \cup {0}
    BY <1>5, <2>1 DEF Resume, TypeOK, EnteredInv
  <2> QED
    BY <2>1, <2>2, <2>3 DEF EnteredInv
<1>6. ASSUME NEW t \in Threads, NEW s \in Stages, Drop(t, s) PROVE EnteredInv'
  <2>1. UNCHANGED <<stack, base, entered>>
    BY <1>6 DEF Drop, control
  <2>2. \A p \in Stages : held'[p] # "no" => p \in entered
    BY <1>6 DEF Drop, TypeOK, EnteredInv
  <2> QED
    BY <2>1, <2>2 DEF EnteredInv
<1>7. \/ UNCHANGED <<stack, base, held, entered>>
      \/ \E t \in Threads : \/ Protect(t) \/ Return(t) \/ StageHolds(t)
                            \/ \E s \in Stages : Resume(t, s) \/ Drop(t, s)
  BY DEF Next, Run, OnWrite, Over, vars, app, control, Write, Pipeline, OnParsed, ErrorView, Render,
         ReadCode, Claim, FinalSend, Resolve, Catch, Respond, CheckFinished,
         Application, AnswerParser, AnswerHandler, StageReturns, StageThrows,
         StageSetsStatus, StageSends
<1> QED
  BY <1>1, <1>2, <1>3, <1>4, <1>5, <1>6, <1>7

\* At first no stage was entered.
LEMMA EnteredInit == Init => EnteredInv
BY DEF Init, EnteredInv, Ends

-----------------------------------------------------------------------------
\* The parsers are done when one of them stopped the parsing, or all told to go on.
ParsersDone ==
    \/ \E p \in Parsers : "stop" \in verdicts[p]
    \/ \A p \in Parsers : "continue" \in verdicts[p]

\* A position may be run when all parsers before it told to go on; after the parsers, when
\* they are done and all handlers before it left the request to others.
Due(p) ==
    /\ p <= ParsersEnd => \A q \in Parsers : q < p => "continue" \in verdicts[q]
    /\ p > ParsersEnd => /\ ParsersDone
                         /\ \A g \in Handlers : g < p => "passed" \in verdicts[g]

\* What is run, what a thread is about to run, and the handlers once the parsers are done.
OrderInv ==
    /\ \A s \in entered : Due(s)
    /\ \A t \in Threads : /\ pc[t] = "protect" => Due(next[t])
                          /\ pc[t] = "parsed" => ParsersDone

\* A stage never takes an answer back.
AnswersStay == \A s \in Stages : verdicts[s] \subseteq verdicts'[s]

\* The first handler is due when the parsers are done.
LEMMA FirstHandlerDue ==
    ASSUME ParsersDone
    PROVE  Due(FirstHandler)
BY StagesAssumption DEF Due, Handlers, FirstHandler, ParsersEnd

\* What is due stays due, for the pipeline never forgets an answer.
LEMMA DueKept ==
    ASSUME AnswersStay
    PROVE  /\ ParsersDone => ParsersDone'
           /\ \A p : Due(p) => Due(p)'
<1>1. ParsersDone => ParsersDone'
  BY DEF AnswersStay, ParsersDone, Stages, Parsers
<1> QED
  BY <1>1 DEF AnswersStay, Due, Stages, Parsers, Handlers, ParsersEnd, FirstHandler

\* Every step keeps the answers of the stages.
LEMMA AnswersKept ==
    ASSUME TypeOK, [Next]_vars
    PROVE  AnswersStay
<1>1. ASSUME NEW t \in Threads, NEW verdict, Answer(t, verdict) PROVE AnswersStay
  BY <1>1 DEF Answer, AnswersStay, TypeOK
<1>2. CASE UNCHANGED verdicts
  BY <1>2 DEF AnswersStay
<1>3. ASSUME NEW t \in Threads, AnswerParser(t) \/ AnswerHandler(t) PROVE AnswersStay
  <2>1. PICK verdict \in Verdicts : Answer(t, verdict)
    BY <1>3 DEF AnswerParser, AnswerHandler, Verdicts
  <2> QED
    BY <1>1, <2>1
<1>4. CASE Run \/ OnWrite \/ Over \/ UNCHANGED vars \/ \E t \in Threads : Write(t)
  BY <1>2, <1>4 DEF Run, OnWrite, Over, vars, app, Write
<1>5. ASSUME NEW t \in Threads, Pipeline(t) PROVE UNCHANGED verdicts
  BY <1>5 DEF Pipeline, Protect, OnParsed, ErrorView, Render, ReadCode, Claim, FinalSend,
              Resolve, Catch, Respond, CheckFinished, Return, app
<1>6. ASSUME NEW t \in Threads, Application(t)
      PROVE  UNCHANGED verdicts \/ AnswerParser(t) \/ AnswerHandler(t)
  BY <1>6 DEF Application, StageReturns, StageThrows, StageSetsStatus, StageSends, StageHolds,
              Resume, Drop, app
<1> QED
  BY <1>2, <1>3, <1>4, <1>5, <1>6 DEF Next

\* A parser that tells to go on makes the next position due.
LEMMA DueAfterParser ==
    ASSUME TypeOK, OrderInv, AnswersStay, NEW s \in entered \cap Parsers,
           "continue" \in verdicts'[s]
    PROVE  Due(s + 1)'
<1>1. Due(s)'
  BY DueKept DEF OrderInv
<1>2. s \in Nat /\ s <= ParsersEnd /\ s + 1 <= ParsersEnd /\ ParsersEnd \in Nat
  BY StagesAssumption DEF Parsers, ParsersEnd
<1>3. ASSUME NEW q \in Parsers, q < s + 1 PROVE "continue" \in verdicts'[q]
  <2>1. q = s \/ q < s
    BY <1>2, <1>3, StagesAssumption DEF Parsers
  <2> QED
    BY <1>1, <1>2, <2>1 DEF Due, ParsersEnd, Parsers
<1> QED
  BY <1>2, <1>3 DEF Due, ParsersEnd, Parsers

\* A handler that leaves the request to others makes the next position due.
LEMMA DueAfterHandler ==
    ASSUME TypeOK, OrderInv, AnswersStay, NEW s \in entered \cap Handlers,
           "passed" \in verdicts'[s]
    PROVE  Due(s + 1)'
<1>1. Due(s)'
  BY DueKept DEF OrderInv
<1>2. s \in Nat /\ s > ParsersEnd /\ s + 1 > ParsersEnd /\ ParsersEnd \in Nat
  BY StagesAssumption DEF Handlers, ParsersEnd, FirstHandler
<1>3. ASSUME NEW g \in Handlers, g < s + 1 PROVE "passed" \in verdicts'[g]
  <2>1. g = s \/ g < s
    BY <1>2, <1>3, StagesAssumption DEF Handlers, FirstHandler
  <2> QED
    BY <1>1, <1>2, <2>1 DEF Due, ParsersEnd, Handlers, FirstHandler
<1>4. ParsersDone'
  BY <1>1, <1>2 DEF Due, ParsersEnd
<1> QED
  BY <1>2, <1>3, <1>4 DEF Due, ParsersEnd, Handlers, FirstHandler

\* A step of thread t that opens no protect frame.
LEMMA OrderKept ==
    ASSUME TypeOK, OrderInv, AnswersStay, NEW t \in Threads, UNCHANGED entered,
           \A u \in Threads \ {t} : pc'[u] = pc[u] /\ next'[u] = next[u],
           (pc[t] = "protect" => Due(next[t]))',
           (pc[t] = "parsed" => ParsersDone)'
    PROVE  OrderInv'
<1>1. \A s \in entered' : Due(s)'
  BY DueKept DEF OrderInv
<1>2. ASSUME NEW u \in Threads
      PROVE  ((pc[u] = "protect" => Due(next[u])) /\ (pc[u] = "parsed" => ParsersDone))'
  <2>1. CASE u = t
    BY <2>1
  <2>2. CASE u # t
    <3>1. pc'[u] = pc[u] /\ next'[u] = next[u]
      BY <2>2
    <3>2. PICK p : p = next[u]
      OBVIOUS
    <3>3. pc[u] = "protect" => Due(p)'
      BY <3>2, DueKept DEF OrderInv
    <3>4. pc[u] = "parsed" => ParsersDone'
      BY DueKept DEF OrderInv
    <3>5. p = next'[u]
      BY <3>1, <3>2
    <3>6. pc'[u] = "protect" => Due(next[u])'
      BY <3>1, <3>3, <3>5 DEF Due, ParsersEnd, Handlers, FirstHandler
    <3> QED
      BY <3>1, <3>4, <3>6
  <2> QED
    BY <2>1, <2>2
<1> QED
  BY <1>1, <1>2 DEF OrderInv

\* The other threads during a step of thread t, and the labels they never reach in it.
LEMMA OrderQuiet ==
    ASSUME TypeOK, OrderInv, AnswersStay, NEW t \in Threads, UNCHANGED <<next, entered>>,
           pc' = pc \/ \E label \in PCs \ {"parsed", "protect"} : Goto(t, label)
    PROVE  OrderInv'
<1>1. \A u \in Threads \ {t} : pc'[u] = pc[u]
  BY DEF TypeOK, Goto
<1>2. pc'[t] \in {"protect", "parsed"} => pc'[t] = pc[t]
  BY DEF TypeOK, Goto
<1>3. PICK p : p = next[t]
  OBVIOUS
<1>4. pc[t] = "protect" => Due(p)'
  BY <1>3, DueKept DEF OrderInv
<1>5. (pc[t] = "protect" => Due(next[t]))'
  BY <1>2, <1>3, <1>4 DEF Due, ParsersEnd, Handlers, FirstHandler
<1>6. (pc[t] = "parsed" => ParsersDone)'
  BY <1>2, DueKept DEF OrderInv
<1> QED
  BY <1>1, <1>5, <1>6, OrderKept

\* The stage that starts is the next one.
LEMMA OrderProtect ==
    ASSUME TypeOK, OrderInv, AnswersStay, NEW t \in Threads, NEW p \in Positions, Due(p)',
           UNCHANGED entered, GoProtect(t, p)
    PROVE  OrderInv'
<1>1. /\ pc'[t] = "protect" /\ next'[t] = p
      /\ \A u \in Threads \ {t} : pc'[u] = pc[u] /\ next'[u] = next[u]
  BY DEF GoProtect, Goto, TypeOK
<1>2. (pc[t] = "protect" => Due(next[t]))'
  BY <1>1 DEF Due, ParsersEnd, Handlers, FirstHandler
<1> QED
  BY <1>1, <1>2, OrderKept

\* Every step keeps the order of the stages.
LEMMA OrderStep ==
    ASSUME TypeOK, EnteredInv, OrderInv, [Next]_vars
    PROVE  OrderInv'
<1>0. AnswersStay
  BY AnswersKept
<1>1. CASE OnWrite \/ Over \/ UNCHANGED vars \/ \E t \in Threads : Write(t)
  <2>1. UNCHANGED <<pc, next, entered>>
    BY <1>1 DEF OnWrite, Over, vars, control, app, Write
  <2> QED
    BY <1>0, <2>1, OrderQuiet, ThreadFacts
<1>2. CASE Run
  <2>1. PICK p \in Positions : GoProtect(Strand, p) /\ Due(p)
    <3>1. CASE NParsers > 0
      <4>1. Due(1)
        BY StagesAssumption DEF Due, Parsers, ParsersEnd
      <4> QED
        BY <1>2, <3>1, <4>1, PositionFacts DEF Run
    <3>2. CASE ~(NParsers > 0)
      <4>1. ParsersDone
        BY <3>2, StagesAssumption DEF ParsersDone, Parsers
      <4> QED
        BY <1>2, <3>2, <4>1, FirstHandlerDue, PositionFacts DEF Run
    <3> QED
      BY <3>1, <3>2
  <2>2. Due(p)'
    BY <1>0, <2>1, DueKept
  <2> QED
    BY <1>0, <1>2, <2>1, <2>2, OrderProtect, ThreadFacts DEF Run, app
<1>3. ASSUME NEW t \in Threads, Protect(t) PROVE OrderInv'
  <2>1. /\ pc[t] = "protect" /\ next' = [next EXCEPT ![t] = 0]
        /\ entered' = entered \cup ({next[t]} \cap Stages)
    BY <1>3 DEF Protect, At
  <2>2. PICK p : p = next[t]
    OBVIOUS
  <2>3. Due(p) /\ Due(p)'
    BY <1>0, <2>1, <2>2, DueKept DEF OrderInv
  <2>4. PICK label \in {"parsed", "error_view", "user"} :
             Goto(t, label) /\ (label = "parsed" => p = ParsersEnd)
    <3>1. CASE next[t] = ParsersEnd
      BY <1>3, <2>2, <3>1 DEF Protect
    <3>2. CASE next[t] # ParsersEnd /\ next[t] = HandlersEnd
      BY <1>3, <3>2 DEF Protect
    <3>3. CASE next[t] # ParsersEnd /\ next[t] # HandlersEnd
      BY <1>3, <3>3 DEF Protect
    <3> QED
      BY <3>1, <3>2, <3>3
  <2>5. \A s \in entered' : Due(s)'
    BY <1>0, <2>1, <2>2, <2>3, DueKept DEF OrderInv
  <2>6. p = ParsersEnd => ParsersDone'
    BY <2>3, StagesAssumption DEF Due, ParsersDone, Parsers, ParsersEnd
  <2>7. ASSUME NEW u \in Threads
        PROVE  ((pc[u] = "protect" => Due(next[u])) /\ (pc[u] = "parsed" => ParsersDone))'
    <3>1. CASE u = t
      BY <2>4, <2>6, <3>1 DEF Goto, TypeOK
    <3>2. CASE u # t
      <4>1. pc'[u] = pc[u] /\ next'[u] = next[u]
        BY <2>1, <2>4, <3>2 DEF Goto, TypeOK
      <4>2. PICK q : q = next[u]
        OBVIOUS
      <4>3. (pc[u] = "protect" => Due(q)') /\ (pc[u] = "parsed" => ParsersDone')
        BY <1>0, <4>2, DueKept DEF OrderInv
      <4>4. pc'[u] = "protect" => Due(next[u])'
        BY <4>1, <4>2, <4>3 DEF Due, ParsersEnd, Handlers, FirstHandler
      <4> QED
        BY <4>1, <4>3, <4>4
    <3> QED
      BY <3>1, <3>2
  <2> QED
    BY <2>5, <2>7 DEF OrderInv
<1>4. ASSUME NEW t \in Threads, OnParsed(t) PROVE OrderInv'
  <2>1. UNCHANGED entered
    BY <1>4 DEF OnParsed, app
  <2>2. CASE pc[t] = "parsed" /\ GoProtect(t, FirstHandler)
    <3>1. Due(FirstHandler)
      BY <2>2, FirstHandlerDue DEF OrderInv
    <3>2. PICK p : p = FirstHandler
      OBVIOUS
    <3>3. Due(p)'
      BY <1>0, <3>1, <3>2, DueKept
    <3> QED
      BY <1>0, <2>1, <2>2, <3>2, <3>3, OrderProtect, PositionFacts
  <2>3. CASE UNCHANGED next /\ \E label \in {"finish", "error_view"} : Goto(t, label)
    BY <1>0, <2>1, <2>3, OrderQuiet DEF PCs
  <2> QED
    BY <1>4, <2>2, <2>3 DEF OnParsed, Handled
<1>5. ASSUME NEW t \in Threads, AnswerParser(t) \/ AnswerHandler(t) PROVE OrderInv'
  <2>1. UNCHANGED entered /\ Top(t) \in Stages /\ Top(t) \in entered
    BY <1>5, TopEntered DEF AnswerParser, AnswerHandler, Stages
  <2>2. PICK s \in entered : s = Top(t)
    BY <2>1
  <2>3. s \in Stages /\ s + 1 \in Positions
    BY <2>1, <2>2, PositionFacts
  <2>4. ASSUME NEW verdict, Answer(t, verdict) PROVE verdict \in verdicts'[s]
    BY <2>2, <2>3, <2>4 DEF Answer, TypeOK
  <2>5. CASE GoProtect(t, Top(t) + 1)
    <3>1. CASE AnswerParser(t) /\ Answer(t, "continue")
      <4>1. s \in entered \cap Parsers /\ "continue" \in verdicts'[s]
        BY <2>2, <2>4, <3>1 DEF AnswerParser
      <4>2. Due(s + 1)'
        BY <1>0, <4>1, DueAfterParser
      <4> QED
        BY <1>0, <2>1, <2>2, <2>3, <2>5, <4>2, OrderProtect
    <3>2. CASE AnswerHandler(t) /\ Answer(t, "passed")
      <4>1. s \in entered \cap Handlers /\ "passed" \in verdicts'[s]
        BY <2>2, <2>4, <3>2 DEF AnswerHandler
      <4>2. Due(s + 1)'
        BY <1>0, <4>1, DueAfterHandler
      <4> QED
        BY <1>0, <2>1, <2>2, <2>3, <2>5, <4>2, OrderProtect
    <3>3. AnswerParser(t) => Answer(t, "continue")
      BY <2>5 DEF AnswerParser, GoProtect, Goto, TypeOK
    <3>4. AnswerHandler(t) => Answer(t, "passed")
      BY <2>5 DEF AnswerHandler, Handled, GoProtect, Goto, TypeOK
    <3> QED
      BY <1>5, <3>1, <3>2, <3>3, <3>4
  <2>6. CASE UNCHANGED next /\ Goto(t, "parsed") /\ Answer(t, "stop") /\ s \in Parsers
    <3>1. ParsersDone'
      <4>1. "stop" \in verdicts'[s]
        BY <2>4, <2>6
      <4> QED
        BY <2>6, <4>1 DEF ParsersDone, Parsers
    <3>2. pc'[t] = "parsed" /\ \A u \in Threads \ {t} : pc'[u] = pc[u] /\ next'[u] = next[u]
      BY <2>6 DEF Goto, TypeOK
    <3>3. (pc[t] = "protect" => Due(next[t]))'
      BY <3>2
    <3> QED
      BY <1>0, <2>1, <3>1, <3>2, <3>3, OrderKept
  <2>7. CASE UNCHANGED next /\ \E label \in {"unparsed", "finish"} : Goto(t, label)
    BY <1>0, <2>1, <2>7, OrderQuiet DEF PCs
  <2> QED
    BY <1>5, <2>2, <2>5, <2>6, <2>7 DEF AnswerParser, AnswerHandler, Handled
<1>6. ASSUME NEW t \in Threads, NEW s \in Stages, Resume(t, s) PROVE OrderInv'
  <2>1. UNCHANGED entered /\ s \in entered
    BY <1>6 DEF Resume, EnteredInv
  <2>2. Due(s)'
    BY <1>0, <2>1, DueKept DEF OrderInv
  <2>3. CASE GoProtect(t, s)
    BY <1>0, <2>1, <2>2, <2>3, OrderProtect, PositionFacts
  <2>4. CASE Goto(t, "user") /\ UNCHANGED next
    BY <1>0, <2>1, <2>4, OrderQuiet DEF PCs
  <2> QED
    BY <1>6, <2>3, <2>4 DEF Resume
<1>7. ASSUME NEW t \in Threads, Pipeline(t), ~Protect(t), ~OnParsed(t) PROVE OrderInv'
  <2>1. UNCHANGED <<next, entered>>
    BY <1>7 DEF Pipeline, ErrorView, Render, ReadCode, Claim, FinalSend, Resolve, Catch, Respond,
                CheckFinished, Return, app
  <2>2. pc' = pc \/ \E label \in PCs \ {"parsed", "protect"} : Goto(t, label)
    <3>1. CASE Render(t)
      BY <3>1 DEF Render, Raise, GoBack, PCs
    <3>2. CASE Claim(t) \/ Resolve(t) \/ Catch(t) \/ CheckFinished(t)
      BY <3>2 DEF Claim, Resolve, Catch, CheckFinished, GoBack, PCs
    <3>3. CASE ErrorView(t) \/ ReadCode(t) \/ FinalSend(t) \/ Respond(t)
      BY <3>3 DEF ErrorView, ReadCode, FinalSend, Respond, PCs
    <3>4. CASE Return(t)
      BY <3>4 DEF Return, PCs
    <3> QED
      BY <1>7, <3>1, <3>2, <3>3, <3>4 DEF Pipeline
  <2> QED
    BY <1>0, <2>1, <2>2, OrderQuiet
<1>8. ASSUME NEW t \in Threads,
             \/ StageReturns(t) \/ StageThrows(t) \/ StageSetsStatus(t) \/ StageSends(t)
             \/ StageHolds(t) \/ \E s \in Stages : Drop(t, s)
      PROVE  OrderInv'
  <2>1. UNCHANGED <<next, entered>>
    BY <1>8 DEF StageReturns, StageThrows, StageSetsStatus, StageSends, StageHolds, Drop, control, app
  <2>2. pc' = pc \/ \E label \in PCs \ {"parsed", "protect"} : Goto(t, label)
    BY <1>8 DEF StageReturns, StageThrows, Raise, StageSetsStatus, StageSends, StageHolds, Drop,
                control, PCs
  <2> QED
    BY <1>0, <2>1, <2>2, OrderQuiet
<1> QED
  BY <1>1, <1>2, <1>3, <1>4, <1>5, <1>6, <1>7, <1>8 DEF Next, Application

\* Stages start in the order in which the server registered them, each when those before it
\* let it, whatever threads they answer from and however often they answer.
THEOREM StagesAreOrdered == Spec => []StagesStartInOrder
<1>1. Init => EnteredInv /\ OrderInv
  BY EnteredInit DEF Init, OrderInv
<1>2. TypeOK /\ EnteredInv /\ OrderInv /\ [Next]_vars => (EnteredInv /\ OrderInv)'
  BY EnteredStep, OrderStep
<1>3. OrderInv => StagesStartInOrder
  <2> SUFFICES ASSUME OrderInv PROVE StagesStartInOrder
    OBVIOUS
  <2>1. ASSUME NEW p \in Parsers \cap entered, NEW q \in Parsers, q < p
        PROVE  "continue" \in verdicts[q]
    BY <2>1, StagesAssumption DEF OrderInv, Due, Parsers, ParsersEnd
  <2>2. ASSUME NEW h \in Handlers \cap entered
        PROVE  ParsersDone /\ \A g \in Handlers : g < h => "passed" \in verdicts[g]
    BY <2>2, StagesAssumption DEF OrderInv, Due, Handlers, ParsersEnd, FirstHandler
  <2> QED
    BY <2>1, <2>2 DEF StagesStartInOrder, ParsersDone
<1> QED
  BY <1>1, <1>2, <1>3, TypeCorrect, PTL DEF Spec

-----------------------------------------------------------------------------
\* The stages that did not answer yet, and the threads on their way to a new one.
Waiting == {s \in entered : answers[s] = 0}
Moving  == {t \in Threads : \/ pc[t] \in {"parsed", "unparsed"}
                            \/ pc[t] = "protect" /\ next[t] \notin entered}

\* When stages answer once, one stage or one thread at a time carries the request
\* forward, and nobody does once it is handled.
TokenInv ==
    /\ ctx = "created" => entered = {} /\ Moving = {} /\ ~handled
    /\ \A s \in Stages : answers[s] > 0 => s \in entered
    /\ \A s1, s2 \in Waiting : s1 = s2
    /\ \A t1, t2 \in Moving : t1 = t2
    /\ Waiting = {} \/ Moving = {}
    /\ handled => Waiting = {} /\ Moving = {}

\* A step that sets no thread moving and calls no callback.
LEMMA TokenQuiet ==
    ASSUME TypeOK, TokenInv, NEW t \in Threads,
           ctx' = "created" => (ctx' = ctx /\ pc' = pc),
           \/ pc' = pc
           \/ \E label \in PCs \ {"parsed", "unparsed", "protect"} : pc' = [pc EXCEPT ![t] = label],
           UNCHANGED <<next, answers, entered>>,
           handled' \in {handled, FALSE}
    PROVE  TokenInv'
<1>1. Moving' \subseteq Moving
  BY DEF TypeOK, Moving
<1>2. Waiting' = Waiting
  BY DEF Waiting
<1>3. handled' => handled
  OBVIOUS
<1>4. ctx' = "created" => entered' = {} /\ Moving' = {} /\ ~handled'
  BY <1>1, <1>3 DEF TokenInv
<1>5. \A s \in Stages : answers'[s] > 0 => s \in entered'
  BY DEF TokenInv
<1>6. /\ \A t1, t2 \in Moving' : t1 = t2
      /\ Waiting' = {} \/ Moving' = {}
      /\ handled' => Waiting' = {} /\ Moving' = {}
  BY <1>1, <1>2, <1>3 DEF TokenInv
<1> QED
  BY <1>2, <1>4, <1>5, <1>6 DEF TokenInv

\* Thread t carries the request on, from a stage or from on_parsed.
LEMMA TokenMoves ==
    ASSUME TypeOK, TokenInv, NEW t \in Threads,
           ctx' # "created", UNCHANGED entered,
           \A u \in Threads \ {t} : pc'[u] = pc[u] /\ next'[u] = next[u],
           \A s \in Stages : answers'[s] > 0 => s \in entered,
           Waiting' = {}, Moving \subseteq {t},
           handled' => Moving' = {}
    PROVE  TokenInv'
<1>1. Moving' \subseteq {t}
  BY DEF Moving
<1> QED
  BY <1>1 DEF TokenInv

\* Every step passes the request on once at most.
LEMMA TokenStep ==
    ASSUME MaxAnswers = 1, TypeOK, EnteredInv, TokenInv, [Next]_vars
    PROVE  TokenInv'
<1>1. CASE OnWrite \/ Over \/ UNCHANGED vars \/ \E t \in Threads : Write(t)
  <2>1. UNCHANGED <<ctx, pc, next, answers, entered, handled>>
    BY <1>1 DEF OnWrite, Over, vars, control, outcome, app, Write
  <2> QED
    BY <2>1, TokenQuiet, ThreadFacts
<1>2. CASE Run
  <2>1. PICK position \in Positions :
             /\ pc' = [pc EXCEPT ![Strand] = "protect"]
             /\ next' = [next EXCEPT ![Strand] = position]
    BY <1>2, PositionFacts DEF Run, GoProtect, Goto
  <2>2. ctx = "created" /\ ctx' # "created" /\ UNCHANGED <<answers, entered, handled>>
    BY <1>2 DEF Run, app, outcome
  <2>3. Waiting' = {} /\ Moving = {} /\ ~handled'
    BY <2>2 DEF TokenInv, Waiting
  <2>4. \A u \in Threads \ {Strand} : pc'[u] = pc[u] /\ next'[u] = next[u]
    BY <2>1 DEF TypeOK
  <2>5. \A s \in Stages : answers'[s] > 0 => s \in entered
    BY <2>2 DEF TokenInv
  <2> QED
    BY <2>2, <2>3, <2>4, <2>5, TokenMoves, ThreadFacts
<1>3. ASSUME NEW t \in Threads, Pipeline(t) PROVE TokenInv'
  <2>0. ctx = "live"
    BY <1>3 DEF Pipeline, At, Protect, OnParsed, ErrorView, Render, ReadCode, Claim,
                FinalSend, Resolve, Catch, Respond, CheckFinished, Return
  <2>1. CASE Protect(t)
    <3>1. next[t] \in Positions
      BY <2>1, PositionFacts DEF Protect, At, TypeOK
    <3>2. /\ pc[t] = "protect" /\ ctx' = ctx /\ UNCHANGED <<answers, handled>>
          /\ entered' = entered \cup ({next[t]} \cap Stages)
          /\ next' = [next EXCEPT ![t] = 0]
      BY <2>1 DEF Protect, At, outcome
    <3>3. PICK label \in {"parsed", "error_view", "user"} :
               /\ pc' = [pc EXCEPT ![t] = label]
               /\ label = "parsed" => next[t] = ParsersEnd
      <4>1. CASE next[t] = ParsersEnd
        BY <2>1, <4>1, PositionFacts DEF Protect, Goto
      <4>2. CASE next[t] # ParsersEnd /\ next[t] = HandlersEnd
        BY <2>1, <4>2 DEF Protect, Goto
      <4>3. CASE next[t] # ParsersEnd /\ next[t] # HandlersEnd
        BY <2>1, <4>3 DEF Protect, Goto
      <4> QED
        BY <4>1, <4>2, <4>3
    <3>5. \A s \in Stages : answers'[s] > 0 => s \in entered'
      BY <3>2 DEF TokenInv
    <3>6. Moving' \subseteq Moving
      <4>1. \A u \in Threads \ {t} : pc'[u] = pc[u] /\ next'[u] = next[u]
        BY <3>2, <3>3 DEF TypeOK
      <4>2. t \in Moving' => t \in Moving
        <5>1. t \in Moving' => pc'[t] = "parsed" /\ next[t] = ParsersEnd
          BY <3>3 DEF Moving, TypeOK
        <5>2. ParsersEnd \notin entered
          BY PositionFacts DEF TypeOK
        <5> QED
          BY <3>2, <5>1, <5>2 DEF Moving
      <4> QED
        BY <3>2, <4>1, <4>2 DEF Moving
    <3>7. CASE next[t] \in Stages \ entered
      <4>1. t \in Moving
        BY <3>2, <3>7 DEF Moving
      <4>2. Waiting = {} /\ ~handled /\ Moving = {t}
        BY <4>1 DEF TokenInv
      <4>3. Waiting' \subseteq {next[t]}
        BY <3>2, <4>2 DEF Waiting
      <4>4. t \notin Moving'
        BY <3>2, <3>3, <3>7, PositionFacts DEF Moving, TypeOK
      <4>5. Moving' = {}
        BY <3>6, <4>2, <4>4
      <4> QED
        BY <2>0, <3>2, <3>5, <4>2, <4>3, <4>5 DEF TokenInv
    <3>8. CASE next[t] \notin Stages \ entered
      <4>1. entered' = entered
        BY <3>2, <3>8
      <4>2. Waiting' = Waiting
        BY <3>2, <4>1 DEF Waiting
      <4> QED
        BY <2>0, <3>2, <3>5, <3>6, <4>2 DEF TokenInv
    <3> QED
      BY <3>7, <3>8
  <2>2. CASE OnParsed(t)
    <3>1. t \in Moving
      BY <2>2 DEF OnParsed, At, Moving
    <3>2. Waiting = {} /\ Moving = {t} /\ ~handled
      BY <3>1 DEF TokenInv
    <3>3. UNCHANGED <<ctx, answers, entered>>
      BY <2>2 DEF OnParsed, app
    <3>4. \A u \in Threads \ {t} : pc'[u] = pc[u] /\ next'[u] = next[u]
      BY <2>2 DEF TypeOK, OnParsed, Handled, GoProtect, Goto
    <3>5. handled' => Moving' = {}
      <4>1. handled' => pc'[t] = "finish"
        BY <2>2, <3>2 DEF TypeOK, OnParsed, Handled, Goto
      <4> QED
        BY <3>2, <3>3, <3>4, <4>1 DEF Moving
    <3>6. Waiting' = {} /\ \A s \in Stages : answers'[s] > 0 => s \in entered
      BY <3>2, <3>3 DEF Waiting, TokenInv
    <3> QED
      BY <2>0, <3>2, <3>3, <3>4, <3>5, <3>6, TokenMoves
  <2>3. CASE Return(t)
    <3>1. /\ UNCHANGED <<next, handled, answers, entered>>
          /\ ctx' # "created"
      BY <2>0, <2>3 DEF Return, Release, outcome, app
    <3>2. \E label \in PCs \ {"parsed", "unparsed", "protect"} : pc' = [pc EXCEPT ![t] = label]
      BY <2>3 DEF Return, Goto, PCs
    <3> QED
      BY <3>1, <3>2, TokenQuiet
  <2>4. CASE \/ ErrorView(t) \/ Render(t) \/ ReadCode(t) \/ Claim(t) \/ FinalSend(t)
             \/ Resolve(t) \/ Catch(t) \/ Respond(t) \/ CheckFinished(t)
    <3>1. UNCHANGED <<next, answers, entered>> /\ handled' \in {handled, FALSE}
      BY <2>4 DEF ErrorView, Render, ReadCode, Claim, FinalSend, Resolve, Catch, Respond,
                  CheckFinished, outcome, app
    <3>2. ctx' # "created"
      BY <2>0, <2>4 DEF ErrorView, Render, Raise, ReadCode, Claim, FinalSend, Resolve, Catch,
                  Respond, CheckFinished
    <3>3. \/ pc' = pc
          \/ \E label \in PCs \ {"parsed", "unparsed", "protect"} : pc' = [pc EXCEPT ![t] = label]
      <4>1. CASE Render(t)
        BY <4>1 DEF Render, Raise, GoBack, Goto, PCs
      <4>2. CASE Claim(t) \/ Resolve(t) \/ Catch(t) \/ CheckFinished(t)
        BY <4>2 DEF Claim, Resolve, Catch, CheckFinished, GoBack, Goto, PCs
      <4>3. CASE ErrorView(t) \/ ReadCode(t) \/ FinalSend(t) \/ Respond(t)
        BY <4>3 DEF ErrorView, ReadCode, FinalSend, Respond, Goto, PCs
      <4> QED
        BY <2>4, <4>1, <4>2, <4>3
    <3> QED
      BY <3>1, <3>2, <3>3, TokenQuiet
  <2> QED
    BY <1>3, <2>1, <2>2, <2>3, <2>4 DEF Pipeline
<1>4. ASSUME NEW t \in Threads, Application(t) PROVE TokenInv'
  <2>0. ctx = "live"
    BY <1>4 DEF Application, At, AnswerParser, AnswerHandler, StageReturns, StageThrows,
                StageSetsStatus, StageSends, StageHolds, Resume, Drop
  <2>1. CASE AnswerParser(t) \/ AnswerHandler(t)
    <3> DEFINE s == Top(t)
    <3>1. s \in Stages /\ answers[s] < 1
      BY <2>1 DEF AnswerParser, AnswerHandler, Answer, Stages
    <3>2. s \in Waiting
      BY <3>1, TopEntered DEF Waiting, TypeOK
    <3>3. Waiting = {s} /\ Moving = {} /\ ~handled
      BY <3>2 DEF TokenInv
    <3>4. /\ UNCHANGED <<ctx, entered>>
          /\ answers' = [answers EXCEPT ![s] = @ + 1]
      BY <2>1 DEF AnswerParser, AnswerHandler, Answer
    <3>5. Waiting' = {}
      BY <3>1, <3>3, <3>4 DEF Waiting, TypeOK
    <3>6. \A p \in Stages : answers'[p] > 0 => p \in entered
      BY <3>2, <3>4 DEF TokenInv, Waiting, TypeOK
    <3>7. \A u \in Threads \ {t} : pc'[u] = pc[u] /\ next'[u] = next[u]
      BY <2>1 DEF TypeOK, AnswerParser, AnswerHandler, Handled, GoProtect, Goto
    <3>8. handled' => Moving' = {}
      <4>1. handled' => pc'[t] = "finish"
        BY <2>1, <3>3 DEF TypeOK, AnswerParser, AnswerHandler, Handled, Goto, outcome
      <4> QED
        BY <3>3, <3>4, <3>7, <4>1 DEF Moving
    <3> QED
      BY <2>0, <3>3, <3>4, <3>5, <3>6, <3>7, <3>8, TokenMoves
  <2>2. CASE StageReturns(t) \/ StageThrows(t) \/ StageSetsStatus(t) \/ StageSends(t)
    <3>1. UNCHANGED <<next, answers, entered, handled>> /\ ctx' # "created"
      BY <2>0, <2>2 DEF StageReturns, StageThrows, Raise, StageSetsStatus, StageSends,
                  control, outcome, app
    <3>2. \/ pc' = pc
          \/ \E label \in PCs \ {"parsed", "unparsed", "protect"} : pc' = [pc EXCEPT ![t] = label]
      BY <2>2 DEF StageReturns, StageThrows, Raise, StageSetsStatus, StageSends, control,
                  Goto, PCs
    <3> QED
      BY <3>1, <3>2, TokenQuiet
  <2>3. CASE StageHolds(t)
    <3>1. UNCHANGED <<ctx, pc, next, handled, answers, entered>>
      BY <2>3 DEF StageHolds, control, outcome
    <3> QED
      BY <2>0, <3>1, TokenQuiet
  <2>4. ASSUME NEW s \in Stages, Resume(t, s) PROVE TokenInv'
    <3>1. s \in entered
      BY <2>4 DEF Resume, EnteredInv
    <3>2. UNCHANGED <<ctx, handled, answers, entered>>
      BY <2>4 DEF Resume, outcome
    <3>3. CASE GoProtect(t, s)
      <4>1. Moving' \subseteq Moving
        BY <3>1, <3>2, <3>3 DEF GoProtect, Goto, Moving, TypeOK
      <4>2. Waiting' = Waiting
        BY <3>2 DEF Waiting
      <4> QED
        BY <2>0, <3>2, <4>1, <4>2 DEF TokenInv
    <3>4. CASE Goto(t, "user") /\ UNCHANGED next
      <4>1. \E label \in PCs \ {"parsed", "unparsed", "protect"} : pc' = [pc EXCEPT ![t] = label]
        BY <3>4 DEF Goto, PCs
      <4> QED
        BY <2>0, <3>2, <3>4, <4>1, TokenQuiet
    <3> QED
      BY <2>4, <3>3, <3>4 DEF Resume
  <2>5. ASSUME NEW s \in Stages, Drop(t, s) PROVE TokenInv'
    <3>1. UNCHANGED <<pc, next, handled, answers, entered>> /\ ctx' # "created"
      BY <2>5, <2>0 DEF Drop, Release, control, outcome
    <3> QED
      BY <3>1, TokenQuiet
  <2> QED
    BY <1>4, <2>1, <2>2, <2>3, <2>4, <2>5 DEF Application
<1> QED
  BY <1>1, <1>2, <1>3, <1>4 DEF Next

\* No step of a handled request runs another stage.
LEMMA HandledIsLast ==
    ASSUME TypeOK, TokenInv, [Next]_vars
    PROVE  handled => UNCHANGED entered
<1>1. UNCHANGED entered \/ \E t \in Threads : Protect(t)
  BY DEF Next, Run, OnWrite, Over, vars, app, Write, Pipeline, OnParsed, ErrorView, Render,
         ReadCode, Claim, FinalSend, Resolve, Catch, Respond, CheckFinished, Return,
         Application, AnswerParser, AnswerHandler, StageReturns, StageThrows,
         StageSetsStatus, StageSends, StageHolds, Resume, Drop
<1>2. ASSUME NEW t \in Threads, Protect(t), handled PROVE UNCHANGED entered
  <2>1. next[t] \in entered
    BY <1>2 DEF Protect, At, TokenInv, Moving
  <2> QED
    BY <1>2, <2>1 DEF Protect
<1> QED
  BY <1>1, <1>2

\* A request that a stage handled goes to no other stage, whichever threads answer, as
\* long as each stage answers once.
THEOREM StopsOnTrue ==
    ASSUME MaxAnswers = 1
    PROVE  Spec => HandlersStopOnTrue
<1>1. Init => EnteredInv /\ TokenInv
  <2> SUFFICES ASSUME Init PROVE EnteredInv /\ TokenInv
    OBVIOUS
  <2>1. Moving = {} /\ Waiting = {}
    BY DEF Init, Moving, Waiting
  <2> QED
    BY <2>1, EnteredInit DEF Init, TokenInv
<1>2. TypeOK /\ EnteredInv /\ TokenInv /\ [Next]_vars => (EnteredInv /\ TokenInv)'
  BY EnteredStep, TokenStep
<1>3. TypeOK /\ TokenInv /\ [Next]_vars => [handled => UNCHANGED entered]_vars
  BY HandledIsLast
<1> QED
  BY <1>1, <1>2, <1>3, TypeCorrect, PTL DEF Spec, HandlersStopOnTrue

-----------------------------------------------------------------------------
\* The strand alone runs the request, and what it read is the status that it sends.
Alone == \A w \in Workers : pc[w] = "idle"

AloneInv ==
    /\ ctx = "created" => ~sent
    /\ pc[Strand] \in {"claim", "send"} => code[Strand] = status
    /\ pc[Strand] = "send" /\ sent => wire = status
    /\ pc[Strand] = "resolve" =>
         IF writing = {} THEN wire = code[Strand] ELSE code[Strand] = status
    /\ sent /\ ctx = "live" /\ ~finished =>
         /\ pc[Strand] \in {"finish", "claim"}
         /\ writing = {} => wire = status
    /\ writing # {} => /\ promise = NoCode
                       /\ ctx = "live" => pc[Strand] \in {"finish", "resolve"} /\ writing = {Strand}
    /\ promise # NoCode => promise = wire

\* Without other threads, a step is one of the strand, or a worker drops a callback.
LEMMA AloneSteps ==
    ASSUME TypeOK, Alone, Alone', NEW t \in Threads, Pipeline(t) \/ Application(t), t # Strand
    PROVE  \E s \in Stages : Drop(t, s)
<1>1. t \in Workers /\ pc[t] = "idle" /\ pc'[t] = "idle"
  BY DEF Threads, Alone
<1>2. ~Pipeline(t)
  BY <1>1 DEF Pipeline, At, Protect, OnParsed, ErrorView, Render, ReadCode, Claim, FinalSend,
              Resolve, Catch, Respond, CheckFinished, Return
<1>3. \A s \in Stages : ~Resume(t, s)
  <2>1. ASSUME NEW s \in Stages, Resume(t, s) PROVE pc'[t] \in {"protect", "user"}
    BY <2>1 DEF Resume, GoProtect, Goto, TypeOK
  <2> QED
    BY <1>1, <2>1
<1> QED
  BY <1>1, <1>2, <1>3 DEF Application, AnswerParser, AnswerHandler, StageReturns, StageThrows,
                          StageSetsStatus, StageSends, StageHolds, At

\* A step outside of on_finished that sends nothing.
LEMMA AloneOther ==
    ASSUME AloneInv, pc[Strand] \notin {"finish", "claim", "send", "resolve"},
           pc'[Strand] \notin {"claim", "send", "resolve"},
           UNCHANGED <<sent, writing, wire, promise, finished>>,
           ctx' \in {ctx, "terminated"}
    PROVE  AloneInv'
BY DEF AloneInv

\* The last reference goes away: what the destructor sends was promised to nobody.
LEMMA AloneRelease ==
    ASSUME FinishInv, AloneInv, pc'[Strand] = "idle", NEW t, NEW s, Release(t, s),
           pc[Strand] \notin {"finish", "claim", "send", "resolve"},
           UNCHANGED <<wire, promise, finished>>
    PROVE  AloneInv'
<1>1. CASE LastReference(t, s)
  <2>1. ctx' = "destroyed" /\ Send(t)
    BY <1>1 DEF Release
  <2>2. writing' # {} => promise = NoCode
    BY <2>1 DEF Send, FinishInv, PromiseClaimed, AloneInv
  <2> QED
    BY <2>1, <2>2 DEF AloneInv
<1>2. CASE ~LastReference(t, s)
  BY <1>2, AloneOther DEF Release
<1> QED
  BY <1>1, <1>2

\* Every step of the strand keeps what it read equal to what it sends.
LEMMA AloneStep ==
    ASSUME AppMaySend = FALSE, TypeOK, SingleResponse, NoUseAfterDestruction, FinishInv, AloneInv,
           Alone, Alone', [Next]_vars
    PROVE  AloneInv'
<1> USE ThreadFacts
<1>1. CASE Over \/ UNCHANGED vars
  BY <1>1 DEF Over, vars, control, response, outcome, AloneInv
<1>2. CASE Run
  <2>1. /\ pc'[Strand] = "protect" /\ UNCHANGED <<sent, writing, wire, promise, finished>>
        /\ ctx = "created" /\ ctx' = "live"
    BY <1>2 DEF Run, GoProtect, Goto, TypeOK, response, outcome
  <2> QED
    BY <2>1 DEF AloneInv, SingleResponse
<1>3. CASE OnWrite
  <2>1. pc[Strand] = "idle" /\ UNCHANGED <<ctx, pc, sent, writing, wire, promise, finished>>
    BY <1>3 DEF OnWrite, control, outcome
  <2> QED
    BY <2>1, AloneOther
<1>4. ASSUME NEW t \in Threads \ {Strand}, NEW s \in Stages, Drop(t, s) PROVE AloneInv'
  <2>1. UNCHANGED <<pc, code, status, wire, finished, promise>>
    BY <1>4 DEF Drop, NothingWritten, control, outcome
  <2>2. CASE LastReference(t, s)
    <3>1. pc[Strand] = "idle" /\ Release(t, s)
      BY <1>4, <2>2 DEF LastReference, Drop
    <3> QED
      BY <2>1, <3>1, AloneRelease
  <2>3. CASE ~LastReference(t, s)
    <3>1. UNCHANGED <<ctx, sent, writing, wire>>
      BY <1>4, <2>1, <2>3 DEF Drop, Release
    <3> QED
      BY <2>1, <3>1 DEF AloneInv
  <2> QED
    BY <2>2, <2>3
<1>8. ASSUME NEW t \in Threads, Write(t) PROVE AloneInv'
  <2>1. /\ t \in writing /\ ctx \in {"live", "destroyed"} /\ wire' = status /\ writing' = writing \ {t}
        /\ UNCHANGED <<ctx, pc, code, status, sent, finished, promise>>
    BY <1>8 DEF Write, control, outcome
  <2>2. sent /\ writing' = {}
    BY <2>1 DEF SingleResponse
  <2>3. promise = NoCode
    BY <2>1 DEF AloneInv
  <2>4. CASE ctx = "live"
    BY <2>1, <2>2, <2>3, <2>4 DEF AloneInv
  <2>5. CASE ctx = "destroyed"
    <3>1. pc[Strand] = "idle"
      BY <2>5 DEF NoUseAfterDestruction
    <3> QED
      BY <2>1, <2>2, <2>3, <2>5, <3>1 DEF AloneInv
  <2> QED
    BY <2>1, <2>4, <2>5
<1>5. CASE Pipeline(Strand)
  <2>0. ctx = "live" /\ writing = {}
    <3>1. ctx = "live" /\ Strand \notin writing
      BY <1>5 DEF Pipeline, At, Protect, OnParsed, ErrorView, Render, ReadCode, Claim, FinalSend,
                  Resolve, Catch, Respond, CheckFinished, Return
    <3> QED
      BY <3>1 DEF AloneInv
  <2>1. CASE Protect(Strand)
    <3>1. pc[Strand] = "protect" /\ pc'[Strand] \in {"parsed", "error_view", "user"}
          /\ UNCHANGED <<ctx, sent, writing, wire, promise, finished>>
      BY <2>1 DEF Protect, At, Goto, TypeOK, response, outcome
    <3> QED
      BY <3>1, AloneOther
  <2>2. CASE OnParsed(Strand)
    <3>1. pc[Strand] \in {"parsed", "unparsed"} /\ UNCHANGED <<ctx, sent, writing, wire, promise, finished>>
      BY <2>2 DEF OnParsed, At
    <3>2. pc'[Strand] \in {"finish", "protect", "error_view"}
      BY <2>2 DEF OnParsed, Handled, GoProtect, Goto, TypeOK
    <3> QED
      BY <3>1, <3>2, AloneOther
  <2>3. CASE ErrorView(Strand) \/ Catch(Strand) \/ Respond(Strand) \/ CheckFinished(Strand)
    <3>1. /\ pc[Strand] \in {"error_view", "catch", "respond", "check"}
          /\ UNCHANGED <<ctx, sent, writing, wire, promise, finished>>
      BY <2>3 DEF ErrorView, Catch, Respond, CheckFinished, At, response, outcome
    <3>2. pc'[Strand] \in {"render", "respond", "check", "user", "return"}
      BY <2>3 DEF ErrorView, Catch, Respond, CheckFinished, GoBack, Goto, TypeOK
    <3> QED
      BY <3>1, <3>2, AloneOther
  <2>4. CASE Render(Strand)
    <3>1. pc[Strand] = "render" /\ UNCHANGED <<status, wire, promise, finished>> /\ ctx = "live"
      BY <2>4 DEF Render, NothingWritten, At, outcome
    <3>2. CASE Send(Strand) /\ Goto(Strand, "finish") /\ ctx' = ctx
      <4>1. pc'[Strand] = "finish"
        BY <3>2 DEF Goto, TypeOK
      <4>2. sent => finished
        BY <3>1 DEF AloneInv
      <4>3. sent' /\ writing' = IF sent THEN {} ELSE {Strand}
        BY <2>0, <3>2 DEF Send
      <4>4. ~sent => promise = NoCode
        BY DEF FinishInv, PromiseClaimed
      <4> QED
        BY <2>0, <3>1, <3>2, <4>1, <4>2, <4>3, <4>4 DEF AloneInv
    <3>3. CASE UNCHANGED <<sent, writing, wire>>
      <4>1. pc'[Strand] \in {"render", "finish", "catch", "respond", "user", "return"}
        BY <2>4, <3>1 DEF Render, Raise, GoBack, Goto, TypeOK
      <4>2. ctx' \in {ctx, "terminated"}
        BY <2>4 DEF Render, Raise
      <4> QED
        BY <3>1, <3>3, <4>1, <4>2, AloneOther
    <3> QED
      BY <2>4, <3>1, <3>2, <3>3 DEF Render
  <2>5. CASE ReadCode(Strand)
    <3>1. /\ pc[Strand] = "finish" /\ pc'[Strand] = "claim" /\ code'[Strand] = status
          /\ UNCHANGED <<ctx, sent, writing, wire, status, promise, finished>>
      BY <2>5 DEF ReadCode, At, Goto, TypeOK, response, outcome
    <3> QED
      BY <2>0, <3>1 DEF AloneInv
  <2>6. CASE Claim(Strand)
    <3>1. pc[Strand] = "claim" /\ finished' /\ UNCHANGED <<ctx, sent, writing, wire, status, promise>> /\ ctx = "live"
      BY <2>6 DEF Claim, At, response
    <3>2. CASE finished
      <4>1. pc'[Strand] \in {"user", "return"}
        BY <2>6, <3>2 DEF Claim, GoBack, Goto, TypeOK
      <4> QED
        BY <2>0, <3>1, <4>1 DEF AloneInv
    <3>3. CASE ~finished
      <4>1. pc'[Strand] = "send" /\ UNCHANGED code
        BY <2>6, <3>3 DEF Claim, Goto, TypeOK
      <4> QED
        BY <2>0, <3>1, <3>3, <4>1 DEF AloneInv
    <3> QED
      BY <3>2, <3>3
  <2>7. CASE FinalSend(Strand)
    <3>1. /\ pc[Strand] = "send" /\ pc'[Strand] = "resolve" /\ Send(Strand)
          /\ UNCHANGED <<ctx, status, wire, code, promise, finished>>
      BY <2>7 DEF FinalSend, NothingWritten, At, Goto, TypeOK, outcome
    <3>2. finished /\ promise = NoCode
      BY <3>1 DEF FinishInv, PromiseClaimed
    <3>3. code[Strand] = status /\ (sent => wire = status)
      BY <3>1 DEF AloneInv
    <3>4. sent' /\ writing' = IF sent THEN {} ELSE {Strand}
      BY <2>0, <3>1 DEF Send
    <3> QED
      BY <2>0, <3>1, <3>2, <3>3, <3>4 DEF AloneInv
  <2>8. CASE Resolve(Strand)
    <3>1. /\ pc[Strand] = "resolve" /\ promise' = code[Strand] /\ pc'[Strand] \in {"user", "return"}
          /\ UNCHANGED <<ctx, sent, writing, wire, status, finished>>
      BY <2>8 DEF Resolve, At, GoBack, Goto, TypeOK, response
    <3>2. finished
      BY <3>1 DEF FinishInv, PromiseClaimed
    <3> QED
      BY <2>0, <3>1, <3>2 DEF AloneInv
  <2>9. CASE Return(Strand)
    <3>1. pc[Strand] = "return" /\ UNCHANGED <<wire, promise, finished>> /\ ctx = "live"
      BY <2>9 DEF Return, NothingWritten, At, outcome
    <3>2. CASE Release(Strand, 0) /\ Goto(Strand, "idle")
      <4>1. pc'[Strand] = "idle"
        BY <3>2 DEF Goto, TypeOK
      <4> QED
        BY <3>1, <3>2, <4>1, AloneRelease
    <3>3. CASE UNCHANGED <<ctx, sent, writing, wire>>
      <4>1. pc'[Strand] \in {"idle", "user", "return"}
        BY <2>9 DEF Return, Goto, TypeOK
      <4> QED
        BY <3>1, <3>3, <4>1, AloneOther
    <3> QED
      BY <2>9, <3>1, <3>2, <3>3 DEF Return
  <2> QED
    BY <1>5, <2>1, <2>2, <2>3, <2>4, <2>5, <2>6, <2>7, <2>8, <2>9 DEF Pipeline
<1>6. CASE Application(Strand)
  <2>1. CASE AnswerParser(Strand) \/ AnswerHandler(Strand)
    <3>1. pc[Strand] = "user" /\ UNCHANGED <<ctx, sent, writing, wire, promise, finished>>
      BY <2>1 DEF AnswerParser, AnswerHandler, At, response, outcome
    <3>2. pc'[Strand] \in {"unparsed", "parsed", "protect", "finish"}
      BY <2>1 DEF AnswerParser, AnswerHandler, Handled, GoProtect, Goto, TypeOK
    <3> QED
      BY <3>1, <3>2, AloneOther
  <2>2. CASE StageReturns(Strand) \/ StageThrows(Strand) \/ StageSetsStatus(Strand) \/ StageHolds(Strand)
    <3>1. pc[Strand] = "user" /\ UNCHANGED <<sent, writing, wire, promise, finished>>
      BY <2>2 DEF StageReturns, StageThrows, StageSetsStatus, StageHolds, At, response, outcome
    <3>2. pc'[Strand] \in {"user", "return", "catch"} /\ ctx' \in {ctx, "terminated"}
      BY <2>2, <3>1 DEF StageReturns, StageThrows, StageSetsStatus, StageHolds, Raise, Goto, TypeOK, control
    <3> QED
      BY <3>1, <3>2, AloneOther
  <2>3. ASSUME NEW s \in Stages, Resume(Strand, s) PROVE AloneInv'
    <3>1. pc[Strand] = "idle" /\ UNCHANGED <<ctx, sent, writing, wire, promise, finished>>
      BY <2>3 DEF Resume, response, outcome
    <3>2. pc'[Strand] \in {"protect", "user"}
      BY <2>3 DEF Resume, GoProtect, Goto, TypeOK
    <3> QED
      BY <3>1, <3>2, AloneOther
  <2>4. ASSUME NEW s \in Stages, Drop(Strand, s) PROVE AloneInv'
    <3>1. pc[Strand] = "idle" /\ pc' = pc /\ Release(Strand, s) /\ UNCHANGED <<wire, promise, finished>>
      BY <2>4 DEF Drop, NothingWritten, control, outcome
    <3> QED
      BY <3>1, AloneRelease
  <2>5. ~StageSends(Strand)
    BY DEF StageSends
  <2> QED
    BY <1>6, <2>1, <2>2, <2>3, <2>4, <2>5 DEF Application
<1>7. ASSUME NEW t \in Threads, Pipeline(t) \/ Application(t) PROVE AloneInv'
  <2>1. CASE t = Strand
    BY <1>5, <1>6, <1>7, <2>1
  <2>2. CASE t # Strand
    BY <1>4, <1>7, <2>2, AloneSteps
  <2> QED
    BY <2>1, <2>2
<1> QED
  BY <1>1, <1>2, <1>3, <1>7, <1>8 DEF Next

\* The code that the promise gives is the one that was sent, for any number of stages, when only
\* the strand runs the request and stages leave sending to the pipeline.
THEOREM PromiseMatches ==
    ASSUME AppMaySend = FALSE
    PROVE  Spec => PromiseMatchesResponse
<1>1. Init => FinishInv /\ AloneInv
  BY ThreadFacts DEF Init, FinishInv, PromiseClaimed, Finishing, AloneInv
<1>2. TypeOK /\ FinishInv /\ [Next]_vars => FinishInv'
  BY FinishStep
<1>3. TypeOK /\ SingleResponse /\ NoUseAfterDestruction /\ FinishInv /\ AloneInv /\ Alone /\ Alone'
      /\ [Next]_vars => AloneInv'
  BY AloneStep
<1>4. AloneInv => (promise # NoCode => promise = wire)
  BY DEF AloneInv
<1> QED
  BY <1>1, <1>2, <1>3, <1>4, TypeCorrect, OneResponse, DestructionIsSafe, PTL
     DEF Spec, PromiseMatchesResponse, Alone
=============================================================================
