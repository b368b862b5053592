------------------------- MODULE ActionServerProofs -------------------------
(***************************************************************************)
(* Proofs about ActionServer, for any sets of goals and queries and any    *)
(* capacities: type correctness, then the safety invariants of the runs,   *)
(* from one inductive invariant.                                           *)
(***************************************************************************)
EXTENDS ActionServer, TLAPS, SequenceTheorems

\* A bounded push keeps the type of its queue.
LEMMA PushType ==
    ASSUME NEW S, NEW q \in Seq(S), NEW x \in S
    PROVE  Push(q, x) \in Seq(S)
<1>1. CASE Len(q) >= Depth
  <2>1. q # <<>>
    BY <1>1, ServerAssumption
  <2>2. Tail(q) \in Seq(S)
    BY <2>1
  <2> QED BY <1>1, <2>2 DEF Push
<1>2. CASE ~(Len(q) >= Depth)
  BY <1>2 DEF Push
<1> QED BY <1>1, <1>2

\* Dropping what a full queue pushes out, or what a channel still held, keeps
\* every query's answer an answer.
LEMMA AnswerTypes ==
    ASSUME TypeOK
    PROVE  /\ Evicted(goalQ) \in [Queries -> Answers]
           /\ Evicted(cancelQ) \in [Queries -> Answers]
           /\ Evicted(resultQ) \in [Queries -> Answers]
           /\ \A g \in Goals : ChannelDropped(g) \in [Queries -> Answers]
<1> USE DEF TypeOK, Answers
<1>1. \A S, q : q \in Seq(S) /\ Len(q) >= Depth => Head(q) \in S
  BY ServerAssumption
<1>2. Evicted(goalQ) \in [Queries -> Answers]
  BY <1>1 DEF Evicted
<1>3. Evicted(cancelQ) \in [Queries -> Answers]
  BY <1>1 DEF Evicted
<1>4. Evicted(resultQ) \in [Queries -> Answers]
  BY <1>1 DEF Evicted
<1>5. \A g \in Goals : ChannelDropped(g) \in [Queries -> Answers]
  BY DEF ChannelDropped
<1> QED BY <1>2, <1>3, <1>4, <1>5

\* The server starts in a state of the right type.
LEMMA TypeInit == Init => TypeOK
<1> SUFFICES ASSUME Init PROVE TypeOK
  OBVIOUS
<1> USE DEF Init
<1>1. NoStatus \in [Goals -> Status]
  BY DEF NoStatus, Status
<1>2. /\ goals \in [Goals -> Status] /\ outcome \in [Goals -> Status]
      /\ statusTopic \in [Goals -> Status] /\ snapshot \in [Publishers -> [Goals -> Status]]
  BY <1>1
<1>3. /\ pc \in [Goals -> PCs] /\ answer \in [Queries -> Answers]
      /\ sent \in [Results -> Terminal \cup {"none"}]
  BY DEF PCs, Answers
<1>4. /\ resultFutures \in [Goals -> SUBSET Results]
      /\ toNotify \in [Goals -> SUBSET Results]
      /\ chan \in [Goals -> Seq(Cancels)]
      /\ flag \in [Goals -> BOOLEAN]
      /\ publishing \in [Publishers -> {"idle", "snapshot", "publish"}]
  OBVIOUS
<1>5. shutdown \in BOOLEAN /\ legacy \in BOOLEAN
  BY Zenon
<1>6. /\ goalQ \in Seq(Goals) /\ cancelQ \in Seq(Cancels) /\ resultQ \in Seq(Results)
      /\ mode \in {"polling", "driver", "stopping", "stopped"}
      /\ routes \in SUBSET Goals /\ driverWait \in SUBSET Results /\ tasks \in SUBSET Goals
  OBVIOUS
<1> QED BY <1>2, <1>3, <1>4, <1>5, <1>6, Zenon DEF TypeOK

\* A handle that entered terminate has an outcome.
OutcomeSet ==
    \A g \in Goals : pc[g] \in {"deregistered", "notifying", "done"} => outcome[g] \in Terminal

\* Every step of a client, handle, task or driver keeps the types.
LEMMA TypeNext == TypeOK /\ OutcomeSet /\ [Next]_vars => TypeOK'
<1> SUFFICES ASSUME TypeOK, OutcomeSet, [Next]_vars PROVE TypeOK'
  OBVIOUS
<1> USE ServerAssumption DEF TypeOK
<1>a. Expirer \in Publishers /\ Goals \subseteq Publishers /\ Goals \subseteq Queries
      /\ Cancels \subseteq Queries /\ Results \subseteq Queries
  BY DEF Publishers, Queries
<1>b. NoStatus \in [Goals -> Status]
  BY DEF NoStatus, Status
<1> USE <1>a, <1>b
<1>1. ASSUME NEW g \in Goals, SendGoal(g) PROVE TypeOK'
  <2>1. goalQ' \in Seq(Goals)
    BY <1>1, PushType DEF SendGoal
  <2>2. answer' \in [Queries -> Answers]
    BY <1>1, AnswerTypes DEF SendGoal
  <2>3. pc' \in [Goals -> PCs]
    BY <1>1 DEF SendGoal, PCs
  <2> QED BY <1>1, <2>1, <2>2, <2>3 DEF SendGoal, serverVars, cancelVars, resultVars, publishVars
<1>2. ASSUME NEW c \in Cancels, SendCancel(c) PROVE TypeOK'
  <2>1. cancelQ' \in Seq(Cancels)
    BY <1>2, PushType DEF SendCancel
  <2>2. answer' \in [Queries -> Answers]
    BY <1>2, AnswerTypes DEF SendCancel
  <2> QED BY <1>2, <2>1, <2>2 DEF SendCancel, serverVars, cancelVars, resultVars, publishVars
<1>3. ASSUME NEW r \in Results, SendResult(r) PROVE TypeOK'
  <2>1. resultQ' \in Seq(Results)
    BY <1>3, PushType DEF SendResult
  <2>2. answer' \in [Queries -> Answers]
    BY <1>3, AnswerTypes DEF SendResult
  <2> QED BY <1>3, <2>1, <2>2 DEF SendResult, serverVars, cancelVars, resultVars, publishVars
<1> USE DEF queueVars, serverVars, cancelVars, resultVars, publishVars
<1>4. ASSUME NEW g \in Goals, HandleStep(g) PROVE TypeOK'
  <2>1. CASE AcceptReply(g)   BY <2>1 DEF AcceptReply, PCs, Answers
  <2>2. CASE Execute(g)       BY <2>2 DEF Execute, PCs, Status
  <2>3. CASE Snapshot(g)      BY <2>3 DEF Snapshot
  <2>4. CASE Publish(g)       BY <2>4 DEF Publish
  <2>5. CASE TerminateInsert(g) BY <2>5 DEF TerminateInsert, PCs
  <2>6. CASE TerminateNotify(g)
    <3>1. answer' \in [Queries -> Answers]
      BY <2>6, AnswerTypes DEF TerminateNotify
    <3>2. sent' \in [Results -> Terminal \cup {"none"}]
      <4>1. outcome[g] \in Terminal
        BY <2>6 DEF OutcomeSet, TerminateNotify, Ready
      <4> QED BY <2>6, <4>1 DEF TerminateNotify
    <3>3. pc' \in [Goals -> PCs]
      BY <2>6 DEF TerminateNotify, PCs
    <3> QED BY <2>6, <3>1, <3>2, <3>3 DEF TerminateNotify
  <2>7. CASE DrainOne(g)
    <3>1. Head(cancelQ) \in Cancels /\ Tail(cancelQ) \in Seq(Cancels)
      BY <2>7 DEF DrainOne
    <3>2. chan' \in [Goals -> Seq(Cancels)] /\ answer' \in [Queries -> Answers]
      <4>1. CASE Routable(Head(cancelQ))
        <5>1. Target[Head(cancelQ)] \in Goals
          BY <4>1 DEF Routable
        <5>2. /\ chan' = [chan EXCEPT ![Target[Head(cancelQ)]] = Append(@, Head(cancelQ))]
              /\ answer' = answer
          BY <2>7, <4>1, Zenon DEF DrainOne
        <5> QED BY <3>1, <5>1, <5>2
      <4>2. CASE ~Routable(Head(cancelQ))
        <5>1. /\ chan' = chan
              /\ answer' = [answer EXCEPT ![Head(cancelQ)] = "dropped"]
          BY <2>7, <4>2, Zenon DEF DrainOne
        <5> QED BY <3>1, <5>1 DEF Answers
      <4> QED BY <4>1, <4>2
    <3> QED BY <2>7, <3>1, <3>2 DEF DrainOne
  <2>8. CASE TakeCancel(g)
    <3>1. flag' \in [Goals -> BOOLEAN]
      <4>1. SetFlag(g) \in [Goals -> BOOLEAN]
        BY DEF SetFlag
      <4>2. flag' = SetFlag(g) \/ flag' = flag
        BY <2>8, Zenon DEF TakeCancel
      <4> QED BY <4>1, <4>2
    <3>2. chan' \in [Goals -> Seq(Cancels)] /\ answer' \in [Queries -> Answers]
      <4>1. CASE chan[g] = <<>>
        BY <2>8, <4>1 DEF TakeCancel
      <4>2. CASE chan[g] # <<>>
        <5>1. Head(chan[g]) \in Cancels /\ Tail(chan[g]) \in Seq(Cancels)
          BY <4>2
        <5>2. chan' = [chan EXCEPT ![g] = Tail(chan[g])]
          BY <2>8, <4>2, Zenon DEF TakeCancel
        <5>3. answer' = [answer EXCEPT ![Head(chan[g])] = "code1_listed"]
          BY <2>8, <4>2, Zenon DEF TakeCancel
        <5> QED BY <5>1, <5>2, <5>3 DEF Answers
      <4> QED BY <4>1, <4>2
    <3>3. pc' \in [Goals -> PCs]
      BY <2>8 DEF TakeCancel, PCs
    <3> QED BY <2>8, <3>1, <3>2, <3>3 DEF TakeCancel
  <2>9. CASE Accept(g) BY <2>9 DEF Accept, PCs, Status
  <2>10. CASE Register(g) BY <2>10 DEF Register, PCs
  <2> QED BY <1>4, <2>1, <2>2, <2>3, <2>4, <2>5, <2>6, <2>7, <2>8, <2>9, <2>10 DEF HandleStep
<1>5. ASSUME NEW g \in Goals, UserStep(g) PROVE TypeOK'
  <2>1. CASE Accept(g) BY <2>1 DEF Accept, PCs, Status
  <2>2. CASE Register(g) BY <2>2 DEF Register, PCs
  <2>3. CASE Reject(g) BY <2>3 DEF Reject, PCs, Answers
  <2>4. CASE TryProcessCancel(g) BY <2>4 DEF TryProcessCancel, PCs
  <2>5. CASE DropHandle(g)
    <3>1. answer' \in [Queries -> Answers]
      BY <2>5, AnswerTypes DEF DropHandle, Answers
    <3>2. pc' \in [Goals -> PCs]
      BY <2>5 DEF DropHandle, PCs
    <3> QED BY <2>5, <3>1, <3>2 DEF DropHandle
  <2>6. ASSUME NEW s \in Outcomes, Terminate(g, s) PROVE TypeOK'
    <3>1. s \in Status
      BY DEF Status
    <3> QED BY <2>6, <3>1 DEF Terminate, PCs
  <2> QED BY <1>5, <2>1, <2>2, <2>3, <2>4, <2>5, <2>6 DEF UserStep
<1>6. ASSUME DriverStep PROVE TypeOK'
  <2>1. CASE DriverGoal BY <2>1 DEF DriverGoal, PCs
  <2>2. CASE DriverCancel
    <3>1. Head(cancelQ) \in Cancels /\ Tail(cancelQ) \in Seq(Cancels)
      BY <2>2 DEF DriverCancel
    <3>2. flag' \in [Goals -> BOOLEAN]
      BY <2>2 DEF DriverCancel, SetFlag
    <3>3. answer' \in [Queries -> Answers]
      BY <2>2, <3>1 DEF DriverCancel, Answers
    <3> QED BY <2>2, <3>1, <3>2, <3>3 DEF DriverCancel
  <2>3. CASE DriverResult
    <3>1. /\ Head(resultQ) \in Results /\ Tail(resultQ) \in Seq(Results)
          /\ Target[Head(resultQ)] \in Goals
      BY <2>3 DEF DriverResult
    <3>2. answer' \in [Queries -> Answers]
      BY <2>3, <3>1 DEF DriverResult, Answers
    <3>3. resultFutures' \in [Goals -> SUBSET Results] /\ driverWait' \in SUBSET Results
      <4>1. \/ resultFutures' = resultFutures /\ driverWait' = driverWait
            \/ /\ resultFutures' = [resultFutures EXCEPT ![Target[Head(resultQ)]] = @ \cup {Head(resultQ)}]
               /\ driverWait' = {Head(resultQ)}
        BY <2>3, Zenon DEF DriverResult
      <4>2. resultFutures[Target[Head(resultQ)]] \cup {Head(resultQ)} \in SUBSET Results
        BY <3>1
      <4>3. driverWait' \in SUBSET Results
        BY <3>1, <4>1
      <4>4. resultFutures' \in [Goals -> SUBSET Results]
        <5>1. CASE resultFutures' = resultFutures
          BY <5>1
        <5>2. CASE resultFutures' = [resultFutures EXCEPT ![Target[Head(resultQ)]] = @ \cup {Head(resultQ)}]
          BY <3>1, <4>2, <5>2
        <5> QED BY <4>1, <5>1, <5>2
      <4> QED BY <4>3, <4>4
    <3> QED BY <2>3, <3>1, <3>2, <3>3 DEF DriverResult
  <2>4. CASE DriverResultReply BY <2>4 DEF DriverResultReply, Answers
  <2>5. CASE DriverShutdown BY <2>5 DEF DriverShutdown
  <2>6. CASE DriverExit BY <2>6 DEF DriverExit
  <2>7. ASSUME NEW g \in Goals, Reap(g) PROVE TypeOK'
    BY <2>7 DEF Reap
  <2> QED BY <1>6, <2>1, <2>2, <2>3, <2>4, <2>5, <2>6, <2>7 DEF DriverStep
<1>7. ASSUME ServerStep PROVE TypeOK'
  <2>1. CASE RecvGoal BY <2>1 DEF RecvGoal, PCs
  <2>2. CASE RecvCancel
    <3>1. Head(cancelQ) \in Cancels /\ Tail(cancelQ) \in Seq(Cancels)
      BY <2>2 DEF RecvCancel
    <3>2. answer' \in [Queries -> Answers]
      BY <2>2, <3>1 DEF RecvCancel, Answers
    <3> QED BY <2>2, <3>1, <3>2 DEF RecvCancel
  <2>3. CASE LegacyResult
    <3>1. /\ Head(resultQ) \in Results /\ Tail(resultQ) \in Seq(Results)
          /\ Target[Head(resultQ)] \in Goals
      BY <2>3 DEF LegacyResult
    <3>2. answer' \in [Queries -> Answers] /\ resultFutures' \in [Goals -> SUBSET Results]
      <4>1. CASE goals[Target[Head(resultQ)]] \in Terminal
        <5>1. /\ answer' = [answer EXCEPT ![Head(resultQ)] = goals[Target[Head(resultQ)]]]
              /\ resultFutures' = resultFutures
          BY <2>3, <4>1, Zenon DEF LegacyResult
        <5>2. goals[Target[Head(resultQ)]] \in Answers
          BY <4>1 DEF Answers
        <5> QED BY <3>1, <5>1, <5>2
      <4>2. CASE goals[Target[Head(resultQ)]] \notin Terminal
        <5>1. /\ resultFutures' = [resultFutures EXCEPT ![Target[Head(resultQ)]] = @ \cup {Head(resultQ)}]
              /\ answer' = answer
          BY <2>3, <4>2, Zenon DEF LegacyResult
        <5>2. resultFutures[Target[Head(resultQ)]] \cup {Head(resultQ)} \in SUBSET Results
          BY <3>1
        <5> QED BY <3>1, <5>1, <5>2
      <4> QED BY <4>1, <4>2
    <3> QED BY <2>3, <3>1, <3>2 DEF LegacyResult
  <2>4. CASE LegacyStop BY <2>4 DEF LegacyStop
  <2>5. CASE WithHandler BY <2>5 DEF WithHandler
  <2>6. CASE ExpireGoals BY <2>6 DEF ExpireGoals, Status
  <2>7. CASE Snapshot(Expirer) BY <2>7 DEF Snapshot
  <2>8. CASE Publish(Expirer) BY <2>8 DEF Publish
  <2>9. CASE DropServer BY <2>9 DEF DropServer
  <2>10. ASSUME NEW r \in Results, ReplyResult(r) PROVE TypeOK'
    BY <2>10 DEF ReplyResult, Answers
  <2>11. ASSUME NEW g \in Goals, AbortTask(g) PROVE TypeOK'
    <3>1. answer' \in [Queries -> Answers]
      BY <2>11, AnswerTypes DEF AbortTask, Answers
    <3>2. pc' \in [Goals -> PCs]
      BY <2>11 DEF AbortTask, PCs
    <3> QED BY <2>11, <3>1, <3>2 DEF AbortTask
  <2>12. ASSUME NEW c \in Cancels, RequestCancel(c) PROVE TypeOK'
    <3>1. flag' \in [Goals -> BOOLEAN]
      BY <2>12 DEF RequestCancel, SetFlag
    <3>2. answer' \in [Queries -> Answers]
      BY <2>12 DEF RequestCancel, Answers
    <3> QED BY <2>12, <3>1, <3>2 DEF RequestCancel
  <2>13. ASSUME NEW c \in Cancels, SendCancelResponse(c) PROVE TypeOK'
    BY <2>13 DEF SendCancelResponse, Answers
  <2> QED BY <1>7, <2>1, <2>2, <2>3, <2>4, <2>5, <2>6, <2>7, <2>8, <2>9, <2>10, <2>11, <2>12,
             <2>13 DEF ServerStep
<1>8. CASE UNCHANGED vars
  BY <1>8 DEF vars
<1> QED BY <1>1, <1>2, <1>3, <1>4, <1>5, <1>6, <1>7, <1>8 DEF Next, ClientStep

\* A handle that reached terminate carries a terminal status.
LEMMA OutcomeNext == TypeOK /\ OutcomeSet /\ [Next]_vars => OutcomeSet'
<1> SUFFICES ASSUME TypeOK, OutcomeSet, [Next]_vars PROVE OutcomeSet'
  OBVIOUS
<1> USE ServerAssumption DEF TypeOK, OutcomeSet, Ready
<1>1. ASSUME NEW g \in Goals, HandleStep(g) \/ UserStep(g) PROVE OutcomeSet'
  <2>1. ASSUME NEW s \in Outcomes, Terminate(g, s) PROVE OutcomeSet'
    BY <2>1 DEF Terminate
  <2> QED BY <1>1, <2>1 DEF HandleStep, UserStep, AcceptReply, Execute, Snapshot, Publish,
        TerminateInsert, TerminateNotify, DrainOne, TakeCancel, Accept, Register, Reject,
        TryProcessCancel, DropHandle
<1>2. CASE ClientStep
  <2>1. ASSUME NEW g \in Goals, SendGoal(g) PROVE OutcomeSet'
    <3>1. \A h \in Goals : pc'[h] \in {pc[h], "queued", "dropped"}
      BY <2>1 DEF SendGoal
    <3> QED BY <2>1, <3>1 DEF SendGoal
  <2> QED BY <1>2, <2>1 DEF ClientStep, SendCancel, SendResult
<1>3. CASE DriverStep
  <2>1. CASE DriverGoal BY <2>1 DEF DriverGoal
  <2>2. CASE DriverCancel BY <2>2 DEF DriverCancel
  <2>3. CASE DriverResult BY <2>3 DEF DriverResult
  <2>4. CASE DriverResultReply BY <2>4 DEF DriverResultReply
  <2>5. CASE DriverShutdown BY <2>5 DEF DriverShutdown
  <2>6. CASE DriverExit BY <2>6 DEF DriverExit
  <2>7. ASSUME NEW g \in Goals, Reap(g) PROVE OutcomeSet'
    BY <2>7 DEF Reap
  <2> QED BY <1>3, <2>1, <2>2, <2>3, <2>4, <2>5, <2>6, <2>7, Zenon DEF DriverStep
<1>4. CASE ServerStep
  <2>1. ASSUME NEW g \in Goals, AbortTask(g) PROVE OutcomeSet'
    BY <2>1 DEF AbortTask
  <2>2. CASE RecvGoal
    BY <2>2 DEF RecvGoal
  <2> QED BY <1>4, <2>1, <2>2 DEF ServerStep, RecvCancel, RequestCancel, SendCancelResponse,
       LegacyResult, LegacyStop, WithHandler, ExpireGoals, Snapshot, Publish, DropServer, ReplyResult
<1>5. CASE UNCHANGED vars
  BY <1>5 DEF vars
<1> QED BY <1>1, <1>2, <1>3, <1>4, <1>5 DEF Next

\* Initially no handle has reached terminate.
LEMMA OutcomeInit == Init => OutcomeSet
  BY DEF Init, OutcomeSet

\* Every variable keeps its type in every reachable state, whatever the sets
\* of goals and queries and the capacities are.
THEOREM TypeCorrect == Spec => []TypeOK
  BY TypeInit, TypeNext, OutcomeInit, OutcomeNext, PTL DEF Spec

-----------------------------------------------------------------------------
(* Safety.  The steps that move queries about are described point by point *)
(* first; then each part of Inv is shown to survive every action.          *)

\* What answering the result query r does, in either mode, point by point.
ResultEffect(r) ==
    /\ Target[r] \in Goals
    /\ \A h \in Goals :
         \/ resultFutures'[h] = resultFutures[h]
         \/ /\ h = Target[r] /\ goals[h] \notin Terminal
            /\ resultFutures'[h] = resultFutures[h] \cup {r}
    /\ \A q \in Queries :
         \/ answer'[q] = answer[q]
         \/ q = r /\ answer'[q] = "dropped"
         \/ q = r /\ goals[Target[r]] \in Terminal /\ answer'[q] = goals[Target[r]]
    /\ UNCHANGED <<goals, pc, outcome, toNotify, sent>>

\* Both result handlers do what ResultEffect says of the query they take.
LEMMA ResultStep ==
    ASSUME TypeOK, LegacyResult \/ DriverResult
    PROVE  \E r \in Results : ResultEffect(r)
<1> DEFINE r == Head(resultQ)
           g == Target[r]
<1>1. r \in Results /\ g \in Goals
  BY ServerAssumption DEF TypeOK, LegacyResult, DriverResult
<1>2. UNCHANGED <<goals, pc, outcome, toNotify, sent>>
  BY Zenon DEF LegacyResult, DriverResult
<1>3. \/ /\ goals[g] \in Terminal
         /\ answer' = [answer EXCEPT ![r] = goals[g]]
         /\ resultFutures' = resultFutures
      \/ answer' = [answer EXCEPT ![r] = "dropped"] /\ resultFutures' = resultFutures
      \/ /\ goals[g] \notin Terminal
         /\ resultFutures' = [resultFutures EXCEPT ![g] = @ \cup {r}]
         /\ answer' = answer
  <2>1. goals[g] \in {"accepted", "executing"} => goals[g] \notin Terminal
    BY DEF Terminal
  <2> QED BY <2>1, Zenon DEF LegacyResult, DriverResult
<1> HIDE DEF r, g
<1>4. \A q \in Queries :
         \/ answer'[q] = answer[q]
         \/ q = r /\ answer'[q] = "dropped"
         \/ q = r /\ goals[g] \in Terminal /\ answer'[q] = goals[g]
  BY <1>1, <1>3 DEF TypeOK
<1>5. \A h \in Goals :
         \/ resultFutures'[h] = resultFutures[h]
         \/ h = g /\ goals[h] \notin Terminal /\ resultFutures'[h] = resultFutures[h] \cup {r}
  BY <1>1, <1>3 DEF TypeOK
<1>6. ResultEffect(r)
  BY <1>1, <1>2, <1>4, <1>5, Zenon DEF ResultEffect, g
<1> QED BY <1>1, <1>6

\* What a drain step does to the cancel query c, point by point.
DrainEffect(c) ==
    /\ \A h \in Goals : chan'[h] = chan[h] \/ (h = Target[c] /\ chan'[h] = Append(chan[h], c))
    /\ \A q \in Queries : answer'[q] = answer[q] \/ (q = c /\ answer'[q] = "dropped")

\* CancelDispatcher::drain does what DrainEffect says of the query it takes.
LEMMA DrainStep ==
    ASSUME TypeOK, NEW g \in Goals, DrainOne(g)
    PROVE  \E c \in Cancels : DrainEffect(c)
<1> DEFINE c == Head(cancelQ)
<1>1. c \in Cancels
  BY DEF TypeOK, DrainOne
<1>2. CASE Routable(c)
  <2>1. chan' = [chan EXCEPT ![Target[c]] = Append(@, c)] /\ answer' = answer
    BY <1>2, Zenon DEF DrainOne
  <2> QED BY <1>1, <2>1 DEF DrainEffect, TypeOK
<1>3. CASE ~Routable(c)
  <2>1. chan' = chan /\ answer' = [answer EXCEPT ![c] = "dropped"]
    BY <1>3, Zenon DEF DrainOne
  <2> QED BY <1>1, <2>1 DEF DrainEffect, TypeOK
<1> QED BY <1>2, <1>3

\* What try_process_cancel does once the shared queue is drained, point by point.
TakeEffect(g) ==
    /\ \A h \in Goals : \/ chan'[h] = chan[h]
                        \/ h = g /\ chan[h] # <<>> /\ chan'[h] = Tail(chan[h])
    /\ \A h \in Goals : flag'[h] = flag[h] \/ (h = g /\ flag'[h])
    /\ \A q \in Queries :
         \/ answer'[q] = answer[q]
         \/ /\ chan[g] # <<>> /\ q = chan[g][1] /\ q \in Cancels
            /\ answer'[q] = "code1_listed" /\ (CanCancel(g) => flag'[g])

\* try_process_cancel does what TakeEffect says.
LEMMA TakeStep ==
    ASSUME TypeOK, NEW g \in Goals, TakeCancel(g)
    PROVE  TakeEffect(g)
<1>1. CASE chan[g] = <<>>
  <2>1. UNCHANGED <<chan, flag, answer>>
    BY <1>1, Zenon DEF TakeCancel
  <2> QED BY <2>1 DEF TakeEffect
<1>2. CASE chan[g] # <<>>
  <2>1. chan[g] \in Seq(Cancels)
    BY DEF TypeOK
  <2>2. Head(chan[g]) = chan[g][1] /\ chan[g][1] \in Cancels
    BY <1>2, <2>1
  <2>3. /\ chan' = [chan EXCEPT ![g] = Tail(@)]
        /\ flag' = SetFlag(g)
        /\ answer' = [answer EXCEPT ![Head(chan[g])] = "code1_listed"]
    BY <1>2, Zenon DEF TakeCancel
  <2>4. \A h \in Goals : chan'[h] = chan[h] \/ (h = g /\ chan[h] # <<>> /\ chan'[h] = Tail(chan[h]))
    BY <1>2, <2>3 DEF TypeOK
  <2>5. \A h \in Goals : flag'[h] = flag[h] \/ (h = g /\ flag'[h])
    BY <2>3 DEF TypeOK, SetFlag
  <2>6. CanCancel(g) => flag'[g]
    BY <2>3 DEF TypeOK, SetFlag
  <2>7. \A q \in Queries : answer'[q] = answer[q] \/ (q = chan[g][1] /\ answer'[q] = "code1_listed")
    BY <2>2, <2>3 DEF TypeOK
  <2> QED BY <1>2, <2>2, <2>4, <2>5, <2>6, <2>7 DEF TakeEffect
<1> QED BY <1>1, <1>2

\* Dropping a channel concerns cancel queries only.
LEMMA DropStep ==
    ASSUME TypeOK, NEW g \in Goals
    PROVE  /\ \A q \in Goals \cup Results : ChannelDropped(g)[q] = answer[q]
           /\ \A c \in Cancels : ChannelDropped(g)[c] \in {answer[c], "dropped"}
<1>1. \A i \in DOMAIN chan[g] : chan[g][i] \in Cancels
  BY DEF TypeOK
<1> QED BY <1>1, ServerAssumption DEF ChannelDropped, InQueue, Queries

\* The last index of a range is the only one that is not below it.
LEMMA RangeLast == \A n \in Nat : \A i \in 1 .. n : i # n => i \in 1 .. n - 1
  OBVIOUS

\* What Append holds at each index.
LEMMA AppendAt ==
    ASSUME NEW S, NEW s \in Seq(S), NEW e
    PROVE  /\ Len(s) \in Nat /\ Len(Append(s, e)) = Len(s) + 1 /\ Append(s, e)[Len(s) + 1] = e
           /\ \A i \in 1 .. Len(s) : Append(s, e)[i] = s[i]
           /\ \A i \in 1 .. Len(Append(s, e)) : i \in 1 .. Len(s) \/ i = Len(s) + 1
  OBVIOUS

\* Appending a cancel query for g to a sequence of queries for g.
LEMMA AppendTarget ==
    ASSUME NEW s \in Seq(Cancels), NEW c \in Cancels, NEW g, Target[c] = g,
           \A i \in 1 .. Len(s) : Target[s[i]] = g
    PROVE  \A i \in 1 .. Len(Append(s, c)) : Target[Append(s, c)[i]] = g
  BY AppendAt

\* Appending what is not there keeps a sequence free of repetitions.
LEMMA AppendOnce ==
    ASSUME NEW S, NEW s \in Seq(S), NEW e,
           \A i \in 1 .. Len(s) : s[i] # e,
           \A i, j \in 1 .. Len(s) : s[i] = s[j] => i = j
    PROVE  \A i, j \in 1 .. Len(Append(s, e)) : Append(s, e)[i] = Append(s, e)[j] => i = j
<1>1. SUFFICES ASSUME NEW i \in 1 .. Len(Append(s, e)), NEW j \in 1 .. Len(Append(s, e)),
                      Append(s, e)[i] = Append(s, e)[j]
               PROVE  i = j
  OBVIOUS
<1>2. CASE i \in 1 .. Len(s) /\ j \in 1 .. Len(s)
  BY <1>1, <1>2
<1>3. CASE ~(i \in 1 .. Len(s) /\ j \in 1 .. Len(s))
  BY <1>1, <1>3
<1> QED BY <1>2, <1>3

\* No step queues a goal twice or leaves a received goal in the queue.
LEMMA QueuedOnceNext == TypeOK /\ TypeOK' /\ OutcomeSet /\ Inv /\ [Next]_vars => QueuedOnce'
<1> SUFFICES ASSUME TypeOK, TypeOK', OutcomeSet, Inv, [Next]_vars PROVE QueuedOnce'
  OBVIOUS
<1>q. goalQ # <<>> => pc[Head(goalQ)] = "queued"
  BY DEF TypeOK, Inv, QueuedOnce
<1> USE ServerAssumption, <1>q DEF TypeOK, Inv, QueuedOnce, Ready, queueVars, serverVars, cancelVars, resultVars, publishVars
<1>1. ASSUME NEW g \in Goals, SendGoal(g) PROVE QueuedOnce'
  <2>1. \A i \in 1 .. Len(goalQ) : goalQ[i] \in Goals /\ goalQ[i] # g
    BY <1>1 DEF SendGoal
  <2>2. \A h \in Goals : pc'[h] = IF h = g THEN "queued"
                         ELSE IF Len(goalQ) >= Depth /\ h = Head(goalQ) THEN "dropped" ELSE pc[h]
    BY <1>1 DEF SendGoal
  <2>3. CASE Len(goalQ) >= Depth
    <3>1. goalQ # <<>> /\ Head(goalQ) = goalQ[1] /\ Len(goalQ) \in Nat \ {0}
      BY <2>3
    <3>2. goalQ' = Append(Tail(goalQ), g)
      BY <1>1, <2>3 DEF SendGoal, Push
    <3>3. Len(goalQ') = Len(goalQ) /\ goalQ'[Len(goalQ)] = g
      BY <3>1, <3>2
    <3>4. \A i \in 1 .. Len(goalQ) - 1 : i + 1 \in 1 .. Len(goalQ) /\ goalQ'[i] = goalQ[i + 1]
      BY <3>1, <3>2
    <3>5. ASSUME NEW i \in 1 .. Len(goalQ) - 1 PROVE pc'[goalQ'[i]] = "queued" /\ goalQ'[i] # g
      <4>0. i + 1 \in 1 .. Len(goalQ) /\ 1 \in 1 .. Len(goalQ) /\ i + 1 # 1
        BY <3>1
      <4>1. goalQ[i + 1] # goalQ[1] /\ pc[goalQ[i + 1]] = "queued"
        BY <4>0, Zenon
      <4>2. goalQ[i + 1] \in Goals /\ goalQ[i + 1] # g /\ goalQ'[i] = goalQ[i + 1]
        BY <2>1, <3>4
      <4>3. pc'[goalQ[i + 1]] = pc[goalQ[i + 1]]
        BY <2>2, <3>1, <4>1, <4>2
      <4> QED BY <4>1, <4>2, <4>3
    <3>6. ASSUME NEW i \in 1 .. Len(goalQ), NEW j \in 1 .. Len(goalQ), goalQ'[i] = goalQ'[j]
          PROVE  i = j
      <4>0. Len(goalQ) \in Nat /\ goalQ'[i] = goalQ'[j] /\ goalQ'[Len(goalQ)] = g
        BY <3>1, <3>3, <3>6
      <4>1. /\ i # Len(goalQ) => i \in 1 .. Len(goalQ) - 1
            /\ j # Len(goalQ) => j \in 1 .. Len(goalQ) - 1
        BY <4>0, RangeLast
      <4>2. CASE i = Len(goalQ)
        <5>1. goalQ'[j] = g
          BY <4>0, <4>2
        <5> QED BY <3>5, <4>1, <4>2, <5>1
      <4>3. CASE i # Len(goalQ)
        <5>1. i \in 1 .. Len(goalQ) - 1 /\ goalQ'[i] # g
          BY <3>5, <4>1, <4>3
        <5>2. j \in 1 .. Len(goalQ) - 1
          BY <4>0, <4>1, <5>1
        <5>3. goalQ[i + 1] = goalQ[j + 1]
          BY <3>4, <4>0, <5>1, <5>2
        <5>4. i + 1 = j + 1
          BY <3>4, <5>1, <5>2, <5>3
        <5> QED BY <5>4
      <4> QED BY <4>2, <4>3
    <3>7. ASSUME NEW i \in 1 .. Len(goalQ') PROVE pc'[goalQ'[i]] = "queued"
      <4>1. CASE i = Len(goalQ)
        BY <2>2, <3>3, <4>1
      <4>2. CASE i # Len(goalQ)
        BY <3>1, <3>3, <3>5, <4>2
      <4> QED BY <4>1, <4>2
    <3> QED BY <3>3, <3>6, <3>7
  <2>4. CASE ~(Len(goalQ) >= Depth)
    <3>1. goalQ' = Append(goalQ, g)
      BY <1>1, <2>4 DEF SendGoal, Push
    <3>2. ASSUME NEW i \in 1 .. Len(goalQ') PROVE pc'[goalQ'[i]] = "queued"
      <4>1. \/ i \in 1 .. Len(goalQ) /\ goalQ'[i] = goalQ[i]
            \/ i = Len(goalQ) + 1 /\ goalQ'[i] = g
        BY <2>1, <3>1
      <4>2. CASE i \in 1 .. Len(goalQ) /\ goalQ'[i] = goalQ[i]
        <5>1. goalQ[i] \in Goals /\ goalQ[i] # g /\ pc[goalQ[i]] = "queued"
          BY <2>1, <4>2, Zenon
        <5>2. pc'[goalQ[i]] = pc[goalQ[i]]
          BY <2>2, <2>4, <5>1, Zenon
        <5> QED BY <4>2, <5>1, <5>2, Zenon
      <4>3. CASE i = Len(goalQ) + 1 /\ goalQ'[i] = g
        BY <2>2, <4>3, Zenon
      <4> QED BY <4>1, <4>2, <4>3, Zenon
    <3>3. ASSUME NEW i \in 1 .. Len(goalQ'), NEW j \in 1 .. Len(goalQ'), goalQ'[i] = goalQ'[j]
          PROVE  i = j
      <4>1. goalQ \in Seq(Goals) /\ \A k \in 1 .. Len(goalQ) : goalQ[k] # g
        BY <2>1
      <4>2. \A k, l \in 1 .. Len(goalQ) : goalQ[k] = goalQ[l] => k = l
        OBVIOUS
      <4>3. \A k, l \in 1 .. Len(goalQ') : goalQ'[k] = goalQ'[l] => k = l
        <5>1. \A k, l \in 1 .. Len(Append(goalQ, g)) :
                 Append(goalQ, g)[k] = Append(goalQ, g)[l] => k = l
          BY <4>1, <4>2, AppendOnce, Zenon
        <5> QED BY <3>1, <5>1, Zenon
      <4> QED BY <3>3, <4>3, Zenon
    <3> QED BY <3>2, <3>3
  <2> QED BY <2>3, <2>4
<1>2. ASSUME NEW c \in Cancels, SendCancel(c) PROVE QueuedOnce'
  BY <1>2 DEF SendCancel, Evicted, Queries
<1>3. ASSUME NEW r \in Results, SendResult(r) PROVE QueuedOnce'
  BY <1>3 DEF SendResult, Evicted, Queries
<1>4. ASSUME NEW g \in Goals, AcceptReply(g) PROVE QueuedOnce'
  BY <1>4 DEF AcceptReply, Queries
<1>5. ASSUME NEW g \in Goals, Execute(g) PROVE QueuedOnce'
  BY <1>5 DEF Execute
<1>6. ASSUME NEW g \in Goals, TerminateInsert(g) PROVE QueuedOnce'
  BY <1>6 DEF TerminateInsert
<1>7. ASSUME NEW g \in Goals, TerminateNotify(g) PROVE QueuedOnce'
  BY <1>7 DEF TerminateNotify, ChannelDropped, Queries
<1>8. ASSUME NEW g \in Goals, DrainOne(g) PROVE QueuedOnce'
  BY <1>8 DEF DrainOne, Routable, Queries
<1>9. ASSUME NEW g \in Goals, TakeCancel(g) PROVE QueuedOnce'
  BY <1>9 DEF TakeCancel, SetFlag, CanCancel, Queries
<1>10. ASSUME NEW g \in Goals, Accept(g) PROVE QueuedOnce'
  BY <1>10 DEF Accept
<1>11. ASSUME NEW g \in Goals, Register(g) PROVE QueuedOnce'
  BY <1>11 DEF Register
<1>12. ASSUME NEW g \in Goals, Reject(g) PROVE QueuedOnce'
  BY <1>12 DEF Reject, Queries
<1>13. ASSUME NEW g \in Goals, TryProcessCancel(g) PROVE QueuedOnce'
  BY <1>13 DEF TryProcessCancel
<1>14. ASSUME NEW g \in Goals, DropHandle(g) PROVE QueuedOnce'
  BY <1>14 DEF DropHandle, ChannelDropped, Queries
<1>15. ASSUME NEW g \in Goals, NEW s \in Outcomes, Terminate(g, s) PROVE QueuedOnce'
  BY <1>15 DEF Terminate, Terminal
<1>16. ASSUME NEW p \in Publishers, Snapshot(p) \/ Publish(p) PROVE QueuedOnce'
  BY <1>16 DEF Snapshot, Publish
<1>17. ASSUME RecvGoal PROVE QueuedOnce'
  BY <1>17 DEF RecvGoal
<1>18. ASSUME DriverGoal PROVE QueuedOnce'
  BY <1>18 DEF DriverGoal
<1>19. ASSUME RecvCancel PROVE QueuedOnce'
  BY <1>19 DEF RecvCancel, Queries
<1>20. ASSUME DriverCancel PROVE QueuedOnce'
  BY <1>20 DEF DriverCancel, SetFlag, CanCancel, Queries
<1>21. ASSUME LegacyResult PROVE QueuedOnce'
  BY <1>21 DEF LegacyResult, Queries
<1>22. ASSUME DriverResult PROVE QueuedOnce'
  BY <1>22 DEF DriverResult, Queries
<1>23. ASSUME DriverResultReply PROVE QueuedOnce'
  BY <1>23 DEF DriverResultReply, Queries
<1>24. ASSUME ExpireGoals PROVE QueuedOnce'
  BY <1>24 DEF ExpireGoals, Expirable, Terminal
<1>25. ASSUME NEW r \in Results, ReplyResult(r) PROVE QueuedOnce'
  BY <1>25 DEF ReplyResult, Queries
<1>26. ASSUME NEW g \in Goals, AbortTask(g) PROVE QueuedOnce'
  BY <1>26 DEF AbortTask, ChannelDropped, Queries
<1>27. ASSUME NEW g \in Goals, Reap(g) PROVE QueuedOnce'
  BY <1>27 DEF Reap
<1>28. ASSUME LegacyStop \/ WithHandler \/ DriverShutdown \/ DriverExit \/ DropServer PROVE QueuedOnce'
  BY <1>28 DEF LegacyStop, WithHandler, DriverShutdown, DriverExit, DropServer
<1>29. ASSUME UNCHANGED vars PROVE QueuedOnce'
  BY <1>29 DEF vars
<1>30. ASSUME NEW c \in Cancels, RequestCancel(c) PROVE QueuedOnce'
  BY <1>30 DEF RequestCancel, SetFlag, CanCancel, Queries
<1>31. ASSUME NEW c \in Cancels, SendCancelResponse(c) PROVE QueuedOnce'
  BY <1>31 DEF SendCancelResponse, Queries
<1> QED
  BY <1>1, <1>2, <1>3, <1>4, <1>5, <1>6, <1>7, <1>8, <1>9, <1>10, <1>11, <1>12, <1>13, <1>14, <1>15, <1>16, <1>17, <1>18, <1>19, <1>20, <1>21, <1>22, <1>23, <1>24, <1>25, <1>26, <1>27, <1>28, <1>29, <1>30, <1>31
     DEF Next, ClientStep, HandleStep, UserStep, DriverStep, ServerStep, Publishers

\* Every step keeps the goal manager's entries in line with the handles.
LEMMA EntryMatchesHandleNext == TypeOK /\ TypeOK' /\ OutcomeSet /\ Inv /\ [Next]_vars => EntryMatchesHandle'
<1> SUFFICES ASSUME TypeOK, TypeOK', OutcomeSet, Inv, [Next]_vars PROVE EntryMatchesHandle'
  OBVIOUS
<1>q. goalQ # <<>> => pc[Head(goalQ)] = "queued"
  BY DEF TypeOK, Inv, QueuedOnce
<1> USE ServerAssumption, <1>q DEF TypeOK, Inv, EntryMatchesHandle, QueuedOnce, Ready, queueVars, serverVars, cancelVars, resultVars, publishVars
<1>1. ASSUME NEW g \in Goals, SendGoal(g) PROVE EntryMatchesHandle'
  BY <1>1 DEF SendGoal, Push, Evicted, Queries
<1>2. ASSUME NEW c \in Cancels, SendCancel(c) PROVE EntryMatchesHandle'
  BY <1>2 DEF SendCancel, Evicted, Queries
<1>3. ASSUME NEW r \in Results, SendResult(r) PROVE EntryMatchesHandle'
  BY <1>3 DEF SendResult, Evicted, Queries
<1>4. ASSUME NEW g \in Goals, AcceptReply(g) PROVE EntryMatchesHandle'
  BY <1>4 DEF AcceptReply, Queries
<1>5. ASSUME NEW g \in Goals, Execute(g) PROVE EntryMatchesHandle'
  BY <1>5 DEF Execute, Terminal
<1>6. ASSUME NEW g \in Goals, TerminateInsert(g) PROVE EntryMatchesHandle'
  BY <1>6 DEF TerminateInsert, Terminal, OutcomeSet
<1>7. ASSUME NEW g \in Goals, TerminateNotify(g) PROVE EntryMatchesHandle'
  BY <1>7 DEF TerminateNotify, ChannelDropped, Queries
<1>8. ASSUME NEW g \in Goals, DrainOne(g) PROVE EntryMatchesHandle'
  BY <1>8 DEF DrainOne, Routable, Queries
<1>9. ASSUME NEW g \in Goals, TakeCancel(g) PROVE EntryMatchesHandle'
  BY <1>9 DEF TakeCancel, SetFlag, CanCancel, Queries
<1>10. ASSUME NEW g \in Goals, Accept(g) PROVE EntryMatchesHandle'
  BY <1>10 DEF Accept, Terminal
<1>11. ASSUME NEW g \in Goals, Register(g) PROVE EntryMatchesHandle'
  BY <1>11 DEF Register
<1>12. ASSUME NEW g \in Goals, Reject(g) PROVE EntryMatchesHandle'
  BY <1>12 DEF Reject, Queries
<1>13. ASSUME NEW g \in Goals, TryProcessCancel(g) PROVE EntryMatchesHandle'
  BY <1>13 DEF TryProcessCancel
<1>14. ASSUME NEW g \in Goals, DropHandle(g) PROVE EntryMatchesHandle'
  BY <1>14 DEF DropHandle, ChannelDropped, Queries
<1>15. ASSUME NEW g \in Goals, NEW s \in Outcomes, Terminate(g, s) PROVE EntryMatchesHandle'
  BY <1>15 DEF Terminate, Terminal
<1>16. ASSUME NEW p \in Publishers, Snapshot(p) \/ Publish(p) PROVE EntryMatchesHandle'
  BY <1>16 DEF Snapshot, Publish
<1>17. ASSUME RecvGoal PROVE EntryMatchesHandle'
  BY <1>17 DEF RecvGoal
<1>18. ASSUME DriverGoal PROVE EntryMatchesHandle'
  BY <1>18 DEF DriverGoal
<1>19. ASSUME RecvCancel PROVE EntryMatchesHandle'
  BY <1>19 DEF RecvCancel, Queries
<1>20. ASSUME DriverCancel PROVE EntryMatchesHandle'
  BY <1>20 DEF DriverCancel, SetFlag, CanCancel, Queries
<1>21. ASSUME LegacyResult PROVE EntryMatchesHandle'
  <2>1. PICK r \in Results : ResultEffect(r)
    BY <1>21, ResultStep
  <2> QED BY <2>1 DEF ResultEffect, Terminal, Queries
<1>22. ASSUME DriverResult PROVE EntryMatchesHandle'
  <2>1. PICK r \in Results : ResultEffect(r)
    BY <1>22, ResultStep
  <2> QED BY <2>1 DEF ResultEffect, Terminal, Queries
<1>23. ASSUME DriverResultReply PROVE EntryMatchesHandle'
  BY <1>23 DEF DriverResultReply, Queries
<1>24. ASSUME ExpireGoals PROVE EntryMatchesHandle'
  BY <1>24 DEF ExpireGoals, Expirable, Terminal
<1>25. ASSUME NEW r \in Results, ReplyResult(r) PROVE EntryMatchesHandle'
  BY <1>25 DEF ReplyResult, Queries
<1>26. ASSUME NEW g \in Goals, AbortTask(g) PROVE EntryMatchesHandle'
  BY <1>26 DEF AbortTask, ChannelDropped, Queries
<1>27. ASSUME NEW g \in Goals, Reap(g) PROVE EntryMatchesHandle'
  BY <1>27 DEF Reap
<1>28. ASSUME LegacyStop \/ WithHandler \/ DriverShutdown \/ DriverExit \/ DropServer PROVE EntryMatchesHandle'
  BY <1>28 DEF LegacyStop, WithHandler, DriverShutdown, DriverExit, DropServer
<1>29. ASSUME UNCHANGED vars PROVE EntryMatchesHandle'
  BY <1>29 DEF vars
<1>30. ASSUME NEW c \in Cancels, RequestCancel(c) PROVE EntryMatchesHandle'
  BY <1>30 DEF RequestCancel, SetFlag, CanCancel, Queries
<1>31. ASSUME NEW c \in Cancels, SendCancelResponse(c) PROVE EntryMatchesHandle'
  BY <1>31 DEF SendCancelResponse, Queries
<1> QED
  BY <1>1, <1>2, <1>3, <1>4, <1>5, <1>6, <1>7, <1>8, <1>9, <1>10, <1>11, <1>12, <1>13, <1>14, <1>15, <1>16, <1>17, <1>18, <1>19, <1>20, <1>21, <1>22, <1>23, <1>24, <1>25, <1>26, <1>27, <1>28, <1>29, <1>30, <1>31
     DEF Next, ClientStep, HandleStep, UserStep, DriverStep, ServerStep, Publishers

\* Without a goal timeout no step takes the entry of a live handle away.
LEMMA HandleHasEntryNext == TypeOK /\ TypeOK' /\ OutcomeSet /\ Inv /\ [Next]_vars => HandleHasEntry'
<1> SUFFICES ASSUME TypeOK, TypeOK', OutcomeSet, Inv, [Next]_vars PROVE HandleHasEntry'
  OBVIOUS
<1>q. goalQ # <<>> => pc[Head(goalQ)] = "queued"
  BY DEF TypeOK, Inv, QueuedOnce
<1> USE ServerAssumption, <1>q DEF TypeOK, Inv, HandleHasEntry, QueuedOnce, EntryMatchesHandle, Ready, queueVars, serverVars, cancelVars, resultVars, publishVars
<1>1. ASSUME NEW g \in Goals, SendGoal(g) PROVE HandleHasEntry'
  BY <1>1 DEF SendGoal, Push, Evicted, Queries
<1>2. ASSUME NEW c \in Cancels, SendCancel(c) PROVE HandleHasEntry'
  BY <1>2 DEF SendCancel, Evicted, Queries
<1>3. ASSUME NEW r \in Results, SendResult(r) PROVE HandleHasEntry'
  BY <1>3 DEF SendResult, Evicted, Queries
<1>4. ASSUME NEW g \in Goals, AcceptReply(g) PROVE HandleHasEntry'
  BY <1>4 DEF AcceptReply, Queries
<1>5. ASSUME NEW g \in Goals, Execute(g) PROVE HandleHasEntry'
  BY <1>5 DEF Execute
<1>6. ASSUME NEW g \in Goals, TerminateInsert(g) PROVE HandleHasEntry'
  BY <1>6 DEF TerminateInsert
<1>7. ASSUME NEW g \in Goals, TerminateNotify(g) PROVE HandleHasEntry'
  BY <1>7 DEF TerminateNotify, ChannelDropped, Queries
<1>8. ASSUME NEW g \in Goals, DrainOne(g) PROVE HandleHasEntry'
  BY <1>8 DEF DrainOne, Routable, Queries
<1>9. ASSUME NEW g \in Goals, TakeCancel(g) PROVE HandleHasEntry'
  BY <1>9 DEF TakeCancel, SetFlag, CanCancel, Queries
<1>10. ASSUME NEW g \in Goals, Accept(g) PROVE HandleHasEntry'
  BY <1>10 DEF Accept
<1>11. ASSUME NEW g \in Goals, Register(g) PROVE HandleHasEntry'
  BY <1>11 DEF Register
<1>12. ASSUME NEW g \in Goals, Reject(g) PROVE HandleHasEntry'
  BY <1>12 DEF Reject, Queries
<1>13. ASSUME NEW g \in Goals, TryProcessCancel(g) PROVE HandleHasEntry'
  BY <1>13 DEF TryProcessCancel
<1>14. ASSUME NEW g \in Goals, DropHandle(g) PROVE HandleHasEntry'
  BY <1>14 DEF DropHandle, ChannelDropped, Queries
<1>15. ASSUME NEW g \in Goals, NEW s \in Outcomes, Terminate(g, s) PROVE HandleHasEntry'
  BY <1>15 DEF Terminate, Terminal
<1>16. ASSUME NEW p \in Publishers, Snapshot(p) \/ Publish(p) PROVE HandleHasEntry'
  BY <1>16 DEF Snapshot, Publish
<1>17. ASSUME RecvGoal PROVE HandleHasEntry'
  BY <1>17 DEF RecvGoal
<1>18. ASSUME DriverGoal PROVE HandleHasEntry'
  BY <1>18 DEF DriverGoal
<1>19. ASSUME RecvCancel PROVE HandleHasEntry'
  BY <1>19 DEF RecvCancel, Queries
<1>20. ASSUME DriverCancel PROVE HandleHasEntry'
  BY <1>20 DEF DriverCancel, SetFlag, CanCancel, Queries
<1>21. ASSUME LegacyResult PROVE HandleHasEntry'
  BY <1>21 DEF LegacyResult, Queries
<1>22. ASSUME DriverResult PROVE HandleHasEntry'
  BY <1>22 DEF DriverResult, Queries
<1>23. ASSUME DriverResultReply PROVE HandleHasEntry'
  BY <1>23 DEF DriverResultReply, Queries
<1>24. ASSUME ExpireGoals PROVE HandleHasEntry'
  BY <1>24 DEF ExpireGoals, Expirable, Terminal
<1>25. ASSUME NEW r \in Results, ReplyResult(r) PROVE HandleHasEntry'
  BY <1>25 DEF ReplyResult, Queries
<1>26. ASSUME NEW g \in Goals, AbortTask(g) PROVE HandleHasEntry'
  BY <1>26 DEF AbortTask, ChannelDropped, Queries
<1>27. ASSUME NEW g \in Goals, Reap(g) PROVE HandleHasEntry'
  BY <1>27 DEF Reap
<1>28. ASSUME LegacyStop \/ WithHandler \/ DriverShutdown \/ DriverExit \/ DropServer PROVE HandleHasEntry'
  BY <1>28 DEF LegacyStop, WithHandler, DriverShutdown, DriverExit, DropServer
<1>29. ASSUME UNCHANGED vars PROVE HandleHasEntry'
  BY <1>29 DEF vars
<1>30. ASSUME NEW c \in Cancels, RequestCancel(c) PROVE HandleHasEntry'
  BY <1>30 DEF RequestCancel, SetFlag, CanCancel, Queries
<1>31. ASSUME NEW c \in Cancels, SendCancelResponse(c) PROVE HandleHasEntry'
  BY <1>31 DEF SendCancelResponse, Queries
<1> QED
  BY <1>1, <1>2, <1>3, <1>4, <1>5, <1>6, <1>7, <1>8, <1>9, <1>10, <1>11, <1>12, <1>13, <1>14, <1>15, <1>16, <1>17, <1>18, <1>19, <1>20, <1>21, <1>22, <1>23, <1>24, <1>25, <1>26, <1>27, <1>28, <1>29, <1>30, <1>31
     DEF Next, ClientStep, HandleStep, UserStep, DriverStep, ServerStep, Publishers

\* Every step keeps waiters and oneshots with their own goal.
LEMMA WaiterMatchesGoalNext == TypeOK /\ TypeOK' /\ OutcomeSet /\ Inv /\ [Next]_vars => WaiterMatchesGoal'
<1> SUFFICES ASSUME TypeOK, TypeOK', OutcomeSet, Inv, [Next]_vars PROVE WaiterMatchesGoal'
  OBVIOUS
<1>q. goalQ # <<>> => pc[Head(goalQ)] = "queued"
  BY DEF TypeOK, Inv, QueuedOnce
<1> USE ServerAssumption, <1>q DEF TypeOK, Inv, WaiterMatchesGoal, QueuedOnce, EntryMatchesHandle, OutcomeSet, Ready, queueVars, serverVars, cancelVars, resultVars, publishVars
<1>1. ASSUME NEW g \in Goals, SendGoal(g) PROVE WaiterMatchesGoal'
  <2>1. \A h \in Goals : pc[h] \in {"notifying", "done"} => pc'[h] = pc[h]
    BY <1>1 DEF SendGoal
  <2> QED BY <1>1, <2>1 DEF SendGoal
<1>2. ASSUME NEW c \in Cancels, SendCancel(c) PROVE WaiterMatchesGoal'
  BY <1>2 DEF SendCancel, Evicted, Queries
<1>3. ASSUME NEW r \in Results, SendResult(r) PROVE WaiterMatchesGoal'
  BY <1>3 DEF SendResult, Evicted, Queries
<1>4. ASSUME NEW g \in Goals, AcceptReply(g) PROVE WaiterMatchesGoal'
  BY <1>4 DEF AcceptReply, Queries
<1>5. ASSUME NEW g \in Goals, Execute(g) PROVE WaiterMatchesGoal'
  BY <1>5 DEF Execute
<1>6. ASSUME NEW g \in Goals, TerminateInsert(g) PROVE WaiterMatchesGoal'
  BY <1>6 DEF TerminateInsert
<1>7. ASSUME NEW g \in Goals, TerminateNotify(g) PROVE WaiterMatchesGoal'
  BY <1>7 DEF TerminateNotify, ChannelDropped, Queries
<1>8. ASSUME NEW g \in Goals, DrainOne(g) PROVE WaiterMatchesGoal'
  BY <1>8 DEF DrainOne, Routable, Queries
<1>9. ASSUME NEW g \in Goals, TakeCancel(g) PROVE WaiterMatchesGoal'
  BY <1>9 DEF TakeCancel, SetFlag, CanCancel, Queries
<1>10. ASSUME NEW g \in Goals, Accept(g) PROVE WaiterMatchesGoal'
  BY <1>10 DEF Accept
<1>11. ASSUME NEW g \in Goals, Register(g) PROVE WaiterMatchesGoal'
  BY <1>11 DEF Register
<1>12. ASSUME NEW g \in Goals, Reject(g) PROVE WaiterMatchesGoal'
  BY <1>12 DEF Reject, Queries
<1>13. ASSUME NEW g \in Goals, TryProcessCancel(g) PROVE WaiterMatchesGoal'
  BY <1>13 DEF TryProcessCancel
<1>14. ASSUME NEW g \in Goals, DropHandle(g) PROVE WaiterMatchesGoal'
  BY <1>14 DEF DropHandle, ChannelDropped, Queries
<1>15. ASSUME NEW g \in Goals, NEW s \in Outcomes, Terminate(g, s) PROVE WaiterMatchesGoal'
  BY <1>15 DEF Terminate, Terminal
<1>16. ASSUME NEW p \in Publishers, Snapshot(p) \/ Publish(p) PROVE WaiterMatchesGoal'
  BY <1>16 DEF Snapshot, Publish
<1>17. ASSUME RecvGoal PROVE WaiterMatchesGoal'
  BY <1>17 DEF RecvGoal
<1>18. ASSUME DriverGoal PROVE WaiterMatchesGoal'
  BY <1>18 DEF DriverGoal
<1>19. ASSUME RecvCancel PROVE WaiterMatchesGoal'
  BY <1>19 DEF RecvCancel, Queries
<1>20. ASSUME DriverCancel PROVE WaiterMatchesGoal'
  BY <1>20 DEF DriverCancel, SetFlag, CanCancel, Queries
<1>21. ASSUME LegacyResult PROVE WaiterMatchesGoal'
  <2>1. PICK r \in Results : ResultEffect(r)
    BY <1>21, ResultStep
  <2>2. goals' = goals /\ pc' = pc /\ outcome' = outcome /\ toNotify' = toNotify /\ sent' = sent
    BY <2>1 DEF ResultEffect
  <2>3. ASSUME NEW h \in Goals, NEW w \in resultFutures'[h] PROVE Target[w] = h
    <3>1. w \in resultFutures[h] \/ (w = r /\ h = Target[r])
      BY <2>1, <2>3 DEF ResultEffect
    <3> QED BY <3>1
  <2>4. /\ \A h \in Goals : \A w \in toNotify[h] : Target[w] = h
        /\ \A h \in Goals : toNotify[h] # {} => pc[h] = "notifying"
        /\ \A q \in Results : sent[q] # "none" =>
              pc[Target[q]] = "done" /\ sent[q] = outcome[Target[q]]
    OBVIOUS
  <2>5. \A h \in Goals : \A w \in resultFutures'[h] \cup toNotify'[h] : Target[w] = h
    <3> SUFFICES ASSUME NEW h \in Goals, NEW w \in resultFutures'[h] \cup toNotify'[h]
                 PROVE  Target[w] = h
      OBVIOUS
    <3>1. w \in resultFutures'[h] \/ w \in toNotify[h]
      BY <2>2, Zenon
    <3> HIDE DEF TypeOK, Inv, WaiterMatchesGoal, QueuedOnce, EntryMatchesHandle, OutcomeSet
    <3>2. CASE w \in resultFutures'[h]
      BY <2>3, <3>2
    <3>3. CASE w \in toNotify[h]
      BY <2>4, <3>3
    <3> QED BY <3>1, <3>2, <3>3, Zenon
  <2> QED BY <2>2, <2>4, <2>5, Zenon
<1>22. ASSUME DriverResult PROVE WaiterMatchesGoal'
  <2>1. PICK r \in Results : ResultEffect(r)
    BY <1>22, ResultStep
  <2>2. goals' = goals /\ pc' = pc /\ outcome' = outcome /\ toNotify' = toNotify /\ sent' = sent
    BY <2>1 DEF ResultEffect
  <2>3. ASSUME NEW h \in Goals, NEW w \in resultFutures'[h] PROVE Target[w] = h
    <3>1. w \in resultFutures[h] \/ (w = r /\ h = Target[r])
      BY <2>1, <2>3 DEF ResultEffect
    <3> QED BY <3>1
  <2>4. /\ \A h \in Goals : \A w \in toNotify[h] : Target[w] = h
        /\ \A h \in Goals : toNotify[h] # {} => pc[h] = "notifying"
        /\ \A q \in Results : sent[q] # "none" =>
              pc[Target[q]] = "done" /\ sent[q] = outcome[Target[q]]
    OBVIOUS
  <2>5. \A h \in Goals : \A w \in resultFutures'[h] \cup toNotify'[h] : Target[w] = h
    <3> SUFFICES ASSUME NEW h \in Goals, NEW w \in resultFutures'[h] \cup toNotify'[h]
                 PROVE  Target[w] = h
      OBVIOUS
    <3>1. w \in resultFutures'[h] \/ w \in toNotify[h]
      BY <2>2, Zenon
    <3> HIDE DEF TypeOK, Inv, WaiterMatchesGoal, QueuedOnce, EntryMatchesHandle, OutcomeSet
    <3>2. CASE w \in resultFutures'[h]
      BY <2>3, <3>2
    <3>3. CASE w \in toNotify[h]
      BY <2>4, <3>3
    <3> QED BY <3>1, <3>2, <3>3, Zenon
  <2> QED BY <2>2, <2>4, <2>5, Zenon
<1>23. ASSUME DriverResultReply PROVE WaiterMatchesGoal'
  BY <1>23 DEF DriverResultReply, Queries
<1>24. ASSUME ExpireGoals PROVE WaiterMatchesGoal'
  BY <1>24 DEF ExpireGoals, Expirable, Terminal
<1>25. ASSUME NEW r \in Results, ReplyResult(r) PROVE WaiterMatchesGoal'
  BY <1>25 DEF ReplyResult, Queries
<1>26. ASSUME NEW g \in Goals, AbortTask(g) PROVE WaiterMatchesGoal'
  BY <1>26 DEF AbortTask, ChannelDropped, Queries
<1>27. ASSUME NEW g \in Goals, Reap(g) PROVE WaiterMatchesGoal'
  BY <1>27 DEF Reap
<1>28. ASSUME LegacyStop \/ WithHandler \/ DriverShutdown \/ DriverExit \/ DropServer PROVE WaiterMatchesGoal'
  BY <1>28 DEF LegacyStop, WithHandler, DriverShutdown, DriverExit, DropServer
<1>29. ASSUME UNCHANGED vars PROVE WaiterMatchesGoal'
  BY <1>29 DEF vars
<1>30. ASSUME NEW c \in Cancels, RequestCancel(c) PROVE WaiterMatchesGoal'
  BY <1>30 DEF RequestCancel, SetFlag, CanCancel, Queries
<1>31. ASSUME NEW c \in Cancels, SendCancelResponse(c) PROVE WaiterMatchesGoal'
  BY <1>31 DEF SendCancelResponse, Queries
<1> QED
  BY <1>1, <1>2, <1>3, <1>4, <1>5, <1>6, <1>7, <1>8, <1>9, <1>10, <1>11, <1>12, <1>13, <1>14, <1>15, <1>16, <1>17, <1>18, <1>19, <1>20, <1>21, <1>22, <1>23, <1>24, <1>25, <1>26, <1>27, <1>28, <1>29, <1>30, <1>31
     DEF Next, ClientStep, HandleStep, UserStep, DriverStep, ServerStep, Publishers

\* No step gives a client a result other than its goal's outcome.
LEMMA ResultIsOutcomeNext == TypeOK /\ TypeOK' /\ OutcomeSet /\ Inv /\ [Next]_vars => ResultIsOutcome'
<1> SUFFICES ASSUME TypeOK, TypeOK', OutcomeSet, Inv, [Next]_vars PROVE ResultIsOutcome'
  OBVIOUS
<1>q. goalQ # <<>> => pc[Head(goalQ)] = "queued"
  BY DEF TypeOK, Inv, QueuedOnce
<1> USE ServerAssumption, <1>q DEF TypeOK, Inv, ResultIsOutcome, WaiterMatchesGoal, QueuedOnce, EntryMatchesHandle, Ready, queueVars, serverVars, cancelVars, resultVars, publishVars
<1>1. ASSUME NEW g \in Goals, SendGoal(g) PROVE ResultIsOutcome'
  BY <1>1 DEF SendGoal, Push, Evicted, Queries
<1>2. ASSUME NEW c \in Cancels, SendCancel(c) PROVE ResultIsOutcome'
  BY <1>2 DEF SendCancel, Evicted, Queries
<1>3. ASSUME NEW r \in Results, SendResult(r) PROVE ResultIsOutcome'
  <2>1. \A q \in Results : answer'[q] \in {answer[q], "dropped"}
    BY <1>3 DEF SendResult, Evicted, Queries
  <2> QED BY <1>3, <2>1 DEF SendResult, Terminal
<1>4. ASSUME NEW g \in Goals, AcceptReply(g) PROVE ResultIsOutcome'
  BY <1>4 DEF AcceptReply, Queries
<1>5. ASSUME NEW g \in Goals, Execute(g) PROVE ResultIsOutcome'
  BY <1>5 DEF Execute
<1>6. ASSUME NEW g \in Goals, TerminateInsert(g) PROVE ResultIsOutcome'
  BY <1>6 DEF TerminateInsert
<1>7. ASSUME NEW g \in Goals, TerminateNotify(g) PROVE ResultIsOutcome'
  <2>1. \A q \in Results : answer'[q] = answer[q]
    BY <1>7, DropStep DEF TerminateNotify, Queries
  <2> QED BY <1>7, <2>1 DEF TerminateNotify
<1>8. ASSUME NEW g \in Goals, DrainOne(g) PROVE ResultIsOutcome'
  <2>1. \A q \in Results : answer'[q] = answer[q]
    BY <1>8, DrainStep DEF DrainEffect, Queries
  <2> QED BY <1>8, <2>1 DEF DrainOne
<1>9. ASSUME NEW g \in Goals, TakeCancel(g) PROVE ResultIsOutcome'
  <2>1. \A q \in Results : answer'[q] = answer[q]
    BY <1>9, TakeStep DEF TakeEffect, Queries
  <2> QED BY <1>9, <2>1 DEF TakeCancel
<1>10. ASSUME NEW g \in Goals, Accept(g) PROVE ResultIsOutcome'
  BY <1>10 DEF Accept
<1>11. ASSUME NEW g \in Goals, Register(g) PROVE ResultIsOutcome'
  BY <1>11 DEF Register
<1>12. ASSUME NEW g \in Goals, Reject(g) PROVE ResultIsOutcome'
  BY <1>12 DEF Reject, Queries
<1>13. ASSUME NEW g \in Goals, TryProcessCancel(g) PROVE ResultIsOutcome'
  BY <1>13 DEF TryProcessCancel
<1>14. ASSUME NEW g \in Goals, DropHandle(g) PROVE ResultIsOutcome'
  <2>1. \A q \in Results : answer'[q] = answer[q]
    BY <1>14, DropStep DEF DropHandle, Queries
  <2>2. outcome' = outcome /\ \A h \in Goals : pc'[h] = pc[h] \/ pc[h] \notin {"notifying", "done"}
    BY <1>14 DEF DropHandle
  <2> QED BY <2>1, <2>2
<1>15. ASSUME NEW g \in Goals, NEW s \in Outcomes, Terminate(g, s) PROVE ResultIsOutcome'
  BY <1>15 DEF Terminate, Terminal
<1>16. ASSUME NEW p \in Publishers, Snapshot(p) \/ Publish(p) PROVE ResultIsOutcome'
  BY <1>16 DEF Snapshot, Publish
<1>17. ASSUME RecvGoal PROVE ResultIsOutcome'
  BY <1>17 DEF RecvGoal
<1>18. ASSUME DriverGoal PROVE ResultIsOutcome'
  BY <1>18 DEF DriverGoal
<1>19. ASSUME RecvCancel PROVE ResultIsOutcome'
  BY <1>19 DEF RecvCancel, Queries
<1>20. ASSUME DriverCancel PROVE ResultIsOutcome'
  BY <1>20 DEF DriverCancel, SetFlag, CanCancel, Queries
<1>21. ASSUME LegacyResult PROVE ResultIsOutcome'
  <2>1. PICK r \in Results : ResultEffect(r)
    BY <1>21, ResultStep
  <2>2. goals' = goals /\ pc' = pc /\ outcome' = outcome
    BY <2>1 DEF ResultEffect
  <2>3. ASSUME NEW q \in Results, answer'[q] \in Terminal
        PROVE  pc[Target[q]] \in {"notifying", "done"} /\ answer'[q] = outcome[Target[q]]
    <3>1. CASE answer'[q] = answer[q]
      BY <2>3, <3>1
    <3>2. CASE q = r /\ goals[Target[r]] \in Terminal /\ answer'[q] = goals[Target[r]]
      BY <3>2
    <3>3. answer'[q] # "dropped"
      BY <2>3 DEF Terminal
    <3> QED BY <2>1, <3>1, <3>2, <3>3 DEF ResultEffect, Queries
  <2> QED BY <2>2, <2>3
<1>22. ASSUME DriverResult PROVE ResultIsOutcome'
  <2>1. PICK r \in Results : ResultEffect(r)
    BY <1>22, ResultStep
  <2>2. goals' = goals /\ pc' = pc /\ outcome' = outcome
    BY <2>1 DEF ResultEffect
  <2>3. ASSUME NEW q \in Results, answer'[q] \in Terminal
        PROVE  pc[Target[q]] \in {"notifying", "done"} /\ answer'[q] = outcome[Target[q]]
    <3>1. CASE answer'[q] = answer[q]
      BY <2>3, <3>1
    <3>2. CASE q = r /\ goals[Target[r]] \in Terminal /\ answer'[q] = goals[Target[r]]
      BY <3>2
    <3>3. answer'[q] # "dropped"
      BY <2>3 DEF Terminal
    <3> QED BY <2>1, <3>1, <3>2, <3>3 DEF ResultEffect, Queries
  <2> QED BY <2>2, <2>3
<1>23. ASSUME DriverResultReply PROVE ResultIsOutcome'
  BY <1>23 DEF DriverResultReply, Queries
<1>24. ASSUME ExpireGoals PROVE ResultIsOutcome'
  BY <1>24 DEF ExpireGoals, Expirable, Terminal
<1>25. ASSUME NEW r \in Results, ReplyResult(r) PROVE ResultIsOutcome'
  BY <1>25 DEF ReplyResult, Queries
<1>26. ASSUME NEW g \in Goals, AbortTask(g) PROVE ResultIsOutcome'
  <2>1. \A q \in Results : answer'[q] = answer[q]
    BY <1>26, DropStep DEF AbortTask, Queries
  <2>2. outcome' = outcome /\ \A h \in Goals : pc'[h] = pc[h] \/ pc[h] \notin {"notifying", "done"}
    BY <1>26 DEF AbortTask
  <2> QED BY <2>1, <2>2
<1>27. ASSUME NEW g \in Goals, Reap(g) PROVE ResultIsOutcome'
  BY <1>27 DEF Reap
<1>28. ASSUME LegacyStop \/ WithHandler \/ DriverShutdown \/ DriverExit \/ DropServer PROVE ResultIsOutcome'
  BY <1>28 DEF LegacyStop, WithHandler, DriverShutdown, DriverExit, DropServer
<1>29. ASSUME UNCHANGED vars PROVE ResultIsOutcome'
  BY <1>29 DEF vars
<1>30. ASSUME NEW c \in Cancels, RequestCancel(c) PROVE ResultIsOutcome'
  BY <1>30 DEF RequestCancel, SetFlag, CanCancel, Queries
<1>31. ASSUME NEW c \in Cancels, SendCancelResponse(c) PROVE ResultIsOutcome'
  BY <1>31 DEF SendCancelResponse, Queries
<1> QED
  BY <1>1, <1>2, <1>3, <1>4, <1>5, <1>6, <1>7, <1>8, <1>9, <1>10, <1>11, <1>12, <1>13, <1>14, <1>15, <1>16, <1>17, <1>18, <1>19, <1>20, <1>21, <1>22, <1>23, <1>24, <1>25, <1>26, <1>27, <1>28, <1>29, <1>30, <1>31
     DEF Next, ClientStep, HandleStep, UserStep, DriverStep, ServerStep, Publishers

\* Every step keeps the cancel channels and flags with their own goal.
LEMMA CancelMatchesGoalNext == TypeOK /\ TypeOK' /\ OutcomeSet /\ Inv /\ [Next]_vars => CancelMatchesGoal'
<1> SUFFICES ASSUME TypeOK, TypeOK', OutcomeSet, Inv, [Next]_vars PROVE CancelMatchesGoal'
  OBVIOUS
<1>q. goalQ # <<>> => pc[Head(goalQ)] = "queued"
  BY DEF TypeOK, Inv, QueuedOnce
<1> USE ServerAssumption, <1>q DEF TypeOK, Inv, CancelMatchesGoal, QueuedOnce, EntryMatchesHandle, Ready, queueVars, serverVars, cancelVars, resultVars, publishVars
<1>1. ASSUME NEW g \in Goals, SendGoal(g) PROVE CancelMatchesGoal'
  BY <1>1 DEF SendGoal, Push, Evicted, Queries
<1>2. ASSUME NEW c \in Cancels, SendCancel(c) PROVE CancelMatchesGoal'
  BY <1>2 DEF SendCancel, Evicted, Queries
<1>3. ASSUME NEW r \in Results, SendResult(r) PROVE CancelMatchesGoal'
  BY <1>3 DEF SendResult, Evicted, Queries
<1>4. ASSUME NEW g \in Goals, AcceptReply(g) PROVE CancelMatchesGoal'
  BY <1>4 DEF AcceptReply, Queries
<1>5. ASSUME NEW g \in Goals, Execute(g) PROVE CancelMatchesGoal'
  BY <1>5 DEF Execute
<1>6. ASSUME NEW g \in Goals, TerminateInsert(g) PROVE CancelMatchesGoal'
  BY <1>6 DEF TerminateInsert
<1>7. ASSUME NEW g \in Goals, TerminateNotify(g) PROVE CancelMatchesGoal'
  BY <1>7 DEF TerminateNotify, ChannelDropped, Queries
<1>8. ASSUME NEW g \in Goals, DrainOne(g) PROVE CancelMatchesGoal'
  <2>1. PICK c \in Cancels : DrainEffect(c)
    BY <1>8, DrainStep
  <2>2. flag' = flag /\ pc' = pc
    BY <1>8 DEF DrainOne
  <2>3. ASSUME NEW h \in Goals, NEW i \in 1 .. Len(chan'[h]) PROVE Target[chan'[h][i]] = h
    <3>1. CASE chan'[h] = chan[h]
      <4>1. i \in 1 .. Len(chan[h]) /\ chan'[h][i] = chan[h][i]
        BY <2>3, <3>1, Zenon
      <4>2. Target[chan[h][i]] = h
        BY <4>1
      <4> QED BY <4>1, <4>2, Zenon
    <3>2. CASE h = Target[c] /\ chan'[h] = Append(chan[h], c)
      <4>0. chan[h] \in Seq(Cancels)
        OBVIOUS
      <4>1. \A k \in 1 .. Len(chan[h]) : Target[chan[h][k]] = h
        BY Zenon
      <4> HIDE DEF TypeOK, Inv, CancelMatchesGoal
      <4>2. \A k \in 1 .. Len(Append(chan[h], c)) : Target[Append(chan[h], c)[k]] = h
        BY <3>2, <4>0, <4>1, AppendTarget
      <4>3. i \in 1 .. Len(Append(chan[h], c))
        BY <2>3, <3>2, Zenon
      <4>4. Target[Append(chan[h], c)[i]] = h
        BY <4>2, <4>3, Zenon
      <4> QED BY <3>2, <4>4, Zenon
    <3> QED BY <2>1, <3>1, <3>2 DEF DrainEffect
  <2> QED BY <2>2, <2>3
<1>9. ASSUME NEW g \in Goals, TakeCancel(g) PROVE CancelMatchesGoal'
  <2>1. TakeEffect(g)
    BY <1>9, TakeStep
  <2>2. ASSUME NEW h \in Goals, NEW i \in 1 .. Len(chan'[h]) PROVE Target[chan'[h][i]] = h
    <3>1. CASE chan'[h] = chan[h]
      <4>1. i \in 1 .. Len(chan[h]) /\ chan'[h][i] = chan[h][i]
        BY <2>2, <3>1, Zenon
      <4>2. Target[chan[h][i]] = h
        BY <4>1
      <4> QED BY <4>1, <4>2, Zenon
    <3>2. CASE chan[h] # <<>> /\ chan'[h] = Tail(chan[h])
      <4>1. i + 1 \in 1 .. Len(chan[h]) /\ chan'[h][i] = chan[h][i + 1]
        BY <3>2
      <4> QED BY <4>1
    <3> QED BY <2>1, <3>1, <3>2, Zenon DEF TakeEffect
  <2>3. \A h \in Goals : flag'[h] => flag[h] \/ h = g
    BY <2>1 DEF TakeEffect
  <2>4. pc' = [pc EXCEPT ![g] = "executing"] /\ pc[g] = "draining"
    BY <1>9 DEF TakeCancel
  <2> QED BY <2>2, <2>3, <2>4
<1>10. ASSUME NEW g \in Goals, Accept(g) PROVE CancelMatchesGoal'
  BY <1>10 DEF Accept
<1>11. ASSUME NEW g \in Goals, Register(g) PROVE CancelMatchesGoal'
  BY <1>11 DEF Register
<1>12. ASSUME NEW g \in Goals, Reject(g) PROVE CancelMatchesGoal'
  BY <1>12 DEF Reject, Queries
<1>13. ASSUME NEW g \in Goals, TryProcessCancel(g) PROVE CancelMatchesGoal'
  BY <1>13 DEF TryProcessCancel
<1>14. ASSUME NEW g \in Goals, DropHandle(g) PROVE CancelMatchesGoal'
  BY <1>14 DEF DropHandle, ChannelDropped, Queries
<1>15. ASSUME NEW g \in Goals, NEW s \in Outcomes, Terminate(g, s) PROVE CancelMatchesGoal'
  BY <1>15 DEF Terminate, Terminal
<1>16. ASSUME NEW p \in Publishers, Snapshot(p) \/ Publish(p) PROVE CancelMatchesGoal'
  BY <1>16 DEF Snapshot, Publish
<1>17. ASSUME RecvGoal PROVE CancelMatchesGoal'
  BY <1>17 DEF RecvGoal
<1>18. ASSUME DriverGoal PROVE CancelMatchesGoal'
  BY <1>18 DEF DriverGoal
<1>19. ASSUME RecvCancel PROVE CancelMatchesGoal'
  BY <1>19 DEF RecvCancel, Queries
<1>20. ASSUME DriverCancel PROVE CancelMatchesGoal'
  BY <1>20 DEF DriverCancel, SetFlag, CanCancel, Queries
<1>21. ASSUME LegacyResult PROVE CancelMatchesGoal'
  BY <1>21 DEF LegacyResult, Queries
<1>22. ASSUME DriverResult PROVE CancelMatchesGoal'
  BY <1>22 DEF DriverResult, Queries
<1>23. ASSUME DriverResultReply PROVE CancelMatchesGoal'
  BY <1>23 DEF DriverResultReply, Queries
<1>24. ASSUME ExpireGoals PROVE CancelMatchesGoal'
  BY <1>24 DEF ExpireGoals, Expirable, Terminal
<1>25. ASSUME NEW r \in Results, ReplyResult(r) PROVE CancelMatchesGoal'
  BY <1>25 DEF ReplyResult, Queries
<1>26. ASSUME NEW g \in Goals, AbortTask(g) PROVE CancelMatchesGoal'
  BY <1>26 DEF AbortTask, ChannelDropped, Queries
<1>27. ASSUME NEW g \in Goals, Reap(g) PROVE CancelMatchesGoal'
  BY <1>27 DEF Reap
<1>28. ASSUME LegacyStop \/ WithHandler \/ DriverShutdown \/ DriverExit \/ DropServer PROVE CancelMatchesGoal'
  BY <1>28 DEF LegacyStop, WithHandler, DriverShutdown, DriverExit, DropServer
<1>29. ASSUME UNCHANGED vars PROVE CancelMatchesGoal'
  BY <1>29 DEF vars
<1>30. ASSUME NEW c \in Cancels, RequestCancel(c) PROVE CancelMatchesGoal'
  BY <1>30 DEF RequestCancel, SetFlag, CanCancel, Queries
<1>31. ASSUME NEW c \in Cancels, SendCancelResponse(c) PROVE CancelMatchesGoal'
  BY <1>31 DEF SendCancelResponse, Queries
<1> QED
  BY <1>1, <1>2, <1>3, <1>4, <1>5, <1>6, <1>7, <1>8, <1>9, <1>10, <1>11, <1>12, <1>13, <1>14, <1>15, <1>16, <1>17, <1>18, <1>19, <1>20, <1>21, <1>22, <1>23, <1>24, <1>25, <1>26, <1>27, <1>28, <1>29, <1>30, <1>31
     DEF Next, ClientStep, HandleStep, UserStep, DriverStep, ServerStep, Publishers

\* No step lists a goal in a cancel reply and leaves its flag unset.
LEMMA CancelAckSetsFlagNext == TypeOK /\ TypeOK' /\ OutcomeSet /\ Inv /\ [Next]_vars => CancelAckSetsFlag'
<1> SUFFICES ASSUME TypeOK, TypeOK', OutcomeSet, Inv, [Next]_vars PROVE CancelAckSetsFlag'
  OBVIOUS
<1>q. goalQ # <<>> => pc[Head(goalQ)] = "queued"
  BY DEF TypeOK, Inv, QueuedOnce
<1> USE ServerAssumption, <1>q DEF TypeOK, Inv, CancelAckSetsFlag, CancelMatchesGoal, HandleHasEntry, EntryMatchesHandle, Ready, queueVars, serverVars, cancelVars, resultVars, publishVars
<1>1. ASSUME NEW g \in Goals, SendGoal(g) PROVE CancelAckSetsFlag'
  BY <1>1 DEF SendGoal, Push, Evicted, Queries
<1>2. ASSUME NEW c \in Cancels, SendCancel(c) PROVE CancelAckSetsFlag'
  BY <1>2 DEF SendCancel, Evicted, Queries
<1>3. ASSUME NEW r \in Results, SendResult(r) PROVE CancelAckSetsFlag'
  BY <1>3 DEF SendResult, Evicted, Queries
<1>4. ASSUME NEW g \in Goals, AcceptReply(g) PROVE CancelAckSetsFlag'
  BY <1>4 DEF AcceptReply, Queries
<1>5. ASSUME NEW g \in Goals, Execute(g) PROVE CancelAckSetsFlag'
  <2>1. ~flag[g]
    BY <1>5 DEF Execute
  <2> QED BY <1>5, <2>1 DEF Execute
<1>6. ASSUME NEW g \in Goals, TerminateInsert(g) PROVE CancelAckSetsFlag'
  BY <1>6 DEF TerminateInsert
<1>7. ASSUME NEW g \in Goals, TerminateNotify(g) PROVE CancelAckSetsFlag'
  BY <1>7 DEF TerminateNotify, ChannelDropped, Queries
<1>8. ASSUME NEW g \in Goals, DrainOne(g) PROVE CancelAckSetsFlag'
  BY <1>8 DEF DrainOne, Routable, Queries
<1>9. ASSUME NEW g \in Goals, TakeCancel(g) PROVE CancelAckSetsFlag'
  <2>1. ASSUME NEW h \in Goals, flag[h] PROVE flag'[h]
    BY <1>9, <2>1, TakeStep DEF TakeEffect
  <2>2. ASSUME NEW c \in Cancels,
               \/ answer'[c] \in {"flagged", "code0_listed"}
               \/ answer'[c] = "code1_listed" /\ ~GoalTimeout
        PROVE  Target[c] \in Goals /\ flag'[Target[c]]
    <3>1. CASE answer'[c] = answer[c]
      <4>1. flag[Target[c]] /\ Target[c] \in Goals
        BY <2>2, <3>1
      <4> QED BY <2>1, <4>1
    <3>2. CASE answer'[c] # answer[c]
      <4>1. chan[g] # <<>> /\ c = chan[g][1] /\ answer'[c] = "code1_listed" /\ (CanCancel(g) => flag'[g])
        <5>1. TakeEffect(g) /\ c \in Queries
          BY <1>9, TakeStep DEF Queries
        <5> QED BY <3>2, <5>1, Zenon DEF TakeEffect
      <4>2. Target[c] = g
        BY <4>1
      <4>3. ~GoalTimeout
        BY <2>2, <4>1
      <4> QED BY <1>9, <4>1, <4>2, <4>3 DEF TakeCancel, CanCancel
    <3> QED BY <3>1, <3>2
  <2> QED BY <2>2
<1>10. ASSUME NEW g \in Goals, Accept(g) PROVE CancelAckSetsFlag'
  BY <1>10 DEF Accept
<1>11. ASSUME NEW g \in Goals, Register(g) PROVE CancelAckSetsFlag'
  BY <1>11 DEF Register
<1>12. ASSUME NEW g \in Goals, Reject(g) PROVE CancelAckSetsFlag'
  BY <1>12 DEF Reject, Queries
<1>13. ASSUME NEW g \in Goals, TryProcessCancel(g) PROVE CancelAckSetsFlag'
  BY <1>13 DEF TryProcessCancel
<1>14. ASSUME NEW g \in Goals, DropHandle(g) PROVE CancelAckSetsFlag'
  BY <1>14 DEF DropHandle, ChannelDropped, Queries
<1>15. ASSUME NEW g \in Goals, NEW s \in Outcomes, Terminate(g, s) PROVE CancelAckSetsFlag'
  BY <1>15 DEF Terminate, Terminal
<1>16. ASSUME NEW p \in Publishers, Snapshot(p) \/ Publish(p) PROVE CancelAckSetsFlag'
  BY <1>16 DEF Snapshot, Publish
<1>17. ASSUME RecvGoal PROVE CancelAckSetsFlag'
  BY <1>17 DEF RecvGoal
<1>18. ASSUME DriverGoal PROVE CancelAckSetsFlag'
  BY <1>18 DEF DriverGoal
<1>19. ASSUME RecvCancel PROVE CancelAckSetsFlag'
  BY <1>19 DEF RecvCancel, Queries
<1>20. ASSUME DriverCancel PROVE CancelAckSetsFlag'
  BY <1>20 DEF DriverCancel, SetFlag, CanCancel, Queries
<1>21. ASSUME LegacyResult PROVE CancelAckSetsFlag'
  BY <1>21 DEF LegacyResult, Queries
<1>22. ASSUME DriverResult PROVE CancelAckSetsFlag'
  BY <1>22 DEF DriverResult, Queries
<1>23. ASSUME DriverResultReply PROVE CancelAckSetsFlag'
  BY <1>23 DEF DriverResultReply, Queries
<1>24. ASSUME ExpireGoals PROVE CancelAckSetsFlag'
  BY <1>24 DEF ExpireGoals, Expirable, Terminal
<1>25. ASSUME NEW r \in Results, ReplyResult(r) PROVE CancelAckSetsFlag'
  BY <1>25 DEF ReplyResult, Queries
<1>26. ASSUME NEW g \in Goals, AbortTask(g) PROVE CancelAckSetsFlag'
  BY <1>26 DEF AbortTask, ChannelDropped, Queries
<1>27. ASSUME NEW g \in Goals, Reap(g) PROVE CancelAckSetsFlag'
  BY <1>27 DEF Reap
<1>28. ASSUME LegacyStop \/ WithHandler \/ DriverShutdown \/ DriverExit \/ DropServer PROVE CancelAckSetsFlag'
  BY <1>28 DEF LegacyStop, WithHandler, DriverShutdown, DriverExit, DropServer
<1>29. ASSUME UNCHANGED vars PROVE CancelAckSetsFlag'
  BY <1>29 DEF vars
<1>30. ASSUME NEW c \in Cancels, RequestCancel(c) PROVE CancelAckSetsFlag'
  BY <1>30 DEF RequestCancel, SetFlag, CanCancel, Queries
<1>31. ASSUME NEW c \in Cancels, SendCancelResponse(c) PROVE CancelAckSetsFlag'
  BY <1>31 DEF SendCancelResponse, Queries
<1> QED
  BY <1>1, <1>2, <1>3, <1>4, <1>5, <1>6, <1>7, <1>8, <1>9, <1>10, <1>11, <1>12, <1>13, <1>14, <1>15, <1>16, <1>17, <1>18, <1>19, <1>20, <1>21, <1>22, <1>23, <1>24, <1>25, <1>26, <1>27, <1>28, <1>29, <1>30, <1>31
     DEF Next, ClientStep, HandleStep, UserStep, DriverStep, ServerStep, Publishers

-----------------------------------------------------------------------------
(* The theorems about the specification.                                   *)

\* Everything Inv says holds in the initial state.
LEMMA InvInit == Init => Inv
  BY ServerAssumption
     DEF Init, Inv, QueuedOnce, EntryMatchesHandle, HandleHasEntry, WaiterMatchesGoal,
         ResultIsOutcome, CancelMatchesGoal, CancelAckSetsFlag, NoStatus, Queries, Terminal

\* One step from a state that satisfies the invariant leads to another.
LEMMA InvNext == TypeOK /\ TypeOK' /\ OutcomeSet /\ Inv /\ [Next]_vars => Inv'
  BY QueuedOnceNext, EntryMatchesHandleNext, HandleHasEntryNext, WaiterMatchesGoalNext,
     ResultIsOutcomeNext, CancelMatchesGoalNext, CancelAckSetsFlagNext, Zenon DEF Inv

\* The inductive invariant: the goal manager, the handles, the waiting result
\* queries and the cancel channels stay consistent with each other.
THEOREM InvCorrect == Spec => []Inv
  BY TypeInit, TypeNext, OutcomeInit, OutcomeNext, InvInit, InvNext, PTL DEF Spec

\* No get_result query ever waits on a goal whose result is already stored:
\* the waiter is registered, and the waiters are taken, in the critical
\* section that reads or writes the goal's entry.
THEOREM NoStrandedWaiterCorrect == Spec => []NoStrandedWaiter
<1>1. Inv => NoStrandedWaiter
  BY DEF Inv, EntryMatchesHandle, NoStrandedWaiter
<1> QED BY <1>1, InvCorrect, PTL

\* A result reply carries the status the goal was terminated with, on every
\* path (immediate, oneshot, driver) and for any number of goals and queries.
THEOREM ResultIsOutcomeCorrect == Spec => []ResultIsOutcome
<1>1. Inv => ResultIsOutcome
  BY DEF Inv
<1> QED BY <1>1, InvCorrect, PTL

\* A goal whose acceptance was sent is known to the goal manager until its
\* result is stored, unless a goal timeout removed it.
THEOREM AcceptedIsKnownCorrect == Spec => []AcceptedIsKnown
<1>1. Inv => AcceptedIsKnown
  BY ServerAssumption DEF Inv, HandleHasEntry, AcceptedIsKnown
<1> QED BY <1>1, InvCorrect, PTL

\* A cancel reply that lists a goal is sent only once the goal's cancel flag
\* is set (in polling mode: as long as no goal timeout removes entries).
THEOREM CancelAckCorrect == Spec => []CancelAckSetsFlag
<1>1. Inv => CancelAckSetsFlag
  BY DEF Inv
<1> QED BY <1>1, InvCorrect, PTL

\* What GoalProgress says of one step.
ProgressStep ==
    \A g \in Goals : goals'[g] # goals[g] =>
        \/ Rank[goals'[g]] > Rank[goals[g]]
        \/ goals'[g] = "absent" /\ (GoalTimeout \/ goals[g] \in Terminal)

\* No step moves a goal's entry backwards.
LEMMA ProgressNext == TypeOK /\ OutcomeSet /\ Inv /\ [Next]_vars => ProgressStep
<1> SUFFICES ASSUME TypeOK, OutcomeSet, Inv, [Next]_vars PROVE ProgressStep
  OBVIOUS
<1>0. /\ Rank["absent"] = 0 /\ Rank["accepted"] = 1 /\ Rank["executing"] = 2
      /\ Rank["succeeded"] = 3 /\ Rank["aborted"] = 3 /\ Rank["canceled"] = 3
  BY DEF Rank
<1>1. ASSUME NEW g \in Goals, Accept(g) PROVE ProgressStep
  <2>1. goals[g] = "absent"
    BY <1>1 DEF Accept, Ready, Inv, EntryMatchesHandle
  <2> QED BY <1>0, <1>1, <2>1 DEF Accept, TypeOK, ProgressStep
<1>2. ASSUME NEW g \in Goals, Execute(g) PROVE ProgressStep
  <2>1. goals[g] \in {"absent", "accepted"}
    BY <1>2 DEF Execute, Ready, Inv, EntryMatchesHandle, TypeOK, Status
  <2> QED BY <1>0, <1>2, <2>1 DEF Execute, TypeOK, ProgressStep
<1>3. ASSUME NEW g \in Goals, TerminateInsert(g) PROVE ProgressStep
  <2>1. goals[g] \in {"absent", "accepted", "executing"}
    BY <1>3 DEF TerminateInsert, Ready, Inv, EntryMatchesHandle, TypeOK, Status
  <2>2. outcome[g] \in Terminal
    BY <1>3 DEF TerminateInsert, Ready, OutcomeSet
  <2> QED BY <1>0, <1>3, <2>1, <2>2 DEF TerminateInsert, TypeOK, ProgressStep, Terminal
<1>4. ASSUME ExpireGoals PROVE ProgressStep
  BY <1>4 DEF ExpireGoals, Expirable, TypeOK, ProgressStep
<1>5. ASSUME goals' = goals PROVE ProgressStep
  BY <1>5 DEF ProgressStep
<1>6. ASSUME NEW g \in Goals, HandleStep(g) \/ UserStep(g) PROVE ProgressStep
  BY <1>1, <1>2, <1>3, <1>5, <1>6
     DEF HandleStep, UserStep, AcceptReply, Snapshot, Publish, TerminateNotify, DrainOne,
         TakeCancel, Register, Reject, TryProcessCancel, DropHandle, Terminate
<1>7. CASE ClientStep \/ DriverStep
  BY <1>5, <1>7
     DEF ClientStep, SendGoal, SendCancel, SendResult, DriverStep, DriverGoal, DriverCancel,
         DriverResult, DriverResultReply, DriverShutdown, DriverExit, Reap
<1>8. CASE ServerStep
  BY <1>4, <1>5, <1>8
     DEF ServerStep, RecvGoal, RecvCancel, RequestCancel, SendCancelResponse, LegacyResult,
         LegacyStop, WithHandler, Snapshot, Publish, DropServer, ReplyResult, AbortTask
<1>9. CASE UNCHANGED vars
  BY <1>5, <1>9 DEF vars
<1> QED BY <1>6, <1>7, <1>8, <1>9 DEF Next

\* The status of a goal only moves forward (accepted, executing, terminal) and
\* a terminal status stays until it expires.
THEOREM GoalProgressCorrect == Spec => GoalProgress
<1>1. TypeOK /\ OutcomeSet /\ Inv /\ [Next]_vars => [ProgressStep]_vars
  BY ProgressNext
<1>2. Spec => []OutcomeSet
  BY TypeInit, TypeNext, OutcomeInit, OutcomeNext, PTL DEF Spec
<1>3. Spec => [][ProgressStep]_vars
  BY <1>1, <1>2, TypeCorrect, InvCorrect, PTL DEF Spec
<1> QED BY <1>3 DEF GoalProgress, ProgressStep

\* A goal that is registered and not yet terminating has its cancel route.
RouteKept == \A g \in Goals : pc[g] \in {"registered", "executing", "draining"} => g \in routes

\* Only Terminate takes a route away, and it ends the goal's execution with it.
LEMMA RouteNext == TypeOK /\ RouteKept /\ [Next]_vars => RouteKept'
<1> SUFFICES ASSUME TypeOK, RouteKept, [Next]_vars PROVE RouteKept'
  OBVIOUS
<1> USE DEF RouteKept, Ready, queueVars, serverVars, cancelVars, resultVars, publishVars
<1>t. pc \in [Goals -> PCs] /\ routes \in SUBSET Goals
  BY DEF TypeOK
<1>1. ASSUME NEW g \in Goals, HandleStep(g) \/ UserStep(g) PROVE RouteKept'
  <2>1. CASE Register(g)
    BY <1>t, <2>1 DEF Register
  <2>2. CASE Execute(g)
    BY <1>t, <2>2 DEF Execute
  <2>3. ASSUME NEW s \in Outcomes, Terminate(g, s) PROVE RouteKept'
    BY <1>t, <2>3 DEF Terminate
  <2>4. CASE TryProcessCancel(g)
    BY <1>t, <2>4 DEF TryProcessCancel
  <2>5. CASE TakeCancel(g)
    BY <1>t, <2>5 DEF TakeCancel
  <2>6. CASE AcceptReply(g) \/ TerminateInsert(g) \/ TerminateNotify(g)
    BY <1>t, <2>6 DEF AcceptReply, TerminateInsert, TerminateNotify
  <2>7. CASE Snapshot(g) \/ Publish(g) \/ DrainOne(g)
    BY <1>t, <2>7 DEF Snapshot, Publish, DrainOne
  <2>8. CASE Accept(g) \/ Reject(g) \/ DropHandle(g)
    BY <1>t, <2>8 DEF Accept, Reject, DropHandle
  <2> QED BY <1>1, <2>1, <2>2, <2>3, <2>4, <2>5, <2>6, <2>7, <2>8, Zenon DEF HandleStep, UserStep
<1>2. CASE ClientStep
  <2>1. ASSUME NEW g \in Goals, SendGoal(g) PROVE RouteKept'
    <3>1. \A h \in Goals : pc'[h] \in {pc[h], "queued", "dropped"}
      BY <2>1 DEF SendGoal
    <3>2. routes' = routes
      BY <2>1 DEF SendGoal
    <3> QED BY <3>1, <3>2
  <2>2. ASSUME pc' = pc, routes' = routes PROVE RouteKept'
    BY <2>2
  <2> QED BY <1>2, <2>1, <2>2 DEF ClientStep, SendCancel, SendResult
<1>3. CASE DriverStep
  <2>1. CASE DriverGoal
    BY <1>t, <2>1 DEF DriverGoal
  <2>2. ASSUME pc' = pc, routes' = routes PROVE RouteKept'
    BY <2>2
  <2> QED BY <1>3, <2>1, <2>2 DEF DriverStep, DriverCancel, DriverResult, DriverResultReply,
                                  DriverShutdown, DriverExit, Reap
<1>4. CASE ServerStep
  <2>1. CASE RecvGoal
    BY <1>t, <2>1 DEF RecvGoal
  <2>2. ASSUME pc' = pc, routes' = routes PROVE RouteKept'
    BY <2>2
  <2>3. ASSUME NEW g \in Goals, AbortTask(g) PROVE RouteKept'
    BY <1>t, <2>3 DEF AbortTask
  <2> QED BY <1>4, <2>1, <2>2, <2>3
          DEF ServerStep, RecvCancel, RequestCancel, SendCancelResponse, LegacyResult,
              LegacyStop, WithHandler, ExpireGoals,
              Snapshot, Publish, DropServer, ReplyResult
<1>5. CASE UNCHANGED vars
  BY <1>5 DEF vars
<1> QED BY <1>1, <1>2, <1>3, <1>4, <1>5 DEF Next

\* What CancelNotLost says of one step.
DrainStepSafe ==
    \A c \in Cancels :
         LET g == Target[c] IN
           /\ g \in Goals /\ pc[g] \in {"executing", "draining"}
           /\ Len(chan[g]) < ChanCap
           /\ Len(cancelQ') < Len(cancelQ)
           /\ answer[c] = "none"
           => answer'[c] # "dropped"

\* Push never shortens a queue.
LEMMA PushLength ==
    ASSUME NEW S, NEW q \in Seq(S), NEW x \in S
    PROVE  Len(q) \in Nat /\ Len(Push(q, x)) \in Nat /\ Len(Push(q, x)) >= Len(q)
<1>1. CASE Len(q) >= Depth
  <2>1. q # <<>> /\ Len(q) \in Nat
    BY <1>1, ServerAssumption
  <2>2. Tail(q) \in Seq(S) /\ Len(Tail(q)) = Len(q) - 1
    BY <2>1
  <2> QED BY <1>1, <2>1, <2>2 DEF Push
<1>2. CASE ~ (Len(q) >= Depth)
  BY <1>2 DEF Push
<1> QED BY <1>1, <1>2

\* Whoever takes a query off the cancel queue, a drain, recv_cancel or the
\* driver, does not drop one it could deliver.
LEMMA DrainSafeNext == TypeOK /\ RouteKept /\ [Next]_vars => DrainStepSafe
<1> SUFFICES ASSUME TypeOK, RouteKept, [Next]_vars,
                    NEW c \in Cancels, Target[c] \in Goals,
                    pc[Target[c]] \in {"executing", "draining"},
                    Len(chan[Target[c]]) < ChanCap, Len(cancelQ') < Len(cancelQ),
                    answer[c] = "none"
             PROVE  answer'[c] # "dropped"
  BY DEF DrainStepSafe
<1>t. c \in Queries /\ answer \in [Queries -> Answers] /\ cancelQ \in Seq(Cancels) /\ Len(cancelQ) \in Nat
  BY DEF TypeOK, Queries
<1>0. ASSUME cancelQ' = cancelQ PROVE FALSE
  BY <1>0, <1>t
<1>1. ASSUME NEW g \in Goals, DrainOne(g) PROVE answer'[c] # "dropped"
  <2>1. CASE Routable(Head(cancelQ))
    BY <1>1, <1>t, <2>1 DEF DrainOne
  <2>2. CASE ~ Routable(Head(cancelQ))
    <3>1. answer' = [answer EXCEPT ![Head(cancelQ)] = "dropped"]
      BY <1>1, <2>2, Zenon DEF DrainOne
    <3>2. Routable(c)
      BY DEF Routable, RouteKept, ReceiverAlive
    <3>3. c # Head(cancelQ)
      BY <2>2, <3>2
    <3> QED BY <1>t, <3>1, <3>3
  <2> QED BY <2>1, <2>2
<1>2. CASE RecvCancel
  <2>1. answer' = [answer EXCEPT ![Head(cancelQ)] = "received"]
    BY <1>2, Zenon DEF RecvCancel
  <2> QED BY <1>t, <2>1
<1>3. CASE DriverCancel
  <2>1. answer' = [answer EXCEPT ![Head(cancelQ)] =
                     IF CanCancel(Target[Head(cancelQ)]) THEN "code0_listed" ELSE "code1_empty"]
    BY <1>3, Zenon DEF DriverCancel
  <2> QED BY <1>t, <2>1
<1>4. ASSUME NEW d \in Cancels, SendCancel(d) PROVE FALSE
  <2>1. cancelQ' = Push(cancelQ, d)
    BY <1>4 DEF SendCancel
  <2> QED BY <1>t, <2>1, PushLength
<1> USE DEF queueVars, serverVars, cancelVars, resultVars, publishVars
<1>5. ASSUME NEW g \in Goals, HandleStep(g) \/ UserStep(g) PROVE answer'[c] # "dropped"
  BY <1>0, <1>1, <1>5
     DEF HandleStep, UserStep, AcceptReply, Execute, TerminateInsert, Snapshot, Publish,
         TerminateNotify, TakeCancel, Accept, Register, Reject, TryProcessCancel, DropHandle,
         Terminate
<1>6. CASE ClientStep \/ DriverStep
  BY <1>0, <1>3, <1>4, <1>6
     DEF ClientStep, SendGoal, SendResult, DriverStep, DriverGoal, DriverResult,
         DriverResultReply, DriverShutdown, DriverExit, Reap
<1>7. CASE ServerStep
  BY <1>0, <1>2, <1>7
     DEF ServerStep, RecvGoal, RequestCancel, SendCancelResponse, LegacyResult, LegacyStop,
         WithHandler, ExpireGoals, Snapshot,
         Publish, DropServer, ReplyResult, AbortTask
<1>8. CASE UNCHANGED vars
  BY <1>0, <1>8 DEF vars
<1> QED BY <1>5, <1>6, <1>7, <1>8 DEF Next

\* A drain never loses the cancel of a goal that executes and has room in its
\* channel, whichever goal's handle drains the shared queue.
THEOREM CancelNotLostCorrect == Spec => CancelNotLost
<1>1. Init => RouteKept
  BY DEF Init, RouteKept
<1>2. TypeOK /\ RouteKept /\ [Next]_vars => [DrainStepSafe]_vars
  BY DrainSafeNext
<1>3. Spec => [][DrainStepSafe]_vars
  BY <1>1, <1>2, RouteNext, TypeCorrect, PTL DEF Spec
<1> QED BY <1>3 DEF CancelNotLost, DrainStepSafe
=============================================================================
