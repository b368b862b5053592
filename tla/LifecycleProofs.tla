--------------------------- MODULE LifecycleProofs ---------------------------
(***************************************************************************)
(* Proofs about Lifecycle, for any set of callers and publishers.          *)
(***************************************************************************)
EXTENDS Lifecycle, TLAPS

\* The transition tables, entry by entry.
LEMMA Tables ==
    ASSUME NEW t \in TransitionIds
    PROVE  /\ StartOf[t] \in Primary \ {"finalized"}
           /\ goal_state[t] \in Primary
           /\ intermediate_state[t] \in Busy \ {"errorprocessing"}
           /\ <<StartOf[t], goal_state[t]>> \in Graph!Edges
  BY DEF TransitionIds, StartOf, goal_state, intermediate_state, Primary, Busy, Graph!Edges

\* A request that is looked up successfully names a transition.
LEMMA RequestedType ==
    ASSUME NEW req, NEW s, Requested(req, s) # "none"
    PROVE  Requested(req, s) \in TransitionIds
  BY DEF Requested, shutdown_for, TransitionIds

\* The initial state satisfies the type invariant and the inductive invariant.
LEMMA InitInv == Init => TypeOK /\ LifecycleInv
<1> SUFFICES ASSUME Init PROVE TypeOK /\ LifecycleInv
  OBVIOUS
<1>1. TypeOK
  BY DEF Init, TypeOK, Primary, States, TransitionIds
<1>2. LifecycleInv
  BY DEF Init, LifecycleInv, BusyIsMine, SettledIsStart, OwnerView, Primary
<1> QED BY <1>1, <1>2

\* Every step keeps the variables in their types.
LEMMA TypeNext == TypeOK /\ [Next]_vars => TypeOK'
<1> SUFFICES ASSUME TypeOK, [Next]_vars PROVE TypeOK'
  OBVIOUS
<1> USE Tables DEF TypeOK, States, ownerVars, pubVars, callerVars, history, Goto, Return, Answer
<1>1. ASSUME NEW t \in TransitionIds, Trigger(t) PROVE TypeOK'
  BY <1>1 DEF Trigger
<1>2. ASSUME Shutdown PROVE TypeOK'
  BY <1>2 DEF Shutdown, shutdown_for, TransitionIds
<1>3. ASSUME ReadStart PROVE TypeOK'
  BY <1>3 DEF ReadStart
<1>4. ASSUME Begin PROVE TypeOK'
  BY <1>4 DEF Begin
<1>5. ASSUME BeginRefused PROVE TypeOK'
  BY <1>5 DEF BeginRefused
<1>6. ASSUME ReadRefused PROVE TypeOK'
  BY <1>6 DEF ReadRefused
<1>7. ASSUME CallbackPanic PROVE TypeOK'
  BY <1>7 DEF CallbackPanic, Primary, Busy, TransitionIds
<1>8. ASSUME OnErrorPanic PROVE TypeOK'
  BY <1>8 DEF OnErrorPanic, Primary, Busy, TransitionIds
<1>9. ASSUME Notify PROVE TypeOK'
  BY <1>9 DEF Notify
<1>10. ASSUME Emit PROVE TypeOK'
  BY <1>10 DEF Emit, Primary, Busy, TransitionIds
<1>11. ASSUME RegisterPublisher PROVE TypeOK'
  BY <1>11 DEF RegisterPublisher
<1>12. ASSUME NEW v \in Verdicts, Callback(v) PROVE TypeOK'
  <2>1. CASE v = "success"
    BY <1>12, <2>1 DEF Callback, Primary, Busy, TransitionIds
  <2>2. CASE v = "failure"
    BY <1>12, <2>2 DEF Callback, Primary, Busy, TransitionIds
  <2>3. CASE v = "error"
    BY <1>12, <2>3 DEF Callback, Primary, Busy, TransitionIds
  <2> QED BY <2>1, <2>2, <2>3 DEF Verdicts
<1>13. ASSUME NEW v \in Verdicts, OnError(v) PROVE TypeOK'
  BY <1>13 DEF OnError, Primary, Busy, TransitionIds
<1>14. ASSUME NEW p \in Pubs, CreatePublisher(p) PROVE TypeOK'
  BY <1>14 DEF CreatePublisher
<1>15. ASSUME NEW c \in Callers, GetState(c) PROVE TypeOK'
  BY <1>15 DEF GetState
<1>16. ASSUME NEW c \in Callers, NEW req, ChangeState(c, req) PROVE TypeOK'
  <2>1. CASE Requested(req, current) = "none"
    BY <1>16, <2>1 DEF ChangeState, TransitionIds, Primary
  <2>2. CASE Requested(req, current) # "none"
    BY <1>16, <2>2, RequestedType DEF ChangeState
  <2> QED BY <2>1, <2>2
<1>17. ASSUME NEW c \in Callers, ChangeStateTrigger(c) PROVE TypeOK'
  BY <1>17 DEF ChangeStateTrigger
<1>18. ASSUME NEW c \in Callers, ChangeStateReply(c) PROVE TypeOK'
  BY <1>18 DEF ChangeStateReply, Primary, Busy, TransitionIds
<1>19. CASE UNCHANGED vars
  BY <1>19 DEF vars
<1> QED
  BY <1>1, <1>2, <1>3, <1>4, <1>5, <1>6, <1>7, <1>8, <1>9, <1>10, <1>11, <1>12, <1>13, <1>14, <1>15, <1>16, <1>17, <1>18, <1>19
     DEF Next, OwnerStep, CallerStep

\* No step moves the state machine while a callback of the owner runs.
LEMMA BusyNext == TypeOK /\ BusyIsMine /\ SettledIsStart /\ [Next]_vars => BusyIsMine'
<1> SUFFICES ASSUME TypeOK, BusyIsMine, SettledIsStart, [Next]_vars PROVE BusyIsMine'
  OBVIOUS
<1> USE Tables DEF TypeOK, States, BusyIsMine, SettledIsStart, Primary, Busy, ownerVars, pubVars, callerVars, history, Goto, Return, Answer
<1>1. ASSUME NEW t \in TransitionIds, Trigger(t) PROVE BusyIsMine'
  BY <1>1 DEF Trigger
<1>2. ASSUME Shutdown PROVE BusyIsMine'
  BY <1>2 DEF Shutdown
<1>3. ASSUME ReadStart PROVE BusyIsMine'
  BY <1>3 DEF ReadStart
<1>4. ASSUME Begin PROVE BusyIsMine'
  BY <1>4 DEF Begin
<1>5. ASSUME BeginRefused PROVE BusyIsMine'
  BY <1>5 DEF BeginRefused
<1>6. ASSUME ReadRefused PROVE BusyIsMine'
  BY <1>6 DEF ReadRefused
<1>7. ASSUME CallbackPanic PROVE BusyIsMine'
  BY <1>7 DEF CallbackPanic
<1>8. ASSUME OnErrorPanic PROVE BusyIsMine'
  BY <1>8 DEF OnErrorPanic
<1>9. ASSUME Notify PROVE BusyIsMine'
  BY <1>9 DEF Notify
<1>10. ASSUME Emit PROVE BusyIsMine'
  BY <1>10 DEF Emit
<1>11. ASSUME RegisterPublisher PROVE BusyIsMine'
  BY <1>11 DEF RegisterPublisher
<1>12. ASSUME NEW v \in Verdicts, Callback(v) PROVE BusyIsMine'
  <2>1. CASE v = "success"
    BY <1>12, <2>1 DEF Callback
  <2>2. CASE v = "failure"
    BY <1>12, <2>2 DEF Callback
  <2>3. CASE v = "error"
    BY <1>12, <2>3 DEF Callback
  <2> QED BY <2>1, <2>2, <2>3 DEF Verdicts
<1>13. ASSUME NEW v \in Verdicts, OnError(v) PROVE BusyIsMine'
  BY <1>13 DEF OnError
<1>14. ASSUME NEW p \in Pubs, CreatePublisher(p) PROVE BusyIsMine'
  BY <1>14 DEF CreatePublisher
<1>15. ASSUME NEW c \in Callers, GetState(c) PROVE BusyIsMine'
  BY <1>15 DEF GetState
<1>16. ASSUME NEW c \in Callers, NEW req, ChangeState(c, req) PROVE BusyIsMine'
  BY <1>16 DEF ChangeState
<1>17. ASSUME NEW c \in Callers, ChangeStateTrigger(c) PROVE BusyIsMine'
  BY <1>17 DEF ChangeStateTrigger
<1>18. ASSUME NEW c \in Callers, ChangeStateReply(c) PROVE BusyIsMine'
  BY <1>18 DEF ChangeStateReply
<1>19. CASE UNCHANGED vars
  BY <1>19 DEF vars
<1> QED
  BY <1>1, <1>2, <1>3, <1>4, <1>5, <1>6, <1>7, <1>8, <1>9, <1>10, <1>11, <1>12, <1>13, <1>14, <1>15, <1>16, <1>17, <1>18, <1>19
     DEF Next, OwnerStep, CallerStep

\* Every step keeps the settled state with the transition that is running.
LEMMA SettledNext == TypeOK /\ BusyIsMine /\ SettledIsStart /\ [Next]_vars => SettledIsStart'
<1> SUFFICES ASSUME TypeOK, BusyIsMine, SettledIsStart, [Next]_vars PROVE SettledIsStart'
  OBVIOUS
<1> USE Tables DEF TypeOK, States, BusyIsMine, SettledIsStart, Primary, Busy, ownerVars, pubVars, callerVars, history, Goto, Return, Answer
<1>1. ASSUME NEW t \in TransitionIds, Trigger(t) PROVE SettledIsStart'
  BY <1>1 DEF Trigger
<1>2. ASSUME Shutdown PROVE SettledIsStart'
  BY <1>2 DEF Shutdown
<1>3. ASSUME ReadStart PROVE SettledIsStart'
  BY <1>3 DEF ReadStart
<1>4. ASSUME Begin PROVE SettledIsStart'
  BY <1>4 DEF Begin
<1>5. ASSUME BeginRefused PROVE SettledIsStart'
  BY <1>5 DEF BeginRefused
<1>6. ASSUME ReadRefused PROVE SettledIsStart'
  BY <1>6 DEF ReadRefused
<1>7. ASSUME CallbackPanic PROVE SettledIsStart'
  BY <1>7 DEF CallbackPanic
<1>8. ASSUME OnErrorPanic PROVE SettledIsStart'
  BY <1>8 DEF OnErrorPanic
<1>9. ASSUME Notify PROVE SettledIsStart'
  BY <1>9 DEF Notify
<1>10. ASSUME Emit PROVE SettledIsStart'
  BY <1>10 DEF Emit
<1>11. ASSUME RegisterPublisher PROVE SettledIsStart'
  BY <1>11 DEF RegisterPublisher
<1>12. ASSUME NEW v \in Verdicts, Callback(v) PROVE SettledIsStart'
  BY <1>12 DEF Callback
<1>13. ASSUME NEW v \in Verdicts, OnError(v) PROVE SettledIsStart'
  BY <1>13 DEF OnError
<1>14. ASSUME NEW p \in Pubs, CreatePublisher(p) PROVE SettledIsStart'
  BY <1>14 DEF CreatePublisher
<1>15. ASSUME NEW c \in Callers, GetState(c) PROVE SettledIsStart'
  BY <1>15 DEF GetState
<1>16. ASSUME NEW c \in Callers, NEW req, ChangeState(c, req) PROVE SettledIsStart'
  BY <1>16 DEF ChangeState
<1>17. ASSUME NEW c \in Callers, ChangeStateTrigger(c) PROVE SettledIsStart'
  BY <1>17 DEF ChangeStateTrigger
<1>18. ASSUME NEW c \in Callers, ChangeStateReply(c) PROVE SettledIsStart'
  BY <1>18 DEF ChangeStateReply
<1>19. CASE UNCHANGED vars
  BY <1>19 DEF vars
<1> QED
  BY <1>1, <1>2, <1>3, <1>4, <1>5, <1>6, <1>7, <1>8, <1>9, <1>10, <1>11, <1>12, <1>13, <1>14, <1>15, <1>16, <1>17, <1>18, <1>19
     DEF Next, OwnerStep, CallerStep

\* Every step keeps publishers and events in line with what the owner did.
LEMMA OwnerNext == TypeOK /\ BusyIsMine /\ OwnerView /\ [Next]_vars => OwnerView'
<1> SUFFICES ASSUME TypeOK, BusyIsMine, OwnerView, [Next]_vars PROVE OwnerView'
  OBVIOUS
<1> USE Tables DEF TypeOK, States, BusyIsMine, OwnerView, Primary, Busy, ownerVars, pubVars, callerVars, history, Goto, Return, Answer
<1>1. ASSUME NEW t \in TransitionIds, Trigger(t) PROVE OwnerView'
  BY <1>1 DEF Trigger
<1>2. ASSUME Shutdown PROVE OwnerView'
  BY <1>2 DEF Shutdown
<1>3. ASSUME ReadStart PROVE OwnerView'
  BY <1>3 DEF ReadStart
<1>4. ASSUME Begin PROVE OwnerView'
  BY <1>4 DEF Begin
<1>5. ASSUME BeginRefused PROVE OwnerView'
  BY <1>5 DEF BeginRefused
<1>6. ASSUME ReadRefused PROVE OwnerView'
  BY <1>6 DEF ReadRefused
<1>7. ASSUME CallbackPanic PROVE OwnerView'
  BY <1>7 DEF CallbackPanic
<1>8. ASSUME OnErrorPanic PROVE OwnerView'
  BY <1>8 DEF OnErrorPanic
<1>9. ASSUME Notify PROVE OwnerView'
  BY <1>9 DEF Notify
<1>10. ASSUME Emit PROVE OwnerView'
  BY <1>10 DEF Emit
<1>11. ASSUME RegisterPublisher PROVE OwnerView'
  BY <1>11 DEF RegisterPublisher
<1>12. ASSUME NEW v \in Verdicts, Callback(v) PROVE OwnerView'
  BY <1>12 DEF Callback
<1>13. ASSUME NEW v \in Verdicts, OnError(v) PROVE OwnerView'
  BY <1>13 DEF OnError
<1>14. ASSUME NEW p \in Pubs, CreatePublisher(p) PROVE OwnerView'
  <2>0. ~remote /\ ~unwound => \A q \in created : active[q] <=> current = "active"
    BY <1>14 DEF CreatePublisher
  <2>1. ASSUME ~remote, ~unwound, NEW q \in created' PROVE active'[q] <=> current = "active"
    <3>1. active' = [active EXCEPT ![p] = (current = "active")] /\ q \in created \cup {p}
      BY <1>14, <2>1 DEF CreatePublisher
    <3>2. CASE q = p
      BY <3>1, <3>2
    <3>3. CASE q # p
      BY <2>0, <2>1, <3>1, <3>3
    <3> QED BY <3>2, <3>3
  <2>2. opc' = "creating" /\ UNCHANGED <<current, lastEvent, cpc, remote, unwound>>
    BY <1>14 DEF CreatePublisher
  <2>3. ~remote /\ ~unwound => lastEvent = current /\ \A c \in Callers : cpc[c] # "event"
    BY <1>14 DEF CreatePublisher
  <2> QED BY <2>1, <2>2, <2>3
<1>15. ASSUME NEW c \in Callers, GetState(c) PROVE OwnerView'
  BY <1>15 DEF GetState
<1>16. ASSUME NEW c \in Callers, NEW req, ChangeState(c, req) PROVE OwnerView'
  BY <1>16 DEF ChangeState
<1>17. ASSUME NEW c \in Callers, ChangeStateTrigger(c) PROVE OwnerView'
  BY <1>17 DEF ChangeStateTrigger
<1>18. ASSUME NEW c \in Callers, ChangeStateReply(c) PROVE OwnerView'
  BY <1>18 DEF ChangeStateReply
<1>19. CASE UNCHANGED vars
  BY <1>19 DEF vars
<1> QED
  BY <1>1, <1>2, <1>3, <1>4, <1>5, <1>6, <1>7, <1>8, <1>9, <1>10, <1>11, <1>12, <1>13, <1>14, <1>15, <1>16, <1>17, <1>18, <1>19
     DEF Next, OwnerStep, CallerStep

\* What GraphSpec says of one step.
GraphStep == Graph!Follow \/ Graph!Recover

\* Every step of the node is a step of the transition graph, or invisible in it.
LEMMA GraphNext == TypeOK /\ BusyIsMine /\ SettledIsStart /\ [Next]_vars => [GraphStep]_settled
<1> SUFFICES ASSUME TypeOK, BusyIsMine, SettledIsStart, [Next]_vars PROVE [GraphStep]_settled
  OBVIOUS
<1> USE Tables DEF TypeOK, States, BusyIsMine, SettledIsStart, Primary, Busy, GraphStep, Graph!Follow, Graph!Recover, ownerVars, pubVars, callerVars, history, Goto, Return, Answer
<1>1. ASSUME NEW t \in TransitionIds, Trigger(t) PROVE [GraphStep]_settled
  BY <1>1 DEF Trigger
<1>2. ASSUME Shutdown PROVE [GraphStep]_settled
  BY <1>2 DEF Shutdown
<1>3. ASSUME ReadStart PROVE [GraphStep]_settled
  BY <1>3 DEF ReadStart
<1>4. ASSUME Begin PROVE [GraphStep]_settled
  BY <1>4 DEF Begin
<1>5. ASSUME BeginRefused PROVE [GraphStep]_settled
  BY <1>5 DEF BeginRefused
<1>6. ASSUME ReadRefused PROVE [GraphStep]_settled
  BY <1>6 DEF ReadRefused
<1>7. ASSUME CallbackPanic PROVE [GraphStep]_settled
  BY <1>7 DEF CallbackPanic
<1>8. ASSUME OnErrorPanic PROVE [GraphStep]_settled
  BY <1>8 DEF OnErrorPanic
<1>9. ASSUME Notify PROVE [GraphStep]_settled
  BY <1>9 DEF Notify
<1>10. ASSUME Emit PROVE [GraphStep]_settled
  BY <1>10 DEF Emit
<1>11. ASSUME RegisterPublisher PROVE [GraphStep]_settled
  BY <1>11 DEF RegisterPublisher
<1>12. ASSUME NEW v \in Verdicts, Callback(v) PROVE [GraphStep]_settled
  BY <1>12 DEF Callback
<1>13. ASSUME NEW v \in Verdicts, OnError(v) PROVE [GraphStep]_settled
  BY <1>13 DEF OnError
<1>14. ASSUME NEW p \in Pubs, CreatePublisher(p) PROVE [GraphStep]_settled
  BY <1>14 DEF CreatePublisher
<1>15. ASSUME NEW c \in Callers, GetState(c) PROVE [GraphStep]_settled
  BY <1>15 DEF GetState
<1>16. ASSUME NEW c \in Callers, NEW req, ChangeState(c, req) PROVE [GraphStep]_settled
  BY <1>16 DEF ChangeState
<1>17. ASSUME NEW c \in Callers, ChangeStateTrigger(c) PROVE [GraphStep]_settled
  BY <1>17 DEF ChangeStateTrigger
<1>18. ASSUME NEW c \in Callers, ChangeStateReply(c) PROVE [GraphStep]_settled
  BY <1>18 DEF ChangeStateReply
<1>19. CASE UNCHANGED vars
  BY <1>19 DEF vars
<1> QED
  BY <1>1, <1>2, <1>3, <1>4, <1>5, <1>6, <1>7, <1>8, <1>9, <1>10, <1>11, <1>12, <1>13, <1>14, <1>15, <1>16, <1>17, <1>18, <1>19
     DEF Next, OwnerStep, CallerStep

\* Every variable keeps its type, for any number of callers and publishers.
THEOREM LifecycleTypeCorrect == Spec => []TypeOK
  BY InitInv, TypeNext, PTL DEF Spec

\* The inductive invariant holds in every reachable state.
THEOREM LifecycleInvCorrect == Spec => []LifecycleInv
<1>1. TypeOK /\ LifecycleInv /\ [Next]_vars => LifecycleInv'
  BY BusyNext, SettledNext, OwnerNext DEF LifecycleInv
<1> QED BY <1>1, InitInv, LifecycleTypeCorrect, PTL DEF Spec

\* While a callback of trigger_transition runs without the lock, no remote
\* change_state can move the state machine under it.
THEOREM BusyIsMineCorrect == Spec => []BusyIsMine
<1>1. LifecycleInv => BusyIsMine
  BY DEF LifecycleInv
<1> QED BY <1>1, LifecycleInvCorrect, PTL

\* Publishers are active exactly in an Active node between the owner's calls,
\* as long as no change_state is applied and on_error does not panic.
THEOREM GateMatchesStateCorrect == Spec => []GateMatchesState
<1>1. LifecycleInv => GateMatchesState
  BY DEF LifecycleInv, OwnerView, GateMatchesState
<1> QED BY <1>1, LifecycleInvCorrect, PTL

\* Under the same conditions the last transition event announced the state.
THEOREM EventMatchesStateCorrect == Spec => []EventMatchesState
<1>1. LifecycleInv => EventMatchesState
  BY DEF LifecycleInv, OwnerView, EventMatchesState
<1> QED BY <1>1, LifecycleInvCorrect, PTL

\* The node with its callbacks, panics and concurrent callers implements the
\* transition graph it announces.
THEOREM FollowsGraphCorrect == Spec => FollowsGraph
<1>1. Init => Graph!GraphInit
  BY DEF Init, Graph!GraphInit
<1>2. TypeOK /\ LifecycleInv /\ [Next]_vars => [Graph!Follow \/ Graph!Recover]_settled
  BY GraphNext DEF LifecycleInv, GraphStep
<1> QED
  BY <1>1, <1>2, LifecycleTypeCorrect, LifecycleInvCorrect, PTL
     DEF Spec, FollowsGraph, Graph!GraphSpec
=============================================================================
