---------------------------- MODULE WaitSetProofs ----------------------------
(***************************************************************************)
(* Proofs about WaitSet, for any number of waiters, producers and entities *)
(* and any wait sets: the notifier loses no wakeup, a guard condition no   *)
(* trigger, and RMW_RET_OK comes with the entity that ended the wait.      *)
(*                                                                         *)
(* The last part is about the other place where threads sleep, the queue   *)
(* of BoundedQueue, for any capacity and any threads and tasks.            *)
(***************************************************************************)
EXTENDS WaitSet, BoundedQueue, FiniteSetTheorems, TLAPS

\* Some producer has made its entity ready and has still to call notify_all.
Notifying == \E p \in Producers : ppc[p] = "notify"

\* w is in check_ready with the mutex held.
Scanning(w) == wpc[w] \in {"checking", "last_check"} /\ timeout[w] # "zero"

\* The mutex is held by the waiter that scans under it, and by nobody else; only
\* a call with a zero timeout checks without it, and it never blocks.
MutexHeld ==
    /\ \A w \in Waiters : owner = w <=> Scanning(w)
    /\ \A w \in Waiters :
          wpc[w] \in {"locking", "parked", "woken", "expired", "last_check"} => timeout[w] # "zero"

\* What a waiter scans, reports or was woken by belongs to its own wait set.
OwnEntities ==
    \A w \in Waiters : /\ scan[w] \subseteq Watches[w]
                       /\ report[w] \subseteq Watches[w]
                       /\ found[w] \subseteq Watches[w]

\* An entity that became ready behind the scan of a waiter is announced: its
\* producer cannot have finished notify_all, which needs the mutex.
Covered ==
    \A w \in Waiters :
        \A e \in Watches[w] :
            /\ wpc[w] = "parked" /\ IsReady(e) => Notifying
            /\ Scanning(w) /\ e \notin scan[w] /\ IsReady(e) => Notifying

\* The entity that ended the wait is reported already, or still ready when the
\* collection comes to it, or another waiter may have consumed it.
FoundKept ==
    \A w \in Waiters : \A e \in found[w] :
        wpc[w] = "collecting" =>
            \/ e \in report[w]
            \/ e \in scan[w] /\ IsReady(e)
            \/ \E v \in Waiters \ {w} : e \in Watches[v]

\* The inductive invariant.
WInv == TypeOK /\ MutexHeld /\ OwnEntities /\ Covered /\ FoundKept /\ NoLostTrigger

-----------------------------------------------------------------------------
\* The notifier and the waiters start in a state of the right type.
LEMMA TypeInit == Init => TypeOK
<1> SUFFICES ASSUME Init PROVE TypeOK
  OBVIOUS
<1>1. triggered \in [Guards -> BOOLEAN]
  BY Zenon DEF Init
<1> QED BY <1>1, WaitSetAssumption DEF Init, TypeOK, Entities

\* Every step of a producer or a waiter keeps the types: what a source holds
\* stays between zero and its depth.
LEMMA TypeNext == TypeOK /\ [Next]_vars => TypeOK'
<1> SUFFICES ASSUME TypeOK, [Next]_vars PROVE TypeOK'
  OBVIOUS
<1> USE WaitSetAssumption DEF TypeOK
<1>1. ASSUME NEW p \in Producers, NotifyAll(p) PROVE TypeOK'
  BY <1>1 DEF NotifyAll
<1>2. ASSUME NEW p \in Producers, NEW g \in Guards, Fire(p, g) PROVE TypeOK'
  <2>1. triggered' \in [Guards -> BOOLEAN]
    BY <1>2 DEF Fire
  <2> QED BY <1>2, <2>1 DEF Fire
<1>3. ASSUME NEW p \in Producers, NEW s \in Sources, Deliver(p, s) PROVE TypeOK'
  <2>1. count' \in [Sources -> 0 .. MaxCount]
    BY <1>3 DEF Deliver
  <2> QED BY <1>3, <2>1 DEF Deliver
<1>4. ASSUME NEW w \in Waiters, Lock(w) PROVE TypeOK'
  BY <1>4 DEF Lock
<1>5. ASSUME NEW w \in Waiters, Park(w) PROVE TypeOK'
  BY <1>5 DEF Park, Release
<1>6. ASSUME NEW w \in Waiters, TimeOut(w) PROVE TypeOK'
  BY <1>6 DEF TimeOut, Release
<1>7. ASSUME NEW w \in Waiters, Return(w) PROVE TypeOK'
  BY <1>7 DEF Return
<1>8. ASSUME NEW w \in Waiters, NEW e \in Entities, CheckOne(w, e) PROVE TypeOK'
  <2>1. CASE IsReady(e)
    BY <1>8, <2>1 DEF CheckOne, Release
  <2>2. CASE ~IsReady(e)
    BY <1>8, <2>2 DEF CheckOne
  <2> QED BY <2>1, <2>2
<1>9. ASSUME NEW w \in Waiters, NEW e \in Entities, CollectOne(w, e) PROVE TypeOK'
  <2>1. triggered' \in [Guards -> BOOLEAN]
    BY <1>9, Zenon DEF CollectOne
  <2>2. report' \in [Waiters -> SUBSET Entities]
    BY <1>9 DEF CollectOne
  <2> QED BY <1>9, <2>1, <2>2 DEF CollectOne
<1>10. ASSUME NEW w \in Waiters, Expire(w) PROVE TypeOK'
  BY <1>10 DEF Expire
<1>11. ASSUME NEW w \in Waiters, Done(w) PROVE TypeOK'
  BY <1>11 DEF Done
<1>12. ASSUME NEW w \in Waiters, NEW t \in {"none", "zero", "bounded"}, Call(w, t) PROVE TypeOK'
  BY <1>12 DEF Call
<1>13. ASSUME NEW w \in Waiters, NEW s \in Sources, Take(w, s) PROVE TypeOK'
  <2>1. count' \in [Sources -> 0 .. MaxCount]
    BY <1>13 DEF Take
  <2> QED BY <1>13, <2>1 DEF Take
<1>14. CASE UNCHANGED vars
  BY <1>14 DEF vars
<1> QED BY <1>1, <1>2, <1>3, <1>4, <1>5, <1>6, <1>7, <1>8, <1>9, <1>10, <1>11, <1>12,
           <1>13, <1>14 DEF Next, WaitStep

\* Only a producer makes an entity ready, and it has then to notify.
LEMMA ReadyIsNews ==
    ASSUME TypeOK, [Next]_vars, NEW e \in Entities, IsReady(e)'
    PROVE  IsReady(e) \/ Notifying'
<1> USE WaitSetAssumption DEF TypeOK, IsReady, Entities
<1>1. ASSUME NEW p \in Producers, NEW g \in Guards, Fire(p, g) PROVE Notifying'
  BY <1>1 DEF Fire, Notifying
<1>2. ASSUME NEW p \in Producers, NEW s \in Sources, Deliver(p, s) PROVE Notifying'
  BY <1>2 DEF Deliver, Notifying
<1>3. ASSUME NEW w \in Waiters, NEW s \in Sources, Take(w, s) PROVE IsReady(e)
  BY <1>3 DEF Take
<1>4. ASSUME NEW w \in Waiters, NEW x \in Entities, CollectOne(w, x) PROVE IsReady(e)
  BY <1>4 DEF CollectOne
<1>5. ASSUME UNCHANGED <<triggered, count>> PROVE IsReady(e)
  BY <1>5
<1> QED BY <1>1, <1>2, <1>3, <1>4, <1>5
        DEF Next, vars, WaitStep, NotifyAll, Lock, Park, TimeOut, Return, CheckOne, Expire, Done, Call

\* The mutex passes from one scanning waiter to the next: Lock needs it free, and
\* every way out of the scan releases it.
LEMMA MutexNext == TypeOK /\ MutexHeld /\ [Next]_vars => MutexHeld'
<1> SUFFICES ASSUME TypeOK, MutexHeld, [Next]_vars PROVE MutexHeld'
  OBVIOUS
<1> USE WaitSetAssumption DEF TypeOK, MutexHeld, Scanning
<1>1. ASSUME NEW p \in Producers, NotifyAll(p) PROVE MutexHeld'
  BY <1>1 DEF NotifyAll
<1>2. ASSUME UNCHANGED <<owner, wpc, timeout>> PROVE MutexHeld'
  BY <1>2
<1>3. ASSUME NEW w \in Waiters, Lock(w) PROVE MutexHeld'
  BY <1>3 DEF Lock
<1>4. ASSUME NEW w \in Waiters, Park(w) PROVE MutexHeld'
  BY <1>4 DEF Park, Release
<1>5. ASSUME NEW w \in Waiters, TimeOut(w) PROVE MutexHeld'
  BY <1>5 DEF TimeOut, Release
<1>6. ASSUME NEW w \in Waiters, Return(w) PROVE MutexHeld'
  BY <1>6 DEF Return
<1>7. ASSUME NEW w \in Waiters, NEW e \in Entities, CheckOne(w, e) PROVE MutexHeld'
  <2>1. CASE IsReady(e)
    BY <1>7, <2>1 DEF CheckOne, Release
  <2>2. CASE ~IsReady(e)
    BY <1>7, <2>2 DEF CheckOne
  <2> QED BY <2>1, <2>2
<1>8. ASSUME NEW w \in Waiters, Expire(w) PROVE MutexHeld'
  BY <1>8 DEF Expire
<1>9. ASSUME NEW w \in Waiters, Done(w) PROVE MutexHeld'
  BY <1>9 DEF Done
<1>10. ASSUME NEW w \in Waiters, NEW t \in {"none", "zero", "bounded"}, Call(w, t) PROVE MutexHeld'
  BY <1>10 DEF Call
<1> QED BY <1>1, <1>2, <1>3, <1>4, <1>5, <1>6, <1>7, <1>8, <1>9, <1>10
        DEF Next, WaitStep, vars, Fire, Deliver, CollectOne, Take

\* Scans, reports and findings stay inside the wait set of the call.
LEMMA OwnNext == TypeOK /\ OwnEntities /\ [Next]_vars => OwnEntities'
<1> SUFFICES ASSUME TypeOK, OwnEntities, [Next]_vars PROVE OwnEntities'
  OBVIOUS
<1> USE WaitSetAssumption DEF TypeOK, OwnEntities
<1>1. ASSUME NEW w \in Waiters, NEW e \in Entities, CheckOne(w, e) PROVE OwnEntities'
  <2>1. CASE IsReady(e)
    BY <1>1, <2>1 DEF CheckOne
  <2>2. CASE ~IsReady(e)
    BY <1>1, <2>2 DEF CheckOne
  <2> QED BY <2>1, <2>2
<1>2. ASSUME NEW w \in Waiters, NEW e \in Entities, CollectOne(w, e) PROVE OwnEntities'
  BY <1>2 DEF CollectOne
<1>3. ASSUME NEW w \in Waiters, NEW t \in {"none", "zero", "bounded"}, Call(w, t) PROVE OwnEntities'
  BY <1>3 DEF Call
<1>4. ASSUME NEW w \in Waiters, Lock(w) PROVE OwnEntities'
  BY <1>4 DEF Lock
<1>5. ASSUME NEW w \in Waiters, Done(w) PROVE OwnEntities'
  BY <1>5 DEF Done
<1>6. ASSUME NEW w \in Waiters, NEW s \in Sources, Take(w, s) PROVE OwnEntities'
  BY <1>6 DEF Take
<1>7. ASSUME UNCHANGED <<scan, report, found>> PROVE OwnEntities'
  BY <1>7
<1> QED BY <1>1, <1>2, <1>3, <1>4, <1>5, <1>6, <1>7
        DEF Next, WaitStep, vars, NotifyAll, Fire, Deliver, Park, TimeOut, Return, Expire

\* notify_all runs with the mutex free, so when it is no longer due nobody is in
\* the middle of a scan and everybody who was parked is awake.
LEMMA CoveredNext == TypeOK /\ MutexHeld /\ Covered /\ [Next]_vars => Covered'
<1> SUFFICES ASSUME TypeOK, MutexHeld, Covered, [Next]_vars,
                    NEW w \in Waiters, NEW e \in Watches[w], IsReady(e)'
             PROVE  /\ wpc'[w] = "parked" => Notifying'
                    /\ Scanning(w)' /\ e \notin scan'[w] => Notifying'
  BY DEF Covered
<1>e. e \in Entities
  BY WaitSetAssumption
<1>r. IsReady(e) \/ Notifying'
  BY <1>e, ReadyIsNews
<1> SUFFICES ASSUME IsReady(e)
             PROVE  /\ wpc'[w] = "parked" => Notifying'
                    /\ Scanning(w)' /\ e \notin scan'[w] => Notifying'
  BY <1>r
<1>c. /\ wpc[w] = "parked" => Notifying
      /\ Scanning(w) /\ e \notin scan[w] => Notifying
  BY DEF Covered
<1> DEFINE Goal == /\ wpc'[w] = "parked" => Notifying'
                   /\ Scanning(w)' /\ e \notin scan'[w] => Notifying'
<1> USE DEF TypeOK, Scanning
<1>1. ASSUME NEW p \in Producers, NotifyAll(p) PROVE Goal
  <2>1. ~Scanning(w)
    BY <1>1, WaitSetAssumption DEF NotifyAll, MutexHeld
  <2> QED BY <1>1, <2>1 DEF NotifyAll
<1>2. ASSUME NEW p \in Producers, (\E g \in Guards : Fire(p, g)) \/ (\E s \in Sources : Deliver(p, s))
      PROVE Goal
  BY <1>2 DEF Fire, Deliver, Notifying
<1>3. ASSUME NEW v \in Waiters, Lock(v) PROVE Goal
  BY <1>3, <1>c DEF Lock, Notifying
<1>4. ASSUME NEW v \in Waiters, Park(v) PROVE Goal
  BY <1>4, <1>c DEF Park, Notifying
<1>5. ASSUME NEW v \in Waiters, TimeOut(v) PROVE Goal
  BY <1>5, <1>c DEF TimeOut, Notifying
<1>6. ASSUME NEW v \in Waiters, Return(v) PROVE Goal
  BY <1>6, <1>c DEF Return, Notifying
<1>7. ASSUME NEW v \in Waiters, NEW x \in Entities, CheckOne(v, x) PROVE Goal
  <2>1. CASE IsReady(x)
    BY <1>7, <1>c, <2>1 DEF CheckOne, Notifying
  <2>2. CASE ~IsReady(x)
    <3>1. /\ scan' = [scan EXCEPT ![v] = @ \ {x}]
          /\ UNCHANGED <<wpc, ppc, timeout>>
      BY <1>7, <2>2 DEF CheckOne
    <3>2. x # e
      BY <2>2
    <3> QED BY <1>c, <3>1, <3>2 DEF Notifying
  <2> QED BY <2>1, <2>2
<1>8. ASSUME NEW v \in Waiters, NEW x \in Entities, CollectOne(v, x) PROVE Goal
  BY <1>8, <1>c DEF CollectOne, Notifying
<1>9. ASSUME NEW v \in Waiters, Expire(v) PROVE Goal
  BY <1>9, <1>c DEF Expire, Notifying
<1>10. ASSUME NEW v \in Waiters, Done(v) PROVE Goal
  BY <1>10, <1>c DEF Done, Notifying
<1>11. ASSUME NEW v \in Waiters, NEW t \in {"none", "zero", "bounded"}, Call(v, t) PROVE Goal
  BY <1>11, <1>c, WaitSetAssumption DEF Call, Notifying
<1>12. ASSUME NEW v \in Waiters, NEW s \in Sources, Take(v, s) PROVE Goal
  BY <1>12, <1>c DEF Take, Notifying
<1>13. CASE UNCHANGED vars
  BY <1>13, <1>c DEF vars, Notifying
<1> QED BY <1>1, <1>2, <1>3, <1>4, <1>5, <1>6, <1>7, <1>8, <1>9, <1>10, <1>11, <1>12, <1>13
        DEF Next, WaitStep

\* Only the waiter itself, or another one that watches the entity too, consumes
\* what ended a wait between the check and the collection.
LEMMA FoundNext == TypeOK /\ OwnEntities /\ FoundKept /\ [Next]_vars => FoundKept'
<1> SUFFICES ASSUME TypeOK, OwnEntities, FoundKept, [Next]_vars,
                    NEW w \in Waiters, NEW e \in found'[w], wpc'[w] = "collecting",
                    \A v \in Waiters \ {w} : e \notin Watches[v]
             PROVE  e \in report'[w] \/ (e \in scan'[w] /\ IsReady(e)')
  BY DEF FoundKept
<1> DEFINE Goal == e \in report'[w] \/ (e \in scan'[w] /\ IsReady(e)')
<1>k. wpc[w] = "collecting" /\ e \in found[w] =>
        e \in report[w] \/ (e \in scan[w] /\ IsReady(e))
  BY DEF FoundKept
<1> USE WaitSetAssumption DEF TypeOK
<1>1. ASSUME NEW p \in Producers, NotifyAll(p) PROVE Goal
  BY <1>1, <1>k DEF NotifyAll, IsReady
<1>2. ASSUME NEW p \in Producers, NEW g \in Guards, Fire(p, g) PROVE Goal
  BY <1>2, <1>k DEF Fire, IsReady
<1>3. ASSUME NEW p \in Producers, NEW s \in Sources, Deliver(p, s) PROVE Goal
  <2>1. IsReady(e) => IsReady(e)'
    BY <1>3 DEF Deliver, IsReady
  <2> QED BY <1>3, <1>k, <2>1 DEF Deliver
<1>4. ASSUME NEW v \in Waiters, Lock(v) PROVE Goal
  BY <1>4, <1>k DEF Lock, IsReady
<1>5. ASSUME NEW v \in Waiters, Park(v) PROVE Goal
  BY <1>5, <1>k DEF Park, IsReady
<1>6. ASSUME NEW v \in Waiters, TimeOut(v) PROVE Goal
  BY <1>6, <1>k DEF TimeOut, IsReady
<1>7. ASSUME NEW v \in Waiters, Return(v) PROVE Goal
  BY <1>7, <1>k DEF Return, IsReady
<1>8. ASSUME NEW v \in Waiters, NEW x \in Entities, CheckOne(v, x) PROVE Goal
  <2>r. IsReady(e)' = IsReady(e)
    BY <1>8 DEF CheckOne, IsReady
  <2>1. CASE IsReady(x)
    <3>1. x \in Watches[v]
      BY <1>8 DEF CheckOne, OwnEntities
    <3> QED BY <1>8, <1>k, <2>1, <2>r, <3>1 DEF CheckOne
  <2>2. CASE ~IsReady(x)
    BY <1>8, <1>k, <2>2, <2>r DEF CheckOne
  <2> QED BY <2>1, <2>2
<1>9. ASSUME NEW v \in Waiters, NEW x \in Entities, CollectOne(v, x) PROVE Goal
  <2>1. e # x => IsReady(e)' = IsReady(e)
    BY <1>9 DEF CollectOne, IsReady
  <2>2. CASE v = w
    <3>1. report' = [report EXCEPT ![w] = IF IsReady(x) THEN @ \cup {x} ELSE @]
      BY <1>9, <2>2 DEF CollectOne
    <3>2. scan' = [scan EXCEPT ![w] = @ \ {x}] /\ UNCHANGED <<found, wpc>>
      BY <1>9, <2>2 DEF CollectOne
    <3> QED BY <1>k, <2>1, <3>1, <3>2
  <2>3. CASE v # w
    <3>1. x \in Watches[v]
      BY <1>9 DEF CollectOne, OwnEntities
    <3>2. report'[w] = report[w] /\ scan'[w] = scan[w] /\ UNCHANGED <<found, wpc>>
      BY <1>9, <2>3 DEF CollectOne
    <3> QED BY <1>k, <2>1, <2>3, <3>1, <3>2
  <2> QED BY <2>2, <2>3
<1>10. ASSUME NEW v \in Waiters, Expire(v) PROVE Goal
  BY <1>10, <1>k DEF Expire, IsReady
<1>11. ASSUME NEW v \in Waiters, Done(v) PROVE Goal
  BY <1>11, <1>k DEF Done, IsReady
<1>12. ASSUME NEW v \in Waiters, NEW t \in {"none", "zero", "bounded"}, Call(v, t) PROVE Goal
  BY <1>12, <1>k DEF Call, IsReady
<1>13. ASSUME NEW v \in Waiters, NEW s \in Sources, Take(v, s) PROVE Goal
  <2>1. v # w
    BY <1>13 DEF Take
  <2>2. s \in Watches[v]
    BY <1>13 DEF Take, OwnEntities
  <2>3. e # s
    BY <2>1, <2>2
  <2>4. IsReady(e)' = IsReady(e)
    BY <1>13, <2>3 DEF Take, IsReady
  <2> QED BY <1>13, <1>k, <2>1, <2>4 DEF Take
<1>14. CASE UNCHANGED vars
  BY <1>14, <1>k DEF vars, IsReady
<1> QED BY <1>1, <1>2, <1>3, <1>4, <1>5, <1>6, <1>7, <1>8, <1>9, <1>10, <1>11, <1>12, <1>13,
           <1>14 DEF Next, WaitStep

\* A trigger is consumed by the same atomic swap that reports it.
LEMMA TriggerNext == TypeOK /\ NoLostTrigger /\ [Next]_vars => NoLostTrigger'
<1> SUFFICES ASSUME TypeOK, NoLostTrigger, [Next]_vars, NEW g \in owed' PROVE triggered'[g]
  BY DEF NoLostTrigger
<1> USE DEF TypeOK, NoLostTrigger
<1>1. ASSUME NEW p \in Producers, NEW x \in Guards, Fire(p, x) PROVE triggered'[g]
  BY <1>1 DEF Fire
<1>2. ASSUME NEW w \in Waiters, NEW e \in Entities, CollectOne(w, e) PROVE triggered'[g]
  BY <1>2 DEF CollectOne
<1>3. ASSUME UNCHANGED <<triggered, owed>> PROVE triggered'[g]
  BY <1>3
<1> QED BY <1>1, <1>2, <1>3
        DEF Next, WaitStep, vars, NotifyAll, Deliver, Lock, Park, TimeOut, Return, CheckOne,
            Expire, Done, Call, Take

\* The inductive invariant holds in every reachable state.
THEOREM WInvCorrect == Spec => []WInv
<1>1. Init => WInv
  <2> SUFFICES ASSUME Init PROVE WInv
    OBVIOUS
  <2>1. TypeOK
    BY TypeInit
  <2>2. MutexHeld
    BY WaitSetAssumption DEF Init, MutexHeld, Scanning
  <2>3. OwnEntities /\ FoundKept /\ NoLostTrigger
    BY DEF Init, OwnEntities, FoundKept, NoLostTrigger
  <2>4. Covered
    BY DEF Init, Covered, Scanning
  <2> QED BY <2>1, <2>2, <2>3, <2>4 DEF WInv
<1>2. WInv /\ [Next]_vars => WInv'
  BY TypeNext, MutexNext, OwnNext, CoveredNext, FoundNext, TriggerNext DEF WInv
<1> QED BY <1>1, <1>2, PTL DEF Spec

\* No lost wakeup, for every wait set: whoever is parked while one of its
\* entities is ready is about to be notified (wait_set.rs: check_ready under the
\* mutex; utils.rs: notify_all takes it).
THEOREM NoLostWakeupCorrect == Spec => []NoLostWakeup
<1>1. WInv => NoLostWakeup
  BY DEF WInv, Covered, Notifying, NoLostWakeup
<1> QED BY <1>1, WInvCorrect, PTL

\* No lost trigger: a guard condition that fired stays triggered until an rmw_wait
\* reports it; neither a timeout nor another waiter's collection eats it.
THEOREM NoLostTriggerCorrect == Spec => []NoLostTrigger
<1>1. WInv => NoLostTrigger
  BY DEF WInv
<1> QED BY <1>1, WInvCorrect, PTL

\* RMW_RET_OK comes with the entity that ended the wait, unless another waiter
\* has that entity in its wait set too.
THEOREM OkReportsFoundCorrect == Spec => []OkReportsFound
<1>1. WInv => OkReportsFound
  BY DEF WInv, FoundKept, OkReportsFound
<1> QED BY <1>1, WInvCorrect, PTL

\* check_ready runs under the mutex for one waiter at a time: two calls that may
\* block never scan at once, whatever timeouts and wakeups do in between.
THEOREM ScansExclude ==
    Spec => [](\A v, w \in Waiters : Scanning(v) /\ Scanning(w) => v = w)
<1>1. WInv => \A v, w \in Waiters : Scanning(v) /\ Scanning(w) => v = w
  BY DEF WInv, MutexHeld
<1> QED BY <1>1, WInvCorrect, PTL

-----------------------------------------------------------------------------
(* BoundedQueue, whose state and constants are its own.                    *)

\* The inductive invariant of the queue.
QInv == KeepsMostRecent /\ SleepersCovered

\* Dropping a listener leaves a list of listeners.
LEMMA WithoutType ==
    ASSUME NEW ls \in Seq(Tasks), NEW a
    PROVE  Without(ls, a) \in Seq(Tasks)
<1>1. CASE ~ \E i \in DOMAIN ls : ls[i] = a
  BY <1>1 DEF Without
<1>2. CASE \E i \in DOMAIN ls : ls[i] = a
  <2> DEFINE i == CHOOSE j \in DOMAIN ls : ls[j] = a
  <2>1. i \in 1 .. Len(ls)
    BY <1>2
  <2> HIDE DEF i
  <2>2. SubSeq(ls, 1, i - 1) \in Seq(Tasks) /\ SubSeq(ls, i + 1, Len(ls)) \in Seq(Tasks)
    BY <2>1
  <2>3. SubSeq(ls, 1, i - 1) \o SubSeq(ls, i + 1, Len(ls)) \in Seq(Tasks)
    BY <2>2
  <2> QED BY <1>2, <2>3 DEF Without, i
<1> QED BY <1>1, <1>2

\* notify(1) notifies tasks.
LEMMA NotifiedType ==
    ASSUME NEW ls \in Seq(Tasks), NEW S \in SUBSET Tasks
    PROVE  Notified(ls, S) \in SUBSET Tasks
<1>1. CASE S = {} /\ ls # <<>>
  <2>1. Head(ls) \in Tasks
    BY <1>1
  <2> QED BY <1>1, <2>1 DEF Notified
<1>2. CASE ~ (S = {} /\ ls # <<>>)
  BY <1>2 DEF Notified
<1> QED BY <1>1, <1>2

\* A dropped listener leaves the event well-typed.
LEMMA DropListenerType ==
    ASSUME QueueTypeOK, NEW a \in Tasks, DropListener(a)
    PROVE  listeners' \in Seq(Tasks) /\ notified' \in SUBSET Tasks
<1>1. Without(listeners, a) \in Seq(Tasks)
  BY WithoutType DEF QueueTypeOK
<1>2. Notified(Without(listeners, a), notified \ {a}) \in SUBSET Tasks
  BY <1>1, NotifiedType DEF QueueTypeOK
<1> QED BY <1>1, <1>2 DEF DropListener, QueueTypeOK

\* pop_front takes the oldest item off: the rest is still the newest items.
LEMMA PopKeeps ==
    ASSUME KeepsMostRecent, Pop, pushed' = pushed
    PROVE  /\ data' \in Seq(Nat) /\ last' \in Nat /\ Len(data') = Len(data) - 1
           /\ Len(data') <= Capacity
           /\ \A i \in 1 .. Len(data') : data'[i] = pushed' - Len(data') + i
           /\ last' + Len(data') <= pushed'
           /\ last < last'
<1> USE DEF KeepsMostRecent, QueueTypeOK
<1>1. data # <<>> /\ data \in Seq(Nat) /\ last' = Head(data) /\ data' = Tail(data)
  BY DEF Pop
<1>2. Len(data) \in Nat \ {0} /\ Len(data') = Len(data) - 1
      /\ data' \in Seq(Nat) /\ Head(data) = data[1] /\ data[1] \in Nat
  BY <1>1
<1>3. data[1] = pushed - Len(data) + 1
  BY <1>2
<1>4. \A i \in 1 .. Len(data') : data'[i] = data[i + 1] /\ i + 1 \in 1 .. Len(data)
  BY <1>1, <1>2
<1>5. \A i \in 1 .. Len(data') : data'[i] = pushed - Len(data) + (i + 1)
  BY <1>4, Zenon
<1>6. \A i \in 1 .. Len(data') : data'[i] = pushed' - Len(data') + i
  BY <1>2, <1>5
<1>7. last' + Len(data') <= pushed' /\ last < last' /\ last' \in Nat
  BY <1>1, <1>2, <1>3
<1>8. Len(data') <= Capacity
  BY <1>2, QueueAssumption
<1> QED BY <1>2, <1>6, <1>7, <1>8

\* An index other than the last is below it.
LEMMA RangeBelow == \A n \in Nat : \A i \in 1 .. n : i # n => i \in 1 .. n - 1
  OBVIOUS

\* push appends the newest item and makes room for it by dropping the oldest.
LEMMA PushKeeps ==
    ASSUME KeepsMostRecent, Push
    PROVE  /\ data' \in Seq(Nat) /\ pushed' \in Nat
           /\ Len(data') <= Capacity /\ Len(data') <= Len(data) + 1
           /\ \A i \in 1 .. Len(data') : data'[i] = pushed' - Len(data') + i
           /\ last' + Len(data') <= pushed'
<1> USE DEF KeepsMostRecent, QueueTypeOK
<1>0. /\ pushed' = pushed + 1 /\ last' = last /\ Capacity \in Nat \ {0}
      /\ data \in Seq(Nat) /\ Len(data) \in Nat
  BY QueueAssumption DEF Push
<1>1. CASE Len(data) >= Capacity
  <2>1. data' = Append(Tail(data), pushed + 1) /\ data # <<>> /\ Len(data) = Capacity
    BY <1>0, <1>1 DEF Push
  <2>2. Tail(data) \in Seq(Nat) /\ Len(Tail(data)) = Len(data) - 1
    BY <1>0, <2>1
  <2>3. \A i \in 1 .. Len(Tail(data)) : Tail(data)[i] = data[i + 1] /\ i + 1 \in 1 .. Len(data)
    BY <1>0, <2>1, <2>2
  <2>4. \A i \in 1 .. Len(Tail(data)) : Tail(data)[i] = pushed - Len(data) + (i + 1)
    BY <2>3, Zenon
  <2>5. data' \in Seq(Nat) /\ Len(data') = Len(data) /\ data'[Len(data)] = pushed + 1
    BY <1>0, <2>1, <2>2
  <2>6. \A i \in 1 .. Len(data) - 1 : data'[i] = Tail(data)[i]
    BY <1>0, <2>1, <2>2
  <2>7. ASSUME NEW i \in 1 .. Len(data') PROVE data'[i] = pushed' - Len(data') + i
    <3>1. CASE i = Len(data)
      BY <1>0, <2>5, <3>1
    <3>2. CASE i # Len(data)
      <4>0. i \in 1 .. Len(data) /\ Len(data) \in Nat
        BY <1>0, <2>5
      <4>1. i \in 1 .. Len(data) - 1
        BY <3>2, <4>0, RangeBelow, Zenon
      <4>2. i \in 1 .. Len(Tail(data))
        BY <2>2, <4>1, Zenon
      <4> QED BY <1>0, <2>4, <2>5, <2>6, <4>1, <4>2
    <3> QED BY <3>1, <3>2
  <2> QED BY <1>0, <2>1, <2>5, <2>7
<1>2. CASE ~ (Len(data) >= Capacity)
  <2>1. data' = Append(data, pushed + 1) /\ Len(data) < Capacity
    BY <1>0, <1>2 DEF Push
  <2>2. data' \in Seq(Nat) /\ Len(data') = Len(data) + 1 /\ data'[Len(data) + 1] = pushed + 1
    BY <1>0, <2>1
  <2>3. \A i \in 1 .. Len(data) : data'[i] = data[i]
    BY <1>0, <2>1
  <2>4. ASSUME NEW i \in 1 .. Len(data') PROVE data'[i] = pushed' - Len(data') + i
    <3>1. CASE i = Len(data) + 1
      BY <1>0, <2>2, <3>1
    <3>2. CASE i # Len(data) + 1
      <4>1. i \in 1 .. Len(data)
        BY <1>0, <2>2, <3>2
      <4> QED BY <1>0, <2>2, <2>3, <4>1
    <3> QED BY <3>1, <3>2
  <2> QED BY <1>0, <2>1, <2>2, <2>4
<1> QED BY <1>1, <1>2

\* Every step keeps the queue the newest items and the types right.
LEMMA KeepsNext ==
    ASSUME KeepsMostRecent, [QueueNext]_queueVars
    PROVE  KeepsMostRecent'
<1> USE DEF KeepsMostRecent, QueueTypeOK
<1>1. CASE Push
  <2>1. tpc' \in [Threads -> {"idle", "asleep", "woken"}]
    BY <1>1 DEF Push, NotifyOne, Asleep
  <2>2. notified' \in SUBSET Tasks
    BY <1>1, NotifiedType DEF Push
  <2>3. op' = op /\ apc' = apc /\ listeners' = listeners /\ last' = last
    BY <1>1 DEF Push
  <2> QED BY <1>1, <2>1, <2>2, <2>3, PushKeeps
<1>2. ASSUME NEW t \in Threads, TakeItem(t) PROVE KeepsMostRecent'
  BY <1>2, PopKeeps DEF TakeItem, taskVars
<1>3. ASSUME NEW t \in Threads, Wake(t) PROVE KeepsMostRecent'
  <2>1. CASE Pop
    BY <1>3, <2>1, PopKeeps DEF Wake, taskVars
  <2>2. CASE ~ Pop
    BY <1>3, <2>2 DEF Wake, taskVars
  <2> QED BY <2>1, <2>2
<1>4. ASSUME NEW t \in Threads, Timeout(t) PROVE KeepsMostRecent'
  BY <1>4 DEF Timeout, taskVars
<1>5. ASSUME NEW t \in Threads, NEW c \in {"recv", "recv_timeout"}, Sleep(t, c)
      PROVE  KeepsMostRecent'
  BY <1>5 DEF Sleep, taskVars
<1>6. ASSUME NEW a \in Tasks, RecvAsync(a) PROVE KeepsMostRecent'
  BY <1>6 DEF RecvAsync
<1>7. ASSUME NEW a \in Tasks, Listen(a) PROVE KeepsMostRecent'
  BY <1>7 DEF Listen
<1>8. ASSUME NEW a \in Tasks, Check(a) PROVE KeepsMostRecent'
  <2>1. CASE Pop /\ DropListener(a) /\ apc' = [apc EXCEPT ![a] = "idle"]
    BY <1>8, <2>1, PopKeeps, DropListenerType DEF Check
  <2>2. CASE data = <<>> /\ UNCHANGED <<data, last, listeners, notified>>
             /\ apc' = [apc EXCEPT ![a] = "waiting"]
    BY <1>8, <2>2 DEF Check
  <2> QED BY <1>8, <2>1, <2>2 DEF Check
<1>9. ASSUME NEW a \in Tasks, Resume(a) PROVE KeepsMostRecent'
  BY <1>9, WithoutType DEF Resume
<1>10. ASSUME NEW a \in Tasks, Cancel(a) PROVE KeepsMostRecent'
  BY <1>10, DropListenerType DEF Cancel
<1>11. CASE UNCHANGED queueVars
  BY <1>11 DEF queueVars
<1> QED BY <1>1, <1>2, <1>3, <1>4, <1>5, <1>6, <1>7, <1>8, <1>9, <1>10, <1>11, Zenon
        DEF QueueNext, TaskStep

\* Waking or putting to sleep one thread changes how many are woken by one.
LEMMA WokenCount ==
    ASSUME QueueTypeOK, NEW t \in Threads, NEW v \in {"idle", "asleep", "woken"},
           tpc' = [tpc EXCEPT ![t] = v]
    PROVE  /\ Cardinality(Woken) \in Nat /\ Cardinality(Woken') \in Nat
           /\ v = "woken" /\ tpc[t] # "woken" =>
                 Cardinality(Woken') = Cardinality(Woken) + 1
           /\ v # "woken" /\ tpc[t] = "woken" =>
                 Cardinality(Woken') = Cardinality(Woken) - 1
           /\ v # "woken" /\ tpc[t] # "woken" => Woken' = Woken
<1>1. IsFiniteSet(Threads) /\ Woken \subseteq Threads /\ Woken' \subseteq Threads
  BY QueueAssumption DEF Woken
<1>2. IsFiniteSet(Woken) /\ IsFiniteSet(Woken')
  BY <1>1, FS_Subset
<1>3. Cardinality(Woken) \in Nat /\ Cardinality(Woken') \in Nat
  BY <1>2, FS_CardinalityType
<1>4. ASSUME v = "woken", tpc[t] # "woken" PROVE Cardinality(Woken') = Cardinality(Woken) + 1
  <2>1. Woken' = Woken \cup {t} /\ t \notin Woken
    BY <1>4 DEF Woken, QueueTypeOK
  <2> QED BY <1>2, <2>1, FS_AddElement
<1>5. ASSUME v # "woken", tpc[t] = "woken" PROVE Cardinality(Woken') = Cardinality(Woken) - 1
  <2>1. Woken' = Woken \ {t} /\ t \in Woken
    BY <1>5 DEF Woken, QueueTypeOK
  <2> QED BY <1>2, <2>1, FS_RemoveElement
<1>6. ASSUME v # "woken", tpc[t] # "woken" PROVE Woken' = Woken
  BY <1>6 DEF Woken, QueueTypeOK
<1> QED BY <1>3, <1>4, <1>5, <1>6

\* A step that leaves the threads where they are, and the queue no longer.
LEMMA CoveredStill ==
    ASSUME QueueTypeOK, SleepersCovered, tpc' = tpc,
           Len(data') \in Nat, Len(data') <= Len(data)
    PROVE  SleepersCovered'
<1>1. Woken' = Woken /\ Asleep' = Asleep /\ Len(data) \in Nat
  BY DEF Woken, Asleep, QueueTypeOK
<1>2. IsFiniteSet(Woken)
  BY FS_Subset, QueueAssumption DEF Woken
<1>3. Cardinality(Woken) \in Nat
  BY <1>2, FS_CardinalityType
<1> QED BY <1>1, <1>3 DEF SleepersCovered

\* Every step leaves a woken thread for each item while another thread sleeps.
LEMMA SleepersNext ==
    ASSUME QInv, [QueueNext]_queueVars, KeepsMostRecent'
    PROVE  SleepersCovered'
<1>0. QueueTypeOK /\ KeepsMostRecent /\ SleepersCovered /\ Len(data) \in Nat /\ Len(data') \in Nat
  BY DEF QInv, KeepsMostRecent, QueueTypeOK
<1>w. ASSUME NEW t \in Threads, NEW v \in {"idle", "asleep", "woken"},
             tpc' = [tpc EXCEPT ![t] = v]
      PROVE  Asleep' \subseteq Asleep \cup {t} /\ (v # "asleep" => Asleep' \subseteq Asleep)
  BY <1>0, <1>w DEF Asleep, QueueTypeOK
<1>1. CASE Push
  <2>1. Len(data') <= Len(data) + 1
    BY <1>0, <1>1, PushKeeps
  <2>2. CASE Asleep = {} /\ tpc' = tpc
    BY <2>2 DEF SleepersCovered, Asleep
  <2>3. ASSUME NEW t \in Asleep, tpc' = [tpc EXCEPT ![t] = "woken"]
        PROVE  SleepersCovered'
    <3>1. t \in Threads /\ tpc[t] = "asleep" /\ Asleep # {}
      BY DEF Asleep
    <3>2. Cardinality(Woken') = Cardinality(Woken) + 1 /\ Cardinality(Woken) \in Nat
      BY <1>0, <2>3, <3>1, WokenCount
    <3>3. Len(data) <= Cardinality(Woken)
      BY <1>0, <3>1 DEF SleepersCovered
    <3> QED BY <1>0, <2>1, <3>2, <3>3 DEF SleepersCovered
  <2> QED BY <1>1, <2>2, <2>3 DEF Push, NotifyOne
<1>2. ASSUME NEW t \in Threads, TakeItem(t) PROVE SleepersCovered'
  <2>1. Len(data') = Len(data) - 1 /\ tpc' = tpc
    BY <1>0, <1>2, PopKeeps DEF TakeItem
  <2> QED BY <1>0, <2>1, CoveredStill
<1>3. ASSUME NEW t \in Threads, Wake(t) PROVE SleepersCovered'
  <2>1. CASE Pop /\ tpc' = [tpc EXCEPT ![t] = "idle"]
    <3>1. Len(data') = Len(data) - 1 /\ tpc[t] = "woken"
      BY <1>0, <1>3, <2>1, PopKeeps DEF Wake
    <3>2. Cardinality(Woken') = Cardinality(Woken) - 1 /\ Cardinality(Woken) \in Nat
      BY <1>0, <2>1, <3>1, WokenCount
    <3>3. Asleep' \subseteq Asleep
      BY <1>w, <2>1
    <3> QED BY <1>0, <3>1, <3>2, <3>3 DEF SleepersCovered
  <2>2. CASE data = <<>> /\ data' = data
             /\ tpc' = [tpc EXCEPT ![t] = IF op[t] = "recv" THEN "asleep" ELSE "idle"]
    <3>1. Cardinality(Woken') \in Nat /\ Len(data') = 0
      BY <1>0, <2>2, WokenCount
    <3> QED BY <3>1 DEF SleepersCovered
  <2> QED BY <1>3, <2>1, <2>2 DEF Wake
<1>4. ASSUME NEW t \in Threads, Timeout(t) PROVE SleepersCovered'
  <2>1. tpc' = [tpc EXCEPT ![t] = "idle"] /\ tpc[t] = "asleep" /\ data' = data
    BY <1>4 DEF Timeout
  <2>2. Woken' = Woken /\ Asleep' \subseteq Asleep
    BY <1>0, <1>w, <2>1, WokenCount
  <2> QED BY <1>0, <2>1, <2>2 DEF SleepersCovered
<1>5. ASSUME NEW t \in Threads, NEW c \in {"recv", "recv_timeout"}, Sleep(t, c)
      PROVE  SleepersCovered'
  <2>1. tpc' = [tpc EXCEPT ![t] = "asleep"] /\ data' = <<>>
    BY <1>5 DEF Sleep
  <2>2. Cardinality(Woken') \in Nat /\ Len(data') = 0
    BY <1>0, <2>1, WokenCount
  <2> QED BY <2>2 DEF SleepersCovered
<1>6. ASSUME NEW a \in Tasks, RecvAsync(a) \/ Listen(a) \/ Resume(a) \/ Cancel(a)
      PROVE  SleepersCovered'
  <2>1. tpc' = tpc /\ data' = data
    BY <1>6 DEF RecvAsync, Listen, Resume, Cancel
  <2> QED BY <1>0, <2>1, CoveredStill
<1>7. ASSUME NEW a \in Tasks, Check(a) PROVE SleepersCovered'
  <2>1. tpc' = tpc /\ pushed' = pushed /\ (Pop \/ data' = data)
    BY <1>7 DEF Check
  <2>2. Len(data') <= Len(data)
    BY <1>0, <2>1, PopKeeps
  <2> QED BY <1>0, <2>1, <2>2, CoveredStill
<1>8. CASE UNCHANGED queueVars
  BY <1>0, <1>8, CoveredStill DEF queueVars
<1> QED BY <1>1, <1>2, <1>3, <1>4, <1>5, <1>6, <1>7, <1>8, Zenon DEF QueueNext, TaskStep

\* QInv holds in every reachable state of the queue.
LEMMA QInvCorrect == QueueSpec => []QInv
<1>1. QueueInit => QInv
  <2> SUFFICES ASSUME QueueInit PROVE QInv
    OBVIOUS
  <2>1. KeepsMostRecent
    BY QueueAssumption DEF QueueInit, KeepsMostRecent, QueueTypeOK
  <2>2. SleepersCovered
    BY DEF QueueInit, SleepersCovered, Asleep
  <2> QED BY <2>1, <2>2 DEF QInv
<1>2. QInv /\ [QueueNext]_queueVars => QInv'
  BY KeepsNext, SleepersNext DEF QInv
<1> QED BY <1>1, <1>2, PTL DEF QueueSpec

\* "Maintains the most recent N elements" (queue.rs), for every capacity and
\* every number of threads and tasks: the queue is a run of the newest items in
\* push order, all newer than whatever was handed out.
THEOREM KeepsMostRecentCorrect ==
    QueueSpec => []KeepsMostRecent
<1>1. QInv => KeepsMostRecent
  BY DEF QInv
<1> QED BY <1>1, QInvCorrect, PTL

\* No thread sleeps on an item that nobody was woken for: notify_one under the
\* data mutex is enough for recv and recv_timeout, however they time out, steal
\* items from each other or find the queue overwritten.
THEOREM SleepersCoveredCorrect ==
    QueueSpec => []SleepersCovered
<1>1. QInv => SleepersCovered
  BY DEF QInv
<1> QED BY <1>1, QInvCorrect, PTL

\* Items leave the queue in push order and none twice: what a receiver gets is
\* newer than everything handed out before it.
THEOREM DeliveredInOrder ==
    QueueSpec => [][last' # last => last < last']_queueVars
<1>1. QInv /\ [QueueNext]_queueVars => [last' # last => last < last']_queueVars
  <2> SUFFICES ASSUME QInv, QueueNext, last' # last PROVE last < last'
    BY DEF queueVars
  <2>1. Pop /\ pushed' = pushed
    BY DEF QueueNext, TaskStep, Push, TakeItem, Wake, Timeout, Sleep, RecvAsync,
           Listen, Check, Resume, Cancel
  <2> QED BY <2>1, PopKeeps DEF QInv
<1> QED BY <1>1, QInvCorrect, PTL DEF QueueSpec
=============================================================================
