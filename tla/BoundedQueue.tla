---------------------------- MODULE BoundedQueue ----------------------------
(***************************************************************************)
(* The queue under every subscriber, service and action server of hiroz    *)
(* (queue.rs): at most Capacity elements, the oldest makes room, threads   *)
(* wait on a condition variable and async tasks on an event.               *)
(*                                                                         *)
(* Each step is one critical section of the data mutex, or one operation   *)
(* on the event.  Items are numbered in push order.  The two libraries are *)
(* modelled from how queue.rs uses them: a parking_lot condition variable  *)
(* (notify_one wakes one sleeper, no spurious wakeups, a notified waiter   *)
(* has not timed out) and an event_listener event (notify(1) does nothing  *)
(* while a listener is notified that has not woken up yet; a notified      *)
(* listener that is dropped passes its notification on).                   *)
(***************************************************************************)
EXTENDS Naturals, Sequences, FiniteSets

CONSTANTS
    Threads,    \* callers of recv and recv_timeout
    Tasks,      \* async tasks that call recv_async
    Capacity,   \* capacity of the queue
    MaxPush     \* bound: how many items are pushed

ASSUME QueueAssumption ==
    /\ IsFiniteSet(Threads) /\ IsFiniteSet(Tasks)
    /\ Capacity \in Nat \ {0} /\ MaxPush \in Nat

VARIABLES
    data,       \* the queue
    pushed,     \* how many items were pushed: the number of the newest
    last,       \* the number of the last item handed to a receiver
    tpc,        \* each thread: "idle", "asleep" on the condvar, "woken"
    op,         \* the call a waiting thread is in: "recv" or "recv_timeout"
    apc,        \* each task: "idle", "listen", "check", "waiting"
    listeners,  \* the event's listeners, oldest first
    notified    \* the tasks whose listener is notified

queueVars == <<data, pushed, last, tpc, op, apc, listeners, notified>>
taskVars == <<apc, listeners, notified>>

QueueInit ==
    /\ data = <<>> /\ pushed = 0 /\ last = 0
    /\ tpc = [t \in Threads |-> "idle"]
    /\ op = [t \in Threads |-> "recv"]
    /\ apc = [a \in Tasks |-> "idle"]
    /\ listeners = <<>> /\ notified = {}

-----------------------------------------------------------------------------
(* The event and the condition variable.                                   *)

\* The listeners notified once notify(1) was called with these listeners and
\* these already notified.
Notified(ls, done) == IF done = {} /\ ls # <<>> THEN {Head(ls)} ELSE done

\* The list without the listener of a, which is in it at most once.
Without(ls, a) ==
    IF \E i \in DOMAIN ls : ls[i] = a
    THEN LET i == CHOOSE j \in DOMAIN ls : ls[j] = a
         IN SubSeq(ls, 1, i - 1) \o SubSeq(ls, i + 1, Len(ls))
    ELSE ls

\* The listener of a is dropped; a notification it holds is passed on.
DropListener(a) ==
    /\ listeners' = Without(listeners, a)
    /\ notified' = IF a \in notified
                   THEN Notified(Without(listeners, a), notified \ {a})
                   ELSE notified

Asleep == {t \in Threads : tpc[t] = "asleep"}
Woken  == {t \in Threads : tpc[t] = "woken"}

\* Condvar::notify_one.
NotifyOne ==
    \/ Asleep = {} /\ UNCHANGED tpc
    \/ \E t \in Asleep : tpc' = [tpc EXCEPT ![t] = "woken"]

-----------------------------------------------------------------------------
(* Operations.                                                             *)

\* Mutant: a full queue drops the item that arrives.
PushDropsNewest ==
    /\ pushed < MaxPush
    /\ pushed' = pushed + 1
    /\ data' = IF Len(data) >= Capacity THEN data ELSE Append(data, pushed + 1)
    /\ NotifyOne
    /\ notified' = Notified(listeners, notified)
    /\ UNCHANGED <<last, op, apc, listeners>>

\* Mutant: waiters are notified only when the queue was empty.
PushNotifiesFirst ==
    /\ pushed < MaxPush
    /\ pushed' = pushed + 1
    /\ data' = Append(IF Len(data) >= Capacity THEN Tail(data) ELSE data, pushed + 1)
    /\ IF data = <<>>
       THEN NotifyOne /\ notified' = Notified(listeners, notified)
       ELSE UNCHANGED <<tpc, notified>>
    /\ UNCHANGED <<last, op, apc, listeners>>

\* push: one critical section, both notifications included.
Push ==
    /\ pushed < MaxPush
    /\ pushed' = pushed + 1
    /\ data' = Append(IF Len(data) >= Capacity THEN Tail(data) ELSE data, pushed + 1)
    /\ NotifyOne
    /\ notified' = Notified(listeners, notified)
    /\ UNCHANGED <<last, op, apc, listeners>>

\* pop_front.
Pop ==
    /\ data # <<>>
    /\ last' = Head(data)
    /\ data' = Tail(data)

\* recv, recv_timeout or try_recv finds an item at once.
TakeItem(t) ==
    /\ tpc[t] = "idle"
    /\ Pop
    /\ UNCHANGED <<pushed, tpc, op, taskVars>>

\* recv or recv_timeout finds the queue empty and waits.
Sleep(t, call) ==
    /\ tpc[t] = "idle" /\ data = <<>>
    /\ tpc' = [tpc EXCEPT ![t] = "asleep"]
    /\ op' = [op EXCEPT ![t] = call]
    /\ UNCHANGED <<data, pushed, last, taskVars>>

\* A notified thread has the mutex again.  When another receiver took the item
\* meanwhile, recv waits again and recv_timeout returns None.
Wake(t) ==
    /\ tpc[t] = "woken"
    /\ \/ Pop /\ tpc' = [tpc EXCEPT ![t] = "idle"]
       \/ /\ data = <<>>
          /\ tpc' = [tpc EXCEPT ![t] = IF op[t] = "recv" THEN "asleep" ELSE "idle"]
          /\ UNCHANGED <<data, last>>
    /\ op' = [op EXCEPT ![t] = IF tpc'[t] = "idle" THEN "recv" ELSE @]
    /\ UNCHANGED <<pushed, taskVars>>

\* recv_timeout times out: None, whether or not an item arrived since.
Timeout(t) ==
    /\ tpc[t] = "asleep" /\ op[t] = "recv_timeout"
    /\ tpc' = [tpc EXCEPT ![t] = "idle"]
    /\ op' = [op EXCEPT ![t] = "recv"]
    /\ UNCHANGED <<data, pushed, last, taskVars>>

\* A task calls recv_async.
RecvAsync(a) ==
    /\ apc[a] = "idle"
    /\ apc' = [apc EXCEPT ![a] = "listen"]
    /\ UNCHANGED <<data, pushed, last, tpc, op, listeners, notified>>

\* Mutant: the listener is made but registers only when it is first polled.
ListenLazily(a) ==
    /\ apc[a] = "listen"
    /\ apc' = [apc EXCEPT ![a] = "check"]
    /\ UNCHANGED <<data, pushed, last, tpc, op, listeners, notified>>

\* The head of its loop: register a listener before looking at the queue.
Listen(a) ==
    /\ apc[a] = "listen"
    /\ listeners' = Append(listeners, a)
    /\ apc' = [apc EXCEPT ![a] = "check"]
    /\ UNCHANGED <<data, pushed, last, tpc, op, notified>>

\* try_recv; with an item the future completes and drops its listener.
Check(a) ==
    /\ apc[a] = "check"
    /\ \/ /\ Pop
          /\ DropListener(a)
          /\ apc' = [apc EXCEPT ![a] = "idle"]
       \/ /\ data = <<>>
          /\ apc' = [apc EXCEPT ![a] = "waiting"]
          /\ UNCHANGED <<data, last, listeners, notified>>
    /\ UNCHANGED <<pushed, tpc, op>>

\* The awaited listener completes and is gone; back to the head of the loop.
Resume(a) ==
    /\ apc[a] = "waiting" /\ a \in notified
    /\ listeners' = Without(listeners, a)
    /\ notified' = notified \ {a}
    /\ apc' = [apc EXCEPT ![a] = "listen"]
    /\ UNCHANGED <<data, pushed, last, tpc, op>>

\* The future is dropped at its await (a select! took another branch).
Cancel(a) ==
    /\ apc[a] = "waiting"
    /\ DropListener(a)
    /\ apc' = [apc EXCEPT ![a] = "idle"]
    /\ UNCHANGED <<data, pushed, last, tpc, op>>

-----------------------------------------------------------------------------
TaskStep(a) == Listen(a) \/ Check(a) \/ Resume(a)

QueueNext ==
    \/ Push
    \/ \E t \in Threads : TakeItem(t) \/ Wake(t) \/ Timeout(t)
                            \/ Sleep(t, "recv") \/ Sleep(t, "recv_timeout")
    \/ \E a \in Tasks : RecvAsync(a) \/ TaskStep(a) \/ Cancel(a)

QueueSpec == QueueInit /\ [][QueueNext]_queueVars

\* A woken thread and a task that can run do run.  Nothing is assumed of
\* publishers, of new calls, of timeouts or of cancelled futures.
FairQueueSpec ==
    /\ QueueSpec
    /\ \A t \in Threads : WF_queueVars(Wake(t))
    /\ \A a \in Tasks : WF_queueVars(TaskStep(a))

-----------------------------------------------------------------------------
(* Properties.                                                             *)

\* Types: threads and tasks are at a step of recv, recv_timeout or recv_async.
QueueTypeOK ==
    /\ data \in Seq(Nat) /\ pushed \in Nat /\ last \in Nat
    /\ tpc \in [Threads -> {"idle", "asleep", "woken"}]
    /\ op \in [Threads -> {"recv", "recv_timeout"}]
    /\ apc \in [Tasks -> {"idle", "listen", "check", "waiting"}]
    /\ listeners \in Seq(Tasks) /\ notified \in SUBSET Tasks

\* "Maintains the most recent N elements": the queue is always a run of the
\* newest items in push order, and every item handed out is older than all of
\* them, so that nothing is delivered twice or out of order.
KeepsMostRecent ==
    /\ QueueTypeOK
    /\ Len(data) <= Capacity
    /\ \A i \in 1 .. Len(data) : data[i] = pushed - Len(data) + i
    /\ last + Len(data) <= pushed

\* No thread sleeps on an item that nobody was woken for, however receivers
\* steal items from each other, time out or overwrite the queue.
SleepersCovered == Asleep # {} => Len(data) <= Cardinality(Woken)

\* "Async receive - waits until an item is available" (queue.rs): a task that
\* waits while the queue holds an item wakes up, or the queue runs empty. (With
\* one task: a second one can miss its item, see push.)
AsyncServed ==
    \A a \in Tasks :
        (apc[a] = "waiting" /\ data # <<>>) ~> (apc[a] # "waiting" \/ data = <<>>)
=============================================================================
