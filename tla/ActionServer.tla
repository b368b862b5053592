---------------------------- MODULE ActionServer ----------------------------
(***************************************************************************)
(* The action server of hiroz: the goal manager (action/state.rs), the     *)
(* goal handles and the cancel dispatcher (action/server.rs) and the       *)
(* driver loop (action/driver.rs).                                         *)
(*                                                                         *)
(* The server starts in "polling" mode: user threads receive goals and     *)
(* move their handles along, and a background task ("legacy") answers      *)
(* get_result queries.  with_handler switches it to "driver" mode: one     *)
(* loop receives every query and spawns one task per goal.  Every step     *)
(* below is one critical section (the goal manager's mutex, the routes     *)
(* mutex, a queue's mutex) or one message that leaves the server.          *)
(*                                                                         *)
(* Abstractions.  A query is a model value, Target says which goal it is   *)
(* for.  Goal ids are fresh UUIDs (GoalId::new), so a goal is requested    *)
(* once.  Time is abstract: an entry that has an expires_at may be found   *)
(* expired at any later moment.  Payloads, feedback and logging are left   *)
(* out.                                                                    *)
(***************************************************************************)
EXTENDS Naturals, Sequences

CONSTANTS
    Goals,      \* the goal ids clients use
    Cancels,    \* cancel_goal queries
    Results,    \* get_result queries
    ZeroGoal,   \* the zero UUID: "cancel all"
    Target,     \* the goal id carried by each cancel and result query
    GoalTimeout,\* with_goal_timeout was called (goal_timeout is Some)
    Outcomes,   \* the terminal statuses the goal handlers use
    Depth,      \* capacity of a service queue (QoS KeepLast depth)
    ChanCap     \* capacity of a per-goal cancel channel (4 in the code)

Expirer == "expirer"            \* the thread that runs expire_goals
Publishers == Goals \cup {Expirer}
Queries == Goals \cup Cancels \cup Results

\* GoalStatus values a goal can be stored or published with; "absent" stands
\* for a goal id that has no entry.
Terminal == {"succeeded", "aborted", "canceled"}
Status == {"absent", "accepted", "executing"} \cup Terminal

ASSUME ServerAssumption ==
    /\ GoalTimeout \in BOOLEAN
    /\ Outcomes \subseteq Terminal
    /\ ZeroGoal \notin Goals
    /\ Expirer \notin Goals
    /\ Goals \cap Cancels = {} /\ Goals \cap Results = {} /\ Cancels \cap Results = {}
    /\ Target \in [Cancels \cup Results -> Goals \cup {ZeroGoal}]
    /\ \A r \in Results : Target[r] \in Goals
    /\ Depth \in Nat \ {0}
    /\ ChanCap \in Nat \ {0}

VARIABLES
    mode,          \* "polling", "driver", "stopping" (aborting tasks), "stopped"
    shutdown,      \* the shutdown token is cancelled (last server handle dropped)
    legacy,        \* the background result task is alive
    goalQ, cancelQ, resultQ,   \* the queues of the three services
    goals,         \* GoalManagerInternal.goals
    resultFutures, \* GoalManagerInternal.result_futures
    routes,        \* CancelDispatcher.routes
    chan,          \* the per-goal cancel channel of each handle
    flag,          \* the cancel_flag shared by the handle and the goal's entry
    pc,            \* where each goal's handle is
    outcome,       \* the status a handle was terminated with
    toNotify,      \* futures_to_notify, local to terminate
    publishing,    \* progress of each thread through publish_status
    snapshot,      \* the status list a thread has read and not yet published
    statusTopic,   \* the last status message published
    sent,          \* the value sent on the oneshot of each result query
    driverWait,    \* the result query whose oneshot the driver loop awaits
    tasks,         \* the JoinSet of goal tasks
    answer         \* the reply each query received

vars == <<mode, shutdown, legacy, goalQ, cancelQ, resultQ, goals,
          resultFutures, routes, chan, flag, pc, outcome, toNotify, publishing,
          snapshot, statusTopic, sent, driverWait, tasks, answer>>

queueVars   == <<goalQ, cancelQ, resultQ>>
serverVars  == <<mode, shutdown, legacy, driverWait, tasks>>
cancelVars  == <<routes, chan, flag>>
resultVars  == <<resultFutures, toNotify, sent>>
publishVars == <<publishing, snapshot, statusTopic>>

NoStatus == [g \in Goals |-> "absent"]

\* BoundedQueue::push: the oldest element makes room.
Push(q, x) == IF Len(q) >= Depth THEN Append(Tail(q), x) ELSE Append(q, x)

\* The answers after the query pushed out of a full queue, if any, was dropped.
Evicted(q) == IF Len(q) >= Depth THEN [answer EXCEPT ![Head(q)] = "dropped"]
                                 ELSE answer

PCs == {"unsent", "queued", "requested", "replying", "accepted", "registered",
        "executing", "draining", "deregistered", "notifying", "done",
        "rejected", "dropped"}

\* A query is open ("none"), was dropped without a reply, or got one: the goal
\* response, the cancel response (return_code, and whether goals_canceling
\* lists the goal), or the status of a result.  A cancel that the user received
\* is in the user's hands first, with what request_cancel returned.
Answers == Terminal \cup {"none", "dropped", "accepted", "rejected",
                         "received", "flagged", "unflagged",
                         "code0_listed", "code1_listed", "code1_empty"}

\* The handle's cancel_rx exists, so a try_send on its channel can succeed.
ReceiverAlive(g) == pc[g] \in {"registered", "executing", "draining", "deregistered", "notifying"}

\* The code that owns the handle may make its next call on it.
Ready(g, at) == pc[g] = at /\ publishing[g] = "idle"

Init ==
    /\ mode = "polling" /\ shutdown = FALSE /\ legacy = TRUE
    /\ goalQ = <<>> /\ cancelQ = <<>> /\ resultQ = <<>>
    /\ goals = NoStatus
    /\ resultFutures = [g \in Goals |-> {}]
    /\ routes = {}
    /\ chan = [g \in Goals |-> <<>>]
    /\ flag = [g \in Goals |-> FALSE]
    /\ pc = [g \in Goals |-> "unsent"]
    /\ outcome = NoStatus
    /\ toNotify = [g \in Goals |-> {}]
    /\ publishing = [p \in Publishers |-> "idle"]
    /\ snapshot = [p \in Publishers |-> NoStatus]
    /\ statusTopic = NoStatus
    /\ sent = [r \in Results |-> "none"]
    /\ driverWait = {}
    /\ tasks = {}
    /\ answer = [q \in Queries |-> "none"]

-----------------------------------------------------------------------------
(* Clients: queries arrive in the service queues while the queryables are  *)
(* declared, that is while something holds the inner server: a handle, the *)
(* driver, or the background result task between two queries.              *)

ServerUp ==
    legacy \/ mode \in {"driver", "stopping"} \/ (mode = "polling" /\ ~shutdown)

SendGoal(g) ==
    /\ pc[g] = "unsent" /\ ServerUp
    /\ goalQ' = Push(goalQ, g)
    /\ pc' = [h \in Goals |-> IF h = g THEN "queued"
                              ELSE IF Len(goalQ) >= Depth /\ h = Head(goalQ)
                                   THEN "dropped" ELSE pc[h]]
    /\ answer' = Evicted(goalQ)
    /\ UNCHANGED <<cancelQ, resultQ, goals, outcome, serverVars, cancelVars,
                   resultVars, publishVars>>

InQueue(q, x) == \E i \in DOMAIN q : q[i] = x

\* A client cancels a goal whose request it has sent, or all goals.
SendCancel(c) ==
    /\ answer[c] = "none" /\ ServerUp
    /\ Target[c] \in Goals => pc[Target[c]] # "unsent"
    /\ ~InQueue(cancelQ, c) /\ \A g \in Goals : ~InQueue(chan[g], c)
    /\ cancelQ' = Push(cancelQ, c)
    /\ answer' = Evicted(cancelQ)
    /\ UNCHANGED <<goalQ, resultQ, goals, pc, outcome, serverVars, cancelVars,
                   resultVars, publishVars>>

\* A client asks for the result of a goal whose acceptance it has seen.
SendResult(r) ==
    /\ answer[r] = "none" /\ sent[r] = "none" /\ ServerUp
    /\ answer[Target[r]] = "accepted"
    /\ ~InQueue(resultQ, r)
    /\ \A g \in Goals : r \notin resultFutures[g] \cup toNotify[g]
    /\ resultQ' = Push(resultQ, r)
    /\ answer' = Evicted(resultQ)
    /\ UNCHANGED <<goalQ, cancelQ, goals, pc, outcome, serverVars, cancelVars,
                   resultVars, publishVars>>

-----------------------------------------------------------------------------
(* Goal handles.                                                           *)

\* recv_goal, called by the user in polling mode.
RecvGoal ==
    /\ mode = "polling" /\ ~shutdown /\ goalQ # <<>>
    /\ goalQ' = Tail(goalQ)
    /\ pc' = [pc EXCEPT ![Head(goalQ)] = "requested"]
    /\ UNCHANGED <<cancelQ, resultQ, goals, outcome, answer, serverVars,
                   cancelVars, resultVars, publishVars>>

\* Mutant: the handle's type-state is stored instead of the goal status.
AcceptStoresRequested(g) ==
    /\ Ready(g, "requested")
    /\ goals' = [goals EXCEPT ![g] = "requested"]
    /\ pc' = [pc EXCEPT ![g] = "replying"]
    /\ UNCHANGED <<outcome, answer, queueVars, serverVars, cancelVars,
                   resultVars, publishVars>>

\* Mutant: the reply leaves before the goal is inserted.
AcceptRepliesFirst(g) ==
    /\ Ready(g, "requested")
    /\ answer' = [answer EXCEPT ![g] = "accepted"]
    /\ pc' = [pc EXCEPT ![g] = "replying"]
    /\ UNCHANGED <<goals, outcome, queueVars, serverVars, cancelVars,
                   resultVars, publishVars>>

\* accept, first part: the entry is inserted before the reply is sent.
Accept(g) ==
    /\ Ready(g, "requested")
    /\ goals' = [goals EXCEPT ![g] = "accepted"]
    /\ pc' = [pc EXCEPT ![g] = "replying"]
    /\ UNCHANGED <<outcome, answer, queueVars, serverVars, cancelVars,
                   resultVars, publishVars>>

\* accept, second part: the reply, then publish_status begins.
AcceptReply(g) ==
    /\ Ready(g, "replying")
    /\ answer' = [answer EXCEPT ![g] = "accepted"]
    /\ pc' = [pc EXCEPT ![g] = "accepted"]
    /\ publishing' = [publishing EXCEPT ![g] = "snapshot"]
    /\ UNCHANGED <<goals, outcome, snapshot, statusTopic, queueVars, serverVars,
                   cancelVars, resultVars>>

\* reject: driver mode accepts every goal.
Reject(g) ==
    /\ Ready(g, "requested") /\ g \notin tasks
    /\ answer' = [answer EXCEPT ![g] = "rejected"]
    /\ pc' = [pc EXCEPT ![g] = "rejected"]
    /\ UNCHANGED <<goals, outcome, queueVars, serverVars, cancelVars, resultVars,
                   publishVars>>

\* execute, first part: CancelDispatcher::register.
Register(g) ==
    /\ Ready(g, "accepted")
    /\ routes' = routes \cup {g}
    /\ pc' = [pc EXCEPT ![g] = "registered"]
    /\ UNCHANGED <<goals, outcome, answer, chan, flag, queueVars, serverVars,
                   resultVars, publishVars>>

\* execute, second part: the Executing entry with a fresh cancel flag.
Execute(g) ==
    /\ Ready(g, "registered")
    /\ goals' = [goals EXCEPT ![g] = "executing"]
    /\ flag' = [flag EXCEPT ![g] = FALSE]
    /\ pc' = [pc EXCEPT ![g] = "executing"]
    /\ publishing' = [publishing EXCEPT ![g] = "snapshot"]
    /\ UNCHANGED <<outcome, answer, routes, chan, snapshot, statusTopic,
                   queueVars, serverVars, resultVars>>

\* publish_status: the list is read under the lock and published after it.
Snapshot(p) ==
    /\ publishing[p] = "snapshot"
    /\ snapshot' = [snapshot EXCEPT ![p] = goals]
    /\ publishing' = [publishing EXCEPT ![p] = "publish"]
    /\ UNCHANGED <<goals, pc, outcome, answer, statusTopic, queueVars, serverVars,
                   cancelVars, resultVars>>

Publish(p) ==
    /\ publishing[p] = "publish"
    /\ statusTopic' = snapshot[p]
    /\ snapshot' = [snapshot EXCEPT ![p] = NoStatus]
    /\ publishing' = [publishing EXCEPT ![p] = "idle"]
    /\ UNCHANGED <<goals, pc, outcome, answer, queueVars, serverVars, cancelVars,
                   resultVars>>

\* Mutant: the waiting futures are completed before the result is stored.
TerminateNotifiesFirst(g, s) ==
    /\ Ready(g, "executing")
    /\ routes' = routes \ {g}
    /\ outcome' = [outcome EXCEPT ![g] = s]
    /\ sent' = [r \in Results |-> IF r \in resultFutures[g] THEN s ELSE sent[r]]
    /\ pc' = [pc EXCEPT ![g] = "deregistered"]
    /\ UNCHANGED <<goals, answer, chan, flag, toNotify, resultFutures, queueVars,
                   serverVars, publishVars>>

\* terminate (succeed, abort, canceled), first part: deregister the route.
Terminate(g, s) ==
    /\ Ready(g, "executing")
    /\ routes' = routes \ {g}
    /\ outcome' = [outcome EXCEPT ![g] = s]
    /\ pc' = [pc EXCEPT ![g] = "deregistered"]
    /\ UNCHANGED <<goals, answer, chan, flag, queueVars, serverVars, resultVars,
                   publishVars>>

\* Mutant: the futures are left for a later critical section.
TerminateLeavesFutures(g) ==
    /\ Ready(g, "deregistered")
    /\ goals' = [goals EXCEPT ![g] = outcome[g]]
    /\ pc' = [pc EXCEPT ![g] = "notifying"]
    /\ UNCHANGED <<outcome, answer, resultVars, queueVars, serverVars, cancelVars,
                   publishVars>>

\* terminate, second part: one critical section stores the Terminated entry
\* and takes the waiting result futures.
TerminateInsert(g) ==
    /\ Ready(g, "deregistered")
    /\ goals' = [goals EXCEPT ![g] = outcome[g]]
    /\ toNotify' = [toNotify EXCEPT ![g] = resultFutures[g]]
    /\ resultFutures' = [resultFutures EXCEPT ![g] = {}]
    /\ pc' = [pc EXCEPT ![g] = "notifying"]
    /\ UNCHANGED <<outcome, answer, sent, queueVars, serverVars, cancelVars,
                   publishVars>>

\* The answers once the cancel queries left in g's channel are dropped with it.
ChannelDropped(g) ==
    [q \in Queries |-> IF InQueue(chan[g], q) THEN "dropped" ELSE answer[q]]

\* Mutant: only one of the waiting futures is completed.
NotifyOne(g) ==
    /\ Ready(g, "notifying")
    /\ sent' = [r \in Results |-> IF toNotify[g] # {} /\ r = CHOOSE x \in toNotify[g] : TRUE
                                  THEN outcome[g] ELSE sent[r]]
    /\ toNotify' = [toNotify EXCEPT ![g] = {}]
    /\ publishing' = [publishing EXCEPT ![g] = "snapshot"]
    /\ answer' = ChannelDropped(g)
    /\ chan' = [chan EXCEPT ![g] = <<>>]
    /\ pc' = [pc EXCEPT ![g] = "done"]
    /\ UNCHANGED <<goals, outcome, resultFutures, routes, flag, snapshot,
                   statusTopic, queueVars, serverVars>>

\* terminate, last part: the futures are completed, publish_status begins and
\* the handle goes out of scope with its channel.
TerminateNotify(g) ==
    /\ Ready(g, "notifying")
    /\ sent' = [r \in Results |-> IF r \in toNotify[g] THEN outcome[g] ELSE sent[r]]
    /\ toNotify' = [toNotify EXCEPT ![g] = {}]
    /\ publishing' = [publishing EXCEPT ![g] = "snapshot"]
    /\ answer' = ChannelDropped(g)
    /\ chan' = [chan EXCEPT ![g] = <<>>]
    /\ pc' = [pc EXCEPT ![g] = "done"]
    /\ UNCHANGED <<goals, outcome, resultFutures, routes, flag, snapshot,
                   statusTopic, queueVars, serverVars>>

\* The owner drops a handle without terminating it: early return, panic, or
\* (in the driver) a handler that returns.  Entry and route stay behind.
DropHandle(g) ==
    /\ \/ Ready(g, "requested") /\ g \notin tasks
       \/ Ready(g, "accepted") /\ g \notin tasks
       \/ Ready(g, "executing")
    /\ pc' = [pc EXCEPT ![g] = "dropped"]
    /\ answer' = [q \in Queries |-> IF q = g /\ answer[g] = "none" THEN "dropped"
                                    ELSE ChannelDropped(g)[q]]
    /\ chan' = [chan EXCEPT ![g] = <<>>]
    /\ UNCHANGED <<goals, outcome, routes, flag, queueVars, serverVars,
                   resultVars, publishVars>>

-----------------------------------------------------------------------------
(* Cancellation.                                                           *)

\* Mutant: a goal that is accepted but not executing can be canceled too.
CanCancelAccepted(g) == g \in Goals /\ goals[g] \in {"accepted", "executing"}

\* request_cancel, and the same lookup in the driver: only an Executing entry
\* has a flag to set.
CanCancel(g) == g \in Goals /\ goals[g] = "executing"

SetFlag(g) == IF CanCancel(g) THEN [flag EXCEPT ![g] = TRUE] ELSE flag

\* try_process_cancel: nothing happens when the flag is already set; otherwise
\* the shared queue is drained.
TryProcessCancel(g) ==
    /\ Ready(g, "executing") /\ ~flag[g]
    /\ pc' = [pc EXCEPT ![g] = "draining"]
    /\ UNCHANGED <<goals, outcome, answer, queueVars, serverVars, cancelVars,
                   resultVars, publishVars>>

\* The channel takes the query c.
Routable(c) ==
    /\ Target[c] \in routes
    /\ ReceiverAlive(Target[c])
    /\ Len(chan[Target[c]]) < ChanCap

\* Mutant: the handle that drains drops the queries of other goals.
DrainDropsOthers(g) ==
    /\ pc[g] = "draining" /\ cancelQ # <<>>
    /\ LET c == Head(cancelQ) IN
         IF Target[c] = g /\ Routable(c)
         THEN /\ chan' = [chan EXCEPT ![g] = Append(@, c)]
              /\ UNCHANGED answer
         ELSE /\ answer' = [answer EXCEPT ![c] = "dropped"]
              /\ UNCHANGED chan
    /\ cancelQ' = Tail(cancelQ)
    /\ UNCHANGED <<goals, pc, outcome, goalQ, resultQ, routes, flag, serverVars,
                   resultVars, publishVars>>

\* CancelDispatcher::drain, one query: route it to its goal or drop it.
DrainOne(g) ==
    /\ pc[g] = "draining" /\ cancelQ # <<>>
    /\ LET c == Head(cancelQ) IN
         IF Routable(c)
         THEN /\ chan' = [chan EXCEPT ![Target[c]] = Append(@, c)]
              /\ UNCHANGED answer
         ELSE /\ answer' = [answer EXCEPT ![c] = "dropped"]
              /\ UNCHANGED chan
    /\ cancelQ' = Tail(cancelQ)
    /\ UNCHANGED <<goals, pc, outcome, goalQ, resultQ, routes, flag, serverVars,
                   resultVars, publishVars>>

\* The rest of try_process_cancel, once the queue was found empty: take one
\* query from the goal's own channel, set the flag, reply return_code 1 with
\* the goal listed in goals_canceling.
TakeCancel(g) ==
    /\ pc[g] = "draining" /\ cancelQ = <<>>
    /\ pc' = [pc EXCEPT ![g] = "executing"]
    /\ IF chan[g] = <<>>
       THEN UNCHANGED <<chan, flag, answer>>
       ELSE /\ chan' = [chan EXCEPT ![g] = Tail(@)]
            /\ flag' = SetFlag(g)
            /\ answer' = [answer EXCEPT ![Head(chan[g])] = "code1_listed"]
    /\ UNCHANGED <<goals, outcome, routes, queueVars, serverVars, resultVars,
                   publishVars>>

\* A user in polling mode takes a query with recv_cancel,
RecvCancel ==
    /\ mode = "polling" /\ ~shutdown /\ cancelQ # <<>>
    /\ answer' = [answer EXCEPT ![Head(cancelQ)] = "received"]
    /\ cancelQ' = Tail(cancelQ)
    /\ UNCHANGED <<goals, pc, outcome, goalQ, resultQ, serverVars, cancelVars,
                   resultVars, publishVars>>

\* calls request_cancel, which says whether it set the flag,
RequestCancel(c) ==
    /\ ~shutdown /\ answer[c] = "received"
    /\ flag' = SetFlag(Target[c])
    /\ answer' = [answer EXCEPT ![c] =
                    IF CanCancel(Target[c]) THEN "flagged" ELSE "unflagged"]
    /\ UNCHANGED <<goals, pc, outcome, routes, chan, queueVars, serverVars,
                   resultVars, publishVars>>

\* and replies accordingly with send_cancel_response_low.
SendCancelResponse(c) ==
    /\ ~shutdown /\ answer[c] \in {"flagged", "unflagged"}
    /\ answer' = [answer EXCEPT ![c] =
                    IF answer[c] = "flagged" THEN "code0_listed" ELSE "code1_empty"]
    /\ UNCHANGED <<goals, pc, outcome, queueVars, serverVars, cancelVars,
                   resultVars, publishVars>>

-----------------------------------------------------------------------------
(* Results.                                                                *)

\* handle_result_requests_legacy_inner: answer at once, or register a oneshot
\* and leave the wait to a spawned task.  An unknown goal is waited for too.
LegacyResult ==
    /\ legacy /\ resultQ # <<>>
    /\ LET r == Head(resultQ)
           g == Target[r]
       IN IF goals[g] \in Terminal
          THEN /\ answer' = [answer EXCEPT ![r] = goals[g]]
               /\ UNCHANGED resultFutures
          ELSE /\ resultFutures' = [resultFutures EXCEPT ![g] = @ \cup {r}]
               /\ UNCHANGED answer
    /\ resultQ' = Tail(resultQ)
    /\ UNCHANGED <<goals, pc, outcome, goalQ, cancelQ, toNotify, sent, serverVars,
                   cancelVars, publishVars>>

\* The spawned task of a result query wakes up and replies.
ReplyResult(r) ==
    /\ sent[r] # "none" /\ answer[r] = "none" /\ r \notin driverWait
    /\ answer' = [answer EXCEPT ![r] = sent[r]]
    /\ UNCHANGED <<goals, pc, outcome, queueVars, serverVars, cancelVars,
                   resultVars, publishVars>>

\* The select! of the background task sees one of its tokens cancelled.
LegacyStop ==
    /\ legacy /\ (shutdown \/ mode # "polling")
    /\ legacy' = FALSE
    /\ UNCHANGED <<mode, shutdown, driverWait, tasks, goals, pc,
                   outcome, answer, queueVars, cancelVars, resultVars, publishVars>>

-----------------------------------------------------------------------------
(* The driver loop.  It is one task: it takes its next branch only when it *)
(* is neither awaiting a result nor inside expire_goals.                   *)

WithHandler ==
    /\ mode = "polling" /\ ~shutdown
    /\ mode' = "driver"
    /\ UNCHANGED <<shutdown, legacy, driverWait, tasks, goals, pc,
                   outcome, answer, queueVars, cancelVars, resultVars, publishVars>>

DriverIdle == mode = "driver" /\ driverWait = {} /\ publishing[Expirer] = "idle"

\* Branch 4: the goal task is spawned; accept and execute follow in it.
DriverGoal ==
    /\ DriverIdle /\ goalQ # <<>>
    /\ goalQ' = Tail(goalQ)
    /\ pc' = [pc EXCEPT ![Head(goalQ)] = "requested"]
    /\ tasks' = tasks \cup {Head(goalQ)}
    /\ UNCHANGED <<mode, shutdown, legacy, driverWait, cancelQ,
                   resultQ, goals, outcome, answer, cancelVars, resultVars,
                   publishVars>>

\* Branch 5: handle_cancel_request.
DriverCancel ==
    /\ DriverIdle /\ cancelQ # <<>>
    /\ LET c == Head(cancelQ) IN
         /\ flag' = SetFlag(Target[c])
         /\ answer' = [answer EXCEPT ![c] =
                         IF CanCancel(Target[c]) THEN "code0_listed" ELSE "code1_empty"]
    /\ cancelQ' = Tail(cancelQ)
    /\ UNCHANGED <<goals, pc, outcome, goalQ, resultQ, routes, chan, serverVars,
                   resultVars, publishVars>>

\* Branch 6: handle_result_request up to its await; an unknown goal gets no
\* response.
DriverResult ==
    /\ DriverIdle /\ resultQ # <<>>
    /\ LET r == Head(resultQ)
           g == Target[r]
       IN \/ /\ goals[g] \in Terminal
             /\ answer' = [answer EXCEPT ![r] = goals[g]]
             /\ UNCHANGED <<resultFutures, driverWait>>
          \/ /\ goals[g] = "absent"
             /\ answer' = [answer EXCEPT ![r] = "dropped"]
             /\ UNCHANGED <<resultFutures, driverWait>>
          \/ /\ goals[g] \in {"accepted", "executing"}
             /\ resultFutures' = [resultFutures EXCEPT ![g] = @ \cup {r}]
             /\ driverWait' = {r}
             /\ UNCHANGED answer
    /\ resultQ' = Tail(resultQ)
    /\ UNCHANGED <<mode, shutdown, legacy, tasks, goals, pc, outcome,
                   goalQ, cancelQ, toNotify, sent, cancelVars, publishVars>>

\* handle_result_request resumes: the oneshot was completed.
DriverResultReply ==
    /\ mode = "driver"
    /\ \E r \in driverWait :
         /\ sent[r] # "none"
         /\ answer' = [answer EXCEPT ![r] = sent[r]]
         /\ driverWait' = driverWait \ {r}
    /\ UNCHANGED <<mode, shutdown, legacy, tasks, goals, pc, outcome,
                   queueVars, cancelVars, resultVars, publishVars>>

Finished(g) == pc[g] \in {"done", "rejected", "dropped"} /\ publishing[g] = "idle"

\* Branch 2, and the join after the loop: a finished task leaves the JoinSet.
Reap(g) ==
    /\ DriverIdle \/ mode = "stopping"
    /\ g \in tasks /\ Finished(g)
    /\ tasks' = tasks \ {g}
    /\ UNCHANGED <<mode, shutdown, legacy, driverWait, goals, pc,
                   outcome, answer, queueVars, cancelVars, resultVars, publishVars>>

\* Branch 1: shutdown; abort_all reaches every task.
DriverShutdown ==
    /\ DriverIdle /\ shutdown
    /\ mode' = "stopping"
    /\ UNCHANGED <<shutdown, legacy, driverWait, tasks, goals, pc,
                   outcome, answer, queueVars, cancelVars, resultVars, publishVars>>

\* Mutant: only tasks that have not started are aborted.
AbortUnstarted(g) ==
    /\ mode = "stopping" /\ g \in tasks /\ Ready(g, "requested")
    /\ pc' = [pc EXCEPT ![g] = "dropped"]
    /\ answer' = [answer EXCEPT ![g] = "dropped"]
    /\ UNCHANGED <<goals, outcome, queueVars, serverVars, cancelVars,
                   resultVars, publishVars>>

\* An aborted task ends where it awaits: before its first poll or in the
\* user's handler.  accept, execute and terminate have no await in them.
AbortTask(g) ==
    /\ mode = "stopping" /\ g \in tasks
    /\ Ready(g, "requested") \/ Ready(g, "executing")
    /\ pc' = [pc EXCEPT ![g] = "dropped"]
    /\ answer' = [q \in Queries |-> IF q = g /\ answer[g] = "none" THEN "dropped"
                                    ELSE ChannelDropped(g)[q]]
    /\ chan' = [chan EXCEPT ![g] = <<>>]
    /\ UNCHANGED <<goals, outcome, routes, flag, queueVars, serverVars,
                   resultVars, publishVars>>

DriverExit ==
    /\ mode = "stopping" /\ tasks = {}
    /\ mode' = "stopped"
    /\ UNCHANGED <<shutdown, legacy, driverWait, tasks, goals, pc,
                   outcome, answer, queueVars, cancelVars, resultVars, publishVars>>

-----------------------------------------------------------------------------
(* Expiry and shutdown.                                                    *)

\* Mutant: every entry expires, whether or not it has a deadline.
ExpirableAlways == {g \in Goals : goals[g] # "absent"}

\* The entries that carry an expires_at: every terminated goal, and the
\* others when a goal timeout is configured.
Expirable == {g \in Goals : goals[g] \in Terminal
                              \/ (goals[g] # "absent" /\ GoalTimeout)}

\* expire_goals: the user calls it in polling mode, branch 3 of the driver
\* does in driver mode.  Which deadlines have passed is the clock's choice.
ExpireGoals ==
    /\ publishing[Expirer] = "idle"
    /\ \/ mode = "polling" /\ ~shutdown
       \/ DriverIdle
    /\ \E expired \in SUBSET Expirable :
         /\ expired # {}
         /\ goals' = [g \in Goals |-> IF g \in expired THEN "absent" ELSE goals[g]]
    /\ publishing' = [publishing EXCEPT ![Expirer] = "snapshot"]
    /\ UNCHANGED <<pc, outcome, answer, snapshot, statusTopic, queueVars,
                   serverVars, cancelVars, resultVars>>

\* The last ZActionServer handle is dropped.  A goal handle of polling mode
\* holds one; the driver's tasks hold a dummy guard.
DropServer ==
    /\ ~shutdown
    /\ publishing[Expirer] = "idle" \/ mode = "driver"
    /\ \A g \in Goals \ tasks : Finished(g) \/ pc[g] \in {"unsent", "queued"}
    /\ shutdown' = TRUE
    /\ UNCHANGED <<mode, legacy, driverWait, tasks, goals, pc, outcome,
                   answer, queueVars, cancelVars, resultVars, publishVars>>

-----------------------------------------------------------------------------
ClientStep ==
    \/ \E g \in Goals : SendGoal(g)
    \/ \E c \in Cancels : SendCancel(c)
    \/ \E r \in Results : SendResult(r)

\* Steps the goal's owner takes without waiting for anything.
HandleStep(g) ==
    \/ AcceptReply(g) \/ Execute(g) \/ Snapshot(g) \/ Publish(g)
    \/ TerminateInsert(g) \/ TerminateNotify(g)
    \/ DrainOne(g) \/ TakeCancel(g)
    \/ g \in tasks /\ (Accept(g) \/ Register(g))

\* Steps that user code decides on.
UserStep(g) ==
    \/ g \notin tasks /\ (Accept(g) \/ Register(g))
    \/ Reject(g) \/ TryProcessCancel(g) \/ DropHandle(g)
    \/ \E s \in Outcomes : Terminate(g, s)

DriverStep ==
    \/ DriverGoal \/ DriverCancel \/ DriverResult \/ DriverResultReply
    \/ DriverShutdown \/ DriverExit
    \/ \E g \in Goals : Reap(g)

ServerStep ==
    \/ RecvGoal \/ RecvCancel \/ LegacyResult \/ LegacyStop \/ WithHandler
    \/ ExpireGoals \/ Snapshot(Expirer) \/ Publish(Expirer) \/ DropServer
    \/ \E c \in Cancels : RequestCancel(c) \/ SendCancelResponse(c)
    \/ \E r \in Results : ReplyResult(r)
    \/ \E g \in Goals : AbortTask(g)

Next ==
    \/ ClientStep \/ ServerStep \/ DriverStep
    \/ \E g \in Goals : HandleStep(g) \/ UserStep(g)

Spec == Init /\ [][Next]_vars

(***************************************************************************)
(* Threads and tokio tasks that can run do run.  select! picks among its   *)
(* ready branches at random, so a branch that is ready again and again is  *)
(* taken: strong fairness for the driver's branches.  Nothing is assumed   *)
(* of clients or of user code, except that a handler awaits again and      *)
(* again, which is where an abort takes hold: it may poll for cancels      *)
(* forever and never terminate its goal.                                   *)
(***************************************************************************)
Fairness ==
    /\ \A g \in Goals : WF_vars(HandleStep(g)) /\ SF_vars(AbortTask(g))
    /\ \A r \in Results : WF_vars(ReplyResult(r))
    /\ WF_vars(Snapshot(Expirer)) /\ WF_vars(Publish(Expirer))
    /\ SF_vars(LegacyResult) /\ WF_vars(LegacyStop)
    /\ WF_vars(DriverStep)
    /\ SF_vars(DriverShutdown) /\ SF_vars(DriverResult) /\ SF_vars(DriverCancel)

FairSpec == Spec /\ Fairness

-----------------------------------------------------------------------------
(* Properties.                                                             *)

\* Types: goal statuses are those of ServerGoalState, queues hold queries of
\* their own service, and every query has at most one kind of answer.
TypeOK ==
    /\ mode \in {"polling", "driver", "stopping", "stopped"}
    /\ shutdown \in BOOLEAN /\ legacy \in BOOLEAN
    /\ goalQ \in Seq(Goals) /\ cancelQ \in Seq(Cancels) /\ resultQ \in Seq(Results)
    /\ goals \in [Goals -> Status]
    /\ resultFutures \in [Goals -> SUBSET Results]
    /\ routes \in SUBSET Goals
    /\ chan \in [Goals -> Seq(Cancels)]
    /\ flag \in [Goals -> BOOLEAN]
    /\ pc \in [Goals -> PCs]
    /\ outcome \in [Goals -> Status]
    /\ toNotify \in [Goals -> SUBSET Results]
    /\ publishing \in [Publishers -> {"idle", "snapshot", "publish"}]
    /\ snapshot \in [Publishers -> [Goals -> Status]]
    /\ statusTopic \in [Goals -> Status]
    /\ sent \in [Results -> Terminal \cup {"none"}]
    /\ driverWait \in SUBSET Results
    /\ tasks \in SUBSET Goals
    /\ answer \in [Queries -> Answers]

\* No result query waits on a goal whose result is stored: registering a
\* waiter and terminating a goal exclude each other (the modify closures of
\* handle_result_request, its legacy twin and terminate).
NoStrandedWaiter ==
    \A g \in Goals : goals[g] \in Terminal => resultFutures[g] = {}

\* Whatever path a result takes (immediate, oneshot, driver), and whatever
\* expired meanwhile, the client gets the status its goal was terminated with,
\* and never before terminate stored it.
ResultIsOutcome ==
    \A r \in Results : answer[r] \in Terminal =>
        /\ pc[Target[r]] \in {"notifying", "done"}
        /\ answer[r] = outcome[Target[r]]

\* A client that saw its goal accepted finds it known to get_result until the
\* result has been stored (accept inserts before it replies), unless a goal
\* timeout removed the entry.
AcceptedIsKnown ==
    \A g \in Goals : answer[g] = "accepted" /\ goals[g] = "absent" =>
        GoalTimeout \/ pc[g] \in {"notifying", "done"}

\* A cancel reply that lists the goal, or a request_cancel that returned true,
\* means the handle sees the request: always in driver mode, and in polling mode
\* while no goal timeout can remove the entry behind the handle's back.
CancelAckSetsFlag ==
    \A c \in Cancels :
        (\/ answer[c] \in {"flagged", "code0_listed"}
         \/ answer[c] = "code1_listed" /\ ~GoalTimeout)
            => Target[c] \in Goals /\ flag[Target[c]]

\* A drain never loses the cancel of a goal that goes on executing, has its
\* route and room in its channel, whichever goal's handle does the draining.
CancelNotLost ==
    [][\A c \in Cancels :
         LET g == Target[c] IN
           /\ g \in Goals /\ pc[g] \in {"executing", "draining"}
           /\ Len(chan[g]) < ChanCap
           /\ Len(cancelQ') < Len(cancelQ)
           /\ answer[c] = "none"
           => answer'[c] # "dropped"]_vars

Rank == [absent |-> 0, accepted |-> 1, executing |-> 2,
         succeeded |-> 3, aborted |-> 3, canceled |-> 3]

\* A goal's entry only moves forward; a terminal status is final until it
\* expires; only the goal timeout can make an entry vanish earlier.
GoalProgress ==
    [][\A g \in Goals : goals'[g] # goals[g] =>
         \/ Rank[goals'[g]] > Rank[goals[g]]
         \/ goals'[g] = "absent" /\ (GoalTimeout \/ goals[g] \in Terminal)]_vars

\* Once a goal has entered terminate, every waiter registered for it is
\* answered: no oneshot is forgotten between the lock and the notification.
WaiterAnswered ==
    \A r \in Results :
        (r \in resultFutures[Target[r]] /\ pc[Target[r]] = "deregistered")
            ~> (answer[r] \in Terminal)

\* The driver that left its loop gets rid of every goal task and ends.
StoppingEnds == (mode = "stopping") ~> (mode = "stopped")

-----------------------------------------------------------------------------
(* The inductive invariant: what the handle's position says of the state.  *)

\* A queued goal is in the queue once and its handle does not exist yet.
QueuedOnce ==
    /\ \A i \in 1 .. Len(goalQ) : pc[goalQ[i]] = "queued"
    /\ \A i, j \in 1 .. Len(goalQ) : goalQ[i] = goalQ[j] => i = j

\* What an entry says about its handle.
EntryMatchesHandle ==
    \A g \in Goals :
        /\ goals[g] \in Terminal => /\ pc[g] \in {"notifying", "done"}
                                   /\ goals[g] = outcome[g]
                                   /\ resultFutures[g] = {}
        /\ goals[g] = "executing" => pc[g] \in {"executing", "draining", "deregistered", "dropped"}
        /\ pc[g] \in {"unsent", "queued", "requested"} => goals[g] = "absent"

\* Without a goal timeout a live handle has its entry.
HandleHasEntry ==
    ~GoalTimeout => \A g \in Goals :
        /\ pc[g] \in {"replying", "accepted", "registered"} => goals[g] = "accepted"
        /\ pc[g] \in {"executing", "draining", "deregistered"} => goals[g] = "executing"
        /\ answer[g] = "accepted" => goals[g] # "absent" \/ pc[g] \in {"notifying", "done"}

\* A waiter waits for its own goal, and a oneshot carries that goal's outcome.
WaiterMatchesGoal ==
    /\ \A g \in Goals : \A r \in resultFutures[g] \cup toNotify[g] : Target[r] = g
    /\ \A g \in Goals : toNotify[g] # {} => pc[g] = "notifying"
    /\ \A r \in Results : sent[r] # "none" =>
          pc[Target[r]] = "done" /\ sent[r] = outcome[Target[r]]

\* A channel holds queries for its own goal; the flag is set only once the
\* goal has executed.
CancelMatchesGoal ==
    /\ \A g \in Goals : \A i \in 1 .. Len(chan[g]) : Target[chan[g][i]] = g
    /\ \A g \in Goals : flag[g] =>
          pc[g] \in {"executing", "draining", "deregistered", "notifying", "done", "dropped"}

Inv ==
    /\ QueuedOnce /\ EntryMatchesHandle /\ HandleHasEntry
    /\ WaiterMatchesGoal /\ ResultIsOutcome
    /\ CancelMatchesGoal /\ CancelAckSetsFlag
=============================================================================
