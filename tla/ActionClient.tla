---------------------------- MODULE ActionClient ----------------------------
(***************************************************************************)
(* The action client: crates/hiroz/src/action/client.rs.                   *)
(*                                                                         *)
(* The client keeps a board of goals with a feedback channel and a status  *)
(* watch for each, filled by two subscriber callbacks, and talks to the    *)
(* server through three service clients. A send_goal, a result and the     *)
(* handle between them belong to the program, which may drop each of them  *)
(* at any await.                                                           *)
(*                                                                         *)
(* The server is seen from outside: it accepts or refuses a goal, moves it *)
(* along the states of an action, and ends it. publish_status              *)
(* (action/server.rs) reads the goals under a lock and publishes after it, *)
(* on several threads. The status topic keeps the order of publication.    *)
(***************************************************************************)
EXTENDS Naturals, Sequences, FiniteSets

CONSTANTS
    Goals,          \* the goals the client sends, once each
    Publishers,     \* threads of the server that publish the status
    MaxPublished,   \* bound: status messages published
    MaxFeedback     \* bound: feedback messages published per goal

ASSUME ActionClientAssumption ==
    /\ IsFiniteSet(Goals) /\ IsFiniteSet(Publishers)
    /\ MaxPublished \in Nat /\ MaxFeedback \in Nat

VARIABLES
    phase,      \* phase[g]: what the program does with the goal
    board,      \* GoalBoard::active_goals
    watch,      \* watch[g]: the value of the status watch
    receiver,   \* receiver[g]: which feedback receiver the sender feeds
    got,        \* got[g]: feedback messages delivered to that receiver
    reply,      \* reply[g]: the answer to send_goal on its way or arrived
    cancel,     \* cancel[g]: a cancel_goal or cancel_all_goals is under way
    server,     \* server[g]: the goal's state on the server
    snapshot,   \* snapshot[t]: a status list read and not yet published
    topic,      \* status messages on their way to the client
    published,  \* status messages published so far
    feedback,   \* feedback[g]: feedback messages published
    arriving,   \* arriving[g]: feedback messages on their way
    overtaken   \* history: a publication overtook an older snapshot

clientVars == <<phase, board, watch, receiver, got>>
serverVars == <<server, snapshot, topic, published, feedback, arriving, overtaken>>
vars == <<phase, board, watch, receiver, got, reply, cancel, server, snapshot, topic,
          published, feedback, arriving, overtaken>>

Terminal == {"Succeeded", "Aborted", "Canceled"}
Statuses == {"Unknown", "Accepted", "Executing", "Canceling"} \cup Terminal
None == [g \in {} |-> "Unknown"]

\* How far a goal has come; a status watch should only move up.
Rank(s) == CASE s = "Unknown" -> 0
             [] s = "Accepted" -> 1
             [] s = "Executing" -> 2
             [] s = "Canceling" -> 3
             [] OTHER -> 4

StatusLists == UNION {[G -> Statuses] : G \in SUBSET Goals}

TypeOK ==
    /\ phase \in [Goals -> {"new", "sending", "active", "awaiting", "done", "failed",
                            "dropped"}]
    /\ board \subseteq Goals
    /\ watch \in [Goals -> Statuses]
    /\ receiver \in [Goals -> 0 .. 2]
    /\ got \in [Goals -> 0 .. MaxFeedback]
    /\ reply \in [Goals -> {"none", "sent", "accepted", "rejected", "error", "result"}]
    /\ cancel \in [Goals -> BOOLEAN]
    /\ server \in [Goals -> Statuses]
    /\ snapshot \in [Publishers -> StatusLists]
    /\ topic \in Seq(StatusLists)
    /\ published \in 0 .. MaxPublished
    /\ feedback \in [Goals -> 0 .. MaxFeedback]
    /\ arriving \in [Goals -> 0 .. MaxFeedback]
    /\ overtaken \in BOOLEAN

Init ==
    /\ phase = [g \in Goals |-> "new"]
    /\ board = {}
    /\ watch = [g \in Goals |-> "Unknown"]
    /\ receiver = [g \in Goals |-> 0]
    /\ got = [g \in Goals |-> 0]
    /\ reply = [g \in Goals |-> "none"]
    /\ cancel = [g \in Goals |-> FALSE]
    /\ server = [g \in Goals |-> "Unknown"]
    /\ snapshot = [t \in Publishers |-> None]
    /\ topic = <<>>
    /\ published = 0
    /\ feedback = [g \in Goals |-> 0]
    /\ arriving = [g \in Goals |-> 0]
    /\ overtaken = FALSE

-----------------------------------------------------------------------------
(* The client's calls *)

\* Mutant: the channels are put on the board after the goal was accepted.
SendGoalUnlisted(g) ==
    /\ phase[g] = "new"
    /\ phase' = [phase EXCEPT ![g] = "sending"]
    /\ receiver' = [receiver EXCEPT ![g] = 1]
    /\ reply' = [reply EXCEPT ![g] = "sent"]
    /\ UNCHANGED <<board, watch, got, cancel, serverVars>>

\* send_goal: the channels are on the board before the request leaves.
SendGoal(g) ==
    /\ phase[g] = "new"
    /\ phase' = [phase EXCEPT ![g] = "sending"]
    /\ board' = board \cup {g}
    /\ receiver' = [receiver EXCEPT ![g] = 1]
    /\ reply' = [reply EXCEPT ![g] = "sent"]
    /\ UNCHANGED <<watch, got, cancel, serverVars>>

\* An error or a rejection takes the goal off the board.
SendGoalFails(g) ==
    /\ phase[g] = "sending" /\ reply[g] \in {"rejected", "error"}
    /\ phase' = [phase EXCEPT ![g] = "failed"]
    /\ board' = board \ {g}
    /\ UNCHANGED <<watch, receiver, got, reply, cancel, serverVars>>

\* Mutant: the answer overwrites a status that overtook it.
SeededAlways(s) == "Accepted"

\* send_if_modified
Seeded(s) == IF s = "Unknown" THEN "Accepted" ELSE s

\* The accepting answer: the status is seeded, and the handle returned.
SendGoalReturns(g) ==
    /\ phase[g] = "sending" /\ reply[g] = "accepted"
    /\ phase' = [phase EXCEPT ![g] = "active"]
    /\ watch' = [watch EXCEPT ![g] = IF g \in board THEN Seeded(@) ELSE @]
    /\ reply' = [reply EXCEPT ![g] = "none"]
    /\ UNCHANGED <<board, receiver, got, cancel, serverVars>>

\* feedback_stream: a new receiver replaces the one in use
FeedbackStream(g) ==
    /\ g \in board /\ receiver[g] = 1
    /\ receiver' = [receiver EXCEPT ![g] = 2]
    /\ got' = [got EXCEPT ![g] = 0]
    /\ UNCHANGED <<phase, board, watch, reply, cancel, serverVars>>

\* cancel_goal for each of gs: one goal, or all of them with the zero id
CancelGoal(gs) ==
    /\ \A g \in gs : phase[g] \in {"active", "awaiting"} /\ ~ cancel[g]
    /\ cancel' = [g \in Goals |-> cancel[g] \/ g \in gs]
    /\ UNCHANGED <<clientVars, reply, serverVars>>

\* result and result_with_timeout: get_result
Result(g) ==
    /\ phase[g] = "active"
    /\ phase' = [phase EXCEPT ![g] = "awaiting"]
    /\ UNCHANGED <<board, watch, receiver, got, reply, cancel, serverVars>>


\* The answer, an error, or the timeout: the goal leaves the board.
ResultReturns(g) ==
    /\ phase[g] = "awaiting" /\ reply[g] \in {"result", "error"}
    /\ phase' = [phase EXCEPT ![g] = "done"]
    /\ board' = board \ {g}
    /\ UNCHANGED <<watch, receiver, got, reply, cancel, serverVars>>

ResultTimesOut(g) ==
    /\ phase[g] = "awaiting" /\ reply[g] = "none"
    /\ phase' = [phase EXCEPT ![g] = "failed"]
    /\ board' = board \ {g}
    /\ UNCHANGED <<watch, receiver, got, reply, cancel, serverVars>>

\* The program drops the send_goal future, the handle or the result future:
\* nothing takes the goal off the board.
Drop(g) ==
    /\ phase[g] \in {"sending", "active", "awaiting"}
    /\ phase' = [phase EXCEPT ![g] = "dropped"]
    /\ UNCHANGED <<board, watch, receiver, got, reply, cancel, serverVars>>

-----------------------------------------------------------------------------
(* The subscriber callbacks *)

\* Every status of the list overwrites the watch of its goal.
StatusArrives ==
    /\ topic # <<>>
    /\ topic' = Tail(topic)
    /\ watch' = [g \in Goals |->
          IF g \in board \cap DOMAIN Head(topic) THEN Head(topic)[g] ELSE watch[g]]
    /\ UNCHANGED <<phase, board, receiver, got, reply, cancel, server, snapshot,
                   published, feedback, arriving, overtaken>>

FeedbackArrives(g) ==
    /\ arriving[g] > 0
    /\ arriving' = [arriving EXCEPT ![g] = @ - 1]
    /\ got' = [got EXCEPT ![g] = IF g \in board THEN @ + 1 ELSE @]
    /\ UNCHANGED <<phase, board, watch, receiver, reply, cancel, server, snapshot,
                   topic, published, feedback, overtaken>>

-----------------------------------------------------------------------------
(* The server, from outside *)

\* accept or reject; the network may lose the answer. A query that waits in the
\* server's queue is answered also after the client's call has ended.
ServerAnswersGoal(g, accepts) ==
    /\ reply[g] \in {"sent", "error"} /\ server[g] = "Unknown"
    /\ \E answer \in IF reply[g] = "error" THEN {"error"}
                      ELSE IF phase[g] # "sending" THEN {"none"}
                      ELSE IF accepts THEN {"accepted", "sent"} ELSE {"rejected"} :
          reply' = [reply EXCEPT ![g] = answer]
    /\ server' = IF accepts THEN [server EXCEPT ![g] = "Accepted"] ELSE server
    /\ UNCHANGED <<clientVars, cancel, snapshot, topic, published, feedback, arriving,
                   overtaken>>

\* The goal call, or the result call, ends without an answer.
GoalCallFails(g) ==
    /\ phase[g] = "sending" /\ reply[g] = "sent"
    /\ reply' = [reply EXCEPT ![g] = "error"]
    /\ UNCHANGED <<clientVars, cancel, serverVars>>

ResultCallFails(g) ==
    /\ phase[g] = "awaiting" /\ reply[g] = "none"
    /\ reply' = [reply EXCEPT ![g] = "error"]
    /\ UNCHANGED <<clientVars, cancel, serverVars>>

\* execute and terminate, where a handler may end its goal in any terminal
\* state, and the cancel of transition_goal_state, which hiroz's own server
\* skips and the servers of other client libraries take.
ServerStep(g, to) ==
    /\ \/ server[g] = "Accepted" /\ to = "Executing"
       \/ server[g] \in {"Executing", "Canceling"} /\ to \in Terminal
       \/ server[g] \in {"Accepted", "Executing"} /\ cancel[g] /\ to = "Canceling"
    /\ server' = [server EXCEPT ![g] = to]
    /\ UNCHANGED <<clientVars, reply, cancel, snapshot, topic, published, feedback,
                   arriving, overtaken>>

ServerAnswersResult(g) ==
    /\ phase[g] = "awaiting" /\ reply[g] = "none" /\ server[g] \in Terminal
    /\ reply' = [reply EXCEPT ![g] = "result"]
    /\ UNCHANGED <<clientVars, cancel, serverVars>>

\* publish_status: the list is read under the lock ...
Snapshot(t) ==
    /\ snapshot[t] = None
    /\ published + Cardinality({u \in Publishers : snapshot[u] # None}) < MaxPublished
    /\ LET known == {g \in Goals : server[g] # "Unknown"}
       IN known # {} /\ snapshot' = [snapshot EXCEPT ![t] = [g \in known |-> server[g]]]
    /\ UNCHANGED <<clientVars, reply, cancel, server, topic, published, feedback,
                   arriving, overtaken>>

\* ... and published after it.
Older(a, b) == \E g \in DOMAIN a \cap DOMAIN b : Rank(a[g]) < Rank(b[g])

Publish(t) ==
    /\ snapshot[t] # None
    /\ topic' = Append(topic, snapshot[t])
    /\ published' = published + 1
    /\ snapshot' = [snapshot EXCEPT ![t] = None]
    /\ overtaken' = (overtaken \/ \E u \in Publishers \ {t} :
                                     snapshot[u] # None /\ Older(snapshot[u], snapshot[t]))
    /\ UNCHANGED <<clientVars, reply, cancel, server, feedback, arriving>>

PublishFeedback(g) ==
    /\ server[g] \in {"Executing", "Canceling"}
    /\ feedback[g] < MaxFeedback
    /\ feedback' = [feedback EXCEPT ![g] = @ + 1]
    /\ arriving' = [arriving EXCEPT ![g] = @ + 1]
    /\ UNCHANGED <<clientVars, reply, cancel, server, snapshot, topic, published,
                   overtaken>>

Next ==
    \/ \E g \in Goals :
          \/ SendGoal(g) \/ SendGoalFails(g) \/ SendGoalReturns(g) \/ FeedbackStream(g)
          \/ CancelGoal({g}) \/ Result(g) \/ ResultReturns(g) \/ ResultTimesOut(g)
          \/ Drop(g) \/ FeedbackArrives(g) \/ GoalCallFails(g) \/ ResultCallFails(g)
          \/ ServerAnswersResult(g) \/ PublishFeedback(g)
          \/ \E accepts \in BOOLEAN : ServerAnswersGoal(g, accepts)
          \/ \E to \in Statuses : ServerStep(g, to)
    \/ CancelGoal({g \in Goals : phase[g] \in {"active", "awaiting"} /\ ~ cancel[g]})
    \/ StatusArrives
    \/ \E t \in Publishers : Snapshot(t) \/ Publish(t)

Spec == Init /\ [][Next]_vars

\* The client's tasks run when they are woken, and the goal call ends, with or
\* without an answer (CallEnds of Service). The querier of the result call has
\* no timeout: it waits for the server, which answers once the goal has ended
\* (WaiterAnswered of ActionServer). That it ends is not assumed, and nothing
\* is of the program or of the topics.
Fairness ==
    \A g \in Goals :
        /\ WF_vars(SendGoalReturns(g)) /\ WF_vars(SendGoalFails(g))
        /\ WF_vars(ResultReturns(g))
        /\ WF_vars(GoalCallFails(g) \/ \E accepts \in BOOLEAN :
                      reply[g] = "sent" /\ ServerAnswersGoal(g, accepts))
        /\ WF_vars(ServerAnswersResult(g))

FairSpec == Spec /\ Fairness

-----------------------------------------------------------------------------
(* Properties *)

\* A goal somebody waits for is on the board from before its request leaves
\* until its result is there, so no feedback that overtakes the answer to
\* send_goal is lost to the handle's receiver. A goal that came to an end, by
\* whatever way, is not, unless the program dropped its future or its handle.
BoardIsLive ==
    /\ TypeOK
    /\ \A g \in Goals :
          /\ phase[g] \in {"sending", "active", "awaiting"} => g \in board
          /\ g \in board => phase[g] \in {"sending", "active", "awaiting", "dropped"}
          /\ phase[g] = "active" => watch[g] # "Unknown"
          /\ g \in board /\ receiver[g] = 1 => got[g] = feedback[g] - arriving[g]

\* The status a goal's watch shows never steps back, with the seeding of
\* send_goal and the status messages racing for it, unless the server published
\* an older list after a newer one.
NoStepBack ==
    [][\A g \in Goals : Rank(watch'[g]) >= Rank(watch[g]) \/ overtaken]_vars

=============================================================================
