------------------------- MODULE ActionClientProofs -------------------------
(***************************************************************************)
(* Proofs about ActionClient, for any goals, publishing threads and number *)
(* of messages: the board holds exactly the goals somebody waits for, no   *)
(* feedback is lost to the handle's receiver, and a status watch steps     *)
(* back only when the server published out of order.                       *)
(***************************************************************************)
EXTENDS ActionClient, TLAPS, FiniteSetTheorems, SequenceTheorems

Taken == {u \in Publishers : snapshot[u] # None}

\* A goal that was not sent is known nowhere.
Fresh ==
    \A g \in Goals : phase[g] = "new" =>
        /\ g \notin board /\ receiver[g] = 0 /\ reply[g] = "none" /\ server[g] = "Unknown"
        /\ feedback[g] = 0 /\ arriving[g] = 0 /\ got[g] = 0

\* The board holds what somebody waits for, and a handle that was returned shows
\* a status.
Live ==
    \A g \in Goals :
        /\ phase[g] \in {"sending", "active", "awaiting"} => g \in board
        /\ g \in board => phase[g] \in {"sending", "active", "awaiting", "dropped"}
        /\ phase[g] = "active" => watch[g] # "Unknown"

\* Feedback is delivered once at most, and all of it to the first receiver.
Fed ==
    \A g \in Goals :
        /\ got[g] + arriving[g] <= feedback[g]
        /\ g \in board /\ receiver[g] = 1 => got[g] + arriving[g] = feedback[g]

\* A list that was read will be published.
Announced == published + Cardinality(Taken) <= MaxPublished

\* A list l tells of the goals the server knows, and never more than it knows.
Tells(l) == \A g \in DOMAIN l : l[g] # "Unknown" /\ Rank(l[g]) <= Rank(server[g])

\* No status is ahead of the server, on its way or in a watch.
Behind ==
    /\ \A t \in Publishers : Tells(snapshot[t])
    /\ \A i \in 1 .. Len(topic) : Tells(topic[i])
    /\ \A g \in Goals : Rank(watch[g]) <= Rank(server[g])
    /\ \A g \in Goals : reply[g] = "accepted" => server[g] # "Unknown"

\* List a is nowhere ahead of list b.
NoNewer(a, b) == \A g \in DOMAIN a \cap DOMAIN b : Rank(a[g]) <= Rank(b[g])

\* The watches are behind list l.
WatchesBehind(l) == \A g \in DOMAIN l : Rank(watch[g]) <= Rank(l[g])

\* As long as no publication overtook an older snapshot, the statuses from the
\* watches over the topic to the snapshots are in order.
InOrder ==
    ~overtaken =>
        /\ \A i, j \in 1 .. Len(topic) : i < j => NoNewer(topic[i], topic[j])
        /\ \A i \in 1 .. Len(topic) : \A t \in Publishers : NoNewer(topic[i], snapshot[t])
        /\ \A i \in 1 .. Len(topic) : WatchesBehind(topic[i])
        /\ \A t \in Publishers : WatchesBehind(snapshot[t])

\* The inductive invariant.
CInv == TypeOK /\ Fresh /\ Live /\ Fed /\ Announced /\ Behind /\ InOrder

-----------------------------------------------------------------------------
\* The ranks of the statuses.
LEMMA Ranks ==
    /\ Rank("Unknown") = 0 /\ Rank("Accepted") = 1 /\ Rank("Executing") = 2
    /\ Rank("Canceling") = 3 /\ \A s \in Terminal : Rank(s) = 4
    /\ \A s \in Statuses : Rank(s) \in 0 .. 4 /\ (s # "Unknown" => Rank(s) >= 1)
  BY DEF Rank, Statuses, Terminal

\* The empty list, and what a status list is made of.
LEMMA Lists ==
    /\ None \in StatusLists /\ DOMAIN None = {}
    /\ \A l \in StatusLists : DOMAIN l \subseteq Goals /\ \A g \in DOMAIN l : l[g] \in Statuses
    /\ \A G \in SUBSET Goals : \A l \in [G -> Statuses] : l \in StatusLists
<1>1. \A G \in SUBSET Goals : \A l \in [G -> Statuses] : l \in StatusLists
  BY DEF StatusLists
<1>2. None \in [{} -> Statuses] /\ DOMAIN None = {}
  BY DEF None
<1>3. \A l \in StatusLists : DOMAIN l \subseteq Goals /\ \A g \in DOMAIN l : l[g] \in Statuses
  BY DEF StatusLists
<1> QED BY <1>1, <1>2, <1>3

\* The goals the server knows, as Snapshot reads them.
KnownList == [g \in {h \in Goals : server[h] # "Unknown"} |-> server[g]]

\* A snapshot is a list of its own, and says what the server says.
LEMMA SnapshotList ==
    ASSUME TypeOK, NEW t \in Publishers, Snapshot(t)
    PROVE  /\ snapshot' = [snapshot EXCEPT ![t] = KnownList]
           /\ KnownList \in StatusLists /\ KnownList # None
           /\ \A g \in DOMAIN KnownList : KnownList[g] = server[g] /\ server[g] # "Unknown" /\ g \in Goals
<1> DEFINE known == {h \in Goals : server[h] # "Unknown"}
<1>1. known # {} /\ snapshot' = [snapshot EXCEPT ![t] = KnownList]
  BY DEF Snapshot, KnownList
<1>2. DOMAIN KnownList = known /\ \A g \in known : KnownList[g] = server[g]
  BY DEF KnownList
<1>3. KnownList \in [known -> Statuses]
  BY DEF KnownList, TypeOK
<1>4. KnownList \in StatusLists
  BY <1>3, Lists
<1>5. KnownList # None
  BY <1>1, <1>2, Lists
<1> QED BY <1>1, <1>2, <1>4, <1>5

\* Reading a list makes one thread more a publisher, publishing it one less.
LEMMA TakenCount ==
    ASSUME TypeOK
    PROVE  /\ IsFiniteSet(Taken) /\ Cardinality(Taken) \in Nat
           /\ \A t \in Publishers :
                 /\ Snapshot(t) => Cardinality(Taken') = Cardinality(Taken) + 1
                 /\ Publish(t) => Cardinality(Taken') = Cardinality(Taken) - 1
<1>1. IsFiniteSet(Taken)
  BY ActionClientAssumption, FS_Subset DEF Taken
<1>2. Cardinality(Taken) \in Nat
  BY <1>1, FS_CardinalityType
<1>3. ASSUME NEW t \in Publishers, Snapshot(t) PROVE Cardinality(Taken') = Cardinality(Taken) + 1
  <2>1. t \notin Taken
    BY <1>3 DEF Snapshot, Taken
  <2>2. Taken' = Taken \cup {t}
    BY <1>3, SnapshotList DEF Taken, TypeOK
  <2> QED BY <1>1, <2>1, <2>2, FS_AddElement
<1>4. ASSUME NEW t \in Publishers, Publish(t) PROVE Cardinality(Taken') = Cardinality(Taken) - 1
  <2>1. t \in Taken /\ Taken' = Taken \ {t}
    BY <1>4 DEF Publish, Taken, TypeOK
  <2> QED BY <1>1, <2>1, FS_RemoveElement
<1> QED BY <1>1, <1>2, <1>3, <1>4

\* The client starts with an empty board, the server with no goal.
LEMMA InitCInv == Init => CInv
<1> SUFFICES ASSUME Init PROVE CInv
  OBVIOUS
<1> USE ActionClientAssumption DEF Init
<1>1. cancel \in [Goals -> BOOLEAN] /\ overtaken \in BOOLEAN
  BY Zenon
<1>2. snapshot \in [Publishers -> StatusLists] /\ topic \in Seq(StatusLists)
  BY Lists
<1>3. "Unknown" \in Statuses
  BY DEF Statuses
<1>4. TypeOK
  BY <1>1, <1>2, <1>3 DEF TypeOK
<1>5. Fresh /\ Live /\ Fed
  BY DEF Fresh, Live, Fed
<1>6. Taken = {}
  BY DEF Taken
<1>7. Announced
  BY <1>6, FS_EmptySet DEF Announced
<1>8. Behind
  BY Lists, Ranks DEF Behind, Tells
<1>9. InOrder
  BY Lists DEF InOrder, NoNewer, WatchesBehind
<1> QED BY <1>4, <1>5, <1>7, <1>8, <1>9 DEF CInv

\* Every step of the program, the callbacks or the server keeps the types: no
\* more feedback is delivered than was published.
LEMMA TypeNext == CInv /\ [Next]_vars => TypeOK' /\ Announced'
<1> DEFINE G == TypeOK' /\ Announced'
<1> SUFFICES ASSUME CInv, [Next]_vars PROVE G
  OBVIOUS
<1>a. TypeOK /\ Fed /\ Announced
  BY DEF CInv
<1>b. published' = published /\ snapshot' = snapshot => Announced'
  BY <1>a DEF Announced, Taken
<1> USE ActionClientAssumption, <1>a DEF TypeOK, clientVars, serverVars
<1>1. ASSUME NEW g \in Goals, SendGoal(g) PROVE G
  BY <1>1, <1>b DEF SendGoal
<1>2. ASSUME NEW g \in Goals, SendGoalFails(g) PROVE G
  BY <1>2, <1>b DEF SendGoalFails
<1>3. ASSUME NEW g \in Goals, SendGoalReturns(g) PROVE G
  <2>1. watch' \in [Goals -> Statuses]
    BY <1>3 DEF SendGoalReturns, Seeded, Statuses
  <2> QED BY <1>3, <1>b, <2>1 DEF SendGoalReturns
<1>4. ASSUME NEW g \in Goals, FeedbackStream(g) PROVE G
  BY <1>4, <1>b DEF FeedbackStream
<1>5. ASSUME NEW gs \in SUBSET Goals, CancelGoal(gs) PROVE G
  <2>1. cancel' \in [Goals -> BOOLEAN]
    BY <1>5, Zenon DEF CancelGoal
  <2> QED BY <1>5, <1>b, <2>1 DEF CancelGoal
<1>6. ASSUME NEW g \in Goals, Result(g) PROVE G
  BY <1>6, <1>b DEF Result
<1>7. ASSUME NEW g \in Goals, ResultReturns(g) \/ ResultTimesOut(g) PROVE G
  <2>1. /\ phase' \in [Goals -> {"new", "sending", "active", "awaiting", "done", "failed", "dropped"}]
        /\ board' \subseteq Goals
    BY <1>7 DEF ResultReturns, ResultTimesOut
  <2>2. UNCHANGED <<watch, receiver, got, reply, cancel, serverVars>>
    BY <1>7 DEF ResultReturns, ResultTimesOut
  <2> QED BY <1>b, <2>1, <2>2
<1>8. ASSUME NEW g \in Goals, Drop(g) PROVE G
  BY <1>8, <1>b DEF Drop
<1>9. ASSUME NEW g \in Goals, FeedbackArrives(g) PROVE G
  <2>1. got[g] + arriving[g] <= feedback[g] /\ arriving[g] > 0
    BY <1>9 DEF FeedbackArrives, Fed
  <2>2. got[g] + 1 \in 0 .. MaxFeedback /\ arriving[g] - 1 \in 0 .. MaxFeedback
    BY <2>1
  <2>3. got' \in [Goals -> 0 .. MaxFeedback] /\ arriving' \in [Goals -> 0 .. MaxFeedback]
    BY <1>9, <2>2 DEF FeedbackArrives
  <2> QED BY <1>9, <1>b, <2>3 DEF FeedbackArrives
<1>10. ASSUME NEW g \in Goals, GoalCallFails(g) \/ ResultCallFails(g) \/ ServerAnswersResult(g) PROVE G
  <2>1. reply' \in [Goals -> {"none", "sent", "accepted", "rejected", "error", "result"}]
    BY <1>10 DEF GoalCallFails, ResultCallFails, ServerAnswersResult
  <2>2. UNCHANGED <<clientVars, cancel, serverVars>>
    BY <1>10 DEF GoalCallFails, ResultCallFails, ServerAnswersResult
  <2> QED BY <1>b, <2>1, <2>2
<1>11. ASSUME NEW g \in Goals, PublishFeedback(g) PROVE G
  <2>1. got[g] + arriving[g] <= feedback[g] /\ feedback[g] < MaxFeedback
    BY <1>11 DEF PublishFeedback, Fed
  <2>2. feedback[g] + 1 \in 0 .. MaxFeedback /\ arriving[g] + 1 \in 0 .. MaxFeedback
    BY <2>1
  <2>3. feedback' \in [Goals -> 0 .. MaxFeedback] /\ arriving' \in [Goals -> 0 .. MaxFeedback]
    BY <1>11, <2>2 DEF PublishFeedback
  <2> QED BY <1>11, <1>b, <2>3 DEF PublishFeedback
<1>12. ASSUME NEW g \in Goals, NEW accepts \in BOOLEAN, ServerAnswersGoal(g, accepts) PROVE G
  <2>1. reply' \in [Goals -> {"none", "sent", "accepted", "rejected", "error", "result"}]
    BY <1>12 DEF ServerAnswersGoal
  <2>2. server' \in [Goals -> Statuses]
    BY <1>12 DEF ServerAnswersGoal, Statuses
  <2> QED BY <1>12, <1>b, <2>1, <2>2 DEF ServerAnswersGoal
<1>13. ASSUME NEW g \in Goals, NEW to \in Statuses, ServerStep(g, to) PROVE G
  BY <1>13, <1>b DEF ServerStep
<1>14. CASE StatusArrives
  <2>1. Head(topic) \in StatusLists /\ Tail(topic) \in Seq(StatusLists)
    BY <1>14 DEF StatusArrives
  <2>2. watch' \in [Goals -> Statuses]
    BY <1>14, <2>1, Lists DEF StatusArrives
  <2> QED BY <1>14, <1>b, <2>1, <2>2 DEF StatusArrives
<1>15. ASSUME NEW t \in Publishers, Snapshot(t) PROVE G
  <2>1. snapshot' \in [Publishers -> StatusLists]
    BY <1>15, SnapshotList
  <2>2. published' = published /\ published + Cardinality(Taken) < MaxPublished
    BY <1>15 DEF Snapshot, Taken
  <2>3. Announced'
    BY <1>15, <2>2, TakenCount DEF Announced
  <2> QED BY <1>15, <2>1, <2>3 DEF Snapshot
<1>16. ASSUME NEW t \in Publishers, Publish(t) PROVE G
  <2>1. topic' \in Seq(StatusLists) /\ snapshot' \in [Publishers -> StatusLists]
    BY <1>16, Lists DEF Publish
  <2>2. overtaken' \in BOOLEAN
    BY <1>16, Zenon DEF Publish
  <2>3. published' = published + 1
    BY <1>16 DEF Publish
  <2>4. Announced' /\ published' <= MaxPublished
    <3>1. /\ Cardinality(Taken') = Cardinality(Taken) - 1 /\ Cardinality(Taken) \in Nat
      BY <1>16, TakenCount
    <3>2. t \in Taken
      BY <1>16 DEF Publish, Taken
    <3>3. Cardinality(Taken) >= 1
      BY <3>1, <3>2, TakenCount, FS_EmptySet
    <3> QED BY <2>3, <3>1, <3>3 DEF Announced
  <2> QED BY <1>16, <2>1, <2>2, <2>3, <2>4 DEF Publish
<1>17. CASE UNCHANGED vars
  BY <1>17, <1>b DEF vars
<1>18. ASSUME NEW g \in Goals, CancelGoal({g}) PROVE G
  BY <1>5, <1>18
<1>19. CASE CancelGoal({g \in Goals : phase[g] \in {"active", "awaiting"} /\ ~ cancel[g]})
  BY <1>5, <1>19
<1> QED BY <1>1, <1>2, <1>3, <1>4, <1>6, <1>7, <1>8, <1>9, <1>10, <1>11, <1>12, <1>13, <1>14,
           <1>15, <1>16, <1>17, <1>18, <1>19 DEF Next

-----------------------------------------------------------------------------
\* send_goal puts the goal on the board before anything can arrive for it; every
\* end of the call takes it off again, and only a dropped future leaves it.
LEMMA LiveNext == CInv /\ [Next]_vars => Fresh' /\ Live' /\ Fed'
<1> DEFINE G == Fresh' /\ Live' /\ Fed'
<1> SUFFICES ASSUME CInv, [Next]_vars PROVE G
  OBVIOUS
<1>a. TypeOK /\ Fresh /\ Live /\ Fed /\ Behind
  BY DEF CInv
<1>n. \A g \in Goals : /\ got[g] \in Nat /\ arriving[g] \in Nat /\ feedback[g] \in Nat
  BY <1>a, ActionClientAssumption DEF TypeOK
<1>t. /\ phase \in [Goals -> {"new", "sending", "active", "awaiting", "done", "failed", "dropped"}]
      /\ reply \in [Goals -> {"none", "sent", "accepted", "rejected", "error", "result"}]
      /\ watch \in [Goals -> Statuses] /\ server \in [Goals -> Statuses]
      /\ receiver \in [Goals -> 0 .. 2] /\ got \in [Goals -> 0 .. MaxFeedback]
      /\ arriving \in [Goals -> 0 .. MaxFeedback] /\ feedback \in [Goals -> 0 .. MaxFeedback]
  BY <1>a DEF TypeOK
<1> USE <1>a, <1>n, <1>t DEF clientVars, serverVars
<1>1. ASSUME NEW g \in Goals, SendGoal(g) PROVE G
  BY <1>1 DEF SendGoal, Fresh, Live, Fed
<1>2. ASSUME NEW g \in Goals, SendGoalFails(g) PROVE G
  BY <1>2 DEF SendGoalFails, Fresh, Live, Fed
<1>3. ASSUME NEW g \in Goals, SendGoalReturns(g) PROVE G
  <2>1. g \in board /\ phase[g] = "sending"
    BY <1>3 DEF SendGoalReturns, Live
  <2>2. watch'[g] # "Unknown" /\ \A h \in Goals \ {g} : watch'[h] = watch[h]
    BY <1>3, <2>1 DEF SendGoalReturns, Seeded
  <2>3. /\ phase' = [phase EXCEPT ![g] = "active"] /\ reply' = [reply EXCEPT ![g] = "none"]
        /\ UNCHANGED <<board, receiver, got, server, feedback, arriving>>
    BY <1>3 DEF SendGoalReturns
  <2>4. Fresh'
    BY <2>3 DEF Fresh
  <2>5. Live'
    BY <2>1, <2>2, <2>3 DEF Live
  <2>6. Fed'
    BY <2>3 DEF Fed
  <2> QED BY <2>4, <2>5, <2>6
<1>4. ASSUME NEW g \in Goals, FeedbackStream(g) PROVE G
  <2>1. Fed'
    BY <1>4 DEF FeedbackStream, Fed
  <2> QED BY <1>4, <2>1 DEF FeedbackStream, Fresh, Live
<1>5. ASSUME NEW g \in Goals, Result(g) PROVE G
  BY <1>5 DEF Result, Fresh, Live, Fed
<1>6. ASSUME NEW g \in Goals, ResultReturns(g) \/ ResultTimesOut(g) PROVE G
  <2>1. /\ phase' = [phase EXCEPT ![g] = "done"] \/ phase' = [phase EXCEPT ![g] = "failed"]
        /\ board' = board \ {g}
        /\ UNCHANGED <<watch, receiver, got, reply, server, feedback, arriving>>
    BY <1>6 DEF ResultReturns, ResultTimesOut
  <2> QED BY <2>1 DEF Fresh, Live, Fed
<1>7. ASSUME NEW g \in Goals, Drop(g) PROVE G
  BY <1>7 DEF Drop, Fresh, Live, Fed
<1>8. ASSUME NEW g \in Goals, FeedbackArrives(g) PROVE G
  <2>1. /\ arriving[g] > 0 /\ arriving' = [arriving EXCEPT ![g] = arriving[g] - 1]
        /\ got' = [got EXCEPT ![g] = IF g \in board THEN got[g] + 1 ELSE got[g]]
        /\ UNCHANGED <<phase, board, watch, receiver, reply, server, feedback>>
    BY <1>8 DEF FeedbackArrives
  <2>2. Fresh'
    BY <2>1 DEF Fresh
  <2>3. Fed'
    BY <2>1 DEF Fed
  <2> QED BY <2>1, <2>2, <2>3 DEF Live
<1>9. ASSUME NEW g \in Goals, GoalCallFails(g) \/ ResultCallFails(g) \/ ServerAnswersResult(g) PROVE G
  <2>1. /\ phase[g] # "new" /\ \A h \in Goals \ {g} : reply'[h] = reply[h]
        /\ UNCHANGED <<phase, board, watch, receiver, got, server, feedback, arriving>>
    BY <1>9 DEF GoalCallFails, ResultCallFails, ServerAnswersResult
  <2> QED BY <2>1 DEF Fresh, Live, Fed
<1>10. ASSUME NEW g \in Goals, PublishFeedback(g) PROVE G
  <2>1. /\ feedback' = [feedback EXCEPT ![g] = feedback[g] + 1]
        /\ arriving' = [arriving EXCEPT ![g] = arriving[g] + 1]
        /\ UNCHANGED <<phase, board, watch, receiver, got, reply, server>>
        /\ server[g] # "Unknown"
    BY <1>10 DEF PublishFeedback
  <2>2. Fed'
    BY <2>1 DEF Fed
  <2>3. Fresh'
    BY <2>1 DEF Fresh
  <2> QED BY <2>1, <2>2, <2>3 DEF Live
<1>11. ASSUME NEW g \in Goals, NEW accepts \in BOOLEAN, ServerAnswersGoal(g, accepts) PROVE G
  <2>1. /\ phase[g] # "new"
        /\ \A h \in Goals \ {g} : reply'[h] = reply[h] /\ server'[h] = server[h]
        /\ UNCHANGED <<phase, board, watch, receiver, got, feedback, arriving>>
    BY <1>11 DEF ServerAnswersGoal, Fresh
  <2> QED BY <2>1 DEF Fresh, Live, Fed
<1>12. ASSUME NEW g \in Goals, NEW to \in Statuses, ServerStep(g, to) PROVE G
  <2>1. /\ server[g] # "Unknown" /\ \A h \in Goals \ {g} : server'[h] = server[h]
        /\ UNCHANGED <<phase, board, watch, receiver, got, reply, feedback, arriving>>
    BY <1>12 DEF ServerStep
  <2> QED BY <2>1 DEF Fresh, Live, Fed
<1>13. CASE StatusArrives
  <2>1. Head(topic) = topic[1] /\ 1 \in 1 .. Len(topic)
    BY <1>13 DEF StatusArrives, TypeOK
  <2>2. Tells(topic[1])
    BY <2>1 DEF Behind
  <2>3. \A g \in Goals : watch[g] # "Unknown" => watch'[g] # "Unknown"
    BY <1>13, <2>1, <2>2 DEF StatusArrives, Tells
  <2> QED BY <1>13, <2>3 DEF StatusArrives, Fresh, Live, Fed
<1>14. ASSUME UNCHANGED <<phase, board, watch, receiver, got, reply, server, feedback, arriving>>
       PROVE G
  BY <1>14 DEF Fresh, Live, Fed
<1> QED BY <1>1, <1>2, <1>3, <1>4, <1>5, <1>6, <1>7, <1>8, <1>9, <1>10, <1>11, <1>12, <1>13, <1>14
        DEF Next, vars, CancelGoal, Snapshot, Publish

\* A goal only moves on at the server.
LEMMA ServerUp ==
    ASSUME CInv, [Next]_vars, NEW h \in Goals
    PROVE  /\ Rank(server[h]) <= Rank(server'[h])
           /\ server[h] # "Unknown" => server'[h] # "Unknown"
           /\ Rank(server[h]) \in Nat /\ Rank(server'[h]) \in Nat
<1>a. server \in [Goals -> Statuses]
  BY DEF CInv, TypeOK
<1>1. ASSUME NEW g \in Goals, NEW accepts \in BOOLEAN, ServerAnswersGoal(g, accepts)
      PROVE  server'[h] = server[h] \/ (server[h] = "Unknown" /\ server'[h] = "Accepted")
  BY <1>1, <1>a DEF ServerAnswersGoal
<1>2. ASSUME NEW g \in Goals, NEW to \in Statuses, ServerStep(g, to)
      PROVE  \/ server'[h] = server[h]
             \/ server[h] = "Accepted" /\ server'[h] = "Executing"
             \/ server[h] \in {"Executing", "Canceling"} /\ server'[h] \in Terminal
             \/ server[h] \in {"Accepted", "Executing"} /\ server'[h] = "Canceling"
  BY <1>2, <1>a DEF ServerStep
<1>3. \/ server'[h] = server[h]
      \/ server[h] = "Unknown" /\ server'[h] = "Accepted"
      \/ server[h] = "Accepted" /\ server'[h] = "Executing"
      \/ server[h] \in {"Executing", "Canceling"} /\ server'[h] \in Terminal
      \/ server[h] \in {"Accepted", "Executing"} /\ server'[h] = "Canceling"
  <2>1. ASSUME UNCHANGED server PROVE server'[h] = server[h]
    BY <2>1
  <2> QED BY <1>1, <1>2, <2>1
          DEF Next, vars, serverVars, SendGoal, SendGoalFails, SendGoalReturns, FeedbackStream,
              CancelGoal, Result, ResultReturns, ResultTimesOut, Drop, FeedbackArrives,
              GoalCallFails, ResultCallFails, ServerAnswersResult, PublishFeedback,
              StatusArrives, Snapshot, Publish
<1> QED BY <1>a, <1>3, Ranks DEF Terminal

\* What a list of the right type says has a rank, and so has a watch.
LEMMA RankTypes ==
    ASSUME TypeOK
    PROVE  /\ \A l \in StatusLists : \A g \in DOMAIN l : g \in Goals /\ Rank(l[g]) \in Nat
           /\ \A g \in Goals : Rank(watch[g]) \in Nat /\ Rank(server[g]) \in Nat
           /\ \A i \in 1 .. Len(topic) : topic[i] \in StatusLists
           /\ \A t \in Publishers : snapshot[t] \in StatusLists
<1>1. \A s \in Statuses : Rank(s) \in Nat
  BY Ranks
<1>2. \A l \in StatusLists : \A g \in DOMAIN l : g \in Goals /\ l[g] \in Statuses
  BY Lists
<1>3. \A g \in Goals : watch[g] \in Statuses /\ server[g] \in Statuses
  BY DEF TypeOK
<1>4. /\ \A i \in 1 .. Len(topic) : topic[i] \in StatusLists
      /\ \A t \in Publishers : snapshot[t] \in StatusLists
  BY DEF TypeOK
<1> QED BY <1>1, <1>2, <1>3, <1>4

\* The status topic in the callback: its head is its first list, and what stays
\* behind were the others.
LEMMA TopicTail ==
    ASSUME TypeOK, StatusArrives
    PROVE  /\ Head(topic) = topic[1] /\ 1 \in 1 .. Len(topic)
           /\ \A i \in 1 .. Len(topic') : topic'[i] = topic[i + 1] /\ i + 1 \in 1 .. Len(topic)
           /\ Len(topic) \in Nat /\ Len(topic') \in Nat
  BY DEF StatusArrives, TypeOK

\* Publishing appends the thread's list to the topic.
LEMMA TopicAppend ==
    ASSUME TypeOK, NEW t \in Publishers, Publish(t)
    PROVE  /\ Len(topic') = Len(topic) + 1 /\ Len(topic) \in Nat
           /\ \A i \in 1 .. Len(topic) : topic'[i] = topic[i]
           /\ topic'[Len(topic) + 1] = snapshot[t]
           /\ snapshot' = [snapshot EXCEPT ![t] = None]
<1> DEFINE l == snapshot[t]
<1>1. l \in StatusLists /\ topic \in Seq(StatusLists) /\ topic' = Append(topic, l)
  BY DEF Publish, TypeOK
<1>2. snapshot' = [snapshot EXCEPT ![t] = None]
  BY DEF Publish
<1> HIDE DEF l
<1>3. /\ Len(topic') = Len(topic) + 1 /\ Len(topic) \in Nat
      /\ \A i \in 1 .. Len(topic) : topic'[i] = topic[i]
      /\ topic'[Len(topic) + 1] = l
  BY <1>1
<1> QED BY <1>2, <1>3 DEF l

\* No status overtakes the server: lists are copies of what it said, and the
\* seed of send_goal is the least it can have said.
LEMMA BehindNext == CInv /\ [Next]_vars => Behind'
<1> SUFFICES ASSUME CInv, [Next]_vars PROVE Behind'
  OBVIOUS
<1>a. TypeOK /\ Live /\ Behind
  BY DEF CInv
<1> DEFINE TellsNext(l) == \A g \in DOMAIN l : l[g] # "Unknown" /\ Rank(l[g]) <= Rank(server'[g])
<1>b. \A l \in StatusLists : Tells(l) => TellsNext(l)
  BY <1>a, ServerUp, RankTypes DEF Tells
<1>c. TellsNext(None)
  BY Lists
<1>s. \A t \in Publishers : TellsNext(snapshot'[t])
  <2> TAKE t \in Publishers
  <2>1. TellsNext(snapshot[t])
    BY <1>a, <1>b, RankTypes DEF Behind
  <2>2. ASSUME NEW u \in Publishers, Snapshot(u) PROVE TellsNext(snapshot'[t])
    <3>1. UNCHANGED server
      BY <2>2 DEF Snapshot
    <3>2. snapshot'[t] = snapshot[t] \/ snapshot'[t] = KnownList
      BY <2>2, <1>a, SnapshotList DEF TypeOK
    <3>3. TellsNext(KnownList)
      BY <2>2, <1>a, <3>1, SnapshotList, RankTypes
    <3> QED BY <2>1, <3>2, <3>3
  <2>3. ASSUME NEW u \in Publishers, Publish(u) PROVE TellsNext(snapshot'[t])
    <3>1. snapshot'[t] = snapshot[t] \/ snapshot'[t] = None
      BY <2>3, <1>a DEF Publish, TypeOK
    <3> QED BY <2>1, <3>1, <1>c
  <2>4. ASSUME UNCHANGED snapshot PROVE TellsNext(snapshot'[t])
    BY <2>1, <2>4
  <2> HIDE DEF TellsNext
  <2> QED BY <2>2, <2>3, <2>4
          DEF Next, vars, serverVars, SendGoal, SendGoalFails, SendGoalReturns, FeedbackStream,
              CancelGoal, Result, ResultReturns, ResultTimesOut, Drop, FeedbackArrives,
              GoalCallFails, ResultCallFails, ServerAnswersResult, PublishFeedback,
              StatusArrives, ServerAnswersGoal, ServerStep
<1>p. \A i \in 1 .. Len(topic') : TellsNext(topic'[i])
  <2>1. \A i \in 1 .. Len(topic) : TellsNext(topic[i])
    BY <1>a, <1>b, RankTypes DEF Behind
  <2>s. \A t \in Publishers : TellsNext(snapshot[t])
    BY <1>a, <1>b, RankTypes DEF Behind
  <2> HIDE DEF TellsNext
  <2>2. ASSUME NEW u \in Publishers, Publish(u) PROVE \A i \in 1 .. Len(topic') : TellsNext(topic'[i])
    BY <2>1, <2>2, <2>s, <1>a, TopicAppend
  <2>3. CASE StatusArrives
    BY <2>1, <2>3, <1>a, TopicTail
  <2>4. ASSUME UNCHANGED topic PROVE \A i \in 1 .. Len(topic') : TellsNext(topic'[i])
    BY <2>1, <2>4
  <2> QED BY <2>2, <2>3, <2>4
          DEF Next, vars, serverVars, SendGoal, SendGoalFails, SendGoalReturns, FeedbackStream,
              CancelGoal, Result, ResultReturns, ResultTimesOut, Drop, FeedbackArrives,
              GoalCallFails, ResultCallFails, ServerAnswersResult, PublishFeedback,
              Snapshot, ServerAnswersGoal, ServerStep
<1>w. \A g \in Goals : Rank(watch'[g]) <= Rank(server'[g])
  <2> TAKE g \in Goals
  <2>1. Rank(watch[g]) <= Rank(server'[g])
    BY <1>a, ServerUp, RankTypes DEF Behind
  <2>2. ASSUME NEW h \in Goals, SendGoalReturns(h) PROVE Rank(watch'[g]) <= Rank(server'[g])
    <3>1. watch'[g] = watch[g] \/ (g = h /\ watch'[g] = "Accepted")
      BY <2>2, <1>a DEF SendGoalReturns, Seeded, TypeOK
    <3>2. CASE g = h /\ watch'[g] = "Accepted"
      <4>1. server[g] # "Unknown" /\ server' = server /\ server[g] \in Statuses
        BY <1>a, <2>2, <3>2 DEF SendGoalReturns, serverVars, Behind, TypeOK
      <4> QED BY <3>2, <4>1, Ranks
    <3> QED BY <2>1, <3>1, <3>2
  <2>3. CASE StatusArrives
    <3>1. /\ Head(topic) = topic[1] /\ Tells(topic[1]) /\ server' = server
      BY <1>a, <2>3, TopicTail DEF Behind, StatusArrives
    <3> QED BY <2>1, <2>3, <3>1 DEF StatusArrives, Tells
  <2>4. ASSUME UNCHANGED watch PROVE Rank(watch'[g]) <= Rank(server'[g])
    BY <2>1, <2>4
  <2> QED BY <2>2, <2>3, <2>4
          DEF Next, vars, clientVars, SendGoal, SendGoalFails, FeedbackStream, CancelGoal, Result,
              ResultReturns, ResultTimesOut, Drop, FeedbackArrives, GoalCallFails,
              ResultCallFails, ServerAnswersResult, PublishFeedback, Snapshot, Publish,
              ServerAnswersGoal, ServerStep
<1>r. \A g \in Goals : reply'[g] = "accepted" => server'[g] # "Unknown"
  <2> TAKE g \in Goals
  <2>1. reply[g] = "accepted" => server'[g] # "Unknown"
    BY <1>a, ServerUp DEF Behind
  <2>2. ASSUME NEW h \in Goals, NEW accepts \in BOOLEAN, ServerAnswersGoal(h, accepts)
        PROVE  reply'[g] = "accepted" => server'[g] # "Unknown"
    BY <2>1, <2>2, <1>a DEF ServerAnswersGoal, TypeOK
  <2>3. ASSUME reply'[g] = reply[g] \/ reply'[g] # "accepted"
        PROVE  reply'[g] = "accepted" => server'[g] # "Unknown"
    BY <2>1, <2>3
  <2>4. reply'[g] = reply[g] \/ reply'[g] # "accepted"
        \/ \E h \in Goals, accepts \in BOOLEAN : ServerAnswersGoal(h, accepts)
    <3>1. ASSUME NEW h \in Goals,
                 \/ SendGoal(h) \/ SendGoalReturns(h) \/ GoalCallFails(h)
                 \/ ResultCallFails(h) \/ ServerAnswersResult(h)
          PROVE  reply'[g] = reply[g] \/ reply'[g] # "accepted"
      BY <1>a, <3>1 DEF TypeOK, SendGoal, SendGoalReturns, GoalCallFails, ResultCallFails,
                        ServerAnswersResult
    <3>2. ASSUME NEW h \in Goals,
                 \/ SendGoalFails(h) \/ FeedbackStream(h) \/ CancelGoal({h}) \/ Result(h)
                 \/ ResultReturns(h) \/ ResultTimesOut(h) \/ Drop(h) \/ FeedbackArrives(h)
                 \/ PublishFeedback(h) \/ \E to \in Statuses : ServerStep(h, to)
          PROVE  reply'[g] = reply[g] \/ reply'[g] # "accepted"
      BY <1>a, <3>2 DEF TypeOK, SendGoalFails, FeedbackStream, CancelGoal, Result,
                        ResultReturns, ResultTimesOut, Drop, FeedbackArrives, PublishFeedback,
                        ServerStep
    <3>3. ASSUME \/ CancelGoal({h \in Goals : phase[h] \in {"active", "awaiting"} /\ ~ cancel[h]})
                 \/ StatusArrives \/ UNCHANGED vars
                 \/ \E t \in Publishers : Snapshot(t) \/ Publish(t)
          PROVE  reply' = reply
      BY <3>3 DEF CancelGoal, StatusArrives, Snapshot, Publish, vars
    <3> QED BY <1>a, <3>1, <3>2, <3>3 DEF Next
  <2> QED BY <2>2, <2>3, <2>4
<1> QED BY <1>s, <1>p, <1>w, <1>r DEF Behind, Tells

\* Reading and publishing keep the order, and so do the callback and the seed,
\* until a publication overtakes an older snapshot.
LEMMA OrderNext == CInv /\ [Next]_vars => InOrder'
<1> SUFFICES ASSUME CInv, [Next]_vars PROVE InOrder'
  OBVIOUS
<1>a. TypeOK /\ Behind /\ InOrder
  BY DEF CInv
<1>1. ASSUME UNCHANGED <<topic, snapshot, watch, overtaken>> PROVE InOrder'
  BY <1>a, <1>1 DEF InOrder, NoNewer, WatchesBehind
<1>2. ASSUME NEW g \in Goals, SendGoalReturns(g) PROVE InOrder'
  <2>1. UNCHANGED <<topic, snapshot, overtaken>>
    BY <1>2 DEF SendGoalReturns, serverVars
  <2>2. \A h \in Goals : watch'[h] = watch[h] \/ (watch[h] = "Unknown" /\ watch'[h] = "Accepted")
    BY <1>2, <1>a DEF SendGoalReturns, Seeded, TypeOK
  <2>3. ASSUME NEW l \in StatusLists, Tells(l), WatchesBehind(l)
        PROVE  \A h \in DOMAIN l : Rank(watch'[h]) <= Rank(l[h])
    <3> TAKE h \in DOMAIN l
    <3>1. h \in Goals /\ l[h] \in Statuses /\ l[h] # "Unknown" /\ Rank(watch[h]) <= Rank(l[h])
      BY <2>3, Lists DEF Tells, WatchesBehind
    <3> QED BY <2>2, <3>1, Ranks
  <2>4. ~overtaken => /\ \A i \in 1 .. Len(topic) : Tells(topic[i]) /\ WatchesBehind(topic[i])
                                                      /\ topic[i] \in StatusLists
                      /\ \A t \in Publishers : Tells(snapshot[t]) /\ WatchesBehind(snapshot[t])
                                               /\ snapshot[t] \in StatusLists
    BY <1>a, RankTypes DEF Behind, InOrder
  <2>5. ~overtaken =>
          /\ \A i \in 1 .. Len(topic) : \A h \in DOMAIN topic[i] : Rank(watch'[h]) <= Rank(topic[i][h])
          /\ \A t \in Publishers : \A h \in DOMAIN snapshot[t] : Rank(watch'[h]) <= Rank(snapshot[t][h])
    BY <2>3, <2>4
  <2> QED BY <1>a, <2>1, <2>5 DEF InOrder, NoNewer, WatchesBehind
<1>3. CASE StatusArrives
  <2> SUFFICES ASSUME ~overtaken' PROVE InOrder'
    BY DEF InOrder
  <2>1. /\ Head(topic) = topic[1] /\ 1 \in 1 .. Len(topic) /\ Len(topic) \in Nat /\ Len(topic') \in Nat
        /\ \A i \in 1 .. Len(topic') : topic'[i] = topic[i + 1] /\ i + 1 \in 1 .. Len(topic)
    BY <1>a, <1>3, TopicTail
  <2>2. ~overtaken /\ UNCHANGED snapshot
    BY <1>3 DEF StatusArrives
  <2>3. \A g \in Goals : watch'[g] = watch[g] \/ (g \in DOMAIN topic[1] /\ watch'[g] = topic[1][g])
    BY <1>3, <2>1 DEF StatusArrives
  <2>o. /\ \A i, j \in 1 .. Len(topic) : i < j => NoNewer(topic[i], topic[j])
        /\ \A i \in 1 .. Len(topic) : \A t \in Publishers : NoNewer(topic[i], snapshot[t])
        /\ \A i \in 1 .. Len(topic) : WatchesBehind(topic[i])
        /\ \A t \in Publishers : WatchesBehind(snapshot[t])
    BY <1>a, <2>2 DEF InOrder
  <2>4. ASSUME NEW l \in StatusLists, WatchesBehind(l), NoNewer(topic[1], l)
        PROVE  \A g \in DOMAIN l : Rank(watch'[g]) <= Rank(l[g])
    BY <2>3, <2>4, Lists DEF WatchesBehind, NoNewer
  <2>5. \A i, j \in 1 .. Len(topic') : i < j => NoNewer(topic'[i], topic'[j])
    <3> TAKE i, j \in 1 .. Len(topic')
    <3>1. i < j => i + 1 < j + 1
      BY <2>1
    <3>2. /\ topic'[i] = topic[i + 1] /\ i + 1 \in 1 .. Len(topic)
          /\ topic'[j] = topic[j + 1] /\ j + 1 \in 1 .. Len(topic)
      BY <2>1
    <3> QED BY <2>o, <3>1, <3>2
  <2>6. \A i \in 1 .. Len(topic') : \A t \in Publishers : NoNewer(topic'[i], snapshot'[t])
    BY <2>1, <2>2, <2>o
  <2>7. \A i \in 1 .. Len(topic') : \A g \in DOMAIN topic'[i] : Rank(watch'[g]) <= Rank(topic'[i][g])
    <3> TAKE i \in 1 .. Len(topic')
    <3>1. topic'[i] = topic[i + 1] /\ i + 1 \in 1 .. Len(topic) /\ 1 < i + 1
      BY <2>1
    <3>2. WatchesBehind(topic[i + 1]) /\ NoNewer(topic[1], topic[i + 1]) /\ topic[i + 1] \in StatusLists
      BY <1>a, <2>1, <2>o, <3>1, RankTypes
    <3>3. \A g \in DOMAIN topic[i + 1] : Rank(watch'[g]) <= Rank(topic[i + 1][g])
      BY <2>4, <3>2
    <3> QED BY <3>1, <3>3
  <2>8. \A t \in Publishers : \A g \in DOMAIN snapshot'[t] : Rank(watch'[g]) <= Rank(snapshot'[t][g])
    <3> TAKE t \in Publishers
    <3>1. WatchesBehind(snapshot[t]) /\ NoNewer(topic[1], snapshot[t]) /\ snapshot[t] \in StatusLists
      BY <1>a, <2>1, <2>o, RankTypes
    <3>2. \A g \in DOMAIN snapshot[t] : Rank(watch'[g]) <= Rank(snapshot[t][g])
      BY <2>4, <3>1
    <3> QED BY <2>2, <3>2
  <2> QED BY <2>5, <2>6, <2>7, <2>8 DEF InOrder, NoNewer, WatchesBehind
<1>4. ASSUME NEW t \in Publishers, Snapshot(t) PROVE InOrder'
  <2>1. UNCHANGED <<topic, watch, overtaken>>
    BY <1>4 DEF Snapshot, clientVars
  <2>2. \A u \in Publishers : snapshot'[u] = snapshot[u] \/ snapshot'[u] = KnownList
    BY <1>4, <1>a, SnapshotList DEF TypeOK
  <2>3. \A g \in DOMAIN KnownList : KnownList[g] = server[g] /\ g \in Goals
    BY <1>4, <1>a, SnapshotList
  <2>4. \A i \in 1 .. Len(topic) : NoNewer(topic[i], KnownList)
    BY <1>a, <2>3 DEF Behind, Tells, NoNewer
  <2>5. \A g \in DOMAIN KnownList : Rank(watch[g]) <= Rank(KnownList[g])
    BY <1>a, <2>3 DEF Behind
  <2>6. ~overtaken => \A i \in 1 .. Len(topic) : \A u \in Publishers : NoNewer(topic[i], snapshot'[u])
    BY <1>a, <2>2, <2>4 DEF InOrder
  <2>7. ~overtaken => \A u \in Publishers : \A g \in DOMAIN snapshot'[u] : Rank(watch[g]) <= Rank(snapshot'[u][g])
    BY <1>a, <2>2, <2>5 DEF InOrder, WatchesBehind
  <2> QED BY <1>a, <2>1, <2>6, <2>7 DEF InOrder, NoNewer, WatchesBehind
<1>5. ASSUME NEW t \in Publishers, Publish(t) PROVE InOrder'
  <2> SUFFICES ASSUME ~overtaken' PROVE InOrder'
    BY DEF InOrder
  <2>1. /\ Len(topic') = Len(topic) + 1 /\ Len(topic) \in Nat
        /\ \A i \in 1 .. Len(topic) : topic'[i] = topic[i]
        /\ topic'[Len(topic) + 1] = snapshot[t]
        /\ snapshot' = [snapshot EXCEPT ![t] = None]
    BY <1>5, <1>a, TopicAppend
  <2>2. UNCHANGED watch /\ ~overtaken
    BY <1>5 DEF Publish, clientVars
  <2>3. \A u \in Publishers \ {t} : snapshot[u] # None => ~Older(snapshot[u], snapshot[t])
    BY <1>5 DEF Publish
  <2>4. \A u \in Publishers : snapshot'[u] = None \/ (snapshot'[u] = snapshot[u] /\ u # t)
    BY <1>a, <2>1 DEF TypeOK
  <2>5. \A u \in Publishers : NoNewer(snapshot[t], snapshot'[u])
    <3> TAKE u \in Publishers
    <3>1. CASE snapshot'[u] = None
      BY <3>1, Lists DEF NoNewer
    <3>2. CASE snapshot'[u] = snapshot[u] /\ u # t /\ snapshot[u] # None
      <4>1. \A g \in DOMAIN snapshot[u] \cap DOMAIN snapshot[t] :
                ~(Rank(snapshot[u][g]) < Rank(snapshot[t][g]))
        BY <2>3, <3>2 DEF Older
      <4>2. \A g \in DOMAIN snapshot[u] \cap DOMAIN snapshot[t] :
                Rank(snapshot[u][g]) \in Nat /\ Rank(snapshot[t][g]) \in Nat
        BY <1>a, RankTypes
      <4> QED BY <3>2, <4>1, <4>2 DEF NoNewer
    <3> QED BY <2>4, <3>1, <3>2
  <2>o. /\ \A i, j \in 1 .. Len(topic) : i < j => NoNewer(topic[i], topic[j])
        /\ \A i \in 1 .. Len(topic) : \A u \in Publishers : NoNewer(topic[i], snapshot[u])
        /\ \A i \in 1 .. Len(topic) : WatchesBehind(topic[i])
        /\ \A u \in Publishers : WatchesBehind(snapshot[u])
    BY <1>a, <2>2 DEF InOrder
  <2>n. \A l : NoNewer(l, None)
    BY Lists DEF NoNewer
  <2>6. \A i, j \in 1 .. Len(topic') : i < j => NoNewer(topic'[i], topic'[j])
    BY <2>1, <2>o
  <2>7. \A i \in 1 .. Len(topic') : \A u \in Publishers : NoNewer(topic'[i], snapshot'[u])
    BY <2>1, <2>4, <2>5, <2>n, <2>o
  <2>8. \A i \in 1 .. Len(topic') : \A g \in DOMAIN topic'[i] : Rank(watch[g]) <= Rank(topic'[i][g])
    BY <2>1, <2>o DEF WatchesBehind
  <2>9. \A u \in Publishers : \A g \in DOMAIN snapshot'[u] : Rank(watch[g]) <= Rank(snapshot'[u][g])
    BY <2>4, <2>o, Lists DEF WatchesBehind
  <2> QED BY <2>2, <2>6, <2>7, <2>8, <2>9 DEF InOrder, NoNewer, WatchesBehind
<1> QED BY <1>1, <1>2, <1>3, <1>4, <1>5
        DEF Next, vars, clientVars, serverVars, SendGoal, SendGoalFails, FeedbackStream, CancelGoal,
            Result, ResultReturns, ResultTimesOut, Drop, FeedbackArrives, GoalCallFails,
            ResultCallFails, ServerAnswersResult, PublishFeedback, ServerAnswersGoal, ServerStep

\* The inductive invariant holds in every reachable state.
THEOREM CInvCorrect == Spec => []CInv
<1>1. CInv /\ [Next]_vars => CInv'
  BY TypeNext, LiveNext, BehindNext, OrderNext DEF CInv
<1> QED BY <1>1, InitCInv, PTL DEF Spec

\* The board holds a goal from before its request leaves until its call ends, a
\* returned handle shows a status, and no feedback is lost to its receiver
\* (crates/hiroz/src/action/client.rs: send_goal, the feedback callback, result).
THEOREM BoardIsLiveCorrect == Spec => []BoardIsLive
<1>1. CInv => BoardIsLive
  <2> SUFFICES ASSUME CInv PROVE BoardIsLive
    OBVIOUS
  <2>1. \A g \in Goals : got[g] \in Nat /\ arriving[g] \in Nat /\ feedback[g] \in Nat
    BY ActionClientAssumption DEF CInv, TypeOK
  <2> QED BY <2>1 DEF CInv, Live, Fed, BoardIsLive
<1> QED BY <1>1, CInvCorrect, PTL

\* One step never moves a watch back while the publications are in order.
StepForward == \A g \in Goals : Rank(watch'[g]) >= Rank(watch[g]) \/ overtaken

\* The status a watch shows never steps back, with the seed of send_goal and the
\* status callback racing for it, unless publish_status published an older list
\* after a newer one.
THEOREM NoStepBackCorrect == Spec => NoStepBack
<1>1. CInv /\ [Next]_vars => [StepForward]_vars
  <2> SUFFICES ASSUME CInv, [Next]_vars PROVE StepForward
    OBVIOUS
  <2>a. TypeOK /\ Behind /\ InOrder
    BY DEF CInv
  <2>r. \A g \in Goals : Rank(watch[g]) \in Nat
    BY <2>a, RankTypes
  <2>1. ASSUME NEW h \in Goals, SendGoalReturns(h) PROVE StepForward
    <3>1. \A g \in Goals : watch'[g] = watch[g] \/ (watch[g] = "Unknown" /\ watch'[g] = "Accepted")
      BY <2>1, <2>a DEF SendGoalReturns, Seeded, TypeOK
    <3> QED BY <2>r, <3>1, Ranks DEF StepForward
  <2>2. CASE StatusArrives
    <3>1. Head(topic) = topic[1] /\ 1 \in 1 .. Len(topic) /\ topic[1] \in StatusLists
      BY <2>a, <2>2, TopicTail, RankTypes
    <3>2. ~overtaken => WatchesBehind(topic[1])
      BY <2>a, <3>1 DEF InOrder
    <3>3. \A g \in Goals : watch'[g] = watch[g] \/ (g \in DOMAIN topic[1] /\ watch'[g] = topic[1][g])
      BY <2>2, <3>1 DEF StatusArrives
    <3>4. \A g \in DOMAIN topic[1] : Rank(topic[1][g]) \in Nat
      BY <2>a, <3>1, RankTypes
    <3> QED BY <2>r, <3>2, <3>3, <3>4 DEF StepForward, WatchesBehind
  <2>3. ASSUME UNCHANGED watch PROVE StepForward
    BY <2>3, <2>r DEF StepForward
  <2> QED BY <2>1, <2>2, <2>3
          DEF Next, vars, clientVars, SendGoal, SendGoalFails, FeedbackStream, CancelGoal, Result,
              ResultReturns, ResultTimesOut, Drop, FeedbackArrives, GoalCallFails,
              ResultCallFails, ServerAnswersResult, PublishFeedback, Snapshot, Publish,
              ServerAnswersGoal, ServerStep
<1>2. Spec => [][StepForward]_vars
  BY <1>1, CInvCorrect, PTL DEF Spec
<1> QED BY <1>2 DEF NoStepBack, StepForward
=============================================================================
