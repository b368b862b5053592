---------------------------- MODULE ServiceProofs ----------------------------
(***************************************************************************)
(* Proofs about Service, for any requests, servers and queue depths: every *)
(* response is for the request it names, a server answers it once, and     *)
(* every request that arrived is announced once.                           *)
(***************************************************************************)
EXTENDS Service, TLAPS, FiniteSetTheorems, SequenceTheorems

Unsent == {r \in Requests : query[r] = "unsent"}

\* The tables of the servers are total.
Shape ==
    /\ queue \in [Servers -> Seq(Requests)]
    /\ pending = [s \in Servers |-> pending[s]]

\* The counter is ahead of the requests sent, so numbers never run out.
Counted == sn + Cardinality(Unsent) = Cardinality(Requests) + 1

\* fetch_add gives every request sent a number of its own.
OwnNumber ==
    /\ \A r \in Requests : (query[r] = "unsent" <=> id[r] = 0) /\ id[r] < sn
    /\ \A q, r \in Requests : id[q] = id[r] /\ id[r] # 0 => q = r

Queued(r, s) == \E i \in 1 .. Len(queue[s]) : queue[s][i] = r
Held(r, s) == \E n \in DOMAIN pending[s] : pending[s][n] = r

\* A request that was sent is at one place of a server at most: on its way, in
\* the queue, among the pending replies, or answered; a reply on its way back
\* carries the number of its request.
OnePlace ==
    \A r \in Requests, s \in Servers :
        /\ <<r, s>> \in out => query[r] # "unsent" /\ ~Queued(r, s) /\ ~Held(r, s)
                               /\ <<r, s>> \notin answered
        /\ Queued(r, s) => query[r] # "unsent" /\ ~Held(r, s) /\ <<r, s>> \notin answered
        /\ Held(r, s) => <<r, s>> \notin answered
        /\ <<r, s>> \in answered => query[r] # "unsent"
        /\ \A n \in Numbers : <<r, s, n>> \in back => <<r, s>> \in answered /\ id[r] = n

\* A queue holds a request once, and a pending reply is filed under the number
\* of its request.
Filed ==
    \A s \in Servers :
        /\ \A i, j \in 1 .. Len(queue[s]) : queue[s][i] = queue[s][j] => i = j
        /\ \A n \in DOMAIN pending[s] : id[pending[s][n]] = n

\* What the client holds was answered.
Received ==
    /\ \A i \in 1 .. Len(completed) :
          \E r \in Requests \ Calls : /\ id[r] = completed[i].sn
                                      /\ <<r, completed[i].server>> \in answered
    /\ \A r \in Requests : slot[r] # None => r \in Calls /\ <<r, slot[r]>> \in answered

\* The inductive invariant.
SInv ==
    /\ TypeOK /\ Shape /\ Counted /\ OwnNumber /\ OnePlace /\ Filed /\ Received
    /\ AnnouncedOnce

-----------------------------------------------------------------------------
\* A push into the bounded queue of a server adds its request, perhaps drops the
\* oldest, and keeps the bound and the single occurrence of each.
LEMMA PushedFacts ==
    ASSUME NEW q \in Seq(Requests), NEW r \in Requests, Len(q) <= Depth
    PROVE  /\ Pushed(q, r) \in Seq(Requests) /\ Len(Pushed(q, r)) <= Depth
           /\ \A i \in 1 .. Len(Pushed(q, r)) :
                 Pushed(q, r)[i] = r \/ \E j \in 1 .. Len(q) : q[j] = Pushed(q, r)[i]
           /\ (/\ \A i, j \in 1 .. Len(q) : q[i] = q[j] => i = j
               /\ \A i \in 1 .. Len(q) : q[i] # r)
              => \A i, j \in 1 .. Len(Pushed(q, r)) : Pushed(q, r)[i] = Pushed(q, r)[j] => i = j
<1>1. CASE Len(q) >= Depth
  <2> DEFINE t == Tail(q)
             p == Append(t, r)
  <2>1. q # <<>>
    BY <1>1, ServiceAssumption
  <2>2. /\ t \in Seq(Requests) /\ Len(t) = Len(q) - 1 /\ Len(q) \in Nat
        /\ \A i \in 1 .. Len(t) : t[i] = q[i + 1]
    BY <2>1
  <2>3. Pushed(q, r) = p
    BY <1>1 DEF Pushed
  <2> HIDE DEF t
  <2>4. /\ p \in Seq(Requests) /\ Len(p) = Len(t) + 1
        /\ \A i \in 1 .. Len(t) : p[i] = t[i]
        /\ p[Len(t) + 1] = r
    BY <2>2, AppendProperties
  <2> HIDE DEF p
  <2>5. Len(p) = Len(q) /\ \A i \in 1 .. Len(q) : p[i] = IF i = Len(q) THEN r ELSE q[i + 1]
    BY <2>2, <2>4
  <2>6. \A i \in 1 .. Len(p) : p[i] = r \/ \E j \in 1 .. Len(q) : q[j] = p[i]
    <3> TAKE i \in 1 .. Len(p)
    <3>1. CASE i = Len(q)
      BY <3>1, <2>2, <2>5
    <3>2. CASE i # Len(q)
      <4>1. i + 1 \in 1 .. Len(q) /\ p[i] = q[i + 1]
        BY <3>2, <2>2, <2>5
      <4> QED BY <4>1
    <3> QED BY <3>1, <3>2
  <2>7. (/\ \A i, j \in 1 .. Len(q) : q[i] = q[j] => i = j
         /\ \A i \in 1 .. Len(q) : q[i] # r)
        => \A i, j \in 1 .. Len(p) : p[i] = p[j] => i = j
    <3> SUFFICES ASSUME \A i, j \in 1 .. Len(q) : q[i] = q[j] => i = j,
                        \A i \in 1 .. Len(q) : q[i] # r,
                        NEW i \in 1 .. Len(q), NEW j \in 1 .. Len(q), p[i] = p[j]
                 PROVE  i = j
      BY <2>5
    <3>1. p[i] = (IF i = Len(q) THEN r ELSE q[i + 1])
          /\ p[j] = IF j = Len(q) THEN r ELSE q[j + 1]
      BY <2>5
    <3>2. (i # Len(q) => i + 1 \in 1 .. Len(q)) /\ (j # Len(q) => j + 1 \in 1 .. Len(q))
      BY <2>2
    <3>3. CASE i = Len(q)
      BY <3>1, <3>2, <3>3
    <3>4. CASE i # Len(q)
      <4>1. j # Len(q) /\ q[i + 1] = q[j + 1]
        BY <3>1, <3>2, <3>4
      <4>2. i + 1 = j + 1
        BY <3>2, <3>4, <4>1
      <4> QED BY <4>2
    <3> QED BY <3>3, <3>4
  <2> QED BY <2>3, <2>4, <2>5, <2>6, <2>7
<1>2. CASE ~(Len(q) >= Depth)
  <2>1. Pushed(q, r) = Append(q, r)
    BY <1>2 DEF Pushed
  <2>2. /\ Len(Pushed(q, r)) = Len(q) + 1 /\ Pushed(q, r) \in Seq(Requests)
        /\ \A i \in 1 .. Len(q) + 1 : Pushed(q, r)[i] = IF i = Len(q) + 1 THEN r ELSE q[i]
    BY <2>1
  <2> QED BY <1>2, <2>2, ServiceAssumption
<1> QED BY <1>1, <1>2

\* Taking the oldest request leaves the others, each once.
LEMMA TailFacts ==
    ASSUME NEW q \in Seq(Requests), q # <<>>
    PROVE  /\ Head(q) \in Requests /\ Head(q) = q[1] /\ 1 \in 1 .. Len(q)
           /\ Tail(q) \in Seq(Requests) /\ Len(Tail(q)) = Len(q) - 1
           /\ \A i \in 1 .. Len(Tail(q)) : Tail(q)[i] = q[i + 1] /\ i + 1 \in 1 .. Len(q)
  OBVIOUS

\* Sending takes a request out of the unsent ones.
LEMMA SentOne ==
    ASSUME TypeOK, NEW r \in Requests, Send(r)
    PROVE  /\ Unsent' = Unsent \ {r} /\ r \in Unsent
           /\ Cardinality(Unsent) \in Nat /\ Cardinality(Unsent) >= 1
           /\ Cardinality(Unsent') = Cardinality(Unsent) - 1
<1>1. Unsent' = Unsent \ {r} /\ r \in Unsent
  BY DEF Unsent, Send, TypeOK
<1>2. IsFiniteSet(Unsent)
  BY ServiceAssumption, FS_Subset DEF Unsent
<1>3. Cardinality(Unsent) \in Nat /\ Cardinality(Unsent) # 0
  BY <1>1, <1>2, FS_CardinalityType, FS_EmptySet
<1> QED BY <1>1, <1>2, <1>3, FS_RemoveElement

\* The client and its servers start in a state of the right type.
LEMMA InitSInv == Init => SInv
<1> SUFFICES ASSUME Init PROVE SInv
  OBVIOUS
<1> USE ServiceAssumption DEF Init
<1>1. Cardinality(Requests) \in Nat
  BY FS_CardinalityType
<1>2. TypeOK
  <2>1. /\ callback \in [Servers -> BOOLEAN] /\ setting \in [Servers -> BOOLEAN]
    BY Zenon
  <2>2. /\ sn \in 1 .. Cardinality(Requests) + 1
        /\ id \in [Requests -> Numbers \cup {0}]
        /\ query \in [Requests -> {"unsent", "open", "final"}]
        /\ slot \in [Requests -> Servers \cup {None}]
        /\ call \in [Requests -> {"idle", "waiting", "returned", "failed", "timeout"}]
        /\ \A f \in {unread, notifying, arrived, announced} : f \in [Servers -> Nat]
    BY <1>1
  <2>3. /\ completed \in Seq(Response) /\ Len(completed) <= ResponseDepth
        /\ \A s \in Servers : queue[s] \in Seq(Requests) /\ Len(queue[s]) <= Depth
    OBVIOUS
  <2>4. \A s \in Servers : DOMAIN pending[s] = {}
    OBVIOUS
  <2> QED BY <2>1, <2>2, <2>3, <2>4 DEF TypeOK
<1>3. Shape
  BY DEF Shape
<1>4. Unsent = Requests
  BY DEF Unsent
<1>5. Counted
  BY <1>1, <1>4 DEF Counted
<1>6. OwnNumber
  BY DEF OwnNumber
<1>7. OnePlace /\ Filed
  <2>1. \A s \in Servers : DOMAIN pending[s] = {} /\ Len(queue[s]) = 0
    OBVIOUS
  <2> QED BY <2>1 DEF OnePlace, Filed, Queued, Held
<1>8. Received
  BY DEF Received
<1>9. AnnouncedOnce
  BY DEF AnnouncedOnce
<1> QED BY <1>2, <1>3, <1>5, <1>6, <1>7, <1>8, <1>9 DEF SInv

-----------------------------------------------------------------------------
\* What the types say of one server's queue and table.
LEMMA ServerType ==
    ASSUME TypeOK, Shape, NEW s \in Servers
    PROVE  /\ queue[s] \in Seq(Requests) /\ Len(queue[s]) <= Depth
           /\ DOMAIN pending[s] \subseteq Numbers
           /\ \A n \in DOMAIN pending[s] : pending[s][n] \in Requests
  BY DEF TypeOK, Shape

\* A request that is queued has a number.
LEMMA QueuedNumbered ==
    ASSUME SInv, NEW s \in Servers, NEW i \in 1 .. Len(queue[s])
    PROVE  queue[s][i] \in Requests /\ id[queue[s][i]] \in Numbers
<1>1. queue[s][i] \in Requests
  BY ServerType DEF SInv
<1>2. Queued(queue[s][i], s)
  BY DEF Queued
<1>3. id[queue[s][i]] # 0
  BY <1>1, <1>2 DEF SInv, OnePlace, OwnNumber
<1> QED BY <1>1, <1>3 DEF SInv, TypeOK

\* Every step of the client, the network or a server keeps the types, the
\* queues within their depths and the numbers within the requests.
LEMMA TypeNext == SInv /\ [Next]_vars => TypeOK' /\ Shape' /\ Counted'
<1> DEFINE G == TypeOK' /\ Shape' /\ Counted'
<1> SUFFICES ASSUME SInv, [Next]_vars PROVE G
  OBVIOUS
<1>a. TypeOK /\ Shape /\ Counted
  BY DEF SInv
<1>b. Cardinality(Requests) \in Nat
  BY FS_CardinalityType, ServiceAssumption
<1>c. /\ unread \in [Servers -> Nat] /\ notifying \in [Servers -> Nat]
      /\ arrived \in [Servers -> Nat] /\ announced \in [Servers -> Nat]
  BY <1>a DEF TypeOK
<1> USE ServiceAssumption, <1>a DEF clientVars, noticeVars
<1>1. ASSUME NEW r \in Requests, Send(r) PROVE G
  <2>1. /\ Cardinality(Unsent) \in Nat /\ Cardinality(Unsent) >= 1
        /\ Cardinality(Unsent') = Cardinality(Unsent) - 1
    BY <1>1, SentOne
  <2>2. sn' = sn + 1 /\ id' = [id EXCEPT ![r] = sn]
    BY <1>1 DEF Send, NewAttachment
  <2>3. sn \in Numbers /\ sn' \in 1 .. Cardinality(Requests) + 1
    BY <2>1, <2>2, <1>b DEF Counted, TypeOK, Numbers
  <2>4. Counted'
    BY <2>1, <2>2, <1>b DEF Counted, TypeOK
  <2>5. id' \in [Requests -> Numbers \cup {0}]
    BY <2>2, <2>3 DEF TypeOK
  <2>6. query' \in [Requests -> {"unsent", "open", "final"}]
    BY <1>1 DEF Send, TypeOK
  <2>7. call' \in [Requests -> {"idle", "waiting", "returned", "failed", "timeout"}]
    BY <1>1 DEF Send, TypeOK
  <2>8. out' \subseteq Pairs
    BY <1>1 DEF Send, TypeOK, Pairs
  <2> QED BY <1>1, <2>3, <2>4, <2>5, <2>6, <2>7, <2>8 DEF Send, TypeOK, Shape
<1>u. query' = query /\ sn' = sn => Counted'
  BY DEF Counted, Unsent
<1>2. ASSUME NEW r \in Requests, CallReturns(r) \/ CallTimesOut(r) \/ CallFails(r) PROVE G
  <2>1. call' \in [Requests -> {"idle", "waiting", "returned", "failed", "timeout"}]
    BY <1>2 DEF CallReturns, CallTimesOut, CallFails, TypeOK
  <2>2. /\ UNCHANGED <<sn, id, query, out, back, alive, queue, pending, completed, slot>>
        /\ UNCHANGED <<noticeVars, answered>>
    BY <1>2 DEF CallReturns, CallTimesOut, CallFails
  <2> QED BY <1>u, <2>1, <2>2 DEF TypeOK, Shape
<1>3. ASSUME NEW r \in Requests, QueryEnds(r) PROVE G
  <2>1. Unsent' = Unsent
    BY <1>3 DEF QueryEnds, Unsent, TypeOK
  <2> QED BY <1>3, <2>1 DEF QueryEnds, TypeOK, Shape, Counted
<1>4. CASE TakeResponse
  <2>1. Tail(completed) \in Seq(Response) /\ Len(Tail(completed)) = Len(completed) - 1
        /\ Len(completed) \in Nat
    BY <1>4 DEF TakeResponse, TypeOK
  <2>2. completed' \in Seq(Response) /\ Len(completed') <= ResponseDepth
    BY <1>4, <2>1 DEF TakeResponse, TypeOK
  <2> QED BY <1>4, <1>u, <2>2 DEF TakeResponse, TypeOK, Shape
<1>5. ASSUME NEW r \in Requests, NEW s \in Servers, NEW n \in Numbers, ReplyArrives(r, s, n) PROVE G
  <2>2. [sn |-> n, server |-> s] \in Response
    BY DEF Response
  <2>3. completed' \in Seq(Response) /\ Len(completed') <= ResponseDepth
    <3>1. completed' = completed \/ (/\ Len(completed) < ResponseDepth
                                     /\ completed' = Append(completed, [sn |-> n, server |-> s]))
      BY <1>5 DEF ReplyArrives
    <3>2. completed \in Seq(Response) /\ Len(completed) <= ResponseDepth
      BY DEF TypeOK
    <3>3. CASE completed' = completed
      BY <3>2, <3>3
    <3>4. CASE Len(completed) < ResponseDepth
               /\ completed' = Append(completed, [sn |-> n, server |-> s])
      <4> DEFINE a == [sn |-> n, server |-> s]
      <4>1. a \in Response /\ completed' = Append(completed, a)
        BY <2>2, <3>4
      <4> HIDE DEF a
      <4> QED BY <3>2, <3>4, <4>1
    <3> QED BY <3>1, <3>3, <3>4
  <2>4. slot' \in [Requests -> Servers \cup {None}]
    BY <1>5 DEF ReplyArrives, TypeOK
  <2> QED BY <1>5, <1>u, <2>3, <2>4 DEF ReplyArrives, TypeOK, Shape
<1>6. ASSUME NEW r \in Requests, NEW s \in Servers, Arrive(r, s) PROVE G
  <2>1. Pushed(queue[s], r) \in Seq(Requests) /\ Len(Pushed(queue[s], r)) <= Depth
    BY ServerType, PushedFacts
  <2>2. queue' = [queue EXCEPT ![s] = Pushed(queue[s], r)]
    BY <1>6 DEF Arrive
  <2>3. /\ queue' \in [Servers -> Seq(Requests)]
        /\ \A v \in Servers : Len(queue'[v]) <= Depth
    BY <2>1, <2>2 DEF TypeOK, Shape
  <2>4. arrived' \in [Servers -> Nat] /\ notifying' \in [Servers -> Nat]
    <3>1. CASE s \in RmwServers
      <4>1. /\ arrived' = [arrived EXCEPT ![s] = @ + 1]
            /\ notifying' = [notifying EXCEPT ![s] = @ + 1]
        BY <1>6, <3>1 DEF Arrive
      <4> QED BY <4>1, <1>c
    <3>2. CASE s \notin RmwServers
      BY <1>6, <3>2, <1>c DEF Arrive
    <3> QED BY <3>1, <3>2
  <2>5. UNCHANGED <<unread, announced>>
    BY <1>6 DEF Arrive
  <2>6. (\A f \in {unread, notifying, arrived, announced} : f \in [Servers -> Nat])'
    BY <1>c, <2>4, <2>5
  <2> QED BY <1>6, <1>u, <2>3, <2>6 DEF Arrive, TypeOK, Shape
<1>7. ASSUME NEW s \in Servers, Notify(s) PROVE G
  <2>1. /\ announced' \in [Servers -> Nat] /\ notifying' \in [Servers -> Nat]
        /\ unread' \in [Servers -> Nat]
    <3>1. notifying' = [notifying EXCEPT ![s] = @ - 1] /\ notifying[s] > 0
      BY <1>7 DEF Notify
    <3>2. CASE callback[s]
      <4>1. announced' = [announced EXCEPT ![s] = @ + 1] /\ UNCHANGED unread
        BY <1>7, <3>2 DEF Notify
      <4> QED BY <3>1, <4>1, <1>c
    <3>3. CASE ~callback[s]
      <4>1. unread' = [unread EXCEPT ![s] = @ + 1] /\ UNCHANGED announced
        BY <1>7, <3>3 DEF Notify
      <4> QED BY <3>1, <4>1, <1>c
    <3> QED BY <3>2, <3>3
  <2>2. UNCHANGED arrived
    BY <1>7 DEF Notify
  <2>3. (\A f \in {unread, notifying, arrived, announced} : f \in [Servers -> Nat])'
    BY <1>c, <2>1, <2>2
  <2> QED BY <1>7, <1>u, <2>3 DEF Notify, TypeOK, Shape
<1>8. ASSUME NEW s \in Servers, DrainUnread(s) PROVE G
  <2>1. announced' \in [Servers -> Nat] /\ unread' \in [Servers -> Nat]
    BY <1>8, <1>c DEF DrainUnread
  <2>2. setting' \in [Servers -> BOOLEAN]
    BY <1>8 DEF DrainUnread, TypeOK
  <2>3. UNCHANGED <<arrived, notifying>>
    BY <1>8 DEF DrainUnread
  <2>4. (\A f \in {unread, notifying, arrived, announced} : f \in [Servers -> Nat])'
    BY <1>c, <2>1, <2>3
  <2> QED BY <1>8, <1>u, <2>2, <2>4 DEF DrainUnread, TypeOK, Shape
<1>9. ASSUME NEW s \in Servers, StoreCallback(s) \/ ClearCallback(s) PROVE G
  <2>1. setting' \in [Servers -> BOOLEAN] /\ callback' \in [Servers -> BOOLEAN]
    BY <1>9 DEF StoreCallback, ClearCallback, TypeOK
  <2> QED BY <1>9, <1>u, <2>1 DEF StoreCallback, ClearCallback, TypeOK, Shape
<1>10. ASSUME NEW s \in Servers, TakeRequest(s) \/ DiscardRequest(s) PROVE G
  <2>1. queue[s] \in Seq(Requests) /\ queue[s] # <<>> /\ Len(queue[s]) <= Depth
    BY <1>10, ServerType DEF TakeRequest, DiscardRequest
  <2>2. Tail(queue[s]) \in Seq(Requests) /\ Len(Tail(queue[s])) <= Depth
    BY <2>1, TailFacts
  <2>3. queue' = [queue EXCEPT ![s] = Tail(queue[s])]
    BY <1>10 DEF TakeRequest, DiscardRequest
  <2>4. /\ queue' \in [Servers -> Seq(Requests)]
        /\ \A v \in Servers : Len(queue'[v]) <= Depth
    BY <2>2, <2>3 DEF TypeOK, Shape
  <2>5. CASE TakeRequest(s)
    <3>1. Head(queue[s]) \in Requests /\ id[Head(queue[s])] \in Numbers
      BY <2>1, TailFacts, QueuedNumbered
    <3>2. pending' = [pending EXCEPT ![s] =
                         Remember(pending[s], id[Head(queue[s])], Head(queue[s]))]
      BY <2>5 DEF TakeRequest
    <3>3. \A v \in Servers : /\ DOMAIN pending'[v] \subseteq Numbers
                             /\ \A n \in DOMAIN pending'[v] : pending'[v][n] \in Requests
      <4> TAKE v \in Servers
      <4>1. CASE v = s
        <5>1. pending'[v] = Remember(pending[s], id[Head(queue[s])], Head(queue[s]))
          BY <3>2, <4>1 DEF Shape
        <5> QED BY <3>1, <5>1, ServerType DEF Remember
      <4>2. CASE v # s
        BY <3>2, <4>2, ServerType DEF Shape
      <4> QED BY <4>1, <4>2
    <3>4. pending' = [v \in Servers |-> pending'[v]]
      BY <3>2 DEF Shape
    <3> QED BY <2>4, <2>5, <3>3, <3>4, <1>u DEF TakeRequest, TypeOK, Shape
  <2>6. CASE DiscardRequest(s)
    BY <2>4, <2>6, <1>u DEF DiscardRequest, TypeOK, Shape
  <2> QED BY <1>10, <2>5, <2>6
<1>11. ASSUME NEW s \in Servers, DestroyServer(s) PROVE G
  <2>1. /\ queue' \in [Servers -> Seq(Requests)]
        /\ \A v \in Servers : Len(queue'[v]) <= Depth
    BY <1>11 DEF DestroyServer, TypeOK, Shape
  <2>2. pending' = [pending EXCEPT ![s] = <<>>]
    BY <1>11 DEF DestroyServer
  <2>3. \A v \in Servers : /\ DOMAIN pending'[v] \subseteq Numbers
                           /\ \A n \in DOMAIN pending'[v] : pending'[v][n] \in Requests
    BY <2>2, ServerType DEF Shape
  <2>4. pending' = [v \in Servers |-> pending'[v]]
    BY <2>2 DEF Shape
  <2> QED BY <1>11, <1>u, <2>1, <2>3, <2>4 DEF DestroyServer, TypeOK, Shape
<1>12. ASSUME NEW s \in Servers, NEW n \in Numbers, SendResponse(s, n) \/ DropReply(s, n) PROVE G
  <2>1. pending' = [pending EXCEPT ![s] = Forget(pending[s], n)] /\ n \in DOMAIN pending[s]
    BY <1>12 DEF SendResponse, DropReply
  <2>2. pending[s][n] \in Requests
    BY <2>1, ServerType
  <2>3. \A v \in Servers : /\ DOMAIN pending'[v] \subseteq Numbers
                           /\ \A m \in DOMAIN pending'[v] : pending'[v][m] \in Requests
    <3> TAKE v \in Servers
    <3>1. CASE v = s
      <4>1. pending'[v] = Forget(pending[s], n)
        BY <2>1, <3>1 DEF Shape
      <4> QED BY <2>2, <4>1, ServerType DEF Forget
    <3>2. CASE v # s
      BY <2>1, <3>2, ServerType DEF Shape
    <3> QED BY <3>1, <3>2
  <2>4. pending' = [v \in Servers |-> pending'[v]]
    BY <2>1 DEF Shape
  <2>5. back' \subseteq Requests \X Servers \X Numbers /\ answered' \subseteq Pairs
    BY <1>12, <2>2 DEF SendResponse, DropReply, TypeOK, Pairs
  <2> QED BY <1>12, <1>u, <2>3, <2>4, <2>5 DEF SendResponse, DropReply, TypeOK, Shape
<1>13. CASE UNCHANGED vars
  BY <1>13, <1>u DEF vars, TypeOK, Shape
<1> QED BY <1>1, <1>2, <1>3, <1>4, <1>5, <1>6, <1>7, <1>8, <1>9, <1>10, <1>11, <1>12, <1>13
        DEF Next

-----------------------------------------------------------------------------
\* new_attachment hands out each number once.
LEMMA NumberNext == SInv /\ [Next]_vars => OwnNumber'
<1> SUFFICES ASSUME SInv, [Next]_vars PROVE OwnNumber'
  OBVIOUS
<1>a. TypeOK /\ OwnNumber
  BY DEF SInv
<1>b. sn \in Nat \ {0} /\ \A r \in Requests : id[r] \in Nat
  BY <1>a, FS_CardinalityType, ServiceAssumption DEF TypeOK, Numbers
<1>1. ASSUME NEW r \in Requests, Send(r) PROVE OwnNumber'
  <2>1. /\ id' = [id EXCEPT ![r] = sn] /\ sn' = sn + 1
        /\ query' = [query EXCEPT ![r] = "open"] /\ query[r] = "unsent"
    BY <1>1 DEF Send, NewAttachment
  <2> QED BY <1>a, <1>b, <2>1 DEF OwnNumber, TypeOK
<1>2. ASSUME NEW r \in Requests, QueryEnds(r) PROVE OwnNumber'
  BY <1>a, <1>2 DEF QueryEnds, OwnNumber, TypeOK
<1>3. ASSUME UNCHANGED <<sn, id, query>> PROVE OwnNumber'
  BY <1>a, <1>3 DEF OwnNumber
<1> QED BY <1>1, <1>2, <1>3
        DEF Next, vars, clientVars, CallReturns, CallTimesOut, CallFails, TakeResponse,
            ReplyArrives, Arrive, Notify, DrainUnread, StoreCallback, ClearCallback, TakeRequest,
            DiscardRequest, DestroyServer, SendResponse, DropReply

\* Whoever is held by a server was sent.
LEMMA HeldSent ==
    ASSUME SInv, NEW r \in Requests, NEW s \in Servers, Held(r, s)
    PROVE  query[r] # "unsent"
<1>1. PICK n \in DOMAIN pending[s] : pending[s][n] = r
  BY DEF Held
<1>2. n \in Numbers /\ id[r] = n
  BY <1>1, ServerType DEF SInv, Filed
<1> QED BY <1>2 DEF SInv, OwnNumber, Numbers

\* A step that only takes requests out of places keeps them at one place.
LEMMA FewerPlaces ==
    ASSUME OnePlace, out' \subseteq out, back' \subseteq back, UNCHANGED <<answered, id>>,
           \A r \in Requests : query[r] # "unsent" => query'[r] # "unsent",
           \A r \in Requests, s \in Servers : (Queued(r, s)' => Queued(r, s)) /\ (Held(r, s)' => Held(r, s))
    PROVE  OnePlace'
<1> SUFFICES ASSUME NEW r \in Requests, NEW s \in Servers
             PROVE  /\ <<r, s>> \in out' => query'[r] # "unsent" /\ ~Queued(r, s)' /\ ~Held(r, s)'
                                            /\ <<r, s>> \notin answered'
                    /\ Queued(r, s)' => query'[r] # "unsent" /\ ~Held(r, s)' /\ <<r, s>> \notin answered'
                    /\ Held(r, s)' => <<r, s>> \notin answered'
                    /\ <<r, s>> \in answered' => query'[r] # "unsent"
                    /\ \A n \in Numbers : <<r, s, n>> \in back' =>
                          <<r, s>> \in answered' /\ id'[r] = n
  BY DEF OnePlace
<1> QED BY DEF OnePlace

\* A request moves from one place of a server to the next and never back.
LEMMA PlaceNext == SInv /\ [Next]_vars => OnePlace'
<1> SUFFICES ASSUME SInv, [Next]_vars PROVE OnePlace'
  OBVIOUS
<1>a. TypeOK /\ Shape /\ OnePlace /\ Filed
  BY DEF SInv
<1>q. queue' = queue => \A r \in Requests, s \in Servers : Queued(r, s)' = Queued(r, s)
  BY DEF Queued
<1>h. pending' = pending => \A r \in Requests, s \in Servers : Held(r, s)' = Held(r, s)
  BY DEF Held
<1> USE <1>a DEF clientVars, noticeVars
<1>1. ASSUME NEW q \in Requests, Send(q) PROVE OnePlace'
  <2>1. /\ query[q] = "unsent" /\ query' = [query EXCEPT ![q] = "open"]
        /\ out' = out \cup {<<q, s>> : s \in alive}
        /\ UNCHANGED <<back, queue, pending, answered>>
    BY <1>1 DEF Send
  <2>2. \A s \in Servers : ~Queued(q, s) /\ ~Held(q, s) /\ <<q, s>> \notin answered
    BY <2>1, HeldSent DEF OnePlace
  <2>3. \A r \in Requests, s \in Servers : Queued(r, s)' = Queued(r, s) /\ Held(r, s)' = Held(r, s)
    BY <2>1, <1>q, <1>h
  <2>4. \A r \in Requests : query[r] # "unsent" => query'[r] # "unsent"
    BY <2>1 DEF TypeOK
  <2>5. query'[q] # "unsent"
    BY <2>1 DEF TypeOK
  <2>6. \A r \in Requests, s \in Servers : <<r, s>> \in out' => <<r, s>> \in out \/ r = q
    BY <2>1
  <2>7. \A r \in Requests : r # q => id'[r] = id[r]
    BY <1>1 DEF Send, NewAttachment, TypeOK
  <2>8. \A r \in Requests, s \in Servers, n \in Numbers :
           <<r, s, n>> \in back' => <<r, s>> \in answered' /\ id'[r] = n
    BY <2>1, <2>2, <2>7 DEF OnePlace
  <2> QED BY <2>1, <2>2, <2>3, <2>4, <2>5, <2>6, <2>8 DEF OnePlace
<1>2. ASSUME NEW q \in Requests, QueryEnds(q) PROVE OnePlace'
  <2>1. /\ out' = out /\ back' \subseteq back /\ UNCHANGED <<answered, queue, pending, id>>
    BY <1>2 DEF QueryEnds
  <2>2. \A r \in Requests : query[r] # "unsent" => query'[r] # "unsent"
    BY <1>2 DEF QueryEnds, TypeOK
  <2> QED BY <2>1, <2>2, <1>q, <1>h, FewerPlaces
<1>3. ASSUME NEW q \in Requests, NEW v \in Servers, NEW n \in Numbers, ReplyArrives(q, v, n)
      PROVE  OnePlace'
  BY <1>3, <1>q, <1>h, FewerPlaces DEF ReplyArrives
<1>4. ASSUME NEW q \in Requests, NEW v \in Servers, Arrive(q, v) PROVE OnePlace'
  <2>1. /\ <<q, v>> \in out /\ out' = out \ {<<q, v>>}
        /\ queue' = [queue EXCEPT ![v] = Pushed(queue[v], q)]
        /\ UNCHANGED <<back, pending, query, answered, id>>
    BY <1>4 DEF Arrive
  <2>2. \A r \in Requests, s \in Servers :
          Queued(r, s)' => Queued(r, s) \/ (r = q /\ s = v)
    <3> SUFFICES ASSUME NEW r \in Requests, NEW s \in Servers, Queued(r, s)',
                        ~(r = q /\ s = v)
                 PROVE  Queued(r, s)
      OBVIOUS
    <3>1. PICK i \in 1 .. Len(queue'[s]) : queue'[s][i] = r
      BY DEF Queued
    <3>2. CASE s # v
      BY <2>1, <3>1, <3>2 DEF Queued, Shape
    <3>3. CASE s = v
      <4>1. queue'[s] = Pushed(queue[v], q)
        BY <2>1, <3>3 DEF Shape
      <4>2. \E j \in 1 .. Len(queue[v]) : queue[v][j] = Pushed(queue[v], q)[i]
        <5>1. \A k \in 1 .. Len(Pushed(queue[v], q)) :
                 \/ Pushed(queue[v], q)[k] = q
                 \/ \E j \in 1 .. Len(queue[v]) : queue[v][j] = Pushed(queue[v], q)[k]
          BY ServerType, PushedFacts
        <5> QED BY <3>1, <3>3, <4>1, <5>1
      <4> QED BY <3>1, <3>3, <4>1, <4>2 DEF Queued
    <3> QED BY <3>2, <3>3
  <2>3. \A r \in Requests, s \in Servers : Held(r, s)' = Held(r, s)
    BY <2>1, <1>h
  <2>4. query[q] # "unsent" /\ ~Held(q, v) /\ <<q, v>> \notin answered
    BY <2>1 DEF OnePlace
  <2> QED BY <2>1, <2>2, <2>3, <2>4 DEF OnePlace
<1>5. ASSUME NEW v \in Servers, TakeRequest(v) \/ DiscardRequest(v) PROVE OnePlace'
  <2> DEFINE q == Head(queue[v])
  <2>1. /\ queue[v] # <<>> /\ queue[v] \in Seq(Requests)
        /\ queue' = [queue EXCEPT ![v] = Tail(queue[v])]
        /\ UNCHANGED <<out, back, query, answered, id>>
    BY <1>5, ServerType DEF TakeRequest, DiscardRequest
  <2>2. q \in Requests /\ Queued(q, v)
    BY <2>1, TailFacts DEF Queued
  <2>3. \A r \in Requests, s \in Servers : Queued(r, s)' => Queued(r, s) /\ ~(r = q /\ s = v)
    <3> SUFFICES ASSUME NEW r \in Requests, NEW s \in Servers, Queued(r, s)'
                 PROVE  Queued(r, s) /\ ~(r = q /\ s = v)
      OBVIOUS
    <3>1. PICK i \in 1 .. Len(queue'[s]) : queue'[s][i] = r
      BY DEF Queued
    <3>2. CASE s # v
      BY <2>1, <3>1, <3>2 DEF Queued, Shape
    <3>3. CASE s = v
      <4>1. queue'[s] = Tail(queue[v])
        BY <2>1, <3>3 DEF Shape
      <4>2. queue[v][i + 1] = r /\ i + 1 \in 1 .. Len(queue[v]) /\ i \in Nat \ {0}
        <5>1. /\ Len(Tail(queue[v])) \in Nat
              /\ \A k \in 1 .. Len(Tail(queue[v])) :
                    Tail(queue[v])[k] = queue[v][k + 1] /\ k + 1 \in 1 .. Len(queue[v])
          BY <2>1, TailFacts
        <5> QED BY <3>1, <4>1, <5>1
      <4>3. r # q
        <5>1. q = queue[v][1] /\ 1 \in 1 .. Len(queue[v])
          BY <2>1, TailFacts
        <5>2. i + 1 # 1
          BY <4>2
        <5>3. \A k, l \in 1 .. Len(queue[v]) : queue[v][k] = queue[v][l] => k = l
          BY DEF Filed
        <5> QED BY <4>2, <5>1, <5>2, <5>3
      <4> QED BY <3>3, <4>2, <4>3 DEF Queued
    <3> QED BY <3>2, <3>3
  <2>4. CASE DiscardRequest(v)
    BY <2>1, <2>3, <2>4, <1>h, FewerPlaces DEF DiscardRequest
  <2>5. CASE TakeRequest(v)
    <3>1. pending' = [pending EXCEPT ![v] = Remember(pending[v], id[q], q)]
      BY <2>5 DEF TakeRequest
    <3>2. \A r \in Requests, s \in Servers : Held(r, s)' => Held(r, s) \/ (r = q /\ s = v)
      <4> SUFFICES ASSUME NEW r \in Requests, NEW s \in Servers, Held(r, s)', ~(r = q /\ s = v)
                   PROVE  Held(r, s)
        OBVIOUS
      <4>1. PICK m \in DOMAIN pending'[s] : pending'[s][m] = r
        BY DEF Held
      <4>2. CASE s # v
        BY <3>1, <4>1, <4>2 DEF Held, Shape
      <4>3. CASE s = v
        <5>1. pending'[s] = Remember(pending[v], id[q], q)
          BY <3>1, <4>3 DEF Shape
        <5> HIDE DEF q
        <5> QED BY <4>1, <4>3, <5>1 DEF Held, Remember
      <4> QED BY <4>2, <4>3
    <3> HIDE DEF q
    <3> QED BY <2>1, <2>2, <2>3, <3>2 DEF OnePlace
  <2> QED BY <1>5, <2>4, <2>5
<1>6. ASSUME NEW v \in Servers, NEW n \in Numbers, SendResponse(v, n) \/ DropReply(v, n)
      PROVE OnePlace'
  <2> DEFINE q == pending[v][n]
  <2>1. /\ n \in DOMAIN pending[v] /\ pending' = [pending EXCEPT ![v] = Forget(pending[v], n)]
        /\ UNCHANGED <<out, queue, query, id>>
    BY <1>6 DEF SendResponse, DropReply
  <2>2. q \in Requests /\ Held(q, v) /\ id[q] = n
    BY <2>1, ServerType DEF Held, Filed
  <2> HIDE DEF q
  <2>3. \A r \in Requests, s \in Servers : Held(r, s)' => Held(r, s) /\ ~(r = q /\ s = v)
    <3> SUFFICES ASSUME NEW r \in Requests, NEW s \in Servers, Held(r, s)'
                 PROVE  Held(r, s) /\ ~(r = q /\ s = v)
      OBVIOUS
    <3>1. PICK m \in DOMAIN pending'[s] : pending'[s][m] = r
      BY DEF Held
    <3>2. CASE s # v
      BY <2>1, <3>1, <3>2 DEF Held, Shape
    <3>3. CASE s = v
      <4>1. pending'[s] = Forget(pending[v], n)
        BY <2>1, <3>3 DEF Shape
      <4>2. m \in DOMAIN pending[v] /\ m # n /\ pending[v][m] = r
        BY <3>1, <4>1 DEF Forget
      <4>3. id[r] = m
        BY <4>2 DEF Filed
      <4> QED BY <2>2, <3>3, <4>2, <4>3 DEF Held
    <3> QED BY <3>2, <3>3
  <2>4. \A r \in Requests, s \in Servers : Queued(r, s)' = Queued(r, s)
    BY <2>1, <1>q
  <2>5. CASE DropReply(v, n)
    BY <2>1, <2>3, <2>4, <2>5, FewerPlaces DEF DropReply
  <2>6. CASE SendResponse(v, n)
    <3>1. answered' = answered \cup {<<q, v>>} /\ back' \subseteq back \cup {<<q, v, n>>}
      BY <2>6 DEF SendResponse, q
    <3>2. query[q] # "unsent"
      BY <2>2, HeldSent
    <3>3. ~Queued(q, v) /\ <<q, v>> \notin out
      BY <2>2 DEF OnePlace
    <3> QED BY <2>1, <2>2, <2>3, <2>4, <3>1, <3>2, <3>3 DEF OnePlace
  <2> QED BY <1>6, <2>5, <2>6
<1>7. ASSUME NEW v \in Servers, DestroyServer(v) PROVE OnePlace'
  <2>1. /\ out' \subseteq out /\ UNCHANGED <<back, answered, query, id>>
        /\ queue' = [queue EXCEPT ![v] = <<>>] /\ pending' = [pending EXCEPT ![v] = <<>>]
    BY <1>7 DEF DestroyServer
  <2>2. \A r \in Requests, s \in Servers : (Queued(r, s)' => Queued(r, s)) /\ (Held(r, s)' => Held(r, s))
    BY <2>1 DEF Queued, Held, Shape
  <2> QED BY <2>1, <2>2, FewerPlaces
<1>8. ASSUME UNCHANGED <<out, back, answered, query, queue, pending, id>> PROVE OnePlace'
  BY <1>8, <1>q, <1>h, FewerPlaces
<1> QED BY <1>1, <1>2, <1>3, <1>4, <1>5, <1>6, <1>7, <1>8
        DEF Next, vars, CallReturns, CallTimesOut, CallFails, TakeResponse, Notify, DrainUnread,
            StoreCallback, ClearCallback

\* Queues hold a request once and tables stay filed by number.
LEMMA FiledNext == SInv /\ [Next]_vars => Filed'
<1> SUFFICES ASSUME SInv, [Next]_vars, NEW s \in Servers
             PROVE  /\ \A i, j \in 1 .. Len(queue'[s]) : queue'[s][i] = queue'[s][j] => i = j
                    /\ \A n \in DOMAIN pending'[s] : id'[pending'[s][n]] = n
  BY DEF Filed
<1> DEFINE Once == \A i, j \in 1 .. Len(queue'[s]) : queue'[s][i] = queue'[s][j] => i = j
           ByNumber == \A n \in DOMAIN pending'[s] : id'[pending'[s][n]] = n
<1>a. TypeOK /\ Shape /\ OnePlace /\ Filed
  BY DEF SInv
<1>o. queue'[s] = queue[s] => Once
  BY <1>a DEF Filed
<1>n. pending'[s] = pending[s] /\ id' = id => ByNumber
  BY <1>a DEF Filed
<1> USE <1>a DEF clientVars, noticeVars
<1> HIDE DEF Once, ByNumber
<1>1. ASSUME NEW q \in Requests, Send(q) PROVE Once /\ ByNumber
  <2>1. UNCHANGED <<queue, pending>> /\ id' = [id EXCEPT ![q] = sn] /\ query[q] = "unsent"
    BY <1>1 DEF Send, NewAttachment
  <2>2. \A n \in DOMAIN pending[s] : pending[s][n] \in Requests /\ Held(pending[s][n], s)
    BY ServerType DEF Held
  <2>3. \A n \in DOMAIN pending[s] : pending[s][n] # q
    BY <2>1, <2>2, HeldSent
  <2>4. ByNumber
    BY <2>1, <2>2, <2>3 DEF ByNumber, Filed, TypeOK
  <2> QED BY <2>1, <2>4, <1>o
<1>2. ASSUME NEW q \in Requests, NEW v \in Servers, Arrive(q, v) PROVE Once /\ ByNumber
  <2>1. /\ <<q, v>> \in out /\ queue' = [queue EXCEPT ![v] = Pushed(queue[v], q)]
        /\ UNCHANGED <<pending, id>>
    BY <1>2 DEF Arrive
  <2>2. \A i \in 1 .. Len(queue[v]) : queue[v][i] # q
    BY <2>1 DEF OnePlace, Queued
  <2>3. \A i, j \in 1 .. Len(Pushed(queue[v], q)) :
           Pushed(queue[v], q)[i] = Pushed(queue[v], q)[j] => i = j
    BY <2>2, ServerType, PushedFacts DEF Filed
  <2>4. CASE s = v
    <3>1. queue'[s] = Pushed(queue[v], q)
      BY <2>1, <2>4 DEF Shape
    <3> QED BY <2>1, <2>3, <3>1, <1>n DEF Once
  <2>5. CASE s # v
    BY <2>1, <2>5, <1>o, <1>n DEF Shape
  <2> QED BY <2>4, <2>5
<1>3. ASSUME NEW v \in Servers, TakeRequest(v) \/ DiscardRequest(v) PROVE Once /\ ByNumber
  <2> DEFINE q == Head(queue[v])
  <2>1. /\ queue[v] # <<>> /\ queue[v] \in Seq(Requests) /\ id' = id
        /\ queue' = [queue EXCEPT ![v] = Tail(queue[v])]
    BY <1>3, ServerType DEF TakeRequest, DiscardRequest
  <2>2. Once
    <3>1. CASE s # v
      BY <2>1, <3>1, <1>o DEF Shape
    <3>2. CASE s = v
      <4>1. queue'[s] = Tail(queue[v])
        BY <2>1, <3>2 DEF Shape
      <4>2. /\ Len(Tail(queue[v])) \in Nat
            /\ \A k \in 1 .. Len(Tail(queue[v])) :
                  Tail(queue[v])[k] = queue[v][k + 1] /\ k + 1 \in 1 .. Len(queue[v])
        BY <2>1, TailFacts
      <4>3. \A i, j \in 1 .. Len(queue[v]) : queue[v][i] = queue[v][j] => i = j
        BY DEF Filed
      <4>4. ASSUME NEW i \in 1 .. Len(Tail(queue[v])), NEW j \in 1 .. Len(Tail(queue[v])),
                   Tail(queue[v])[i] = Tail(queue[v])[j]
            PROVE  i = j
        <5>1. i + 1 = j + 1
          BY <4>2, <4>3, <4>4
        <5> QED BY <4>2, <5>1
      <4> QED BY <4>1, <4>4 DEF Once
    <3> QED BY <3>1, <3>2
  <2>3. ByNumber
    <3>1. CASE DiscardRequest(v)
      BY <3>1, <1>n DEF DiscardRequest
    <3>2. CASE TakeRequest(v)
      <4>1. pending' = [pending EXCEPT ![v] = Remember(pending[v], id[q], q)]
        BY <3>2 DEF TakeRequest
      <4>2. CASE s # v
        BY <2>1, <4>1, <4>2, <1>n DEF Shape
      <4>3. CASE s = v
        <5>1. pending'[s] = Remember(pending[v], id[q], q)
          BY <4>1, <4>3 DEF Shape
        <5> HIDE DEF q
        <5> QED BY <2>1, <4>3, <5>1 DEF Remember, Filed, ByNumber
      <4> QED BY <4>2, <4>3
    <3> QED BY <1>3, <3>1, <3>2
  <2> QED BY <2>2, <2>3
<1>4. ASSUME NEW v \in Servers, NEW n \in Numbers, SendResponse(v, n) \/ DropReply(v, n)
      PROVE Once /\ ByNumber
  <2>1. pending' = [pending EXCEPT ![v] = Forget(pending[v], n)] /\ UNCHANGED <<queue, id>>
    BY <1>4 DEF SendResponse, DropReply
  <2>2. CASE s # v
    BY <2>1, <2>2, <1>o, <1>n DEF Shape
  <2>3. CASE s = v
    <3>1. pending'[s] = Forget(pending[v], n)
      BY <2>1, <2>3 DEF Shape
    <3>2. ByNumber
      BY <2>1, <2>3, <3>1 DEF Forget, Filed, ByNumber
    <3> QED BY <2>1, <3>2, <1>o
  <2> QED BY <2>2, <2>3
<1>5. ASSUME NEW v \in Servers, DestroyServer(v) PROVE Once /\ ByNumber
  <2>1. /\ queue' = [queue EXCEPT ![v] = <<>>] /\ pending' = [pending EXCEPT ![v] = <<>>]
        /\ UNCHANGED id
    BY <1>5 DEF DestroyServer
  <2>2. CASE s # v
    BY <2>1, <2>2, <1>o, <1>n DEF Shape
  <2>3. CASE s = v
    BY <2>1, <2>3 DEF Shape, Once, ByNumber
  <2> QED BY <2>2, <2>3
<1>6. ASSUME UNCHANGED <<queue, pending, id>> PROVE Once /\ ByNumber
  BY <1>6, <1>o, <1>n
<1> QED BY <1>1, <1>2, <1>3, <1>4, <1>5, <1>6
        DEF Next, vars, CallReturns, CallTimesOut, CallFails, QueryEnds, TakeResponse,
            ReplyArrives, Notify, DrainUnread, StoreCallback, ClearCallback, Once, ByNumber

\* The reply callback only stores what a server sent, under the number of the
\* request or in the channel of the call.
LEMMA ReceivedNext == SInv /\ [Next]_vars => Received'
<1> SUFFICES ASSUME SInv, [Next]_vars PROVE Received'
  OBVIOUS
<1>a. TypeOK /\ OnePlace /\ OwnNumber /\ Received
  BY DEF SInv
<1> USE <1>a DEF clientVars, noticeVars
<1>k. ASSUME UNCHANGED <<completed, slot>>, answered \subseteq answered',
             \A r \in Requests : id[r] # 0 => id'[r] = id[r]
      PROVE  Received'
  <2>1. ASSUME NEW i \in 1 .. Len(completed')
        PROVE  \E r \in Requests \ Calls : /\ id'[r] = completed'[i].sn
                                           /\ <<r, completed'[i].server>> \in answered'
    <3>1. PICK r \in Requests \ Calls : /\ id[r] = completed[i].sn
                                        /\ <<r, completed[i].server>> \in answered
      BY <1>k, <2>1 DEF Received
    <3>2. completed[i] \in Response
      BY <1>k, <2>1 DEF TypeOK
    <3>3. id[r] # 0
      BY <3>1, <3>2 DEF Response, Numbers
    <3> QED BY <1>k, <3>1, <3>3
  <2> QED BY <1>k, <2>1 DEF Received
<1>1. ASSUME NEW q \in Requests, Send(q) PROVE Received'
  <2>1. \A r \in Requests : id[r] # 0 => id'[r] = id[r]
    BY <1>1 DEF Send, NewAttachment, OwnNumber, TypeOK
  <2> QED BY <1>1, <1>k, <2>1 DEF Send
<1>2. CASE TakeResponse
  <2>1. /\ completed # <<>> /\ completed' = Tail(completed) /\ UNCHANGED <<id, slot, answered>>
    BY <1>2 DEF TakeResponse
  <2>2. \A i \in 1 .. Len(completed') :
           completed'[i] = completed[i + 1] /\ i + 1 \in 1 .. Len(completed)
    BY <2>1 DEF TypeOK
  <2>3. ASSUME NEW i \in 1 .. Len(completed')
        PROVE  \E r \in Requests \ Calls : /\ id'[r] = completed'[i].sn
                                           /\ <<r, completed'[i].server>> \in answered'
    <3>1. PICK k \in 1 .. Len(completed) : completed'[i] = completed[k]
      BY <2>2
    <3>2. PICK r \in Requests \ Calls : /\ id[r] = completed[k].sn
                                        /\ <<r, completed[k].server>> \in answered
      BY DEF Received
    <3> QED BY <2>1, <3>1, <3>2
  <2> QED BY <2>1, <2>3 DEF Received
<1>3. ASSUME NEW q \in Requests, NEW v \in Servers, NEW n \in Numbers, ReplyArrives(q, v, n)
      PROVE  Received'
  <2>1. <<q, v>> \in answered /\ id[q] = n /\ UNCHANGED <<id, answered>>
    BY <1>3 DEF ReplyArrives, OnePlace
  <2>2. \A r \in Requests : slot'[r] # None => r \in Calls /\ <<r, slot'[r]>> \in answered'
    BY <1>3, <2>1 DEF ReplyArrives, Received, TypeOK
  <2>3. CASE completed' = completed
    BY <2>1, <2>2, <2>3 DEF Received
  <2>4. CASE completed' # completed
    <3> DEFINE a == [sn |-> n, server |-> v]
    <3>1. q \notin Calls /\ completed' = Append(completed, a)
      BY <1>3, <2>4 DEF ReplyArrives
    <3>2. a.sn = n /\ a.server = v
      OBVIOUS
    <3> HIDE DEF a
    <3>3. \A i \in 1 .. Len(completed') :
             (i \in 1 .. Len(completed) /\ completed'[i] = completed[i]) \/ completed'[i] = a
      BY <3>1 DEF TypeOK
    <3> QED BY <2>1, <2>2, <3>1, <3>2, <3>3 DEF Received
  <2> QED BY <2>3, <2>4
<1>4. ASSUME UNCHANGED <<completed, slot, id>>, answered \subseteq answered' PROVE Received'
  BY <1>4, <1>k
<1> QED BY <1>1, <1>2, <1>3, <1>4
        DEF Next, vars, CallReturns, CallTimesOut, CallFails, QueryEnds, Arrive, Notify,
            DrainUnread, StoreCallback, ClearCallback, TakeRequest, DiscardRequest,
            DestroyServer, SendResponse, DropReply

\* A request is counted as arrived, then notified, and then either announced or
\* counted as unread; draining the count announces it.
LEMMA AnnouncedNext == SInv /\ [Next]_vars => AnnouncedOnce'
<1> SUFFICES ASSUME SInv, [Next]_vars PROVE AnnouncedOnce'
  OBVIOUS
<1>a. AnnouncedOnce
  BY DEF SInv
<1>c. /\ unread \in [Servers -> Nat] /\ notifying \in [Servers -> Nat]
      /\ arrived \in [Servers -> Nat] /\ announced \in [Servers -> Nat]
  BY DEF SInv, TypeOK
<1> USE <1>a, <1>c DEF AnnouncedOnce, noticeVars
<1>1. ASSUME NEW r \in Requests, NEW s \in Servers, Arrive(r, s) PROVE AnnouncedOnce'
  <2>1. CASE s \in RmwServers
    BY <1>1, <2>1 DEF Arrive
  <2>2. CASE s \notin RmwServers
    BY <1>1, <2>2 DEF Arrive
  <2> QED BY <2>1, <2>2
<1>2. ASSUME NEW s \in Servers, Notify(s) PROVE AnnouncedOnce'
  <2>1. CASE callback[s]
    <3>1. /\ notifying' = [notifying EXCEPT ![s] = @ - 1] /\ notifying[s] > 0
          /\ announced' = [announced EXCEPT ![s] = @ + 1] /\ UNCHANGED <<unread, arrived>>
      BY <1>2, <2>1 DEF Notify
    <3> QED BY <3>1
  <2>2. CASE ~callback[s]
    BY <1>2, <2>2 DEF Notify
  <2> QED BY <2>1, <2>2
<1>3. ASSUME NEW s \in Servers, DrainUnread(s) PROVE AnnouncedOnce'
  BY <1>3 DEF DrainUnread
<1>4. ASSUME UNCHANGED <<unread, notifying, arrived, announced>> PROVE AnnouncedOnce'
  BY <1>4
<1> QED BY <1>1, <1>2, <1>3, <1>4
        DEF Next, vars, Send, CallReturns, CallTimesOut, CallFails, QueryEnds, TakeResponse,
            ReplyArrives, StoreCallback, ClearCallback, TakeRequest, DiscardRequest,
            DestroyServer, SendResponse, DropReply

\* The inductive invariant holds in every reachable state.
THEOREM SInvCorrect == Spec => []SInv
<1>1. SInv /\ [Next]_vars => SInv'
  BY TypeNext, NumberNext, PlaceNext, FiledNext, ReceivedNext, AnnouncedNext DEF SInv
<1> QED BY <1>1, InitSInv, PTL DEF Spec

\* Every response the client holds was sent by that server for that request, and
\* what a server still has to answer it has not answered before
\* (crates/hiroz/src/service.rs: new_attachment, the reply callback,
\* take_request and send_response).
THEOREM CorrelatedCorrect == Spec => []Correlated
<1>1. SInv => Correlated
  <2> SUFFICES ASSUME SInv PROVE Correlated
    OBVIOUS
  <2>a. TypeOK /\ Shape /\ OwnNumber /\ OnePlace /\ Filed /\ Received
    BY DEF SInv
  <2>1. ASSUME NEW i \in 1 .. Len(completed)
        PROVE  \E r \in Requests \ Calls :
                  /\ id[r] = completed[i].sn
                  /\ <<r, completed[i].server>> \in answered
                  /\ \A q \in Requests : id[q] = completed[i].sn => q = r
    <3>1. PICK r \in Requests \ Calls : /\ id[r] = completed[i].sn
                                        /\ <<r, completed[i].server>> \in answered
      BY <2>a DEF Received
    <3>2. completed[i] \in Response
      BY <2>a DEF TypeOK
    <3>3. id[r] # 0
      BY <3>1, <3>2 DEF Response, Numbers
    <3> QED BY <2>a, <3>1, <3>3 DEF OwnNumber
  <2>2. ASSUME NEW s \in Servers, NEW n \in DOMAIN pending[s]
        PROVE  /\ id[pending[s][n]] = n
               /\ <<pending[s][n], s>> \notin answered
               /\ \A i \in 1 .. Len(queue[s]) : queue[s][i] # pending[s][n]
    <3>1. pending[s][n] \in Requests /\ Held(pending[s][n], s)
      BY <2>a, ServerType DEF Held
    <3> QED BY <2>a, <3>1 DEF Filed, OnePlace, Queued
  <2> QED BY <2>a, <2>1, <2>2, ServiceAssumption DEF Correlated, Received
<1> QED BY <1>1, SInvCorrect, PTL

\* Every request that reached a server is announced once or still counted,
\* however setting the callback interleaves with arrivals (rmw.rs:
\* rmw_service_set_on_new_request_callback and the notifier).
THEOREM AnnouncedOnceCorrect == Spec => []AnnouncedOnce
<1>1. SInv => AnnouncedOnce
  BY DEF SInv
<1> QED BY <1>1, SInvCorrect, PTL
=============================================================================
