------------------------------ MODULE Service ------------------------------
(***************************************************************************)
(* Service clients and servers: crates/hiroz/src/service.rs, their rmw     *)
(* halves in crates/rmw-zenoh-rs/src/service.rs and the new-request        *)
(* callback of crates/rmw-zenoh-rs/src/rmw.rs.                             *)
(*                                                                         *)
(* One client sends each request as a zenoh query to every server of the   *)
(* service. A request is either a call that waits for its own reply        *)
(* (ZClient::call, call_with_timeout) or one whose responses go to the     *)
(* client's shared response channel (rmw_send_request). Zenoh is external: *)
(* queries and replies are lost, delayed and reordered, and a query ends   *)
(* at the latest with the querier's timeout, ten seconds for every client  *)
(* but the result client of an action (ActionClient).                      *)
(***************************************************************************)
EXTENDS Naturals, Sequences, FiniteSets

CONSTANTS
    Requests,       \* the requests the client sends, once each
    Calls,          \* those that are calls; the others are rmw requests
    Servers,
    RmwServers,     \* those built with a notifier, by rmw_create_service
    Depth,          \* QoS depth of a server's request queue
    ResponseDepth,  \* QoS depth of the client's response channel
    None

ASSUME ServiceAssumption ==
    /\ IsFiniteSet(Requests) /\ IsFiniteSet(Servers)
    /\ Calls \subseteq Requests
    /\ RmwServers \subseteq Servers
    /\ Depth \in Nat \ {0} /\ ResponseDepth \in Nat \ {0}
    /\ None \notin Servers

VARIABLES
    sn,         \* the client's sequence counter
    id,         \* id[r]: the sequence number of a request, 0 before it is sent
    query,      \* query[r]: "unsent", "open" or "final", as zenoh sees it
    out,        \* queries on the way: <<request, server>>
    back,       \* replies on the way: <<request, server, number echoed>>
    alive,      \* servers that have not been destroyed
    queue,      \* queue[s]: requests not yet taken
    pending,    \* pending[s]: taken requests by sequence number
    completed,  \* completed: responses to rmw requests: [sn, server]
    slot,       \* slot[r]: the reply in the call's oneshot channel
    call,       \* call[r]: the state of a call
    callback,   \* callback[s]: an on-new-request callback is stored
    setting,    \* setting[s]: the unread count is drained, the callback not stored
    unread,     \* unread[s]: unread_count
    notifying,  \* notifying[s]: zenoh threads between push and notification
    \* history, for the properties:
    arrived,    \* arrived[s]: requests pushed
    announced,  \* announced[s]: sum of the counts passed to callbacks
    answered    \* answers sent: <<request, server>>

clientVars == <<sn, id, query, completed, slot, call>>
noticeVars == <<callback, setting, unread, notifying, arrived, announced>>
vars == <<sn, id, query, out, back, alive, queue, pending, completed, slot, call,
          callback, setting, unread, notifying, arrived, announced, answered>>

Numbers == 1 .. Cardinality(Requests)
Pairs == Requests \X Servers
Response == [sn : Numbers, server : Servers]

TypeOK ==
    /\ sn \in 1 .. Cardinality(Requests) + 1
    /\ id \in [Requests -> Numbers \cup {0}]
    /\ query \in [Requests -> {"unsent", "open", "final"}]
    /\ out \subseteq Pairs /\ answered \subseteq Pairs
    /\ back \subseteq Requests \X Servers \X Numbers
    /\ alive \subseteq Servers
    /\ \A s \in Servers : /\ queue[s] \in Seq(Requests)
                          /\ Len(queue[s]) <= Depth
                          /\ DOMAIN pending[s] \subseteq Numbers
                          /\ \A n \in DOMAIN pending[s] : pending[s][n] \in Requests
    /\ completed \in Seq(Response) /\ Len(completed) <= ResponseDepth
    /\ slot \in [Requests -> Servers \cup {None}]
    /\ call \in [Requests -> {"idle", "waiting", "returned", "failed", "timeout"}]
    /\ callback \in [Servers -> BOOLEAN] /\ setting \in [Servers -> BOOLEAN]
    /\ \A f \in {unread, notifying, arrived, announced} : f \in [Servers -> Nat]

Init ==
    /\ sn = 1
    /\ id = [r \in Requests |-> 0]
    /\ query = [r \in Requests |-> "unsent"]
    /\ out = {} /\ back = {} /\ answered = {}
    /\ alive = Servers
    /\ queue = [s \in Servers |-> <<>>]
    /\ pending = [s \in Servers |-> <<>>]
    /\ completed = <<>>
    /\ slot = [r \in Requests |-> None]
    /\ call = [r \in Requests |-> "idle"]
    /\ callback = [s \in Servers |-> FALSE]
    /\ setting = [s \in Servers |-> FALSE]
    /\ unread = [s \in Servers |-> 0]
    /\ notifying = [s \in Servers |-> 0]
    /\ arrived = [s \in Servers |-> 0]
    /\ announced = [s \in Servers |-> 0]

-----------------------------------------------------------------------------
(* The client *)

\* Mutant: the counter is read and written back by the next request only.
NewAttachmentShared(r) ==
    /\ id' = [id EXCEPT ![r] = sn]
    /\ UNCHANGED sn

\* new_attachment: one fetch_add, so that threads never share a number
NewAttachment(r) ==
    /\ id' = [id EXCEPT ![r] = sn]
    /\ sn' = sn + 1

\* call_sample up to its await, and rmw_send_request
Send(r) ==
    /\ query[r] = "unsent"
    /\ NewAttachment(r)
    /\ query' = [query EXCEPT ![r] = "open"]
    /\ out' = out \cup {<<r, s>> : s \in alive}
    /\ call' = [call EXCEPT ![r] = IF r \in Calls THEN "waiting" ELSE "idle"]
    /\ UNCHANGED <<back, alive, queue, pending, completed, slot, noticeVars, answered>>

\* The reply callback of a query. A call takes its oneshot sender once: the
\* first reply is kept, later ones are dropped. An rmw response is dropped when
\* the channel is full; the number it is known by is the one in its attachment.
ReplyArrives(r, s, n) ==
    /\ <<r, s, n>> \in back
    /\ query[r] = "open"
    /\ back' = back \ {<<r, s, n>>}
    /\ slot' = IF r \in Calls /\ slot[r] = None /\ call[r] = "waiting"
               THEN [slot EXCEPT ![r] = s] ELSE slot
    /\ completed' = IF r \notin Calls /\ Len(completed) < ResponseDepth
                    THEN Append(completed, [sn |-> n, server |-> s])
                    ELSE completed
    /\ UNCHANGED <<sn, id, query, out, alive, queue, pending, call, noticeVars,
                   answered>>

CallReturns(r) ==
    /\ call[r] = "waiting" /\ slot[r] # None
    /\ call' = [call EXCEPT ![r] = "returned"]
    /\ UNCHANGED <<sn, id, query, out, back, alive, queue, pending, completed, slot,
                   noticeVars, answered>>

\* call_with_timeout drops the future; the query lives on.
CallTimesOut(r) ==
    /\ call[r] = "waiting" /\ slot[r] = None
    /\ call' = [call EXCEPT ![r] = "timeout"]
    /\ UNCHANGED <<sn, id, query, out, back, alive, queue, pending, completed, slot,
                   noticeVars, answered>>

\* Mutant: the client keeps the sender of a call that has no reply.
CallHangs(r) ==
    /\ call[r] = "waiting" /\ slot[r] # None /\ query[r] = "final"
    /\ call' = [call EXCEPT ![r] = "failed"]
    /\ UNCHANGED <<sn, id, query, out, back, alive, queue, pending, completed, slot,
                   noticeVars, answered>>

\* The query has ended and its callback, with the sender in it, is dropped.
CallFails(r) ==
    /\ call[r] = "waiting" /\ slot[r] = None /\ query[r] = "final"
    /\ call' = [call EXCEPT ![r] = "failed"]
    /\ UNCHANGED <<sn, id, query, out, back, alive, queue, pending, completed, slot,
                   noticeVars, answered>>

\* take_response
TakeResponse ==
    /\ completed # <<>>
    /\ completed' = Tail(completed)
    /\ UNCHANGED <<sn, id, query, out, back, alive, queue, pending, slot, call,
                   noticeVars, answered>>

\* Zenoh ends a query: every server is done with it, or the querier's timeout
\* has passed. Replies to it that are still on the way will be dropped.
QueryEnds(r) ==
    /\ query[r] = "open"
    /\ query' = [query EXCEPT ![r] = "final"]
    /\ back' = {a \in back : a[1] # r}
    /\ UNCHANGED <<sn, id, out, alive, queue, pending, completed, slot, call,
                   noticeVars, answered>>

-----------------------------------------------------------------------------
(* The server *)

\* The bounded queue drops its oldest request when it is full.
Pushed(q, r) == Append(IF Len(q) >= Depth THEN Tail(q) ELSE q, r)

\* DataHandler::Queue pushes; QueueWithNotifier then notifies, in a later step.
Arrive(r, s) ==
    /\ <<r, s>> \in out
    /\ s \in alive
    /\ out' = out \ {<<r, s>>}
    /\ queue' = [queue EXCEPT ![s] = Pushed(@, r)]
    /\ IF s \in RmwServers
       THEN /\ arrived' = [arrived EXCEPT ![s] = @ + 1]
            /\ notifying' = [notifying EXCEPT ![s] = @ + 1]
       ELSE UNCHANGED <<arrived, notifying>>
    /\ UNCHANGED <<back, alive, pending, clientVars, callback, setting, unread,
                   announced, answered>>

\* notify_callback, under the callback's lock: call it or count the request
Notify(s) ==
    /\ notifying[s] > 0
    /\ notifying' = [notifying EXCEPT ![s] = @ - 1]
    /\ IF callback[s]
       THEN announced' = [announced EXCEPT ![s] = @ + 1] /\ UNCHANGED unread
       ELSE unread' = [unread EXCEPT ![s] = @ + 1] /\ UNCHANGED announced
    /\ UNCHANGED <<out, back, alive, queue, pending, clientVars, callback, setting,
                   arrived, answered>>

\* Mutant: the unread count is announced and kept.
DrainKeepsCount(s) ==
    /\ s \in alive \cap RmwServers /\ ~ setting[s]
    /\ setting' = [setting EXCEPT ![s] = TRUE]
    /\ announced' = [announced EXCEPT ![s] = @ + unread[s]]
    /\ UNCHANGED <<out, back, alive, queue, pending, clientVars, callback, unread,
                   notifying, arrived, answered>>

\* rmw_service_set_on_new_request_callback, also of a server that has a callback
\* (calls for one server do not overlap): the unread requests are announced
\* under the lock of the count ...
DrainUnread(s) ==
    /\ s \in alive \cap RmwServers /\ ~ setting[s]
    /\ setting' = [setting EXCEPT ![s] = TRUE]
    /\ announced' = [announced EXCEPT ![s] = @ + unread[s]]
    /\ unread' = [unread EXCEPT ![s] = 0]
    /\ UNCHANGED <<out, back, alive, queue, pending, clientVars, callback, notifying,
                   arrived, answered>>

\* ... and the callback is stored under its own.
StoreCallback(s) ==
    /\ setting[s]
    /\ setting' = [setting EXCEPT ![s] = FALSE]
    /\ callback' = [callback EXCEPT ![s] = TRUE]
    /\ UNCHANGED <<out, back, alive, queue, pending, clientVars, unread, notifying,
                   arrived, announced, answered>>

ClearCallback(s) ==
    /\ s \in alive /\ callback[s]
    /\ callback' = [callback EXCEPT ![s] = FALSE]
    /\ UNCHANGED <<out, back, alive, queue, pending, clientVars, setting, unread,
                   notifying, arrived, announced, answered>>

\* pending.insert(request_id, reply)
Remember(f, n, r) == [m \in DOMAIN f \cup {n} |-> IF m = n THEN r ELSE f[m]]
Forget(f, n) == [m \in DOMAIN f \ {n} |-> f[m]]

\* ServiceImpl::take_request, take_request and async_take_request
TakeRequest(s) ==
    /\ s \in alive /\ queue[s] # <<>>
    /\ queue' = [queue EXCEPT ![s] = Tail(@)]
    /\ pending' = [pending EXCEPT ![s] = Remember(@, id[Head(queue[s])], Head(queue[s]))]
    /\ UNCHANGED <<out, back, alive, clientVars, noticeVars, answered>>

\* A request without a readable attachment is an error, and its query dropped.
DiscardRequest(s) ==
    /\ s \in alive /\ queue[s] # <<>>
    /\ queue' = [queue EXCEPT ![s] = Tail(@)]
    /\ UNCHANGED <<out, back, alive, pending, clientVars, noticeVars, answered>>

\* send_response: the reply leaves the map and answers its own query, with the
\* number that it was filed under
SendResponse(s, n) ==
    /\ s \in alive /\ n \in DOMAIN pending[s]
    /\ pending' = [pending EXCEPT ![s] = Forget(@, n)]
    /\ back' = IF query[pending[s][n]] = "open"
               THEN back \cup {<<pending[s][n], s, n>>} ELSE back
    /\ answered' = answered \cup {<<pending[s][n], s>>}
    /\ UNCHANGED <<out, alive, queue, clientVars, noticeVars>>

\* The reply fails, or its ServiceReply is dropped unanswered.
DropReply(s, n) ==
    /\ s \in alive /\ n \in DOMAIN pending[s]
    /\ pending' = [pending EXCEPT ![s] = Forget(@, n)]
    /\ UNCHANGED <<out, back, alive, queue, clientVars, noticeVars, answered>>

\* rmw_destroy_service: the queue and the pending replies go with the server.
DestroyServer(s) ==
    /\ s \in alive /\ ~ setting[s]
    /\ alive' = alive \ {s}
    /\ out' = {q \in out : q[2] # s}
    /\ queue' = [queue EXCEPT ![s] = <<>>]
    /\ pending' = [pending EXCEPT ![s] = <<>>]
    /\ UNCHANGED <<back, clientVars, noticeVars, answered>>

Next ==
    \/ \E r \in Requests : Send(r) \/ CallReturns(r) \/ CallTimesOut(r) \/ CallFails(r)
                           \/ QueryEnds(r)
    \/ TakeResponse
    \/ \E r \in Requests, s \in Servers : Arrive(r, s)
    \/ \E r \in Requests, s \in Servers, n \in Numbers : ReplyArrives(r, s, n)
    \/ \E s \in Servers : \/ Notify(s) \/ DrainUnread(s) \/ StoreCallback(s)
                          \/ ClearCallback(s) \/ TakeRequest(s) \/ DiscardRequest(s)
                          \/ DestroyServer(s)
    \/ \E s \in Servers, n \in Numbers : SendResponse(s, n) \/ DropReply(s, n)

Spec == Init /\ [][Next]_vars

\* The querier has a timeout, and a waiting task runs once it is woken. Nothing
\* is assumed of the servers or of the network.
Fairness ==
    \A r \in Requests : /\ WF_vars(QueryEnds(r))
                        /\ WF_vars(CallReturns(r))
                        /\ WF_vars(CallFails(r))

FairSpec == Spec /\ Fairness

-----------------------------------------------------------------------------
(* Properties *)

\* Every response the client gets was sent by that server for that very
\* request: the sequence number a response carries in the shared channel names
\* one request, and a call's own channel only gets the replies to that call. A
\* server answers by that number what it took and did not answer before.
Correlated ==
    /\ TypeOK
    /\ \A i \in 1 .. Len(completed) :
          \E r \in Requests \ Calls :
             /\ id[r] = completed[i].sn
             /\ <<r, completed[i].server>> \in answered
             /\ \A q \in Requests : id[q] = completed[i].sn => q = r
    /\ \A r \in Calls : slot[r] # None => <<r, slot[r]>> \in answered
    /\ \A r \in Requests \ Calls : slot[r] = None
    /\ \A s \in Servers : \A n \in DOMAIN pending[s] :
          /\ id[pending[s][n]] = n
          /\ <<pending[s][n], s>> \notin answered
          /\ \A i \in 1 .. Len(queue[s]) : queue[s][i] # pending[s][n]

\* Every request that reached a server is announced once or still counted as
\* unread, however setting the callback interleaves with arrivals. One that is
\* counted between the drain and the store stays unread under the new callback.
AnnouncedOnce ==
    \A s \in Servers : arrived[s] = announced[s] + unread[s] + notifying[s]

\* A call ends: with the first reply, by its own timeout, or with the query, at
\* the querier's timeout. It never hangs on a server that keeps, drops or loses
\* the request. The documentation in service.rs says otherwise: that call waits
\* "indefinitely for the first reply", and that a request dropped without a reply
\* "leaves the client waiting indefinitely".
CallEnds ==
    \A r \in Calls : (call[r] = "waiting") ~> (call[r] # "waiting")
=============================================================================
