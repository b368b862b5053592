----------------------------- MODULE Discovery -----------------------------
(***************************************************************************)
(* Discovery: the graph of crates/hiroz/src/graph.rs, the matched events   *)
(* of GraphEventManager (event.rs) and the endpoints rmw creates and       *)
(* destroys (crates/rmw-zenoh-rs/src/rmw.rs), seen by one session.         *)
(*                                                                         *)
(* Every endpoint has a liveliness token. zenoh tells the session about    *)
(* tokens, its own too, through a callback: samples for one key come in    *)
(* order, those for two keys may be handled at the same time. Endpoints    *)
(* of the session itself are also put into the graph directly, so that     *)
(* they are visible before their sample arrives.                           *)
(*                                                                         *)
(* One topic is modelled, with its publishers and subscriptions; services  *)
(* and clients, which raise no matched events, are left out. A Weak in an  *)
(* index whose Arc is gone is invisible, and dropped here at once.         *)
(***************************************************************************)
EXTENDS Naturals, Sequences, FiniteSets

CONSTANTS
    Local,          \* endpoints of this session, created by rmw
    Remote,         \* endpoints of other sessions
    Kind,           \* Kind[e]: "pub" or "sub"
    WaitKind,       \* what the waiter waits for
    Waiting,        \* bound: endpoints of Local created while somebody waits
    Mortal,         \* bound: endpoints of Local the program destroys
    MaxArc          \* bound: Arcs made for one entity

Endpoints == Local \cup Remote

ASSUME DiscoveryAssumption ==
    /\ IsFiniteSet(Local) /\ IsFiniteSet(Remote) /\ Local \cap Remote = {}
    /\ Kind \in [Endpoints -> {"pub", "sub"}]
    /\ Waiting \subseteq Local /\ Mortal \subseteq Local /\ MaxArc \in Nat

VARIABLES
    life,       \* life[e]: how far the endpoint's life has come
    samples,    \* samples[e]: liveliness samples not yet handled
    handler,    \* handler[e]: where the liveliness callback for e is
    replies,    \* replies of the initial liveliness query, not yet read
    cached,     \* GraphData::cached
    parsed,     \* GraphData::parsed: the entity's Arc, 0 for none
    index,      \* GraphData::by_topic: <<entity, Arc>>
    held,       \* held[l]: Arcs in the hands of rmw_create_*
    todo,       \* todo[t]: callbacks a trigger_graph_change has still to call
    current,    \* current[l]: current_count of the matched event
    waiter,     \* a task in wait_until or a thread in wait_for_service
    told,       \* history: told[l], endpoints whose appearance l was told of
    ghosts,     \* history: replies read after the token's Delete was handled
    raced       \* history: a creation overlapped another change, or an endpoint
                \* was destroyed before its Put was handled

graphVars == <<cached, parsed, index>>
discoveryVars == <<life, samples, handler, replies, cached, parsed, index, held, todo, current, waiter, told, ghosts, raced>>

\* A trigger_graph_change runs in a liveliness callback or in add_local_entity.
Triggers == {"callback", "creator"} \X Endpoints

Creating == {"registered", "counted", "checked", "added", "telling"}
Declared(e) == life[e] \in Creating \cup {"live", "removed"}
Opposite(e) == {f \in Endpoints : Kind[f] # Kind[e]}
Arcs == Endpoints \X (1 .. MaxArc)

DiscoveryTypeOK ==
    /\ life \in [Endpoints -> {"new", "live", "removed", "gone"} \cup Creating]
    /\ samples \in [Endpoints -> Seq({"put", "delete"})]
    /\ handler \in [Endpoints -> {"idle", "appeared", "disappearing", "calling", "notify"}]
    /\ replies \subseteq Remote
    /\ cached \subseteq Endpoints
    /\ parsed \in [Endpoints -> 0 .. MaxArc]
    /\ index \subseteq Arcs
    /\ held \in [Local -> SUBSET Arcs]
    /\ todo \in [Triggers -> SUBSET Local]
    /\ current \in [Local -> Nat]
    /\ waiter \in {"nobody", "idle", "armed", "notified", "parked", "locking", "checked",
                   "unheard", "blocked", "deaf", "late", "found", "gave up"}
    /\ told \in [Local -> SUBSET Endpoints]
    /\ ghosts \subseteq Remote
    /\ raced \in BOOLEAN

\* Graph::new_with_pattern, up to its query: some remote tokens are there
\* already, and come both as history of the subscriber and as replies.
DiscoveryInit ==
    \E there \in SUBSET Remote :
        /\ life = [e \in Endpoints |-> IF e \in there THEN "live" ELSE "new"]
        /\ samples = [e \in Endpoints |-> IF e \in there THEN <<"put">> ELSE <<>>]
        /\ handler = [e \in Endpoints |-> "idle"]
        /\ replies = there
        /\ cached = {} /\ parsed = [e \in Endpoints |-> 0] /\ index = {}
        /\ held = [l \in Local |-> {}]
        /\ todo = [t \in Triggers |-> {}]
        /\ current = [l \in Local |-> 0]
        /\ waiter \in {"nobody", "idle", "locking"}
        /\ told = [l \in Local |-> {}]
        /\ ghosts = {} /\ raced = FALSE

-----------------------------------------------------------------------------
(* The graph's data *)

\* The Arcs that are alive when the map is p and the readers hold h.
Alive(p, h) == {<<e, p[e]>> : e \in {f \in Endpoints : p[f] # 0}} \cup UNION {h[l] : l \in Local}

UnusedArcs(e) == {n \in 1 .. MaxArc : <<e, n>> \notin Alive(parsed, held)}
FreshArc(e) == CHOOSE n \in UnusedArcs(e) : \A m \in UnusedArcs(e) : n <= m

\* parse, which every read begins with: what is cached and not yet parsed
\* gets an Arc.
ParseNew == {e \in cached : parsed[e] = 0}
Parse ==
    /\ \A e \in ParseNew : UnusedArcs(e) # {}
    /\ parsed' = [e \in Endpoints |-> IF e \in ParseNew THEN FreshArc(e) ELSE parsed[e]]
    /\ index' = index \cup {<<e, FreshArc(e)>> : e \in ParseNew}
    /\ cached' = {}

\* visit_by_topic and count, in the state parse leaves
Visit(k) == {a \in index' : Kind[a[1]] = k}
Count(k) == Cardinality(Visit(k))

\* No sample, reply, creation or destruction is under way.
Quiet ==
    /\ replies = {}
    /\ \A e \in Endpoints : samples[e] = <<>> /\ handler[e] = "idle"
    /\ \A l \in Local : life[l] \in {"new", "live", "gone"}

-----------------------------------------------------------------------------
(* trigger_graph_change *)

\* The callbacks on the topic that the appearance or the end of e concerns.
Registered(l) == life[l] # "new"
ToNotify(e) == {l \in Local : Registered(l) /\ Kind[l] # Kind[e]}

\* One of the callbacks: update_shared_event_status
MatchedCallback(t, l, appeared) ==
    /\ l \in todo[t]
    /\ todo' = [todo EXCEPT ![t] = @ \ {l}]
    /\ current' = [current EXCEPT ![l] = IF appeared THEN @ + 1 ELSE IF @ = 0 THEN 0 ELSE @ - 1]
    /\ told' = [told EXCEPT ![l] = IF appeared THEN @ \cup {t[2]} ELSE @]

-----------------------------------------------------------------------------
(* The liveliness callback *)

\* Any change while an endpoint is between register_event_callback and the
\* end of its creation, its own first sample before it counts aside.
Races(e) == raced \/ \E l \in Local :
               life[l] \in Creating /\ ~ (l = e /\ life[l] = "registered")

\* Mutant: the event is raised for an entity the graph knows already.
PutAlwaysRaises(e) ==
    /\ handler[e] = "idle" /\ samples[e] # <<>> /\ Head(samples[e]) = "put"
    /\ samples' = [samples EXCEPT ![e] = Tail(@)]
    /\ cached' = IF parsed[e] = 0 THEN cached \cup {e} ELSE cached
    /\ handler' = [handler EXCEPT ![e] = "appeared"]
    /\ raced' = Races(e)
    /\ UNCHANGED <<life, replies, parsed, index, held, todo, current, waiter,
                   told, ghosts>>

\* Mutant: a sample for a known entity returns before the notification.
PutKnownIsSilent(e) ==
    /\ handler[e] = "idle" /\ samples[e] # <<>> /\ Head(samples[e]) = "put"
    /\ samples' = [samples EXCEPT ![e] = Tail(@)]
    /\ cached' = IF parsed[e] = 0 THEN cached \cup {e} ELSE cached
    /\ handler' = [handler EXCEPT ![e] = IF parsed[e] = 0 THEN "appeared" ELSE "idle"]
    /\ raced' = Races(e)
    /\ UNCHANGED <<life, replies, parsed, index, held, todo, current, waiter,
                   told, ghosts>>

\* Put: under the lock, insert unless the entity is known.
HandlePut(e) ==
    /\ handler[e] = "idle" /\ samples[e] # <<>> /\ Head(samples[e]) = "put"
    /\ samples' = [samples EXCEPT ![e] = Tail(@)]
    /\ cached' = IF parsed[e] = 0 THEN cached \cup {e} ELSE cached
    /\ handler' = [handler EXCEPT ![e] = IF parsed[e] = 0 THEN "appeared" ELSE "notify"]
    /\ raced' = Races(e)
    /\ UNCHANGED <<life, replies, parsed, index, held, todo, current, waiter,
                   told, ghosts>>

\* Delete: the event first, while the entity is still there.
HandleDelete(e) ==
    /\ handler[e] = "idle" /\ samples[e] # <<>> /\ Head(samples[e]) = "delete"
    /\ samples' = [samples EXCEPT ![e] = Tail(@)]
    /\ todo' = [todo EXCEPT ![<<"callback", e>>] = ToNotify(e)]
    /\ handler' = [handler EXCEPT ![e] = "disappearing"]
    /\ raced' = Races(e)
    /\ UNCHANGED <<life, replies, graphVars, held, current, waiter, told, ghosts>>

\* trigger_graph_change for a Put: the callbacks are collected ...
Collect(e) ==
    /\ handler[e] = "appeared"
    /\ handler' = [handler EXCEPT ![e] = "calling"]
    /\ todo' = [todo EXCEPT ![<<"callback", e>>] = ToNotify(e)]
    /\ UNCHANGED <<life, samples, replies, graphVars, held, current, waiter,
                   told, ghosts, raced>>

\* ... and called.
HandlerCalls(e, l) ==
    /\ handler[e] \in {"calling", "disappearing"}
    /\ MatchedCallback(<<"callback", e>>, l, handler[e] = "calling")
    /\ UNCHANGED <<life, samples, handler, replies, graphVars, held, waiter,
                   ghosts, raced>>

\* Mutant: remove leaves an entity that is cached and not yet parsed.
RemoveParsedOnly(e) ==
    /\ handler[e] = "disappearing" /\ todo[<<"callback", e>>] = {}
    /\ handler' = [handler EXCEPT ![e] = "notify"]
    /\ parsed' = [parsed EXCEPT ![e] = 0]
    /\ index' = index \cap Alive(parsed', held)
    /\ raced' = Races(e)
    /\ UNCHANGED <<life, samples, replies, cached, held, todo, current, waiter, told,
                   ghosts>>

\* Delete: GraphData::remove
HandlerRemoves(e) ==
    /\ handler[e] = "disappearing" /\ todo[<<"callback", e>>] = {}
    /\ handler' = [handler EXCEPT ![e] = "notify"]
    /\ cached' = cached \ {e}
    /\ parsed' = [parsed EXCEPT ![e] = 0]
    /\ index' = index \cap Alive(parsed', held)
    /\ raced' = Races(e)
    /\ UNCHANGED <<life, samples, replies, held, todo, current, waiter, told, ghosts>>

\* notify_waiter, and notify_all without the mutex of the condition variable
HandlerNotifies(e) ==
    /\ handler[e] \in {"notify", "calling"} /\ todo[<<"callback", e>>] = {}
    /\ handler' = [handler EXCEPT ![e] = "idle"]
    /\ waiter' = CASE waiter = "armed" -> "notified"
                   [] waiter = "parked" -> "idle"
                   [] waiter \in {"blocked", "deaf"} -> "locking"
                   [] waiter = "checked" -> "unheard"
                   [] OTHER -> waiter
    /\ UNCHANGED <<life, samples, replies, graphVars, held, todo, current, told,
                   ghosts, raced>>

\* new_with_pattern: one reply of the initial query, from another session
TakeReply(e) ==
    /\ e \in replies
    /\ replies' = replies \ {e}
    /\ cached' = IF parsed[e] = 0 THEN cached \cup {e} ELSE cached
    /\ ghosts' = IF life[e] = "gone" /\ samples[e] = <<>> /\ handler[e] \in {"idle", "notify"}
                 THEN ghosts \cup {e} ELSE ghosts
    /\ UNCHANGED <<life, samples, handler, parsed, index, held, todo, current,
                   waiter, told, raced>>

-----------------------------------------------------------------------------
(* Other sessions *)

Appear(e) ==
    /\ e \in Remote /\ life[e] = "new"
    /\ life' = [life EXCEPT ![e] = "live"]
    /\ samples' = [samples EXCEPT ![e] = Append(@, "put")]
    /\ UNCHANGED <<handler, replies, graphVars, held, todo, current, waiter, told,
                   ghosts, raced>>

\* Undeclared, or its session is lost.
Disappear(e) ==
    /\ e \in Remote /\ life[e] = "live"
    /\ life' = [life EXCEPT ![e] = "gone"]
    /\ samples' = [samples EXCEPT ![e] = Append(@, "delete")]
    /\ UNCHANGED <<handler, replies, graphVars, held, todo, current, waiter, told,
                   ghosts, raced>>

-----------------------------------------------------------------------------
(* rmw_create_publisher and rmw_create_subscription *)

\* The endpoint is built, its token declared and its event callback registered:
\* nothing that happens between the two concerns it. Graph::new has returned.
Build(l) ==
    /\ life[l] = "new" /\ replies = {}
    /\ waiter = "nobody" \/ l \in Waiting
    /\ life' = [life EXCEPT ![l] = "registered"]
    /\ samples' = [samples EXCEPT ![l] = Append(@, "put")]
    /\ raced' = (raced \/ ~ Quiet)
    /\ UNCHANGED <<handler, replies, graphVars, held, todo, current, waiter, told, ghosts>>

\* What is there already is counted. The count and its addition are one step: a
\* change between the two, like any other during a creation, sets raced, and of
\* the number nothing is claimed then.
CountExisting(l) ==
    /\ life[l] = "registered"
    /\ Parse
    /\ LET seen == {a[1] : a \in {b \in index' : b[1] \in Opposite(l)}}
       IN /\ current' = [current EXCEPT ![l] = @ + Cardinality({a \in index' : a[1] \in Opposite(l)})]
          /\ told' = [told EXCEPT ![l] = @ \cup seen]
    /\ life' = [life EXCEPT ![l] = "counted"]
    /\ UNCHANGED <<samples, handler, replies, held, todo, waiter, ghosts, raced>>

\* get_entities_by_topic: the Arcs stay in hand while the QoS of each is looked
\* at and until the creation returns. Incompatible ones are reported to the
\* EventsManager of both ends, which is not the graph's state.
CheckQos(l) ==
    /\ life[l] = "counted"
    /\ Parse
    /\ held' = [held EXCEPT ![l] = {a \in index' : a[1] \in Opposite(l)}]
    /\ life' = [life EXCEPT ![l] = "checked"]
    /\ UNCHANGED <<samples, handler, replies, todo, current, waiter, told, ghosts, raced>>

\* add_local_entity: into parsed, whether or not it is there or cached
AddLocal(l) ==
    /\ life[l] = "checked" /\ UnusedArcs(l) # {}
    /\ parsed' = [parsed EXCEPT ![l] = FreshArc(l)]
    /\ index' = (index \cap Alive(parsed', held)) \cup {<<l, FreshArc(l)>>}
    /\ life' = [life EXCEPT ![l] = IF parsed[l] = 0 THEN "added" ELSE "telling"]
    /\ UNCHANGED <<samples, handler, replies, cached, held, todo, current, waiter, told,
                   ghosts, raced>>

\* A new entity: trigger_graph_change
AddLocalTriggers(l) ==
    /\ life[l] = "added"
    /\ life' = [life EXCEPT ![l] = "telling"]
    /\ todo' = [todo EXCEPT ![<<"creator", l>>] = ToNotify(l)]
    /\ UNCHANGED <<samples, handler, replies, graphVars, held, current, waiter, told,
                   ghosts, raced>>

AddLocalCalls(l, m) ==
    /\ life[l] = "telling"
    /\ MatchedCallback(<<"creator", l>>, m, TRUE)
    /\ UNCHANGED <<life, samples, handler, replies, graphVars, held, waiter, ghosts,
                   raced>>

\* The creation returns and lets go of the Arcs.
Created(l) ==
    /\ life[l] = "telling" /\ todo[<<"creator", l>>] = {}
    /\ life' = [life EXCEPT ![l] = "live"]
    /\ held' = [held EXCEPT ![l] = {}]
    /\ index' = index \cap Alive(parsed, held')
    /\ UNCHANGED <<samples, handler, replies, cached, parsed, todo, current, waiter,
                   told, ghosts, raced>>

\* rmw_destroy_*: remove_local_entity, which raises no event, ...
RemoveLocal(l) ==
    /\ life[l] = "live" /\ l \in Mortal
    /\ life' = [life EXCEPT ![l] = "removed"]
    /\ cached' = cached \ {l}
    /\ parsed' = [parsed EXCEPT ![l] = 0]
    /\ index' = {a \in index : a[1] # l}
    /\ raced' = (Races(l) \/ samples[l] # <<>> \/ handler[l] # "idle")
    /\ UNCHANGED <<samples, handler, replies, held, todo, current, waiter, told,
                   ghosts>>

\* ... and then the token. The event callback stays registered.
DropToken(l) ==
    /\ life[l] = "removed"
    /\ life' = [life EXCEPT ![l] = "gone"]
    /\ samples' = [samples EXCEPT ![l] = Append(@, "delete")]
    /\ UNCHANGED <<handler, replies, graphVars, held, todo, current, waiter, told,
                   ghosts, raced>>

-----------------------------------------------------------------------------
(* Waiters, once Graph::new has returned *)

Predicate == Count(WaitKind) > 0

\* wait_until: the Notified is made before the predicate is looked at.
AsyncArm ==
    /\ waiter = "idle" /\ replies = {}
    /\ waiter' = "armed"
    /\ UNCHANGED <<life, samples, handler, replies, graphVars, held, todo, current, told,
                   ghosts, raced>>

\* The predicate, then the deadline, then the wait.
AsyncCheck ==
    /\ waiter \in {"armed", "notified"}
    /\ Parse
    /\ waiter' \in IF Predicate THEN {"found"}
                   ELSE {"gave up", IF waiter = "armed" THEN "parked" ELSE "idle"}
    /\ UNCHANGED <<life, samples, handler, replies, held, todo, current, told, ghosts, raced>>

\* The deadline while it waits: the predicate has the last word.
AsyncTimesOut ==
    /\ waiter = "parked"
    /\ Parse
    /\ waiter' = IF Predicate THEN "found" ELSE "gave up"
    /\ UNCHANGED <<life, samples, handler, replies, held, todo, current, told, ghosts, raced>>

\* wait_for_service: the check holds the mutex of the condition variable, ...
SyncCheck ==
    /\ waiter \in {"locking", "late"} /\ replies = {}
    /\ Parse
    /\ waiter' = IF Predicate THEN "found" ELSE IF waiter = "late" THEN "gave up" ELSE "checked"
    /\ UNCHANGED <<life, samples, handler, replies, held, todo, current, told, ghosts, raced>>

\* ... the wait lets it go, and ends with a signal or at the deadline.
SyncWaits(to) ==
    /\ <<waiter, to>> \in {<<"checked", "blocked">>, <<"unheard", "deaf">>,
                          <<"blocked", "late">>, <<"deaf", "late">>}
    /\ waiter' = to
    /\ UNCHANGED <<life, samples, handler, replies, graphVars, held, todo, current, told,
                   ghosts, raced>>

HandlerStep(e) ==
    \/ HandlePut(e) \/ HandleDelete(e) \/ Collect(e)
    \/ \E l \in Local : HandlerCalls(e, l)
    \/ HandlerRemoves(e) \/ HandlerNotifies(e)

CreatorStep(l) ==
    \/ CountExisting(l) \/ CheckQos(l) \/ AddLocal(l)
    \/ AddLocalTriggers(l) \/ Created(l) \/ DropToken(l)
    \/ \E m \in Local : AddLocalCalls(l, m)

DiscoveryNext ==
    \/ \E e \in Endpoints : HandlerStep(e) \/ TakeReply(e) \/ Appear(e) \/ Disappear(e)
    \/ \E l \in Local : Build(l) \/ CreatorStep(l) \/ RemoveLocal(l)
    \/ AsyncArm \/ AsyncCheck \/ AsyncTimesOut
    \/ SyncCheck \/ \E to \in {"blocked", "deaf", "late"} : SyncWaits(to)

DiscoverySpec == DiscoveryInit /\ [][DiscoveryNext]_discoveryVars

-----------------------------------------------------------------------------
(* Properties *)

\* Once everything is handled the graph shows exactly the live endpoints, each
\* once, however add_local_entity, the samples, the reads that parse and the
\* initial query raced; only a reply read after the Delete of its token was
\* handled leaves an entity that never goes.
GraphConverges ==
    /\ DiscoveryTypeOK
    /\ Quiet => \A e \in Endpoints \ ghosts :
          Cardinality({a \in index : a[1] = e}) + (IF e \in cached /\ parsed[e] = 0 THEN 1 ELSE 0)
             = (IF Declared(e) THEN 1 ELSE 0)

\* No endpoint misses a match, since the callback is registered before the count
\* and the entity inserted before the event; and the matched count is exact
\* unless something changed while an endpoint was being created, or one was
\* destroyed before its own Put was handled (which counts it a second time).
MatchesCounted ==
    Quiet => \A l \in Local : life[l] = "live" =>
       LET matched == {e \in Opposite(l) : Declared(e)}
       IN /\ matched \subseteq told[l]
          /\ ~ raced /\ ghosts = {} => current[l] = Cardinality(matched)

\* A waiter does not sleep on what it waits for: while an entity is in the graph
\* a task parks, and a thread blocks, only if a callback has still to notify.
\* The one hole is a notify_all between the thread's check and its wait, for
\* which the callback does not take the mutex, although ffi/service.rs relies on
\* it: that thread sleeps to its deadline.
NobodySleepsOnIt ==
    waiter \in {"parked", "blocked"}
       /\ (\E e \in Endpoints : Kind[e] = WaitKind /\ (parsed[e] # 0 \/ e \in cached))
    => \E e \in Endpoints : samples[e] # <<>> \/ handler[e] # "idle"
=============================================================================
