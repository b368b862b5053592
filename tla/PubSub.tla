------------------------------- MODULE PubSub -------------------------------
(***************************************************************************)
(* Publishers and subscribers with the intra-process bus:                  *)
(* crates/hiroz/src/local_bus.rs and the build, publish and drop paths of  *)
(* crates/hiroz/src/pubsub.rs.                                             *)
(*                                                                         *)
(* A publish is a stack of frames on its thread, because a bus callback    *)
(* runs inline and may publish again. Each step of a frame is one load of  *)
(* the subscriber list, one wire put or one callback. Lists are sets: the  *)
(* order of the subscribers in them is left out. Zenoh is external: a put  *)
(* puts one copy on the wire for every subscriber that the localities of   *)
(* the two ends allow, and a copy arrives later or never.                  *)
(*                                                                         *)
(* The endpoints of a topic have one ROS type, so that they match on the   *)
(* wire; their Rust types may differ, and the bus serves exact ones only.  *)
(* A release build is modelled, without the reentrancy detector of debug   *)
(* builds, whose panic goes through the publisher.                         *)
(*                                                                         *)
(* Any number of messages is published. One of them, chosen freely, is     *)
(* followed: the history variables and the wire are about that one.        *)
(***************************************************************************)
EXTENDS Naturals, Sequences, FiniteSets

CONSTANTS
    Pubs, Subs,     \* the publishers and subscribers the program builds, once each
    Key,            \* Key[e]: the session and topic of an endpoint
    Type,           \* Type[e]: the Rust type of its messages
    Origin,         \* Origin[s]: the locality a subscriber was built with
    Sink,           \* Sink[s]: "shared", "owned", or "queue" (no bus half)
    Threads,        \* threads that publish
    None,
    Builds,         \* the builder options the program uses for publishers
    Mortal,         \* bound: the endpoints the program drops
    MaxDeliveryDepth    \* MAX_DELIVERY_DEPTH

Localities == {"Any", "Remote", "SessionLocal"}
Endpoints == Pubs \cup Subs
Keys == {Key[e] : e \in Endpoints}

\* bound: an endpoint creates at most one channel
Channels == 1 .. Cardinality(Endpoints)

\* The builder's choices: with_intra_process_only, with_locality and a
\* TRANSIENT_LOCAL durability in with_qos.
Options == [intra : BOOLEAN, locality : Localities, durable : BOOLEAN]

ASSUME PubSubAssumption ==
    /\ Pubs \cap Subs = {}
    /\ IsFiniteSet(Endpoints)
    /\ Key \in [Endpoints -> [session : {Key[e].session : e \in Endpoints},
                              topic : {Key[e].topic : e \in Endpoints}]]
    /\ Origin \in [Subs -> Localities]
    /\ Sink \in [Subs -> {"shared", "owned", "queue"}]
    /\ None \notin Channels \cup Endpoints
    /\ MaxDeliveryDepth \in Nat \ {0}
    /\ Builds \subseteq Options
    /\ Mortal \subseteq Endpoints

VARIABLES
    stage,      \* stage[e]: how far the endpoint is built or dropped
    options,    \* options[p]: how the publisher was built
    registry,   \* BUS: the channel of each key
    created,    \* channels created so far
    entries,    \* entries[c]: the subscribers registered on a channel
    held,       \* held[e]: the Arc<Channel> of an endpoint
    stack,      \* stack[t]: the publish calls running on a thread
    depth,      \* depth[t]: DELIVERY_DEPTH
    wire,       \* copies of the followed message on the wire, by receiver
    calls,      \* history: calls[s], how often s was called with that message
    due,        \* history: the bus subscribers of its type when its publish began
    outcome     \* history: its publish call and what that returned

registryVars == <<registry, created, entries, held>>
history == <<calls, due, outcome>>
vars == <<stage, options, registry, created, entries, held, stack, depth, wire,
          calls, due, outcome>>

Steps == {"check", "wire", "own", "bus", "call", "inside"}
Frame == [followed : BOOLEAN, pub : Pubs, how : {"publish", "shared", "owned"},
          pc : Steps, left : SUBSET Subs, current : Subs \cup {None},
          taken : BOOLEAN]
Results == {"unsent", "none", "wire", "sent", "notaker", "depth", "err"}

TypeOK ==
    /\ stage \in [Endpoints -> {"absent", "wired", "missed", "resolved", "live",
                                "dropping", "dropped"}]
    /\ options \in [Pubs -> Options]
    /\ registry \in [Keys -> Channels \cup {None}]
    /\ created \in 0 .. Cardinality(Endpoints)
    /\ entries \in [Channels -> SUBSET Subs]
    /\ held \in [Endpoints -> Channels \cup {None}]
    /\ stack \in [Threads -> Seq(Frame)]
    /\ depth \in [Threads -> 0 .. MaxDeliveryDepth]
    /\ wire \subseteq Subs
    /\ calls \in [Subs -> Nat]
    /\ due \subseteq Subs
    /\ outcome \in [result : Results, nested : Nat,
                    how : {"publish", "shared", "owned"}, pub : Pubs \cup {None}]

Init ==
    /\ stage = [e \in Endpoints |-> "absent"]
    /\ options \in [Pubs -> Builds]
    /\ registry = [k \in Keys |-> None]
    /\ created = 0
    /\ entries = [c \in Channels |-> {}]
    /\ held = [e \in Endpoints |-> None]
    /\ stack = [t \in Threads |-> <<>>]
    /\ depth = [t \in Threads |-> 0]
    /\ wire = {}
    /\ calls = [s \in Subs |-> 0]
    /\ due = {}
    /\ outcome = [result |-> "unsent", nested |-> 0, how |-> "publish", pub |-> None]

-----------------------------------------------------------------------------
(* Building endpoints: the wire half first, then the channel of the bus. *)

\* A Remote subscriber, and one that reads from a queue, skips the bus.
OnBus(e) == e \in Pubs \/ (Sink[e] # "queue" /\ Origin[e] # "Remote")

\* declare_publisher or declare_subscriber and the liveliness token
Declare(e) ==
    /\ stage[e] = "absent"
    /\ stage' = [stage EXCEPT ![e] = IF OnBus(e) THEN "wired" ELSE "live"]
    /\ UNCHANGED <<options, registryVars, stack, depth, wire, history>>

\* A publisher is complete with its channel, a subscriber still registers.
Resolved(e) == IF e \in Pubs THEN "live" ELSE "resolved"

\* channel(): the read-locked fast path
ChannelHit(e) ==
    /\ stage[e] = "wired"
    /\ registry[Key[e]] # None
    /\ held' = [held EXCEPT ![e] = registry[Key[e]]]
    /\ stage' = [stage EXCEPT ![e] = Resolved(e)]
    /\ UNCHANGED <<options, registry, created, entries, stack, depth, wire, history>>

ChannelMiss(e) ==
    /\ stage[e] = "wired"
    /\ registry[Key[e]] = None
    /\ stage' = [stage EXCEPT ![e] = "missed"]
    /\ UNCHANGED <<options, registryVars, stack, depth, wire, history>>

\* Mutant: the sweep drops a channel no subscriber is registered on.
InUseSubscribed(c) == entries[c] # {}

\* What the sweep keeps: a channel some endpoint holds, or with subscribers.
\* (Arc::strong_count > 1: the registry's own reference is not enough.)
InUse(c) == (\E e \in Endpoints : held[e] = c) \/ entries[c] # {}

\* channel(): the write-locked path sweeps every session and topic, then
\* takes the channel another builder inserted meanwhile, or inserts one.
ChannelCreate(e) ==
    /\ stage[e] = "missed"
    /\ LET swept == [k \in Keys |->
                       IF registry[k] # None /\ InUse(registry[k])
                       THEN registry[k] ELSE None]
           new == IF swept[Key[e]] = None THEN created + 1 ELSE created
           c == IF swept[Key[e]] = None THEN created + 1 ELSE swept[Key[e]]
       IN /\ registry' = [swept EXCEPT ![Key[e]] = c]
          /\ created' = new
          /\ held' = [held EXCEPT ![e] = c]
    /\ stage' = [stage EXCEPT ![e] = Resolved(e)]
    /\ UNCHANGED <<options, entries, stack, depth, wire, history>>

\* subscribe and subscribe_owned: one rcu
Subscribe(s) ==
    /\ stage[s] = "resolved"
    /\ entries' = [entries EXCEPT ![held[s]] = @ \cup {s}]
    /\ stage' = [stage EXCEPT ![s] = "live"]
    /\ UNCHANGED <<options, registry, created, held, stack, depth, wire, history>>

\* Dropping a ZSub undeclares its wire half first (field order) ...
DropWire(s) ==
    /\ stage[s] = "live" /\ s \in Mortal
    /\ stage' = [stage EXCEPT ![s] = "dropping"]
    /\ UNCHANGED <<options, registryVars, stack, depth, wire, history>>

\* ... then drops its LocalSubscription, which leaves the list by one rcu and
\* releases the channel.
DropLocal(s) ==
    /\ stage[s] = "dropping"
    /\ stage' = [stage EXCEPT ![s] = "dropped"]
    /\ entries' = IF held[s] = None THEN entries
                  ELSE [entries EXCEPT ![held[s]] = @ \ {s}]
    /\ held' = [held EXCEPT ![s] = None]
    /\ UNCHANGED <<options, registry, created, stack, depth, wire, history>>

\* A publisher is borrowed by its running calls and cannot be dropped then.
DropPub(p) ==
    /\ stage[p] = "live" /\ p \in Mortal
    /\ \A t \in Threads : \A i \in 1 .. Len(stack[t]) : stack[t][i].pub # p
    /\ stage' = [stage EXCEPT ![p] = "dropped"]
    /\ held' = [held EXCEPT ![p] = None]
    /\ UNCHANGED <<options, registry, created, entries, stack, depth, wire, history>>

-----------------------------------------------------------------------------
(* Publishing. The top frame of a thread is the one that runs. *)

Running(t) == stack[t] # <<>>
Top(t) == stack[t][Len(stack[t])]
Goto(t, f) == stack' = [stack EXCEPT ![t] = [@ EXCEPT ![Len(@)] = f]]

\* Mutant: every subscriber of the channel is taken for one of the type.
OfAnyType(p) == entries[held[p]]

\* The subscribers on the list p's channel has now that take its Rust type.
OfType(p) == {s \in entries[held[p]] : Type[s] = Type[p]}

\* Channel::owned_receivers: those of them that take it by value
OwnedReceivers(p) == {s \in OfType(p) : Sink[s] = "owned"}

\* The call returns r.
Finish(t, r) ==
    /\ stack' = [stack EXCEPT ![t] = SubSeq(@, 1, Len(@) - 1)]
    /\ outcome' = IF Top(t).followed THEN [outcome EXCEPT !.result = r] ELSE outcome

\* How deep the thread is inside bus callbacks, counted on its frames.
Nesting(t) == Cardinality({i \in 1 .. Len(stack[t]) : stack[t][i].pc = "inside"})

\* Mutant: the default locality uses the bus beside the wire.
RouteAnyOnBus(p) ==
    IF options[p].intra THEN "BusOnly"
    ELSE IF options[p].locality # "SessionLocal" THEN "BusAndWire"
    ELSE "WireOnly"

\* route()
Route(p) ==
    IF options[p].intra THEN "BusOnly"
    ELSE IF options[p].locality = "Remote" THEN "BusAndWire"
    ELSE "WireOnly"

\* The first thing publish, publish_shared and publish_owned do.
FirstStep(p, how) ==
    CASE how = "publish" \/ Route(p) = "WireOnly" -> "wire"
      [] Route(p) = "BusAndWire" /\ how = "owned" -> "wire"
      [] Route(p) = "BusOnly" /\ how = "owned" -> "own"
      [] OTHER -> "check"

\* refuse_durable_bus
RefuseDurable(p, how) ==
    how # "publish" /\ Route(p) = "BusOnly" /\ options[p].durable

\* User code, at top level or inside a bus callback, publishes a message; one
\* publish of a behaviour may be the followed one.
Publish(t, p, how, followed) ==
    /\ stage[p] = "live"
    /\ Running(t) => Top(t).pc = "inside"
    /\ IF followed
       THEN /\ outcome.result = "unsent"
            /\ due' = OfType(p)
            /\ outcome' = [result |-> IF RefuseDurable(p, how) THEN "err" ELSE "none",
                           nested |-> Nesting(t), how |-> how, pub |-> p]
       ELSE UNCHANGED <<due, outcome>>
    /\ stack' = IF RefuseDurable(p, how) THEN stack
                ELSE [stack EXCEPT ![t] = Append(@,
                        [followed |-> followed, pub |-> p, how |-> how,
                         pc |-> FirstStep(p, how), left |-> {}, current |-> None,
                         taken |-> FALSE])]
    /\ UNCHANGED <<stage, options, registryVars, depth, wire, calls>>

\* refuse_unservable_owned: loads the list and refuses if an owned subscriber
\* of the type is on it.
CheckOwned(t) ==
    /\ Running(t) /\ Top(t).pc = "check"
    /\ LET f == Top(t)
       IN IF OwnedReceivers(f.pub) # {}
          THEN Finish(t, "err")
          ELSE /\ Goto(t, [f EXCEPT !.pc = IF Route(f.pub) = "BusAndWire"
                                           THEN "wire" ELSE "bus"])
               /\ UNCHANGED outcome
    /\ UNCHANGED <<stage, options, registryVars, depth, wire, calls, due>>

\* The subscribers a put of p reaches: zenoh matches the topic and applies the
\* localities of both ends.
Allows(locality, sameSession) ==
    CASE locality = "Any" -> TRUE
      [] locality = "Remote" -> ~sameSession
      [] locality = "SessionLocal" -> sameSession

WireAudience(p) ==
    {s \in Subs : /\ stage[s] \notin {"absent", "dropping", "dropped"}
                  /\ Key[s].topic = Key[p].topic
                  /\ \A locality \in {options[p].locality, Origin[s]} :
                        Allows(locality, Key[s].session = Key[p].session)}

\* After the wire half: nothing, or the bus half.
AfterWire(f) ==
    IF f.how = "publish" \/ Route(f.pub) = "WireOnly" THEN "return"
    ELSE IF f.how = "owned" THEN "own" ELSE "bus"

WirePut(t) ==
    /\ Running(t) /\ Top(t).pc = "wire"
    /\ LET f == Top(t)
       IN /\ wire' = IF f.followed THEN wire \cup WireAudience(f.pub) ELSE wire
          /\ IF AfterWire(f) = "return" THEN Finish(t, "wire")
             ELSE Goto(t, [f EXCEPT !.pc = AfterWire(f)]) /\ UNCHANGED outcome
    /\ UNCHANGED <<stage, options, registryVars, depth, calls, due>>

\* The put fails and ? returns its error.
WireFails(t) ==
    /\ Running(t) /\ Top(t).pc = "wire"
    /\ Finish(t, "err")
    /\ UNCHANGED <<stage, options, registryVars, depth, wire, calls, due>>

\* The depth check of Channel::publish and Channel::publish_owned, and the
\* start of a delivery to the subscribers loaded.
Deliver(t, f, loaded) ==
    IF depth[t] >= MaxDeliveryDepth
    THEN Finish(t, "depth") /\ UNCHANGED depth
    ELSE /\ depth' = [depth EXCEPT ![t] = @ + 1]
         /\ Goto(t, [f EXCEPT !.pc = "call", !.left = loaded])
         /\ UNCHANGED outcome

\* Channel::publish_owned: a sole subscriber of the type, an owned one, takes the
\* value; otherwise the payload comes back and is shared.
BusOwned(t) ==
    /\ Running(t) /\ Top(t).pc = "own"
    /\ LET f == Top(t)
           loaded == OfType(f.pub)
       IN \/ /\ \E s \in loaded : loaded = {s} /\ Sink[s] = "owned"
             /\ Deliver(t, f, loaded)
          \/ /\ ~ \E s \in loaded : loaded = {s} /\ Sink[s] = "owned"
             /\ Goto(t, [f EXCEPT !.pc = IF Route(f.pub) = "BusAndWire"
                                         THEN "bus" ELSE "check"])
             /\ UNCHANGED <<depth, outcome>>
    /\ UNCHANGED <<stage, options, registryVars, wire, calls, due>>

\* Channel::publish: every shared subscriber of the type, on the list loaded here
BusShared(t) ==
    /\ Running(t) /\ Top(t).pc = "bus"
    /\ LET f == Top(t)
       IN Deliver(t, f, OfType(f.pub) \ OwnedReceivers(f.pub))
    /\ UNCHANGED <<stage, options, registryVars, wire, calls, due>>

\* invoke_isolated: the callback starts, on the list loaded, whatever happened
\* to the subscriber since.
Invoke(t) ==
    /\ Running(t) /\ Top(t).pc = "call"
    /\ \E s \in Top(t).left :
          /\ calls' = IF Top(t).followed THEN [calls EXCEPT ![s] = @ + 1] ELSE calls
          /\ Goto(t, [Top(t) EXCEPT !.pc = "inside", !.left = @ \ {s}, !.current = s])
    /\ UNCHANGED <<stage, options, registryVars, depth, wire, due, outcome>>

\* Mutant: a panic ends the delivery.
CallbackEndsAll(t, normally) ==
    /\ Running(t) /\ Top(t).pc = "inside"
    /\ Goto(t, [Top(t) EXCEPT !.pc = "call", !.current = None,
                              !.left = IF normally THEN @ ELSE {},
                              !.taken = @ \/ normally])
    /\ UNCHANGED <<stage, options, registryVars, depth, wire, history>>

\* The callback returns (normally), or panics and the panic is contained.
CallbackEnds(t, normally) ==
    /\ Running(t) /\ Top(t).pc = "inside"
    /\ Goto(t, [Top(t) EXCEPT !.pc = "call", !.current = None,
                              !.taken = @ \/ normally])
    /\ UNCHANGED <<stage, options, registryVars, depth, wire, history>>

\* Mutant: a delivery in which every callback panicked is returned as an error.
DeliveryFails(t) ==
    /\ Running(t) /\ Top(t).pc = "call" /\ Top(t).left = {}
    /\ depth' = [depth EXCEPT ![t] = @ - 1]
    /\ Finish(t, IF Top(t).taken THEN "sent" ELSE "err")
    /\ UNCHANGED <<stage, options, registryVars, wire, calls, due>>

\* The end of the list; DepthGuard restores the depth.
DeliveryEnds(t) ==
    /\ Running(t) /\ Top(t).pc = "call" /\ Top(t).left = {}
    /\ depth' = [depth EXCEPT ![t] = @ - 1]
    /\ Finish(t, IF Top(t).taken THEN "sent" ELSE "notaker")
    /\ UNCHANGED <<stage, options, registryVars, wire, calls, due>>

\* A copy arrives at a subscriber whose wire half is declared.
WireArrives(s) ==
    /\ s \in wire
    /\ stage[s] \notin {"dropping", "dropped"}
    /\ wire' = wire \ {s}
    /\ calls' = [calls EXCEPT ![s] = @ + 1]
    /\ UNCHANGED <<stage, options, registryVars, stack, depth, due, outcome>>

Next ==
    \/ \E e \in Endpoints : Declare(e) \/ ChannelHit(e) \/ ChannelMiss(e)
                            \/ ChannelCreate(e)
    \/ \E s \in Subs : Subscribe(s) \/ DropWire(s) \/ DropLocal(s) \/ WireArrives(s)
    \/ \E p \in Pubs : DropPub(p)
    \/ \E t \in Threads : CheckOwned(t) \/ WirePut(t) \/ WireFails(t)
                          \/ BusOwned(t) \/ BusShared(t) \/ Invoke(t)
                          \/ DeliveryEnds(t)
    \/ \E t \in Threads, normally \in BOOLEAN : CallbackEnds(t, normally)
    \/ \E t \in Threads, p \in Pubs, how \in {"publish", "shared", "owned"},
          followed \in BOOLEAN : Publish(t, p, how, followed)

Spec == Init /\ [][Next]_vars

-----------------------------------------------------------------------------
(* Properties *)

\* Endpoints of one session and topic that hold a channel hold the same one,
\* and it is the registered one: the sweep of channel() never splits a topic.
SameChannel ==
    /\ TypeOK
    /\ \A e \in Endpoints : held[e] # None => held[e] = registry[Key[e]]

\* No subscriber is called twice with one message, over the bus and the wire
\* together, whatever routes the publisher takes.
NoDoubleDelivery == \A s \in Subs : calls[s] <= 1

\* A publish that the bus did not refuse has called every bus subscriber of its
\* Rust type that was registered when it began and is still there: none is
\* skipped by a list that changes under way, by a panic of another, or because
\* it takes the message by value (publish_owned on a Remote publisher is
\* documented not to serve those). Over the bus alone nobody of another Rust
\* type is called. A refusal for depth happens only in nested callbacks: the
\* depth is restored on every way out of a delivery.
ServedOrRefused ==
    /\ outcome.result \in {"sent", "notaker"} =>
          \A s \in due :
             \/ stage[s] # "live"
             \/ /\ Sink[s] = "owned"
                /\ outcome.how = "owned" /\ Route(outcome.pub) = "BusAndWire"
             \/ calls[s] = 1
    /\ outcome.result # "unsent" /\ outcome.how # "publish"
          /\ Route(outcome.pub) = "BusOnly" =>
          \A s \in Subs : calls[s] # 0 => Type[s] = Type[outcome.pub]
    /\ outcome.result = "depth" => outcome.nested >= MaxDeliveryDepth

\* A publish that returns an error has reached nobody and never will, so the
\* caller may retry it.
RetrySafe ==
    outcome.result = "err" => wire = {} /\ \A s \in Subs : calls[s] = 0
=============================================================================
