------------------------------- MODULE Events -------------------------------
(***************************************************************************)
(* A subscription's arrivals and events: observe_loss, MessageLossTracker, *)
(* EventsManager and RmEventHandle (crates/hiroz/src/event.rs, pubsub.rs), *)
(* the queue with its notifier (common.rs), and the two callbacks rmw      *)
(* installs (crates/rmw-zenoh-rs/src/rmw.rs): the event callback and the   *)
(* new-message callback.                                                   *)
(*                                                                         *)
(* The samples of each publisher are handled by a thread of its own. The   *)
(* network loses, reorders and replays them. A lost sample is the pair of  *)
(* its publisher and its number, and a count of lost samples is the set of *)
(* them, but for total_count, whose width matters.                         *)
(***************************************************************************)
EXTENDS Integers, Sequences, FiniteSets

CONSTANTS
    Publishers,     \* the publishers on the topic
    MaxSn,          \* bound: samples published by each
    MaxArrivals,    \* bound: samples delivered, replays included
    MaxSets,        \* bound: times each callback is set
    Depth,          \* the history depth of the queue
    MaxInt          \* the largest value of an i32, scaled down

ASSUME EventsAssumption ==
    /\ IsFiniteSet(Publishers)
    /\ MaxSn \in Nat /\ MaxArrivals \in Nat /\ MaxSets \in Nat
    /\ Depth \in Nat \ {0} /\ MaxInt \in Nat \ {0}

VARIABLES
    lastSeen,       \* MessageLossTracker::last_seen, 0 for none
    total,          \* total_count of MessageLost, an i32
    unread,         \* total_count_change of MessageLost
    callback,       \* the event callback: none yet, one that calls the program, or
                    \* one around a null pointer
    queue,          \* the subscription's BoundedQueue
    onMessage,      \* whether a new-message callback is set
    unreadCount,    \* messages counted while none was
    pc,             \* pc[p]: where the thread of p's samples is
    lost,           \* lost[p]: the loss it is reporting
    firing,         \* the backlog a set_callback has still to fire
    arrived,        \* history: arrived[p], numbers delivered, in order
    heard,          \* history: losses the program's callback was called with
    taken,          \* history: losses rmw_take_event returned
    swallowed,      \* history: losses a null callback took from the backlog
    recorded,       \* history: losses recorded
    pushed,         \* history: messages pushed
    announced,      \* history: messages announced to the new-message callback
    sets            \* times a callback was set

trackerVars == <<lastSeen, arrived>>
eventVars == <<total, unread, callback, firing, heard, taken, swallowed, recorded>>
messageVars == <<queue, onMessage, unreadCount, pushed, announced>>
vars == <<lastSeen, total, unread, callback, queue, onMessage, unreadCount, pc, lost, firing,
          arrived, heard, taken, swallowed, recorded, pushed, announced, sets>>

Losses == Publishers \X (1 .. MaxSn)
ArrivedSet(p) == {arrived[p][i] : i \in DOMAIN arrived[p]}

TypeOK ==
    /\ lastSeen \in [Publishers -> 0 .. MaxSn]
    /\ total \in (- MaxInt - 1) .. MaxInt
    /\ unread \subseteq Losses
    /\ callback \in {"none", "program", "null"}
    /\ Len(queue) <= Depth /\ \A i \in DOMAIN queue : queue[i] \in Losses
    /\ onMessage \in BOOLEAN /\ unreadCount \in 0 .. MaxArrivals
    /\ pc \in [Publishers -> {"idle", "lossy", "calling", "calling null", "push", "notify"}]
    /\ lost \in [Publishers -> SUBSET Losses]
    /\ firing \subseteq Losses
    /\ \A p \in Publishers : arrived[p] \in Seq(1 .. MaxSn)

Init ==
    /\ lastSeen = [p \in Publishers |-> 0] /\ arrived = [p \in Publishers |-> <<>>]
    /\ total = 0 /\ unread = {} /\ callback = "none" /\ firing = {}
    /\ queue = <<>> /\ onMessage = FALSE /\ unreadCount = 0
    /\ pc = [p \in Publishers |-> "idle"] /\ lost = [p \in Publishers |-> {}]
    /\ heard = {} /\ taken = {} /\ swallowed = {} /\ recorded = {}
    /\ pushed = 0 /\ announced = 0 /\ sets = 0

-----------------------------------------------------------------------------
(* A sample arrives *)

\* observe: the numbers between the last one seen and n, and nothing for the
\* first sample or an old one
Gap(p, n) == IF lastSeen[p] = 0 THEN {} ELSE {<<p, m>> : m \in (lastSeen[p] + 1) .. (n - 1)}

\* Mutant: the baseline follows a replayed sample back.
BaselineLatest(p, n) == n

\* The baseline only moves forward.
Baseline(p, n) == IF n > lastSeen[p] THEN n ELSE lastSeen[p]

Arrivals == Cardinality(UNION {{p} \X DOMAIN arrived[p] : p \in Publishers})

Arrive(p, n) ==
    /\ pc[p] = "idle" /\ Arrivals < MaxArrivals
    /\ lastSeen' = [lastSeen EXCEPT ![p] = Baseline(p, n)]
    /\ arrived' = [arrived EXCEPT ![p] = Append(@, n)]
    /\ lost' = [lost EXCEPT ![p] = Gap(p, n)]
    /\ pc' = [pc EXCEPT ![p] = IF Gap(p, n) = {} THEN "push" ELSE "lossy"]
    /\ UNCHANGED <<eventVars, messageVars, sets>>

\* i32 arithmetic of a release build, after the clamp of observe
Clamped(n) == IF n > MaxInt THEN MaxInt ELSE n
Wrapped(n) == IF n > MaxInt THEN n - 2 * (MaxInt + 1) ELSE n

\* record_event_status_with_policy, under the lock
Record(p) ==
    /\ pc[p] = "lossy"
    /\ total' = Wrapped(total + Clamped(Cardinality(lost[p])))
    /\ unread' = unread \cup lost[p]
    /\ recorded' = recorded \cup lost[p]
    /\ pc' = [pc EXCEPT ![p] = CASE callback = "program" -> "calling"
                                 [] callback = "null" -> "calling null"
                                 [] OTHER -> "push"]
    /\ UNCHANGED <<trackerVars, messageVars, callback, firing, lost, heard, taken, swallowed,
                   sets>>

\* The callback that was installed then is called after the unlock.
CallBack(p) ==
    /\ pc[p] \in {"calling", "calling null"}
    /\ heard' = IF pc[p] = "calling" THEN heard \cup lost[p] ELSE heard
    /\ pc' = [pc EXCEPT ![p] = "push"]
    /\ UNCHANGED <<trackerVars, messageVars, total, unread, callback, firing, lost, taken,
                   swallowed, recorded, sets>>

\* handle: the oldest message gives way
Push(p) ==
    /\ pc[p] = "push"
    /\ queue' = Append(IF Len(queue) = Depth THEN Tail(queue) ELSE queue,
                       <<p, arrived[p][Len(arrived[p])]>>)
    /\ pushed' = pushed + 1
    /\ pc' = [pc EXCEPT ![p] = "notify"]
    /\ lost' = [lost EXCEPT ![p] = {}]
    /\ UNCHANGED <<trackerVars, eventVars, onMessage, unreadCount, announced, sets>>

\* The notifier, under the lock of the callback
Notify(p) ==
    /\ pc[p] = "notify"
    /\ announced' = IF onMessage THEN announced + 1 ELSE announced
    /\ unreadCount' = IF onMessage THEN unreadCount ELSE unreadCount + 1
    /\ pc' = [pc EXCEPT ![p] = "idle"]
    /\ UNCHANGED <<trackerVars, eventVars, queue, onMessage, pushed, lost, sets>>

-----------------------------------------------------------------------------
(* The program *)

\* rmw_take_event
TakeEvent ==
    /\ firing = {}
    /\ taken' = taken \cup unread
    /\ unread' = {}
    /\ UNCHANGED <<trackerVars, messageVars, total, callback, firing, heard, swallowed,
                   recorded, pc, lost, sets>>

\* Mutant: the backlog is dropped when a callback is installed.
SetCallbackDrops(c) ==
    /\ firing = {} /\ sets < MaxSets
    /\ sets' = sets + 1
    /\ callback' = c
    /\ unread' = {}
    /\ swallowed' = IF c = "null" THEN swallowed \cup unread ELSE swallowed
    /\ UNCHANGED <<trackerVars, messageVars, total, firing, heard, taken, recorded, pc, lost>>

\* rmw_event_set_callback: install_callback takes the backlog under the lock ...
SetCallback(c) ==
    /\ firing = {} /\ sets < MaxSets
    /\ sets' = sets + 1
    /\ callback' = c
    /\ unread' = {}
    /\ firing' = IF c = "program" THEN unread ELSE {}
    /\ swallowed' = IF c = "null" THEN swallowed \cup unread ELSE swallowed
    /\ UNCHANGED <<trackerVars, messageVars, total, heard, taken, recorded, pc, lost>>

\* ... and it is fired after it.
FireBacklog ==
    /\ firing # {}
    /\ heard' = heard \cup firing
    /\ firing' = {}
    /\ UNCHANGED <<trackerVars, messageVars, total, unread, callback, taken, swallowed,
                   recorded, pc, lost, sets>>

\* Mutant: the count is reset when a callback is removed as well.
SetOnNewMessageResets(some) ==
    /\ sets < MaxSets
    /\ sets' = sets + 1
    /\ announced' = IF some THEN announced + unreadCount ELSE announced
    /\ unreadCount' = 0
    /\ onMessage' = some
    /\ UNCHANGED <<trackerVars, eventVars, queue, pushed, pc, lost>>

\* rmw_subscription_set_on_new_message_callback: the lock of the callback is
\* held from the announcement of the backlog to the store.
\* The user data, stored before under a lock of its own, is left out.
SetOnNewMessage(some) ==
    /\ sets < MaxSets
    /\ sets' = sets + 1
    /\ announced' = IF some THEN announced + unreadCount ELSE announced
    /\ unreadCount' = IF some THEN 0 ELSE unreadCount
    /\ onMessage' = some
    /\ UNCHANGED <<trackerVars, eventVars, queue, pushed, pc, lost>>

\* rmw_take
Take ==
    /\ queue # <<>>
    /\ queue' = Tail(queue)
    /\ UNCHANGED <<trackerVars, eventVars, onMessage, unreadCount, pushed, announced, pc, lost,
                   sets>>

Next ==
    \/ \E p \in Publishers :
          \/ \E n \in 1 .. MaxSn : Arrive(p, n)
          \/ Record(p) \/ CallBack(p) \/ Push(p) \/ Notify(p)
    \/ \E c \in {"program", "null"} : SetCallback(c)
    \/ \E some \in BOOLEAN : SetOnNewMessage(some)
    \/ TakeEvent \/ FireBacklog \/ Take

Spec == Init /\ [][Next]_vars

-----------------------------------------------------------------------------
(* Properties *)

\* What was passed over: a number that had not arrived, and is not older than
\* the first one that did, when a larger one did.
PassedOver(p) ==
    {n \in 1 .. MaxSn : \E i \in DOMAIN arrived[p] :
        /\ arrived[p][1] < n /\ n < arrived[p][i]
        /\ \A j \in 1 .. i : arrived[p][j] # n}

AllPassedOver == UNION {{p} \X PassedOver(p) : p \in Publishers}
BeingRecorded == UNION {lost[p] : p \in {q \in Publishers : pc[q] = "lossy"}}

\* The loss counted is exactly what was passed over: each number once, whatever
\* is replayed or reordered, and as long as the count fits an i32.
LossIsExact ==
    /\ TypeOK
    /\ recorded \cup BeingRecorded = AllPassedOver
    /\ Cardinality(AllPassedOver) <= MaxInt => total = Cardinality(recorded)

BeingCalled == UNION {lost[p] : p \in {q \in Publishers : pc[q] = "calling"}}

\* No loss goes unheard: once the program has a callback installed it has been
\* called, or is about to be, with every loss recorded that was not taken
\* before, whether it was recorded before, while or after the callback was set.
\* Only a null callback takes losses away unheard.
NothingUnheard ==
    callback = "program" =>
       recorded \subseteq heard \cup firing \cup BeingCalled \cup taken \cup swallowed

\* Every message is announced once, to the callback at once or, counted while
\* none was set, when one is.
MessagesAnnounced ==
    pushed = announced + unreadCount + Cardinality({p \in Publishers : pc[p] = "notify"})
=============================================================================
