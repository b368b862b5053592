---------------------------- MODULE PubSubProofs ----------------------------
(***************************************************************************)
(* Proofs about PubSub, for any endpoints, keys, localities, sinks,        *)
(* builder options and threads: a topic is never split over two channels,  *)
(* no subscriber is called twice with a message, a publish the bus did not *)
(* refuse has served the subscribers it found, and one that returns an     *)
(* error has reached nobody.                                               *)
(*                                                                         *)
(* The inductive invariant PInv has three parts: what the registry, the    *)
(* lists and the endpoints know of each other; how the frames of a thread  *)
(* are nested; and how far the followed publish has come (Tracked while it *)
(* runs, Settled once it returned).                                        *)
(***************************************************************************)
EXTENDS PubSub, FiniteSetTheorems, SequenceTheorems, TLAPS

-----------------------------------------------------------------------------
(* The registry, the lists and the endpoints. *)

\* An endpoint holds only the channel registered for its key.
Registered == \A e \in Endpoints : held[e] # None => held[e] = registry[Key[e]]

\* Two keys never share a channel.
Distinct == \A k, l \in Keys : registry[k] # None /\ registry[k] = registry[l] => k = l

\* Every registered channel has been created.
Created == \A k \in Keys : registry[k] # None => registry[k] <= created

\* The endpoints that have not left channel() yet.
Unresolved == {e \in Endpoints : stage[e] \in {"absent", "wired", "missed"}}

\* An endpoint creates at most one channel.
Counted == created + Cardinality(Unresolved) <= Cardinality(Endpoints)

\* Which endpoints hold a channel.
Holding ==
    \A e \in Endpoints :
        /\ stage[e] \in {"absent", "wired", "missed", "dropped"} => held[e] = None
        /\ stage[e] = "resolved" => held[e] # None
        /\ stage[e] = "live" /\ e \in Pubs => held[e] # None

\* A subscriber is on the list of the channel it holds, from rcu to rcu.
Listed ==
    \A c \in Channels : \A s \in entries[c] :
        held[s] = c /\ stage[s] \in {"live", "dropping"}

RegistryInv == Registered /\ Distinct /\ Created /\ Counted /\ Holding /\ Listed

-----------------------------------------------------------------------------
(* The frames of a thread. *)

Delivering == {"call", "inside"}

\* Only the top frame runs: the others are inside a callback, and the depth
\* counts the frames that deliver.
NestedFrames ==
    \A t \in Threads :
        /\ \A i \in 1 .. Len(stack[t]) : i < Len(stack[t]) => stack[t][i].pc = "inside"
        /\ stack[t] = <<>> => depth[t] = 0
        /\ stack[t] # <<>> =>
              depth[t] = IF Top(t).pc \in Delivering THEN Len(stack[t])
                                                     ELSE Len(stack[t]) - 1

\* A running call borrows its publisher.
Borrowed ==
    \A t \in Threads : \A i \in 1 .. Len(stack[t]) : stage[stack[t][i].pub] = "live"

\* One frame at most is the followed one.
OneFollowed ==
    \A t, u \in Threads : \A i \in 1 .. Len(stack[t]), j \in 1 .. Len(stack[u]) :
        stack[t][i].followed /\ stack[u][j].followed => t = u /\ i = j

-----------------------------------------------------------------------------
(* The followed publish. *)

\* Nobody was called with the followed message and no copy is under way.
Untouched == wire = {} /\ \A s \in Subs : calls[s] = 0

\* The followed publish may leave s out: it cannot take the value.
Exempt(s) ==
    Sink[s] = "owned" /\ outcome.how = "owned" /\ Route(outcome.pub) = "BusAndWire"

\* The subscribers the followed publish owes a call.
Owed == {s \in due : stage[s] = "live"}

\* The control path: what pc says of the call and of the route.
OnPath(f) ==
    /\ f.pc # "wire" => f.how # "publish" /\ Route(f.pub) # "WireOnly"
    /\ f.pc = "wire" /\ f.how # "publish" => Route(f.pub) # "BusOnly"
    /\ f.pc = "own" => f.how = "owned"
    /\ f.pc = "check" /\ f.how = "owned" => Route(f.pub) = "BusOnly"

\* Before its bus half the message has reached nobody of its own session, and
\* nobody at all while an error can still be returned.
NotYet(f) ==
    /\ \/ f.pc \in {"check", "wire"}
       \/ f.pc = "own" /\ Route(f.pub) # "BusAndWire"
       => Untouched
    /\ f.pc \in {"check", "own", "bus"} =>
          \A s \in Subs : Key[s] = Key[f.pub] => calls[s] = 0 /\ s \notin wire
    /\ f.pc \in Delivering => \A s \in f.left : calls[s] = 0 /\ s \notin wire

\* Whoever is owed a call is on the list until it is loaded, and then still to
\* be called or called; behind the check it takes a shared value.
StillOwed(f) ==
    /\ f.pc \notin Delivering => Owed \subseteq OfType(f.pub)
    /\ f.pc \in Delivering =>
          \A s \in Owed : s \in f.left \/ calls[s] = 1 \/ Exempt(s)
    /\ /\ f.pc \in {"wire", "bus"}
       /\ f.how # "publish" /\ Route(f.pub) # "WireOnly"
       /\ ~(f.how = "owned" /\ Route(f.pub) = "BusAndWire")
       => \A s \in Owed : Sink[s] # "owned"

\* The state of the followed frame, the i-th of its thread.
Tracked(f, i) ==
    /\ outcome.result = "none" /\ outcome.how = f.how /\ outcome.pub = f.pub
    /\ outcome.nested = i - 1
    /\ OnPath(f) /\ NotYet(f) /\ StillOwed(f)

Following ==
    \A t \in Threads : \A i \in 1 .. Len(stack[t]) :
        stack[t][i].followed => Tracked(stack[t][i], i)

\* No message is called twice, or called and still on the wire.
Once == \A s \in Subs : calls[s] <= 1 /\ (s \in wire => calls[s] = 0)

\* A subscriber that was found registered never registers again.
DueSeen == \A s \in due : stage[s] \in {"live", "dropping", "dropped"}

\* What the result of the followed publish says.
Settled ==
    /\ outcome.result \in {"unsent", "err"} => Untouched
    /\ outcome.result \in {"sent", "notaker"} =>
          \A s \in Owed : calls[s] = 1 \/ Exempt(s)
    /\ outcome.result = "depth" => outcome.nested >= MaxDeliveryDepth

PInv ==
    /\ TypeOK /\ RegistryInv
    /\ NestedFrames /\ Borrowed /\ OneFollowed
    /\ Following /\ Once /\ DueSeen /\ Settled

-----------------------------------------------------------------------------
(* The three things a step does to a stack. *)

Stacks == [Threads -> Seq(Frame)]

\* Goto replaces the top frame and nothing else.
LEMMA GotoFrames ==
    ASSUME stack \in Stacks, NEW t \in Threads, Running(t), NEW f \in Frame, Goto(t, f)
    PROVE  /\ stack' \in Stacks
           /\ \A u \in Threads : Len(stack'[u]) = Len(stack[u])
           /\ \A u \in Threads : \A j \in 1 .. Len(stack[u]) :
                 stack'[u][j] = IF u = t /\ j = Len(stack[t]) THEN f ELSE stack[u][j]
           /\ Len(stack[t]) \in Nat \ {0} /\ Top(t) \in Frame
<1> USE DEF Stacks
<1>1. stack[t] \in Seq(Frame) /\ stack[t] # <<>>
    BY DEF Running
<1>2. Len(stack[t]) \in Nat \ {0} /\ Top(t) \in Frame
    BY <1>1 DEF Top
<1> DEFINE new == [stack[t] EXCEPT ![Len(stack[t])] = f]
<1>3. new \in Seq(Frame) /\ Len(new) = Len(stack[t])
    <2>1. new \in [1 .. Len(stack[t]) -> Frame]
        BY <1>1, <1>2
    <2> QED BY <2>1, <1>2
<1>4. \A j \in 1 .. Len(stack[t]) :
          new[j] = IF j = Len(stack[t]) THEN f ELSE stack[t][j]
    BY <1>1, <1>2
<1>5. stack' = [stack EXCEPT ![t] = new]
    BY DEF Goto
<1> HIDE DEF new
<1> QED BY <1>2, <1>3, <1>4, <1>5

\* A sequence without its last element.
LEMMA FrontFacts ==
    ASSUME NEW S, NEW s \in Seq(S), Len(s) \in Nat \ {0}
    PROVE  /\ SubSeq(s, 1, Len(s) - 1) \in Seq(S)
           /\ Len(SubSeq(s, 1, Len(s) - 1)) = Len(s) - 1
<1>1. PICK n \in Int : n = Len(s) - 1 /\ n >= 0
    OBVIOUS
<1>2. \A i \in 1 .. n : s[i] \in S
    BY <1>1
<1>3. 1 \in Int
    OBVIOUS
<1>4. /\ SubSeq(s, 1, n) \in Seq(S)
      /\ Len(SubSeq(s, 1, n)) = IF 1 <= n THEN n - 1 + 1 ELSE 0
    BY <1>2, <1>3, SubSeqProperties
<1>5. Len(SubSeq(s, 1, n)) = n
    <2> DEFINE l == Len(SubSeq(s, 1, n))
    <2>1. l = IF 1 <= n THEN n - 1 + 1 ELSE 0
        BY <1>4
    <2> HIDE DEF l
    <2>2. l = n
        BY <2>1, <1>1
    <2> QED BY <2>2 DEF l
<1> QED BY <1>1, <1>4, <1>5

\* Finish drops the top frame and nothing else.
LEMMA FinishFrames ==
    ASSUME stack \in Stacks, NEW t \in Threads, Running(t), NEW r, Finish(t, r)
    PROVE  /\ stack' \in Stacks
           /\ Len(stack'[t]) = Len(stack[t]) - 1
           /\ \A u \in Threads \ {t} : stack'[u] = stack[u]
           /\ \A u \in Threads : \A j \in 1 .. Len(stack'[u]) :
                 j \in 1 .. Len(stack[u]) /\ stack'[u][j] = stack[u][j]
           /\ Len(stack[t]) \in Nat \ {0} /\ Top(t) \in Frame
<1> USE DEF Stacks
<1>1. stack[t] \in Seq(Frame) /\ stack[t] # <<>>
    BY DEF Running
<1>2. Len(stack[t]) \in Nat \ {0} /\ Top(t) \in Frame
    BY <1>1 DEF Top
<1> DEFINE new == SubSeq(stack[t], 1, Len(stack[t]) - 1)
<1>3. new \in Seq(Frame) /\ Len(new) = Len(stack[t]) - 1
    BY <1>1, <1>2, FrontFacts
<1>4. \A j \in 1 .. Len(new) : j \in 1 .. Len(stack[t]) /\ new[j] = stack[t][j]
    BY <1>1, <1>2
<1>5. stack' = [stack EXCEPT ![t] = new]
    BY DEF Finish
<1> HIDE DEF new
<1> QED BY <1>2, <1>3, <1>4, <1>5

\* A publish pushes a frame and changes no other.
LEMMA PushFrames ==
    ASSUME stack \in Stacks, NEW t \in Threads, NEW f \in Frame,
           stack' = [stack EXCEPT ![t] = Append(@, f)]
    PROVE  /\ stack' \in Stacks
           /\ Len(stack[t]) \in Nat
           /\ Len(stack'[t]) = Len(stack[t]) + 1
           /\ stack'[t][Len(stack[t]) + 1] = f
           /\ \A u \in Threads \ {t} : stack'[u] = stack[u]
           /\ \A u \in Threads : \A j \in 1 .. Len(stack[u]) :
                 stack'[u][j] = stack[u][j]
<1> USE DEF Stacks
<1>1. stack[t] \in Seq(Frame) /\ Len(stack[t]) \in Nat
    OBVIOUS
<1> DEFINE new == Append(stack[t], f)
<1>2. /\ new \in Seq(Frame) /\ Len(new) = Len(stack[t]) + 1
      /\ new[Len(stack[t]) + 1] = f
      /\ \A j \in 1 .. Len(stack[t]) : new[j] = stack[t][j]
    BY <1>1
<1>3. stack' = [stack EXCEPT ![t] = new]
    OBVIOUS
<1> HIDE DEF new
<1> QED BY <1>1, <1>2, <1>3

-----------------------------------------------------------------------------
(* What the three kinds of steps keep of the followed publish. *)

\* A step that builds or drops an endpoint: it runs no frame, it does not bring
\* a subscriber back to life, and a live one stays on the list it is on.
LEMMA EndpointStep ==
    ASSUME PInv,
           UNCHANGED <<options, stack, depth, wire, calls, due, outcome>>,
           \A s \in Subs : stage'[s] = "live" /\ s \in due => stage[s] = "live",
           \A s \in due : stage'[s] \in {"live", "dropping", "dropped"},
           \A t \in Threads : \A i \in 1 .. Len(stack[t]) :
               /\ stage'[stack[t][i].pub] = "live"
               /\ held'[stack[t][i].pub] = held[stack[t][i].pub],
           \A c \in Channels : \A s \in entries[c] :
               stage'[s] = "live" => s \in entries'[c]
    PROVE  /\ NestedFrames' /\ Borrowed' /\ OneFollowed'
           /\ Following' /\ Once' /\ DueSeen' /\ Settled'
<1>1. TypeOK /\ due \subseteq Subs /\ stack \in Stacks
    BY DEF PInv, TypeOK, Stacks
<1>2. NestedFrames' /\ OneFollowed' /\ Once'
    BY DEF PInv, NestedFrames, OneFollowed, Once, Top
<1>3. Borrowed'
    BY DEF PInv, Borrowed
<1>4. DueSeen'
    BY DEF DueSeen
<1>5. \A p : Route(p)' = Route(p)
    BY DEF Route
<1>6. Owed' \subseteq Owed
    BY <1>1 DEF Owed
<1>7. \A s : Exempt(s)' <=> Exempt(s)
    BY <1>5 DEF Exempt
<1>8. Untouched' <=> Untouched
    BY DEF Untouched
<1>9. Settled'
    BY <1>6, <1>7, <1>8 DEF PInv, Settled
<1>10. ASSUME NEW t \in Threads, NEW i \in 1 .. Len(stack[t]), stack[t][i].followed
       PROVE  Tracked(stack[t][i], i)'
    <2>1. PICK f \in Frame : f = stack[t][i]
        BY <1>1 DEF Stacks
    <2>2. Tracked(f, i)
        BY <1>10, <2>1 DEF PInv, Following
    <2>3. OnPath(f)' /\ NotYet(f)'
        BY <2>2, <1>5, <1>8 DEF Tracked, OnPath, NotYet
    <2>4. stage[f.pub] = "live" /\ f.pub \in Endpoints /\ f.pub \in Pubs
        BY <2>1 DEF PInv, Borrowed, Frame, Endpoints
    <2>5. held[f.pub] \in Channels /\ held'[f.pub] = held[f.pub]
        BY <1>1, <2>1, <2>4 DEF PInv, RegistryInv, Holding, TypeOK
    <2>6. Owed \subseteq OfType(f.pub) => Owed' \subseteq OfType(f.pub)'
        <3>1. \A s \in Owed' : s \in Owed /\ stage'[s] = "live"
            BY <1>6 DEF Owed
        <3> QED BY <3>1, <2>5 DEF OfType
    <2>7. StillOwed(f)'
        BY <2>2, <2>6, <1>5, <1>6, <1>7 DEF Tracked, StillOwed
    <2>8. Tracked(f, i)'
        BY <2>2, <2>3, <2>7 DEF Tracked
    <2> QED BY <2>1, <2>8
<1>11. Following'
    BY <1>10 DEF Following
<1> QED BY <1>2, <1>3, <1>4, <1>9, <1>11

\* A step of the top frame that goes on.
LEMMA GotoStep ==
    ASSUME PInv, NEW t \in Threads, Running(t), NEW f \in Frame, Goto(t, f),
           f.followed = Top(t).followed, f.pub = Top(t).pub,
           UNCHANGED <<stage, options, registryVars, due, outcome>>,
           NEW n, n = Len(stack[t]), f.followed => Tracked(f, n)',
           ~f.followed => UNCHANGED <<wire, calls>>,
           depth' \in [Threads -> Nat],
           \A u \in Threads \ {t} : depth'[u] = depth[u],
           depth'[t] = IF f.pc \in Delivering THEN Len(stack[t]) ELSE Len(stack[t]) - 1
    PROVE  /\ NestedFrames' /\ Borrowed' /\ OneFollowed'
           /\ Following' /\ DueSeen' /\ Settled'
<1>1. stack \in Stacks /\ depth \in [Threads -> Nat]
    BY DEF PInv, TypeOK, Stacks
<1>2. /\ stack' \in Stacks
      /\ \A u \in Threads : Len(stack'[u]) = Len(stack[u])
      /\ \A u \in Threads : \A j \in 1 .. Len(stack[u]) :
             stack'[u][j] = IF u = t /\ j = Len(stack[t]) THEN f ELSE stack[u][j]
      /\ Len(stack[t]) \in Nat \ {0} /\ Top(t) \in Frame
    BY <1>1, GotoFrames
<1>3. \A u \in Threads : Len(stack[u]) \in Nat
    BY <1>1 DEF Stacks
<1>4. \A u \in Threads : (stack[u] = <<>> <=> Len(stack[u]) = 0)
                         /\ (stack'[u] = <<>> <=> Len(stack'[u]) = 0)
    BY <1>1, <1>2 DEF Stacks
<1>5. NestedFrames'
    <2> SUFFICES ASSUME NEW u \in Threads
                 PROVE  /\ \A i \in 1 .. Len(stack'[u]) :
                               i < Len(stack'[u]) => stack'[u][i].pc = "inside"
                        /\ stack'[u] = <<>> => depth'[u] = 0
                        /\ stack'[u] # <<>> =>
                              depth'[u] = IF stack'[u][Len(stack'[u])].pc \in Delivering
                                          THEN Len(stack'[u]) ELSE Len(stack'[u]) - 1
        BY DEF NestedFrames, Top
    <2>1. CASE u = t
        <3>1. stack'[t][Len(stack'[t])] = f /\ stack'[t] # <<>>
            BY <1>2, <1>4
        <3>2. \A i \in 1 .. Len(stack[t]) : i < Len(stack[t]) => stack[t][i].pc = "inside"
            BY DEF PInv, NestedFrames
        <3> QED BY <2>1, <3>1, <3>2, <1>2
    <2>2. CASE u # t
        <3>1. /\ \A i \in 1 .. Len(stack[u]) : i < Len(stack[u]) => stack[u][i].pc = "inside"
              /\ stack[u] = <<>> => depth[u] = 0
              /\ stack[u] # <<>> =>
                    depth[u] = IF stack[u][Len(stack[u])].pc \in Delivering
                               THEN Len(stack[u]) ELSE Len(stack[u]) - 1
            BY DEF PInv, NestedFrames, Top
        <3>2. \A i \in 1 .. Len(stack[u]) : stack'[u][i] = stack[u][i]
            BY <2>2, <1>2
        <3>3. stack[u] # <<>> => Len(stack[u]) \in 1 .. Len(stack[u])
            BY <1>3, <1>4
        <3>4. Len(stack'[u]) = Len(stack[u]) /\ depth'[u] = depth[u]
            BY <1>2, <2>2
        <3> QED BY <3>1, <3>2, <3>3, <3>4, <1>4
    <2> QED BY <2>1, <2>2
<1>6. Top(t) = stack[t][Len(stack[t])] /\ Len(stack[t]) \in 1 .. Len(stack[t])
    BY <1>2 DEF Top
<1>7. \A u \in Threads : \A j \in 1 .. Len(stack[u]) :
          stack'[u][j].pub = stack[u][j].pub /\ stack'[u][j].followed = stack[u][j].followed
    BY <1>2, <1>6
<1>8. Borrowed'
    BY <1>2, <1>7 DEF PInv, Borrowed
<1>9. OneFollowed'
    <2> SUFFICES ASSUME NEW u \in Threads, NEW v \in Threads,
                        NEW i \in 1 .. Len(stack'[u]), NEW j \in 1 .. Len(stack'[v]),
                        stack'[u][i].followed, stack'[v][j].followed
                 PROVE  u = v /\ i = j
        BY DEF OneFollowed
    <2>1. i \in 1 .. Len(stack[u]) /\ j \in 1 .. Len(stack[v])
        BY <1>2
    <2>2. stack[u][i].followed /\ stack[v][j].followed
        BY <1>7, <2>1
    <2> QED BY <2>1, <2>2 DEF PInv, OneFollowed
<1>10. DueSeen'
    BY DEF PInv, DueSeen
<1>11. \A p : Route(p)' = Route(p)
    BY DEF Route
<1>12. Owed' = Owed /\ \A s : Exempt(s)' <=> Exempt(s)
    BY <1>11 DEF Owed, Exempt
<1>13. ~f.followed => (Untouched' <=> Untouched)
    BY DEF Untouched
<1>14. Settled'
    <2>1. CASE f.followed
        BY <2>1 DEF Settled, Tracked
    <2>2. CASE ~f.followed
        BY <2>2, <1>12, <1>13 DEF PInv, Settled
    <2> QED BY <2>1, <2>2
<1>15. ASSUME NEW u \in Threads, NEW j \in 1 .. Len(stack[u]), stack'[u][j].followed
       PROVE  Tracked(stack[u][j], j)'
    <2> DEFINE g == stack'[u][j]
    <2>1. CASE u = t /\ j = Len(stack[t])
        <3>1. stack'[u][j] = f
            BY <2>1, <1>2
        <3>2. n = j /\ f.followed
            BY <3>1, <2>1, <1>2, <1>15
        <3> QED BY <3>1, <3>2 DEF Tracked, OnPath, NotYet, StillOwed
    <2>2. CASE ~(u = t /\ j = Len(stack[t]))
        <3>1. stack'[u][j] = stack[u][j] /\ stack[u][j].followed
            BY <2>2, <1>2, <1>15
        <3>2. ~f.followed
            BY <3>1, <2>2, <1>6 DEF PInv, OneFollowed
        <3>3. PICK h \in Frame : h = stack[u][j]
            BY <1>1 DEF Stacks
        <3>4. Tracked(h, j)
            BY <3>1, <3>3 DEF PInv, Following
        <3>5. Tracked(h, j)'
            BY <3>2, <3>4, <1>11, <1>12, <1>13
               DEF Tracked, OnPath, NotYet, StillOwed, OfType, registryVars
        <3> QED BY <3>1, <3>3, <3>5
    <2> QED BY <2>1, <2>2
<1>16. Following'
    BY <1>2, <1>15 DEF Following
<1> QED BY <1>5, <1>8, <1>9, <1>10, <1>14, <1>16

\* A step of the top frame that returns.
LEMMA FinishStep ==
    ASSUME PInv, NEW t \in Threads, Running(t), NEW r, Finish(t, r),
           UNCHANGED <<stage, options, registryVars, due>>,
           ~Top(t).followed => UNCHANGED <<wire, calls>>,
           Top(t).followed => Settled',
           depth' \in [Threads -> Nat],
           \A u \in Threads \ {t} : depth'[u] = depth[u],
           depth'[t] = Len(stack[t]) - 1
    PROVE  /\ NestedFrames' /\ Borrowed' /\ OneFollowed'
           /\ Following' /\ DueSeen' /\ Settled'
<1>1. stack \in Stacks /\ depth \in [Threads -> Nat]
    BY DEF PInv, TypeOK, Stacks
<1>2. /\ stack' \in Stacks
      /\ Len(stack'[t]) = Len(stack[t]) - 1
      /\ \A u \in Threads \ {t} : stack'[u] = stack[u]
      /\ \A u \in Threads : \A j \in 1 .. Len(stack'[u]) :
             j \in 1 .. Len(stack[u]) /\ stack'[u][j] = stack[u][j]
      /\ Len(stack[t]) \in Nat \ {0} /\ Top(t) \in Frame
    BY <1>1, FinishFrames
<1>3. \A u \in Threads : stack'[u] \in Seq(Frame) /\ Len(stack'[u]) \in Nat
    BY <1>2 DEF Stacks
<1>4. NestedFrames'
    <2> SUFFICES ASSUME NEW u \in Threads
                 PROVE  /\ \A i \in 1 .. Len(stack'[u]) :
                               i < Len(stack'[u]) => stack'[u][i].pc = "inside"
                        /\ stack'[u] = <<>> => depth'[u] = 0
                        /\ stack'[u] # <<>> =>
                              depth'[u] = IF stack'[u][Len(stack'[u])].pc \in Delivering
                                          THEN Len(stack'[u]) ELSE Len(stack'[u]) - 1
        BY DEF NestedFrames, Top
    <2>1. /\ \A i \in 1 .. Len(stack[u]) : i < Len(stack[u]) => stack[u][i].pc = "inside"
          /\ stack[u] = <<>> => depth[u] = 0
          /\ stack[u] # <<>> =>
                depth[u] = IF stack[u][Len(stack[u])].pc \in Delivering
                           THEN Len(stack[u]) ELSE Len(stack[u]) - 1
        BY DEF PInv, NestedFrames, Top
    <2>2. CASE u = t
        <3>1. ASSUME NEW i \in 1 .. Len(stack'[t])
              PROVE  stack'[t][i].pc = "inside"
            <4>1. i \in 1 .. Len(stack[t]) /\ stack'[t][i] = stack[t][i]
                BY <1>2
            <4>2. i < Len(stack[t])
                BY <1>2, <1>3
            <4> QED BY <4>1, <4>2, <2>1, <2>2
        <3>2. stack'[t] = <<>> <=> Len(stack'[t]) = 0
            BY <1>3
        <3>3. stack'[t] # <<>> => Len(stack'[t]) \in 1 .. Len(stack'[t])
            BY <1>3, <3>2
        <3> QED BY <2>2, <3>1, <3>2, <3>3, <1>2 DEF Delivering
    <2>3. CASE u # t
        BY <2>1, <2>3, <1>2
    <2> QED BY <2>2, <2>3
<1>5. Top(t) = stack[t][Len(stack[t])] /\ Len(stack[t]) \in 1 .. Len(stack[t])
    BY <1>2 DEF Top
<1>6. Borrowed'
    BY <1>2 DEF PInv, Borrowed
<1>7. OneFollowed'
    <2> SUFFICES ASSUME NEW u \in Threads, NEW v \in Threads,
                        NEW i \in 1 .. Len(stack'[u]), NEW j \in 1 .. Len(stack'[v]),
                        stack'[u][i].followed, stack'[v][j].followed
                 PROVE  u = v /\ i = j
        BY DEF OneFollowed
    <2>1. /\ i \in 1 .. Len(stack[u]) /\ j \in 1 .. Len(stack[v])
          /\ stack[u][i].followed /\ stack[v][j].followed
        BY <1>2
    <2> QED BY <2>1 DEF PInv, OneFollowed
<1>8. DueSeen'
    BY DEF PInv, DueSeen
<1>9. \A p : Route(p)' = Route(p)
    BY DEF Route
<1>10. ~Top(t).followed => outcome' = outcome
    BY DEF Finish
<1>11. ~Top(t).followed =>
           /\ Owed' = Owed /\ \A s : Exempt(s)' <=> Exempt(s)
           /\ Untouched' <=> Untouched
    BY <1>9, <1>10 DEF Owed, Exempt, Untouched
<1>12. Settled'
    BY <1>10, <1>11 DEF PInv, Settled
<1>13. ASSUME NEW u \in Threads, NEW j \in 1 .. Len(stack'[u]), stack'[u][j].followed
       PROVE  Tracked(stack[u][j], j)'
    <2>1. j \in 1 .. Len(stack[u]) /\ stack'[u][j] = stack[u][j] /\ stack[u][j].followed
        BY <1>2, <1>13
    <2>2. ~(u = t /\ j = Len(stack[t]))
        BY <1>2
    <2>3. ~Top(t).followed
        BY <2>1, <2>2, <1>5 DEF PInv, OneFollowed
    <2>4. PICK h \in Frame : h = stack[u][j]
        BY <1>1, <2>1 DEF Stacks
    <2>5. Tracked(h, j)
        BY <2>1, <2>4 DEF PInv, Following
    <2>6. Tracked(h, j)'
        BY <2>3, <2>5, <1>9, <1>10, <1>11
           DEF Tracked, OnPath, NotYet, StillOwed, OfType, registryVars
    <2> QED BY <2>1, <2>4, <2>6
<1>14. Following'
    BY <1>13 DEF Following
<1> QED BY <1>4, <1>6, <1>7, <1>8, <1>12, <1>14

-----------------------------------------------------------------------------
(* Building and dropping endpoints. *)

\* What the assumptions say of the endpoints and their keys.
LEMMA EndpointFacts ==
    /\ IsFiniteSet(Endpoints) /\ Cardinality(Endpoints) \in Nat
    /\ Pubs \subseteq Endpoints /\ Subs \subseteq Endpoints
    /\ \A e \in Endpoints : Key[e] \in Keys
    /\ None \notin Channels /\ Channels \subseteq Nat
<1>1. IsFiniteSet(Endpoints)
    BY PubSubAssumption
<1>2. Cardinality(Endpoints) \in Nat
    BY <1>1, FS_CardinalityType
<1> QED BY <1>1, <1>2, PubSubAssumption DEF Endpoints, Keys, Channels

\* The unresolved endpoints become fewer, by e at least if e leaves channel().
LEMMA UnresolvedFewer ==
    ASSUME Unresolved' \subseteq Unresolved
    PROVE  /\ Cardinality(Unresolved) \in Nat /\ Cardinality(Unresolved') \in Nat
           /\ Cardinality(Unresolved') <= Cardinality(Unresolved)
           /\ \A e \in Unresolved : e \notin Unresolved' =>
                 Cardinality(Unresolved') + 1 <= Cardinality(Unresolved)
<1>1. IsFiniteSet(Unresolved)
    BY EndpointFacts, FS_Subset DEF Unresolved
<1>2. PICK U, V : U = Unresolved /\ V = Unresolved'
    OBVIOUS
<1>3. IsFiniteSet(U) /\ V \subseteq U /\ IsFiniteSet(V)
    BY <1>1, <1>2, FS_Subset
<1>4. Cardinality(U) \in Nat /\ Cardinality(V) \in Nat /\ Cardinality(V) <= Cardinality(U)
    BY <1>3, FS_CardinalityType, FS_Subset
<1>5. ASSUME NEW e \in U, e \notin V
      PROVE  Cardinality(V) + 1 <= Cardinality(U)
    <2>1. IsFiniteSet(U \ {e}) /\ Cardinality(U \ {e}) = Cardinality(U) - 1
        BY <1>3, FS_RemoveElement
    <2>2. V \subseteq U \ {e}
        BY <1>3, <1>5
    <2>3. Cardinality(V) <= Cardinality(U \ {e})
        BY <2>1, <2>2, FS_Subset
    <2> QED BY <2>1, <2>3, <1>4
<1> QED BY <1>2, <1>4, <1>5

\* The publishers of the frames.
LEMMA FramePubs ==
    ASSUME PInv, NEW t \in Threads, NEW i \in 1 .. Len(stack[t])
    PROVE  /\ stack[t][i] \in Frame /\ stack[t][i].pub \in Pubs
           /\ stage[stack[t][i].pub] = "live" /\ held[stack[t][i].pub] \in Channels
<1>1. stack[t] \in Seq(Frame)
    BY DEF PInv, TypeOK
<1>2. stack[t][i] \in Frame
    BY <1>1
<1>3. stack[t][i].pub \in Pubs
    BY <1>2 DEF Frame
<1>4. stage[stack[t][i].pub] = "live"
    BY DEF PInv, Borrowed
<1>5. held[stack[t][i].pub] # None
    BY <1>3, <1>4, EndpointFacts DEF PInv, RegistryInv, Holding
<1>6. held[stack[t][i].pub] \in Channels
    BY <1>3, <1>5, EndpointFacts DEF PInv, TypeOK
<1> QED BY <1>2, <1>3, <1>4, <1>6

\* A step of one endpoint e that keeps the registry, the lists and the channels
\* held, and takes the stage of e from one that owes nothing to another.
LEMMA StageStep ==
    ASSUME PInv, NEW e \in Endpoints, NEW new,
           stage' = [stage EXCEPT ![e] = new],
           UNCHANGED <<options, registryVars, stack, depth, wire, history>>,
           \/ stage[e] = "absent" /\ new = "wired"
           \/ stage[e] = "absent" /\ new = "live" /\ e \notin Pubs
           \/ stage[e] = "wired" /\ new = "missed"
           \/ stage[e] = "live" /\ new = "dropping" /\ e \notin Pubs
    PROVE  PInv'
<1> USE DEF registryVars, history
<1>1. TypeOK
    BY DEF PInv
<1>2. TypeOK'
    BY <1>1 DEF TypeOK
<1>3. stage \in [Endpoints -> {"absent", "wired", "missed", "resolved", "live",
                               "dropping", "dropped"}]
    BY <1>1 DEF TypeOK
<1>4. due \subseteq Endpoints
    BY <1>1, EndpointFacts DEF TypeOK
<1>5. \A s \in Subs : stage'[s] = "live" /\ s \in due => stage[s] = "live"
    BY <1>3, <1>4 DEF PInv, DueSeen
<1>6. \A s \in due : stage'[s] \in {"live", "dropping", "dropped"}
    BY <1>3, <1>4 DEF PInv, DueSeen
<1>7. \A t \in Threads : \A i \in 1 .. Len(stack[t]) :
          /\ stage'[stack[t][i].pub] = "live"
          /\ held'[stack[t][i].pub] = held[stack[t][i].pub]
    <2> SUFFICES ASSUME NEW t \in Threads, NEW i \in 1 .. Len(stack[t])
                 PROVE  stage'[stack[t][i].pub] = "live"
        OBVIOUS
    <2>1. stack[t][i].pub \in Pubs /\ stage[stack[t][i].pub] = "live"
        BY FramePubs
    <2> QED BY <2>1, <1>3, EndpointFacts
<1>8. \A c \in Channels : \A s \in entries[c] : stage'[s] = "live" => s \in entries'[c]
    OBVIOUS
<1>9. RegistryInv'
    <2>1. Registered' /\ Distinct' /\ Created'
        BY DEF PInv, RegistryInv, Registered, Distinct, Created
    <2>2. Holding'
        BY <1>3 DEF PInv, RegistryInv, Holding
    <2>3. Listed'
        <3> SUFFICES ASSUME NEW c \in Channels, NEW s \in entries[c]
                     PROVE  held[s] = c /\ stage'[s] \in {"live", "dropping"}
            BY DEF Listed
        <3>1. held[s] = c /\ stage[s] \in {"live", "dropping"} /\ s \in Endpoints
            BY <1>1, EndpointFacts DEF PInv, RegistryInv, Listed, TypeOK
        <3> QED BY <3>1, <1>3
    <2>4. Unresolved' \subseteq Unresolved
        BY <1>3 DEF Unresolved
    <2>5. Counted'
        <3>1. /\ Cardinality(Unresolved) \in Nat /\ Cardinality(Unresolved') \in Nat
              /\ Cardinality(Unresolved') <= Cardinality(Unresolved)
            BY <2>4, UnresolvedFewer
        <3>2. created + Cardinality(Unresolved) <= Cardinality(Endpoints)
            BY DEF PInv, RegistryInv, Counted
        <3>3. created \in Nat
            BY <1>1, EndpointFacts DEF TypeOK
        <3>4. created + Cardinality(Unresolved') <= Cardinality(Endpoints)
            BY <3>1, <3>2, <3>3, EndpointFacts
        <3> QED BY <3>4 DEF Counted
    <2> QED BY <2>1, <2>2, <2>3, <2>5 DEF RegistryInv
<1>10. /\ NestedFrames' /\ Borrowed' /\ OneFollowed'
       /\ Following' /\ Once' /\ DueSeen' /\ Settled'
    BY <1>5, <1>6, <1>7, <1>8, EndpointStep
<1> QED BY <1>2, <1>9, <1>10 DEF PInv

\* Declaring an endpoint, missing the channel and dropping the wire half.
LEMMA StageActions ==
    ASSUME PInv, NEW e \in Endpoints,
           Declare(e) \/ ChannelMiss(e) \/ (e \in Subs /\ DropWire(e))
    PROVE  PInv'
<1>1. CASE Declare(e)
    BY <1>1, StageStep DEF Declare, OnBus
<1>2. CASE ChannelMiss(e)
    BY <1>2, StageStep DEF ChannelMiss
<1>3. CASE e \in Subs /\ DropWire(e)
    BY <1>3, StageStep, PubSubAssumption DEF DropWire
<1> QED BY <1>1, <1>2, <1>3

\* An endpoint leaves channel() with the channel c.
LEMMA ResolveStep ==
    ASSUME PInv, NEW e \in Endpoints, stage[e] \in {"wired", "missed"},
           NEW c \in Channels,
           stage' = [stage EXCEPT ![e] = Resolved(e)],
           held' = [held EXCEPT ![e] = c],
           registry' \in [Keys -> Channels \cup {None}],
           created' \in Nat, created' <= created + 1,
           Registered', Distinct', Created',
           UNCHANGED <<options, entries, stack, depth, wire, history>>
    PROVE  PInv'
<1> USE DEF history
<1>1. TypeOK
    BY DEF PInv
<1>2. /\ stage \in [Endpoints -> {"absent", "wired", "missed", "resolved", "live",
                                  "dropping", "dropped"}]
      /\ held \in [Endpoints -> Channels \cup {None}]
      /\ created \in Nat
    BY <1>1, EndpointFacts DEF TypeOK
<1>3. e \in Pubs \/ e \in Subs
    BY DEF Endpoints
<1>4. Counted'
    <2>1. Unresolved' \subseteq Unresolved /\ e \in Unresolved /\ e \notin Unresolved'
        BY <1>2 DEF Unresolved, Resolved
    <2>2. /\ Cardinality(Unresolved) \in Nat /\ Cardinality(Unresolved') \in Nat
          /\ Cardinality(Unresolved') + 1 <= Cardinality(Unresolved)
        BY <2>1, UnresolvedFewer
    <2>3. created + Cardinality(Unresolved) <= Cardinality(Endpoints)
        BY DEF PInv, RegistryInv, Counted
    <2>4. created' + Cardinality(Unresolved') <= Cardinality(Endpoints)
        BY <2>2, <2>3, <1>2, EndpointFacts
    <2> QED BY <2>4 DEF Counted
<1>5. TypeOK'
    <2>1. created' \in 0 .. Cardinality(Endpoints)
        <3>1. Cardinality(Unresolved') \in Nat
            <4>1. Unresolved' \subseteq Unresolved
                BY <1>2 DEF Unresolved, Resolved
            <4> QED BY <4>1, UnresolvedFewer
        <3>2. created' + Cardinality(Unresolved') <= Cardinality(Endpoints)
            BY <1>4 DEF Counted
        <3> QED BY <3>1, <3>2, EndpointFacts
    <2>2. held' \in [Endpoints -> Channels \cup {None}]
        BY <1>2
    <2>3. stage' \in [Endpoints -> {"absent", "wired", "missed", "resolved", "live",
                                    "dropping", "dropped"}]
        BY <1>2 DEF Resolved
    <2> QED BY <1>1, <2>1, <2>2, <2>3 DEF TypeOK
<1>6. Holding'
    <2> SUFFICES ASSUME NEW g \in Endpoints
                 PROVE  /\ stage'[g] \in {"absent", "wired", "missed", "dropped"}
                           => held'[g] = None
                        /\ stage'[g] = "resolved" => held'[g] # None
                        /\ stage'[g] = "live" /\ g \in Pubs => held'[g] # None
        BY DEF Holding
    <2>1. CASE g = e
        BY <2>1, <1>2, EndpointFacts DEF Resolved
    <2>2. CASE g # e
        BY <2>2, <1>2 DEF PInv, RegistryInv, Holding
    <2> QED BY <2>1, <2>2
<1>7. \A d \in Channels : \A s \in entries[d] :
          s \in Endpoints /\ s # e /\ stage[s] \in {"live", "dropping"} /\ held[s] = d
    BY <1>1, EndpointFacts DEF PInv, RegistryInv, Listed, TypeOK
<1>8. Listed'
    BY <1>2, <1>7 DEF Listed
<1>9. due \subseteq Subs /\ \A s \in due : s \in Endpoints /\ s # e
    BY <1>1, EndpointFacts DEF TypeOK, PInv, DueSeen
<1>10. \A s \in Subs : stage'[s] = "live" /\ s \in due => stage[s] = "live"
    BY <1>2, <1>9
<1>11. \A s \in due : stage'[s] \in {"live", "dropping", "dropped"}
    BY <1>2, <1>9 DEF PInv, DueSeen
<1>12. \A t \in Threads : \A i \in 1 .. Len(stack[t]) :
          /\ stage'[stack[t][i].pub] = "live"
          /\ held'[stack[t][i].pub] = held[stack[t][i].pub]
    <2> SUFFICES ASSUME NEW t \in Threads, NEW i \in 1 .. Len(stack[t])
                 PROVE  /\ stage'[stack[t][i].pub] = "live"
                        /\ held'[stack[t][i].pub] = held[stack[t][i].pub]
        OBVIOUS
    <2>1. stack[t][i].pub \in Endpoints /\ stage[stack[t][i].pub] = "live"
        BY FramePubs, EndpointFacts
    <2> QED BY <2>1, <1>2
<1>13. \A d \in Channels : \A s \in entries[d] : stage'[s] = "live" => s \in entries'[d]
    OBVIOUS
<1>14. /\ NestedFrames' /\ Borrowed' /\ OneFollowed'
       /\ Following' /\ Once' /\ DueSeen' /\ Settled'
    BY <1>10, <1>11, <1>12, <1>13, EndpointStep
<1> QED BY <1>4, <1>5, <1>6, <1>8, <1>14 DEF PInv, RegistryInv

\* The fast path of channel() takes the registered channel.
LEMMA ChannelHitStep ==
    ASSUME PInv, NEW e \in Endpoints, ChannelHit(e)
    PROVE  PInv'
<1>1. PICK c : c = registry[Key[e]]
    OBVIOUS
<1>2. TypeOK
    BY DEF PInv
<1>3. c \in Channels
    BY <1>1, <1>2, EndpointFacts DEF ChannelHit, TypeOK
<1>4. Registered'
    BY <1>1, <1>2 DEF PInv, RegistryInv, Registered, ChannelHit, TypeOK
<1>5. Distinct' /\ Created'
    BY DEF PInv, RegistryInv, Distinct, Created, ChannelHit
<1>6. created \in Nat /\ registry \in [Keys -> Channels \cup {None}]
    BY <1>2, EndpointFacts DEF TypeOK
<1>7. created' \in Nat /\ created' <= created + 1
      /\ registry' \in [Keys -> Channels \cup {None}]
    BY <1>6 DEF ChannelHit
<1>8. /\ stage[e] \in {"wired", "missed"}
      /\ stage' = [stage EXCEPT ![e] = Resolved(e)]
      /\ held' = [held EXCEPT ![e] = c]
      /\ UNCHANGED <<options, entries, stack, depth, wire, history>>
    BY <1>1 DEF ChannelHit
<1> QED BY <1>3, <1>4, <1>5, <1>7, <1>8, ResolveStep

\* The slow path of channel(): the sweep keeps every channel somebody holds, so
\* that the one it leaves or inserts is new to its key or shared by its key.
LEMMA ChannelCreateStep ==
    ASSUME PInv, NEW e \in Endpoints, ChannelCreate(e)
    PROVE  PInv'
<1>1. TypeOK
    BY DEF PInv
<1>2. created \in Nat /\ registry \in [Keys -> Channels \cup {None}]
      /\ held \in [Endpoints -> Channels \cup {None}]
    BY <1>1, EndpointFacts DEF TypeOK
<1>3. PICK swept : swept = [k \in Keys |-> IF registry[k] # None /\ InUse(registry[k])
                                           THEN registry[k] ELSE None]
    OBVIOUS
<1>4. PICK c : c = IF swept[Key[e]] = None THEN created + 1 ELSE swept[Key[e]]
    OBVIOUS
<1>5. /\ registry' = [swept EXCEPT ![Key[e]] = c]
      /\ created' = IF swept[Key[e]] = None THEN created + 1 ELSE created
      /\ held' = [held EXCEPT ![e] = c]
      /\ stage[e] \in {"wired", "missed"}
      /\ stage' = [stage EXCEPT ![e] = Resolved(e)]
      /\ UNCHANGED <<options, entries, stack, depth, wire, history>>
    BY <1>3, <1>4 DEF ChannelCreate
<1>6. /\ swept \in [Keys -> Channels \cup {None}]
      /\ \A k \in Keys : swept[k] # None => swept[k] = registry[k]
      /\ \A k \in Keys : registry[k] # None /\ InUse(registry[k]) => swept[k] = registry[k]
    BY <1>2, <1>3
<1>7. Key[e] \in Keys
    BY EndpointFacts
<1>8. created + 1 \in Channels
    <2>1. e \in Unresolved
        BY DEF Unresolved, ChannelCreate
    <2>2. Cardinality(Unresolved) \in Nat \ {0}
        <3>1. IsFiniteSet(Unresolved)
            BY EndpointFacts, FS_Subset DEF Unresolved
        <3>2. Cardinality(Unresolved) \in Nat
            BY <3>1, FS_CardinalityType
        <3>3. Cardinality(Unresolved) # 0
            BY <3>1, <2>1, FS_EmptySet
        <3> QED BY <3>2, <3>3
    <2>3. created + Cardinality(Unresolved) <= Cardinality(Endpoints)
        BY DEF PInv, RegistryInv, Counted
    <2>4. created + 1 \in 1 .. Cardinality(Endpoints)
        BY <2>2, <2>3, <1>2, EndpointFacts
    <2> QED BY <2>4 DEF Channels
<1>9. c \in Channels
    BY <1>4, <1>6, <1>7, <1>8
<1>10. created' \in Nat /\ created' <= created + 1
       /\ registry' \in [Keys -> Channels \cup {None}]
    <2>1. created' \in Nat /\ created' <= created + 1
        BY <1>2, <1>5
    <2>2. registry' \in [Keys -> Channels \cup {None}]
        BY <1>5, <1>6, <1>9
    <2> QED BY <2>1, <2>2
<1>11. registry'[Key[e]] = c /\ \A k \in Keys : k # Key[e] => registry'[k] = swept[k]
    BY <1>5, <1>6, <1>7
<1>12. Registered'
    <2> SUFFICES ASSUME NEW g \in Endpoints, held'[g] # None
                 PROVE  held'[g] = registry'[Key[g]]
        BY DEF Registered
    <2>1. CASE g = e
        BY <2>1, <1>2, <1>5, <1>11
    <2>2. CASE g # e
        <3>1. held'[g] = held[g] /\ held[g] # None /\ Key[g] \in Keys
            BY <2>2, <1>2, <1>5, EndpointFacts
        <3>2. held[g] = registry[Key[g]]
            BY <3>1 DEF PInv, RegistryInv, Registered
        <3>3. InUse(registry[Key[g]])
            BY <3>2 DEF InUse
        <3>4. swept[Key[g]] = held[g]
            BY <3>1, <3>2, <3>3, <1>6
        <3> QED BY <3>1, <3>4, <1>4, <1>11
    <2> QED BY <2>1, <2>2
<1>13. \A k \in Keys : swept[k] # None => swept[k] <= created /\ swept[k] \in Nat
    BY <1>2, <1>6, EndpointFacts DEF PInv, RegistryInv, Created
<1>14. Created'
    <2> SUFFICES ASSUME NEW k \in Keys, registry'[k] # None
                 PROVE  registry'[k] <= created'
        BY DEF Created
    <2>1. CASE k = Key[e]
        BY <2>1, <1>2, <1>4, <1>5, <1>7, <1>11, <1>13
    <2>2. CASE k # Key[e]
        BY <2>2, <1>2, <1>5, <1>11, <1>13
    <2> QED BY <2>1, <2>2
<1>15. \A k, l \in Keys : swept[k] # None /\ swept[k] = swept[l] => k = l
    BY <1>6 DEF PInv, RegistryInv, Distinct
<1>16. \A k \in Keys : k # Key[e] /\ swept[k] # None => swept[k] # c
    BY <1>2, <1>4, <1>7, <1>13, <1>15
<1>17. Distinct'
    <2> SUFFICES ASSUME NEW k \in Keys, NEW l \in Keys,
                        registry'[k] # None, registry'[k] = registry'[l], k # l
                 PROVE  FALSE
        BY DEF Distinct
    <2>1. k # Key[e] \/ l # Key[e]
        OBVIOUS
    <2> QED BY <2>1, <1>9, <1>11, <1>15, <1>16, EndpointFacts
<1> QED BY <1>5, <1>9, <1>10, <1>12, <1>14, <1>17, ResolveStep

\* A step that changes no list but that of e, by e itself, and lets e hold its
\* channel or nothing: the rest of what EndpointStep and RegistryInv ask for.
LEMMA ReleaseStep ==
    ASSUME PInv, TypeOK', NEW e \in Endpoints, NEW new,
           stage' = [stage EXCEPT ![e] = new],
           \/ e \in Subs /\ stage[e] = "resolved" /\ new = "live" /\ held' = held
              /\ entries' = [entries EXCEPT ![held[e]] = @ \cup {e}]
           \/ e \in Subs /\ stage[e] = "dropping" /\ new = "dropped"
              /\ held' = [held EXCEPT ![e] = None]
              /\ entries' = IF held[e] = None THEN entries
                            ELSE [entries EXCEPT ![held[e]] = @ \ {e}]
           \/ e \in Pubs /\ stage[e] = "live" /\ new = "dropped"
              /\ held' = [held EXCEPT ![e] = None] /\ entries' = entries
              /\ \A t \in Threads : \A i \in 1 .. Len(stack[t]) : stack[t][i].pub # e,
           UNCHANGED <<options, registry, created, stack, depth, wire, history>>
    PROVE  PInv'
<1> USE DEF history
<1>1. TypeOK /\ Pubs \cap Subs = {}
    BY PubSubAssumption DEF PInv
<1>2. /\ stage \in [Endpoints -> {"absent", "wired", "missed", "resolved", "live",
                                  "dropping", "dropped"}]
      /\ held \in [Endpoints -> Channels \cup {None}]
      /\ entries \in [Channels -> SUBSET Subs]
      /\ created \in Nat
    BY <1>1, EndpointFacts DEF TypeOK
<1>3. held'[e] \in {held[e], None} /\ \A g \in Endpoints \ {e} : held'[g] = held[g]
    BY <1>2
<1>4. stage'[e] = new /\ \A g \in Endpoints \ {e} : stage'[g] = stage[g]
    BY <1>2
<1>5. stage[e] = "resolved" => held[e] \in Channels
    BY <1>2 DEF PInv, RegistryInv, Holding
<1>6. \A c \in Channels : \A s \in entries'[c] :
          \/ s \in entries[c] /\ s # e
          \/ s = e /\ c = held[e] /\ new = "live" /\ held' = held
    <2> SUFFICES ASSUME NEW c \in Channels, NEW s \in entries'[c]
                 PROVE  \/ s \in entries[c] /\ s # e
                        \/ s = e /\ c = held[e] /\ new = "live" /\ held' = held
        OBVIOUS
    <2>1. e \in entries[c] => held[e] = c /\ stage[e] \in {"live", "dropping"} /\ e \in Subs
        BY <1>2 DEF PInv, RegistryInv, Listed
    <2> QED BY <2>1, <1>1, <1>2, EndpointFacts
<1>7. \A c \in Channels : \A s \in entries[c] : s # e => s \in entries'[c]
    BY <1>2
<1>8. Registered' /\ Distinct' /\ Created'
    <2>1. Registered'
        BY <1>3 DEF PInv, RegistryInv, Registered
    <2> QED BY <2>1 DEF PInv, RegistryInv, Distinct, Created
<1>9. Holding'
    <2> SUFFICES ASSUME NEW g \in Endpoints
                 PROVE  /\ stage'[g] \in {"absent", "wired", "missed", "dropped"}
                           => held'[g] = None
                        /\ stage'[g] = "resolved" => held'[g] # None
                        /\ stage'[g] = "live" /\ g \in Pubs => held'[g] # None
        BY DEF Holding
    <2>1. CASE g = e
        BY <2>1, <1>1, <1>2, <1>4
    <2>2. CASE g # e
        BY <2>2, <1>3, <1>4 DEF PInv, RegistryInv, Holding
    <2> QED BY <2>1, <2>2
<1>10. Listed'
    <2> SUFFICES ASSUME NEW c \in Channels, NEW s \in entries'[c]
                 PROVE  held'[s] = c /\ stage'[s] \in {"live", "dropping"}
        BY DEF Listed
    <2>1. s \in entries[c] => s \in Endpoints /\ held[s] = c
                              /\ stage[s] \in {"live", "dropping"}
        BY <1>2, EndpointFacts DEF PInv, RegistryInv, Listed
    <2> QED BY <2>1, <1>3, <1>4, <1>6
<1>11. Counted'
    <2>1. Unresolved' \subseteq Unresolved
        BY <1>4 DEF Unresolved
    <2>2. /\ Cardinality(Unresolved) \in Nat /\ Cardinality(Unresolved') \in Nat
          /\ Cardinality(Unresolved') <= Cardinality(Unresolved)
        BY <2>1, UnresolvedFewer
    <2>3. created + Cardinality(Unresolved) <= Cardinality(Endpoints)
        BY DEF PInv, RegistryInv, Counted
    <2>4. created + Cardinality(Unresolved') <= Cardinality(Endpoints)
        BY <2>2, <2>3, <1>2, EndpointFacts
    <2> QED BY <2>4 DEF Counted
<1>12. due \subseteq Endpoints
    BY <1>1, EndpointFacts DEF TypeOK
<1>13. \A s \in Subs : stage'[s] = "live" /\ s \in due => stage[s] = "live"
    BY <1>4, <1>12 DEF PInv, DueSeen
<1>14. \A s \in due : stage'[s] \in {"live", "dropping", "dropped"}
    BY <1>4, <1>12 DEF PInv, DueSeen
<1>15. \A t \in Threads : \A i \in 1 .. Len(stack[t]) :
          /\ stage'[stack[t][i].pub] = "live"
          /\ held'[stack[t][i].pub] = held[stack[t][i].pub]
    <2> SUFFICES ASSUME NEW t \in Threads, NEW i \in 1 .. Len(stack[t])
                 PROVE  /\ stage'[stack[t][i].pub] = "live"
                        /\ held'[stack[t][i].pub] = held[stack[t][i].pub]
        OBVIOUS
    <2>1. stack[t][i].pub \in Pubs /\ stage[stack[t][i].pub] = "live"
        BY FramePubs
    <2>2. stack[t][i].pub # e
        BY <2>1, <1>1
    <2> QED BY <2>1, <2>2, <1>3, <1>4, EndpointFacts
<1>16. \A c \in Channels : \A s \in entries[c] : stage'[s] = "live" => s \in entries'[c]
    <2> SUFFICES ASSUME NEW c \in Channels, NEW s \in entries[c], stage'[s] = "live"
                 PROVE  s \in entries'[c]
        OBVIOUS
    <2>1. stage[s] \in {"live", "dropping"}
        BY DEF PInv, RegistryInv, Listed
    <2>2. s = e => new # "live"
        BY <2>1
    <2> QED BY <2>2, <1>4, <1>7
<1>17. /\ NestedFrames' /\ Borrowed' /\ OneFollowed'
       /\ Following' /\ Once' /\ DueSeen' /\ Settled'
    BY <1>13, <1>14, <1>15, <1>16, EndpointStep
<1> QED BY <1>8, <1>9, <1>10, <1>11, <1>17 DEF PInv, RegistryInv

\* Registering on a list, leaving it, and dropping a publisher.
LEMMA ReleaseActions ==
    ASSUME PInv, NEW e \in Endpoints,
           \/ e \in Subs /\ Subscribe(e)
           \/ e \in Subs /\ DropLocal(e)
           \/ e \in Pubs /\ DropPub(e)
    PROVE  PInv'
<1>1. TypeOK
    BY DEF PInv
<1>2. CASE e \in Subs /\ Subscribe(e)
    <2>1. TypeOK'
        BY <1>1, <1>2 DEF Subscribe, TypeOK, history
    <2> QED BY <2>1, <1>2, ReleaseStep DEF Subscribe
<1>3. CASE e \in Subs /\ DropLocal(e)
    <2>1. TypeOK'
        BY <1>1, <1>3 DEF DropLocal, TypeOK, history
    <2> QED BY <2>1, <1>3, ReleaseStep DEF DropLocal
<1>4. CASE e \in Pubs /\ DropPub(e)
    <2>1. TypeOK'
        BY <1>1, <1>4 DEF DropPub, TypeOK, history
    <2> QED BY <2>1, <1>4, ReleaseStep DEF DropPub
<1> QED BY <1>2, <1>3, <1>4

-----------------------------------------------------------------------------
(* Running frames. *)

\* What the invariant says of the running frame of a thread.
LEMMA TopFacts ==
    ASSUME PInv, NEW t \in Threads, Running(t)
    PROVE  /\ Len(stack[t]) \in Nat \ {0} /\ Top(t) = stack[t][Len(stack[t])]
           /\ Top(t) \in Frame /\ Top(t).pub \in Pubs
           /\ stage[Top(t).pub] = "live" /\ held[Top(t).pub] \in Channels
           /\ depth[t] = IF Top(t).pc \in Delivering THEN Len(stack[t])
                                                     ELSE Len(stack[t]) - 1
           /\ Top(t).followed => Tracked(Top(t), Len(stack[t]))
<1>1. stack[t] \in Seq(Frame) /\ stack[t] # <<>>
    BY DEF PInv, TypeOK, Running
<1>2. Len(stack[t]) \in Nat \ {0} /\ Len(stack[t]) \in 1 .. Len(stack[t])
    BY <1>1
<1>3. Top(t) = stack[t][Len(stack[t])]
    BY DEF Top
<1>4. /\ Top(t) \in Frame /\ Top(t).pub \in Pubs
      /\ stage[Top(t).pub] = "live" /\ held[Top(t).pub] \in Channels
    BY <1>2, <1>3, FramePubs
<1>5. depth[t] = IF Top(t).pc \in Delivering THEN Len(stack[t]) ELSE Len(stack[t]) - 1
    BY <1>1 DEF PInv, NestedFrames
<1>6. Top(t).followed => Tracked(Top(t), Len(stack[t]))
    BY <1>2, <1>3 DEF PInv, Following
<1> QED BY <1>2, <1>3, <1>4, <1>5, <1>6

\* A step of a frame leaves the endpoints alone.
LEMMA FrameStepKeeps ==
    ASSUME PInv, UNCHANGED <<stage, options, registryVars, due>>
    PROVE  /\ RegistryInv' /\ Owed' = Owed
           /\ \A p : Route(p)' = Route(p)
           /\ UNCHANGED <<outcome.how, outcome.pub>> => \A s : Exempt(s)' <=> Exempt(s)
           /\ UNCHANGED <<wire, calls>> => (Untouched' <=> Untouched)
           /\ UNCHANGED <<wire, calls>> => Once'
<1>1. RegistryInv'
    BY DEF PInv, RegistryInv, Registered, Distinct, Created, Counted, Holding, Listed,
           Unresolved, registryVars
<1>2. \A p : Route(p)' = Route(p)
    BY DEF Route
<1>3. Owed' = Owed
    BY DEF Owed
<1>4. UNCHANGED <<outcome.how, outcome.pub>> => \A s : Exempt(s)' <=> Exempt(s)
    BY <1>2 DEF Exempt
<1>5. UNCHANGED <<wire, calls>> => (Untouched' <=> Untouched)
    BY DEF Untouched
<1>6. UNCHANGED <<wire, calls>> => Once'
    BY DEF PInv, Once
<1> QED BY <1>1, <1>2, <1>3, <1>4, <1>5, <1>6

\* The result of a call is recorded for the followed one.
LEMMA FinishOutcome ==
    ASSUME PInv, NEW t \in Threads, NEW r \in Results, Finish(t, r)
    PROVE  /\ outcome' \in [result : Results, nested : Nat,
                            how : {"publish", "shared", "owned"}, pub : Pubs \cup {None}]
           /\ outcome'.how = outcome.how /\ outcome'.pub = outcome.pub
           /\ outcome'.nested = outcome.nested
           /\ Top(t).followed => outcome'.result = r
BY DEF PInv, TypeOK, Finish

\* refuse_unservable_owned: it refuses before anything was sent, and passes only
\* when nobody who is owed a call takes the value.
LEMMA CheckOwnedStep ==
    ASSUME PInv, NEW t \in Threads, CheckOwned(t)
    PROVE  PInv'
<1>1. TypeOK /\ Running(t) /\ stack \in Stacks
    BY DEF PInv, CheckOwned, TypeOK, Stacks
<1>2. PICK f \in Frame : f = Top(t)
    BY <1>1, TopFacts
<1>3. PICK n : n = Len(stack[t])
    OBVIOUS
<1>4. /\ n \in Nat \ {0} /\ f.pub \in Pubs /\ held[f.pub] \in Channels
      /\ f.pc = "check" /\ depth[t] = n - 1
      /\ f.followed => Tracked(f, n)
    BY <1>1, <1>2, <1>3, TopFacts DEF CheckOwned, Delivering
<1>5. UNCHANGED <<stage, options, registryVars, depth, wire, calls, due>>
    BY DEF CheckOwned
<1>6. /\ RegistryInv' /\ Owed' = Owed /\ \A p : Route(p)' = Route(p)
      /\ UNCHANGED <<outcome.how, outcome.pub>> => \A s : Exempt(s)' <=> Exempt(s)
      /\ (Untouched' <=> Untouched) /\ Once'
    BY <1>5, FrameStepKeeps
<1>7. /\ depth' \in [Threads -> Nat] /\ depth'[t] = n - 1
      /\ \A u \in Threads \ {t} : depth'[u] = depth[u]
    BY <1>1, <1>4, <1>5, PubSubAssumption DEF TypeOK
<1>8. CASE OwnedReceivers(f.pub) # {}
    <2>1. Finish(t, "err")
        BY <1>2, <1>8 DEF CheckOwned
    <2>2. stack' \in Stacks
        BY <1>1, <2>1, FinishFrames
    <2>3. /\ outcome' \in [result : Results, nested : Nat,
                           how : {"publish", "shared", "owned"}, pub : Pubs \cup {None}]
          /\ f.followed => outcome'.result = "err"
        BY <1>2, <2>1, FinishOutcome DEF Results
    <2>4. TypeOK'
        BY <1>1, <1>5, <2>2, <2>3 DEF TypeOK, Stacks, registryVars
    <2>5. f.followed => Settled'
        BY <1>4, <1>6, <2>3 DEF Tracked, NotYet, Settled
    <2>6. /\ NestedFrames' /\ Borrowed' /\ OneFollowed'
          /\ Following' /\ DueSeen' /\ Settled'
        BY <1>1, <1>2, <1>3, <1>5, <1>7, <2>1, <2>5, FinishStep
    <2> QED BY <2>4, <2>6, <1>6 DEF PInv
<1>9. CASE OwnedReceivers(f.pub) = {}
    <2>1. PICK pc \in {"wire", "bus"} :
              pc = IF Route(f.pub) = "BusAndWire" THEN "wire" ELSE "bus"
        OBVIOUS
    <2>2. PICK g \in Frame : g = [f EXCEPT !.pc = pc]
        BY <2>1 DEF Frame, Steps
    <2>3. /\ g.followed = f.followed /\ g.pub = f.pub /\ g.how = f.how /\ g.pc = pc
        BY <2>2 DEF Frame
    <2>4. Goto(t, g) /\ outcome' = outcome
        BY <1>2, <1>9, <2>1, <2>2 DEF CheckOwned
    <2>5. stack' \in Stacks
        BY <1>1, <2>4, GotoFrames
    <2>6. TypeOK'
        BY <1>1, <1>5, <2>4, <2>5 DEF TypeOK, Stacks, registryVars
    <2>7. ASSUME g.followed PROVE Tracked(g, n)'
        <3>1. Tracked(f, n)
            BY <2>3, <2>7, <1>4
        <3>2. OnPath(g)'
            BY <3>1, <2>1, <2>3, <1>4, <1>6 DEF Tracked, OnPath
        <3>3. NotYet(g)'
            BY <3>1, <2>1, <2>3, <1>4, <1>5, <1>6 DEF Tracked, NotYet, Delivering
        <3>4. Owed \subseteq OfType(f.pub) /\ \A s \in Owed : Sink[s] # "owned"
            BY <3>1, <1>4, <1>9 DEF Tracked, StillOwed, OwnedReceivers, Delivering
        <3>5. StillOwed(g)'
            BY <3>4, <2>1, <2>3, <1>5, <1>6 DEF StillOwed, OfType, Delivering, registryVars
        <3> QED BY <3>1, <3>2, <3>3, <3>5, <2>3, <2>4 DEF Tracked
    <2>8. /\ NestedFrames' /\ Borrowed' /\ OneFollowed'
          /\ Following' /\ DueSeen' /\ Settled'
        BY <1>1, <1>2, <1>3, <1>5, <1>7, <2>1, <2>3, <2>4, <2>7, GotoStep DEF Delivering
    <2> QED BY <2>6, <2>8, <1>6 DEF PInv
<1> QED BY <1>8, <1>9

\* A failed put comes first in its publish.
LEMMA WireFailsStep ==
    ASSUME PInv, NEW t \in Threads, WireFails(t)
    PROVE  PInv'
<1>1. TypeOK /\ Running(t) /\ stack \in Stacks /\ Finish(t, "err")
    BY DEF PInv, WireFails, TypeOK, Stacks
<1>2. /\ Len(stack[t]) \in Nat \ {0} /\ Top(t).pc = "wire"
      /\ depth[t] = Len(stack[t]) - 1
      /\ Top(t).followed => Tracked(Top(t), Len(stack[t]))
    BY <1>1, TopFacts DEF WireFails, Delivering
<1>3. UNCHANGED <<stage, options, registryVars, depth, wire, calls, due>>
    BY DEF WireFails
<1>4. RegistryInv' /\ (Untouched' <=> Untouched) /\ Once'
    BY <1>3, FrameStepKeeps
<1>5. /\ depth' \in [Threads -> Nat] /\ depth'[t] = Len(stack[t]) - 1
      /\ \A u \in Threads \ {t} : depth'[u] = depth[u]
    BY <1>1, <1>2, <1>3, PubSubAssumption DEF TypeOK
<1>6. stack' \in Stacks
    BY <1>1, FinishFrames
<1>7. /\ outcome' \in [result : Results, nested : Nat,
                       how : {"publish", "shared", "owned"}, pub : Pubs \cup {None}]
      /\ Top(t).followed => outcome'.result = "err"
    BY <1>1, FinishOutcome DEF Results
<1>8. TypeOK'
    BY <1>1, <1>3, <1>6, <1>7 DEF TypeOK, Stacks, registryVars
<1>9. Top(t).followed => Settled'
    BY <1>2, <1>4, <1>7 DEF Tracked, NotYet, Settled
<1>10. /\ NestedFrames' /\ Borrowed' /\ OneFollowed'
       /\ Following' /\ DueSeen' /\ Settled'
    BY <1>1, <1>3, <1>5, <1>9, FinishStep
<1> QED BY <1>4, <1>8, <1>10 DEF PInv

\* A put of a publisher with the Remote locality reaches nobody of its session.
LEMMA RemoteAudience ==
    ASSUME NEW p, options[p].locality = "Remote", NEW s \in WireAudience(p)
    PROVE  Key[s] # Key[p]
<1>1. Allows("Remote", Key[s].session = Key[p].session)
    BY DEF WireAudience
<1>2. Key[s].session # Key[p].session
    BY <1>1 DEF Allows
<1> QED BY <1>2

\* A put that the bus half follows is of a Remote publisher, so nobody of its own
\* session is on the wire.
LEMMA WirePutStep ==
    ASSUME PInv, NEW t \in Threads, WirePut(t)
    PROVE  PInv'
<1>1. TypeOK /\ Running(t) /\ stack \in Stacks
    BY DEF PInv, WirePut, TypeOK, Stacks
<1>2. PICK f \in Frame : f = Top(t)
    BY <1>1, TopFacts
<1>3. PICK n : n = Len(stack[t])
    OBVIOUS
<1>4. /\ n \in Nat \ {0} /\ f.pub \in Pubs /\ held[f.pub] \in Channels
      /\ f.pc = "wire" /\ depth[t] = n - 1
      /\ f.followed => Tracked(f, n)
    BY <1>1, <1>2, <1>3, TopFacts DEF WirePut, Delivering
<1>5. /\ UNCHANGED <<stage, options, registryVars, depth, calls, due>>
      /\ wire' = IF f.followed THEN wire \cup WireAudience(f.pub) ELSE wire
    BY <1>2 DEF WirePut
<1>6. /\ RegistryInv' /\ Owed' = Owed /\ \A p : Route(p)' = Route(p)
    BY <1>5, FrameStepKeeps
<1>7. /\ depth' \in [Threads -> Nat] /\ depth'[t] = n - 1
      /\ \A u \in Threads \ {t} : depth'[u] = depth[u]
    BY <1>1, <1>4, <1>5, PubSubAssumption DEF TypeOK
<1>8. wire' \subseteq Subs
    BY <1>1, <1>5 DEF TypeOK, WireAudience
<1>9. f.followed => Untouched
    BY <1>4 DEF Tracked, NotYet
<1>10. Once'
    <2>1. CASE f.followed
        BY <2>1, <1>5, <1>9 DEF Once, Untouched
    <2>2. CASE ~f.followed
        BY <2>2, <1>5 DEF PInv, Once
    <2> QED BY <2>1, <2>2
<1>11. CASE AfterWire(f) = "return"
    <2>1. Finish(t, "wire")
        BY <1>2, <1>11 DEF WirePut
    <2>2. stack' \in Stacks
        BY <1>1, <2>1, FinishFrames
    <2>3. /\ outcome' \in [result : Results, nested : Nat,
                           how : {"publish", "shared", "owned"}, pub : Pubs \cup {None}]
          /\ f.followed => outcome'.result = "wire"
        BY <1>2, <2>1, FinishOutcome DEF Results
    <2>4. TypeOK'
        BY <1>1, <1>5, <1>8, <2>2, <2>3 DEF TypeOK, Stacks, registryVars
    <2>5. f.followed => Settled'
        BY <2>3 DEF Settled
    <2>6. /\ NestedFrames' /\ Borrowed' /\ OneFollowed'
          /\ Following' /\ DueSeen' /\ Settled'
        BY <1>1, <1>2, <1>3, <1>5, <1>7, <2>1, <2>5, FinishStep
    <2> QED BY <2>4, <2>6, <1>6, <1>10 DEF PInv
<1>12. CASE AfterWire(f) # "return"
    <2>1. PICK pc \in {"own", "bus"} : pc = AfterWire(f)
        BY <1>12 DEF AfterWire
    <2>2. PICK g \in Frame : g = [f EXCEPT !.pc = pc]
        BY <2>1 DEF Frame, Steps
    <2>3. /\ g.followed = f.followed /\ g.pub = f.pub /\ g.how = f.how /\ g.pc = pc
        BY <2>2 DEF Frame
    <2>4. Goto(t, g) /\ outcome' = outcome
        BY <1>2, <1>12, <2>1, <2>2 DEF WirePut
    <2>5. stack' \in Stacks
        BY <1>1, <2>4, GotoFrames
    <2>6. TypeOK'
        BY <1>1, <1>5, <1>8, <2>4, <2>5 DEF TypeOK, Stacks, registryVars
    <2>7. ASSUME g.followed PROVE Tracked(g, n)'
        <3>1. Tracked(f, n) /\ f.followed /\ Untouched
            BY <2>3, <2>7, <1>4, <1>9
        <3>2. /\ f.how # "publish" /\ Route(f.pub) = "BusAndWire"
              /\ pc = "own" <=> f.how = "owned"
            BY <3>1, <2>1, <1>4, <1>12 DEF AfterWire, Tracked, OnPath, Route
        <3>3. OnPath(g)'
            BY <3>2, <2>1, <2>3, <1>6 DEF OnPath
        <3>4. options[f.pub].locality = "Remote"
            BY <3>2 DEF Route
        <3>5. \A s \in Subs : Key[s] = Key[f.pub] => calls[s] = 0 /\ s \notin wire'
            BY <3>1, <3>4, <1>5, RemoteAudience DEF Untouched
        <3>6. NotYet(g)'
            BY <3>2, <3>5, <2>1, <2>3, <1>5, <1>6 DEF NotYet, Delivering
        <3>7. /\ Owed \subseteq OfType(f.pub)
              /\ f.how # "owned" => \A s \in Owed : Sink[s] # "owned"
            BY <3>1, <3>2, <1>4 DEF Tracked, StillOwed, Delivering
        <3>8. StillOwed(g)'
            BY <3>2, <3>7, <2>1, <2>3, <1>5, <1>6 DEF StillOwed, OfType, Delivering, registryVars
        <3> QED BY <3>1, <3>3, <3>6, <3>8, <2>3, <2>4 DEF Tracked
    <2>8. /\ NestedFrames' /\ Borrowed' /\ OneFollowed'
          /\ Following' /\ DueSeen' /\ Settled'
        BY <1>1, <1>2, <1>3, <1>5, <1>7, <2>1, <2>3, <2>4, <2>7, GotoStep DEF Delivering
    <2> QED BY <2>6, <2>8, <1>6, <1>10 DEF PInv
<1> QED BY <1>11, <1>12

\* The list of a publisher's channel holds subscribers of its key only.
LEMMA ListKey ==
    ASSUME PInv, NEW p \in Pubs, held[p] \in Channels, NEW s \in entries[held[p]]
    PROVE  s \in Subs /\ Key[s] = Key[p]
<1>1. s \in Subs /\ held[s] = held[p]
    BY DEF PInv, RegistryInv, Listed, TypeOK
<1>2. held[s] = registry[Key[s]] /\ held[p] = registry[Key[p]] /\ held[p] # None
    BY <1>1, EndpointFacts DEF PInv, RegistryInv, Registered
<1> QED BY <1>1, <1>2, EndpointFacts DEF PInv, RegistryInv, Distinct

\* Deliver, refused for depth or begun with the subscribers loaded.
LEMMA DeliverStep ==
    ASSUME PInv, NEW t \in Threads, Running(t), NEW f \in Frame, f = Top(t),
           f.pc \in {"own", "bus"}, NEW loaded, loaded \subseteq OfType(f.pub),
           f.followed => \A s \in Owed : s \in loaded \/ Exempt(s),
           Deliver(t, f, loaded),
           UNCHANGED <<stage, options, registryVars, wire, calls, due>>
    PROVE  PInv'
<1>1. TypeOK /\ stack \in Stacks
    BY DEF PInv, TypeOK, Stacks
<1>2. PICK n : n = Len(stack[t])
    OBVIOUS
<1>3. /\ n \in Nat \ {0} /\ f.pub \in Pubs /\ held[f.pub] \in Channels
      /\ depth[t] = n - 1
      /\ f.followed => Tracked(f, n)
    BY <1>2, TopFacts DEF Delivering
<1>4. /\ RegistryInv' /\ Owed' = Owed /\ \A p : Route(p)' = Route(p)
      /\ UNCHANGED <<outcome.how, outcome.pub>> => \A s : Exempt(s)' <=> Exempt(s)
      /\ (Untouched' <=> Untouched) /\ Once'
    BY FrameStepKeeps
<1>5. depth \in [Threads -> 0 .. MaxDeliveryDepth] /\ MaxDeliveryDepth \in Nat
    BY <1>1, PubSubAssumption DEF TypeOK
<1>6. CASE depth[t] >= MaxDeliveryDepth
    <2>1. Finish(t, "depth") /\ depth' = depth
        BY <1>6 DEF Deliver
    <2>2. stack' \in Stacks
        BY <1>1, <2>1, FinishFrames
    <2>3. /\ outcome' \in [result : Results, nested : Nat,
                           how : {"publish", "shared", "owned"}, pub : Pubs \cup {None}]
          /\ outcome'.nested = outcome.nested
          /\ f.followed => outcome'.result = "depth"
        BY <2>1, FinishOutcome DEF Results
    <2>4. TypeOK'
        BY <1>1, <2>1, <2>2, <2>3 DEF TypeOK, Stacks, registryVars
    <2>5. f.followed => outcome.nested >= MaxDeliveryDepth
        BY <1>3, <1>6 DEF Tracked
    <2>6. f.followed => Settled'
        BY <2>3, <2>5 DEF Settled
    <2>7. /\ depth' \in [Threads -> Nat] /\ depth'[t] = n - 1
          /\ \A u \in Threads \ {t} : depth'[u] = depth[u]
        BY <1>3, <1>5, <2>1
    <2>8. /\ NestedFrames' /\ Borrowed' /\ OneFollowed'
          /\ Following' /\ DueSeen' /\ Settled'
        BY <1>1, <1>2, <2>1, <2>6, <2>7, FinishStep
    <2> QED BY <2>4, <2>8, <1>4 DEF PInv
<1>7. CASE ~(depth[t] >= MaxDeliveryDepth)
    <2>1. loaded \subseteq Subs
        BY <1>3, ListKey DEF OfType
    <2>2. PICK g \in Frame : g = [f EXCEPT !.pc = "call", !.left = loaded]
        BY <2>1 DEF Frame, Steps
    <2>3. /\ g.followed = f.followed /\ g.pub = f.pub /\ g.how = f.how
          /\ g.pc = "call" /\ g.left = loaded
        BY <2>2 DEF Frame
    <2>4. Goto(t, g) /\ outcome' = outcome /\ depth' = [depth EXCEPT ![t] = @ + 1]
        BY <1>7, <2>2 DEF Deliver
    <2>5. stack' \in Stacks
        BY <1>1, <2>4, GotoFrames
    <2>6. depth' \in [Threads -> 0 .. MaxDeliveryDepth]
        BY <1>5, <1>7, <2>4
    <2>7. TypeOK'
        BY <1>1, <2>4, <2>5, <2>6 DEF TypeOK, Stacks, registryVars
    <2>8. /\ depth' \in [Threads -> Nat] /\ depth'[t] = n
          /\ \A u \in Threads \ {t} : depth'[u] = depth[u]
        BY <1>3, <1>5, <2>4, <2>6
    <2>9. ASSUME g.followed PROVE Tracked(g, n)'
        <3>1. Tracked(f, n) /\ f.followed
            BY <2>3, <2>9, <1>3
        <3>2. OnPath(g)'
            BY <3>1, <2>3, <1>4 DEF Tracked, OnPath
        <3>3. \A s \in loaded : calls[s] = 0 /\ s \notin wire
            BY <3>1, <1>3, ListKey DEF OfType, Tracked, NotYet
        <3>4. NotYet(g)'
            BY <3>3, <2>3 DEF NotYet, Delivering
        <3>5. StillOwed(g)'
            BY <3>1, <2>3, <2>4, <1>4 DEF StillOwed, Delivering
        <3> QED BY <3>1, <3>2, <3>4, <3>5, <2>3, <2>4 DEF Tracked
    <2>10. /\ NestedFrames' /\ Borrowed' /\ OneFollowed'
           /\ Following' /\ DueSeen' /\ Settled'
        BY <1>1, <1>2, <2>3, <2>4, <2>8, <2>9, GotoStep DEF Delivering
    <2> QED BY <2>7, <2>10, <1>4 DEF PInv
<1> QED BY <1>6, <1>7

\* Channel::publish: whoever is owed a call takes a shared value or is exempt.
LEMMA BusSharedStep ==
    ASSUME PInv, NEW t \in Threads, BusShared(t)
    PROVE  PInv'
<1>1. Running(t)
    BY DEF BusShared
<1>2. PICK f \in Frame : f = Top(t)
    BY <1>1, TopFacts
<1>3. PICK loaded : loaded = OfType(f.pub) \ OwnedReceivers(f.pub)
    OBVIOUS
<1>4. /\ f.pc = "bus" /\ Deliver(t, f, loaded)
      /\ UNCHANGED <<stage, options, registryVars, wire, calls, due>>
    BY <1>2, <1>3 DEF BusShared
<1>5. f.followed => \A s \in Owed : s \in loaded \/ Exempt(s)
    <2> SUFFICES ASSUME f.followed, NEW s \in Owed, ~Exempt(s)
                 PROVE  s \in loaded
        OBVIOUS
    <2>1. Tracked(f, Len(stack[t]))
        BY <1>1, <1>2, TopFacts
    <2>2. s \in OfType(f.pub)
        BY <2>1, <1>4 DEF Tracked, StillOwed, Delivering
    <2>3. Sink[s] # "owned"
        BY <2>1, <1>4 DEF Tracked, OnPath, StillOwed, Exempt
    <2> QED BY <2>2, <2>3, <1>3 DEF OwnedReceivers
<1> QED BY <1>1, <1>2, <1>3, <1>4, <1>5, DeliverStep

\* Channel::publish_owned: it hands the value over or gives it back.
LEMMA BusOwnedStep ==
    ASSUME PInv, NEW t \in Threads, BusOwned(t)
    PROVE  PInv'
<1>1. TypeOK /\ Running(t) /\ stack \in Stacks
    BY DEF PInv, BusOwned, TypeOK, Stacks
<1>2. PICK f \in Frame : f = Top(t)
    BY <1>1, TopFacts
<1>3. PICK loaded : loaded = OfType(f.pub)
    OBVIOUS
<1>4. PICK n : n = Len(stack[t])
    OBVIOUS
<1>5. /\ n \in Nat \ {0} /\ f.pub \in Pubs /\ held[f.pub] \in Channels
      /\ f.pc = "own" /\ depth[t] = n - 1
      /\ f.followed => Tracked(f, n)
    BY <1>1, <1>2, <1>4, TopFacts DEF BusOwned, Delivering
<1>6. f.followed => Owed \subseteq loaded
    BY <1>3, <1>5 DEF Tracked, StillOwed, Delivering
<1>7. UNCHANGED <<stage, options, registryVars, wire, calls, due>>
    BY DEF BusOwned
<1>8. CASE Deliver(t, f, loaded)
    BY <1>1, <1>2, <1>3, <1>5, <1>6, <1>7, <1>8, DeliverStep
<1>9. CASE /\ Goto(t, [f EXCEPT !.pc = IF Route(f.pub) = "BusAndWire"
                                       THEN "bus" ELSE "check"])
           /\ UNCHANGED <<depth, outcome>>
    <2>1. PICK pc \in {"bus", "check"} :
              pc = IF Route(f.pub) = "BusAndWire" THEN "bus" ELSE "check"
        OBVIOUS
    <2>2. PICK g \in Frame : g = [f EXCEPT !.pc = pc]
        BY <2>1 DEF Frame, Steps
    <2>3. /\ g.followed = f.followed /\ g.pub = f.pub /\ g.how = f.how /\ g.pc = pc
        BY <2>2 DEF Frame
    <2>4. Goto(t, g) /\ outcome' = outcome /\ depth' = depth
        BY <1>9, <2>1, <2>2
    <2>5. /\ RegistryInv' /\ Owed' = Owed /\ \A p : Route(p)' = Route(p)
          /\ (Untouched' <=> Untouched) /\ Once'
        BY <1>7, FrameStepKeeps
    <2>6. stack' \in Stacks
        BY <1>1, <2>4, GotoFrames
    <2>7. TypeOK'
        BY <1>1, <1>7, <2>4, <2>6 DEF TypeOK, Stacks, registryVars
    <2>8. /\ depth' \in [Threads -> Nat] /\ depth'[t] = n - 1
          /\ \A u \in Threads \ {t} : depth'[u] = depth[u]
        BY <1>1, <1>5, <2>4, PubSubAssumption DEF TypeOK
    <2>9. ASSUME g.followed PROVE Tracked(g, n)'
        <3>1. Tracked(f, n)
            BY <2>3, <2>9, <1>5
        <3>2. f.how = "owned" /\ Route(f.pub) \in {"BusOnly", "BusAndWire"}
            BY <3>1, <1>5 DEF Tracked, OnPath, Route
        <3>3. OnPath(g)'
            BY <3>2, <2>1, <2>3, <2>5 DEF OnPath
        <3>4. NotYet(g)'
            BY <3>1, <2>1, <2>3, <2>5, <1>5, <1>7 DEF Tracked, NotYet, Delivering
        <3>5. StillOwed(g)'
            BY <3>1, <3>2, <2>1, <2>3, <2>5, <1>5, <1>7
               DEF Tracked, StillOwed, OfType, Delivering, registryVars
        <3> QED BY <3>1, <3>3, <3>4, <3>5, <2>3, <2>4 DEF Tracked
    <2>10. /\ NestedFrames' /\ Borrowed' /\ OneFollowed'
           /\ Following' /\ DueSeen' /\ Settled'
        BY <1>1, <1>2, <1>4, <1>7, <2>1, <2>3, <2>4, <2>8, <2>9, GotoStep DEF Delivering
    <2> QED BY <2>5, <2>7, <2>10 DEF PInv
<1> QED BY <1>2, <1>3, <1>8, <1>9 DEF BusOwned

\* A callback is called for a subscriber that had no copy yet.
LEMMA InvokeStep ==
    ASSUME PInv, NEW t \in Threads, Invoke(t)
    PROVE  PInv'
<1>1. TypeOK /\ Running(t) /\ stack \in Stacks
    BY DEF PInv, Invoke, TypeOK, Stacks
<1>2. PICK f \in Frame : f = Top(t)
    BY <1>1, TopFacts
<1>3. PICK n : n = Len(stack[t])
    OBVIOUS
<1>4. /\ n \in Nat \ {0} /\ f.pub \in Pubs /\ f.pc = "call" /\ depth[t] = n
      /\ f.followed => Tracked(f, n)
    BY <1>1, <1>2, <1>3, TopFacts DEF Invoke, Delivering
<1>5. f.left \subseteq Subs
    BY DEF Frame
<1>6. PICK s \in f.left :
          /\ calls' = IF f.followed THEN [calls EXCEPT ![s] = @ + 1] ELSE calls
          /\ Goto(t, [f EXCEPT !.pc = "inside", !.left = @ \ {s}, !.current = s])
    BY <1>2 DEF Invoke
<1>7. PICK g \in Frame : g = [f EXCEPT !.pc = "inside", !.left = @ \ {s}, !.current = s]
    BY <1>5 DEF Frame, Steps
<1>8. /\ g.followed = f.followed /\ g.pub = f.pub /\ g.how = f.how
      /\ g.pc = "inside" /\ g.left = f.left \ {s} /\ Goto(t, g)
    BY <1>6, <1>7 DEF Frame
<1>9. UNCHANGED <<stage, options, registryVars, depth, wire, due, outcome>>
    BY DEF Invoke
<1>10. /\ RegistryInv' /\ Owed' = Owed /\ \A p : Route(p)' = Route(p)
       /\ \A x : Exempt(x)' <=> Exempt(x)
    BY <1>9, FrameStepKeeps
<1>11. s \in Subs /\ calls \in [Subs -> Nat]
    BY <1>1, <1>5 DEF TypeOK
<1>12. f.followed => /\ calls[s] = 0 /\ s \notin wire
                     /\ calls'[s] = 1 /\ \A x \in Subs \ {s} : calls'[x] = calls[x]
    BY <1>4, <1>6, <1>11 DEF Tracked, NotYet, Delivering
<1>13. calls' \in [Subs -> Nat]
    BY <1>6, <1>11
<1>14. Once'
    <2>1. CASE f.followed
        BY <2>1, <1>9, <1>12 DEF PInv, Once
    <2>2. CASE ~f.followed
        BY <2>2, <1>6, <1>9 DEF PInv, Once
    <2> QED BY <2>1, <2>2
<1>15. stack' \in Stacks
    BY <1>1, <1>8, GotoFrames
<1>16. TypeOK'
    BY <1>1, <1>9, <1>13, <1>15 DEF TypeOK, Stacks, registryVars
<1>17. /\ depth' \in [Threads -> Nat] /\ depth'[t] = n
       /\ \A u \in Threads \ {t} : depth'[u] = depth[u]
    BY <1>1, <1>4, <1>9, PubSubAssumption DEF TypeOK
<1>18. ASSUME g.followed PROVE Tracked(g, n)'
    <2>1. Tracked(f, n) /\ f.followed
        BY <1>4, <1>8, <1>18
    <2>2. OnPath(g)'
        BY <2>1, <1>4, <1>8, <1>10 DEF Tracked, OnPath
    <2>3. NotYet(g)'
        BY <2>1, <1>4, <1>5, <1>8, <1>9, <1>12 DEF Tracked, NotYet, Delivering
    <2>4. Owed \subseteq Subs
        BY <1>1 DEF Owed, TypeOK
    <2>5. \A x \in Owed : x \in g.left \/ calls'[x] = 1 \/ Exempt(x)
        BY <2>1, <2>4, <1>4, <1>8, <1>12 DEF Tracked, StillOwed, Delivering
    <2>6. StillOwed(g)'
        BY <2>5, <1>8, <1>10 DEF StillOwed, Delivering
    <2> QED BY <2>1, <2>2, <2>3, <2>6, <1>8, <1>9 DEF Tracked
<1>19. ~g.followed => UNCHANGED <<wire, calls>>
    BY <1>6, <1>8, <1>9
<1>20. /\ NestedFrames' /\ Borrowed' /\ OneFollowed'
       /\ Following' /\ DueSeen' /\ Settled'
    BY <1>1, <1>2, <1>3, <1>8, <1>9, <1>17, <1>18, <1>19, GotoStep DEF Delivering
<1> QED BY <1>10, <1>14, <1>16, <1>20 DEF PInv

\* A callback that returns or panics leaves the rest of the delivery.
LEMMA CallbackEndsStep ==
    ASSUME PInv, NEW t \in Threads, NEW normally \in BOOLEAN, CallbackEnds(t, normally)
    PROVE  PInv'
<1>1. TypeOK /\ Running(t) /\ stack \in Stacks
    BY DEF PInv, CallbackEnds, TypeOK, Stacks
<1>2. PICK f \in Frame : f = Top(t)
    BY <1>1, TopFacts
<1>3. PICK n : n = Len(stack[t])
    OBVIOUS
<1>4. /\ n \in Nat \ {0} /\ f.pub \in Pubs /\ f.pc = "inside" /\ depth[t] = n
      /\ f.followed => Tracked(f, n)
    BY <1>1, <1>2, <1>3, TopFacts DEF CallbackEnds, Delivering
<1>5. PICK taken \in BOOLEAN : taken = (f.taken \/ normally)
    OBVIOUS
<1>6. PICK g \in Frame :
          g = [f EXCEPT !.pc = "call", !.current = None, !.taken = taken]
    BY <1>5 DEF Frame, Steps
<1>7. /\ g.followed = f.followed /\ g.pub = f.pub /\ g.how = f.how
      /\ g.pc = "call" /\ g.left = f.left
    BY <1>6 DEF Frame
<1>8. Goto(t, [f EXCEPT !.pc = "call", !.current = None, !.taken = @ \/ normally])
    BY <1>2 DEF CallbackEnds
<1>9. [f EXCEPT !.pc = "call", !.current = None, !.taken = @ \/ normally] = g
    BY <1>5, <1>6 DEF Frame
<1>10. Goto(t, g)
    BY <1>8, <1>9
<1>11. UNCHANGED <<stage, options, registryVars, depth, wire, calls, due, outcome>>
    BY DEF CallbackEnds, history
<1>12. /\ RegistryInv' /\ Owed' = Owed /\ \A p : Route(p)' = Route(p)
       /\ \A x : Exempt(x)' <=> Exempt(x)
       /\ Once'
    BY <1>11, FrameStepKeeps
<1>13. stack' \in Stacks
    BY <1>1, <1>10, GotoFrames
<1>14. TypeOK'
    BY <1>1, <1>11, <1>13 DEF TypeOK, Stacks, registryVars
<1>15. /\ depth' \in [Threads -> Nat] /\ depth'[t] = n
       /\ \A u \in Threads \ {t} : depth'[u] = depth[u]
    BY <1>1, <1>4, <1>11, PubSubAssumption DEF TypeOK
<1>16. ASSUME g.followed PROVE Tracked(g, n)'
    <2>1. Tracked(f, n)
        BY <1>4, <1>7, <1>16
    <2> QED BY <2>1, <1>4, <1>7, <1>11, <1>12
            DEF Tracked, OnPath, NotYet, StillOwed, Delivering
<1>17. /\ NestedFrames' /\ Borrowed' /\ OneFollowed'
       /\ Following' /\ DueSeen' /\ Settled'
    BY <1>1, <1>2, <1>3, <1>7, <1>10, <1>11, <1>15, <1>16, GotoStep DEF Delivering
<1> QED BY <1>12, <1>14, <1>17 DEF PInv

\* At the end of the list everybody owed a call was called.
LEMMA DeliveryEndsStep ==
    ASSUME PInv, NEW t \in Threads, DeliveryEnds(t)
    PROVE  PInv'
<1>1. TypeOK /\ Running(t) /\ stack \in Stacks
    BY DEF PInv, DeliveryEnds, TypeOK, Stacks
<1>2. PICK f \in Frame : f = Top(t)
    BY <1>1, TopFacts
<1>3. /\ Len(stack[t]) \in Nat \ {0} /\ f.pc = "call" /\ f.left = {}
      /\ depth[t] = Len(stack[t])
      /\ f.followed => Tracked(f, Len(stack[t]))
    BY <1>1, <1>2, TopFacts DEF DeliveryEnds, Delivering
<1>4. PICK r \in {"sent", "notaker"} : Finish(t, r)
    BY DEF DeliveryEnds
<1>5. /\ UNCHANGED <<stage, options, registryVars, wire, calls, due>>
      /\ depth' = [depth EXCEPT ![t] = @ - 1]
    BY DEF DeliveryEnds
<1>6. /\ outcome' \in [result : Results, nested : Nat,
                       how : {"publish", "shared", "owned"}, pub : Pubs \cup {None}]
      /\ outcome'.how = outcome.how /\ outcome'.pub = outcome.pub
      /\ f.followed => outcome'.result = r
    BY <1>2, <1>4, FinishOutcome DEF Results
<1>7. /\ RegistryInv' /\ Owed' = Owed
      /\ \A s : Exempt(s)' <=> Exempt(s)
      /\ Once'
    BY <1>5, <1>6, FrameStepKeeps
<1>8. stack' \in Stacks
    BY <1>1, <1>4, FinishFrames
<1>9. depth \in [Threads -> 0 .. MaxDeliveryDepth] /\ MaxDeliveryDepth \in Nat
    BY <1>1, PubSubAssumption DEF TypeOK
<1>10. /\ depth' \in [Threads -> 0 .. MaxDeliveryDepth] /\ depth'[t] = Len(stack[t]) - 1
       /\ \A u \in Threads \ {t} : depth'[u] = depth[u]
    BY <1>3, <1>5, <1>9
<1>11. TypeOK'
    BY <1>1, <1>5, <1>6, <1>8, <1>10 DEF TypeOK, Stacks, registryVars
<1>12. f.followed => Settled'
    BY <1>3, <1>5, <1>6, <1>7 DEF Tracked, StillOwed, Settled, Delivering
<1>13. depth' \in [Threads -> Nat]
    BY <1>9, <1>10
<1>14. /\ NestedFrames' /\ Borrowed' /\ OneFollowed'
       /\ Following' /\ DueSeen' /\ Settled'
    BY <1>1, <1>2, <1>4, <1>5, <1>10, <1>12, <1>13, FinishStep
<1> QED BY <1>7, <1>11, <1>14 DEF PInv

\* A copy that arrives is for a subscriber that was not called before.
LEMMA WireArrivesStep ==
    ASSUME PInv, NEW s \in Subs, WireArrives(s)
    PROVE  PInv'
<1>1. TypeOK /\ stack \in Stacks
    BY DEF PInv, TypeOK, Stacks
<1>2. /\ s \in wire /\ wire' = wire \ {s}
      /\ calls' = [calls EXCEPT ![s] = @ + 1]
      /\ UNCHANGED <<stage, options, registryVars, stack, depth, due, outcome>>
    BY DEF WireArrives
<1>3. calls \in [Subs -> Nat] /\ calls[s] = 0
    BY <1>1, <1>2 DEF TypeOK, PInv, Once
<1>4. calls'[s] = 1 /\ \A x \in Subs \ {s} : calls'[x] = calls[x]
    BY <1>2, <1>3
<1>5. TypeOK'
    BY <1>1, <1>2, <1>3 DEF TypeOK, registryVars
<1>6. /\ RegistryInv' /\ Owed' = Owed /\ \A p : Route(p)' = Route(p)
      /\ \A x : Exempt(x)' <=> Exempt(x)
    BY <1>2, FrameStepKeeps
<1>7. ~Untouched
    BY <1>2 DEF Untouched
<1>8. Once' /\ DueSeen'
    BY <1>2, <1>4 DEF PInv, Once, DueSeen
<1>9. Owed \subseteq Subs
    BY <1>1 DEF Owed, TypeOK
<1>10. Settled'
    BY <1>2, <1>4, <1>6, <1>7, <1>9 DEF PInv, Settled
<1>11. NestedFrames' /\ Borrowed' /\ OneFollowed'
    <2>1. NestedFrames'
        BY <1>2 DEF PInv, NestedFrames, Top
    <2>2. Borrowed'
        BY <1>2 DEF PInv, Borrowed
    <2>3. OneFollowed'
        BY <1>2 DEF PInv, OneFollowed
    <2> QED BY <2>1, <2>2, <2>3
<1>12. ASSUME NEW t \in Threads, NEW i \in 1 .. Len(stack[t]), stack[t][i].followed
       PROVE  Tracked(stack[t][i], i)'
    <2>1. PICK f \in Frame : f = stack[t][i]
        BY FramePubs
    <2>2. Tracked(f, i)
        BY <2>1, <1>12 DEF PInv, Following
    <2>3. OnPath(f)'
        BY <2>2, <1>6 DEF Tracked, OnPath
    <2>4. f.left \subseteq Subs
        BY DEF Frame
    <2>5. NotYet(f)'
        BY <2>2, <2>4, <1>2, <1>4, <1>6, <1>7 DEF Tracked, NotYet
    <2>6. StillOwed(f)'
        BY <2>2, <1>2, <1>4, <1>6, <1>9 DEF Tracked, StillOwed, OfType, registryVars
    <2>7. Tracked(f, i)'
        BY <2>2, <2>3, <2>5, <2>6, <1>2 DEF Tracked
    <2> QED BY <2>1, <2>7, <1>2
<1>13. Following'
    BY <1>2, <1>12 DEF Following
<1> QED BY <1>5, <1>6, <1>8, <1>10, <1>11, <1>13 DEF PInv

\* Between two steps of its own a frame is inside a callback or absent, so the
\* depth, the frames and the nesting agree when user code publishes.
LEMMA PublishNesting ==
    ASSUME PInv, NEW t \in Threads, Running(t) => Top(t).pc = "inside"
    PROVE  /\ Len(stack[t]) \in Nat /\ depth[t] = Len(stack[t])
           /\ \A i \in 1 .. Len(stack[t]) : stack[t][i].pc = "inside"
           /\ Nesting(t) = Len(stack[t])
<1>1. stack[t] \in Seq(Frame) /\ Len(stack[t]) \in Nat
    BY DEF PInv, TypeOK
<1>2. stack[t] = <<>> <=> Len(stack[t]) = 0
    BY <1>1
<1>3. depth[t] = Len(stack[t])
    BY <1>1, <1>2 DEF PInv, NestedFrames, Running, Delivering
<1>4. \A i \in 1 .. Len(stack[t]) : stack[t][i].pc = "inside"
    <2> SUFFICES ASSUME NEW i \in 1 .. Len(stack[t])
                 PROVE  stack[t][i].pc = "inside"
        OBVIOUS
    <2>1. CASE i < Len(stack[t])
        BY <2>1 DEF PInv, NestedFrames
    <2>2. CASE i = Len(stack[t])
        BY <2>2, <1>1, <1>2 DEF Running, Top
    <2> QED BY <2>1, <2>2, <1>1
<1>5. {i \in 1 .. Len(stack[t]) : stack[t][i].pc = "inside"} = 1 .. Len(stack[t])
    BY <1>4
<1>6. Cardinality(1 .. Len(stack[t])) = Len(stack[t])
    <2>1. PICK n \in Nat : n = Len(stack[t])
        BY <1>1
    <2>2. Cardinality(1 .. n) = IF 1 > n THEN 0 ELSE n - 1 + 1
        BY FS_Interval
    <2>3. (IF 1 > n THEN 0 ELSE n - 1 + 1) = n
        OBVIOUS
    <2> QED BY <2>1, <2>2, <2>3
<1>7. Nesting(t) = Len(stack[t])
    BY <1>5, <1>6 DEF Nesting
<1> QED BY <1>1, <1>3, <1>4, <1>7

\* A publish starts from a state in which nobody has its message.
LEMMA PublishStep ==
    ASSUME PInv, NEW t \in Threads, NEW p \in Pubs,
           NEW how \in {"publish", "shared", "owned"}, NEW followed \in BOOLEAN,
           Publish(t, p, how, followed)
    PROVE  PInv'
<1>1. TypeOK /\ stack \in Stacks
    BY DEF PInv, TypeOK, Stacks
<1>2. /\ stage[p] = "live"
      /\ Running(t) => Top(t).pc = "inside"
      /\ UNCHANGED <<stage, options, registryVars, depth, wire, calls>>
    BY DEF Publish
<1>3. /\ Len(stack[t]) \in Nat /\ depth[t] = Len(stack[t])
      /\ \A i \in 1 .. Len(stack[t]) : stack[t][i].pc = "inside"
      /\ Nesting(t) = Len(stack[t])
    BY <1>2, PublishNesting
<1>4. held[p] # None /\ held[p] \in Channels
    BY <1>1, <1>2, EndpointFacts DEF PInv, RegistryInv, Holding, TypeOK
<1>5. RegistryInv' /\ Once' /\ (Untouched' <=> Untouched)
    <2>1. RegistryInv'
        BY <1>2 DEF PInv, RegistryInv, Registered, Distinct, Created, Counted, Holding,
                    Listed, Unresolved, registryVars
    <2> QED BY <2>1, <1>2 DEF PInv, Once, Untouched
<1>6. \A q : Route(q)' = Route(q)
    BY <1>2 DEF Route
<1>7. followed => /\ outcome.result = "unsent" /\ Untouched
                  /\ due' = OfType(p)
                  /\ outcome' = [result |-> IF RefuseDurable(p, how) THEN "err" ELSE "none",
                                 nested |-> Len(stack[t]), how |-> how, pub |-> p]
    BY <1>3 DEF Publish, PInv, Settled
<1>8. ~followed => due' = due /\ outcome' = outcome
    BY DEF Publish
<1>9. /\ outcome' \in [result : Results, nested : Nat,
                       how : {"publish", "shared", "owned"}, pub : Pubs \cup {None}]
      /\ due' \subseteq Subs
    BY <1>1, <1>3, <1>4, <1>7, <1>8 DEF OfType, TypeOK, Results
<1>10. DueSeen'
    BY <1>2, <1>4, <1>7, <1>8 DEF OfType, PInv, DueSeen, RegistryInv, Listed
<1>11. ~followed => Owed' = Owed /\ \A s : Exempt(s)' <=> Exempt(s)
    BY <1>2, <1>6, <1>8 DEF Owed, Exempt
<1>12. Settled'
    <2>1. CASE followed
        BY <2>1, <1>5, <1>7 DEF Settled
    <2>2. CASE ~followed
        BY <2>2, <1>2, <1>5, <1>8, <1>11 DEF PInv, Settled
    <2> QED BY <2>1, <2>2
<1>13. ASSUME NEW u \in Threads, NEW j \in 1 .. Len(stack[u]), stack[u][j].followed
       PROVE  ~followed /\ \A f \in Frame : f = stack[u][j] => Tracked(f, j)'
    <2>1. PICK f \in Frame : f = stack[u][j]
        BY FramePubs
    <2>2. Tracked(f, j)
        BY <2>1, <1>13 DEF PInv, Following
    <2>3. ~followed
        BY <2>2, <1>7 DEF Tracked
    <2>4. Tracked(f, j)'
        BY <2>2, <2>3, <1>2, <1>5, <1>6, <1>8, <1>11
           DEF Tracked, OnPath, NotYet, StillOwed, OfType, registryVars
    <2> QED BY <2>1, <2>3, <2>4
<1>14. CASE RefuseDurable(p, how)
    <2>1. stack' = stack
        BY <1>14 DEF Publish
    <2>2. TypeOK'
        BY <1>1, <1>2, <1>9, <2>1 DEF TypeOK, registryVars
    <2>3. NestedFrames' /\ Borrowed' /\ OneFollowed'
        BY <2>1, <1>2 DEF PInv, NestedFrames, Borrowed, OneFollowed, Top
    <2>4. \A u \in Threads : \A j \in 1 .. Len(stack[u]) : stack[u][j] \in Frame
        BY FramePubs
    <2>5. Following'
        BY <2>1, <2>4, <1>13 DEF Following
    <2> QED BY <2>2, <2>3, <2>5, <1>5, <1>10, <1>12 DEF PInv
<1>15. CASE ~RefuseDurable(p, how)
    <2>1. FirstStep(p, how) \in {"wire", "own", "check"}
        BY DEF FirstStep
    <2>2. PICK f \in Frame :
              f = [followed |-> followed, pub |-> p, how |-> how,
                   pc |-> FirstStep(p, how), left |-> {}, current |-> None,
                   taken |-> FALSE]
        BY <2>1 DEF Frame, Steps
    <2>3. f.followed = followed /\ f.pub = p /\ f.how = how /\ f.pc = FirstStep(p, how)
        BY <2>2
    <2>4. stack' = [stack EXCEPT ![t] = Append(@, f)]
        BY <1>15, <2>2 DEF Publish
    <2>5. PICK n : n = Len(stack[t]) + 1
        OBVIOUS
    <2>6. /\ stack' \in Stacks /\ n \in Nat \ {0} /\ Len(stack[t]) = n - 1
          /\ Len(stack'[t]) = n /\ stack'[t][n] = f
          /\ \A u \in Threads \ {t} : stack'[u] = stack[u]
          /\ \A u \in Threads : \A j \in 1 .. Len(stack[u]) : stack'[u][j] = stack[u][j]
        <3>1. /\ stack' \in Stacks
              /\ Len(stack'[t]) = Len(stack[t]) + 1
              /\ stack'[t][Len(stack[t]) + 1] = f
              /\ \A u \in Threads \ {t} : stack'[u] = stack[u]
              /\ \A u \in Threads : \A j \in 1 .. Len(stack[u]) :
                    stack'[u][j] = stack[u][j]
            BY <1>1, <2>4, PushFrames
        <3>2. n \in Nat \ {0} /\ Len(stack[t]) = n - 1
            BY <1>3, <2>5
        <3> QED BY <3>1, <3>2, <2>5
    <2>7. TypeOK'
        BY <1>1, <1>2, <1>9, <2>6 DEF TypeOK, Stacks, registryVars
    <2>8. \A u \in Threads : \A j \in 1 .. Len(stack'[u]) :
              \/ j \in 1 .. Len(stack[u]) /\ stack'[u][j] = stack[u][j]
              \/ u = t /\ j = n /\ stack'[u][j] = f
        BY <2>6
    <2>9. NestedFrames'
        <3> SUFFICES ASSUME NEW u \in Threads
                     PROVE  /\ \A i \in 1 .. Len(stack'[u]) :
                                   i < Len(stack'[u]) => stack'[u][i].pc = "inside"
                            /\ stack'[u] = <<>> => depth'[u] = 0
                            /\ stack'[u] # <<>> =>
                                  depth'[u] = IF stack'[u][Len(stack'[u])].pc \in Delivering
                                              THEN Len(stack'[u]) ELSE Len(stack'[u]) - 1
            BY DEF NestedFrames, Top
        <3>1. CASE u = t
            <4>1. \A i \in 1 .. n : i < n => stack'[t][i].pc = "inside"
                BY <1>3, <2>6
            <4>2. f.pc \notin Delivering /\ depth'[t] = n - 1
                BY <1>2, <1>3, <2>1, <2>3, <2>6 DEF Delivering
            <4>3. stack'[t] # <<>>
                BY <2>6
            <4> QED BY <3>1, <4>1, <4>2, <4>3, <2>6
        <3>2. CASE u # t
            BY <3>2, <2>6, <1>2 DEF PInv, NestedFrames, Top
        <3> QED BY <3>1, <3>2
    <2>10. Borrowed'
        <3> SUFFICES ASSUME NEW u \in Threads, NEW j \in 1 .. Len(stack'[u])
                     PROVE  stage'[stack'[u][j].pub] = "live"
            BY DEF Borrowed
        <3>1. CASE j \in 1 .. Len(stack[u]) /\ stack'[u][j] = stack[u][j]
            BY <3>1, <1>2 DEF PInv, Borrowed
        <3>2. CASE u = t /\ j = n /\ stack'[u][j] = f
            BY <3>2, <1>2, <2>3
        <3> QED BY <3>1, <3>2, <2>8
    <2>11. OneFollowed'
        <3> SUFFICES ASSUME NEW u \in Threads, NEW v \in Threads,
                            NEW i \in 1 .. Len(stack'[u]), NEW j \in 1 .. Len(stack'[v]),
                            stack'[u][i].followed, stack'[v][j].followed
                     PROVE  u = v /\ i = j
            BY DEF OneFollowed
        <3>1. CASE followed
            <4>1. u = t /\ i = n /\ v = t /\ j = n
                BY <3>1, <2>8, <1>13
            <4> QED BY <4>1
        <3>2. CASE ~followed
            <4>1. ~f.followed
                BY <3>2, <2>3
            <4>2. /\ i \in 1 .. Len(stack[u]) /\ stack[u][i].followed
                  /\ j \in 1 .. Len(stack[v]) /\ stack[v][j].followed
                BY <4>1, <2>8
            <4> QED BY <4>2 DEF PInv, OneFollowed
        <3> QED BY <3>1, <3>2
    <2>12. ASSUME followed PROVE Tracked(f, n)'
        <3>1. Untouched'
            BY <2>12, <1>5, <1>7
        <3>2. Route(p) \in {"BusOnly", "BusAndWire", "WireOnly"}
            BY DEF Route
        <3>3. OnPath(f)'
            BY <3>2, <2>3, <1>6 DEF OnPath, FirstStep
        <3>4. NotYet(f)'
            BY <3>1, <2>1, <2>3 DEF NotYet, Untouched, Delivering
        <3>5. Owed' \subseteq OfType(p)'
            BY <2>12, <1>2, <1>7 DEF Owed, OfType, registryVars
        <3>6. StillOwed(f)'
            BY <3>2, <3>5, <2>1, <2>3, <1>6 DEF StillOwed, FirstStep, Delivering
        <3>7. /\ outcome'.result = "none" /\ outcome'.how = f.how /\ outcome'.pub = f.pub
              /\ outcome'.nested = n - 1
            BY <2>3, <2>6, <2>12, <1>7, <1>15
        <3> QED BY <3>3, <3>4, <3>6, <3>7 DEF Tracked
    <2>13. \A u \in Threads : \A j \in 1 .. Len(stack[u]) : stack[u][j] \in Frame
        BY FramePubs
    <2>14. ASSUME NEW u \in Threads, NEW j \in 1 .. Len(stack'[u]), stack'[u][j].followed
           PROVE  Tracked(stack[u][j], j)'
        <3>1. CASE j \in 1 .. Len(stack[u]) /\ stack'[u][j] = stack[u][j]
            BY <3>1, <2>13, <2>14, <1>13
        <3>2. CASE u = t /\ j = n /\ stack'[u][j] = f
            BY <3>2, <2>3, <2>12, <2>14
        <3> QED BY <3>1, <3>2, <2>8
    <2>15. Following'
        BY <2>14 DEF Following
    <2> QED BY <2>7, <2>9, <2>10, <2>11, <2>15, <1>5, <1>10, <1>12 DEF PInv
<1> QED BY <1>14, <1>15

-----------------------------------------------------------------------------
(* The Rust type. *)

\* A delivery calls subscribers of the type of its publisher.
OfItsType ==
    \A t \in Threads : \A i \in 1 .. Len(stack[t]) : \A s \in stack[t][i].left :
        Type[s] = Type[stack[t][i].pub]

\* The followed publish goes over the bus alone.
OverBus ==
    outcome.result # "unsent" /\ outcome.how # "publish" /\ Route(outcome.pub) = "BusOnly"

\* It then calls nobody of another type and leaves the wire alone.
ByType ==
    OverBus => wire = {} /\ \A s \in Subs : calls[s] # 0 => Type[s] = Type[outcome.pub]

Typed == OfItsType /\ ByType

\* Replacing the top frame keeps it, if the new one is of its type.
LEMMA GotoTyped ==
    ASSUME PInv, OfItsType, NEW t \in Threads, Running(t), NEW g \in Frame, Goto(t, g),
           \A s \in g.left : Type[s] = Type[g.pub]
    PROVE  OfItsType'
<1>1. stack \in Stacks
    BY DEF PInv, TypeOK, Stacks
<1>2. /\ \A u \in Threads : Len(stack'[u]) = Len(stack[u])
      /\ \A u \in Threads : \A j \in 1 .. Len(stack[u]) :
            stack'[u][j] = IF u = t /\ j = Len(stack[t]) THEN g ELSE stack[u][j]
    BY <1>1, GotoFrames
<1> QED BY <1>2 DEF OfItsType

\* A call that returns keeps it, and what its result is does not matter.
LEMMA FinishTyped ==
    ASSUME PInv, Typed, NEW t \in Threads, Running(t), NEW r \in Results \ {"unsent"},
           Finish(t, r), UNCHANGED <<options, wire, calls>>
    PROVE  Typed'
<1>1. stack \in Stacks
    BY DEF PInv, TypeOK, Stacks
<1>2. \A u \in Threads : \A j \in 1 .. Len(stack'[u]) :
          j \in 1 .. Len(stack[u]) /\ stack'[u][j] = stack[u][j]
    BY <1>1, FinishFrames
<1>3. OfItsType'
    BY <1>2 DEF Typed, OfItsType
<1>4. Top(t).followed => outcome.result = "none"
    BY TopFacts DEF Tracked
<1>5. /\ outcome'.how = outcome.how /\ outcome'.pub = outcome.pub
      /\ outcome'.result # "unsent" <=> outcome.result # "unsent"
    BY <1>4 DEF Finish, PInv, TypeOK
<1>6. \A p : Route(p)' = Route(p)
    BY DEF Route
<1> QED BY <1>3, <1>5, <1>6 DEF Typed, ByType, OverBus

\* The start of a delivery to subscribers of the type.
LEMMA DeliverTyped ==
    ASSUME PInv, Typed, NEW t \in Threads, Running(t), NEW f \in Frame, f = Top(t),
           NEW loaded \in SUBSET OfType(f.pub), Deliver(t, f, loaded),
           UNCHANGED <<options, wire, calls>>
    PROVE  Typed'
<1>1. CASE depth[t] >= MaxDeliveryDepth
    BY <1>1, FinishTyped DEF Deliver, Results
<1>2. CASE ~(depth[t] >= MaxDeliveryDepth)
    <2>1. held[f.pub] \in Channels
        BY TopFacts
    <2>2. loaded \subseteq Subs /\ \A s \in loaded : Type[s] = Type[f.pub]
        BY <2>1 DEF OfType, PInv, TypeOK
    <2>3. PICK g \in Frame : g = [f EXCEPT !.pc = "call", !.left = loaded]
        BY <2>2 DEF Frame, Steps
    <2>4. g.left = loaded /\ g.pub = f.pub
        BY <2>3 DEF Frame
    <2>5. Goto(t, g) /\ outcome' = outcome
        BY <1>2, <2>3 DEF Deliver
    <2>6. OfItsType'
        BY <2>2, <2>4, <2>5, GotoTyped DEF Typed
    <2>7. ByType'
        BY <2>5 DEF Typed, ByType, OverBus, Route
    <2> QED BY <2>6, <2>7 DEF Typed
<1> QED BY <1>1, <1>2

\* The steps of a running call keep it.
LEMMA FrameTyped ==
    ASSUME PInv, Typed, NEW t \in Threads,
           \/ CheckOwned(t) \/ WirePut(t) \/ WireFails(t) \/ BusOwned(t)
           \/ BusShared(t) \/ Invoke(t) \/ DeliveryEnds(t)
           \/ \E normally \in BOOLEAN : CallbackEnds(t, normally)
    PROVE  Typed'
<1>1. Running(t)
    BY DEF CheckOwned, WirePut, WireFails, BusOwned, BusShared, Invoke, DeliveryEnds,
           CallbackEnds
<1>2. PICK f \in Frame : f = Top(t)
    BY <1>1, TopFacts
<1>3. /\ f.followed => Tracked(f, Len(stack[t]))
      /\ \A s \in f.left : Type[s] = Type[f.pub]
    <2>1. Len(stack[t]) \in 1 .. Len(stack[t])
        BY <1>1, TopFacts
    <2> QED BY <2>1, <1>1, <1>2, TopFacts DEF Typed, OfItsType, Top
<1>4. options' = options /\ \A p : Route(p)' = Route(p)
    BY DEF CheckOwned, WirePut, WireFails, BusOwned, BusShared, Invoke, DeliveryEnds,
           CallbackEnds, Route
\* a step that moves the frame on
<1>5. ASSUME NEW pc \in Steps, Goto(t, [f EXCEPT !.pc = pc]),
             outcome' = outcome, UNCHANGED <<wire, calls>>
      PROVE  Typed'
    <2>1. PICK g \in Frame : g = [f EXCEPT !.pc = pc]
        BY DEF Frame
    <2>2. g.left = f.left /\ g.pub = f.pub
        BY <2>1 DEF Frame
    <2>3. OfItsType'
        BY <1>1, <1>3, <1>5, <2>1, <2>2, GotoTyped DEF Typed
    <2> QED BY <2>3, <1>4, <1>5 DEF Typed, ByType, OverBus
<1>6. CASE CheckOwned(t)
    <2>1. UNCHANGED <<wire, calls>>
        BY <1>6 DEF CheckOwned
    <2>2. CASE OwnedReceivers(f.pub) # {}
        <3>1. Finish(t, "err")
            BY <1>2, <1>6, <2>2 DEF CheckOwned
        <3> QED BY <3>1, <2>1, <1>1, <1>4, FinishTyped DEF Results
    <2>3. CASE OwnedReceivers(f.pub) = {}
        <3>1. PICK pc \in Steps :
                  pc = IF Route(f.pub) = "BusAndWire" THEN "wire" ELSE "bus"
            BY DEF Steps
        <3>2. Goto(t, [f EXCEPT !.pc = pc]) /\ outcome' = outcome
            BY <1>2, <1>6, <2>3, <3>1 DEF CheckOwned
        <3> QED BY <3>2, <2>1, <1>5
    <2> QED BY <2>2, <2>3
<1>7. CASE WirePut(t)
    <2>1. calls' = calls /\ wire' = IF f.followed THEN wire \cup WireAudience(f.pub) ELSE wire
        BY <1>2, <1>7 DEF WirePut
    <2>2. OverBus => wire' = wire
        <3>1. f.pc = "wire"
            BY <1>2, <1>7 DEF WirePut
        <3> QED BY <3>1, <2>1, <1>3 DEF OverBus, Tracked, OnPath
    <2>3. /\ outcome'.how = outcome.how /\ outcome'.pub = outcome.pub
          /\ outcome'.result # "unsent" <=> outcome.result # "unsent"
        <3>1. f.followed => outcome.result = "none"
            BY <1>3 DEF Tracked
        <3> QED BY <3>1, <1>2, <1>7 DEF WirePut, Finish, PInv, TypeOK
    <2>4. ByType'
        BY <2>1, <2>2, <2>3, <1>4 DEF Typed, ByType, OverBus
    <2>5. OfItsType'
        <3>1. CASE AfterWire(f) = "return"
            <4>1. Finish(t, "wire")
                BY <1>2, <1>7, <3>1 DEF WirePut
            <4>2. stack \in Stacks
                BY DEF PInv, TypeOK, Stacks
            <4>3. \A u \in Threads : \A j \in 1 .. Len(stack'[u]) :
                      j \in 1 .. Len(stack[u]) /\ stack'[u][j] = stack[u][j]
                BY <4>1, <4>2, <1>1, FinishFrames
            <4> QED BY <4>3 DEF Typed, OfItsType
        <3>2. CASE AfterWire(f) # "return"
            <4>1. PICK pc \in Steps : pc = AfterWire(f)
                BY <3>2 DEF AfterWire, Steps
            <4>2. PICK g \in Frame : g = [f EXCEPT !.pc = pc]
                BY DEF Frame
            <4>3. g.left = f.left /\ g.pub = f.pub
                BY <4>2 DEF Frame
            <4>4. Goto(t, g)
                BY <1>2, <1>7, <3>2, <4>1, <4>2 DEF WirePut
            <4> QED BY <4>3, <4>4, <1>1, <1>3, GotoTyped DEF Typed
        <3> QED BY <3>1, <3>2
    <2> QED BY <2>4, <2>5 DEF Typed
<1>8. CASE WireFails(t)
    BY <1>1, <1>4, <1>8, FinishTyped DEF WireFails, Results
<1>9. CASE BusOwned(t)
    <2>1. UNCHANGED <<wire, calls>>
        BY <1>9 DEF BusOwned
    <2>2. CASE Deliver(t, f, OfType(f.pub))
        BY <2>1, <2>2, <1>1, <1>2, <1>4, DeliverTyped
    <2>3. CASE /\ Goto(t, [f EXCEPT !.pc = IF Route(f.pub) = "BusAndWire"
                                           THEN "bus" ELSE "check"])
               /\ outcome' = outcome
        <3>1. PICK pc \in Steps :
                  pc = IF Route(f.pub) = "BusAndWire" THEN "bus" ELSE "check"
            BY DEF Steps
        <3> QED BY <3>1, <2>1, <2>3, <1>5
    <2> QED BY <2>2, <2>3, <1>2, <1>9 DEF BusOwned
<1>10. CASE BusShared(t)
    <2>1. UNCHANGED <<wire, calls>>
        BY <1>10 DEF BusShared
    <2>2. PICK loaded \in SUBSET OfType(f.pub) : Deliver(t, f, loaded)
        BY <1>2, <1>10 DEF BusShared
    <2> QED BY <2>1, <2>2, <1>1, <1>2, <1>4, DeliverTyped
<1>11. CASE Invoke(t)
    <2>1. PICK s \in f.left :
              /\ calls' = IF f.followed THEN [calls EXCEPT ![s] = @ + 1] ELSE calls
              /\ Goto(t, [f EXCEPT !.pc = "inside", !.left = @ \ {s}, !.current = s])
        BY <1>2, <1>11 DEF Invoke
    <2>2. s \in Subs /\ f.left \subseteq Subs
        BY DEF Frame
    <2>3. PICK g \in Frame : g = [f EXCEPT !.pc = "inside", !.left = @ \ {s}, !.current = s]
        BY <2>2 DEF Frame, Steps
    <2>4. g.left = f.left \ {s} /\ g.pub = f.pub
        BY <2>3 DEF Frame
    <2>5. OfItsType'
        BY <2>1, <2>3, <2>4, <1>1, <1>3, GotoTyped DEF Typed
    <2>6. wire' = wire /\ outcome' = outcome
        BY <1>11 DEF Invoke
    <2>7. f.followed => outcome.pub = f.pub
        BY <1>3 DEF Tracked
    <2>8. calls \in [Subs -> Nat]
        BY DEF PInv, TypeOK
    <2>9. \A x \in Subs : calls'[x] # 0 =>
              calls[x] # 0 \/ (f.followed /\ x = s)
        BY <2>1, <2>2, <2>8
    <2>10. ByType'
        BY <2>6, <2>7, <2>9, <1>3, <1>4 DEF Typed, ByType, OverBus
    <2> QED BY <2>5, <2>10 DEF Typed
<1>12. CASE DeliveryEnds(t)
    <2>1. PICK r \in Results \ {"unsent"} : Finish(t, r)
        BY <1>12 DEF DeliveryEnds, Results
    <2> QED BY <2>1, <1>1, <1>4, <1>12, FinishTyped DEF DeliveryEnds
<1>13. ASSUME NEW normally \in BOOLEAN, CallbackEnds(t, normally)
       PROVE  Typed'
    <2>1. PICK taken \in BOOLEAN : taken = (f.taken \/ normally)
        OBVIOUS
    <2>2. PICK g \in Frame :
              g = [f EXCEPT !.pc = "call", !.current = None, !.taken = taken]
        BY DEF Frame, Steps
    <2>3. g.left = f.left /\ g.pub = f.pub
        BY <2>2 DEF Frame
    <2>4. Goto(t, g)
        BY <2>1, <2>2, <1>2, <1>13 DEF CallbackEnds
    <2>5. OfItsType'
        BY <2>3, <2>4, <1>1, <1>3, GotoTyped DEF Typed
    <2> QED BY <2>5, <1>4, <1>13 DEF CallbackEnds, history, Typed, ByType, OverBus
<1> QED BY <1>6, <1>7, <1>8, <1>9, <1>10, <1>11, <1>12, <1>13

\* A publish starts with nobody called and no delivery.
LEMMA PublishTyped ==
    ASSUME PInv, Typed, NEW t \in Threads, NEW p \in Pubs,
           NEW how \in {"publish", "shared", "owned"}, NEW followed \in BOOLEAN,
           Publish(t, p, how, followed)
    PROVE  Typed'
<1>1. UNCHANGED <<options, wire, calls>>
    BY DEF Publish
<1>2. ByType'
    <2>1. CASE followed
        BY <2>1, <1>1 DEF Publish, PInv, Settled, Untouched, ByType
    <2>2. CASE ~followed
        BY <2>2, <1>1 DEF Publish, Typed, ByType, OverBus, Route
    <2> QED BY <2>1, <2>2
<1>3. OfItsType'
    <2>1. CASE stack' = stack
        BY <2>1 DEF Typed, OfItsType
    <2>2. CASE stack' # stack
        <3>1. FirstStep(p, how) \in Steps
            BY DEF FirstStep, Steps
        <3>2. PICK f \in Frame :
                  f = [followed |-> followed, pub |-> p, how |-> how,
                       pc |-> FirstStep(p, how), left |-> {}, current |-> None,
                       taken |-> FALSE]
            BY <3>1 DEF Frame
        <3>3. stack' = [stack EXCEPT ![t] = Append(@, f)] /\ f.left = {}
            BY <2>2, <3>2 DEF Publish
        <3>4. stack \in Stacks
            BY DEF PInv, TypeOK, Stacks
        <3>5. \A u \in Threads : \A j \in 1 .. Len(stack'[u]) :
                  \/ j \in 1 .. Len(stack[u]) /\ stack'[u][j] = stack[u][j]
                  \/ stack'[u][j] = f
            BY <3>3, <3>4, PushFrames
        <3> QED BY <3>3, <3>5 DEF Typed, OfItsType
    <2> QED BY <2>1, <2>2
<1> QED BY <1>2, <1>3 DEF Typed

\* Every step keeps it.
LEMMA TypedNext == PInv /\ Typed /\ [Next]_vars => Typed'
<1> SUFFICES ASSUME PInv, Typed, [Next]_vars PROVE Typed'
    OBVIOUS
<1>1. ASSUME UNCHANGED <<options, stack, wire, outcome, calls>> PROVE Typed'
    BY <1>1 DEF Typed, OfItsType, ByType, OverBus, Route
<1>2. ASSUME NEW s \in Subs, WireArrives(s) PROVE Typed'
    <2>1. ~OverBus
        BY <1>2 DEF WireArrives, Typed, ByType
    <2>2. UNCHANGED <<options, stack, outcome>>
        BY <1>2 DEF WireArrives
    <2> QED BY <2>1, <2>2 DEF Typed, OfItsType, ByType, OverBus, Route
<1>3. ASSUME NEW e \in Endpoints,
             \/ Declare(e) \/ ChannelHit(e) \/ ChannelMiss(e) \/ ChannelCreate(e)
             \/ Subscribe(e) \/ DropWire(e) \/ DropLocal(e) \/ DropPub(e)
      PROVE  UNCHANGED <<options, stack, wire, outcome, calls>>
    BY <1>3 DEF Declare, ChannelHit, ChannelMiss, ChannelCreate, Subscribe, DropWire,
                DropLocal, DropPub, history
<1>4. CASE UNCHANGED vars
    BY <1>1, <1>4 DEF vars
<1> QED BY <1>1, <1>2, <1>3, <1>4, FrameTyped, PublishTyped, EndpointFacts DEF Next

\* The initial state satisfies it.
LEMMA TypedInit == Init => Typed
BY DEF Init, Typed, OfItsType, ByType, OverBus

-----------------------------------------------------------------------------
(* The theorems. *)

\* The initial state satisfies the invariant.
LEMMA PInvInit == Init => PInv
<1> SUFFICES ASSUME Init PROVE PInv
    OBVIOUS
<1>1. TypeOK
    <2>1. options \in [Pubs -> Options]
        BY PubSubAssumption DEF Init
    <2>2. stack \in [Threads -> Seq(Frame)]
        BY DEF Init
    <2>3. outcome \in [result : Results, nested : Nat,
                       how : {"publish", "shared", "owned"}, pub : Pubs \cup {None}]
        BY DEF Init, Results
    <2> QED BY <2>1, <2>2, <2>3, EndpointFacts, PubSubAssumption DEF Init, TypeOK
<1>2. RegistryInv
    <2>1. Registered /\ Distinct /\ Created /\ Holding /\ Listed
        BY EndpointFacts DEF Init, Registered, Distinct, Created, Holding, Listed
    <2>2. Unresolved = Endpoints
        BY DEF Init, Unresolved
    <2>3. Counted
        BY <2>2, EndpointFacts DEF Counted, Init
    <2> QED BY <2>1, <2>3 DEF RegistryInv
<1>3. \A t \in Threads : stack[t] = <<>> /\ Len(stack[t]) = 0 /\ depth[t] = 0
    BY DEF Init
<1>4. NestedFrames /\ Borrowed /\ OneFollowed /\ Following
    BY <1>3 DEF NestedFrames, Borrowed, OneFollowed, Following
<1>5. Once /\ DueSeen /\ Settled
    BY DEF Init, Once, DueSeen, Settled, Untouched
<1> QED BY <1>1, <1>2, <1>4, <1>5 DEF PInv

\* Every step keeps the invariant.
LEMMA PInvNext == PInv /\ [Next]_vars => PInv'
<1> SUFFICES ASSUME PInv, [Next]_vars PROVE PInv'
    OBVIOUS
<1>1. ASSUME NEW e \in Endpoints,
             Declare(e) \/ ChannelHit(e) \/ ChannelMiss(e) \/ ChannelCreate(e)
      PROVE  PInv'
    BY <1>1, StageActions, ChannelHitStep, ChannelCreateStep
<1>2. ASSUME NEW s \in Subs,
             Subscribe(s) \/ DropWire(s) \/ DropLocal(s) \/ WireArrives(s)
      PROVE  PInv'
    BY <1>2, StageActions, ReleaseActions, WireArrivesStep, EndpointFacts
<1>3. ASSUME NEW p \in Pubs, DropPub(p)
      PROVE  PInv'
    BY <1>3, ReleaseActions, EndpointFacts
<1>4. ASSUME NEW t \in Threads,
             \/ CheckOwned(t) \/ WirePut(t) \/ WireFails(t) \/ BusOwned(t)
             \/ BusShared(t) \/ Invoke(t) \/ DeliveryEnds(t)
      PROVE  PInv'
    BY <1>4, CheckOwnedStep, WirePutStep, WireFailsStep, BusOwnedStep, BusSharedStep,
       InvokeStep, DeliveryEndsStep
<1>5. ASSUME NEW t \in Threads, NEW normally \in BOOLEAN, CallbackEnds(t, normally)
      PROVE  PInv'
    BY <1>5, CallbackEndsStep
<1>6. ASSUME NEW t \in Threads, NEW p \in Pubs,
             NEW how \in {"publish", "shared", "owned"}, NEW followed \in BOOLEAN,
             Publish(t, p, how, followed)
      PROVE  PInv'
    BY <1>6, PublishStep
<1>7. CASE UNCHANGED vars
    <2>1. UNCHANGED <<stage, options, registryVars, due, wire, calls, outcome, stack,
                      depth>>
        BY <1>7 DEF vars, registryVars
    <2>2. RegistryInv' /\ Once'
        BY <2>1, FrameStepKeeps
    <2>3. TypeOK'
        BY <2>1 DEF PInv, TypeOK, registryVars
    <2>4. \A s \in due : stage[s] \in {"live", "dropping", "dropped"}
        BY DEF PInv, DueSeen
    <2>5. /\ NestedFrames' /\ Borrowed' /\ OneFollowed'
          /\ Following' /\ Once' /\ DueSeen' /\ Settled'
        BY <2>1, <2>4, EndpointStep, FramePubs DEF registryVars
    <2> QED BY <2>2, <2>3, <2>5 DEF PInv
<1> QED BY <1>1, <1>2, <1>3, <1>4, <1>5, <1>6, <1>7 DEF Next

\* PInv is an invariant: the state of the bus, the nesting of the running calls
\* and the progress of the followed publish stay consistent in every step.
THEOREM PInvCorrect == Spec => []PInv
BY PInvInit, PInvNext, PTL DEF Spec

\* SameChannel: no order of lookups, creations, sweeps and drops splits a topic
\* of a session over two channels, for any endpoints and keys (local_bus.rs:
\* channel and its sweep).
THEOREM SameChannelCorrect == Spec => []SameChannel
<1>1. PInv => SameChannel
    BY DEF PInv, RegistryInv, Registered, SameChannel
<1> QED BY <1>1, PInvCorrect, PTL

\* NoDoubleDelivery: whichever way a message goes, no subscriber is called with
\* it twice (pubsub.rs: route and the publish calls; local_bus.rs: delivery).
THEOREM NoDoubleDeliveryCorrect == Spec => []NoDoubleDelivery
<1>1. PInv => NoDoubleDelivery
    BY DEF PInv, Once, NoDoubleDelivery
<1> QED BY <1>1, PInvCorrect, PTL

\* ServedOrRefused: a publish the bus accepted has called every subscriber of its
\* Rust type that was registered when it began and is still there, and over the
\* bus alone it calls nobody of another type; a refusal for depth comes from that
\* many nested callbacks (local_bus.rs: Channel::publish, DepthGuard).
THEOREM ServedOrRefusedCorrect == Spec => []ServedOrRefused
<1>1. Spec => []Typed
    BY PInvCorrect, TypedInit, TypedNext, PTL DEF Spec
<1>2. PInv /\ Typed => ServedOrRefused
    BY DEF PInv, Settled, Owed, Exempt, Typed, ByType, OverBus, ServedOrRefused
<1> QED BY <1>1, <1>2, PInvCorrect, PTL

\* RetrySafe: a publish that returned an error has reached nobody and never will
\* (pubsub.rs: refuse_durable_bus, refuse_unservable_owned and the failed put).
THEOREM RetrySafeCorrect == Spec => []RetrySafe
<1>1. PInv => RetrySafe
    BY DEF PInv, Settled, Untouched, RetrySafe
<1> QED BY <1>1, PInvCorrect, PTL
=============================================================================
