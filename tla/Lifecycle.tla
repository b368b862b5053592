------------------------------ MODULE Lifecycle ------------------------------
(***************************************************************************)
(* A lifecycle node (lifecycle/node.rs) with its state machine             *)
(* (lifecycle/state_machine.rs) and its managed publishers                 *)
(* (lifecycle/publisher.rs).                                               *)
(*                                                                         *)
(* The owner drives trigger_transition, which takes the state-machine      *)
(* mutex three times (read start, begin, finish) and runs the user's       *)
(* callback in between with no lock held.  Remote callers reach the same   *)
(* mutex through ~/change_state and ~/get_state, at any moment.            *)
(* trigger_transition takes &mut self, so the owner does one thing at a    *)
(* time; create_publisher is a call of the owner too.                      *)
(*                                                                         *)
(* remote and unwound are history variables: they record that a            *)
(* change_state got to trigger, and that on_error panicked.  The warning   *)
(* throttle of a publisher and the timestamps of events are left out.      *)
(***************************************************************************)

CONSTANTS
    Callers,    \* concurrent ~/change_state and ~/get_state requests
    Pubs,       \* publishers the owner may create
    Panics      \* the callbacks that may panic: subset of {"callback", "on_error"}

ASSUME LifecycleAssumption == Panics \subseteq {"callback", "on_error"}

Primary == {"unconfigured", "inactive", "active", "finalized"}
Busy == {"configuring", "cleaningup", "shuttingdown", "activating",
         "deactivating", "errorprocessing"}
States == Primary \cup Busy

TransitionIds == {"configure", "cleanup", "activate", "deactivate",
                  "unconfigured_shutdown", "inactive_shutdown", "active_shutdown"}
Labels == {"configure", "cleanup", "activate", "deactivate", "shutdown"}
Verdicts == {"success", "failure", "error"}

\* The table of StateMachine::begin: where each transition may start.
StartOf == [configure |-> "unconfigured", cleanup |-> "inactive",
            activate |-> "inactive", deactivate |-> "active",
            unconfigured_shutdown |-> "unconfigured",
            inactive_shutdown |-> "inactive", active_shutdown |-> "active"]

intermediate_state ==
    [configure |-> "configuring", cleanup |-> "cleaningup",
     activate |-> "activating", deactivate |-> "deactivating",
     unconfigured_shutdown |-> "shuttingdown",
     inactive_shutdown |-> "shuttingdown", active_shutdown |-> "shuttingdown"]

goal_state ==
    [configure |-> "inactive", cleanup |-> "unconfigured",
     activate |-> "active", deactivate |-> "inactive",
     unconfigured_shutdown |-> "finalized",
     inactive_shutdown |-> "finalized", active_shutdown |-> "finalized"]

shutdown_for == [unconfigured |-> "unconfigured_shutdown",
                 inactive |-> "inactive_shutdown", active |-> "active_shutdown"]

VARIABLES
    current,            \* StateMachine.current
    opc,                \* where the owner is
    otrans,             \* the transition it triggers
    ostart,             \* start: the state read before begin
    obegun,             \* start_state: what begin returned
    ofinal,             \* final_state
    created, managed,   \* publishers that exist, and those in managed_entities
    active,             \* ZLifecyclePublisher.activated
    cpc, ctrans, cstart, cgoal, \* where each remote caller is, and its locals
    lastEvent,          \* goal_state of the last message on ~/transition_event
    settled,            \* history: the last primary state
    remote, unwound     \* history: see above

ownerVars  == <<opc, otrans, ostart, obegun, ofinal>>
pubVars    == <<created, managed, active>>
callerVars == <<cpc, ctrans, cstart, cgoal>>
history    == <<remote, unwound>>
vars == <<current, settled, ownerVars, pubVars, callerVars, lastEvent, history>>

Init ==
    /\ current = "unconfigured" /\ settled = "unconfigured"
    /\ opc = "idle" /\ otrans = "configure"
    /\ ostart = "unconfigured" /\ obegun = "unconfigured" /\ ofinal = "unconfigured"
    /\ created = {} /\ managed = {} /\ active = [p \in Pubs |-> FALSE]
    /\ cpc = [c \in Callers |-> "idle"]
    /\ ctrans = [c \in Callers |-> "configure"]
    /\ cstart = [c \in Callers |-> "unconfigured"]
    /\ cgoal = [c \in Callers |-> "unconfigured"]
    /\ lastEvent = "unconfigured"
    /\ remote = FALSE /\ unwound = FALSE

\* The state machine moves to s.
Goto(s) ==
    /\ current' = s
    /\ settled' = IF s \in Primary THEN s ELSE settled

\* The owner's call returns or unwinds; its locals are gone.
Return ==
    /\ opc' = "idle" /\ otrans' = "configure"
    /\ ostart' = "unconfigured" /\ obegun' = "unconfigured" /\ ofinal' = "unconfigured"

-----------------------------------------------------------------------------
(* The owner.                                                              *)

\* configure, activate, deactivate, cleanup, or trigger_transition itself.
Trigger(t) ==
    /\ opc = "idle"
    /\ otrans' = t
    /\ opc' = "start"
    /\ UNCHANGED <<current, settled, ostart, obegun, ofinal, pubVars, callerVars,
                   lastEvent, history>>

\* shutdown: the transition depends on the state read here.
Shutdown ==
    /\ opc = "idle"
    /\ current \in DOMAIN shutdown_for
    /\ otrans' = shutdown_for[current]
    /\ opc' = "start"
    /\ UNCHANGED <<current, settled, ostart, obegun, ofinal, pubVars, callerVars,
                   lastEvent, history>>

\* trigger_transition reads start in a critical section of its own.
ReadStart ==
    /\ opc = "start"
    /\ ostart' = current
    /\ opc' = "begin"
    /\ UNCHANGED <<current, settled, otrans, obegun, ofinal, pubVars, callerVars,
                   lastEvent, history>>

\* StateMachine::begin: the transition is legal, the node is busy from here on.
Begin ==
    /\ opc = "begin" /\ current = StartOf[otrans]
    /\ Goto(intermediate_state[otrans])
    /\ obegun' = current
    /\ opc' = "callback"
    /\ UNCHANGED <<otrans, ostart, ofinal, pubVars, callerVars, lastEvent, history>>

\* begin returns None; the state is read again in another critical section.
BeginRefused ==
    /\ opc = "begin" /\ current # StartOf[otrans]
    /\ opc' = "refused"
    /\ UNCHANGED <<current, settled, otrans, ostart, obegun, ofinal, pubVars,
                   callerVars, lastEvent, history>>

ReadRefused ==
    /\ opc = "refused"
    /\ ofinal' = current
    /\ opc' = "settled"
    /\ UNCHANGED <<current, settled, otrans, ostart, obegun, pubVars, callerVars,
                   lastEvent, history>>

\* The callback returns and StateMachine::finish applies its verdict.
Callback(v) ==
    /\ opc = "callback"
    /\ LET s == IF v = "success" THEN goal_state[otrans]
                ELSE IF v = "failure" THEN obegun ELSE "errorprocessing"
       IN /\ Goto(s)
          /\ ofinal' = s
          /\ opc' = IF v = "error" THEN "error" ELSE "settled"
    /\ UNCHANGED <<otrans, ostart, obegun, pubVars, callerVars, lastEvent, history>>

\* Mutant: the unwind leaves the state machine where begin put it.
PanicStrands ==
    /\ opc = "callback" /\ "callback" \in Panics
    /\ Return
    /\ UNCHANGED <<current, settled, pubVars, callerVars, lastEvent, history>>

\* The callback panics: finish with Failure, then the panic is re-raised past
\* the notification and the event.
CallbackPanic ==
    /\ opc = "callback" /\ "callback" \in Panics
    /\ Goto(obegun)
    /\ Return
    /\ UNCHANGED <<pubVars, callerVars, lastEvent, history>>

\* on_error returns and finish_error_processing applies its verdict.
OnError(v) ==
    /\ opc = "error"
    /\ LET s == IF v = "success" THEN "unconfigured" ELSE "finalized"
       IN Goto(s) /\ ofinal' = s
    /\ opc' = "settled"
    /\ UNCHANGED <<otrans, ostart, obegun, pubVars, callerVars, lastEvent, history>>

\* on_error panics: Finalized, and the panic is re-raised.
OnErrorPanic ==
    /\ opc = "error" /\ "on_error" \in Panics
    /\ Goto("finalized")
    /\ Return
    /\ unwound' = TRUE
    /\ UNCHANGED <<pubVars, callerVars, lastEvent, remote>>

\* Mutant: only the success of deactivate and shutdown is taken to leave Active.
NotifyOnSuccess ==
    /\ opc = "settled"
    /\ active' = [p \in Pubs |->
                    IF p \in managed /\ ofinal # ostart /\ ofinal = goal_state[otrans]
                    THEN ofinal = "active" ELSE active[p]]
    /\ opc' = "event"
    /\ UNCHANGED <<current, settled, otrans, ostart, obegun, ofinal, created,
                   managed, callerVars, lastEvent, history>>

\* The managed entities are switched when start and final_state say that the
\* node entered or left Active.
Notify ==
    /\ opc = "settled"
    /\ active' = [p \in Pubs |->
                    IF p \in managed /\ ostart # ofinal /\ "active" \in {ostart, ofinal}
                    THEN ofinal = "active" ELSE active[p]]
    /\ opc' = "event"
    /\ UNCHANGED <<current, settled, otrans, ostart, obegun, ofinal, created,
                   managed, callerVars, lastEvent, history>>

\* Mutant: the event announces the goal that was asked for.
EmitGoal ==
    /\ opc = "event"
    /\ lastEvent' = goal_state[otrans]
    /\ Return
    /\ UNCHANGED <<current, settled, pubVars, callerVars, history>>

\* The transition event, refused transitions included.
Emit ==
    /\ opc = "event"
    /\ lastEvent' = ofinal
    /\ Return
    /\ UNCHANGED <<current, settled, pubVars, callerVars, history>>

\* create_publisher: activated at once in an Active node, then registered.
CreatePublisher(p) ==
    /\ opc = "idle" /\ p \notin created
    /\ created' = created \cup {p}
    /\ active' = [active EXCEPT ![p] = current = "active"]
    /\ opc' = "creating"
    /\ UNCHANGED <<current, settled, otrans, ostart, obegun, ofinal, managed,
                   callerVars, lastEvent, history>>

RegisterPublisher ==
    /\ opc = "creating"
    /\ managed' = created
    /\ opc' = "idle"
    /\ UNCHANGED <<current, settled, otrans, ostart, obegun, ofinal, created,
                   active, callerVars, lastEvent, history>>

-----------------------------------------------------------------------------
(* Remote callers.                                                         *)

\* A request is answered; the handler's locals are gone.
Answer(c) ==
    /\ cpc' = [cpc EXCEPT ![c] = "idle"]
    /\ ctrans' = [ctrans EXCEPT ![c] = "configure"]
    /\ cstart' = [cstart EXCEPT ![c] = "unconfigured"]
    /\ cgoal' = [cgoal EXCEPT ![c] = "unconfigured"]

\* ~/get_state, as ZLifecycleClient::shutdown uses it: remember the state.
GetState(c) ==
    /\ cpc[c] = "idle"
    /\ cstart' = [cstart EXCEPT ![c] = current]
    /\ cpc' = [cpc EXCEPT ![c] = "shutdown"]
    /\ UNCHANGED <<current, settled, ctrans, cgoal, ownerVars, pubVars,
                   lastEvent, history>>

\* The transition ZLifecycleClient::shutdown asks for.
ClientShutdown(s) ==
    IF s = "unconfigured" THEN "unconfigured_shutdown"
    ELSE IF s = "active" THEN "active_shutdown" ELSE "inactive_shutdown"

\* from_label_and_state and from_id_and_state: the transition a request stands
\* for in state s, "none" when it is not legal there.
Requested(req, s) ==
    IF req = "shutdown" /\ s \in DOMAIN shutdown_for THEN shutdown_for[s]
    ELSE IF req \in TransitionIds /\ StartOf[req] = s THEN req ELSE "none"

\* Mutant: a request that is not legal in this state is passed on.
ChangeStateAnyway(c, req) ==
    /\ \/ cpc[c] = "idle"
       \/ cpc[c] = "shutdown" /\ req = ClientShutdown(cstart[c])
    /\ ctrans' = [ctrans EXCEPT ![c] = Requested(req, current)]
    /\ cpc' = [cpc EXCEPT ![c] = "read"]
    /\ cstart' = [cstart EXCEPT ![c] = current]
    /\ UNCHANGED <<cgoal, current, settled, ownerVars, pubVars, lastEvent, history>>

\* ~/change_state, first critical section: read the state, look the request up.
ChangeState(c, req) ==
    /\ \/ cpc[c] = "idle"
       \/ cpc[c] = "shutdown" /\ req = ClientShutdown(cstart[c])
    /\ IF Requested(req, current) = "none"
       THEN Answer(c)
       ELSE /\ ctrans' = [ctrans EXCEPT ![c] = Requested(req, current)]
            /\ cpc' = [cpc EXCEPT ![c] = "read"]
            /\ cstart' = [cstart EXCEPT ![c] = current]
            /\ UNCHANGED cgoal
    /\ UNCHANGED <<current, settled, ownerVars, pubVars, lastEvent, history>>

\* Mutant: the transition is applied without begin's check.
ChangeStateUnchecked(c) ==
    /\ cpc[c] = "read"
    /\ Goto(goal_state[ctrans[c]])
    /\ remote' = TRUE
    /\ cgoal' = [cgoal EXCEPT ![c] = current']
    /\ cpc' = [cpc EXCEPT ![c] = "event"]
    /\ UNCHANGED <<ctrans, cstart, ownerVars, pubVars, lastEvent, unwound>>

\* Second critical section: StateMachine::trigger with a callback that always
\* succeeds.  The state may have moved on since the first.
ChangeStateTrigger(c) ==
    /\ cpc[c] = "read"
    /\ IF current = StartOf[ctrans[c]]
       THEN Goto(goal_state[ctrans[c]])
       ELSE UNCHANGED <<current, settled>>
    /\ remote' = TRUE
    /\ cgoal' = [cgoal EXCEPT ![c] = current']
    /\ cpc' = [cpc EXCEPT ![c] = "event"]
    /\ UNCHANGED <<ctrans, cstart, ownerVars, pubVars, lastEvent, unwound>>

\* The event is published and the request answered with success, also when the
\* state had moved on.
ChangeStateReply(c) ==
    /\ cpc[c] = "event"
    /\ lastEvent' = cgoal[c]
    /\ Answer(c)
    /\ UNCHANGED <<current, settled, ownerVars, pubVars, history>>

-----------------------------------------------------------------------------
\* What the owner's thread does once a transition is under way.
OwnerStep ==
    \/ ReadStart \/ Begin \/ BeginRefused \/ ReadRefused
    \/ CallbackPanic \/ OnErrorPanic \/ Notify \/ Emit \/ RegisterPublisher
    \/ \E v \in Verdicts : Callback(v) \/ OnError(v)

CallerStep(c) ==
    \/ GetState(c) \/ ChangeStateTrigger(c) \/ ChangeStateReply(c)
    \/ \E req \in TransitionIds \cup Labels : ChangeState(c, req)

Next ==
    \/ OwnerStep \/ Shutdown
    \/ \E t \in TransitionIds : Trigger(t)
    \/ \E p \in Pubs : CreatePublisher(p)
    \/ \E c \in Callers : CallerStep(c)

Spec == Init /\ [][Next]_vars

\* The owner's thread runs and every user callback ends, by returning or by
\* panicking.  Nothing is assumed of remote callers.
FairSpec == Spec /\ WF_vars(OwnerStep)

-----------------------------------------------------------------------------
(* Properties.                                                             *)

\* Types: states and transitions are those of the state machine, and a start
\* state of a transition is always primary.
TypeOK ==
    /\ current \in States /\ settled \in Primary
    /\ opc \in {"idle", "start", "begin", "refused", "callback", "error",
                "settled", "event", "creating"}
    /\ otrans \in TransitionIds
    /\ ostart \in States /\ obegun \in Primary /\ ofinal \in States
    /\ created \in SUBSET Pubs /\ managed \in SUBSET Pubs
    /\ active \in [Pubs -> BOOLEAN]
    /\ cpc \in [Callers -> {"idle", "shutdown", "read", "event"}]
    /\ ctrans \in [Callers -> TransitionIds]
    /\ cstart \in [Callers -> States] /\ cgoal \in [Callers -> States]
    /\ lastEvent \in States
    /\ remote \in BOOLEAN /\ unwound \in BOOLEAN

\* While a user callback runs with no lock held, the state machine stays in
\* the intermediate state begin chose, whatever remote callers ask for: finish
\* never overwrites somebody else's transition.
BusyIsMine ==
    /\ opc = "callback" => /\ current = intermediate_state[otrans]
                           /\ obegun = StartOf[otrans]
    /\ opc = "error" => current = "errorprocessing"
    /\ opc \notin {"callback", "error"} => current \in Primary

Graph == INSTANCE LifecycleGraph WITH settled <- settled

\* The primary state, seen without callbacks and callers, only ever moves along
\* the transition graph the node announces, or by error recovery.
FollowsGraph == Graph!GraphSpec

\* Between two calls of the owner every publisher is active exactly when the
\* node is, through failures, error recovery and panics of the callback, until
\* a change_state gets to its trigger or on_error panics.
GateMatchesState ==
    opc = "idle" /\ ~remote /\ ~unwound =>
        \A p \in created : active[p] <=> current = "active"

\* A monitor of ~/transition_event knows the state of a node that only its owner
\* moves: between two calls of the owner the last event announced it, whether
\* the calls succeeded, failed, were refused or panicked in the callback.
EventMatchesState ==
    opc = "idle" /\ ~remote /\ ~unwound => lastEvent = current

\* A node never stays busy: every started transition settles, also when a
\* callback panics.
BusySettles == (current \in Busy) ~> (current \in Primary)

\* "A lifecycle publisher wraps a regular publisher and silently drops publish
\* calls while the node is not Active" (docs/core-concepts/lifecycle.md).
PublisherFollowsNode ==
    opc = "idle" /\ (\A c \in Callers : cpc[c] = "idle") =>
        \A p \in created : active[p] => current = "active"

-----------------------------------------------------------------------------
(* The inductive invariant.                                                *)

\* The settled state is the current one, or the one the running transition
\* started from.
SettledIsStart ==
    /\ current \in Primary => settled = current
    /\ opc \in {"callback", "error"} => settled = obegun /\ obegun = StartOf[otrans]

\* Where the owner is says what the publishers and the last event reflect, as
\* long as nobody else moved the node.
OwnerView ==
    ~remote /\ ~unwound =>
        /\ \A c \in Callers : cpc[c] # "event"
        /\ opc # "creating" => managed = created
        /\ opc \in {"begin", "refused"} => ostart = current
        /\ opc \in {"callback", "error"} => ostart = obegun
        /\ opc \in {"settled", "event"} => ofinal = current
        /\ LET reflected == IF opc \in {"callback", "error"} THEN obegun
                            ELSE IF opc = "settled" THEN ostart ELSE current
           IN \A p \in created : active[p] <=> reflected = "active"
        /\ opc \in {"callback", "error"} => lastEvent = obegun
        /\ opc \notin {"callback", "error", "settled", "event"} => lastEvent = current

LifecycleInv == BusyIsMine /\ SettledIsStart /\ OwnerView
=============================================================================
