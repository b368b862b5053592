------------------------------- MODULE WaitSet -------------------------------
(***************************************************************************)
(* rmw_wait, guard conditions and the shared notifier of the rmw layer     *)
(* (rmw-zenoh-rs: wait_set.rs, guard_condition.rs, utils.rs).              *)
(*                                                                         *)
(* Producers (zenoh callbacks, rmw_trigger_guard_condition) make an entity *)
(* ready without the notifier's mutex and then call notify_all, which      *)
(* takes it.  A waiter scans its entities under the mutex, entity by       *)
(* entity, and parks; it collects what is ready after it has released the  *)
(* mutex.  Guard conditions are flags that the collection consumes; the    *)
(* other entities (subscriptions, services, clients, events) are counters  *)
(* that rmw_take and its kin consume later.  Deadlines are abstract: a     *)
(* bounded wait may find its deadline passed at any time.                  *)
(***************************************************************************)
EXTENDS Integers, FiniteSets

CONSTANTS
    Waiters,    \* threads in rmw_wait, each with its own wait set
    Guards,     \* guard conditions
    Sources,    \* subscriptions, services, clients and events
    Watches,    \* the entities of each waiter's wait set
    Producers,  \* threads that deliver data or trigger guard conditions
    MaxCount    \* depth of the queue of each source

Entities == Guards \cup Sources
Free == "free"          \* the notifier's mutex is not held

ASSUME WaitSetAssumption ==
    /\ Guards \cap Sources = {}
    /\ Watches \in [Waiters -> SUBSET Entities]
    /\ Free \notin Waiters
    /\ MaxCount \in Nat \ {0}

VARIABLES
    triggered,  \* GuardConditionState.triggered
    count,      \* items queued at each source
    owner,      \* who holds Notifier.mutex
    ppc,        \* each producer: "idle" or "notify" (entity ready, notify_all due)
    wpc,        \* where each waiter is
    timeout,    \* the timeout of its call: "none" (infinite), "zero" or "bounded"
    scan,       \* entities check_ready has still to look at, or rmw_wait to collect
    report,     \* entities rmw_wait leaves non-NULL
    found,      \* history: the entity that ended each waiter's wait
    owed        \* history: guard conditions triggered and not reported since

vars == <<triggered, count, owner, ppc, wpc, timeout, scan, report, found, owed>>

Init ==
    /\ triggered = [g \in Guards |-> FALSE]
    /\ count = [s \in Sources |-> 0]
    /\ owner = Free
    /\ ppc = [p \in Producers |-> "idle"]
    /\ wpc = [w \in Waiters |-> "idle"]
    /\ timeout = [w \in Waiters |-> "none"]
    /\ scan = [w \in Waiters |-> {}]
    /\ report = [w \in Waiters |-> {}]
    /\ found = [w \in Waiters |-> {}]
    /\ owed = {}

\* Waitable::is_ready.
IsReady(e) == IF e \in Guards THEN triggered[e] ELSE count[e] > 0

-----------------------------------------------------------------------------
(* Producers.                                                              *)

\* GuardConditionState::fire, first half.
Fire(p, g) ==
    /\ ppc[p] = "idle"
    /\ triggered' = [triggered EXCEPT ![g] = TRUE]
    /\ owed' = owed \cup {g}
    /\ ppc' = [ppc EXCEPT ![p] = "notify"]
    /\ UNCHANGED <<found, count, owner, wpc, timeout, scan, report>>

\* A sample, request, response or event status arrives in its queue; a full
\* queue drops its oldest item.
Deliver(p, s) ==
    /\ ppc[p] = "idle"
    /\ count' = [count EXCEPT ![s] = IF @ < MaxCount THEN @ + 1 ELSE @]
    /\ ppc' = [ppc EXCEPT ![p] = "notify"]
    /\ UNCHANGED <<found, triggered, owner, wpc, timeout, scan, report, owed>>

\* Mutant: notify_all does not take the mutex.
NotifyUnlocked(p) ==
    /\ ppc[p] = "notify"
    /\ wpc' = [w \in Waiters |-> IF wpc[w] = "parked" THEN "woken" ELSE wpc[w]]
    /\ ppc' = [ppc EXCEPT ![p] = "idle"]
    /\ UNCHANGED <<found, triggered, count, owner, timeout, scan, report, owed>>

\* Notifier::notify_all: wake every parked waiter, holding the mutex.
NotifyAll(p) ==
    /\ ppc[p] = "notify" /\ owner = Free
    /\ wpc' = [w \in Waiters |-> IF wpc[w] = "parked" THEN "woken" ELSE wpc[w]]
    /\ ppc' = [ppc EXCEPT ![p] = "idle"]
    /\ UNCHANGED <<found, triggered, count, owner, timeout, scan, report, owed>>

-----------------------------------------------------------------------------
(* rmw_wait.                                                               *)

\* The call: with a zero timeout the entities are checked without the mutex.
Call(w, t) ==
    /\ wpc[w] = "idle"
    /\ timeout' = [timeout EXCEPT ![w] = t]
    /\ report' = [report EXCEPT ![w] = {}]
    /\ wpc' = [wpc EXCEPT ![w] = IF t = "zero" THEN "checking" ELSE "locking"]
    /\ scan' = [scan EXCEPT ![w] = IF t = "zero" THEN Watches[w] ELSE {}]
    /\ UNCHANGED <<found, triggered, count, owner, ppc, owed>>

\* WaitSetImpl::wait locks the mutex, at first and after a wakeup or a timeout
\* of the condition variable ("expired").
Lock(w) ==
    /\ wpc[w] \in {"locking", "woken", "expired"} /\ owner = Free
    /\ owner' = w
    /\ wpc' = [wpc EXCEPT ![w] = IF wpc[w] = "expired" THEN "last_check" ELSE "checking"]
    /\ scan' = [scan EXCEPT ![w] = Watches[w]]
    /\ UNCHANGED <<found, triggered, count, ppc, timeout, report, owed>>

\* The mutex guard goes out of scope when w holds it.
Release(w) == owner' = IF owner = w THEN Free ELSE owner

\* check_ready, one entity: the first that is ready ends the wait.
CheckOne(w, e) ==
    /\ wpc[w] \in {"checking", "last_check"} /\ e \in scan[w]
    /\ IF IsReady(e)
       THEN /\ wpc' = [wpc EXCEPT ![w] = "collecting"]
            /\ scan' = [scan EXCEPT ![w] = Watches[w]]
            /\ found' = [found EXCEPT ![w] = {e}]
            /\ Release(w)
       ELSE /\ scan' = [scan EXCEPT ![w] = @ \ {e}]
            /\ UNCHANGED <<wpc, owner, found>>
    /\ UNCHANGED <<triggered, count, ppc, timeout, report, owed>>

\* Nothing is ready and there is time left: park, releasing the mutex.
Park(w) ==
    /\ wpc[w] = "checking" /\ scan[w] = {} /\ timeout[w] # "zero"
    /\ wpc' = [wpc EXCEPT ![w] = "parked"]
    /\ Release(w)
    /\ UNCHANGED <<found, triggered, count, ppc, timeout, scan, report, owed>>

\* The condition variable's wait_for times out.
Expire(w) ==
    /\ wpc[w] = "parked" /\ timeout[w] = "bounded"
    /\ wpc' = [wpc EXCEPT ![w] = "expired"]
    /\ UNCHANGED <<found, triggered, count, owner, ppc, timeout, scan, report, owed>>

\* Mutant: the timeout path resets the guard conditions of the wait set.
TimeOutResets(w) ==
    /\ scan[w] = {}
    /\ \/ wpc[w] = "last_check"
       \/ wpc[w] = "checking" /\ timeout[w] \in {"zero", "bounded"}
    /\ triggered' = [g \in Guards |-> triggered[g] /\ g \notin Watches[w]]
    /\ wpc' = [wpc EXCEPT ![w] = "timeout"]
    /\ Release(w)
    /\ UNCHANGED <<found, count, ppc, timeout, scan, report, owed>>

\* Nothing is ready: after a timed-out wait, after a deadline found passed, or
\* at once with a zero timeout.  Every array is nulled, no flag is consumed.
TimeOut(w) ==
    /\ scan[w] = {}
    /\ \/ wpc[w] = "last_check"
       \/ wpc[w] = "checking" /\ timeout[w] \in {"zero", "bounded"}
    /\ wpc' = [wpc EXCEPT ![w] = "timeout"]
    /\ Release(w)
    /\ UNCHANGED <<found, triggered, count, ppc, timeout, scan, report, owed>>

\* Mutant: the collection stops after its first entity.
CollectFirst(w, e) ==
    /\ wpc[w] = "collecting" /\ e \in scan[w]
    /\ report' = [report EXCEPT ![w] = IF IsReady(e) THEN @ \cup {e} ELSE @]
    /\ triggered' = [g \in Guards |-> triggered[g] /\ g # e]
    /\ owed' = owed \ {e}
    /\ scan' = [scan EXCEPT ![w] = {}]
    /\ UNCHANGED <<found, count, owner, ppc, wpc, timeout>>

\* rmw_wait, one entity after a successful wait: NULL it unless it is ready now;
\* a guard condition is read and consumed in one atomic swap.
CollectOne(w, e) ==
    /\ wpc[w] = "collecting" /\ e \in scan[w]
    /\ report' = [report EXCEPT ![w] = IF IsReady(e) THEN @ \cup {e} ELSE @]
    /\ triggered' = [g \in Guards |-> triggered[g] /\ g # e]
    /\ owed' = owed \ {e}
    /\ scan' = [scan EXCEPT ![w] = @ \ {e}]
    /\ UNCHANGED <<found, count, owner, ppc, wpc, timeout>>

\* rmw_wait returns RMW_RET_OK.
Return(w) ==
    /\ wpc[w] = "collecting" /\ scan[w] = {}
    /\ wpc' = [wpc EXCEPT ![w] = "ok"]
    /\ UNCHANGED <<found, triggered, count, owner, ppc, timeout, scan, report, owed>>

\* rmw_take, rmw_take_request, rmw_take_response, rmw_take_event: the executor
\* takes from the sources reported to it.
Take(w, s) ==
    /\ wpc[w] = "ok" /\ s \in report[w]
    /\ count' = [count EXCEPT ![s] = IF @ > 0 THEN @ - 1 ELSE 0]
    /\ report' = [report EXCEPT ![w] = @ \ {s}]
    /\ UNCHANGED <<found, triggered, owner, ppc, wpc, timeout, scan, owed>>

\* The executor has handled what rmw_wait returned.
Done(w) ==
    /\ wpc[w] \in {"ok", "timeout"}
    /\ wpc' = [wpc EXCEPT ![w] = "idle"]
    /\ timeout' = [timeout EXCEPT ![w] = "none"]
    /\ report' = [report EXCEPT ![w] = {}]
    /\ found' = [found EXCEPT ![w] = {}]
    /\ UNCHANGED <<triggered, count, owner, ppc, scan, owed>>

-----------------------------------------------------------------------------
WaitStep(w) ==
    \/ Lock(w) \/ Park(w) \/ TimeOut(w) \/ Return(w)
    \/ \E e \in Entities : CheckOne(w, e) \/ CollectOne(w, e)

Next ==
    \/ \E p \in Producers :
         \/ NotifyAll(p)
         \/ \E g \in Guards : Fire(p, g)
         \/ \E s \in Sources : Deliver(p, s)
    \/ \E w \in Waiters :
         \/ WaitStep(w) \/ Expire(w) \/ Done(w)
         \/ \E t \in {"none", "zero", "bounded"} : Call(w, t)
         \/ \E s \in Sources : Take(w, s)

Spec == Init /\ [][Next]_vars

\* A thread that wants the mutex gets it in the end (parking_lot hands it over
\* fairly from time to time): strong fairness for Lock and NotifyAll.  A waiter
\* goes on scanning.  Nothing is assumed of timeouts, new calls or producers.
FairSpec ==
    /\ Spec
    /\ \A p \in Producers : SF_vars(NotifyAll(p))
    /\ \A w \in Waiters : SF_vars(Lock(w)) /\ WF_vars(WaitStep(w))

-----------------------------------------------------------------------------
(* Properties.                                                             *)

\* Types: what a source holds never exceeds its depth nor falls below zero, and
\* the mutex belongs to one waiter at most.
TypeOK ==
    /\ triggered \in [Guards -> BOOLEAN]
    /\ count \in [Sources -> 0 .. MaxCount]
    /\ owner \in Waiters \cup {Free}
    /\ ppc \in [Producers -> {"idle", "notify"}]
    /\ wpc \in [Waiters -> {"idle", "locking", "checking", "last_check", "parked",
                            "woken", "expired", "collecting", "ok", "timeout"}]
    /\ timeout \in [Waiters -> {"none", "zero", "bounded"}]
    /\ scan \in [Waiters -> SUBSET Entities]
    /\ report \in [Waiters -> SUBSET Entities]
    /\ found \in [Waiters -> SUBSET Entities]
    /\ owed \in SUBSET Guards

\* No lost wakeup: whoever is parked while one of its entities is ready is
\* about to be notified, although the entity became ready outside the mutex.
NoLostWakeup ==
    /\ TypeOK
    /\ \A w \in Waiters :
          wpc[w] = "parked" /\ (\E e \in Watches[w] : IsReady(e))
             => \E p \in Producers : ppc[p] = "notify"

\* No lost trigger: a guard condition stays triggered until some rmw_wait that
\* returns RMW_RET_OK reports it; timeouts and other waiters do not eat it.
NoLostTrigger == \A g \in owed : triggered[g]

\* RMW_RET_OK comes with something to do: the entity that ended the wait is
\* still reported after the mutex was released, unless another waiter has it in
\* its wait set too.
OkReportsFound ==
    \A w \in Waiters : \A e \in found[w] :
        wpc[w] = "collecting" /\ scan[w] = {} =>
            e \in report[w] \/ \E v \in Waiters \ {w} : e \in Watches[v]

\* A waiter does not sleep on: it wakes up, or what was ready has been consumed.
ReadyWakes ==
    \A w \in Waiters :
        (wpc[w] = "parked" /\ \E e \in Watches[w] : IsReady(e))
            ~> (wpc[w] # "parked" \/ \A e \in Watches[w] : ~IsReady(e))
=============================================================================
