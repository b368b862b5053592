----------------------------- MODULE Parameters -----------------------------
(***************************************************************************)
(* The parameters of a node: crates/hiroz/src/parameter/store.rs and       *)
(* service.rs.                                                             *)
(*                                                                         *)
(* The six services run their handlers on zenoh's threads and the node's   *)
(* own API runs on the program's, all on one store behind a RwLock. Each   *)
(* critical section of the store is one step here. What runs between them, *)
(* the user's callback and the publication of /parameter_events, runs with *)
(* no lock held. A user callback may call the API again: it does what      *)
(* another thread does in that window.                                     *)
(*                                                                         *)
(* Values are integers, Booleans or NotSet; arrays, strings and doubles    *)
(* (and the tolerance of a floating-point range) are left out. A release   *)
(* build is modelled: integer arithmetic wraps, nothing panics with a lock *)
(* held (the user callback holds none), and the answers for a poisoned     *)
(* lock are out of reach.                                                  *)
(***************************************************************************)
EXTENDS Integers, Sequences

CONSTANTS
    Names, Threads,
    Values,         \* the parameter values the program uses
    Declarations,   \* the declarations it makes: [name, default, descriptor]
    Requests,       \* the set requests: sequences of [name, value]
    Overrides,      \* Overrides[n]: the launch file's value, or NoValue
    NoValue,
    IntMax,         \* the largest integer (i64::MAX in the code)
    MaxDeclares,    \* bound: declarations of one name
    MaxSets         \* bound: set requests

Types == {"int", "bool", "NotSet"}
NotSet == [type |-> "NotSet", v |-> 0]

\* The range of a descriptor is <<>> or <<from_value, to_value, step>>.
Range(d) == [from |-> d.range[1], to |-> d.range[2], step |-> d.range[3]]

VARIABLES
    store,      \* store[n]: value and descriptor, or NoValue when undeclared
    overrides,  \* overrides[n]: not yet consumed
    callback,   \* an on_set_parameters callback is installed
    call,       \* call[t]: the API or service call running on a thread
    mirror,     \* what a listener of /parameter_events knows of each name
    declares, sets,     \* bounds: declarations per name and set requests so far
    \* history, for a property:
    unsure      \* names whose events were lost or published out of order

vars == <<store, overrides, callback, call, mirror, declares, sets, unsure>>

\* A descriptor without a type takes that of the initial value.
DescriptorOf(value, d) == [d EXCEPT !.type = IF @ = "NotSet" THEN value.type ELSE @]

Entry == [value : Values,
          descriptor : {DescriptorOf(v, d.descriptor) : v \in Values, d \in Declarations}]

ASSUME ParametersAssumption ==
    /\ IntMax \in Nat
    /\ \A v \in Values : v.type \in Types /\ v.v \in -(IntMax + 1) .. IntMax
    /\ \A d \in Declarations :
          /\ d.name \in Names /\ d.default \in Values
          /\ d.descriptor \in [type : Types, readOnly : BOOLEAN, dynamic : BOOLEAN, range : Seq(Int)]
          /\ \/ d.descriptor.range = <<>>
             \/ Len(d.descriptor.range) = 3 /\ d.descriptor.range[3] >= 0
    /\ \A r \in Requests : r \in Seq([name : Names, value : Values])
    /\ Overrides \in [Names -> Values \cup {NoValue}]
    /\ NoValue \notin Values /\ NoValue \notin Entry
    /\ MaxDeclares \in Nat /\ MaxSets \in Nat

\* ParameterEventChanges: what an event says of some of the names; a value for
\* a new or changed parameter, NoValue for a deleted one
Changes == UNION {[S -> Values \cup {NoValue}] : S \in SUBSET Names}
Idle == [pc |-> "idle"]
NoRequest == [atomic |-> FALSE, params |-> <<>>, ok |-> <<>>, gone |-> {}]

TypeOK ==
    /\ store \in [Names -> Entry \cup {NoValue}]
    /\ overrides \in [Names -> Values \cup {NoValue}]
    /\ callback \in BOOLEAN
    /\ \A t \in Threads :
          \/ call[t] = Idle
          \/ /\ call[t].pc = "publish"
             /\ call[t].changes \in Changes
             /\ call[t].wrote \subseteq DOMAIN call[t].ok
          \/ /\ call[t].pc \in {"validated", "inside", "apply"}
             /\ call[t].params \in Requests
             /\ call[t].ok \in [1 .. Len(call[t].params) -> BOOLEAN]
             /\ call[t].gone \subseteq Names
             /\ call[t].pc = "inside" /\ ~ call[t].atomic =>
                   /\ call[t].next \in 1 .. Len(call[t].params)
                   /\ call[t].ok[call[t].next]
    /\ mirror \in [Names -> Values \cup {NoValue}]
    /\ declares \in [Names -> 0 .. MaxDeclares]
    /\ sets \in 0 .. MaxSets
    /\ unsure \subseteq Names

Init ==
    /\ store = [n \in Names |-> NoValue]
    /\ overrides = Overrides
    /\ callback = FALSE
    /\ call = [t \in Threads |-> Idle]
    /\ mirror = [n \in Names |-> NoValue]
    /\ declares = [n \in Names |-> 0]
    /\ sets = 0
    /\ unsure = {}

-----------------------------------------------------------------------------
(* Validation (store.rs) *)

Declared(n) == store[n] # NoValue

\* A release build wraps the subtraction to the width of i64.
Wrapped(x) == ((x + (IntMax + 1)) % (2 * (IntMax + 1))) - (IntMax + 1)
Magnitude(x) == IF x < 0 THEN -x ELSE x

\* Mutant: the step grid starts at zero.
ValidIntegerFromZero(v, r) ==
    /\ v \in r.from .. r.to
    /\ \/ r.step = 0
       \/ Magnitude(v) % r.step = 0
       \/ v = r.to

\* validate_integer_range: in bounds, and on the step grid or the upper bound
ValidInteger(v, r) ==
    /\ v \in r.from .. r.to
    /\ \/ r.step = 0
       \/ Magnitude(Wrapped(v - r.from)) % r.step = 0
       \/ v = r.to

\* validate_value
ValidValue(value, d) ==
    /\ \/ d.type = "NotSet" \/ d.dynamic
       \/ value.type \in {"NotSet", d.type}
    /\ d.range # <<>> /\ value.type = "int" => ValidInteger(value.v, Range(d))

\* ParameterStore::validate_set
ValidSet(p) ==
    /\ Declared(p.name)
    /\ ~ store[p.name].descriptor.readOnly
    /\ ValidValue(p.value, store[p.name].descriptor)

-----------------------------------------------------------------------------
(* Declaring and undeclaring *)

\* A change to names whose earlier change still waits to be published by
\* another call can be announced out of order.
Announce(t, changes, request, wrote, calls) ==
    /\ call' = [calls EXCEPT ![t] =
          [pc |-> "publish", changes |-> changes, wrote |-> wrote,
           atomic |-> request.atomic, params |-> request.params,
           ok |-> request.ok, gone |-> request.gone]]
    /\ unsure' = unsure \cup
          {n \in DOMAIN changes : \E u \in Threads \ {t} :
              calls[u].pc = "publish" /\ n \in DOMAIN calls[u].changes}

\* The override is used up, even by a declaration that fails on it.
Initial(n, default) == IF overrides[n] = NoValue THEN default ELSE overrides[n]

Declare(t, n, default, d) ==
    /\ call[t] = Idle
    /\ ~ Declared(n)
    /\ declares[n] < MaxDeclares
    /\ LET initial == Initial(n, default)
           descriptor == DescriptorOf(initial, d)
       IN IF ValidValue(initial, descriptor)
          THEN /\ store' = [store EXCEPT ![n] = [value |-> initial,
                                                 descriptor |-> descriptor]]
               /\ declares' = [declares EXCEPT ![n] = @ + 1]
               /\ Announce(t, [m \in {n} |-> initial], NoRequest, {}, call)
          ELSE UNCHANGED <<store, declares, call, unsure>>
    /\ overrides' = [overrides EXCEPT ![n] = NoValue]
    /\ UNCHANGED <<callback, mirror, sets>>

\* Mutant: a removal is not announced.
UndeclareSilently(t, n) ==
    /\ call[t] = Idle
    /\ Declared(n)
    /\ store' = [store EXCEPT ![n] = NoValue]
    /\ UNCHANGED <<overrides, callback, call, mirror, declares, sets, unsure>>

Undeclare(t, n) ==
    /\ call[t] = Idle
    /\ Declared(n)
    /\ store' = [store EXCEPT ![n] = NoValue]
    /\ LET noted == [u \in Threads |->
                       IF call[u].pc \in {"validated", "inside", "apply"}
                       THEN [call[u] EXCEPT !.gone = @ \cup {n}] ELSE call[u]]
       IN Announce(t, [m \in {n} |-> NoValue], NoRequest, {}, noted)
    /\ UNCHANGED <<overrides, callback, mirror, declares, sets>>

\* on_set_parameters
OnSetParameters ==
    /\ ~ callback
    /\ callback' = TRUE
    /\ UNCHANGED <<store, overrides, call, mirror, declares, sets, unsure>>

-----------------------------------------------------------------------------
(* validate_and_apply, for set_parameter, ~/set_parameters (atomic is FALSE) *)
(* and ~/set_parameters_atomically                                           *)

AllOk(c) == \A i \in DOMAIN c.ok : c.ok[i]

\* the read-locked section
Validate(t, params, atomic) ==
    /\ call[t] = Idle
    /\ sets < MaxSets
    /\ sets' = sets + 1
    /\ call' = [call EXCEPT ![t] =
          [pc |-> "validated", atomic |-> atomic, params |-> params, next |-> 1,
           ok |-> [i \in 1 .. Len(params) |-> ValidSet(params[i])], gone |-> {}]]
    /\ UNCHANGED <<store, overrides, callback, mirror, declares, unsure>>

\* The parameters the callback is still to be asked about, one at a time; an
\* atomic request is one question, asked when all are valid.
StillToAsk(c) ==
    IF c.atomic THEN IF AllOk(c) /\ c.next = 1 THEN {1} ELSE {}
    ELSE {i \in c.next .. Len(c.params) : c.ok[i]}

Ask(c) ==
    IF StillToAsk(c) = {} THEN [c EXCEPT !.pc = "apply"]
    ELSE [c EXCEPT !.pc = "inside",
                   !.next = CHOOSE i \in StillToAsk(c) : \A j \in StillToAsk(c) : i <= j]

\* The Arc of the callback is cloned out and the guard dropped.
ReadCallback(t) ==
    /\ call[t].pc = "validated"
    /\ call' = [call EXCEPT ![t] =
          IF callback THEN Ask(@) ELSE [@ EXCEPT !.pc = "apply"]]
    /\ UNCHANGED <<store, overrides, callback, mirror, declares, sets, unsure>>

CallbackReturns(t, accepts) ==
    /\ call[t].pc = "inside"
    /\ LET c == call[t]
           judged == [c EXCEPT !.ok = IF c.atomic
                                      THEN [i \in DOMAIN @ |-> accepts]
                                      ELSE [@ EXCEPT ![c.next] = accepts],
                               !.next = @ + 1]
       IN call' = [call EXCEPT ![t] = Ask(judged)]
    /\ UNCHANGED <<store, overrides, callback, mirror, declares, sets, unsure>>

\* The panic unwinds through validate_and_apply: no answer, nothing applied.
CallbackPanics(t) ==
    /\ call[t].pc = "inside"
    /\ call' = [call EXCEPT ![t] = Idle]
    /\ UNCHANGED <<store, overrides, callback, mirror, declares, sets, unsure>>

\* Mutant: an atomic request writes the parameters that passed.
WrittenPartly(c) == {i \in DOMAIN c.ok : c.ok[i] /\ Declared(c.params[i].name)}

\* What the write-locked section sets: the accepted ones still declared.
Written(c) ==
    IF c.atomic /\ ~ AllOk(c) THEN {}
    ELSE {i \in DOMAIN c.ok : c.ok[i] /\ Declared(c.params[i].name)}

\* The last of the written parameters of a name wins.
LastWrite(c, n) ==
    LET of == {i \in Written(c) : c.params[i].name = n}
    IN CHOOSE i \in of : \A j \in of : j <= i

Touched(c) == {c.params[i].name : i \in Written(c)}

Apply(t) ==
    /\ call[t].pc = "apply"
    /\ LET c == call[t]
           value == [n \in Touched(c) |-> c.params[LastWrite(c, n)].value]
       IN /\ store' = [n \in Names |->
                 IF n \in Touched(c) THEN [store[n] EXCEPT !.value = value[n]]
                 ELSE store[n]]
          /\ Announce(t, value, c, Written(c), call)
    /\ UNCHANGED <<overrides, callback, mirror, declares, sets>>

-----------------------------------------------------------------------------
\* publish_changes: one event, or none when nothing changed; the listener
\* applies it. The call returns its results.
PublishChanges(t) ==
    /\ call[t].pc = "publish"
    /\ LET changes == call[t].changes
       IN mirror' = [n \in Names |-> IF n \in DOMAIN changes THEN changes[n] ELSE mirror[n]]
    /\ call' = [call EXCEPT ![t] = Idle]
    /\ UNCHANGED <<store, overrides, callback, declares, sets, unsure>>

\* The put fails: a warning, and the change is never announced.
PublishFails(t) ==
    /\ call[t].pc = "publish"
    /\ unsure' = unsure \cup DOMAIN call[t].changes
    /\ call' = [call EXCEPT ![t] = Idle]
    /\ UNCHANGED <<store, overrides, callback, mirror, declares, sets>>

Next ==
    \/ OnSetParameters
    \/ \E t \in Threads :
          \/ \E d \in Declarations : Declare(t, d.name, d.default, d.descriptor)
          \/ \E n \in Names : Undeclare(t, n)
          \/ \E params \in Requests, atomic \in BOOLEAN : Validate(t, params, atomic)
          \/ ReadCallback(t)
          \/ \E accepts \in BOOLEAN : CallbackReturns(t, accepts)
          \/ CallbackPanics(t)
          \/ Apply(t)
          \/ PublishChanges(t)
          \/ PublishFails(t)

Spec == Init /\ [][Next]_vars

-----------------------------------------------------------------------------
(* Properties *)

\* What a descriptor allows, without the wrapping arithmetic of the code.
\* (The grid is only claimed for ranges that fit the width of an integer.)
Allowed(value, d) ==
    /\ value.type \in {"NotSet", d.type} \/ d.dynamic \/ d.type = "NotSet"
    /\ d.range # <<>> /\ value.type = "int" =>
          LET r == Range(d)
          IN /\ r.from <= value.v /\ value.v <= r.to
             /\ r.step # 0 /\ value.v # r.to /\ r.to - r.from <= IntMax =>
                   \E k \in 0 .. r.to - r.from : value.v = r.from + k * r.step

\* The store never holds a value its descriptor does not allow, whatever runs
\* between a request's validation and its application. (For a name declared
\* once: a name that is undeclared and declared anew in that window gets the
\* value that was validated against its old descriptor.)
StoreIsValid ==
    /\ TypeOK
    /\ \A n \in Names : Declared(n) /\ declares[n] <= 1 =>
          Allowed(store[n].value, store[n].descriptor)

\* The answer r to a set request is the truth: what it refuses was not written,
\* a refused atomic request wrote nothing, and what it reports as set was
\* written, unless a name was undeclared while the callback ran. Of an atomic
\* request with such a name nothing more is claimed: the write-locked section
\* ignores that store.set finds it undeclared, writes the others and reports
\* success, where docs/core-concepts/parameters.md promises that "either every
\* parameter in the batch changes, or none do".
Truthful(r) ==
    LET set == DOMAIN r.ok
        undone == {i \in set : r.params[i].name \in r.gone}
    IN /\ \A i \in r.wrote : r.ok[i]
       /\ r.atomic /\ ~ AllOk(r) => r.wrote = {}
       /\ ~ r.atomic => \A i \in set \ undone : r.ok[i] => i \in r.wrote
       /\ r.atomic /\ AllOk(r) /\ undone = {} => r.wrote = set

\* Every set request is answered truthfully.
AnswersAreTrue == \A t \in Threads : call[t].pc = "publish" => Truthful(call[t])

\* When no call is under way, a listener that applies the events in order has
\* the store's values: every declaration, change and removal is announced, with
\* the value stored (the override's where there is one). Excepted are names with
\* a lost event, and names two calls changed before the first was announced.
MirrorFollows ==
    (\A t \in Threads : call[t] = Idle) =>
        \A n \in Names \ unsure :
            mirror[n] = IF Declared(n) THEN store[n].value ELSE NoValue
=============================================================================
