--------------------------- MODULE ParametersProofs ---------------------------
(***************************************************************************)
(* Proofs about Parameters, for any names, values, declarations, requests  *)
(* and threads: the store holds only what its descriptors allow, a set     *)
(* request is answered truthfully, and a listener of /parameter_events     *)
(* that missed nothing has the store's values.                             *)
(***************************************************************************)
EXTENDS Parameters, WellFoundedInduction, TLAPS

Running == {"validated", "inside", "apply"}

\* The record of a set request that is under way.
RunningCall(c) ==
    /\ c = [pc |-> c.pc, atomic |-> c.atomic, params |-> c.params, next |-> c.next,
            ok |-> c.ok, gone |-> c.gone]
    /\ c.pc \in Running /\ c.atomic \in BOOLEAN /\ c.params \in Requests
    /\ c.next \in Nat \ {0} /\ c.ok \in [1 .. Len(c.params) -> BOOLEAN]
    /\ c.gone \in SUBSET Names

\* The record of a call whose change is to be published.
PublishCall(c) ==
    /\ c.pc = "publish" /\ c.changes \in Changes
    /\ c.wrote \subseteq DOMAIN c.ok

\* The callback is asked about one valid parameter, or about all when all are valid.
Asked(c) ==
    c.pc = "inside" => IF c.atomic THEN AllOk(c)
                       ELSE c.next \in 1 .. Len(c.params) /\ c.ok[c.next]

StoreTypes ==
    /\ store \in [Names -> Entry \cup {NoValue}]
    /\ overrides \in [Names -> Values \cup {NoValue}]
    /\ callback \in BOOLEAN
    /\ mirror \in [Names -> Values \cup {NoValue}]
    /\ declares \in [Names -> 0 .. MaxDeclares]
    /\ sets \in 0 .. MaxSets
    /\ unsure \in SUBSET Names

CallTypes ==
    /\ call = [t \in Threads |-> call[t]]
    /\ \A t \in Threads : \/ call[t] = Idle
                          \/ PublishCall(call[t])
                          \/ RunningCall(call[t]) /\ Asked(call[t])

\* A parameter that passed validation is still declared, or the call knows that
\* its name was undeclared meanwhile.
GoneKnown(c) ==
    \A i \in DOMAIN c.ok : c.ok[i] =>
        Declared(c.params[i].name) \/ c.params[i].name \in c.gone

\* Its value is good for the descriptor it will be stored under, unless the name
\* was declared anew.
StillValid(c) ==
    \A i \in DOMAIN c.ok : c.ok[i] =>
        LET n == c.params[i].name
        IN /\ declares[n] >= 1
           /\ Declared(n) /\ declares[n] <= 1 => ValidValue(c.params[i].value, store[n].descriptor)

RequestsKept ==
    \A t \in Threads : call[t].pc \in Running => GoneKnown(call[t]) /\ StillValid(call[t])

\* The store holds values validate_value accepts.
StoreKept ==
    \A n \in Names : Declared(n) =>
        /\ declares[n] >= 1
        /\ declares[n] <= 1 => ValidValue(store[n].value, store[n].descriptor)

\* The call on t has a change of n to publish.
Announces(t, n) == call[t].pc = "publish" /\ n \in DOMAIN call[t].changes
Current(n) == IF Declared(n) THEN store[n].value ELSE NoValue

\* For a name whose events are neither lost nor out of order at most one change
\* is unpublished, it is the one the store holds, and without one the listener
\* is up to date.
MirrorKept ==
    \A n \in Names \ unsure :
        /\ \A t, u \in Threads : Announces(t, n) /\ Announces(u, n) => t = u
        /\ \A t \in Threads : Announces(t, n) => call[t].changes[n] = Current(n)
        /\ (\A t \in Threads : ~ Announces(t, n)) => mirror[n] = Current(n)

\* The inductive invariant.
ParInv == StoreTypes /\ CallTypes /\ RequestsKept /\ StoreKept /\ AnswersAreTrue /\ MirrorKept

-----------------------------------------------------------------------------
(* Facts about the operators.                                              *)

\* A set of naturals that is not empty has a least member.
LEMMA MinExists ==
    ASSUME NEW T, T \subseteq Nat, T # {}
    PROVE  \E x \in T : \A y \in T : x <= y
<1> DEFINE R == {ss \in Nat \X Nat : ss[1] < ss[2]}
<1>1. IsWellFoundedOn(R, Nat)
  BY NatLessThanWellFounded DEF OpToRel
<1>2. \A x, y \in Nat : y < x => <<y, x>> \in R
  OBVIOUS
<1> HIDE DEF R
<1>3. PICK x \in T : \A y \in T : ~ (<<y, x>> \in R)
  BY <1>1, WFMin
<1>4. ASSUME NEW y \in T PROVE x <= y
  <2>1. ~ (y < x)
    BY <1>2, <1>3
  <2>2. x \in Nat /\ y \in Nat
    OBVIOUS
  <2> QED BY <2>1, <2>2
<1> QED BY <1>4

\* A set of indices that is not empty has a greatest member.
LEMMA MaxExists ==
    ASSUME NEW n \in Nat, NEW T, T \subseteq 1 .. n, T # {}
    PROVE  \E x \in T : \A y \in T : y <= x
<1> DEFINE U == {n - x : x \in T}
<1>1. U \subseteq Nat
  OBVIOUS
<1>2. U # {}
  OBVIOUS
<1> HIDE DEF U
<1>3. PICK u \in U : \A v \in U : u <= v
  BY <1>1, <1>2, MinExists
<1>4. PICK x \in T : u = n - x
  BY DEF U
<1>5. ASSUME NEW y \in T PROVE y <= x
  <2>1. u <= n - y
    BY <1>3 DEF U
  <2> QED BY <1>4, <2>1
<1> QED BY <1>5

\* A multiple of the step is so many steps away.
LEMMA OnGrid ==
    \A x, s \in Nat : s # 0 /\ x % s = 0 => \E k \in 0 .. x : x = k * s
<1> SUFFICES ASSUME NEW x \in Nat, NEW s \in Nat, s # 0, x % s = 0
             PROVE  \E k \in 0 .. x : x = k * s
  OBVIOUS
<1> DEFINE k == x \div s
<1>1. x = s * k + (x % s)
  OBVIOUS
<1>2. k \in Nat
  OBVIOUS
<1> HIDE DEF k
<1>3. k <= x
  BY <1>1, <1>2
<1>4. x = k * s
  BY <1>1, <1>2
<1>5. k \in 0 .. x
  BY <1>2, <1>3
<1> QED BY <1>4, <1>5

\* The subtraction does not wrap when the range fits.
LEMMA WrappedSmall ==
    ASSUME NEW x \in Nat, x <= IntMax
    PROVE  Magnitude(Wrapped(x)) = x
<1>1. IntMax \in Nat
  BY ParametersAssumption
<1>2. (x + (IntMax + 1)) % (2 * (IntMax + 1)) = x + (IntMax + 1)
  BY <1>1
<1>3. Wrapped(x) = x
  BY <1>1, <1>2 DEF Wrapped
<1> QED BY <1>3 DEF Magnitude

\* The descriptors of declared parameters.
Descriptors == {DescriptorOf(v, d.descriptor) : v \in Values, d \in Declarations}

\* What a descriptor is, as the declaration gives it or with the type filled in.
LEMMA DescriptorFacts ==
    ASSUME NEW e \in Descriptors
    PROVE  /\ e.type \in Types /\ e.range \in Seq(Int)
           /\ e.range = <<>> \/ (Len(e.range) = 3 /\ e.range[3] >= 0)
<1>1. PICK v \in Values, d \in Declarations : e = DescriptorOf(v, d.descriptor)
  BY DEF Descriptors
<1>2. /\ d.descriptor \in [type : Types, readOnly : BOOLEAN, dynamic : BOOLEAN, range : Seq(Int)]
      /\ d.descriptor.range = <<>> \/ (Len(d.descriptor.range) = 3 /\ d.descriptor.range[3] >= 0)
      /\ v.type \in Types
  BY ParametersAssumption
<1>3. e.range = d.descriptor.range
  BY <1>1, <1>2 DEF DescriptorOf
<1>4. e.type \in Types
  BY <1>1, <1>2 DEF DescriptorOf
<1> QED BY <1>2, <1>3, <1>4

\* What validate_value lets through the descriptor allows: where the range fits
\* the integers, the wrapping arithmetic finds exactly the values on the grid.
LEMMA ValidIsAllowed ==
    ASSUME NEW value \in Values,
           NEW d \in Descriptors,
           ValidValue(value, d)
    PROVE  Allowed(value, d)
<1>1. value.type \in {"NotSet", d.type} \/ d.dynamic \/ d.type = "NotSet"
  BY DEF ValidValue
<1>2. ASSUME d.range # <<>>, value.type = "int"
      PROVE  LET r == Range(d)
             IN /\ r.from <= value.v /\ value.v <= r.to
                /\ r.step # 0 /\ value.v # r.to /\ r.to - r.from <= IntMax =>
                      \E k \in 0 .. r.to - r.from : value.v = r.from + k * r.step
  <2> DEFINE from == d.range[1]  to == d.range[2]  step == d.range[3]
  <2>1. Range(d).from = from /\ Range(d).to = to /\ Range(d).step = step
    BY DEF Range
  <2>2. from \in Int /\ to \in Int /\ step \in Nat /\ value.v \in Int /\ IntMax \in Nat
    BY <1>2, DescriptorFacts, ParametersAssumption
  <2> HIDE DEF from, to, step
  <2>3. /\ value.v \in from .. to
        /\ \/ step = 0
           \/ Magnitude(Wrapped(value.v - from)) % step = 0
           \/ value.v = to
    BY <1>2, <2>1 DEF ValidValue, ValidInteger
  <2>4. ASSUME step # 0, value.v # to, to - from <= IntMax
        PROVE  \E k \in 0 .. to - from : value.v = from + k * step
    <3> DEFINE x == value.v - from
    <3>1. x \in Nat /\ x <= IntMax /\ x <= to - from
      BY <2>2, <2>3, <2>4
    <3>2. Magnitude(Wrapped(x)) % step = 0
      BY <2>3, <2>4
    <3> HIDE DEF x
    <3>3. x % step = 0
      BY <3>1, <3>2, WrappedSmall
    <3>4. PICK k \in 0 .. x : x = k * step
      <4>1. step \in Nat /\ step # 0 /\ x \in Nat /\ x % step = 0
        BY <2>2, <2>4, <3>1, <3>3
      <4> QED BY <4>1, OnGrid
    <3>5. k \in 0 .. to - from
      BY <2>2, <3>1
    <3>6. value.v = from + x
      BY <2>2 DEF x
    <3>7. value.v = from + k * step
      BY <3>4, <3>6
    <3> QED BY <3>5, <3>7
  <2>5. from <= value.v /\ value.v <= to
    BY <2>2, <2>3
  <2> QED BY <2>1, <2>4, <2>5
<1> QED BY <1>1, <1>2 DEF Allowed

\* The members of a sequence.
LEMMA SeqElements ==
    ASSUME NEW S, NEW s \in Seq(S)
    PROVE  Len(s) \in Nat /\ \A i \in 1 .. Len(s) : s[i] \in S
  OBVIOUS

\* A request is a sequence of names and values.
LEMMA RequestFacts ==
    ASSUME NEW r \in Requests
    PROVE  /\ r \in Seq([name : Names, value : Values]) /\ Len(r) \in Nat
           /\ \A i \in 1 .. Len(r) : r[i].name \in Names /\ r[i].value \in Values
<1>1. r \in Seq([name : Names, value : Values])
  BY ParametersAssumption, Zenon
<1>2. \A i \in 1 .. Len(r) : r[i] \in [name : Names, value : Values]
  BY <1>1, SeqElements, Zenon
<1>3. Len(r) \in Nat
  BY <1>1, SeqElements, Zenon
<1> QED BY <1>1, <1>2, <1>3

\* The callback is asked next about a parameter that is valid so far, or about
\* all of an atomic request; otherwise the request goes on to be applied.
LEMMA AskFacts ==
    ASSUME NEW c, RunningCall(c)
    PROVE  /\ RunningCall(Ask(c)) /\ Asked(Ask(c)) /\ Ask(c).pc \in {"inside", "apply"}
           /\ Ask(c).ok = c.ok /\ Ask(c).params = c.params
           /\ Ask(c).gone = c.gone /\ Ask(c).atomic = c.atomic
<1>1. c.next \in Nat \ {0} /\ Len(c.params) \in Nat
  BY RequestFacts DEF RunningCall
<1>2. CASE StillToAsk(c) = {}
  <2>1. Ask(c) = [c EXCEPT !.pc = "apply"]
    BY <1>2 DEF Ask
  <2> QED BY <2>1 DEF RunningCall, Asked, Running
<1>3. CASE StillToAsk(c) # {}
  <2> DEFINE i == CHOOSE j \in StillToAsk(c) : \A k \in StillToAsk(c) : j <= k
  <2>1. StillToAsk(c) \subseteq Nat
    BY <1>1 DEF StillToAsk
  <2>2. i \in StillToAsk(c)
    BY <1>3, <2>1, MinExists
  <2>3. Ask(c) = [c EXCEPT !.pc = "inside", !.next = i]
    BY <1>3 DEF Ask
  <2> HIDE DEF i
  <2>4. CASE c.atomic
    <3>1. i = 1 /\ AllOk(c)
      BY <2>2, <2>4 DEF StillToAsk
    <3>2. i \in Nat \ {0}
      BY <3>1
    <3>3. /\ RunningCall(Ask(c)) /\ Ask(c).pc = "inside"
          /\ Ask(c).ok = c.ok /\ Ask(c).params = c.params
          /\ Ask(c).gone = c.gone /\ Ask(c).atomic = c.atomic
      BY <2>3, <3>2 DEF RunningCall, Running
    <3> QED BY <2>4, <3>1, <3>3 DEF Asked, AllOk
  <2>5. CASE ~ c.atomic
    <3>1. i \in c.next .. Len(c.params) /\ c.ok[i]
      BY <2>2, <2>5 DEF StillToAsk
    <3>2. i \in 1 .. Len(c.params) /\ i \in Nat \ {0}
      BY <1>1, <3>1
    <3> QED BY <2>3, <2>5, <3>1, <3>2 DEF RunningCall, Asked, Running
  <2> QED BY <2>4, <2>5
<1> QED BY <1>2, <1>3

\* The parameters a request writes, and the last write of a name.
LEMMA WriteFacts ==
    ASSUME NEW c, RunningCall(c)
    PROVE  /\ Written(c) \subseteq 1 .. Len(c.params)
           /\ \A i \in Written(c) : c.ok[i] /\ Declared(c.params[i].name)
           /\ \A i \in 1 .. Len(c.params) : c.params[i].name \in Names /\ c.params[i].value \in Values
           /\ Touched(c) \subseteq Names
           /\ \A n \in Touched(c) : /\ LastWrite(c, n) \in Written(c)
                                    /\ c.params[LastWrite(c, n)].name = n
<1>1. c.params \in Requests /\ Len(c.params) \in Nat /\ c.ok \in [1 .. Len(c.params) -> BOOLEAN]
  BY RequestFacts DEF RunningCall
<1>2. Written(c) \subseteq 1 .. Len(c.params) /\ \A i \in Written(c) : c.ok[i] /\ Declared(c.params[i].name)
  BY <1>1 DEF Written
<1>3. \A i \in 1 .. Len(c.params) : c.params[i].name \in Names /\ c.params[i].value \in Values
  BY <1>1, RequestFacts, Zenon
<1>4. Touched(c) \subseteq Names
  BY <1>2, <1>3 DEF Touched
<1>5. ASSUME NEW n \in Touched(c)
      PROVE  LastWrite(c, n) \in Written(c) /\ c.params[LastWrite(c, n)].name = n
  <2> DEFINE of == {i \in Written(c) : c.params[i].name = n}
  <2>1. of # {} /\ of \subseteq 1 .. Len(c.params)
    BY <1>2 DEF Touched
  <2>2. \E i \in of : \A j \in of : j <= i
    <3> HIDE DEF of
    <3> QED BY <1>1, <2>1, MaxExists
  <2>3. LastWrite(c, n) \in of
    BY <2>2 DEF LastWrite
  <2> QED BY <2>3
<1> QED BY <1>2, <1>3, <1>4, <1>5

\* What an event says is a function on names.
LEMMA ChangesFacts ==
    /\ \A S \in SUBSET Names : \A f \in [S -> Values \cup {NoValue}] : f \in Changes
    /\ \A f \in Changes : DOMAIN f \in SUBSET Names /\ f \in [DOMAIN f -> Values \cup {NoValue}]
  BY DEF Changes

\* The three kinds of calls tell themselves apart by their pc.
LEMMA CallKinds ==
    ASSUME CallTypes, NEW t \in Threads
    PROVE  /\ call[t].pc = "idle" <=> call[t] = Idle
           /\ call[t].pc = "publish" => PublishCall(call[t])
           /\ call[t].pc \in Running => RunningCall(call[t]) /\ Asked(call[t])
           /\ call[t].pc \in {"idle", "publish"} \cup Running
<1>1. Idle.pc = "idle"
  BY DEF Idle
<1> QED BY <1>1 DEF CallTypes, PublishCall, RunningCall, Running

-----------------------------------------------------------------------------
(* Steps.                                                                  *)

\* What a step that changes one call leaves of the others.
LEMMA CallPut ==
    ASSUME CallTypes, NEW t \in Threads, NEW x, call' = [call EXCEPT ![t] = x],
           x = Idle \/ PublishCall(x) \/ (RunningCall(x) /\ Asked(x))
    PROVE  CallTypes' /\ call'[t] = x /\ \A u \in Threads \ {t} : call'[u] = call[u]
<1>1. call = [u \in Threads |-> call[u]]
  BY DEF CallTypes
<1>2. call' = [u \in Threads |-> call'[u]]
  BY <1>1
<1>3. call'[t] = x /\ \A u \in Threads \ {t} : call'[u] = call[u]
  BY <1>1
<1> QED BY <1>2, <1>3 DEF CallTypes

\* A step of a set request that neither writes nor publishes.
LEMMA RequestStep ==
    ASSUME ParInv, NEW t \in Threads, NEW x, call' = [call EXCEPT ![t] = x],
           UNCHANGED <<store, overrides, mirror, declares, unsure, callback>>,
           sets' \in 0 .. MaxSets, call[t].pc # "publish",
           x = Idle \/ (RunningCall(x) /\ Asked(x) /\ GoneKnown(x) /\ StillValid(x))
    PROVE  ParInv'
<1>1. CallTypes' /\ call'[t] = x /\ \A u \in Threads \ {t} : call'[u] = call[u]
  BY CallPut DEF ParInv
<1>2. StoreTypes' /\ StoreKept'
  BY DEF ParInv, StoreTypes, StoreKept, Declared
<1>3. x.pc \in {"idle"} \cup Running
  BY DEF Idle, RunningCall
<1>4. RequestsKept'
  <2> SUFFICES ASSUME NEW u \in Threads, call'[u].pc \in Running
               PROVE  GoneKnown(call[u])' /\ StillValid(call[u])'
    BY DEF RequestsKept
  <2>1. GoneKnown(call'[u]) /\ StillValid(call'[u])
    <3>1. CASE u = t
      BY <1>1, <3>1 DEF Idle, Running
    <3>2. CASE u # t
      BY <1>1, <3>2 DEF ParInv, RequestsKept
    <3> QED BY <3>1, <3>2
  <2> QED BY <2>1 DEF GoneKnown, StillValid, Declared
<1>5. AnswersAreTrue'
  <2>1. \A u \in Threads : call'[u].pc = "publish" => call'[u] = call[u]
    BY <1>1, <1>3 DEF Running
  <2> QED BY <2>1 DEF ParInv, AnswersAreTrue
<1>6. MirrorKept'
  <2>1. \A u \in Threads : call'[u] = call[u] \/ (call'[u].pc # "publish" /\ call[u].pc # "publish")
    BY <1>1, <1>3 DEF Running
  <2>2. \A u \in Threads, n \in Names : Announces(u, n)' <=> Announces(u, n)
    BY <2>1 DEF Announces
  <2>3. \A u \in Threads, n \in Names : Announces(u, n) => call'[u].changes = call[u].changes
    BY <2>1 DEF Announces
  <2>4. \A n \in Names : Current(n)' = Current(n)
    BY DEF Current, Declared
  <2> QED BY <2>2, <2>3, <2>4 DEF ParInv, MirrorKept
<1> QED BY <1>1, <1>2, <1>4, <1>5, <1>6 DEF ParInv

\* A call that changed the store and is about to publish: a name it leaves alone
\* keeps its value and its announcement, and a name it changed is announced by it
\* alone, with the value now stored, or is written off as unsure.
LEMMA AnnounceMirror ==
    ASSUME MirrorKept, NEW t \in Threads, call[t].pc # "publish", call'[t].pc = "publish",
           \A u \in Threads \ {t} : \/ call'[u] = call[u]
                                    \/ call'[u].pc # "publish" /\ call[u].pc # "publish",
           unsure' = unsure \cup {n \in DOMAIN call'[t].changes :
                                    \E u \in Threads \ {t} : Announces(u, n)},
           mirror' = mirror,
           \A n \in Names \ DOMAIN call'[t].changes : Current(n)' = Current(n),
           \A n \in DOMAIN call'[t].changes : call'[t].changes[n] = Current(n)'
    PROVE  MirrorKept'
<1> SUFFICES ASSUME NEW n \in Names, n \notin unsure'
             PROVE  /\ \A v, u \in Threads : Announces(v, n)' /\ Announces(u, n)' => v = u
                    /\ \A v \in Threads : Announces(v, n)' => call'[v].changes[n] = Current(n)'
                    /\ (\A v \in Threads : ~ Announces(v, n)') => mirror'[n] = Current(n)'
  BY DEF MirrorKept
<1>1. /\ n \notin unsure
      /\ n \in DOMAIN call'[t].changes => \A u \in Threads \ {t} : ~ Announces(u, n)
  OBVIOUS
<1>2. \A u \in Threads \ {t} : Announces(u, n)' <=> Announces(u, n)
  BY DEF Announces
<1>3. \A u \in Threads \ {t} : Announces(u, n) => call'[u].changes = call[u].changes
  BY DEF Announces
<1>4. ~ Announces(t, n) /\ (Announces(t, n)' <=> n \in DOMAIN call'[t].changes)
  BY DEF Announces
<1>5. CASE n \in DOMAIN call'[t].changes
  BY <1>1, <1>2, <1>4, <1>5
<1>6. CASE n \notin DOMAIN call'[t].changes
  <2>1. Current(n)' = Current(n)
    BY <1>6
  <2>2. /\ \A v, u \in Threads : Announces(v, n) /\ Announces(u, n) => v = u
        /\ \A v \in Threads : Announces(v, n) => call[v].changes[n] = Current(n)
        /\ (\A v \in Threads : ~ Announces(v, n)) => mirror[n] = Current(n)
    BY <1>1 DEF MirrorKept
  <2>3. \A v \in Threads : Announces(v, n)' <=> Announces(v, n)
    BY <1>2, <1>4, <1>6
  <2> QED BY <1>3, <1>4, <2>1, <2>2, <2>3
<1> QED BY <1>5, <1>6

\* Validation under the read lock: what passes is declared and valid now.
LEMMA ValidateStep ==
    ASSUME ParInv, NEW t \in Threads, NEW params \in Requests, NEW atomic \in BOOLEAN,
           Validate(t, params, atomic)
    PROVE  ParInv'
<1> DEFINE x == [pc |-> "validated", atomic |-> atomic, params |-> params, next |-> 1,
                 ok |-> [i \in 1 .. Len(params) |-> ValidSet(params[i])], gone |-> {}]
<1>1. call' = [call EXCEPT ![t] = x] /\ call[t] = Idle
      /\ UNCHANGED <<store, overrides, mirror, declares, unsure, callback>>
      /\ sets' = sets + 1 /\ sets < MaxSets
  BY DEF Validate
<1>2. sets' \in 0 .. MaxSets
  BY <1>1, ParametersAssumption DEF ParInv, StoreTypes
<1>3. call[t].pc # "publish"
  BY <1>1 DEF Idle
<1>4. \A i \in 1 .. Len(params) : ValidSet(params[i]) \in BOOLEAN
  BY DEF ValidSet
<1>5. RunningCall(x) /\ Asked(x)
  BY <1>4 DEF RunningCall, Asked, Running
<1>6. GoneKnown(x)
  BY DEF GoneKnown, ValidSet
<1>7. StillValid(x)
  <2> SUFFICES ASSUME NEW i \in 1 .. Len(params), ValidSet(params[i])
               PROVE  LET n == params[i].name
                      IN /\ declares[n] >= 1
                         /\ Declared(n) /\ declares[n] <= 1 =>
                               ValidValue(params[i].value, store[n].descriptor)
    BY DEF StillValid
  <2>1. params[i].name \in Names
    BY RequestFacts
  <2> QED BY <2>1 DEF ValidSet, ParInv, StoreKept
<1> HIDE DEF x
<1> QED BY <1>1, <1>2, <1>3, <1>5, <1>6, <1>7, RequestStep

\* A request whose accepted parameters only became fewer stays known and valid.
LEMMA FewerAccepted ==
    ASSUME NEW c, NEW x, GoneKnown(c), StillValid(c),
           x.params = c.params, x.gone = c.gone,
           \A i \in DOMAIN x.ok : x.ok[i] => i \in DOMAIN c.ok /\ c.ok[i]
    PROVE  GoneKnown(x) /\ StillValid(x)
<1>1. GoneKnown(x)
  BY DEF GoneKnown
<1>2. StillValid(x)
  BY DEF StillValid
<1> QED BY <1>1, <1>2

\* The callback is read, and asked if there is one.
LEMMA ReadCallbackStep ==
    ASSUME ParInv, NEW t \in Threads, ReadCallback(t)
    PROVE  ParInv'
<1> DEFINE c == call[t]
           x == IF callback THEN Ask(c) ELSE [c EXCEPT !.pc = "apply"]
<1>1. /\ c.pc = "validated" /\ sets' = sets
      /\ UNCHANGED <<store, overrides, mirror, declares, unsure, callback>>
  BY DEF ReadCallback
<1>2. call' = [call EXCEPT ![t] = x]
  BY DEF ReadCallback
<1>3. RunningCall(c) /\ GoneKnown(c) /\ StillValid(c)
  BY <1>1, CallKinds DEF ParInv, RequestsKept, Running
<1> HIDE DEF c
<1>4. /\ RunningCall(x) /\ Asked(x) /\ x.params = c.params /\ x.gone = c.gone /\ x.ok = c.ok
  <2>1. CASE callback
    BY <1>3, <2>1, AskFacts
  <2>2. CASE ~ callback
    BY <1>3, <2>2 DEF RunningCall, Asked, Running
  <2> QED BY <2>1, <2>2
<1> HIDE DEF x
<1>5. GoneKnown(x) /\ StillValid(x)
  BY <1>3, <1>4, FewerAccepted
<1>6. sets' \in 0 .. MaxSets
  BY <1>1 DEF ParInv, StoreTypes
<1>7. call[t].pc # "publish"
  BY <1>1 DEF c
<1> QED BY <1>1, <1>2, <1>4, <1>5, <1>6, <1>7, RequestStep

\* The fields of a call with a new verdict.
LEMMA VerdictPut ==
    ASSUME NEW c, NEW x, NEW ok, NEW m,
           c = [pc |-> c.pc, atomic |-> c.atomic, params |-> c.params, next |-> c.next,
                ok |-> c.ok, gone |-> c.gone],
           x = [c EXCEPT !.ok = ok, !.next = m]
    PROVE  /\ x = [pc |-> x.pc, atomic |-> x.atomic, params |-> x.params, next |-> x.next,
                   ok |-> x.ok, gone |-> x.gone]
           /\ x.pc = c.pc /\ x.atomic = c.atomic /\ x.params = c.params
           /\ x.next = m /\ x.ok = ok /\ x.gone = c.gone
  OBVIOUS

\* The callback accepts or refuses: nothing that was refused becomes accepted.
LEMMA CallbackReturnsStep ==
    ASSUME ParInv, NEW t \in Threads, NEW accepts \in BOOLEAN, CallbackReturns(t, accepts)
    PROVE  ParInv'
<1> DEFINE c == call[t]
           ok == IF c.atomic THEN [i \in DOMAIN c.ok |-> accepts]
                 ELSE [c.ok EXCEPT ![c.next] = accepts]
           judged == [c EXCEPT !.ok = ok, !.next = c.next + 1]
           x == Ask(judged)
<1>1. /\ c.pc = "inside" /\ sets' = sets
      /\ UNCHANGED <<store, overrides, mirror, declares, unsure, callback>>
  BY DEF CallbackReturns
<1>2. call' = [call EXCEPT ![t] = x]
  BY DEF CallbackReturns
<1>3. RunningCall(c) /\ Asked(c) /\ GoneKnown(c) /\ StillValid(c)
  BY <1>1, CallKinds DEF ParInv, RequestsKept, Running
<1>4. call[t].pc # "publish"
  BY <1>1
<1>5. ok \in [1 .. Len(c.params) -> BOOLEAN]
  <2>1. CASE c.atomic
    BY <1>3, <2>1 DEF RunningCall
  <2>2. CASE ~ c.atomic
    BY <1>3, <2>2 DEF RunningCall
  <2> QED BY <2>1, <2>2
<1> HIDE DEF ok, c
<1>6. /\ RunningCall(judged) /\ judged.ok = ok
      /\ judged.params = c.params /\ judged.gone = c.gone
  <2>1. /\ judged = [pc |-> judged.pc, atomic |-> judged.atomic, params |-> judged.params,
                     next |-> judged.next, ok |-> judged.ok, gone |-> judged.gone]
        /\ judged.pc = c.pc /\ judged.atomic = c.atomic /\ judged.params = c.params
        /\ judged.next = c.next + 1 /\ judged.ok = ok /\ judged.gone = c.gone
    <3>1. c = [pc |-> c.pc, atomic |-> c.atomic, params |-> c.params, next |-> c.next,
               ok |-> c.ok, gone |-> c.gone]
      BY <1>3 DEF RunningCall
    <3>2. judged = [c EXCEPT !.ok = ok, !.next = c.next + 1]
      OBVIOUS
    <3> HIDE DEF judged
    <3> QED BY <3>1, <3>2, VerdictPut, Zenon
  <2>2. c.next + 1 \in Nat \ {0}
    BY <1>3 DEF RunningCall
  <2> HIDE DEF judged
  <2> QED BY <1>3, <1>5, <2>1, <2>2 DEF RunningCall
<1> HIDE DEF judged
<1>7. \A i \in DOMAIN judged.ok : judged.ok[i] => i \in DOMAIN c.ok /\ c.ok[i]
  <2>1. CASE c.atomic
    BY <1>1, <1>3, <1>6, <2>1 DEF Asked, AllOk, RunningCall, ok
  <2>2. CASE ~ c.atomic
    BY <1>1, <1>3, <1>6, <2>2 DEF Asked, RunningCall, ok
  <2> QED BY <2>1, <2>2
<1>8. RunningCall(x) /\ Asked(x) /\ x.params = c.params /\ x.gone = c.gone /\ x.ok = judged.ok
  BY <1>6, AskFacts
<1> HIDE DEF x
<1>9. GoneKnown(x) /\ StillValid(x)
  BY <1>3, <1>7, <1>8, FewerAccepted
<1>10. sets' \in 0 .. MaxSets
  BY <1>1 DEF ParInv, StoreTypes
<1> QED BY <1>1, <1>2, <1>4, <1>8, <1>9, <1>10, RequestStep

\* A panic of the callback ends the request.
LEMMA CallbackPanicsStep ==
    ASSUME ParInv, NEW t \in Threads, CallbackPanics(t)
    PROVE  ParInv'
<1>1. /\ call' = [call EXCEPT ![t] = Idle] /\ call[t].pc # "publish" /\ sets' = sets
      /\ UNCHANGED <<store, overrides, mirror, declares, unsure, callback>>
  BY DEF CallbackPanics
<1>2. sets' \in 0 .. MaxSets
  BY <1>1 DEF ParInv, StoreTypes
<1> QED BY <1>1, <1>2, RequestStep

\* The end of a call that published, or failed to: the store and the requests
\* under way are as they were.
LEMMA CallEnds ==
    ASSUME ParInv, NEW t \in Threads, call[t].pc = "publish", call' = [call EXCEPT ![t] = Idle],
           UNCHANGED <<store, overrides, callback, declares, sets>>
    PROVE  /\ CallTypes' /\ RequestsKept' /\ StoreKept' /\ AnswersAreTrue'
           /\ \A n \in Names : Current(n)' = Current(n)
           /\ \A n \in Names : ~ Announces(t, n)'
           /\ \A u \in Threads \ {t} : call'[u] = call[u]
           /\ \A u \in Threads \ {t}, n \in Names : Announces(u, n)' <=> Announces(u, n)
<1>1. CallTypes' /\ call'[t] = Idle /\ \A u \in Threads \ {t} : call'[u] = call[u]
  BY CallPut DEF ParInv
<1>2. \A u \in Threads : call'[u].pc # "idle" => u # t /\ call'[u] = call[u]
  BY <1>1 DEF Idle
<1>3. StoreKept'
  BY DEF ParInv, StoreKept, Declared
<1>4. RequestsKept'
  <2> SUFFICES ASSUME NEW u \in Threads, call'[u].pc \in Running
               PROVE  GoneKnown(call[u])' /\ StillValid(call[u])'
    BY DEF RequestsKept
  <2>1. GoneKnown(call'[u]) /\ StillValid(call'[u])
    BY <1>2 DEF ParInv, RequestsKept, Running
  <2> QED BY <2>1 DEF GoneKnown, StillValid, Declared
<1>5. AnswersAreTrue'
  <2>1. \A u \in Threads : call'[u].pc = "publish" => call'[u] = call[u]
    BY <1>2
  <2> QED BY <2>1 DEF ParInv, AnswersAreTrue
<1>6. \A n \in Names : Current(n)' = Current(n)
  BY DEF Current, Declared
<1>7. \A n \in Names : ~ Announces(t, n)'
  BY <1>1 DEF Announces, Idle
<1>8. \A u \in Threads \ {t}, n \in Names : Announces(u, n)' <=> Announces(u, n)
  BY <1>1 DEF Announces
<1> QED BY <1>1, <1>3, <1>4, <1>5, <1>6, <1>7, <1>8

\* The event arrives: its names have the values of the store, which are the
\* event's because no other call had a change of them to publish.
LEMMA PublishChangesStep ==
    ASSUME ParInv, NEW t \in Threads, PublishChanges(t)
    PROVE  ParInv'
<1> DEFINE f == call[t].changes
<1>1. /\ call[t].pc = "publish" /\ call' = [call EXCEPT ![t] = Idle]
      /\ mirror' = [n \in Names |-> IF n \in DOMAIN f THEN f[n] ELSE mirror[n]]
      /\ UNCHANGED <<store, overrides, callback, declares, sets, unsure>>
  BY DEF PublishChanges
<1>2. /\ CallTypes' /\ RequestsKept' /\ StoreKept' /\ AnswersAreTrue'
      /\ \A n \in Names : Current(n)' = Current(n)
      /\ \A n \in Names : ~ Announces(t, n)'
      /\ \A u \in Threads \ {t} : call'[u] = call[u]
      /\ \A u \in Threads \ {t}, n \in Names : Announces(u, n)' <=> Announces(u, n)
  BY <1>1, CallEnds
<1>3. f \in Changes
  BY <1>1, CallKinds DEF ParInv, PublishCall
<1>4. \A n \in Names : Announces(t, n) <=> n \in DOMAIN f
  BY <1>1 DEF Announces
<1> HIDE DEF f
<1>5. /\ mirror' \in [Names -> Values \cup {NoValue}]
      /\ \A n \in Names : mirror'[n] = IF n \in DOMAIN f THEN f[n] ELSE mirror[n]
  BY <1>1, <1>3, ChangesFacts DEF ParInv, StoreTypes
<1>6. StoreTypes'
  BY <1>1, <1>5 DEF ParInv, StoreTypes
<1>7. MirrorKept'
  <2> SUFFICES ASSUME NEW n \in Names, n \notin unsure'
               PROVE  /\ \A v, u \in Threads : Announces(v, n)' /\ Announces(u, n)' => v = u
                      /\ \A v \in Threads : Announces(v, n)' => call'[v].changes[n] = Current(n)'
                      /\ (\A v \in Threads : ~ Announces(v, n)') => mirror'[n] = Current(n)'
    BY DEF MirrorKept
  <2>1. /\ \A v, u \in Threads : Announces(v, n) /\ Announces(u, n) => v = u
        /\ \A v \in Threads : Announces(v, n) => call[v].changes[n] = Current(n)
        /\ (\A v \in Threads : ~ Announces(v, n)) => mirror[n] = Current(n)
    BY <1>1 DEF ParInv, MirrorKept
  <2>2. \A v \in Threads : Announces(v, n)' => v # t /\ Announces(v, n) /\ call'[v] = call[v]
    BY <1>2
  <2>3. ASSUME \A v \in Threads : ~ Announces(v, n)' PROVE mirror'[n] = Current(n)'
    <3>1. \A v \in Threads \ {t} : ~ Announces(v, n)
      BY <1>2, <2>3
    <3>2. CASE n \in DOMAIN f
      <4>1. f[n] = Current(n)
        BY <1>4, <2>1, <3>2 DEF f
      <4> QED BY <1>2, <1>5, <3>2, <4>1
    <3>3. CASE n \notin DOMAIN f
      <4>1. mirror[n] = Current(n)
        BY <1>4, <2>1, <3>1, <3>3
      <4> QED BY <1>2, <1>5, <3>3, <4>1
    <3> QED BY <3>2, <3>3
  <2> QED BY <1>2, <2>1, <2>2, <2>3
<1> QED BY <1>2, <1>6, <1>7 DEF ParInv

\* The event is lost: its names are unsure from now on.
LEMMA PublishFailsStep ==
    ASSUME ParInv, NEW t \in Threads, PublishFails(t)
    PROVE  ParInv'
<1>1. /\ call[t].pc = "publish" /\ call' = [call EXCEPT ![t] = Idle]
      /\ unsure' = unsure \cup DOMAIN call[t].changes
      /\ UNCHANGED <<store, overrides, callback, mirror, declares, sets>>
  BY DEF PublishFails
<1>2. /\ CallTypes' /\ RequestsKept' /\ StoreKept' /\ AnswersAreTrue'
      /\ \A n \in Names : Current(n)' = Current(n)
      /\ \A n \in Names : ~ Announces(t, n)'
      /\ \A u \in Threads \ {t} : call'[u] = call[u]
      /\ \A u \in Threads \ {t}, n \in Names : Announces(u, n)' <=> Announces(u, n)
  BY <1>1, CallEnds
<1>3. DOMAIN call[t].changes \in SUBSET Names
  BY <1>1, CallKinds, ChangesFacts DEF ParInv, PublishCall
<1>4. StoreTypes'
  BY <1>1, <1>3 DEF ParInv, StoreTypes
<1>5. MirrorKept'
  <2> SUFFICES ASSUME NEW n \in Names, n \notin unsure'
               PROVE  /\ \A v, u \in Threads : Announces(v, n)' /\ Announces(u, n)' => v = u
                      /\ \A v \in Threads : Announces(v, n)' => call'[v].changes[n] = Current(n)'
                      /\ (\A v \in Threads : ~ Announces(v, n)') => mirror'[n] = Current(n)'
    BY DEF MirrorKept
  <2>1. n \notin unsure /\ ~ Announces(t, n)
    BY <1>1 DEF Announces
  <2>2. /\ \A v, u \in Threads : Announces(v, n) /\ Announces(u, n) => v = u
        /\ \A v \in Threads : Announces(v, n) => call[v].changes[n] = Current(n)
        /\ (\A v \in Threads : ~ Announces(v, n)) => mirror[n] = Current(n)
    BY <2>1 DEF ParInv, MirrorKept
  <2>3. \A v \in Threads : Announces(v, n)' <=> Announces(v, n)
    BY <1>2, <2>1
  <2>4. \A v \in Threads : Announces(v, n) => call'[v] = call[v]
    BY <1>2, <2>1
  <2> QED BY <1>1, <1>2, <2>2, <2>3, <2>4
<1> QED BY <1>2, <1>4, <1>5 DEF ParInv

\* The callback is installed.
LEMMA OnSetParametersStep ==
    ASSUME ParInv, OnSetParameters
    PROVE  ParInv'
<1>1. callback' = TRUE /\ UNCHANGED <<store, overrides, call, mirror, declares, sets, unsure>>
  BY DEF OnSetParameters
<1>2. StoreTypes' /\ CallTypes' /\ StoreKept'
  BY <1>1 DEF ParInv, StoreTypes, CallTypes, StoreKept, Declared
<1>3. RequestsKept'
  BY <1>1 DEF ParInv, RequestsKept, GoneKnown, StillValid, Declared
<1>4. AnswersAreTrue'
  BY <1>1 DEF ParInv, AnswersAreTrue
<1>5. MirrorKept'
  BY <1>1 DEF ParInv, MirrorKept, Announces, Current, Declared
<1> QED BY <1>2, <1>3, <1>4, <1>5 DEF ParInv

\* A call is about to publish a change: its own record, and the others'.
LEMMA AnnounceFacts ==
    ASSUME NEW calls, NEW t \in Threads, NEW changes \in Changes, NEW request, NEW wrote,
           calls = [u \in Threads |-> calls[u]],
           \A u \in Threads : \/ calls[u] = Idle
                              \/ PublishCall(calls[u])
                              \/ RunningCall(calls[u]) /\ Asked(calls[u]),
           wrote \subseteq DOMAIN request.ok,
           Announce(t, changes, request, wrote, calls)
    PROVE  /\ CallTypes'
           /\ \A u \in Threads \ {t} : call'[u] = calls[u]
           /\ call'[t].pc = "publish" /\ call'[t].changes = changes /\ call'[t].wrote = wrote
           /\ call'[t].atomic = request.atomic /\ call'[t].params = request.params
           /\ call'[t].ok = request.ok /\ call'[t].gone = request.gone
<1> DEFINE x == [pc |-> "publish", changes |-> changes, wrote |-> wrote,
                 atomic |-> request.atomic, params |-> request.params,
                 ok |-> request.ok, gone |-> request.gone]
<1>1. call' = [calls EXCEPT ![t] = x]
  BY DEF Announce
<1>2. PublishCall(x)
  BY DEF PublishCall
<1>3. /\ x.pc = "publish" /\ x.changes = changes /\ x.wrote = wrote
      /\ x.atomic = request.atomic /\ x.params = request.params
      /\ x.ok = request.ok /\ x.gone = request.gone
  OBVIOUS
<1> HIDE DEF x
<1>4. call' = [u \in Threads |-> call'[u]]
  BY <1>1
<1>5. call'[t] = x /\ \A u \in Threads \ {t} : call'[u] = calls[u]
  BY <1>1
<1>6. CallTypes'
  BY <1>2, <1>4, <1>5 DEF CallTypes
<1> QED BY <1>3, <1>5, <1>6

\* A declaration the validation refuses only uses up the override.
LEMMA DeclareFails ==
    ASSUME ParInv, NEW n \in Names, overrides' = [overrides EXCEPT ![n] = NoValue],
           UNCHANGED <<store, declares, call, unsure, callback, mirror, sets>>
    PROVE  ParInv'
<1>1. StoreTypes' /\ CallTypes' /\ StoreKept'
  BY DEF ParInv, StoreTypes, CallTypes, StoreKept, Declared
<1>2. RequestsKept'
  BY DEF ParInv, RequestsKept, GoneKnown, StillValid, Declared
<1>3. AnswersAreTrue'
  BY DEF ParInv, AnswersAreTrue
<1>4. MirrorKept'
  BY DEF ParInv, MirrorKept, Announces, Current, Declared
<1> QED BY <1>1, <1>2, <1>3, <1>4 DEF ParInv

\* A declaration: the value is valid, and a request that was validated for an
\* earlier declaration of the name is one for a name declared anew.
LEMMA DeclareSucceeds ==
    ASSUME ParInv, NEW t \in Threads, NEW n \in Names, NEW value \in Values,
           NEW d \in Descriptors, call[t] = Idle, ~ Declared(n), declares[n] < MaxDeclares, ValidValue(value, d),
           store' = [store EXCEPT ![n] = [value |-> value, descriptor |-> d]],
           declares' = [declares EXCEPT ![n] = @ + 1],
           Announce(t, [m \in {n} |-> value], NoRequest, {}, call),
           overrides' = [overrides EXCEPT ![n] = NoValue],
           UNCHANGED <<callback, mirror, sets>>
    PROVE  ParInv'
<1> DEFINE f == [m \in {n} |-> value]
<1>1. f \in Changes /\ DOMAIN f = {n} /\ f[n] = value
  BY ChangesFacts
<1> HIDE DEF f
<1>2. /\ CallTypes'
      /\ \A u \in Threads \ {t} : call'[u] = call[u]
      /\ call'[t].pc = "publish" /\ call'[t].changes = f /\ call'[t].wrote = {}
      /\ call'[t].ok = <<>>
  BY <1>1, AnnounceFacts DEF ParInv, CallTypes, NoRequest, f
<1>3. unsure' = unsure \cup {m \in DOMAIN call'[t].changes : \E u \in Threads \ {t} : Announces(u, m)}
  BY <1>2 DEF Announce, Announces, f
<1>4. [value |-> value, descriptor |-> d] \in Entry /\ NoValue \notin Entry
  BY ParametersAssumption DEF Entry, Descriptors
<1>5. /\ store' \in [Names -> Entry \cup {NoValue}]
      /\ store'[n].value = value /\ store'[n].descriptor = d /\ store'[n] # NoValue
      /\ \A m \in Names \ {n} : store'[m] = store[m]
  BY <1>4 DEF ParInv, StoreTypes
<1>6. /\ declares' \in [Names -> 0 .. MaxDeclares] /\ declares'[n] = declares[n] + 1
      /\ \A m \in Names \ {n} : declares'[m] = declares[m]
      /\ declares[n] \in Nat
  BY ParametersAssumption DEF ParInv, StoreTypes
<1>7. unsure' \in SUBSET Names
  BY <1>1, <1>2, <1>3 DEF ParInv, StoreTypes
<1>8. StoreTypes'
  BY <1>5, <1>6, <1>7 DEF ParInv, StoreTypes
<1>9. StoreKept'
  BY <1>5, <1>6 DEF ParInv, StoreKept, Declared
<1>10. RequestsKept'
  <2> SUFFICES ASSUME NEW u \in Threads, call'[u].pc \in Running
               PROVE  GoneKnown(call[u])' /\ StillValid(call[u])'
    BY DEF RequestsKept
  <2>1. u # t /\ call'[u] = call[u]
    BY <1>2 DEF Running
  <2> DEFINE c == call[u]
  <2>2. RunningCall(c) /\ GoneKnown(c) /\ StillValid(c)
    BY <2>1, CallKinds DEF ParInv, RequestsKept
  <2>3. \A i \in DOMAIN c.ok : c.params[i].name \in Names
    BY <2>2, RequestFacts DEF RunningCall
  <2> HIDE DEF c
  <2>4. ASSUME NEW i \in DOMAIN c.ok, c.ok[i]
        PROVE  /\ store'[c.params[i].name] # NoValue \/ c.params[i].name \in c.gone
               /\ declares'[c.params[i].name] >= 1
               /\ store'[c.params[i].name] # NoValue /\ declares'[c.params[i].name] <= 1 =>
                     ValidValue(c.params[i].value, store'[c.params[i].name].descriptor)
    <3> DEFINE m == c.params[i].name
    <3>1. m \in Names
      BY <2>3
    <3>2. /\ Declared(m) \/ m \in c.gone
          /\ declares[m] >= 1
          /\ Declared(m) /\ declares[m] <= 1 => ValidValue(c.params[i].value, store[m].descriptor)
      BY <2>2, <2>4 DEF GoneKnown, StillValid
    <3> HIDE DEF m
    <3>3. CASE m = n
      <4>1. declares'[m] >= 2
        BY <1>6, <3>2, <3>3
      <4>2. declares'[m] \in Nat
        BY <1>6, <3>3
      <4> QED BY <1>5, <3>3, <4>1, <4>2 DEF m
    <3>4. CASE m # n
      BY <1>5, <1>6, <3>1, <3>2, <3>4 DEF Declared, m
    <3> QED BY <3>3, <3>4
  <2>5. call'[u] = c
    BY <2>1 DEF c
  <2> QED BY <2>4, <2>5 DEF GoneKnown, StillValid, Declared
<1>11. AnswersAreTrue'
  <2> SUFFICES ASSUME NEW u \in Threads, call'[u].pc = "publish"
               PROVE  Truthful(call'[u])
    BY DEF AnswersAreTrue
  <2>1. CASE u = t
    <3>1. DOMAIN call'[t].ok = {}
      BY <1>2
    <3> QED BY <1>2, <2>1, <3>1 DEF Truthful
  <2>2. CASE u # t
    BY <1>2, <2>2 DEF ParInv, AnswersAreTrue
  <2> QED BY <2>1, <2>2
<1>12. MirrorKept'
  <2>1. call[t].pc # "publish" /\ MirrorKept
    BY DEF Idle, ParInv
  <2>2. \A m \in Names \ DOMAIN call'[t].changes : Current(m)' = Current(m)
    BY <1>1, <1>2, <1>5 DEF Current, Declared
  <2>3. \A m \in DOMAIN call'[t].changes : call'[t].changes[m] = Current(m)'
    BY <1>1, <1>2, <1>5 DEF Current, Declared
  <2> QED BY <1>2, <1>3, <2>1, <2>2, <2>3, AnnounceMirror
<1> QED BY <1>2, <1>8, <1>9, <1>10, <1>11, <1>12 DEF ParInv

\* The initial value is the override's or the default, with its descriptor.
LEMMA DeclareStep ==
    ASSUME ParInv, NEW t \in Threads, NEW e \in Declarations,
           Declare(t, e.name, e.default, e.descriptor)
    PROVE  ParInv'
<1> DEFINE n == e.name
           initial == Initial(n, e.default)
           d == DescriptorOf(initial, e.descriptor)
<1>1. n \in Names /\ e.default \in Values
  BY ParametersAssumption
<1>2. initial \in Values
  BY <1>1 DEF Initial, ParInv, StoreTypes
<1>3. d \in Descriptors
  BY <1>2 DEF Descriptors
<1>4. /\ call[t] = Idle /\ ~ Declared(n) /\ declares[n] < MaxDeclares
      /\ overrides' = [overrides EXCEPT ![n] = NoValue]
      /\ UNCHANGED <<callback, mirror, sets>>
  BY DEF Declare
<1>5. IF ValidValue(initial, d)
      THEN /\ store' = [store EXCEPT ![n] = [value |-> initial, descriptor |-> d]]
           /\ declares' = [declares EXCEPT ![n] = @ + 1]
           /\ Announce(t, [m \in {n} |-> initial], NoRequest, {}, call)
      ELSE UNCHANGED <<store, declares, call, unsure>>
  BY DEF Declare
<1> HIDE DEF n, initial, d
<1>6. CASE ValidValue(initial, d)
  <2>1. /\ store' = [store EXCEPT ![n] = [value |-> initial, descriptor |-> d]]
        /\ declares' = [declares EXCEPT ![n] = @ + 1]
        /\ Announce(t, [m \in {n} |-> initial], NoRequest, {}, call)
    BY <1>5, <1>6, Zenon
  <2> QED BY <1>1, <1>2, <1>3, <1>4, <1>6, <2>1, DeclareSucceeds, Zenon
<1>7. CASE ~ ValidValue(initial, d)
  BY <1>1, <1>4, <1>5, <1>7, DeclareFails
<1> QED BY <1>6, <1>7

\* A removal: every request under way knows that the name is gone.
LEMMA UndeclareStep ==
    ASSUME ParInv, NEW t \in Threads, NEW n \in Names, Undeclare(t, n)
    PROVE  ParInv'
<1> DEFINE f == [m \in {n} |-> NoValue]
           Noted(c) == IF c.pc \in Running THEN [c EXCEPT !.gone = @ \cup {n}] ELSE c
           noted == [u \in Threads |-> Noted(call[u])]
<1>1. /\ call[t] = Idle /\ Declared(n) /\ store' = [store EXCEPT ![n] = NoValue]
      /\ Announce(t, f, NoRequest, {}, noted)
      /\ UNCHANGED <<overrides, callback, mirror, declares, sets>>
  BY DEF Undeclare, Running
<1>2. f \in Changes /\ DOMAIN f = {n} /\ f[n] = NoValue
  BY ChangesFacts
<1>3. ASSUME NEW c, c.pc \in Running, RunningCall(c), Asked(c)
      PROVE  /\ RunningCall(Noted(c)) /\ Asked(Noted(c))
             /\ Noted(c).pc = c.pc /\ Noted(c).ok = c.ok /\ Noted(c).params = c.params
             /\ Noted(c).gone = c.gone \cup {n}
  <2>1. Noted(c) = [c EXCEPT !.gone = @ \cup {n}]
    BY <1>3
  <2> HIDE DEF Noted
  <2>2. /\ Noted(c) = [pc |-> Noted(c).pc, atomic |-> Noted(c).atomic, params |-> Noted(c).params,
                       next |-> Noted(c).next, ok |-> Noted(c).ok, gone |-> Noted(c).gone]
        /\ Noted(c).pc = c.pc /\ Noted(c).ok = c.ok /\ Noted(c).params = c.params
        /\ Noted(c).gone = c.gone \cup {n} /\ Noted(c).atomic = c.atomic /\ Noted(c).next = c.next
    BY <1>3, <2>1 DEF RunningCall
  <2>3. RunningCall(Noted(c))
    BY <1>3, <2>2 DEF RunningCall
  <2>4. Asked(Noted(c))
    BY <1>3, <2>2 DEF Asked, AllOk
  <2> QED BY <2>2, <2>3, <2>4
<1>4. \A c : c.pc \notin Running => Noted(c) = c
  OBVIOUS
<1>5. noted = [u \in Threads |-> noted[u]] /\ \A u \in Threads : noted[u] = Noted(call[u])
  OBVIOUS
<1> HIDE DEF f, Noted, noted
<1>6. \A u \in Threads : \/ noted[u] = Idle
                         \/ PublishCall(noted[u])
                         \/ RunningCall(noted[u]) /\ Asked(noted[u])
  <2> TAKE u \in Threads
  <2>1. CASE call[u].pc \in Running
    BY <1>3, <1>5, <2>1, CallKinds DEF ParInv
  <2>2. CASE call[u].pc \notin Running
    BY <1>4, <1>5, <2>2, CallKinds DEF ParInv
  <2> QED BY <2>1, <2>2
<1>7. /\ CallTypes'
      /\ \A u \in Threads \ {t} : call'[u] = noted[u]
      /\ call'[t].pc = "publish" /\ call'[t].changes = f /\ call'[t].wrote = {}
      /\ call'[t].ok = <<>>
  BY <1>1, <1>2, <1>5, <1>6, AnnounceFacts DEF NoRequest
<1>8. \A u \in Threads : \/ call[u].pc \notin Running /\ noted[u] = call[u]
                         \/ call[u].pc \in Running /\ noted[u].pc = call[u].pc
  BY <1>3, <1>4, <1>5, CallKinds DEF ParInv
<1>9. unsure' = unsure \cup {m \in DOMAIN call'[t].changes : \E u \in Threads \ {t} : Announces(u, m)}
  <2>1. unsure' = unsure \cup {m \in DOMAIN f : \E u \in Threads \ {t} :
                                 noted[u].pc = "publish" /\ m \in DOMAIN noted[u].changes}
    BY <1>1 DEF Announce
  <2>2. \A u \in Threads, m \in Names :
           noted[u].pc = "publish" /\ m \in DOMAIN noted[u].changes <=> Announces(u, m)
    BY <1>8 DEF Announces, Running
  <2> QED BY <1>2, <1>7, <2>1, <2>2
<1>10. /\ store' \in [Names -> Entry \cup {NoValue}] /\ store'[n] = NoValue
       /\ \A m \in Names \ {n} : store'[m] = store[m]
  BY <1>1 DEF ParInv, StoreTypes
<1>11. unsure' \in SUBSET Names
  BY <1>2, <1>7, <1>9 DEF ParInv, StoreTypes
<1>12. StoreTypes'
  BY <1>1, <1>10, <1>11 DEF ParInv, StoreTypes
<1>13. StoreKept'
  BY <1>1, <1>10 DEF ParInv, StoreKept, Declared
<1>14. RequestsKept'
  <2> SUFFICES ASSUME NEW u \in Threads, call'[u].pc \in Running
               PROVE  GoneKnown(call[u])' /\ StillValid(call[u])'
    BY DEF RequestsKept
  <2> DEFINE c == call[u]
  <2>1. u # t /\ call'[u] = Noted(c) /\ c.pc \in Running
    BY <1>5, <1>7, <1>8 DEF Running
  <2>2. RunningCall(c) /\ Asked(c) /\ GoneKnown(c) /\ StillValid(c)
    BY <2>1, CallKinds DEF ParInv, RequestsKept
  <2>3. \A i \in DOMAIN c.ok : c.params[i].name \in Names
    BY <2>2, RequestFacts DEF RunningCall
  <2> HIDE DEF c
  <2>4. call'[u].ok = c.ok /\ call'[u].params = c.params /\ call'[u].gone = c.gone \cup {n}
    BY <1>3, <2>1, <2>2
  <2>5. GoneKnown(call[u])'
    BY <1>10, <2>2, <2>3, <2>4 DEF GoneKnown, Declared
  <2>6. StillValid(call[u])'
    BY <1>1, <1>10, <2>2, <2>3, <2>4 DEF StillValid, Declared
  <2> QED BY <2>5, <2>6
<1>15. AnswersAreTrue'
  <2> SUFFICES ASSUME NEW u \in Threads, call'[u].pc = "publish"
               PROVE  Truthful(call'[u])
    BY DEF AnswersAreTrue
  <2>1. CASE u = t
    <3>1. DOMAIN call'[t].ok = {}
      BY <1>7
    <3> QED BY <1>7, <2>1, <3>1 DEF Truthful
  <2>2. CASE u # t
    <3>1. call'[u] = call[u]
      BY <1>7, <1>8, <2>2 DEF Running
    <3> QED BY <3>1 DEF ParInv, AnswersAreTrue
  <2> QED BY <2>1, <2>2
<1>16. MirrorKept'
  <2>1. call[t].pc # "publish" /\ MirrorKept /\ mirror' = mirror
    BY <1>1 DEF Idle, ParInv
  <2>2. \A m \in Names \ DOMAIN call'[t].changes : Current(m)' = Current(m)
    BY <1>2, <1>7, <1>10 DEF Current, Declared
  <2>3. \A m \in DOMAIN call'[t].changes : call'[t].changes[m] = Current(m)'
    BY <1>2, <1>7, <1>10 DEF Current, Declared
  <2>4. \A u \in Threads \ {t} : \/ call'[u] = call[u]
                                 \/ call'[u].pc # "publish" /\ call[u].pc # "publish"
    BY <1>7, <1>8 DEF Running
  <2> QED BY <1>7, <1>9, <2>1, <2>2, <2>3, <2>4, AnnounceMirror
<1> QED BY <1>7, <1>12, <1>13, <1>14, <1>15, <1>16 DEF ParInv

\* The write-locked section: what is stored was validated against the descriptor
\* it is stored under, and what is reported as set was written or is known gone.
LEMMA ApplyStep ==
    ASSUME ParInv, NEW t \in Threads, Apply(t)
    PROVE  ParInv'
<1> DEFINE c == call[t]
           value == [n \in Touched(c) |-> c.params[LastWrite(c, n)].value]
<1>1. /\ c.pc = "apply"
      /\ store' = [n \in Names |-> IF n \in Touched(c) THEN [store[n] EXCEPT !.value = value[n]]
                                   ELSE store[n]]
      /\ Announce(t, value, c, Written(c), call)
      /\ UNCHANGED <<overrides, callback, mirror, declares, sets>>
  BY DEF Apply
<1>2. RunningCall(c) /\ GoneKnown(c) /\ StillValid(c)
  BY <1>1, CallKinds DEF ParInv, RequestsKept, Running
<1>3. c.params \in Requests /\ c.ok \in [1 .. Len(c.params) -> BOOLEAN] /\ c.atomic \in BOOLEAN
  BY <1>2 DEF RunningCall
<1> HIDE DEF c
<1>4. /\ Written(c) \subseteq 1 .. Len(c.params)
      /\ \A i \in Written(c) : c.ok[i] /\ Declared(c.params[i].name)
      /\ \A i \in 1 .. Len(c.params) : c.params[i].name \in Names /\ c.params[i].value \in Values
      /\ Touched(c) \subseteq Names
      /\ \A n \in Touched(c) : LastWrite(c, n) \in Written(c) /\ c.params[LastWrite(c, n)].name = n
  BY <1>2, WriteFacts
<1>5. \A n \in Touched(c) : /\ value[n] \in Values /\ Declared(n)
                            /\ declares[n] <= 1 => ValidValue(value[n], store[n].descriptor)
  <2> TAKE n \in Touched(c)
  <2> DEFINE i == LastWrite(c, n)
  <2>1. i \in Written(c) /\ c.params[i].name = n
    BY <1>4
  <2>2. value[n] = c.params[i].value
    OBVIOUS
  <2> HIDE DEF i, value
  <2>3. i \in DOMAIN c.ok /\ c.ok[i] /\ Declared(n) /\ c.params[i].value \in Values
    BY <1>3, <1>4, <2>1
  <2>4. declares[n] <= 1 => ValidValue(c.params[i].value, store[n].descriptor)
    BY <1>2, <2>1, <2>3 DEF StillValid
  <2> QED BY <2>2, <2>3, <2>4
<1>6. DOMAIN value = Touched(c) /\ value \in [Touched(c) -> Values \cup {NoValue}]
  BY <1>5
<1>7. value \in Changes
  BY <1>4, <1>6, ChangesFacts
<1> HIDE DEF value
<1>8. /\ CallTypes'
      /\ \A u \in Threads \ {t} : call'[u] = call[u]
      /\ call'[t].pc = "publish" /\ call'[t].changes = value /\ call'[t].wrote = Written(c)
      /\ call'[t].atomic = c.atomic /\ call'[t].params = c.params
      /\ call'[t].ok = c.ok /\ call'[t].gone = c.gone
  <2>1. Written(c) \subseteq DOMAIN c.ok
    BY <1>3, <1>4
  <2>2. /\ call = [u \in Threads |-> call[u]]
        /\ \A u \in Threads : \/ call[u] = Idle
                              \/ PublishCall(call[u])
                              \/ RunningCall(call[u]) /\ Asked(call[u])
    BY DEF ParInv, CallTypes
  <2> QED BY <1>1, <1>7, <2>1, <2>2, AnnounceFacts
<1>9. unsure' = unsure \cup {m \in DOMAIN call'[t].changes : \E u \in Threads \ {t} : Announces(u, m)}
  BY <1>1, <1>8 DEF Announce, Announces
<1>10. ASSUME NEW n \in Names
       PROVE  /\ store'[n] \in Entry \cup {NoValue}
              /\ store'[n] # NoValue <=> Declared(n)
              /\ n \in Touched(c) => store'[n].value = value[n]
              /\ n \notin Touched(c) => store'[n] = store[n]
              /\ Declared(n) => store'[n].descriptor = store[n].descriptor
  <2>1. store[n] \in Entry \cup {NoValue} /\ NoValue \notin Entry
    BY ParametersAssumption DEF ParInv, StoreTypes
  <2>2. CASE n \in Touched(c)
    <3>1. store[n] \in Entry /\ value[n] \in Values
      BY <1>5, <2>1, <2>2 DEF Declared
    <3>2. store'[n] = [store[n] EXCEPT !.value = value[n]]
      BY <1>1, <2>2
    <3>3. /\ store'[n] \in Entry /\ store'[n].value = value[n]
          /\ store'[n].descriptor = store[n].descriptor
      BY <3>1, <3>2 DEF Entry
    <3> QED BY <1>5, <2>1, <2>2, <3>3
  <2>3. CASE n \notin Touched(c)
    <3>1. store'[n] = store[n]
      BY <1>1, <2>3
    <3> QED BY <2>1, <2>3, <3>1 DEF Declared
  <2> QED BY <2>2, <2>3
<1>11. store' \in [Names -> Entry \cup {NoValue}]
  BY <1>1, <1>10
<1>12. unsure' \in SUBSET Names
  BY <1>4, <1>6, <1>8, <1>9 DEF ParInv, StoreTypes
<1>13. StoreTypes'
  BY <1>1, <1>11, <1>12 DEF ParInv, StoreTypes
<1>14. StoreKept'
  <2> SUFFICES ASSUME NEW n \in Names, store'[n] # NoValue
               PROVE  /\ declares[n] >= 1
                      /\ declares[n] <= 1 => ValidValue(store'[n].value, store'[n].descriptor)
    BY <1>1 DEF StoreKept, Declared
  <2>1. Declared(n) /\ store'[n].descriptor = store[n].descriptor
    BY <1>10
  <2>2. declares[n] >= 1 /\ (declares[n] <= 1 => ValidValue(store[n].value, store[n].descriptor))
    BY <2>1 DEF ParInv, StoreKept
  <2>3. CASE n \in Touched(c)
    BY <1>5, <1>10, <2>1, <2>2, <2>3
  <2>4. CASE n \notin Touched(c)
    BY <1>10, <2>2, <2>4
  <2> QED BY <2>3, <2>4
<1>15. RequestsKept'
  <2> SUFFICES ASSUME NEW u \in Threads, call'[u].pc \in Running
               PROVE  GoneKnown(call[u])' /\ StillValid(call[u])'
    BY DEF RequestsKept
  <2>1. u # t /\ call'[u] = call[u]
    BY <1>8 DEF Running
  <2> DEFINE b == call[u]
  <2>2. RunningCall(b) /\ GoneKnown(b) /\ StillValid(b)
    BY <2>1, CallKinds DEF ParInv, RequestsKept
  <2>3. \A i \in DOMAIN b.ok : b.params[i].name \in Names
    BY <2>2, RequestFacts DEF RunningCall
  <2>4. call'[u] = b
    BY <2>1
  <2> HIDE DEF b
  <2>5. GoneKnown(call[u])'
    BY <1>10, <2>2, <2>3, <2>4 DEF GoneKnown, Declared
  <2>6. StillValid(call[u])'
    BY <1>1, <1>10, <2>2, <2>3, <2>4 DEF StillValid, Declared
  <2> QED BY <2>5, <2>6
<1>16. AnswersAreTrue'
  <2> SUFFICES ASSUME NEW u \in Threads, call'[u].pc = "publish"
               PROVE  Truthful(call'[u])
    BY DEF AnswersAreTrue
  <2>1. CASE u = t
    <3>1. \A i \in Written(c) : c.ok[i]
      BY <1>4
    <3>2. c.atomic /\ ~ AllOk(c) => Written(c) = {}
      BY DEF Written
    <3>3. ASSUME NEW i \in DOMAIN c.ok, c.ok[i], c.params[i].name \notin c.gone,
                 c.atomic => AllOk(c)
          PROVE  i \in Written(c)
      <4>1. Declared(c.params[i].name)
        BY <1>2, <3>3 DEF GoneKnown
      <4> QED BY <4>1, <3>3 DEF Written
    <3>4. AllOk(c) <=> AllOk(call'[t])
      BY <1>8 DEF AllOk
    <3>5. Written(c) \subseteq DOMAIN c.ok
      BY <1>3, <1>4
    <3>6. Truthful(call'[t])
      BY <1>8, <3>1, <3>2, <3>3, <3>4, <3>5 DEF Truthful, AllOk
    <3> QED BY <2>1, <3>6
  <2>2. CASE u # t
    BY <1>8, <2>2 DEF ParInv, AnswersAreTrue
  <2> QED BY <2>1, <2>2
<1>17. MirrorKept'
  <2>1. call[t].pc # "publish" /\ MirrorKept /\ mirror' = mirror
    BY <1>1 DEF c, ParInv
  <2>2. \A m \in Names \ DOMAIN call'[t].changes : Current(m)' = Current(m)
    BY <1>6, <1>8, <1>10 DEF Current, Declared
  <2>3. \A m \in DOMAIN call'[t].changes : call'[t].changes[m] = Current(m)'
    BY <1>4, <1>5, <1>6, <1>8, <1>10 DEF Current, Declared
  <2> QED BY <1>8, <1>9, <2>1, <2>2, <2>3, AnnounceMirror
<1> QED BY <1>8, <1>13, <1>14, <1>15, <1>16, <1>17 DEF ParInv

-----------------------------------------------------------------------------
(* The theorems.                                                           *)

LEMMA InitParInv ==
    ASSUME Init
    PROVE  ParInv
<1>1. \A t \in Threads : call[t] = Idle /\ call[t].pc = "idle"
  BY DEF Init, Idle
<1>2. \A n \in Names : ~ Declared(n)
  BY DEF Init, Declared
<1>3. StoreTypes
  <2>1. /\ store \in [Names -> Entry \cup {NoValue}] /\ mirror \in [Names -> Values \cup {NoValue}]
        /\ overrides \in [Names -> Values \cup {NoValue}]
    BY ParametersAssumption DEF Init
  <2>2. declares \in [Names -> 0 .. MaxDeclares] /\ sets \in 0 .. MaxSets
    BY ParametersAssumption DEF Init
  <2>3. callback \in BOOLEAN /\ unsure \in SUBSET Names
    BY DEF Init
  <2> QED BY <2>1, <2>2, <2>3 DEF StoreTypes
<1>4. CallTypes
  BY <1>1 DEF Init, CallTypes
<1>5. RequestsKept /\ AnswersAreTrue
  BY <1>1 DEF RequestsKept, AnswersAreTrue, Running
<1>6. StoreKept
  BY <1>2 DEF StoreKept
<1>7. MirrorKept
  BY <1>1, <1>2 DEF Init, MirrorKept, Announces, Current
<1> QED BY <1>3, <1>4, <1>5, <1>6, <1>7 DEF ParInv

\* The invariant holds in every state: whatever calls, callbacks and
\* publications interleave with the two critical sections of validate_and_apply.
THEOREM ParInvCorrect == Spec => []ParInv
<1>1. Init => ParInv
  BY InitParInv
<1>2. ParInv /\ [Next]_vars => ParInv'
  <2> SUFFICES ASSUME ParInv, [Next]_vars PROVE ParInv'
    OBVIOUS
  <2>1. CASE UNCHANGED vars
    BY <2>1 DEF vars, ParInv, StoreTypes, CallTypes, RequestsKept, GoneKnown, StillValid,
         StoreKept, AnswersAreTrue, MirrorKept, Announces, Current, Declared
  <2>2. CASE OnSetParameters
    BY <2>2, OnSetParametersStep
  <2>3. ASSUME NEW t \in Threads, NEW d \in Declarations, Declare(t, d.name, d.default, d.descriptor)
        PROVE  ParInv'
    BY <2>3, DeclareStep
  <2>4. ASSUME NEW t \in Threads, NEW n \in Names, Undeclare(t, n) PROVE ParInv'
    BY <2>4, UndeclareStep
  <2>5. ASSUME NEW t \in Threads, NEW params \in Requests, NEW atomic \in BOOLEAN,
               Validate(t, params, atomic)
        PROVE  ParInv'
    BY <2>5, ValidateStep
  <2>6. ASSUME NEW t \in Threads, NEW accepts \in BOOLEAN, CallbackReturns(t, accepts)
        PROVE  ParInv'
    BY <2>6, CallbackReturnsStep
  <2>7. ASSUME NEW t \in Threads,
               ReadCallback(t) \/ CallbackPanics(t) \/ Apply(t) \/ PublishChanges(t) \/ PublishFails(t)
        PROVE  ParInv'
    BY <2>7, ReadCallbackStep, CallbackPanicsStep, ApplyStep, PublishChangesStep, PublishFailsStep
  <2> QED BY <2>1, <2>2, <2>3, <2>4, <2>5, <2>6, <2>7 DEF Next
<1> QED BY <1>1, <1>2, PTL DEF Spec

\* Whatever runs between the validation of a set request and its application, the
\* store never holds a value that the descriptor of its name does not allow: of
\* another type, out of the range or off its step grid. (Of a name declared once:
\* one declared anew meanwhile may get a value validated for its old descriptor.)
THEOREM StoreIsValidCorrect == Spec => []StoreIsValid
<1>1. ParInv => StoreIsValid
  <2> SUFFICES ASSUME ParInv PROVE StoreIsValid
    OBVIOUS
  <2>1. \A t \in Threads :
          \/ call[t] = Idle
          \/ /\ call[t].pc = "publish"
             /\ call[t].changes \in Changes
             /\ call[t].wrote \subseteq DOMAIN call[t].ok
          \/ /\ call[t].pc \in {"validated", "inside", "apply"}
             /\ call[t].params \in Requests
             /\ call[t].ok \in [1 .. Len(call[t].params) -> BOOLEAN]
             /\ call[t].gone \subseteq Names
             /\ call[t].pc = "inside" /\ ~ call[t].atomic =>
                   /\ call[t].next \in 1 .. Len(call[t].params)
                   /\ call[t].ok[call[t].next]
    <3> TAKE t \in Threads
    <3>1. CASE PublishCall(call[t])
      BY <3>1 DEF PublishCall
    <3>2. CASE RunningCall(call[t]) /\ Asked(call[t])
      BY <3>2 DEF RunningCall, Asked, Running
    <3> QED BY <3>1, <3>2 DEF ParInv, CallTypes
  <2>2. TypeOK
    BY <2>1 DEF ParInv, StoreTypes, TypeOK
  <2>3. ASSUME NEW n \in Names, Declared(n), declares[n] <= 1
        PROVE  Allowed(store[n].value, store[n].descriptor)
    <3>1. store[n] \in Entry
      BY <2>3 DEF ParInv, StoreTypes, Declared
    <3>2. store[n].value \in Values /\ store[n].descriptor \in Descriptors
      BY <3>1 DEF Entry, Descriptors
    <3>3. ValidValue(store[n].value, store[n].descriptor)
      BY <2>3 DEF ParInv, StoreKept
    <3> QED BY <3>2, <3>3, ValidIsAllowed
  <2> QED BY <2>2, <2>3 DEF StoreIsValid
<1> QED BY <1>1, ParInvCorrect, PTL

\* The results of a set request are the truth, as long as none of its names is
\* undeclared while its callback runs: what is reported as set was written, all of
\* an atomic request; and whatever runs meanwhile, a refused parameter was not
\* written, and nothing of a refused atomic request was.
THEOREM AnswersAreTrueCorrect == Spec => []AnswersAreTrue
<1>1. ParInv => AnswersAreTrue
  BY DEF ParInv
<1> QED BY <1>1, ParInvCorrect, PTL

\* When no call is under way, a listener of /parameter_events knows the store's
\* value of every name whose events were neither lost nor reordered.
THEOREM MirrorFollowsCorrect == Spec => []MirrorFollows
<1>1. ParInv => MirrorFollows
  <2> SUFFICES ASSUME ParInv, \A t \in Threads : call[t] = Idle, NEW n \in Names \ unsure
               PROVE  mirror[n] = IF Declared(n) THEN store[n].value ELSE NoValue
    BY DEF MirrorFollows
  <2>1. \A t \in Threads : ~ Announces(t, n)
    BY DEF Announces, Idle
  <2> QED BY <2>1 DEF ParInv, MirrorKept, Current
<1> QED BY <1>1, ParInvCorrect, PTL
=============================================================================
