---------------------------- MODULE EventsProofs ----------------------------
(***************************************************************************)
(* Proofs about Events, for any publishers, sequence numbers, deliveries   *)
(* and callbacks: the loss counted is exactly what was passed over, no     *)
(* loss goes unheard, and every message is announced once. The second half *)
(* is about Discovery, where the matched events come from.                 *)
(***************************************************************************)
EXTENDS Events, Discovery, TLAPS, FiniteSetTheorems, SequenceTheorems, WellFoundedInduction

\* The definitions of the properties, as functions of the history they read.
PassedIn(a) ==
    {n \in 1 .. MaxSn : \E i \in DOMAIN a :
        /\ a[1] < n /\ n < a[i]
        /\ \A j \in 1 .. i : a[j] # n}
AllPassedIn(A) == UNION {{p} \X PassedIn(A[p]) : p \in Publishers}
Cells(A) == UNION {{p} \X DOMAIN A[p] : p \in Publishers}

\* Threads that handle a sample they have not pushed yet, and threads about to
\* notify.
Handling == {p \in Publishers : pc[p] \in {"lossy", "calling", "calling null", "push"}}
Notifying == {p \in Publishers : pc[p] = "notify"}

\* What the queue, the histories and the counts are made of.
Shape ==
    /\ queue \in Seq(Losses)
    /\ arrived \in [Publishers -> Seq(1 .. MaxSn)]
    /\ recorded \subseteq Losses
    /\ pushed \in Nat /\ announced \in Nat
    /\ IsFiniteSet(Cells(arrived))

\* Every sample that arrived is being handled or was pushed.
Accounted ==
    /\ pushed + Cardinality(Handling) = Arrivals /\ Arrivals <= MaxArrivals
    /\ \A p \in Handling : arrived[p] # <<>>

\* a was seen up to its largest number, top, or not at all.
SeenUpTo(a, top) ==
    /\ top = 0 <=> a = <<>>
    /\ \A i \in 1 .. Len(a) : a[i] <= top
    /\ a # <<>> => \E i \in 1 .. Len(a) : a[i] = top

\* The tracker keeps the largest number of each publisher.
Tracked == \A p \in Publishers : SeenUpTo(arrived[p], lastSeen[p])

\* A thread reports losses of its own publisher, and none twice.
OwnLoss ==
    \A p \in Publishers :
        /\ lost[p] \subseteq {p} \X (1 .. MaxSn)
        /\ pc[p] = "lossy" => lost[p] \cap recorded = {}

\* What is counted, as LossIsExact says it.
Exact ==
    /\ recorded \cup BeingRecorded = AllPassedOver
    /\ Cardinality(AllPassedOver) <= MaxInt => total = Cardinality(recorded)

\* A loss recorded was heard, is about to be, or waits for a callback.
Heard ==
    /\ recorded \subseteq heard \cup firing \cup BeingCalled \cup taken \cup swallowed \cup unread
    /\ NothingUnheard

\* The inductive invariant.
EInv ==
    /\ TypeOK /\ Shape /\ Accounted /\ Tracked /\ OwnLoss /\ Exact /\ Heard
    /\ MessagesAnnounced

-----------------------------------------------------------------------------
\* The definitions above are those of the properties.
LEMMA Same ==
    /\ AllPassedOver = AllPassedIn(arrived) /\ Arrivals = Cardinality(Cells(arrived))
  BY DEF AllPassedOver, AllPassedIn, PassedOver, PassedIn, Arrivals, Cells

\* Membership in what was passed over, and in the cells.
LEMMA PassedMembers ==
    ASSUME NEW A
    PROVE  /\ \A x : x \in AllPassedIn(A) <=>
                       \E p \in Publishers : \E m \in PassedIn(A[p]) : x = <<p, m>>
           /\ \A x : x \in Cells(A) <=>
                       \E p \in Publishers : \E i \in DOMAIN A[p] : x = <<p, i>>
           /\ AllPassedIn(A) \subseteq Losses
<1>1. \A x : x \in AllPassedIn(A) <=>
               \E p \in Publishers : \E m \in PassedIn(A[p]) : x = <<p, m>>
  BY DEF AllPassedIn
<1>2. \A x : x \in Cells(A) <=> \E p \in Publishers : \E i \in DOMAIN A[p] : x = <<p, i>>
  BY DEF Cells
<1>3. \A p : PassedIn(A[p]) \subseteq 1 .. MaxSn
  BY DEF PassedIn
<1>4. AllPassedIn(A) \subseteq Losses
  <2> SUFFICES ASSUME NEW x \in AllPassedIn(A) PROVE x \in Losses
    OBVIOUS
  <2>1. PICK p \in Publishers : \E m \in PassedIn(A[p]) : x = <<p, m>>
    BY <1>1
  <2> QED BY <1>3, <2>1 DEF Losses
<1> QED BY <1>1, <1>2, <1>4

\* What a new arrival passes over: the numbers between the largest one seen and
\* it. An old or repeated number passes over nothing.
LEMMA PassedAppend ==
    ASSUME NEW a \in Seq(1 .. MaxSn), NEW top \in 0 .. MaxSn, SeenUpTo(a, top),
           NEW n \in 1 .. MaxSn
    PROVE  /\ PassedIn(Append(a, n)) =
                 PassedIn(a) \cup (IF top = 0 THEN {} ELSE (top + 1) .. (n - 1))
           /\ SeenUpTo(Append(a, n), IF n > top THEN n ELSE top)
           /\ \A m \in PassedIn(a) : m < top
<1> DEFINE b == Append(a, n)
<1>1. /\ b \in Seq(1 .. MaxSn) /\ Len(b) = Len(a) + 1 /\ Len(a) \in Nat
      /\ \A i \in 1 .. Len(a) : b[i] = a[i] /\ a[i] \in 1 .. MaxSn
      /\ b[Len(a) + 1] = n /\ DOMAIN b = 1 .. Len(a) + 1 /\ DOMAIN a = 1 .. Len(a)
      /\ a = <<>> <=> Len(a) = 0
  <2> DEFINE S == 1 .. MaxSn
  <2>1. a \in Seq(S) /\ n \in S
    OBVIOUS
  <2> HIDE DEF S
  <2>2. /\ b \in Seq(S) /\ Len(b) = Len(a) + 1 /\ Len(a) \in Nat
        /\ \A i \in 1 .. Len(a) : b[i] = a[i] /\ a[i] \in S
        /\ b[Len(a) + 1] = n /\ DOMAIN b = 1 .. Len(a) + 1 /\ DOMAIN a = 1 .. Len(a)
        /\ a = <<>> <=> Len(a) = 0
    BY <2>1
  <2> QED BY <2>2 DEF S
<1>m. MaxSn \in Nat
  BY EventsAssumption
<1> HIDE DEF b
<1>2. SeenUpTo(b, IF n > top THEN n ELSE top)
  <2>1. b # <<>>
    BY <1>1
  <2>2. \A i \in 1 .. Len(b) : b[i] <= IF n > top THEN n ELSE top
    <3> TAKE i \in 1 .. Len(b)
    <3>1. i \in 1 .. Len(a) \/ i = Len(a) + 1
      BY <1>1
    <3>2. CASE i \in 1 .. Len(a)
      <4>1. b[i] = a[i] /\ a[i] <= top /\ a[i] \in Nat
        BY <1>1, <3>2 DEF SeenUpTo
      <4> QED BY <1>m, <4>1
    <3>3. CASE i = Len(a) + 1
      BY <1>1, <1>m, <3>3
    <3> QED BY <3>1, <3>2, <3>3
  <2>3. \E i \in 1 .. Len(b) : b[i] = IF n > top THEN n ELSE top
    <3>1. CASE n > top \/ a = <<>>
      <4>1. n > top
        BY <1>m, <3>1 DEF SeenUpTo
      <4>2. Len(a) + 1 \in 1 .. Len(b)
        BY <1>1
      <4> QED BY <1>1, <4>1, <4>2
    <3>2. CASE ~(n > top) /\ a # <<>>
      BY <1>1, <3>2 DEF SeenUpTo
    <3> QED BY <3>1, <3>2
  <2> QED BY <1>m, <2>1, <2>2, <2>3 DEF SeenUpTo
<1>3. \A m \in PassedIn(a) : m < top
  BY <1>1, <1>m DEF PassedIn, SeenUpTo
<1>4. CASE top = 0
  <2>1. Len(a) = 0 /\ DOMAIN b = {1} /\ b[1] = n
    BY <1>1, <1>4 DEF SeenUpTo
  <2>2. PassedIn(b) = {} /\ PassedIn(a) = {}
    BY <1>1, <1>m, <2>1 DEF PassedIn
  <2> QED BY <1>2, <1>3, <1>4, <2>2 DEF b
<1>5. CASE top # 0
  <2>1. Len(a) >= 1 /\ b[1] = a[1]
    BY <1>1, <1>5 DEF SeenUpTo
  <2>2. PICK k \in 1 .. Len(a) : a[k] = top
    BY <1>1, <1>5 DEF SeenUpTo
  <2>3. ASSUME NEW m \in PassedIn(a) PROVE m \in PassedIn(b)
    BY <1>1, <2>1 DEF PassedIn
  <2>4. ASSUME NEW m \in (top + 1) .. (n - 1) PROVE m \in PassedIn(b)
    <3>1. m \in 1 .. MaxSn /\ m < n /\ \A i \in 1 .. Len(a) : a[i] < m
      BY <1>1, <1>m DEF SeenUpTo
    <3>2. Len(a) + 1 \in DOMAIN b /\ b[1] < m /\ m < b[Len(a) + 1]
      BY <1>1, <2>1, <3>1
    <3>3. \A j \in 1 .. (Len(a) + 1) : b[j] # m
      <4> TAKE j \in 1 .. (Len(a) + 1)
      <4>1. CASE j \in 1 .. Len(a)
        <5>1. b[j] = a[j] /\ a[j] < m /\ a[j] \in Nat /\ m \in Nat
          BY <1>1, <3>1, <4>1
        <5> QED BY <5>1
      <4>2. CASE j = Len(a) + 1
        BY <1>1, <1>m, <3>1, <4>2
      <4>3. j \in 1 .. Len(a) \/ j = Len(a) + 1
        <5>1. Len(a) \in Nat
          BY <1>1
        <5> QED BY <5>1
      <4> QED BY <4>1, <4>2, <4>3
    <3> QED BY <3>1, <3>2, <3>3 DEF PassedIn
  <2>5. ASSUME NEW m \in PassedIn(b), m \notin PassedIn(a)
        PROVE  m \in (top + 1) .. (n - 1)
    <3>1. PICK i \in 1 .. (Len(a) + 1) : b[1] < m /\ m < b[i] /\ \A j \in 1 .. i : b[j] # m
      BY <1>1 DEF PassedIn
    <3>2. m \in 1 .. MaxSn
      BY DEF PassedIn
    <3>3. i = Len(a) + 1
      <4>1. CASE i \in 1 .. Len(a)
        <5>1. a[1] < m /\ m < a[i] /\ \A j \in 1 .. i : a[j] # m
          BY <1>1, <2>1, <3>1, <4>1
        <5> QED BY <1>1, <2>5, <3>2, <4>1, <5>1 DEF PassedIn
      <4> QED BY <1>1, <4>1
    <3>4. m < n /\ \A j \in 1 .. Len(a) : a[j] # m
      BY <1>1, <3>1, <3>3
    <3>5. ~(m < top)
      <4> SUFFICES ASSUME m < top PROVE FALSE
        OBVIOUS
      <4>1. a[1] < m /\ m < a[k] /\ \A j \in 1 .. k : a[j] # m
        BY <1>1, <2>1, <2>2, <3>1, <3>4
      <4> QED BY <1>1, <2>2, <2>5, <3>2, <4>1 DEF PassedIn
    <3>6. m # top
      BY <2>2, <3>4
    <3> QED BY <1>m, <3>2, <3>4, <3>5, <3>6
  <2>6. PassedIn(b) = PassedIn(a) \cup (top + 1) .. (n - 1)
    BY <2>3, <2>4, <2>5
  <2> QED BY <1>2, <1>3, <1>5, <2>6 DEF b
<1> QED BY <1>4, <1>5

\* The losses, and the threads, are finitely many.
LEMMA Finite ==
    /\ IsFiniteSet(Losses)
    /\ \A S \in SUBSET Losses : IsFiniteSet(S) /\ Cardinality(S) \in Nat
    /\ \A S \in SUBSET Publishers : IsFiniteSet(S) /\ Cardinality(S) \in Nat
<1>1. IsFiniteSet(1 .. MaxSn)
  BY EventsAssumption, FS_Interval
<1>2. IsFiniteSet(Losses)
  BY <1>1, EventsAssumption, FS_Product DEF Losses
<1> QED BY <1>2, EventsAssumption, FS_Subset, FS_CardinalityType

\* A delivery adds one cell.
LEMMA CellsAppend ==
    ASSUME NEW A \in [Publishers -> Seq(1 .. MaxSn)], NEW p \in Publishers, NEW n \in 1 .. MaxSn,
           IsFiniteSet(Cells(A))
    PROVE  LET B == [A EXCEPT ![p] = Append(@, n)]
           IN  IsFiniteSet(Cells(B)) /\ Cardinality(Cells(B)) = Cardinality(Cells(A)) + 1
<1> DEFINE B == [A EXCEPT ![p] = Append(@, n)]
           S == 1 .. MaxSn
           x == <<p, Len(A[p]) + 1>>
<1>1. A[p] \in Seq(S) /\ n \in S
  OBVIOUS
<1> HIDE DEF S
<1>2. DOMAIN A[p] = 1 .. Len(A[p]) /\ DOMAIN Append(A[p], n) = 1 .. (Len(A[p]) + 1) /\ Len(A[p]) \in Nat
  BY <1>1
<1>3. \A q \in Publishers : DOMAIN B[q] = IF q = p THEN DOMAIN A[p] \cup {Len(A[p]) + 1} ELSE DOMAIN A[q]
  <2>1. B[p] = Append(A[p], n) /\ \A q \in Publishers \ {p} : B[q] = A[q]
    OBVIOUS
  <2>2. 1 .. (Len(A[p]) + 1) = 1 .. Len(A[p]) \cup {Len(A[p]) + 1}
    BY <1>2
  <2> HIDE DEF B
  <2> QED BY <1>2, <2>1, <2>2
<1> HIDE DEF B
<1>4. x \notin Cells(A)
  BY <1>2, PassedMembers
<1>5. Cells(B) = Cells(A) \cup {x}
  <2>1. ASSUME NEW y \in Cells(B) PROVE y \in Cells(A) \cup {x}
    <3>1. PICK q \in Publishers : \E i \in DOMAIN B[q] : y = <<q, i>>
      BY PassedMembers
    <3>2. PICK i \in DOMAIN B[q] : y = <<q, i>>
      BY <3>1
    <3>3. i \in DOMAIN A[q] \/ (q = p /\ i = Len(A[p]) + 1)
      BY <1>3
    <3> QED BY <3>2, <3>3, PassedMembers
  <2>2. ASSUME NEW y \in Cells(A) PROVE y \in Cells(B)
    <3>1. PICK q \in Publishers : \E i \in DOMAIN A[q] : y = <<q, i>>
      BY PassedMembers
    <3>2. DOMAIN A[q] \subseteq DOMAIN B[q]
      BY <1>3
    <3> QED BY <3>1, <3>2, PassedMembers
  <2>3. x \in Cells(B)
    <3>1. Len(A[p]) + 1 \in DOMAIN B[p]
      BY <1>3
    <3> QED BY <3>1, PassedMembers
  <2> QED BY <2>1, <2>2, <2>3
<1> QED BY <1>4, <1>5, FS_AddElement DEF B

\* What an arrival does to the tracker: the baseline is the largest number again,
\* and the gap it reports is what it passed over, disjoint from all before.
LEMMA ArriveFacts ==
    ASSUME EInv, NEW p \in Publishers, NEW n \in 1 .. MaxSn, Arrive(p, n)
    PROVE  /\ Tracked'
           /\ AllPassedOver' = AllPassedOver \cup Gap(p, n)
           /\ Gap(p, n) \subseteq {p} \X (1 .. MaxSn)
           /\ Gap(p, n) \cap AllPassedOver = {}
           /\ lastSeen' \in [Publishers -> 0 .. MaxSn]
           /\ arrived' \in [Publishers -> Seq(1 .. MaxSn)]
           /\ IsFiniteSet(Cells(arrived')) /\ Arrivals' = Arrivals + 1
           /\ arrived'[p] # <<>> /\ \A q \in Publishers \ {p} : arrived'[q] = arrived[q]
<1>a. /\ arrived \in [Publishers -> Seq(1 .. MaxSn)] /\ lastSeen \in [Publishers -> 0 .. MaxSn]
      /\ IsFiniteSet(Cells(arrived)) /\ Tracked
  BY DEF EInv, TypeOK, Shape
<1>m. MaxSn \in Nat
  BY EventsAssumption
<1> DEFINE a == arrived[p]
           top == lastSeen[p]
           new == IF top = 0 THEN {} ELSE (top + 1) .. (n - 1)
<1>1. a \in Seq(1 .. MaxSn) /\ top \in 0 .. MaxSn /\ SeenUpTo(a, top)
  BY <1>a DEF Tracked
<1>2. /\ arrived' = [arrived EXCEPT ![p] = Append(@, n)]
      /\ lastSeen' = [lastSeen EXCEPT ![p] = Baseline(p, n)]
  BY DEF Arrive
<1>3. /\ arrived'[p] = Append(a, n) /\ lastSeen'[p] = IF n > top THEN n ELSE top
      /\ \A q \in Publishers \ {p} : arrived'[q] = arrived[q] /\ lastSeen'[q] = lastSeen[q]
  BY <1>a, <1>2 DEF Baseline
<1>4. /\ PassedIn(arrived'[p]) = PassedIn(a) \cup new
      /\ SeenUpTo(arrived'[p], lastSeen'[p])
      /\ \A m \in PassedIn(a) : m < top
  BY <1>1, <1>3, PassedAppend
<1>5. Tracked'
  BY <1>a, <1>3, <1>4 DEF Tracked
<1>6. \A x : x \in Gap(p, n) <=> \E m \in new : x = <<p, m>>
  BY DEF Gap
<1>7. new \subseteq 1 .. MaxSn /\ \A m \in new : ~(m < top)
  BY <1>1, <1>m
<1>8. lastSeen' \in [Publishers -> 0 .. MaxSn]
  BY <1>a, <1>m, <1>2 DEF Baseline
<1>9. Append(a, n) \in Seq(1 .. MaxSn) /\ Append(a, n) # <<>>
  BY <1>1, AppendProperties
<1>10. arrived' \in [Publishers -> Seq(1 .. MaxSn)]
  BY <1>a, <1>2, <1>9
<1>11. IsFiniteSet(Cells(arrived')) /\ Cardinality(Cells(arrived')) = Cardinality(Cells(arrived)) + 1
  BY <1>a, <1>2, CellsAppend
<1>12. Arrivals' = Arrivals + 1
  BY <1>11 DEF Arrivals, Cells
<1> HIDE DEF new, a, top
<1>13. AllPassedOver = AllPassedIn(arrived) /\ AllPassedOver' = AllPassedIn(arrived')
  BY DEF AllPassedOver, AllPassedIn, PassedOver, PassedIn
<1>14. AllPassedIn(arrived') = AllPassedIn(arrived) \cup Gap(p, n)
  <2>1. ASSUME NEW x \in AllPassedIn(arrived') PROVE x \in AllPassedIn(arrived) \cup Gap(p, n)
    <3>1. PICK q \in Publishers : \E m \in PassedIn(arrived'[q]) : x = <<q, m>>
      BY PassedMembers
    <3>2. CASE q = p
      BY <1>4, <1>6, <3>1, <3>2, PassedMembers DEF a
    <3>3. CASE q # p
      BY <1>3, <3>1, <3>3, PassedMembers
    <3> QED BY <3>2, <3>3
  <2>2. ASSUME NEW x \in AllPassedIn(arrived) PROVE x \in AllPassedIn(arrived')
    <3>1. PICK q \in Publishers : \E m \in PassedIn(arrived[q]) : x = <<q, m>>
      BY PassedMembers
    <3>2. PassedIn(arrived[q]) \subseteq PassedIn(arrived'[q])
      BY <1>3, <1>4 DEF a
    <3> QED BY <3>1, <3>2, PassedMembers
  <2>3. ASSUME NEW x \in Gap(p, n) PROVE x \in AllPassedIn(arrived')
    BY <1>4, <1>6, PassedMembers
  <2> QED BY <2>1, <2>2, <2>3
<1>15. Gap(p, n) \cap AllPassedIn(arrived) = {}
  <2> SUFFICES ASSUME NEW x \in Gap(p, n), x \in AllPassedIn(arrived) PROVE FALSE
    OBVIOUS
  <2>1. PICK m \in new : x = <<p, m>>
    BY <1>6
  <2>2. PICK q \in Publishers : \E k \in PassedIn(arrived[q]) : x = <<q, k>>
    BY PassedMembers
  <2>3. m \in PassedIn(a)
    BY <2>1, <2>2 DEF a
  <2> QED BY <1>4, <1>7, <2>3
<1>16. Gap(p, n) \subseteq {p} \X (1 .. MaxSn)
  BY <1>6, <1>7
<1> QED BY <1>3, <1>5, <1>8, <1>9, <1>10, <1>11, <1>12, <1>13, <1>14, <1>15, <1>16

-----------------------------------------------------------------------------
\* How the two counts of threads follow one thread: it takes up a sample, pushes
\* it and notifies.
LEMMA Threads ==
    ASSUME TypeOK, NEW p \in Publishers, NEW c, pc' = [pc EXCEPT ![p] = c]
    PROVE  /\ Cardinality(Handling) \in Nat /\ Cardinality(Notifying) \in Nat
           /\ pc[p] = "idle" /\ c \in {"lossy", "push"}
                => /\ Cardinality(Handling') = Cardinality(Handling) + 1
                   /\ Cardinality(Notifying') = Cardinality(Notifying)
           /\ pc[p] \in {"lossy", "calling", "calling null"} /\ c \in {"calling", "calling null", "push"}
                => /\ Cardinality(Handling') = Cardinality(Handling)
                   /\ Cardinality(Notifying') = Cardinality(Notifying)
           /\ pc[p] = "push" /\ c = "notify"
                => /\ Cardinality(Handling') = Cardinality(Handling) - 1
                   /\ Cardinality(Notifying') = Cardinality(Notifying) + 1
           /\ pc[p] = "notify" /\ c = "idle"
                => /\ Cardinality(Handling') = Cardinality(Handling)
                   /\ Cardinality(Notifying') = Cardinality(Notifying) - 1
                   /\ Cardinality(Notifying) >= 1
<1>t. pc \in [Publishers -> {"idle", "lossy", "calling", "calling null", "push", "notify"}]
  BY DEF TypeOK
<1>1. /\ IsFiniteSet(Handling) /\ Cardinality(Handling) \in Nat
      /\ IsFiniteSet(Notifying) /\ Cardinality(Notifying) \in Nat
  BY Finite DEF Handling, Notifying
<1>2. ASSUME pc[p] = "idle", c \in {"lossy", "push"}
      PROVE  Handling' = Handling \cup {p} /\ p \notin Handling /\ Notifying' = Notifying
  BY <1>t, <1>2 DEF Handling, Notifying
<1>3. ASSUME pc[p] \in {"lossy", "calling", "calling null"}, c \in {"calling", "calling null", "push"}
      PROVE  Handling' = Handling /\ Notifying' = Notifying
  BY <1>t, <1>3 DEF Handling, Notifying
<1>4. ASSUME pc[p] = "push", c = "notify"
      PROVE  /\ Handling' = Handling \ {p} /\ p \in Handling
             /\ Notifying' = Notifying \cup {p} /\ p \notin Notifying
  BY <1>t, <1>4 DEF Handling, Notifying
<1>5. ASSUME pc[p] = "notify", c = "idle"
      PROVE  Handling' = Handling /\ Notifying' = Notifying \ {p} /\ p \in Notifying
  BY <1>t, <1>5 DEF Handling, Notifying
<1>6. p \in Notifying => Cardinality(Notifying) >= 1
  <2>1. p \in Notifying => Cardinality(Notifying) # 0
    BY <1>1, FS_EmptySet
  <2>2. \A k \in Nat : k # 0 => k >= 1
    OBVIOUS
  <2> QED BY <1>1, <2>1, <2>2
<1>7. ASSUME pc[p] = "idle", c \in {"lossy", "push"}
      PROVE  /\ Cardinality(Handling') = Cardinality(Handling) + 1
             /\ Cardinality(Notifying') = Cardinality(Notifying)
  BY <1>1, <1>2, <1>7, FS_AddElement
<1>8. ASSUME pc[p] = "push", c = "notify"
      PROVE  /\ Cardinality(Handling') = Cardinality(Handling) - 1
             /\ Cardinality(Notifying') = Cardinality(Notifying) + 1
  <2>1. Cardinality(Handling') = Cardinality(Handling) - 1
    BY <1>1, <1>4, <1>8, FS_RemoveElement
  <2>2. Cardinality(Notifying') = Cardinality(Notifying) + 1
    BY <1>1, <1>4, <1>8, FS_AddElement
  <2> QED BY <2>1, <2>2
<1>9. ASSUME pc[p] = "notify", c = "idle"
      PROVE  /\ Cardinality(Handling') = Cardinality(Handling)
             /\ Cardinality(Notifying') = Cardinality(Notifying) - 1
             /\ Cardinality(Notifying) >= 1
  BY <1>1, <1>5, <1>6, <1>9, FS_RemoveElement
<1> QED BY <1>1, <1>3, <1>7, <1>8, <1>9

\* Where nothing arrives or is counted, the counts stay.
LEMMA CountsKept ==
    ASSUME UNCHANGED <<arrived, pc, pushed, announced, unreadCount>>
    PROVE  (Accounted => Accounted') /\ (MessagesAnnounced => MessagesAnnounced')
  BY DEF Accounted, Handling, Arrivals, MessagesAnnounced

\* Every step of a thread or the program keeps the types and the accounts: each
\* message is announced once, and no more are counted than arrived.
LEMMA TypeNext == EInv /\ [Next]_vars => TypeOK' /\ Shape' /\ Accounted' /\ MessagesAnnounced'
<1> DEFINE G == TypeOK' /\ Shape' /\ Accounted' /\ MessagesAnnounced'
<1> SUFFICES ASSUME EInv, [Next]_vars PROVE G
  OBVIOUS
<1>a. TypeOK /\ Shape /\ Accounted /\ MessagesAnnounced /\ OwnLoss
  BY DEF EInv
<1>n. /\ Arrivals \in Nat /\ Cardinality(Handling) \in Nat /\ Cardinality(Notifying) \in Nat
      /\ pushed = announced + unreadCount + Cardinality(Notifying)
      /\ pushed + Cardinality(Handling) = Arrivals /\ Arrivals <= MaxArrivals
      /\ pushed \in Nat /\ announced \in Nat /\ unreadCount \in Nat /\ MaxArrivals \in Nat
  <2>1. Arrivals \in Nat
    BY <1>a, Same, FS_CardinalityType DEF Shape
  <2>2. Cardinality(Handling) \in Nat /\ Cardinality(Notifying) \in Nat
    BY Finite DEF Handling, Notifying
  <2>3. pushed \in Nat /\ announced \in Nat /\ unreadCount \in Nat /\ MaxArrivals \in Nat
    <3>1. unreadCount \in 0 .. MaxArrivals /\ pushed \in Nat /\ announced \in Nat
      BY <1>a, Zenon DEF Shape, TypeOK
    <3>2. MaxArrivals \in Nat
      BY EventsAssumption
    <3> QED BY <3>1, <3>2
  <2> QED BY <1>a, <2>1, <2>2, <2>3 DEF MessagesAnnounced, Notifying, Accounted
<1>m. MessagesAnnounced' <=> pushed' = announced' + unreadCount' + Cardinality(Notifying')
  BY DEF MessagesAnnounced, Notifying
<1>s. arrived' = arrived => Arrivals' = Arrivals /\ IsFiniteSet(Cells(arrived'))
  BY <1>a DEF Arrivals, Shape
<1> USE <1>a, EventsAssumption DEF trackerVars, eventVars, messageVars
<1>1. ASSUME NEW p \in Publishers, NEW n \in 1 .. MaxSn, Arrive(p, n) PROVE G
  <2> DEFINE c == IF Gap(p, n) = {} THEN "push" ELSE "lossy"
  <2>1. /\ pc[p] = "idle" /\ Arrivals < MaxArrivals /\ pc' = [pc EXCEPT ![p] = c]
        /\ lost' = [lost EXCEPT ![p] = Gap(p, n)]
        /\ UNCHANGED <<total, unread, callback, firing, heard, taken, swallowed, recorded>>
        /\ UNCHANGED <<queue, onMessage, unreadCount, pushed, announced>>
    BY <1>1 DEF Arrive
  <2>2. /\ lastSeen' \in [Publishers -> 0 .. MaxSn] /\ arrived' \in [Publishers -> Seq(1 .. MaxSn)]
        /\ IsFiniteSet(Cells(arrived')) /\ Arrivals' = Arrivals + 1
        /\ Gap(p, n) \subseteq {p} \X (1 .. MaxSn)
        /\ arrived'[p] # <<>> /\ \A q \in Publishers \ {p} : arrived'[q] = arrived[q]
    BY <1>1, ArriveFacts
  <2>3. c \in {"lossy", "push"}
    OBVIOUS
  <2> HIDE DEF c
  <2>4. /\ Cardinality(Handling') = Cardinality(Handling) + 1
        /\ Cardinality(Notifying') = Cardinality(Notifying)
    BY <2>1, <2>3, Threads
  <2>5. Gap(p, n) \subseteq Losses
    BY <2>2 DEF Losses
  <2>6. TypeOK'
    BY <2>1, <2>2, <2>3, <2>5 DEF TypeOK
  <2>7. Shape'
    BY <2>1, <2>2 DEF Shape
  <2>8. \A q \in Handling' : arrived'[q] # <<>>
    BY <2>1, <2>2 DEF Handling, Accounted, TypeOK
  <2>9. pushed' + Cardinality(Handling') = Arrivals' /\ Arrivals' <= MaxArrivals
    <3>1. pushed' = pushed /\ Arrivals < MaxArrivals
      BY <2>1
    <3>2. Arrivals' = Arrivals + 1
      BY <2>2
    <3> QED BY <1>n, <2>4, <3>1, <3>2
  <2>10. MessagesAnnounced'
    BY <1>n, <2>1, <2>4 DEF MessagesAnnounced, Notifying
  <2> QED BY <2>6, <2>7, <2>8, <2>9, <2>10 DEF Accounted
<1>2. ASSUME NEW p \in Publishers, Record(p) PROVE G
  <2> DEFINE c == CASE callback = "program" -> "calling"
                    [] callback = "null" -> "calling null"
                    [] OTHER -> "push"
  <2>1. /\ pc[p] = "lossy" /\ pc' = [pc EXCEPT ![p] = c]
        /\ total' = Wrapped(total + Clamped(Cardinality(lost[p])))
        /\ unread' = unread \cup lost[p] /\ recorded' = recorded \cup lost[p]
        /\ UNCHANGED <<lastSeen, arrived, callback, firing, lost>>
        /\ UNCHANGED <<queue, onMessage, unreadCount, pushed, announced>>
    BY <1>2 DEF Record
  <2>2. c \in {"calling", "calling null", "push"}
    BY DEF TypeOK
  <2> HIDE DEF c
  <2>3. lost[p] \subseteq Losses /\ Cardinality(lost[p]) \in Nat
    BY Finite DEF TypeOK
  <2>4. total' \in (- MaxInt - 1) .. MaxInt
    <3>1. total \in Int /\ -MaxInt - 1 <= total /\ total <= MaxInt /\ MaxInt \in Nat
      <4>1. total \in (- MaxInt - 1) .. MaxInt
        BY Zenon DEF TypeOK
      <4>2. MaxInt \in Nat
        OBVIOUS
      <4> QED BY <4>1, <4>2
    <3> DEFINE k == Clamped(Cardinality(lost[p]))
    <3>2. k \in 0 .. MaxInt
      BY <2>3, <3>1 DEF Clamped
    <3>3. total' = Wrapped(total + k)
      BY <2>1
    <3> HIDE DEF k
    <3> QED BY <3>1, <3>2, <3>3 DEF Wrapped
  <2>5. /\ Cardinality(Handling') = Cardinality(Handling)
        /\ Cardinality(Notifying') = Cardinality(Notifying)
    BY <2>1, <2>2, Threads
  <2>6. TypeOK'
    BY <2>1, <2>2, <2>3, <2>4 DEF TypeOK
  <2>7. Shape'
    BY <2>1, <2>3, <1>s DEF Shape
  <2>8. \A q \in Handling' : arrived'[q] # <<>>
    BY <2>1 DEF Handling, Accounted, TypeOK
  <2> QED BY <1>n, <1>s, <2>1, <2>5, <2>6, <2>7, <2>8 DEF Accounted, MessagesAnnounced, Notifying
<1>3. ASSUME NEW p \in Publishers, CallBack(p) PROVE G
  <2>1. /\ pc[p] \in {"calling", "calling null"} /\ pc' = [pc EXCEPT ![p] = "push"]
        /\ UNCHANGED <<lastSeen, arrived, total, unread, callback, firing, lost, recorded>>
        /\ UNCHANGED <<queue, onMessage, unreadCount, pushed, announced>>
    BY <1>3 DEF CallBack
  <2>2. /\ Cardinality(Handling') = Cardinality(Handling)
        /\ Cardinality(Notifying') = Cardinality(Notifying)
    BY <2>1, Threads
  <2>3. \A q \in Handling' : arrived'[q] # <<>>
    BY <2>1 DEF Handling, Accounted, TypeOK
  <2>4. TypeOK' /\ Shape'
    BY <2>1, <1>s DEF TypeOK, Shape
  <2> QED BY <1>n, <1>s, <2>1, <2>2, <2>3, <2>4 DEF Accounted, MessagesAnnounced, Notifying
<1>4. ASSUME NEW p \in Publishers, Push(p) PROVE G
  <2> DEFINE q == IF Len(queue) = Depth THEN Tail(queue) ELSE queue
             x == <<p, arrived[p][Len(arrived[p])]>>
  <2>1. /\ pc[p] = "push" /\ pc' = [pc EXCEPT ![p] = "notify"]
        /\ queue' = Append(q, x) /\ pushed' = pushed + 1
        /\ lost' = [lost EXCEPT ![p] = {}]
        /\ UNCHANGED <<lastSeen, arrived, total, unread, callback, firing, recorded>>
        /\ UNCHANGED <<onMessage, unreadCount, announced>>
    BY <1>4 DEF Push
  <2>2. arrived[p] # <<>> /\ arrived[p] \in Seq(1 .. MaxSn)
    BY <2>1 DEF Accounted, Handling, Shape
  <2>3. x \in Losses
    BY <2>2 DEF Losses
  <2>4. q \in Seq(Losses) /\ Len(q) < Depth
    <3>1. queue \in Seq(Losses) /\ Len(queue) <= Depth
      BY DEF Shape, TypeOK
    <3> QED BY <3>1
  <2> HIDE DEF q, x
  <2>5. Append(q, x) \in Seq(Losses) /\ Len(Append(q, x)) <= Depth
        /\ \A i \in DOMAIN Append(q, x) : Append(q, x)[i] \in Losses
    BY <2>3, <2>4
  <2>6. TypeOK'
    BY <2>1, <2>5 DEF TypeOK
  <2>7. Shape'
    BY <2>1, <2>5, <1>s DEF Shape
  <2>8. /\ Cardinality(Handling') = Cardinality(Handling) - 1
        /\ Cardinality(Notifying') = Cardinality(Notifying) + 1
    BY <2>1, Threads
  <2>9. \A r \in Handling' : arrived'[r] # <<>>
    BY <2>1 DEF Handling, Accounted, TypeOK
  <2>10. /\ pushed' + Cardinality(Handling') = Arrivals' /\ Arrivals' <= MaxArrivals
    <3>1. Arrivals' = Arrivals /\ pushed' = pushed + 1
      BY <1>s, <2>1
    <3> QED BY <1>n, <2>8, <3>1
  <2>11. MessagesAnnounced'
    BY <1>n, <1>m, <2>1, <2>8
  <2> QED BY <2>6, <2>7, <2>9, <2>10, <2>11 DEF Accounted
<1>5. ASSUME NEW p \in Publishers, Notify(p) PROVE G
  <2>1. /\ pc[p] = "notify" /\ pc' = [pc EXCEPT ![p] = "idle"]
        /\ UNCHANGED <<lastSeen, arrived, total, unread, callback, firing, recorded>>
        /\ UNCHANGED <<queue, onMessage, pushed, lost>>
    BY <1>5 DEF Notify
  <2>2. /\ Cardinality(Handling') = Cardinality(Handling)
        /\ Cardinality(Notifying') = Cardinality(Notifying) - 1
        /\ Cardinality(Notifying) >= 1
    BY <2>1, Threads
  <2>3. \/ announced' = announced + 1 /\ unreadCount' = unreadCount
        \/ announced' = announced /\ unreadCount' = unreadCount + 1
    BY <1>5 DEF Notify
  <2>4. unreadCount + 1 <= MaxArrivals
    BY <1>n, <2>2
  <2>5. unreadCount' \in 0 .. MaxArrivals /\ announced' \in Nat
    BY <1>n, <2>3, <2>4
  <2>6. TypeOK' /\ Shape'
    BY <2>1, <2>5, <1>s DEF TypeOK, Shape
  <2>7. \A q \in Handling' : arrived'[q] # <<>>
    BY <2>1 DEF Handling, Accounted, TypeOK
  <2>8. MessagesAnnounced'
    BY <1>n, <1>m, <2>1, <2>2, <2>3
  <2> QED BY <1>n, <1>s, <2>1, <2>2, <2>6, <2>7, <2>8 DEF Accounted
<1>6. ASSUME NEW c \in {"program", "null"}, SetCallback(c) PROVE G
  BY <1>6, <1>s, CountsKept DEF SetCallback, TypeOK, Shape
<1>7. ASSUME NEW some \in BOOLEAN, SetOnNewMessage(some) PROVE G
  <2>1. /\ UNCHANGED <<lastSeen, arrived, total, unread, callback, firing, recorded>>
        /\ UNCHANGED <<queue, pushed, pc, lost>> /\ onMessage' = some
    BY <1>7 DEF SetOnNewMessage
  <2>2. \/ announced' = announced + unreadCount /\ unreadCount' = 0
        \/ announced' = announced /\ unreadCount' = unreadCount
    BY <1>7 DEF SetOnNewMessage
  <2>3. unreadCount' \in 0 .. MaxArrivals /\ announced' \in Nat
    BY <1>n, <2>2
  <2>4. onMessage' \in BOOLEAN
    BY <2>1, Zenon
  <2>5. TypeOK' /\ Shape'
    BY <2>1, <2>3, <2>4, <1>s DEF TypeOK, Shape
  <2>6. Handling' = Handling /\ Notifying' = Notifying
    BY <2>1 DEF Handling, Notifying
  <2>7. MessagesAnnounced'
    BY <1>n, <1>m, <2>1, <2>2, <2>6
  <2> QED BY <1>s, <2>1, <2>5, <2>6, <2>7 DEF Accounted
<1>8. CASE TakeEvent
  BY <1>8, <1>s, CountsKept DEF TakeEvent, TypeOK, Shape
<1>9. CASE FireBacklog
  BY <1>9, <1>s, CountsKept DEF FireBacklog, TypeOK, Shape
<1>10. CASE Take
  <2>1. queue \in Seq(Losses) /\ queue # <<>> /\ queue' = Tail(queue) /\ Len(queue) <= Depth
    BY <1>10 DEF Take, Shape, TypeOK
  <2>2. queue' \in Seq(Losses) /\ Len(queue') <= Depth /\ \A i \in DOMAIN queue' : queue'[i] \in Losses
    BY <2>1
  <2> QED BY <1>10, <1>s, <2>2, CountsKept DEF Take, TypeOK, Shape
<1>11. CASE UNCHANGED vars
  BY <1>11, <1>s, CountsKept DEF vars, TypeOK, Shape
<1> QED BY <1>1, <1>2, <1>3, <1>4, <1>5, <1>6, <1>7, <1>8, <1>9, <1>10, <1>11 DEF Next

-----------------------------------------------------------------------------
\* The losses of the threads at one place.
AtPlace(c, l, place) == UNION {l[p] : p \in {q \in Publishers : c[q] = place}}

\* Membership in them.
LEMMA PlaceMembers ==
    ASSUME NEW c, NEW l, NEW place
    PROVE  \A x : x \in AtPlace(c, l, place) <=> \E p \in Publishers : c[p] = place /\ x \in l[p]
  BY DEF AtPlace

\* The properties speak of two of these places.
LEMMA PlacesSame ==
    /\ BeingRecorded = AtPlace(pc, lost, "lossy") /\ BeingCalled = AtPlace(pc, lost, "calling")
  BY DEF BeingRecorded, BeingCalled, AtPlace

\* Every loss is counted once: an arrival passes over what nobody recorded or is
\* recording, and recording moves it from the thread to the status.
LEMMA LossNext == EInv /\ [Next]_vars => Tracked' /\ OwnLoss' /\ Exact'
<1> DEFINE G == Tracked' /\ OwnLoss' /\ Exact'
<1> SUFFICES ASSUME EInv, [Next]_vars PROVE G
  OBVIOUS
<1>a. Tracked /\ OwnLoss /\ Exact
  BY DEF EInv
<1>t. /\ pc \in [Publishers -> {"idle", "lossy", "calling", "calling null", "push", "notify"}]
      /\ lost \in [Publishers -> SUBSET Losses] /\ recorded \subseteq Losses
  BY DEF EInv, TypeOK, Shape
<1>f. /\ \A S \in SUBSET Losses : IsFiniteSet(S) /\ Cardinality(S) \in Nat
      /\ \A S, T \in SUBSET Losses : S \subseteq T => Cardinality(S) <= Cardinality(T)
  BY Finite, FS_Subset
<1>p. AllPassedOver \subseteq Losses
  BY Same, PassedMembers
<1>b. /\ \A x : x \in BeingRecorded <=> \E q \in Publishers : pc[q] = "lossy" /\ x \in lost[q]
      /\ \A x : x \in BeingRecorded' <=> \E q \in Publishers : pc'[q] = "lossy" /\ x \in lost'[q]
  <2>1. BeingRecorded' = AtPlace(pc', lost', "lossy")
    BY DEF BeingRecorded, AtPlace
  <2> QED BY <2>1, PlacesSame, PlaceMembers
<1>u. arrived' = arrived => AllPassedOver' = AllPassedOver
  BY DEF AllPassedOver, PassedOver
<1>1. ASSUME NEW p \in Publishers, NEW n \in 1 .. MaxSn, Arrive(p, n) PROVE G
  <2>1. /\ pc[p] = "idle" /\ lost' = [lost EXCEPT ![p] = Gap(p, n)]
        /\ pc' = [pc EXCEPT ![p] = IF Gap(p, n) = {} THEN "push" ELSE "lossy"]
        /\ UNCHANGED <<recorded, total>>
    BY <1>1 DEF Arrive, eventVars
  <2>2. /\ Tracked' /\ AllPassedOver' = AllPassedOver \cup Gap(p, n)
        /\ Gap(p, n) \subseteq {p} \X (1 .. MaxSn) /\ Gap(p, n) \cap AllPassedOver = {}
    BY <1>1, ArriveFacts
  <2>3. recorded \subseteq AllPassedOver
    BY <1>a DEF Exact
  <2>4. OwnLoss'
    BY <1>a, <1>t, <2>1, <2>2, <2>3 DEF OwnLoss
  <2>5. BeingRecorded' = BeingRecorded \cup Gap(p, n)
    <3>1. \A q \in Publishers \ {p} : pc'[q] = pc[q] /\ lost'[q] = lost[q]
      BY <1>t, <2>1
    <3>2. lost'[p] = Gap(p, n) /\ (Gap(p, n) # {} => pc'[p] = "lossy") /\ pc[p] # "lossy"
      BY <1>t, <2>1
    <3> QED BY <1>b, <3>1, <3>2
  <2>6. recorded' \cup BeingRecorded' = AllPassedOver'
    BY <1>a, <2>1, <2>2, <2>5 DEF Exact
  <2>7. AllPassedOver' \subseteq Losses
    BY <1>p, <2>2 DEF Losses
  <2>8. Cardinality(AllPassedOver) <= Cardinality(AllPassedOver')
        /\ Cardinality(AllPassedOver) \in Nat /\ Cardinality(AllPassedOver') \in Nat
    BY <1>f, <1>p, <2>2, <2>7
  <2>m. MaxInt \in Nat
    BY EventsAssumption
  <2>9. Cardinality(AllPassedOver') <= MaxInt => total' = Cardinality(recorded')
    BY <1>a, <2>1, <2>8, <2>m DEF Exact
  <2> QED BY <2>2, <2>4, <2>6, <2>9 DEF Exact
<1>2. ASSUME NEW p \in Publishers, Record(p) PROVE G
  <2>1. /\ pc[p] = "lossy" /\ recorded' = recorded \cup lost[p]
        /\ total' = Wrapped(total + Clamped(Cardinality(lost[p])))
        /\ UNCHANGED <<lastSeen, arrived, lost>>
    BY <1>2 DEF Record, trackerVars
  <2>2. pc'[p] # "lossy" /\ \A q \in Publishers \ {p} : pc'[q] = pc[q]
    <3>1. pc' = [pc EXCEPT ![p] = CASE callback = "program" -> "calling"
                                    [] callback = "null" -> "calling null"
                                    [] OTHER -> "push"]
      BY <1>2 DEF Record
    <3> QED BY <1>t, <3>1
  <2>3. \A q \in Publishers \ {p} : lost[q] \cap lost[p] = {}
    BY <1>a DEF OwnLoss
  <2>4. OwnLoss'
    BY <1>a, <2>1, <2>2, <2>3 DEF OwnLoss
  <2>5. recorded' \cup BeingRecorded' = AllPassedOver'
    <3>1. recorded' \cup BeingRecorded' = recorded \cup BeingRecorded
      BY <1>b, <2>1, <2>2
    <3> QED BY <1>a, <1>u, <2>1, <3>1 DEF Exact
  <2>6. ASSUME Cardinality(AllPassedOver') <= MaxInt PROVE total' = Cardinality(recorded')
    <3>1. recorded \cap lost[p] = {} /\ lost[p] \subseteq Losses
      BY <1>a, <1>t, <2>1 DEF OwnLoss
    <3>2. Cardinality(recorded') = Cardinality(recorded) + Cardinality(lost[p])
      <4>1. Cardinality(recorded \cup lost[p]) =
               Cardinality(recorded) + Cardinality(lost[p]) - Cardinality(recorded \cap lost[p])
        BY <1>f, <1>t, <3>1, FS_Union
      <4>2. Cardinality(recorded \cap lost[p]) = 0
        BY <3>1, FS_EmptySet
      <4>3. Cardinality(recorded) \in Nat /\ Cardinality(lost[p]) \in Nat
        BY <1>f, <1>t, <3>1
      <4> QED BY <2>1, <4>1, <4>2, <4>3
    <3>3. recorded' \subseteq AllPassedOver /\ recorded' \subseteq Losses
      BY <1>p, <1>u, <2>1, <2>5
    <3>4. Cardinality(recorded') <= Cardinality(AllPassedOver)
      BY <1>f, <1>p, <3>3
    <3>5. Cardinality(AllPassedOver) <= MaxInt
      BY <1>u, <2>1, <2>6
    <3>6. total = Cardinality(recorded)
      BY <1>a, <3>5 DEF Exact
    <3>7. /\ Cardinality(recorded) \in Nat /\ Cardinality(lost[p]) \in Nat /\ MaxInt \in Nat
          /\ Cardinality(AllPassedOver) \in Nat
      BY <1>f, <1>t, <1>p, <3>1, EventsAssumption
    <3>8. Clamped(Cardinality(lost[p])) = Cardinality(lost[p])
      BY <3>2, <3>4, <3>5, <3>7 DEF Clamped
    <3>9. Wrapped(Cardinality(recorded) + Cardinality(lost[p])) = Cardinality(recorded) + Cardinality(lost[p])
      BY <3>2, <3>4, <3>5, <3>7 DEF Wrapped
    <3> QED BY <2>1, <3>2, <3>6, <3>8, <3>9
  <2>7. Tracked'
    BY <1>a, <2>1 DEF Tracked
  <2> QED BY <2>4, <2>5, <2>6, <2>7 DEF Exact
<1>3. ASSUME NEW p \in Publishers, pc[p] # "lossy",
             pc'[p] # "lossy", lost'[p] = lost[p] \/ lost'[p] = {},
             \A q \in Publishers \ {p} : pc'[q] = pc[q] /\ lost'[q] = lost[q],
             UNCHANGED <<lastSeen, arrived, recorded, total>>
      PROVE  G
  <2>1. OwnLoss'
    BY <1>a, <1>3 DEF OwnLoss
  <2>2. BeingRecorded' = BeingRecorded
    BY <1>b, <1>3
  <2>3. Tracked'
    BY <1>a, <1>3 DEF Tracked
  <2> QED BY <1>a, <1>u, <1>3, <2>1, <2>2, <2>3 DEF Exact
<1>4. ASSUME NEW p \in Publishers, CallBack(p) PROVE G
  BY <1>t, <1>3, <1>4 DEF CallBack, trackerVars
<1>5. ASSUME NEW p \in Publishers, Push(p) PROVE G
  BY <1>t, <1>3, <1>5 DEF Push, trackerVars, eventVars
<1>6. ASSUME NEW p \in Publishers, Notify(p) PROVE G
  BY <1>t, <1>3, <1>6 DEF Notify, trackerVars, eventVars
<1>7. ASSUME UNCHANGED <<lastSeen, arrived, recorded, total, pc, lost>> PROVE G
  <2>1. BeingRecorded' = BeingRecorded
    BY <1>b, <1>7
  <2> QED BY <1>a, <1>u, <1>7, <2>1 DEF Tracked, OwnLoss, Exact
<1> HIDE DEF G
<1> QED BY <1>1, <1>2, <1>4, <1>5, <1>6, <1>7
        DEF Next, vars, trackerVars, eventVars, SetCallback, SetOnNewMessage, TakeEvent,
            FireBacklog, Take

\* A loss recorded goes to the callback installed then, or to the backlog, and
\* installing a callback takes the backlog in the same step.
LEMMA HeardNext == EInv /\ [Next]_vars => Heard'
<1> SUFFICES ASSUME EInv, [Next]_vars PROVE Heard'
  OBVIOUS
<1>a. Heard /\ OwnLoss
  BY DEF EInv
<1>t. /\ pc \in [Publishers -> {"idle", "lossy", "calling", "calling null", "push", "notify"}]
      /\ lost \in [Publishers -> SUBSET Losses] /\ callback \in {"none", "program", "null"}
  BY DEF EInv, TypeOK
<1>b. /\ \A x : x \in BeingCalled <=> \E q \in Publishers : pc[q] = "calling" /\ x \in lost[q]
      /\ \A x : x \in BeingCalled' <=> \E q \in Publishers : pc'[q] = "calling" /\ x \in lost'[q]
  <2>1. BeingCalled' = AtPlace(pc', lost', "calling")
    BY DEF BeingCalled, AtPlace
  <2> QED BY <2>1, PlacesSame, PlaceMembers
<1> DEFINE Told == heard \cup firing \cup BeingCalled \cup taken \cup swallowed
<1>h. recorded \subseteq Told \cup unread /\ (callback = "program" => recorded \subseteq Told)
  BY <1>a DEF Heard, NothingUnheard
<1>g. ASSUME recorded' \subseteq (Told \cup unread)', callback' = "program" => recorded' \subseteq Told'
      PROVE  Heard'
  BY <1>g DEF Heard, NothingUnheard
<1>1. ASSUME NEW p \in Publishers, NEW n \in 1 .. MaxSn, Arrive(p, n) PROVE Heard'
  <2>1. BeingCalled' = BeingCalled
    <3>1. pc[p] # "calling" /\ pc'[p] # "calling"
          /\ \A q \in Publishers \ {p} : pc'[q] = pc[q] /\ lost'[q] = lost[q]
      BY <1>1, <1>t DEF Arrive
    <3> QED BY <1>b, <3>1
  <2> QED BY <1>1, <1>h, <1>g, <2>1 DEF Arrive, eventVars
<1>2. ASSUME NEW p \in Publishers, Record(p) PROVE Heard'
  <2>1. /\ recorded' = recorded \cup lost[p] /\ unread' = unread \cup lost[p]
        /\ UNCHANGED <<callback, firing, lost, heard, taken, swallowed>> /\ pc[p] = "lossy"
        /\ \A q \in Publishers \ {p} : pc'[q] = pc[q]
        /\ callback = "program" => pc'[p] = "calling"
    BY <1>2, <1>t DEF Record
  <2>2. BeingCalled \subseteq BeingCalled' /\ (callback = "program" => lost[p] \subseteq BeingCalled')
    BY <1>b, <2>1
  <2> QED BY <1>h, <1>g, <2>1, <2>2
<1>3. ASSUME NEW p \in Publishers, CallBack(p) PROVE Heard'
  <2>1. /\ UNCHANGED <<unread, callback, firing, lost, taken, swallowed, recorded>>
        /\ \A q \in Publishers \ {p} : pc'[q] = pc[q]
        /\ heard \subseteq heard' /\ (pc[p] = "calling" => lost[p] \subseteq heard')
    BY <1>3, <1>t DEF CallBack
  <2>2. BeingCalled \subseteq BeingCalled' \cup heard'
    BY <1>b, <2>1
  <2> QED BY <1>h, <1>g, <2>1, <2>2
<1>4. ASSUME NEW p \in Publishers, Push(p) \/ Notify(p) PROVE Heard'
  <2>1. /\ pc[p] # "calling" /\ pc'[p] # "calling"
        /\ \A q \in Publishers \ {p} : pc'[q] = pc[q] /\ lost'[q] = lost[q]
        /\ UNCHANGED <<unread, callback, firing, heard, taken, swallowed, recorded>>
    BY <1>4, <1>t DEF Push, Notify, eventVars
  <2>2. BeingCalled' = BeingCalled
    BY <1>b, <2>1
  <2> QED BY <1>h, <1>g, <2>1, <2>2
<1>c. UNCHANGED <<pc, lost>> => BeingCalled' = BeingCalled
  BY DEF BeingCalled
<1>5. ASSUME NEW c \in {"program", "null"}, SetCallback(c) PROVE Heard'
  <2>1. /\ firing = {} /\ callback' = c /\ unread' = {}
        /\ c = "program" => firing' = unread /\ swallowed' = swallowed
        /\ c = "null" => firing' = {} /\ swallowed' = swallowed \cup unread
        /\ UNCHANGED <<heard, taken, recorded, pc, lost>>
    BY <1>5 DEF SetCallback
  <2> QED BY <1>h, <1>g, <1>c, <2>1
<1>6. CASE TakeEvent
  BY <1>6, <1>h, <1>g, <1>c DEF TakeEvent
<1>7. CASE FireBacklog
  BY <1>7, <1>h, <1>g, <1>c DEF FireBacklog
<1>8. ASSUME UNCHANGED <<unread, callback, firing, heard, taken, swallowed, recorded, pc, lost>>
      PROVE  Heard'
  BY <1>8, <1>h, <1>g, <1>c
<1> QED BY <1>1, <1>2, <1>3, <1>4, <1>5, <1>6, <1>7, <1>8
        DEF Next, vars, eventVars, SetOnNewMessage, Take

-----------------------------------------------------------------------------
\* The subscription starts with nothing seen, counted or announced.
LEMMA InitEInv == Init => EInv
<1> SUFFICES ASSUME Init PROVE EInv
  OBVIOUS
<1> USE EventsAssumption DEF Init
<1>1. onMessage \in BOOLEAN
  BY Zenon
<1>2. TypeOK
  BY <1>1 DEF TypeOK
<1>3. \A p \in Publishers : DOMAIN arrived[p] = {} /\ PassedIn(arrived[p]) = {}
  BY DEF PassedIn
<1>4. Cells(arrived) = {} /\ AllPassedIn(arrived) = {}
  BY <1>3, PassedMembers
<1>5. Handling = {} /\ Notifying = {} /\ BeingRecorded = {}
  BY DEF Handling, Notifying, BeingRecorded
<1>6. Shape
  BY <1>4, FS_EmptySet DEF Shape
<1>7. Arrivals = 0 /\ Cardinality(Handling) = 0 /\ Cardinality(Notifying) = 0
  BY <1>4, <1>5, Same, FS_EmptySet
<1>8. Accounted
  BY <1>5, <1>7 DEF Accounted
<1>9. Tracked /\ OwnLoss
  BY DEF Tracked, SeenUpTo, OwnLoss
<1>10. Exact
  <2>1. AllPassedOver = {} /\ recorded = {} /\ Cardinality(recorded) = 0 /\ total = 0
    BY <1>4, Same, FS_EmptySet
  <2> QED BY <1>5, <2>1 DEF Exact
<1>11. Heard
  BY DEF Heard, NothingUnheard
<1>12. MessagesAnnounced
  BY <1>7 DEF MessagesAnnounced, Notifying
<1> QED BY <1>2, <1>6, <1>8, <1>9, <1>10, <1>11, <1>12 DEF EInv

\* The inductive invariant holds in every reachable state.
THEOREM EInvCorrect == Spec => []EInv
<1>1. EInv /\ [Next]_vars => EInv'
  BY TypeNext, LossNext, HeardNext DEF EInv
<1> QED BY <1>1, InitEInv, PTL DEF Spec

\* The loss counted is exactly what was passed over, each number once, whatever
\* the network loses, replays or reorders and however many publishers there are
\* (crates/hiroz/src/event.rs: MessageLossTracker::observe and
\* record_event_status_with_policy); the i32 total agrees as long as it fits.
THEOREM LossIsExactCorrect == Spec => []LossIsExact
<1>1. EInv => LossIsExact
  BY DEF EInv, Exact, LossIsExact
<1> QED BY <1>1, EInvCorrect, PTL

\* No loss goes unheard, whether it was recorded before, while or after the event
\* callback was set (event.rs: install_callback takes the backlog under the lock).
THEOREM NothingUnheardCorrect == Spec => []NothingUnheard
<1>1. EInv => NothingUnheard
  BY DEF EInv, Heard
<1> QED BY <1>1, EInvCorrect, PTL

\* Every message is announced once, at once or when a new-message callback is set
\* (rmw.rs: rmw_subscription_set_on_new_message_callback and the notifier).
THEOREM MessagesAnnouncedCorrect == Spec => []MessagesAnnounced
<1>1. EInv => MessagesAnnounced
  BY DEF EInv
<1> QED BY <1>1, EInvCorrect, PTL

-----------------------------------------------------------------------------
(***************************************************************************)
(* Discovery, for any endpoints, kinds, waiters and number of Arcs: the    *)
(* graph converges, the matched events are counted and nobody sleeps on    *)
(* what the graph shows. The events of an endpoint come from both: the     *)
(* losses above from its samples, the matches below from the graph.        *)
(***************************************************************************)

\* The graph shows e: parsed already, or cached for the next read.
Shown(e) == parsed[e] # 0 \/ e \in cached

\* An Arc is held only by a creation that has looked at the QoS and not returned;
\* what by_topic lists is alive, and every parsed entity is listed.
IndexKept ==
    /\ \A l \in Local : life[l] \notin {"checked", "added", "telling"} => held[l] = {}
    /\ index \subseteq Alive(parsed, held)
    /\ \A e \in Endpoints : parsed[e] # 0 => <<e, parsed[e]>> \in index

\* The samples of a token that are still to come, and what its callback may be
\* doing, at each stage of the life of its endpoint.
Undelivered(e) ==
    \/ /\ life[e] = "new" /\ samples[e] = <<>> /\ handler[e] = "idle"
       /\ ~ Shown(e) /\ e \notin replies
    \/ /\ Declared(e)
       /\ \/ samples[e] = <<"put">> /\ handler[e] = "idle"
          \/ samples[e] = <<>> /\ handler[e] \in {"idle", "appeared", "calling", "notify"}
    \/ /\ life[e] = "gone"
       /\ \/ samples[e] = <<"put", "delete">> /\ handler[e] = "idle"
          \/ samples[e] = <<"delete">> /\ handler[e] \in {"idle", "appeared", "calling", "notify"}
          \/ samples[e] = <<>> /\ handler[e] \in {"idle", "disappearing", "notify"}

LifeKept ==
    /\ \A e \in Remote : life[e] \in {"new", "live", "gone"}
    /\ \A e \in Endpoints : Undelivered(e)

\* An endpoint is shown from its Put, or from add_local_entity, to its removal.
ShownKept ==
    /\ \A e \in Endpoints : life[e] \in Creating \cup {"live"} /\ samples[e] = <<>> => Shown(e)
    /\ \A l \in Local : life[l] \in {"added", "telling", "live"} => parsed[l] # 0
    /\ \A e \in Endpoints \ ghosts :
          life[e] = "gone" /\ samples[e] = <<>> /\ handler[e] \in {"idle", "notify"} => ~ Shown(e)

\* A sample has still to be handled, or its callback to return.
Pending == \E e \in Endpoints : samples[e] # <<>> \/ handler[e] # "idle"

WaiterKept ==
    /\ waiter \in {"armed", "notified", "parked", "checked", "blocked"} => replies = {}
    /\ waiter \in {"parked", "checked", "blocked"}
          /\ (\E e \in Endpoints : Kind[e] = WaitKind /\ Shown(e)) => Pending

\* The callbacks still to be called are of endpoints of the other kind.
TodoKept ==
    /\ \A e \in Endpoints, x \in {"callback", "creator"} :
          todo[<<x, e>>] \subseteq {l \in Local : life[l] # "new" /\ Kind[l] # Kind[e]}
    /\ \A e \in Endpoints : handler[e] \notin {"calling", "disappearing"} => todo[<<"callback", e>>] = {}
    /\ \A e \in Endpoints : life[e] # "telling" => todo[<<"creator", e>>] = {}

\* What is shown l was told of, or will be: by its own count, by the callback of
\* the liveliness sample, or by add_local_entity.
WillBeTold(l, e) ==
    \/ e \in told[l] \/ life[l] = "registered"
    \/ handler[e] = "appeared" \/ (handler[e] = "calling" /\ l \in todo[<<"callback", e>>])
    \/ life[e] = "added" \/ (life[e] = "telling" /\ l \in todo[<<"creator", e>>])

Built == \E l \in Local : life[l] # "new"

ToldKept ==
    /\ Built => replies = {}
    /\ \A l \in Local : \A e \in Opposite(l) :
          life[l] # "new" /\ Declared(e) /\ Shown(e) => WillBeTold(l, e)

\* Nothing raced, and no reply came after its Delete.
Calm == ~ raced /\ ghosts = {}

PutPending(e) == samples[e] \in {<<"put">>, <<"put", "delete">>}

\* While an endpoint is being created, every other one is settled.
Alone(l) ==
    \A e \in Endpoints \ {l} :
        /\ handler[e] = "idle" /\ life[e] \notin Creating \cup {"removed"}
        /\ e \in Local /\ life[e] = "gone" => samples[e] = <<>>

\* An endpoint of the session: how its Put, its insertion and its removal relate.
CalmLocal(l) ==
    /\ life[l] \in {"counted", "checked"} /\ samples[l] = <<>> => parsed[l] # 0
    /\ life[l] = "added" => samples[l] = <<"put">>
    /\ life[l] = "telling" /\ samples[l] = <<>> => todo[<<"creator", l>>] = {}
    /\ life[l] = "removed" => samples[l] = <<>> /\ handler[l] = "idle"
    /\ life[l] = "gone" => ~ PutPending(l)
    /\ life[l] \in {"registered", "counted", "checked"} /\ PutPending(l) => ~ Shown(l)

\* A remote one is shown from its Put to its Delete.
CalmRemote(e) ==
    /\ Built /\ PutPending(e) => ~ Shown(e)
    /\ life[e] = "gone" /\ samples[e] = <<"delete">> => Shown(e)

CalmKept ==
    Calm => /\ \A l \in Local : life[l] \in Creating => Alone(l)
            /\ \A l \in Local : life[l] \in {"new", "registered"} => current[l] = 0
            /\ \A l \in Local : CalmLocal(l)
            /\ \A e \in Remote : CalmRemote(e)

\* e was announced to all and its end was not: once its callbacks are through,
\* the others count it.
Announced(e) ==
    \/ life[e] \in {"registered", "counted", "checked"} /\ samples[e] = <<>>
    \/ life[e] \in {"telling", "removed"}
    \/ life[e] = "live" /\ (e \in Local \/ samples[e] = <<>>)
    \/ life[e] = "gone" /\ samples[e] = <<"delete">>

\* l counts e.
Counts(l, e) ==
    CASE handler[e] = "appeared" -> FALSE
      [] handler[e] = "calling" -> l \notin todo[<<"callback", e>>]
      [] handler[e] = "disappearing" -> l \in todo[<<"callback", e>>]
      [] OTHER -> Announced(e) /\ l \notin todo[<<"creator", e>>]

Counted(l) == {e \in Opposite(l) : Counts(l, e)}

\* current_count is the number of endpoints it was told of and that did not end.
CountKept ==
    Calm => \A l \in Local : life[l] \in {"counted", "checked", "added", "telling", "live"} =>
                current[l] = Cardinality(Counted(l))

\* The inductive invariant.
DiscoveryInv == /\ DiscoveryTypeOK /\ IndexKept /\ LifeKept /\ ShownKept /\ WaiterKept
        /\ TodoKept /\ ToldKept /\ CalmKept /\ CountKept

-----------------------------------------------------------------------------

\* A set of naturals that is not empty has a least member.
LEMMA LeastExists ==
    ASSUME NEW T, T \subseteq Nat, T # {}
    PROVE  \E x \in T : \A y \in T : x <= y
<1> DEFINE R == {ss \in Nat \X Nat : ss[1] < ss[2]}
<1>1. IsWellFoundedOn(R, Nat)
  BY NatLessThanWellFounded DEF OpToRel
<1>2. \A x, y \in Nat : y < x => <<y, x>> \in R
  OBVIOUS
<1> HIDE DEF R
<1>3. PICK x \in T : \A y \in T : ~ (<<y, x>> \in R)
  BY <1>1, WFMin
<1>4. ASSUME NEW y \in T PROVE x <= y
  <2>1. ~ (y < x)
    BY <1>2, <1>3
  <2>2. x \in Nat /\ y \in Nat
    OBVIOUS
  <2> QED BY <2>1, <2>2
<1> QED BY <1>4

\* A fresh Arc is none of those alive.
LEMMA FreshFacts ==
    ASSUME NEW e, UnusedArcs(e) # {}
    PROVE  FreshArc(e) \in 1 .. MaxArc /\ <<e, FreshArc(e)>> \notin Alive(parsed, held)
<1>1. UnusedArcs(e) \subseteq Nat /\ MaxArc \in Nat
  BY DiscoveryAssumption DEF UnusedArcs
<1>2. FreshArc(e) \in UnusedArcs(e)
  BY <1>1, LeastExists DEF FreshArc
<1> QED BY <1>2 DEF UnusedArcs

\* What is alive.
LEMMA AliveFacts ==
    ASSUME NEW p, NEW h
    PROVE  /\ \A e \in Endpoints : p[e] # 0 => <<e, p[e]>> \in Alive(p, h)
           /\ \A l \in Local : h[l] \subseteq Alive(p, h)
           /\ \A a \in Alive(p, h) : \/ a[1] \in Endpoints /\ p[a[1]] # 0 /\ a = <<a[1], p[a[1]]>>
                                     \/ \E l \in Local : a \in h[l]
  BY DEF Alive

\* parse gives every cached entity an Arc and lists it; what the graph shows, and
\* what was parsed and listed, stays.
LEMMA ParseFacts ==
    ASSUME DiscoveryTypeOK, IndexKept, Parse
    PROVE  /\ cached' = {} /\ parsed' \in [Endpoints -> 0 .. MaxArc] /\ index' \subseteq Arcs
           /\ \A e \in Endpoints : /\ Shown(e)' <=> Shown(e)
                                   /\ Shown(e) => parsed'[e] # 0
                                   /\ parsed[e] # 0 => parsed'[e] = parsed[e]
           /\ index \subseteq index' /\ index' \subseteq Alive(parsed', held)
           /\ \A e \in Endpoints : parsed'[e] # 0 => <<e, parsed'[e]>> \in index'
<1>1. /\ cached' = {}
      /\ parsed' = [e \in Endpoints |-> IF e \in ParseNew THEN FreshArc(e) ELSE parsed[e]]
      /\ index' = index \cup {<<e, FreshArc(e)>> : e \in ParseNew}
  BY DEF Parse
<1>2. \A e \in ParseNew : e \in Endpoints /\ FreshArc(e) \in 1 .. MaxArc
  BY FreshFacts DEF Parse, ParseNew, DiscoveryTypeOK
<1>3. \A e \in Endpoints : parsed[e] \in 0 .. MaxArc /\ MaxArc \in Nat
  BY DiscoveryAssumption DEF DiscoveryTypeOK
<1>4. \A e \in Endpoints : e \in ParseNew <=> e \in cached /\ parsed[e] = 0
  BY DEF ParseNew
<1>5. \A e \in Endpoints : parsed'[e] = IF e \in ParseNew THEN FreshArc(e) ELSE parsed[e]
  BY <1>1
<1>6. parsed' \in [Endpoints -> 0 .. MaxArc]
  BY <1>1, <1>2, <1>3
<1>7. index' \subseteq Arcs
  <2>1. index \subseteq Arcs
    BY DEF DiscoveryTypeOK
  <2>2. \A e \in ParseNew : <<e, FreshArc(e)>> \in Arcs
    BY <1>2 DEF Arcs
  <2> QED BY <1>1, <2>1, <2>2
<1>8. ASSUME NEW e \in Endpoints
      PROVE  /\ Shown(e)' <=> Shown(e)
             /\ Shown(e) => parsed'[e] # 0
             /\ parsed[e] # 0 => parsed'[e] = parsed[e]
             /\ parsed'[e] # 0 => <<e, parsed'[e]>> \in index'
  <2>1. CASE e \in ParseNew
    BY <1>1, <1>2, <1>4, <1>5, <2>1 DEF Shown
  <2>2. CASE e \notin ParseNew
    BY <1>1, <1>4, <1>5, <2>2 DEF Shown, IndexKept
  <2> QED BY <2>1, <2>2
<1>9. index' \subseteq Alive(parsed', held)
  <2> SUFFICES ASSUME NEW a \in index' PROVE a \in Alive(parsed', held)
    OBVIOUS
  <2>1. CASE a \in index
    <3>1. \/ a[1] \in Endpoints /\ parsed[a[1]] # 0 /\ a = <<a[1], parsed[a[1]]>>
          \/ \E l \in Local : a \in held[l]
      BY <2>1, AliveFacts DEF IndexKept
    <3>2. CASE a[1] \in Endpoints /\ parsed[a[1]] # 0 /\ a = <<a[1], parsed[a[1]]>>
      <4> DEFINE e == a[1]
      <4>1. e \in Endpoints /\ parsed'[e] = parsed[e] /\ parsed'[e] # 0 /\ a = <<e, parsed'[e]>>
        BY <1>8, <3>2
      <4> HIDE DEF e
      <4> QED BY <4>1, AliveFacts
    <3>3. CASE \E l \in Local : a \in held[l]
      BY <3>3, AliveFacts
    <3> QED BY <3>1, <3>2, <3>3
  <2>2. CASE a \notin index
    <3>1. PICK e \in ParseNew : a = <<e, FreshArc(e)>>
      BY <1>1, <2>2
    <3>2. e \in Endpoints /\ parsed'[e] = FreshArc(e) /\ parsed'[e] # 0
      BY <1>2, <1>5
    <3> QED BY <3>1, <3>2, AliveFacts
  <2> QED BY <2>1, <2>2
<1> QED BY <1>1, <1>6, <1>7, <1>8, <1>9

\* The sequences of samples there are.
LEMMA SampleFacts ==
    /\ Head(<<"put">>) = "put" /\ Head(<<"delete">>) = "delete" /\ Head(<<"put", "delete">>) = "put"
    /\ Tail(<<"put">>) = <<>> /\ Tail(<<"delete">>) = <<>> /\ Tail(<<"put", "delete">>) = <<"delete">>
    /\ Append(<<>>, "put") = <<"put">> /\ Append(<<>>, "delete") = <<"delete">>
    /\ Append(<<"put">>, "delete") = <<"put", "delete">>
    /\ <<"put">> # <<>> /\ <<"delete">> # <<>> /\ <<"put", "delete">> # <<>>
    /\ <<"put">> # <<"delete">> /\ <<"put">> # <<"put", "delete">> /\ <<"delete">> # <<"put", "delete">>
    /\ {<<>>, <<"put">>, <<"delete">>, <<"put", "delete">>} \subseteq Seq({"put", "delete"})
<1>1. Head(<<"put">>) = "put" /\ Head(<<"delete">>) = "delete" /\ Head(<<"put", "delete">>) = "put"
  OBVIOUS
<1>2. Tail(<<"put">>) = <<>> /\ Tail(<<"delete">>) = <<>>
  OBVIOUS
<1>3. Tail(<<"put", "delete">>) = <<"delete">>
  OBVIOUS
<1>4. Append(<<>>, "put") = <<"put">> /\ Append(<<>>, "delete") = <<"delete">>
  OBVIOUS
<1>5. Append(<<"put">>, "delete") = <<"put", "delete">>
  <2> DEFINE s == Append(<<"put">>, "delete")  t == <<"put", "delete">>
  <2>1. s \in Seq({"put", "delete"}) /\ t \in Seq({"put", "delete"}) /\ Len(s) = 2 /\ Len(t) = 2
    OBVIOUS
  <2>2. s[1] = t[1] /\ s[2] = t[2]
    OBVIOUS
  <2> HIDE DEF s, t
  <2>3. \A i \in 1 .. Len(s) : s[i] = t[i]
    BY <2>1, <2>2
  <2>4. s = t
    BY <2>1, <2>3, SeqEqual
  <2> QED BY <2>4 DEF s, t
<1>6. <<"put">> # <<>> /\ <<"delete">> # <<>> /\ <<"put", "delete">> # <<>>
  OBVIOUS
<1>7. <<"put">> # <<"delete">> /\ <<"put">> # <<"put", "delete">> /\ <<"delete">> # <<"put", "delete">>
  OBVIOUS
<1>8. {<<>>, <<"put">>, <<"delete">>, <<"put", "delete">>} \subseteq Seq({"put", "delete"})
  OBVIOUS
<1> QED BY <1>1, <1>2, <1>3, <1>4, <1>5, <1>6, <1>7, <1>8

\* The stages of a life are told apart.
LEMMA Stages ==
    ASSUME DiscoveryTypeOK, NEW e \in Endpoints
    PROVE  /\ life[e] \in {"new", "live", "removed", "gone"} \cup Creating
           /\ Declared(e) <=> life[e] \notin {"new", "gone"}
  BY DEF DiscoveryTypeOK, Declared, Creating

\* Who counts whom changes only with what the definition reads.
LEMMA CountsSame ==
    ASSUME NEW l \in Local, NEW e \in Endpoints,
           life'[e] = life[e], samples'[e] = samples[e], handler'[e] = handler[e],
           l \in todo'[<<"callback", e>>] <=> l \in todo[<<"callback", e>>],
           l \in todo'[<<"creator", e>>] <=> l \in todo[<<"creator", e>>]
    PROVE  Counts(l, e)' <=> Counts(l, e)
  BY DEF Counts, Announced

\* If the same are counted, the count stays.
LEMMA CountedSame ==
    ASSUME NEW l \in Local, \A e \in Opposite(l) : Counts(l, e)' <=> Counts(l, e)
    PROVE  Cardinality(Counted(l))' = Cardinality(Counted(l))
<1>1. Counted(l)' = Counted(l)
  BY DEF Counted
<1> QED BY <1>1

\* A Put is taken.
LEMMA HandlePutStep ==
    ASSUME DiscoveryInv, NEW e \in Endpoints, HandlePut(e)
    PROVE  DiscoveryInv'
<1> USE DEF DiscoveryInv
<1>1. /\ handler[e] = "idle" /\ samples[e] # <<>> /\ Head(samples[e]) = "put"
      /\ samples' = [samples EXCEPT ![e] = Tail(@)]
      /\ cached' = IF parsed[e] = 0 THEN cached \cup {e} ELSE cached
      /\ handler' = [handler EXCEPT ![e] = IF parsed[e] = 0 THEN "appeared" ELSE "notify"]
      /\ raced' = Races(e)
      /\ UNCHANGED <<life, replies, parsed, index, held, todo, current, waiter, told, ghosts>>
  BY DEF HandlePut
<1>2. \/ Declared(e) /\ samples[e] = <<"put">> /\ samples'[e] = <<>>
      \/ life[e] = "gone" /\ samples[e] = <<"put", "delete">> /\ samples'[e] = <<"delete">>
  BY <1>1, SampleFacts DEF LifeKept, Undelivered, DiscoveryTypeOK
<1>3. /\ \A f \in Endpoints \ {e} : samples'[f] = samples[f] /\ handler'[f] = handler[f]
      /\ handler'[e] = IF parsed[e] = 0 THEN "appeared" ELSE "notify"
  BY <1>1 DEF DiscoveryTypeOK
<1>4. Shown(e)' /\ \A f \in Endpoints \ {e} : Shown(f)' <=> Shown(f)
  BY <1>1 DEF Shown
<1>5. samples'[e] \in Seq({"put", "delete"})
  BY <1>2, SampleFacts
<1>6. raced' \in BOOLEAN
  BY <1>1 DEF Races, DiscoveryTypeOK
<1>7. DiscoveryTypeOK'
  BY <1>1, <1>5, <1>6 DEF DiscoveryTypeOK
<1>8. IndexKept'
  BY <1>1 DEF IndexKept
<1>9. LifeKept'
  <2>1. Undelivered(e)'
    BY <1>1, <1>2, <1>3, <1>4 DEF Undelivered, Declared
  <2>2. \A f \in Endpoints \ {e} : Undelivered(f)'
    BY <1>1, <1>3, <1>4 DEF LifeKept, Undelivered, Declared
  <2> QED BY <1>1, <2>1, <2>2 DEF LifeKept
<1>10. ShownKept'
  <2>1. ~ (life'[e] = "gone" /\ samples'[e] = <<>>)
    BY <1>1, <1>2, SampleFacts, Stages
  <2> QED BY <1>1, <1>3, <1>4, <2>1 DEF ShownKept
<1>11. WaiterKept'
  <2>1. Pending'
    BY <1>3 DEF Pending
  <2> QED BY <1>1, <2>1 DEF WaiterKept
<1>12. TodoKept'
  <2>1. \A f \in Endpoints : handler'[f] \notin {"calling", "disappearing"} =>
            handler[f] \notin {"calling", "disappearing"}
    BY <1>1, <1>3
  <2> QED BY <1>1, <2>1 DEF TodoKept
<1>13. ToldKept'
  <2>1. Built' => replies' = {}
    BY <1>1 DEF Built, ToldKept
  <2>2. ASSUME NEW l \in Local, NEW f \in Opposite(l), life'[l] # "new", Declared(f)', Shown(f)'
        PROVE  WillBeTold(l, f)'
    <3>1. f \in Endpoints
      BY DEF Opposite
    <3>2. CASE f = e /\ parsed[e] = 0
      BY <1>3, <3>2 DEF WillBeTold
    <3>3. CASE ~ (f = e /\ parsed[e] = 0)
      <4>1. Shown(f) /\ Declared(f) /\ life[l] # "new"
        BY <1>1, <1>4, <2>2, <3>1, <3>3 DEF Shown, Declared
      <4>2. WillBeTold(l, f)
        BY <4>1 DEF ToldKept
      <4> QED BY <1>1, <1>3, <3>1, <4>2 DEF WillBeTold
    <3> QED BY <3>2, <3>3
  <2> QED BY <1>1, <2>1, <2>2 DEF ToldKept, Opposite
<1>14. ASSUME Calm' PROVE CalmKept' /\ CountKept'
  <2>1. Calm /\ \A l \in Local : life[l] \in Creating => l = e /\ life[l] = "registered"
    BY <1>1, <1>14 DEF Calm, Races
  <2>2. CalmKept'
    <3>1. \A l \in Local : life'[l] \in Creating => Alone(l)'
      BY <1>1, <1>3, <2>1 DEF CalmKept, Alone
    <3>2. \A l \in Local : life'[l] \in {"new", "registered"} => current'[l] = 0
      BY <1>1, <2>1 DEF CalmKept
    <3>3. \A l \in Local \ {e} : CalmLocal(l)'
      BY <1>1, <1>3, <1>4, <2>1 DEF CalmKept, CalmLocal, PutPending, Endpoints
    <3>4. e \in Local => CalmLocal(e)'
      BY <1>1, <1>2, <1>3, <2>1, SampleFacts DEF CalmKept, CalmLocal, PutPending, Creating
    <3>5. \A f \in Remote \ {e} : CalmRemote(f)'
      BY <1>1, <1>3, <1>4, <2>1 DEF CalmKept, CalmRemote, PutPending, Built, Endpoints
    <3>6. CalmRemote(e)'
      BY <1>2, <1>4, SampleFacts DEF CalmRemote, PutPending
    <3> QED BY <3>1, <3>2, <3>3, <3>4, <3>5, <3>6 DEF CalmKept
  <2>3. CountKept'
    <3> SUFFICES ASSUME NEW l \in Local, life[l] \in {"counted", "checked", "added", "telling", "live"}
                 PROVE  current[l] = Cardinality(Counted(l))'
      BY <1>1 DEF CountKept
    <3>1. current[l] = Cardinality(Counted(l))
      BY <2>1 DEF CountKept
    <3>2. Counts(l, e)' <=> Counts(l, e)
      <4>1. e \in Local => life[e] \in {"registered", "live"}
        BY <1>2, <2>1, Stages, SampleFacts DEF CalmKept, CalmLocal, PutPending, Creating, Declared
      <4>2. e \in Local /\ life[e] = "live" => parsed[e] # 0
        BY DEF ShownKept
      <4>3. ~ (e \in Local /\ life[e] = "live") => parsed[e] = 0
        BY <1>2, <2>1, <4>1 DEF CalmKept, CalmLocal, CalmRemote, PutPending, Built, Shown, Endpoints
      <4>4. todo[<<"creator", e>>] = {}
        BY <1>1, <1>2, <4>1, Stages DEF TodoKept, LifeKept, Endpoints
      <4>5. handler[e] = "idle" /\ todo' = todo /\ life' = life
        BY <1>1
      <4>6. CASE e \in Local /\ life[e] = "live"
        <5>1. handler'[e] = "notify"
          BY <1>3, <4>2, <4>6
        <5> QED BY <4>5, <4>6, <5>1 DEF Counts, Announced
      <4>7. CASE ~ (e \in Local /\ life[e] = "live")
        <5>1. handler'[e] = "appeared"
          BY <1>3, <4>3, <4>7
        <5>2. ~ Announced(e)
          BY <1>2, <4>1, <4>7, SampleFacts DEF Announced, LifeKept, Endpoints
        <5> QED BY <4>5, <5>1, <5>2 DEF Counts
      <4> QED BY <4>6, <4>7
    <3>3. \A f \in Endpoints \ {e} : Counts(l, f)' <=> Counts(l, f)
      BY <1>1, <1>3, CountsSame
    <3> QED BY <3>1, <3>2, <3>3, CountedSame DEF Opposite
  <2> QED BY <2>2, <2>3
<1>15. ASSUME ~ Calm' PROVE CalmKept' /\ CountKept'
  BY <1>15 DEF CalmKept, CountKept
<1>16. CalmKept' /\ CountKept'
  BY <1>14, <1>15
<1> QED BY <1>7, <1>8, <1>9, <1>10, <1>11, <1>12, <1>13, <1>16

\* The callbacks to call after one entry was set.
LEMMA TodoPut ==
    ASSUME DiscoveryTypeOK, NEW x \in {"callback", "creator"}, NEW e \in Endpoints, NEW X,
           todo' = [todo EXCEPT ![<<x, e>>] = X], X \in SUBSET Local
    PROVE  /\ todo' \in [Triggers -> SUBSET Local]
           /\ todo'[<<x, e>>] = X
           /\ \A y \in {"callback", "creator"}, f \in Endpoints :
                 y # x \/ f # e => todo'[<<y, f>>] = todo[<<y, f>>]
<1>1. \A y \in {"callback", "creator"}, f \in Endpoints : <<y, f>> \in Triggers
  BY DEF Triggers
<1>2. todo \in [Triggers -> SUBSET Local]
  BY DEF DiscoveryTypeOK
<1>3. \A y \in {"callback", "creator"}, f \in Endpoints : y # x \/ f # e => <<y, f>> # <<x, e>>
  OBVIOUS
<1> QED BY <1>1, <1>2, <1>3

\* The callbacks an appearance or an end concerns.
LEMMA ToNotifyFacts ==
    ASSUME NEW e \in Endpoints
    PROVE  /\ ToNotify(e) \in SUBSET Local
           /\ \A l \in ToNotify(e) : life[l] # "new" /\ Kind[l] # Kind[e]
           /\ \A l \in Local : life[l] # "new" /\ e \in Opposite(l) => l \in ToNotify(e)
  BY DEF ToNotify, Registered, Opposite

\* The callbacks still to call are of the other kind, after some were collected.
LEMMA TodoCollected ==
    ASSUME TodoKept, NEW z \in {"callback", "creator"}, NEW e \in Endpoints,
           \A l \in Local : life[l] # "new" => life'[l] # "new",
           todo'[<<z, e>>] = ToNotify(e),
           \A y \in {"callback", "creator"}, f \in Endpoints :
              y # z \/ f # e => todo'[<<y, f>>] = todo[<<y, f>>]
    PROVE  \A f \in Endpoints, x \in {"callback", "creator"} :
              todo'[<<x, f>>] \subseteq {l \in Local : life'[l] # "new" /\ Kind[l] # Kind[f]}
<1> SUFFICES ASSUME NEW f \in Endpoints, NEW x \in {"callback", "creator"}, NEW l \in todo'[<<x, f>>]
             PROVE  l \in Local /\ life'[l] # "new" /\ Kind[l] # Kind[f]
  OBVIOUS
<1>1. CASE x = z /\ f = e
  <2>1. l \in ToNotify(f)
    BY <1>1
  <2> QED BY <2>1, ToNotifyFacts
<1>2. CASE x # z \/ f # e
  <2>1. l \in todo[<<x, f>>]
    BY <1>2
  <2> QED BY <2>1 DEF TodoKept
<1> QED BY <1>1, <1>2

\* A Delete is taken.
LEMMA HandleDeleteStep ==
    ASSUME DiscoveryInv, NEW e \in Endpoints, HandleDelete(e)
    PROVE  DiscoveryInv'
<1> USE DEF DiscoveryInv
<1>1. /\ handler[e] = "idle" /\ samples[e] # <<>> /\ Head(samples[e]) = "delete"
      /\ samples' = [samples EXCEPT ![e] = Tail(@)]
      /\ todo' = [todo EXCEPT ![<<"callback", e>>] = ToNotify(e)]
      /\ handler' = [handler EXCEPT ![e] = "disappearing"]
      /\ raced' = Races(e)
      /\ UNCHANGED <<life, replies, cached, parsed, index, held, current, waiter, told, ghosts>>
  BY DEF HandleDelete, graphVars
<1>2. life[e] = "gone" /\ samples[e] = <<"delete">> /\ samples'[e] = <<>>
  BY <1>1, SampleFacts DEF LifeKept, Undelivered, DiscoveryTypeOK
<1>3. /\ \A f \in Endpoints \ {e} : samples'[f] = samples[f] /\ handler'[f] = handler[f]
      /\ handler'[e] = "disappearing"
  BY <1>1 DEF DiscoveryTypeOK
<1>4. \A f \in Endpoints : Shown(f)' <=> Shown(f)
  BY <1>1 DEF Shown
<1>5. /\ todo' \in [Triggers -> SUBSET Local] /\ todo'[<<"callback", e>>] = ToNotify(e)
      /\ \A y \in {"callback", "creator"}, f \in Endpoints :
            y # "callback" \/ f # e => todo'[<<y, f>>] = todo[<<y, f>>]
  BY <1>1, ToNotifyFacts, TodoPut
<1>6. raced' \in BOOLEAN /\ samples'[e] \in Seq({"put", "delete"})
  BY <1>1, <1>2, SampleFacts DEF Races, DiscoveryTypeOK
<1>7. DiscoveryTypeOK'
  BY <1>1, <1>5, <1>6 DEF DiscoveryTypeOK
<1>8. IndexKept'
  BY <1>1 DEF IndexKept
<1>9. LifeKept'
  <2>1. Undelivered(e)'
    BY <1>1, <1>2, <1>3 DEF Undelivered
  <2>2. \A f \in Endpoints \ {e} : Undelivered(f)'
    BY <1>1, <1>3, <1>4 DEF LifeKept, Undelivered, Declared
  <2> QED BY <1>1, <2>1, <2>2 DEF LifeKept
<1>10. ShownKept'
  BY <1>1, <1>2, <1>3, <1>4 DEF ShownKept, Creating
<1>11. WaiterKept'
  <2>1. Pending'
    BY <1>3 DEF Pending
  <2> QED BY <1>1, <2>1 DEF WaiterKept
<1>12. TodoKept'
  <2>1. \A f \in Endpoints, x \in {"callback", "creator"} :
           todo'[<<x, f>>] \subseteq {l \in Local : life'[l] # "new" /\ Kind[l] # Kind[f]}
    BY <1>1, <1>5, TodoCollected
  <2>2. ASSUME NEW f \in Endpoints, handler'[f] \notin {"calling", "disappearing"}
        PROVE  todo'[<<"callback", f>>] = {}
    BY <1>3, <1>5, <2>2 DEF TodoKept
  <2>3. ASSUME NEW f \in Endpoints, life'[f] # "telling" PROVE todo'[<<"creator", f>>] = {}
    BY <1>1, <1>5, <2>3 DEF TodoKept
  <2> QED BY <2>1, <2>2, <2>3 DEF TodoKept
<1>13. ToldKept'
  <2>1. Built' => replies' = {}
    BY <1>1 DEF Built, ToldKept
  <2>2. ASSUME NEW l \in Local, NEW f \in Opposite(l), life'[l] # "new", Declared(f)', Shown(f)'
        PROVE  WillBeTold(l, f)'
    <3>1. f \in Endpoints /\ f # e
      BY <1>1, <1>2, <2>2 DEF Opposite, Declared, Creating
    <3>2. WillBeTold(l, f)
      BY <1>1, <1>4, <2>2, <3>1 DEF ToldKept, Declared
    <3> QED BY <1>1, <1>3, <1>5, <3>1, <3>2 DEF WillBeTold
  <2> QED BY <1>1, <2>1, <2>2 DEF ToldKept, Opposite
<1>14. ASSUME Calm' PROVE CalmKept' /\ CountKept'
  <2>1. Calm /\ \A l \in Local : life[l] \notin Creating
    BY <1>1, <1>2, <1>14 DEF Calm, Races
  <2>2. CalmKept'
    <3>1. \A l \in Local : life'[l] \notin Creating
      BY <1>1, <2>1
    <3>2. \A l \in Local : life'[l] \in {"new", "registered"} => current'[l] = 0
      BY <1>1, <2>1 DEF CalmKept
    <3>3. \A l \in Local \ {e} : CalmLocal(l)'
      BY <1>1, <1>3, <1>4, <1>5, <2>1 DEF CalmKept, CalmLocal, PutPending, Endpoints
    <3>4. e \in Local => CalmLocal(e)'
      BY <1>1, <1>2, SampleFacts DEF CalmLocal, PutPending
    <3>5. \A f \in Remote \ {e} : CalmRemote(f)'
      BY <1>1, <1>3, <1>4, <2>1 DEF CalmKept, CalmRemote, PutPending, Built, Endpoints
    <3>6. CalmRemote(e)'
      BY <1>2, SampleFacts DEF CalmRemote, PutPending
    <3> QED BY <3>1, <3>2, <3>3, <3>4, <3>5, <3>6 DEF CalmKept
  <2>3. CountKept'
    <3> SUFFICES ASSUME NEW l \in Local, life[l] \in {"counted", "checked", "added", "telling", "live"}
                 PROVE  current[l] = Cardinality(Counted(l))'
      BY <1>1 DEF CountKept
    <3>1. current[l] = Cardinality(Counted(l))
      BY <2>1 DEF CountKept
    <3>2. e \in Opposite(l) => (Counts(l, e)' <=> Counts(l, e))
      <4>1. e \in Opposite(l) => Counts(l, e)'
        BY <1>3, <1>5, ToNotifyFacts DEF Counts
      <4>2. Counts(l, e)
        BY <1>1, <1>2 DEF Counts, Announced, TodoKept
      <4> QED BY <4>1, <4>2
    <3>3. \A f \in Endpoints \ {e} : Counts(l, f)' <=> Counts(l, f)
      BY <1>1, <1>3, <1>5, CountsSame
    <3> QED BY <3>1, <3>2, <3>3, CountedSame DEF Opposite
  <2> QED BY <2>2, <2>3
<1>15. ASSUME ~ Calm' PROVE CalmKept' /\ CountKept'
  BY <1>15 DEF CalmKept, CountKept
<1>16. CalmKept' /\ CountKept'
  BY <1>14, <1>15
<1> QED BY <1>7, <1>8, <1>9, <1>10, <1>11, <1>12, <1>13, <1>16

\* The callbacks of an appearance are collected.
LEMMA CollectStep ==
    ASSUME DiscoveryInv, NEW e \in Endpoints, Collect(e)
    PROVE  DiscoveryInv'
<1> USE DEF DiscoveryInv
<1>1. /\ handler[e] = "appeared"
      /\ handler' = [handler EXCEPT ![e] = "calling"]
      /\ todo' = [todo EXCEPT ![<<"callback", e>>] = ToNotify(e)]
      /\ UNCHANGED <<life, samples, replies, cached, parsed, index, held, current, waiter, told,
                     ghosts, raced>>
  BY DEF Collect, graphVars
<1>2. /\ \A f \in Endpoints \ {e} : handler'[f] = handler[f]
      /\ handler'[e] = "calling"
  BY <1>1 DEF DiscoveryTypeOK
<1>3. \A f \in Endpoints : Shown(f)' <=> Shown(f)
  BY <1>1 DEF Shown
<1>4. /\ todo' \in [Triggers -> SUBSET Local] /\ todo'[<<"callback", e>>] = ToNotify(e)
      /\ \A y \in {"callback", "creator"}, f \in Endpoints :
            y # "callback" \/ f # e => todo'[<<y, f>>] = todo[<<y, f>>]
  BY <1>1, ToNotifyFacts, TodoPut
<1>5. DiscoveryTypeOK'
  BY <1>1, <1>4 DEF DiscoveryTypeOK
<1>6. IndexKept'
  BY <1>1 DEF IndexKept
<1>7. LifeKept'
  <2>1. Undelivered(e)'
    BY <1>1, <1>2, <1>3 DEF LifeKept, Undelivered, Declared
  <2>2. \A f \in Endpoints \ {e} : Undelivered(f)'
    BY <1>1, <1>2, <1>3 DEF LifeKept, Undelivered, Declared
  <2> QED BY <1>1, <2>1, <2>2 DEF LifeKept
<1>8. ShownKept'
  BY <1>1, <1>2, <1>3 DEF ShownKept
<1>9. WaiterKept'
  <2>1. Pending'
    BY <1>2 DEF Pending
  <2> QED BY <1>1, <2>1 DEF WaiterKept
<1>10. TodoKept'
  <2>1. \A f \in Endpoints, x \in {"callback", "creator"} :
           todo'[<<x, f>>] \subseteq {l \in Local : life'[l] # "new" /\ Kind[l] # Kind[f]}
    BY <1>1, <1>4, TodoCollected
  <2>2. ASSUME NEW f \in Endpoints, handler'[f] \notin {"calling", "disappearing"}
        PROVE  todo'[<<"callback", f>>] = {}
    BY <1>2, <1>4, <2>2 DEF TodoKept
  <2>3. ASSUME NEW f \in Endpoints, life'[f] # "telling" PROVE todo'[<<"creator", f>>] = {}
    BY <1>1, <1>4, <2>3 DEF TodoKept
  <2> QED BY <2>1, <2>2, <2>3 DEF TodoKept
<1>11. ToldKept'
  <2>1. Built' => replies' = {}
    BY <1>1 DEF Built, ToldKept
  <2>2. ASSUME NEW l \in Local, NEW f \in Opposite(l), life'[l] # "new", Declared(f)', Shown(f)'
        PROVE  WillBeTold(l, f)'
    <3>1. f \in Endpoints
      BY DEF Opposite
    <3>2. CASE f = e
      BY <1>1, <1>2, <1>4, <2>2, <3>2, ToNotifyFacts DEF WillBeTold
    <3>3. CASE f # e
      <4>1. WillBeTold(l, f)
        BY <1>1, <1>3, <2>2, <3>1 DEF ToldKept, Declared
      <4> QED BY <1>1, <1>2, <1>4, <3>1, <3>3, <4>1 DEF WillBeTold
    <3> QED BY <3>2, <3>3
  <2> QED BY <1>1, <2>1, <2>2 DEF ToldKept, Opposite
<1>12. ASSUME Calm' PROVE CalmKept' /\ CountKept'
  <2>1. Calm
    BY <1>1, <1>12 DEF Calm
  <2>2. CalmKept'
    <3>1. \A l \in Local : life'[l] \in Creating => Alone(l)'
      BY <1>1, <1>2, <2>1 DEF CalmKept, Alone
    <3>2. \A l \in Local : life'[l] \in {"new", "registered"} => current'[l] = 0
      BY <1>1, <2>1 DEF CalmKept
    <3>3. \A l \in Local : CalmLocal(l)'
      BY <1>1, <1>2, <1>3, <1>4, <2>1 DEF CalmKept, CalmLocal, PutPending, Endpoints
    <3>4. \A f \in Remote : CalmRemote(f)'
      BY <1>1, <1>3, <2>1 DEF CalmKept, CalmRemote, PutPending, Built, Endpoints
    <3> QED BY <3>1, <3>2, <3>3, <3>4 DEF CalmKept
  <2>3. CountKept'
    <3> SUFFICES ASSUME NEW l \in Local, life[l] \in {"counted", "checked", "added", "telling", "live"}
                 PROVE  current[l] = Cardinality(Counted(l))'
      BY <1>1 DEF CountKept
    <3>1. current[l] = Cardinality(Counted(l))
      BY <2>1 DEF CountKept
    <3>2. e \in Opposite(l) => (Counts(l, e)' <=> Counts(l, e))
      BY <1>1, <1>2, <1>4, ToNotifyFacts DEF Counts
    <3>3. \A f \in Endpoints \ {e} : Counts(l, f)' <=> Counts(l, f)
      BY <1>1, <1>2, <1>4, CountsSame
    <3> QED BY <3>1, <3>2, <3>3, CountedSame DEF Opposite
  <2> QED BY <2>2, <2>3
<1>13. ASSUME ~ Calm' PROVE CalmKept' /\ CountKept'
  BY <1>13 DEF CalmKept, CountKept
<1>14. CalmKept' /\ CountKept'
  BY <1>12, <1>13
<1> QED BY <1>5, <1>6, <1>7, <1>8, <1>9, <1>10, <1>11, <1>14

\* There are finitely many endpoints to count.
LEMMA CountedFinite ==
    ASSUME NEW S, S \subseteq Endpoints
    PROVE  IsFiniteSet(S)
<1>1. IsFiniteSet(Endpoints)
  BY FS_Union, DiscoveryAssumption DEF Endpoints
<1> QED BY <1>1, FS_Subset

\* With the callback the one it is called for counts one more, or one less.
LEMMA CountCalled ==
    ASSUME DiscoveryTypeOK, CountKept, Calm, life' = life,
           NEW e \in Endpoints, NEW l \in Local, NEW k \in {"up", "down"}, e \in Opposite(l),
           current'[l] = (IF k = "up" THEN current[l] + 1 ELSE IF current[l] = 0 THEN 0 ELSE current[l] - 1),
           \A m \in Local \ {l} : current'[m] = current[m],
           \A m \in Local, f \in Endpoints : m # l \/ f # e => (Counts(m, f)' <=> Counts(m, f)),
           Counts(l, e) <=> k # "up", Counts(l, e)' <=> k = "up"
    PROVE  CountKept'
<1> SUFFICES ASSUME NEW m \in Local, life[m] \in {"counted", "checked", "added", "telling", "live"}
             PROVE  current'[m] = Cardinality(Counted(m))'
  BY DEF CountKept
<1>1. current[m] = Cardinality(Counted(m)) /\ current[m] \in Nat
  BY DEF CountKept, DiscoveryTypeOK
<1>2. CASE m # l
  BY <1>1, <1>2, CountedSame DEF Opposite
<1>3. CASE m = l
  <2>1. IsFiniteSet(Counted(l))
    BY CountedFinite DEF Counted, Opposite
  <2>2. CASE k = "up"
    <3>1. Counted(l)' = Counted(l) \cup {e} /\ e \notin Counted(l)
      BY <2>2 DEF Counted, Opposite
    <3>2. Cardinality(Counted(l)') = Cardinality(Counted(l)) + 1
      BY <2>1, <3>1, FS_AddElement
    <3> QED BY <1>1, <1>3, <2>2, <3>2
  <2>3. CASE k # "up"
    <3>1. Counted(l)' = Counted(l) \ {e} /\ e \in Counted(l)
      BY <2>3 DEF Counted, Opposite
    <3>2. Cardinality(Counted(l)') = Cardinality(Counted(l)) - 1
      BY <2>1, <3>1, FS_RemoveElement
    <3>3. Cardinality(Counted(l)) # 0
      BY <2>1, <3>1, FS_EmptySet
    <3> QED BY <1>1, <1>3, <2>3, <3>2, <3>3
  <2> QED BY <2>2, <2>3
<1> QED BY <1>2, <1>3

\* One of the callbacks is called by the liveliness callback.
LEMMA HandlerCallsStep ==
    ASSUME DiscoveryInv, NEW e \in Endpoints, NEW l \in Local, HandlerCalls(e, l)
    PROVE  DiscoveryInv'
<1> USE DEF DiscoveryInv
<1> DEFINE k == IF handler[e] = "calling" THEN "up" ELSE "down"
<1>1. /\ handler[e] \in {"calling", "disappearing"} /\ l \in todo[<<"callback", e>>]
      /\ todo' = [todo EXCEPT ![<<"callback", e>>] = @ \ {l}]
      /\ current' = [current EXCEPT ![l] = IF k = "up" THEN @ + 1 ELSE IF @ = 0 THEN 0 ELSE @ - 1]
      /\ told' = [told EXCEPT ![l] = IF k = "up" THEN @ \cup {e} ELSE @]
      /\ UNCHANGED <<life, samples, handler, replies, cached, parsed, index, held, waiter, ghosts, raced>>
  BY DEF HandlerCalls, graphVars, MatchedCallback
<1>2. /\ l # e /\ life[l] # "new" /\ e \in Opposite(l) /\ l \in todo[<<"callback", e>>]
      /\ todo' \in [Triggers -> SUBSET Local]
      /\ todo'[<<"callback", e>>] = todo[<<"callback", e>>] \ {l}
      /\ \A y \in {"callback", "creator"}, f \in Endpoints :
            y # "callback" \/ f # e => todo'[<<y, f>>] = todo[<<y, f>>]
      /\ current' \in [Local -> Nat] /\ told' \in [Local -> SUBSET Endpoints]
      /\ current'[l] = (IF k = "up" THEN current[l] + 1 ELSE IF current[l] = 0 THEN 0 ELSE current[l] - 1)
      /\ told'[l] = (IF k = "up" THEN told[l] \cup {e} ELSE told[l])
      /\ \A m \in Local \ {l} : current'[m] = current[m] /\ told'[m] = told[m]
  <2> DEFINE X == todo[<<"callback", e>>] \ {l}
  <2>1. life[l] # "new" /\ Kind[l] # Kind[e] /\ X \in SUBSET Local
    BY <1>1 DEF TodoKept
  <2>2. e \in Opposite(l) /\ l # e
    BY <2>1 DEF Opposite
  <2>3. todo' = [todo EXCEPT ![<<"callback", e>>] = X]
    BY <1>1
  <2>4. /\ todo' \in [Triggers -> SUBSET Local] /\ todo'[<<"callback", e>>] = X
        /\ \A y \in {"callback", "creator"}, f \in Endpoints :
              y # "callback" \/ f # e => todo'[<<y, f>>] = todo[<<y, f>>]
    <3> HIDE DEF X
    <3> QED BY <2>1, <2>3, TodoPut
  <2>5. current \in [Local -> Nat] /\ told \in [Local -> SUBSET Endpoints]
    BY DEF DiscoveryTypeOK
  <2>6. current' \in [Local -> Nat] /\ told' \in [Local -> SUBSET Endpoints]
    BY <1>1, <2>5
  <2>7. /\ current'[l] = (IF k = "up" THEN current[l] + 1 ELSE IF current[l] = 0 THEN 0 ELSE current[l] - 1)
        /\ told'[l] = (IF k = "up" THEN told[l] \cup {e} ELSE told[l])
        /\ \A m \in Local \ {l} : current'[m] = current[m] /\ told'[m] = told[m]
    <3> HIDE DEF k
    <3> QED BY <1>1, <2>5
  <2> QED BY <1>1, <2>1, <2>2, <2>4, <2>6, <2>7
<1>3. \A f \in Endpoints : Shown(f)' <=> Shown(f)
  BY <1>1 DEF Shown
<1>4. DiscoveryTypeOK'
  BY <1>1, <1>2 DEF DiscoveryTypeOK
<1>5. IndexKept'
  BY <1>1 DEF IndexKept
<1>6. LifeKept' /\ ShownKept'
  BY <1>1, <1>3 DEF LifeKept, Undelivered, Declared, ShownKept
<1>7. WaiterKept'
  BY <1>1, <1>3 DEF WaiterKept, Pending
<1>8. TodoKept'
  <2>1. \A f \in Endpoints, x \in {"callback", "creator"} : todo'[<<x, f>>] \subseteq todo[<<x, f>>]
    BY <1>2
  <2> QED BY <1>1, <2>1 DEF TodoKept
<1>9. ToldKept'
  <2>1. Built' => replies' = {}
    BY <1>1 DEF Built, ToldKept
  <2>2. ASSUME NEW m \in Local, NEW f \in Opposite(m), life'[m] # "new", Declared(f)', Shown(f)'
        PROVE  WillBeTold(m, f)'
    <3>1. f \in Endpoints /\ WillBeTold(m, f)
      BY <1>1, <1>3, <2>2 DEF Opposite, ToldKept, Declared
    <3>2. CASE m = l /\ f = e /\ k = "up"
      BY <1>2, <3>2 DEF WillBeTold
    <3>3. CASE ~ (m = l /\ f = e /\ k = "up")
      <4>1. told[m] \subseteq told'[m]
        BY <1>2
      <4>2. handler[f] = "calling" /\ m \in todo[<<"callback", f>>] => m \in todo'[<<"callback", f>>]
        BY <1>2, <3>1, <3>3
      <4> QED BY <1>1, <1>2, <3>1, <4>1, <4>2 DEF WillBeTold
    <3> QED BY <3>2, <3>3
  <2> QED BY <1>1, <2>1, <2>2 DEF ToldKept, Opposite
<1>10. ASSUME Calm' PROVE CalmKept' /\ CountKept'
  <2>1. Calm
    BY <1>1, <1>10 DEF Calm
  <2>2. life[l] # "registered"
    BY <1>1, <1>2, <2>1 DEF CalmKept, Alone, Creating
  <2>3. CalmKept'
    <3>1. \A m \in Local : life'[m] \in Creating => Alone(m)'
      BY <1>1, <2>1 DEF CalmKept, Alone
    <3>2. \A m \in Local : life'[m] \in {"new", "registered"} => current'[m] = 0
      BY <1>1, <1>2, <2>1, <2>2 DEF CalmKept
    <3>3. \A m \in Local : CalmLocal(m)'
      BY <1>1, <1>2, <1>3, <2>1 DEF CalmKept, CalmLocal, PutPending, Endpoints
    <3>4. \A f \in Remote : CalmRemote(f)'
      BY <1>1, <1>3, <2>1 DEF CalmKept, CalmRemote, PutPending, Built, Endpoints
    <3> QED BY <3>1, <3>2, <3>3, <3>4 DEF CalmKept
  <2>4. CountKept'
    <3>1. ASSUME NEW m \in Local, NEW f \in Endpoints, m # l \/ f # e
          PROVE  Counts(m, f)' <=> Counts(m, f)
      <4>1. m \in todo'[<<"callback", f>>] <=> m \in todo[<<"callback", f>>]
        BY <1>2, <3>1
      <4> QED BY <1>1, <1>2, <4>1, CountsSame
    <3>2. (Counts(l, e) <=> k # "up") /\ (Counts(l, e)' <=> k = "up")
      BY <1>1, <1>2 DEF Counts
    <3>3. k \in {"up", "down"}
      OBVIOUS
    <3> HIDE DEF k
    <3> QED BY <1>1, <1>2, <2>1, <3>1, <3>2, <3>3, CountCalled
  <2> QED BY <2>3, <2>4
<1>11. ASSUME ~ Calm' PROVE CalmKept' /\ CountKept'
  BY <1>11 DEF CalmKept, CountKept
<1>12. CalmKept' /\ CountKept'
  BY <1>10, <1>11
<1> QED BY <1>4, <1>5, <1>6, <1>7, <1>8, <1>9, <1>12

\* An index cut down to what is alive still lists every parsed entity.
LEMMA IndexCut ==
    ASSUME NEW p, NEW h, NEW i, NEW j, j = i \cap Alive(p, h),
           \A f \in Endpoints : p[f] # 0 => <<f, p[f]>> \in i
    PROVE  /\ j \subseteq Alive(p, h)
           /\ \A f \in Endpoints : p[f] # 0 => <<f, p[f]>> \in j
<1>1. \A f \in Endpoints : p[f] # 0 => <<f, p[f]>> \in Alive(p, h)
  BY AliveFacts
<1> QED BY <1>1

\* The end of a token: GraphData::remove.
LEMMA HandlerRemovesStep ==
    ASSUME DiscoveryInv, NEW e \in Endpoints, HandlerRemoves(e)
    PROVE  DiscoveryInv'
<1> USE DEF DiscoveryInv
<1>1. /\ handler[e] = "disappearing" /\ todo[<<"callback", e>>] = {}
      /\ handler' = [handler EXCEPT ![e] = "notify"]
      /\ cached' = cached \ {e}
      /\ parsed' = [parsed EXCEPT ![e] = 0]
      /\ index' = index \cap Alive(parsed', held)
      /\ raced' = Races(e)
      /\ UNCHANGED <<life, samples, replies, held, todo, current, waiter, told, ghosts>>
  BY DEF HandlerRemoves
<1>2. life[e] = "gone" /\ samples[e] = <<>>
  BY <1>1 DEF LifeKept, Undelivered
<1>3. /\ \A f \in Endpoints \ {e} : handler'[f] = handler[f] /\ parsed'[f] = parsed[f]
      /\ handler'[e] = "notify" /\ parsed'[e] = 0
  BY <1>1 DEF DiscoveryTypeOK
<1>4. ~ Shown(e)' /\ \A f \in Endpoints \ {e} : Shown(f)' <=> Shown(f)
  BY <1>1, <1>3 DEF Shown
<1>5. raced' \in BOOLEAN /\ MaxArc \in Nat
  BY <1>1, DiscoveryAssumption DEF Races, DiscoveryTypeOK
<1>6. DiscoveryTypeOK'
  <2>1. parsed' \in [Endpoints -> 0 .. MaxArc]
    <3>1. parsed \in [Endpoints -> 0 .. MaxArc]
      BY DEF DiscoveryTypeOK
    <3>2. 0 \in 0 .. MaxArc
      BY ONLY <1>5
    <3>3. parsed' = [parsed EXCEPT ![e] = 0]
      BY <1>1
    <3> QED BY ONLY <3>1, <3>2, <3>3, e \in Endpoints
  <2>2. index \subseteq Arcs
    BY DEF DiscoveryTypeOK
  <2>3. index' \subseteq Arcs
    BY <1>1, <2>2
  <2> QED BY <1>1, <1>5, <2>1, <2>3 DEF DiscoveryTypeOK
<1>7. IndexKept'
  <2>1. \A f \in Endpoints : parsed'[f] # 0 => <<f, parsed'[f]>> \in index
    BY <1>3 DEF IndexKept
  <2>2. index' = index \cap Alive(parsed', held')
    BY <1>1
  <2>3. /\ index' \subseteq Alive(parsed', held')
        /\ \A f \in Endpoints : parsed'[f] # 0 => <<f, parsed'[f]>> \in index'
    BY <2>1, <2>2, IndexCut
  <2>4. \A l \in Local : life'[l] \notin {"checked", "added", "telling"} => held'[l] = {}
    BY <1>1 DEF IndexKept
  <2> QED BY <2>3, <2>4 DEF IndexKept
<1>8. LifeKept'
  <2>1. Undelivered(e)'
    BY <1>1, <1>2, <1>3 DEF Undelivered
  <2>2. \A f \in Endpoints \ {e} : Undelivered(f)'
    BY <1>1, <1>3, <1>4 DEF LifeKept, Undelivered, Declared
  <2> QED BY <1>1, <2>1, <2>2 DEF LifeKept
<1>9. ShownKept'
  BY <1>1, <1>2, <1>3, <1>4 DEF ShownKept, Creating, Endpoints
<1>10. WaiterKept'
  <2>1. Pending'
    BY <1>3 DEF Pending
  <2> QED BY <1>1, <2>1 DEF WaiterKept
<1>11. TodoKept'
  BY <1>1, <1>3 DEF TodoKept
<1>12. ToldKept'
  <2>1. Built' => replies' = {}
    BY <1>1 DEF Built, ToldKept
  <2>2. ASSUME NEW l \in Local, NEW f \in Opposite(l), life'[l] # "new", Declared(f)', Shown(f)'
        PROVE  WillBeTold(l, f)'
    <3>1. f \in Endpoints /\ f # e
      BY <1>4, <2>2 DEF Opposite
    <3>2. WillBeTold(l, f)
      BY <1>1, <1>4, <2>2, <3>1 DEF ToldKept, Declared
    <3> QED BY <1>1, <1>3, <3>1, <3>2 DEF WillBeTold
  <2> QED BY <1>1, <2>1, <2>2 DEF ToldKept, Opposite
<1>13. ASSUME Calm' PROVE CalmKept' /\ CountKept'
  <2>1. Calm /\ \A l \in Local : life[l] \notin Creating
    BY <1>1, <1>2, <1>13 DEF Calm, Races
  <2>2. CalmKept'
    <3>1. \A l \in Local : life'[l] \notin Creating
      BY <1>1, <2>1
    <3>2. \A l \in Local : life'[l] \in {"new", "registered"} => current'[l] = 0
      BY <1>1, <2>1 DEF CalmKept
    <3>3. \A l \in Local \ {e} : CalmLocal(l)'
      BY <1>1, <1>3, <1>4, <2>1 DEF CalmKept, CalmLocal, PutPending, Endpoints
    <3>4. e \in Local => CalmLocal(e)'
      BY <1>1, <1>2, SampleFacts DEF CalmLocal, PutPending
    <3>5. \A f \in Remote \ {e} : CalmRemote(f)'
      BY <1>1, <1>3, <1>4, <2>1 DEF CalmKept, CalmRemote, PutPending, Built, Endpoints
    <3>6. CalmRemote(e)'
      BY <1>1, <1>2, SampleFacts DEF CalmRemote, PutPending
    <3> QED BY <3>1, <3>2, <3>3, <3>4, <3>5, <3>6 DEF CalmKept
  <2>3. CountKept'
    <3> SUFFICES ASSUME NEW l \in Local, life[l] \in {"counted", "checked", "added", "telling", "live"}
                 PROVE  current[l] = Cardinality(Counted(l))'
      BY <1>1 DEF CountKept
    <3>1. current[l] = Cardinality(Counted(l))
      BY <2>1 DEF CountKept
    <3>2. Counts(l, e)' <=> Counts(l, e)
      BY <1>1, <1>2, <1>3, SampleFacts DEF Counts, Announced
    <3>3. \A f \in Endpoints \ {e} : Counts(l, f)' <=> Counts(l, f)
      BY <1>1, <1>3, CountsSame
    <3> QED BY <3>1, <3>2, <3>3, CountedSame DEF Opposite
  <2> QED BY <2>2, <2>3
<1>14. ASSUME ~ Calm' PROVE CalmKept' /\ CountKept'
  BY <1>14 DEF CalmKept, CountKept
<1>15. CalmKept' /\ CountKept'
  BY <1>13, <1>14
<1> QED BY <1>6, <1>7, <1>8, <1>9, <1>10, <1>11, <1>12, <1>15

\* The waiters are notified and the liveliness callback returns.
LEMMA HandlerNotifiesStep ==
    ASSUME DiscoveryInv, NEW e \in Endpoints, HandlerNotifies(e)
    PROVE  DiscoveryInv'
<1> USE DEF DiscoveryInv
<1>1. /\ handler[e] \in {"notify", "calling"} /\ todo[<<"callback", e>>] = {}
      /\ handler' = [handler EXCEPT ![e] = "idle"]
      /\ waiter' = CASE waiter = "armed" -> "notified"
                     [] waiter = "parked" -> "idle"
                     [] waiter \in {"blocked", "deaf"} -> "locking"
                     [] waiter = "checked" -> "unheard"
                     [] OTHER -> waiter
      /\ UNCHANGED <<life, samples, replies, cached, parsed, index, held, todo, current, told,
                     ghosts, raced>>
  BY DEF HandlerNotifies, graphVars
<1>2. /\ \A f \in Endpoints \ {e} : handler'[f] = handler[f]
      /\ handler'[e] = "idle"
  BY <1>1 DEF DiscoveryTypeOK
<1>3. \A f \in Endpoints : Shown(f)' <=> Shown(f)
  BY <1>1 DEF Shown
<1>4. /\ waiter' \in {"nobody", "idle", "armed", "notified", "parked", "locking", "checked",
                      "unheard", "blocked", "deaf", "late", "found", "gave up"}
      /\ waiter' \notin {"armed", "parked", "checked", "blocked"}
      /\ waiter' = "notified" => waiter \in {"armed", "notified"}
  BY <1>1 DEF DiscoveryTypeOK
<1>5. DiscoveryTypeOK'
  BY <1>1, <1>4 DEF DiscoveryTypeOK
<1>6. IndexKept'
  BY <1>1 DEF IndexKept
<1>7. LifeKept'
  <2>1. Undelivered(e)'
    BY <1>1, <1>2, <1>3 DEF LifeKept, Undelivered, Declared
  <2>2. \A f \in Endpoints \ {e} : Undelivered(f)'
    BY <1>1, <1>2, <1>3 DEF LifeKept, Undelivered, Declared
  <2> QED BY <1>1, <2>1, <2>2 DEF LifeKept
<1>8. ShownKept'
  <2>1. life[e] = "gone" /\ samples[e] = <<>> => handler[e] = "notify"
    BY <1>1, Stages, SampleFacts DEF LifeKept, Undelivered
  <2> QED BY <1>1, <1>2, <1>3, <2>1 DEF ShownKept
<1>9. WaiterKept'
  BY <1>1, <1>4 DEF WaiterKept
<1>10. TodoKept'
  BY <1>1, <1>2 DEF TodoKept
<1>11. ToldKept'
  <2>1. Built' => replies' = {}
    BY <1>1 DEF Built, ToldKept
  <2>2. ASSUME NEW l \in Local, NEW f \in Opposite(l), life'[l] # "new", Declared(f)', Shown(f)'
        PROVE  WillBeTold(l, f)'
    <3>1. f \in Endpoints /\ WillBeTold(l, f)
      BY <1>1, <1>3, <2>2 DEF Opposite, ToldKept, Declared
    <3> QED BY <1>1, <1>2, <3>1 DEF WillBeTold
  <2> QED BY <1>1, <2>1, <2>2 DEF ToldKept, Opposite
<1>12. ASSUME Calm' PROVE CalmKept' /\ CountKept'
  <2>1. Calm
    BY <1>1, <1>12 DEF Calm
  <2>2. CalmKept'
    <3>1. \A l \in Local : life'[l] \in Creating => Alone(l)'
      BY <1>1, <1>2, <2>1 DEF CalmKept, Alone
    <3>2. \A l \in Local : life'[l] \in {"new", "registered"} => current'[l] = 0
      BY <1>1, <2>1 DEF CalmKept
    <3>3. \A l \in Local : CalmLocal(l)'
      BY <1>1, <1>2, <1>3, <2>1 DEF CalmKept, CalmLocal, PutPending, Endpoints
    <3>4. \A f \in Remote : CalmRemote(f)'
      BY <1>1, <1>3, <2>1 DEF CalmKept, CalmRemote, PutPending, Built, Endpoints
    <3> QED BY <3>1, <3>2, <3>3, <3>4 DEF CalmKept
  <2>3. CountKept'
    <3> SUFFICES ASSUME NEW l \in Local, life[l] \in {"counted", "checked", "added", "telling", "live"}
                 PROVE  current[l] = Cardinality(Counted(l))'
      BY <1>1 DEF CountKept
    <3>1. current[l] = Cardinality(Counted(l))
      BY <2>1 DEF CountKept
    <3>2. Counts(l, e)' <=> Counts(l, e)
      <4>1. CASE handler[e] = "notify"
        BY <1>1, <1>2, <4>1 DEF Counts, Announced
      <4>2. CASE handler[e] = "calling"
        <5>1. \/ Declared(e) /\ samples[e] = <<>>
              \/ life[e] = "gone" /\ samples[e] = <<"delete">>
          BY <4>2 DEF LifeKept, Undelivered
        <5>2. e \in Local => life[e] \notin {"added", "removed"}
          BY <2>1, <4>2, <5>1, SampleFacts DEF CalmKept, CalmLocal
        <5>3. Announced(e)
          BY <5>1, <5>2, Stages DEF Announced, Declared, Creating, LifeKept, Endpoints
        <5>4. todo[<<"creator", e>>] = {}
          <6>1. CASE life[e] = "telling"
            <7>1. e \in Local
              BY <6>1 DEF LifeKept, Endpoints
            <7>2. samples[e] = <<>>
              BY <5>1, <6>1
            <7> QED BY <2>1, <6>1, <7>1, <7>2 DEF CalmKept, CalmLocal
          <6>2. CASE life[e] # "telling"
            BY <6>2 DEF TodoKept
          <6> QED BY <6>1, <6>2
        <5>5. Announced(e)'
          BY <1>1, <5>3 DEF Announced
        <5> QED BY <1>1, <1>2, <4>2, <5>4, <5>5 DEF Counts
      <4> QED BY <1>1, <4>1, <4>2
    <3>3. \A f \in Endpoints \ {e} : Counts(l, f)' <=> Counts(l, f)
      BY <1>1, <1>2, CountsSame
    <3> QED BY <3>1, <3>2, <3>3, CountedSame DEF Opposite
  <2> QED BY <2>2, <2>3
<1>13. ASSUME ~ Calm' PROVE CalmKept' /\ CountKept'
  BY <1>13 DEF CalmKept, CountKept
<1>14. CalmKept' /\ CountKept'
  BY <1>12, <1>13
<1> QED BY <1>5, <1>6, <1>7, <1>8, <1>9, <1>10, <1>11, <1>14

\* A reply of the initial query is read.
LEMMA TakeReplyStep ==
    ASSUME DiscoveryInv, NEW e \in Endpoints, TakeReply(e)
    PROVE  DiscoveryInv'
<1> USE DEF DiscoveryInv
<1>1. /\ e \in replies /\ replies' = replies \ {e}
      /\ cached' = IF parsed[e] = 0 THEN cached \cup {e} ELSE cached
      /\ ghosts' = IF life[e] = "gone" /\ samples[e] = <<>> /\ handler[e] \in {"idle", "notify"}
                   THEN ghosts \cup {e} ELSE ghosts
      /\ UNCHANGED <<life, samples, handler, parsed, index, held, todo, current, waiter, told, raced>>
  BY DEF TakeReply
<1>2. Shown(e)' /\ \A f \in Endpoints \ {e} : Shown(f)' <=> Shown(f)
  BY <1>1 DEF Shown
<1>3. e \in Remote /\ life[e] # "new" /\ ~ Built
  BY <1>1 DEF DiscoveryTypeOK, LifeKept, Undelivered, Declared, Creating, ToldKept
<1>4. DiscoveryTypeOK'
  BY <1>1, <1>3 DEF DiscoveryTypeOK
<1>5. IndexKept'
  BY <1>1 DEF IndexKept
<1>6. LifeKept'
  <2>1. Undelivered(e)'
    BY <1>1, <1>3 DEF LifeKept, Undelivered, Declared
  <2>2. \A f \in Endpoints \ {e} : Undelivered(f)'
    BY <1>1, <1>2 DEF LifeKept, Undelivered, Declared
  <2> QED BY <1>1, <2>1, <2>2 DEF LifeKept
<1>7. ShownKept'
  BY <1>1, <1>2 DEF ShownKept
<1>8. WaiterKept'
  BY <1>1 DEF WaiterKept
<1>9. TodoKept'
  BY <1>1 DEF TodoKept
<1>10. ToldKept'
  BY <1>1, <1>3 DEF ToldKept, Built
<1>11. ASSUME Calm' PROVE CalmKept' /\ CountKept'
  <2>1. Calm
    BY <1>1, <1>11 DEF Calm
  <2>2. \A l \in Local : life'[l] = "new" /\ life[l] = "new"
    BY <1>1, <1>3 DEF Built
  <2>3. CalmKept'
    <3>1. \A l \in Local : life'[l] \notin Creating
      BY <2>2 DEF Creating
    <3>2. \A l \in Local : life'[l] \in {"new", "registered"} => current'[l] = 0
      BY <1>1, <2>1 DEF CalmKept
    <3>3. \A l \in Local : CalmLocal(l)'
      BY <2>2 DEF CalmLocal
    <3>4. \A f \in Remote : CalmRemote(f)'
      BY <1>1, <1>2, <1>3, <2>1 DEF CalmKept, CalmRemote, Built, Endpoints
    <3> QED BY <3>1, <3>2, <3>3, <3>4 DEF CalmKept
  <2>4. CountKept'
    BY <2>2 DEF CountKept
  <2> QED BY <2>3, <2>4
<1>12. ASSUME ~ Calm' PROVE CalmKept' /\ CountKept'
  BY <1>12 DEF CalmKept, CountKept
<1>13. CalmKept' /\ CountKept'
  BY <1>11, <1>12
<1> QED BY <1>4, <1>5, <1>6, <1>7, <1>8, <1>9, <1>10, <1>13

\* A remote endpoint appears.
LEMMA AppearStep ==
    ASSUME DiscoveryInv, NEW e \in Endpoints, Appear(e)
    PROVE  DiscoveryInv'
<1> USE DEF DiscoveryInv
<1>1. /\ e \in Remote /\ life[e] = "new"
      /\ life' = [life EXCEPT ![e] = "live"]
      /\ samples' = [samples EXCEPT ![e] = Append(@, "put")]
      /\ UNCHANGED <<handler, replies, cached, parsed, index, held, todo, current, waiter, told,
                     ghosts, raced>>
  BY DEF Appear, graphVars
<1>2. samples[e] = <<>> /\ handler[e] = "idle" /\ ~ Shown(e) /\ e \notin replies
  BY <1>1 DEF LifeKept, Undelivered, Declared, Creating
<1>3. /\ \A f \in Endpoints \ {e} : samples'[f] = samples[f] /\ life'[f] = life[f]
      /\ samples'[e] = <<"put">> /\ life'[e] = "live"
  BY <1>1, <1>2, SampleFacts DEF DiscoveryTypeOK
<1>4. \A f \in Endpoints : Shown(f)' <=> Shown(f)
  BY <1>1 DEF Shown
<1>5. e \notin Local /\ \A l \in Local : l \in Endpoints /\ l # e /\ life'[l] = life[l]
  BY <1>1, <1>3, DiscoveryAssumption DEF Endpoints
<1>6. DiscoveryTypeOK'
  BY <1>1, <1>3, SampleFacts DEF DiscoveryTypeOK
<1>7. IndexKept'
  BY <1>1, <1>5 DEF IndexKept
<1>8. LifeKept'
  <2>1. Undelivered(e)'
    BY <1>1, <1>2, <1>3 DEF Undelivered, Declared
  <2>2. \A f \in Endpoints \ {e} : Undelivered(f)'
    BY <1>1, <1>3, <1>4 DEF LifeKept, Undelivered, Declared
  <2> QED BY <1>1, <1>3, <2>1, <2>2 DEF LifeKept, Endpoints
<1>9. ShownKept'
  BY <1>1, <1>3, <1>4, <1>5, SampleFacts DEF ShownKept
<1>10. WaiterKept'
  <2>1. Pending'
    BY <1>3, SampleFacts DEF Pending
  <2> QED BY <1>1, <2>1 DEF WaiterKept
<1>11. TodoKept'
  BY <1>1, <1>3, <1>5 DEF TodoKept
<1>12. ToldKept'
  <2>1. Built' => replies' = {}
    BY <1>1, <1>5 DEF Built, ToldKept
  <2>2. ASSUME NEW l \in Local, NEW f \in Opposite(l), life'[l] # "new", Declared(f)', Shown(f)'
        PROVE  WillBeTold(l, f)'
    <3>1. f \in Endpoints /\ f # e
      BY <1>2, <1>4, <2>2 DEF Opposite
    <3>2. WillBeTold(l, f)
      BY <1>3, <1>4, <1>5, <2>2, <3>1 DEF ToldKept, Declared
    <3> QED BY <1>1, <1>3, <1>5, <3>1, <3>2 DEF WillBeTold
  <2> QED BY <1>1, <2>1, <2>2 DEF ToldKept, Opposite
<1>13. ASSUME Calm' PROVE CalmKept' /\ CountKept'
  <2>1. Calm
    BY <1>1, <1>13 DEF Calm
  <2>2. CalmKept'
    <3>1. \A l \in Local : life'[l] \in Creating => Alone(l)'
      BY <1>1, <1>2, <1>3, <1>5, <2>1 DEF CalmKept, Alone, Creating
    <3>2. \A l \in Local : life'[l] \in {"new", "registered"} => current'[l] = 0
      BY <1>1, <1>5, <2>1 DEF CalmKept
    <3>3. \A l \in Local : CalmLocal(l)'
      BY <1>1, <1>3, <1>4, <1>5, <2>1 DEF CalmKept, CalmLocal, PutPending
    <3>4. \A f \in Remote \ {e} : CalmRemote(f)'
      BY <1>1, <1>3, <1>4, <1>5, <2>1 DEF CalmKept, CalmRemote, PutPending, Built, Endpoints
    <3>5. CalmRemote(e)'
      BY <1>2, <1>3, <1>4 DEF CalmRemote
    <3> QED BY <3>1, <3>2, <3>3, <3>4, <3>5 DEF CalmKept
  <2>3. CountKept'
    <3> SUFFICES ASSUME NEW l \in Local, life[l] \in {"counted", "checked", "added", "telling", "live"}
                 PROVE  current[l] = Cardinality(Counted(l))'
      BY <1>1, <1>5 DEF CountKept
    <3>1. current[l] = Cardinality(Counted(l))
      BY <2>1 DEF CountKept
    <3>2. Counts(l, e)' <=> Counts(l, e)
      BY <1>1, <1>2, <1>3, <1>5, SampleFacts DEF Counts, Announced
    <3>3. \A f \in Endpoints \ {e} : Counts(l, f)' <=> Counts(l, f)
      BY <1>1, <1>3, CountsSame
    <3> QED BY <3>1, <3>2, <3>3, CountedSame DEF Opposite
  <2> QED BY <2>2, <2>3
<1>14. ASSUME ~ Calm' PROVE CalmKept' /\ CountKept'
  BY <1>14 DEF CalmKept, CountKept
<1>15. CalmKept' /\ CountKept'
  BY <1>13, <1>14
<1> QED BY <1>6, <1>7, <1>8, <1>9, <1>10, <1>11, <1>12, <1>15

\* A remote endpoint is undeclared, or its session is lost.
LEMMA DisappearStep ==
    ASSUME DiscoveryInv, NEW e \in Endpoints, Disappear(e)
    PROVE  DiscoveryInv'
<1> USE DEF DiscoveryInv
<1>1. /\ e \in Remote /\ life[e] = "live"
      /\ life' = [life EXCEPT ![e] = "gone"]
      /\ samples' = [samples EXCEPT ![e] = Append(@, "delete")]
      /\ UNCHANGED <<handler, replies, cached, parsed, index, held, todo, current, waiter, told,
                     ghosts, raced>>
  BY DEF Disappear, graphVars
<1>2. \/ samples[e] = <<"put">> /\ handler[e] = "idle"
      \/ samples[e] = <<>> /\ handler[e] \in {"idle", "appeared", "calling", "notify"}
  BY <1>1 DEF LifeKept, Undelivered, Declared, Creating
<1>3. /\ \A f \in Endpoints \ {e} : samples'[f] = samples[f] /\ life'[f] = life[f]
      /\ samples'[e] = Append(samples[e], "delete") /\ life'[e] = "gone"
  BY <1>1 DEF DiscoveryTypeOK
<1>4. /\ samples[e] = <<"put">> => samples'[e] = <<"put", "delete">>
      /\ samples[e] = <<>> => samples'[e] = <<"delete">>
      /\ samples'[e] # <<>> /\ samples'[e] \in Seq({"put", "delete"})
  BY <1>2, <1>3, SampleFacts
<1>5. \A f \in Endpoints : Shown(f)' <=> Shown(f)
  BY <1>1 DEF Shown
<1>6. e \notin Local /\ \A l \in Local : l \in Endpoints /\ l # e /\ life'[l] = life[l]
  BY <1>1, <1>3, DiscoveryAssumption DEF Endpoints
<1>7. DiscoveryTypeOK'
  BY <1>1, <1>3, <1>4 DEF DiscoveryTypeOK
<1>8. IndexKept'
  BY <1>1, <1>6 DEF IndexKept
<1>9. LifeKept'
  <2>1. Undelivered(e)'
    BY <1>1, <1>2, <1>3, <1>4 DEF Undelivered, Declared
  <2>2. \A f \in Endpoints \ {e} : Undelivered(f)'
    BY <1>1, <1>3, <1>5 DEF LifeKept, Undelivered, Declared
  <2> QED BY <1>1, <1>3, <2>1, <2>2 DEF LifeKept, Endpoints
<1>10. ShownKept'
  BY <1>1, <1>3, <1>4, <1>5, <1>6 DEF ShownKept
<1>11. WaiterKept'
  <2>1. Pending'
    BY <1>4 DEF Pending
  <2> QED BY <1>1, <2>1 DEF WaiterKept
<1>12. TodoKept'
  BY <1>1, <1>3, <1>6 DEF TodoKept
<1>13. ToldKept'
  <2>1. Built' => replies' = {}
    BY <1>1, <1>6 DEF Built, ToldKept
  <2>2. ASSUME NEW l \in Local, NEW f \in Opposite(l), life'[l] # "new", Declared(f)', Shown(f)'
        PROVE  WillBeTold(l, f)'
    <3>1. f \in Endpoints /\ f # e
      BY <1>3, <2>2 DEF Opposite, Declared, Creating
    <3>2. WillBeTold(l, f)
      BY <1>3, <1>5, <1>6, <2>2, <3>1 DEF ToldKept, Declared
    <3> QED BY <1>1, <1>3, <1>6, <3>1, <3>2 DEF WillBeTold
  <2> QED BY <1>1, <2>1, <2>2 DEF ToldKept, Opposite
<1>14. ASSUME Calm' PROVE CalmKept' /\ CountKept'
  <2>1. Calm
    BY <1>1, <1>14 DEF Calm
  <2>2. CalmKept'
    <3>1. \A l \in Local : life'[l] \in Creating => Alone(l)'
      BY <1>1, <1>3, <1>6, <2>1 DEF CalmKept, Alone, Creating
    <3>2. \A l \in Local : life'[l] \in {"new", "registered"} => current'[l] = 0
      BY <1>1, <1>6, <2>1 DEF CalmKept
    <3>3. \A l \in Local : CalmLocal(l)'
      BY <1>1, <1>3, <1>5, <1>6, <2>1 DEF CalmKept, CalmLocal, PutPending
    <3>4. \A f \in Remote \ {e} : CalmRemote(f)'
      BY <1>1, <1>3, <1>5, <1>6, <2>1 DEF CalmKept, CalmRemote, PutPending, Built, Endpoints
    <3>5. CalmRemote(e)'
      <4>1. Built' => Built
        BY <1>6 DEF Built
      <4>2. samples[e] = <<>> => Shown(e)
        BY <1>1 DEF ShownKept
      <4>3. CASE samples[e] = <<"put">>
        <5>1. Built => ~ Shown(e)
          BY <1>1, <2>1, <4>3 DEF CalmKept, CalmRemote, PutPending
        <5> QED BY <1>4, <1>5, <4>1, <4>3, <5>1, SampleFacts DEF CalmRemote
      <4>4. CASE samples[e] = <<>>
        BY <1>4, <1>5, <4>2, <4>4, SampleFacts DEF CalmRemote, PutPending
      <4> QED BY <1>2, <4>3, <4>4
    <3> QED BY <3>1, <3>2, <3>3, <3>4, <3>5 DEF CalmKept
  <2>3. CountKept'
    <3> SUFFICES ASSUME NEW l \in Local, life[l] \in {"counted", "checked", "added", "telling", "live"}
                 PROVE  current[l] = Cardinality(Counted(l))'
      BY <1>1, <1>6 DEF CountKept
    <3>1. current[l] = Cardinality(Counted(l))
      BY <2>1 DEF CountKept
    <3>2. Counts(l, e)' <=> Counts(l, e)
      <4>1. Announced(e)' <=> Announced(e)
        BY <1>1, <1>2, <1>3, <1>4, <1>6, SampleFacts DEF Announced
      <4> QED BY <1>1, <4>1 DEF Counts
    <3>3. \A f \in Endpoints \ {e} : Counts(l, f)' <=> Counts(l, f)
      BY <1>1, <1>3, CountsSame
    <3> QED BY <3>1, <3>2, <3>3, CountedSame DEF Opposite
  <2> QED BY <2>2, <2>3
<1>15. ASSUME ~ Calm' PROVE CalmKept' /\ CountKept'
  BY <1>15 DEF CalmKept, CountKept
<1>16. CalmKept' /\ CountKept'
  BY <1>14, <1>15
<1> QED BY <1>7, <1>8, <1>9, <1>10, <1>11, <1>12, <1>13, <1>16

\* An endpoint of this session is built and its event callback registered.
LEMMA BuildStep ==
    ASSUME DiscoveryInv, NEW l \in Local, Build(l)
    PROVE  DiscoveryInv'
<1> USE DEF DiscoveryInv
<1>1. /\ life[l] = "new" /\ replies = {}
      /\ life' = [life EXCEPT ![l] = "registered"]
      /\ samples' = [samples EXCEPT ![l] = Append(@, "put")]
      /\ raced' = (raced \/ ~ Quiet)
      /\ UNCHANGED <<handler, replies, cached, parsed, index, held, todo, current, waiter, told, ghosts>>
  BY DEF Build, graphVars
<1>2. l \in Endpoints /\ l \notin Remote /\ \A m \in Local : m \in Endpoints
  BY DiscoveryAssumption DEF Endpoints
<1>3. samples[l] = <<>> /\ handler[l] = "idle" /\ ~ Shown(l)
  BY <1>1, <1>2 DEF LifeKept, Undelivered, Declared, Creating
<1>4. /\ \A f \in Endpoints \ {l} : samples'[f] = samples[f] /\ life'[f] = life[f]
      /\ samples'[l] = <<"put">> /\ life'[l] = "registered"
  BY <1>1, <1>2, <1>3, SampleFacts DEF DiscoveryTypeOK
<1>5. \A f \in Endpoints : Shown(f)' <=> Shown(f)
  BY <1>1 DEF Shown
<1>6. raced' \in BOOLEAN
  BY <1>1
<1>7. DiscoveryTypeOK'
  <2>1. /\ life \in [Endpoints -> {"new", "live", "removed", "gone"} \cup Creating]
        /\ samples \in [Endpoints -> Seq({"put", "delete"})]
    BY DEF DiscoveryTypeOK
  <2>2. life' = [life EXCEPT ![l] = "registered"] /\ samples' = [samples EXCEPT ![l] = <<"put">>]
    BY <1>1, <1>3, SampleFacts
  <2>3. "registered" \in Creating /\ <<"put">> \in Seq({"put", "delete"})
    BY SampleFacts DEF Creating
  <2>4. life' \in [Endpoints -> {"new", "live", "removed", "gone"} \cup Creating]
    BY ONLY <1>2, <2>1, <2>2, <2>3
  <2>5. samples' \in [Endpoints -> Seq({"put", "delete"})]
    BY ONLY <1>2, <2>1, <2>2, <2>3
  <2> QED BY <1>1, <1>6, <2>4, <2>5 DEF DiscoveryTypeOK
<1>8. IndexKept'
  BY <1>1, <1>2, <1>4 DEF IndexKept
<1>9. LifeKept'
  <2>1. Undelivered(l)'
    BY <1>1, <1>3, <1>4 DEF Undelivered, Declared, Creating
  <2>2. \A f \in Endpoints \ {l} : Undelivered(f)'
    BY <1>1, <1>4, <1>5 DEF LifeKept, Undelivered, Declared
  <2> QED BY <1>2, <1>4, <2>1, <2>2 DEF LifeKept, Endpoints
<1>10. ShownKept'
  BY <1>1, <1>2, <1>4, <1>5, SampleFacts DEF ShownKept
<1>11. WaiterKept'
  <2>1. Pending'
    BY <1>2, <1>4, SampleFacts DEF Pending
  <2> QED BY <1>1, <2>1 DEF WaiterKept
<1>12. TodoKept'
  <2>1. \A m \in Local : life[m] # "new" => life'[m] # "new"
    BY <1>2, <1>4
  <2>2. \A f \in Endpoints : life'[f] # "telling" => life[f] # "telling"
    BY <1>1, <1>4
  <2> QED BY <1>1, <2>1, <2>2 DEF TodoKept
<1>13. ToldKept'
  <2>1. ASSUME NEW m \in Local, NEW f \in Opposite(m), life'[m] # "new", Declared(f)', Shown(f)'
        PROVE  WillBeTold(m, f)'
    <3>1. f \in Endpoints /\ f # l
      BY <1>3, <1>5, <2>1 DEF Opposite
    <3>2. CASE m = l
      BY <1>4, <3>2 DEF WillBeTold
    <3>3. CASE m # l
      <4>1. WillBeTold(m, f)
        BY <1>2, <1>4, <1>5, <2>1, <3>1, <3>3 DEF ToldKept, Declared
      <4> QED BY <1>1, <1>2, <1>4, <3>1, <3>3, <4>1 DEF WillBeTold
    <3> QED BY <3>2, <3>3
  <2> QED BY <1>1, <2>1 DEF ToldKept, Opposite
<1>14. ASSUME Calm' PROVE CalmKept' /\ CountKept'
  <2>1. Calm /\ Quiet
    BY <1>1, <1>14 DEF Calm
  <2>2. /\ \A f \in Endpoints : samples[f] = <<>> /\ handler[f] = "idle"
        /\ \A m \in Local : life[m] \in {"new", "live", "gone"}
    BY <2>1 DEF Quiet
  <2>3. CalmKept'
    <3>1. \A m \in Local : life'[m] \in Creating => Alone(m)'
      <4>1. \A m \in Local : life'[m] \in Creating => m = l
        BY <1>2, <1>4, <2>2 DEF Creating
      <4>2. \A f \in Endpoints : life[f] \in {"new", "live", "gone"}
        BY <2>2 DEF LifeKept, Endpoints
      <4>3. Alone(l)'
        BY <1>1, <1>4, <2>2, <4>2 DEF Alone, Creating
      <4> QED BY <4>1, <4>3
    <3>2. \A m \in Local : life'[m] \in {"new", "registered"} => current'[m] = 0
      BY <1>1, <1>2, <1>4, <2>1 DEF CalmKept
    <3>3. \A m \in Local \ {l} : CalmLocal(m)'
      BY <1>1, <1>2, <1>4, <1>5, <2>1 DEF CalmKept, CalmLocal, PutPending
    <3>4. CalmLocal(l)'
      BY <1>2, <1>3, <1>4, <1>5, SampleFacts DEF CalmLocal
    <3>5. \A f \in Remote : CalmRemote(f)'
      <4>1. \A f \in Remote : f \in Endpoints /\ f # l
        BY <1>2 DEF Endpoints
      <4> QED BY <1>4, <2>2, <4>1, SampleFacts DEF CalmRemote, PutPending
    <3> QED BY <3>1, <3>2, <3>3, <3>4, <3>5 DEF CalmKept
  <2>4. CountKept'
    <3> SUFFICES ASSUME NEW m \in Local, life'[m] \in {"counted", "checked", "added", "telling", "live"}
                 PROVE  current[m] = Cardinality(Counted(m))'
      BY <1>1 DEF CountKept
    <3>1. m # l /\ current[m] = Cardinality(Counted(m))
      BY <1>2, <1>4, <2>1 DEF CountKept
    <3>2. Counts(m, l)' <=> Counts(m, l)
      BY <1>1, <1>3, <1>4, SampleFacts DEF Counts, Announced
    <3>3. \A f \in Endpoints \ {l} : Counts(m, f)' <=> Counts(m, f)
      BY <1>1, <1>4, CountsSame
    <3> QED BY <3>1, <3>2, <3>3, CountedSame DEF Opposite
  <2> QED BY <2>3, <2>4
<1>15. ASSUME ~ Calm' PROVE CalmKept' /\ CountKept'
  BY <1>15 DEF CalmKept, CountKept
<1>16. CalmKept' /\ CountKept'
  BY <1>14, <1>15
<1> QED BY <1>7, <1>8, <1>9, <1>10, <1>11, <1>12, <1>13, <1>16

\* The token of a destroyed endpoint is dropped.
LEMMA DropTokenStep ==
    ASSUME DiscoveryInv, NEW l \in Local, DropToken(l)
    PROVE  DiscoveryInv'
<1> USE DEF DiscoveryInv
<1>1. /\ life[l] = "removed"
      /\ life' = [life EXCEPT ![l] = "gone"]
      /\ samples' = [samples EXCEPT ![l] = Append(@, "delete")]
      /\ UNCHANGED <<handler, replies, cached, parsed, index, held, todo, current, waiter, told,
                     ghosts, raced>>
  BY DEF DropToken, graphVars
<1>2. l \in Endpoints /\ l \notin Remote /\ \A m \in Local : m \in Endpoints
  BY DiscoveryAssumption DEF Endpoints
<1>3. \/ samples[l] = <<"put">> /\ handler[l] = "idle"
      \/ samples[l] = <<>> /\ handler[l] \in {"idle", "appeared", "calling", "notify"}
  BY <1>1, <1>2 DEF LifeKept, Undelivered, Declared, Creating
<1>4. /\ \A f \in Endpoints \ {l} : samples'[f] = samples[f] /\ life'[f] = life[f]
      /\ samples'[l] = Append(samples[l], "delete") /\ life'[l] = "gone"
  BY <1>1, <1>2 DEF DiscoveryTypeOK
<1>5. /\ samples[l] = <<"put">> => samples'[l] = <<"put", "delete">>
      /\ samples[l] = <<>> => samples'[l] = <<"delete">>
      /\ samples'[l] # <<>> /\ samples'[l] \in Seq({"put", "delete"})
  BY <1>3, <1>4, SampleFacts
<1>6. \A f \in Endpoints : Shown(f)' <=> Shown(f)
  BY <1>1 DEF Shown
<1>7. DiscoveryTypeOK'
  BY <1>1, <1>2, <1>4, <1>5 DEF DiscoveryTypeOK
<1>8. IndexKept'
  BY <1>1, <1>2, <1>4 DEF IndexKept
<1>9. LifeKept'
  <2>1. Undelivered(l)'
    BY <1>1, <1>3, <1>4, <1>5 DEF Undelivered
  <2>2. \A f \in Endpoints \ {l} : Undelivered(f)'
    BY <1>1, <1>4, <1>6 DEF LifeKept, Undelivered, Declared
  <2> QED BY <1>2, <1>4, <2>1, <2>2 DEF LifeKept, Endpoints
<1>10. ShownKept'
  BY <1>1, <1>2, <1>4, <1>5, <1>6 DEF ShownKept
<1>11. WaiterKept'
  <2>1. Pending'
    BY <1>2, <1>5 DEF Pending
  <2> QED BY <1>1, <2>1 DEF WaiterKept
<1>12. \A m \in Local : life'[m] # "new" <=> life[m] # "new"
  BY <1>1, <1>2, <1>4
<1>13. TodoKept'
  <2>1. \A f \in Endpoints : life'[f] # "telling" => life[f] # "telling"
    BY <1>1, <1>4
  <2> QED BY <1>1, <1>12, <2>1 DEF TodoKept
<1>14. ToldKept'
  <2>1. Built' => replies' = {}
    BY <1>1, <1>12 DEF Built, ToldKept
  <2>2. ASSUME NEW m \in Local, NEW f \in Opposite(m), life'[m] # "new", Declared(f)', Shown(f)'
        PROVE  WillBeTold(m, f)'
    <3>1. f \in Endpoints /\ f # l
      BY <1>4, <2>2 DEF Opposite, Declared, Creating
    <3>2. WillBeTold(m, f)
      BY <1>4, <1>6, <1>12, <2>2, <3>1 DEF ToldKept, Declared
    <3>3. life[m] = "registered" => life'[m] = "registered"
      BY <1>1, <1>2, <1>4
    <3> QED BY <1>1, <1>4, <3>1, <3>2, <3>3 DEF WillBeTold
  <2> QED BY <1>1, <2>1, <2>2 DEF ToldKept, Opposite
<1>15. ASSUME Calm' PROVE CalmKept' /\ CountKept'
  <2>1. Calm
    BY <1>1, <1>15 DEF Calm
  <2>2. samples[l] = <<>> /\ handler[l] = "idle" /\ samples'[l] = <<"delete">>
    BY <1>1, <1>5, <2>1 DEF CalmKept, CalmLocal
  <2>3. \A m \in Local : life[m] \notin Creating
    BY <1>1, <1>2, <2>1 DEF CalmKept, Alone, Creating
  <2>4. CalmKept'
    <3>1. \A m \in Local : life'[m] \notin Creating
      BY <1>2, <1>4, <2>3 DEF Creating
    <3>2. \A m \in Local : life'[m] \in {"new", "registered"} => current'[m] = 0
      BY <1>1, <1>2, <1>4, <2>1 DEF CalmKept
    <3>3. \A m \in Local \ {l} : CalmLocal(m)'
      BY <1>1, <1>2, <1>4, <1>6, <2>1 DEF CalmKept, CalmLocal, PutPending
    <3>4. CalmLocal(l)'
      BY <1>4, <2>2, SampleFacts DEF CalmLocal, PutPending
    <3>5. \A f \in Remote : CalmRemote(f)'
      <4>1. \A f \in Remote : f \in Endpoints /\ f # l
        BY <1>2 DEF Endpoints
      <4> QED BY <1>1, <1>4, <1>6, <1>12, <2>1, <4>1 DEF CalmKept, CalmRemote, PutPending, Built
    <3> QED BY <3>1, <3>2, <3>3, <3>4, <3>5 DEF CalmKept
  <2>5. CountKept'
    <3> SUFFICES ASSUME NEW m \in Local, life'[m] \in {"counted", "checked", "added", "telling", "live"}
                 PROVE  current[m] = Cardinality(Counted(m))'
      BY <1>1 DEF CountKept
    <3>1. m # l /\ current[m] = Cardinality(Counted(m))
      BY <1>2, <1>4, <2>1 DEF CountKept
    <3>2. Counts(m, l)' <=> Counts(m, l)
      BY <1>1, <1>4, <2>2 DEF Counts, Announced
    <3>3. \A f \in Endpoints \ {l} : Counts(m, f)' <=> Counts(m, f)
      BY <1>1, <1>4, CountsSame
    <3> QED BY <3>1, <3>2, <3>3, CountedSame DEF Opposite
  <2> QED BY <2>4, <2>5
<1>16. ASSUME ~ Calm' PROVE CalmKept' /\ CountKept'
  BY <1>16 DEF CalmKept, CountKept
<1>17. CalmKept' /\ CountKept'
  BY <1>15, <1>16
<1> QED BY <1>7, <1>8, <1>9, <1>10, <1>11, <1>13, <1>14, <1>17

\* add_local_entity collects the callbacks of a new entity.
LEMMA AddLocalTriggersStep ==
    ASSUME DiscoveryInv, NEW l \in Local, AddLocalTriggers(l)
    PROVE  DiscoveryInv'
<1> USE DEF DiscoveryInv
<1>1. /\ life[l] = "added"
      /\ life' = [life EXCEPT ![l] = "telling"]
      /\ todo' = [todo EXCEPT ![<<"creator", l>>] = ToNotify(l)]
      /\ UNCHANGED <<samples, handler, replies, cached, parsed, index, held, current, waiter, told,
                     ghosts, raced>>
  BY DEF AddLocalTriggers, graphVars
<1>2. l \in Endpoints /\ l \notin Remote /\ \A m \in Local : m \in Endpoints
  BY DiscoveryAssumption DEF Endpoints
<1>3. life'[l] = "telling" /\ \A f \in Endpoints \ {l} : life'[f] = life[f]
  BY <1>1, <1>2 DEF DiscoveryTypeOK
<1>4. \A f \in Endpoints : Shown(f)' <=> Shown(f)
  BY <1>1 DEF Shown
<1>5. /\ todo' \in [Triggers -> SUBSET Local] /\ todo'[<<"creator", l>>] = ToNotify(l)
      /\ \A y \in {"callback", "creator"}, f \in Endpoints :
            y # "creator" \/ f # l => todo'[<<y, f>>] = todo[<<y, f>>]
  BY <1>1, <1>2, ToNotifyFacts, TodoPut
<1>6. DiscoveryTypeOK'
  BY <1>1, <1>2, <1>5 DEF DiscoveryTypeOK, Creating
<1>7. IndexKept'
  BY <1>1, <1>2, <1>3 DEF IndexKept
<1>8. LifeKept'
  <2>1. \A f \in Endpoints : Undelivered(f)'
    BY <1>1, <1>3, <1>4 DEF LifeKept, Undelivered, Declared, Creating
  <2> QED BY <1>2, <1>3, <2>1 DEF LifeKept, Endpoints
<1>9. ShownKept'
  BY <1>1, <1>2, <1>3, <1>4 DEF ShownKept, Creating
<1>10. WaiterKept'
  BY <1>1, <1>4 DEF WaiterKept, Pending
<1>11. \A m \in Local : life'[m] # "new" <=> life[m] # "new"
  BY <1>1, <1>2, <1>3
<1>12. TodoKept'
  <2>1. \A f \in Endpoints, x \in {"callback", "creator"} :
           todo'[<<x, f>>] \subseteq {m \in Local : life'[m] # "new" /\ Kind[m] # Kind[f]}
    BY <1>2, <1>5, <1>11, TodoCollected
  <2>2. ASSUME NEW f \in Endpoints, handler'[f] \notin {"calling", "disappearing"}
        PROVE  todo'[<<"callback", f>>] = {}
    BY <1>1, <1>5, <2>2 DEF TodoKept
  <2>3. ASSUME NEW f \in Endpoints, life'[f] # "telling" PROVE todo'[<<"creator", f>>] = {}
    BY <1>3, <1>5, <2>3 DEF TodoKept
  <2> QED BY <2>1, <2>2, <2>3 DEF TodoKept
<1>13. ToldKept'
  <2>1. Built' => replies' = {}
    BY <1>1, <1>11 DEF Built, ToldKept
  <2>2. ASSUME NEW m \in Local, NEW f \in Opposite(m), life'[m] # "new", Declared(f)', Shown(f)'
        PROVE  WillBeTold(m, f)'
    <3>1. f \in Endpoints
      BY DEF Opposite
    <3>2. CASE f = l
      BY <1>3, <1>5, <1>11, <2>2, <3>1, <3>2, ToNotifyFacts DEF WillBeTold
    <3>3. CASE f # l
      <4>1. WillBeTold(m, f)
        BY <1>3, <1>4, <1>11, <2>2, <3>1, <3>3 DEF ToldKept, Declared
      <4>2. life[m] = "registered" => life'[m] = "registered"
        BY <1>1, <1>2, <1>3
      <4> QED BY <1>1, <1>3, <1>5, <3>1, <3>3, <4>1, <4>2 DEF WillBeTold
    <3> QED BY <3>2, <3>3
  <2> QED BY <1>1, <2>1, <2>2 DEF ToldKept, Opposite
<1>14. ASSUME Calm' PROVE CalmKept' /\ CountKept'
  <2>1. Calm
    BY <1>1, <1>14 DEF Calm
  <2>2. samples[l] = <<"put">> /\ handler[l] = "idle"
    <3>1. samples[l] = <<"put">>
      BY <1>1, <2>1 DEF CalmKept, CalmLocal
    <3> QED BY <1>1, <1>2, <3>1, SampleFacts DEF LifeKept, Undelivered
  <2>3. CalmKept'
    <3>1. \A m \in Local : life'[m] \in Creating => Alone(m)'
      <4>1. \A m \in Local : life'[m] \in Creating => life[m] \in Creating
        BY <1>1, <1>2, <1>3 DEF Creating
      <4>2. \A m \in Local : life[m] \in Creating => m = l
        BY <1>1, <1>2, <2>1 DEF CalmKept, Alone, Creating
      <4>3. Alone(l) => Alone(l)'
        BY <1>1, <1>3 DEF Alone
      <4> QED BY <2>1, <4>1, <4>2, <4>3 DEF CalmKept
    <3>2. \A m \in Local : life'[m] \in {"new", "registered"} => current'[m] = 0
      BY <1>1, <1>2, <1>3, <2>1 DEF CalmKept
    <3>3. \A m \in Local \ {l} : CalmLocal(m)'
      BY <1>1, <1>2, <1>3, <1>4, <1>5, <2>1 DEF CalmKept, CalmLocal, PutPending
    <3>4. CalmLocal(l)'
      BY <1>1, <1>3, <2>2, SampleFacts DEF CalmLocal
    <3>5. \A f \in Remote : CalmRemote(f)'
      <4>1. \A f \in Remote : f \in Endpoints /\ f # l
        BY <1>2 DEF Endpoints
      <4> QED BY <1>1, <1>3, <1>4, <1>11, <2>1, <4>1 DEF CalmKept, CalmRemote, PutPending, Built
    <3> QED BY <3>1, <3>2, <3>3, <3>4, <3>5 DEF CalmKept
  <2>4. CountKept'
    <3> SUFFICES ASSUME NEW m \in Local, life'[m] \in {"counted", "checked", "added", "telling", "live"}
                 PROVE  current[m] = Cardinality(Counted(m))'
      BY <1>1 DEF CountKept
    <3>1. life[m] # "new" /\ current[m] = Cardinality(Counted(m))
      BY <1>1, <1>2, <1>3, <2>1 DEF CountKept
    <3>2. l \in Opposite(m) => (Counts(m, l)' <=> Counts(m, l))
      <4>1. ~ Counts(m, l)
        BY <1>1, <2>2 DEF Counts, Announced
      <4>2. l \in Opposite(m) => ~ Counts(m, l)'
        BY <1>1, <1>2, <1>5, <2>2, <3>1, ToNotifyFacts DEF Counts
      <4> QED BY <4>1, <4>2
    <3>3. \A f \in Endpoints \ {l} : Counts(m, f)' <=> Counts(m, f)
      BY <1>1, <1>3, <1>5, CountsSame
    <3> QED BY <3>1, <3>2, <3>3, CountedSame DEF Opposite
  <2> QED BY <2>3, <2>4
<1>15. ASSUME ~ Calm' PROVE CalmKept' /\ CountKept'
  BY <1>15 DEF CalmKept, CountKept
<1>16. CalmKept' /\ CountKept'
  BY <1>14, <1>15
<1> QED BY <1>6, <1>7, <1>8, <1>9, <1>10, <1>12, <1>13, <1>16

\* add_local_entity calls one of them.
LEMMA AddLocalCallsStep ==
    ASSUME DiscoveryInv, NEW e \in Local, NEW l \in Local, AddLocalCalls(e, l)
    PROVE  DiscoveryInv'
<1> USE DEF DiscoveryInv
<1>1. /\ life[e] = "telling" /\ l \in todo[<<"creator", e>>]
      /\ todo' = [todo EXCEPT ![<<"creator", e>>] = @ \ {l}]
      /\ current' = [current EXCEPT ![l] = @ + 1]
      /\ told' = [told EXCEPT ![l] = @ \cup {e}]
      /\ UNCHANGED <<life, samples, handler, replies, cached, parsed, index, held, waiter, ghosts, raced>>
  BY DEF AddLocalCalls, graphVars, MatchedCallback
<1>2. e \in Endpoints
  BY DEF Endpoints
<1>3. /\ l # e /\ life[l] # "new" /\ e \in Opposite(l)
      /\ todo' \in [Triggers -> SUBSET Local]
      /\ todo'[<<"creator", e>>] = todo[<<"creator", e>>] \ {l}
      /\ \A y \in {"callback", "creator"}, f \in Endpoints :
            y # "creator" \/ f # e => todo'[<<y, f>>] = todo[<<y, f>>]
      /\ current' \in [Local -> Nat] /\ told' \in [Local -> SUBSET Endpoints]
      /\ current'[l] = current[l] + 1 /\ told'[l] = told[l] \cup {e}
      /\ \A m \in Local \ {l} : current'[m] = current[m] /\ told'[m] = told[m]
  <2> DEFINE X == todo[<<"creator", e>>] \ {l}
  <2>1. life[l] # "new" /\ Kind[l] # Kind[e] /\ X \in SUBSET Local
    BY <1>1, <1>2 DEF TodoKept
  <2>2. e \in Opposite(l) /\ l # e
    BY <1>2, <2>1 DEF Opposite
  <2>3. todo' = [todo EXCEPT ![<<"creator", e>>] = X]
    BY <1>1
  <2>4. /\ todo' \in [Triggers -> SUBSET Local] /\ todo'[<<"creator", e>>] = X
        /\ \A y \in {"callback", "creator"}, f \in Endpoints :
              y # "creator" \/ f # e => todo'[<<y, f>>] = todo[<<y, f>>]
    <3> HIDE DEF X
    <3> QED BY <1>2, <2>1, <2>3, TodoPut
  <2>5. current \in [Local -> Nat] /\ told \in [Local -> SUBSET Endpoints]
    BY DEF DiscoveryTypeOK
  <2>6. /\ current' = [current EXCEPT ![l] = @ + 1]
        /\ told' = [told EXCEPT ![l] = @ \cup {e}]
    BY <1>1
  <2>7. /\ current' \in [Local -> Nat] /\ told' \in [Local -> SUBSET Endpoints]
        /\ current'[l] = current[l] + 1 /\ told'[l] = told[l] \cup {e}
        /\ \A m \in Local \ {l} : current'[m] = current[m] /\ told'[m] = told[m]
    BY ONLY <1>2, <2>5, <2>6, l \in Local
  <2> QED BY <2>1, <2>2, <2>4, <2>7
<1>4. \A f \in Endpoints : Shown(f)' <=> Shown(f)
  BY <1>1 DEF Shown
<1>5. DiscoveryTypeOK'
  BY <1>1, <1>3 DEF DiscoveryTypeOK
<1>6. IndexKept'
  BY <1>1 DEF IndexKept
<1>7. LifeKept' /\ ShownKept'
  BY <1>1, <1>4 DEF LifeKept, Undelivered, Declared, ShownKept
<1>8. WaiterKept'
  BY <1>1, <1>4 DEF WaiterKept, Pending
<1>9. TodoKept'
  <2>1. \A f \in Endpoints, x \in {"callback", "creator"} : todo'[<<x, f>>] \subseteq todo[<<x, f>>]
    BY <1>3
  <2> QED BY <1>1, <2>1 DEF TodoKept
<1>10. ToldKept'
  <2>1. Built' => replies' = {}
    BY <1>1 DEF Built, ToldKept
  <2>2. ASSUME NEW m \in Local, NEW f \in Opposite(m), life'[m] # "new", Declared(f)', Shown(f)'
        PROVE  WillBeTold(m, f)'
    <3>1. f \in Endpoints /\ WillBeTold(m, f)
      BY <1>1, <1>4, <2>2 DEF Opposite, ToldKept, Declared
    <3>2. CASE m = l /\ f = e
      BY <1>3, <3>2 DEF WillBeTold
    <3>3. CASE ~ (m = l /\ f = e)
      <4>1. told[m] \subseteq told'[m]
        BY <1>3
      <4>2. m \in todo[<<"creator", f>>] => m \in todo'[<<"creator", f>>]
        BY <1>3, <3>1, <3>3
      <4> QED BY <1>1, <1>3, <3>1, <4>1, <4>2 DEF WillBeTold
    <3> QED BY <3>2, <3>3
  <2> QED BY <1>1, <2>1, <2>2 DEF ToldKept, Opposite
<1>11. ASSUME Calm' PROVE CalmKept' /\ CountKept'
  <2>1. Calm
    BY <1>1, <1>11 DEF Calm
  <2>2. life[l] # "registered"
    <3>1. Alone(e) /\ l \in Endpoints
      BY <1>1, <2>1 DEF CalmKept, Creating, Endpoints
    <3> QED BY <1>3, <3>1 DEF Alone, Creating
  <2>3. handler[e] = "idle"
    <3>1. samples[e] # <<>>
      BY <1>1, <2>1 DEF CalmKept, CalmLocal
    <3> QED BY <1>1, <1>2, <3>1 DEF LifeKept, Undelivered
  <2>4. CalmKept'
    <3>1. \A m \in Local : life'[m] \in Creating => Alone(m)'
      BY <1>1, <2>1 DEF CalmKept, Alone
    <3>2. \A m \in Local : life'[m] \in {"new", "registered"} => current'[m] = 0
      BY <1>1, <1>3, <2>1, <2>2 DEF CalmKept
    <3>3. \A m \in Local : CalmLocal(m)'
      <4>1. \A m \in Local : todo[<<"creator", m>>] = {} => todo'[<<"creator", m>>] = {}
        BY <1>3 DEF Endpoints
      <4> QED BY <1>1, <1>4, <2>1, <4>1 DEF CalmKept, CalmLocal, PutPending, Endpoints
    <3>4. \A f \in Remote : CalmRemote(f)'
      BY <1>1, <1>4, <2>1 DEF CalmKept, CalmRemote, PutPending, Built, Endpoints
    <3> QED BY <3>1, <3>2, <3>3, <3>4 DEF CalmKept
  <2>5. CountKept'
    <3>1. ASSUME NEW m \in Local, NEW f \in Endpoints, m # l \/ f # e
          PROVE  Counts(m, f)' <=> Counts(m, f)
      <4>1. m \in todo'[<<"creator", f>>] <=> m \in todo[<<"creator", f>>]
        BY <1>3, <3>1
      <4> QED BY <1>1, <1>3, <4>1, CountsSame
    <3>2. ~ Counts(l, e) /\ Counts(l, e)'
      BY <1>1, <1>3, <2>3 DEF Counts, Announced
    <3>3. PICK k \in {"up", "down"} : k = "up"
      OBVIOUS
    <3>4. /\ current'[l] = (IF k = "up" THEN current[l] + 1 ELSE IF current[l] = 0 THEN 0 ELSE current[l] - 1)
          /\ Counts(l, e) <=> k # "up"
          /\ Counts(l, e)' <=> k = "up"
      BY <1>3, <3>2, <3>3
    <3> QED BY <1>1, <1>2, <1>3, <2>1, <3>1, <3>4, CountCalled
  <2> QED BY <2>4, <2>5
<1>12. ASSUME ~ Calm' PROVE CalmKept' /\ CountKept'
  BY <1>12 DEF CalmKept, CountKept
<1>13. CalmKept' /\ CountKept'
  BY <1>11, <1>12
<1> QED BY <1>5, <1>6, <1>7, <1>8, <1>9, <1>10, <1>13

\* The creation returns and lets go of the Arcs it holds.
LEMMA CreatedStep ==
    ASSUME DiscoveryInv, NEW l \in Local, Created(l)
    PROVE  DiscoveryInv'
<1> USE DEF DiscoveryInv
<1>1. /\ life[l] = "telling" /\ todo[<<"creator", l>>] = {}
      /\ life' = [life EXCEPT ![l] = "live"]
      /\ held' = [held EXCEPT ![l] = {}]
      /\ index' = index \cap Alive(parsed, held')
      /\ UNCHANGED <<samples, handler, replies, cached, parsed, todo, current, waiter, told,
                     ghosts, raced>>
  BY DEF Created
<1>2. l \in Endpoints /\ l \notin Remote /\ \A m \in Local : m \in Endpoints
  BY DiscoveryAssumption DEF Endpoints
<1>3. /\ life'[l] = "live" /\ \A f \in Endpoints \ {l} : life'[f] = life[f]
      /\ held'[l] = {} /\ \A m \in Local \ {l} : held'[m] = held[m]
  BY <1>1, <1>2 DEF DiscoveryTypeOK
<1>4. \A f \in Endpoints : Shown(f)' <=> Shown(f)
  BY <1>1 DEF Shown
<1>5. DiscoveryTypeOK'
  <2>1. index \subseteq Arcs /\ held \in [Local -> SUBSET Arcs]
    BY DEF DiscoveryTypeOK
  <2>2. index' \subseteq Arcs /\ held' \in [Local -> SUBSET Arcs]
    BY <1>1, <2>1
  <2> QED BY <1>1, <1>2, <2>2 DEF DiscoveryTypeOK
<1>6. IndexKept'
  <2>1. \A f \in Endpoints : parsed'[f] # 0 => <<f, parsed'[f]>> \in index
    BY <1>1 DEF IndexKept
  <2>2. index' = index \cap Alive(parsed', held')
    BY <1>1
  <2>3. /\ index' \subseteq Alive(parsed', held')
        /\ \A f \in Endpoints : parsed'[f] # 0 => <<f, parsed'[f]>> \in index'
    BY <2>1, <2>2, IndexCut
  <2>4. \A m \in Local : life'[m] \notin {"checked", "added", "telling"} => held'[m] = {}
    BY <1>2, <1>3 DEF IndexKept
  <2> QED BY <2>3, <2>4 DEF IndexKept
<1>7. LifeKept'
  <2>1. \A f \in Endpoints : Undelivered(f)'
    BY <1>1, <1>3, <1>4 DEF LifeKept, Undelivered, Declared, Creating
  <2> QED BY <1>2, <1>3, <2>1 DEF LifeKept, Endpoints
<1>8. ShownKept'
  BY <1>1, <1>2, <1>3, <1>4 DEF ShownKept, Creating
<1>9. WaiterKept'
  BY <1>1, <1>4 DEF WaiterKept, Pending
<1>10. \A m \in Local : life'[m] # "new" <=> life[m] # "new"
  BY <1>1, <1>2, <1>3
<1>11. TodoKept'
  <2>1. \A f \in Endpoints : life'[f] # "telling" => todo'[<<"creator", f>>] = {}
    BY <1>1, <1>3 DEF TodoKept
  <2> QED BY <1>1, <1>10, <2>1 DEF TodoKept
<1>12. ToldKept'
  <2>1. Built' => replies' = {}
    BY <1>1, <1>10 DEF Built, ToldKept
  <2>2. ASSUME NEW m \in Local, NEW f \in Opposite(m), life'[m] # "new", Declared(f)', Shown(f)'
        PROVE  WillBeTold(m, f)'
    <3>1. f \in Endpoints /\ WillBeTold(m, f)
      BY <1>1, <1>3, <1>4, <1>10, <2>2 DEF ToldKept, Opposite, Declared, Creating
    <3>2. life[m] = "registered" => life'[m] = "registered"
      BY <1>1, <1>2, <1>3
    <3> QED BY <1>1, <1>3, <3>1, <3>2 DEF WillBeTold
  <2> QED BY <1>1, <2>1, <2>2 DEF ToldKept, Opposite
<1>13. ASSUME Calm' PROVE CalmKept' /\ CountKept'
  <2>1. Calm
    BY <1>1, <1>13 DEF Calm
  <2>2. CalmKept'
    <3>1. \A m \in Local : life'[m] \notin Creating
      <4>1. Alone(l)
        BY <1>1, <2>1 DEF CalmKept, Creating
      <4> QED BY <1>2, <1>3, <4>1 DEF Alone, Creating
    <3>2. \A m \in Local : life'[m] \in {"new", "registered"} => current'[m] = 0
      BY <1>1, <1>2, <1>3, <2>1 DEF CalmKept
    <3>3. \A m \in Local \ {l} : CalmLocal(m)'
      BY <1>1, <1>2, <1>3, <1>4, <2>1 DEF CalmKept, CalmLocal, PutPending
    <3>4. CalmLocal(l)'
      BY <1>3 DEF CalmLocal
    <3>5. \A f \in Remote : CalmRemote(f)'
      <4>1. \A f \in Remote : f \in Endpoints /\ f # l
        BY <1>2 DEF Endpoints
      <4> QED BY <1>1, <1>3, <1>4, <1>10, <2>1, <4>1 DEF CalmKept, CalmRemote, PutPending, Built
    <3> QED BY <3>1, <3>2, <3>3, <3>4, <3>5 DEF CalmKept
  <2>3. CountKept'
    <3> SUFFICES ASSUME NEW m \in Local, life'[m] \in {"counted", "checked", "added", "telling", "live"}
                 PROVE  current[m] = Cardinality(Counted(m))'
      BY <1>1 DEF CountKept
    <3>1. current[m] = Cardinality(Counted(m))
      BY <1>1, <1>2, <1>3, <2>1 DEF CountKept
    <3>2. Counts(m, l)' <=> Counts(m, l)
      BY <1>1, <1>3 DEF Counts, Announced
    <3>3. \A f \in Endpoints \ {l} : Counts(m, f)' <=> Counts(m, f)
      BY <1>1, <1>3, CountsSame
    <3> QED BY <3>1, <3>2, <3>3, CountedSame DEF Opposite
  <2> QED BY <2>2, <2>3
<1>14. ASSUME ~ Calm' PROVE CalmKept' /\ CountKept'
  BY <1>14 DEF CalmKept, CountKept
<1>15. CalmKept' /\ CountKept'
  BY <1>13, <1>14
<1> QED BY <1>5, <1>6, <1>7, <1>8, <1>9, <1>11, <1>12, <1>15

\* A destroyed endpoint leaves the graph.
LEMMA RemoveLocalStep ==
    ASSUME DiscoveryInv, NEW l \in Local, RemoveLocal(l)
    PROVE  DiscoveryInv'
<1> USE DEF DiscoveryInv
<1>1. /\ life[l] = "live"
      /\ life' = [life EXCEPT ![l] = "removed"]
      /\ cached' = cached \ {l}
      /\ parsed' = [parsed EXCEPT ![l] = 0]
      /\ index' = {a \in index : a[1] # l}
      /\ raced' = (Races(l) \/ samples[l] # <<>> \/ handler[l] # "idle")
      /\ UNCHANGED <<samples, handler, replies, held, todo, current, waiter, told, ghosts>>
  BY DEF RemoveLocal
<1>2. l \in Endpoints /\ l \notin Remote /\ \A m \in Local : m \in Endpoints
  BY DiscoveryAssumption DEF Endpoints
<1>3. /\ life'[l] = "removed" /\ \A f \in Endpoints \ {l} : life'[f] = life[f]
      /\ parsed'[l] = 0 /\ \A f \in Endpoints \ {l} : parsed'[f] = parsed[f]
  BY <1>1, <1>2 DEF DiscoveryTypeOK
<1>4. ~ Shown(l)' /\ \A f \in Endpoints \ {l} : Shown(f)' <=> Shown(f)
  BY <1>1, <1>3 DEF Shown
<1>5. DiscoveryTypeOK'
  <2>1. index \subseteq Arcs /\ parsed \in [Endpoints -> 0 .. MaxArc] /\ MaxArc \in Nat
    BY DiscoveryAssumption DEF DiscoveryTypeOK
  <2>2. 0 \in 0 .. MaxArc
    BY ONLY <2>1
  <2>3. parsed' = [parsed EXCEPT ![l] = 0] /\ index' \subseteq index
    BY <1>1
  <2>4. index' \subseteq Arcs /\ parsed' \in [Endpoints -> 0 .. MaxArc]
    BY ONLY <1>2, <2>1, <2>2, <2>3
  <2>5. raced' \in BOOLEAN /\ cached' \subseteq cached
    BY <1>1
  <2> QED BY <1>1, <1>2, <2>4, <2>5 DEF DiscoveryTypeOK
<1>6. IndexKept'
  <2>1. ASSUME NEW a \in index' PROVE a \in Alive(parsed', held')
    <3>1. a \in Alive(parsed, held) /\ a[1] # l /\ held' = held
      BY <1>1 DEF IndexKept
    <3>2. CASE \E m \in Local : a \in held[m]
      BY <3>1, <3>2, AliveFacts
    <3>3. CASE a[1] \in Endpoints /\ parsed[a[1]] # 0 /\ a = <<a[1], parsed[a[1]]>>
      <4> DEFINE e == a[1]
      <4>1. e \in Endpoints /\ parsed'[e] = parsed[e] /\ parsed'[e] # 0 /\ a = <<e, parsed'[e]>>
        BY <1>3, <3>1, <3>3
      <4> HIDE DEF e
      <4> QED BY <4>1, AliveFacts
    <3> QED BY <3>1, <3>2, <3>3, AliveFacts
  <2>2. ASSUME NEW f \in Endpoints, parsed'[f] # 0 PROVE <<f, parsed'[f]>> \in index'
    <3>1. f # l /\ parsed'[f] = parsed[f]
      BY <1>3, <2>2
    <3>2. <<f, parsed[f]>> \in index
      BY <2>2, <3>1 DEF IndexKept
    <3> QED BY <1>1, <3>1, <3>2
  <2>3. \A m \in Local : life'[m] \notin {"checked", "added", "telling"} => held'[m] = {}
    BY <1>1, <1>2, <1>3 DEF IndexKept
  <2> QED BY <2>1, <2>2, <2>3 DEF IndexKept
<1>7. LifeKept'
  <2>1. Undelivered(l)'
    BY <1>1, <1>2, <1>3 DEF LifeKept, Undelivered, Declared, Creating
  <2>2. \A f \in Endpoints \ {l} : Undelivered(f)'
    BY <1>1, <1>3, <1>4 DEF LifeKept, Undelivered, Declared
  <2> QED BY <1>2, <1>3, <2>1, <2>2 DEF LifeKept, Endpoints
<1>8. ShownKept'
  <2>1. \A f \in Endpoints : life'[f] \in Creating \cup {"live"} /\ samples'[f] = <<>> => Shown(f)'
    BY <1>1, <1>3, <1>4 DEF ShownKept, Creating
  <2>2. \A m \in Local : life'[m] \in {"added", "telling", "live"} => parsed'[m] # 0
    BY <1>2, <1>3 DEF ShownKept
  <2>3. \A f \in Endpoints \ ghosts' :
           life'[f] = "gone" /\ samples'[f] = <<>> /\ handler'[f] \in {"idle", "notify"} => ~ Shown(f)'
    BY <1>1, <1>3, <1>4 DEF ShownKept
  <2> QED BY <2>1, <2>2, <2>3 DEF ShownKept
<1>9. WaiterKept'
  <2>1. \A f \in Endpoints : Shown(f)' => Shown(f)
    BY <1>4
  <2> QED BY <1>1, <2>1 DEF WaiterKept, Pending
<1>10. \A m \in Local : life'[m] # "new" <=> life[m] # "new"
  BY <1>1, <1>2, <1>3
<1>11. TodoKept'
  <2>1. \A f \in Endpoints : life'[f] # "telling" => life[f] # "telling"
    BY <1>1, <1>3
  <2> QED BY <1>1, <1>10, <2>1 DEF TodoKept
<1>12. ToldKept'
  <2>1. Built' => replies' = {}
    BY <1>1, <1>10 DEF Built, ToldKept
  <2>2. ASSUME NEW m \in Local, NEW f \in Opposite(m), life'[m] # "new", Declared(f)', Shown(f)'
        PROVE  WillBeTold(m, f)'
    <3>1. f \in Endpoints /\ f # l
      BY <1>4, <2>2 DEF Opposite
    <3>2. WillBeTold(m, f)
      BY <1>3, <1>4, <1>10, <2>2, <3>1 DEF ToldKept, Declared
    <3>3. life[m] = "registered" => life'[m] = "registered"
      BY <1>1, <1>2, <1>3
    <3> QED BY <1>1, <1>3, <3>1, <3>2, <3>3 DEF WillBeTold
  <2> QED BY <1>1, <2>1, <2>2 DEF ToldKept, Opposite
<1>13. ASSUME Calm' PROVE CalmKept' /\ CountKept'
  <2>1. /\ Calm /\ samples[l] = <<>> /\ handler[l] = "idle"
        /\ \A m \in Local : life[m] \in Creating => m = l /\ life[m] = "registered"
    BY <1>1, <1>13 DEF Calm, Races
  <2>2. CalmKept'
    <3>1. \A m \in Local : life'[m] \notin Creating
      BY <1>1, <1>2, <1>3, <2>1 DEF Creating
    <3>2. \A m \in Local : life'[m] \in {"new", "registered"} => current'[m] = 0
      BY <1>1, <1>2, <1>3, <2>1 DEF CalmKept
    <3>3. \A m \in Local \ {l} : CalmLocal(m)'
      BY <1>1, <1>2, <1>3, <1>4, <2>1 DEF CalmKept, CalmLocal, PutPending
    <3>4. CalmLocal(l)'
      BY <1>1, <1>3, <2>1 DEF CalmLocal
    <3>5. \A f \in Remote : CalmRemote(f)'
      <4>1. \A f \in Remote : f \in Endpoints /\ f # l
        BY <1>2 DEF Endpoints
      <4> QED BY <1>1, <1>3, <1>4, <1>10, <2>1, <4>1 DEF CalmKept, CalmRemote, PutPending, Built
    <3> QED BY <3>1, <3>2, <3>3, <3>4, <3>5 DEF CalmKept
  <2>3. CountKept'
    <3> SUFFICES ASSUME NEW m \in Local, life'[m] \in {"counted", "checked", "added", "telling", "live"}
                 PROVE  current[m] = Cardinality(Counted(m))'
      BY <1>1 DEF CountKept
    <3>1. current[m] = Cardinality(Counted(m))
      BY <1>1, <1>2, <1>3, <2>1 DEF CountKept
    <3>2. Counts(m, l)' <=> Counts(m, l)
      BY <1>1, <1>3 DEF Counts, Announced
    <3>3. \A f \in Endpoints \ {l} : Counts(m, f)' <=> Counts(m, f)
      BY <1>1, <1>3, CountsSame
    <3> QED BY <3>1, <3>2, <3>3, CountedSame DEF Opposite
  <2> QED BY <2>2, <2>3
<1>14. ASSUME ~ Calm' PROVE CalmKept' /\ CountKept'
  BY <1>14 DEF CalmKept, CountKept
<1>15. CalmKept' /\ CountKept'
  BY <1>13, <1>14
<1> QED BY <1>5, <1>6, <1>7, <1>8, <1>9, <1>11, <1>12, <1>15

\* add_local_entity puts the entity into the graph.
LEMMA AddLocalStep ==
    ASSUME DiscoveryInv, NEW l \in Local, AddLocal(l)
    PROVE  DiscoveryInv'
<1> USE DEF DiscoveryInv
<1>1. /\ life[l] = "checked" /\ UnusedArcs(l) # {}
      /\ parsed' = [parsed EXCEPT ![l] = FreshArc(l)]
      /\ index' = (index \cap Alive(parsed', held)) \cup {<<l, FreshArc(l)>>}
      /\ life' = [life EXCEPT ![l] = IF parsed[l] = 0 THEN "added" ELSE "telling"]
      /\ UNCHANGED <<samples, handler, replies, cached, held, todo, current, waiter, told,
                     ghosts, raced>>
  BY DEF AddLocal
<1>2. l \in Endpoints /\ l \notin Remote /\ \A m \in Local : m \in Endpoints
  BY DiscoveryAssumption DEF Endpoints
<1>3. FreshArc(l) \in 1 .. MaxArc /\ FreshArc(l) # 0 /\ MaxArc \in Nat
  <2>1. FreshArc(l) \in 1 .. MaxArc /\ MaxArc \in Nat
    BY <1>1, FreshFacts, DiscoveryAssumption
  <2> QED BY ONLY <2>1
<1>4. /\ life'[l] = (IF parsed[l] = 0 THEN "added" ELSE "telling")
      /\ \A f \in Endpoints \ {l} : life'[f] = life[f]
      /\ parsed'[l] = FreshArc(l) /\ \A f \in Endpoints \ {l} : parsed'[f] = parsed[f]
  BY <1>1, <1>2 DEF DiscoveryTypeOK
<1>5. Shown(l)' /\ \A f \in Endpoints \ {l} : Shown(f)' <=> Shown(f)
  BY <1>1, <1>3, <1>4 DEF Shown
<1>6. DiscoveryTypeOK'
  <2>1. index \subseteq Arcs /\ parsed \in [Endpoints -> 0 .. MaxArc]
    BY DEF DiscoveryTypeOK
  <2>2. parsed' = [parsed EXCEPT ![l] = FreshArc(l)]
    BY <1>1
  <2>3. parsed' \in [Endpoints -> 0 .. MaxArc]
    BY ONLY <1>2, <1>3, <2>1, <2>2
  <2>4. <<l, FreshArc(l)>> \in Arcs
    BY <1>2, <1>3 DEF Arcs
  <2>5. index' \subseteq Arcs
    BY <1>1, <2>1, <2>4
  <2> QED BY <1>1, <1>2, <2>3, <2>5 DEF DiscoveryTypeOK, Creating
<1>7. IndexKept'
  <2> DEFINE j == index \cap Alive(parsed', held)
  <2>1. <<l, FreshArc(l)>> \in Alive(parsed', held)
    BY <1>2, <1>3, <1>4, AliveFacts
  <2>2. index' = j \cup {<<l, FreshArc(l)>>} /\ held' = held
    BY <1>1
  <2>3. index' \subseteq Alive(parsed', held')
    BY <2>1, <2>2
  <2>4. ASSUME NEW f \in Endpoints, parsed'[f] # 0 PROVE <<f, parsed'[f]>> \in index'
    <3>1. CASE f = l
      BY <1>4, <2>2, <3>1
    <3>2. CASE f # l
      <4>1. <<f, parsed'[f]>> \in index
        BY <1>4, <2>4, <3>2 DEF IndexKept
      <4>2. <<f, parsed'[f]>> \in Alive(parsed', held)
        BY <2>4, AliveFacts
      <4> QED BY <2>2, <4>1, <4>2
    <3> QED BY <3>1, <3>2
  <2>5. \A m \in Local : life'[m] \notin {"checked", "added", "telling"} => held'[m] = {}
    BY <1>1, <1>2, <1>4 DEF IndexKept
  <2> QED BY <2>3, <2>4, <2>5 DEF IndexKept
<1>8. LifeKept'
  <2>1. Undelivered(l)'
    BY <1>1, <1>2, <1>4 DEF LifeKept, Undelivered, Declared, Creating
  <2>2. \A f \in Endpoints \ {l} : Undelivered(f)'
    BY <1>1, <1>4, <1>5 DEF LifeKept, Undelivered, Declared
  <2> QED BY <1>2, <1>4, <2>1, <2>2 DEF LifeKept, Endpoints
<1>9. ShownKept'
  <2>1. \A f \in Endpoints : life'[f] \in Creating \cup {"live"} /\ samples'[f] = <<>> => Shown(f)'
    BY <1>1, <1>4, <1>5 DEF ShownKept
  <2>2. \A m \in Local : life'[m] \in {"added", "telling", "live"} => parsed'[m] # 0
    BY <1>2, <1>3, <1>4 DEF ShownKept
  <2>3. \A f \in Endpoints \ ghosts' :
           life'[f] = "gone" /\ samples'[f] = <<>> /\ handler'[f] \in {"idle", "notify"} => ~ Shown(f)'
    BY <1>1, <1>4, <1>5 DEF ShownKept
  <2> QED BY <2>1, <2>2, <2>3 DEF ShownKept
<1>10. WaiterKept'
  <2>1. CASE samples[l] = <<>>
    <3>1. Shown(l)
      BY <1>1, <1>2, <2>1 DEF ShownKept, Creating
    <3>2. \A f \in Endpoints : Shown(f)' <=> Shown(f)
      BY <1>5, <3>1
    <3> QED BY <1>1, <3>2 DEF WaiterKept, Pending
  <2>2. CASE samples[l] # <<>>
    <3>1. Pending'
      BY <1>1, <1>2, <2>2 DEF Pending
    <3> QED BY <1>1, <3>1 DEF WaiterKept
  <2> QED BY <2>1, <2>2
<1>11. \A m \in Local : life'[m] # "new" <=> life[m] # "new"
  BY <1>1, <1>2, <1>4
<1>12. TodoKept'
  <2>1. \A f \in Endpoints : life'[f] # "telling" => todo'[<<"creator", f>>] = {}
    BY <1>1, <1>4 DEF TodoKept
  <2> QED BY <1>1, <1>11, <2>1 DEF TodoKept
<1>13. ToldKept'
  <2>1. Built' => replies' = {}
    BY <1>1, <1>11 DEF Built, ToldKept
  <2>2. ASSUME NEW m \in Local, NEW f \in Opposite(m), life'[m] # "new", Declared(f)', Shown(f)'
        PROVE  WillBeTold(m, f)'
    <3>1. f \in Endpoints
      BY DEF Opposite
    <3>2. CASE f = l /\ parsed[l] = 0
      BY <1>4, <3>2 DEF WillBeTold
    <3>3. CASE ~ (f = l /\ parsed[l] = 0)
      <4>1. Shown(f) /\ Declared(f)
        BY <1>1, <1>2, <1>4, <1>5, <2>2, <3>1, <3>3 DEF Shown, Declared, Creating
      <4>2. WillBeTold(m, f)
        BY <1>11, <2>2, <4>1 DEF ToldKept
      <4>3. life[m] = "registered" => life'[m] = "registered"
        BY <1>1, <1>2, <1>4
      <4>4. life[f] \in {"added", "telling"} => life'[f] = life[f]
        BY <1>1, <1>4, <3>1
      <4> QED BY <1>1, <4>2, <4>3, <4>4 DEF WillBeTold
    <3> QED BY <3>2, <3>3
  <2> QED BY <1>1, <2>1, <2>2 DEF ToldKept, Opposite
<1>14. ASSUME Calm' PROVE CalmKept' /\ CountKept'
  <2>1. Calm
    BY <1>1, <1>14 DEF Calm
  <2>2. \/ samples[l] = <<"put">> /\ handler[l] = "idle"
        \/ samples[l] = <<>>
    BY <1>1, <1>2 DEF LifeKept, Undelivered, Declared, Creating
  <2>3. parsed[l] = 0 <=> samples[l] = <<"put">>
    <3>1. CalmLocal(l)
      BY <2>1 DEF CalmKept
    <3>2. samples[l] = <<>> => parsed[l] # 0
      BY <1>1, <3>1 DEF CalmLocal
    <3>3. samples[l] = <<"put">> => parsed[l] = 0
      BY <1>1, <3>1 DEF CalmLocal, PutPending, Shown
    <3> QED BY <2>2, <3>2, <3>3
  <2>4. todo[<<"creator", l>>] = {}
    BY <1>1, <1>2 DEF TodoKept
  <2>5. CalmKept'
    <3>1. \A m \in Local : life'[m] \in Creating => Alone(m)'
      <4>1. \A m \in Local : life'[m] \in Creating => life[m] \in Creating
        BY <1>1, <1>2, <1>4 DEF Creating
      <4>2. \A m \in Local : life[m] \in Creating => m = l
        BY <1>1, <1>2, <2>1 DEF CalmKept, Alone, Creating
      <4>3. Alone(l) => Alone(l)'
        BY <1>1, <1>4 DEF Alone
      <4> QED BY <2>1, <4>1, <4>2, <4>3 DEF CalmKept
    <3>2. \A m \in Local : life'[m] \in {"new", "registered"} => current'[m] = 0
      BY <1>1, <1>2, <1>4, <2>1 DEF CalmKept
    <3>3. \A m \in Local \ {l} : CalmLocal(m)'
      BY <1>1, <1>2, <1>4, <1>5, <2>1 DEF CalmKept, CalmLocal, PutPending
    <3>4. CalmLocal(l)'
      BY <1>1, <1>4, <2>3, <2>4 DEF CalmLocal
    <3>5. \A f \in Remote : CalmRemote(f)'
      <4>1. \A f \in Remote : f \in Endpoints /\ f # l
        BY <1>2 DEF Endpoints
      <4> QED BY <1>1, <1>4, <1>5, <1>11, <2>1, <4>1 DEF CalmKept, CalmRemote, PutPending, Built
    <3> QED BY <3>1, <3>2, <3>3, <3>4, <3>5 DEF CalmKept
  <2>6. CountKept'
    <3> SUFFICES ASSUME NEW m \in Local, life'[m] \in {"counted", "checked", "added", "telling", "live"}
                 PROVE  current[m] = Cardinality(Counted(m))'
      BY <1>1 DEF CountKept
    <3>1. current[m] = Cardinality(Counted(m))
      BY <1>1, <1>2, <1>4, <2>1 DEF CountKept
    <3>2. Counts(m, l)' <=> Counts(m, l)
      <4>1. Announced(l)' <=> Announced(l)
        BY <1>1, <1>4, <2>2, <2>3, SampleFacts DEF Announced
      <4> QED BY <1>1, <4>1 DEF Counts
    <3>3. \A f \in Endpoints \ {l} : Counts(m, f)' <=> Counts(m, f)
      BY <1>1, <1>4, CountsSame
    <3> QED BY <3>1, <3>2, <3>3, CountedSame DEF Opposite
  <2> QED BY <2>5, <2>6
<1>15. ASSUME ~ Calm' PROVE CalmKept' /\ CountKept'
  BY <1>15 DEF CalmKept, CountKept
<1>16. CalmKept' /\ CountKept'
  BY <1>14, <1>15
<1> QED BY <1>6, <1>7, <1>8, <1>9, <1>10, <1>12, <1>13, <1>16

\* The QoS of the opposite endpoints is looked at, their Arcs in hand.
LEMMA CheckQosStep ==
    ASSUME DiscoveryInv, NEW l \in Local, CheckQos(l)
    PROVE  DiscoveryInv'
<1> USE DEF DiscoveryInv
<1>1. /\ life[l] = "counted" /\ Parse
      /\ held' = [held EXCEPT ![l] = {a \in index' : a[1] \in Opposite(l)}]
      /\ life' = [life EXCEPT ![l] = "checked"]
      /\ UNCHANGED <<samples, handler, replies, todo, current, waiter, told, ghosts, raced>>
  BY DEF CheckQos
<1>2. l \in Endpoints /\ l \notin Remote /\ \A m \in Local : m \in Endpoints
  BY DiscoveryAssumption DEF Endpoints
<1>3. /\ cached' = {} /\ parsed' \in [Endpoints -> 0 .. MaxArc] /\ index' \subseteq Arcs
      /\ \A e \in Endpoints : /\ Shown(e)' <=> Shown(e)
                              /\ Shown(e) => parsed'[e] # 0
                              /\ parsed[e] # 0 => parsed'[e] = parsed[e]
      /\ index' \subseteq Alive(parsed', held)
      /\ \A e \in Endpoints : parsed'[e] # 0 => <<e, parsed'[e]>> \in index'
  BY <1>1, ParseFacts
<1>4. /\ life'[l] = "checked" /\ \A f \in Endpoints \ {l} : life'[f] = life[f]
      /\ \A m \in Local \ {l} : held'[m] = held[m]
  BY <1>1, <1>2 DEF DiscoveryTypeOK
<1>5. DiscoveryTypeOK'
  <2>1. held \in [Local -> SUBSET Arcs]
    BY DEF DiscoveryTypeOK
  <2>2. held' \in [Local -> SUBSET Arcs]
    BY <1>1, <1>3, <2>1
  <2> QED BY <1>1, <1>2, <1>3, <2>2 DEF DiscoveryTypeOK, Creating
<1>6. IndexKept'
  <2>1. held[l] = {}
    BY <1>1 DEF IndexKept
  <2>2. \A m \in Local : held[m] \subseteq held'[m]
    BY <1>4, <2>1
  <2>3. Alive(parsed', held) \subseteq Alive(parsed', held')
    BY <2>2 DEF Alive
  <2>4. \A m \in Local : life'[m] \notin {"checked", "added", "telling"} => held'[m] = {}
    BY <1>1, <1>2, <1>4 DEF IndexKept
  <2> QED BY <1>3, <2>3, <2>4 DEF IndexKept
<1>7. LifeKept'
  <2>1. \A f \in Endpoints : Undelivered(f)'
    BY <1>1, <1>3, <1>4 DEF LifeKept, Undelivered, Declared, Creating
  <2> QED BY <1>2, <1>4, <2>1 DEF LifeKept, Endpoints
<1>8. ShownKept'
  <2>1. \A f \in Endpoints : life'[f] \in Creating \cup {"live"} /\ samples'[f] = <<>> => Shown(f)'
    BY <1>1, <1>3, <1>4 DEF ShownKept, Creating
  <2>2. \A m \in Local : life'[m] \in {"added", "telling", "live"} => parsed'[m] # 0
    BY <1>2, <1>3, <1>4 DEF ShownKept
  <2>3. \A f \in Endpoints \ ghosts' :
           life'[f] = "gone" /\ samples'[f] = <<>> /\ handler'[f] \in {"idle", "notify"} => ~ Shown(f)'
    BY <1>1, <1>3, <1>4 DEF ShownKept
  <2> QED BY <2>1, <2>2, <2>3 DEF ShownKept
<1>9. WaiterKept'
  BY <1>1, <1>3 DEF WaiterKept, Pending
<1>10. \A m \in Local : life'[m] # "new" <=> life[m] # "new"
  BY <1>1, <1>2, <1>4
<1>11. TodoKept'
  <2>1. \A f \in Endpoints : life'[f] # "telling" => todo'[<<"creator", f>>] = {}
    BY <1>1, <1>4 DEF TodoKept
  <2> QED BY <1>1, <1>10, <2>1 DEF TodoKept
<1>12. ToldKept'
  <2>1. Built' => replies' = {}
    BY <1>1, <1>10 DEF Built, ToldKept
  <2>2. ASSUME NEW m \in Local, NEW f \in Opposite(m), life'[m] # "new", Declared(f)', Shown(f)'
        PROVE  WillBeTold(m, f)'
    <3>1. f \in Endpoints /\ WillBeTold(m, f)
      BY <1>1, <1>3, <1>4, <1>10, <2>2 DEF ToldKept, Opposite, Declared, Creating
    <3>2. life[m] = "registered" => life'[m] = "registered"
      BY <1>1, <1>2, <1>4
    <3> QED BY <1>1, <1>4, <3>1, <3>2 DEF WillBeTold
  <2> QED BY <1>1, <2>1, <2>2 DEF ToldKept, Opposite
<1>13. ASSUME Calm' PROVE CalmKept' /\ CountKept'
  <2>1. Calm
    BY <1>1, <1>13 DEF Calm
  <2>2. CalmKept'
    <3>1. \A m \in Local : life'[m] \in Creating => Alone(m)'
      <4>1. \A m \in Local : life'[m] \in Creating => life[m] \in Creating
        BY <1>1, <1>2, <1>4 DEF Creating
      <4>2. \A m \in Local : life[m] \in Creating => m = l
        BY <1>1, <1>2, <2>1 DEF CalmKept, Alone, Creating
      <4>3. Alone(l) => Alone(l)'
        BY <1>1, <1>4 DEF Alone
      <4> QED BY <2>1, <4>1, <4>2, <4>3 DEF CalmKept
    <3>2. \A m \in Local : life'[m] \in {"new", "registered"} => current'[m] = 0
      BY <1>1, <1>2, <1>4, <2>1 DEF CalmKept
    <3>3. \A m \in Local \ {l} : CalmLocal(m)'
      BY <1>1, <1>2, <1>3, <1>4, <2>1 DEF CalmKept, CalmLocal, PutPending
    <3>4. CalmLocal(l)'
      BY <1>1, <1>2, <1>3, <1>4, <2>1 DEF CalmKept, CalmLocal, PutPending
    <3>5. \A f \in Remote : CalmRemote(f)'
      <4>1. \A f \in Remote : f \in Endpoints /\ f # l
        BY <1>2 DEF Endpoints
      <4> QED BY <1>1, <1>3, <1>4, <1>10, <2>1, <4>1 DEF CalmKept, CalmRemote, PutPending, Built
    <3> QED BY <3>1, <3>2, <3>3, <3>4, <3>5 DEF CalmKept
  <2>3. CountKept'
    <3> SUFFICES ASSUME NEW m \in Local, life'[m] \in {"counted", "checked", "added", "telling", "live"}
                 PROVE  current[m] = Cardinality(Counted(m))'
      BY <1>1 DEF CountKept
    <3>1. current[m] = Cardinality(Counted(m))
      BY <1>1, <1>2, <1>4, <2>1 DEF CountKept
    <3>2. Counts(m, l)' <=> Counts(m, l)
      BY <1>1, <1>4 DEF Counts, Announced
    <3>3. \A f \in Endpoints \ {l} : Counts(m, f)' <=> Counts(m, f)
      BY <1>1, <1>4, CountsSame
    <3> QED BY <3>1, <3>2, <3>3, CountedSame DEF Opposite
  <2> QED BY <2>2, <2>3
<1>14. ASSUME ~ Calm' PROVE CalmKept' /\ CountKept'
  BY <1>14 DEF CalmKept, CountKept
<1>15. CalmKept' /\ CountKept'
  BY <1>13, <1>14
<1> QED BY <1>5, <1>6, <1>7, <1>8, <1>9, <1>11, <1>12, <1>15

\* While nothing but its creation is under way, the opposite endpoints in the graph
\* are those that the new endpoint counts.
LEMMA AloneCounts ==
    ASSUME DiscoveryInv, Calm, NEW l \in Local, life[l] = "registered",
           NEW e \in Opposite(l)
    PROVE  Counts(l, e) <=> Shown(e)
<1> USE DEF DiscoveryInv
<1>1. Alone(l) /\ Built /\ ghosts = {}
  BY DEF CalmKept, Creating, Built, Calm
<1>2. e \in Endpoints /\ e # l
  BY DEF Opposite
<1>3. /\ handler[e] = "idle" /\ life[e] \in {"new", "live", "gone"}
      /\ e \in Local /\ life[e] = "gone" => samples[e] = <<>>
  BY <1>1, <1>2, Stages DEF Alone, Creating
<1>4. todo[<<"creator", e>>] = {}
  BY <1>2, <1>3 DEF TodoKept
<1>5. Counts(l, e) <=> Announced(e)
  BY <1>3, <1>4 DEF Counts
<1>6. CASE life[e] = "new"
  BY <1>2, <1>5, <1>6 DEF Announced, LifeKept, Undelivered, Declared, Creating
<1>7. CASE life[e] = "live" /\ e \in Local
  BY <1>5, <1>7 DEF Announced, ShownKept, Shown
<1>8. CASE life[e] = "live" /\ e \notin Local
  <2>1. e \in Remote /\ samples[e] \in {<<"put">>, <<>>}
    BY <1>2, <1>8 DEF Endpoints, LifeKept, Undelivered, Declared
  <2>2. samples[e] = <<>> => Shown(e)
    BY <1>2, <1>8 DEF ShownKept
  <2>3. samples[e] = <<"put">> => ~ Shown(e)
    BY <1>1, <2>1 DEF CalmKept, CalmRemote, PutPending
  <2>4. Announced(e) <=> samples[e] = <<>>
    BY <1>8 DEF Announced
  <2> QED BY <1>5, <2>1, <2>2, <2>3, <2>4, SampleFacts
<1>9. CASE life[e] = "gone"
  <2>1. samples[e] \in {<<>>, <<"delete">>, <<"put", "delete">>}
    BY <1>2, <1>9 DEF LifeKept, Undelivered, Declared, Creating
  <2>2. samples[e] = <<>> => ~ Shown(e)
    BY <1>1, <1>2, <1>3, <1>9 DEF ShownKept
  <2>3. e \notin Local => e \in Remote
    BY <1>2 DEF Endpoints
  <2>4. samples[e] = <<"delete">> => Shown(e)
    BY <1>3, <1>9, <2>3, SampleFacts DEF CalmKept, CalmRemote
  <2>5. samples[e] = <<"put", "delete">> => ~ Shown(e)
    BY <1>1, <1>3, <1>9, <2>3, SampleFacts DEF CalmKept, CalmRemote, PutPending
  <2>6. Announced(e) <=> samples[e] = <<"delete">>
    BY <1>9 DEF Announced
  <2> QED BY <1>5, <2>1, <2>2, <2>4, <2>5, <2>6, SampleFacts
<1> QED BY <1>3, <1>6, <1>7, <1>8, <1>9

\* There are finitely many Arcs.
LEMMA ArcsFinite ==
    ASSUME NEW S, S \subseteq Arcs
    PROVE  IsFiniteSet(S) /\ Cardinality(S) \in Nat
<1>1. IsFiniteSet(Endpoints)
  BY CountedFinite
<1>2. MaxArc \in Nat
  BY DiscoveryAssumption
<1>3. IsFiniteSet(1 .. MaxArc)
  BY <1>2, FS_Interval
<1>4. IsFiniteSet(Arcs)
  BY <1>1, <1>3, FS_Product DEF Arcs
<1>5. IsFiniteSet(S)
  BY <1>4, FS_Subset
<1> QED BY <1>5, FS_CardinalityType

\* If every member of a finite set of pairs is the pair of its first component and
\* that component's value, there are as many pairs as first components.
LEMMA OnePairEach ==
    ASSUME NEW S, NEW p, NEW T, IsFiniteSet(S), S = {<<e, p[e]>> : e \in T}
    PROVE  IsFiniteSet(T) /\ Cardinality(T) = Cardinality(S)
<1> DEFINE f == [a \in S |-> a[1]]
<1>1. \A a \in S : f[a] \in T /\ a = <<f[a], p[f[a]]>>
  OBVIOUS
<1>2. \A e \in T : <<e, p[e]>> \in S /\ f[<<e, p[e]>>] = e
  OBVIOUS
<1>3. f \in [S -> T]
  OBVIOUS
<1> HIDE DEF f
<1>4. f \in Bijection(S, T)
  <2>1. \A a, b \in S : f[a] = f[b] => a = b
    BY <1>1
  <2>2. \A e \in T : \E a \in S : f[a] = e
    BY <1>2
  <2> QED BY ONLY <1>3, <2>1, <2>2 DEF Bijection, Injection, Surjection, IsInjective
<1>5. ExistsBijection(S, T)
  BY <1>4 DEF ExistsBijection
<1> QED BY <1>5, FS_Bijection

\* With nothing else under way and no Arc in hand, the opposite entities listed by
\* topic are as many as the new endpoint counts.
LEMMA ListedCounted ==
    ASSUME DiscoveryInv, Calm, NEW l \in Local, life[l] = "registered", Parse
    PROVE  Cardinality({a \in index' : a[1] \in Opposite(l)}) = Cardinality(Counted(l))
<1> DEFINE S == {a \in index' : a[1] \in Opposite(l)}
           T == Counted(l)
<1>1. /\ index' \subseteq Arcs
      /\ \A e \in Endpoints : Shown(e)' <=> Shown(e)
      /\ \A e \in Endpoints : Shown(e) => parsed'[e] # 0
      /\ index' \subseteq Alive(parsed', held) /\ cached' = {}
      /\ \A e \in Endpoints : parsed'[e] # 0 => <<e, parsed'[e]>> \in index'
  BY ParseFacts DEF DiscoveryInv
<1>2. \A m \in Local : held[m] = {}
  <2>1. Alone(l)
    BY DEF DiscoveryInv, CalmKept, Creating
  <2>2. \A m \in Local : life[m] \notin {"checked", "added", "telling"}
    BY <2>1 DEF Alone, Creating, Endpoints
  <2> QED BY <2>2 DEF DiscoveryInv, IndexKept
<1>3. \A e \in Opposite(l) : e \in Endpoints /\ (e \in T <=> Shown(e))
  <2>1. \A e \in Opposite(l) : Counts(l, e) <=> Shown(e)
    BY AloneCounts
  <2> QED BY <2>1 DEF Counted, Opposite
<1>4. \A e \in T : e \in Opposite(l)
  BY DEF Counted
<1>5. \A e \in Endpoints : Shown(e) <=> parsed'[e] # 0
  BY <1>1 DEF Shown
<1> HIDE DEF T
<1>6. S = {<<e, parsed'[e]>> : e \in T}
  <2>1. ASSUME NEW a \in S PROVE \E e \in T : a = <<e, parsed'[e]>>
    <3>1. a \in Alive(parsed', held) /\ a[1] \in Opposite(l)
      BY <1>1
    <3>2. a[1] \in Endpoints /\ parsed'[a[1]] # 0 /\ a = <<a[1], parsed'[a[1]]>>
      BY <1>2, <3>1, AliveFacts
    <3>3. a[1] \in T
      BY <1>3, <1>5, <3>1, <3>2
    <3> QED BY <3>2, <3>3
  <2>2. ASSUME NEW e \in T PROVE <<e, parsed'[e]>> \in S
    <3>1. e \in Opposite(l) /\ e \in Endpoints /\ Shown(e)
      BY <1>3, <1>4
    <3>2. <<e, parsed'[e]>> \in index'
      BY <1>1, <1>5, <3>1
    <3> QED BY <3>1, <3>2
  <2> HIDE DEF S
  <2> QED BY <2>1, <2>2
<1>7. IsFiniteSet(S)
  BY <1>1, ArcsFinite
<1>8. PICK p : p = parsed'
  OBVIOUS
<1> HIDE DEF S
<1>9. Cardinality(T) = Cardinality(S)
  BY <1>6, <1>7, <1>8, OnePairEach
<1> QED BY <1>9 DEF S, T

\* What is there already is counted.
LEMMA CountExistingStep ==
    ASSUME DiscoveryInv, NEW l \in Local, CountExisting(l)
    PROVE  DiscoveryInv'
<1> USE DEF DiscoveryInv
<1> DEFINE S == {a \in index' : a[1] \in Opposite(l)}
           seen == {a[1] : a \in S}
<1>1. /\ life[l] = "registered" /\ Parse
      /\ current' = [current EXCEPT ![l] = @ + Cardinality(S)]
      /\ told' = [told EXCEPT ![l] = @ \cup seen]
      /\ life' = [life EXCEPT ![l] = "counted"]
      /\ UNCHANGED <<samples, handler, replies, held, todo, waiter, ghosts, raced>>
  BY DEF CountExisting
<1>2. l \in Endpoints /\ l \notin Remote /\ \A m \in Local : m \in Endpoints
  BY DiscoveryAssumption DEF Endpoints
<1>3. /\ cached' = {} /\ parsed' \in [Endpoints -> 0 .. MaxArc] /\ index' \subseteq Arcs
      /\ \A e \in Endpoints : /\ Shown(e)' <=> Shown(e)
                              /\ Shown(e) => parsed'[e] # 0
                              /\ parsed[e] # 0 => parsed'[e] = parsed[e]
      /\ index' \subseteq Alive(parsed', held)
      /\ \A e \in Endpoints : parsed'[e] # 0 => <<e, parsed'[e]>> \in index'
  BY <1>1, ParseFacts
<1>4. Cardinality(S) \in Nat
  BY <1>3, ArcsFinite
<1>5. seen \subseteq Endpoints
  BY DEF Opposite
<1>6. \A e \in Opposite(l) : Shown(e)' => e \in seen
  <2> SUFFICES ASSUME NEW e \in Opposite(l), Shown(e)' PROVE e \in seen
    OBVIOUS
  <2>1. e \in Endpoints
    BY DEF Opposite
  <2>2. parsed'[e] # 0
    BY <1>3, <2>1
  <2>3. <<e, parsed'[e]>> \in S
    BY <1>3, <2>1, <2>2
  <2>4. <<e, parsed'[e]>>[1] = e
    OBVIOUS
  <2> QED BY <2>3, <2>4
<1>7. Calm => Cardinality(S) = Cardinality(Counted(l))
  BY <1>1, ListedCounted
<1> HIDE DEF S, seen
<1>8. /\ current' \in [Local -> Nat] /\ told' \in [Local -> SUBSET Endpoints]
      /\ current'[l] = current[l] + Cardinality(S) /\ told'[l] = told[l] \cup seen
      /\ \A m \in Local \ {l} : current'[m] = current[m] /\ told'[m] = told[m]
  <2>1. current \in [Local -> Nat] /\ told \in [Local -> SUBSET Endpoints]
    BY DEF DiscoveryTypeOK
  <2>2. /\ current' = [current EXCEPT ![l] = @ + Cardinality(S)]
        /\ told' = [told EXCEPT ![l] = @ \cup seen]
    BY <1>1
  <2> QED BY ONLY <1>4, <1>5, <2>1, <2>2, l \in Local
<1>9. life'[l] = "counted" /\ \A f \in Endpoints \ {l} : life'[f] = life[f]
  BY <1>1, <1>2 DEF DiscoveryTypeOK
<1>10. DiscoveryTypeOK'
  BY <1>1, <1>2, <1>3, <1>8 DEF DiscoveryTypeOK, Creating
<1>11. IndexKept'
  <2>1. \A m \in Local : life'[m] \notin {"checked", "added", "telling"} => held'[m] = {}
    BY <1>1, <1>2, <1>9 DEF IndexKept
  <2> QED BY <1>1, <1>3, <2>1 DEF IndexKept
<1>12. LifeKept'
  <2>1. \A f \in Endpoints : Undelivered(f)'
    BY <1>1, <1>3, <1>9 DEF LifeKept, Undelivered, Declared, Creating
  <2> QED BY <1>2, <1>9, <2>1 DEF LifeKept, Endpoints
<1>13. ShownKept'
  <2>1. \A f \in Endpoints : life'[f] \in Creating \cup {"live"} /\ samples'[f] = <<>> => Shown(f)'
    BY <1>1, <1>3, <1>9 DEF ShownKept, Creating
  <2>2. \A m \in Local : life'[m] \in {"added", "telling", "live"} => parsed'[m] # 0
    BY <1>2, <1>3, <1>9 DEF ShownKept
  <2>3. \A f \in Endpoints \ ghosts' :
           life'[f] = "gone" /\ samples'[f] = <<>> /\ handler'[f] \in {"idle", "notify"} => ~ Shown(f)'
    BY <1>1, <1>3, <1>9 DEF ShownKept
  <2> QED BY <2>1, <2>2, <2>3 DEF ShownKept
<1>14. WaiterKept'
  BY <1>1, <1>3 DEF WaiterKept, Pending
<1>15. \A m \in Local : life'[m] # "new" <=> life[m] # "new"
  BY <1>1, <1>2, <1>9
<1>16. TodoKept'
  <2>1. \A f \in Endpoints : life'[f] # "telling" => todo'[<<"creator", f>>] = {}
    BY <1>1, <1>9 DEF TodoKept
  <2> QED BY <1>1, <1>15, <2>1 DEF TodoKept
<1>17. ToldKept'
  <2>1. Built' => replies' = {}
    BY <1>1, <1>15 DEF Built, ToldKept
  <2>2. ASSUME NEW m \in Local, NEW f \in Opposite(m), life'[m] # "new", Declared(f)', Shown(f)'
        PROVE  WillBeTold(m, f)'
    <3>1. CASE m = l
      BY <1>6, <1>8, <2>2, <3>1 DEF WillBeTold
    <3>2. CASE m # l
      <4>1. f \in Endpoints /\ WillBeTold(m, f)
        BY <1>1, <1>3, <1>9, <1>15, <2>2 DEF ToldKept, Opposite, Declared, Creating
      <4>2. life'[m] = life[m] /\ told'[m] = told[m]
        BY <1>2, <1>8, <1>9, <3>2
      <4> QED BY <1>1, <1>9, <4>1, <4>2 DEF WillBeTold
    <3> QED BY <3>1, <3>2
  <2> QED BY <1>1, <2>1, <2>2 DEF ToldKept, Opposite
<1>18. ASSUME Calm' PROVE CalmKept' /\ CountKept'
  <2>1. Calm
    BY <1>1, <1>18 DEF Calm
  <2>2. CalmKept'
    <3>1. \A m \in Local : life'[m] \in Creating => Alone(m)'
      <4>1. \A m \in Local : life'[m] \in Creating => life[m] \in Creating
        BY <1>1, <1>2, <1>9 DEF Creating
      <4>2. \A m \in Local : life[m] \in Creating => m = l
        BY <1>1, <1>2, <2>1 DEF CalmKept, Alone, Creating
      <4>3. Alone(l) => Alone(l)'
        BY <1>1, <1>9 DEF Alone
      <4> QED BY <2>1, <4>1, <4>2, <4>3 DEF CalmKept
    <3>2. \A m \in Local : life'[m] \in {"new", "registered"} => current'[m] = 0
      BY <1>2, <1>8, <1>9, <2>1 DEF CalmKept
    <3>3. \A m \in Local \ {l} : CalmLocal(m)'
      BY <1>1, <1>2, <1>3, <1>9, <2>1 DEF CalmKept, CalmLocal, PutPending
    <3>4. CalmLocal(l)'
      <4>1. samples[l] = <<>> => Shown(l)
        BY <1>1, <1>2 DEF ShownKept, Creating
      <4>2. PutPending(l) => ~ Shown(l)
        BY <1>1, <2>1 DEF CalmKept, CalmLocal
      <4> QED BY <1>1, <1>2, <1>3, <1>9, <4>1, <4>2 DEF CalmLocal, PutPending
    <3>5. \A f \in Remote : CalmRemote(f)'
      <4>1. \A f \in Remote : f \in Endpoints /\ f # l
        BY <1>2 DEF Endpoints
      <4> QED BY <1>1, <1>3, <1>9, <1>15, <2>1, <4>1 DEF CalmKept, CalmRemote, PutPending, Built
    <3> QED BY <3>1, <3>2, <3>3, <3>4, <3>5 DEF CalmKept
  <2>3. CountKept'
    <3> SUFFICES ASSUME NEW m \in Local, life'[m] \in {"counted", "checked", "added", "telling", "live"}
                 PROVE  current'[m] = Cardinality(Counted(m))'
      BY DEF CountKept
    <3>1. Counts(m, l)' <=> Counts(m, l)
      BY <1>1, <1>9 DEF Counts, Announced
    <3>2. \A f \in Endpoints \ {l} : Counts(m, f)' <=> Counts(m, f)
      BY <1>1, <1>9, CountsSame
    <3>3. Cardinality(Counted(m))' = Cardinality(Counted(m))
      BY <3>1, <3>2, CountedSame DEF Opposite
    <3>4. CASE m = l
      <4>1. current[l] = 0
        BY <1>1, <2>1 DEF CalmKept
      <4> QED BY <1>4, <1>7, <1>8, <2>1, <3>3, <3>4, <4>1
    <3>5. CASE m # l
      BY <1>2, <1>8, <1>9, <2>1, <3>3, <3>5 DEF CountKept
    <3> QED BY <3>4, <3>5
  <2> QED BY <2>2, <2>3
<1>19. ASSUME ~ Calm' PROVE CalmKept' /\ CountKept'
  BY <1>19 DEF CalmKept, CountKept
<1>20. CalmKept' /\ CountKept'
  BY <1>18, <1>19
<1> QED BY <1>10, <1>11, <1>12, <1>13, <1>14, <1>16, <1>17, <1>20

\* A step that only reads the graph and moves the waiter.
LEMMA ReadStep ==
    ASSUME DiscoveryInv, Parse \/ UNCHANGED <<cached, parsed, index>>,
           UNCHANGED <<life, samples, handler, replies, held, todo, current, told, ghosts, raced>>,
           waiter' \in {"nobody", "idle", "armed", "notified", "parked", "locking", "checked",
                        "unheard", "blocked", "deaf", "late", "found", "gave up"},
           WaiterKept'
    PROVE  DiscoveryInv'
<1> USE DEF DiscoveryInv
<1>1. /\ cached' \subseteq Endpoints /\ parsed' \in [Endpoints -> 0 .. MaxArc] /\ index' \subseteq Arcs
      /\ \A e \in Endpoints : /\ Shown(e)' <=> Shown(e)
                              /\ parsed[e] # 0 => parsed'[e] # 0
      /\ index' \subseteq Alive(parsed', held)
      /\ \A e \in Endpoints : parsed'[e] # 0 => <<e, parsed'[e]>> \in index'
  <2>1. CASE Parse
    <3>1. /\ cached' = {} /\ parsed' \in [Endpoints -> 0 .. MaxArc] /\ index' \subseteq Arcs
          /\ \A e \in Endpoints : /\ Shown(e)' <=> Shown(e)
                                  /\ parsed[e] # 0 => parsed'[e] = parsed[e]
          /\ index' \subseteq Alive(parsed', held)
          /\ \A e \in Endpoints : parsed'[e] # 0 => <<e, parsed'[e]>> \in index'
      BY <2>1, ParseFacts
    <3> QED BY <3>1
  <2>2. CASE UNCHANGED <<cached, parsed, index>>
    BY <2>2 DEF DiscoveryTypeOK, IndexKept, Shown
  <2> QED BY <2>1, <2>2
<1>2. DiscoveryTypeOK'
  BY <1>1 DEF DiscoveryTypeOK
<1>3. IndexKept'
  BY <1>1 DEF IndexKept
<1>4. LifeKept'
  BY <1>1 DEF LifeKept, Undelivered, Declared
<1>5. ShownKept'
  BY <1>1 DEF ShownKept, Endpoints
<1>6. TodoKept'
  BY DEF TodoKept
<1>7. ToldKept'
  BY <1>1 DEF ToldKept, Built, WillBeTold, Declared, Opposite
<1>8. ASSUME Calm' PROVE CalmKept' /\ CountKept'
  <2>1. Calm
    BY <1>8 DEF Calm
  <2>2. \A l \in Local : life'[l] \in Creating => Alone(l)'
    BY <2>1 DEF CalmKept, Alone
  <2>3. \A l \in Local : life'[l] \in {"new", "registered"} => current'[l] = 0
    BY <2>1 DEF CalmKept
  <2>4. \A l \in Local : CalmLocal(l)'
    BY <1>1, <2>1 DEF CalmKept, CalmLocal, PutPending, Endpoints
  <2>5. \A e \in Remote : CalmRemote(e)'
    BY <1>1, <2>1 DEF CalmKept, CalmRemote, PutPending, Built, Endpoints
  <2>6. CountKept'
    <3> SUFFICES ASSUME NEW l \in Local, life[l] \in {"counted", "checked", "added", "telling", "live"}
                 PROVE  current[l] = Cardinality(Counted(l))'
      BY DEF CountKept
    <3>1. current[l] = Cardinality(Counted(l))
      BY <2>1 DEF CountKept
    <3>2. \A f \in Endpoints : Counts(l, f)' <=> Counts(l, f)
      BY CountsSame
    <3> QED BY <3>1, <3>2, CountedSame DEF Opposite
  <2> QED BY <2>2, <2>3, <2>4, <2>5, <2>6 DEF CalmKept
<1>9. ASSUME ~ Calm' PROVE CalmKept' /\ CountKept'
  BY <1>9 DEF CalmKept, CountKept
<1>10. CalmKept' /\ CountKept'
  BY <1>8, <1>9
<1> QED BY <1>2, <1>3, <1>4, <1>5, <1>6, <1>7, <1>10

\* A predicate that fails has seen all there is.
LEMMA NothingShown ==
    ASSUME DiscoveryInv, Parse, ~ Predicate
    PROVE  ~ \E e \in Endpoints : Kind[e] = WaitKind /\ Shown(e)'
<1> SUFFICES ASSUME NEW e \in Endpoints, Kind[e] = WaitKind, Shown(e)' PROVE FALSE
  OBVIOUS
<1> DEFINE S == {a \in index' : Kind[a[1]] = WaitKind}
<1>1. /\ cached' = {} /\ index' \subseteq Arcs
      /\ \A f \in Endpoints : parsed'[f] # 0 => <<f, parsed'[f]>> \in index'
  BY ParseFacts DEF DiscoveryInv
<1>2. <<e, parsed'[e]>> \in index'
  BY <1>1 DEF Shown
<1>3. <<e, parsed'[e]>> \in S
  BY <1>2
<1>4. IsFiniteSet(S) /\ Cardinality(S) \in Nat
  BY <1>1, ArcsFinite
<1>5. ~ (Cardinality(S) > 0)
  BY DEF Predicate, Count, Visit
<1> HIDE DEF S
<1>6. Cardinality(S) = 0
  BY ONLY <1>4, <1>5
<1>7. S = {}
  BY <1>4, <1>6, FS_EmptySet
<1> QED BY <1>3, <1>7

\* The waiters.
LEMMA WaiterSteps ==
    ASSUME DiscoveryInv,
           \/ AsyncArm \/ AsyncCheck \/ AsyncTimesOut \/ SyncCheck
           \/ \E to \in {"blocked", "deaf", "late"} : SyncWaits(to)
           \/ UNCHANGED discoveryVars
    PROVE  DiscoveryInv'
<1> DEFINE Rest == UNCHANGED <<life, samples, handler, replies, held, todo, current, told, ghosts, raced>>
           Still == UNCHANGED <<cached, parsed, index>>
<1>1. waiter \in {"nobody", "idle", "armed", "notified", "parked", "locking", "checked",
                  "unheard", "blocked", "deaf", "late", "found", "gave up"}
  BY DEF DiscoveryInv, DiscoveryTypeOK
<1>2. CASE AsyncArm
  <2>1. Still /\ Rest /\ waiter' = "armed" /\ replies = {}
    BY <1>2 DEF AsyncArm, graphVars
  <2>2. WaiterKept'
    BY <2>1 DEF WaiterKept
  <2> QED BY <2>1, <2>2, ReadStep
<1>3. CASE AsyncCheck
  <2>1. /\ Parse /\ Rest /\ waiter \in {"armed", "notified"}
        /\ waiter' \in {"found", "gave up", "parked", "idle"}
        /\ waiter' = "parked" => ~ Predicate
    BY <1>3 DEF AsyncCheck
  <2>2. WaiterKept'
    BY <2>1, NothingShown DEF WaiterKept, DiscoveryInv
  <2> QED BY <2>1, <2>2, ReadStep
<1>4. CASE AsyncTimesOut
  <2>1. Parse /\ Rest /\ waiter' \in {"found", "gave up"}
    BY <1>4 DEF AsyncTimesOut
  <2>2. WaiterKept'
    BY <2>1 DEF WaiterKept
  <2> QED BY <2>1, <2>2, ReadStep
<1>5. CASE SyncCheck
  <2>1. /\ Parse /\ Rest /\ replies = {}
        /\ waiter' \in {"found", "gave up", "checked"}
        /\ waiter' = "checked" => ~ Predicate
    BY <1>5 DEF SyncCheck
  <2>2. WaiterKept'
    BY <2>1, NothingShown DEF WaiterKept
  <2> QED BY <2>1, <2>2, ReadStep
<1>6. ASSUME NEW to \in {"blocked", "deaf", "late"}, SyncWaits(to) PROVE DiscoveryInv'
  <2>1. /\ Still /\ Rest /\ waiter' \in {"blocked", "deaf", "late"}
        /\ waiter' = "blocked" => waiter = "checked"
    BY <1>6 DEF SyncWaits, graphVars
  <2>2. \A e \in Endpoints : Shown(e)' <=> Shown(e)
    BY <2>1 DEF Shown
  <2>3. WaiterKept'
    BY <2>1, <2>2 DEF DiscoveryInv, WaiterKept, Pending
  <2> QED BY <2>1, <2>3, ReadStep
<1>7. CASE UNCHANGED discoveryVars
  <2>1. Still /\ Rest /\ waiter' = waiter
    BY <1>7 DEF discoveryVars
  <2>2. \A e \in Endpoints : Shown(e)' <=> Shown(e)
    BY <2>1 DEF Shown
  <2>3. WaiterKept'
    BY <2>1, <2>2 DEF DiscoveryInv, WaiterKept, Pending
  <2> QED BY <1>1, <2>1, <2>3, ReadStep
<1> QED BY <1>2, <1>3, <1>4, <1>5, <1>6, <1>7

\* The invariant holds at the start.
LEMMA DiscoveryInvInit ==
    ASSUME DiscoveryInit
    PROVE  DiscoveryInv
<1>1. PICK there \in SUBSET Remote :
        /\ life = [e \in Endpoints |-> IF e \in there THEN "live" ELSE "new"]
        /\ samples = [e \in Endpoints |-> IF e \in there THEN <<"put">> ELSE <<>>]
        /\ handler = [e \in Endpoints |-> "idle"]
        /\ replies = there
        /\ cached = {} /\ parsed = [e \in Endpoints |-> 0] /\ index = {}
        /\ held = [l \in Local |-> {}]
        /\ todo = [t \in Triggers |-> {}]
        /\ current = [l \in Local |-> 0]
        /\ waiter \in {"nobody", "idle", "locking"}
        /\ told = [l \in Local |-> {}]
        /\ ghosts = {} /\ raced = FALSE
  BY DEF DiscoveryInit
<1>2. /\ \A e \in Endpoints : /\ life[e] = (IF e \in there THEN "live" ELSE "new")
                              /\ samples[e] = (IF e \in there THEN <<"put">> ELSE <<>>)
                              /\ handler[e] = "idle" /\ ~ Shown(e) /\ parsed[e] = 0
      /\ \A l \in Local : l \in Endpoints /\ l \notin there /\ current[l] = 0 /\ held[l] = {}
      /\ \A x \in {"callback", "creator"}, e \in Endpoints : todo[<<x, e>>] = {}
  <2>1. \A x \in {"callback", "creator"}, e \in Endpoints : <<x, e>> \in Triggers
    BY DEF Triggers
  <2>2. \A x \in {"callback", "creator"}, e \in Endpoints : todo[<<x, e>>] = {}
    BY <1>1, <2>1
  <2>3. \A l \in Local : l \in Endpoints /\ l \notin there /\ current[l] = 0 /\ held[l] = {}
    BY <1>1, DiscoveryAssumption DEF Endpoints
  <2> QED BY <1>1, <2>2, <2>3 DEF Shown
<1>3. DiscoveryTypeOK
  <2>1. MaxArc \in Nat
    BY DiscoveryAssumption
  <2>2. parsed \in [Endpoints -> 0 .. MaxArc]
    BY <1>1, <2>1
  <2>3. samples \in [Endpoints -> Seq({"put", "delete"})]
    BY <1>1, SampleFacts
  <2>4. current \in [Local -> Nat]
    BY <1>1
  <2>5. there \subseteq Endpoints
    BY DEF Endpoints
  <2> QED BY <1>1, <2>2, <2>3, <2>4, <2>5 DEF DiscoveryTypeOK
<1>4. IndexKept
  BY <1>1, <1>2 DEF IndexKept
<1>5. LifeKept
  BY <1>1, <1>2 DEF LifeKept, Undelivered, Declared, Endpoints
<1>6. ShownKept
  BY <1>2, SampleFacts DEF ShownKept, Creating
<1>7. WaiterKept
  BY <1>1 DEF WaiterKept
<1>8. TodoKept
  BY <1>2 DEF TodoKept
<1>9. ToldKept
  BY <1>2 DEF ToldKept, Built, Opposite
<1>10. CalmKept
  <2>1. \A l \in Local : life[l] = "new" /\ samples[l] = <<>>
    BY <1>2
  <2>2. ~ Built
    BY <2>1 DEF Built
  <2>3. \A e \in Remote : CalmRemote(e)
    BY <1>2, <2>2 DEF CalmRemote, Endpoints
  <2> QED BY <1>2, <2>1, <2>3 DEF CalmKept, CalmLocal, Creating
<1>11. CountKept
  BY <1>2 DEF CountKept
<1> QED BY <1>3, <1>4, <1>5, <1>6, <1>7, <1>8, <1>9, <1>10, <1>11 DEF DiscoveryInv

\* Every step keeps it.
LEMMA DiscoveryInvNext ==
    ASSUME DiscoveryInv, [DiscoveryNext]_discoveryVars
    PROVE  DiscoveryInv'
<1>1. ASSUME NEW e \in Endpoints, HandlerStep(e) PROVE DiscoveryInv'
  BY <1>1, HandlePutStep, HandleDeleteStep, CollectStep, HandlerCallsStep, HandlerRemovesStep,
     HandlerNotifiesStep DEF HandlerStep
<1>2. ASSUME NEW e \in Endpoints, TakeReply(e) \/ Appear(e) \/ Disappear(e) PROVE DiscoveryInv'
  BY <1>2, TakeReplyStep, AppearStep, DisappearStep
<1>3. ASSUME NEW l \in Local, CreatorStep(l) PROVE DiscoveryInv'
  BY <1>3, CountExistingStep, CheckQosStep, AddLocalStep, AddLocalTriggersStep, AddLocalCallsStep,
     CreatedStep, DropTokenStep DEF CreatorStep
<1>4. ASSUME NEW l \in Local, Build(l) \/ RemoveLocal(l) PROVE DiscoveryInv'
  BY <1>4, BuildStep, RemoveLocalStep
<1> QED BY <1>1, <1>2, <1>3, <1>4, WaiterSteps DEF DiscoveryNext

\* The invariant holds of every reachable state.
THEOREM DiscoveryInvCorrect == DiscoverySpec => []DiscoveryInv
<1>1. DiscoveryInit => DiscoveryInv
  BY DiscoveryInvInit
<1>2. DiscoveryInv /\ [DiscoveryNext]_discoveryVars => DiscoveryInv'
  BY DiscoveryInvNext
<1> QED BY <1>1, <1>2, PTL DEF DiscoverySpec

\* Once everything is handled the graph shows exactly the live endpoints, each once,
\* whatever the order of samples, replies, reads and local insertions: all but the
\* replies read after their Delete.
THEOREM GraphConvergesCorrect == DiscoverySpec => []GraphConverges
<1>1. DiscoveryInv => GraphConverges
  <2> SUFFICES ASSUME DiscoveryInv, Quiet, NEW e \in Endpoints \ ghosts
               PROVE  Cardinality({a \in index : a[1] = e}) + (IF e \in cached /\ parsed[e] = 0 THEN 1 ELSE 0)
                        = (IF Declared(e) THEN 1 ELSE 0)
    BY DEF GraphConverges, DiscoveryInv
  <2> DEFINE A == {a \in index : a[1] = e}
  <2>1. /\ samples[e] = <<>> /\ handler[e] = "idle" /\ life[e] \in {"new", "live", "gone"}
        /\ \A l \in Local : life[l] \in {"new", "live", "gone"}
    BY DEF Quiet, DiscoveryInv, LifeKept, Endpoints
  <2>2. \A l \in Local : held[l] = {}
    BY <2>1 DEF DiscoveryInv, IndexKept
  <2>3. A = IF parsed[e] = 0 THEN {} ELSE {<<e, parsed[e]>>}
    <3>1. ASSUME NEW a \in A PROVE parsed[e] # 0 /\ a = <<e, parsed[e]>>
      <4>1. a \in Alive(parsed, held) /\ a[1] = e
        BY DEF DiscoveryInv, IndexKept
      <4> QED BY <2>2, <4>1, AliveFacts
    <3>2. parsed[e] # 0 => <<e, parsed[e]>> \in A
      BY DEF DiscoveryInv, IndexKept
    <3> HIDE DEF A
    <3> QED BY <3>1, <3>2
  <2> HIDE DEF A
  <2>4. Cardinality(A) = IF parsed[e] = 0 THEN 0 ELSE 1
    BY <2>3, FS_EmptySet, FS_Singleton
  <2>5. Declared(e) <=> life[e] = "live"
    BY <2>1 DEF Declared, Creating
  <2>6. Shown(e) <=> life[e] = "live"
    <3>1. life[e] = "live" => Shown(e)
      BY <2>1 DEF DiscoveryInv, ShownKept
    <3>2. life[e] = "gone" => ~ Shown(e)
      BY <2>1 DEF DiscoveryInv, ShownKept
    <3>3. life[e] = "new" => ~ Shown(e)
      BY DEF DiscoveryInv, LifeKept, Undelivered, Declared, Creating
    <3> QED BY <2>1, <3>1, <3>2, <3>3
  <2>7. Cardinality(A) + (IF e \in cached /\ parsed[e] = 0 THEN 1 ELSE 0) = (IF Declared(e) THEN 1 ELSE 0)
    BY <2>4, <2>5, <2>6 DEF Shown
  <2> QED BY <2>7 DEF A
<1> QED BY <1>1, DiscoveryInvCorrect, PTL

\* No endpoint misses a match, and the matched count is exact unless a creation or a
\* destruction overlapped another change.
THEOREM MatchesCountedCorrect == DiscoverySpec => []MatchesCounted
<1>1. DiscoveryInv => MatchesCounted
  <2> SUFFICES ASSUME DiscoveryInv, Quiet, NEW l \in Local, life[l] = "live"
               PROVE  /\ {e \in Opposite(l) : Declared(e)} \subseteq told[l]
                      /\ ~ raced /\ ghosts = {} =>
                            current[l] = Cardinality({e \in Opposite(l) : Declared(e)})
    BY DEF MatchesCounted
  <2>1. \A e \in Endpoints : /\ samples[e] = <<>> /\ handler[e] = "idle"
                             /\ life[e] \in {"new", "live", "gone"}
                             /\ Declared(e) <=> life[e] = "live"
    BY DEF Quiet, DiscoveryInv, LifeKept, Endpoints, Declared, Creating
  <2>2. ASSUME NEW e \in Opposite(l), Declared(e) PROVE e \in told[l]
    <3>1. e \in Endpoints
      BY DEF Opposite
    <3>2. Shown(e)
      BY <2>1, <2>2, <3>1 DEF DiscoveryInv, ShownKept
    <3>3. WillBeTold(l, e)
      BY <2>2, <3>2 DEF DiscoveryInv, ToldKept
    <3> QED BY <2>1, <3>1, <3>3 DEF WillBeTold
  <2>3. ASSUME ~ raced, ghosts = {}
        PROVE  current[l] = Cardinality({e \in Opposite(l) : Declared(e)})
    <3>1. current[l] = Cardinality(Counted(l))
      BY <2>3 DEF DiscoveryInv, CountKept, Calm
    <3>2. ASSUME NEW e \in Opposite(l) PROVE Counts(l, e) <=> Declared(e)
      <4>1. e \in Endpoints
        BY DEF Opposite
      <4>2. todo[<<"creator", e>>] = {}
        BY <2>1, <4>1 DEF DiscoveryInv, TodoKept
      <4>3. Announced(e) <=> life[e] = "live"
        BY <2>1, <4>1, SampleFacts DEF Announced
      <4> QED BY <2>1, <4>1, <4>2, <4>3 DEF Counts
    <3>3. Counted(l) = {e \in Opposite(l) : Declared(e)}
      BY <3>2 DEF Counted
    <3> QED BY <3>1, <3>3
  <2> QED BY <2>2, <2>3
<1> QED BY <1>1, DiscoveryInvCorrect, PTL

\* A task does not park, and a thread does not block, on what the graph shows while
\* no callback has still to notify.
THEOREM NobodySleepsOnItCorrect == DiscoverySpec => []NobodySleepsOnIt
<1>1. DiscoveryInv => NobodySleepsOnIt
  BY DEF DiscoveryInv, WaiterKept, Pending, Shown, NobodySleepsOnIt
<1> QED BY <1>1, DiscoveryInvCorrect, PTL
=============================================================================
