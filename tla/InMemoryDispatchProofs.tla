----------------------- MODULE InMemoryDispatchProofs -----------------------
(***************************************************************************)
(* The in-memory dispatch queue is a lease queue, for any entries,         *)
(* consumers, limits and clocks, when nothing is published while the queue *)
(* still holds it; and also when something is, nothing owed leaves it.     *)
(***************************************************************************)
EXTENDS InMemoryDispatchQueue, FiniteSetTheorems, SequenceTheorems, TLAPS

\* The deque q holds an envelope for each entry of S, and no second one.
Lists(q, S) ==
  /\ q \in Seq(DispatchEnvelope)
  /\ \A i, j \in DOMAIN q : q[i].entry = q[j].entry => i = j
  /\ S = { q[i].entry : i \in DOMAIN q }

SlotsFit ==
  \A e \in LeasedEntries : leased[e].envelope.entry = e /\ leased[e].lease.entry = e

SlotInv == TypeOK /\ SlotsFit

IInv ==
  /\ SlotInv
  /\ Lists(queued, QueuedEntries)
  /\ QueuedEntries \cap LeasedEntries = {}

-----------------------------------------------------------------------------
(* Deques.                                                                 *)

LEMMA AppendLists ==
  ASSUME NEW q, NEW S, Lists(q, S), NEW x \in DispatchEnvelope, x.entry \notin S
  PROVE  Lists(Append(q, x), S \cup { x.entry })
<1>1. /\ q \in Seq(DispatchEnvelope)
      /\ Append(q, x) \in Seq(DispatchEnvelope)
      /\ Len(q) \in Nat
      /\ DOMAIN q = 1 .. Len(q)
      /\ DOMAIN Append(q, x) = 1 .. Len(q) + 1
      /\ \A i \in 1 .. Len(q) : Append(q, x)[i] = q[i]
      /\ Append(q, x)[Len(q) + 1] = x
  BY DEF Lists
<1>2. QED
  BY <1>1 DEF Lists

LEMMA TailLists ==
  ASSUME NEW q, NEW S, Lists(q, S), q # << >>
  PROVE  /\ Head(q) \in DispatchEnvelope
         /\ Head(q).entry \in S
         /\ Lists(Tail(q), S \ { Head(q).entry })
<1>1. /\ q \in Seq(DispatchEnvelope)
      /\ Len(q) \in Nat \ {0}
      /\ DOMAIN q = 1 .. Len(q)
      /\ Head(q) = q[1]
      /\ Tail(q) \in Seq(DispatchEnvelope)
      /\ DOMAIN Tail(q) = 1 .. Len(q) - 1
      /\ \A i \in 1 .. Len(q) - 1 : Tail(q)[i] = q[i + 1]
  BY DEF Lists
<1>2. Head(q) \in DispatchEnvelope /\ Head(q).entry \in S
  BY <1>1 DEF Lists
<1>3. \A i, j \in DOMAIN Tail(q) : Tail(q)[i].entry = Tail(q)[j].entry => i = j
  BY <1>1 DEF Lists
<1>4. S \ { Head(q).entry } = { Tail(q)[i].entry : i \in DOMAIN Tail(q) }
  <2>1. ASSUME NEW e \in S, e # q[1].entry
        PROVE  \E i \in 1 .. Len(q) - 1 : Tail(q)[i].entry = e
    <3>1. PICK j \in 1 .. Len(q) : q[j].entry = e
      BY <1>1 DEF Lists
    <3>2. j - 1 \in 1 .. Len(q) - 1 /\ Tail(q)[j - 1] = q[j]
      BY <1>1, <2>1, <3>1
    <3>3. QED
      BY <3>1, <3>2
  <2>2. ASSUME NEW i \in 1 .. Len(q) - 1
        PROVE  Tail(q)[i].entry \in S \ { q[1].entry }
    <3>1. i + 1 \in DOMAIN q /\ 1 \in DOMAIN q /\ i + 1 # 1 /\ Tail(q)[i] = q[i + 1]
      BY <1>1
    <3>2. QED
      BY <3>1 DEF Lists
  <2>3. S \ { q[1].entry } = { Tail(q)[i].entry : i \in 1 .. Len(q) - 1 }
    <3> HIDE DEF Lists
    <3>1. \A e : e \in S \ { q[1].entry }
                => e \in { Tail(q)[i].entry : i \in 1 .. Len(q) - 1 }
      BY <2>1
    <3>2. \A e : e \in { Tail(q)[i].entry : i \in 1 .. Len(q) - 1 }
                => e \in S \ { q[1].entry }
      BY <2>2
    <3>3. QED
      BY <3>1, <3>2
  <2>4. QED
    BY <1>1, <2>3
<1>5. QED
  BY <1>1, <1>2, <1>3, <1>4 DEF Lists

\* The order of a hash map names every id once.
LEMMA OrdersCover ==
  ASSUME NEW S, IsFiniteSet(S), NEW order \in Orders(S)
  PROVE  /\ order \in Seq(S)
         /\ DOMAIN order = 1 .. Cardinality(S)
         /\ \A e \in S : \E i \in DOMAIN order : order[i] = e
         /\ \A i, j \in DOMAIN order : order[i] = order[j] => i = j
<1>1. Cardinality(S) \in Nat
  BY FS_CardinalityType
<1>2. order \in Injection(1 .. Cardinality(S), S)
  BY DEF Orders, Injection, IsInjective
<1>3. IsFiniteSet(1 .. Cardinality(S)) /\ Cardinality(1 .. Cardinality(S)) = Cardinality(S)
  BY <1>1, FS_Interval
<1>4. order \in Surjection(1 .. Cardinality(S), S)
  BY <1>2, <1>3, FS_Injection
<1>5. QED
  BY <1>1, <1>4 DEF Orders, Surjection

-----------------------------------------------------------------------------
(* What requeueing leaves.                                                 *)

LEMMA ClockIsNat ==
  ASSUME TypeOK, NEW t \in Clock
  PROVE  t \in Nat /\ t + LeaseDuration \in Nat
BY SMTT(30), DispatchAssumption DEF TypeOK, ClientsTypeOK, Clock

\* The expired envelopes, in the order of the map, stand before the others.
LEMMA RequeuedShape ==
  ASSUME SlotInv, NEW t \in Clock, NEW order \in Orders(ExpiredIds(t))
  PROVE  LET q == Requeued(order)
             n == Cardinality(ExpiredIds(t))
         IN  /\ q \in Seq(DispatchEnvelope) /\ n \in Nat
             /\ DOMAIN q = 1 .. n + Len(queued)
             /\ \A i \in 1 .. n : order[i] \in ExpiredIds(t) /\ q[i].entry = order[i]
             /\ \A i \in n + 1 .. n + Len(queued) : q[i] = queued[i - n]
             /\ \A e \in ExpiredIds(t) : \E i \in 1 .. n : order[i] = e
             /\ \A i, j \in 1 .. n : order[i] = order[j] => i = j
<1> DEFINE S == ExpiredIds(t)
           front == [i \in DOMAIN order |-> leased[order[i]].envelope]
           n == Cardinality(S)
           q == front \o queued
<1>1. S \subseteq LeasedEntries /\ S \subseteq Entry /\ IsFiniteSet(S)
  BY FS_Subset, DispatchAssumption DEF ExpiredIds, LeasedEntries
<1>2. /\ DOMAIN order = 1 .. n
      /\ order \in Seq(S)
      /\ n \in Nat
      /\ \A e \in S : \E i \in 1 .. n : order[i] = e
      /\ \A i, j \in 1 .. n : order[i] = order[j] => i = j
  BY <1>1, OrdersCover, FS_CardinalityType
<1>3. \A i \in 1 .. n :
        order[i] \in S /\ front[i] \in DispatchEnvelope /\ front[i].entry = order[i]
  BY <1>1, <1>2 DEF SlotInv, TypeOK, SlotsFit, LeasedEntries, DispatchClaim
<1>4. front \in Seq(DispatchEnvelope) /\ Len(front) = n
  BY <1>2, <1>3
<1>5. queued \in Seq(DispatchEnvelope) /\ Len(queued) \in Nat /\ DOMAIN queued = 1 .. Len(queued)
  BY DEF SlotInv, TypeOK
<1> HIDE DEF front, n, S
<1>6. /\ q \in Seq(DispatchEnvelope)
      /\ DOMAIN q = 1 .. n + Len(queued)
      /\ \A i \in 1 .. n : q[i] = front[i]
      /\ \A i \in n + 1 .. n + Len(queued) : q[i] = queued[i - n]
  BY SMTT(30), <1>2, <1>4, <1>5
<1> HIDE DEF q
<1>7. \A i \in 1 .. n : q[i].entry = order[i]
  BY <1>3, <1>6
<1>8. QED
  BY <1>2, <1>3, <1>6, <1>7 DEF Requeued, q, front, n, S

LEMMA RequeuedCovers ==
  ASSUME SlotInv, NEW t \in Clock, NEW order \in Orders(ExpiredIds(t)),
         NEW e \in QueuedEntries \cup ExpiredIds(t)
  PROVE  \E i \in DOMAIN Requeued(order) : Requeued(order)[i].entry = e
<1> DEFINE q == Requeued(order)
           n == Cardinality(ExpiredIds(t))
<1>1. Len(queued) \in Nat /\ DOMAIN queued = 1 .. Len(queued)
  BY DEF SlotInv, TypeOK
<1>2. /\ n \in Nat /\ DOMAIN q = 1 .. n + Len(queued)
      /\ \A i \in 1 .. n : q[i].entry = order[i]
      /\ \A i \in n + 1 .. n + Len(queued) : q[i] = queued[i - n]
      /\ \A f \in ExpiredIds(t) : \E i \in 1 .. n : order[i] = f
  BY RequeuedShape
<1> HIDE DEF q, n
<1>3. CASE e \in ExpiredIds(t)
  <2>1. PICK i \in 1 .. n : order[i] = e
    BY <1>2, <1>3
  <2>2. i \in 1 .. n + Len(queued) /\ q[i].entry = e
    BY <1>1, <1>2, <2>1
  <2>3. QED
    BY <1>2, <2>2 DEF q
<1>4. CASE e \in QueuedEntries
  <2>1. PICK i \in 1 .. Len(queued) : queued[i].entry = e
    BY <1>1, <1>4 DEF QueuedEntries
  <2>2. i + n \in n + 1 .. n + Len(queued) /\ (i + n) - n = i
    BY <1>1, <1>2
  <2>3. q[i + n].entry = e /\ i + n \in 1 .. n + Len(queued)
    BY <1>1, <1>2, <2>1, <2>2
  <2>4. QED
    BY <1>2, <2>3 DEF q
<1>5. QED
  BY <1>3, <1>4

LEMMA RequeuedLists ==
  ASSUME IInv, NEW t \in Clock, NEW order \in Orders(ExpiredIds(t))
  PROVE  Lists(Requeued(order), QueuedEntries \cup ExpiredIds(t))
<1> DEFINE S == ExpiredIds(t)
           n == Cardinality(S)
           q == Requeued(order)
<1>1. S \subseteq LeasedEntries
  BY DEF ExpiredIds
<1>2. /\ n \in Nat
      /\ \A i, j \in 1 .. n : order[i] = order[j] => i = j
  BY RequeuedShape DEF IInv
<1>3. \A i \in 1 .. n : order[i] \in S /\ q[i].entry = order[i]
  BY RequeuedShape DEF IInv
<1>5. queued \in Seq(DispatchEnvelope) /\ Len(queued) \in Nat /\ DOMAIN queued = 1 .. Len(queued)
  BY DEF IInv, SlotInv, TypeOK
<1>6. /\ q \in Seq(DispatchEnvelope)
      /\ DOMAIN q = 1 .. n + Len(queued)
      /\ \A i \in n + 1 .. n + Len(queued) : q[i] = queued[i - n]
  BY RequeuedShape DEF IInv
<1>8. \A e \in QueuedEntries \cup S : \E i \in DOMAIN q : q[i].entry = e
  BY RequeuedCovers DEF IInv
<1> HIDE DEF q, n, S
<1>7. \A i, j \in 1 .. n + Len(queued) : q[i].entry = q[j].entry => i = j
  <2> SUFFICES ASSUME NEW i \in 1 .. n + Len(queued), NEW j \in 1 .. n + Len(queued),
                      q[i].entry = q[j].entry
               PROVE  i = j
    OBVIOUS
  <2>1. \A k \in 1 .. n : q[k].entry \in LeasedEntries
    BY <1>1, <1>3, <1>6
  <2>2. \A k \in n + 1 .. n + Len(queued) :
          /\ k - n \in 1 .. Len(queued)
          /\ q[k].entry \in QueuedEntries
    <3> SUFFICES ASSUME NEW k \in n + 1 .. n + Len(queued)
                 PROVE  k - n \in 1 .. Len(queued) /\ q[k].entry \in QueuedEntries
      OBVIOUS
    <3>1. k - n \in 1 .. Len(queued) /\ q[k] = queued[k - n]
      BY <1>2, <1>5, <1>6
    <3>2. QED
      BY <1>5, <3>1 DEF QueuedEntries
  <2>3. CASE i <= n /\ j <= n
    BY <1>2, <1>3, <1>6, <2>3
  <2>4. CASE i > n /\ j > n
    <3>1. q[i] = queued[i - n] /\ q[j] = queued[j - n]
      BY SMTT(30), <1>2, <1>5, <1>6, <2>4
    <3>2. i - n \in 1 .. Len(queued) /\ j - n \in 1 .. Len(queued)
      BY <1>2, <1>5, <2>4
    <3>3. i - n = j - n
      BY <1>5, <3>1, <3>2 DEF IInv, Lists
    <3>4. QED
      BY <1>2, <3>3
  <2>5. CASE (i <= n /\ j > n) \/ (i > n /\ j <= n)
    <3>1. QueuedEntries \cap LeasedEntries = {}
      BY DEF IInv
    <3>2. QED
      BY <1>2, <1>5, <2>1, <2>2, <2>5, <3>1
  <2>6. QED
    BY <1>2, <1>5, <2>3, <2>4, <2>5
<1>9. \A i \in 1 .. n + Len(queued) : q[i].entry \in QueuedEntries \cup S
  <2> SUFFICES ASSUME NEW i \in 1 .. n + Len(queued)
               PROVE  q[i].entry \in QueuedEntries \cup S
    OBVIOUS
  <2>1. CASE i <= n
    BY <1>2, <1>3, <1>6, <2>1
  <2>2. CASE i > n
    <3>1. i - n \in DOMAIN queued /\ q[i] = queued[i - n]
      BY <1>2, <1>5, <1>6, <2>2
    <3>2. QED
      BY <3>1 DEF QueuedEntries
  <2>3. QED
    BY <1>2, <1>5, <2>1, <2>2
<1>10. QueuedEntries \cup S = { q[i].entry : i \in DOMAIN q }
  <2>1. \A e : e \in QueuedEntries \cup S => e \in { q[i].entry : i \in DOMAIN q }
    BY <1>6, <1>8
  <2>2. \A e : e \in { q[i].entry : i \in DOMAIN q } => e \in QueuedEntries \cup S
    BY <1>6, <1>9
  <2>3. QED
    BY <2>1, <2>2
<1>11. Lists(q, QueuedEntries \cup S)
  BY <1>6, <1>7, <1>10 DEF Lists
<1>12. QED
  BY <1>11 DEF q, S

LEMMA StandingSlots ==
  ASSUME SlotInv, NEW t \in Clock
  PROVE  /\ Standing(t) \in [Entry -> DispatchClaim \cup {None}]
         /\ \A e \in Entry : Standing(t)[e] # None <=> e \in LeasedEntries \ ExpiredIds(t)
         /\ \A e \in LeasedEntries \ ExpiredIds(t) : Standing(t)[e] = leased[e]
BY DEF Standing, ExpiredIds, LeasedEntries, IInv, SlotInv, TypeOK

\* The leases of the queue, seen as those of a lease queue.
LEMMA Mapped ==
  ASSUME SlotInv
  PROVE  /\ LeaseQueue!Leased = LeasedEntries
         /\ LeaseQueue!Clock = Clock
         /\ \A e \in LeasedEntries : Leases[e] = leased[e].lease
         /\ \A t \in Clock :
              /\ LeaseQueue!ExpiredAt(t) = ExpiredIds(t)
              /\ LeaseQueue!StandingAt(t) =
                   [e \in Entry |-> IF Standing(t)[e] = None THEN None
                                    ELSE Standing(t)[e].lease]
<1>1. \A e \in Entry : Leases[e] = IF leased[e] = None THEN None ELSE leased[e].lease
  BY DEF Leases
<1>2. \A e \in LeasedEntries : leased[e].lease # None /\ leased[e].lease \in DispatchLease
  BY DispatchAssumption DEF LeasedEntries, IInv, SlotInv, TypeOK, DispatchClaim
<1>3. LeaseQueue!Leased = LeasedEntries
  BY <1>1, <1>2 DEF LeaseQueue!Leased, LeasedEntries
<1>4. LeaseQueue!Clock = Clock
  BY DEF LeaseQueue!Clock, Clock
<1>5. ASSUME NEW t \in Clock
      PROVE  LeaseQueue!ExpiredAt(t) = ExpiredIds(t)
  BY <1>1, <1>3 DEF LeaseQueue!ExpiredAt, ExpiredIds, LeasedEntries
<1>6. ASSUME NEW t \in Clock
      PROVE  LeaseQueue!StandingAt(t) =
               [e \in Entry |-> IF Standing(t)[e] = None THEN None
                                ELSE Standing(t)[e].lease]
  BY <1>1, <1>5, StandingSlots DEF LeaseQueue!StandingAt, Standing
<1>7. QED
  BY <1>1, <1>3, <1>4, <1>5, <1>6 DEF LeasedEntries

-----------------------------------------------------------------------------
(* Every step keeps the invariant and is a step of a lease queue, or none. *)

Step == [LeaseQueue!Next]_(LeaseQueue!vars)

\* What the clients' records may become.
LEMMA PublicationTypes ==
  ASSUME TypeOK, NEW e \in Entry, published[e] < MaxPublish,
         published' = [published EXCEPT ![e] = @ + 1],
         owed' = owed \cup {e}, UNCHANGED << now, held, claims >>
  PROVE  ClientsTypeOK'
<1>1. published' \in [Entry -> 0 .. MaxPublish]
  BY DispatchAssumption DEF TypeOK, ClientsTypeOK
<1>2. QED
  BY <1>1 DEF TypeOK, ClientsTypeOK

LEMMA ReceiptTypes ==
  ASSUME TypeOK, NEW claim \in DispatchClaim, NEW S, Receive(claim, S)
  PROVE  ClientsTypeOK'
BY DEF Receive, TypeOK, ClientsTypeOK, DispatchClaim

LEMMA GiveBackTypes ==
  ASSUME TypeOK, NEW l, held' = held \ {l}, owed' \subseteq owed,
         UNCHANGED << now, claims, published >>
  PROVE  ClientsTypeOK'
BY DEF TypeOK, ClientsTypeOK

LEMMA SameClientTypes ==
  ASSUME TypeOK, Tick \/ UNCHANGED clients
  PROVE  ClientsTypeOK'
<1>1. CASE Tick
  <2>1. MaxTime \in Nat
    BY DispatchAssumption
  <2>2. QED
    BY <1>1, <2>1 DEF Tick, TypeOK, ClientsTypeOK
<1>2. CASE UNCHANGED clients
  BY <1>2 DEF clients, TypeOK, ClientsTypeOK
<1>3. QED
  BY <1>1, <1>2

LEMMA QueuedAre ==
  ASSUME NEW S, Lists(queued, S)
  PROVE  QueuedEntries = S
BY DEF Lists, QueuedEntries

LEMMA PublishStep ==
  ASSUME IInv, Republish = FALSE, NEW e \in Entry, Publish(e)
  PROVE  IInv' /\ Step
<1>0. SlotInv
  BY DEF IInv
<1>1. e \notin QueuedEntries \cup LeasedEntries
  BY DEF Publish, NewPublication
<1>2. ClientsTypeOK'
  BY PublicationTypes DEF Publish, NewPublication, IInv, SlotInv
<1> DEFINE x == Newest(e)'
<1>3. x \in DispatchEnvelope /\ x.entry = e
  BY <1>2 DEF Newest, DispatchEnvelope, ClientsTypeOK
<1>4. queued' = Append(queued, x) /\ UNCHANGED << leased, leaseSequence, now, held >>
  BY DEF Publish, NewPublication
<1> HIDE DEF x
<1>5. Lists(queued, QueuedEntries)'
  <2>1. Lists(queued', QueuedEntries \cup {e})
    BY <1>1, <1>3, <1>4, AppendLists DEF IInv, SlotInv
  <2>2. QueuedEntries' = QueuedEntries \cup {e}
    BY <2>1 DEF Lists, QueuedEntries
  <2>3. QED
    BY <2>1, <2>2 DEF Lists
<1>6. QueuedEntries' = QueuedEntries \cup {e}
  <2>1. Lists(queued', QueuedEntries \cup {e})
    BY <1>1, <1>3, <1>4, AppendLists DEF IInv, SlotInv
  <2>2. QED
    BY <2>1 DEF Lists, QueuedEntries
<1>7. LeasedEntries' = LeasedEntries /\ Leases' = Leases
  BY <1>4 DEF LeasedEntries, Leases
<1>8. IInv'
  BY ZenonT(40), <1>1, <1>2, <1>4, <1>5, <1>6, <1>7 DEF IInv, SlotInv, TypeOK, SlotsFit, Lists
<1>9. LeaseQueue!Publish(e)
  BY <1>0, <1>1, <1>4, <1>6, <1>7, Mapped DEF LeaseQueue!Publish
<1>10. QED
  BY <1>8, <1>9 DEF Step, LeaseQueue!Next

LEMMA RequeueStep ==
  ASSUME IInv, NEW t \in Clock, NEW order \in Orders(ExpiredIds(t)), OnlyRequeue(order, t)
  PROVE  IInv' /\ Step
<1>0. SlotInv
  BY DEF IInv
<1>1. /\ queued' = Requeued(order)
      /\ leased' = Standing(t)
      /\ UNCHANGED << leaseSequence, clients, now, held >>
  BY DEF OnlyRequeue, clients
<1>2. Lists(queued', QueuedEntries \cup ExpiredIds(t))
  BY <1>1, RequeuedLists
<1>3. QueuedEntries' = QueuedEntries \cup ExpiredIds(t)
  BY <1>2 DEF Lists, QueuedEntries
<1>4. LeasedEntries' = LeasedEntries \ ExpiredIds(t)
  BY <1>0, <1>1, StandingSlots DEF LeasedEntries
<1>5. IInv'
  <2>1. TypeOK'
    BY <1>0, <1>1, <1>2, StandingSlots, SameClientTypes DEF IInv, SlotInv, TypeOK, Lists
  <2>2. SlotsFit'
    BY <1>0, <1>1, <1>4, StandingSlots DEF IInv, SlotInv, SlotsFit
  <2>3. QED
    BY <1>2, <1>3, <1>4, <2>1, <2>2 DEF IInv, SlotInv, Lists
<1>6. LeaseQueue!Reclaim(t)
  <2>1. Leases' = LeaseQueue!StandingAt(t)
    BY <1>0, <1>1, Mapped DEF Leases
  <2>2. QED
    BY <1>0, <1>1, <1>3, <2>1, Mapped DEF LeaseQueue!Reclaim
<1>7. QED
  BY <1>0, <1>5, <1>6, Mapped DEF Step, LeaseQueue!Next

\* The leases once a claim is put in the slot of e, and the slots and the deque
\* are as they are after requeueing.
LEMMA SlotFilled ==
  ASSUME SlotInv, NEW t \in Clock, NEW e \in Entry, NEW claim \in DispatchClaim,
         claim.envelope.entry = e, claim.lease.entry = e,
         leased' = [Standing(t) EXCEPT ![e] = claim]
  PROVE  /\ leased' \in [Entry -> DispatchClaim \cup {None}]
         /\ SlotsFit'
         /\ LeasedEntries' = (LeasedEntries \ ExpiredIds(t)) \cup {e}
         /\ Leases' = [LeaseQueue!StandingAt(t) EXCEPT ![e] = claim.lease]
<1>1. claim # None /\ claim.lease # None
  BY DispatchAssumption DEF DispatchClaim
<1>2. leased'[e] = claim /\ \A f \in Entry \ {e} : leased'[f] = Standing(t)[f]
  BY StandingSlots
<1>3. leased' \in [Entry -> DispatchClaim \cup {None}]
  BY StandingSlots
<1>4. LeasedEntries' = (LeasedEntries \ ExpiredIds(t)) \cup {e}
  BY <1>1, <1>2, StandingSlots DEF LeasedEntries
<1>5. SlotsFit'
  <2> SUFFICES ASSUME NEW f \in LeasedEntries'
               PROVE  leased'[f].envelope.entry = f /\ leased'[f].lease.entry = f
    BY DEF SlotsFit
  <2>1. CASE f = e
    BY <1>2, <2>1
  <2>2. CASE f # e
    BY <1>2, <1>4, <2>2, StandingSlots DEF IInv, SlotInv, SlotsFit, LeasedEntries
  <2>3. QED
    BY <2>1, <2>2
<1>6. Leases' = [LeaseQueue!StandingAt(t) EXCEPT ![e] = claim.lease]
  <2>1. \A f \in Entry : Leases'[f] = IF f = e THEN claim.lease
                                      ELSE LeaseQueue!StandingAt(t)[f]
    BY <1>1, <1>2, Mapped DEF Leases
  <2>2. QED
    BY <2>1, Mapped DEF Leases
<1>7. QED
  BY <1>3, <1>4, <1>5, <1>6

LEMMA NewLease ==
  ASSUME SlotInv, NEW t \in Clock, NEW e \in Entry, NEW c \in Consumer
  PROVE  /\ NextLease(e, c, t) \in DispatchLease
         /\ Saturated(leaseSequence) \in Token
BY ClockIsNat, DispatchAssumption
DEF NextLease, DispatchLease, Saturated, Token, IInv, SlotInv, TypeOK

LEMMA SameCardinality ==
  ASSUME NEW S
  PROVE  LeaseQueue!Cardinality(S) = Cardinality(S)
BY DEF LeaseQueue!Cardinality, Cardinality

LEMMA GrantStep ==
  ASSUME IInv, NEW t \in Clock, NEW c \in Consumer,
         NEW order \in Orders(ExpiredIds(t)), HasSlot(t),
         Requeued(order) # << >>, Grant(c, order, t)
  PROVE  IInv' /\ Step
<1>0. SlotInv
  BY DEF IInv
<1> DEFINE x == Head(Requeued(order))
           e == x.entry
           l == NextLease(e, c, t)
           claim == [envelope |-> x, lease |-> l]
           S == QueuedEntries \cup ExpiredIds(t)
<1>1. Lists(Requeued(order), S)
  BY RequeuedLists
<1>2. x \in DispatchEnvelope /\ e \in S /\ Lists(Tail(Requeued(order)), S \ {e})
  BY <1>1, TailLists
<1>3. e \in Entry
  BY <1>2 DEF DispatchEnvelope
<1>4. l \in DispatchLease /\ Saturated(leaseSequence) \in Token
  BY <1>0, <1>3, NewLease
<1>5. claim \in DispatchClaim
  BY <1>2, <1>4 DEF DispatchClaim
<1>6. l = [entry |-> e, consumer |-> c, token |-> Saturated(leaseSequence),
           expires |-> t + LeaseDuration]
  BY DEF NextLease
<1>7. /\ queued' = Tail(Requeued(order))
      /\ leased' = [Standing(t) EXCEPT ![e] = claim]
      /\ leaseSequence' = Saturated(leaseSequence)
      /\ Receive(claim, {})
  BY DEF Grant
<1>8. claim.envelope.entry = e /\ claim.lease.entry = e /\ claim.lease = l
  BY <1>6
<1> HIDE DEF claim, l, x, S, e
<1>9. /\ leased' \in [Entry -> DispatchClaim \cup {None}]
      /\ SlotsFit'
      /\ LeasedEntries' = (LeasedEntries \ ExpiredIds(t)) \cup {e}
      /\ Leases' = [LeaseQueue!StandingAt(t) EXCEPT ![e] = l]
  BY <1>0, <1>3, <1>5, <1>7, <1>8, SlotFilled
<1>10. Lists(queued', S \ {e}) /\ QueuedEntries' = S \ {e}
  BY <1>2, <1>7 DEF Lists, QueuedEntries
<1>11. IInv'
  <2>1. ClientsTypeOK'
    BY <1>5, <1>7, ReceiptTypes DEF IInv, SlotInv
  <2>2. TypeOK'
    BY <1>4, <1>7, <1>9, <1>10, <2>1 DEF TypeOK, Lists
  <2>3. (QueuedEntries \cap LeasedEntries)' = {}
    BY <1>9, <1>10 DEF IInv, SlotInv, S
  <2>4. QED
    BY <1>9, <1>10, <2>2, <2>3 DEF IInv, SlotInv, Lists
<1>12. LeaseQueue!Grant(t, e, c, Saturated(leaseSequence))
  <2>1. held' = held \cup {l} /\ now' = now
    BY <1>7, <1>8 DEF Receive
  <2>2. LeaseQueue!Cardinality(LeaseQueue!Leased \ LeaseQueue!ExpiredAt(t)) < MaxInFlight
    BY <1>0, Mapped, SameCardinality DEF HasSlot
  <2>3. LeaseQueue!ExpiredAt(t) = ExpiredIds(t)
    BY <1>0, Mapped
  <2>4. /\ e \in QueuedEntries \cup LeaseQueue!ExpiredAt(t)
        /\ QueuedEntries' = (QueuedEntries \cup LeaseQueue!ExpiredAt(t)) \ {e}
    BY <1>2, <1>10, <2>3 DEF S
  <2>5. Leases' = [LeaseQueue!StandingAt(t) EXCEPT ![e] =
                    [entry |-> e, consumer |-> c, token |-> Saturated(leaseSequence),
                     expires |-> t + LeaseDuration]]
    BY <1>6, <1>9
  <2>6. held' = held \cup { [entry |-> e, consumer |-> c,
                             token |-> Saturated(leaseSequence),
                             expires |-> t + LeaseDuration] }
    BY <1>6, <2>1
  <2>7. QED
    BY <2>1, <2>2, <2>4, <2>5, <2>6 DEF LeaseQueue!Grant
<1>13. QED
  BY <1>0, <1>3, <1>4, <1>11, <1>12, Mapped DEF Step, LeaseQueue!Next

LEMMA RenewStep ==
  ASSUME IInv, NEW t \in Clock, NEW l \in DispatchLease,
         NEW order \in Orders(ExpiredIds(t)),
         Verified(l), l.entry \notin ExpiredIds(t), Exchange(l, order, t)
  PROVE  IInv' /\ Step
<1>0. SlotInv
  BY DEF IInv
<1> DEFINE e == l.entry
           m == NextLease(e, l.consumer, t)
           claim == [leased[e] EXCEPT !.lease = m]
           S == QueuedEntries \cup ExpiredIds(t)
           k == Saturated(leaseSequence)
<1>1. e \in Entry /\ e \in LeasedEntries \ ExpiredIds(t) /\ leased[e].lease = l
  BY DEF Verified, LeasedEntries
<1>2. leased[e] \in DispatchClaim /\ leased[e].envelope.entry = e
  BY <1>1 DEF IInv, SlotInv, TypeOK, SlotsFit, LeasedEntries
<1>3. m \in DispatchLease /\ k \in Token
  BY <1>0, <1>1, NewLease DEF DispatchLease
<1>4. m.entry = e /\ m = [entry |-> e, consumer |-> l.consumer, token |-> k,
                         expires |-> t + LeaseDuration]
  BY DEF NextLease
<1>5. claim \in DispatchClaim /\ claim.envelope.entry = e /\ claim.lease = m
  <2>1. \A x \in DispatchClaim, y \in DispatchLease :
          LET z == [x EXCEPT !.lease = y]
          IN  z \in DispatchClaim /\ z.envelope = x.envelope /\ z.lease = y
    BY DEF DispatchClaim
  <2>2. QED
    BY <1>2, <1>3, <2>1
<1>6. /\ queued' = Requeued(order)
      /\ leased' = [Standing(t) EXCEPT ![e] = claim]
      /\ leaseSequence' = k
      /\ Receive(claim, {l})
  BY DEF Exchange
<1> HIDE DEF claim, m, e, S, k
<1>7. /\ leased' \in [Entry -> DispatchClaim \cup {None}]
      /\ SlotsFit'
      /\ LeasedEntries' = (LeasedEntries \ ExpiredIds(t)) \cup {e}
      /\ Leases' = [LeaseQueue!StandingAt(t) EXCEPT ![e] = m]
  <2>1. claim.lease.entry = e /\ claim.envelope.entry = e /\ claim.lease = m
    BY <1>4, <1>5
  <2>2. e \in Entry /\ claim \in DispatchClaim
        /\ leased' = [Standing(t) EXCEPT ![e] = claim]
    BY <1>1, <1>5, <1>6
  <2>3. /\ leased' \in [Entry -> DispatchClaim \cup {None}]
        /\ SlotsFit'
        /\ LeasedEntries' = (LeasedEntries \ ExpiredIds(t)) \cup {e}
        /\ Leases' = [LeaseQueue!StandingAt(t) EXCEPT ![e] = claim.lease]
    BY <1>0, <2>1, <2>2, SlotFilled
  <2>4. QED
    BY <2>1, <2>3
<1>8. Lists(queued', S) /\ QueuedEntries' = S
  <2>1. Lists(queued', S)
    BY <1>6, RequeuedLists DEF S
  <2>2. QED
    BY <2>1 DEF Lists, QueuedEntries
<1>9. IInv'
  <2>1. ClientsTypeOK'
    BY <1>5, <1>6, ReceiptTypes DEF IInv, SlotInv
  <2>2. TypeOK'
    BY <1>3, <1>6, <1>7, <1>8, <2>1 DEF TypeOK, Lists
  <2>3. (QueuedEntries \cap LeasedEntries)' = {}
    BY <1>1, <1>7, <1>8 DEF IInv, SlotInv, S
  <2>4. QED
    BY <1>7, <1>8, <2>2, <2>3 DEF IInv, SlotInv, Lists
<1>10. LeaseQueue!Renew(t, e, k)
  <2>1. held' = (held \ {l}) \cup {m} /\ now' = now
    BY <1>5, <1>6 DEF Receive
  <2>2. Leases[e] = l /\ LeaseQueue!Leased = LeasedEntries
        /\ LeaseQueue!ExpiredAt(t) = ExpiredIds(t)
    BY <1>0, <1>1, Mapped
  <2>3. QED
    BY <1>1, <1>4, <1>7, <1>8, <2>1, <2>2 DEF LeaseQueue!Renew, S
<1>11. QED
  BY <1>0, <1>1, <1>3, <1>9, <1>10, Mapped DEF Step, LeaseQueue!Next

\* The slot of e is emptied.
LEMMA SlotEmptied ==
  ASSUME SlotInv, NEW e \in LeasedEntries, leased' = [leased EXCEPT ![e] = None]
  PROVE  /\ leased' \in [Entry -> DispatchClaim \cup {None}]
         /\ SlotsFit'
         /\ LeasedEntries' = LeasedEntries \ {e}
         /\ Leases' = [Leases EXCEPT ![e] = None]
<1>1. e \in Entry /\ leased'[e] = None /\ \A f \in Entry \ {e} : leased'[f] = leased[f]
  BY DEF LeasedEntries, IInv, SlotInv, TypeOK
<1>2. leased' \in [Entry -> DispatchClaim \cup {None}]
  BY DEF IInv, SlotInv, TypeOK
<1>3. LeasedEntries' = LeasedEntries \ {e}
  BY <1>1 DEF LeasedEntries
<1>4. SlotsFit'
  BY <1>1, <1>3 DEF IInv, SlotInv, SlotsFit, LeasedEntries
<1>5. Leases' = [Leases EXCEPT ![e] = None]
  <2>1. \A f \in Entry : Leases'[f] = IF f = e THEN None ELSE Leases[f]
    BY <1>1 DEF Leases
  <2>2. QED
    BY ZenonT(60), <1>1, <2>1 DEF Leases
<1>6. QED
  BY <1>2, <1>3, <1>4, <1>5

LEMMA AckStep ==
  ASSUME IInv, NEW l \in DispatchLease, Ack(l)
  PROVE  IInv' /\ Step
<1>0. SlotInv
  BY DEF IInv
<1> DEFINE e == l.entry
<1>1. e \in LeasedEntries /\ leased[e].lease = l /\ e \in Entry /\ Leases[e] = l
  BY <1>0, Mapped DEF Ack, Verified, LeasedEntries
<1>2. /\ leased' = [leased EXCEPT ![e] = None]
      /\ held' = held \ {l}
      /\ owed' \subseteq owed
      /\ UNCHANGED << now, claims, published, queued, leaseSequence >>
  BY DEF Ack, GiveBack
<1> HIDE DEF e
<1>3. /\ leased' \in [Entry -> DispatchClaim \cup {None}]
      /\ SlotsFit'
      /\ LeasedEntries' = LeasedEntries \ {e}
      /\ Leases' = [Leases EXCEPT ![e] = None]
  BY <1>0, <1>1, <1>2, SlotEmptied
<1>4. QueuedEntries' = QueuedEntries
  BY <1>2 DEF QueuedEntries
<1>5. IInv'
  <2>1. ClientsTypeOK'
    BY <1>2, GiveBackTypes DEF IInv, SlotInv
  <2>2. TypeOK'
    BY <1>2, <1>3, <2>1 DEF IInv, SlotInv, TypeOK
  <2>3. QED
    BY <1>2, <1>3, <1>4, <2>2 DEF IInv, SlotInv, Lists
<1>6. LeaseQueue!Acknowledge(e)
  BY <1>0, <1>1, <1>2, <1>3, <1>4, Mapped DEF LeaseQueue!Acknowledge, LeaseQueue!GiveBack
<1>7. QED
  BY <1>1, <1>5, <1>6 DEF Step, LeaseQueue!Next

LEMMA NackStep ==
  ASSUME IInv, NEW l \in DispatchLease, Nack(l)
  PROVE  IInv' /\ Step
<1>0. SlotInv
  BY DEF IInv
<1> DEFINE e == l.entry
           x == leased[e].envelope
<1>1. e \in LeasedEntries /\ leased[e].lease = l /\ e \in Entry /\ Leases[e] = l
  BY <1>0, Mapped DEF Nack, Verified, LeasedEntries
<1>2. x \in DispatchEnvelope /\ x.entry = e
  BY <1>1 DEF IInv, SlotInv, TypeOK, SlotsFit, LeasedEntries, DispatchClaim
<1>3. /\ leased' = [leased EXCEPT ![e] = None]
      /\ queued' = Append(queued, x)
      /\ held' = held \ {l}
      /\ owed' \subseteq owed
      /\ UNCHANGED << now, claims, published, leaseSequence >>
  BY DEF Nack, GiveBack
<1> HIDE DEF e, x
<1>4. /\ leased' \in [Entry -> DispatchClaim \cup {None}]
      /\ SlotsFit'
      /\ LeasedEntries' = LeasedEntries \ {e}
      /\ Leases' = [Leases EXCEPT ![e] = None]
  BY <1>0, <1>1, <1>3, SlotEmptied
<1>5. Lists(queued', QueuedEntries \cup {e}) /\ QueuedEntries' = QueuedEntries \cup {e}
  <2>1. Lists(queued', QueuedEntries \cup {e})
    BY <1>1, <1>2, <1>3, AppendLists DEF IInv, SlotInv
  <2>2. QED
    BY <2>1 DEF Lists, QueuedEntries
<1>6. IInv'
  BY <1>3, <1>4, <1>5, GiveBackTypes DEF IInv, SlotInv, TypeOK, Lists
<1>7. LeaseQueue!Return(e)
  BY <1>0, <1>1, <1>3, <1>4, <1>5, Mapped DEF LeaseQueue!Return, LeaseQueue!GiveBack
<1>8. QED
  BY <1>1, <1>6, <1>7 DEF Step, LeaseQueue!Next

LEMMA IdleStep ==
  ASSUME IInv, TimePasses \/ UNCHANGED vars
  PROVE  IInv' /\ Step
<1>1. UNCHANGED << queued, leased, leaseSequence, held >>
  BY DEF TimePasses, Tick, vars, clients
<1>2. ClientsTypeOK'
  BY SameClientTypes DEF TimePasses, vars, IInv, SlotInv
<1>3. IInv'
  BY <1>1, <1>2 DEF IInv, SlotInv, TypeOK, SlotsFit, Lists, QueuedEntries, LeasedEntries
<1>4. Leases' = Leases /\ QueuedEntries' = QueuedEntries
  BY <1>1 DEF Leases, QueuedEntries
<1>5. now' = now \/ now' = now + 1
  BY DEF TimePasses, Tick, vars, clients
<1>6. Step
  BY <1>1, <1>4, <1>5 DEF Step, LeaseQueue!Next, LeaseQueue!Tick, LeaseQueue!vars
<1>7. QED
  BY <1>3, <1>6

LEMMA InitIsInit ==
  ASSUME Init
  PROVE  IInv /\ LeaseQueue!Init
<1>1. QueuedEntries = {} /\ LeasedEntries = {}
  BY DEF Init, QueuedEntries, LeasedEntries
<1>2. TypeOK
  BY DispatchAssumption DEF Init, ClientsInit, TypeOK, ClientsTypeOK, Token
<1>3. Lists(queued, QueuedEntries)
  BY DEF Init, Lists, QueuedEntries
<1>4. LeaseQueue!Init
  BY <1>1 DEF Init, ClientsInit, LeaseQueue!Init, Leases
<1>5. QED
  BY <1>1, <1>2, <1>3, <1>4 DEF IInv, SlotInv, SlotsFit

LEMMA NextIsStep ==
  ASSUME IInv, Republish = FALSE, [Next]_vars
  PROVE  IInv' /\ Step
<1>1. \A l \in Presented : l \in DispatchLease
  BY DEF IInv, SlotInv, TypeOK, ClientsTypeOK, Presented, DispatchClaim
<1>2. CASE TimePasses \/ UNCHANGED vars
  BY <1>2, IdleStep
<1>3. ASSUME NEW e \in Entry, Publish(e) PROVE IInv' /\ Step
  BY <1>3, PublishStep
<1>4. ASSUME NEW c \in Consumer, NEW t \in Clock, Claim(c, t) PROVE IInv' /\ Step
  BY <1>4, GrantStep, RequeueStep DEF Claim
<1>5. ASSUME NEW l \in Presented, NEW t \in Clock, RenewLease(l, t) PROVE IInv' /\ Step
  BY <1>1, <1>5, RenewStep, RequeueStep DEF RenewLease
<1>6. ASSUME NEW l \in Presented, Ack(l) \/ Nack(l) PROVE IInv' /\ Step
  BY <1>1, <1>6, AckStep, NackStep
<1>7. QED
  BY <1>2, <1>3, <1>4, <1>5, <1>6 DEF Next

\* The in-memory queue is a lease queue when nothing is published while it
\* holds it.
THEOREM InMemoryIsLeaseQueue ==
  ASSUME Republish = FALSE
  PROVE  Spec => ImplementsLeaseQueue
<1>1. Init => IInv /\ LeaseQueue!Init
  BY InitIsInit
<1>2. IInv /\ [Next]_vars => IInv' /\ [LeaseQueue!Next]_(LeaseQueue!vars)
  BY NextIsStep DEF Step
<1>3. QED
  BY <1>1, <1>2, PTL DEF Spec, ImplementsLeaseQueue, LeaseQueue!Spec

\* A lease in somebody's hands that has not expired is the one of its entry.
HeldIsPresent == \A l \in held : l.expires > now => Leases[l.entry] = l

\* Why leases exclude each other: no step of a lease queue takes an entry from a
\* lease that has not expired, when the clocks of the callers agree.
LEMMA HeldStaysPresent ==
  ASSUME IInv, Skew = 0, HeldIsPresent, Step
  PROVE  HeldIsPresent'
<1>1. \A t \in LeaseQueue!Clock : t = now
  BY DEF LeaseQueue!Clock, IInv, SlotInv, TypeOK, ClientsTypeOK
<1>2. /\ Leases \in [Entry -> DispatchLease \cup {None}] /\ None \notin DispatchLease
      /\ \A e \in LeaseQueue!Leased : Leases[e].entry = e
      /\ LeaseQueue!Leased \cap (QueuedEntries) = {}
      /\ held \subseteq DispatchLease /\ now \in Nat /\ now + LeaseDuration \in Nat
      /\ LeaseQueue!Leased \subseteq Entry
  BY DispatchAssumption
  DEF IInv, SlotInv, TypeOK, ClientsTypeOK, Leases, LeaseQueue!Leased, SlotsFit, LeasedEntries, DispatchClaim
<1> DEFINE gone == LeaseQueue!ExpiredAt(now)
           kept == LeaseQueue!StandingAt(now)
\* The leases that are held and have not expired stay.
<1>3. ASSUME NEW l \in held, l.expires > now
      PROVE  /\ l.entry \in LeaseQueue!Leased \ gone /\ kept[l.entry] = l
             /\ Leases[l.entry] = l
  <2>1. l \in DispatchLease /\ Leases[l.entry] = l /\ l.entry \in Entry
    BY <1>2, <1>3 DEF HeldIsPresent, DispatchLease
  <2>2. l.expires \in Nat /\ l # None
    BY <1>2, <2>1 DEF DispatchLease
  <2>3. QED
    BY <1>2, <1>3, <2>1, <2>2 DEF LeaseQueue!Leased, LeaseQueue!ExpiredAt, LeaseQueue!StandingAt
<1>4. kept \in [Entry -> DispatchLease \cup {None}]
  BY <1>2 DEF LeaseQueue!StandingAt
<1> HIDE DEF kept, gone
<1>5. SUFFICES ASSUME NEW l \in held', l.expires > now' PROVE Leases'[l.entry] = l
  BY DEF HeldIsPresent
<1>6. CASE UNCHANGED LeaseQueue!vars \/ LeaseQueue!Tick \/ \E e \in Entry : LeaseQueue!Publish(e)
  <2>1. held' = held /\ Leases' = Leases /\ now' \in {now, now + 1}
    BY <1>6 DEF LeaseQueue!vars, LeaseQueue!Tick, LeaseQueue!Publish
  <2>2. l.expires > now
    BY <1>2, <1>5, <2>1 DEF DispatchLease
  <2>3. QED
    BY <1>3, <1>5, <2>1, <2>2
<1>7. ASSUME NEW e \in Entry, LeaseQueue!Acknowledge(e) \/ LeaseQueue!Return(e)
      PROVE  Leases'[l.entry] = l
  <2>1. /\ Leases' = [Leases EXCEPT ![e] = None] /\ held' = held \ { Leases[e] } /\ now' = now
    BY <1>7 DEF LeaseQueue!Acknowledge, LeaseQueue!Return, LeaseQueue!GiveBack
  <2>2. l.entry # e /\ Leases[l.entry] = l
    BY <1>3, <1>5, <2>1
  <2>3. QED
    BY <1>2, <2>1, <2>2
<1>8. ASSUME LeaseQueue!Reclaim(now)
      PROVE  Leases'[l.entry] = l
  BY <1>3, <1>5, <1>8 DEF LeaseQueue!Reclaim, kept
\* A new lease k on an entry e: of the standing leases it displaces at most one,
\* and that one is given back.
<1>9. ASSUME NEW e \in Entry, NEW k, k.entry = e, now' = now,
             Leases' = [kept EXCEPT ![e] = k],
             \A m \in held : m.expires > now /\ m.entry = e => m \notin held' \/ m = k,
             held' \subseteq held \cup {k}
      PROVE  Leases'[l.entry] = l
  <2>1. CASE l = k
    BY <1>4, <1>9, <2>1
  <2>2. CASE l # k
    <3>1. l \in held /\ l.entry # e
      BY <1>5, <1>9, <2>2
    <3>2. kept[l.entry] = l
      BY <1>3, <1>5, <1>9, <3>1
    <3>3. QED
      BY <1>4, <1>9, <3>1, <3>2
  <2>3. QED
    BY <2>1, <2>2
<1>10. ASSUME NEW e \in Entry, NEW c \in Consumer, NEW k \in Token, LeaseQueue!Grant(now, e, c, k)
       PROVE  Leases'[l.entry] = l
  <2> DEFINE m == [entry |-> e, consumer |-> c, token |-> k, expires |-> now + LeaseDuration]
  <2>1. /\ e \in (QueuedEntries) \cup gone /\ Leases' = [kept EXCEPT ![e] = m] /\ held' = held \cup {m}
        /\ now' = now /\ m.entry = e
    BY <1>10 DEF LeaseQueue!Grant, kept, gone
  <2> HIDE DEF m
  <2>2. \A x \in held : x.expires > now => x.entry # e
    BY <1>2, <1>3, <2>1
  <2>3. QED
    BY <1>9, <2>1, <2>2
<1>11. ASSUME NEW e \in Entry, NEW k \in Token, LeaseQueue!Renew(now, e, k)
       PROVE  Leases'[l.entry] = l
  <2> DEFINE m == [entry |-> e, consumer |-> Leases[e].consumer, token |-> k,
                   expires |-> now + LeaseDuration]
  <2>1. /\ Leases' = [kept EXCEPT ![e] = m] /\ held' = (held \ { Leases[e] }) \cup {m}
        /\ now' = now /\ m.entry = e
    BY <1>11 DEF LeaseQueue!Renew, kept
  <2> HIDE DEF m
  <2>2. \A x \in held : x.expires > now /\ x.entry = e => x \notin held' \/ x = m
    BY <1>3, <2>1
  <2>3. QED
    BY ZenonT(40), <1>9, <2>1, <2>2
<1>12. QED
  BY <1>1, <1>6, <1>7, <1>8, <1>10, <1>11 DEF Step, LeaseQueue!Next

\* So no two unexpired leases on one entry are in consumers' hands, when the
\* callers' clocks agree.
THEOREM InMemoryLeasesExclude ==
  ASSUME Republish = FALSE, Skew = 0
  PROVE  Spec => []NoOverlap
<1>1. Init => IInv /\ HeldIsPresent
  BY InitIsInit DEF Init, ClientsInit, HeldIsPresent
<1>2. (IInv /\ HeldIsPresent) /\ [Next]_vars => (IInv /\ HeldIsPresent)'
  BY NextIsStep, HeldStaysPresent
<1>3. IInv /\ HeldIsPresent => NoOverlap
  BY DEF HeldIsPresent, NoOverlap, LeaseQueue!NoOverlap
<1>4. QED
  BY <1>1, <1>2, <1>3, PTL DEF Spec

-----------------------------------------------------------------------------
(* What is owed stays, also when an entry the queue holds is published.    *)

PresentInv == SlotInv /\ owed \subseteq QueuedEntries \cup LeasedEntries

\* What the deque holds once the expired entries are in front.
LEMMA RequeuedHolds ==
  ASSUME SlotInv, NEW t \in Clock, NEW order \in Orders(ExpiredIds(t)),
         NEW q, q = Requeued(order)
  PROVE  /\ q \in Seq(DispatchEnvelope)
         /\ \A e \in QueuedEntries \cup ExpiredIds(t) : \E i \in 1 .. Len(q) : q[i].entry = e
<1>1. q \in Seq(DispatchEnvelope)
  BY RequeuedShape
<1>2. DOMAIN q = 1 .. Len(q)
  BY <1>1
<1>3. QED
  BY <1>1, <1>2, RequeuedCovers

LEMMA PublishKeepsOwed ==
  ASSUME PresentInv, NEW e \in Entry, Publish(e)
  PROVE  PresentInv'
<1>1. ClientsTypeOK'
  BY PublicationTypes DEF Publish, NewPublication, PresentInv, SlotInv
<1>2. Newest(e)' \in DispatchEnvelope /\ (Newest(e)').entry = e
  BY <1>1 DEF Newest, DispatchEnvelope, ClientsTypeOK
<1>3. /\ queued' = Append(queued, Newest(e)') /\ owed' = owed \cup {e}
      /\ UNCHANGED << leased, leaseSequence >>
  BY DEF Publish, NewPublication
<1>4. queued \in Seq(DispatchEnvelope)
  BY DEF PresentInv, SlotInv, TypeOK
<1> DEFINE x == Newest(e)'
<1> HIDE DEF x
<1>5. /\ queued' \in Seq(DispatchEnvelope)
      /\ \A i \in DOMAIN queued : i \in DOMAIN queued' /\ queued'[i] = queued[i]
      /\ Len(queued) + 1 \in DOMAIN queued' /\ queued'[Len(queued) + 1] = x
  BY <1>2, <1>3, <1>4 DEF x
<1>6. QueuedEntries \cup {e} \subseteq QueuedEntries'
  BY <1>2, <1>5 DEF QueuedEntries, x
<1>7. LeasedEntries' = LeasedEntries
  BY <1>3 DEF LeasedEntries
<1>8. SlotInv'
  BY <1>1, <1>3, <1>5, <1>7 DEF PresentInv, SlotInv, TypeOK, SlotsFit
<1>9. QED
  BY <1>3, <1>6, <1>7, <1>8 DEF PresentInv

LEMMA RequeueKeepsOwed ==
  ASSUME PresentInv, NEW t \in Clock, NEW order \in Orders(ExpiredIds(t)),
         OnlyRequeue(order, t)
  PROVE  PresentInv'
<1>0. SlotInv
  BY DEF PresentInv
<1>1. /\ queued' = Requeued(order) /\ leased' = Standing(t)
      /\ UNCHANGED << leaseSequence, clients, owed >>
  BY DEF OnlyRequeue, clients
<1>2. queued' \in Seq(DispatchEnvelope) /\ DOMAIN queued' = 1 .. Len(queued')
  BY <1>0, <1>1, RequeuedHolds
<1>3. QueuedEntries \cup ExpiredIds(t) \subseteq QueuedEntries'
  BY SMTT(30), <1>0, <1>1, <1>2, RequeuedHolds DEF QueuedEntries
<1>4. LeasedEntries' = LeasedEntries \ ExpiredIds(t)
  BY <1>0, <1>1, StandingSlots DEF LeasedEntries
<1>5. SlotsFit'
  BY <1>0, <1>1, <1>4, StandingSlots DEF SlotInv, SlotsFit
<1>6. TypeOK'
  BY <1>0, <1>1, <1>2, StandingSlots, SameClientTypes DEF SlotInv, TypeOK
<1>7. QED
  BY <1>1, <1>3, <1>4, <1>5, <1>6 DEF PresentInv, SlotInv

LEMMA GrantKeepsOwed ==
  ASSUME PresentInv, NEW t \in Clock, NEW c \in Consumer,
         NEW order \in Orders(ExpiredIds(t)), Requeued(order) # << >>, Grant(c, order, t)
  PROVE  PresentInv'
<1> DEFINE q == Requeued(order)
           x == Head(q)
           e == x.entry
           l == NextLease(e, c, t)
           claim == [envelope |-> x, lease |-> l]
<1>0. SlotInv
  BY DEF PresentInv
<1>1. /\ q \in Seq(DispatchEnvelope)
      /\ \A f \in QueuedEntries \cup ExpiredIds(t) : \E i \in 1 .. Len(q) : q[i].entry = f
  BY <1>0, RequeuedHolds
<1>2. /\ queued' = Tail(q)
      /\ leased' = [Standing(t) EXCEPT ![e] = claim]
      /\ leaseSequence' = Saturated(leaseSequence)
      /\ Receive(claim, {})
  BY DEF Grant
<1>3. q # << >>
  OBVIOUS
<1> HIDE DEF q
<1>4. /\ x \in DispatchEnvelope /\ x = q[1]
      /\ Tail(q) \in Seq(DispatchEnvelope) /\ Len(q) \in Nat
      /\ DOMAIN Tail(q) = 1 .. Len(q) - 1
      /\ \A i \in 1 .. Len(q) - 1 : Tail(q)[i] = q[i + 1]
  BY <1>1, <1>3
<1>5. e \in Entry
  BY <1>4 DEF DispatchEnvelope
<1>6. l \in DispatchLease /\ l.entry = e /\ Saturated(leaseSequence) \in Token
  BY <1>0, <1>5, NewLease DEF NextLease
<1>7. claim \in DispatchClaim /\ claim.envelope.entry = e /\ claim.lease.entry = e
  BY <1>4, <1>6 DEF DispatchClaim
<1> HIDE DEF claim, l
<1>8. /\ leased' \in [Entry -> DispatchClaim \cup {None}] /\ SlotsFit'
      /\ LeasedEntries' = (LeasedEntries \ ExpiredIds(t)) \cup {e}
  BY <1>0, <1>2, <1>5, <1>7, SlotFilled
<1>9. (QueuedEntries \cup ExpiredIds(t)) \ {e} \subseteq QueuedEntries'
  <2> SUFFICES ASSUME NEW f \in QueuedEntries \cup ExpiredIds(t), f # e
               PROVE  \E i \in DOMAIN Tail(q) : Tail(q)[i].entry = f
    BY <1>2 DEF QueuedEntries
  <2>1. PICK i \in 1 .. Len(q) : q[i].entry = f
    BY <1>1
  <2>2. i - 1 \in 1 .. Len(q) - 1 /\ Tail(q)[i - 1] = q[i]
    BY <1>4, <2>1
  <2>3. QED
    BY <1>4, <2>1, <2>2
<1>10. ClientsTypeOK'
  BY <1>0, <1>2, <1>7, ReceiptTypes DEF SlotInv
<1>11. TypeOK'
  BY <1>2, <1>4, <1>6, <1>8, <1>10 DEF TypeOK
<1>12. owed' = owed
  BY <1>2 DEF Receive
<1>13. QED
  BY <1>8, <1>9, <1>11, <1>12 DEF PresentInv, SlotInv

LEMMA RenewKeepsOwed ==
  ASSUME PresentInv, NEW t \in Clock, NEW l \in DispatchLease,
         NEW order \in Orders(ExpiredIds(t)),
         Verified(l), l.entry \notin ExpiredIds(t), Exchange(l, order, t)
  PROVE  PresentInv'
<1> DEFINE e == l.entry
           m == NextLease(e, l.consumer, t)
           claim == [leased[e] EXCEPT !.lease = m]
<1>0. SlotInv
  BY DEF PresentInv
<1>1. e \in Entry /\ e \in LeasedEntries \ ExpiredIds(t)
  BY DEF Verified, LeasedEntries
<1>2. leased[e] \in DispatchClaim /\ leased[e].envelope.entry = e
  BY <1>0, <1>1 DEF SlotInv, TypeOK, SlotsFit, LeasedEntries
<1>3. m \in DispatchLease /\ m.entry = e /\ Saturated(leaseSequence) \in Token
  BY <1>0, <1>1, NewLease DEF DispatchLease, NextLease
<1>4. claim \in DispatchClaim /\ claim.envelope.entry = e /\ claim.lease.entry = e
  <2>1. \A x \in DispatchClaim, y \in DispatchLease :
          LET z == [x EXCEPT !.lease = y]
          IN  z \in DispatchClaim /\ z.envelope = x.envelope /\ z.lease = y
    BY DEF DispatchClaim
  <2>2. QED
    BY <1>2, <1>3, <2>1
<1>5. /\ queued' = Requeued(order)
      /\ leased' = [Standing(t) EXCEPT ![e] = claim]
      /\ leaseSequence' = Saturated(leaseSequence)
      /\ Receive(claim, {l})
  BY DEF Exchange
<1> HIDE DEF claim, m, e
<1>6. /\ leased' \in [Entry -> DispatchClaim \cup {None}] /\ SlotsFit'
      /\ LeasedEntries' = (LeasedEntries \ ExpiredIds(t)) \cup {e}
  BY <1>0, <1>1, <1>4, <1>5, SlotFilled
<1>7. queued' \in Seq(DispatchEnvelope) /\ DOMAIN queued' = 1 .. Len(queued')
  BY <1>0, <1>5, RequeuedHolds
<1>8. QueuedEntries \cup ExpiredIds(t) \subseteq QueuedEntries'
  BY <1>0, <1>5, <1>7, RequeuedHolds DEF QueuedEntries
<1>9. ClientsTypeOK'
  BY <1>0, <1>4, <1>5, ReceiptTypes DEF SlotInv
<1>10. TypeOK'
  BY <1>3, <1>5, <1>6, <1>7, <1>9 DEF TypeOK
<1>11. owed' = owed
  BY <1>5 DEF Receive
<1>12. QED
  BY <1>6, <1>8, <1>10, <1>11 DEF PresentInv, SlotInv

LEMMA SettlingKeepsOwed ==
  ASSUME PresentInv, NEW l \in DispatchLease, Ack(l) \/ Nack(l)
  PROVE  PresentInv'
<1> DEFINE e == l.entry
           x == leased[e].envelope
<1>0. SlotInv /\ queued \in Seq(DispatchEnvelope)
  BY DEF PresentInv, SlotInv, TypeOK
<1>1. e \in LeasedEntries /\ leased' = [leased EXCEPT ![e] = None]
  BY DEF Ack, Nack, Verified
<1>2. x \in DispatchEnvelope /\ x.entry = e
  BY <1>0, <1>1 DEF SlotInv, TypeOK, SlotsFit, LeasedEntries, DispatchClaim
<1>3. /\ leased' \in [Entry -> DispatchClaim \cup {None}] /\ SlotsFit'
      /\ LeasedEntries' = LeasedEntries \ {e}
  BY <1>0, <1>1, SlotEmptied
<1>4. /\ held' = held \ {l} /\ owed' \subseteq owed
      /\ UNCHANGED << now, claims, published, leaseSequence >>
  BY DEF Ack, Nack, GiveBack
<1>5. ClientsTypeOK'
  BY <1>0, <1>4, GiveBackTypes DEF SlotInv
<1>6. CASE Ack(l)
  <2>1. queued' = queued /\ owed' = owed \ {e}
    BY <1>6 DEF Ack, GiveBack
  <2>2. QueuedEntries' = QueuedEntries
    BY <2>1 DEF QueuedEntries
  <2>3. TypeOK'
    BY <1>0, <1>3, <1>4, <1>5, <2>1 DEF SlotInv, TypeOK
  <2>4. QED
    BY <1>3, <2>1, <2>2, <2>3 DEF PresentInv, SlotInv
<1>7. CASE Nack(l)
  <2>1. queued' = Append(queued, x) /\ owed' = owed
    BY <1>7 DEF Nack, GiveBack
  <2> HIDE DEF x, e
  <2>2. /\ queued' \in Seq(DispatchEnvelope)
        /\ \A i \in DOMAIN queued : i \in DOMAIN queued' /\ queued'[i] = queued[i]
        /\ Len(queued) + 1 \in DOMAIN queued' /\ queued'[Len(queued) + 1] = x
    BY <1>0, <1>2, <2>1
  <2>3. QueuedEntries \cup {e} \subseteq QueuedEntries'
    BY <1>2, <2>2 DEF QueuedEntries
  <2>4. TypeOK'
    BY <1>0, <1>3, <1>4, <1>5, <2>2 DEF SlotInv, TypeOK
  <2>5. QED
    BY <1>3, <2>1, <2>3, <2>4 DEF PresentInv, SlotInv
<1>8. QED
  BY <1>6, <1>7

LEMMA NextKeepsOwed ==
  ASSUME PresentInv, [Next]_vars
  PROVE  PresentInv'
<1>1. \A l \in Presented : l \in DispatchLease
  BY DEF PresentInv, SlotInv, TypeOK, ClientsTypeOK, Presented, DispatchClaim
<1>2. CASE TimePasses \/ UNCHANGED vars
  <2>1. UNCHANGED << queued, leased, leaseSequence, owed >> /\ (Tick \/ UNCHANGED clients)
    BY <1>2 DEF TimePasses, Tick, vars, clients
  <2>2. ClientsTypeOK'
    BY <2>1, SameClientTypes DEF PresentInv, SlotInv
  <2>3. QED
    BY <2>1, <2>2 DEF PresentInv, SlotInv, TypeOK, SlotsFit, QueuedEntries, LeasedEntries
<1>3. ASSUME NEW e \in Entry, Publish(e) PROVE PresentInv'
  BY <1>3, PublishKeepsOwed
<1>4. ASSUME NEW c \in Consumer, NEW t \in Clock, Claim(c, t) PROVE PresentInv'
  BY <1>4, GrantKeepsOwed, RequeueKeepsOwed DEF Claim
<1>5. ASSUME NEW l \in Presented, NEW t \in Clock, RenewLease(l, t) PROVE PresentInv'
  BY <1>1, <1>5, RenewKeepsOwed, RequeueKeepsOwed DEF RenewLease
<1>6. ASSUME NEW l \in Presented, Ack(l) \/ Nack(l) PROVE PresentInv'
  BY <1>1, <1>6, SettlingKeepsOwed
<1>7. QED
  BY <1>2, <1>3, <1>4, <1>5, <1>6 DEF Next

(* Whatever is published again, returned, renewed or left to expire, and   *)
(* however clocks differ: an entry that nobody acknowledged since it was   *)
(* published is in the deque or in the map.                                *)
THEOREM OwedAlwaysPresent == Spec => []OwedIsPresent
<1>1. Init => PresentInv
  BY InitIsInit DEF IInv, PresentInv, Init, ClientsInit
<1>2. PresentInv => OwedIsPresent
  BY DEF PresentInv, SlotInv, OwedIsPresent
<1>3. QED
  BY <1>1, <1>2, NextKeepsOwed, PTL DEF Spec
=============================================================================
