------------------------ MODULE SqliteDispatchProofs ------------------------
(***************************************************************************)
(* The SQLite dispatch queue is a lease queue, for any entries, consumers, *)
(* limits and clocks, also when tokens are made in the same nanosecond, as *)
(* long as nothing is published while the table still holds it; and also   *)
(* when something is, the newest publication is kept until acknowledged.   *)
(***************************************************************************)
EXTENDS SqliteDispatchQueue, WellFoundedInduction, TLAPS

LeasesFit == \A e \in Leased : rows[e].lease.entry = e

IInv == TypeOK /\ LeasesFit

Step == [LeaseQueue!Next]_(LeaseQueue!vars)

-----------------------------------------------------------------------------
(* Rows.                                                                   *)

LEMMA ClockIsNat ==
  ASSUME TypeOK, NEW t \in Clock
  PROVE  t \in Nat /\ t + LeaseDuration \in Nat
BY DispatchAssumption DEF TypeOK, ClientsTypeOK, Clock

LEMMA RowWithLease ==
  ASSUME NEW r \in Row, NEW l \in DispatchLease \cup {None}
  PROVE  /\ [r EXCEPT !.lease = l] \in Row
         /\ [r EXCEPT !.lease = l].lease = l
         /\ [r EXCEPT !.lease = l] # None
BY RowAssumption DEF Row

LEMMA LeasedRows ==
  ASSUME IInv
  PROVE  /\ \A e \in Present : rows[e] \in Row /\ e \in Entry
         /\ \A e \in Leased : /\ rows[e].lease \in DispatchLease
                              /\ rows[e].lease # None
                              /\ rows[e].lease.entry = e
                              /\ e \in Present
BY DispatchAssumption DEF IInv, TypeOK, LeasesFit, Present, Leased, Row

LEMMA StandingRows ==
  ASSUME IInv, NEW t \in Clock
  PROVE  /\ Standing(t) \in [Entry -> Row \cup {None}]
         /\ \A e \in Entry : Standing(t)[e] # None <=> e \in Present
         /\ \A e \in Entry \ ExpiredIds(t) : Standing(t)[e] = rows[e]
         /\ \A e \in ExpiredIds(t) : Standing(t)[e].lease = None
         /\ ExpiredIds(t) \subseteq Leased
<1>1. ExpiredIds(t) \subseteq Leased
  BY DEF ExpiredIds
<1>2. \A e \in Entry : Standing(t)[e] = IF e \in ExpiredIds(t)
                                        THEN [rows[e] EXCEPT !.lease = None] ELSE rows[e]
  BY DEF Standing
<1>3. \A e \in ExpiredIds(t) :
        LET r == [rows[e] EXCEPT !.lease = None]
        IN  r \in Row /\ r.lease = None /\ r # None
  BY <1>1, LeasedRows, RowWithLease
<1>4. \A e \in Entry : Standing(t)[e] \in Row \cup {None}
  BY <1>1, <1>2, <1>3 DEF IInv, TypeOK
<1>5. Standing(t) \in [Entry -> Row \cup {None}]
  BY <1>4 DEF Standing
<1>6. QED
  BY ZenonT(30), <1>1, <1>2, <1>3, <1>5, LeasedRows DEF Present

\* The leases in the table, seen as those of a lease queue.
LEMMA Mapped ==
  ASSUME IInv
  PROVE  /\ LeaseQueue!Leased = Leased
         /\ LeaseQueue!Clock = Clock
         /\ \A e \in Leased : Leases[e] = rows[e].lease
         /\ \A t \in Clock :
              /\ LeaseQueue!ExpiredAt(t) = ExpiredIds(t)
              /\ LeaseQueue!StandingAt(t) =
                   [e \in Entry |-> IF e \in Leased \ ExpiredIds(t) THEN rows[e].lease
                                    ELSE None]
<1>1. \A e \in Entry : Leases[e] = IF e \in Leased THEN rows[e].lease ELSE None
  BY DEF Leases
<1>2. LeaseQueue!Leased = Leased
  BY <1>1, LeasedRows DEF LeaseQueue!Leased, Leased, Present
<1>3. LeaseQueue!Clock = Clock
  BY DEF LeaseQueue!Clock, Clock
<1>4. ASSUME NEW t \in Clock
      PROVE  LeaseQueue!ExpiredAt(t) = ExpiredIds(t)
  BY <1>1, <1>2, LeasedRows DEF LeaseQueue!ExpiredAt, ExpiredIds
<1>5. ASSUME NEW t \in Clock
      PROVE  LeaseQueue!StandingAt(t) =
               [e \in Entry |-> IF e \in Leased \ ExpiredIds(t) THEN rows[e].lease
                                ELSE None]
  BY <1>1, <1>4 DEF LeaseQueue!StandingAt
<1>6. QED
  BY <1>1, <1>2, <1>3, <1>4, <1>5, LeasedRows

LEMMA SameCardinality ==
  ASSUME NEW S
  PROVE  LeaseQueue!Cardinality(S) = Cardinality(S)
BY DEF LeaseQueue!Cardinality, Cardinality

LEMMA LeastNatural ==
  ASSUME NEW T, T \subseteq Nat, T # {}
  PROVE  \E x \in T : \A y \in T : x <= y
<1> DEFINE R == { p \in Nat \X Nat : p[1] < p[2] }
<1>1. IsWellFoundedOn(R, Nat)
  BY NatLessThanWellFounded, Zenon DEF OpToRel
<1>2. \E x \in T : \A y \in T : ~ (<< y, x >> \in R)
  BY <1>1, WFMin, Zenon
<1>3. \A x, y \in Nat : y < x => << y, x >> \in R
  OBVIOUS
<1> HIDE DEF R
<1>4. PICK x \in T : \A y \in T : ~ (<< y, x >> \in R)
  BY <1>2
<1>5. ASSUME NEW y \in T PROVE x <= y
  <2>1. ~ (y < x) /\ x \in Nat /\ y \in Nat
    BY <1>3, <1>4
  <2>2. QED
    BY <2>1
<1>6. QED
  BY <1>4, <1>5

\* The oldest of the queued rows is one of them.
LEMMA OldestIsQueued ==
  ASSUME IInv, NEW S, S \subseteq Present, S # {}
  PROVE  Oldest(S) \in S
<1>1. \A e \in S : e \in Nat /\ rows[e].created \in Nat
  <2>1. \A e \in S : rows[e] \in Row /\ e \in Entry
    BY LeasedRows
  <2>2. \A r \in Row : r.created \in Nat
    BY DEF Row
  <2>3. Entry \subseteq Nat
    BY DispatchAssumption
  <2>4. QED
    BY <2>1, <2>2, <2>3
<1>2. PICK a \in { rows[e].created : e \in S } :
        \A b \in { rows[e].created : e \in S } : a <= b
  BY <1>1, LeastNatural
<1>3. PICK e \in { f \in S : rows[f].created = a } :
        \A f \in { g \in S : rows[g].created = a } : e <= f
  BY <1>1, <1>2, LeastNatural
<1>4. \A f \in S : Before(e, f)
  BY <1>1, <1>2, <1>3 DEF Before
<1>5. QED
  BY <1>3, <1>4 DEF Oldest

LEMMA ReceiptTypes ==
  ASSUME TypeOK, NEW claim \in DispatchClaim, NEW S, Receive(claim, S)
  PROVE  ClientsTypeOK'
BY DEF Receive, TypeOK, ClientsTypeOK, DispatchClaim

LEMMA GiveBackTypes ==
  ASSUME TypeOK, NEW l, held' = held \ {l}, owed' \subseteq owed,
         UNCHANGED << now, claims, published >>
  PROVE  ClientsTypeOK'
BY DEF TypeOK, ClientsTypeOK

-----------------------------------------------------------------------------
(* Every step keeps the invariant and is a step of a lease queue, or none. *)

LEMMA PublishStep ==
  ASSUME IInv, Republish = FALSE, NEW e \in Entry, Publish(e)
  PROVE  IInv' /\ Step
<1>1. e \notin Present /\ published[e] < MaxPublish
  BY DEF Publish, NewPublication
<1> DEFINE r == [work |-> published'[e], created |-> now, lease |-> None]
<1>2. /\ rows' = [rows EXCEPT ![e] = r]
      /\ published' = [published EXCEPT ![e] = @ + 1]
      /\ owed' = owed \cup {e}
      /\ UNCHANGED << instant, now, held, claims >>
  BY <1>1 DEF Publish, NewPublication
<1>3. published' \in [Entry -> 0 .. MaxPublish]
  BY <1>1, <1>2, DispatchAssumption DEF IInv, TypeOK, ClientsTypeOK
<1>4. ClientsTypeOK'
  BY <1>2, <1>3 DEF IInv, TypeOK, ClientsTypeOK
<1>5. r \in Row /\ r # None /\ r.lease = None
  BY <1>3, RowAssumption DEF Row, IInv, TypeOK, ClientsTypeOK
<1> HIDE DEF r
<1>6. rows'[e] = r /\ \A f \in Entry \ {e} : rows'[f] = rows[f]
  BY <1>2 DEF IInv, TypeOK
<1>7. Present' = Present \cup {e} /\ Leased' = Leased
  BY <1>1, <1>5, <1>6 DEF Present, Leased
<1>8. Leases' = Leases
  BY <1>1, <1>6, <1>7 DEF Leases, Leased
<1>9. IInv'
  <2>1. rows' \in [Entry -> Row \cup {None}]
    BY <1>2, <1>5 DEF IInv, TypeOK
  <2>2. LeasesFit'
    BY <1>1, <1>6, <1>7, LeasedRows DEF LeasesFit
  <2>3. QED
    BY <1>2, <1>4, <2>1, <2>2 DEF IInv, TypeOK
<1>10. LeaseQueue!Publish(e)
  <2>1. e \notin Leased
    BY <1>1, LeasedRows
  <2>2. QED
    BY <1>1, <1>2, <1>7, <1>8, <2>1, Mapped DEF LeaseQueue!Publish
<1>11. QED
  BY <1>9, <1>10 DEF Step, LeaseQueue!Next

LEMMA RequeueStep ==
  ASSUME IInv, NEW t \in Clock, rows' = Standing(t), UNCHANGED << clients, instant >>
  PROVE  IInv' /\ Step
<1>1. Present' = Present /\ Leased' = Leased \ ExpiredIds(t)
  BY StandingRows, LeasedRows DEF Present, Leased
<1>2. Leases' = LeaseQueue!StandingAt(t)
  <2>1. \A e \in Entry : Leases'[e] = LeaseQueue!StandingAt(t)[e]
    BY <1>1, StandingRows, Mapped DEF Leases, Leased, Present
  <2>2. QED
    BY <2>1, Mapped DEF Leases
<1>3. IInv'
  <2>1. TypeOK'
    BY StandingRows DEF IInv, TypeOK, ClientsTypeOK, clients
  <2>2. LeasesFit'
    BY <1>1, StandingRows, LeasedRows DEF LeasesFit
  <2>3. QED
    BY <2>1, <2>2 DEF IInv
<1>4. LeaseQueue!Reclaim(t)
  <2>1. (Present \ Leased)' = (Present \ Leased) \cup ExpiredIds(t)
    BY <1>1, StandingRows, LeasedRows
  <2>2. UNCHANGED << now, held >>
    BY DEF clients
  <2>3. QED
    BY <1>2, <2>1, <2>2, Mapped DEF LeaseQueue!Reclaim
<1>5. QED
  BY <1>3, <1>4, Mapped DEF Step, LeaseQueue!Next

\* The table once the row of e is leased, and the other rows are as they are
\* after requeueing.
LEMMA RowLeased ==
  ASSUME IInv, NEW t \in Clock, NEW e \in Present, NEW l \in DispatchLease,
         l.entry = e, rows' = [Standing(t) EXCEPT ![e].lease = l]
  PROVE  /\ rows' \in [Entry -> Row \cup {None}]
         /\ LeasesFit'
         /\ Present' = Present
         /\ Leased' = (Leased \ ExpiredIds(t)) \cup {e}
         /\ Leases' = [LeaseQueue!StandingAt(t) EXCEPT ![e] = l]
<1> DEFINE r == [Standing(t)[e] EXCEPT !.lease = l]
<1>1. e \in Entry /\ Standing(t)[e] \in Row
  BY StandingRows, LeasedRows
<1>2. r \in Row /\ r.lease = l /\ r # None /\ l # None
  BY <1>1, RowWithLease, DispatchAssumption
<1>3. rows' = [Standing(t) EXCEPT ![e] = r]
  OBVIOUS
<1> HIDE DEF r
<1>4. rows'[e] = r /\ \A f \in Entry \ {e} : rows'[f] = Standing(t)[f]
  BY <1>1, <1>3, StandingRows
<1>5. rows' \in [Entry -> Row \cup {None}]
  <2>1. \A m \in [Entry -> Row \cup {None}] :
          [m EXCEPT ![e] = r] \in [Entry -> Row \cup {None}]
    BY <1>1, <1>2
  <2>2. Standing(t) \in [Entry -> Row \cup {None}]
    BY StandingRows
  <2>3. QED
    BY <1>3, <2>1, <2>2
<1>6. Present' = Present
  BY <1>2, <1>4, StandingRows DEF Present
<1>7. Leased' = (Leased \ ExpiredIds(t)) \cup {e}
  <2>1. \A f \in Present \ {e} :
          rows'[f].lease # None <=> f \in Leased \ ExpiredIds(t)
    BY <1>4, StandingRows, LeasedRows DEF Leased
  <2>2. QED
    BY <1>2, <1>4, <1>6, <2>1, LeasedRows DEF Leased
<1>8. LeasesFit'
  BY <1>2, <1>4, <1>7, StandingRows, LeasedRows DEF LeasesFit
<1>9. Leases' = [LeaseQueue!StandingAt(t) EXCEPT ![e] = l]
  <2>1. \A f \in Entry : Leases'[f] = IF f = e THEN l ELSE LeaseQueue!StandingAt(t)[f]
    BY <1>1, <1>2, <1>4, <1>7, StandingRows, Mapped DEF Leases
  <2>2. QED
    BY <2>1, Mapped DEF Leases
<1>10. QED
  BY <1>5, <1>6, <1>7, <1>8, <1>9

LEMMA LeaseStep ==
  ASSUME IInv, NEW t \in Clock, NEW e \in Present, NEW c \in Consumer, NEW S,
         LeaseRow(e, c, t, S)
  PROVE  LET l == [entry |-> e, consumer |-> c, token |-> instant',
                   expires |-> t + LeaseDuration]
         IN  /\ IInv'
             /\ instant' \in Token
             /\ Present' = Present
             /\ Leased' = (Leased \ ExpiredIds(t)) \cup {e}
             /\ Leases' = [LeaseQueue!StandingAt(t) EXCEPT ![e] = l]
             /\ held' = (held \ S) \cup {l}
             /\ now' = now
<1> DEFINE l == [entry |-> e, consumer |-> c, token |-> instant',
                 expires |-> t + LeaseDuration]
           claim == [envelope |-> [entry |-> e, work |-> rows[e].work], lease |-> l]
<1>1. instant' \in Token
  BY DEF LeaseRow
<1>2. l \in DispatchLease /\ l.entry = e
  BY <1>1, LeasedRows, ClockIsNat DEF DispatchLease, IInv
<1>3. claim \in DispatchClaim /\ claim.lease = l
  BY <1>2, LeasedRows DEF DispatchClaim, DispatchEnvelope, Row
<1>4. rows' = [Standing(t) EXCEPT ![e].lease = l] /\ Receive(claim, S)
  BY DEF LeaseRow
<1>5. held' = (held \ S) \cup {l} /\ now' = now
  BY <1>3, <1>4 DEF Receive
<1> HIDE DEF claim, l
<1>6. /\ rows' \in [Entry -> Row \cup {None}]
      /\ LeasesFit'
      /\ Present' = Present
      /\ Leased' = (Leased \ ExpiredIds(t)) \cup {e}
      /\ Leases' = [LeaseQueue!StandingAt(t) EXCEPT ![e] = l]
  BY <1>2, <1>4, RowLeased
<1>7. ClientsTypeOK'
  BY <1>3, <1>4, ReceiptTypes DEF IInv
<1>8. IInv'
  BY <1>1, <1>6, <1>7 DEF IInv, TypeOK
<1>9. QED
  BY <1>1, <1>5, <1>6, <1>8 DEF l

LEMMA ClaimStep ==
  ASSUME IInv, NEW t \in Clock, NEW c \in Consumer, Claim(c, t)
  PROVE  IInv' /\ Step
<1>1. CASE ~ (HasSlot(t) /\ Queued(t) # {})
  BY <1>1, RequeueStep DEF Claim
<1>2. CASE HasSlot(t) /\ Queued(t) # {}
  <2> DEFINE e == Oldest(Queued(t))
  <2>1. Queued(t) \subseteq Present
    BY StandingRows, LeasedRows DEF Queued
  <2>2. e \in Queued(t) /\ e \in Present /\ e \in Entry
    BY <1>2, <2>1, OldestIsQueued, LeasedRows
  <2>3. LeaseRow(e, c, t, {})
    BY <1>2 DEF Claim
  <2> HIDE DEF e
  <2>4. /\ IInv'
        /\ instant' \in Token
        /\ Present' = Present
        /\ Leased' = (Leased \ ExpiredIds(t)) \cup {e}
        /\ Leases' = [LeaseQueue!StandingAt(t) EXCEPT ![e] =
             [entry |-> e, consumer |-> c, token |-> instant',
              expires |-> t + LeaseDuration]]
        /\ held' = held \cup { [entry |-> e, consumer |-> c, token |-> instant',
                                expires |-> t + LeaseDuration] }
        /\ now' = now
    BY <2>2, <2>3, LeaseStep
  <2>5. /\ e \in (Present \ Leased) \cup LeaseQueue!ExpiredAt(t)
        /\ (Present \ Leased)' = ((Present \ Leased) \cup LeaseQueue!ExpiredAt(t)) \ {e}
    BY <2>2, <2>4, Mapped, StandingRows, LeasedRows DEF Queued
  <2>6. LeaseQueue!Cardinality(LeaseQueue!Leased \ LeaseQueue!ExpiredAt(t)) < MaxInFlight
    BY <1>2, Mapped, SameCardinality DEF HasSlot
  <2>7. LeaseQueue!Grant(t, e, c, instant')
    BY <2>4, <2>5, <2>6 DEF LeaseQueue!Grant
  <2>8. QED
    BY <2>2, <2>4, <2>7, Mapped DEF Step, LeaseQueue!Next
<1>3. QED
  BY <1>1, <1>2

LEMMA RenewStep ==
  ASSUME IInv, NEW t \in Clock, NEW l \in DispatchLease, RenewLease(l, t)
  PROVE  IInv' /\ Step
<1> DEFINE e == l.entry
<1>1. /\ e \in Leased \ ExpiredIds(t)
      /\ e \in Present
      /\ e \in Entry
      /\ rows[e].lease = l
      /\ Leases[e] = l
      /\ l.consumer \in Consumer
  BY LeasedRows, Mapped DEF RenewLease, Verified, DispatchLease
<1>2. LeaseRow(e, l.consumer, t, {l})
  BY DEF RenewLease
<1> HIDE DEF e
<1>3. /\ IInv'
      /\ instant' \in Token
      /\ Present' = Present
      /\ Leased' = (Leased \ ExpiredIds(t)) \cup {e}
      /\ Leases' = [LeaseQueue!StandingAt(t) EXCEPT ![e] =
           [entry |-> e, consumer |-> l.consumer, token |-> instant',
            expires |-> t + LeaseDuration]]
      /\ held' = (held \ {l}) \cup
           { [entry |-> e, consumer |-> l.consumer, token |-> instant',
              expires |-> t + LeaseDuration] }
      /\ now' = now
  BY <1>1, <1>2, LeaseStep
<1>4. (Present \ Leased)' = (Present \ Leased) \cup LeaseQueue!ExpiredAt(t)
  BY <1>1, <1>3, Mapped, StandingRows, LeasedRows
<1>5. e \in LeaseQueue!Leased \ LeaseQueue!ExpiredAt(t)
  BY <1>1, Mapped
<1>6. LeaseQueue!Renew(t, e, instant')
  BY <1>1, <1>3, <1>4, <1>5 DEF LeaseQueue!Renew
<1>7. QED
  BY <1>1, <1>3, <1>6, Mapped DEF Step, LeaseQueue!Next

\* The row of e gives up its lease, or is deleted.
LEMMA LeaseDropped ==
  ASSUME IInv, NEW e \in Leased, NEW r, r = None \/ (r \in Row /\ r.lease = None),
         rows' = [rows EXCEPT ![e] = r]
  PROVE  /\ rows' \in [Entry -> Row \cup {None}]
         /\ LeasesFit'
         /\ Leased' = Leased \ {e}
         /\ Leases' = [Leases EXCEPT ![e] = None]
         /\ r = None => Present' = Present \ {e}
         /\ r # None => Present' = Present
<1>1. e \in Entry /\ e \in Present
  BY LeasedRows
<1>2. rows'[e] = r /\ \A f \in Entry \ {e} : rows'[f] = rows[f]
  BY <1>1 DEF IInv, TypeOK
<1>3. rows' \in [Entry -> Row \cup {None}]
  BY <1>1 DEF IInv, TypeOK
<1>4. /\ r = None => Present' = Present \ {e}
      /\ r # None => Present' = Present
  BY <1>1, <1>2 DEF Present
<1>5. Leased' = Leased \ {e}
  BY <1>1, <1>2, <1>4 DEF Leased, Present
<1>6. LeasesFit'
  BY <1>2, <1>5, LeasedRows DEF LeasesFit
<1>7. Leases' = [Leases EXCEPT ![e] = None]
  <2>1. \A f \in Entry : Leases'[f] = IF f = e THEN None ELSE Leases[f]
    BY <1>1, <1>2, <1>5, LeasedRows DEF Leases
  <2>2. QED
    BY <1>1, <2>1 DEF Leases
<1>8. QED
  BY <1>3, <1>4, <1>5, <1>6, <1>7

LEMMA AckStep ==
  ASSUME IInv, NEW l \in DispatchLease, Ack(l)
  PROVE  IInv' /\ Step
<1> DEFINE e == l.entry
<1>1. e \in Leased /\ rows[e].lease = l /\ e \in Entry /\ Leases[e] = l
  BY LeasedRows, Mapped DEF Ack, Verified
<1>2. /\ rows' = [rows EXCEPT ![e] = None]
      /\ held' = held \ {l}
      /\ owed' \subseteq owed
      /\ UNCHANGED << now, claims, published, instant >>
  BY DEF Ack, GiveBack
<1> HIDE DEF e
<1>3. /\ rows' \in [Entry -> Row \cup {None}]
      /\ LeasesFit'
      /\ Leased' = Leased \ {e}
      /\ Leases' = [Leases EXCEPT ![e] = None]
      /\ Present' = Present \ {e}
  BY <1>1, <1>2, LeaseDropped
<1>4. IInv'
  BY <1>2, <1>3, GiveBackTypes DEF IInv, TypeOK
<1>5. (Present \ Leased)' = Present \ Leased
  BY <1>1, <1>3
<1>6. LeaseQueue!Acknowledge(e)
  BY <1>1, <1>2, <1>3, <1>5, Mapped DEF LeaseQueue!Acknowledge, LeaseQueue!GiveBack
<1>7. QED
  BY <1>1, <1>4, <1>6 DEF Step, LeaseQueue!Next

LEMMA NackStep ==
  ASSUME IInv, NEW l \in DispatchLease, Nack(l)
  PROVE  IInv' /\ Step
<1> DEFINE e == l.entry
           r == [rows[e] EXCEPT !.lease = None]
<1>1. /\ e \in Leased /\ e \in Present /\ rows[e] \in Row
      /\ rows[e].lease = l /\ e \in Entry /\ Leases[e] = l
  BY LeasedRows, Mapped DEF Nack, Verified
<1>2. /\ rows' = [rows EXCEPT ![e] = r]
      /\ held' = held \ {l}
      /\ owed' \subseteq owed
      /\ UNCHANGED << now, claims, published, instant >>
  BY DEF Nack, GiveBack
<1>3. r \in Row /\ r.lease = None /\ r # None
  BY <1>1, RowWithLease
<1> HIDE DEF e, r
<1>4. /\ rows' \in [Entry -> Row \cup {None}]
      /\ LeasesFit'
      /\ Leased' = Leased \ {e}
      /\ Leases' = [Leases EXCEPT ![e] = None]
      /\ Present' = Present
  BY <1>1, <1>2, <1>3, LeaseDropped
<1>5. IInv'
  BY <1>2, <1>4, GiveBackTypes DEF IInv, TypeOK
<1>6. (Present \ Leased)' = (Present \ Leased) \cup {e}
  BY <1>1, <1>4
<1>7. LeaseQueue!Return(e)
  BY <1>1, <1>2, <1>4, <1>6, Mapped DEF LeaseQueue!Return, LeaseQueue!GiveBack
<1>8. QED
  BY <1>1, <1>5, <1>7 DEF Step, LeaseQueue!Next

LEMMA IdleStep ==
  ASSUME IInv, TimePasses \/ UNCHANGED vars
  PROVE  IInv' /\ Step
<1>1. UNCHANGED << rows, instant, held >>
  BY DEF TimePasses, Tick, vars, clients
<1>2. ClientsTypeOK'
  <2>1. CASE TimePasses
    <3>1. MaxTime \in Nat
      BY DispatchAssumption
    <3>2. QED
      BY <2>1, <3>1 DEF TimePasses, Tick, IInv, TypeOK, ClientsTypeOK
  <2>2. CASE UNCHANGED vars
    BY <2>2 DEF vars, clients, IInv, TypeOK, ClientsTypeOK
  <2>3. QED
    BY <2>1, <2>2
<1>3. Present' = Present /\ Leased' = Leased
  BY <1>1 DEF Present, Leased
<1>4. IInv'
  BY <1>1, <1>2, <1>3 DEF IInv, TypeOK, LeasesFit
<1>5. Leases' = Leases
  BY <1>1, <1>3 DEF Leases
<1>6. now' = now \/ now' = now + 1
  BY DEF TimePasses, Tick, vars, clients
<1>7. Step
  BY <1>1, <1>3, <1>5, <1>6 DEF Step, LeaseQueue!Next, LeaseQueue!Tick, LeaseQueue!vars
<1>8. QED
  BY <1>4, <1>7

LEMMA InitIsInit ==
  ASSUME Init
  PROVE  IInv /\ LeaseQueue!Init
<1>1. Present = {} /\ Leased = {}
  BY DEF Init, Present, Leased
<1>2. TypeOK
  BY DispatchAssumption DEF Init, ClientsInit, TypeOK, ClientsTypeOK, Token
<1>3. LeaseQueue!Init
  BY <1>1 DEF Init, ClientsInit, LeaseQueue!Init, Leases
<1>4. QED
  BY <1>1, <1>2, <1>3 DEF IInv, LeasesFit

LEMMA NextIsStep ==
  ASSUME IInv, Republish = FALSE, [Next]_vars
  PROVE  IInv' /\ Step
<1>1. \A l \in Presented : l \in DispatchLease
  BY DEF IInv, TypeOK, ClientsTypeOK, Presented, DispatchClaim
<1>2. CASE TimePasses \/ UNCHANGED vars
  BY <1>2, IdleStep
<1>3. ASSUME NEW e \in Entry, Publish(e) PROVE IInv' /\ Step
  BY <1>3, PublishStep
<1>4. ASSUME NEW c \in Consumer, NEW t \in Clock, Claim(c, t) PROVE IInv' /\ Step
  BY <1>4, ClaimStep
<1>5. ASSUME NEW l \in Presented, NEW t \in Clock, RenewLease(l, t) PROVE IInv' /\ Step
  BY <1>1, <1>5, RenewStep
<1>6. ASSUME NEW l \in Presented, Ack(l) \/ Nack(l) PROVE IInv' /\ Step
  BY <1>1, <1>6, AckStep, NackStep
<1>7. QED
  BY <1>2, <1>3, <1>4, <1>5, <1>6 DEF Next

\* The table is a lease queue when nothing is published while it holds it.
THEOREM SqliteIsLeaseQueue ==
  ASSUME Republish = FALSE
  PROVE  Spec => ImplementsLeaseQueue
<1>1. Init => IInv /\ LeaseQueue!Init
  BY InitIsInit
<1>2. IInv /\ [Next]_vars => IInv' /\ [LeaseQueue!Next]_(LeaseQueue!vars)
  BY NextIsStep DEF Step
<1>3. QED
  BY <1>1, <1>2, PTL DEF Spec, ImplementsLeaseQueue, LeaseQueue!Spec

\* A lease in somebody's hands that has not expired is the one of its entry.
HeldIsPresent == \A l \in held : l.expires > now => Leases[l.entry] = l

\* Why leases exclude each other: no step of a lease queue takes an entry from a
\* lease that has not expired, when the clocks of the callers agree.
LEMMA HeldStaysPresent ==
  ASSUME IInv, Skew = 0, HeldIsPresent, Step
  PROVE  HeldIsPresent'
<1>1. \A t \in LeaseQueue!Clock : t = now
  BY DEF LeaseQueue!Clock, IInv, TypeOK, ClientsTypeOK
<1>2. /\ Leases \in [Entry -> DispatchLease \cup {None}] /\ None \notin DispatchLease
      /\ \A e \in LeaseQueue!Leased : Leases[e].entry = e
      /\ LeaseQueue!Leased \cap (Present \ Leased) = {}
      /\ held \subseteq DispatchLease /\ now \in Nat /\ now + LeaseDuration \in Nat
      /\ LeaseQueue!Leased \subseteq Entry
  BY DispatchAssumption
  DEF IInv, TypeOK, ClientsTypeOK, Leases, LeaseQueue!Leased, LeasesFit, Leased, Present, Row
<1> DEFINE gone == LeaseQueue!ExpiredAt(now)
           kept == LeaseQueue!StandingAt(now)
\* The leases that are held and have not expired stay.
<1>3. ASSUME NEW l \in held, l.expires > now
      PROVE  /\ l.entry \in LeaseQueue!Leased \ gone /\ kept[l.entry] = l
             /\ Leases[l.entry] = l
  <2>1. l \in DispatchLease /\ Leases[l.entry] = l /\ l.entry \in Entry
    BY <1>2, <1>3 DEF HeldIsPresent, DispatchLease
  <2>2. l.expires \in Nat /\ l # None
    BY <1>2, <2>1 DEF DispatchLease
  <2>3. QED
    BY <1>2, <1>3, <2>1, <2>2 DEF LeaseQueue!Leased, LeaseQueue!ExpiredAt, LeaseQueue!StandingAt
<1>4. kept \in [Entry -> DispatchLease \cup {None}]
  BY <1>2 DEF LeaseQueue!StandingAt
<1> HIDE DEF kept, gone
<1>5. SUFFICES ASSUME NEW l \in held', l.expires > now' PROVE Leases'[l.entry] = l
  BY DEF HeldIsPresent
<1>6. CASE UNCHANGED LeaseQueue!vars \/ LeaseQueue!Tick \/ \E e \in Entry : LeaseQueue!Publish(e)
  <2>1. held' = held /\ Leases' = Leases /\ now' \in {now, now + 1}
    BY <1>6 DEF LeaseQueue!vars, LeaseQueue!Tick, LeaseQueue!Publish
  <2>2. l.expires > now
    BY <1>2, <1>5, <2>1 DEF DispatchLease
  <2>3. QED
    BY <1>3, <1>5, <2>1, <2>2
<1>7. ASSUME NEW e \in Entry, LeaseQueue!Acknowledge(e) \/ LeaseQueue!Return(e)
      PROVE  Leases'[l.entry] = l
  <2>1. /\ Leases' = [Leases EXCEPT ![e] = None] /\ held' = held \ { Leases[e] } /\ now' = now
    BY <1>7 DEF LeaseQueue!Acknowledge, LeaseQueue!Return, LeaseQueue!GiveBack
  <2>2. l.entry # e /\ Leases[l.entry] = l
    BY <1>3, <1>5, <2>1
  <2>3. QED
    BY <1>2, <2>1, <2>2
<1>8. ASSUME LeaseQueue!Reclaim(now)
      PROVE  Leases'[l.entry] = l
  BY <1>3, <1>5, <1>8 DEF LeaseQueue!Reclaim, kept
\* A new lease k on an entry e: of the standing leases it displaces at most one,
\* and that one is given back.
<1>9. ASSUME NEW e \in Entry, NEW k, k.entry = e, now' = now,
             Leases' = [kept EXCEPT ![e] = k],
             \A m \in held : m.expires > now /\ m.entry = e => m \notin held' \/ m = k,
             held' \subseteq held \cup {k}
      PROVE  Leases'[l.entry] = l
  <2>1. CASE l = k
    BY <1>4, <1>9, <2>1
  <2>2. CASE l # k
    <3>1. l \in held /\ l.entry # e
      BY <1>5, <1>9, <2>2
    <3>2. kept[l.entry] = l
      BY <1>3, <1>5, <1>9, <3>1
    <3>3. QED
      BY <1>4, <1>9, <3>1, <3>2
  <2>3. QED
    BY <2>1, <2>2
<1>10. ASSUME NEW e \in Entry, NEW c \in Consumer, NEW k \in Token, LeaseQueue!Grant(now, e, c, k)
       PROVE  Leases'[l.entry] = l
  <2> DEFINE m == [entry |-> e, consumer |-> c, token |-> k, expires |-> now + LeaseDuration]
  <2>1. /\ e \in (Present \ Leased) \cup gone /\ Leases' = [kept EXCEPT ![e] = m] /\ held' = held \cup {m}
        /\ now' = now /\ m.entry = e
    BY <1>10 DEF LeaseQueue!Grant, kept, gone
  <2> HIDE DEF m
  <2>2. \A x \in held : x.expires > now => x.entry # e
    BY <1>2, <1>3, <2>1
  <2>3. QED
    BY <1>9, <2>1, <2>2
<1>11. ASSUME NEW e \in Entry, NEW k \in Token, LeaseQueue!Renew(now, e, k)
       PROVE  Leases'[l.entry] = l
  <2> DEFINE m == [entry |-> e, consumer |-> Leases[e].consumer, token |-> k,
                   expires |-> now + LeaseDuration]
  <2>1. /\ Leases' = [kept EXCEPT ![e] = m] /\ held' = (held \ { Leases[e] }) \cup {m}
        /\ now' = now /\ m.entry = e
    BY <1>11 DEF LeaseQueue!Renew, kept
  <2> HIDE DEF m
  <2>2. \A x \in held : x.expires > now /\ x.entry = e => x \notin held' \/ x = m
    BY <1>3, <2>1
  <2>3. QED
    BY ZenonT(30), <1>9, <2>1, <2>2
<1>12. QED
  BY <1>1, <1>6, <1>7, <1>8, <1>10, <1>11 DEF Step, LeaseQueue!Next

\* So no two unexpired leases on one entry are in consumers' hands, when the
\* callers' clocks agree.
THEOREM SqliteLeasesExclude ==
  ASSUME Republish = FALSE, Skew = 0
  PROVE  Spec => []NoOverlap
<1>1. Init => IInv /\ HeldIsPresent
  BY InitIsInit DEF Init, ClientsInit, HeldIsPresent
<1>2. (IInv /\ HeldIsPresent) /\ [Next]_vars => (IInv /\ HeldIsPresent)'
  BY NextIsStep, HeldStaysPresent
<1>3. IInv /\ HeldIsPresent => NoOverlap
  BY DEF HeldIsPresent, NoOverlap, LeaseQueue!NoOverlap
<1>4. QED
  BY <1>1, <1>2, <1>3, PTL DEF Spec

-----------------------------------------------------------------------------
(* What was published last stays, also when the table holds the entry.     *)

\* The row of e, in table m, has the newest work, and a lease of it was given
\* together with that work.
Kept(e, m, given) ==
  /\ m[e] # None /\ m[e].work = published[e]
  /\ m[e].lease # None => [envelope |-> Newest(e), lease |-> m[e].lease] \in given

NewestInv == IInv /\ \A e \in owed : Kept(e, rows, claims)

LEMMA NewestIs ==
  ASSUME NewestInv
  PROVE  NewestIsKept
<1>1. \A e \in owed : e \in Entry
  BY DEF NewestInv, IInv, TypeOK, ClientsTypeOK
<1>2. QED
  BY <1>1 DEF NewestInv, IInv, NewestIsKept, Kept, Present, Leased

LEMMA StandingKeepsWork ==
  ASSUME IInv, NEW t \in Clock
  PROVE  \A e \in Present : /\ Standing(t)[e].work = rows[e].work
                            /\ Standing(t)[e].lease \in {None, rows[e].lease}
<1> SUFFICES ASSUME NEW e \in Present
             PROVE  /\ Standing(t)[e].work = rows[e].work
                    /\ Standing(t)[e].lease \in {None, rows[e].lease}
  OBVIOUS
<1>1. rows[e] \in Row /\ e \in Entry
  BY LeasedRows
<1>2. \A r \in Row : [r EXCEPT !.lease = None].work = r.work
  BY DEF Row
<1>3. CASE e \in ExpiredIds(t)
  <2>1. Standing(t)[e] = [rows[e] EXCEPT !.lease = None]
    BY <1>1, <1>3 DEF Standing
  <2>2. Standing(t)[e].lease = None
    BY <1>3, StandingRows
  <2>3. QED
    BY <1>1, <1>2, <2>1, <2>2
<1>4. CASE e \notin ExpiredIds(t)
  BY <1>1, <1>4, StandingRows
<1>5. QED
  BY <1>3, <1>4

\* A step that publishes nothing and keeps what was given keeps a row whose
\* work stays and whose lease stays or goes.
LEMMA RowStaysKept ==
  ASSUME NEW e, Kept(e, rows, claims), rows'[e] # None, rows'[e].work = rows[e].work,
         rows'[e].lease \in {None, rows[e].lease},
         published' = published, claims \subseteq claims'
  PROVE  Kept(e, rows, claims)'
BY DEF Kept, Newest

LEMMA PublishKeepsNewest ==
  ASSUME NewestInv, NEW e \in Entry, Publish(e)
  PROVE  NewestInv'
<1> DEFINE r == [work |-> published'[e],
                 created |-> IF e \in Present THEN rows[e].created ELSE now,
                 lease |-> None]
<1>1. /\ rows' = [rows EXCEPT ![e] = r]
      /\ published[e] < MaxPublish /\ published' = [published EXCEPT ![e] = @ + 1]
      /\ owed' = owed \cup {e}
      /\ UNCHANGED << instant, now, held, claims >>
  BY DEF Publish, NewPublication
<1>2. IInv /\ TypeOK /\ ClientsTypeOK
  BY DEF NewestInv, IInv, TypeOK
<1>3. published' \in [Entry -> 0 .. MaxPublish]
  BY <1>1, <1>2, DispatchAssumption DEF ClientsTypeOK
<1>4. ClientsTypeOK'
  BY <1>1, <1>2, <1>3 DEF ClientsTypeOK
<1>5. r \in Row /\ r.lease = None /\ r.work = published'[e] /\ r # None
  <2>1. (IF e \in Present THEN rows[e].created ELSE now) \in 0 .. MaxTime
    BY <1>2, LeasedRows DEF Row, ClientsTypeOK
  <2>2. published'[e] \in Nat
    BY <1>3
  <2>3. QED
    BY <2>1, <2>2, RowAssumption DEF Row
<1> HIDE DEF r
<1>6. rows'[e] = r /\ \A f \in Entry \ {e} : rows'[f] = rows[f]
  BY <1>1, <1>2 DEF TypeOK
<1>7. rows' \in [Entry -> Row \cup {None}]
  BY <1>1, <1>2, <1>5 DEF TypeOK
<1>8. IInv'
  <2>1. \A f \in Leased' : f \in Leased /\ f # e /\ f \in Entry
    BY <1>5, <1>6 DEF Leased, Present
  <2>2. LeasesFit'
    BY <1>2, <1>6, <2>1 DEF IInv, LeasesFit
  <2>3. QED
    BY <1>1, <1>2, <1>4, <1>7, <2>2 DEF IInv, TypeOK
<1>9. ASSUME NEW f \in owed' PROVE Kept(f, rows, claims)'
  <2>1. CASE f = e
    BY <1>5, <1>6, <2>1 DEF Kept
  <2>2. CASE f # e
    <3>1. f \in owed /\ f \in Entry
      BY <1>1, <1>2, <2>2 DEF ClientsTypeOK
    <3>2. rows'[f] = rows[f] /\ published'[f] = published[f] /\ claims' = claims
      BY <1>1, <1>2, <1>6, <2>2, <3>1 DEF ClientsTypeOK
    <3>3. Kept(f, rows, claims)
      BY <3>1 DEF NewestInv
    <3>4. QED
      BY <3>2, <3>3 DEF Kept, Newest
  <2>3. QED
    BY <2>1, <2>2
<1>10. QED
  BY <1>8, <1>9 DEF NewestInv

LEMMA LeaseKeepsNewest ==
  ASSUME NewestInv, NEW t \in Clock, NEW e \in Present, NEW c \in Consumer, NEW S,
         LeaseRow(e, c, t, S)
  PROVE  NewestInv'
<1> DEFINE l == [entry |-> e, consumer |-> c, token |-> instant',
                 expires |-> t + LeaseDuration]
           claim == [envelope |-> [entry |-> e, work |-> rows[e].work], lease |-> l]
<1>1. IInv /\ IInv'
  BY LeaseStep DEF NewestInv
<1>2. /\ rows' = [Standing(t) EXCEPT ![e].lease = l]
      /\ claims' = claims \cup {claim} /\ UNCHANGED << published, owed >>
  BY DEF LeaseRow, Receive
<1>3. Standing(t) \in [Entry -> Row \cup {None}] /\ Standing(t)[e] \in Row /\ e \in Entry
  BY <1>1, StandingRows, LeasedRows
<1> DEFINE r == [Standing(t)[e] EXCEPT !.lease = l]
<1>4. l \in DispatchLease
  <2>1. instant' \in Token
    BY DEF LeaseRow
  <2>2. QED
    BY <1>1, <1>3, <2>1, ClockIsNat DEF DispatchLease, IInv
<1>5. r # None /\ r.lease = l /\ r.work = Standing(t)[e].work
  <2>1. r # None /\ r.lease = l
    BY <1>3, <1>4, RowWithLease
  <2>2. \A q \in Row : [q EXCEPT !.lease = l].work = q.work
    BY DEF Row
  <2>3. QED
    BY <1>3, <2>1, <2>2
<1>6. rows'[e] = r /\ \A f \in Entry \ {e} : rows'[f] = Standing(t)[f]
  BY <1>2, <1>3
<1> HIDE DEF r, l
<1>7. ASSUME NEW f \in owed' PROVE Kept(f, rows, claims)'
  <2>1. f \in owed /\ f \in Entry /\ Kept(f, rows, claims)
    BY <1>1, <1>2 DEF NewestInv, IInv, TypeOK, ClientsTypeOK
  <2>2. f \in Present
    BY <2>1 DEF Kept, Present
  <2>3. CASE f = e
    <3>1. rows[e].work = published[e] /\ Standing(t)[e].work = rows[e].work
      BY <1>1, <2>1, <2>3, StandingKeepsWork DEF Kept
    <3>2. [envelope |-> Newest(e), lease |-> l] \in claims' /\ published' = published
      BY <1>2, <3>1 DEF Newest
    <3>3. QED
      BY <1>5, <1>6, <2>3, <3>1, <3>2 DEF Kept, Newest
  <2>4. CASE f # e
    <3>1. rows'[f] = Standing(t)[f] /\ Standing(t)[f] # None
      BY <1>1, <1>6, <2>1, <2>2, <2>4, StandingRows
    <3>2. /\ rows'[f].work = rows[f].work
          /\ rows'[f].lease \in {None, rows[f].lease}
      BY <1>1, <2>2, <3>1, StandingKeepsWork
    <3>3. QED
      BY <1>2, <2>1, <3>1, <3>2, RowStaysKept
  <2>5. QED
    BY <2>3, <2>4
<1>8. QED
  BY <1>1, <1>7 DEF NewestInv

LEMMA ClaimKeepsNewest ==
  ASSUME NewestInv, NEW t \in Clock, NEW c \in Consumer, Claim(c, t)
  PROVE  NewestInv'
<1>1. IInv
  BY DEF NewestInv
<1>2. CASE ~ (HasSlot(t) /\ Queued(t) # {})
  <2>1. rows' = Standing(t) /\ UNCHANGED << clients, instant >>
    BY <1>2 DEF Claim
  <2>2. IInv'
    BY <1>1, <2>1, RequeueStep
  <2>3. ASSUME NEW f \in owed' PROVE Kept(f, rows, claims)'
    <3>1. f \in owed /\ Kept(f, rows, claims) /\ f \in Entry
      BY <1>1, <2>1 DEF clients, NewestInv, IInv, TypeOK, ClientsTypeOK
    <3>2. f \in Present
      BY <3>1 DEF Kept, Present
    <3>3. /\ rows'[f] # None /\ rows'[f].work = rows[f].work
          /\ rows'[f].lease \in {None, rows[f].lease}
      BY <1>1, <2>1, <3>1, <3>2, StandingRows, StandingKeepsWork
    <3>4. QED
      BY <2>1, <3>1, <3>3, RowStaysKept DEF clients
  <2>4. QED
    BY <2>2, <2>3 DEF NewestInv
<1>3. CASE HasSlot(t) /\ Queued(t) # {}
  <2>1. Queued(t) \subseteq Present
    BY <1>1, StandingRows, LeasedRows DEF Queued
  <2>2. Oldest(Queued(t)) \in Present
    BY <1>1, <1>3, <2>1, OldestIsQueued
  <2>3. LeaseRow(Oldest(Queued(t)), c, t, {})
    BY <1>3 DEF Claim
  <2>4. QED
    BY <2>2, <2>3, LeaseKeepsNewest
<1>4. QED
  BY <1>2, <1>3

LEMMA RenewKeepsNewest ==
  ASSUME NewestInv, NEW t \in Clock, NEW l \in DispatchLease, RenewLease(l, t)
  PROVE  NewestInv'
<1>1. l.entry \in Present /\ l.consumer \in Consumer
  BY LeasedRows DEF NewestInv, RenewLease, Verified, DispatchLease
<1>2. LeaseRow(l.entry, l.consumer, t, {l})
  BY DEF RenewLease
<1>3. QED
  BY <1>1, <1>2, LeaseKeepsNewest

LEMMA AckKeepsNewest ==
  ASSUME NewestInv, NEW l \in DispatchLease, Ack(l)
  PROVE  NewestInv'
<1>1. IInv /\ IInv'
  BY AckStep DEF NewestInv
<1>2. /\ rows' = [rows EXCEPT ![l.entry] = None]
      /\ owed' = owed \ { l.entry }
      /\ UNCHANGED << claims, published >>
  BY DEF Ack, GiveBack
<1>3. ASSUME NEW f \in owed' PROVE Kept(f, rows, claims)'
  <2>1. f \in owed /\ Kept(f, rows, claims) /\ f # l.entry
    BY <1>2 DEF NewestInv
  <2>2. rows'[f] = rows[f]
    BY <1>1, <1>2, <2>1 DEF IInv, TypeOK, ClientsTypeOK
  <2>3. QED
    BY <1>2, <2>1, <2>2, RowStaysKept DEF Kept
<1>4. QED
  BY <1>1, <1>3 DEF NewestInv

LEMMA NackKeepsNewest ==
  ASSUME NewestInv, NEW l \in DispatchLease, Nack(l)
  PROVE  NewestInv'
<1> DEFINE e == l.entry
           r == [rows[e] EXCEPT !.lease = None]
<1>1. IInv /\ IInv'
  BY NackStep DEF NewestInv
<1>2. /\ rows' = [rows EXCEPT ![e] = r]
      /\ owed' = owed /\ UNCHANGED << claims, published >>
  BY DEF Nack, GiveBack
<1>3. e \in Entry /\ rows[e] \in Row
  BY <1>1, LeasedRows DEF Nack, Verified
<1>4. r # None /\ r.lease = None /\ r.work = rows[e].work
  <2>1. r # None /\ r.lease = None
    BY <1>3, RowWithLease
  <2>2. \A q \in Row : [q EXCEPT !.lease = None].work = q.work
    BY DEF Row
  <2>3. QED
    BY <1>3, <2>1, <2>2
<1> HIDE DEF r, e
<1>5. rows'[e] = r /\ \A f \in Entry \ {e} : rows'[f] = rows[f]
  BY <1>1, <1>2, <1>3 DEF IInv, TypeOK
<1>6. ASSUME NEW f \in owed' PROVE Kept(f, rows, claims)'
  <2>1. f \in owed /\ Kept(f, rows, claims) /\ f \in Entry
    BY <1>1, <1>2 DEF NewestInv, IInv, TypeOK, ClientsTypeOK
  <2>2. /\ rows'[f] # None /\ rows'[f].work = rows[f].work
        /\ rows'[f].lease \in {None, rows[f].lease}
    <3>1. CASE f = e
      BY <1>4, <1>5, <3>1
    <3>2. CASE f # e
      BY <1>5, <2>1, <3>2 DEF Kept
    <3>3. QED
      BY <3>1, <3>2
  <2>3. QED
    BY <1>2, <2>1, <2>2, RowStaysKept
<1>7. QED
  BY <1>1, <1>6 DEF NewestInv

LEMMA NextKeepsNewest ==
  ASSUME NewestInv, [Next]_vars
  PROVE  NewestInv'
<1>1. \A l \in Presented : l \in DispatchLease
  BY DEF NewestInv, IInv, TypeOK, ClientsTypeOK, Presented, DispatchClaim
<1>2. CASE TimePasses \/ UNCHANGED vars
  <2>1. IInv'
    BY <1>2, IdleStep DEF NewestInv
  <2>2. UNCHANGED << rows, claims, published, owed >>
    BY <1>2 DEF TimePasses, Tick, vars, clients
  <2>3. QED
    BY <2>1, <2>2 DEF NewestInv, Kept, Newest
<1>3. ASSUME NEW e \in Entry, Publish(e) PROVE NewestInv'
  BY <1>3, PublishKeepsNewest
<1>4. ASSUME NEW c \in Consumer, NEW t \in Clock, Claim(c, t) PROVE NewestInv'
  BY <1>4, ClaimKeepsNewest
<1>5. ASSUME NEW l \in Presented, NEW t \in Clock, RenewLease(l, t) PROVE NewestInv'
  BY <1>1, <1>5, RenewKeepsNewest
<1>6. ASSUME NEW l \in Presented, Ack(l) \/ Nack(l) PROVE NewestInv'
  BY <1>1, <1>6, AckKeepsNewest, NackKeepsNewest
<1>7. QED
  BY <1>2, <1>3, <1>4, <1>5, <1>6 DEF Next

(* However entries are published again, claimed, renewed, returned or left *)
(* to expire, and however clocks differ: what was published last and not   *)
(* acknowledged since is in the table, and whoever leases it has it.       *)
THEOREM NewestAlwaysKept == Spec => []NewestIsKept
<1>1. Init => NewestInv
  BY InitIsInit DEF NewestInv, Init, ClientsInit
<1>2. QED
  BY <1>1, NextKeepsNewest, NewestIs, PTL DEF Spec
=============================================================================
