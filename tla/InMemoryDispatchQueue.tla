----------------------- MODULE InMemoryDispatchQueue -----------------------
(***************************************************************************)
(* InMemoryDispatchQueue: a deque of envelopes and a map of leased ones.   *)
(* Every method takes &mut self, so each is one step.  A method that       *)
(* refuses a lease without having requeued anything changes nothing and is *)
(* no step here.                                                           *)
(***************************************************************************)
EXTENDS Dispatch

VARIABLES
  queued,         \* the deque, front first
  leased,         \* entry id -> envelope and lease
  leaseSequence   \* source of lease tokens, saturating

vars == << clients, queued, leased, leaseSequence >>

Init ==
  /\ ClientsInit
  /\ queued = << >>
  /\ leased = [e \in Entry |-> None]
  /\ leaseSequence = 0

QueuedEntries == { queued[i].entry : i \in DOMAIN queued }
LeasedEntries == { e \in Entry : leased[e] # None }

TypeOK ==
  /\ ClientsTypeOK
  /\ queued \in Seq(DispatchEnvelope)
  /\ leased \in [Entry -> DispatchClaim \cup {None}]
  /\ leaseSequence \in Token

-----------------------------------------------------------------------------

\* Variants that no step uses: mistakes the checks must notice.
ExpiredEarly(t) == { e \in LeasedEntries : leased[e].lease.expires <= t + 1 }
SameConsumer(l) ==
  l.entry \in LeasedEntries /\ leased[l.entry].lease.consumer = l.consumer

ExpiredIds(t) == { e \in LeasedEntries : leased[e].lease.expires <= t }

\* The orders in which a hash map may yield the ids of a set.
Orders(S) ==
  { s \in [1 .. Cardinality(S) -> S] : \A i, j \in DOMAIN s : s[i] = s[j] => i = j }

\* requeue_expired: each expired entry is pushed to the front of the deque, in
\* the order the map yields them.
Requeued(order) == [i \in DOMAIN order |-> leased[order[i]].envelope] \o queued
Standing(t) == [e \in Entry |-> IF e \in ExpiredIds(t) THEN None ELSE leased[e]]

Saturated(n) == IF n < MaxSequence THEN n + 1 ELSE n

NextLease(e, c, t) ==
  [entry |-> e, consumer |-> c, token |-> Saturated(leaseSequence),
   expires |-> t + LeaseDuration]

\* The map holds exactly this lease.
Verified(l) == l.entry \in LeasedEntries /\ leased[l.entry].lease = l

HasSlot(t) == Cardinality(LeasedEntries \ ExpiredIds(t)) < MaxInFlight

-----------------------------------------------------------------------------

\* One more variant: a claim that pops the deque before it looks for a slot.
PopAndRequeue(order, t) ==
  /\ queued' = IF Requeued(order) = << >> THEN << >> ELSE Tail(Requeued(order))
  /\ leased' = Standing(t)
  /\ UNCHANGED << clients, leaseSequence >>

Publish(e) ==
  /\ NewPublication(e, e \in QueuedEntries \cup LeasedEntries)
  /\ queued' = Append(queued, Newest(e)')
  /\ UNCHANGED << leased, leaseSequence >>

\* A claim or renewal that comes to nothing still requeues.
OnlyRequeue(order, t) ==
  /\ queued' = Requeued(order)
  /\ leased' = Standing(t)
  /\ UNCHANGED << clients, leaseSequence >>

\* The front of the deque is leased to c; a lease that the map holds on the
\* same entry is overwritten.
Grant(c, order, t) ==
  LET envelope == Head(Requeued(order))
      claim == [envelope |-> envelope, lease |-> NextLease(envelope.entry, c, t)]
  IN  /\ queued' = Tail(Requeued(order))
      /\ leased' = [Standing(t) EXCEPT ![envelope.entry] = claim]
      /\ leaseSequence' = Saturated(leaseSequence)
      /\ Receive(claim, {})

Claim(c, t) ==
  \E order \in Orders(ExpiredIds(t)) :
    IF HasSlot(t) /\ Requeued(order) # << >>
      THEN Grant(c, order, t)
      ELSE OnlyRequeue(order, t)

\* The holder of l gets a new lease in its place.
Exchange(l, order, t) ==
  LET claim == [leased[l.entry] EXCEPT !.lease = NextLease(l.entry, l.consumer, t)]
  IN  /\ queued' = Requeued(order)
      /\ leased' = [Standing(t) EXCEPT ![l.entry] = claim]
      /\ leaseSequence' = Saturated(leaseSequence)
      /\ Receive(claim, {l})

RenewLease(l, t) ==
  \E order \in Orders(ExpiredIds(t)) :
    IF Verified(l) /\ l.entry \notin ExpiredIds(t)
      THEN Exchange(l, order, t)
      ELSE OnlyRequeue(order, t)

Ack(l) ==
  /\ Verified(l)
  /\ leased' = [leased EXCEPT ![l.entry] = None]
  /\ GiveBack(l, TRUE)
  /\ UNCHANGED << queued, leaseSequence >>

Nack(l) ==
  /\ Verified(l)
  /\ leased' = [leased EXCEPT ![l.entry] = None]
  /\ queued' = Append(queued, leased[l.entry].envelope)
  /\ GiveBack(l, FALSE)
  /\ UNCHANGED leaseSequence

TimePasses == Tick /\ UNCHANGED << queued, leased, leaseSequence >>

Next ==
  \/ TimePasses
  \/ \E e \in Entry : Publish(e)
  \/ \E c \in Consumer, t \in Clock : Claim(c, t)
  \/ \E l \in Presented : \/ Ack(l)
                          \/ MayNack /\ Nack(l)
                          \/ \E t \in Clock : RenewLease(l, t)

Spec == Init /\ [][Next]_vars

-----------------------------------------------------------------------------
Leases == [e \in Entry |-> IF leased[e] = None THEN None ELSE leased[e].lease]

\* Without republication the queue is a lease queue: no entry is lost, leased
\* twice or queued twice, only the holder of the present lease settles or
\* returns an entry, only expired leases are taken back, and no more than
\* max_in_flight entries are leased by claims.
LeaseQueue == INSTANCE LeaseQueue WITH
  waiting <- QueuedEntries, lease <- Leases

ImplementsLeaseQueue == LeaseQueue!Spec

\* No two unexpired leases on one entry are in consumers' hands, when clocks
\* agree and nothing is republished while the queue holds it.
NoOverlap == LeaseQueue!NoOverlap

\* Also with republication, an entry that was published and that nobody
\* acknowledged since is still in the deque or in the map.
OwedIsPresent == TypeOK /\ owed \subseteq QueuedEntries \cup LeasedEntries
=============================================================================
