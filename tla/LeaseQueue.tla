----------------------------- MODULE LeaseQueue -----------------------------
(***************************************************************************)
(* What a dispatch queue promises to its consumers: an entry leaves the    *)
(* queue only when a consumer acknowledges it under the lease the entry    *)
(* has at that moment, and a lease is taken from a consumer only after it  *)
(* has expired on the clock of the caller that takes it.                   *)
(*                                                                         *)
(* Presenting a lease that is no longer the entry's changes nothing, so it *)
(* is no step of this specification.                                       *)
(***************************************************************************)
EXTENDS Integers, FiniteSets

CONSTANTS
  Entry,
  Consumer,
  Token,          \* what tells two leases of a consumer on an entry apart
  None,           \* the lease of an entry that is not leased
  MaxInFlight,
  LeaseDuration,
  Skew            \* how far a caller's clock may be from the true time

Lease == [entry : Entry, consumer : Consumer, token : Token, expires : Nat]

VARIABLES
  waiting,   \* entries ready to be claimed
  lease,     \* the lease each entry is under
  now,       \* the true time
  held       \* leases in the hands of consumers that have not given them back

vars == << waiting, lease, now, held >>

Leased == { e \in Entry : lease[e] # None }

\* What the clock of a caller may show.
Clock == (IF Skew <= now THEN now - Skew ELSE 0) .. now + Skew

ExpiredAt(t) == { e \in Leased : lease[e].expires <= t }

\* The leases once the expired ones are taken back.
StandingAt(t) == [e \in Entry |-> IF e \in ExpiredAt(t) THEN None ELSE lease[e]]

TypeOK ==
  /\ waiting \subseteq Entry
  /\ lease \in [Entry -> Lease \cup {None}]
  /\ now \in Nat
  /\ held \subseteq Lease

Init ==
  /\ waiting = {}
  /\ lease = [e \in Entry |-> None]
  /\ now = 0
  /\ held = {}

Publish(e) ==
  /\ e \notin waiting \cup Leased
  /\ waiting' = waiting \cup {e}
  /\ UNCHANGED << lease, now, held >>

\* Leases that ended on the caller's clock are taken back, no others.
Reclaim(t) ==
  /\ waiting' = waiting \cup ExpiredAt(t)
  /\ lease' = StandingAt(t)
  /\ UNCHANGED << now, held >>

\* After that, one waiting entry is handed out.
Grant(t, e, c, k) ==
  LET l == [entry |-> e, consumer |-> c, token |-> k, expires |-> t + LeaseDuration]
  IN  /\ Cardinality(Leased \ ExpiredAt(t)) < MaxInFlight
      /\ e \in waiting \cup ExpiredAt(t)
      /\ waiting' = (waiting \cup ExpiredAt(t)) \ {e}
      /\ lease' = [StandingAt(t) EXCEPT ![e] = l]
      /\ held' = held \cup {l}
      /\ UNCHANGED now

\* A consumer exchanges a lease that has not expired for a longer one.
Renew(t, e, k) ==
  LET l == [entry |-> e, consumer |-> lease[e].consumer, token |-> k,
            expires |-> t + LeaseDuration]
  IN  /\ e \in Leased \ ExpiredAt(t)
      /\ waiting' = waiting \cup ExpiredAt(t)
      /\ lease' = [StandingAt(t) EXCEPT ![e] = l]
      /\ held' = (held \ { lease[e] }) \cup {l}
      /\ UNCHANGED now

\* The holder of the lease the entry is under gives it back.
GiveBack(e) ==
  /\ e \in Leased
  /\ lease' = [lease EXCEPT ![e] = None]
  /\ held' = held \ { lease[e] }
  /\ UNCHANGED now

Acknowledge(e) == GiveBack(e) /\ UNCHANGED waiting
Return(e)      == GiveBack(e) /\ waiting' = waiting \cup {e}

Tick ==
  /\ now' = now + 1
  /\ UNCHANGED << waiting, lease, held >>

Next ==
  \/ Tick
  \/ \E e \in Entry : Publish(e) \/ Acknowledge(e) \/ Return(e)
  \/ \E t \in Clock :
       \/ Reclaim(t)
       \/ \E e \in Entry, k \in Token :
            Renew(t, e, k) \/ \E c \in Consumer : Grant(t, e, c, k)

Spec == Init /\ [][Next]_vars

\* No two unexpired leases on one entry are in anybody's hands: what lets a
\* consumer work on an entry without asking the queue again.
NoOverlap ==
  \A l, m \in held :
    l.entry = m.entry /\ l.expires > now /\ m.expires > now => l = m
=============================================================================
