------------------------------ MODULE Dispatch ------------------------------
(***************************************************************************)
(* What the two dispatch queues share: the types of the DispatchQueue      *)
(* trait, and its callers.  A publisher publishes entries; consumers claim *)
(* them, keep the leases they are given, and may present any lease they    *)
(* were ever given, in any order and more than once.  A caller passes the  *)
(* time its own clock shows.                                               *)
(*                                                                         *)
(* Source: roku-memory/src/control_plane/dispatch.rs.  Task, node, attempt *)
(* and payload of an envelope are the number of the publication (work).    *)
(***************************************************************************)
EXTENDS Integers, Sequences, FiniteSets

CONSTANTS
  Entry,          \* entry ids, in the order of their text
  Consumer,
  None,           \* no lease, no row
  MaxInFlight,    \* max_in_flight
  LeaseDuration,  \* lease_duration_ms
  MaxSequence,    \* u64::MAX, where the lease sequence saturates
  Republish,      \* publishers may publish an entry the queue still holds
  MayNack,        \* consumers may give an entry back unfinished
  Skew,           \* how far a caller's clock may be from the true time
  MaxTime,        \* bound on the time of a behaviour
  MaxPublish,     \* bound on the publications of each entry
  MaxClaims       \* bound on the different claims consumers are given

Token == 0 .. MaxSequence
DispatchEnvelope == [entry : Entry, work : Nat]
DispatchLease == [entry : Entry, consumer : Consumer, token : Token, expires : Nat]
DispatchClaim == [envelope : DispatchEnvelope, lease : DispatchLease]

ASSUME DispatchAssumption ==
  /\ Entry \subseteq Nat
  /\ IsFiniteSet(Entry)
  /\ None \notin DispatchLease \cup DispatchClaim
  /\ { MaxInFlight, LeaseDuration, MaxSequence, Skew, MaxTime, MaxPublish,
       MaxClaims } \subseteq Nat
  /\ { Republish, MayNack } \subseteq BOOLEAN

VARIABLES
  now,        \* the true time
  held,       \* leases in the hands of consumers that have not given them back
  claims,     \* history: what consumers were ever given
  published,  \* number of publications of each entry
  owed        \* entries published and not acknowledged since

clients == << now, held, claims, published, owed >>

ClientsInit ==
  /\ now = 0
  /\ held = {}
  /\ claims = {}
  /\ published = [e \in Entry |-> 0]
  /\ owed = {}

ClientsTypeOK ==
  /\ now \in 0 .. MaxTime
  /\ held \subseteq DispatchLease
  /\ claims \subseteq DispatchClaim
  /\ published \in [Entry -> 0 .. MaxPublish]
  /\ owed \subseteq Entry

Clock == (IF Skew <= now THEN now - Skew ELSE 0) .. now + Skew

\* The leases a consumer may present.
Presented == { claim.lease : claim \in claims }

\* The entry as its newest publication left it.
Newest(e) == [entry |-> e, work |-> published[e]]

\* A publisher publishes e, if it may: present says whether the queue holds e.
NewPublication(e, present) ==
  /\ published[e] < MaxPublish
  /\ Republish \/ ~present
  /\ published' = [published EXCEPT ![e] = @ + 1]
  /\ owed' = owed \cup {e}
  /\ UNCHANGED << now, held, claims >>

\* A consumer receives a claim; it gives back the lease it exchanged, if any.
Receive(claim, exchanged) ==
  /\ Cardinality(claims \cup { claim }) <= MaxClaims
  /\ held' = (held \ exchanged) \cup { claim.lease }
  /\ claims' = claims \cup { claim }
  /\ UNCHANGED << now, published, owed >>

\* A consumer's acknowledgement or return of lease l was accepted.
GiveBack(l, done) ==
  /\ held' = held \ {l}
  /\ owed' = IF done THEN owed \ { l.entry } ELSE owed
  /\ UNCHANGED << now, claims, published >>

Tick ==
  /\ now < MaxTime
  /\ now' = now + 1
  /\ UNCHANGED << held, claims, published, owed >>
=============================================================================
