------------------------ MODULE SqliteDispatchQueue ------------------------
(***************************************************************************)
(* SqliteDispatchQueue: one table row per entry.  Every method is one      *)
(* statement or one immediate transaction, so processes that share the     *)
(* database take turns and each method is one step; a transaction that     *)
(* fails rolls back and is no step here.                                   *)
(*                                                                         *)
(* Source: roku-plugins/memory-sqlite/src/control_plane/backend.rs.  A     *)
(* lease token names entry, consumer, process and the nanosecond: token    *)
(* stands for the nanosecond, which two calls may share.                   *)
(***************************************************************************)
EXTENDS Dispatch

VARIABLES
  rows,      \* dispatch_entries; lease is None in state 'queued'
  instant    \* the nanosecond clock

vars == << clients, rows, instant >>

Row == [work : Nat, created : 0 .. MaxTime, lease : DispatchLease \cup {None}]

ASSUME RowAssumption == None \notin Row

Init ==
  /\ ClientsInit
  /\ rows = [e \in Entry |-> None]
  /\ instant = 0

Present == { e \in Entry : rows[e] # None }
Leased  == { e \in Present : rows[e].lease # None }

TypeOK ==
  /\ ClientsTypeOK
  /\ rows \in [Entry -> Row \cup {None}]
  /\ instant \in Token

-----------------------------------------------------------------------------

\* Variants that no step uses: mistakes the checks must notice.
ExpiredEarly(t) == { e \in Leased : rows[e].lease.expires <= t + 1 }
SameConsumer(l) == l.entry \in Leased /\ rows[l.entry].lease.consumer = l.consumer

\* requeue_expired_entries: expired leases are cleared, the rows keep their age.
ExpiredIds(t) == { e \in Leased : rows[e].lease.expires <= t }
Standing(t) ==
  [e \in Entry |-> IF e \in ExpiredIds(t) THEN [rows[e] EXCEPT !.lease = None]
                   ELSE rows[e]]
Queued(t) == (Present \ Leased) \cup ExpiredIds(t)

\* ORDER BY created_at_unix_ms, entry_id
Before(e, f) ==
  \/ rows[e].created < rows[f].created
  \/ rows[e].created = rows[f].created /\ e <= f
Oldest(S) == CHOOSE e \in S : \A f \in S : Before(e, f)

HasSlot(t) == Cardinality(Leased \ ExpiredIds(t)) < MaxInFlight

Verified(l) == l.entry \in Leased /\ rows[l.entry].lease = l

\* The row of e is leased to c; instant' is the time the token is made.
LeaseRow(e, c, t, exchanged) ==
  LET lease == [entry |-> e, consumer |-> c, token |-> instant',
                expires |-> t + LeaseDuration]
  IN  /\ instant' \in { instant, instant + 1 } \cap Token
      /\ rows' = [Standing(t) EXCEPT ![e].lease = lease]
      /\ Receive([envelope |-> [entry |-> e, work |-> rows[e].work], lease |-> lease],
                 exchanged)

-----------------------------------------------------------------------------

\* One more variant: an upsert that forgets the lease columns.
UpsertKeepsLease(e) ==
  /\ NewPublication(e, e \in Present)
  /\ rows' = [rows EXCEPT ![e] =
       [work |-> published'[e],
        created |-> IF e \in Present THEN rows[e].created ELSE now,
        lease |-> IF e \in Present THEN rows[e].lease ELSE None]]
  /\ UNCHANGED instant

\* An entry the table holds is reset to queued under its old age, and loses
\* its lease.
Publish(e) ==
  /\ NewPublication(e, e \in Present)
  /\ rows' = [rows EXCEPT ![e] =
       [work |-> published'[e],
        created |-> IF e \in Present THEN rows[e].created ELSE now,
        lease |-> None]]
  /\ UNCHANGED instant

Claim(c, t) ==
  IF HasSlot(t) /\ Queued(t) # {}
    THEN LeaseRow(Oldest(Queued(t)), c, t, {})
    ELSE /\ rows' = Standing(t)
         /\ UNCHANGED << clients, instant >>

\* An expired lease is refused, and the requeueing rolled back with it.
RenewLease(l, t) ==
  /\ Verified(l)
  /\ l.entry \notin ExpiredIds(t)
  /\ LeaseRow(l.entry, l.consumer, t, {l})

Ack(l) ==
  /\ Verified(l)
  /\ rows' = [rows EXCEPT ![l.entry] = None]
  /\ GiveBack(l, TRUE)
  /\ UNCHANGED instant

\* The row keeps its created_at: a returned entry has its old place again.
Nack(l) ==
  /\ Verified(l)
  /\ rows' = [rows EXCEPT ![l.entry].lease = None]
  /\ GiveBack(l, FALSE)
  /\ UNCHANGED instant

TimePasses == Tick /\ UNCHANGED << rows, instant >>

Next ==
  \/ TimePasses
  \/ \E e \in Entry : Publish(e)
  \/ \E c \in Consumer, t \in Clock : Claim(c, t)
  \/ \E l \in Presented : \/ Ack(l)
                          \/ MayNack /\ Nack(l)
                          \/ \E t \in Clock : RenewLease(l, t)

Spec == Init /\ [][Next]_vars

-----------------------------------------------------------------------------
Leases == [e \in Entry |-> IF e \in Leased THEN rows[e].lease ELSE None]

\* Without republication the table is a lease queue: no entry is lost or
\* leased twice, only the holder of the present lease settles or returns an
\* entry, only expired leases are taken back, and claims keep to max_in_flight.
LeaseQueue == INSTANCE LeaseQueue WITH
  waiting <- Present \ Leased, lease <- Leases

ImplementsLeaseQueue == LeaseQueue!Spec

\* No two unexpired leases on one entry are in consumers' hands, when clocks
\* agree and nothing is republished while the table holds it.
NoOverlap == LeaseQueue!NoOverlap

\* Also with republication and clocks that differ: an entry that nobody
\* acknowledged since its newest publication is in the table with the work of
\* that publication, and whoever leases it was given that work.
NewestIsKept ==
  /\ TypeOK
  /\ \A e \in owed :
       /\ e \in Present
       /\ rows[e].work = published[e]
       /\ e \in Leased =>
            [envelope |-> Newest(e), lease |-> rows[e].lease] \in claims
=============================================================================
