--------------------------- MODULE SessionCatalog ---------------------------
(***************************************************************************)
(* The sessions of one chat as OpenViking's session management stores      *)
(* them: a descriptor for each session and a pointer to the active one.    *)
(* Each is a document of its own.  To replace a document is to remove it   *)
(* and to add it again, so an operation that fails, or dies, on the way    *)
(* has done any number of the writes of its list.                          *)
(***************************************************************************)
EXTENDS Sequences

CONSTANTS Session, None

ASSUME SessionAssumption == None \notin Session

Catalog == [known : SUBSET Session, active : Session \cup {None}]
NoSessions == [known |-> {}, active |-> None]

Without(k, s) == [k EXCEPT !.known = @ \ {s}]
Pointing(k, s) == [k EXCEPT !.active = s]

\* The catalog after each write of an operation.
CreateWrites(k, s) == << [k EXCEPT !.known = @ \cup {s}] >>
TouchWrites(k, s)  == << Without(k, s), k >>
SelectWrites(k, s) ==
  TouchWrites(k, s) \o (IF k.active = None THEN << >> ELSE << Pointing(k, None) >>)
                    \o << Pointing(k, s) >>
DeleteWrites(k, s) ==
  << Without(k, s) >>
    \o (IF k.active = s THEN << Pointing(Without(k, s), None) >> ELSE << >>)

After(writes) == writes[Len(writes)]
Broken(k, writes) == {k} \cup { writes[i] : i \in DOMAIN writes }

\* get_active_session finds no pointer, or what it points to.
Resolves(k) == k.active = None \/ k.active \in k.known
=============================================================================
