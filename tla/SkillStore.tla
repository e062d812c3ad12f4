----------------------------- MODULE SkillStore -----------------------------
(***************************************************************************)
(* One skill of the registry as it is stored in the file system: the       *)
(* directory it is installed in, the directories that were moved away for  *)
(* it, and the record that says where it comes from.  An installation      *)
(* moves the old directory to the backups, moves the staged one into its   *)
(* place, and then writes the record to a temporary file that it renames.  *)
(* Each operator is one call of the file system.                           *)
(***************************************************************************)
CONSTANTS
  Source,   \* where the skill can be installed from, by the same name
  None,     \* no such file
  Torn      \* a file that is not complete

ASSUME SourceAssumption == None \notin Source /\ Torn \notin Source /\ None # Torn

Store == [dir : Source \cup {None}, backups : SUBSET Source,
          record : Source \cup {None, Torn}, temp : Source \cup {None, Torn}]

NoSkill == [dir |-> None, backups |-> {}, record |-> None, temp |-> None]

\* publish_skill_dir; a directory is not renamed to one that has files.
\* Mutant: the old directory is removed.
RemoveOld(k) == [k EXCEPT !.dir = None]
MoveAway(k) == [k EXCEPT !.dir = None, !.backups = @ \cup {k.dir}]
MoveIn(k, s) == [k EXCEPT !.dir = s]

\* write_text_atomically
\* Mutant: the record is written in place.
CreateInPlace(k) == [k EXCEPT !.record = Torn]
CreateTemp(k) == [k EXCEPT !.temp = Torn]
RenameTemp(k) == [k EXCEPT !.temp = None, !.record = k.temp]

\* What stands in a file after s was written to it; if somebody else has
\* written to it since it was emptied, the longer text sticks out.
Written(old, s) == IF old \in {Torn, None} THEN {s} ELSE {s, Torn}

\* list_skills reads every record, and fails if one cannot be read.
Listable(k) == k.record # Torn
=============================================================================
