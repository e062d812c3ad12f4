------------------------- MODULE PausedConversation -------------------------
(***************************************************************************)
(* What a session promises about the questions of its loops: one question  *)
(* is open at a time, and an open question is either answered to the loop  *)
(* that asked it or given up, once and never both.                         *)
(***************************************************************************)
EXTENDS Naturals

CONSTANTS Pause

VARIABLES
  open,      \* the pauses whose question waits for an answer
  answered,  \* the pauses whose loop was resumed
  given_up   \* the pauses whose loop will not be resumed

vars == << open, answered, given_up >>

Init == open = {} /\ answered = {} /\ given_up = {}

Ask(p) ==
  /\ open = {} /\ p \notin answered \cup given_up
  /\ open' = {p}
  /\ UNCHANGED << answered, given_up >>

Answer(p) ==
  /\ p \in open
  /\ open' = {} /\ answered' = answered \cup {p}
  /\ UNCHANGED given_up

GiveUp(p) ==
  /\ p \in open
  /\ open' = {} /\ given_up' = given_up \cup {p}
  /\ UNCHANGED answered

Next == \E p \in Pause : Ask(p) \/ Answer(p) \/ GiveUp(p)

Spec == Init /\ [][Next]_vars
=============================================================================
