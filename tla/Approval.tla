------------------------------ MODULE Approval ------------------------------
(***************************************************************************)
(* What the service promises about an approval: a ticket is raised once    *)
(* and decided once, and the frozen invocation behind it is executed at    *)
(* most once, under a ticket that was approved.                            *)
(***************************************************************************)
EXTENDS Naturals

CONSTANT Task

VARIABLES
  ticket,   \* decision on the invocation of each task
  runs      \* how often that invocation was executed

vars == << ticket, runs >>

Init ==
  /\ ticket = [t \in Task |-> "none"]
  /\ runs   = [t \in Task |-> 0]

Raise(t) ==
  /\ ticket[t] = "none"
  /\ ticket' = [ticket EXCEPT ![t] = "Pending"]
  /\ UNCHANGED runs

Decide(t) ==
  /\ ticket[t] = "Pending"
  /\ \E decision \in { "Approved", "Rejected", "Cancelled" } :
       ticket' = [ticket EXCEPT ![t] = decision]
  /\ UNCHANGED runs

Execute(t) ==
  /\ ticket[t] = "Approved"
  /\ runs[t] = 0
  /\ runs' = [runs EXCEPT ![t] = 1]
  /\ UNCHANGED ticket

Next == \E t \in Task : Raise(t) \/ Decide(t) \/ Execute(t)

Spec == Init /\ [][Next]_vars
=============================================================================
