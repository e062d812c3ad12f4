-------------------------- MODULE TaskStateMachine --------------------------
(***************************************************************************)
(* The pure part of the task lifecycle: the states a task can be in, the   *)
(* transitions its event log may record, the event batches that failing    *)
(* and cancelling a task produce, and what a replay of the log concludes.  *)
(*                                                                         *)
(* Source: roku-agent-runtime/src/service/state_machine.rs.                *)
(***************************************************************************)
EXTENDS Naturals, Sequences

TaskState ==
  { "Queued", "Planning", "GraphBuilding", "Delegating", "Executing",
    "Validating", "WaitingApproval", "Aggregating", "CancelRequested",
    "Compensating", "TimeoutRecovering", "Succeeded", "Failed",
    "DeadLetter", "Cancelled" }

EventKind ==
  { "StateTransition", "NodeCompleted", "ApprovalPending",
    "ApprovalApproved", "ApprovalRejected" }

\* A logged event; a node event carries the state the task had, twice.
Event == [kind : EventKind, from : TaskState, to : TaskState]

Cancellable ==
  { "Planning", "GraphBuilding", "Delegating", "Executing", "Validating",
    "WaitingApproval", "Aggregating", "Failed", "TimeoutRecovering" }

Interruptible == { "Delegating", "Executing", "Validating" }

\* The transition table.  Its two wildcard rows make Failed and Cancelled
\* reachable from every state, the terminal ones included.
ValidTransition(from, to) ==
  \/ to \in { "Failed", "Cancelled" }
  \/ to = "CancelRequested" /\ from \in Cancellable
  \/ to = "TimeoutRecovering" /\ from \in Interruptible
  \/ /\ from = "TimeoutRecovering"
     /\ to \in Interruptible \cup { "Planning", "GraphBuilding" }
  \/ <<from, to>> \in
       { <<"Queued", "Planning">>, <<"Failed", "Planning">>,
         <<"Planning", "GraphBuilding">>, <<"GraphBuilding", "Delegating">>,
         <<"Delegating", "Executing">>, <<"WaitingApproval", "Executing">>,
         <<"Validating", "Executing">>, <<"Executing", "WaitingApproval">>,
         <<"Validating", "WaitingApproval">>, <<"Executing", "Validating">>,
         <<"Executing", "Aggregating">>, <<"Validating", "Aggregating">>,
         <<"Aggregating", "Succeeded">>, <<"Failed", "DeadLetter">>,
         <<"CancelRequested", "Compensating">> }

StateEvent(from, to) == [kind |-> "StateTransition", from |-> from, to |-> to]

NodeEvent(kind, state) == [kind |-> kind, from |-> state, to |-> state]

-----------------------------------------------------------------------------
(* Batches of events appended under one lock.                              *)

\* Failing a task whose failed attempts now number `attempts'.
FailureState(attempts, maxAttempts) ==
  IF attempts >= maxAttempts THEN "DeadLetter" ELSE "Failed"

FailureEvents(state, attempts, maxAttempts) ==
  << StateEvent(state, "Failed") >> \o
  IF attempts >= maxAttempts
    THEN << StateEvent("Failed", "DeadLetter") >>
    ELSE << >>

CancellationEvents(state, hasCompensation) ==
  << StateEvent(state, "CancelRequested") >> \o
  IF hasCompensation
    THEN << StateEvent("CancelRequested", "Compensating"),
            StateEvent("Compensating", "Cancelled") >>
    ELSE << StateEvent("CancelRequested", "Cancelled") >>

-----------------------------------------------------------------------------
(* Replay of a log.                                                        *)

IsStateEvent(e) == e.kind = "StateTransition"

\* Where the log records a move.
StateEvents(log) == { i \in DOMAIN log : IsStateEvent(log[i]) }

ReplayedState(base, log) ==
  LET moves == StateEvents(log)
  IN  IF moves = {} THEN base
      ELSE log[CHOOSE i \in moves : \A j \in moves : j <= i].to

TransitionsValid(log) ==
  \A i \in StateEvents(log) : ValidTransition(log[i].from, log[i].to)

\* Each move starts where the one before it ended.
Chained(log) ==
  \A i, j \in StateEvents(log) :
    i < j /\ (\A m \in StateEvents(log) : m <= i \/ j <= m) => log[i].to = log[j].from

\* Status of a log that starts at the creation of the task.
ReplayStatus(persisted, log) ==
  IF ~ TransitionsValid(log) THEN "InvalidTransitions"
  ELSE IF ~ Chained(log) THEN "BrokenTransitionChain"
  ELSE IF ReplayedState(persisted, log) # persisted THEN "SnapshotMismatch"
  ELSE "Consistent"

\* Status of a log that continues a compaction snapshot taken at `base'.
ReplayStatusFrom(base, expected, log) ==
  LET moves == StateEvents(log)
  IN  IF ~ TransitionsValid(log) THEN "InvalidTransitions"
      ELSE IF \E i \in moves : log[i].from # base /\ \A j \in moves : i <= j
             THEN "BrokenTransitionChain"
      ELSE IF ~ Chained(log) THEN "BrokenTransitionChain"
      ELSE IF ReplayedState(base, log) # expected THEN "SnapshotMismatch"
      ELSE "Consistent"
=============================================================================
