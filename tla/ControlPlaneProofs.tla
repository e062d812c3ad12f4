------------------------- MODULE ControlPlaneProofs -------------------------
(***************************************************************************)
(* For any number of tasks and calls: the control plane keeps its types;   *)
(* in any deployment what it has persisted is backed by tickets, results   *)
(* and the log; and with durable repositories, fresh ids and one call per  *)
(* task at a time it implements the approval protocol, keeps the record of *)
(* a task that ended, strands no task that waits for its approval, and     *)
(* leaves a log that replays to the task as long as nothing fails.         *)
(***************************************************************************)
EXTENDS ControlPlane, SequenceTheorems, TLAPS

(* A call that is under way works on a task and holds a real copy of it.   *)
CallsAreReal ==
  \A c \in Caller :
    call[c].pc # "idle" => call[c].task \in Task /\ call[c].copy.state \in TaskState

TypeInv == TypeOK /\ CallsAreReal

-----------------------------------------------------------------------------
(* The batches of events are sequences of events.                          *)

LEMMA StateEventType ==
  ASSUME NEW from \in TaskState, NEW to \in TaskState
  PROVE  StateEvent(from, to) \in Event
  BY DEF StateEvent, Event, EventKind

LEMMA NodeEventType ==
  ASSUME NEW kind \in EventKind, NEW state \in TaskState
  PROVE  NodeEvent(kind, state) \in Event
  BY DEF NodeEvent, Event

LEMMA FailureEventsType ==
  ASSUME NEW state \in TaskState, NEW n, NEW max
  PROVE  FailureEvents(state, n, max) \in Seq(Event)
<1>1. /\ StateEvent(state, "Failed") \in Event
      /\ StateEvent("Failed", "DeadLetter") \in Event
  BY StateEventType DEF TaskState
<1>2. QED
  BY <1>1 DEF FailureEvents

LEMMA CancellationEventsType ==
  ASSUME NEW state \in TaskState, NEW comp
  PROVE  CancellationEvents(state, comp) \in Seq(Event)
<1>1. /\ StateEvent(state, "CancelRequested") \in Event
      /\ StateEvent("CancelRequested", "Compensating") \in Event
      /\ StateEvent("Compensating", "Cancelled") \in Event
      /\ StateEvent("CancelRequested", "Cancelled") \in Event
  BY StateEventType DEF TaskState
<1>2. QED
  BY <1>1 DEF CancellationEvents

-----------------------------------------------------------------------------
(* What a call may be turned into.                                         *)

LEMMA GotoType ==
  ASSUME TypeInv, NEW c \in Caller, NEW label \in Label, NEW k \in TaskRecord,
         call[c].pc # "idle", k.state \in TaskState, Goto(c, label, k)
  PROVE  call' \in [Caller -> Call] /\ CallsAreReal'
  BY DEF TypeInv, TypeOK, CallsAreReal, Call, Goto

LEMMA ReturnType ==
  ASSUME TypeInv, NEW c \in Caller, Return(c)
  PROVE  call' \in [Caller -> Call] /\ CallsAreReal'
<1>1. Idle \in Call
  BY DEF Idle, Call, NoTask, TaskRecord, Label
<1>2. QED
  BY <1>1 DEF TypeInv, TypeOK, CallsAreReal, Return, Idle

LEMMA AppendType ==
  ASSUME TypeInv, NEW t \in Task, NEW batch \in Seq(Event), AppendEvents(t, batch)
  PROVE  eventRepo' \in [Task -> Seq(Event)]
<1>1. eventRepo[t] \o batch \in Seq(Event)
  BY DEF TypeInv, TypeOK
<1>2. QED
  BY <1>1 DEF TypeInv, TypeOK, AppendEvents

LEMMA CopyType ==
  ASSUME TypeInv, NEW c \in Caller, call[c].pc # "idle"
  PROVE  /\ call[c].task \in Task
         /\ call[c].copy \in TaskRecord
         /\ call[c].copy.state \in TaskState
  BY DEF TypeInv, TypeOK, CallsAreReal, Call

-----------------------------------------------------------------------------
(* The helpers, one critical section each.                                 *)

LEMMA RecordType ==
  ASSUME TypeInv, NEW c \in Caller, NEW label, label # "idle",
         NEW state \in TaskState, NEW next \in Label,
         Record(c, label, state, next)
  PROVE  TypeInv'
<1> DEFINE k == call[c].copy
<1>1. call[c].pc # "idle"
  BY DEF Record, At
<1>2. k \in TaskRecord /\ k.state \in TaskState /\ call[c].task \in Task
  BY <1>1, CopyType
<1>3. CASE ValidTransition(k.state, state)
  <2>1. << StateEvent(k.state, state) >> \in Seq(Event)
    BY <1>2, StateEventType
  <2>2. [k EXCEPT !.state = state] \in TaskRecord
    BY <1>2 DEF TaskRecord
  <2>3. AppendEvents(call[c].task, << StateEvent(k.state, state) >>)
        /\ Goto(c, next, [k EXCEPT !.state = state])
    BY <1>3 DEF Record
  <2>4. eventRepo' \in [Task -> Seq(Event)]
    BY <1>2, <2>1, <2>3, AppendType
  <2>5. call' \in [Caller -> Call] /\ CallsAreReal'
    BY <1>1, <1>2, <2>2, <2>3, GotoType DEF TaskRecord
  <2>6. QED
    BY <2>4, <2>5 DEF Record, TypeInv, TypeOK
<1>4. CASE ~ ValidTransition(k.state, state)
  <2>1. call' \in [Caller -> Call] /\ CallsAreReal'
    BY <1>4, ReturnType DEF Record
  <2>2. QED
    BY <1>4, <2>1 DEF Record, TypeInv, TypeOK
<1>5. QED
  BY <1>3, <1>4

LEMMA RecordNodeType ==
  ASSUME TypeInv, NEW c \in Caller, NEW label, label # "idle",
         NEW kind \in EventKind, NEW done \in SUBSET Node, NEW next \in Label,
         RecordNode(c, label, kind, done, next)
  PROVE  TypeInv'
<1> DEFINE k == call[c].copy
<1>1. call[c].pc # "idle"
  BY DEF RecordNode, At
<1>2. k \in TaskRecord /\ k.state \in TaskState /\ call[c].task \in Task
  BY <1>1, CopyType
<1>3. << NodeEvent(kind, k.state) >> \in Seq(Event)
  BY <1>2, NodeEventType
<1>4. eventRepo' \in [Task -> Seq(Event)]
  BY <1>2, <1>3, AppendType DEF RecordNode
<1>5. [k EXCEPT !.completed = @ \cup done] \in TaskRecord
  BY <1>2 DEF TaskRecord
<1>6. call' \in [Caller -> Call] /\ CallsAreReal'
  <2>1. [k EXCEPT !.completed = @ \cup done].state \in TaskState
    BY <1>2 DEF TaskRecord
  <2>2. QED
    BY <1>1, <1>5, <2>1, GotoType DEF RecordNode
<1>7. QED
  BY <1>4, <1>6 DEF RecordNode, TypeInv, TypeOK

LEMMA SaveResultType ==
  ASSUME TypeInv, NEW c \in Caller, NEW label, label # "idle",
         NEW node \in Node, NEW next \in Label, SaveResult(c, label, node, next)
  PROVE  TypeInv'
<1>1. call[c].pc # "idle"
  BY DEF SaveResult, At
<1>2. call' \in [Caller -> Call] /\ CallsAreReal'
  BY <1>1, CopyType, GotoType DEF SaveResult
<1>3. QED
  BY <1>1, <1>2, CopyType DEF SaveResult, TypeInv, TypeOK

LEMMA SaveTicketType ==
  ASSUME TypeInv, NEW c \in Caller, NEW label, label # "idle",
         NEW status \in TicketStatus, NEW next \in Label,
         SaveTicket(c, label, status, next)
  PROVE  TypeInv'
<1> DEFINE k == [call[c].copy EXCEPT !.pending = (status = "Pending")]
<1>1. call[c].pc # "idle"
  BY DEF SaveTicket, At
<1>2. k \in TaskRecord /\ k.state \in TaskState
  BY <1>1, CopyType DEF TaskRecord
<1>3. call' \in [Caller -> Call] /\ CallsAreReal'
  BY <1>1, <1>2, GotoType DEF SaveTicket
<1>4. QED
  BY <1>1, <1>3, CopyType DEF SaveTicket, TypeInv, TypeOK

LEMMA SaveTaskType ==
  ASSUME TypeInv, NEW c \in Caller, NEW label, label # "idle",
         NEW next \in Label, SaveTask(c, label, next)
  PROVE  TypeInv'
<1>1. call[c].pc # "idle"
  BY DEF SaveTask, At
<1>2. call' \in [Caller -> Call] /\ CallsAreReal'
  BY <1>1, CopyType, GotoType, ReturnType DEF SaveTask
<1>3. QED
  BY <1>1, <1>2, CopyType DEF SaveTask, TypeInv, TypeOK

-----------------------------------------------------------------------------
(* The actions that are more than one helper.                              *)

LEMMA EntryType ==
  ASSUME TypeInv, NEW c \in Caller, NEW t \in Task, NEW label \in Label,
         NEW k \in TaskRecord, k.state \in TaskState, Enter(c, t, label, k)
  PROVE  call' \in [Caller -> Call] /\ CallsAreReal'
<1>1. [pc |-> label, task |-> t, copy |-> k] \in Call
  BY DEF Call
<1>2. QED
  BY <1>1 DEF TypeInv, TypeOK, CallsAreReal, Enter

LEMMA SubmitType ==
  ASSUME TypeInv, NEW c \in Caller, NEW t \in Task, Submit(c, t)
  PROVE  TypeInv'
<1>1. << StateEvent("Queued", "Planning") >> \in Seq(Event)
  BY StateEventType DEF TaskState
<1>2. eventRepo' \in [Task -> Seq(Event)]
  BY <1>1, AppendType DEF Submit
<1>3. [NoTask EXCEPT !.state = "Planning"] \in TaskRecord
  BY DEF NoTask, TaskRecord, TaskState
<1>4. [NoTask EXCEPT !.state = "Planning"].state \in TaskState
  BY DEF NoTask, TaskState
<1>5. call' \in [Caller -> Call] /\ CallsAreReal'
  BY <1>3, <1>4, EntryType DEF Submit, Label
<1>6. QED
  BY <1>2, <1>5 DEF Submit, TypeInv, TypeOK

LEMMA DecideType ==
  ASSUME TypeInv, NEW c \in Caller, NEW t \in Task, NEW approved \in BOOLEAN,
         Decide(c, t, approved)
  PROVE  TypeInv'
<1>1. taskRepo[t] \in TaskRecord /\ taskRepo[t].state \in TaskState
  BY DEF Decide, TypeInv, TypeOK, TaskRecord, TaskState
<1>2. call' \in [Caller -> Call] /\ CallsAreReal'
  BY <1>1, EntryType DEF Decide, Label
<1>3. QED
  BY <1>2 DEF Decide, TypeInv, TypeOK, repos

LEMMA CancelType ==
  ASSUME TypeInv, NEW c \in Caller, NEW t \in Task, Cancel(c, t)
  PROVE  TypeInv'
<1>1. taskRepo[t] \in TaskRecord /\ taskRepo[t].state \in TaskState
  BY DEF Cancel, NotCancellable, TypeInv, TypeOK, TaskRecord
<1>2. call' \in [Caller -> Call] /\ CallsAreReal'
  BY <1>1, EntryType DEF Cancel, Label
<1>3. QED
  BY <1>2 DEF Cancel, TypeInv, TypeOK, repos

LEMMA FailedCopyType ==
  ASSUME NEW k \in TaskRecord, NEW state \in TaskState
  PROVE  LET failed == [k EXCEPT !.attempts = @ + 1, !.state = state]
         IN  failed \in TaskRecord /\ failed.state \in TaskState
<1>1. [k EXCEPT !.attempts = @ + 1] \in TaskRecord
  BY DEF TaskRecord
<1>2. \A r \in TaskRecord :
        [r EXCEPT !.state = state] \in TaskRecord /\ [r EXCEPT !.state = state].state = state
  BY DEF TaskRecord
<1>3. QED
  BY <1>1, <1>2

LEMMA FailType ==
  ASSUME TypeInv, NEW c \in Caller, Fail(c)
  PROVE  TypeInv'
<1> DEFINE k == call[c].copy
<1> DEFINE k2 == [k EXCEPT !.attempts = @ + 1,
                           !.state = FailureState(k.attempts + 1, MaxAttempts)]
<1>1. call[c].pc # "idle"
  BY DEF Fail, At
<1>2. k \in TaskRecord /\ k.state \in TaskState /\ call[c].task \in Task
  BY <1>1, CopyType
<1>3. FailureBatch(k) \in Seq(Event)
  BY <1>2, FailureEventsType DEF FailureBatch
<1>4. eventRepo' \in [Task -> Seq(Event)]
  BY <1>2, <1>3, AppendType DEF Fail
<1>5. FailureState(k.attempts + 1, MaxAttempts) \in TaskState
  BY DEF FailureState, TaskState
<1>6. k2 \in TaskRecord /\ k2.state \in TaskState
  BY <1>2, <1>5, FailedCopyType
<1>7. call' \in [Caller -> Call] /\ CallsAreReal'
  BY <1>1, <1>6, GotoType DEF Fail, Label
<1>8. QED
  BY <1>4, <1>7 DEF Fail, TypeInv, TypeOK

LEMMA CancelTaskType ==
  ASSUME TypeInv, NEW c \in Caller, CancelTask(c)
  PROVE  TypeInv'
<1> DEFINE k == call[c].copy
<1>1. call[c].pc # "idle"
  BY DEF CancelTask, At
<1>2. k \in TaskRecord /\ k.state \in TaskState /\ call[c].task \in Task
  BY <1>1, CopyType
<1>3. CancellationBatch(k) \in Seq(Event)
  BY <1>2, CancellationEventsType DEF CancellationBatch
<1>4. eventRepo' \in [Task -> Seq(Event)]
  BY <1>2, <1>3, AppendType DEF CancelTask
<1>5. [k EXCEPT !.state = "Cancelled"] \in TaskRecord
  BY <1>2 DEF TaskRecord, TaskState
<1>6. [k EXCEPT !.state = "Cancelled"].state \in TaskState
  BY <1>2 DEF TaskRecord, TaskState
<1>7. call' \in [Caller -> Call] /\ CallsAreReal'
  BY <1>1, <1>5, <1>6, GotoType DEF CancelTask, Label
<1>8. QED
  BY <1>4, <1>7 DEF CancelTask, TypeInv, TypeOK

\* Steps that touch nothing but the call itself, the frozen payloads and the
\* history of executions.
LEMMA PlainType ==
  ASSUME TypeInv, NEW c \in Caller,
         \/ FinishLoop(c) \/ Freeze(c) \/ ValidateResume(c)
         \/ RunFrozen(c) \/ LoadTicketToCancel(c)
  PROVE  TypeInv'
<1> DEFINE k == call[c].copy
<1>1. call[c].pc # "idle"
  BY DEF FinishLoop, Freeze, ValidateResume, RunFrozen, LoadTicketToCancel, At
<1>2. /\ k \in TaskRecord /\ k.state \in TaskState /\ call[c].task \in Task
      /\ [k EXCEPT !.pending = FALSE] \in TaskRecord
      /\ [k EXCEPT !.pending = FALSE].state \in TaskState
  BY <1>1, CopyType DEF TaskRecord
<1>3. call' \in [Caller -> Call] /\ CallsAreReal'
  <2>1. \/ Return(c)
        \/ \E label \in Label : Goto(c, label, k) \/ Goto(c, label, [k EXCEPT !.pending = FALSE])
    BY DEF FinishLoop, Freeze, ValidateResume, RunFrozen, LoadTicketToCancel, Label
  <2>2. QED
    BY <1>1, <1>2, <2>1, GotoType, ReturnType
<1>4. frozen' \subseteq Task /\ ran' \in [Task -> Nat]
  BY <1>2 DEF FinishLoop, Freeze, ValidateResume, RunFrozen, LoadTicketToCancel,
              TypeInv, TypeOK
<1>5. QED
  BY <1>3, <1>4 DEF FinishLoop, Freeze, ValidateResume, RunFrozen,
     LoadTicketToCancel, TypeInv, TypeOK, repos

LEMMA RepoErrorType ==
  ASSUME TypeInv, NEW c \in Caller, RepoError(c)
  PROVE  TypeInv'
<1> DEFINE k == call[c].copy
<1> DEFINE batch == CASE At(c, "fail")         -> FailureBatch(k)
                      [] At(c, "cancelEvents") -> CancellationBatch(k)
                      [] OTHER                 -> << >>
<1>1. call[c].pc # "idle"
  BY DEF RepoError
<1>2. k.state \in TaskState /\ call[c].task \in Task
  BY <1>1, CopyType
<1>3. batch \in Seq(Event)
  <2>1. FailureBatch(k) \in Seq(Event) /\ CancellationBatch(k) \in Seq(Event)
    BY <1>2, FailureEventsType, CancellationEventsType
    DEF FailureBatch, CancellationBatch
  <2>2. QED
    BY <2>1
<1>4. PICK n \in 0 .. Len(batch) : AppendEvents(call[c].task, SubSeq(batch, 1, n))
  BY DEF RepoError
<1>5. SubSeq(batch, 1, n) \in Seq(Event)
  <2> HIDE DEF batch
  <2> QED
    BY <1>3, <1>4
<1>6. eventRepo' \in [Task -> Seq(Event)]
  BY <1>2, <1>4, <1>5, AppendType
<1>7. call' \in [Caller -> Call] /\ CallsAreReal'
  BY ReturnType DEF RepoError
<1>8. QED
  BY <1>6, <1>7, ConstantsAssumption DEF RepoError, TypeInv, TypeOK

LEMMA CrashType ==
  ASSUME TypeInv, Crash
  PROVE  TypeInv'
<1>1. Idle \in Call /\ NoTask \in TaskRecord
  BY DEF Idle, Call, NoTask, TaskRecord, Label
<1>2. call' \in [Caller -> Call] /\ CallsAreReal'
  BY <1>1 DEF Crash, CallsAreReal, Idle
<1>3. CASE Durable
  BY <1>2, <1>3, ConstantsAssumption DEF Crash, TypeInv, TypeOK, repos
<1>4. CASE ~ Durable
  <2>1. << >> \in Seq(Event)
    OBVIOUS
  <2>2. /\ taskRepo' \in [Task -> TaskRecord]
        /\ eventRepo' \in [Task -> Seq(Event)]
        /\ ticketRepo' \in [Task -> TicketStatus \cup {"none"}]
        /\ resultRepo' \in [Task -> SUBSET Node]
    BY <1>1, <1>4, <2>1 DEF Crash
  <2>3. QED
    BY <1>2, <2>2, ConstantsAssumption DEF Crash, TypeInv, TypeOK
<1>5. QED
  BY <1>3, <1>4

-----------------------------------------------------------------------------

LEMMA ProceedType ==
  ASSUME TypeInv, NEW c \in Caller, Proceed(c)
  PROVE  TypeInv'
<1>1. CASE \/ PrepareRoute(c) \/ DispatchRoute(c) \/ ExecuteRoute(c) \/ Validate(c)
           \/ Aggregate(c) \/ Succeed(c) \/ AwaitApproval(c) \/ Grant(c)
  BY <1>1, RecordType
  DEF PrepareRoute, DispatchRoute, ExecuteRoute, Validate, Aggregate, Succeed,
      AwaitApproval, Grant, TaskState, Label
<1>2. CASE \/ CompleteNode(c) \/ CompleteValidation(c) \/ NoteApproval(c)
           \/ NoteRejection(c) \/ NoteGrant(c)
  BY <1>2, RecordNodeType
  DEF CompleteNode, CompleteValidation, NoteApproval, NoteRejection, NoteGrant,
      EventKind, Node, Label
<1>3. CASE SaveRouteResult(c) \/ SaveValidation(c) \/ SaveRunResult(c)
  BY <1>3, SaveResultType
  DEF SaveRouteResult, SaveValidation, SaveRunResult, Node, Label
<1>4. CASE \/ RaiseTicket(c) \/ ApproveTicket(c) \/ RejectTicket(c) \/ CancelTicket(c)
  BY <1>4, SaveTicketType
  DEF RaiseTicket, ApproveTicket, RejectTicket, CancelTicket, TicketStatus, Label
<1>5. CASE Finish(c) \/ SaveGrant(c)
  BY <1>5, SaveTaskType DEF Finish, SaveGrant, Label
<1>6. CASE Fail(c)
  BY <1>6, FailType
<1>7. CASE CancelTask(c)
  BY <1>7, CancelTaskType
<1>8. CASE \/ FinishLoop(c) \/ Freeze(c) \/ ValidateResume(c)
           \/ RunFrozen(c) \/ LoadTicketToCancel(c)
  BY <1>8, PlainType
<1>9. QED
  BY <1>1, <1>2, <1>3, <1>4, <1>5, <1>6, <1>7, <1>8 DEF Proceed

LEMMA NextType ==
  ASSUME TypeInv, [Next]_vars
  PROVE  TypeInv'
<1>1. CASE Next
  <2>1. ASSUME NEW c \in Caller, NEW t \in Task,
               \/ Submit(c, t)
               \/ \E approved \in BOOLEAN : Decide(c, t, approved)
               \/ Cancel(c, t)
        PROVE  TypeInv'
    BY <2>1, SubmitType, DecideType, CancelType
  <2>2. ASSUME NEW c \in Caller, Proceed(c) \/ RepoError(c)
        PROVE  TypeInv'
    BY <2>2, ProceedType, RepoErrorType
  <2>3. QED
    BY <1>1, <2>1, <2>2, CrashType DEF Next
<1>2. CASE UNCHANGED vars
  BY <1>2 DEF vars, repos, TypeInv, TypeOK, CallsAreReal
<1>3. QED
  BY <1>1, <1>2

LEMMA InitType == Init => TypeInv
<1> SUFFICES ASSUME Init PROVE TypeInv
  OBVIOUS
<1>1. Idle \in Call /\ NoTask \in TaskRecord
  BY DEF Idle, Call, NoTask, TaskRecord, Label
<1>2. CallsAreReal
  BY DEF Init, CallsAreReal, Idle
<1>3. TypeOK
  BY <1>1, ConstantsAssumption DEF Init, TypeOK
<1>4. QED
  BY <1>2, <1>3 DEF TypeInv

\* Every variable of the control plane keeps its type: among others, the
\* batches that failing and cancelling append are well-formed events, also
\* when a repository error cuts them short.
THEOREM TypeCorrect == Spec => []TypeOK
<1>1. TypeInv /\ [Next]_vars => TypeInv'
  BY NextType
<1>2. TypeInv => TypeOK
  BY DEF TypeInv
<1>3. QED
  BY InitType, <1>1, <1>2, PTL DEF Spec

-----------------------------------------------------------------------------
(* Persisted states are backed by tickets, results and log entries.         *)

WaitBacked(t, k) ==
  k.state = "WaitingApproval" =>
    k.pending /\ ticketRepo[t] # "none" /\ "node" \in resultRepo[t]

SuccessBacked(t, k) ==
  k.state = "Succeeded" => k.completed = Node /\ resultRepo[t] = Node

\* Labels a call reaches only after it saved the result of the node.
NodeSaved ==
  { "freeze", "wait", "waitEvent", "waitTicket", "nodeEvent", "validate",
    "valResult", "valEvent", "aggregate", "succeed" }

\* What a call at each label has established about the task it works on.
CallBacked(j) ==
  /\ j.pc \in NodeSaved => "node" \in resultRepo[j.task]
  /\ j.pc \in { "valEvent", "aggregate", "succeed" } => "validation" \in resultRepo[j.task]
  /\ j.pc \in { "validate", "valResult", "valEvent" } => "node" \in j.copy.completed
  /\ j.pc \in { "aggregate", "succeed" } => j.copy.completed = Node
  /\ j.pc \in { "waitEvent", "waitTicket" } => j.copy.state = "WaitingApproval"
  /\ j.pc = "grantSave" => j.copy.state = "Executing"
  /\ j.pc = "save" => WaitBacked(j.task, j.copy) /\ SuccessBacked(j.task, j.copy)

TasksBacked == \A t \in Task : WaitBacked(t, taskRepo[t]) /\ SuccessBacked(t, taskRepo[t])
CallsBacked == \A c \in Caller : CallBacked(call[c])

OrderInv == TypeInv /\ TasksBacked /\ CallsBacked

\* Results and tickets are only ever added.
RecordsGrow ==
  \A t \in Task : /\ resultRepo[t] \subseteq resultRepo'[t]
                  /\ ticketRepo[t] # "none" => ticketRepo'[t] # "none"

-----------------------------------------------------------------------------
(* What a step leaves alone stays backed.                                  *)

LEMMA GrowthKeepsTasks ==
  ASSUME TypeInv', TasksBacked, RecordsGrow, UNCHANGED taskRepo
  PROVE  TasksBacked'
<1> SUFFICES ASSUME NEW t \in Task
             PROVE  WaitBacked(t, taskRepo[t])' /\ SuccessBacked(t, taskRepo[t])'
  BY DEF TasksBacked
<1>1. WaitBacked(t, taskRepo[t]) /\ SuccessBacked(t, taskRepo[t])
  BY DEF TasksBacked
<1>2. resultRepo'[t] \subseteq Node
  BY DEF TypeInv, TypeOK
<1>3. QED
  BY <1>1, <1>2 DEF RecordsGrow, WaitBacked, SuccessBacked

LEMMA GrowthKeepsCall ==
  ASSUME TypeInv', NEW j, CallBacked(j), j.task \in Task, RecordsGrow
  PROVE  CallBacked(j)'
<1>1. resultRepo'[j.task] \subseteq Node
  BY DEF TypeInv, TypeOK
<1>2. QED
  BY <1>1 DEF CallBacked, RecordsGrow, WaitBacked, SuccessBacked

LEMMA IdleIsBacked ==
  ASSUME NEW j, j.pc = "idle"
  PROVE  CallBacked(j)
  BY DEF CallBacked, NodeSaved

\* A step of one call only has to account for that call.
LEMMA OneCallMoves ==
  ASSUME OrderInv, TypeInv', RecordsGrow, NEW c \in Caller, NEW j,
         call' = [call EXCEPT ![c] = j], CallBacked(j)'
  PROVE  CallsBacked'
<1> SUFFICES ASSUME NEW d \in Caller PROVE CallBacked(call[d])'
  BY DEF CallsBacked
<1>1. CASE d = c
  BY <1>1 DEF OrderInv, TypeInv, TypeOK
<1>2. CASE d # c
  <2>1. call'[d] = call[d] /\ CallBacked(call[d])
    BY <1>2 DEF OrderInv, CallsBacked, TypeInv, TypeOK
  <2>2. CASE call[d].pc = "idle"
    BY <2>1, <2>2, IdleIsBacked DEF CallBacked, NodeSaved
  <2>3. CASE call[d].pc # "idle"
    <3>1. call[d].task \in Task
      BY <2>3, CopyType DEF OrderInv
    <3>2. QED
      BY <2>1, <3>1, GrowthKeepsCall DEF CallBacked, WaitBacked, SuccessBacked
  <2>4. QED
    BY <2>2, <2>3
<1>3. QED
  BY <1>1, <1>2

LEMMA MoveKeepsOrder ==
  ASSUME OrderInv, TypeInv', RecordsGrow, UNCHANGED taskRepo, NEW c \in Caller, NEW j,
         call' = [call EXCEPT ![c] = j], CallBacked(j)'
  PROVE  OrderInv'
  BY GrowthKeepsTasks, OneCallMoves DEF OrderInv

LEMMA ReturnKeepsOrder ==
  ASSUME OrderInv, TypeInv', RecordsGrow, UNCHANGED taskRepo, NEW c \in Caller, Return(c)
  PROVE  OrderInv'
<1>1. CallBacked(Idle)'
  BY DEF Idle, CallBacked, NodeSaved
<1>2. QED
  BY <1>1, MoveKeepsOrder DEF Return

\* The call of c, moved on to a label with a copy.
Moved(c, label, k) == [pc |-> label, task |-> call[c].task, copy |-> k]

LEMMA GotoMoves ==
  ASSUME TypeInv, NEW c \in Caller, NEW label, NEW k, Goto(c, label, k)
  PROVE  call' = [call EXCEPT ![c] = Moved(c, label, k)]
  BY DEF Goto, Moved

-----------------------------------------------------------------------------
(* The helpers.                                                            *)

LEMMA RecordOrder ==
  ASSUME OrderInv, TypeInv', NEW c \in Caller, NEW label, NEW state, NEW next,
         Record(c, label, state, next),
         CallBacked(Moved(c, next, [call[c].copy EXCEPT !.state = state]))
  PROVE  OrderInv'
<1> DEFINE j == Moved(c, next, [call[c].copy EXCEPT !.state = state])
<1>1. RecordsGrow /\ UNCHANGED taskRepo
  BY DEF Record, RecordsGrow
<1>2. CASE Return(c)
  BY <1>1, <1>2, ReturnKeepsOrder
<1>3. CASE Goto(c, next, [call[c].copy EXCEPT !.state = state])
  <2>1. call' = [call EXCEPT ![c] = j]
    BY <1>3, GotoMoves DEF OrderInv
  <2>2. \A x : CallBacked(x) => CallBacked(x)'
    BY DEF Record, CallBacked, WaitBacked, SuccessBacked
  <2>3. QED
    BY <1>1, <2>1, <2>2, MoveKeepsOrder
<1>4. QED
  BY <1>2, <1>3 DEF Record

LEMMA RecordNodeOrder ==
  ASSUME OrderInv, TypeInv', NEW c \in Caller, NEW label, NEW kind, NEW done, NEW next,
         RecordNode(c, label, kind, done, next),
         CallBacked(Moved(c, next, [call[c].copy EXCEPT !.completed = @ \cup done]))
  PROVE  OrderInv'
<1> DEFINE j == Moved(c, next, [call[c].copy EXCEPT !.completed = @ \cup done])
<1>1. RecordsGrow /\ UNCHANGED taskRepo
  BY DEF RecordNode, RecordsGrow
<1>2. call' = [call EXCEPT ![c] = j]
  BY GotoMoves DEF OrderInv, RecordNode
<1>3. \A x : CallBacked(x) => CallBacked(x)'
  BY DEF RecordNode, CallBacked, WaitBacked, SuccessBacked
<1>4. QED
  BY <1>1, <1>2, <1>3, MoveKeepsOrder

LEMMA SaveResultOrder ==
  ASSUME OrderInv, TypeInv', NEW c \in Caller, NEW label, label # "idle",
         NEW node \in Node, NEW next, NEW j, j = Moved(c, next, call[c].copy),
         SaveResult(c, label, node, next), CallBacked(j)'
  PROVE  OrderInv'
<1>1. call[c].task \in Task
  BY CopyType DEF OrderInv, SaveResult, At
<1>2. RecordsGrow /\ UNCHANGED taskRepo
  BY <1>1 DEF SaveResult, RecordsGrow, OrderInv, TypeInv, TypeOK
<1>3. call' = [call EXCEPT ![c] = j]
  BY GotoMoves DEF OrderInv, SaveResult
<1>4. QED
  BY <1>2, <1>3, MoveKeepsOrder

LEMMA SaveTicketOrder ==
  ASSUME OrderInv, TypeInv', NEW c \in Caller, NEW label, label # "idle",
         NEW status \in TicketStatus, NEW next, NEW j,
         j = Moved(c, next, [call[c].copy EXCEPT !.pending = (status = "Pending")]),
         SaveTicket(c, label, status, next), CallBacked(j)'
  PROVE  OrderInv'
<1>1. call[c].task \in Task
  BY CopyType DEF OrderInv, SaveTicket, At
<1>2. RecordsGrow /\ UNCHANGED taskRepo
  BY <1>1 DEF SaveTicket, RecordsGrow, TicketStatus, OrderInv, TypeInv, TypeOK
<1>3. call' = [call EXCEPT ![c] = j]
  BY GotoMoves DEF OrderInv, SaveTicket
<1>4. QED
  BY <1>2, <1>3, MoveKeepsOrder

\* A task may be saved when its copy is backed.
LEMMA SaveTaskOrder ==
  ASSUME OrderInv, TypeInv', NEW c \in Caller, NEW label, label # "idle",
         NEW next, SaveTask(c, label, next),
         WaitBacked(call[c].task, call[c].copy), SuccessBacked(call[c].task, call[c].copy),
         CallBacked(Moved(c, next, call[c].copy))
  PROVE  OrderInv'
<1>1. call[c].task \in Task
  BY CopyType DEF OrderInv, SaveTask, At
<1>2. RecordsGrow
  BY DEF SaveTask, RecordsGrow
<1>3. TasksBacked'
  <2> SUFFICES ASSUME NEW t \in Task
               PROVE  WaitBacked(t, taskRepo[t])' /\ SuccessBacked(t, taskRepo[t])'
    BY DEF TasksBacked
  <2>1. WaitBacked(t, taskRepo'[t]) /\ SuccessBacked(t, taskRepo'[t])
    BY <1>1 DEF SaveTask, OrderInv, TasksBacked, TypeInv, TypeOK
  <2>2. QED
    BY <2>1 DEF SaveTask, WaitBacked, SuccessBacked
<1>4. CallsBacked'
  <2>1. \A x : CallBacked(x) => CallBacked(x)'
    BY DEF SaveTask, CallBacked, WaitBacked, SuccessBacked
  <2>2. CASE Return(c)
    <3>1. CallBacked(Idle)'
      BY DEF Idle, CallBacked, NodeSaved
    <3>2. QED
      BY <1>2, <2>2, <3>1, OneCallMoves DEF Return
  <2>3. CASE Goto(c, next, call[c].copy)
    BY <1>2, <2>1, <2>3, GotoMoves, OneCallMoves DEF OrderInv
  <2>4. QED
    BY <2>2, <2>3 DEF SaveTask
<1>5. QED
  BY <1>3, <1>4 DEF OrderInv

-----------------------------------------------------------------------------
(* The steps of a call.                                                    *)

\* Moves of the direct route and of the wait for a decision.
LEMMA RouteOrder ==
  ASSUME OrderInv, TypeInv', NEW c \in Caller,
         \/ PrepareRoute(c) \/ DispatchRoute(c) \/ ExecuteRoute(c) \/ Validate(c)
         \/ Aggregate(c) \/ Succeed(c) \/ AwaitApproval(c) \/ Grant(c)
  PROVE  OrderInv'
<1> DEFINE To(next, state) == Moved(c, next, [call[c].copy EXCEPT !.state = state])
<1>1. CallBacked(call[c]) /\ call[c].copy \in TaskRecord
  BY DEF OrderInv, CallsBacked, TypeInv, TypeOK, Call
<1>2. CASE PrepareRoute(c)
  <2>1. CallBacked(To("delegate", "GraphBuilding"))
    BY DEF Moved, CallBacked, NodeSaved
  <2>2. QED
    BY <1>2, <2>1, RecordOrder DEF PrepareRoute
<1>3. CASE DispatchRoute(c)
  <2>1. CallBacked(To("execute", "Delegating"))
    BY DEF Moved, CallBacked, NodeSaved
  <2>2. QED
    BY <1>3, <2>1, RecordOrder DEF DispatchRoute
<1>4. CASE ExecuteRoute(c)
  <2>1. CallBacked(To("result", "Executing"))
    BY DEF Moved, CallBacked, NodeSaved
  <2>2. QED
    BY <1>4, <2>1, RecordOrder DEF ExecuteRoute
<1>5. CASE Validate(c)
  <2>1. CallBacked(To("valResult", "Validating"))
    BY <1>1, <1>5 DEF Validate, Record, At, Moved, CallBacked, NodeSaved, TaskRecord
  <2>2. QED
    BY <1>5, <2>1, RecordOrder DEF Validate
<1>6. CASE Aggregate(c)
  <2>1. CallBacked(To("succeed", "Aggregating"))
    BY <1>1, <1>6 DEF Aggregate, Record, At, Moved, CallBacked, NodeSaved, TaskRecord
  <2>2. QED
    BY <1>6, <2>1, RecordOrder DEF Aggregate
<1>7. CASE Succeed(c)
  <2>1. resultRepo[call[c].task] = Node
    BY <1>1, <1>7, CopyType
    DEF Succeed, Record, At, CallBacked, NodeSaved, Node, OrderInv, TypeInv, TypeOK
  <2>2. CallBacked(To("save", "Succeeded"))
    BY <1>1, <1>7, <2>1
    DEF Succeed, Record, At, Moved, CallBacked, NodeSaved, TaskRecord, WaitBacked,
        SuccessBacked
  <2>3. QED
    BY <1>7, <2>2, RecordOrder DEF Succeed
<1>8. CASE AwaitApproval(c)
  <2>1. CallBacked(To("waitEvent", "WaitingApproval"))
    BY <1>1, <1>8 DEF AwaitApproval, Record, At, Moved, CallBacked, NodeSaved, TaskRecord
  <2>2. QED
    BY <1>8, <2>1, RecordOrder DEF AwaitApproval
<1>9. CASE Grant(c)
  <2>1. CallBacked(To("grantSave", "Executing"))
    BY <1>1, <1>9 DEF Grant, Record, At, Moved, CallBacked, NodeSaved, TaskRecord
  <2>2. QED
    BY <1>9, <2>1, RecordOrder DEF Grant
<1>10. QED
  BY <1>2, <1>3, <1>4, <1>5, <1>6, <1>7, <1>8, <1>9

LEMMA NodeEventOrder ==
  ASSUME OrderInv, TypeInv', NEW c \in Caller,
         \/ CompleteNode(c) \/ CompleteValidation(c) \/ NoteApproval(c)
         \/ NoteRejection(c) \/ NoteGrant(c)
  PROVE  OrderInv'
<1> DEFINE To(next, done) == Moved(c, next, [call[c].copy EXCEPT !.completed = @ \cup done])
<1>1. CallBacked(call[c]) /\ call[c].copy \in TaskRecord
  BY DEF OrderInv, CallsBacked, TypeInv, TypeOK, Call
<1>2. CASE CompleteNode(c)
  <2>1. CallBacked(To("validate", {"node"}))
    BY <1>1, <1>2
    DEF CompleteNode, RecordNode, At, Moved, CallBacked, NodeSaved, TaskRecord
  <2>2. QED
    BY <1>2, <2>1, RecordNodeOrder DEF CompleteNode
<1>3. CASE CompleteValidation(c)
  <2>1. call[c].copy.completed \cup {"validation"} = Node
    BY <1>1, <1>3 DEF CompleteValidation, RecordNode, At, CallBacked, TaskRecord, Node
  <2>2. CallBacked(To("aggregate", {"validation"}))
    BY <1>1, <1>3, <2>1
    DEF CompleteValidation, RecordNode, At, Moved, CallBacked, NodeSaved, TaskRecord
  <2>3. QED
    BY <1>3, <2>2, RecordNodeOrder DEF CompleteValidation
<1>4. CASE NoteApproval(c)
  <2>1. CallBacked(To("waitTicket", {}))
    BY <1>1, <1>4
    DEF NoteApproval, RecordNode, At, Moved, CallBacked, NodeSaved, TaskRecord
  <2>2. QED
    BY <1>4, <2>1, RecordNodeOrder DEF NoteApproval
<1>5. CASE NoteRejection(c)
  <2>1. CallBacked(To("fail", {}))
    BY DEF Moved, CallBacked, NodeSaved
  <2>2. QED
    BY <1>5, <2>1, RecordNodeOrder DEF NoteRejection
<1>6. CASE NoteGrant(c)
  <2>1. CallBacked(To("grant", {}))
    BY DEF Moved, CallBacked, NodeSaved
  <2>2. QED
    BY <1>6, <2>1, RecordNodeOrder DEF NoteGrant
<1>7. QED
  BY <1>2, <1>3, <1>4, <1>5, <1>6

LEMMA ResultOrder ==
  ASSUME OrderInv, TypeInv', NEW c \in Caller,
         SaveRouteResult(c) \/ SaveValidation(c) \/ SaveRunResult(c)
  PROVE  OrderInv'
<1>1. CallBacked(call[c])
  BY DEF OrderInv, CallsBacked
<1>2. CASE SaveRouteResult(c) \/ SaveRunResult(c)
  <2>1. PICK label \in { "result", "runResult" }, next \in { "nodeEvent", "fail", "freeze" } :
          SaveResult(c, label, "node", next)
    BY <1>2 DEF SaveRouteResult, SaveRunResult
  <2> DEFINE j == Moved(c, next, call[c].copy)
  <2>2. j.task \in Task /\ j.pc = next /\ j.task = call[c].task
    BY <2>1, CopyType DEF SaveResult, At, OrderInv, Moved
  <2>3. "node" \in resultRepo'[j.task]
    BY <2>1, <2>2 DEF SaveResult, OrderInv, TypeInv, TypeOK
  <2> HIDE DEF j
  <2>4. \A x : x = j => CallBacked(x)'
    BY <2>2, <2>3 DEF CallBacked, NodeSaved
  <2>5. QED
    BY <2>1, <2>4, SaveResultOrder DEF Node, j
<1>3. CASE SaveValidation(c)
  <2> DEFINE j == Moved(c, "valEvent", call[c].copy)
  <2>1. SaveResult(c, "valResult", "validation", "valEvent")
    BY <1>3 DEF SaveValidation
  <2>2. /\ j.task \in Task /\ j.pc = "valEvent"
        /\ j.task = call[c].task /\ j.copy = call[c].copy
    BY <2>1, CopyType DEF SaveResult, At, OrderInv, Moved
  <2>3. "node" \in j.copy.completed /\ "node" \in resultRepo[j.task]
    BY <1>1, <2>1, <2>2 DEF SaveResult, At, CallBacked, NodeSaved
  <2>4. { "node", "validation" } \subseteq resultRepo'[j.task]
    BY <2>1, <2>2, <2>3 DEF SaveResult, OrderInv, TypeInv, TypeOK
  <2> HIDE DEF j
  <2>5. \A x : x = j => CallBacked(x)'
    BY <2>2, <2>3, <2>4 DEF CallBacked, NodeSaved
  <2>6. QED
    BY <2>1, <2>5, SaveResultOrder DEF Node, j
<1>4. QED
  BY <1>2, <1>3

LEMMA TicketOrder ==
  ASSUME OrderInv, TypeInv', NEW c \in Caller,
         RaiseTicket(c) \/ ApproveTicket(c) \/ RejectTicket(c) \/ CancelTicket(c)
  PROVE  OrderInv'
<1>1. CallBacked(call[c]) /\ call[c].copy \in TaskRecord
  BY DEF OrderInv, CallsBacked, TypeInv, TypeOK, Call
<1>2. CASE RaiseTicket(c)
  <2> DEFINE j == Moved(c, "save", [call[c].copy EXCEPT !.pending = ("Pending" = "Pending")])
  <2>1. SaveTicket(c, "waitTicket", "Pending", "save")
    BY <1>2 DEF RaiseTicket
  <2>2. /\ j.task \in Task /\ j.pc = "save" /\ j.task = call[c].task
        /\ j.copy.state = call[c].copy.state /\ j.copy.pending
    BY <1>1, <2>1, CopyType DEF SaveTicket, At, OrderInv, Moved, TaskRecord
  <2>3. j.copy.state = "WaitingApproval" /\ "node" \in resultRepo[j.task]
    BY <1>1, <2>1, <2>2 DEF SaveTicket, At, CallBacked, NodeSaved
  <2>4. ticketRepo'[j.task] = "Pending" /\ resultRepo' = resultRepo
    BY <2>1, <2>2 DEF SaveTicket, OrderInv, TypeInv, TypeOK
  <2> HIDE DEF j
  <2>5. \A x : x = j => CallBacked(x)'
    BY <2>2, <2>3, <2>4 DEF CallBacked, NodeSaved, WaitBacked, SuccessBacked
  <2>6. QED
    BY <2>1, <2>5, SaveTicketOrder DEF TicketStatus, j
<1>3. ASSUME NEW label \in { "approveTicket", "rejectTicket", "cancelTicketSave" },
             NEW status \in TicketStatus,
             NEW next \in { "grantEvent", "rejectEvent", "cancelEvents" },
             SaveTicket(c, label, status, next)
      PROVE  OrderInv'
  <2> DEFINE j == Moved(c, next, [call[c].copy EXCEPT !.pending = (status = "Pending")])
  <2>1. j.pc = next
    BY DEF Moved
  <2> HIDE DEF j
  <2>2. \A x : x = j => CallBacked(x)'
    BY <2>1 DEF CallBacked, NodeSaved
  <2>3. QED
    BY <1>3, <2>2, SaveTicketOrder DEF j
<1>4. QED
  BY <1>2, <1>3 DEF ApproveTicket, RejectTicket, CancelTicket, TicketStatus

LEMMA SaveOrder ==
  ASSUME OrderInv, TypeInv', NEW c \in Caller, Finish(c) \/ SaveGrant(c)
  PROVE  OrderInv'
<1>1. CallBacked(call[c])
  BY DEF OrderInv, CallsBacked
<1>2. CASE Finish(c)
  <2>1. CallBacked(Moved(c, "idle", call[c].copy))
    BY DEF Moved, CallBacked, NodeSaved
  <2>2. QED
    BY <1>1, <1>2, <2>1, SaveTaskOrder DEF Finish, SaveTask, At, CallBacked
<1>3. CASE SaveGrant(c)
  <2>1. CallBacked(Moved(c, "run", call[c].copy))
    BY DEF Moved, CallBacked, NodeSaved
  <2>2. WaitBacked(call[c].task, call[c].copy) /\ SuccessBacked(call[c].task, call[c].copy)
    BY <1>1, <1>3
    DEF SaveGrant, SaveTask, At, CallBacked, WaitBacked, SuccessBacked
  <2>3. QED
    BY <1>3, <2>1, <2>2, SaveTaskOrder DEF SaveGrant
<1>4. QED
  BY <1>2, <1>3

\* Failing and cancelling end in states that need no backing.
LEMMA BatchOrder ==
  ASSUME OrderInv, TypeInv', NEW c \in Caller, Fail(c) \/ CancelTask(c)
  PROVE  OrderInv'
<1> DEFINE failed == [call[c].copy EXCEPT !.attempts = @ + 1,
                        !.state = FailureState(call[c].copy.attempts + 1, MaxAttempts)]
           cancelled == [call[c].copy EXCEPT !.state = "Cancelled"]
<1>1. RecordsGrow /\ UNCHANGED taskRepo
  BY DEF Fail, CancelTask, RecordsGrow
<1>2. PICK k : /\ Goto(c, "save", k)
               /\ k \in {failed, cancelled}
  BY DEF Fail, CancelTask
<1>3. call[c].copy \in TaskRecord
  BY DEF OrderInv, TypeInv, TypeOK, Call
<1>4. k.state \in { "Failed", "DeadLetter", "Cancelled" }
  <2>1. failed.state = FailureState(call[c].copy.attempts + 1, MaxAttempts)
    BY <1>3 DEF TaskRecord
  <2>2. failed.state \in { "Failed", "DeadLetter" }
    BY <2>1 DEF FailureState
  <2>3. cancelled.state = "Cancelled"
    BY <1>3 DEF TaskRecord
  <2> HIDE DEF failed, cancelled
  <2>4. QED
    BY <1>2, <2>2, <2>3
<1> HIDE DEF failed, cancelled
<1> DEFINE j == Moved(c, "save", k)
<1>5. j.pc = "save" /\ j.copy = k
  BY DEF Moved
<1>6. call' = [call EXCEPT ![c] = j]
  BY <1>2, GotoMoves DEF OrderInv
<1> HIDE DEF j
<1>7. \A x : x = j => CallBacked(x)'
  BY <1>4, <1>5 DEF CallBacked, NodeSaved, WaitBacked, SuccessBacked
<1>8. QED
  BY <1>1, <1>6, <1>7, MoveKeepsOrder

LEMMA PlainOrder ==
  ASSUME OrderInv, TypeInv', NEW c \in Caller,
         \/ FinishLoop(c) \/ Freeze(c) \/ ValidateResume(c)
         \/ RunFrozen(c) \/ LoadTicketToCancel(c)
  PROVE  OrderInv'
<1>1. CallBacked(call[c])
  BY DEF OrderInv, CallsBacked
<1>2. RecordsGrow /\ UNCHANGED repos
  BY DEF FinishLoop, Freeze, ValidateResume, RunFrozen, LoadTicketToCancel, repos,
         RecordsGrow
<1>3. \/ Return(c)
      \/ \E k : \/ /\ Goto(c, "wait", k)
                    /\ At(c, "freeze")
               \/ \E label \in { "graph", "approveTicket", "runResult",
                                  "cancelTicketSave", "cancelEvents" } : Goto(c, label, k)
  BY DEF FinishLoop, Freeze, ValidateResume, RunFrozen, LoadTicketToCancel
<1>4. CASE Return(c)
  BY <1>2, <1>4, ReturnKeepsOrder DEF repos
<1>5. ASSUME NEW k, Goto(c, "wait", k), At(c, "freeze")
      PROVE  OrderInv'
  <2>1. CallBacked(Moved(c, "wait", k))
    BY <1>1, <1>5 DEF At, CallBacked, NodeSaved, Moved
  <2>2. \A x : CallBacked(x) => CallBacked(x)'
    BY <1>2 DEF repos, CallBacked, WaitBacked, SuccessBacked
  <2>3. QED
    BY <1>2, <1>5, <2>1, <2>2, GotoMoves, MoveKeepsOrder DEF OrderInv, repos
<1>6. ASSUME NEW k, NEW label \in { "graph", "approveTicket", "runResult",
                                    "cancelTicketSave", "cancelEvents" },
             Goto(c, label, k)
      PROVE  OrderInv'
  <2>1. CallBacked(Moved(c, label, k))
    BY DEF CallBacked, NodeSaved, Moved
  <2>2. \A x : CallBacked(x) => CallBacked(x)'
    BY <1>2 DEF repos, CallBacked, WaitBacked, SuccessBacked
  <2>3. QED
    BY <1>2, <1>6, <2>1, <2>2, GotoMoves, MoveKeepsOrder DEF OrderInv, repos
<1>7. QED
  BY <1>3, <1>4, <1>5, <1>6

\* Calls start at labels where nothing is established yet.
LEMMA EntryOrder ==
  ASSUME OrderInv, TypeInv', NEW c \in Caller, NEW t \in Task,
         \/ Submit(c, t) \/ Cancel(c, t)
         \/ \E approved \in BOOLEAN : Decide(c, t, approved)
  PROVE  OrderInv'
<1>1. RecordsGrow /\ UNCHANGED taskRepo
  BY DEF Submit, Cancel, Decide, RecordsGrow, repos
<1>1a. PICK label \in { "loop", "frozenCheck", "rejectTicket", "cancelTicket",
                        "cancelEvents" } : \E k : Enter(c, t, label, k)
  BY DEF Submit, Cancel, Decide
<1>2. PICK k : Enter(c, t, label, k)
  BY <1>1a
<1> DEFINE j == [pc |-> label, task |-> t, copy |-> k]
<1>3. CallBacked(j)'
  BY DEF CallBacked, NodeSaved
<1>4. QED
  BY <1>1, <1>2, <1>3, MoveKeepsOrder DEF Enter

LEMMA FaultOrder ==
  ASSUME OrderInv, TypeInv', Crash \/ \E c \in Caller : RepoError(c)
  PROVE  OrderInv'
<1>1. ASSUME NEW c \in Caller, RepoError(c)
      PROVE  OrderInv'
  <2>1. RecordsGrow /\ UNCHANGED taskRepo /\ Return(c)
    BY <1>1 DEF RepoError, RecordsGrow
  <2>2. QED
    BY <2>1, ReturnKeepsOrder
<1>2. CASE Crash
  <2>1. CallsBacked'
    BY <1>2 DEF Crash, CallsBacked, Idle, CallBacked, NodeSaved
  <2>2. TasksBacked'
    <3>1. CASE Durable
      BY <1>2, <3>1 DEF Crash, repos, OrderInv, TasksBacked, WaitBacked, SuccessBacked
    <3>2. CASE ~ Durable
      BY <1>2, <3>2 DEF Crash, TasksBacked, NoTask, WaitBacked, SuccessBacked
    <3>3. QED
      BY <3>1, <3>2
  <2>3. QED
    BY <2>1, <2>2 DEF OrderInv
<1>3. QED
  BY <1>1, <1>2

-----------------------------------------------------------------------------

LEMMA NextOrder ==
  ASSUME OrderInv, [Next]_vars
  PROVE  OrderInv'
<1>1. TypeInv'
  BY NextType DEF OrderInv
<1>2. CASE Next
  <2>1. ASSUME NEW c \in Caller, Proceed(c)
        PROVE  OrderInv'
    BY <1>1, <2>1, RouteOrder, NodeEventOrder, ResultOrder, TicketOrder, SaveOrder,
       BatchOrder, PlainOrder
    DEF Proceed
  <2>2. QED
    BY <1>1, <1>2, <2>1, EntryOrder, FaultOrder DEF Next
<1>3. CASE UNCHANGED vars
  BY <1>1, <1>3
  DEF vars, repos, OrderInv, TasksBacked, CallsBacked, CallBacked, WaitBacked, SuccessBacked
<1>4. QED
  BY <1>2, <1>3

LEMMA InitOrder == Init => OrderInv
<1> SUFFICES ASSUME Init PROVE OrderInv
  OBVIOUS
<1>1. TasksBacked
  BY DEF Init, TasksBacked, NoTask, WaitBacked, SuccessBacked
<1>2. CallsBacked
  BY DEF Init, CallsBacked, Idle, CallBacked, NodeSaved
<1>3. QED
  BY <1>1, <1>2, InitType DEF OrderInv

THEOREM OrderInvariant == Spec => []OrderInv
  BY InitOrder, NextOrder, PTL DEF Spec

\* Whatever calls race, whatever errors and crashes strike, and even when ids
\* are given out again: a task persisted as waiting for approval has a ticket
\* and the result of its node.
THEOREM WaitingAlwaysHasTicket == Spec => []WaitingHasTicket
<1>1. OrderInv => WaitingHasTicket
  BY DEF OrderInv, TasksBacked, WaitBacked, WaitingHasTicket
<1>2. QED
  BY <1>1, OrderInvariant, PTL

\* Under the same circumstances, a task persisted as succeeded has both its
\* nodes completed and both their results.
THEOREM SucceededAlwaysBacked == Spec => []SucceededIsBacked
<1>1. OrderInv => SucceededIsBacked
  BY DEF OrderInv, TasksBacked, SuccessBacked, SucceededIsBacked
<1>2. QED
  BY <1>1, OrderInvariant, PTL

-----------------------------------------------------------------------------
(* The log is written ahead, in any deployment: what a call is about to    *)
(* save it has logged, and a log only grows.                               *)

Records(log, s) == \E i \in DOMAIN log : log[i].to = s

Logged(t, s) == Records(eventRepo[t], s)

CallsLogged ==
  \A c \in Caller :
    call[c].pc # "idle" => Logged(call[c].task, call[c].copy.state)

LogInv == TypeInv /\ LogIsAhead /\ CallsLogged

\* A step after which the logs record all they did.
LogsGrow == \A t \in Task : \A s : Logged(t, s) => Records(eventRepo'[t], s)

\* A longer log records no less, and what was appended.
LEMMA LongerLog ==
  ASSUME NEW S, NEW log \in Seq(S), NEW batch \in Seq(S)
  PROVE  \A s : Records(log, s) \/ Records(batch, s) => Records(log \o batch, s)
<1>1. ASSUME NEW i \in DOMAIN log
      PROVE  i \in DOMAIN (log \o batch) /\ (log \o batch)[i] = log[i]
  BY <1>1
<1>2. ASSUME NEW i \in DOMAIN batch
      PROVE  /\ i + Len(log) \in DOMAIN (log \o batch)
             /\ (log \o batch)[i + Len(log)] = batch[i]
  <2>1. i \in 1 .. Len(batch) /\ Len(log) \in Nat /\ Len(batch) \in Nat
        /\ Len(log \o batch) = Len(log) + Len(batch)
    BY <1>2
  <2>2. i + Len(log) \in 1 .. Len(log \o batch) /\ ~ (i + Len(log) <= Len(log))
        /\ (i + Len(log)) - Len(log) = i
    BY <2>1
  <2>3. (log \o batch)[i + Len(log)] = batch[(i + Len(log)) - Len(log)]
    BY <2>1, <2>2
  <2>4. QED
    BY <2>1, <2>2, <2>3
<1>3. QED
  BY <1>1, <1>2 DEF Records

\* Appending a batch forgets nothing and logs what the batch holds.
LEMMA AppendLogs ==
  ASSUME TypeInv, NEW t \in Task, NEW batch \in Seq(Event), AppendEvents(t, batch)
  PROVE  /\ LogsGrow
         /\ \A s : Records(batch, s) => Records(eventRepo'[t], s)
<1>1. eventRepo[t] \in Seq(Event) /\ eventRepo'[t] = eventRepo[t] \o batch
      /\ \A u \in Task : u # t => eventRepo'[u] = eventRepo[u]
  BY DEF AppendEvents, TypeInv, TypeOK
<1>2. \A s : Records(eventRepo[t], s) \/ Records(batch, s) => Records(eventRepo'[t], s)
  BY <1>1, LongerLog
<1>3. QED
  BY <1>1, <1>2 DEF LogsGrow, Logged

\* The last event of a batch is the state the task is left in.
LEMMA FailureIsLogged ==
  ASSUME NEW state \in TaskState, NEW n
  PROVE  Records(FailureEvents(state, n, MaxAttempts), FailureState(n, MaxAttempts))
<1> DEFINE first == << StateEvent(state, "Failed") >>
<1> DEFINE last == IF n >= MaxAttempts THEN << StateEvent("Failed", "DeadLetter") >> ELSE << >>
<1>1. first \in Seq(Event) /\ last \in Seq(Event)
  BY StateEventType DEF TaskState
<1>2. Records(first, "Failed") /\ (n >= MaxAttempts => Records(last, "DeadLetter"))
  <2>1. first[1].to = "Failed" /\ 1 \in DOMAIN first
    BY DEF StateEvent
  <2>2. n >= MaxAttempts => last[1].to = "DeadLetter" /\ 1 \in DOMAIN last
    BY DEF StateEvent
  <2>3. QED
    BY <2>1, <2>2 DEF Records
<1>3. FailureEvents(state, n, MaxAttempts) = first \o last
  BY DEF FailureEvents
<1> HIDE DEF first, last
<1>4. QED
  BY <1>1, <1>2, <1>3, LongerLog DEF FailureState

LEMMA CancellationIsLogged ==
  ASSUME NEW state \in TaskState, NEW comp
  PROVE  Records(CancellationEvents(state, comp), "Cancelled")
<1> DEFINE first == << StateEvent(state, "CancelRequested") >>
<1> DEFINE last == IF comp
                     THEN << StateEvent("CancelRequested", "Compensating"),
                             StateEvent("Compensating", "Cancelled") >>
                     ELSE << StateEvent("CancelRequested", "Cancelled") >>
<1>1. first \in Seq(Event) /\ last \in Seq(Event)
  <2>1. /\ StateEvent(state, "CancelRequested") \in Event
        /\ StateEvent("CancelRequested", "Compensating") \in Event
        /\ StateEvent("Compensating", "Cancelled") \in Event
        /\ StateEvent("CancelRequested", "Cancelled") \in Event
    BY StateEventType DEF TaskState
  <2>2. QED
    BY <2>1
<1>2. Records(last, "Cancelled")
  <2>1. CASE comp
    <3>1. last[2].to = "Cancelled" /\ 2 \in DOMAIN last
      BY <2>1 DEF StateEvent
    <3>2. QED
      BY <3>1 DEF Records
  <2>2. CASE ~ comp
    <3>1. last[1].to = "Cancelled" /\ 1 \in DOMAIN last
      BY <2>2 DEF StateEvent
    <3>2. QED
      BY <3>1 DEF Records
  <2>3. QED
    BY <2>1, <2>2
<1>3. CancellationEvents(state, comp) = first \o last
  BY DEF CancellationEvents
<1> HIDE DEF first, last
<1>4. QED
  BY <1>1, <1>2, <1>3, LongerLog

\* A step of one call accounts for that call only.
LEMMA OneCallLogs ==
  ASSUME LogInv, TypeInv', LogsGrow, UNCHANGED taskRepo, NEW c \in Caller, NEW j,
         call' = [call EXCEPT ![c] = j],
         j.pc = "idle" \/ (j.task \in Task /\ Records(eventRepo'[j.task], j.copy.state))
  PROVE  LogInv'
<1>1. LogIsAhead'
  BY DEF LogInv, LogIsAhead, LogsGrow, Logged, Records
<1>2. CallsLogged'
  <2> SUFFICES ASSUME NEW d \in Caller, call'[d].pc # "idle"
               PROVE  Records(eventRepo'[call'[d].task], call'[d].copy.state)
    BY DEF CallsLogged, Logged, Records
  <2>1. CASE d = c
    <3>1. call'[c] = j
      BY DEF LogInv, TypeInv, TypeOK
    <3>2. QED
      BY <2>1, <3>1
  <2>2. CASE d # c
    <3>1. call'[d] = call[d]
      BY <2>2 DEF LogInv, TypeInv, TypeOK
    <3>2. call[d].pc # "idle" /\ call[d].task \in Task
      BY <3>1, CopyType DEF LogInv
    <3>3. Logged(call[d].task, call[d].copy.state)
      BY <3>2 DEF LogInv, CallsLogged
    <3>4. QED
      BY <3>1, <3>2, <3>3 DEF LogsGrow
  <2>3. QED
    BY <2>1, <2>2
<1>3. QED
  BY <1>1, <1>2 DEF LogInv

\* A step that appends a batch and goes on with a copy that was logged before
\* or is in the state of one of its events.
LEMMA AppendedLogs ==
  ASSUME LogInv, TypeInv', NEW c \in Caller, call[c].pc # "idle", UNCHANGED taskRepo,
         NEW batch \in Seq(Event), AppendEvents(call[c].task, batch),
         \/ Return(c)
         \/ \E label, k : /\ Goto(c, label, k)
                          /\ k.state = call[c].copy.state \/ Records(batch, k.state)
  PROVE  LogInv'
<1> DEFINE t == call[c].task
<1>1. t \in Task /\ Logged(t, call[c].copy.state)
  BY CopyType DEF LogInv, CallsLogged
<1>2. LogsGrow /\ \A s : Records(batch, s) => Records(eventRepo'[t], s)
  BY <1>1, AppendLogs DEF LogInv
<1>3. CASE Return(c)
  BY <1>2, <1>3, OneCallLogs DEF Return, Idle
<1>4. ASSUME NEW label, NEW k, Goto(c, label, k),
             k.state = call[c].copy.state \/ Records(batch, k.state)
      PROVE  LogInv'
  <2>1. Records(eventRepo'[t], k.state)
    BY <1>1, <1>2, <1>4 DEF LogsGrow
  <2> DEFINE j == [pc |-> label, task |-> t, copy |-> k]
  <2>2. call' = [call EXCEPT ![c] = j] /\ j.task = t /\ j.copy.state = k.state
    BY <1>4 DEF Goto
  <2> HIDE DEF j
  <2>3. QED
    BY <1>1, <1>2, <2>1, <2>2, OneCallLogs
<1>5. QED
  BY <1>3, <1>4

\* A step that keeps the logs and the state of the copy, or drops the copy.
LEMMA SameCopyLogs ==
  ASSUME LogInv, TypeInv', NEW c \in Caller, call[c].pc # "idle",
         UNCHANGED << eventRepo, taskRepo >>,
         Return(c) \/ \E label, k : Goto(c, label, k) /\ k.state = call[c].copy.state
  PROVE  LogInv'
<1>1. call[c].task \in Task
  BY CopyType DEF LogInv
<1>2. AppendEvents(call[c].task, << >>) /\ << >> \in Seq(Event)
  <2>1. eventRepo[call[c].task] \in Seq(Event)
    BY <1>1 DEF LogInv, TypeInv, TypeOK
  <2>2. eventRepo[call[c].task] \o << >> = eventRepo[call[c].task]
    BY <2>1
  <2>3. QED
    BY <1>1, <2>2 DEF AppendEvents, LogInv, TypeInv, TypeOK
<1>3. QED
  BY <1>2, AppendedLogs

\* Saving a task saves a state that is logged.
LEMMA SaveLogs ==
  ASSUME LogInv, TypeInv', NEW c \in Caller, NEW label, label # "idle", NEW next,
         SaveTask(c, label, next)
  PROVE  LogInv'
<1> DEFINE t == call[c].task
<1>1. /\ call[c].pc # "idle" /\ t \in Task /\ Logged(t, call[c].copy.state)
      /\ taskRepo' = [taskRepo EXCEPT ![t] = call[c].copy] /\ eventRepo' = eventRepo
  BY CopyType DEF SaveTask, At, LogInv, CallsLogged
<1>2. LogIsAhead'
  <2> SUFFICES ASSUME NEW u \in Task, taskRepo'[u].state # "none"
               PROVE  Logged(u, taskRepo'[u].state)
    BY <1>1 DEF LogIsAhead, Logged, Records
  <2>1. taskRepo'[u] = IF u = t THEN call[c].copy ELSE taskRepo[u]
    BY <1>1 DEF LogInv, TypeInv, TypeOK
  <2>2. QED
    BY <1>1, <2>1 DEF LogInv, LogIsAhead, Logged, Records
<1>3. CallsLogged'
  <2> SUFFICES ASSUME NEW d \in Caller, call'[d].pc # "idle"
               PROVE  Records(eventRepo[call'[d].task], call'[d].copy.state)
    BY <1>1 DEF CallsLogged, Logged
  <2>1. \/ call'[d] = call[d]
        \/ d = c /\ call'[d].task = t /\ call'[d].copy = call[c].copy
        \/ call'[d] = Idle
    BY DEF SaveTask, Return, Goto, LogInv, TypeInv, TypeOK
  <2>2. QED
    BY <1>1, <2>1 DEF LogInv, CallsLogged, Logged, Idle
<1>4. QED
  BY <1>2, <1>3 DEF LogInv

LEMMA RecordLogs ==
  ASSUME LogInv, TypeInv', NEW c \in Caller, NEW label, label # "idle",
         NEW state \in TaskState, NEW next, Record(c, label, state, next)
  PROVE  LogInv'
<1> DEFINE k == call[c].copy
<1>1. call[c].pc # "idle" /\ k \in TaskRecord /\ k.state \in TaskState
  BY CopyType DEF Record, At, LogInv
<1>2. CASE ValidTransition(k.state, state)
  <2> DEFINE batch == << StateEvent(k.state, state) >>
  <2>1. /\ AppendEvents(call[c].task, batch) /\ Goto(c, next, [k EXCEPT !.state = state])
        /\ UNCHANGED taskRepo
    BY <1>2 DEF Record
  <2>2. batch \in Seq(Event) /\ [k EXCEPT !.state = state].state = state
    BY <1>1, StateEventType DEF TaskRecord
  <2>3. Records(batch, state)
    <3>1. batch[1].to = state /\ 1 \in DOMAIN batch
      BY DEF StateEvent
    <3>2. QED
      BY <3>1 DEF Records
  <2> HIDE DEF batch
  <2>4. QED
    BY <1>1, <2>1, <2>2, <2>3, AppendedLogs
<1>3. CASE ~ ValidTransition(k.state, state)
  BY <1>1, <1>3, SameCopyLogs DEF Record
<1>4. QED
  BY <1>2, <1>3

LEMMA NodeEventLogs ==
  ASSUME LogInv, TypeInv', NEW c \in Caller, NEW label, label # "idle",
         NEW kind \in EventKind, NEW done, NEW next, RecordNode(c, label, kind, done, next)
  PROVE  LogInv'
<1> DEFINE k == call[c].copy
<1> DEFINE batch == << NodeEvent(kind, k.state) >>
<1>1. /\ call[c].pc # "idle" /\ k.state \in TaskState /\ k \in TaskRecord
      /\ AppendEvents(call[c].task, batch) /\ UNCHANGED taskRepo
      /\ Goto(c, next, [k EXCEPT !.completed = @ \cup done])
  BY CopyType DEF RecordNode, At, LogInv
<1>2. batch \in Seq(Event)
  BY <1>1, NodeEventType
<1>3. [k EXCEPT !.completed = @ \cup done].state = k.state
  BY <1>1 DEF TaskRecord
<1> HIDE DEF batch
<1>4. QED
  BY <1>1, <1>2, <1>3, AppendedLogs

\* Failing and cancelling a task log the state they leave it in.
LEMMA BatchLogs ==
  ASSUME LogInv, TypeInv', NEW c \in Caller, Fail(c) \/ CancelTask(c)
  PROVE  LogInv'
<1> DEFINE k == call[c].copy
<1>1. /\ call[c].pc # "idle" /\ k.state \in TaskState /\ k \in TaskRecord
      /\ UNCHANGED taskRepo
  BY CopyType DEF Fail, CancelTask, At, LogInv
<1>2. CASE Fail(c)
  <2> DEFINE state == FailureState(k.attempts + 1, MaxAttempts)
  <2> DEFINE k2 == [k EXCEPT !.attempts = @ + 1, !.state = state]
  <2>1. AppendEvents(call[c].task, FailureBatch(k)) /\ Goto(c, "save", k2)
    BY <1>2 DEF Fail
  <2>2. FailureBatch(k) \in Seq(Event) /\ Records(FailureBatch(k), state)
    BY <1>1, FailureEventsType, FailureIsLogged DEF FailureBatch
  <2>3. k2.state = state
    <3> HIDE DEF state
    <3>1. \A r \in TaskRecord : [r EXCEPT !.attempts = @ + 1, !.state = state].state = state
      BY DEF TaskRecord
    <3>2. QED
      BY <1>1, <3>1
  <2> HIDE DEF k2, state
  <2>4. QED
    BY <1>1, <2>1, <2>2, <2>3, AppendedLogs
<1>3. CASE CancelTask(c)
  <2>1. /\ AppendEvents(call[c].task, CancellationBatch(k))
        /\ Goto(c, "save", [k EXCEPT !.state = "Cancelled"])
    BY <1>3 DEF CancelTask
  <2>2. CancellationBatch(k) \in Seq(Event) /\ Records(CancellationBatch(k), "Cancelled")
    BY <1>1, CancellationEventsType, CancellationIsLogged DEF CancellationBatch
  <2>3. [k EXCEPT !.state = "Cancelled"].state = "Cancelled"
    BY <1>1 DEF TaskRecord
  <2>4. QED
    BY <1>1, <2>1, <2>2, <2>3, AppendedLogs
<1>4. QED
  BY <1>2, <1>3

\* Steps that log nothing.
LEMMA SilentLogs ==
  ASSUME LogInv, TypeInv', NEW c \in Caller,
         \/ SaveRouteResult(c) \/ SaveValidation(c) \/ SaveRunResult(c)
         \/ RaiseTicket(c) \/ ApproveTicket(c) \/ RejectTicket(c) \/ CancelTicket(c)
         \/ FinishLoop(c) \/ Freeze(c) \/ ValidateResume(c) \/ RunFrozen(c)
         \/ LoadTicketToCancel(c)
  PROVE  LogInv'
<1>1. call[c].pc # "idle" /\ UNCHANGED << eventRepo, taskRepo >>
  BY DEF SaveRouteResult, SaveValidation, SaveRunResult, SaveResult, RaiseTicket,
     ApproveTicket, RejectTicket, CancelTicket, SaveTicket, FinishLoop, Freeze,
     ValidateResume, RunFrozen, LoadTicketToCancel, At, repos
<1>2. \A pending : [call[c].copy EXCEPT !.pending = pending].state = call[c].copy.state
  BY <1>1, CopyType DEF LogInv, TaskRecord
<1>3. \/ Return(c)
      \/ \E label : Goto(c, label, call[c].copy)
      \/ \E label, pending : Goto(c, label, [call[c].copy EXCEPT !.pending = pending])
  BY DEF SaveRouteResult, SaveValidation, SaveRunResult, SaveResult, RaiseTicket,
     ApproveTicket, RejectTicket, CancelTicket, SaveTicket, FinishLoop, Freeze,
     ValidateResume, RunFrozen, LoadTicketToCancel
<1>4. Return(c) \/ \E label, k : Goto(c, label, k) /\ k.state = call[c].copy.state
  BY <1>2, <1>3
<1>5. QED
  BY <1>1, <1>4, SameCopyLogs

\* A call starts with a task it has just logged or one that is persisted.
LEMMA EntryLogs ==
  ASSUME LogInv, TypeInv', NEW c \in Caller, NEW t \in Task,
         Submit(c, t) \/ Cancel(c, t) \/ \E approved \in BOOLEAN : Decide(c, t, approved)
  PROVE  LogInv'
<1>1. CASE Submit(c, t)
  <2> DEFINE batch == << StateEvent("Queued", "Planning") >>
  <2> DEFINE j == [pc |-> "loop", task |-> t, copy |-> [NoTask EXCEPT !.state = "Planning"]]
  <2>1. AppendEvents(t, batch) /\ call' = [call EXCEPT ![c] = j] /\ UNCHANGED taskRepo
    BY <1>1 DEF Submit, Enter
  <2>2. batch \in Seq(Event) /\ Records(batch, "Planning")
    <3>1. batch[1].to = "Planning" /\ 1 \in DOMAIN batch
      BY DEF StateEvent
    <3>2. QED
      BY <3>1, StateEventType DEF Records, TaskState
  <2>3. j.task = t /\ j.copy.state = "Planning"
    BY DEF NoTask
  <2> HIDE DEF batch, j
  <2>4. LogsGrow /\ Records(eventRepo'[t], "Planning")
    BY <2>1, <2>2, AppendLogs DEF LogInv
  <2>5. QED
    BY <2>1, <2>3, <2>4, OneCallLogs
<1>2. CASE Cancel(c, t) \/ \E approved \in BOOLEAN : Decide(c, t, approved)
  <2>1. PICK label : Enter(c, t, label, taskRepo[t])
    BY <1>2 DEF Cancel, Decide
  <2> DEFINE j == [pc |-> label, task |-> t, copy |-> taskRepo[t]]
  <2>2. call' = [call EXCEPT ![c] = j] /\ j.task = t /\ j.copy = taskRepo[t]
    BY <2>1 DEF Enter
  <2> HIDE DEF j
  <2>3. UNCHANGED << eventRepo, taskRepo >> /\ taskRepo[t].state # "none"
    BY <1>2 DEF Cancel, Decide, NotCancellable, repos
  <2>4. Records(eventRepo'[t], taskRepo[t].state) /\ LogsGrow
    BY <2>3 DEF LogInv, LogIsAhead, Records, LogsGrow, Logged
  <2>5. QED
    BY <2>2, <2>3, <2>4, OneCallLogs
<1>3. QED
  BY <1>1, <1>2

\* An error leaves part of a batch behind; a crash forgets the calls, and the
\* records with their logs.
LEMMA FaultLogs ==
  ASSUME LogInv, TypeInv', Crash \/ \E c \in Caller : RepoError(c)
  PROVE  LogInv'
<1>1. ASSUME NEW c \in Caller, RepoError(c) PROVE LogInv'
  <2> DEFINE k == call[c].copy
  <2> DEFINE batch == CASE At(c, "fail")         -> FailureBatch(k)
                        [] At(c, "cancelEvents") -> CancellationBatch(k)
                        [] OTHER                 -> << >>
  <2>1. call[c].pc # "idle" /\ k.state \in TaskState /\ Return(c) /\ UNCHANGED taskRepo
    BY <1>1, CopyType DEF RepoError, LogInv
  <2>2. batch \in Seq(Event)
    <3>1. FailureBatch(k) \in Seq(Event) /\ CancellationBatch(k) \in Seq(Event)
      BY <2>1, FailureEventsType, CancellationEventsType
      DEF FailureBatch, CancellationBatch
    <3>2. QED
      BY <3>1
  <2>3. PICK n \in 0 .. Len(batch) : AppendEvents(call[c].task, SubSeq(batch, 1, n))
    BY <1>1 DEF RepoError
  <2> HIDE DEF batch
  <2>4. SubSeq(batch, 1, n) \in Seq(Event)
    BY <2>2, <2>3
  <2>5. QED
    BY <2>1, <2>3, <2>4, AppendedLogs
<1>2. CASE Crash
  <2>1. CallsLogged'
    BY <1>2 DEF Crash, CallsLogged, Idle
  <2>2. LogIsAhead'
    BY <1>2 DEF Crash, LogInv, LogIsAhead, NoTask, repos
  <2>3. QED
    BY <2>1, <2>2 DEF LogInv
<1>3. QED
  BY <1>1, <1>2

LEMMA NextLogs ==
  ASSUME LogInv, [Next]_vars
  PROVE  LogInv'
<1>1. TypeInv'
  BY NextType DEF LogInv
<1>2. ASSUME NEW c \in Caller, Proceed(c) PROVE LogInv'
  <2>1. CASE \/ PrepareRoute(c) \/ DispatchRoute(c) \/ ExecuteRoute(c) \/ Validate(c)
             \/ Aggregate(c) \/ Succeed(c) \/ AwaitApproval(c) \/ Grant(c)
    BY <1>1, <2>1, RecordLogs
    DEF PrepareRoute, DispatchRoute, ExecuteRoute, Validate, Aggregate, Succeed,
        AwaitApproval, Grant, TaskState
  <2>2. CASE \/ CompleteNode(c) \/ CompleteValidation(c) \/ NoteApproval(c)
             \/ NoteRejection(c) \/ NoteGrant(c)
    BY <1>1, <2>2, NodeEventLogs
    DEF CompleteNode, CompleteValidation, NoteApproval, NoteRejection, NoteGrant, EventKind
  <2>3. CASE Finish(c) \/ SaveGrant(c)
    BY <1>1, <2>3, SaveLogs DEF Finish, SaveGrant
  <2>4. QED
    BY <1>1, <1>2, <2>1, <2>2, <2>3, BatchLogs, SilentLogs DEF Proceed
<1>3. CASE Next
  BY <1>1, <1>2, <1>3, EntryLogs, FaultLogs DEF Next
<1>4. CASE UNCHANGED vars
  BY <1>1, <1>4 DEF vars, repos, LogInv, LogIsAhead, CallsLogged, Logged
<1>5. QED
  BY <1>3, <1>4

\* In every deployment, races, restarts, errors and reused ids included, no task
\* is persisted in a state its log does not record (LogIsAhead): record_transition
\* appends before any save_task, and a batch is appended before the task is saved.
THEOREM LogAlwaysAhead == Spec => []LogIsAhead
<1>1. Init => LogInv
  <2>1. Init => LogIsAhead /\ CallsLogged
    BY DEF Init, LogIsAhead, CallsLogged, NoTask, Idle
  <2>2. QED
    BY <2>1, InitType DEF LogInv
<1>2. LogInv /\ [Next]_vars => LogInv'
  BY NextLogs
<1>3. LogInv => LogIsAhead
  BY DEF LogInv
<1>4. QED
  BY <1>1, <1>2, <1>3, PTL DEF Spec

-----------------------------------------------------------------------------
(* The control plane implements the approval protocol.                     *)

\* Labels of a call whose task is new, and of calls that carry out a decision.
Fresh ==
  { "loop", "graph", "delegate", "execute", "result",
    "freeze", "wait", "waitEvent", "waitTicket" }
Undecided == { "frozenCheck", "approveTicket", "rejectTicket", "cancelTicketSave" }
Granted   == { "grantEvent", "grant", "grantSave", "run" }

\* What a call may rely on about the ticket of its task.
CallFollows(j) ==
  /\ j.pc \in Fresh     => ticketRepo[j.task] = "none"
  /\ j.pc \in Undecided => ticketRepo[j.task] = "Pending"
  /\ j.pc \in Granted   => ticketRepo[j.task] = "Approved" /\ ran[j.task] = 0

CallsFollow == \A c \in Caller : CallFollows(call[c])

OneCallPerTask ==
  \A c, d \in Caller : call[c].pc # "idle" /\ call[d].task = call[c].task => c = d

\* Nothing is known about a task whose id was not given out.
OnlyIssued ==
  \A t \in Task \ issued :
    /\ ticketRepo[t] = "none"
    /\ taskRepo[t].state = "none"
    /\ \A c \in Caller : call[c].task # t

RanOnce ==
  \A t \in Task : ran[t] = 0 \/ (ran[t] = 1 /\ ticketRepo[t] = "Approved")

ProtocolInv == TypeInv /\ CallsFollow /\ OneCallPerTask /\ OnlyIssued /\ RanOnce

\* A protocol step or none.
ProtocolStep == [Protocol!Next]_(Protocol!vars)

\* The step of c touches no record of another task and gives out no id.
Local(c) ==
  /\ issued' = issued
  /\ \A t \in Task \ { call[c].task } :
       /\ ticketRepo'[t] = ticketRepo[t]
       /\ taskRepo'[t] = taskRepo[t]
       /\ ran'[t] = ran[t]

-----------------------------------------------------------------------------

LEMMA BusyCall ==
  ASSUME ProtocolInv, NEW c \in Caller, call[c].pc # "idle"
  PROVE  /\ call[c].task \in Task
         /\ call[c].task \in issued
         /\ \A d \in Caller : d # c => call[d].task # call[c].task
<1>1. call[c].task \in Task
  BY CopyType DEF ProtocolInv
<1>2. QED
  BY <1>1 DEF ProtocolInv, OneCallPerTask, OnlyIssued

\* A step of one call keeps the invariant if it leaves its own call and its
\* own task in order.
LEMMA LocalStep ==
  ASSUME ProtocolInv, TypeInv', NEW c \in Caller, call[c].pc # "idle", Local(c),
         NEW j, call' = [call EXCEPT ![c] = j],
         \/ j.pc = "idle" /\ j.task = None
         \/ j.task = call[c].task /\ CallFollows(j)',
         LET t == call[c].task
         IN  ran'[t] = 0 \/ (ran'[t] = 1 /\ ticketRepo'[t] = "Approved")
  PROVE  ProtocolInv'
<1> DEFINE t == call[c].task
<1>1. t \in Task /\ t \in issued /\ \A d \in Caller : d # c => call[d].task # t
  BY BusyCall
<1>2. call'[c] = j /\ \A d \in Caller : d # c => call'[d] = call[d]
  BY DEF ProtocolInv, TypeInv, TypeOK
<1> HIDE DEF t
<1>3. CallsFollow'
  <2> SUFFICES ASSUME NEW d \in Caller PROVE CallFollows(call[d])'
    BY DEF CallsFollow
  <2>1. CASE d = c
    BY <1>2, <2>1 DEF CallFollows, Fresh, Undecided, Granted
  <2>2. CASE d # c
    <3>1. CallFollows(call[d]) /\ call'[d] = call[d] /\ call[d].task # t
      BY <1>1, <1>2, <2>2 DEF ProtocolInv, CallsFollow
    <3>2. CASE call[d].pc = "idle"
      BY <3>1, <3>2 DEF CallFollows, Fresh, Undecided, Granted
    <3>3. CASE call[d].pc # "idle"
      <4>1. call[d].task \in Task
        BY <3>3, CopyType DEF ProtocolInv
      <4>2. QED
        BY <3>1, <4>1 DEF CallFollows, Local, t
    <3>4. QED
      BY <3>2, <3>3
  <2>3. QED
    BY <2>1, <2>2
<1>4. OneCallPerTask'
  <2> SUFFICES ASSUME NEW d \in Caller, NEW e \in Caller, call'[d].pc # "idle",
                      call'[e].task = call'[d].task
               PROVE  d = e
    BY DEF OneCallPerTask
  <2>1. call'[d].task \in Task
    BY DEF TypeInv, CallsAreReal
  <2>2. CASE j.pc = "idle" /\ j.task = None
    BY <1>2, <2>1, <2>2, ConstantsAssumption DEF ProtocolInv, OneCallPerTask
  <2>3. CASE j.task = t
    BY <1>1, <1>2, <2>3 DEF ProtocolInv, OneCallPerTask
  <2>4. QED
    BY <2>2, <2>3 DEF t
<1>5. OnlyIssued'
  <2> SUFFICES ASSUME NEW u \in Task, u \notin issued
               PROVE  /\ ticketRepo'[u] = "none"
                      /\ taskRepo'[u].state = "none"
                      /\ \A d \in Caller : call'[d].task # u
    BY DEF OnlyIssued, Local
  <2>1. u # t
    BY <1>1
  <2>2. ticketRepo'[u] = ticketRepo[u] /\ taskRepo'[u] = taskRepo[u]
    BY <2>1 DEF Local, t
  <2>3. j.task # u
    BY <2>1, ConstantsAssumption DEF t
  <2>4. QED
    BY <1>2, <2>2, <2>3 DEF ProtocolInv, OnlyIssued
<1>6. RanOnce'
  <2> SUFFICES ASSUME NEW u \in Task
               PROVE  ran'[u] = 0 \/ (ran'[u] = 1 /\ ticketRepo'[u] = "Approved")
    BY DEF RanOnce
  <2>1. CASE u = t
    BY <2>1 DEF t
  <2>2. CASE u # t
    BY <2>2 DEF Local, ProtocolInv, RanOnce, t
  <2>3. QED
    BY <2>1, <2>2
<1>7. QED
  BY <1>3, <1>4, <1>5, <1>6 DEF ProtocolInv

\* The same for a step that leaves tickets and executions alone: the call may
\* go on to a label that relies on no more than the one it was at.
LEMMA QuietStep ==
  ASSUME ProtocolInv, TypeInv', NEW c \in Caller, call[c].pc # "idle", Local(c),
         UNCHANGED << ticketRepo, ran >>,
         \/ Return(c)
         \/ \E label, k : /\ Goto(c, label, k)
                          /\ label \in Fresh     => call[c].pc \in Fresh
                          /\ label \in Undecided => ticketRepo[call[c].task] = "Pending"
                          /\ label \in Granted   => call[c].pc \in Granted
  PROVE  ProtocolInv' /\ ProtocolStep
<1>1. ProtocolStep
  BY DEF ProtocolStep, Protocol!vars
<1>2. LET t == call[c].task
      IN  ran'[t] = 0 \/ (ran'[t] = 1 /\ ticketRepo'[t] = "Approved")
  BY BusyCall DEF ProtocolInv, RanOnce
<1>3. CASE Return(c)
  BY <1>1, <1>2, <1>3, LocalStep DEF Return, Idle
<1>4. ASSUME NEW label, NEW k, Goto(c, label, k),
             label \in Fresh     => call[c].pc \in Fresh,
             label \in Undecided => ticketRepo[call[c].task] = "Pending",
             label \in Granted   => call[c].pc \in Granted
      PROVE  ProtocolInv'
  <2> DEFINE j == [pc |-> label, task |-> call[c].task, copy |-> k]
  <2>1. call' = [call EXCEPT ![c] = j]
    BY <1>4 DEF Goto
  <2>2. CallFollows(call[c])
    BY DEF ProtocolInv, CallsFollow
  <2>3. j.pc = label /\ j.task = call[c].task
    OBVIOUS
  <2> HIDE DEF j
  <2>4. \A x : x = j => CallFollows(x)'
    BY <1>4, <2>2, <2>3 DEF CallFollows
  <2>5. QED
    BY <1>2, <2>1, <2>3, <2>4, LocalStep
<1>5. QED
  BY <1>1, <1>3, <1>4

-----------------------------------------------------------------------------
(* Steps of a call that leave tickets and executions alone.                *)

LEMMA RecordQuiet ==
  ASSUME ProtocolInv, TypeInv', NEW c \in Caller,
         \/ PrepareRoute(c) \/ DispatchRoute(c) \/ ExecuteRoute(c) \/ Validate(c)
         \/ Aggregate(c) \/ Succeed(c) \/ AwaitApproval(c) \/ Grant(c)
  PROVE  ProtocolInv' /\ ProtocolStep
<1>1. PICK label, state, next :
        /\ Record(c, label, state, next)
        /\ label # "idle"
        /\ next \notin Undecided
        /\ next \in Fresh => label \in Fresh
        /\ next \in Granted => label \in Granted
  BY DEF PrepareRoute, DispatchRoute, ExecuteRoute, Validate, Aggregate, Succeed,
         AwaitApproval, Grant, Fresh, Undecided, Granted
<1>2. call[c].pc = label /\ Local(c) /\ UNCHANGED << ticketRepo, ran >>
  BY <1>1 DEF Record, At, Local
<1>3. Return(c) \/ Goto(c, next, [call[c].copy EXCEPT !.state = state])
  BY <1>1 DEF Record
<1>4. QED
  BY <1>1, <1>2, <1>3, QuietStep

LEMMA RecordNodeQuiet ==
  ASSUME ProtocolInv, TypeInv', NEW c \in Caller,
         \/ CompleteNode(c) \/ CompleteValidation(c) \/ NoteApproval(c)
         \/ NoteRejection(c) \/ NoteGrant(c)
  PROVE  ProtocolInv' /\ ProtocolStep
<1>1. PICK label, kind, done, next :
        /\ RecordNode(c, label, kind, done, next)
        /\ label # "idle"
        /\ next \notin Undecided
        /\ next \in Fresh => label \in Fresh
        /\ next \in Granted => label \in Granted
  BY DEF CompleteNode, CompleteValidation, NoteApproval, NoteRejection, NoteGrant,
         Fresh, Undecided, Granted
<1>2. call[c].pc = label /\ Local(c) /\ UNCHANGED << ticketRepo, ran >>
  BY <1>1 DEF RecordNode, At, Local
<1>3. Goto(c, next, [call[c].copy EXCEPT !.completed = @ \cup done])
  BY <1>1 DEF RecordNode
<1>4. QED
  BY <1>1, <1>2, <1>3, QuietStep

LEMMA SaveQuiet ==
  ASSUME ProtocolInv, TypeInv', NEW c \in Caller,
         \/ SaveRouteResult(c) \/ SaveValidation(c) \/ SaveRunResult(c)
         \/ Finish(c) \/ SaveGrant(c)
  PROVE  ProtocolInv' /\ ProtocolStep
<1>1. ASSUME NEW label, label # "idle", NEW node, NEW next, next \notin Undecided,
             next \in Fresh => label \in Fresh, next \notin Granted,
             SaveResult(c, label, node, next)
      PROVE  ProtocolInv' /\ ProtocolStep
  <2>1. call[c].pc = label /\ Local(c) /\ UNCHANGED << ticketRepo, ran >>
    BY <1>1 DEF SaveResult, At, Local
  <2>2. QED
    BY <1>1, <2>1, QuietStep DEF SaveResult
<1>2. ASSUME NEW label \in { "save", "grantSave" }, NEW next, next \notin Undecided,
             next \notin Fresh, next \in Granted => label \in Granted,
             SaveTask(c, label, next)
      PROVE  ProtocolInv' /\ ProtocolStep
  <2>1. call[c].pc = label /\ UNCHANGED << ticketRepo, ran >>
    BY <1>2 DEF SaveTask, At
  <2>2. Local(c)
    BY <1>2 DEF SaveTask, Local, ProtocolInv, TypeInv, TypeOK
  <2>3. QED
    BY <1>2, <2>1, <2>2, QuietStep DEF SaveTask
<1>3. CASE SaveRouteResult(c) \/ SaveRunResult(c)
  <2>1. PICK label \in { "result", "runResult" }, next \in { "nodeEvent", "fail", "freeze" } :
          /\ SaveResult(c, label, "node", next)
          /\ next \in Fresh => label \in Fresh
    BY <1>3 DEF SaveRouteResult, SaveRunResult, Fresh
  <2>2. label # "idle" /\ next \notin Undecided /\ next \notin Granted
    BY DEF Undecided, Granted
  <2>3. QED
    BY <1>1, <2>1, <2>2
<1>4. CASE SaveValidation(c)
  BY <1>1, <1>4 DEF SaveValidation, Fresh, Undecided, Granted
<1>5. CASE Finish(c) \/ SaveGrant(c)
  BY <1>2, <1>5 DEF Finish, SaveGrant, Fresh, Undecided, Granted
<1>6. QED
  BY <1>3, <1>4, <1>5

LEMMA OtherQuiet ==
  ASSUME ProtocolInv, TypeInv', NEW c \in Caller,
         \/ FinishLoop(c) \/ Freeze(c) \/ ValidateResume(c) \/ LoadTicketToCancel(c)
         \/ Fail(c) \/ CancelTask(c)
  PROVE  ProtocolInv' /\ ProtocolStep
<1>1. call[c].pc # "idle" /\ Local(c) /\ UNCHANGED << ticketRepo, ran >>
  BY DEF FinishLoop, Freeze, ValidateResume, LoadTicketToCancel, Fail, CancelTask, At,
         Local, repos
<1>2. CallFollows(call[c])
  BY DEF ProtocolInv, CallsFollow
<1>3. \/ Return(c)
      \/ \E label, k : /\ Goto(c, label, k)
                       /\ label \in Fresh     => call[c].pc \in Fresh
                       /\ label \in Undecided => ticketRepo[call[c].task] = "Pending"
                       /\ label \in Granted   => call[c].pc \in Granted
  <2>1. CASE FinishLoop(c)
    BY <2>1 DEF FinishLoop, At, Fresh, Undecided, Granted
  <2>2. CASE Freeze(c)
    BY <2>2 DEF Freeze, At, Fresh, Undecided, Granted
  <2>3. CASE ValidateResume(c)
    BY <1>2, <2>3 DEF ValidateResume, CallFollows, At, Fresh, Undecided, Granted
  <2>4. CASE LoadTicketToCancel(c)
    BY <2>4 DEF LoadTicketToCancel, At, Fresh, Undecided, Granted
  <2>5. CASE Fail(c) \/ CancelTask(c)
    BY <2>5 DEF Fail, CancelTask, Fresh, Undecided, Granted
  <2>6. QED
    BY <2>1, <2>2, <2>3, <2>4, <2>5
<1>4. QED
  BY <1>1, <1>3, QuietStep

-----------------------------------------------------------------------------
(* Steps of a call that are steps of the protocol.                         *)

LEMMA TicketStep ==
  ASSUME ProtocolInv, TypeInv', NEW c \in Caller,
         RaiseTicket(c) \/ ApproveTicket(c) \/ RejectTicket(c) \/ CancelTicket(c)
  PROVE  ProtocolInv' /\ ProtocolStep
<1> DEFINE t == call[c].task
<1>1. PICK label, status, next :
        /\ SaveTicket(c, label, status, next)
        /\ \/ label = "waitTicket" /\ status = "Pending" /\ next = "save"
           \/ label = "approveTicket" /\ status = "Approved" /\ next = "grantEvent"
           \/ label = "rejectTicket" /\ status = "Rejected" /\ next = "rejectEvent"
           \/ label = "cancelTicketSave" /\ status = "Cancelled" /\ next = "cancelEvents"
  BY DEF RaiseTicket, ApproveTicket, RejectTicket, CancelTicket
<1>2. call[c].pc = label /\ label # "idle" /\ t \in Task
  BY <1>1, CopyType DEF SaveTicket, At, ProtocolInv
<1>3. /\ ticketRepo' = [ticketRepo EXCEPT ![t] = status]
      /\ UNCHANGED << taskRepo, issued, ran >>
      /\ Goto(c, next, [call[c].copy EXCEPT !.pending = (status = "Pending")])
  BY <1>1 DEF SaveTicket
<1>4. /\ ticketRepo[t] = IF label = "waitTicket" THEN "none" ELSE "Pending"
      /\ ran[t] = 0
  <2>1. CallFollows(call[c])
    BY DEF ProtocolInv, CallsFollow
  <2>2. ticketRepo[t] = IF label = "waitTicket" THEN "none" ELSE "Pending"
    BY <1>1, <1>2, <2>1 DEF CallFollows, Fresh, Undecided
  <2>3. QED
    BY <1>2, <2>2 DEF ProtocolInv, RanOnce
<1>5. ticketRepo'[t] = status
  BY <1>2, <1>3 DEF ProtocolInv, TypeInv, TypeOK
<1>6. Local(c)
  BY <1>3 DEF Local, ProtocolInv, TypeInv, TypeOK
<1> DEFINE j == [pc |-> next, task |-> t,
                 copy |-> [call[c].copy EXCEPT !.pending = (status = "Pending")]]
<1>7. call' = [call EXCEPT ![c] = j] /\ j.pc = next /\ j.task = call[c].task
  BY <1>3 DEF Goto
<1> HIDE DEF j
<1>8. \A x : x = j => CallFollows(x)'
  BY <1>1, <1>3, <1>4, <1>5, <1>7 DEF CallFollows, Fresh, Undecided, Granted
<1>9. ProtocolInv'
  BY <1>2, <1>3, <1>4, <1>6, <1>7, <1>8, LocalStep
<1>10. Protocol!Raise(t) \/ Protocol!Decide(t)
  BY <1>1, <1>3, <1>4 DEF Protocol!Raise, Protocol!Decide
<1>11. QED
  BY <1>2, <1>9, <1>10 DEF ProtocolStep, Protocol!Next

LEMMA RunStep ==
  ASSUME ProtocolInv, TypeInv', NEW c \in Caller, RunFrozen(c)
  PROVE  ProtocolInv' /\ ProtocolStep
<1> DEFINE t == call[c].task
<1>1. call[c].pc = "run" /\ t \in Task
  BY CopyType DEF RunFrozen, At, ProtocolInv
<1>2. ticketRepo[t] = "Approved" /\ ran[t] = 0
  BY <1>1 DEF ProtocolInv, CallsFollow, CallFollows, Granted
<1>3. /\ ran' = [ran EXCEPT ![t] = 1]
      /\ UNCHANGED << taskRepo, ticketRepo, issued >>
      /\ Goto(c, "runResult", call[c].copy)
  BY <1>2 DEF RunFrozen, repos
<1>4. Local(c) /\ ran'[t] = 1
  BY <1>1, <1>3 DEF Local, ProtocolInv, TypeInv, TypeOK
<1> DEFINE j == [pc |-> "runResult", task |-> t, copy |-> call[c].copy]
<1>5. call' = [call EXCEPT ![c] = j] /\ j.pc = "runResult" /\ j.task = call[c].task
  BY <1>3 DEF Goto
<1> HIDE DEF j
<1>6. \A x : x = j => CallFollows(x)'
  BY <1>5 DEF CallFollows, Fresh, Undecided, Granted
<1>7. ProtocolInv'
  BY <1>1, <1>2, <1>3, <1>4, <1>5, <1>6, LocalStep
<1>8. Protocol!Execute(t)
  BY <1>2, <1>3 DEF Protocol!Execute
<1>9. QED
  BY <1>1, <1>7, <1>8 DEF ProtocolStep, Protocol!Next

-----------------------------------------------------------------------------
(* New calls and faults.                                                   *)

\* A call that starts on a free thread, for a task no other call works on.
LEMMA EntryQuiet ==
  ASSUME ProtocolInv, TypeInv', NEW c \in Caller, NEW t \in Task, t \in issued',
         issued \subseteq issued', UNCHANGED << taskRepo, ticketRepo, ran >>,
         call[c].pc = "idle", \A d \in Caller : call[d].task # t,
         NEW label, NEW k, Enter(c, t, label, k),
         CallFollows([pc |-> label, task |-> t, copy |-> k])
  PROVE  ProtocolInv' /\ ProtocolStep
<1> DEFINE j == [pc |-> label, task |-> t, copy |-> k]
<1>1. /\ call'[c] = j /\ \A d \in Caller : d # c => call'[d] = call[d]
      /\ j.task = t
  BY DEF Enter, ProtocolInv, TypeInv, TypeOK
<1> HIDE DEF j
<1>2. CallsFollow'
  <2>1. \A x : CallFollows(x) => CallFollows(x)'
    BY DEF CallFollows
  <2>2. CallFollows(j)
    BY DEF j
  <2>3. QED
    BY <1>1, <2>1, <2>2 DEF ProtocolInv, CallsFollow, CallFollows
<1>3. OneCallPerTask'
  <2> SUFFICES ASSUME NEW d \in Caller, NEW e \in Caller, call'[d].pc # "idle",
                      call'[e].task = call'[d].task
               PROVE  d = e
    BY DEF OneCallPerTask
  <2>1. CASE d = c \/ e = c
    BY <1>1, <2>1
  <2>2. CASE d # c /\ e # c
    BY <1>1, <2>2 DEF ProtocolInv, OneCallPerTask
  <2>3. QED
    BY <2>1, <2>2
<1>4. OnlyIssued'
  BY <1>1 DEF ProtocolInv, OnlyIssued
<1>5. RanOnce' /\ ProtocolStep
  BY DEF ProtocolInv, RanOnce, ProtocolStep, Protocol!vars
<1>6. QED
  BY <1>2, <1>3, <1>4, <1>5 DEF ProtocolInv

LEMMA SubmitQuiet ==
  ASSUME ProtocolInv, TypeInv', NEW c \in Caller, NEW t \in Task, Submit(c, t)
  PROVE  ProtocolInv' /\ ProtocolStep
<1>1. ticketRepo[t] = "none" /\ \A d \in Caller : call[d].task # t
  BY DEF Submit, ProtocolInv, OnlyIssued
<1>2. CallFollows([pc |-> "loop", task |-> t, copy |-> [NoTask EXCEPT !.state = "Planning"]])
  BY <1>1 DEF CallFollows, Undecided, Granted
<1>3. QED
  BY <1>1, <1>2, EntryQuiet DEF Submit, MayEnter, At

LEMMA DecideQuiet ==
  ASSUME Serialized, ProtocolInv, TypeInv', NEW c \in Caller, NEW t \in Task,
         NEW approved \in BOOLEAN, Decide(c, t, approved)
  PROVE  ProtocolInv' /\ ProtocolStep
<1> DEFINE label == IF approved THEN "frozenCheck" ELSE "rejectTicket"
<1>1. t \in issued /\ ticketRepo[t] = "Pending"
  BY DEF Decide, ProtocolInv, OnlyIssued
<1>2. label \in Undecided /\ label \notin Fresh \cup Granted
  BY DEF Fresh, Undecided, Granted
<1>3. Enter(c, t, label, taskRepo[t])
  BY DEF Decide
<1> HIDE DEF label
<1>4. CallFollows([pc |-> label, task |-> t, copy |-> taskRepo[t]])
  BY <1>1, <1>2 DEF CallFollows
<1>5. QED
  BY <1>1, <1>3, <1>4, EntryQuiet DEF Decide, MayEnter, At, repos

LEMMA CancelQuiet ==
  ASSUME Serialized, ProtocolInv, TypeInv', NEW c \in Caller, NEW t \in Task, Cancel(c, t)
  PROVE  ProtocolInv' /\ ProtocolStep
<1> DEFINE label == IF taskRepo[t].pending THEN "cancelTicket" ELSE "cancelEvents"
<1>1. t \in issued
  BY DEF Cancel, NotCancellable, ProtocolInv, OnlyIssued
<1>2. label \notin Fresh \cup Undecided \cup Granted
  BY DEF Fresh, Undecided, Granted
<1>3. Enter(c, t, label, taskRepo[t])
  BY DEF Cancel
<1> HIDE DEF label
<1>4. CallFollows([pc |-> label, task |-> t, copy |-> taskRepo[t]])
  BY <1>2 DEF CallFollows
<1>5. QED
  BY <1>1, <1>3, <1>4, EntryQuiet DEF Cancel, MayEnter, At, repos

LEMMA FaultQuiet ==
  ASSUME Durable, FreshIds, ProtocolInv, TypeInv',
         Crash \/ \E c \in Caller : RepoError(c)
  PROVE  ProtocolInv' /\ ProtocolStep
<1>1. ASSUME NEW c \in Caller, RepoError(c)
      PROVE  ProtocolInv' /\ ProtocolStep
  <2>1. /\ call[c].pc # "idle" /\ Local(c) /\ UNCHANGED << ticketRepo, ran >>
        /\ Return(c)
    BY <1>1 DEF RepoError, Local
  <2>2. QED
    BY <2>1, QuietStep
<1>2. CASE Crash
  <2>1. /\ call' = [c \in Caller |-> Idle] /\ issued' = issued
        /\ UNCHANGED << taskRepo, ticketRepo, ran >>
    BY <1>2 DEF Crash, repos
  <2>2. CallsFollow' /\ OneCallPerTask'
    BY <2>1 DEF CallsFollow, CallFollows, OneCallPerTask, Idle, Fresh, Undecided, Granted
  <2>3. OnlyIssued'
    BY <2>1, ConstantsAssumption DEF ProtocolInv, OnlyIssued, Idle
  <2>4. RanOnce' /\ ProtocolStep
    BY <2>1 DEF ProtocolInv, RanOnce, ProtocolStep, Protocol!vars
  <2>5. QED
    BY <2>2, <2>3, <2>4 DEF ProtocolInv
<1>3. QED
  BY <1>1, <1>2

-----------------------------------------------------------------------------

LEMMA NextProtocol ==
  ASSUME Serialized, FreshIds, Durable, ProtocolInv, [Next]_vars
  PROVE  ProtocolInv' /\ ProtocolStep
<1>1. TypeInv'
  BY NextType DEF ProtocolInv
<1>2. ASSUME NEW c \in Caller, Proceed(c)
      PROVE  ProtocolInv' /\ ProtocolStep
  BY <1>1, <1>2, RecordQuiet, RecordNodeQuiet, SaveQuiet, OtherQuiet, TicketStep, RunStep
  DEF Proceed
<1>3. CASE Next
  BY <1>1, <1>2, <1>3, SubmitQuiet, DecideQuiet, CancelQuiet, FaultQuiet DEF Next
<1>4. CASE UNCHANGED vars
  BY <1>1, <1>4
  DEF vars, repos, ProtocolInv, CallsFollow, CallFollows, OneCallPerTask, OnlyIssued,
      RanOnce, ProtocolStep, Protocol!vars
<1>5. QED
  BY <1>3, <1>4

LEMMA InitProtocol == Init => ProtocolInv /\ Protocol!Init
<1> SUFFICES ASSUME Init PROVE ProtocolInv /\ Protocol!Init
  OBVIOUS
<1>1. CallsFollow /\ OneCallPerTask
  BY DEF Init, CallsFollow, CallFollows, OneCallPerTask, Idle, Fresh, Undecided, Granted
<1>2. OnlyIssued
  BY ConstantsAssumption DEF Init, OnlyIssued, Idle, NoTask
<1>3. RanOnce /\ Protocol!Init
  BY DEF Init, RanOnce, Protocol!Init
<1>4. QED
  BY <1>1, <1>2, <1>3, InitType DEF ProtocolInv

\* With durable repositories, fresh ids and one call per task at a time, every
\* behaviour of the service is one of the approval protocol: a ticket is
\* decided once, and the frozen invocation runs at most once and only under
\* an approval, whatever errors and crashes strike.
THEOREM ImplementsApproval ==
  ASSUME Serialized, FreshIds, Durable
  PROVE  Spec => KeepsApprovalProtocol
<1>1. ProtocolInv /\ [Next]_vars => ProtocolInv' /\ [Protocol!Next]_(Protocol!vars)
  BY NextProtocol DEF ProtocolStep
<1>2. QED
  BY <1>1, InitProtocol, PTL DEF Spec, KeepsApprovalProtocol, Protocol!Spec

-----------------------------------------------------------------------------
(* What a call knows about the persisted state of its task, where no other *)
(* call works on it and nothing that is persisted gets lost.               *)

Final == { "Succeeded", "Cancelled", "DeadLetter" }
Cancelling == { "cancelTicket", "cancelTicketSave", "cancelEvents" }
Deciding == Undecided \cup { "cancelTicket" }
Working ==
  { "run", "runResult", "nodeEvent", "validate", "valResult", "valEvent",
    "aggregate", "succeed" }

\* The user can still decide it: its ticket is pending, its payload is kept.
Decidable(t) == ticketRepo[t] = "Pending" /\ t \in frozen

CallKnows(j) ==
  LET state == taskRepo[j.task].state
  IN  /\ state \notin Final
      /\ state = "Failed" =>
           j.pc \in Cancelling \/ (j.pc = "save" /\ j.copy.state = "Cancelled")
      /\ j.pc \in Fresh \cup Working => state # "WaitingApproval"
      /\ j.pc \in { "wait", "waitEvent", "waitTicket" } => j.task \in frozen
      /\ j.pc \in { "frozenCheck", "approveTicket", "grantEvent", "grant" } =>
           j.copy.state = "WaitingApproval"
      /\ j.pc = "grantSave" => j.copy.state = "Executing"
      /\ j.pc = "save" /\ j.copy.state = "WaitingApproval" => Decidable(j.task)
      /\ j.pc \in Deciding /\ faults = 0 /\ state = "WaitingApproval" =>
           Decidable(j.task)

CallsKnow == \A c \in Caller : call[c].pc # "idle" => CallKnows(call[c])

NoTaskWhenIdle == \A c \in Caller : call[c].pc = "idle" => call[c].task = None

LifeInv == ProtocolInv /\ CallsKnow /\ NoTaskWhenIdle /\ WaitingIsDecidable

\* A step of one call on its own task: other calls and tasks see no difference.
LEMMA KnowsStep ==
  ASSUME LifeInv, ProtocolInv', NEW c \in Caller, call[c].pc # "idle", Local(c),
         frozen \subseteq frozen', faults' = faults \/ faults' # 0,
         NEW j, call' = [call EXCEPT ![c] = j],
         \/ j.pc # "idle" /\ j.task = call[c].task /\ CallKnows(j)'
         \/ /\ j.pc = "idle" /\ j.task = None
            /\ faults' = 0 /\ taskRepo'[call[c].task].state = "WaitingApproval"
                 => ticketRepo'[call[c].task] = "Pending" /\ call[c].task \in frozen'
  PROVE  LifeInv'
<1> DEFINE t == call[c].task
<1>1. /\ t \in Task /\ \A d \in Caller : d # c => call[d].task # t
      /\ call'[c] = j /\ \A d \in Caller : d # c => call'[d] = call[d]
  BY BusyCall DEF LifeInv, ProtocolInv, TypeInv, TypeOK
<1>2. CallsKnow'
  <2> SUFFICES ASSUME NEW d \in Caller, call'[d].pc # "idle"
               PROVE  CallKnows(call[d])'
    BY DEF CallsKnow
  <2>1. CASE d = c
    BY <1>1, <2>1 DEF CallKnows, Decidable
  <2>2. CASE d # c
    <3>1. CallKnows(call[d]) /\ call'[d] = call[d] /\ call[d].task \in Task \ {t}
      BY <1>1, <2>2, CopyType DEF LifeInv, CallsKnow, ProtocolInv
    <3>2. QED
      BY <3>1 DEF CallKnows, Decidable, Local, t
  <2>3. QED
    BY <2>1, <2>2
<1>3. WaitingIsDecidable'
  <2> SUFFICES ASSUME faults' = 0, NEW u \in Task, ~ InFlight(u)',
                      taskRepo'[u].state = "WaitingApproval"
               PROVE  ticketRepo'[u] = "Pending" /\ u \in frozen'
    BY DEF WaitingIsDecidable
  <2>1. CASE u = t
    <3>1. j.task # t
      BY <1>1, <2>1 DEF InFlight
    <3>2. QED
      BY <2>1, <3>1 DEF t
  <2>2. CASE u # t
    <3>1. ~ InFlight(u)
      BY <1>1, <2>2 DEF InFlight
    <3>2. QED
      BY <2>2, <3>1 DEF LifeInv, WaitingIsDecidable, Local, t
  <2>3. QED
    BY <2>1, <2>2
<1>4. NoTaskWhenIdle'
  BY <1>1 DEF LifeInv, NoTaskWhenIdle
<1>5. QED
  BY <1>2, <1>3, <1>4 DEF LifeInv

\* A step that leaves tickets, tasks and payloads alone: the call knows what it
\* did, or ends without stranding its task.
LEMMA QuietKnows ==
  ASSUME LifeInv, ProtocolInv', NEW c \in Caller, call[c].pc # "idle",
         UNCHANGED << taskRepo, ticketRepo, frozen, issued, faults >>,
         \A t \in Task \ { call[c].task } : ran'[t] = ran[t],
         \/ /\ Return(c)
            /\ faults = 0 /\ taskRepo[call[c].task].state = "WaitingApproval"
                 => Decidable(call[c].task)
         \/ \E label, k : /\ Goto(c, label, k) /\ label # "idle"
                          /\ CallKnows([pc |-> label, task |-> call[c].task, copy |-> k])
  PROVE  LifeInv'
<1>1. Local(c)
  BY DEF Local
<1>2. CASE /\ Return(c)
           /\ faults = 0 /\ taskRepo[call[c].task].state = "WaitingApproval"
                => Decidable(call[c].task)
  BY <1>1, <1>2, KnowsStep DEF Return, Idle, Decidable
<1>3. ASSUME NEW label, NEW k, Goto(c, label, k), label # "idle",
             CallKnows([pc |-> label, task |-> call[c].task, copy |-> k])
      PROVE  LifeInv'
  <2> DEFINE j == [pc |-> label, task |-> call[c].task, copy |-> k]
  <2>1. /\ call' = [call EXCEPT ![c] = j] /\ j.task = call[c].task /\ j.pc # "idle"
        /\ CallKnows(j)
    BY <1>3 DEF Goto
  <2> HIDE DEF j
  <2>2. \A x : x = j => CallKnows(x)'
    BY <2>1 DEF CallKnows, Decidable
  <2>3. QED
    BY <1>1, <2>1, <2>2, KnowsStep
<1>4. QED
  BY <1>2, <1>3

LEMMA RecordKnows ==
  ASSUME LifeInv, ProtocolInv', NEW c \in Caller,
         \/ PrepareRoute(c) \/ DispatchRoute(c) \/ ExecuteRoute(c) \/ Validate(c)
         \/ Aggregate(c) \/ Succeed(c) \/ AwaitApproval(c) \/ Grant(c)
  PROVE  LifeInv'
<1>1. PICK label, state, next :
        /\ Record(c, label, state, next)
        /\ \/ label \in Fresh \cup Working /\ next \in (Fresh \cup Working) \ { "wait", "waitTicket" }
              /\ (next = "waitEvent" => label = "wait")
           \/ label = "succeed" /\ state = "Succeeded" /\ next = "save"
           \/ label = "grant" /\ state = "Executing" /\ next = "grantSave"
  BY DEF PrepareRoute, DispatchRoute, ExecuteRoute, Validate, Aggregate, Succeed,
         AwaitApproval, Grant, Fresh, Working
<1> DEFINE k == [call[c].copy EXCEPT !.state = state]
<1>2. /\ call[c].pc = label /\ label # "idle" /\ CallKnows(call[c])
      /\ UNCHANGED << taskRepo, ticketRepo, frozen, issued, faults, ran >>
  BY <1>1 DEF Record, At, Fresh, Working, LifeInv, CallsKnow
<1>3. k.state = state
  BY <1>2, CopyType DEF LifeInv, ProtocolInv, TaskRecord
<1>4. CASE ~ ValidTransition(call[c].copy.state, state)
  <2>1. label # "grant"
    <3>1. ValidTransition("WaitingApproval", "Executing")
      BY DEF ValidTransition
    <3>2. label = "grant" => state = "Executing" /\ call[c].copy.state = "WaitingApproval"
      BY <1>1, <1>2 DEF CallKnows, Fresh, Working
    <3>3. QED
      BY <1>4, <3>1, <3>2
  <2>2. taskRepo[call[c].task].state # "WaitingApproval"
    BY <1>1, <1>2, <2>1 DEF CallKnows, Working
  <2>3. QED
    BY <1>1, <1>2, <1>4, <2>2, QuietKnows DEF Record
<1>5. CASE ValidTransition(call[c].copy.state, state)
  <2> DEFINE j == [pc |-> next, task |-> call[c].task, copy |-> k]
  <2>1. j.pc = next /\ j.task = call[c].task /\ j.copy.state = state
    BY <1>3
  <2> HIDE DEF j, k
  <2>2. CallKnows(j)
    BY <1>1, <1>2, <2>1
    DEF CallKnows, Fresh, Working, Deciding, Undecided, Cancelling
  <2>3. Goto(c, next, k) /\ next # "idle"
    BY <1>1, <1>5 DEF Record, k, Fresh, Working
  <2>4. QED
    BY <1>2, <2>2, <2>3, QuietKnows DEF j
<1>6. QED
  BY <1>4, <1>5

LEMMA NodeEventKnows ==
  ASSUME LifeInv, ProtocolInv', NEW c \in Caller,
         \/ CompleteNode(c) \/ CompleteValidation(c) \/ NoteApproval(c)
         \/ NoteRejection(c) \/ NoteGrant(c)
  PROVE  LifeInv'
<1>1. PICK label, kind, done, next :
        /\ RecordNode(c, label, kind, done, next)
        /\ \/ label \in Working /\ next \in Working
           \/ label = "waitEvent" /\ next = "waitTicket"
           \/ label = "rejectEvent" /\ next = "fail"
           \/ label = "grantEvent" /\ next = "grant"
  BY DEF CompleteNode, CompleteValidation, NoteApproval, NoteRejection, NoteGrant, Working
<1> DEFINE k == [call[c].copy EXCEPT !.completed = @ \cup done]
<1> DEFINE j == [pc |-> next, task |-> call[c].task, copy |-> k]
<1>2. /\ call[c].pc = label /\ label # "idle" /\ CallKnows(call[c])
      /\ UNCHANGED << taskRepo, ticketRepo, frozen, issued, faults, ran >>
      /\ Goto(c, next, k) /\ next # "idle"
  BY <1>1 DEF RecordNode, At, Working, LifeInv, CallsKnow
<1>3. k.state = call[c].copy.state
  BY <1>2, CopyType DEF LifeInv, ProtocolInv, TaskRecord
<1>4. j.pc = next /\ j.task = call[c].task /\ j.copy.state = call[c].copy.state
  BY <1>3
<1> HIDE DEF j, k
<1>5. CallKnows(j)
  BY <1>1, <1>2, <1>4
  DEF CallKnows, Fresh, Working, Deciding, Undecided, Cancelling
<1>6. QED
  BY <1>2, <1>5, QuietKnows DEF j

LEMMA ResultKnows ==
  ASSUME LifeInv, ProtocolInv', NEW c \in Caller,
         SaveRouteResult(c) \/ SaveValidation(c) \/ SaveRunResult(c) \/ RunFrozen(c)
  PROVE  LifeInv'
<1>1. PICK label \in { "result", "valResult", "runResult", "run" },
           next \in { "nodeEvent", "fail", "freeze", "valEvent", "runResult" } :
        /\ At(c, label) /\ Goto(c, next, call[c].copy)
        /\ UNCHANGED << taskRepo, ticketRepo, frozen, issued, faults >>
        /\ \A t \in Task \ { call[c].task } : ran'[t] = ran[t]
  BY DEF SaveRouteResult, SaveValidation, SaveRunResult, SaveResult, RunFrozen, repos,
         LifeInv, ProtocolInv, TypeInv, TypeOK
<1> DEFINE j == [pc |-> next, task |-> call[c].task, copy |-> call[c].copy]
<1>2. call[c].pc = label /\ CallKnows(call[c])
  BY <1>1 DEF At, LifeInv, CallsKnow
<1>3. j.pc = next /\ j.task = call[c].task /\ j.copy = call[c].copy
  OBVIOUS
<1> HIDE DEF j
<1>4. CallKnows(j)
  BY <1>2, <1>3 DEF CallKnows, Fresh, Working, Deciding, Undecided, Cancelling
<1>5. QED
  BY <1>1, <1>2, <1>4, QuietKnows DEF j

\* A call that stops where its task may be waiting leaves it as it was.
LEMMA StoppingKnows ==
  ASSUME LifeInv, ProtocolInv', NEW c \in Caller,
         FinishLoop(c) \/ ValidateResume(c) \/ LoadTicketToCancel(c)
  PROVE  LifeInv'
<1> DEFINE t == call[c].task
<1>1. /\ call[c].pc # "idle" /\ CallKnows(call[c])
      /\ UNCHANGED << taskRepo, ticketRepo, frozen, issued, faults, ran >>
  BY DEF FinishLoop, ValidateResume, LoadTicketToCancel, At, repos, LifeInv, CallsKnow
<1>2. CASE Return(c)
  <2>1. faults = 0 /\ taskRepo[t].state = "WaitingApproval" => Decidable(t)
    BY <1>1 DEF FinishLoop, ValidateResume, LoadTicketToCancel, At, CallKnows, Fresh,
       Deciding, Undecided
  <2>2. QED
    BY <1>1, <1>2, <2>1, QuietKnows
<1>3. ASSUME ~ Return(c) PROVE LifeInv'
  <2>1. PICK label, k :
          /\ Goto(c, label, k)
          /\ \/ label = "graph" /\ call[c].pc = "loop" /\ k = call[c].copy
             \/ label = "approveTicket" /\ call[c].pc = "frozenCheck" /\ k = call[c].copy
             \/ /\ label \in { "cancelTicketSave", "cancelEvents" }
                /\ call[c].pc = "cancelTicket"
    <3>1. CASE FinishLoop(c)
      <4>1. Goto(c, "graph", call[c].copy) /\ call[c].pc = "loop"
        BY <1>3, <3>1 DEF FinishLoop, At
      <4>2. QED
        BY <4>1
    <3>2. CASE ValidateResume(c)
      <4>1. Goto(c, "approveTicket", call[c].copy) /\ call[c].pc = "frozenCheck"
        BY <1>3, <3>2 DEF ValidateResume, At
      <4>2. QED
        BY <4>1
    <3>3. CASE LoadTicketToCancel(c)
      <4> DEFINE k2 == [call[c].copy EXCEPT !.pending = FALSE]
      <4>1. call[c].pc = "cancelTicket"
        BY <3>3 DEF LoadTicketToCancel, At
      <4>2. Goto(c, "cancelTicketSave", call[c].copy) \/ Goto(c, "cancelEvents", k2)
        <5>1. CASE ticketRepo[t] = "none"
          BY <1>3, <3>3, <5>1 DEF LoadTicketToCancel
        <5>2. CASE ticketRepo[t] = "Pending"
          BY <3>3, <5>2 DEF LoadTicketToCancel
        <5>3. CASE ticketRepo[t] \notin { "none", "Pending" }
          BY <3>3, <5>3 DEF LoadTicketToCancel
        <5>4. QED
          BY <5>1, <5>2, <5>3
      <4> HIDE DEF k2
      <4>3. QED
        BY <4>1, <4>2
    <3>4. QED
      BY <3>1, <3>2, <3>3
  <2> DEFINE j == [pc |-> label, task |-> t, copy |-> k]
  <2>2. j.pc = label /\ j.task = call[c].task /\ j.copy = k
    OBVIOUS
  <2> HIDE DEF j
  <2>3. CallKnows(j)
    BY <1>1, <2>1, <2>2 DEF CallKnows, Fresh, Working, Deciding, Undecided, Cancelling
  <2>4. QED
    BY <1>1, <2>1, <2>3, QuietKnows DEF j
<1>4. QED
  BY <1>2, <1>3

LEMMA BatchKnows ==
  ASSUME LifeInv, ProtocolInv', NEW c \in Caller, Fail(c) \/ CancelTask(c)
  PROVE  LifeInv'
<1>1. /\ call[c].pc \in { "fail", "cancelEvents" } /\ CallKnows(call[c])
      /\ UNCHANGED << taskRepo, ticketRepo, frozen, issued, faults, ran >>
      /\ call[c].copy \in TaskRecord
  BY CopyType DEF Fail, CancelTask, At, LifeInv, CallsKnow, ProtocolInv
<1>2. PICK k : /\ Goto(c, "save", k)
               /\ \/ call[c].pc = "fail" /\ k.state \in { "Failed", "DeadLetter" }
                  \/ k.state = "Cancelled"
  <2>1. CASE Fail(c)
    <3> DEFINE state == FailureState(call[c].copy.attempts + 1, MaxAttempts)
    <3>1. state \in { "Failed", "DeadLetter" }
      BY DEF FailureState
    <3>2. Goto(c, "save", [call[c].copy EXCEPT !.attempts = @ + 1, !.state = state])
          /\ call[c].pc = "fail"
      BY <2>1 DEF Fail, At
    <3> HIDE DEF state
    <3>3. \A r \in TaskRecord : [r EXCEPT !.attempts = @ + 1, !.state = state].state = state
      BY DEF TaskRecord
    <3>4. QED
      BY <1>1, <3>1, <3>2, <3>3
  <2>2. CASE CancelTask(c)
    <3>1. [call[c].copy EXCEPT !.state = "Cancelled"].state = "Cancelled"
      BY <1>1 DEF TaskRecord
    <3>2. QED
      BY <2>2, <3>1 DEF CancelTask
  <2>3. QED
    BY <2>1, <2>2
<1> DEFINE j == [pc |-> "save", task |-> call[c].task, copy |-> k]
<1>3. j.pc = "save" /\ j.task = call[c].task /\ j.copy = k
  OBVIOUS
<1> HIDE DEF j
<1>4. CallKnows(j)
  BY <1>1, <1>2, <1>3 DEF CallKnows, Fresh, Working, Deciding, Undecided, Cancelling
<1>5. QED
  BY <1>1, <1>2, <1>4, QuietKnows DEF j

LEMMA FreezeKnows ==
  ASSUME LifeInv, ProtocolInv', NEW c \in Caller, Freeze(c)
  PROVE  LifeInv'
<1> DEFINE j == [pc |-> "wait", task |-> call[c].task, copy |-> call[c].copy]
<1>1. /\ call[c].pc = "freeze" /\ CallKnows(call[c])
      /\ UNCHANGED << taskRepo, ticketRepo, issued, faults, ran >>
      /\ frozen' = frozen \cup {call[c].task} /\ call' = [call EXCEPT ![c] = j]
  BY DEF Freeze, Goto, At, LifeInv, CallsKnow, repos
<1>2. j.pc = "wait" /\ j.task = call[c].task /\ j.copy = call[c].copy
  OBVIOUS
<1> HIDE DEF j
<1>3. \A x : x = j => CallKnows(x)'
  BY <1>1, <1>2 DEF CallKnows, Decidable, Fresh, Working, Deciding, Undecided, Cancelling
<1>4. Local(c)
  BY <1>1 DEF Local
<1>5. QED
  BY <1>1, <1>2, <1>3, <1>4, KnowsStep

\* The ticket is raised while the payload is kept, and before the task is saved.
LEMMA TicketKnows ==
  ASSUME LifeInv, ProtocolInv', NEW c \in Caller,
         RaiseTicket(c) \/ ApproveTicket(c) \/ RejectTicket(c) \/ CancelTicket(c)
  PROVE  LifeInv'
<1> DEFINE t == call[c].task
<1>1. PICK label, status, next :
        /\ SaveTicket(c, label, status, next)
        /\ \/ label = "waitTicket" /\ status = "Pending" /\ next = "save"
           \/ label = "approveTicket" /\ status = "Approved" /\ next = "grantEvent"
           \/ label = "rejectTicket" /\ status = "Rejected" /\ next = "rejectEvent"
           \/ label = "cancelTicketSave" /\ status = "Cancelled" /\ next = "cancelEvents"
  BY DEF RaiseTicket, ApproveTicket, RejectTicket, CancelTicket
<1> DEFINE k == [call[c].copy EXCEPT !.pending = (status = "Pending")]
<1> DEFINE j == [pc |-> next, task |-> t, copy |-> k]
<1>2. /\ call[c].pc = label /\ label # "idle" /\ CallKnows(call[c]) /\ t \in Task
      /\ call[c].copy \in TaskRecord
      /\ ticketRepo' = [ticketRepo EXCEPT ![t] = status]
      /\ UNCHANGED << taskRepo, frozen, issued, faults, ran >>
      /\ call' = [call EXCEPT ![c] = j]
  BY <1>1, CopyType DEF SaveTicket, Goto, At, LifeInv, CallsKnow, ProtocolInv
<1>3. j.pc = next /\ j.task = call[c].task /\ j.copy.state = call[c].copy.state
  BY <1>2 DEF TaskRecord
<1>4. ticketRepo'[t] = status /\ Local(c)
  BY <1>2 DEF Local, LifeInv, ProtocolInv, TypeInv, TypeOK
<1> HIDE DEF j
<1>5. \A x : x = j => CallKnows(x)'
  BY <1>1, <1>2, <1>3, <1>4
  DEF CallKnows, Decidable, Fresh, Working, Deciding, Undecided, Cancelling
<1>6. QED
  BY <1>1, <1>2, <1>3, <1>4, <1>5, KnowsStep

\* What is saved as waiting can be decided, and a grant is saved as running.
LEMMA SaveKnows ==
  ASSUME LifeInv, ProtocolInv', NEW c \in Caller, Finish(c) \/ SaveGrant(c)
  PROVE  LifeInv'
<1> DEFINE t == call[c].task
<1>1. /\ call[c].pc \in { "save", "grantSave" } /\ CallKnows(call[c]) /\ t \in Task
      /\ taskRepo' = [taskRepo EXCEPT ![t] = call[c].copy]
      /\ UNCHANGED << ticketRepo, frozen, issued, faults, ran >>
  BY CopyType DEF Finish, SaveGrant, SaveTask, At, LifeInv, CallsKnow, ProtocolInv
<1>2. taskRepo'[t] = call[c].copy /\ Local(c)
  BY <1>1 DEF Local, LifeInv, ProtocolInv, TypeInv, TypeOK
<1>3. CASE Finish(c)
  <2>1. call[c].pc = "save" /\ Return(c)
    BY <1>3 DEF Finish, SaveTask, At
  <2>2. taskRepo'[t].state = "WaitingApproval" => Decidable(t)
    BY <1>1, <1>2, <2>1 DEF CallKnows
  <2>3. QED
    BY <1>1, <1>2, <2>1, <2>2, KnowsStep DEF Return, Idle, Decidable
<1>4. CASE SaveGrant(c)
  <2> DEFINE j == [pc |-> "run", task |-> t, copy |-> call[c].copy]
  <2>1. call[c].pc = "grantSave" /\ call' = [call EXCEPT ![c] = j]
    BY <1>4 DEF SaveGrant, SaveTask, At, Goto
  <2>2. j.pc = "run" /\ j.task = t /\ j.copy = call[c].copy
    OBVIOUS
  <2> HIDE DEF j
  <2>3. taskRepo'[t].state = "Executing"
    BY <1>1, <1>2, <2>1 DEF CallKnows
  <2>4. \A x : x = j => CallKnows(x)'
    BY <2>2, <2>3
    DEF CallKnows, Final, Fresh, Working, Deciding, Undecided, Cancelling
  <2>5. QED
    BY <1>1, <1>2, <2>1, <2>2, <2>4, KnowsStep
<1>5. QED
  BY <1>3, <1>4

\* A call that starts finds its task where the last one left it.
LEMMA EntryKnows ==
  ASSUME Serialized, LifeInv, ProtocolInv', NEW c \in Caller, NEW t \in Task,
         Submit(c, t) \/ Cancel(c, t) \/ \E approved \in BOOLEAN : Decide(c, t, approved)
  PROVE  LifeInv'
<1>1. /\ \A d \in Caller : call[d].task # t
      /\ UNCHANGED << taskRepo, ticketRepo, frozen, faults >> /\ call[c].pc = "idle"
  BY DEF Submit, Cancel, Decide, MayEnter, At, repos, LifeInv, ProtocolInv, OnlyIssued
<1>2. faults = 0 /\ taskRepo[t].state = "WaitingApproval" => Decidable(t)
  BY <1>1 DEF LifeInv, WaitingIsDecidable, InFlight, Decidable
<1>3. PICK label, k :
        /\ label \in Label \ {"idle"}
        /\ Enter(c, t, label, k) /\ CallKnows([pc |-> label, task |-> t, copy |-> k])
  <2>1. CASE Submit(c, t)
    <3> DEFINE j == [pc |-> "loop", task |-> t, copy |-> [NoTask EXCEPT !.state = "Planning"]]
    <3>1. j.pc = "loop" /\ j.task = t /\ taskRepo[t].state = "none"
      BY <2>1 DEF Submit, LifeInv, ProtocolInv, OnlyIssued
    <3> HIDE DEF j
    <3>2. CallKnows(j)
      BY <3>1 DEF CallKnows, Final, Fresh, Working, Deciding, Undecided, Cancelling
    <3>3. QED
      BY <2>1, <3>2 DEF Submit, Label, j
  <2>2. ASSUME NEW approved \in BOOLEAN, Decide(c, t, approved)
        PROVE  \E label \in Label \ {"idle"} :
                 /\ Enter(c, t, label, taskRepo[t])
                 /\ CallKnows([pc |-> label, task |-> t, copy |-> taskRepo[t]])
    <3> DEFINE label == IF approved THEN "frozenCheck" ELSE "rejectTicket"
    <3> DEFINE j == [pc |-> label, task |-> t, copy |-> taskRepo[t]]
    <3>1. j.pc = label /\ j.task = t /\ j.copy = taskRepo[t]
          /\ taskRepo[t].state = "WaitingApproval"
      BY <2>2 DEF Decide
    <3> HIDE DEF j
    <3>2. CallKnows(j)
      BY <1>2, <3>1 DEF CallKnows, Final, Fresh, Working, Deciding, Undecided, Cancelling
    <3>3. label \in Label \ {"idle"} /\ Enter(c, t, label, taskRepo[t])
      BY <2>2 DEF Decide, Label
    <3>4. QED
      BY <3>2, <3>3 DEF j
  <2>3. CASE Cancel(c, t)
    <3> DEFINE label == IF taskRepo[t].pending THEN "cancelTicket" ELSE "cancelEvents"
    <3> DEFINE j == [pc |-> label, task |-> t, copy |-> taskRepo[t]]
    <3>1. j.pc = label /\ j.task = t /\ taskRepo[t].state \notin Final
      BY <2>3 DEF Cancel, NotCancellable, Final
    <3> HIDE DEF j
    <3>2. CallKnows(j)
      BY <1>2, <3>1 DEF CallKnows, Fresh, Working, Deciding, Undecided, Cancelling
    <3>3. label \in Label \ {"idle"} /\ Enter(c, t, label, taskRepo[t])
      BY <2>3 DEF Cancel, Label
    <3>4. QED
      BY <3>2, <3>3 DEF j
  <2>4. QED
    BY <2>1, <2>2, <2>3
<1> DEFINE j == [pc |-> label, task |-> t, copy |-> k]
<1>4. /\ j.pc # "idle" /\ j.task = t /\ CallKnows(j)
      /\ call' = [call EXCEPT ![c] = j]
  BY <1>3 DEF Enter
<1> HIDE DEF j
<1>5. call'[c] = j /\ \A d \in Caller : d # c => call'[d] = call[d]
  BY <1>4 DEF LifeInv, ProtocolInv, TypeInv, TypeOK
<1>6. CallsKnow'
  <2>1. \A x : CallKnows(x) => CallKnows(x)'
    BY <1>1 DEF CallKnows, Decidable
  <2>2. QED
    BY <1>4, <1>5, <2>1 DEF LifeInv, CallsKnow, CallKnows, Decidable
<1>7. WaitingIsDecidable'
  <2>1. \A u \in Task : InFlight(u) => InFlight(u)'
    BY <1>1, <1>5, ConstantsAssumption DEF InFlight, LifeInv, NoTaskWhenIdle
  <2>2. QED
    BY <1>1, <2>1 DEF LifeInv, WaitingIsDecidable
<1>8. NoTaskWhenIdle'
  BY <1>4, <1>5 DEF LifeInv, NoTaskWhenIdle
<1>9. QED
  BY <1>6, <1>7, <1>8 DEF LifeInv

LEMMA FaultKnows ==
  ASSUME Durable, LifeInv, ProtocolInv', Crash \/ \E c \in Caller : RepoError(c)
  PROVE  LifeInv'
<1>1. faults' # 0
  BY DEF Crash, RepoError, LifeInv, ProtocolInv, TypeInv, TypeOK
<1>2. ASSUME NEW c \in Caller, RepoError(c) PROVE LifeInv'
  <2>1. /\ call[c].pc # "idle" /\ Return(c)
        /\ UNCHANGED << taskRepo, ticketRepo, frozen, issued, ran >>
    BY <1>2 DEF RepoError
  <2>2. QED
    BY <1>1, <2>1, KnowsStep DEF Local, Return, Idle
<1>3. CASE Crash
  <2>1. CallsKnow' /\ NoTaskWhenIdle'
    BY <1>3 DEF Crash, CallsKnow, NoTaskWhenIdle, Idle
  <2>2. QED
    BY <1>1, <2>1 DEF LifeInv, WaitingIsDecidable
<1>4. QED
  BY <1>2, <1>3

LEMMA NextLife ==
  ASSUME Serialized, FreshIds, Durable, LifeInv, [Next]_vars
  PROVE  LifeInv'
<1>1. ProtocolInv'
  BY NextProtocol DEF LifeInv
<1>2. ASSUME NEW c \in Caller, Proceed(c) PROVE LifeInv'
  BY <1>1, <1>2, RecordKnows, NodeEventKnows, ResultKnows, StoppingKnows, BatchKnows,
     FreezeKnows, TicketKnows, SaveKnows
  DEF Proceed
<1>3. CASE Next
  BY <1>1, <1>2, <1>3, EntryKnows, FaultKnows DEF Next
<1>4. CASE UNCHANGED vars
  BY <1>1, <1>4
  DEF vars, repos, LifeInv, CallsKnow, CallKnows, Decidable, NoTaskWhenIdle,
      WaitingIsDecidable, InFlight
<1>5. QED
  BY <1>3, <1>4

LEMMA InitLife == Init => LifeInv
<1> SUFFICES ASSUME Init PROVE LifeInv
  OBVIOUS
<1>1. CallsKnow /\ NoTaskWhenIdle /\ WaitingIsDecidable
  BY DEF Init, CallsKnow, NoTaskWhenIdle, WaitingIsDecidable, NoTask, Idle
<1>2. QED
  BY <1>1, InitProtocol DEF LifeInv

\* Unless something fails, a task that waits for its approval and that no call
\* works on can be decided (WaitingIsDecidable): every path that starts a decision
\* and gives it up leaves the ticket pending and the payload frozen.
THEOREM WaitingAlwaysDecidable ==
  ASSUME Serialized, FreshIds, Durable
  PROVE  Spec => []WaitingIsDecidable
<1>1. LifeInv /\ [Next]_vars => LifeInv'
  BY NextLife
<1>2. LifeInv => WaitingIsDecidable
  BY DEF LifeInv
<1>3. QED
  BY InitLife, <1>1, <1>2, PTL DEF Spec

\* A task that reached its end keeps its record, and one that failed may still
\* only be cancelled (SettledStays), whatever errors and crashes strike:
\* cancel_task and decide_approval start from the record the last call saved.
THEOREM SettledAlwaysStays ==
  ASSUME Serialized, FreshIds, Durable
  PROVE  Spec => SettledStays
<1>1. LifeInv /\ [Next]_vars => LifeInv'
  BY NextLife
<1>2. LifeInv /\ [Next]_vars =>
        [\A t \in Task :
           /\ taskRepo[t].state \in { "Succeeded", "Cancelled", "DeadLetter" } =>
                taskRepo'[t] = taskRepo[t]
           /\ taskRepo[t].state = "Failed" =>
                taskRepo'[t].state \in { "Failed", "Cancelled" }]_vars
  <2>1. ASSUME LifeInv, NEW c \in Caller, Finish(c) \/ SaveGrant(c), NEW t \in Task
        PROVE  /\ taskRepo[t].state \in Final => taskRepo'[t] = taskRepo[t]
               /\ taskRepo[t].state = "Failed" =>
                    taskRepo'[t].state \in { "Failed", "Cancelled" }
    <3>1. /\ call[c].pc \in { "save", "grantSave" } /\ CallKnows(call[c])
          /\ taskRepo' = [taskRepo EXCEPT ![call[c].task] = call[c].copy]
      BY <2>1 DEF Finish, SaveGrant, SaveTask, At, LifeInv, CallsKnow
    <3>2. taskRepo'[t] = IF t = call[c].task THEN call[c].copy ELSE taskRepo[t]
      <4>1. taskRepo \in [Task -> TaskRecord]
        BY <2>1 DEF LifeInv, ProtocolInv, TypeInv, TypeOK
      <4>2. QED
        BY <3>1, <4>1
    <3>3. QED
      BY <3>1, <3>2 DEF CallKnows, Cancelling
  <2>2. ASSUME NEW c \in Caller, Proceed(c), ~ Finish(c), ~ SaveGrant(c)
        PROVE  UNCHANGED taskRepo
    <3>1. CASE \/ PrepareRoute(c) \/ DispatchRoute(c) \/ ExecuteRoute(c) \/ Validate(c)
               \/ Aggregate(c) \/ Succeed(c) \/ AwaitApproval(c) \/ Grant(c)
      BY <3>1 DEF PrepareRoute, DispatchRoute, ExecuteRoute, Validate, Aggregate, Succeed,
         AwaitApproval, Grant, Record
    <3>2. CASE \/ CompleteNode(c) \/ CompleteValidation(c) \/ NoteApproval(c)
               \/ NoteRejection(c) \/ NoteGrant(c)
      BY <3>2 DEF CompleteNode, CompleteValidation, NoteApproval, NoteRejection, NoteGrant,
         RecordNode
    <3>3. CASE \/ SaveRouteResult(c) \/ SaveValidation(c) \/ SaveRunResult(c)
               \/ RaiseTicket(c) \/ ApproveTicket(c) \/ RejectTicket(c) \/ CancelTicket(c)
      BY <3>3 DEF SaveRouteResult, SaveValidation, SaveRunResult, SaveResult, RaiseTicket,
         ApproveTicket, RejectTicket, CancelTicket, SaveTicket
    <3>4. CASE \/ FinishLoop(c) \/ Freeze(c) \/ ValidateResume(c) \/ RunFrozen(c)
               \/ LoadTicketToCancel(c) \/ Fail(c) \/ CancelTask(c)
      BY <3>4 DEF FinishLoop, Freeze, ValidateResume, RunFrozen, LoadTicketToCancel, Fail,
         CancelTask, repos
    <3>5. QED
      BY <2>2, <3>1, <3>2, <3>3, <3>4 DEF Proceed
  <2>3. ASSUME Next, \A c \in Caller : ~ Proceed(c)
        PROVE  UNCHANGED taskRepo
    BY <2>3 DEF Next, Submit, Decide, Cancel, RepoError, Crash, repos
  <2>4. ASSUME LifeInv, Next, NEW t \in Task
        PROVE  /\ taskRepo[t].state \in Final => taskRepo'[t] = taskRepo[t]
               /\ taskRepo[t].state = "Failed" =>
                    taskRepo'[t].state \in { "Failed", "Cancelled" }
    BY <2>1, <2>2, <2>3, <2>4
  <2>5. QED
    BY <2>4 DEF Final
<1>3. QED
  BY InitLife, <1>1, <1>2, PTL DEF Spec, SettledStays

-----------------------------------------------------------------------------
(* The log of a task, where no other call works on it and nothing fails.   *)

\* The log is one chain of valid moves.
Sound(log) == TransitionsValid(log) /\ Chained(log)

\* Its last move leads to state s.
Ends(log, s) ==
  \E i \in StateEvents(log) : log[i].to = s /\ \A j \in StateEvents(log) : j <= i

\* In which states a call has its copy of the task, and what it may rely on
\* where it may end without saving it.
CallStands(j) ==
  LET state == j.copy.state
  IN  /\ state # "Queued"
      /\ j.pc \in { "loop", "graph" } => state = "Planning"
      /\ j.pc = "delegate" => state = "GraphBuilding"
      /\ j.pc = "execute" => state = "Delegating"
      /\ j.pc \in { "result", "freeze", "wait", "run", "runResult", "nodeEvent", "validate" } =>
           state = "Executing"
      /\ j.pc \in { "valResult", "valEvent", "aggregate" } => state = "Validating"
      /\ j.pc = "succeed" => state = "Aggregating"
      /\ j.pc \in Cancelling => state \notin NotCancellable
      /\ j.pc = "loop" => taskRepo[j.task].state = "none"
      /\ j.pc \in { "frozenCheck", "cancelTicket" } => state = taskRepo[j.task].state

Told ==
  /\ \A t \in Task \ issued : eventRepo[t] = << >>
  /\ \A t \in Task :
       /\ Sound(eventRepo[t]) /\ taskRepo[t].state # "Queued"
       /\ ~ InFlight(t) /\ taskRepo[t].state # "none" =>
            Ends(eventRepo[t], taskRepo[t].state)
  /\ \A c \in Caller :
       call[c].pc # "idle" =>
         CallStands(call[c]) /\ Ends(eventRepo[call[c].task], call[c].copy.state)

TellInv == LifeInv /\ (faults = 0 => Told)

\* The events of a log that one event is appended to.
LEMMA AppendedEvents ==
  ASSUME NEW log \in Seq(Event), NEW e \in Event
  PROVE  LET new == log \o << e >>
             n == Len(log) + 1
         IN  /\ new \in Seq(Event) /\ n \in Nat
             /\ \A i \in StateEvents(log) : i \in Nat /\ i < n /\ new[i] = log[i]
             /\ new[n] = e
             /\ IsStateEvent(e) => StateEvents(new) = StateEvents(log) \cup {n}
             /\ ~ IsStateEvent(e) => StateEvents(new) = StateEvents(log)
<1> DEFINE new == log \o << e >>
<1> DEFINE n == Len(log) + 1
<1>1. /\ new \in Seq(Event) /\ n \in Nat /\ Len(log) \in Nat
      /\ DOMAIN log = 1 .. Len(log) /\ DOMAIN new = 1 .. n
      /\ new[n] = e /\ \A i \in 1 .. Len(log) : new[i] = log[i]
  <2>1. << e >> \in Seq(Event) /\ Len(<< e >>) = 1 /\ << e >>[1] = e
    OBVIOUS
  <2>2. Len(new) = n
    BY <2>1
  <2>3. QED
    BY <2>1, <2>2
<1> HIDE DEF new
<1>2. /\ IsStateEvent(e) => StateEvents(new) = StateEvents(log) \cup {n}
      /\ ~ IsStateEvent(e) => StateEvents(new) = StateEvents(log)
  BY <1>1 DEF StateEvents
<1>3. \A i \in StateEvents(log) : i \in Nat /\ i < n /\ new[i] = log[i]
  BY <1>1 DEF StateEvents
<1>4. QED
  BY <1>1, <1>2, <1>3 DEF new

\* A valid move from where the log ends continues it.
LEMMA MoveIsSound ==
  ASSUME NEW log \in Seq(Event), Sound(log), NEW from \in TaskState, NEW to \in TaskState,
         ValidTransition(from, to), log = << >> \/ Ends(log, from)
  PROVE  LET new == log \o << StateEvent(from, to) >>
         IN  new \in Seq(Event) /\ Sound(new) /\ Ends(new, to)
<1> DEFINE e == StateEvent(from, to)
<1> DEFINE new == log \o << e >>
<1> DEFINE n == Len(log) + 1
<1>1. e \in Event /\ IsStateEvent(e) /\ e.from = from /\ e.to = to
  BY StateEventType DEF StateEvent, IsStateEvent
<1> HIDE DEF e
<1>2. /\ new \in Seq(Event) /\ n \in Nat
      /\ \A i \in StateEvents(log) : i \in Nat /\ i < n /\ new[i] = log[i]
      /\ new[n] = e /\ StateEvents(new) = StateEvents(log) \cup {n}
  BY <1>1, AppendedEvents
<1> HIDE DEF new, n
<1>3. TransitionsValid(new)
  BY <1>1, <1>2 DEF TransitionsValid, Sound
<1>4. Ends(new, to)
  BY <1>1, <1>2 DEF Ends
<1>5. Chained(new)
  <2> SUFFICES ASSUME NEW i \in StateEvents(new), NEW j \in StateEvents(new), i < j,
                      \A m \in StateEvents(new) : m <= i \/ j <= m
               PROVE  new[i].to = new[j].from
    BY DEF Chained
  <2>1. i \in StateEvents(log)
    BY <1>2
  <2>2. CASE j \in StateEvents(log)
    BY <1>2, <2>1, <2>2 DEF Sound, Chained
  <2>3. CASE j = n
    <3>1. PICK l \in StateEvents(log) : log[l].to = from /\ \A m \in StateEvents(log) : m <= l
      BY <2>1 DEF Ends, StateEvents
    <3>2. l = i
      BY <1>2, <2>1, <2>3, <3>1
    <3>3. QED
      BY <1>1, <1>2, <2>3, <3>1, <3>2
  <2>4. QED
    BY <1>2, <2>2, <2>3
<1>6. QED
  BY <1>2, <1>3, <1>4, <1>5 DEF Sound, new, e

\* An event that is no move changes nothing.
LEMMA NoteIsSound ==
  ASSUME NEW log \in Seq(Event), Sound(log), NEW kind \in EventKind \ { "StateTransition" },
         NEW state \in TaskState
  PROVE  LET new == log \o << NodeEvent(kind, state) >>
         IN  Sound(new) /\ \A s : Ends(log, s) => Ends(new, s)
<1> DEFINE e == NodeEvent(kind, state)
<1> DEFINE new == log \o << e >>
<1>1. e \in Event /\ ~ IsStateEvent(e)
  BY NodeEventType DEF NodeEvent, IsStateEvent
<1> HIDE DEF e
<1>2. /\ new \in Seq(Event)
      /\ \A i \in StateEvents(log) : new[i] = log[i]
      /\ StateEvents(new) = StateEvents(log)
  BY <1>1, AppendedEvents
<1> HIDE DEF new
<1>3. Sound(new) /\ \A s : Ends(log, s) => Ends(new, s)
  BY <1>2 DEF Sound, TransitionsValid, Chained, Ends
<1>4. QED
  BY <1>3 DEF new, e

LEMMA BatchesAssociate ==
  ASSUME NEW a \in Seq(Event), NEW b \in Seq(Event), NEW c \in Seq(Event)
  PROVE  a \o (b \o c) = (a \o b) \o c
<1> DEFINE l == a \o (b \o c)
<1> DEFINE r == (a \o b) \o c
<1>1. l \in Seq(Event) /\ r \in Seq(Event) /\ Len(l) = Len(r)
  OBVIOUS
<1>2. \A i \in 1 .. Len(r) : l[i] = r[i]
  OBVIOUS
<1>3. QED
  BY <1>1, <1>2, SeqEqual

\* A failing task moves to Failed, and on when its attempts are used up.
LEMMA FailureIsSound ==
  ASSUME NEW log \in Seq(Event), Sound(log), NEW state \in TaskState, Ends(log, state), NEW n
  PROVE  LET new == log \o FailureEvents(state, n, MaxAttempts)
         IN  Sound(new) /\ Ends(new, FailureState(n, MaxAttempts))
<1> DEFINE first == << StateEvent(state, "Failed") >>
<1> DEFINE last == << StateEvent("Failed", "DeadLetter") >>
<1>1. LET mid == log \o first IN mid \in Seq(Event) /\ Sound(mid) /\ Ends(mid, "Failed")
  BY MoveIsSound DEF ValidTransition, TaskState
<1>2. LET new == (log \o first) \o last IN Sound(new) /\ Ends(new, "DeadLetter")
  <2>1. ValidTransition("Failed", "DeadLetter") /\ {"Failed", "DeadLetter"} \subseteq TaskState
    BY DEF ValidTransition, TaskState
  <2> DEFINE mid == log \o first
  <2>2. mid \in Seq(Event) /\ Sound(mid) /\ Ends(mid, "Failed")
    BY <1>1
  <2> HIDE DEF mid
  <2>3. LET new == mid \o last IN Sound(new) /\ Ends(new, "DeadLetter")
    BY <2>1, <2>2, MoveIsSound
  <2>4. QED
    BY <2>3 DEF mid
<1>3. first \in Seq(Event) /\ last \in Seq(Event) /\ << >> \in Seq(Event)
  BY StateEventType DEF TaskState
<1>4. CASE n >= MaxAttempts
  <2>1. FailureEvents(state, n, MaxAttempts) = first \o last
        /\ FailureState(n, MaxAttempts) = "DeadLetter"
    BY <1>4 DEF FailureEvents, FailureState
  <2> HIDE DEF first, last
  <2>2. log \o (first \o last) = (log \o first) \o last
    BY <1>3, BatchesAssociate
  <2>3. QED
    BY <1>2, <2>1, <2>2
<1>5. CASE ~ (n >= MaxAttempts)
  <2>1. FailureEvents(state, n, MaxAttempts) = first \o << >>
        /\ FailureState(n, MaxAttempts) = "Failed"
    BY <1>5 DEF FailureEvents, FailureState
  <2> HIDE DEF first, last
  <2>2. first \o << >> = first
    BY <1>3, ConcatEmptySeq
  <2>3. QED
    BY <1>1, <2>1, <2>2
<1>6. QED
  BY <1>4, <1>5

\* A cancelled task moves there by way of its request, and of its compensation.
LEMMA CancellationIsSound ==
  ASSUME NEW log \in Seq(Event), Sound(log), NEW state \in TaskState, Ends(log, state),
         state # "Queued", state \notin NotCancellable, NEW comp \in BOOLEAN
  PROVE  LET new == log \o CancellationEvents(state, comp)
         IN  Sound(new) /\ Ends(new, "Cancelled")
<1> DEFINE first == << StateEvent(state, "CancelRequested") >>
<1> DEFINE second == << StateEvent("CancelRequested", "Compensating") >>
<1> DEFINE third == << StateEvent("Compensating", "Cancelled") >>
<1> DEFINE short == << StateEvent("CancelRequested", "Cancelled") >>
<1>1. /\ ValidTransition(state, "CancelRequested")
      /\ ValidTransition("CancelRequested", "Compensating")
      /\ ValidTransition("Compensating", "Cancelled")
      /\ ValidTransition("CancelRequested", "Cancelled")
      /\ { "CancelRequested", "Compensating", "Cancelled" } \subseteq TaskState
  BY DEF ValidTransition, TaskState, Cancellable, NotCancellable
<1>2. /\ first \in Seq(Event) /\ second \in Seq(Event) /\ third \in Seq(Event)
      /\ short \in Seq(Event)
  BY <1>1, StateEventType
<1> DEFINE mid == log \o first
<1>3. mid \in Seq(Event) /\ Sound(mid) /\ Ends(mid, "CancelRequested")
  BY <1>1, MoveIsSound
<1>4. CASE comp
  <2>1. << StateEvent("CancelRequested", "Compensating"), StateEvent("Compensating", "Cancelled") >>
          = second \o third
    OBVIOUS
  <2>2. CancellationEvents(state, comp) = first \o (second \o third)
    BY <1>4, <2>1 DEF CancellationEvents
  <2> DEFINE mid2 == mid \o second
  <2> HIDE DEF first, third, mid
  <2>3. mid2 \in Seq(Event) /\ Sound(mid2) /\ Ends(mid2, "Compensating")
    BY <1>1, <1>3, MoveIsSound
  <2> HIDE DEF mid2, second
  <2>4. LET new == mid2 \o third IN Sound(new) /\ Ends(new, "Cancelled")
    BY <1>1, <2>3, MoveIsSound DEF third
  <2>5. log \o (first \o (second \o third)) = mid2 \o third
    <3>1. second \o third \in Seq(Event)
      BY <1>2
    <3>2. log \o (first \o (second \o third)) = (log \o first) \o (second \o third)
      BY ZenonT(60), <1>2, <3>1, BatchesAssociate
    <3>3. mid \o (second \o third) = (mid \o second) \o third
      BY SMTT(30), <1>2, <1>3, BatchesAssociate
    <3>4. QED
      BY <3>2, <3>3 DEF mid, mid2
  <2>6. QED
    BY <2>2, <2>4, <2>5
<1>5. CASE ~ comp
  <2>1. CancellationEvents(state, comp) = first \o short
    BY <1>5 DEF CancellationEvents
  <2> HIDE DEF first, mid
  <2>2. LET new == mid \o short IN Sound(new) /\ Ends(new, "Cancelled")
    BY <1>1, <1>3, MoveIsSound
  <2> HIDE DEF short
  <2>3. log \o (first \o short) = (log \o first) \o short
    BY <1>2, BatchesAssociate
  <2>4. QED
    BY <2>1, <2>2, <2>3 DEF mid
<1>6. QED
  BY <1>4, <1>5

\* A step of one call on its own task leaves the logs of other tasks alone.
LEMMA ToldStep ==
  ASSUME LifeInv, LifeInv', Told, NEW c \in Caller, call[c].pc # "idle", Local(c),
         \A t \in Task \ { call[c].task } : eventRepo'[t] = eventRepo[t],
         Sound(eventRepo'[call[c].task]), taskRepo'[call[c].task].state # "Queued",
         NEW j, call' = [call EXCEPT ![c] = j],
         \/ /\ j.pc # "idle" /\ j.task = call[c].task /\ CallStands(j)'
            /\ Ends(eventRepo'[j.task], j.copy.state)
         \/ /\ j.pc = "idle" /\ j.task = None
            /\ taskRepo'[call[c].task].state # "none" =>
                 Ends(eventRepo'[call[c].task], taskRepo'[call[c].task].state)
  PROVE  Told'
<1> DEFINE t == call[c].task
<1>1. /\ t \in Task /\ t \in issued /\ \A d \in Caller : d # c => call[d].task # t
      /\ call'[c] = j /\ \A d \in Caller : d # c => call'[d] = call[d]
      /\ \A u \in Task \ {t} : taskRepo'[u] = taskRepo[u]
      /\ issued' = issued
  BY BusyCall DEF LifeInv, ProtocolInv, TypeInv, TypeOK, Local
<1>2. \A u \in Task \ issued' : eventRepo'[u] = << >>
  BY <1>1 DEF Told
<1>3. ASSUME NEW u \in Task
      PROVE  /\ Sound(eventRepo'[u]) /\ taskRepo'[u].state # "Queued"
             /\ ~ InFlight(u)' /\ taskRepo'[u].state # "none" =>
                  Ends(eventRepo'[u], taskRepo'[u].state)
  <2>1. CASE u = t
    BY <1>1, <2>1 DEF InFlight
  <2>2. CASE u # t
    <3>1. InFlight(u) => InFlight(u)'
      BY <1>1, <2>2 DEF InFlight
    <3>2. /\ Sound(eventRepo[u]) /\ taskRepo[u].state # "Queued"
          /\ ~ InFlight(u) /\ taskRepo[u].state # "none" => Ends(eventRepo[u], taskRepo[u].state)
      BY DEF Told
    <3>3. eventRepo'[u] = eventRepo[u] /\ taskRepo'[u] = taskRepo[u]
      BY <1>1, <2>2
    <3>4. QED
      BY <3>1, <3>2, <3>3
  <2>3. QED
    BY <2>1, <2>2
<1>4. ASSUME NEW d \in Caller, call'[d].pc # "idle"
      PROVE  CallStands(call[d])' /\ Ends(eventRepo'[call'[d].task], call'[d].copy.state)
  <2>1. CASE d = c
    BY <1>1, <1>4, <2>1 DEF CallStands
  <2>2. CASE d # c
    <3>1. call'[d] = call[d] /\ call[d].task \in Task \ {t}
      BY <1>1, <1>4, <2>2, CopyType DEF LifeInv, ProtocolInv
    <3>2. CallStands(call[d]) /\ Ends(eventRepo[call[d].task], call[d].copy.state)
      BY <1>4, <3>1 DEF Told
    <3>3. eventRepo'[call[d].task] = eventRepo[call[d].task]
          /\ taskRepo'[call[d].task] = taskRepo[call[d].task]
      BY <1>1, <3>1
    <3>4. QED
      BY <3>1, <3>2, <3>3 DEF CallStands
  <2>3. QED
    BY <2>1, <2>2
<1>5. QED
  BY <1>2, <1>3, <1>4 DEF Told

\* A step that appends a batch and goes on with a copy in the state it ends in.
LEMMA AppendedTold ==
  ASSUME LifeInv, LifeInv', Told, NEW c \in Caller, call[c].pc # "idle",
         UNCHANGED << taskRepo, ticketRepo, issued, ran >>,
         NEW batch, AppendEvents(call[c].task, batch),
         NEW label, label # "idle", NEW k, Goto(c, label, k),
         CallStands([pc |-> label, task |-> call[c].task, copy |-> k]),
         LET new == eventRepo[call[c].task] \o batch IN Sound(new) /\ Ends(new, k.state)
  PROVE  Told'
<1> DEFINE t == call[c].task
<1> DEFINE j == [pc |-> label, task |-> t, copy |-> k]
<1>1. t \in Task /\ taskRepo[t].state # "Queued" /\ Local(c)
  BY BusyCall DEF LifeInv, Local, Told
<1>2. /\ eventRepo'[t] = eventRepo[t] \o batch
      /\ \A u \in Task \ {t} : eventRepo'[u] = eventRepo[u]
  BY <1>1 DEF AppendEvents, LifeInv, ProtocolInv, TypeInv, TypeOK
<1>3. /\ call' = [call EXCEPT ![c] = j] /\ j.pc # "idle" /\ j.task = t /\ j.copy = k
      /\ CallStands(j)
  BY DEF Goto
<1> HIDE DEF j
<1>4. \A x : x = j => CallStands(x)'
  BY <1>3 DEF CallStands
<1>5. QED
  BY <1>1, <1>2, <1>3, <1>4, ToldStep

\* A step that logs and saves nothing, and goes on with the state it had or ends
\* where its task is not persisted or as it was found.
LEMMA SilentTold ==
  ASSUME LifeInv, LifeInv', Told, NEW c \in Caller, call[c].pc # "idle", Local(c),
         UNCHANGED << eventRepo, taskRepo >>,
         \/ /\ Return(c)
            /\ \/ taskRepo[call[c].task].state = "none"
               \/ taskRepo[call[c].task].state = call[c].copy.state
         \/ \E label, k :
              /\ Goto(c, label, k) /\ label # "idle" /\ k.state = call[c].copy.state
              /\ CallStands([pc |-> label, task |-> call[c].task, copy |-> k])
  PROVE  Told'
<1> DEFINE t == call[c].task
<1>1. /\ t \in Task /\ taskRepo[t].state # "Queued" /\ Sound(eventRepo[t])
      /\ Ends(eventRepo[t], call[c].copy.state)
  BY BusyCall DEF LifeInv, Told
<1>2. CASE /\ Return(c)
           /\ \/ taskRepo[call[c].task].state = "none"
              \/ taskRepo[call[c].task].state = call[c].copy.state
  <2>1. call' = [call EXCEPT ![c] = Idle] /\ Idle.pc = "idle" /\ Idle.task = None
    BY <1>2 DEF Return, Idle
  <2>2. QED
    BY <1>1, <1>2, <2>1, ToldStep
<1>3. ASSUME NEW label, NEW k, Goto(c, label, k), label # "idle",
             k.state = call[c].copy.state,
             CallStands([pc |-> label, task |-> call[c].task, copy |-> k])
      PROVE  Told'
  <2> DEFINE j == [pc |-> label, task |-> t, copy |-> k]
  <2>1. /\ call' = [call EXCEPT ![c] = j] /\ j.pc # "idle" /\ j.task = t /\ j.copy = k
        /\ CallStands(j)
    BY <1>3 DEF Goto
  <2> HIDE DEF j
  <2>2. \A x : x = j => CallStands(x)'
    BY <2>1 DEF CallStands
  <2>3. QED
    BY <1>1, <1>3, <2>1, <2>2, ToldStep
<1>4. QED
  BY <1>2, <1>3

LEMMA RecordTold ==
  ASSUME LifeInv, LifeInv', Told, NEW c \in Caller,
         \/ PrepareRoute(c) \/ DispatchRoute(c) \/ ExecuteRoute(c) \/ Validate(c)
         \/ Aggregate(c) \/ Succeed(c) \/ AwaitApproval(c) \/ Grant(c)
  PROVE  Told'
<1>1. PICK label, state, next :
        /\ Record(c, label, state, next)
        /\ \/ label = "graph" /\ state = "GraphBuilding" /\ next = "delegate"
           \/ label = "delegate" /\ state = "Delegating" /\ next = "execute"
           \/ label = "execute" /\ state = "Executing" /\ next = "result"
           \/ label = "validate" /\ state = "Validating" /\ next = "valResult"
           \/ label = "aggregate" /\ state = "Aggregating" /\ next = "succeed"
           \/ label = "succeed" /\ state = "Succeeded" /\ next = "save"
           \/ label = "wait" /\ state = "WaitingApproval" /\ next = "waitEvent"
           \/ label = "grant" /\ state = "Executing" /\ next = "grantSave"
  BY DEF PrepareRoute, DispatchRoute, ExecuteRoute, Validate, Aggregate, Succeed,
         AwaitApproval, Grant
<1> DEFINE t == call[c].task
<1> DEFINE from == call[c].copy.state
<1> DEFINE k == [call[c].copy EXCEPT !.state = state]
<1>2. /\ call[c].pc = label /\ label # "idle" /\ next # "idle" /\ CallStands(call[c])
      /\ CallKnows(call[c])
      /\ Sound(eventRepo[t]) /\ Ends(eventRepo[t], from)
      /\ UNCHANGED << taskRepo, ticketRepo, issued, ran >>
  BY <1>1, BusyCall DEF Record, At, Told, LifeInv, CallsKnow
<1>3. ValidTransition(from, state) /\ state \in TaskState
  BY <1>1, <1>2 DEF CallStands, CallKnows, ValidTransition, TaskState
<1>4. AppendEvents(t, << StateEvent(from, state) >>) /\ Goto(c, next, k)
  BY <1>1, <1>3 DEF Record
<1>5. from \in TaskState /\ eventRepo[t] \in Seq(Event) /\ k.state = state
  BY <1>2, CopyType, BusyCall DEF LifeInv, ProtocolInv, TypeInv, TypeOK, TaskRecord
<1>6. LET new == eventRepo[t] \o << StateEvent(from, state) >>
      IN  Sound(new) /\ Ends(new, state)
  BY <1>2, <1>3, <1>5, MoveIsSound
<1>7. CallStands([pc |-> next, task |-> t, copy |-> k])
  <2> DEFINE j == [pc |-> next, task |-> t, copy |-> k]
  <2>1. j.pc = next /\ j.task = t /\ j.copy.state = state
    BY <1>5
  <2> HIDE DEF j, k
  <2>2. CallStands(j)
    BY <1>1, <2>1 DEF CallStands, Cancelling
  <2>3. QED
    BY <2>2 DEF j
<1>8. QED
  <2> HIDE DEF k
  <2>1. QED
    BY <1>2, <1>4, <1>5, <1>6, <1>7, AppendedTold

LEMMA NodeEventTold ==
  ASSUME LifeInv, LifeInv', Told, NEW c \in Caller,
         \/ CompleteNode(c) \/ CompleteValidation(c) \/ NoteApproval(c)
         \/ NoteRejection(c) \/ NoteGrant(c)
  PROVE  Told'
<1>1. PICK label, kind, done, next :
        /\ RecordNode(c, label, kind, done, next)
        /\ kind \in EventKind \ { "StateTransition" }
        /\ \/ label = "nodeEvent" /\ next = "validate"
           \/ label = "valEvent" /\ next = "aggregate"
           \/ label = "waitEvent" /\ next = "waitTicket"
           \/ label = "rejectEvent" /\ next = "fail"
           \/ label = "grantEvent" /\ next = "grant"
  BY DEF CompleteNode, CompleteValidation, NoteApproval, NoteRejection, NoteGrant, EventKind
<1> DEFINE t == call[c].task
<1> DEFINE state == call[c].copy.state
<1> DEFINE k == [call[c].copy EXCEPT !.completed = @ \cup done]
<1>2. /\ call[c].pc = label /\ label # "idle" /\ next # "idle" /\ CallStands(call[c])
      /\ Sound(eventRepo[t]) /\ Ends(eventRepo[t], state)
      /\ UNCHANGED << taskRepo, ticketRepo, issued, ran >>
      /\ AppendEvents(t, << NodeEvent(kind, state) >>) /\ Goto(c, next, k)
  BY <1>1, BusyCall DEF RecordNode, At, Told, LifeInv
<1>3. state \in TaskState /\ eventRepo[t] \in Seq(Event) /\ k.state = state
  BY <1>2, CopyType, BusyCall DEF LifeInv, ProtocolInv, TypeInv, TypeOK, TaskRecord
<1>4. LET new == eventRepo[t] \o << NodeEvent(kind, state) >>
      IN  Sound(new) /\ Ends(new, state)
  BY <1>1, <1>2, <1>3, NoteIsSound
<1>5. CallStands([pc |-> next, task |-> t, copy |-> k])
  <2> DEFINE j == [pc |-> next, task |-> t, copy |-> k]
  <2>1. j.pc = next /\ j.task = t /\ j.copy.state = state
    BY <1>3
  <2> HIDE DEF j, k
  <2>2. CallStands(j)
    BY <1>1, <1>2, <2>1 DEF CallStands, Cancelling
  <2>3. QED
    BY <2>2 DEF j
<1>6. QED
  <2> HIDE DEF k
  <2>1. QED
    BY <1>2, <1>3, <1>4, <1>5, AppendedTold

LEMMA BatchTold ==
  ASSUME LifeInv, LifeInv', Told, NEW c \in Caller, Fail(c) \/ CancelTask(c)
  PROVE  Told'
<1> DEFINE t == call[c].task
<1> DEFINE state == call[c].copy.state
<1>1. /\ call[c].pc \in { "fail", "cancelEvents" } /\ CallStands(call[c])
      /\ Sound(eventRepo[t]) /\ Ends(eventRepo[t], state)
      /\ state \in TaskState /\ eventRepo[t] \in Seq(Event) /\ call[c].copy \in TaskRecord
      /\ UNCHANGED << taskRepo, ticketRepo, issued, ran >>
  BY BusyCall, CopyType
  DEF Fail, CancelTask, At, Told, LifeInv, ProtocolInv, TypeInv, TypeOK
<1>2. \A k : k.state \in { "Failed", "DeadLetter", "Cancelled" } =>
        CallStands([pc |-> "save", task |-> t, copy |-> k])
  <2> SUFFICES ASSUME NEW k, k.state \in { "Failed", "DeadLetter", "Cancelled" }
               PROVE  CallStands([pc |-> "save", task |-> t, copy |-> k])
    OBVIOUS
  <2> DEFINE j == [pc |-> "save", task |-> t, copy |-> k]
  <2>1. j.pc = "save" /\ j.copy = k
    OBVIOUS
  <2> HIDE DEF j
  <2>2. CallStands(j)
    BY <2>1 DEF CallStands, Cancelling
  <2>3. QED
    BY <2>2 DEF j
<1>3. CASE Fail(c)
  <2> DEFINE n == call[c].copy.attempts + 1
  <2> DEFINE after == FailureState(n, MaxAttempts)
  <2> DEFINE k == [call[c].copy EXCEPT !.attempts = @ + 1, !.state = after]
  <2>1. AppendEvents(t, FailureEvents(state, n, MaxAttempts)) /\ Goto(c, "save", k)
    BY <1>3 DEF Fail, FailureBatch
  <2>2. LET new == eventRepo[t] \o FailureEvents(state, n, MaxAttempts)
        IN  Sound(new) /\ Ends(new, after)
    BY <1>1, FailureIsSound
  <2>3. after \in { "Failed", "DeadLetter" }
    BY DEF FailureState
  <2>4. k.state = after
    <3> HIDE DEF after
    <3>1. \A r \in TaskRecord : [r EXCEPT !.attempts = @ + 1, !.state = after].state = after
      BY DEF TaskRecord
    <3>2. QED
      BY <1>1, <3>1
  <2> HIDE DEF k, after, n
  <2>5. CallStands([pc |-> "save", task |-> t, copy |-> k])
    BY <1>2, <2>3, <2>4
  <2>6. QED
    BY <1>1, <2>1, <2>2, <2>4, <2>5, AppendedTold
<1>4. CASE CancelTask(c)
  <2> DEFINE comp == call[c].copy.completed # {}
  <2> DEFINE k == [call[c].copy EXCEPT !.state = "Cancelled"]
  <2>1. AppendEvents(t, CancellationEvents(state, comp)) /\ Goto(c, "save", k)
        /\ call[c].pc = "cancelEvents"
    BY <1>4 DEF CancelTask, CancellationBatch, At
  <2>2. state # "Queued" /\ state \notin NotCancellable /\ comp \in BOOLEAN
    BY <1>1, <2>1 DEF CallStands, Cancelling
  <2>3. k.state = "Cancelled"
    BY <1>1 DEF TaskRecord
  <2> HIDE DEF k, comp
  <2>4. LET new == eventRepo[t] \o CancellationEvents(state, comp)
        IN  Sound(new) /\ Ends(new, "Cancelled")
    BY <1>1, <2>2, CancellationIsSound
  <2>5. CallStands([pc |-> "save", task |-> t, copy |-> k])
    BY <1>2, <2>3
  <2>6. QED
    BY <1>1, <2>1, <2>3, <2>4, <2>5, AppendedTold
<1>5. QED
  BY <1>3, <1>4

\* Steps that log and save nothing.
LEMMA OtherTold ==
  ASSUME LifeInv, LifeInv', Told, NEW c \in Caller,
         \/ SaveRouteResult(c) \/ SaveValidation(c) \/ SaveRunResult(c) \/ RunFrozen(c)
         \/ RaiseTicket(c) \/ ApproveTicket(c) \/ RejectTicket(c) \/ CancelTicket(c)
         \/ FinishLoop(c) \/ Freeze(c) \/ ValidateResume(c) \/ LoadTicketToCancel(c)
  PROVE  Told'
<1> DEFINE t == call[c].task
<1> DEFINE state == call[c].copy.state
<1>1. /\ call[c].pc # "idle" /\ CallStands(call[c])
      /\ UNCHANGED << eventRepo, taskRepo >>
      /\ call[c].copy \in TaskRecord /\ t \in Task
  BY CopyType
  DEF SaveRouteResult, SaveValidation, SaveRunResult, SaveResult, RunFrozen, RaiseTicket,
      ApproveTicket, RejectTicket, CancelTicket, SaveTicket, FinishLoop, Freeze,
      ValidateResume, LoadTicketToCancel, At, repos, Told, LifeInv, ProtocolInv
<1>2. Local(c)
  <2>1. ticketRepo' = ticketRepo \/ \E status : ticketRepo' = [ticketRepo EXCEPT ![t] = status]
    BY DEF SaveRouteResult, SaveValidation, SaveRunResult, SaveResult, RunFrozen, RaiseTicket,
      ApproveTicket, RejectTicket, CancelTicket, SaveTicket, FinishLoop, Freeze,
      ValidateResume, LoadTicketToCancel, repos
  <2>2. ran' = ran \/ ran' = [ran EXCEPT ![t] = @ + 1]
    BY DEF SaveRouteResult, SaveValidation, SaveRunResult, SaveResult, RunFrozen, RaiseTicket,
      ApproveTicket, RejectTicket, CancelTicket, SaveTicket, FinishLoop, Freeze,
      ValidateResume, LoadTicketToCancel, repos
  <2>3. issued' = issued
    BY DEF SaveRouteResult, SaveValidation, SaveRunResult, SaveResult, RunFrozen, RaiseTicket,
      ApproveTicket, RejectTicket, CancelTicket, SaveTicket, FinishLoop, Freeze,
      ValidateResume, LoadTicketToCancel, repos
  <2>4. QED
    BY <1>1, <2>1, <2>2, <2>3 DEF Local, LifeInv, ProtocolInv, TypeInv, TypeOK
<1>3. CASE Return(c)
  <2>1. call[c].pc \in { "loop", "frozenCheck", "cancelTicket" }
    BY <1>1, <1>3
    DEF Return, SaveRouteResult, SaveValidation, SaveRunResult, SaveResult, RunFrozen,
      RaiseTicket, ApproveTicket, RejectTicket, CancelTicket, SaveTicket, FinishLoop, Freeze,
      ValidateResume, LoadTicketToCancel, At, Goto, Idle, LifeInv, ProtocolInv, TypeInv, TypeOK
  <2>2. taskRepo[t].state = "none" \/ taskRepo[t].state = state
    BY <1>1, <2>1 DEF CallStands
  <2>3. QED
    BY <1>1, <1>2, <1>3, <2>2, SilentTold
<1>4. ASSUME ~ Return(c) PROVE Told'
  <2>1. PICK label, k :
          /\ Goto(c, label, k) /\ label # "idle" /\ k.state = state
          /\ \/ call[c].pc = "result" /\ label \in { "nodeEvent", "fail", "freeze" }
             \/ call[c].pc = "valResult" /\ label = "valEvent"
             \/ call[c].pc = "runResult" /\ label \in { "nodeEvent", "fail" }
             \/ call[c].pc = "run" /\ label = "runResult"
             \/ call[c].pc = "loop" /\ label = "graph"
             \/ call[c].pc = "freeze" /\ label = "wait"
             \/ call[c].pc = "cancelTicket" /\ label \in { "cancelTicketSave", "cancelEvents" }
             \/ call[c].pc = "cancelTicketSave" /\ label = "cancelEvents"
             \/ label \in { "save", "grantEvent", "rejectEvent", "approveTicket" }
    <3>1. \A pending : [call[c].copy EXCEPT !.pending = pending].state = state
      BY SMTT(30), <1>1 DEF TaskRecord
    <3>2. CASE SaveRouteResult(c) \/ SaveValidation(c) \/ SaveRunResult(c) \/ RunFrozen(c)
      BY <3>2 DEF SaveRouteResult, SaveValidation, SaveRunResult, SaveResult, RunFrozen, At
    <3>3. CASE RaiseTicket(c) \/ ApproveTicket(c) \/ RejectTicket(c) \/ CancelTicket(c)
      <4>1. PICK label, status, next :
              /\ SaveTicket(c, label, status, next)
              /\ \/ label = "waitTicket" /\ next = "save"
                 \/ label = "approveTicket" /\ next = "grantEvent"
                 \/ label = "rejectTicket" /\ next = "rejectEvent"
                 \/ label = "cancelTicketSave" /\ next = "cancelEvents"
        BY <3>3 DEF RaiseTicket, ApproveTicket, RejectTicket, CancelTicket
      <4> DEFINE k2 == [call[c].copy EXCEPT !.pending = (status = "Pending")]
      <4>2. Goto(c, next, k2) /\ call[c].pc = label /\ k2.state = state
        BY <3>1, <4>1 DEF SaveTicket, At
      <4> HIDE DEF k2
      <4>3. QED
        BY <4>1, <4>2
    <3>4. CASE FinishLoop(c) \/ Freeze(c) \/ ValidateResume(c)
      BY <1>4, <3>4 DEF FinishLoop, Freeze, ValidateResume, At
    <3>5. CASE LoadTicketToCancel(c)
      <4> DEFINE k2 == [call[c].copy EXCEPT !.pending = FALSE]
      <4>1. call[c].pc = "cancelTicket"
            /\ (Goto(c, "cancelTicketSave", call[c].copy) \/ Goto(c, "cancelEvents", k2))
        <5>1. CASE ticketRepo[t] = "none"
          BY <1>4, <3>5, <5>1 DEF LoadTicketToCancel
        <5>2. CASE ticketRepo[t] = "Pending"
          BY <3>5, <5>2 DEF LoadTicketToCancel, At
        <5>3. CASE ticketRepo[t] \notin { "none", "Pending" }
          BY <3>5, <5>3 DEF LoadTicketToCancel, At
        <5>4. QED
          BY <5>1, <5>2, <5>3
      <4>2. k2.state = state
        BY <3>1
      <4> HIDE DEF k2
      <4>3. QED
        BY <4>1, <4>2
    <3>6. QED
      BY <3>2, <3>3, <3>4, <3>5
  <2> DEFINE j == [pc |-> label, task |-> t, copy |-> k]
  <2>2. j.pc = label /\ j.task = t /\ j.copy.state = state
    BY <2>1
  <2> HIDE DEF j
  <2>3. CallStands(j)
    BY <1>1, <2>1, <2>2 DEF CallStands, Cancelling
  <2>4. QED
    BY <1>1, <1>2, <2>1, <2>3, SilentTold DEF j
<1>5. QED
  BY <1>3, <1>4

\* What is saved is the state the log ends in.
LEMMA SaveTold ==
  ASSUME LifeInv, LifeInv', Told, NEW c \in Caller, Finish(c) \/ SaveGrant(c)
  PROVE  Told'
<1> DEFINE t == call[c].task
<1>1. /\ call[c].pc \in { "save", "grantSave" } /\ CallStands(call[c]) /\ t \in Task
      /\ CallKnows(call[c])
      /\ taskRepo' = [taskRepo EXCEPT ![t] = call[c].copy]
      /\ UNCHANGED << eventRepo, ticketRepo, issued, ran >>
      /\ Sound(eventRepo[t]) /\ Ends(eventRepo[t], call[c].copy.state)
  BY CopyType DEF Finish, SaveGrant, SaveTask, At, LifeInv, ProtocolInv, Told, CallsKnow
<1>2. taskRepo'[t] = call[c].copy /\ Local(c) /\ call[c].copy.state # "Queued"
  BY <1>1 DEF Local, LifeInv, ProtocolInv, TypeInv, TypeOK, CallStands
<1>3. CASE Finish(c)
  <2>1. call' = [call EXCEPT ![c] = Idle] /\ Idle.pc = "idle" /\ Idle.task = None
    BY <1>3 DEF Finish, SaveTask, Return, Idle
  <2>2. QED
    BY <1>1, <1>2, <2>1, ToldStep
<1>4. CASE SaveGrant(c)
  <2> DEFINE j == [pc |-> "run", task |-> t, copy |-> call[c].copy]
  <2>1. call[c].pc = "grantSave" /\ call' = [call EXCEPT ![c] = j]
    BY <1>4 DEF SaveGrant, SaveTask, At, Goto
  <2>2. j.pc = "run" /\ j.task = t /\ j.copy = call[c].copy
    OBVIOUS
  <2> HIDE DEF j
  <2>3. \A x : x = j => CallStands(x)'
    BY <1>1, <2>1, <2>2 DEF CallStands, CallKnows, Cancelling
  <2>4. QED
    BY <1>1, <1>2, <2>1, <2>2, <2>3, ToldStep
<1>5. QED
  BY <1>3, <1>4

\* A call starts with a new log, or where the log of its task ends.
LEMMA EntryTold ==
  ASSUME Serialized, LifeInv, LifeInv', Told, NEW c \in Caller, NEW t \in Task,
         Submit(c, t) \/ Cancel(c, t) \/ \E approved \in BOOLEAN : Decide(c, t, approved)
  PROVE  Told'
<1>1. /\ \A d \in Caller : call[d].task # t
      /\ UNCHANGED << taskRepo, ticketRepo, ran >> /\ call[c].pc = "idle"
      /\ call[c].task = None /\ issued \subseteq issued'
  BY DEF Submit, Cancel, Decide, MayEnter, At, repos, LifeInv, ProtocolInv, OnlyIssued,
     NoTaskWhenIdle
<1>2. \E label, k :
        /\ Enter(c, t, label, k) /\ label # "idle"
        /\ CallStands([pc |-> label, task |-> t, copy |-> k])
        /\ Sound(eventRepo'[t]) /\ Ends(eventRepo'[t], k.state)
        /\ \A u \in Task \ {t} : eventRepo'[u] = eventRepo[u]
        /\ \A u \in Task \ issued' : u # t
  <2>1. CASE Submit(c, t)
    <3> DEFINE k == [NoTask EXCEPT !.state = "Planning"]
    <3> DEFINE j == [pc |-> "loop", task |-> t, copy |-> k]
    <3>1. /\ j.pc = "loop" /\ j.task = t /\ j.copy.state = "Planning" /\ k.state = "Planning"
          /\ taskRepo[t].state = "none" /\ eventRepo[t] = << >>
          /\ t \in issued'
      BY <2>1 DEF Submit, LifeInv, ProtocolInv, OnlyIssued, NoTask, Told
    <3>2. Enter(c, t, "loop", k) /\ AppendEvents(t, << StateEvent("Queued", "Planning") >>)
      BY <2>1 DEF Submit
    <3> HIDE DEF j, k
    <3>3. CallStands(j)
      BY <3>1 DEF CallStands, Cancelling
    <3>4. /\ eventRepo'[t] = eventRepo[t] \o << StateEvent("Queued", "Planning") >>
          /\ \A u \in Task \ {t} : eventRepo'[u] = eventRepo[u]
          /\ eventRepo[t] \in Seq(Event) /\ Sound(eventRepo[t])
      BY <3>2 DEF AppendEvents, LifeInv, ProtocolInv, TypeInv, TypeOK, Told
    <3>5. ValidTransition("Queued", "Planning") /\ { "Queued", "Planning" } \subseteq TaskState
      BY DEF ValidTransition, TaskState
    <3>6. Sound(eventRepo'[t]) /\ Ends(eventRepo'[t], "Planning")
      BY <3>1, <3>4, <3>5, MoveIsSound
    <3>7. QED
      BY <3>1, <3>2, <3>3, <3>4, <3>6 DEF j
  <2>2. CASE Cancel(c, t) \/ \E approved \in BOOLEAN : Decide(c, t, approved)
    <3>1. PICK label : /\ Enter(c, t, label, taskRepo[t]) /\ label # "idle"
                       /\ taskRepo[t].state # "none"
                       /\ \/ label \in { "frozenCheck", "rejectTicket" }
                          \/ /\ label \in { "cancelTicket", "cancelEvents" }
                             /\ taskRepo[t].state \notin NotCancellable
      BY <2>2 DEF Cancel, Decide, NotCancellable
    <3>2. /\ UNCHANGED << eventRepo, issued >> /\ taskRepo[t].state # "Queued"
          /\ Sound(eventRepo[t]) /\ Ends(eventRepo[t], taskRepo[t].state)
      BY <1>1, <2>2, <3>1 DEF Cancel, Decide, repos, Told, InFlight
    <3> DEFINE j == [pc |-> label, task |-> t, copy |-> taskRepo[t]]
    <3>3. j.pc = label /\ j.task = t /\ j.copy = taskRepo[t]
      OBVIOUS
    <3> HIDE DEF j
    <3>4. CallStands(j)
      BY <3>1, <3>2, <3>3 DEF CallStands, Cancelling
    <3>5. \A u \in Task \ issued : u # t
      BY <3>1 DEF LifeInv, ProtocolInv, OnlyIssued
    <3>6. QED
      BY <3>1, <3>2, <3>4, <3>5 DEF j
  <2>3. QED
    BY <2>1, <2>2
<1>3. PICK label, k :
        /\ Enter(c, t, label, k) /\ label # "idle"
        /\ CallStands([pc |-> label, task |-> t, copy |-> k])
        /\ Sound(eventRepo'[t]) /\ Ends(eventRepo'[t], k.state)
        /\ \A u \in Task \ {t} : eventRepo'[u] = eventRepo[u]
        /\ \A u \in Task \ issued' : u # t
  BY <1>2
<1> DEFINE j == [pc |-> label, task |-> t, copy |-> k]
<1>4. /\ j.pc # "idle" /\ j.task = t /\ j.copy = k /\ CallStands(j)
      /\ call' = [call EXCEPT ![c] = j]
  BY <1>3 DEF Enter
<1> HIDE DEF j
<1>5. call'[c] = j /\ \A d \in Caller : d # c => call'[d] = call[d]
  BY <1>4 DEF LifeInv, ProtocolInv, TypeInv, TypeOK
<1>6. \A u \in Task \ issued' : eventRepo'[u] = << >>
  BY <1>1, <1>3 DEF Told
<1>7. \A u \in Task :
        /\ Sound(eventRepo'[u]) /\ taskRepo'[u].state # "Queued"
        /\ ~ InFlight(u)' /\ taskRepo'[u].state # "none" =>
             Ends(eventRepo'[u], taskRepo'[u].state)
  <2>1. \A u \in Task : u # t /\ InFlight(u) => InFlight(u)'
    BY <1>1, <1>5, ConstantsAssumption DEF InFlight
  <2>2. InFlight(t)'
    BY <1>4, <1>5 DEF InFlight
  <2>3. QED
    BY <1>1, <1>3, <2>1, <2>2 DEF Told
<1>8. ASSUME NEW d \in Caller, call'[d].pc # "idle"
      PROVE  CallStands(call[d])' /\ Ends(eventRepo'[call'[d].task], call'[d].copy.state)
  <2>1. CASE d = c
    BY <1>1, <1>3, <1>4, <1>5, <2>1 DEF CallStands
  <2>2. CASE d # c
    <3>1. call'[d] = call[d] /\ call[d].task \in Task \ {t}
      BY <1>1, <1>5, <1>8, <2>2, CopyType DEF LifeInv, ProtocolInv
    <3>2. CallStands(call[d]) /\ Ends(eventRepo[call[d].task], call[d].copy.state)
      BY <1>8, <3>1 DEF Told
    <3>3. QED
      BY <1>1, <1>3, <3>1, <3>2 DEF CallStands
  <2>3. QED
    BY <2>1, <2>2
<1>9. QED
  BY <1>6, <1>7, <1>8 DEF Told

LEMMA NextTold ==
  ASSUME Serialized, FreshIds, Durable, TellInv, [Next]_vars
  PROVE  TellInv'
<1>1. LifeInv /\ LifeInv'
  BY NextLife DEF TellInv
<1> SUFFICES ASSUME faults' = 0 PROVE Told'
  BY <1>1 DEF TellInv
<1>2. ASSUME NEW c \in Caller, Proceed(c), Told PROVE Told'
  BY <1>1, <1>2, RecordTold, NodeEventTold, BatchTold, OtherTold, SaveTold DEF Proceed
<1>3. CASE faults # 0
  <2>1. faults \in Nat
    BY <1>1 DEF LifeInv, ProtocolInv, TypeInv, TypeOK
  <2>2. faults' = faults \/ faults' = faults + 1
    <3>1. CASE UNCHANGED vars
      BY SMTT(30), <3>1 DEF vars
    <3>2. ASSUME NEW c \in Caller, Proceed(c) PROVE faults' = faults
      BY ZenonT(30), <3>2 DEF Proceed, FinishLoop, PrepareRoute, DispatchRoute, ExecuteRoute,
        SaveRouteResult, CompleteNode, Validate, SaveValidation, CompleteValidation,
        Aggregate, Succeed, Finish, Fail, Freeze, AwaitApproval, NoteApproval, RaiseTicket,
        ValidateResume, ApproveTicket, NoteGrant, Grant, SaveGrant, RunFrozen, SaveRunResult,
        RejectTicket, NoteRejection, LoadTicketToCancel, CancelTicket, CancelTask,
        Record, RecordNode, SaveResult, SaveTicket, SaveTask
    <3>3. CASE Next
      BY <3>2, <3>3 DEF Next, Submit, Decide, Cancel, RepoError, Crash
    <3>4. QED
      BY <3>1, <3>3
  <2>3. QED
    BY <1>3, <2>1, <2>2
<1>4. CASE faults = 0
  <2>1. Told
    BY <1>4 DEF TellInv
  <2>2. ~ Crash /\ \A c \in Caller : ~ RepoError(c)
    BY <1>4 DEF Crash, RepoError
  <2>3. CASE Next
    BY <1>1, <1>2, <2>1, <2>2, <2>3, EntryTold DEF Next
  <2>4. CASE UNCHANGED vars
    BY <2>1, <2>4 DEF vars, repos, Told, CallStands, InFlight
  <2>5. QED
    BY <2>3, <2>4
<1>5. QED
  BY <1>3, <1>4

\* A log that is sound and ends in the persisted state replays to it.
LEMMA SoundReplays ==
  ASSUME NEW log \in Seq(Event), Sound(log), NEW s, Ends(log, s)
  PROVE  ReplayStatus(s, log) = "Consistent"
<1>1. PICK i \in StateEvents(log) : log[i].to = s /\ \A j \in StateEvents(log) : j <= i
  BY DEF Ends
<1> DEFINE last == CHOOSE l \in StateEvents(log) : \A j \in StateEvents(log) : j <= l
<1>2. last \in StateEvents(log) /\ \A j \in StateEvents(log) : j <= last
  BY <1>1
<1>3. last = i
  <2>1. StateEvents(log) \subseteq Nat
    BY DEF StateEvents
  <2>2. i <= last /\ last <= i /\ i \in Nat /\ last \in Nat
    BY <1>1, <1>2, <2>1
  <2> HIDE DEF last
  <2>3. QED
    BY <2>2
<1>4. ReplayedState(s, log) = s
  BY <1>1, <1>3 DEF ReplayedState
<1>5. QED
  BY <1>4 DEF ReplayStatus, Sound

\* Unless something fails, the log of a task is one chain of valid moves, whatever
\* calls added to it, and a task that no call works on replays to its persisted
\* state (LogTellsState): replay_consistency_status reports Consistent then.
THEOREM LogAlwaysTells ==
  ASSUME Serialized, FreshIds, Durable
  PROVE  Spec => []LogTellsState
<1>1. Init => TellInv
  <2> SUFFICES ASSUME Init PROVE Told
    BY InitLife DEF TellInv
  <2>1. Sound(<< >>)
    BY DEF Sound, TransitionsValid, Chained, StateEvents
  <2>2. QED
    BY <2>1 DEF Init, Told, NoTask, Idle
<1>2. TellInv /\ [Next]_vars => TellInv'
  BY NextTold
<1>3. TellInv => LogTellsState
  <2> SUFFICES ASSUME TellInv, faults = 0, NEW t \in Task
               PROVE  /\ TransitionsValid(eventRepo[t]) /\ Chained(eventRepo[t])
                      /\ ~ InFlight(t) /\ taskRepo[t].state # "none" =>
                           ReplayStatus(taskRepo[t].state, eventRepo[t]) = "Consistent"
    BY DEF LogTellsState
  <2>1. /\ Sound(eventRepo[t])
        /\ ~ InFlight(t) /\ taskRepo[t].state # "none" =>
             Ends(eventRepo[t], taskRepo[t].state)
    BY DEF TellInv, Told
  <2>2. eventRepo[t] \in Seq(Event)
    BY DEF TellInv, LifeInv, ProtocolInv, TypeInv, TypeOK
  <2>3. QED
    BY <2>1, <2>2, SoundReplays DEF Sound
<1>4. QED
  BY <1>1, <1>2, <1>3, PTL DEF Spec
=============================================================================
