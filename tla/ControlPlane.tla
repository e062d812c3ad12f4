---------------------------- MODULE ControlPlane ----------------------------
(***************************************************************************)
(* RuntimeService: the task lifecycle and its approvals over the           *)
(* control-plane repositories.                                             *)
(*                                                                         *)
(* The service keeps its repositories behind one mutex that every helper   *)
(* takes for a single load, save or append; a handler works on a private   *)
(* copy of the task between two helpers.  The model therefore has one      *)
(* action per critical section, and other calls, a failing repository and  *)
(* a crash of the process may come between any two of them.                *)
(*                                                                         *)
(* Source: roku-agent-runtime/src/service/{mod,execution,direct,           *)
(* data_plane}.rs, the repositories of roku-memory/src/control_plane and   *)
(* of roku-plugins/memory-sqlite.                                          *)
(***************************************************************************)
EXTENDS TaskStateMachine, FiniteSets

CONSTANTS
  Task,          \* task ids, one per request id
  Caller,        \* threads that may be inside the service at the same time
  None,          \* the job of a thread that is inside no call
  Entry,         \* entry points the deployment exposes, out of EntryPoint
  MaxAttempts,   \* OrchestratorConfig::max_attempts
  Durable,       \* SQLite repositories (TRUE) or in-memory ones (FALSE)
  FreshIds,      \* request ids survive a restart (FALSE: the gateway's counter)
  Serialized,    \* at most one call at a time works on a given task
  MaxFaults      \* bound on crashes and repository errors in a behaviour

EntryPoint == { "execute", "decide", "cancel" }

ASSUME ConstantsAssumption ==
  /\ None \notin Task
  /\ Entry \subseteq EntryPoint
  /\ MaxAttempts \in Nat \ {0}
  /\ { Durable, FreshIds, Serialized } \subseteq BOOLEAN
  /\ MaxFaults \in Nat

Node == { "node", "validation" }   \* the two nodes of the direct route

\* "none" stands for a record the repository does not hold.
TaskRecord ==
  [state : TaskState \cup {"none"}, attempts : Nat, pending : BOOLEAN,
   completed : SUBSET Node]

NoTask ==
  [state |-> "none", attempts |-> 0, pending |-> FALSE, completed |-> {}]

TicketStatus == { "Pending", "Approved", "Rejected", "Cancelled" }

\* Where a call stands: the critical section it enters next.
Label ==
  { "idle", "loop",
    "graph", "delegate", "execute", "result",
    "freeze", "wait", "waitEvent", "waitTicket",
    "nodeEvent", "validate", "valResult", "valEvent", "aggregate", "succeed",
    "frozenCheck", "approveTicket", "grantEvent", "grant", "grantSave",
    "run", "runResult", "rejectTicket", "rejectEvent",
    "cancelTicket", "cancelTicketSave", "cancelEvents",
    "fail", "save" }

Call == [pc : Label, task : Task \cup {None}, copy : TaskRecord]

Idle == [pc |-> "idle", task |-> None, copy |-> NoTask]

VARIABLES
  taskRepo,     \* persisted tasks
  eventRepo,    \* persisted event logs
  ticketRepo,   \* persisted approval tickets, one per task and node
  resultRepo,   \* nodes whose result is persisted
  frozen,       \* tasks with a frozen payload; memory only
  issued,       \* task ids given out since the ids were last reset
  call,         \* what each thread is doing
  ran,          \* history: executions of the task's frozen invocation
  faults        \* crashes and repository errors so far

repos == << taskRepo, eventRepo, ticketRepo, resultRepo >>
vars  == << repos, frozen, issued, call, ran, faults >>

Init ==
  /\ taskRepo   = [t \in Task |-> NoTask]
  /\ eventRepo  = [t \in Task |-> << >>]
  /\ ticketRepo = [t \in Task |-> "none"]
  /\ resultRepo = [t \in Task |-> {}]
  /\ frozen = {}
  /\ issued = {}
  /\ call   = [c \in Caller |-> Idle]
  /\ ran    = [t \in Task |-> 0]
  /\ faults = 0

-----------------------------------------------------------------------------
(* Helpers: one critical section each.                                     *)

At(c, label) == call[c].pc = label

\* Continue at `label' with task copy k.
Goto(c, label, k) ==
  call' = [call EXCEPT ![c] = [pc |-> label, task |-> @.task, copy |-> k]]

Return(c) == call' = [call EXCEPT ![c] = Idle]

AppendEvents(t, batch) ==
  eventRepo' = [eventRepo EXCEPT ![t] = @ \o batch]

\* record_transition: validate the move, change the copy, log the move.  A
\* move the table does not allow ends the call with an error.
Record(c, label, state, next) ==
  LET from == call[c].copy.state
  IN  /\ At(c, label)
      /\ IF ValidTransition(from, state)
           THEN /\ AppendEvents(call[c].task, << StateEvent(from, state) >>)
                /\ Goto(c, next, [call[c].copy EXCEPT !.state = state])
           ELSE Return(c) /\ UNCHANGED eventRepo
      /\ UNCHANGED << taskRepo, ticketRepo, resultRepo, frozen, issued, ran,
                      faults >>

\* append_node_event, after the node (if any) was marked completed.
RecordNode(c, label, kind, done, next) ==
  /\ At(c, label)
  /\ AppendEvents(call[c].task, << NodeEvent(kind, call[c].copy.state) >>)
  /\ Goto(c, next, [call[c].copy EXCEPT !.completed = @ \cup done])
  /\ UNCHANGED << taskRepo, ticketRepo, resultRepo, frozen, issued, ran, faults >>

SaveResult(c, label, node, next) ==
  /\ At(c, label)
  /\ resultRepo' = [resultRepo EXCEPT ![call[c].task] = @ \cup {node}]
  /\ Goto(c, next, call[c].copy)
  /\ UNCHANGED << taskRepo, eventRepo, ticketRepo, frozen, issued, ran, faults >>

SaveTicket(c, label, status, next) ==
  /\ At(c, label)
  /\ ticketRepo' = [ticketRepo EXCEPT ![call[c].task] = status]
  /\ Goto(c, next, [call[c].copy EXCEPT !.pending = (status = "Pending")])
  /\ UNCHANGED << taskRepo, eventRepo, resultRepo, frozen, issued, ran, faults >>

SaveTask(c, label, next) ==
  /\ At(c, label)
  /\ taskRepo' = [taskRepo EXCEPT ![call[c].task] = call[c].copy]
  /\ IF next = "idle" THEN Return(c) ELSE Goto(c, next, call[c].copy)
  /\ UNCHANGED << eventRepo, ticketRepo, resultRepo, frozen, issued, ran, faults >>

\* A call for task t may start on thread c.
MayEnter(c, entry, t) ==
  /\ entry \in Entry
  /\ At(c, "idle")
  /\ Serialized => \A d \in Caller : call[d].task # t

Enter(c, t, label, k) ==
  call' = [call EXCEPT ![c] = [pc |-> label, task |-> t, copy |-> k]]

-----------------------------------------------------------------------------
(* Variants that no step uses: each is the form a plausible mistake would  *)
(* give to the definition it is named after.                               *)

\* The payload is filed under the thread instead of the task.
FreezeWrongKey(c) ==
  /\ At(c, "freeze")
  /\ frozen' = frozen \cup {c}
  /\ Goto(c, "wait", call[c].copy)
  /\ UNCHANGED << repos, issued, ran, faults >>

\* The payload is not kept.
FreezeNothing(c) ==
  /\ At(c, "freeze")
  /\ Goto(c, "wait", call[c].copy)
  /\ UNCHANGED << repos, frozen, issued, ran, faults >>

\* The ticket's status is not looked at.
DecideUnchecked(c, t, approved) ==
  /\ MayEnter(c, "decide", t)
  /\ taskRepo[t].state = "WaitingApproval"
  /\ Enter(c, t, IF approved THEN "frozenCheck" ELSE "rejectTicket", taskRepo[t])
  /\ UNCHANGED << repos, frozen, issued, ran, faults >>

\* A task that succeeded may be cancelled.
NotCancellableShort == { "none", "DeadLetter", "Cancelled", "CancelRequested", "Compensating" }

\* The ticket is saved approved and the call returns without resuming.
ApproveTicketOnly(c) ==
  /\ At(c, "approveTicket")
  /\ ticketRepo' = [ticketRepo EXCEPT ![call[c].task] = "Approved"]
  /\ Return(c)
  /\ UNCHANGED << taskRepo, eventRepo, resultRepo, frozen, issued, ran, faults >>

\* The cancellation logs no request.
CancellationBatchShort(k) == << StateEvent("CancelRequested", "Cancelled") >>

\* The task is saved before its ticket exists.
NoteApprovalThenSave(c) ==
  RecordNode(c, "waitEvent", "ApprovalPending", {}, "save")

\* The validation result is not saved.
ValidateUnsaved(c) == Record(c, "validate", "Validating", "valEvent")

\* A failure is not logged.
FailUnlogged(c) ==
  LET k == call[c].copy
  IN  /\ At(c, "fail")
      /\ Goto(c, "save", [k EXCEPT !.attempts = @ + 1,
                                   !.state = FailureState(k.attempts + 1, MaxAttempts)])
      /\ UNCHANGED << repos, frozen, issued, ran, faults >>

-----------------------------------------------------------------------------
(* execute_with_mode: a request becomes a task, runs in the tool loop and  *)
(* is finalized.  The task is persisted only at the end of the last path.  *)

Submit(c, t) ==
  /\ MayEnter(c, "execute", t)
  /\ t \notin issued
  /\ issued' = issued \cup {t}
  /\ AppendEvents(t, << StateEvent("Queued", "Planning") >>)
  /\ Enter(c, t, "loop", [NoTask EXCEPT !.state = "Planning"])
  /\ UNCHANGED << taskRepo, ticketRepo, resultRepo, frozen, ran, faults >>

\* The tool loop returns, or an earlier step of the request fails.
FinishLoop(c) ==
  /\ At(c, "loop")
  /\ \/ Goto(c, "graph", call[c].copy)
     \/ Return(c)
  /\ UNCHANGED << repos, frozen, issued, ran, faults >>

PrepareRoute(c)  == Record(c, "graph", "GraphBuilding", "delegate")
DispatchRoute(c) == Record(c, "delegate", "Delegating", "execute")
ExecuteRoute(c)  == Record(c, "execute", "Executing", "result")

\* The result is persisted first; then it is a success, an error, or an
\* error that carries a require_approval decision.
SaveRouteResult(c) ==
  \E next \in { "nodeEvent", "fail", "freeze" } :
    SaveResult(c, "result", "node", next)

-----------------------------------------------------------------------------
(* complete_direct_runtime_path                                            *)

CompleteNode(c)       == RecordNode(c, "nodeEvent", "NodeCompleted", {"node"}, "validate")
Validate(c)           == Record(c, "validate", "Validating", "valResult")
SaveValidation(c)     == SaveResult(c, "valResult", "validation", "valEvent")
CompleteValidation(c) == RecordNode(c, "valEvent", "NodeCompleted", {"validation"}, "aggregate")
Aggregate(c)          == Record(c, "aggregate", "Aggregating", "succeed")
Succeed(c)            == Record(c, "succeed", "Succeeded", "save")

Finish(c) == SaveTask(c, "save", "idle")

-----------------------------------------------------------------------------
(* fail_task: the whole batch is appended under one lock.                  *)

FailureBatch(k) == FailureEvents(k.state, k.attempts + 1, MaxAttempts)

Fail(c) ==
  LET k == call[c].copy
  IN  /\ At(c, "fail")
      /\ AppendEvents(call[c].task, FailureBatch(k))
      /\ Goto(c, "save", [k EXCEPT !.attempts = @ + 1,
                                   !.state = FailureState(k.attempts + 1, MaxAttempts)])
      /\ UNCHANGED << taskRepo, ticketRepo, resultRepo, frozen, issued, ran, faults >>

-----------------------------------------------------------------------------
(* freeze_pending_execution_approval                                       *)

Freeze(c) ==
  /\ At(c, "freeze")
  /\ frozen' = frozen \cup {call[c].task}
  /\ Goto(c, "wait", call[c].copy)
  /\ UNCHANGED << repos, issued, ran, faults >>

AwaitApproval(c) == Record(c, "wait", "WaitingApproval", "waitEvent")
NoteApproval(c)  == RecordNode(c, "waitEvent", "ApprovalPending", {}, "waitTicket")
RaiseTicket(c)   == SaveTicket(c, "waitTicket", "Pending", "save")

-----------------------------------------------------------------------------
(* decide_approval: ticket and task are loaded under one lock and checked; *)
(* nothing is held while the decision is carried out.  A check that fails  *)
(* returns an error and changes nothing.                                   *)

Decide(c, t, approved) ==
  /\ MayEnter(c, "decide", t)
  /\ ticketRepo[t] = "Pending"
  /\ taskRepo[t].state = "WaitingApproval"
  /\ taskRepo[t].pending
  /\ Enter(c, t, IF approved THEN "frozenCheck" ELSE "rejectTicket", taskRepo[t])
  /\ UNCHANGED << repos, frozen, issued, ran, faults >>

\* validated_execution_resume: the frozen payload must still be in memory.
\* The payload itself may be refused too (digest, tool, env policy).
ValidateResume(c) ==
  /\ At(c, "frozenCheck")
  /\ \/ /\ call[c].task \in frozen
        /\ "node" \notin call[c].copy.completed
        /\ Goto(c, "approveTicket", call[c].copy)
     \/ Return(c)
  /\ UNCHANGED << repos, frozen, issued, ran, faults >>

ApproveTicket(c) == SaveTicket(c, "approveTicket", "Approved", "grantEvent")
RejectTicket(c)  == SaveTicket(c, "rejectTicket", "Rejected", "rejectEvent")

NoteRejection(c) == RecordNode(c, "rejectEvent", "ApprovalRejected", {}, "fail")

\* resume_approved_execution_ticket
NoteGrant(c)   == RecordNode(c, "grantEvent", "ApprovalApproved", {}, "grant")
Grant(c)       == Record(c, "grant", "Executing", "grantSave")
SaveGrant(c)   == SaveTask(c, "grantSave", "run")

\* The frozen command or tool invocation is executed.
RunFrozen(c) ==
  /\ At(c, "run")
  /\ ran' = [ran EXCEPT ![call[c].task] = @ + 1]
  /\ Goto(c, "runResult", call[c].copy)
  /\ UNCHANGED << repos, frozen, issued, faults >>

SaveRunResult(c) ==
  \E next \in { "nodeEvent", "fail" } : SaveResult(c, "runResult", "node", next)

-----------------------------------------------------------------------------
(* cancel_task                                                             *)

NotCancellable ==
  { "none", "Succeeded", "DeadLetter", "Cancelled", "CancelRequested",
    "Compensating" }

Cancel(c, t) ==
  /\ MayEnter(c, "cancel", t)
  /\ taskRepo[t].state \notin NotCancellable
  /\ Enter(c, t, IF taskRepo[t].pending THEN "cancelTicket" ELSE "cancelEvents",
           taskRepo[t])
  /\ UNCHANGED << repos, frozen, issued, ran, faults >>

\* cancel_pending_approval_ticket loads the ticket and, if it is still
\* pending, saves it cancelled in a critical section of its own.
LoadTicketToCancel(c) ==
  /\ At(c, "cancelTicket")
  /\ CASE ticketRepo[call[c].task] = "none" -> Return(c)
       [] ticketRepo[call[c].task] = "Pending" ->
            Goto(c, "cancelTicketSave", call[c].copy)
       [] OTHER ->
            Goto(c, "cancelEvents", [call[c].copy EXCEPT !.pending = FALSE])
  /\ UNCHANGED << repos, frozen, issued, ran, faults >>

CancelTicket(c) == SaveTicket(c, "cancelTicketSave", "Cancelled", "cancelEvents")

CancellationBatch(k) == CancellationEvents(k.state, k.completed # {})

CancelTask(c) ==
  LET k == call[c].copy
  IN  /\ At(c, "cancelEvents")
      /\ AppendEvents(call[c].task, CancellationBatch(k))
      /\ Goto(c, "save", [k EXCEPT !.state = "Cancelled"])
      /\ UNCHANGED << taskRepo, ticketRepo, resultRepo, frozen, issued, ran, faults >>

-----------------------------------------------------------------------------
(* Faults, at most MaxFaults of them.                                      *)

\* A repository (or the audit sink) reports an error: the handler returns it
\* and drops its copy of the task.  A batch may have been appended, in part
\* or whole.
RepoError(c) ==
  LET k == call[c].copy
      batch == CASE At(c, "fail")         -> FailureBatch(k)
                 [] At(c, "cancelEvents") -> CancellationBatch(k)
                 [] OTHER                 -> << >>
  IN  /\ Durable
      /\ faults < MaxFaults
      /\ call[c].pc \notin { "idle", "loop", "run" }
      /\ \E n \in 0 .. Len(batch) :
           AppendEvents(call[c].task, SubSeq(batch, 1, n))
      /\ Return(c)
      /\ faults' = faults + 1
      /\ UNCHANGED << taskRepo, ticketRepo, resultRepo, frozen, issued, ran >>

\* The process dies and restarts: every call, every frozen payload and,
\* without SQLite, every record is gone.  The gateway numbers its requests
\* from 1 again; Telegram and the CLI derive their ids from outside.
Crash ==
  /\ faults < MaxFaults
  /\ faults' = faults + 1
  /\ call'   = [c \in Caller |-> Idle]
  /\ frozen' = {}
  /\ issued' = IF FreshIds THEN issued ELSE {}
  /\ IF Durable
       THEN UNCHANGED repos
       ELSE /\ taskRepo'   = [t \in Task |-> NoTask]
            /\ eventRepo'  = [t \in Task |-> << >>]
            /\ ticketRepo' = [t \in Task |-> "none"]
            /\ resultRepo' = [t \in Task |-> {}]
  /\ UNCHANGED ran

-----------------------------------------------------------------------------

\* Every critical section of a call that is under way.
Proceed(c) ==
  \/ FinishLoop(c) \/ PrepareRoute(c) \/ DispatchRoute(c) \/ ExecuteRoute(c)
  \/ SaveRouteResult(c)
  \/ CompleteNode(c) \/ Validate(c) \/ SaveValidation(c)
  \/ CompleteValidation(c) \/ Aggregate(c) \/ Succeed(c) \/ Finish(c) \/ Fail(c)
  \/ Freeze(c) \/ AwaitApproval(c) \/ NoteApproval(c) \/ RaiseTicket(c)
  \/ ValidateResume(c) \/ ApproveTicket(c) \/ NoteGrant(c) \/ Grant(c)
  \/ SaveGrant(c) \/ RunFrozen(c) \/ SaveRunResult(c)
  \/ RejectTicket(c) \/ NoteRejection(c)
  \/ LoadTicketToCancel(c) \/ CancelTicket(c) \/ CancelTask(c)

Next ==
  \/ \E c \in Caller :
       \/ \E t \in Task :
            \/ Submit(c, t)
            \/ \E approved \in BOOLEAN : Decide(c, t, approved)
            \/ Cancel(c, t)
       \/ Proceed(c)
       \/ RepoError(c)
  \/ Crash

\* A call that is under way runs on a thread of its own.
Spec == Init /\ [][Next]_vars /\ \A c \in Caller : WF_vars(Proceed(c))

-----------------------------------------------------------------------------
(* Properties.                                                             *)

TypeOK ==
  /\ taskRepo \in [Task -> TaskRecord]
  /\ eventRepo \in [Task -> Seq(Event)]
  /\ ticketRepo \in [Task -> TicketStatus \cup {"none"}]
  /\ resultRepo \in [Task -> SUBSET Node]
  /\ frozen \subseteq Task
  /\ issued \subseteq Task
  /\ call \in [Caller -> Call]
  /\ ran \in [Task -> Nat]
  /\ faults \in 0 .. MaxFaults

InFlight(t) == \E c \in Caller : call[c].task = t

\* A task persisted as waiting for approval names a ticket that exists and
\* whose node result is persisted: freezing saves the ticket before the task,
\* so no interleaving, error or crash leaves a task that waits for nothing.
WaitingHasTicket ==
  \A t \in Task :
    taskRepo[t].state = "WaitingApproval" =>
      /\ taskRepo[t].pending
      /\ ticketRepo[t] # "none"
      /\ "node" \in resultRepo[t]

\* A task is persisted as succeeded only after both its node and its
\* validation are completed and their results persisted.
SucceededIsBacked ==
  \A t \in Task :
    taskRepo[t].state = "Succeeded" =>
      taskRepo[t].completed = Node /\ resultRepo[t] = Node

\* The event log is written ahead: a task is never persisted in a state that
\* its log does not record it entering.
LogIsAhead ==
  \A t \in Task :
    taskRepo[t].state # "none" =>
      \E i \in DOMAIN eventRepo[t] : eventRepo[t][i].to = taskRepo[t].state

Protocol == INSTANCE Approval WITH ticket <- ticketRepo, runs <- ran

\* The service keeps the approval protocol: a decided ticket is never decided
\* again (decide_approval answers "approval ticket has already been decided",
\* which the gateway maps to 409 Conflict), and a frozen invocation is
\* executed at most once, under a ticket that stays approved.
KeepsApprovalProtocol == Protocol!Spec

\* A ticket that was decided keeps its decision.  This does not hold of two calls
\* that race (Serialized = FALSE): the README shows how to see it.
DecidedStays ==
  [][\A t \in Task :
       ticketRepo[t] \in TicketStatus \ {"Pending"} =>
         ticketRepo'[t] = ticketRepo[t]]_vars

\* A task that reached its end keeps its record; only a failed task may
\* still be changed, and only by being cancelled.
SettledStays ==
  [][\A t \in Task :
       /\ taskRepo[t].state \in { "Succeeded", "Cancelled", "DeadLetter" } =>
            taskRepo'[t] = taskRepo[t]
       /\ taskRepo[t].state = "Failed" =>
            taskRepo'[t].state \in { "Failed", "Cancelled" }]_vars

\* Without faults, the log of a task is one chain of valid moves, whatever calls
\* added to it, and a task no call works on replays to its persisted state.
LogTellsState ==
  faults = 0 =>
    \A t \in Task :
      /\ TransitionsValid(eventRepo[t]) /\ Chained(eventRepo[t])
      /\ ~ InFlight(t) /\ taskRepo[t].state # "none" =>
           ReplayStatus(taskRepo[t].state, eventRepo[t]) = "Consistent"

\* Without faults, a waiting task no call works on can be decided: its ticket
\* is pending and its payload is still frozen.
WaitingIsDecidable ==
  faults = 0 =>
    \A t \in Task :
      ~ InFlight(t) /\ taskRepo[t].state = "WaitingApproval" =>
        ticketRepo[t] = "Pending" /\ t \in frozen

\* An approval is carried through: unless a fault intervenes, the task of an
\* approved ticket reaches its end.
ApprovedSettles ==
  \A t \in Task :
    ticketRepo[t] = "Approved" ~>
      \/ taskRepo[t].state \in { "Succeeded", "Failed", "DeadLetter", "Cancelled" }
      \/ faults > 0
=============================================================================
