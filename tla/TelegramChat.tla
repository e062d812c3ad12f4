---------------------------- MODULE TelegramChat ----------------------------
(***************************************************************************)
(* One chat of the Telegram bot: the long poll that fetches its updates,   *)
(* the task of each update, and the sessions and turns the tasks work on.  *)
(* Every update is a task of its own.  Only requests take the permit of    *)
(* the chat; control commands and callbacks run beside them.  Every call   *)
(* on a store is a step; the stores of the catalog, of the turns and of    *)
(* the pending renames have a lock each, held for one call.                *)
(*                                                                         *)
(* The process may die, also inside an operation on a store, which has     *)
(* then done some of its writes.  It starts with no offset, no permit and  *)
(* no pending rename, and the server sends again what was not confirmed.   *)
(* What the runtime does with a request is one step (PendingLoop and       *)
(* ToolLoop model it): it leaves a row in the pending-loop store, which    *)
(* belongs to the runtime, or none.  Commands that only read are left out. *)
(* Decisions on approvals are in ControlPlane.                             *)
(***************************************************************************)
EXTENDS SessionCatalog, Integers, FiniteSets

CONSTANTS
  Prior,        \* bounds the sessions of the chat before the first update
  Kind,         \* the kinds of updates the chat sends
  MaxUpdates,   \* bounds the updates of the chat
  Batch,        \* bounds the updates that wait to be fetched
  Retain,       \* RETAIN_TAIL, the turns a compaction keeps
  MaxFailures   \* bounds the failing calls and the deaths of the process

Update == 1 .. MaxUpdates
Command == {"new", "cancel", "clear", "compact", "setting"}
Callback == {"select", "delete"}

ASSUME ChatAssumption ==
  /\ Session \subseteq Nat /\ 1 .. Prior \subseteq Session
  /\ Kind \subseteq {"request"} \cup Command \cup Callback
  /\ {Prior, MaxUpdates, Batch, Retain, MaxFailures} \subseteq Nat

VARIABLES
  sent,       \* updates the chat has sent; they are numbered
  confirmed,  \* the last one the server need not send again
  next,       \* the last one this process has dispatched, 0 for none
  task,       \* what the task of each update is doing
  runs,       \* how often each update was dispatched
  permit,     \* the update that holds the permit of the chat
  rename,     \* the session whose new name the chat is asked for
  catalog,    \* the sessions
  turns,      \* the turns of each session, in the order they are loaded
  paused,     \* the sessions that have a row in the pending-loop store
  used,       \* how many sessions were ever created
  faults, crashes,
  disturbed,  \* history: updates whose turns a command or a failure touched
  deleted,    \* history: sessions deleted while no other task was using them
  torn        \* history: an operation of the catalog was cut short

stores == << catalog, turns, paused, used >>
polling == << sent, confirmed, next, runs >>
history == << disturbed, deleted, torn >>
vars == << polling, task, permit, rename, stores, faults, crashes, history >>

Idle == [pc |-> "idle", kind |-> "request", target |-> None, session |-> None,
         held |-> << >>, answered |-> FALSE]
Turn == [role : {"user", "assistant", "summary"}, of : Update \cup {0}]
Said(role, u) == [role |-> role, of |-> u]

\* The chat may have sessions from earlier days; the last one is active.
Init ==
  /\ sent = 0 /\ confirmed = 0 /\ next = 0
  /\ task = [u \in Update |-> Idle]
  /\ runs = [u \in Update |-> 0]
  /\ permit = 0
  /\ rename = None
  /\ used \in 0 .. Prior
  /\ catalog = IF used = 0 THEN NoSessions ELSE [known |-> 1 .. used, active |-> used]
  /\ turns = [s \in Session |-> << >>]
  /\ paused = {}
  /\ faults = 0 /\ crashes = 0
  /\ disturbed = {} /\ deleted = {} /\ torn = FALSE

AtRest(u) == task[u].pc \in {"idle", "done", "lost"}
At(u, pc) == task[u].pc = pc
Is(u, kinds) == task[u].kind \in kinds

Goto(u, pc) == task' = [task EXCEPT ![u].pc = pc]
GotoWith(u, s, pc) == task' = [task EXCEPT ![u].pc = pc, ![u].session = s]

\* What is left of a task that has ended.  An update that the server may send
\* again is the same one then.
Ended(u) == [IF task[u].answered THEN task[u] ELSE Idle EXCEPT
               !.pc = "done",
               !.kind = IF u <= confirmed THEN "request" ELSE task[u].kind,
               !.target = IF u <= confirmed THEN None ELSE task[u].target]
End(u) == task' = [task EXCEPT ![u] = Ended(u)]
Respond(u) == IF permit = u THEN Goto(u, "reply") ELSE End(u)

\* Whose turns change when those of s are removed or replaced.
Touched(s) ==
  disturbed \cup { u \in Update : /\ task[u].session = s /\ s # None
                                 /\ (task[u].answered \/ task[u].pc \in {"execute", "answer"}) }
Users(s) == { u \in Update : ~ AtRest(u) /\ task[u].session = s }
DeletedBy(u) == IF Users(task[u].session) = {u} THEN deleted \cup { task[u].session } ELSE deleted

NoFault == UNCHANGED << faults, crashes >>

-----------------------------------------------------------------------------
(* The server and the long poll.                                           *)

\* The offset of the poll tells the server what not to send again.
\* Mutant: it names the last update dispatched instead of the next one.
OffsetOfLast == IF next = 0 THEN confirmed ELSE next - 1
Offset == IF next = 0 THEN confirmed ELSE next

\* The buttons that a chat may press name sessions it was shown.
Press(kind) == IF kind \in Callback THEN 1 .. used ELSE {None}

Send(kind, target) ==
  /\ sent < MaxUpdates /\ sent < Offset + Batch
  /\ target \in Press(kind)
  /\ sent' = sent + 1
  /\ task' = [task EXCEPT ![sent + 1].kind = kind, ![sent + 1].target = target]
  /\ UNCHANGED << confirmed, next, runs, permit, rename, stores, faults, crashes, history >>

Spawned(kind, target) ==
  [Idle EXCEPT !.pc = IF kind = "select" THEN "select"
                      ELSE IF kind = "delete" THEN "active" ELSE "spawned",
               !.kind = kind, !.target = target,
               !.session = IF kind = "select" THEN target ELSE None]

Poll ==
  /\ Offset > confirmed \/ sent > Offset
  /\ LET batch == Offset + 1 .. sent
     IN  /\ task' = [u \in Update |->
                       IF u \in batch
                       THEN Spawned(task[u].kind, task[u].target)
                       ELSE task[u]]
         /\ disturbed' = disturbed \ batch
         /\ runs' = [u \in Update |-> IF u \in batch THEN runs[u] + 1 ELSE runs[u]]
         /\ next' = IF batch = {} THEN next ELSE sent
  /\ confirmed' = Offset
  /\ UNCHANGED << sent, permit, rename, stores, faults, crashes, deleted, torn >>

\* The response of the poll is lost.
PollFails ==
  /\ faults + crashes < MaxFailures /\ faults' = faults + 1
  /\ confirmed' = Offset
  /\ UNCHANGED << sent, next, runs, task, permit, rename, stores, crashes, history >>

-----------------------------------------------------------------------------
(* The beginning of a task.                                                *)

\* A message that answers the question for a name is not executed; what is no
\* name leaves the question standing.
Receive(u) ==
  \/ rename = None /\ Goto(u, "active")
  \/ rename # None /\ Goto(u, "reply")
  \/ rename # None /\ GotoWith(u, rename, "rename")

\* try_acquire: a second request is refused at once.
Acquire(u) ==
  /\ At(u, "spawned") /\ Is(u, {"request"})
  /\ \/ permit = 0 /\ permit' = u /\ Receive(u)
     \/ permit # 0 /\ UNCHANGED permit /\ End(u)
  /\ NoFault /\ UNCHANGED << polling, rename, stores, history >>

\* Every command gives up the question first.
BeginCommand(u) ==
  /\ At(u, "spawned") /\ Is(u, Command)
  /\ rename' = None
  /\ \/ Is(u, {"new"}) /\ Goto(u, "create")
     \/ Is(u, {"cancel", "clear", "compact", "setting"}) /\ Goto(u, "active")
  /\ NoFault /\ UNCHANGED << polling, permit, stores, history >>

-----------------------------------------------------------------------------
(* The catalog.                                                            *)

\* What a task does with the active session.
Uses(u) ==
  CASE Is(u, {"request"}) -> "hear"
    [] Is(u, {"cancel", "clear"}) -> "forget"
    [] Is(u, {"compact"}) -> "read"
    [] Is(u, {"setting"}) -> "name"
    [] Is(u, {"delete"})  -> "delete"

\* Mutant: a pointer to a missing descriptor is waited for.
GetActiveWaits(u) ==
  /\ At(u, "active") /\ Resolves(catalog)
  /\ \/ /\ catalog.active # None
        /\ IF task[u].target \in {None, catalog.active}
           THEN GotoWith(u, catalog.active, Uses(u)) ELSE Respond(u)
     \/ catalog.active = None /\ Is(u, {"request"}) /\ Goto(u, "create")
     \/ catalog.active = None /\ ~ Is(u, {"request"}) /\ Respond(u)
  /\ NoFault /\ UNCHANGED << polling, permit, rename, stores, history >>
GetActive(u) ==
  /\ At(u, "active")
  /\ \/ ~ Resolves(catalog) /\ Respond(u)
     \/ /\ Resolves(catalog) /\ catalog.active # None
        /\ IF task[u].target \in {None, catalog.active}
           THEN GotoWith(u, catalog.active, Uses(u)) ELSE Respond(u)
     \/ catalog.active = None /\ Is(u, {"request"}) /\ Goto(u, "create")
     \/ catalog.active = None /\ ~ Is(u, {"request"}) /\ Respond(u)
  /\ NoFault /\ UNCHANGED << polling, permit, rename, stores, history >>

\* Ids are never used again.
Create(u) ==
  LET s == used + 1
      writes == CreateWrites(catalog, s)
  IN  /\ At(u, "create") /\ s \in Session
      /\ used' = s
      /\ catalog' = After(writes)
      /\ GotoWith(u, s, "select")
      /\ NoFault /\ UNCHANGED << polling, permit, rename, turns, paused, history >>

Select(u) ==
  LET s == task[u].session
  IN  /\ At(u, "select")
      /\ \/ s \notin catalog.known /\ Respond(u) /\ UNCHANGED catalog
         \/ /\ s \in catalog.known
            /\ catalog' = After(SelectWrites(catalog, s))
            /\ IF Is(u, {"request"}) THEN Goto(u, "hear") ELSE Respond(u)
      /\ NoFault /\ UNCHANGED << polling, permit, rename, turns, paused, used, history >>

Rename(u) ==
  /\ At(u, "rename")
  /\ Goto(u, "unname")
  /\ NoFault /\ UNCHANGED << polling, permit, rename, stores, history >>

\* The question is settled, also when the session was missing or the store
\* failed.
Unname(u) ==
  /\ At(u, "unname")
  /\ rename' = None
  /\ Respond(u)
  /\ NoFault /\ UNCHANGED << polling, permit, stores, history >>

AskName(u) ==
  /\ At(u, "name")
  /\ rename' = task[u].session
  /\ Respond(u)
  /\ NoFault /\ UNCHANGED << polling, permit, stores, history >>

\* Mutant: the turns of the deleted session stay.
DeleteKeepsTurns(u) ==
  LET s == task[u].session
  IN  /\ At(u, "delete") /\ s \in catalog.known
      /\ catalog' = After(DeleteWrites(catalog, s))
      /\ disturbed' = Touched(s)
      /\ deleted' = DeletedBy(u)
      /\ Goto(u, "create")
      /\ NoFault /\ UNCHANGED << polling, permit, rename, used, turns, paused, torn >>
\* The turns go with the session, before it; the lock is that of the catalog.
\* The row of the pending-loop store stays.
Delete(u) ==
  LET s == task[u].session
  IN  /\ At(u, "delete") /\ s \in catalog.known
      /\ turns' = [turns EXCEPT ![s] = << >>]
      /\ catalog' = After(DeleteWrites(catalog, s))
      /\ disturbed' = Touched(s)
      /\ deleted' = DeletedBy(u)
      /\ Goto(u, "create")
      /\ NoFault /\ UNCHANGED << polling, permit, rename, used, paused, torn >>

DeleteMissing(u) ==
  /\ At(u, "delete") /\ task[u].session \notin catalog.known
  /\ Respond(u)
  /\ NoFault /\ UNCHANGED << polling, permit, rename, stores, history >>

-----------------------------------------------------------------------------
(* The turns.                                                              *)

\* The history for the model is loaded, then the message is added to it.
Hear(u) ==
  LET s == task[u].session
  IN  /\ At(u, "hear")
      /\ turns' = [turns EXCEPT ![s] = Append(@, Said("user", u))]
      /\ Goto(u, "execute")
      /\ NoFault /\ UNCHANGED << polling, permit, rename, catalog, paused, used, history >>

\* The runtime executes the request, which pauses or not.  That it failed is an
\* answer, too.
Execute(u) ==
  LET s == task[u].session
  IN  /\ At(u, "execute")
      /\ paused' \in { paused \cup {s}, paused \ {s} }
      /\ Goto(u, "answer")
      /\ NoFault /\ UNCHANGED << polling, permit, rename, catalog, turns, used, history >>

\* Mutant: the answer goes to the session that is active by now.
AnswerActive(u) ==
  LET s == IF catalog.active = None THEN task[u].session ELSE catalog.active
  IN  /\ At(u, "answer")
      /\ turns' = [turns EXCEPT ![s] = Append(@, Said("assistant", u))]
      /\ task' = [task EXCEPT ![u].pc = "reply", ![u].answered = TRUE]
      /\ NoFault /\ UNCHANGED << polling, permit, rename, catalog, paused, used, history >>
Answer(u) ==
  LET s == task[u].session
  IN  /\ At(u, "answer")
      /\ turns' = [turns EXCEPT ![s] = Append(@, Said("assistant", u))]
      /\ task' = [task EXCEPT ![u].pc = "reply", ![u].answered = TRUE]
      /\ NoFault /\ UNCHANGED << polling, permit, rename, catalog, paused, used, history >>

\* The summary is the first turn that is written, but it is the youngest, and
\* turns are loaded in the order of their times.
Compacted(h) == SubSeq(h, Len(h) - Retain + 1, Len(h)) \o << Said("summary", 0) >>

Forget(u) ==
  /\ At(u, "forget")
  /\ paused' = paused \ { task[u].session }
  /\ IF Is(u, {"clear"}) THEN Goto(u, "wipe") ELSE Respond(u)
  /\ NoFault /\ UNCHANGED << polling, permit, rename, catalog, turns, used, history >>

Wipe(u) ==
  LET s == task[u].session
  IN  /\ At(u, "wipe")
      /\ turns' = [turns EXCEPT ![s] = << >>]
      /\ disturbed' = Touched(s)
      /\ Respond(u)
      /\ NoFault /\ UNCHANGED << polling, permit, rename, catalog, paused, used, deleted, torn >>

Read(u) ==
  LET now == turns[task[u].session]
  IN  /\ At(u, "read")
      /\ \/ Len(now) <= Retain /\ Respond(u)
         \/ /\ Len(now) > Retain
            /\ task' = [task EXCEPT ![u].pc = "replace", ![u].held = now]
      /\ NoFault /\ UNCHANGED << polling, permit, rename, stores, history >>

\* The turns are deleted and written again, under one lock; what was added
\* since they were read is gone.
Replace(u) ==
  LET s == task[u].session
  IN  /\ At(u, "replace")
      /\ turns' = [turns EXCEPT ![s] = Compacted(task[u].held)]
      /\ disturbed' = Touched(s)
      /\ Respond(u)
      /\ NoFault /\ UNCHANGED << polling, permit, rename, catalog, paused, used, deleted, torn >>

-----------------------------------------------------------------------------
(* The end of a task.                                                      *)

\* The response is sent, unless it was streamed; a failure to send it is only
\* logged.
Reply(u) ==
  /\ At(u, "reply")
  /\ End(u)
  /\ permit' = IF permit = u THEN 0 ELSE permit
  /\ NoFault /\ UNCHANGED << polling, rename, stores, history >>

-----------------------------------------------------------------------------
(* Operations that are cut short, by an error or by the death of the       *)
(* process.                                                                *)

\* What an operation leaves of the catalog.
CatalogCut(u) ==
  LET s == task[u].session
  IN  CASE At(u, "create") /\ used + 1 \in Session   -> Broken(catalog, CreateWrites(catalog, used + 1))
        [] At(u, "select") /\ s \in catalog.known -> Broken(catalog, SelectWrites(catalog, s))
        [] At(u, "delete") /\ s \in catalog.known -> Broken(catalog, DeleteWrites(catalog, s))
        [] At(u, "rename") /\ s \in catalog.known -> Broken(catalog, TouchWrites(catalog, s))
        [] OTHER -> {catalog}

\* A compaction has removed the turns, or has written the summary and some of
\* those it keeps.
Partly(h) == {<< >>} \cup
  { SubSeq(h, Len(h) - Retain + 1, i) \o << Said("summary", 0) >> : i \in Len(h) - Retain .. Len(h) }

\* What an operation leaves of the turns of its session.
TurnsCut(u) ==
  LET h == turns[task[u].session]
  IN  CASE At(u, "hear")    -> { h, Append(h, Said("user", u)) }
        [] At(u, "answer")  -> { h, Append(h, Said("assistant", u)) }
        [] At(u, "wipe")    -> { h, << >> }
        [] At(u, "delete") /\ task[u].session \in catalog.known -> { h, << >> }
        [] At(u, "replace") -> { h } \cup Partly(task[u].held)
        [] OTHER            -> { h }

\* The operation of u on the catalog, and that of v on the turns, are cut short;
\* a deletion is both.  The turns go first.
CutShort(u, v) ==
  LET s == task[u].session
      t == task[v].session
  IN  /\ faults + crashes < MaxFailures
      /\ catalog' \in CatalogCut(u)
      /\ IF t = None THEN UNCHANGED turns
         ELSE \E h \in TurnsCut(v) : turns' = [turns EXCEPT ![t] = h]
      /\ At(u, "delete") /\ catalog' # catalog => turns'[s] = << >>
      /\ used' = IF used + 1 \in catalog'.known THEN used + 1 ELSE used
      /\ disturbed' = IF turns' = turns THEN disturbed ELSE Touched(t)
      /\ deleted' = IF At(u, "delete") /\ s \in catalog.known \ catalog'.known
                    THEN DeletedBy(u) ELSE deleted
      /\ torn' = (torn \/ catalog' # catalog)
      /\ UNCHANGED << sent, confirmed, runs, paused >>

\* A call on a store fails, and the task gives up.  A failing append may have
\* added the turn.  The answer is lost also when the mirror of the paused loop
\* cannot be cleared.
StoreFails(u) ==
  /\ task[u].pc \in {"active", "create", "select", "delete", "rename", "hear", "answer",
                     "forget", "wipe", "read", "replace"}
  /\ CutShort(u, u) /\ faults' = faults + 1
  /\ IF At(u, "rename") THEN Goto(u, "unname") ELSE Respond(u)
  /\ UNCHANGED << next, permit, rename, crashes >>

\* The process dies: it forgets its offset, the permit and the question for a
\* name, and all its tasks are lost.
Crash ==
  /\ \E u \in Update : ~ AtRest(u)
  /\ \E u, v \in Update : CutShort(u, v)
  /\ task' = [u \in Update |->
                IF AtRest(u) THEN task[u] ELSE [task[u] EXCEPT !.pc = "lost"]]
  /\ next' = 0 /\ permit' = 0 /\ rename' = None
  /\ crashes' = crashes + 1 /\ UNCHANGED faults

-----------------------------------------------------------------------------
\* What a task does of itself.
Step(u) ==
  \/ Acquire(u) \/ BeginCommand(u)
  \/ GetActive(u) \/ Create(u) \/ Select(u) \/ Rename(u) \/ Unname(u) \/ AskName(u)
  \/ Delete(u) \/ DeleteMissing(u)
  \/ Hear(u) \/ Execute(u) \/ Answer(u)
  \/ Forget(u) \/ Wipe(u) \/ Read(u) \/ Replace(u) \/ Reply(u)

Next ==
  \/ \E kind \in Kind : \E target \in Press(kind) : Send(kind, target)
  \/ Poll \/ PollFails \/ Crash
  \/ \E u \in Update : Step(u) \/ StoreFails(u)

Spec == Init /\ [][Next]_vars

\* The poll is repeated for ever and each task has a thread of its own; all
\* that is assumed of them is that the process does not stop while one of them
\* can go on.  Nobody has to send, and nothing has to fail.
Fairness == WF_vars(Poll \/ \E u \in Update : Step(u))

FairSpec == Spec /\ Fairness

-----------------------------------------------------------------------------
(* Properties.                                                             *)

Pc == {"idle", "spawned", "active", "create", "select", "rename", "unname", "name",
       "delete", "hear", "execute", "answer", "forget", "wipe", "read", "replace", "reply",
       "done", "lost"}

TypeOK ==
  /\ sent \in 0 .. MaxUpdates /\ confirmed \in 0 .. sent /\ next \in 0 .. sent
  /\ task \in [Update -> [pc : Pc, kind : {"request"} \cup Command \cup Callback,
                          target : Session \cup {None}, session : Session \cup {None},
                          held : Seq(Turn), answered : BOOLEAN]]
  /\ runs \in [Update -> 0 .. 1 + crashes]
  /\ permit \in {0} \cup Update
  /\ permit # 0 => ~ AtRest(permit) /\ Is(permit, {"request"})
  /\ rename \in Session \cup {None}
  /\ catalog \in Catalog
  /\ turns \in [Session -> Seq(Turn)]
  /\ paused \subseteq Session /\ used \in Nat
  /\ {faults, crashes} \subseteq 0 .. MaxFailures
  /\ disturbed \subseteq Update /\ deleted \subseteq Session /\ torn \in BOOLEAN

\* An update is dispatched once in the life of a process, and again only by a
\* later process if the server was not told; what the server was told of has
\* been dispatched.
DispatchedOnce ==
  /\ TypeOK
  /\ \A u \in Update :
       /\ runs[u] <= 1 + crashes
       /\ u <= confirmed => runs[u] > 0

\* A message and its answer stand together in the session that was active when
\* the message came, whatever other messages and commands run meanwhile, unless
\* one of them cleared, compacted or deleted that session.
AnswersFollow ==
  \A u \in Update \ disturbed :
    task[u].pc = "done" /\ task[u].answered =>
      \E i \in DOMAIN turns[task[u].session] :
        /\ i > 1
        /\ turns[task[u].session][i] = Said("assistant", u)
        /\ turns[task[u].session][i - 1] = Said("user", u)

\* A session that was deleted while no other task was using it is not listed, has
\* no turns and no request works in it, for good, whatever buttons, requests and
\* commands were under way with it, failed or died (backend.rs removes the
\* continuity before the descriptor, and ids are not used again): what is left of
\* it, the row of its paused loop, is never resumed.  As long as no operation of
\* the catalog was cut short, the active session exists, also when the buttons of
\* several messages are pressed at once.
DeletedIsGone ==
  /\ \A s \in deleted :
       /\ s \notin catalog.known /\ turns[s] = << >>
       /\ \A u \in Update : task[u].session = s => task[u].pc \notin {"hear", "execute", "answer"}
  /\ ~ torn => Resolves(catalog)

\* Fails: the row of its paused loop is gone, too (bot.rs:944, what /delete tells
\* the chat: "This removes session state, short-term continuity, and pending-loop
\* snapshots for that session"; /cancel and /clear do remove it).
DeletedHasNoLoop == deleted \cap paused = {}

\* In the end every update was answered or lost with its process, and the
\* permit of the chat is back, after errors, refusals and crashes, too.
ChatServes ==
  <>[](permit = 0 /\ \A u \in 1 .. sent : task[u].pc \in {"done", "lost"})
=============================================================================
