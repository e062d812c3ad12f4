---------------------------- MODULE PendingLoop ----------------------------
(***************************************************************************)
(* The paused loop of one session: a runtime loop that asked the user a    *)
(* question is stored as a snapshot, and the next request of the session   *)
(* either takes it up again or discards it before it starts a fresh loop.  *)
(*                                                                         *)
(* A snapshot lives in the dedicated table of SQLite; one that a previous  *)
(* memory backend stored is moved there by the first load.  Every call on  *)
(* a store is a step of its own, so that requests, Telegram's control      *)
(* commands and crashes of the process fall between any two of them.       *)
(* Sessions share nothing here: one is modelled.                           *)
(***************************************************************************)
EXTENDS Integers, FiniteSets

CONSTANTS
  Request,       \* requests the session receives, each handled once
  Command,       \* control commands the session receives, each handled once
  Frontend,      \* who calls the runtime service
  PriorStatus,   \* what a snapshot of a previous backend may be like
  MaxPauses,     \* bounds how many pauses there are
  MaxFaults,     \* bounds how many calls on a backend fail
  MaxCrashes     \* bounds how often the process dies

ASSUME PendingLoopAssumption ==
  /\ Request \cap Command = {}
  /\ Frontend \in {"telegram", "cli"}
  /\ PriorStatus \subseteq {"AwaitingUser", "Undecodable"}
  /\ MaxPauses \in Nat \ {0} /\ MaxFaults \in Nat /\ MaxCrashes \in Nat

Handler == Request \cup Command

\* A stored LoopState: which pause it stands for (0 where the store has none)
\* and its status; "Undecodable" is JSON that is no longer a LoopState.
Snapshot == [pause : 0..MaxPauses,
             status : {"None", "AwaitingUser", "Stopped", "Undecodable"}]
Snap(p, s) == [pause |-> p, status |-> s]
NoSnap == Snap(0, "None")

\* What a previous backend may have left; what does not decode is no pause.
Legacy(s) == Snap(IF s = "AwaitingUser" THEN 1 ELSE 0, s)

\* What a handler that runs loads the snapshot for, or the command it is.
Purpose == {"request", "notice", "status", "cancel", "report", "clear"}

Stage == {"idle", "load", "loadPrior", "promote", "clearPrior", "undecodable",
          "assess", "claim", "stop", "drop", "prepare", "run", "sync",
          "mirror", "mirrorFailed", "delete", "wipe",
          "done", "failed", "refused", "crashed"}
Ended == {"done", "failed", "refused", "crashed"}

VARIABLES
  dedicated,  \* the row of pending_loop_snapshots
  prior,      \* the snapshot in the session state of the previous backend
  stage,      \* where each handler is
  purpose,
  held,       \* the snapshot each handler works on
  pauses,     \* how many pauses there have been
  taken,      \* how many times each pause was resumed
  void,       \* pauses discarded, cancelled or cleared
  awaited,    \* the pause the user was last told to answer, 0 if none
  faults,
  crashes

vars == << dedicated, prior, stage, purpose, held, pauses, taken, void, awaited,
           faults, crashes >>
stores == << dedicated, prior >>
ledger == << pauses, taken, void, awaited >>

Active(h) == stage[h] \notin Ended \cup {"idle"}
Running == { h \in Handler : Active(h) }

\* What a load of the session finds.
Effective == IF dedicated # NoSnap THEN dedicated ELSE prior

Goto(h, s) == stage' = [stage EXCEPT ![h] = s]
Take(h, snap) == held' = [held EXCEPT ![h] = snap]
NoFault == UNCHANGED << faults, crashes >>
Fault == faults < MaxFaults /\ faults' = faults + 1 /\ UNCHANGED crashes

Init ==
  /\ dedicated = NoSnap
  /\ prior \in {NoSnap} \cup { Legacy(s) : s \in PriorStatus }
  /\ stage = [h \in Handler |-> "idle"]
  /\ purpose = [h \in Handler |-> "request"]
  /\ held = [h \in Handler |-> NoSnap]
  /\ pauses = prior.pause
  /\ taken = [p \in 1..MaxPauses |-> 0]
  /\ void = {}
  /\ awaited = IF prior.status = "AwaitingUser" THEN prior.pause ELSE 0
  /\ faults = 0 /\ crashes = 0

-----------------------------------------------------------------------------
(* Loading a snapshot.                                                     *)

\* Where a handler goes once it has loaded the snapshot.
AfterLoad(why, snap) ==
  CASE why = "request" -> IF snap = NoSnap THEN "prepare" ELSE "assess"
    [] why = "cancel"  -> IF snap = NoSnap THEN "done" ELSE "delete"
    [] OTHER           -> "done"

Loaded(h, snap) ==
  /\ Take(h, snap)
  /\ Goto(h, IF snap.status = "Undecodable" THEN "undecodable"
             ELSE AfterLoad(purpose[h], snap))
  /\ awaited' = IF purpose[h] = "notice" /\ snap.status # "Undecodable"
                THEN snap.pause ELSE awaited

LoadDedicated(h) ==
  /\ stage[h] = "load"
  /\ IF dedicated # NoSnap
     THEN Loaded(h, dedicated)
     ELSE Goto(h, "loadPrior") /\ UNCHANGED << held, awaited >>
  /\ NoFault /\ UNCHANGED << stores, purpose, pauses, taken, void >>

LoadPrior(h) ==
  /\ stage[h] = "loadPrior"
  /\ IF prior = NoSnap
     THEN Loaded(h, NoSnap)
     ELSE Take(h, prior) /\ Goto(h, "promote") /\ UNCHANGED awaited
  /\ NoFault /\ UNCHANGED << stores, purpose, pauses, taken, void >>

\* The copy into the table, and then the removal from the previous backend,
\* whose errors are dropped.
Promote(h) ==
  /\ stage[h] = "promote"
  /\ Goto(h, "clearPrior")
  /\ \/ dedicated' = held[h] /\ NoFault
     \/ UNCHANGED dedicated /\ Fault
  /\ UNCHANGED << prior, purpose, held, ledger >>

ClearPrior(h) ==
  /\ stage[h] = "clearPrior"
  /\ \/ prior' = NoSnap /\ NoFault
     \/ UNCHANGED prior /\ Fault
  /\ Loaded(h, held[h])
  /\ UNCHANGED << dedicated, purpose, pauses, taken, void >>

\* A snapshot that does not decode is removed and counts as none.
DropUndecodable(h) ==
  /\ stage[h] = "undecodable"
  /\ dedicated' = NoSnap
  /\ Take(h, NoSnap)
  /\ Goto(h, AfterLoad(purpose[h], NoSnap))
  /\ NoFault /\ UNCHANGED << prior, purpose, ledger >>

-----------------------------------------------------------------------------
(* A request.                                                              *)

\* Telegram has one permit per chat and refuses a second request; the command
\* line reads its next line when the last one is done with.
Receive(r) ==
  /\ stage[r] = "idle"
  /\ \/ /\ Running \cap (IF Frontend = "cli" THEN Handler ELSE Request) = {}
        /\ Goto(r, "load") /\ awaited' = 0
     \/ /\ Frontend = "telegram" /\ Running \cap Request # {}
        /\ Goto(r, "refused") /\ UNCHANGED awaited
  /\ NoFault /\ UNCHANGED << stores, purpose, held, pauses, taken, void >>

\* Mutant: Any stored loop may be resumed, one that was stopped too.
AssessAnyStatus(r) ==
  /\ stage[r] = "assess"
  /\ Goto(r, "claim") \/ Goto(r, "stop")
  /\ NoFault /\ UNCHANGED << stores, purpose, held, ledger >>

\* Mutant: A stored loop that does not await the user is left for somebody else.
AssessAwaitingOnly(r) ==
  /\ stage[r] = "assess" /\ held[r].status = "AwaitingUser"
  /\ Goto(r, "claim") \/ Goto(r, "stop")
  /\ NoFault /\ UNCHANGED << stores, purpose, held, ledger >>

\* Whether the message answers the question is up to the candidates it names
\* or to a model; nothing but a loop that awaits the user is ever resumed.
Assess(r) ==
  /\ stage[r] = "assess"
  /\ \/ held[r].status = "AwaitingUser" /\ Goto(r, "claim")
     \/ Goto(r, "stop")
  /\ NoFault /\ UNCHANGED << stores, purpose, held, ledger >>

\* Mutant: The loop that is resumed stays in the store.
ClaimKeeps(r) ==
  /\ stage[r] = "claim"
  /\ taken' = [taken EXCEPT ![held[r].pause] = @ + 1]
  /\ Goto(r, "prepare")
  /\ NoFault /\ UNCHANGED << stores, purpose, held, pauses, void, awaited >>

Claim(r) ==
  /\ stage[r] = "claim"
  /\ dedicated' = NoSnap
  /\ taken' = [taken EXCEPT ![held[r].pause] = @ + 1]
  /\ Goto(r, "prepare")
  /\ NoFault /\ UNCHANGED << prior, purpose, held, pauses, void, awaited >>

\* The stop step is recorded in the stored snapshot before that is removed.
StoreStopped(r) ==
  /\ stage[r] = "stop"
  /\ dedicated' = Snap(held[r].pause, "Stopped")
  /\ void' = void \cup {held[r].pause}
  /\ Goto(r, "drop")
  /\ NoFault /\ UNCHANGED << prior, purpose, held, pauses, taken, awaited >>

DropStopped(r) ==
  /\ stage[r] = "drop"
  /\ dedicated' = NoSnap
  /\ Take(r, NoSnap)
  /\ Goto(r, "prepare")
  /\ NoFault /\ UNCHANGED << prior, purpose, ledger >>

Prepare(r) ==
  /\ stage[r] = "prepare"
  /\ Goto(r, "run")
  /\ NoFault /\ UNCHANGED << stores, purpose, held, ledger >>

\* The loop, resumed or fresh, ends or asks the user, which is a new pause.
RunLoop(r) ==
  /\ stage[r] = "run"
  /\ \/ Take(r, NoSnap) /\ UNCHANGED pauses
     \/ /\ pauses < MaxPauses
        /\ pauses' = pauses + 1
        /\ Take(r, Snap(pauses + 1, "AwaitingUser"))
  /\ Goto(r, "sync")
  /\ NoFault /\ UNCHANGED << stores, purpose, taken, void, awaited >>

\* A loop that awaits the user is stored; any other removes what is stored.
Sync(r) ==
  /\ stage[r] = "sync"
  /\ dedicated' = held[r]
  /\ IF Frontend = "telegram"
     THEN Goto(r, "mirror") /\ UNCHANGED purpose
     ELSE Goto(r, "load") /\ purpose' = [purpose EXCEPT ![r] = "notice"]
  /\ NoFault /\ UNCHANGED << prior, held, ledger >>

-----------------------------------------------------------------------------
(* Control commands.                                                       *)

\* Telegram hands a command to its handler at once, whatever else is running.
Order(c) ==
  /\ stage[c] = "idle"
  /\ \/ /\ Frontend = "telegram"
        /\ \/ \E why \in {"status", "cancel"} :
                purpose' = [purpose EXCEPT ![c] = why] /\ Goto(c, "load")
           \/ purpose' = [purpose EXCEPT ![c] = "clear"] /\ Goto(c, "delete")
     \/ /\ Frontend = "cli" /\ Running = {}
        /\ purpose' = [purpose EXCEPT ![c] = "clear"] /\ Goto(c, "delete")
  /\ NoFault /\ UNCHANGED << stores, held, ledger >>

\* The pauses the user is told are gone: the one /cancel found, or for /clear
\* whatever the session has.
Revoked(c) ==
  (IF purpose[c] = "cancel" THEN {held[c].pause}
   ELSE {dedicated.pause, prior.pause}) \ {0}

Delete(h) ==
  /\ stage[h] = "delete"
  /\ dedicated' = NoSnap
  /\ void' = void \cup Revoked(h)
  /\ awaited' = 0
  /\ Goto(h, IF Frontend = "cli" THEN "done"
             ELSE IF purpose[h] = "cancel" THEN "mirror" ELSE "wipe")
  /\ NoFault /\ UNCHANGED << prior, purpose, held, pauses, taken >>

\* /clear deletes the session state, which is where a previous backend keeps
\* its snapshot; both commands report what is pending then.
Wipe(c) ==
  /\ stage[c] = "wipe"
  /\ prior' = NoSnap
  /\ purpose' = [purpose EXCEPT ![c] = "report"]
  /\ Goto(c, "load")
  /\ NoFault /\ UNCHANGED << dedicated, held, ledger >>

\* Telegram clears the snapshot in the session state after every request and
\* every cancellation, then looks at what is pending.
ClearMirror(h) ==
  /\ stage[h] = "mirror"
  /\ prior' = NoSnap
  /\ purpose' = [purpose EXCEPT ![h] = IF h \in Request THEN "notice" ELSE "report"]
  /\ Goto(h, "load")
  /\ NoFault /\ UNCHANGED << dedicated, held, ledger >>

\* It does so as well when the request failed.
ClearMirrorFailed(r) ==
  /\ stage[r] = "mirrorFailed"
  /\ prior' = NoSnap
  /\ Goto(r, "failed")
  /\ NoFault /\ UNCHANGED << dedicated, purpose, held, ledger >>

\* Esc or Ctrl+C on the command line drops the request where it waits for a
\* model or a tool, and deletes the paused loop.
Interrupt(r) ==
  /\ Frontend = "cli"
  /\ stage[r] \in {"assess", "run"}
  /\ Goto(r, "delete")
  /\ purpose' = [purpose EXCEPT ![r] = "clear"]
  /\ NoFault /\ UNCHANGED << stores, held, ledger >>

-----------------------------------------------------------------------------
(* What fails.                                                             *)

\* A call on a backend, the building of the context or the bookkeeping of the
\* loop's result returns an error, and the handler gives up; a request that has
\* its answer gives it without the notice that the loop waits.
FailsHere(h) ==
  stage[h] \in {"load", "loadPrior", "undecodable", "claim", "stop", "drop", "prepare",
                "run", "sync", "mirror", "mirrorFailed", "delete", "wipe"}

Fail(h) ==
  /\ FailsHere(h) /\ Fault
  /\ Goto(h, CASE purpose[h] = "notice" -> "done"
               [] /\ Frontend = "telegram" /\ h \in Request
                  /\ stage[h] \notin {"mirror", "mirrorFailed"}
                  /\ purpose[h] = "request" -> "mirrorFailed"
               [] OTHER -> "failed")
  /\ UNCHANGED << stores, purpose, held, ledger >>

\* Mutant: Snapshots are kept in memory only.
CrashForgets ==
  /\ crashes < MaxCrashes /\ crashes' = crashes + 1
  /\ Running # {}
  /\ stage' = [h \in Handler |-> IF Active(h) THEN "crashed" ELSE stage[h]]
  /\ dedicated' = NoSnap
  /\ UNCHANGED << prior, purpose, held, ledger, faults >>

\* The process dies with everything it was doing and is started again.
Crash ==
  /\ crashes < MaxCrashes /\ crashes' = crashes + 1
  /\ Running # {}
  /\ stage' = [h \in Handler |-> IF Active(h) THEN "crashed" ELSE stage[h]]
  /\ UNCHANGED << stores, purpose, held, ledger, faults >>

Step(h) ==
  \/ LoadDedicated(h) \/ LoadPrior(h) \/ Promote(h) \/ ClearPrior(h)
  \/ DropUndecodable(h)
  \/ Assess(h) \/ Claim(h) \/ StoreStopped(h) \/ DropStopped(h)
  \/ Prepare(h) \/ RunLoop(h) \/ Sync(h)
  \/ Delete(h) \/ Wipe(h) \/ ClearMirror(h) \/ ClearMirrorFailed(h)

Next ==
  \/ \E r \in Request : Receive(r) \/ Interrupt(r)
  \/ \E c \in Command : Order(c)
  \/ \E h \in Handler : Step(h) \/ Fail(h)
  \/ Crash

Spec == Init /\ [][Next]_vars

\* Threads run and calls return: no handler stops for ever between two steps.
FairSpec == Spec /\ \A h \in Handler : WF_vars(Step(h))

-----------------------------------------------------------------------------
(* What a session promises about the questions of its loops.               *)

Conversation == INSTANCE PausedConversation WITH
  Pause <- 1..MaxPauses,
  open <- IF Effective.status = "AwaitingUser" THEN {Effective.pause} ELSE {},
  answered <- { p \in 1..MaxPauses : taken[p] > 0 },
  given_up <- void

\* On the command line, where nothing runs beside a request, and with no
\* snapshot of a previous backend, the stores, failures and crashes included,
\* keep the promise: each question is answered once, or given up, never both.
ImplementsConversation == Conversation!Spec

-----------------------------------------------------------------------------
TypeOK ==
  /\ dedicated \in Snapshot /\ prior \in Snapshot
  /\ stage \in [Handler -> Stage]
  /\ purpose \in [Handler -> Purpose]
  /\ held \in [Handler -> Snapshot]
  /\ pauses \in 0..MaxPauses
  /\ taken \in [1..MaxPauses -> Nat]
  /\ void \subseteq 1..MaxPauses
  /\ awaited \in 0..MaxPauses
  /\ faults \in 0..MaxFaults /\ crashes \in 0..MaxCrashes

\* A question of the assistant is answered to at most one loop: no pause is
\* resumed twice (take_resumable_pending_loop deletes what it resumes).
ResumedAtMostOnce == TypeOK /\ \A p \in 1..MaxPauses : taken[p] <= 1

\* A loop that was recorded as stopped, or that the user cancelled or cleared,
\* is not resumed afterwards.
StaysGone == [][\A p \in void : taken'[p] = taken[p]]_vars

\* The loop whose question the user was last told to answer is what the next
\* request will find, through failures and restarts, until the user answers,
\* cancels or clears.
AwaitedIsKept == awaited # 0 => Effective = Snap(awaited, "AwaitingUser")

\* Every message the session accepts and every command comes to its end, and
\* with it the permit of the chat: again and again nobody is at work.
EveryoneIsAnswered == []<>(\A h \in Handler : ~Active(h))
=============================================================================
