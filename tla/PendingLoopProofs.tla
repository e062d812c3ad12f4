------------------------- MODULE PendingLoopProofs -------------------------
(***************************************************************************)
(* With no pause to migrate from a previous backend, and for any messages, *)
(* commands, pauses, failures and crashes: on the command line each        *)
(* question is answered once or given up, never both; everywhere no        *)
(* question is answered to two loops, and the one the user was told to     *)
(* answer is kept.  With one to migrate, too, no handler goes round.       *)
(***************************************************************************)
EXTENDS PendingLoop, TLAPS

Live(p) == Snap(p, "AwaitingUser")

\* What does not decode any more.
Junk == Snap(0, "Undecodable")

\* A previous backend may hold a snapshot that no longer decodes, but no pause.
NoPriorPause == PriorStatus \subseteq {"Undecodable"}

CommandLine == Frontend = "cli" /\ NoPriorPause

\* A snapshot in the store or about to be stored: a pause that waits for its
\* answer, one that was recorded as stopped, or nothing that can be resumed.
SnapOK(s) ==
  \/ s \in {NoSnap, Junk}
  \/ \E p \in 1..pauses : s = Live(p) /\ p \notin void /\ taken[p] = 0
  \/ \E p \in void : s = Snap(p, "Stopped")

\* What a running handler is there for and what it relies on.
HandlerOK(h) ==
  /\ stage[h] = "idle" => purpose[h] = "request"
  /\ stage[h] \in {"load", "loadPrior", "promote", "clearPrior", "undecodable"}
       => purpose[h] \in {"request", "notice"}
  /\ stage[h] \notin {"mirror", "mirrorFailed", "wipe"}
  /\ stage[h] = "delete" => purpose[h] = "clear"
  /\ stage[h] \in {"assess", "claim", "stop", "drop", "prepare", "run", "sync"}
       => purpose[h] = "request"
  /\ stage[h] \in {"loadPrior", "promote"} => dedicated = NoSnap
  /\ stage[h] \in {"clearPrior", "undecodable"} => dedicated \in {NoSnap, Junk}
  /\ stage[h] \in {"promote", "clearPrior"} => held[h] = Junk
  /\ stage[h] \in {"assess", "claim", "stop"}
       => held[h] = dedicated /\ dedicated \notin {NoSnap, Junk}
  /\ stage[h] = "claim" => dedicated.status = "AwaitingUser"
  /\ stage[h] = "drop" => dedicated.status = "Stopped"
  /\ stage[h] \in {"prepare", "run", "sync"} => dedicated = NoSnap
  /\ stage[h] = "sync" => SnapOK(held[h]) /\ held[h].status \in {"None", "AwaitingUser"}
  /\ Active(h) /\ purpose[h] = "request" => awaited = 0
  /\ Active(h) /\ purpose[h] = "notice" => dedicated.status # "Stopped"

OneRuns == \A g, h \in Handler : Active(g) /\ Active(h) => g = h

FutureUntouched == \A p \in 1..MaxPauses : p > pauses => p \notin void /\ taken[p] = 0

AwaitedIsStored == awaited # 0 => dedicated = Live(awaited)

Inv ==
  /\ TypeOK
  /\ prior \in {NoSnap, Junk}
  /\ OneRuns
  /\ SnapOK(dedicated)
  /\ FutureUntouched
  /\ AwaitedIsStored
  /\ \A h \in Handler : HandlerOK(h)

ConversationStep == [Conversation!Next]_(Conversation!vars)

-----------------------------------------------------------------------------
(* What the lemmas on the actions have in common.                          *)

\* A step of the one handler that runs.
Alone(h) ==
  \A g \in Handler \ {h} :
    ~Active(g) /\ stage'[g] = stage[g] /\ purpose'[g] = purpose[g]

\* It may change its own purpose only.
OwnPurpose(h) ==
  purpose' = purpose \/ \E why : purpose' = [purpose EXCEPT ![h] = why]

LEMMA NoSnapType == NoSnap \in Snapshot
BY PendingLoopAssumption DEF NoSnap, Snap, Snapshot

\* With no pause in the previous backend, the conversation is what the table
\* holds.
Found(d, q) == IF d # NoSnap THEN d ELSE q
Open(s) == IF s.status = "AwaitingUser" THEN {s.pause} ELSE {}

LEMMA TableIsOpen ==
  ASSUME NEW d, NEW q \in {NoSnap, Junk}
  PROVE  /\ Open(Found(d, q)) = Open(d)
         /\ Open(NoSnap) = {} /\ Open(Junk) = {}
BY DEF Open, Found, NoSnap, Junk, Snap

LEMMA OpenIs ==
  /\ (IF Effective.status = "AwaitingUser" THEN {Effective.pause} ELSE {})
       = Open(Found(dedicated, prior))
  /\ (IF Effective'.status = "AwaitingUser" THEN {Effective'.pause} ELSE {})
       = Open(Found(dedicated', prior'))
BY DEF Open, Found, Effective

\* A step of the conversation is one of the table.
LEMMA TableStep ==
  ASSUME prior \in {NoSnap, Junk}, prior' \in {NoSnap, Junk}
  PROVE  /\ (IF Effective.status = "AwaitingUser" THEN {Effective.pause} ELSE {})
              = Open(dedicated)
         /\ (IF Effective'.status = "AwaitingUser" THEN {Effective'.pause} ELSE {})
              = Open(dedicated')
BY OpenIs, TableIsOpen

LEMMA RunsAlone ==
  ASSUME Inv, NEW h \in Handler, Active(h), NEW s, Goto(h, s), OwnPurpose(h)
  PROVE  Alone(h)
BY DEF Inv, OneRuns, Alone, OwnPurpose, Goto, TypeOK

LEMMA StartsAlone ==
  ASSUME Inv, NEW h \in Handler, Running = {}, NEW s, Goto(h, s), OwnPurpose(h)
  PROVE  Alone(h)
BY DEF Inv, Running, Alone, OwnPurpose, Goto, TypeOK

LEMMA AloneStaysAlone ==
  ASSUME Inv, NEW h \in Handler, Alone(h), HandlerOK(h)'
  PROVE  OneRuns' /\ \A g \in Handler : HandlerOK(g)'
<1>1. \A g \in Handler \ {h} : stage'[g] \in Ended \cup {"idle"}
  BY DEF Alone, Active
<1>2. OneRuns'
  BY <1>1 DEF OneRuns, Active
<1>3. ASSUME NEW g \in Handler \ {h} PROVE HandlerOK(g)'
  BY <1>1, <1>3 DEF HandlerOK, Active, Ended, Inv, Alone
<1> QED
  BY <1>2, <1>3

\* A step that leaves table and pauses alone.
LEMMA QuietStep ==
  ASSUME Inv, NEW h \in Handler, Alone(h), TypeOK',
         UNCHANGED << stores, pauses, taken, void >>,
         AwaitedIsStored', HandlerOK(h)'
  PROVE  Inv' /\ ConversationStep
<1>1. OneRuns' /\ \A g \in Handler : HandlerOK(g)'
  BY AloneStaysAlone
<1>2. SnapOK(dedicated)' /\ FutureUntouched' /\ prior' \in {NoSnap, Junk}
  BY DEF Inv, SnapOK, FutureUntouched, stores
<1>3. UNCHANGED Conversation!vars
  BY DEF Conversation!vars, Effective, stores
<1> QED
  BY <1>1, <1>2, <1>3 DEF Inv, ConversationStep

\* A step that moves or removes what does not decode.
LEMMA JunkStep ==
  ASSUME Inv, NEW h \in Handler, Alone(h), TypeOK', HandlerOK(h)',
         dedicated \in {NoSnap, Junk}, dedicated' \in {NoSnap, Junk},
         prior' \in {NoSnap, Junk}, UNCHANGED << pauses, taken, void, awaited >>
  PROVE  Inv' /\ ConversationStep
<1>1. OneRuns' /\ \A g \in Handler : HandlerOK(g)'
  BY AloneStaysAlone
<1>2. awaited = 0
  BY DEF Inv, AwaitedIsStored, Live, NoSnap, Junk, Snap
<1>3. SnapOK(dedicated)' /\ FutureUntouched' /\ AwaitedIsStored'
  BY <1>2 DEF Inv, SnapOK, FutureUntouched, AwaitedIsStored
<1>4. UNCHANGED Conversation!vars
  BY TableStep, TableIsOpen DEF Inv, Conversation!vars
<1> QED
  BY <1>1, <1>3, <1>4 DEF Inv, ConversationStep

-----------------------------------------------------------------------------
(* One lemma per action.                                                   *)

LEMMA InitHolds ==
  ASSUME CommandLine, Init
  PROVE  Inv /\ Conversation!Init
<1>1. prior \in {NoSnap, Junk} /\ dedicated = NoSnap
  BY DEF Init, CommandLine, NoPriorPause, Legacy, Junk
<1>2. pauses = 0 /\ awaited = 0
  BY <1>1 DEF Init, NoSnap, Junk, Snap
<1>3. TypeOK
  BY <1>1, <1>2, PendingLoopAssumption
     DEF Init, TypeOK, Snapshot, NoSnap, Junk, Snap, Stage, Purpose
<1>4. Inv
  BY <1>1, <1>2, <1>3 DEF Init, Inv, OneRuns, SnapOK, FutureUntouched,
     AwaitedIsStored, HandlerOK, Active, Ended
<1>5. (IF Effective.status = "AwaitingUser" THEN {Effective.pause} ELSE {}) = {}
  BY <1>1, OpenIs, TableIsOpen
<1>6. { p \in 1..MaxPauses : taken[p] > 0 } = {}
  BY DEF Init
<1>7. Conversation!Init
  BY <1>5, <1>6 DEF Init, Conversation!Init
<1> QED
  BY <1>4, <1>7

LEMMA ReceiveStep ==
  ASSUME CommandLine, Inv, NEW r \in Request, Receive(r)
  PROVE  Inv' /\ ConversationStep
<1>1. r \in Handler /\ Running = {} /\ Goto(r, "load") /\ awaited' = 0
  BY DEF Receive, CommandLine, Handler, Running
<1>2. Alone(r)
  BY <1>1, StartsAlone DEF Receive, OwnPurpose
<1>3. TypeOK'
  BY <1>1, PendingLoopAssumption DEF Inv, TypeOK, Receive, Goto, Stage, NoFault, stores
<1>4. HandlerOK(r)' /\ AwaitedIsStored'
  BY <1>1 DEF Inv, TypeOK, Receive, Goto, HandlerOK, AwaitedIsStored, stores
<1> QED
  BY <1>1, <1>2, <1>3, <1>4, QuietStep DEF Receive

LEMMA OrderStep ==
  ASSUME CommandLine, Inv, NEW c \in Command, Order(c)
  PROVE  Inv' /\ ConversationStep
<1>1. /\ c \in Handler /\ Running = {} /\ Goto(c, "delete")
      /\ purpose' = [purpose EXCEPT ![c] = "clear"]
  BY DEF Order, CommandLine, Handler
<1>2. Alone(c)
  BY <1>1, StartsAlone DEF OwnPurpose
<1>3. TypeOK'
  BY <1>1 DEF Inv, TypeOK, Order, Goto, Stage, Purpose, NoFault, stores, ledger
<1>4. HandlerOK(c)' /\ AwaitedIsStored'
  BY <1>1 DEF Inv, TypeOK, Order, Goto, HandlerOK, AwaitedIsStored, stores, ledger
<1> QED
  BY <1>1, <1>2, <1>3, <1>4, QuietStep DEF Order, ledger

LEMMA InterruptStep ==
  ASSUME Inv, NEW r \in Request, Interrupt(r)
  PROVE  Inv' /\ ConversationStep
<1>1. r \in Handler /\ Active(r) /\ Goto(r, "delete")
  BY DEF Interrupt, Handler, Active, Ended
<1>2. Alone(r)
  BY <1>1, RunsAlone DEF Interrupt, OwnPurpose
<1>3. TypeOK'
  BY <1>1 DEF Inv, TypeOK, Interrupt, Goto, Stage, Purpose, NoFault, stores, ledger
<1>4. HandlerOK(r)' /\ AwaitedIsStored'
  BY <1>1 DEF Inv, TypeOK, Interrupt, Goto, HandlerOK, AwaitedIsStored, stores, ledger
<1> QED
  BY <1>1, <1>2, <1>3, <1>4, QuietStep DEF Interrupt, ledger

\* A snapshot that is loaded is that in the table, or there is none.
LEMMA LoadedStep ==
  ASSUME Inv, NEW h \in Handler, Active(h), purpose[h] \in {"request", "notice"},
         stage[h] \notin {"idle", "promote"}, HandlerOK(h),
         Loaded(h, dedicated), dedicated # Junk,
         NoFault, UNCHANGED << stores, purpose, pauses, taken, void >>
  PROVE  Inv' /\ ConversationStep
<1>1. dedicated.status # "Undecodable"
  BY DEF Inv, SnapOK, Live, Snap, NoSnap
<1>2. /\ Goto(h, AfterLoad(purpose[h], dedicated)) /\ Take(h, dedicated)
      /\ awaited' = IF purpose[h] = "notice" THEN dedicated.pause ELSE awaited
  BY <1>1 DEF Loaded
<1>3. Alone(h)
  BY <1>2, RunsAlone DEF OwnPurpose
<1>4. AfterLoad(purpose[h], dedicated) \in Stage
  BY DEF AfterLoad, Stage
<1>5. dedicated \in Snapshot /\ dedicated.pause \in 0..MaxPauses
  BY DEF Inv, TypeOK, Snapshot
<1>6. TypeOK'
  BY <1>2, <1>4, <1>5 DEF Inv, TypeOK, Goto, Take, NoFault, stores
<1>7. AwaitedIsStored'
  <2>1. CASE purpose[h] = "notice"
    BY <2>1, <1>2 DEF Inv, HandlerOK, SnapOK, AwaitedIsStored, Live, Snap, NoSnap, stores
  <2>2. CASE purpose[h] # "notice"
    BY <2>2, <1>2 DEF Inv, AwaitedIsStored, Live, stores
  <2> QED
    BY <2>1, <2>2
<1>8. HandlerOK(h)'
  <2>1. UNCHANGED << dedicated, purpose >>
    BY DEF stores
  <2>2. stage'[h] = AfterLoad(purpose[h], dedicated) /\ held'[h] = dedicated
    BY <1>2 DEF Inv, TypeOK, Goto, Take
  <2>3. CASE purpose[h] = "notice"
    BY <2>1, <2>2, <2>3 DEF HandlerOK, AfterLoad, Active, Ended
  <2>4. CASE purpose[h] = "request" /\ dedicated = NoSnap
    BY <2>1, <2>2, <2>4, <1>2 DEF HandlerOK, AfterLoad, Active, Ended
  <2>5. CASE purpose[h] = "request" /\ dedicated # NoSnap
    BY <2>1, <2>2, <2>5, <1>2 DEF HandlerOK, AfterLoad, Active, Ended
  <2> QED
    BY <2>3, <2>4, <2>5
<1> QED
  BY <1>3, <1>6, <1>7, <1>8, QuietStep

\* What a load finds is in the table or nowhere, or does not decode.
LEMMA LoadStep ==
  ASSUME Inv, NEW h \in Handler, LoadDedicated(h) \/ LoadPrior(h)
  PROVE  Inv' /\ ConversationStep
<1>1. /\ Active(h) /\ purpose[h] \in {"request", "notice"} /\ HandlerOK(h)
      /\ stage[h] \in {"load", "loadPrior"} /\ Junk.status = "Undecodable"
      /\ NoFault /\ UNCHANGED << stores, purpose, pauses, taken, void >>
  BY DEF LoadDedicated, LoadPrior, Active, Ended, Inv, HandlerOK, Junk, Snap
<1>2. CASE Goto(h, "loadPrior") /\ UNCHANGED << held, awaited >> /\ dedicated = NoSnap
  <2>1. Alone(h)
    BY <1>1, <1>2, RunsAlone DEF OwnPurpose
  <2>2. TypeOK'
    BY <1>1, <1>2 DEF Inv, TypeOK, Goto, Stage, NoFault, stores
  <2>3. HandlerOK(h)' /\ AwaitedIsStored'
    BY <1>1, <1>2 DEF Inv, TypeOK, Goto, HandlerOK, Active, Ended, AwaitedIsStored, stores
  <2> QED
    BY <1>1, <2>1, <2>2, <2>3, QuietStep
<1>3. CASE /\ Take(h, Junk) /\ UNCHANGED awaited
           /\ \/ Goto(h, "promote") /\ dedicated = NoSnap
              \/ Goto(h, "undecodable") /\ dedicated = Junk
  <2>1. PICK s \in {"promote", "undecodable"} :
          /\ Goto(h, s) /\ dedicated \in {NoSnap, Junk}
          /\ s = "promote" => dedicated = NoSnap
    BY <1>3
  <2>2. Alone(h)
    BY <1>1, <2>1, RunsAlone DEF OwnPurpose
  <2>3. Junk \in Snapshot
    BY PendingLoopAssumption DEF Junk, Snap, Snapshot
  <2>4. TypeOK'
    BY <1>1, <1>3, <2>1, <2>3 DEF Inv, TypeOK, Goto, Take, Stage, NoFault, stores
  <2>5. stage'[h] = s /\ held'[h] = Junk /\ UNCHANGED << dedicated, purpose, awaited >>
    BY <1>1, <1>3, <2>1 DEF Inv, TypeOK, Goto, Take, stores
  <2>6. HandlerOK(h)'
    BY <1>1, <2>1, <2>5 DEF HandlerOK, Active, Ended
  <2> QED
    BY <1>1, <1>3, <2>1, <2>2, <2>4, <2>6, JunkStep DEF stores, Inv
<1>4. CASE Loaded(h, dedicated) /\ dedicated # Junk
  BY <1>1, <1>4, LoadedStep
<1>5. CASE LoadDedicated(h)
  <2>1. CASE dedicated = Junk
    <3>1. dedicated # NoSnap
      BY <2>1 DEF Junk, NoSnap, Snap
    <3> QED
      BY <1>1, <1>3, <1>5, <2>1, <3>1 DEF LoadDedicated, Loaded
  <2> QED
    BY <1>2, <1>4, <1>5, <2>1 DEF LoadDedicated
<1>6. CASE LoadPrior(h)
  <2>1. dedicated = NoSnap /\ NoSnap # Junk
    BY <1>6 DEF LoadPrior, Inv, HandlerOK, Junk, NoSnap, Snap
  <2> QED
    BY <1>3, <1>4, <1>6, <2>1 DEF LoadPrior, Inv
<1> QED
  BY <1>5, <1>6

\* The snapshot of the previous backend does not decode: it is copied, removed
\* there and dropped here.
LEMMA MigrateStep ==
  ASSUME Inv, NEW h \in Handler, Promote(h) \/ ClearPrior(h) \/ DropUndecodable(h)
  PROVE  Inv' /\ ConversationStep
<1>1. /\ Active(h) /\ purpose[h] \in {"request", "notice"} /\ HandlerOK(h)
      /\ dedicated \in {NoSnap, Junk}
      /\ faults' \in 0..MaxFaults /\ crashes' \in 0..MaxCrashes
      /\ UNCHANGED << purpose, pauses, taken, void >>
  BY PendingLoopAssumption DEF Promote, ClearPrior, DropUndecodable, Active, Ended, Inv,
     HandlerOK, TypeOK, NoFault, Fault, ledger
<1>2. /\ {NoSnap, Junk} \subseteq Snapshot /\ NoSnap.status = "None"
      /\ Junk.status = "Undecodable"
  BY PendingLoopAssumption DEF Junk, NoSnap, Snap, Snapshot
<1>3. PICK s \in Stage :
        /\ Goto(h, s) /\ UNCHANGED awaited
        /\ dedicated' \in {NoSnap, Junk} /\ prior' \in {NoSnap, Junk}
        /\ held' = held \/ held' = [held EXCEPT ![h] = NoSnap]
                        \/ held' = [held EXCEPT ![h] = Junk]
        /\ \/ s = "clearPrior" /\ held'[h] = Junk
           \/ s = "undecodable"
           \/ s = "done"
           \/ s = "prepare" /\ purpose[h] = "request" /\ dedicated' = NoSnap
  <2>1. CASE Promote(h)
    <3>1. held[h] = Junk
      BY <2>1 DEF Promote, Inv, HandlerOK
    <3> QED
      BY <1>1, <2>1, <3>1 DEF Promote, Inv, Stage, ledger
  <2>2. CASE ClearPrior(h)
    <3>1. held[h] = Junk
      BY <2>2 DEF ClearPrior, Inv, HandlerOK
    <3>2. Goto(h, "undecodable") /\ Take(h, Junk) /\ UNCHANGED << awaited, dedicated >>
      BY <1>2, <2>2, <3>1 DEF ClearPrior, Loaded
    <3>3. prior' \in {NoSnap, Junk}
      BY <2>2 DEF ClearPrior, Inv
    <3> QED
      BY <1>1, <3>2, <3>3 DEF Stage, Take
  <2>3. CASE DropUndecodable(h)
    <3>1. AfterLoad(purpose[h], NoSnap) = IF purpose[h] = "request" THEN "prepare" ELSE "done"
      BY <1>1 DEF AfterLoad
    <3> QED
      BY <1>1, <2>3, <3>1 DEF DropUndecodable, Inv, Stage, Take, ledger
  <2> QED
    BY <2>1, <2>2, <2>3
<1>4. Alone(h)
  BY <1>1, <1>3, RunsAlone DEF OwnPurpose
<1>5. TypeOK'
  BY <1>1, <1>2, <1>3 DEF Inv, TypeOK, Goto
<1>6. stage'[h] = s
  BY <1>3 DEF Inv, TypeOK, Goto
<1>7. HandlerOK(h)'
  BY <1>1, <1>2, <1>3, <1>6 DEF HandlerOK, Active, Ended
<1> QED
  BY <1>1, <1>3, <1>4, <1>5, <1>7, JunkStep

\* Assessing and preparing change nothing but where the request is.
LEMMA ThinkStep ==
  ASSUME Inv, NEW h \in Handler, Assess(h) \/ Prepare(h)
  PROVE  Inv' /\ ConversationStep
<1>1. Active(h) /\ HandlerOK(h) /\ purpose[h] = "request"
  BY DEF Assess, Prepare, Active, Ended, Inv, HandlerOK
<1>2. PICK s \in Stage : Goto(h, s)
  BY DEF Assess, Prepare, Stage
<1>3. Alone(h)
  BY <1>1, <1>2, RunsAlone DEF Assess, Prepare, OwnPurpose
<1>4. TypeOK'
  BY <1>2 DEF Inv, TypeOK, Assess, Prepare, Goto, NoFault, stores, ledger
<1>5. AwaitedIsStored'
  BY DEF Inv, AwaitedIsStored, Live, Assess, Prepare, stores, ledger
<1>6. HandlerOK(h)'
  <2>1. UNCHANGED << dedicated, purpose, held, awaited >>
    BY DEF Assess, Prepare, stores, ledger
  <2>2. CASE Assess(h)
    BY <2>1, <2>2, <1>1 DEF Inv, TypeOK, HandlerOK, Assess, Goto, Active, Ended
  <2>3. CASE Prepare(h)
    BY <2>1, <2>3, <1>1 DEF Inv, TypeOK, HandlerOK, Prepare, Goto, Active, Ended
  <2> QED
    BY <2>2, <2>3
<1> QED
  BY <1>3, <1>4, <1>5, <1>6, QuietStep DEF Assess, Prepare, ledger

\* A step that leaves an empty table.
LEMMA EmptyingStep ==
  ASSUME Inv, NEW h \in Handler, Alone(h), TypeOK', HandlerOK(h)',
         prior' = prior, dedicated' = NoSnap, awaited' = 0, FutureUntouched',
         \/ UNCHANGED << taken, void >>
         \/ /\ dedicated.status = "AwaitingUser" /\ UNCHANGED void
            /\ taken' = [taken EXCEPT ![dedicated.pause] = @ + 1]
         \/ UNCHANGED taken /\ void' = void \cup ({dedicated.pause} \ {0}),
         dedicated.status # "AwaitingUser" \/ taken' # taken
         \/ void' = void \cup ({dedicated.pause} \ {0})
  PROVE  Inv' /\ ConversationStep
<1>1. OneRuns' /\ \A g \in Handler : HandlerOK(g)'
  BY AloneStaysAlone
<1>2. SnapOK(dedicated)' /\ AwaitedIsStored' /\ prior' \in {NoSnap, Junk}
  BY DEF Inv, SnapOK, AwaitedIsStored
<1>3. Inv'
  BY <1>1, <1>2 DEF Inv
<1>4. /\ (IF Effective.status = "AwaitingUser" THEN {Effective.pause} ELSE {})
           = Open(dedicated)
      /\ (IF Effective'.status = "AwaitingUser" THEN {Effective'.pause} ELSE {}) = {}
  BY <1>2, TableStep, TableIsOpen DEF Inv
<1>5. CASE dedicated.status = "AwaitingUser"
  <2>1. PICK p \in 1..pauses : dedicated = Live(p) /\ p \notin void /\ taken[p] = 0
    BY <1>5 DEF Inv, SnapOK, NoSnap, Junk, Snap
  <2>2. dedicated.pause = p /\ p \in 1..MaxPauses /\ p # 0 /\ NoSnap.status = "None"
    BY <2>1, PendingLoopAssumption DEF Live, Snap, NoSnap, Inv, TypeOK
  <2>3. CASE taken' = taken
    <3>1. void' = void \cup {p} /\ UNCHANGED { q \in 1..MaxPauses : taken[q] > 0 }
      BY <2>2, <2>3, <1>5
    <3>2. Conversation!GiveUp(p)
      BY <1>4, <1>5, <2>2, <3>1 DEF Conversation!GiveUp, Open
    <3> QED
      BY <1>3, <3>2, <2>2 DEF ConversationStep, Conversation!Next
  <2>4. CASE taken' # taken
    <3>1. UNCHANGED void /\ taken' = [taken EXCEPT ![p] = @ + 1]
      BY <2>2, <2>4
    <3>2. taken' = [taken EXCEPT ![p] = 1]
      BY <2>1, <2>2, <3>1 DEF Inv, TypeOK
    <3>3. { q \in 1..MaxPauses : taken'[q] > 0 } = { q \in 1..MaxPauses : taken[q] > 0 } \cup {p}
      BY <2>2, <3>2 DEF Inv, TypeOK
    <3>4. Conversation!Answer(p)
      BY <1>4, <1>5, <2>2, <3>1, <3>3 DEF Conversation!Answer, Open
    <3> QED
      BY <1>3, <3>4, <2>2 DEF ConversationStep, Conversation!Next
  <2> QED
    BY <2>3, <2>4
<1>6. CASE dedicated.status # "AwaitingUser"
  <2>1. UNCHANGED taken /\ NoSnap.status = "None"
    BY <1>6 DEF NoSnap, Snap
  <2>2. dedicated.pause = 0 \/ dedicated.pause \in void
    BY <1>6 DEF Inv, SnapOK, NoSnap, Junk, Snap, Live
  <2>3. UNCHANGED void
    BY <1>6, <2>2
  <2>4. UNCHANGED Conversation!vars
    BY <1>4, <1>6, <2>1, <2>3 DEF Conversation!vars, Open
  <2> QED
    BY <1>3, <2>4 DEF ConversationStep
<1> QED
  BY <1>5, <1>6

LEMMA ClaimStep ==
  ASSUME Inv, NEW r \in Handler, Claim(r)
  PROVE  Inv' /\ ConversationStep
<1>1. /\ Active(r) /\ purpose[r] = "request" /\ awaited = 0
      /\ held[r] = dedicated /\ dedicated.status = "AwaitingUser"
  BY DEF Claim, Active, Ended, Inv, HandlerOK
<1>2. /\ Goto(r, "prepare") /\ dedicated' = NoSnap
      /\ UNCHANGED << prior, purpose, held, pauses, void, awaited, faults, crashes >>
  BY DEF Claim, NoFault
<1>3. Alone(r)
  BY <1>1, <1>2, RunsAlone DEF OwnPurpose
<1>4. PICK p \in 1..pauses : dedicated = Live(p) /\ p \notin void /\ taken[p] = 0
  BY <1>1 DEF Inv, SnapOK, NoSnap, Junk, Snap
<1>5. dedicated.pause = p /\ p \in 1..MaxPauses
  BY <1>4, PendingLoopAssumption DEF Live, Snap, Inv, TypeOK
<1>6. taken' = [taken EXCEPT ![p] = 1]
  BY <1>1, <1>4, <1>5 DEF Claim, Inv, TypeOK
<1>7. TypeOK'
  BY <1>2, <1>6, NoSnapType DEF Inv, TypeOK, Goto, Stage
<1>8. HandlerOK(r)'
  BY <1>1, <1>2 DEF Inv, TypeOK, HandlerOK, Goto
<1>9. FutureUntouched'
  BY <1>2, <1>4, <1>6 DEF Inv, TypeOK, FutureUntouched
<1>10. taken' # taken
  BY <1>4, <1>5, <1>6 DEF Inv, TypeOK
<1>11. taken' = [taken EXCEPT ![dedicated.pause] = @ + 1]
  BY <1>1 DEF Claim
<1> QED
  BY <1>1, <1>2, <1>3, <1>7, <1>8, <1>9, <1>10, <1>11, EmptyingStep

\* Recording a loop as stopped gives up its question, unless an earlier
\* request did and crashed before it removed the snapshot.
LEMMA StoreStoppedStep ==
  ASSUME Inv, NEW r \in Handler, StoreStopped(r)
  PROVE  Inv' /\ ConversationStep
<1> DEFINE p == held[r].pause
<1>1. /\ Active(r) /\ purpose[r] = "request" /\ awaited = 0
      /\ held[r] = dedicated /\ dedicated \notin {NoSnap, Junk}
  BY DEF StoreStopped, Active, Ended, Inv, HandlerOK
<1>2. /\ Goto(r, "drop") /\ dedicated' = Snap(p, "Stopped") /\ void' = void \cup {p}
      /\ UNCHANGED << prior, purpose, held, pauses, taken, awaited, faults, crashes >>
  BY DEF StoreStopped, NoFault
<1>3. Alone(r)
  BY <1>1, <1>2, RunsAlone DEF OwnPurpose
<1>4. p \in 1..pauses /\ p \in 1..MaxPauses
  <2>1. CASE \E q \in 1..pauses : dedicated = Live(q)
    BY <1>1, <2>1, PendingLoopAssumption DEF Live, Snap, Inv, TypeOK
  <2>2. CASE \E q \in void : dedicated = Snap(q, "Stopped")
    BY <1>1, <2>2 DEF Snap, Inv, TypeOK, FutureUntouched
  <2> QED
    BY <1>1, <2>1, <2>2 DEF Inv, SnapOK
<1> HIDE DEF p
<1>5. TypeOK'
  BY <1>2, <1>4 DEF Inv, TypeOK, Goto, Stage, Snap, Snapshot
<1>6. HandlerOK(r)'
  BY <1>1, <1>2 DEF Inv, TypeOK, HandlerOK, Goto, Snap
<1>7. FutureUntouched'
  BY <1>2, <1>4 DEF Inv, TypeOK, FutureUntouched
<1>8. SnapOK(dedicated)' /\ AwaitedIsStored' /\ prior' \in {NoSnap, Junk}
  BY <1>1, <1>2 DEF Inv, SnapOK, AwaitedIsStored
<1>9. Inv'
  BY <1>3, <1>5, <1>6, <1>7, <1>8, AloneStaysAlone DEF Inv
<1>10. /\ (IF Effective.status = "AwaitingUser" THEN {Effective.pause} ELSE {})
            = Open(dedicated)
       /\ (IF Effective'.status = "AwaitingUser" THEN {Effective'.pause} ELSE {}) = {}
  <2>1. Open(dedicated') = {}
    BY <1>2 DEF Open, Snap
  <2> QED
    BY <1>8, <2>1, TableStep DEF Inv
<1>11. UNCHANGED { q \in 1..MaxPauses : taken[q] > 0 }
  BY <1>2
<1>12. CASE dedicated.status = "AwaitingUser"
  <2>1. dedicated.pause = p /\ Snap(p, "Stopped").status = "Stopped"
    BY <1>1 DEF p, Snap
  <2>2. Conversation!GiveUp(p)
    BY <1>2, <1>10, <1>11, <1>12, <2>1 DEF Conversation!GiveUp, Open
  <2> QED
    BY <1>4, <1>9, <2>2 DEF ConversationStep, Conversation!Next
<1>13. CASE dedicated.status # "AwaitingUser"
  <2>1. p \in void /\ Snap(p, "Stopped").status = "Stopped"
    BY <1>1, <1>13 DEF p, Inv, SnapOK, Live, Snap
  <2>2. UNCHANGED Conversation!vars
    BY <1>2, <1>10, <1>11, <1>13, <2>1 DEF Conversation!vars, Open
  <2> QED
    BY <1>9, <2>2 DEF ConversationStep
<1> QED
  BY <1>12, <1>13

LEMMA DropStoppedStep ==
  ASSUME Inv, NEW r \in Handler, DropStopped(r)
  PROVE  Inv' /\ ConversationStep
<1>1. /\ Active(r) /\ purpose[r] = "request" /\ awaited = 0
      /\ dedicated.status = "Stopped"
  BY DEF DropStopped, Active, Ended, Inv, HandlerOK
<1>2. /\ Goto(r, "prepare") /\ dedicated' = NoSnap
      /\ held' = [held EXCEPT ![r] = NoSnap]
      /\ UNCHANGED << prior, purpose, pauses, taken, void, awaited, faults, crashes >>
  BY DEF DropStopped, Take, NoFault, ledger
<1>3. Alone(r)
  BY <1>1, <1>2, RunsAlone DEF OwnPurpose
<1>4. TypeOK'
  BY <1>2, NoSnapType DEF Inv, TypeOK, Goto, Stage
<1>5. HandlerOK(r)'
  BY <1>1, <1>2 DEF Inv, TypeOK, HandlerOK, Goto
<1>6. FutureUntouched'
  BY <1>2 DEF Inv, FutureUntouched
<1> QED
  BY <1>1, <1>2, <1>3, <1>4, <1>5, <1>6, EmptyingStep

\* Deleting the paused loop, by /clear or because the request was interrupted,
\* gives its question up.
LEMMA DeleteStep ==
  ASSUME CommandLine, Inv, NEW h \in Handler, Delete(h)
  PROVE  Inv' /\ ConversationStep
<1>1. Active(h) /\ purpose[h] = "clear"
  BY DEF Delete, Active, Ended, Inv, HandlerOK
<1>2. /\ Goto(h, "done") /\ dedicated' = NoSnap /\ awaited' = 0
      /\ UNCHANGED << prior, purpose, held, pauses, taken, faults, crashes >>
  BY DEF Delete, CommandLine, NoFault
<1>3. void' = void \cup ({dedicated.pause} \ {0})
  BY <1>1 DEF Delete, Revoked, Inv, NoSnap, Junk, Snap
<1>4. Alone(h)
  BY <1>1, <1>2, RunsAlone DEF OwnPurpose
<1>5. dedicated.pause = 0 \/ dedicated.pause \in 1..pauses
  <2>1. CASE dedicated \in {NoSnap, Junk}
    BY <2>1 DEF NoSnap, Junk, Snap
  <2>2. CASE \E q \in 1..pauses : dedicated = Live(q)
    BY <2>2 DEF Live, Snap
  <2>3. CASE \E q \in void : dedicated = Snap(q, "Stopped")
    BY <2>3, PendingLoopAssumption DEF Snap, Inv, TypeOK, FutureUntouched
  <2> QED
    BY <2>1, <2>2, <2>3 DEF Inv, SnapOK
<1>6. TypeOK'
  <2>1. dedicated.pause # 0 => dedicated.pause \in 1..MaxPauses
    BY <1>5, PendingLoopAssumption DEF Inv, TypeOK
  <2>2. void \subseteq 1..MaxPauses
    BY DEF Inv, TypeOK
  <2>3. void' \subseteq 1..MaxPauses
    BY <1>3, <2>1, <2>2
  <2> QED
    BY <1>2, <2>3, PendingLoopAssumption
       DEF Inv, TypeOK, Goto, Stage, NoSnap, Snap, Snapshot
<1>7. HandlerOK(h)'
  BY <1>1, <1>2 DEF Inv, TypeOK, HandlerOK, Goto, Active, Ended
<1>8. FutureUntouched'
  BY <1>2, <1>3, <1>5, PendingLoopAssumption DEF Inv, TypeOK, FutureUntouched
<1> QED
  BY <1>1, <1>2, <1>3, <1>4, <1>6, <1>7, <1>8, EmptyingStep

\* The loop ends or asks, and the question gets a number nobody used.
LEMMA RunLoopStep ==
  ASSUME Inv, NEW r \in Handler, RunLoop(r)
  PROVE  Inv' /\ ConversationStep
<1>1. Active(r) /\ purpose[r] = "request" /\ awaited = 0 /\ dedicated = NoSnap
  BY DEF RunLoop, Active, Ended, Inv, HandlerOK
<1>2. /\ Goto(r, "sync")
      /\ UNCHANGED << dedicated, prior, purpose, taken, void, awaited, faults, crashes >>
  BY DEF RunLoop, NoFault, stores
<1>3. Alone(r)
  BY <1>1, <1>2, RunsAlone DEF OwnPurpose
<1>4. PICK s : held' = [held EXCEPT ![r] = s]
             /\ \/ s = NoSnap /\ UNCHANGED pauses
                \/ pauses < MaxPauses /\ pauses' = pauses + 1 /\ s = Live(pauses + 1)
  BY DEF RunLoop, Take, Live
<1>5. s \in Snapshot /\ s.status \in {"None", "AwaitingUser"}
  BY <1>4, PendingLoopAssumption DEF Inv, TypeOK, NoSnap, Live, Snap, Snapshot
<1>6. TypeOK'
  BY <1>2, <1>4, <1>5, PendingLoopAssumption DEF Inv, TypeOK, Goto, Stage
<1>7. s = NoSnap \/ \E p \in 1..pauses' : s = Live(p) /\ p \notin void /\ taken[p] = 0
  <2>1. CASE pauses < MaxPauses /\ pauses' = pauses + 1 /\ s = Live(pauses + 1)
    <3>1. pauses + 1 \in 1..MaxPauses /\ pauses + 1 > pauses /\ pauses + 1 \in 1..pauses'
      BY <2>1, PendingLoopAssumption DEF Inv, TypeOK
    <3> QED
      BY <2>1, <3>1 DEF Inv, FutureUntouched
  <2> QED
    BY <1>4, <2>1
<1>8. held'[r] = s /\ stage'[r] = "sync"
  BY <1>2, <1>4 DEF Inv, TypeOK, Goto
<1>9. SnapOK(held[r])'
  BY <1>2, <1>7, <1>8 DEF SnapOK
<1>10. HandlerOK(r)'
  BY <1>1, <1>2, <1>5, <1>8, <1>9 DEF HandlerOK
<1>11. FutureUntouched'
  BY <1>2, <1>4, PendingLoopAssumption DEF Inv, TypeOK, FutureUntouched
<1>12. SnapOK(dedicated)' /\ AwaitedIsStored' /\ prior' \in {NoSnap, Junk}
  BY <1>1, <1>2 DEF Inv, SnapOK, AwaitedIsStored
<1>13. Inv'
  BY <1>3, <1>6, <1>10, <1>11, <1>12, AloneStaysAlone DEF Inv
<1>14. UNCHANGED Conversation!vars
  BY <1>2 DEF Conversation!vars, Effective
<1> QED
  BY <1>13, <1>14 DEF ConversationStep

\* Storing a loop that awaits the user asks its question.
LEMMA SyncStep ==
  ASSUME CommandLine, Inv, NEW r \in Handler, Sync(r)
  PROVE  Inv' /\ ConversationStep
<1>1. /\ Active(r) /\ purpose[r] = "request" /\ awaited = 0 /\ dedicated = NoSnap
      /\ SnapOK(held[r]) /\ held[r].status \in {"None", "AwaitingUser"}
  BY DEF Sync, Active, Ended, Inv, HandlerOK
<1>2. /\ Goto(r, "load") /\ dedicated' = held[r]
      /\ purpose' = [purpose EXCEPT ![r] = "notice"]
      /\ UNCHANGED << prior, held, pauses, taken, void, awaited, faults, crashes >>
  BY DEF Sync, CommandLine, NoFault, ledger
<1>3. Alone(r)
  BY <1>1, <1>2, RunsAlone DEF OwnPurpose
<1>4. TypeOK'
  BY <1>2 DEF Inv, TypeOK, Goto, Stage, Purpose
<1>5. HandlerOK(r)'
  BY <1>1, <1>2 DEF Inv, TypeOK, HandlerOK, Goto
<1>6. SnapOK(dedicated)' /\ AwaitedIsStored' /\ prior' \in {NoSnap, Junk}
      /\ FutureUntouched'
  BY <1>1, <1>2 DEF Inv, SnapOK, AwaitedIsStored, FutureUntouched
<1>7. Inv'
  BY <1>3, <1>4, <1>5, <1>6, AloneStaysAlone DEF Inv
<1>8. /\ (IF Effective.status = "AwaitingUser" THEN {Effective.pause} ELSE {}) = {}
      /\ (IF Effective'.status = "AwaitingUser" THEN {Effective'.pause} ELSE {})
           = Open(held[r])
  BY <1>1, <1>2, <1>6, TableStep, TableIsOpen DEF Inv
<1>9. CASE held[r] = NoSnap
  BY <1>2, <1>7, <1>8, <1>9, TableIsOpen DEF ConversationStep, Conversation!vars
<1>10. CASE held[r] # NoSnap
  <2>1. PICK p \in 1..pauses : held[r] = Live(p) /\ p \notin void /\ taken[p] = 0
    <3>1. ~ \E q \in void : held[r] = Snap(q, "Stopped")
      <4>1. ASSUME NEW q \in void, held[r] = Snap(q, "Stopped")
            PROVE  held[r].status = "Stopped"
        BY <4>1 DEF Snap
      <4> QED
        BY <1>1, <4>1
    <3>2. held[r] # Junk
      BY <1>1 DEF Junk, Snap
    <3> QED
      BY <1>1, <1>10, <3>1, <3>2 DEF SnapOK
  <2>2. p \in 1..MaxPauses
    BY <2>1, PendingLoopAssumption DEF Inv, TypeOK
  <2>3. /\ held[r].status = "AwaitingUser" /\ held[r].pause = p
        /\ NoSnap.status = "None"
    BY <2>1 DEF Live, Snap, NoSnap
  <2>4. p \notin { q \in 1..MaxPauses : taken[q] > 0 }
    BY <2>1, <2>2
  <2>5. UNCHANGED { q \in 1..MaxPauses : taken[q] > 0 }
    BY <1>2
  <2>6. Conversation!Ask(p)
    BY <1>2, <1>8, <2>1, <2>3, <2>4, <2>5 DEF Conversation!Ask, Open
  <2> QED
    BY <1>7, <2>2, <2>6 DEF ConversationStep, Conversation!Next
<1> QED
  BY <1>9, <1>10

\* Where a handler fails it stops.
LEMMA FailStep ==
  ASSUME Inv, NEW h \in Handler, Fail(h), CommandLine
  PROVE  Inv' /\ ConversationStep
<1>1. Active(h)
  BY DEF Fail, FailsHere, Active, Ended
<1>2. PICK s \in {"done", "failed"} : Goto(h, s)
  BY DEF Fail, CommandLine
<1>3. Alone(h)
  BY <1>1, <1>2, RunsAlone DEF Fail, OwnPurpose
<1>4. TypeOK'
  BY <1>2, PendingLoopAssumption DEF Inv, TypeOK, Fail, Fault, Goto, Stage, stores, ledger
<1>5. AwaitedIsStored'
  BY DEF Inv, AwaitedIsStored, Live, Fail, stores, ledger
<1>6. HandlerOK(h)'
  BY <1>2 DEF Inv, TypeOK, HandlerOK, Goto, Active, Ended
<1> QED
  BY <1>3, <1>4, <1>5, <1>6, QuietStep DEF Fail, ledger

LEMMA CrashStep ==
  ASSUME Inv, Crash
  PROVE  Inv' /\ ConversationStep
<1>1. \A h \in Handler : stage'[h] \in Ended \cup {"idle"}
  BY DEF Crash, Active, Ended
<1>2. UNCHANGED << dedicated, prior, purpose, held, pauses, taken, void, awaited >>
  BY DEF Crash, stores, ledger
<1>3. \A h \in Handler : stage'[h] = "idle" => stage[h] = "idle"
  BY DEF Crash
<1>4. TypeOK'
  BY <1>2, PendingLoopAssumption DEF Inv, TypeOK, Crash, Stage
<1>5. OneRuns'
  BY <1>1 DEF OneRuns, Active
<1>6. ASSUME NEW h \in Handler PROVE HandlerOK(h)'
  BY <1>1, <1>2, <1>3 DEF Inv, HandlerOK, Active, Ended
<1>7. Inv'
  BY <1>2, <1>4, <1>5, <1>6 DEF Inv, SnapOK, FutureUntouched, AwaitedIsStored, Live
<1>8. UNCHANGED Conversation!vars
  BY <1>2 DEF Conversation!vars, Effective
<1> QED
  BY <1>7, <1>8 DEF ConversationStep

-----------------------------------------------------------------------------
LEMMA NextStep ==
  ASSUME CommandLine, Inv, [Next]_vars
  PROVE  Inv' /\ ConversationStep
<1>1. ASSUME NEW r \in Request, Receive(r) \/ Interrupt(r) PROVE Inv' /\ ConversationStep
  BY <1>1, ReceiveStep, InterruptStep
<1>2. ASSUME NEW c \in Command, Order(c) PROVE Inv' /\ ConversationStep
  BY <1>2, OrderStep
<1>3. ASSUME NEW h \in Handler, Step(h) PROVE Inv' /\ ConversationStep
  <2>1. ~ (Wipe(h) \/ ClearMirror(h) \/ ClearMirrorFailed(h))
    BY DEF Inv, HandlerOK, Wipe, ClearMirror, ClearMirrorFailed
  <2> QED
    BY <1>3, <2>1, LoadStep, MigrateStep, ThinkStep, ClaimStep, StoreStoppedStep, DropStoppedStep,
       RunLoopStep, SyncStep, DeleteStep DEF Step
<1>4. ASSUME NEW h \in Handler, Fail(h) PROVE Inv' /\ ConversationStep
  BY <1>4, FailStep
<1>5. CASE Crash
  BY <1>5, CrashStep
<1>6. CASE UNCHANGED vars
  <2>1. UNCHANGED << dedicated, prior, stage, purpose, held, pauses, taken, void, awaited,
                     faults, crashes >>
    BY <1>6 DEF vars
  <2>2. Inv'
    BY <2>1 DEF Inv, TypeOK, OneRuns, SnapOK, FutureUntouched, AwaitedIsStored, Live,
       HandlerOK, Active
  <2>3. UNCHANGED Conversation!vars
    BY <2>1 DEF Conversation!vars, Effective
  <2> QED
    BY <2>2, <2>3 DEF ConversationStep
<1> QED
  BY <1>1, <1>2, <1>3, <1>4, <1>5, <1>6 DEF Next

\* On the command line with no pause to migrate, the stores keep what a session
\* promises (ImplementsConversation): one question at a time, answered to the
\* loop that asked it or given up, never both (take_resumable_pending_loop,
\* sync_pending_loop, /clear and interrupts).
THEOREM CliKeepsConversation ==
  ASSUME CommandLine
  PROVE  Spec => ImplementsConversation
<1>1. Init => Inv /\ Conversation!Init
  BY InitHolds
<1>2. Inv /\ [Next]_vars => Inv' /\ [Conversation!Next]_(Conversation!vars)
  BY NextStep DEF ConversationStep
<1> QED
  BY <1>1, <1>2, PTL DEF Spec, ImplementsConversation, Conversation!Spec

\* A loop recorded as stopped, cancelled or cleared is not resumed afterwards.
THEOREM CliStaysGone ==
  ASSUME CommandLine
  PROVE  Spec => StaysGone
<1>1. Init => Inv
  BY InitHolds
<1>2. Inv /\ [Next]_vars => Inv'
  BY NextStep
<1>3. Inv /\ [Next]_vars => [\A p \in void : taken'[p] = taken[p]]_vars
  <2>1. ASSUME Inv, NEW h \in Handler, Claim(h), NEW p \in void
        PROVE  taken'[p] = taken[p]
    <3>1. held[h] = dedicated /\ dedicated.status = "AwaitingUser"
      BY <2>1 DEF Claim, Inv, HandlerOK
    <3>2. PICK q \in 1..pauses : dedicated = Live(q) /\ q \notin void
      BY <2>1, <3>1 DEF Inv, SnapOK, NoSnap, Junk, Snap
    <3>3. held[h].pause # p
      BY <3>1, <3>2 DEF Live, Snap
    <3> QED
      BY <2>1, <3>3 DEF Claim, Inv, TypeOK
  <2>2. ASSUME NEW h \in Handler, Step(h), ~Claim(h) PROVE UNCHANGED taken
    BY <2>2 DEF Step, LoadDedicated, LoadPrior, Promote, ClearPrior, DropUndecodable,
       Assess, StoreStopped, DropStopped, Prepare, RunLoop, Sync, Delete, Wipe,
       ClearMirror, ClearMirrorFailed, ledger
  <2>3. ASSUME Next, \A h \in Handler : ~Step(h) PROVE UNCHANGED taken
    BY <2>3 DEF Next, Receive, Interrupt, Order, Fail, Crash, ledger
  <2> QED
    BY <2>1, <2>2, <2>3 DEF vars
<1> QED
  BY <1>1, <1>2, <1>3, PTL DEF Spec, StaysGone

\* What the user was last told to answer is what the next request finds
\* (AwaitedIsKept), also after a migration that failed half-way.
THEOREM CliAwaitedKept ==
  ASSUME CommandLine
  PROVE  Spec => []AwaitedIsKept
<1>1. Init => Inv
  BY InitHolds
<1>2. Inv /\ [Next]_vars => Inv'
  BY NextStep
<1>3. Inv => AwaitedIsKept
  BY DEF Inv, AwaitedIsStored, AwaitedIsKept, Effective, Live, NoSnap, Snap
<1> QED
  BY <1>1, <1>2, <1>3, PTL DEF Spec

-----------------------------------------------------------------------------
(* With commands beside a request, as the bot runs them, what a request    *)
(* holds need not be in the table any more.  A pause is still resumed once *)
(* because only requests put snapshots there or claim them, and one runs   *)
(* at a time.                                                              *)

\* A snapshot that may be stored or claimed: of a pause that happened and, if
\* it waits, that nobody resumed; or none that can be resumed.
Claimable(s) ==
  \/ s \in {NoSnap, Junk}
  \/ /\ s.pause \in 1..pauses /\ s.status \in {"AwaitingUser", "Stopped"}
     /\ s.status = "AwaitingUser" => taken[s.pause] = 0

\* What a handler with others beside it is there for and relies on.
BesideOK(h) ==
  /\ stage[h] = "idle" => purpose[h] = "request"
  /\ stage[h] \in {"assess", "claim", "stop", "drop", "prepare", "run", "sync",
                   "mirrorFailed"} => h \in Request
  /\ stage[h] = "wipe" => h \in Command
  /\ stage[h] = "delete" /\ h \in Request => Frontend = "cli"
  /\ Active(h) /\ h \in Command => purpose[h] \notin {"request", "notice"}
  /\ Active(h) /\ h \in Request => awaited = 0
  /\ stage[h] \in {"load", "loadPrior", "promote", "clearPrior", "undecodable"}
     /\ h \in Request
       => \/ purpose[h] = "request"
          \/ purpose[h] = "notice" /\ dedicated.status # "Stopped"
  /\ stage[h] = "mirror" /\ h \in Request => dedicated.status # "Stopped"
  /\ stage[h] \in {"promote", "clearPrior", "undecodable"} => PriorStatus # {}
  /\ stage[h] \in {"promote", "clearPrior"} => held[h] = Junk
  /\ stage[h] \in {"assess", "claim", "stop"} =>
       held[h] \notin {NoSnap, Junk} /\ Claimable(held[h])
  /\ stage[h] = "claim" => held[h].status = "AwaitingUser"
  /\ stage[h] = "sync" => Claimable(held[h]) /\ held[h].status \in {"None", "AwaitingUser"}

OneRequest == \A g, h \in Request : Active(g) /\ Active(h) => g = h

CountsOK == \A p \in 1..MaxPauses : taken[p] <= 1 /\ (p > pauses => taken[p] = 0)

\* A command of the bot that migrates may put what does not decode in the place
\* of a pause; otherwise the one that is awaited stays in the table.
Kept == PriorStatus = {} => prior = NoSnap /\ dedicated # Junk /\ AwaitedIsStored

BesideInv ==
  /\ TypeOK
  /\ prior \in {NoSnap, Junk}
  /\ OneRequest
  /\ Claimable(dedicated)
  /\ CountsOK
  /\ Kept
  /\ \A h \in Handler : BesideOK(h)

\* The others, and which request runs, are not disturbed by a step of a request
\* that is the only one, nor by one that only empties the table.
LEMMA OthersKeep ==
  ASSUME BesideInv, NEW h \in Handler, NEW s, Goto(h, s), OwnPurpose(h),
         held' = held \/ \E x : held' = [held EXCEPT ![h] = x],
         \/ h \in Request /\ \A g \in Request \ {h} : ~Active(g)
         \/ /\ h \in Command \/ s \in Ended
            /\ UNCHANGED << pauses, taken >>
            /\ dedicated' \in {dedicated, NoSnap, Junk}
            /\ awaited' = awaited \/ awaited' = 0
  PROVE  OneRequest' /\ \A g \in Handler \ {h} : BesideOK(g)'
<1>1. ASSUME NEW g \in Handler \ {h}
      PROVE  stage'[g] = stage[g] /\ purpose'[g] = purpose[g] /\ held'[g] = held[g]
  BY DEF BesideInv, TypeOK, Goto, OwnPurpose
<1>2. stage'[h] = s
  BY DEF BesideInv, TypeOK, Goto
<1>3. Request \cap Command = {} /\ Handler = Request \cup Command
  BY PendingLoopAssumption DEF Handler
<1>4. NoSnap.status # "Stopped" /\ Junk.status # "Stopped"
  BY DEF NoSnap, Junk, Snap
<1>5. OneRequest'
  BY <1>1, <1>2, <1>3 DEF BesideInv, OneRequest, Active, Handler
<1>6. ASSUME NEW g \in Handler \ {h} PROVE BesideOK(g)'
  <2>1. BesideOK(g)
    BY DEF BesideInv
  <2>2. CASE h \in Request /\ \A f \in Request \ {h} : ~Active(f)
    <3>1. g \in Request => ~Active(g)
      BY <2>2
    <3> QED
      BY <1>1, <1>3, <2>1, <3>1 DEF BesideOK, Active, Ended
  <2>3. CASE /\ UNCHANGED << pauses, taken >>
             /\ dedicated' \in {dedicated, NoSnap, Junk}
             /\ awaited' = awaited \/ awaited' = 0
    BY <1>1, <1>4, <2>1, <2>3 DEF BesideOK, Active, Claimable
  <2> QED
    BY <2>2, <2>3
<1> QED
  BY <1>5, <1>6

\* The request that runs is the only one.
LEMMA OnlyRequest ==
  ASSUME BesideInv, NEW r \in Request, Active(r)
  PROVE  awaited = 0 /\ \A g \in Request \ {r} : ~Active(g)
BY DEF BesideInv, OneRequest, BesideOK, Handler

LEMMA BesideInit ==
  ASSUME NoPriorPause, Init
  PROVE  BesideInv
<1>1. /\ prior \in {NoSnap, Junk} /\ dedicated = NoSnap
      /\ PriorStatus = {} => prior = NoSnap
  BY DEF Init, NoPriorPause, Legacy, Junk
<1>2. pauses = 0 /\ awaited = 0 /\ NoSnap # Junk
  BY <1>1 DEF Init, NoSnap, Junk, Snap
<1>3. TypeOK
  BY <1>1, <1>2, PendingLoopAssumption
     DEF Init, TypeOK, Snapshot, NoSnap, Junk, Snap, Stage, Purpose
<1> QED
  BY <1>1, <1>2, <1>3 DEF Init, BesideInv, OneRequest, Claimable, CountsOK,
     Kept, AwaitedIsStored, BesideOK, Active, Ended, Handler

\* A step that leaves table and pauses alone.
LEMMA QuietBeside ==
  ASSUME BesideInv, NEW h \in Handler, NEW s \in Stage, Goto(h, s),
         purpose' = purpose \/ \E why \in Purpose : purpose' = [purpose EXCEPT ![h] = why],
         held' = held \/ \E x \in Snapshot : held' = [held EXCEPT ![h] = x],
         UNCHANGED << dedicated, pauses, taken, void >>, prior' \in {prior, NoSnap},
         BesideOK(h)',
         awaited' \in 0..MaxPauses, Kept',
         \/ h \in Request /\ \A g \in Request \ {h} : ~Active(g)
         \/ (h \in Command \/ s \in Ended) /\ awaited' \in {0, awaited},
         faults' \in 0..MaxFaults, crashes' \in 0..MaxCrashes
  PROVE  BesideInv'
<1>1. OneRequest' /\ \A g \in Handler \ {h} : BesideOK(g)'
  BY OthersKeep DEF OwnPurpose
<1>2. TypeOK'
  BY NoSnapType DEF BesideInv, TypeOK, Goto
<1> QED
  BY <1>1, <1>2 DEF BesideInv, Claimable, CountsOK

LEMMA ReceiveBeside ==
  ASSUME BesideInv, NEW r \in Request, Receive(r)
  PROVE  BesideInv'
<1>1. /\ r \in Handler /\ stage[r] = "idle" /\ purpose[r] = "request"
      /\ UNCHANGED << stores, purpose, held, pauses, taken, void, faults, crashes >>
  BY DEF Receive, Handler, BesideInv, BesideOK, NoFault
<1>2. /\ r \notin Command /\ awaited \in 0..MaxPauses /\ 0 \in 0..MaxPauses
      /\ faults \in 0..MaxFaults /\ crashes \in 0..MaxCrashes
  BY PendingLoopAssumption DEF BesideInv, TypeOK
<1>3. CASE Goto(r, "load") /\ awaited' = 0 /\ Running \cap Request = {}
  <2>1. \A g \in Request \ {r} : ~Active(g)
    BY <1>3 DEF Running, Handler
  <2>2. BesideOK(r)' /\ Kept'
    BY <1>1, <1>2, <1>3 DEF BesideInv, TypeOK, Goto, BesideOK, Kept, AwaitedIsStored, stores
  <2> QED
    BY <1>1, <1>2, <1>3, <2>1, <2>2, QuietBeside DEF stores, Stage
<1>4. CASE Goto(r, "refused") /\ UNCHANGED awaited
  <2>1. BesideOK(r)' /\ Kept'
    BY <1>1, <1>2, <1>4 DEF BesideInv, TypeOK, Goto, BesideOK, Kept, AwaitedIsStored, Active,
       Ended, Live, stores
  <2> QED
    BY <1>1, <1>2, <1>4, <2>1, QuietBeside DEF stores, Stage, Ended
<1> QED
  BY <1>3, <1>4 DEF Receive, Handler

LEMMA OrderBeside ==
  ASSUME BesideInv, NEW c \in Command, Order(c)
  PROVE  BesideInv'
<1>1. /\ c \in Handler /\ c \notin Request
      /\ UNCHANGED << stores, held, pauses, taken, void, awaited, faults, crashes >>
  BY PendingLoopAssumption DEF Order, Handler, NoFault, ledger
<1>2. PICK why \in {"status", "cancel", "clear"}, s \in {"load", "delete"} :
        Goto(c, s) /\ purpose' = [purpose EXCEPT ![c] = why]
  BY DEF Order
<1>3. BesideOK(c)' /\ Kept'
  BY <1>1, <1>2 DEF BesideInv, TypeOK, Goto, BesideOK, Kept, AwaitedIsStored, Live, stores
<1>4. /\ awaited \in 0..MaxPauses /\ faults \in 0..MaxFaults /\ crashes \in 0..MaxCrashes
      /\ why \in Purpose /\ s \in Stage
  BY DEF BesideInv, TypeOK, Purpose, Stage
<1> QED
  BY <1>1, <1>2, <1>3, <1>4, QuietBeside DEF stores

LEMMA InterruptBeside ==
  ASSUME BesideInv, NEW r \in Request, Interrupt(r)
  PROVE  BesideInv'
<1>1. /\ r \in Handler /\ r \notin Command /\ Active(r) /\ Frontend = "cli"
      /\ Goto(r, "delete") /\ purpose' = [purpose EXCEPT ![r] = "clear"]
      /\ UNCHANGED << stores, held, pauses, taken, void, awaited, faults, crashes >>
  BY PendingLoopAssumption DEF Interrupt, Handler, Active, Ended, NoFault, ledger
<1>2. awaited = 0 /\ \A g \in Request \ {r} : ~Active(g)
  BY <1>1, OnlyRequest
<1>3. BesideOK(r)' /\ Kept'
  BY <1>1, <1>2 DEF BesideInv, TypeOK, Goto, BesideOK, Kept, AwaitedIsStored, stores
<1>4. /\ awaited \in 0..MaxPauses /\ faults \in 0..MaxFaults /\ crashes \in 0..MaxCrashes
      /\ "clear" \in Purpose /\ "delete" \in Stage
  BY DEF BesideInv, TypeOK, Purpose, Stage
<1> QED
  BY <1>1, <1>2, <1>3, <1>4, QuietBeside DEF stores

\* A load finds the table's row, what does not decode or nothing, and a notice
\* makes what it found awaited.
LEMMA LoadBeside ==
  ASSUME BesideInv, NEW h \in Handler, LoadDedicated(h) \/ LoadPrior(h)
  PROVE  BesideInv'
<1>1. /\ Active(h) /\ BesideOK(h) /\ stage[h] \in {"load", "loadPrior"}
      /\ UNCHANGED << stores, purpose, pauses, taken, void, faults, crashes >>
  BY DEF LoadDedicated, LoadPrior, Active, Ended, BesideInv, NoFault
<1>2. /\ awaited \in 0..MaxPauses /\ faults \in 0..MaxFaults /\ crashes \in 0..MaxCrashes
      /\ h \in Request \/ h \in Command
      /\ h \in Request => \A g \in Request \ {h} : ~Active(g)
      /\ h \in Request => h \notin Command
  BY <1>1, OnlyRequest, PendingLoopAssumption DEF BesideInv, TypeOK, Handler
<1>3. CASE Goto(h, "loadPrior") /\ UNCHANGED << held, awaited >>
  <2>1. BesideOK(h)' /\ Kept'
    BY <1>1, <1>2, <1>3 DEF BesideInv, TypeOK, Goto, BesideOK, Kept, AwaitedIsStored, Active,
       Ended, Live, stores
  <2> QED
    BY <1>1, <1>2, <1>3, <2>1, QuietBeside DEF stores, Stage
<1>4. CASE \E x \in {dedicated, NoSnap} \ {Junk} : Loaded(h, x)
  <2>1. PICK x \in {dedicated, NoSnap} \ {Junk} : Loaded(h, x)
    BY <1>4
  <2>2. /\ x \in Snapshot /\ Claimable(x) /\ x.status # "Undecodable"
        /\ x.pause \in 0..MaxPauses
    <3>1. NoSnap \in Snapshot /\ NoSnap.status = "None" /\ Claimable(NoSnap)
      BY PendingLoopAssumption DEF NoSnap, Snap, Snapshot, Claimable
    <3>2. dedicated \in Snapshot /\ Claimable(dedicated)
      BY DEF BesideInv, TypeOK
    <3> QED
      BY <2>1, <3>1, <3>2 DEF Snapshot, Claimable
  <2>3. /\ Goto(h, AfterLoad(purpose[h], x)) /\ held' = [held EXCEPT ![h] = x]
        /\ awaited' = IF purpose[h] = "notice" THEN x.pause ELSE awaited
    BY <2>1, <2>2 DEF Loaded, Take
  <2>4. AfterLoad(purpose[h], x) \in Stage
    BY DEF AfterLoad, Stage
  <2>5. stage'[h] = AfterLoad(purpose[h], x) /\ held'[h] = x /\ purpose'[h] = purpose[h]
    BY <1>1, <2>3 DEF BesideInv, TypeOK, Goto
  <2>6. Claimable(x)'
    BY <1>1, <2>2 DEF Claimable
  <2>7. CASE purpose[h] = "notice"
    <3>1. h \in Request /\ x.status # "Stopped"
      BY <1>1, <1>2, <2>7 DEF BesideOK, NoSnap, Snap
    <3>2. BesideOK(h)'
      BY <1>2, <2>5, <2>7, <3>1 DEF BesideOK, AfterLoad, Active, Ended
    <3>3. Kept'
      BY <1>1, <2>1, <2>2, <2>3, <2>7, <3>1 DEF BesideInv, Kept, AwaitedIsStored, Claimable,
         Live, NoSnap, Snap, Snapshot, stores
    <3>4. awaited' \in 0..MaxPauses
      BY <2>2, <2>3, <2>7
    <3> QED
      BY <1>1, <1>2, <2>2, <2>3, <2>4, <3>1, <3>2, <3>3, <3>4, QuietBeside DEF stores
  <2>8. CASE purpose[h] = "request"
    <3>1. h \in Request
      BY <1>1, <1>2, <2>8 DEF BesideOK
    <3>2. awaited' = awaited /\ awaited = 0
      BY <1>1, <2>3, <2>8, <3>1 DEF BesideOK
    <3>3. BesideOK(h)'
      BY <1>2, <2>5, <2>6, <2>8, <3>1, <3>2 DEF BesideOK, AfterLoad, Active, Ended
    <3>4. Kept'
      BY <1>1, <3>2 DEF BesideInv, Kept, AwaitedIsStored, stores
    <3> QED
      BY <1>1, <1>2, <2>2, <2>3, <2>4, <3>1, <3>2, <3>3, <3>4, QuietBeside DEF stores
  <2>9. CASE purpose[h] \notin {"notice", "request"}
    <3>1. h \in Command /\ h \notin Request
      BY <1>1, <1>2, <2>9 DEF BesideOK
    <3>2. awaited' = awaited
      BY <2>3, <2>9
    <3>3. BesideOK(h)'
      BY <2>5, <2>9, <3>1 DEF BesideOK, AfterLoad, Active, Ended
    <3>4. Kept'
      BY <1>1, <3>2 DEF Kept, AwaitedIsStored, BesideInv, Live, stores
    <3> QED
      BY <1>1, <1>2, <2>2, <2>3, <2>4, <3>1, <3>2, <3>3, <3>4, QuietBeside DEF stores
  <2> QED
    BY <2>7, <2>8, <2>9
<1>5. CASE /\ held' = [held EXCEPT ![h] = Junk] /\ UNCHANGED awaited
           /\ Goto(h, "promote") \/ Goto(h, "undecodable")
           /\ Junk \in {dedicated, prior}
  <2>1. PICK s \in {"promote", "undecodable"} : Goto(h, s)
    BY <1>5
  <2>2. PriorStatus # {}
    BY <1>5 DEF BesideInv, Kept, NoSnap, Junk, Snap
  <2>3. Kept'
    BY <2>2 DEF Kept
  <2>4. stage'[h] = s /\ held'[h] = Junk /\ UNCHANGED << dedicated, purpose, awaited >>
    BY <1>1, <1>5, <2>1 DEF BesideInv, TypeOK, Goto, stores
  <2>5. BesideOK(h)'
    BY <1>1, <1>2, <2>1, <2>2, <2>4
       DEF BesideOK, Active, Ended
  <2>6. Junk \in Snapshot
    BY PendingLoopAssumption DEF Junk, Snap, Snapshot
  <2> QED
    BY <1>1, <1>2, <1>5, <2>1, <2>3, <2>5, <2>6, QuietBeside DEF Stage, stores
<1>6. NoSnap # Junk /\ Junk.status = "Undecodable"
  BY DEF NoSnap, Junk, Snap
<1>7. CASE LoadDedicated(h)
  BY <1>3, <1>4, <1>5, <1>6, <1>7 DEF LoadDedicated, Loaded, Take
<1>8. CASE LoadPrior(h)
  BY <1>3, <1>4, <1>5, <1>6, <1>8 DEF LoadPrior, Take, BesideInv
<1> QED
  BY <1>7, <1>8

\* Copying, removing and dropping what does not decode leaves nothing to claim.
LEMMA MigrateBeside ==
  ASSUME BesideInv, NEW h \in Handler, Promote(h) \/ ClearPrior(h) \/ DropUndecodable(h)
  PROVE  BesideInv'
<1>1. /\ Active(h) /\ BesideOK(h) /\ PriorStatus # {}
      /\ stage[h] \in {"promote", "clearPrior", "undecodable"}
      /\ faults' \in 0..MaxFaults /\ crashes' \in 0..MaxCrashes
      /\ UNCHANGED << purpose, pauses, taken, void >>
  BY PendingLoopAssumption DEF Promote, ClearPrior, DropUndecodable, Active, Ended,
     BesideInv, BesideOK, TypeOK, NoFault, Fault, ledger
<1>2. /\ {NoSnap, Junk} \subseteq Snapshot /\ NoSnap.status = "None"
      /\ Junk.status = "Undecodable" /\ Claimable(Junk) /\ Claimable(NoSnap)
  BY PendingLoopAssumption DEF Junk, NoSnap, Snap, Snapshot, Claimable
<1>3. /\ h \in Request \/ h \in Command
      /\ h \in Request => h \notin Command /\ \A g \in Request \ {h} : ~Active(g)
  BY <1>1, OnlyRequest, PendingLoopAssumption DEF Handler
<1>4. PICK s \in Stage :
        /\ Goto(h, s) /\ UNCHANGED awaited
        /\ dedicated' \in {dedicated, NoSnap, Junk} /\ prior' \in {prior, NoSnap}
        /\ held' = held \/ \E x \in {NoSnap, Junk} : held' = [held EXCEPT ![h] = x]
        /\ \/ s = "clearPrior" /\ UNCHANGED held /\ held[h] = Junk
           \/ s = "undecodable"
           \/ s = "done"
           \/ s = "prepare" /\ purpose[h] = "request"
  <2>1. CASE Promote(h)
    BY <1>1, <2>1 DEF Promote, Stage, ledger, BesideOK
  <2>2. CASE ClearPrior(h)
    <3>1. held[h] = Junk
      BY <1>1, <2>2 DEF ClearPrior, BesideOK
    <3>2. Goto(h, "undecodable") /\ Take(h, Junk) /\ UNCHANGED << awaited, dedicated >>
      BY <1>2, <2>2, <3>1 DEF ClearPrior, Loaded
    <3>3. prior' \in {prior, NoSnap}
      BY <2>2 DEF ClearPrior
    <3> QED
      BY <3>2, <3>3 DEF Stage, Take
  <2>3. CASE DropUndecodable(h)
    <3>1. AfterLoad(purpose[h], NoSnap) = IF purpose[h] = "request" THEN "prepare" ELSE "done"
      BY DEF AfterLoad
    <3> QED
      BY <2>3, <3>1 DEF DropUndecodable, Stage, Take, ledger
  <2> QED
    BY <2>1, <2>2, <2>3
<1>5. OneRequest' /\ \A g \in Handler \ {h} : BesideOK(g)'
  BY <1>1, <1>3, <1>4, OthersKeep DEF OwnPurpose
<1>6. stage'[h] = s
  BY <1>4 DEF BesideInv, TypeOK, Goto
<1>7. BesideOK(h)'
  BY <1>1, <1>2, <1>3, <1>4, <1>6
     DEF BesideOK, Active, Ended
<1>8. TypeOK'
  BY <1>1, <1>2, <1>4 DEF BesideInv, TypeOK, Goto
<1>9. Claimable(dedicated)' /\ CountsOK' /\ Kept' /\ prior' \in {NoSnap, Junk}
  BY <1>1, <1>2, <1>4 DEF BesideInv, Claimable, CountsOK, Kept
<1> QED
  BY <1>5, <1>7, <1>8, <1>9 DEF BesideInv

LEMMA ThinkBeside ==
  ASSUME BesideInv, NEW h \in Handler, Assess(h) \/ Prepare(h)
  PROVE  BesideInv'
<1>1. /\ Active(h) /\ BesideOK(h) /\ h \in Request /\ h \notin Command
      /\ UNCHANGED << stores, purpose, held, pauses, taken, void, awaited, faults, crashes >>
  BY PendingLoopAssumption
     DEF Assess, Prepare, Active, Ended, BesideInv, BesideOK, NoFault, ledger
<1>2. PICK s \in {"claim", "stop", "run"} : Goto(h, s)
  BY DEF Assess, Prepare
<1>3. awaited = 0 /\ \A g \in Request \ {h} : ~Active(g)
  BY <1>1, OnlyRequest
<1>4. UNCHANGED Claimable(held[h])
  BY <1>1 DEF Claimable
<1>5. BesideOK(h)'
  <2>1. CASE Assess(h)
    BY <1>1, <1>3, <1>4, <2>1 DEF BesideInv, TypeOK, Goto, BesideOK, Assess
  <2>2. CASE Prepare(h)
    BY <1>1, <1>3, <2>2 DEF BesideInv, TypeOK, Goto, BesideOK, Prepare
  <2> QED
    BY <2>1, <2>2
<1>6. Kept'
  BY <1>1, <1>3 DEF BesideInv, Kept, AwaitedIsStored, stores
<1>7. /\ awaited \in 0..MaxPauses /\ faults \in 0..MaxFaults /\ crashes \in 0..MaxCrashes
      /\ s \in Stage
  BY DEF BesideInv, TypeOK, Stage
<1> QED
  BY <1>1, <1>2, <1>3, <1>5, <1>6, <1>7, QuietBeside DEF stores

\* A step of the request that changes the table or the pauses.
LEMMA WritingBeside ==
  ASSUME BesideInv, NEW r \in Request, Active(r), NEW s \in Stage, Goto(r, s),
         purpose' = purpose \/ \E why \in Purpose : purpose' = [purpose EXCEPT ![r] = why],
         held' = held \/ \E x \in Snapshot : held' = [held EXCEPT ![r] = x],
         dedicated' \in Snapshot, pauses' \in 0..MaxPauses, taken' \in [1..MaxPauses -> Nat],
         void' \subseteq 1..MaxPauses, PriorStatus = {} => dedicated' # Junk,
         Claimable(dedicated)', CountsOK', BesideOK(r)',
         UNCHANGED << prior, awaited, faults, crashes >>
  PROVE  BesideInv'
<1>1. r \in Handler /\ awaited = 0 /\ \A g \in Request \ {r} : ~Active(g)
  BY OnlyRequest DEF Handler
<1>2. OneRequest' /\ \A g \in Handler \ {r} : BesideOK(g)'
  BY <1>1, OthersKeep DEF OwnPurpose
<1>3. TypeOK'
  BY DEF BesideInv, TypeOK, Goto
<1>4. Kept'
  BY <1>1 DEF BesideInv, Kept, AwaitedIsStored
<1> QED
  BY <1>2, <1>3, <1>4 DEF BesideInv

LEMMA EmptyIsClaimable ==
  /\ Claimable(NoSnap) /\ NoSnap.status = "None" /\ NoSnap \in Snapshot
  /\ NoSnap # Junk /\ Junk.status = "Undecodable"
BY PendingLoopAssumption DEF Claimable, NoSnap, Junk, Snap, Snapshot

\* What a request claims nobody has resumed, whatever became of the table.
LEMMA ClaimBeside ==
  ASSUME BesideInv, NEW r \in Handler, Claim(r)
  PROVE  BesideInv'
<1>1. /\ Active(r) /\ BesideOK(r) /\ r \in Request /\ r \notin Command
      /\ held[r].status = "AwaitingUser" /\ Claimable(held[r]) /\ held[r] # NoSnap
      /\ Goto(r, "prepare") /\ dedicated' = NoSnap
      /\ taken' = [taken EXCEPT ![held[r].pause] = @ + 1]
      /\ UNCHANGED << prior, purpose, held, pauses, void, awaited, faults, crashes >>
  BY PendingLoopAssumption DEF Claim, Active, Ended, BesideInv, BesideOK, NoFault
<1>2. PICK p \in 1..MaxPauses : p = held[r].pause /\ p \in 1..pauses /\ taken[p] = 0
  BY <1>1, EmptyIsClaimable, PendingLoopAssumption DEF Claimable, BesideInv, TypeOK
<1>3. taken' = [taken EXCEPT ![p] = 1] /\ taken' \in [1..MaxPauses -> Nat]
  BY <1>1, <1>2 DEF BesideInv, TypeOK
<1>4. CountsOK'
  BY <1>1, <1>2, <1>3 DEF CountsOK, BesideInv, TypeOK
<1>5. BesideOK(r)'
  BY <1>1 DEF BesideInv, TypeOK, Goto, BesideOK, Active, Ended
<1>6. Claimable(dedicated)'
  BY <1>1 DEF Claimable, NoSnap, Junk, Snap
<1>7. "prepare" \in Stage /\ NoSnap \in Snapshot /\ pauses \in 0..MaxPauses
      /\ void \subseteq 1..MaxPauses
  BY EmptyIsClaimable DEF Stage, BesideInv, TypeOK
<1> QED
  BY <1>1, <1>3, <1>4, <1>5, <1>6, <1>7, WritingBeside, EmptyIsClaimable

LEMMA StopBeside ==
  ASSUME BesideInv, NEW r \in Handler, StoreStopped(r) \/ DropStopped(r)
  PROVE  BesideInv'
<1>1. /\ Active(r) /\ BesideOK(r) /\ r \in Request /\ r \notin Command
      /\ UNCHANGED << prior, purpose, pauses, taken, awaited, faults, crashes >>
  BY PendingLoopAssumption
     DEF StoreStopped, DropStopped, Active, Ended, BesideInv, BesideOK, NoFault, ledger
<1>2. /\ pauses \in 0..MaxPauses /\ void \subseteq 1..MaxPauses
      /\ taken \in [1..MaxPauses -> Nat] /\ {"drop", "prepare"} \subseteq Stage
  BY DEF BesideInv, TypeOK, Stage
<1>3. CountsOK'
  BY <1>1 DEF CountsOK, BesideInv
<1>4. CASE StoreStopped(r)
  <2>1. /\ held[r].pause \in 1..pauses /\ Goto(r, "drop") /\ UNCHANGED held
        /\ dedicated' = Snap(held[r].pause, "Stopped") /\ void' = void \cup {held[r].pause}
    BY <1>1, <1>4 DEF StoreStopped, BesideOK, Claimable
  <2>2. held[r].pause \in 1..MaxPauses
    BY <1>2, <2>1, PendingLoopAssumption
  <2>3. Claimable(dedicated)' /\ dedicated' \in Snapshot /\ void' \subseteq 1..MaxPauses
    BY <1>1, <1>2, <2>1, <2>2 DEF Claimable, Snap, Snapshot
  <2>4. BesideOK(r)'
    BY <1>1, <2>1 DEF BesideInv, TypeOK, Goto, BesideOK, Active, Ended
  <2> QED
    <3>1. dedicated' # Junk
      BY <2>1 DEF Junk, Snap
    <3> QED
      BY <1>1, <1>2, <1>3, <2>1, <2>3, <2>4, <3>1, WritingBeside
<1>5. CASE DropStopped(r)
  <2>1. /\ Goto(r, "prepare") /\ held' = [held EXCEPT ![r] = NoSnap]
        /\ dedicated' = NoSnap /\ UNCHANGED void
    BY <1>5 DEF DropStopped, Take, ledger
  <2>2. Claimable(dedicated)' /\ NoSnap \in Snapshot
    BY <2>1, EmptyIsClaimable DEF Claimable, NoSnap, Junk, Snap
  <2>3. BesideOK(r)'
    BY <1>1, <2>1 DEF BesideInv, TypeOK, Goto, BesideOK, Active, Ended
  <2> QED
    BY <1>1, <1>2, <1>3, <2>1, <2>2, <2>3, WritingBeside, EmptyIsClaimable
<1> QED
  BY <1>4, <1>5

LEMMA RunLoopBeside ==
  ASSUME BesideInv, NEW r \in Handler, RunLoop(r)
  PROVE  BesideInv'
<1>1. /\ Active(r) /\ BesideOK(r) /\ r \in Request /\ r \notin Command /\ Goto(r, "sync")
      /\ UNCHANGED << dedicated, prior, purpose, taken, void, awaited, faults, crashes >>
  BY PendingLoopAssumption DEF RunLoop, Active, Ended, BesideInv, BesideOK, NoFault, stores
<1>2. PICK s : /\ held' = [held EXCEPT ![r] = s]
               /\ \/ s = NoSnap /\ UNCHANGED pauses
                  \/ pauses < MaxPauses /\ pauses' = pauses + 1 /\ s = Live(pauses + 1)
  BY DEF RunLoop, Take, Live
<1>3. /\ pauses \in Nat /\ pauses' \in 0..MaxPauses /\ pauses <= pauses'
      /\ void \subseteq 1..MaxPauses /\ taken \in [1..MaxPauses -> Nat] /\ "sync" \in Stage
      /\ dedicated \in Snapshot
  BY <1>2, PendingLoopAssumption DEF BesideInv, TypeOK, Stage
<1>4. s \in Snapshot /\ s.status \in {"None", "AwaitingUser"}
  BY <1>2, <1>3, PendingLoopAssumption DEF NoSnap, Live, Snap, Snapshot
<1>5. held'[r] = s /\ stage'[r] = "sync"
  BY <1>1, <1>2 DEF BesideInv, TypeOK, Goto
<1>6. Claimable(held[r])'
  <2>1. CASE s = NoSnap
    BY <1>5, <2>1 DEF Claimable, NoSnap, Junk, Snap
  <2>2. CASE pauses < MaxPauses /\ pauses' = pauses + 1 /\ s = Live(pauses + 1)
    <3>1. s.pause = pauses + 1 /\ s.status = "AwaitingUser"
      BY <2>2 DEF Live, Snap
    <3>2. taken[pauses + 1] = 0 /\ pauses + 1 \in 1..pauses'
      BY <1>3, <2>2, PendingLoopAssumption DEF BesideInv, CountsOK
    <3> QED
      BY <1>1, <1>5, <3>1, <3>2 DEF Claimable
  <2> QED
    BY <1>2, <2>1, <2>2
<1>7. BesideOK(r)'
  BY <1>1, <1>4, <1>5, <1>6 DEF BesideOK, Active, Ended
<1>8. Claimable(dedicated)' /\ CountsOK'
  BY <1>1, <1>3, PendingLoopAssumption DEF BesideInv, Claimable, CountsOK
<1> QED
  BY <1>1, <1>2, <1>3, <1>4, <1>7, <1>8, WritingBeside DEF BesideInv, Kept

LEMMA SyncBeside ==
  ASSUME BesideInv, NEW r \in Handler, Sync(r)
  PROVE  BesideInv'
<1>1. /\ Active(r) /\ BesideOK(r) /\ r \in Request /\ r \notin Command
      /\ Claimable(held[r]) /\ held[r].status \in {"None", "AwaitingUser"}
      /\ dedicated' = held[r]
      /\ UNCHANGED << prior, held, pauses, taken, void, awaited, faults, crashes >>
  BY PendingLoopAssumption DEF Sync, Active, Ended, BesideInv, BesideOK, NoFault, ledger
<1>2. /\ pauses \in 0..MaxPauses /\ void \subseteq 1..MaxPauses /\ held[r] \in Snapshot
      /\ taken \in [1..MaxPauses -> Nat] /\ {"mirror", "load"} \subseteq Stage
      /\ "notice" \in Purpose
  BY DEF BesideInv, TypeOK, Stage, Purpose
<1>3. Claimable(dedicated)' /\ CountsOK'
  BY <1>1 DEF BesideInv, Claimable, CountsOK
<1>4. CASE Goto(r, "mirror") /\ UNCHANGED purpose
  <2>1. BesideOK(r)'
    BY <1>1, <1>4 DEF BesideInv, TypeOK, Goto, BesideOK, Active, Ended
  <2> QED
    BY <1>1, <1>2, <1>3, <1>4, <2>1, WritingBeside, EmptyIsClaimable
<1>5. CASE Goto(r, "load") /\ purpose' = [purpose EXCEPT ![r] = "notice"]
  <2>1. BesideOK(r)'
    BY <1>1, <1>5 DEF BesideInv, TypeOK, Goto, BesideOK, Active, Ended
  <2> QED
    BY <1>1, <1>2, <1>3, <1>5, <2>1, WritingBeside, EmptyIsClaimable
<1> QED
  BY <1>4, <1>5 DEF Sync

\* A command takes the row away while a request runs.
LEMMA DeleteBeside ==
  ASSUME BesideInv, NEW h \in Handler, Delete(h)
  PROVE  BesideInv'
<1>1. /\ Active(h) /\ BesideOK(h) /\ dedicated' = NoSnap /\ awaited' = 0
      /\ UNCHANGED << prior, purpose, held, pauses, taken, faults, crashes >>
  BY DEF Delete, Active, Ended, BesideInv, NoFault
<1>2. PICK s \in {"done", "mirror", "wipe"} :
        /\ Goto(h, s)
        /\ Frontend = "cli" => s = "done"
  BY DEF Delete
<1>3. h \in Command \/ s = "done"
  BY <1>1, <1>2 DEF BesideOK, Delete, Handler
<1>4. h \in Command => h \notin Request
  BY PendingLoopAssumption
<1>5. OneRequest' /\ \A g \in Handler \ {h} : BesideOK(g)'
  BY <1>1, <1>2, <1>3, OthersKeep DEF OwnPurpose, Ended
<1>6. BesideOK(h)'
  BY <1>1, <1>2, <1>3, <1>4 DEF BesideInv, TypeOK, Goto, BesideOK, Active, Ended
<1>7. TypeOK'
  <2>1. held[h].pause \in 0..MaxPauses /\ dedicated.pause \in 0..MaxPauses
        /\ prior.pause \in 0..MaxPauses /\ void \subseteq 1..MaxPauses
    BY DEF BesideInv, TypeOK, Snapshot
  <2>2. Revoked(h) \subseteq 1..MaxPauses
    BY <2>1 DEF Revoked
  <2>3. void' \subseteq 1..MaxPauses
    BY <2>1, <2>2 DEF Delete
  <2>4. s \in Stage /\ 0 \in 0..MaxPauses
    BY PendingLoopAssumption DEF Stage
  <2> QED
    BY <1>1, <1>2, <2>3, <2>4, EmptyIsClaimable DEF BesideInv, TypeOK, Goto
<1>8. Claimable(dedicated)' /\ CountsOK' /\ Kept' /\ prior' \in {NoSnap, Junk}
  BY <1>1 DEF BesideInv, Claimable, CountsOK, Kept,
     AwaitedIsStored, NoSnap, Junk, Snap
<1> QED
  BY <1>5, <1>6, <1>7, <1>8 DEF BesideInv

\* Clearing the session state of the previous backend takes no pause away.
LEMMA MirrorBeside ==
  ASSUME BesideInv, NEW h \in Handler, Wipe(h) \/ ClearMirror(h) \/ ClearMirrorFailed(h)
  PROVE  BesideInv'
<1>1. /\ Active(h) /\ BesideOK(h) /\ (h \in Request \/ h \in Command)
      /\ h \in Request => h \notin Command
      /\ prior' = NoSnap
      /\ UNCHANGED << dedicated, held, pauses, taken, void, awaited, faults, crashes >>
  BY PendingLoopAssumption DEF Wipe, ClearMirror, ClearMirrorFailed, Active, Ended, BesideInv,
     NoFault, ledger, stores, Handler
<1>2. /\ h \in Request => awaited = 0 /\ \A g \in Request \ {h} : ~Active(g)
      /\ awaited \in 0..MaxPauses /\ faults \in 0..MaxFaults /\ crashes \in 0..MaxCrashes
      /\ {"load", "failed"} \subseteq Stage /\ {"report", "notice"} \subseteq Purpose
  BY <1>1, OnlyRequest DEF BesideInv, TypeOK, Stage, Purpose
<1>3. Kept'
  BY <1>1 DEF BesideInv, Kept, AwaitedIsStored, Live, stores
<1>4. CASE Goto(h, "load") /\ purpose' = [purpose EXCEPT ![h] = "report"] /\ h \in Command
  <2>1. BesideOK(h)'
    BY <1>1, <1>4 DEF BesideInv, TypeOK, Goto, BesideOK, Active, Ended
  <2> QED
    BY <1>1, <1>2, <1>3, <1>4, <2>1, QuietBeside DEF stores
<1>5. CASE /\ Goto(h, "load") /\ purpose' = [purpose EXCEPT ![h] = "notice"]
           /\ h \in Request /\ dedicated.status # "Stopped"
  <2>1. BesideOK(h)'
    BY <1>1, <1>2, <1>5 DEF BesideInv, TypeOK, Goto, BesideOK, Active, Ended, stores
  <2> QED
    BY <1>1, <1>2, <1>3, <1>5, <2>1, QuietBeside DEF stores
<1>6. CASE Goto(h, "failed") /\ UNCHANGED purpose
  <2>1. BesideOK(h)'
    BY <1>1, <1>6 DEF BesideInv, TypeOK, Goto, BesideOK, Active, Ended
  <2>2. "failed" \in Ended /\ awaited' \in {0, awaited}
    BY <1>1 DEF Ended
  <2> QED
    BY <1>1, <1>2, <1>3, <1>6, <2>1, <2>2, QuietBeside DEF stores
<1> QED
  BY <1>1, <1>4, <1>5, <1>6 DEF Wipe, ClearMirror, ClearMirrorFailed, BesideOK

LEMMA FailBeside ==
  ASSUME BesideInv, NEW h \in Handler, Fail(h)
  PROVE  BesideInv'
<1>1. /\ Active(h) /\ BesideOK(h) /\ (h \in Request \/ h \in Command)
      /\ UNCHANGED << stores, purpose, held, pauses, taken, void, awaited, crashes >>
      /\ faults' \in 0..MaxFaults /\ crashes \in 0..MaxCrashes /\ awaited \in 0..MaxPauses
  BY PendingLoopAssumption DEF Fail, FailsHere, Fault, Active, Ended, BesideInv, TypeOK,
     ledger, Handler
<1>2. Kept'
  BY <1>1 DEF BesideInv, Kept, AwaitedIsStored, Live, stores
<1>3. CASE Goto(h, "mirrorFailed") /\ h \in Request
  <2>1. awaited = 0 /\ h \notin Command /\ \A g \in Request \ {h} : ~Active(g)
    BY <1>1, <1>3, OnlyRequest, PendingLoopAssumption
  <2>2. BesideOK(h)'
    BY <1>1, <1>3, <2>1 DEF BesideInv, TypeOK, Goto, BesideOK, Active, Ended
  <2> QED
    BY <1>1, <1>2, <1>3, <2>1, <2>2, QuietBeside DEF stores, Stage
<1>4. CASE \E s \in {"done", "failed"} : Goto(h, s)
  <2>1. PICK s \in {"done", "failed"} : Goto(h, s)
    BY <1>4
  <2>2. BesideOK(h)'
    BY <1>1, <2>1 DEF BesideInv, TypeOK, Goto, BesideOK, Active, Ended
  <2>3. s \in Ended /\ s \in Stage /\ awaited' \in {0, awaited}
    BY <1>1 DEF Ended, Stage
  <2> QED
    BY <1>1, <1>2, <2>1, <2>2, <2>3, QuietBeside DEF stores
<1> QED
  BY <1>3, <1>4 DEF Fail

LEMMA CrashBeside ==
  ASSUME BesideInv, Crash
  PROVE  BesideInv'
<1>1. \A h \in Handler : stage'[h] \in Ended \cup {"idle"}
  BY DEF Crash, Active, Ended
<1>2. UNCHANGED << dedicated, prior, purpose, held, pauses, taken, void, awaited >>
  BY DEF Crash, stores, ledger
<1>3. \A h \in Handler : stage'[h] = "idle" => stage[h] = "idle"
  BY DEF Crash
<1>4. TypeOK'
  BY <1>2, PendingLoopAssumption DEF BesideInv, TypeOK, Crash, Stage
<1>5. OneRequest'
  BY <1>1 DEF OneRequest, Active, Handler
<1>6. ASSUME NEW h \in Handler PROVE BesideOK(h)'
  BY <1>1, <1>2, <1>3 DEF BesideInv, BesideOK, Active, Ended
<1> QED
  BY <1>2, <1>4, <1>5, <1>6 DEF BesideInv, Claimable, CountsOK, Kept, AwaitedIsStored, Live

LEMMA BesideNext ==
  ASSUME BesideInv, [Next]_vars
  PROVE  BesideInv'
<1>1. ASSUME NEW r \in Request, Receive(r) \/ Interrupt(r) PROVE BesideInv'
  BY <1>1, ReceiveBeside, InterruptBeside
<1>2. ASSUME NEW c \in Command, Order(c) PROVE BesideInv'
  BY <1>2, OrderBeside
<1>3. ASSUME NEW h \in Handler, Step(h) PROVE BesideInv'
  BY <1>3, LoadBeside, MigrateBeside, ThinkBeside, ClaimBeside, StopBeside, RunLoopBeside,
     SyncBeside, DeleteBeside, MirrorBeside DEF Step
<1>4. ASSUME NEW h \in Handler, Fail(h) PROVE BesideInv'
  BY <1>4, FailBeside
<1>5. CASE Crash
  BY <1>5, CrashBeside
<1>6. CASE UNCHANGED vars
  BY <1>6 DEF vars, BesideInv, TypeOK, OneRequest, Claimable, CountsOK, Kept, AwaitedIsStored,
     Live, BesideOK, Active
<1> QED
  BY <1>1, <1>2, <1>3, <1>4, <1>5, <1>6 DEF Next

\* With no pause to migrate no question is answered to two loops
\* (ResumedAtMostOnce), whatever commands run beside the requests of a chat and
\* whatever fails (take_resumable_pending_loop reads, then deletes, in two
\* transactions; only the permit of the chat keeps a second request out).
THEOREM ResumedOnceWithoutMigration ==
  ASSUME NoPriorPause
  PROVE  Spec => []ResumedAtMostOnce
<1>1. Init => BesideInv
  BY BesideInit
<1>2. BesideInv /\ [Next]_vars => BesideInv'
  BY BesideNext
<1>3. BesideInv => ResumedAtMostOnce
  BY DEF BesideInv, CountsOK, ResumedAtMostOnce
<1> QED
  BY <1>1, <1>2, <1>3, PTL DEF Spec

\* With nothing to migrate at all the question the user was last told to answer
\* is the one the next request finds (AwaitedIsKept), in the bot and on the
\* command line, through failures and crashes.
THEOREM AwaitedKeptWithoutMigration ==
  ASSUME PriorStatus = {}
  PROVE  Spec => []AwaitedIsKept
<1>1. Init => BesideInv
  BY BesideInit DEF NoPriorPause
<1>2. BesideInv /\ [Next]_vars => BesideInv'
  BY BesideNext
<1>3. BesideInv => AwaitedIsKept
  BY DEF BesideInv, Kept, AwaitedIsStored, AwaitedIsKept, Effective, Live, NoSnap, Snap
<1> QED
  BY <1>1, <1>2, <1>3, PTL DEF Spec

-----------------------------------------------------------------------------
(* No handler goes round: what is read from the stores, what is migrated,  *)
(* what fails and what the user interrupts only takes it nearer to its     *)
(* end.                                                                    *)

\* What is ahead of a load, by what it is for.
AfterLoading(why) == CASE why = "request" -> 15 [] why = "cancel" -> 10 [] OTHER -> 2

\* How many steps a handler has ahead of it at most.
StepsAhead(s, why) ==
  CASE s = "idle"             -> 20
    [] s = "load"             -> AfterLoading(why) + 4
    [] s = "loadPrior"        -> AfterLoading(why) + 3
    [] s = "promote"          -> AfterLoading(why) + 2
    [] s = "clearPrior"       -> AfterLoading(why) + 1
    [] s = "undecodable"      -> AfterLoading(why)
    [] s = "assess"           -> 14
    [] s \in {"claim", "stop"} -> 13
    [] s = "drop"             -> 12
    [] s = "prepare"          -> 11
    [] s = "run"              -> 10
    [] s = "sync"             -> 9
    [] s = "delete"           -> 8
    [] s \in {"mirror", "wipe"} -> 7
    [] s = "mirrorFailed"     -> 1
    [] OTHER                  -> 0

Ahead(h) == StepsAhead(stage[h], purpose[h])

Placed == stage \in [Handler -> Stage] /\ purpose \in [Handler -> Purpose]

\* Somebody comes nearer to his end and nobody is thrown back.
Nearer == /\ \A h \in Handler : Ahead(h)' <= Ahead(h)
          /\ \E h \in Handler : Ahead(h)' < Ahead(h)

LEMMA AheadIsNat ==
  ASSUME NEW s \in Stage, NEW why
  PROVE  /\ StepsAhead(s, why) \in 0..20
         /\ StepsAhead(s, why) = 0 <=> s \in Ended
<1>1. AfterLoading(why) \in {2, 10, 15}
  BY DEF AfterLoading
<1> QED
  BY <1>1 DEF StepsAhead, Stage, Ended

\* A step of one handler, by where it goes and what it is for then.
LEMMA OneComesNearer ==
  ASSUME Placed, NEW h \in Handler, NEW s \in Stage, NEW why \in Purpose,
         stage' = [stage EXCEPT ![h] = s], purpose' = [purpose EXCEPT ![h] = why],
         StepsAhead(s, why) < StepsAhead(stage[h], purpose[h])
  PROVE  Placed' /\ Nearer
<1>1. /\ stage' \in [Handler -> Stage] /\ purpose' \in [Handler -> Purpose]
      /\ stage'[h] = s /\ purpose'[h] = why
      /\ \A g \in Handler \ {h} : stage'[g] = stage[g] /\ purpose'[g] = purpose[g]
  BY DEF Placed
<1>2. Ahead(h)' < Ahead(h)
  BY <1>1 DEF Ahead
<1>3. ASSUME NEW g \in Handler PROVE Ahead(g)' <= Ahead(g)
  <2>1. Ahead(g) \in 0..20 /\ Ahead(g)' \in 0..20
    BY <1>1, AheadIsNat DEF Placed, Ahead
  <2> QED
    BY <1>1, <1>2, <2>1 DEF Ahead
<1> QED
  BY <1>1, <1>2, <1>3 DEF Placed, Nearer

\* The same where the handler stays what it is.
LEMMA OneGoesOn ==
  ASSUME Placed, NEW h \in Handler, NEW s \in Stage, Goto(h, s), UNCHANGED purpose,
         StepsAhead(s, purpose[h]) < StepsAhead(stage[h], purpose[h])
  PROVE  Placed' /\ Nearer
<1>1. purpose' = [purpose EXCEPT ![h] = purpose[h]] /\ purpose[h] \in Purpose
  BY DEF Placed
<1> QED
  BY <1>1, OneComesNearer DEF Goto

LEMMA LoadComesNearer ==
  ASSUME Placed, NEW h \in Handler,
         LoadDedicated(h) \/ LoadPrior(h) \/ Promote(h) \/ ClearPrior(h) \/ DropUndecodable(h)
  PROVE  Placed' /\ Nearer
<1>1. AfterLoading(purpose[h]) \in {2, 10, 15}
  BY DEF AfterLoading
<1>2. ASSUME NEW snap
      PROVE  /\ AfterLoad(purpose[h], snap) \in {"prepare", "assess", "delete", "done"}
             /\ StepsAhead(AfterLoad(purpose[h], snap), purpose[h]) < AfterLoading(purpose[h])
  <2>1. CASE purpose[h] = "request"
    BY <2>1 DEF AfterLoad, AfterLoading, StepsAhead
  <2>2. CASE purpose[h] = "cancel"
    BY <2>2 DEF AfterLoad, AfterLoading, StepsAhead
  <2>3. CASE purpose[h] \notin {"request", "cancel"}
    BY <2>3 DEF AfterLoad, AfterLoading, StepsAhead
  <2> QED
    BY <2>1, <2>2, <2>3
<1>3. StepsAhead("undecodable", purpose[h]) = AfterLoading(purpose[h])
  BY DEF StepsAhead
<1>4. /\ StepsAhead("load", purpose[h]) = AfterLoading(purpose[h]) + 4
      /\ StepsAhead("loadPrior", purpose[h]) = AfterLoading(purpose[h]) + 3
      /\ StepsAhead("promote", purpose[h]) = AfterLoading(purpose[h]) + 2
      /\ StepsAhead("clearPrior", purpose[h]) = AfterLoading(purpose[h]) + 1
  BY DEF StepsAhead
<1>5. UNCHANGED purpose
  BY DEF LoadDedicated, LoadPrior, Promote, ClearPrior, DropUndecodable
<1>6. ASSUME NEW s, Goto(h, s), StepsAhead(s, purpose[h]) < StepsAhead(stage[h], purpose[h]),
             s \in {"loadPrior", "promote", "clearPrior", "undecodable",
                    "prepare", "assess", "delete", "done"}
      PROVE  Placed' /\ Nearer
  <2>1. s \in Stage
    BY <1>6 DEF Stage
  <2> QED
    BY <1>5, <1>6, <2>1, OneGoesOn
<1>7. ASSUME NEW snap, Loaded(h, snap), stage[h] \in {"load", "loadPrior", "clearPrior"}
      PROVE  Placed' /\ Nearer
  <2>1. PICK s : /\ Goto(h, s)
                 /\ s = "undecodable" \/ s = AfterLoad(purpose[h], snap)
    BY <1>7 DEF Loaded
  <2>2. StepsAhead(s, purpose[h]) <= AfterLoading(purpose[h])
    <3>1. CASE s = "undecodable"
      BY <1>1, <1>3, <3>1
    <3>2. CASE s = AfterLoad(purpose[h], snap)
      <4>1. StepsAhead(s, purpose[h]) \in 0..20
        BY <1>2, <3>2, AheadIsNat DEF Stage
      <4> QED
        BY <1>1, <1>2, <3>2, <4>1
    <3> QED
      BY <2>1, <3>1, <3>2
  <2>3. StepsAhead(s, purpose[h]) \in 0..20
    BY <1>2, <2>1, AheadIsNat DEF Stage
  <2> QED
    BY <1>1, <1>2, <1>4, <1>6, <1>7, <2>1, <2>2, <2>3
<1>8. CASE LoadDedicated(h)
  <2>1. CASE Loaded(h, dedicated)
    BY <1>7, <1>8, <2>1 DEF LoadDedicated
  <2>2. CASE Goto(h, "loadPrior")
    BY <1>1, <1>4, <1>6, <1>8, <2>2 DEF LoadDedicated
  <2> QED
    BY <1>8, <2>1, <2>2 DEF LoadDedicated
<1>9. CASE LoadPrior(h)
  <2>1. CASE Loaded(h, NoSnap)
    BY <1>7, <1>9, <2>1 DEF LoadPrior
  <2>2. CASE Goto(h, "promote")
    BY <1>1, <1>4, <1>6, <1>9, <2>2 DEF LoadPrior
  <2> QED
    BY <1>9, <2>1, <2>2 DEF LoadPrior
<1>10. CASE Promote(h)
  BY <1>1, <1>4, <1>6, <1>10 DEF Promote
<1>11. CASE ClearPrior(h)
  BY <1>7, <1>11 DEF ClearPrior
<1>12. CASE DropUndecodable(h)
  <2>1. stage[h] = "undecodable" /\ Goto(h, AfterLoad(purpose[h], NoSnap))
    BY <1>12 DEF DropUndecodable
  <2> QED
    BY <1>2, <1>3, <1>6, <2>1
<1> QED
  BY <1>8, <1>9, <1>10, <1>11, <1>12

LEMMA StepComesNearer ==
  ASSUME Placed, NEW h \in Handler, Step(h)
  PROVE  Placed' /\ Nearer
<1>1. CASE LoadDedicated(h) \/ LoadPrior(h) \/ Promote(h) \/ ClearPrior(h) \/ DropUndecodable(h)
  BY <1>1, LoadComesNearer
<1>2. ASSUME NEW s \in Stage, Goto(h, s), UNCHANGED purpose,
             \/ stage[h] = "assess" /\ s \in {"claim", "stop"}
             \/ stage[h] = "stop" /\ s = "drop"
             \/ stage[h] \in {"claim", "drop"} /\ s = "prepare"
             \/ stage[h] = "prepare" /\ s = "run"
             \/ stage[h] = "run" /\ s = "sync"
             \/ stage[h] = "sync" /\ s = "mirror"
             \/ stage[h] = "delete" /\ s \in {"mirror", "wipe", "done"}
             \/ stage[h] = "mirrorFailed" /\ s = "failed"
      PROVE  Placed' /\ Nearer
  <2>1. StepsAhead(s, purpose[h]) < StepsAhead(stage[h], purpose[h])
    BY <1>2 DEF StepsAhead
  <2> QED
    BY <1>2, <2>1, OneGoesOn
<1>3. ASSUME stage[h] \in {"sync", "mirror", "wipe"}, Goto(h, "load"),
             NEW why \in {"notice", "report"}, purpose' = [purpose EXCEPT ![h] = why]
      PROVE  Placed' /\ Nearer
  <2>1. StepsAhead("load", why) < StepsAhead(stage[h], purpose[h])
    BY <1>3 DEF StepsAhead, AfterLoading
  <2>2. "load" \in Stage /\ why \in Purpose
    BY <1>3 DEF Stage, Purpose
  <2> QED
    BY <1>3, <2>1, <2>2, OneComesNearer DEF Goto
<1>4. CASE Assess(h) \/ Claim(h) \/ StoreStopped(h) \/ DropStopped(h) \/ Prepare(h) \/ RunLoop(h)
  <2>1. PICK s \in {"claim", "stop", "drop", "prepare", "run", "sync"} :
          /\ Goto(h, s) /\ UNCHANGED purpose
          /\ \/ stage[h] = "assess" /\ s \in {"claim", "stop"}
             \/ stage[h] = "stop" /\ s = "drop"
             \/ stage[h] \in {"claim", "drop"} /\ s = "prepare"
             \/ stage[h] = "prepare" /\ s = "run"
             \/ stage[h] = "run" /\ s = "sync"
    BY <1>4 DEF Assess, Claim, StoreStopped, DropStopped, Prepare, RunLoop
  <2>2. s \in Stage
    BY DEF Stage
  <2> QED
    BY <1>2, <2>1, <2>2
<1>5. CASE Sync(h)
  <2>1. \/ Goto(h, "mirror") /\ UNCHANGED purpose
        \/ Goto(h, "load") /\ purpose' = [purpose EXCEPT ![h] = "notice"]
    BY <1>5 DEF Sync
  <2>2. stage[h] = "sync" /\ "mirror" \in Stage
    BY <1>5 DEF Sync, Stage
  <2> QED
    BY <1>2, <1>3, <2>1, <2>2
<1>6. CASE Delete(h) \/ ClearMirrorFailed(h)
  <2>1. PICK s \in {"mirror", "wipe", "done", "failed"} :
          /\ Goto(h, s) /\ UNCHANGED purpose
          /\ \/ stage[h] = "delete" /\ s \in {"mirror", "wipe", "done"}
             \/ stage[h] = "mirrorFailed" /\ s = "failed"
    BY <1>6 DEF Delete, ClearMirrorFailed
  <2>2. s \in Stage
    BY DEF Stage
  <2> QED
    BY <1>2, <2>1, <2>2
<1>7. CASE Wipe(h) \/ ClearMirror(h)
  <2>1. PICK why \in {"notice", "report"} : purpose' = [purpose EXCEPT ![h] = why]
    BY <1>7 DEF Wipe, ClearMirror
  <2>2. stage[h] \in {"mirror", "wipe"} /\ Goto(h, "load")
    BY <1>7 DEF Wipe, ClearMirror
  <2> QED
    BY <1>3, <2>1, <2>2
<1> QED
  BY <1>1, <1>4, <1>5, <1>6, <1>7 DEF Step

\* A request or a command is taken up, refused, interrupted, or fails.
LEMMA OthersComeNearer ==
  ASSUME Placed, NEW h \in Handler,
         \/ h \in Request /\ (Receive(h) \/ Interrupt(h))
         \/ h \in Command /\ Order(h)
         \/ Fail(h)
  PROVE  Placed' /\ Nearer
<1>1. CASE Receive(h)
  <2>1. PICK s \in {"load", "refused"} : Goto(h, s)
    BY <1>1 DEF Receive
  <2>2. stage[h] = "idle" /\ UNCHANGED purpose
    BY <1>1 DEF Receive
  <2>3. StepsAhead(s, purpose[h]) < StepsAhead("idle", purpose[h])
    BY <2>1 DEF StepsAhead, AfterLoading
  <2>4. s \in Stage
    BY DEF Stage
  <2> QED
    BY <2>1, <2>2, <2>3, <2>4, OneGoesOn
<1>2. CASE Interrupt(h) \/ Order(h)
  <2>1. PICK s \in {"load", "delete"}, why \in {"status", "cancel", "clear"} :
          /\ Goto(h, s) /\ purpose' = [purpose EXCEPT ![h] = why]
          /\ stage[h] \in {"assess", "run"} => s = "delete"
    BY <1>2 DEF Interrupt, Order
  <2>2. stage[h] \in {"idle", "assess", "run"}
    BY <1>2 DEF Interrupt, Order
  <2>3. StepsAhead(s, why) < StepsAhead(stage[h], purpose[h])
    BY <2>1, <2>2 DEF StepsAhead, AfterLoading
  <2>4. s \in Stage /\ why \in Purpose
    BY DEF Stage, Purpose
  <2> QED
    BY <2>1, <2>3, <2>4, OneComesNearer DEF Goto
<1>3. CASE Fail(h)
  <2>1. PICK s \in {"done", "failed", "mirrorFailed"} :
          /\ Goto(h, s)
          /\ s = "mirrorFailed" => /\ purpose[h] = "request"
                                   /\ stage[h] \notin {"mirror", "mirrorFailed"}
    BY <1>3 DEF Fail
  <2>2. FailsHere(h) /\ UNCHANGED purpose
    BY <1>3 DEF Fail
  <2>3. StepsAhead(s, purpose[h]) < StepsAhead(stage[h], purpose[h])
    <3>1. CASE s = "mirrorFailed"
      BY <2>1, <2>2, <3>1 DEF FailsHere, StepsAhead, AfterLoading
    <3>2. CASE s \in {"done", "failed"}
      BY <2>2, <3>2 DEF FailsHere, StepsAhead, AfterLoading
    <3> QED
      BY <3>1, <3>2
  <2>4. s \in Stage
    BY DEF Stage
  <2> QED
    BY <2>1, <2>2, <2>3, <2>4, OneGoesOn
<1> QED
  BY <1>1, <1>2, <1>3

LEMMA CrashComesNearer ==
  ASSUME Placed, Crash
  PROVE  Placed' /\ Nearer
<1>1. /\ stage' = [h \in Handler |-> IF Active(h) THEN "crashed" ELSE stage[h]]
      /\ UNCHANGED purpose /\ Running # {}
  BY DEF Crash
<1>2. Placed'
  BY <1>1 DEF Placed, Stage
<1>3. ASSUME NEW h \in Handler
      PROVE  /\ ~ Active(h) => Ahead(h)' = Ahead(h)
             /\ Active(h) => Ahead(h)' = 0 /\ Ahead(h) > 0
  <2>1. stage'[h] = IF Active(h) THEN "crashed" ELSE stage[h]
    BY <1>1
  <2>2. Ahead(h) \in 0..20 /\ (Ahead(h) = 0 <=> stage[h] \in Ended)
    BY AheadIsNat DEF Placed, Ahead
  <2>3. StepsAhead("crashed", purpose[h]) = 0
    BY DEF StepsAhead
  <2> QED
    BY <1>1, <2>1, <2>2, <2>3 DEF Ahead, Active
<1>4. ASSUME NEW h \in Handler PROVE Ahead(h)' <= Ahead(h)
  <2>1. Ahead(h) \in 0..20
    BY AheadIsNat DEF Placed, Ahead
  <2> QED
    BY <1>3, <2>1
<1>5. PICK h \in Handler : Active(h)
  BY <1>1 DEF Running
<1>6. Ahead(h)' < Ahead(h)
  BY <1>3, <1>5
<1> QED
  BY <1>2, <1>4, <1>6 DEF Nearer

(* Whatever is stored or migrated, fails, crashes or is interrupted: a     *)
(* message or a command is done with after 20 steps at the latest, no step *)
(* of another throws it back, and only one that has ended has nothing      *)
(* ahead.  So EveryoneIsAnswered, and with it the permit of the chat,      *)
(* needs no more than that a handler at work takes its next step.          *)
THEOREM HandlersComeToAnEnd ==
  Spec => /\ [](\A h \in Handler : Ahead(h) \in 0..20 /\ (Active(h) => Ahead(h) > 0))
          /\ [][Nearer]_vars
<1>1. Init => Placed
  BY DEF Init, Placed, Stage, Purpose
<1>2. Placed /\ [Next]_vars => Placed' /\ [Nearer]_vars
  <2>1. ASSUME Placed, Next PROVE Placed' /\ Nearer
    BY <2>1, StepComesNearer, OthersComeNearer, CrashComesNearer DEF Next, Handler
  <2>2. ASSUME Placed, UNCHANGED vars PROVE Placed'
    BY <2>2 DEF Placed, vars
  <2> QED
    BY <2>1, <2>2
<1>3. Placed => \A h \in Handler : Ahead(h) \in 0..20 /\ (Active(h) => Ahead(h) > 0)
  BY AheadIsNat DEF Placed, Ahead, Active
<1> QED
  BY <1>1, <1>2, <1>3, PTL DEF Spec
=============================================================================
