-------------------------- MODULE TelegramChatProofs --------------------------
(***************************************************************************)
(* For any number of updates, sessions, failures and deaths of the bot: an *)
(* update is dispatched once in the life of a process, an answer stands    *)
(* behind its message, and a deleted session has no turns and no request.  *)
(*                                                                         *)
(* A task goes on by one of its steps or by a failing call.  Each is       *)
(* a TaskStep, which says what a task may do to the permit, the stores and *)
(* the turns; the invariants are shown for TaskStep, once.                 *)
(***************************************************************************)
EXTENDS TelegramChat, SequenceTheorems, TLAPS

\* A task that works on a session, and one that changes its turns.
Working == { "select", "rename", "name", "delete", "hear", "execute", "answer",
             "forget", "wipe", "read", "replace" }
Writing == { "hear", "execute", "answer", "read", "replace" }

Rest == { "idle", "done", "lost" }
TaskRecord ==
  [pc : Pc, kind : {"request"} \cup Command \cup Callback, target : Session \cup {None},
   session : Session \cup {None}, held : Seq(Turn), answered : BOOLEAN]

\* A request that was not refused, and has not come to its end.
Served(r) == r.pc \notin Rest \cup {"spawned"} /\ r.kind = "request"

\* What a task is like at each point.
TaskFits(r) ==
  /\ r \in TaskRecord
  /\ r.pc \in Working \/ r.answered => r.session \in Session
  /\ r.answered => r.pc \in {"reply", "done", "lost"}
  /\ r.pc = "spawned" => r.kind \in {"request"} \cup Command
  /\ r.pc = "active" => r.kind \in {"request", "cancel", "clear", "compact", "setting", "delete"}
  /\ r.pc \in {"hear", "execute", "answer"} => r.kind = "request"
  /\ r.pc = "replace" => Len(r.held) > Retain
  /\ r.kind \in Callback => r.target \in Session

PollInv ==
  /\ sent \in 0 .. MaxUpdates /\ confirmed \in 0 .. sent /\ next \in 0 .. sent
  /\ next # 0 => confirmed <= next
  /\ runs \in [Update -> Nat]
  /\ \A u \in Update : runs[u] <= crashes + (IF u <= next THEN 1 ELSE 0)
  /\ \A u \in Update : u <= next \/ u <= confirmed => runs[u] > 0
  /\ \A u \in Update : task[u].pc \notin Rest => u <= next

TaskInv ==
  /\ task \in [Update -> TaskRecord]
  /\ \A u \in Update : TaskFits(task[u])
  /\ \A u \in Update : permit = u <=> Served(task[u])
  /\ permit \in {0} \cup Update

StoreInv ==
  /\ rename \in Session \cup {None}
  /\ catalog \in Catalog
  /\ turns \in [Session -> Seq(Turn)]
  /\ paused \subseteq Session
  /\ used \in Nat /\ 1 .. used \subseteq Session
  /\ disturbed \subseteq Update /\ deleted \subseteq Session /\ torn \in BOOLEAN

ShapeInv ==
  /\ PollInv
  /\ TaskInv
  /\ StoreInv
  /\ {faults, crashes} \subseteq 0 .. MaxFailures

\* Turns i - 1 and i of h are the message u and its answer.
Answers(h, u) ==
  \E i \in DOMAIN h : i > 1 /\ h[i] = Said("assistant", u) /\ h[i - 1] = Said("user", u)

AnswerInv ==
  \A u \in Update \ disturbed :
    /\ task[u].answered => Answers(turns[task[u].session], u)
    /\ task[u].pc \in {"execute", "answer"} =>
         LET h == turns[task[u].session] IN h # << >> /\ h[Len(h)] = Said("user", u)

\* Where no task writes.
Quiet(s) ==
  /\ turns[s] = << >>
  /\ \A u \in Update : task[u].session = s => task[u].pc \notin Writing

GoneInv ==
  /\ ~ torn => Resolves(catalog)
  /\ catalog.known \cup deleted \subseteq 1 .. used
  /\ \A s \in deleted : s \notin catalog.known /\ Quiet(s)

-----------------------------------------------------------------------------
(* Steps of one task.                                                      *)

\* The task of u goes on as r, and has the permit as long as it is served.
Moves(u, r) ==
  /\ task[u].pc \notin Rest
  /\ task' = [task EXCEPT ![u] = r] /\ TaskFits(r)
  /\ permit' = IF Served(r) THEN u ELSE IF permit = u THEN 0 ELSE permit
  /\ Served(r) => permit \in {0, u}

\* It hears and answers in these steps only, it answers where it was heard,
\* and it works on sessions that exist.
Honest(u, r) ==
  /\ r.pc = "execute" => Hear(u)
  /\ r.pc = "answer" => task[u].pc = "execute" /\ r.session = task[u].session
  /\ r.answered => (task[u].answered \/ Answer(u)) /\ r.session = task[u].session
  /\ r.pc \in Writing =>
       \/ task[u].pc \in Writing /\ r.session = task[u].session
       \/ r.session \in catalog.known

\* Whose turns it changes.
Disturbs(u) ==
  /\ disturbed \subseteq disturbed'
  /\ \/ turns' = turns
     \/ Hear(u) \/ Answer(u)
     \/ /\ disturbed' = Touched(task[u].session)
        /\ \A s \in Session \ { task[u].session } : turns'[s] = turns[s]

TaskStep(u, r) ==
  /\ Moves(u, r) /\ Honest(u, r) /\ Disturbs(u)
  /\ StoreInv' /\ faults' \in 0 .. MaxFailures
  /\ UNCHANGED << polling, crashes >>

-----------------------------------------------------------------------------
(* The catalog and the turns.                                              *)

\* What the last write of a list leaves.
LEMMA LastWrite ==
  ASSUME NEW S, NEW x \in Seq(S), NEW k \in S
  PROVE  /\ x \o << k >> \in Seq(S) /\ After(x \o << k >>) = k
         /\ After(<< k >>) = k
<1>1. x \o << k >> = Append(x, k)
  BY AppendIsConcat
<1>2. Append(x, k) \in Seq(S) /\ Append(x, k)[Len(Append(x, k))] = k
  BY AppendProperties
<1>3. QED
  BY <1>1, <1>2 DEF After

\* What an operation on s leaves, when it comes to its end and when it does not.
LEMMA CatalogWrites ==
  ASSUME NEW k \in Catalog, NEW s \in Session
  PROVE  LET S == { c \in Catalog : c.known \subseteq k.known \cup {s} }
         IN  /\ After(CreateWrites(k, s)) = [k EXCEPT !.known = @ \cup {s}]
             /\ After(SelectWrites(k, s)) = Pointing(k, s)
             /\ After(DeleteWrites(k, s)) =
                  IF k.active = s THEN Pointing(Without(k, s), None) ELSE Without(k, s)
             /\ Broken(k, CreateWrites(k, s)) \subseteq S
             /\ Broken(k, SelectWrites(k, s)) \subseteq S
             /\ Broken(k, DeleteWrites(k, s)) \subseteq S
             /\ Broken(k, TouchWrites(k, s)) \subseteq S
<1> DEFINE S == { c \in Catalog : c.known \subseteq k.known \cup {s} }
<1>1. /\ [k EXCEPT !.known = @ \cup {s}] \in S
      /\ k \in S /\ Without(k, s) \in S /\ Pointing(k, s) \in S /\ Pointing(k, None) \in S
      /\ Pointing(Without(k, s), None) \in S
  BY DEF Catalog, Without, Pointing
<1> HIDE DEF S
<1>2. \A w \in Seq(S) : Broken(k, w) \subseteq S
  BY <1>1 DEF Broken
<1>3. /\ CreateWrites(k, s) \in Seq(S)
      /\ After(CreateWrites(k, s)) = [k EXCEPT !.known = @ \cup {s}]
  <2>1. \A c \in S : << c >> \in Seq(S)
    OBVIOUS
  <2>2. << >> \in Seq(S)
    OBVIOUS
  <2>3. QED
    BY <1>1, <2>1, <2>2, LastWrite DEF CreateWrites
<1>4. TouchWrites(k, s) \in Seq(S)
  BY <1>1 DEF TouchWrites
<1>5. SelectWrites(k, s) \in Seq(S) /\ After(SelectWrites(k, s)) = Pointing(k, s)
  <2> DEFINE x == TouchWrites(k, s)
             y == IF k.active = None THEN << >> ELSE << Pointing(k, None) >>
  <2>1. y \in Seq(S)
    BY <1>1
  <2>2. x \o y \in Seq(S)
    BY <1>4, <2>1, ConcatProperties
  <2>3. SelectWrites(k, s) = (x \o y) \o << Pointing(k, s) >>
    BY DEF SelectWrites
  <2> HIDE DEF x, y
  <2>4. QED
    BY <1>1, <2>2, <2>3, LastWrite
<1>6. /\ DeleteWrites(k, s) \in Seq(S)
      /\ After(DeleteWrites(k, s)) =
           IF k.active = s THEN Pointing(Without(k, s), None) ELSE Without(k, s)
  <2>1. << Without(k, s) >> \in Seq(S)
    BY <1>1
  <2>2. << Without(k, s) >> \o << >> = << Without(k, s) >>
    BY <2>1, ConcatEmptySeq
  <2>3. CASE k.active = s
    <3>1. DeleteWrites(k, s) = << Without(k, s) >> \o << Pointing(Without(k, s), None) >>
      BY <2>3 DEF DeleteWrites
    <3>2. /\ DeleteWrites(k, s) \in Seq(S)
          /\ After(DeleteWrites(k, s)) = Pointing(Without(k, s), None)
      BY <1>1, <2>1, <3>1, LastWrite
    <3>3. QED
      BY <2>3, <3>2
  <2>4. CASE k.active # s
    <3>1. DeleteWrites(k, s) = << Without(k, s) >>
      BY <2>2, <2>4 DEF DeleteWrites
    <3>2. QED
      BY <1>1, <2>1, <2>4, <3>1, LastWrite
  <2>5. QED
    BY <2>3, <2>4
<1>7. QED
  BY <1>2, <1>3, <1>4, <1>5, <1>6 DEF S

LEMMA SaidType ==
  /\ \A u \in Update, role \in {"user", "assistant"} : Said(role, u) \in Turn
  /\ Said("summary", 0) \in Turn
BY DEF Said, Turn

LEMMA AppendedTurn ==
  ASSUME StoreInv, NEW s \in Session, NEW x \in Turn
  PROVE  [turns EXCEPT ![s] = Append(@, x)] \in [Session -> Seq(Turn)]
BY DEF StoreInv

LEMMA ReplacedTurns ==
  ASSUME StoreInv, NEW s \in Session, NEW h \in Seq(Turn)
  PROVE  [turns EXCEPT ![s] = h] \in [Session -> Seq(Turn)]
BY DEF StoreInv

\* What a compaction writes are turns.
LEMMA KeptTurns ==
  ASSUME NEW h \in Seq(Turn), Len(h) > Retain, NEW i \in Len(h) - Retain .. Len(h)
  PROVE  SubSeq(h, Len(h) - Retain + 1, i) \o << Said("summary", 0) >> \in Seq(Turn)
<1>1. Retain \in Nat /\ Len(h) \in Nat
  BY ChatAssumption
<1>2. SubSeq(h, Len(h) - Retain + 1, i) \in Seq(Turn)
  BY <1>1, SubSeqProperties
<1>3. << Said("summary", 0) >> \in Seq(Turn)
  BY SaidType
<1>4. QED
  BY <1>2, <1>3

LEMMA TouchedGrows ==
  ASSUME StoreInv, NEW s
  PROVE  disturbed \subseteq Touched(s) /\ Touched(s) \subseteq Update
BY DEF Touched, StoreInv

-----------------------------------------------------------------------------
(* Tasks.                                                                  *)

LEMMA Gone ==
  ASSUME TaskInv, NEW u \in Update, NEW p
  PROVE  LET r == [task[u] EXCEPT !.pc = p]
         IN  /\ r.pc = p /\ r.kind = task[u].kind /\ r.target = task[u].target
             /\ r.session = task[u].session /\ r.held = task[u].held
             /\ r.answered = task[u].answered
             /\ p \in Pc => r \in TaskRecord
             /\ Goto(u, p) => task' = [task EXCEPT ![u] = r]
BY DEF TaskInv, TaskRecord, Goto

\* A task that gives its response is done, or has it to send.
Retires(u, r) ==
  /\ r.pc \in {"reply", "done"}
  /\ r.answered => task[u].answered /\ r.session = task[u].session

LEMMA EndRetires ==
  ASSUME TaskInv, NEW u \in Update, End(u)
  PROVE  LET r == Ended(u)
         IN  task' = [task EXCEPT ![u] = r] /\ TaskFits(r) /\ Retires(u, r) /\ ~ Served(r)
             /\ r.pc = "done"
<1> DEFINE r == Ended(u)
<1>1. task[u] \in TaskRecord /\ Idle \in TaskRecord /\ TaskFits(task[u])
      /\ Idle.answered = FALSE
  BY DEF TaskInv, TaskFits, TaskRecord, Idle, Pc
<1>2. /\ r \in TaskRecord /\ r.pc = "done"
      /\ r.answered = task[u].answered
      /\ r.answered => r.session = task[u].session
      /\ r.kind \in Callback => r.target \in Session
  <2>1. CASE task[u].answered
    <3>1. /\ r \in TaskRecord /\ r.pc = "done" /\ r.answered = task[u].answered
          /\ r.session = task[u].session
          /\ r.kind = IF u <= confirmed THEN "request" ELSE task[u].kind
          /\ r.target = IF u <= confirmed THEN None ELSE task[u].target
      BY ZenonT(30), <1>1, <2>1 DEF Ended, TaskRecord, Pc
    <3>2. QED
      BY <1>1, <2>1, <3>1 DEF TaskFits, Callback
  <2>2. CASE ~ task[u].answered
    <3>1. /\ r \in TaskRecord /\ r.pc = "done" /\ r.answered = FALSE
          /\ r.kind = IF u <= confirmed THEN "request" ELSE task[u].kind
          /\ r.target = IF u <= confirmed THEN None ELSE task[u].target
      BY ZenonT(30), <1>1, <2>2 DEF Ended, TaskRecord, Pc
    <3>2. task[u].answered = FALSE
      BY <1>1, <2>2 DEF TaskRecord
    <3>3. QED
      BY <1>1, <3>1, <3>2 DEF TaskFits, Callback
  <2>3. QED
    BY <2>1, <2>2
<1>3. task' = [task EXCEPT ![u] = r]
  BY DEF End
<1> HIDE DEF r
<1>4. TaskFits(r) /\ Retires(u, r) /\ ~ Served(r)
  BY <1>1, <1>2 DEF TaskFits, Retires, Served, Working, Rest
<1>5. QED
  BY <1>2, <1>3, <1>4 DEF r

LEMMA RespondRetires ==
  ASSUME TaskInv, NEW u \in Update, Respond(u), task[u].pc \notin Rest, permit' = permit
  PROVE  \E r : Moves(u, r) /\ Retires(u, r)
<1>1. CASE permit = u
  <2> DEFINE r == [task[u] EXCEPT !.pc = "reply"]
  <2>1. /\ r.pc = "reply" /\ r.kind = "request" /\ r.target = task[u].target /\ r.session = task[u].session
        /\ r.answered = task[u].answered
        /\ r \in TaskRecord /\ task' = [task EXCEPT ![u] = r]
        /\ TaskFits(task[u])
    BY <1>1, Gone DEF Respond, TaskInv, Served, Pc
  <2> HIDE DEF r
  <2>2. TaskFits(r) /\ Served(r) /\ Retires(u, r)
    BY <2>1 DEF TaskFits, Served, Retires, Working, Rest, Callback
  <2>3. QED
    BY <1>1, <2>1, <2>2 DEF Moves
<1>2. CASE permit # u
  <2>1. End(u)
    BY <1>2 DEF Respond
  <2>2. QED
    BY <1>2, <2>1, EndRetires DEF Moves
<1>3. QED
  BY <1>1, <1>2

\* A task that goes on and is served as before.
LEMMA GotoMoves ==
  ASSUME TaskInv, NEW u \in Update, task[u].pc \notin Rest \cup {"spawned"}, permit' = permit,
         NEW r, r.pc \notin Rest \cup {"spawned"}, r.kind = task[u].kind, TaskFits(r),
         task' = [task EXCEPT ![u] = r]
  PROVE  Moves(u, r)
BY DEF Moves, TaskInv, Served

LEMMA RetiresHonest ==
  ASSUME NEW u \in Update, NEW r, Retires(u, r)
  PROVE  Honest(u, r)
BY DEF Honest, Retires, Writing

LEMMA StoresStay ==
  ASSUME StoreInv, UNCHANGED << stores, history >>, rename' \in Session \cup {None}, NEW u
  PROVE  StoreInv' /\ Disturbs(u)
BY DEF StoreInv, Disturbs, stores, history

\* The task of u is where the action finds it.
LEMMA TaskOf ==
  ASSUME ShapeInv, NEW u \in Update
  PROVE  /\ TaskFits(task[u]) /\ task[u] \in TaskRecord /\ TaskInv /\ StoreInv
         /\ task[u].answered => task[u].pc \in {"reply", "done", "lost"}
         /\ permit = u <=> Served(task[u])
         /\ permit \in {0} \cup Update
         /\ faults \in 0 .. MaxFailures
BY DEF ShapeInv, TaskInv, TaskFits

-----------------------------------------------------------------------------
(* Every action of a task is a step of it.                                 *)

LEMMA AcquireStep ==
  ASSUME ShapeInv, NEW u \in Update, Acquire(u)
  PROVE  \E r : TaskStep(u, r)
<1>1. /\ StoreInv' /\ Disturbs(u)
      /\ faults' \in 0 .. MaxFailures /\ UNCHANGED << polling, crashes >>
  BY TaskOf, StoresStay DEF Acquire, NoFault, StoreInv
<1>2. At(u, "spawned") /\ task[u].kind = "request" /\ ~ task[u].answered /\ permit # u
  BY TaskOf DEF Acquire, At, Is, Served
<1>3. CASE permit = 0 /\ permit' = u /\ rename # None /\ GotoWith(u, rename, "rename")
  <2> DEFINE r == [task[u] EXCEPT !.pc = "rename", !.session = rename]
  <2>1. rename \in Session
    BY <1>3, TaskOf DEF StoreInv
  <2>2. /\ r.pc = "rename" /\ r.kind = "request" /\ r.target = task[u].target
      /\ r.session = rename /\ ~ r.answered
        /\ r \in TaskRecord /\ task' = [task EXCEPT ![u] = r]
    <3>1. TaskInv /\ "rename" \in Pc
      BY TaskOf DEF Pc
    <3>2. QED
      BY <1>2, <1>3, <2>1, <3>1 DEF TaskInv, TaskRecord, GotoWith
  <2> HIDE DEF r
  <2>3. TaskFits(r) /\ Served(r)
    BY <2>1, <2>2 DEF TaskFits, Served, Working, Rest, Callback
  <2>4. Moves(u, r) /\ Honest(u, r)
    BY <1>2, <1>3, <2>2, <2>3 DEF Moves, Honest, Rest, Writing, At
  <2>5. QED
    BY <1>1, <2>4 DEF TaskStep
<1>4. ASSUME permit = 0, permit' = u, NEW p \in {"active", "reply"}, Goto(u, p)
      PROVE  \E r : TaskStep(u, r)
  <2> DEFINE r == [task[u] EXCEPT !.pc = p]
  <2>2. /\ r.pc = p /\ r.kind = "request" /\ r.target = task[u].target
      /\ r.session = task[u].session /\ ~ r.answered
        /\ r \in TaskRecord /\ task' = [task EXCEPT ![u] = r]
    BY <1>2, <1>4, TaskOf, Gone DEF Pc
  <2> HIDE DEF r
  <2>3. TaskFits(r) /\ Served(r)
    BY <1>4, <2>2 DEF TaskFits, Served, Working, Rest, Callback
  <2>4. Moves(u, r) /\ Honest(u, r)
    BY <1>2, <1>4, <2>2, <2>3 DEF Moves, Honest, Rest, Writing, At
  <2>5. QED
    BY <1>1, <2>4 DEF TaskStep
<1>5. CASE permit' = permit /\ End(u)
  <2> DEFINE r == Ended(u)
  <2>1. task' = [task EXCEPT ![u] = r] /\ TaskFits(r) /\ Retires(u, r) /\ ~ Served(r)
    BY <1>5, TaskOf, EndRetires
  <2>2. Moves(u, r)
    BY <1>2, <1>5, <2>1 DEF Moves, Rest, At
  <2>3. QED
    BY <1>1, <2>1, <2>2, RetiresHonest DEF TaskStep
<1>6. QED
  BY <1>3, <1>4, <1>5 DEF Acquire, Receive

LEMMA BeginCommandStep ==
  ASSUME ShapeInv, NEW u \in Update, BeginCommand(u)
  PROVE  \E r : TaskStep(u, r)
<1>1. /\ StoreInv' /\ Disturbs(u)
      /\ faults' \in 0 .. MaxFailures /\ UNCHANGED << polling, crashes >>
  BY TaskOf, StoresStay DEF BeginCommand, NoFault, StoreInv
<1>2. /\ At(u, "spawned") /\ task[u].kind \in Command /\ ~ task[u].answered
      /\ permit # u /\ permit' = permit
  BY TaskOf DEF BeginCommand, At, Is, Served
<1>3. PICK p \in {"create", "active"} :
        Goto(u, p) /\ (p = "active" => task[u].kind \in {"cancel", "clear", "compact", "setting"})
  BY DEF BeginCommand, Is
<1> DEFINE r == [task[u] EXCEPT !.pc = p]
<1>4. /\ r.pc = p /\ r.kind = task[u].kind /\ r.target = task[u].target
      /\ r.session = task[u].session /\ ~ r.answered
      /\ r \in TaskRecord /\ task' = [task EXCEPT ![u] = r]
  BY <1>2, <1>3, TaskOf, Gone DEF Pc
<1> HIDE DEF r
<1>5. TaskFits(r) /\ ~ Served(r)
  BY <1>2, <1>3, <1>4 DEF TaskFits, Served, Working, Rest, Command, Callback
<1>6. Moves(u, r) /\ Honest(u, r)
  BY <1>2, <1>3, <1>4, <1>5 DEF Moves, Honest, Rest, Writing, At
<1>7. QED
  BY <1>1, <1>6 DEF TaskStep

\* A task that goes on in its session.
LEMMA GoesOn ==
  ASSUME ShapeInv, NEW u \in Update, task[u].pc \notin Rest \cup {"spawned"},
         NEW p \in Pc \ (Rest \cup {"spawned", "active"}), Goto(u, p), permit' = permit,
         p \in Working => task[u].session \in Session,
         task[u].answered => p = "reply",
         p \in {"hear", "execute", "answer"} => task[u].kind = "request",
         p = "replace" => Len(task[u].held) > Retain
  PROVE  LET r == [task[u] EXCEPT !.pc = p]
         IN  /\ Moves(u, r) /\ r.pc = p /\ r.session = task[u].session
             /\ r.answered = task[u].answered
<1> DEFINE r == [task[u] EXCEPT !.pc = p]
<1>1. /\ r.pc = p /\ r.kind = task[u].kind /\ r.target = task[u].target
      /\ r.session = task[u].session
      /\ r.held = task[u].held /\ r.answered = task[u].answered
      /\ r \in TaskRecord /\ task' = [task EXCEPT ![u] = r]
  BY TaskOf, Gone
<1> HIDE DEF r
<1>2. TaskFits(r)
  BY <1>1, TaskOf DEF TaskFits, Rest
<1>3. Moves(u, r)
  BY <1>1, <1>2, TaskOf, GotoMoves
<1>4. QED
  BY <1>1, <1>3 DEF r

\* A task that goes on in the session s.
LEMMA GoesOnWith ==
  ASSUME ShapeInv, NEW u \in Update, task[u].pc \notin Rest \cup {"spawned"},
         NEW p \in Pc \ (Rest \cup {"spawned", "active", "replace"}), NEW s \in Session,
         GotoWith(u, s, p), permit' = permit,
         ~ task[u].answered,
         p \in {"hear", "execute", "answer"} => task[u].kind = "request"
  PROVE  LET r == [task[u] EXCEPT !.pc = p, !.session = s]
         IN  Moves(u, r) /\ r.pc = p /\ r.session = s /\ ~ r.answered
<1> DEFINE r == [task[u] EXCEPT !.pc = p, !.session = s]
<1>1. /\ r.pc = p /\ r.kind = task[u].kind /\ r.target = task[u].target
      /\ r.session = s
      /\ r.held = task[u].held /\ r.answered = task[u].answered
      /\ r \in TaskRecord /\ task' = [task EXCEPT ![u] = r]
  BY TaskOf DEF TaskRecord, GotoWith, TaskInv
<1> HIDE DEF r
<1>2. TaskFits(r)
  BY <1>1, TaskOf DEF TaskFits, Rest
<1>3. Moves(u, r)
  BY <1>1, <1>2, TaskOf, GotoMoves
<1>4. QED
  BY <1>1, <1>3 DEF r

\* A task that gives its response.
LEMMA RespondStep ==
  ASSUME ShapeInv, NEW u \in Update, Respond(u), task[u].pc \notin Rest, permit' = permit,
         StoreInv', Disturbs(u), faults' \in 0 .. MaxFailures, UNCHANGED << polling, crashes >>
  PROVE  \E r : TaskStep(u, r)
<1>1. PICK r : Moves(u, r) /\ Retires(u, r)
  BY TaskOf, RespondRetires
<1>2. Honest(u, r)
  BY <1>1, RetiresHonest
<1>3. QED
  BY <1>1, <1>2 DEF TaskStep

\* What operations that are cut short leave of the catalog and of the turns.
LEMMA CatalogCutOf ==
  ASSUME ShapeInv, NEW u \in Update, NEW c \in CatalogCut(u)
  PROVE  c \in Catalog /\ c.known \subseteq catalog.known \cup { used + 1 }
<1> DEFINE s == task[u].session
<1>1. catalog \in Catalog /\ (s \in catalog.known => s \in Session)
  BY TaskOf DEF StoreInv, Catalog
<1>2. CASE c = catalog
  BY <1>1, <1>2
<1>3. CASE used + 1 \in Session /\ c \in Broken(catalog, CreateWrites(catalog, used + 1))
  BY <1>1, <1>3, CatalogWrites
<1>4. CASE /\ s \in catalog.known
           /\ \/ c \in Broken(catalog, SelectWrites(catalog, s))
              \/ c \in Broken(catalog, DeleteWrites(catalog, s))
              \/ c \in Broken(catalog, TouchWrites(catalog, s))
  BY <1>1, <1>4, CatalogWrites
<1>5. QED
  BY <1>2, <1>3, <1>4 DEF CatalogCut

LEMMA TurnsCutOf ==
  ASSUME ShapeInv, NEW u \in Update, task[u].session \in Session
  PROVE  /\ TurnsCut(u) \subseteq Seq(Turn)
         /\ task[u].pc \notin Writing => TurnsCut(u) \subseteq { turns[task[u].session], << >> }
<1> DEFINE h == turns[task[u].session]
           x == task[u].held
<1>1. /\ h \in Seq(Turn) /\ x \in Seq(Turn)
      /\ task[u].pc = "replace" => Len(x) > Retain
  BY TaskOf DEF StoreInv, TaskRecord, TaskFits
<1>2. << >> \in Seq(Turn) /\ \A role \in {"user", "assistant"} : Append(h, Said(role, u)) \in Seq(Turn)
  BY <1>1, SaidType
<1>3. CASE task[u].pc = "replace"
  <2>1. Partly(x) \subseteq Seq(Turn)
    <3>1. \A i \in Len(x) - Retain .. Len(x) :
            SubSeq(x, Len(x) - Retain + 1, i) \o << Said("summary", 0) >> \in Seq(Turn)
      BY <1>1, <1>3, KeptTurns
    <3>2. QED
      BY <1>2, <3>1 DEF Partly
  <2>2. TurnsCut(u) = {h} \cup Partly(x)
    BY <1>3 DEF TurnsCut, At
  <2>3. QED
    BY <1>1, <1>3, <2>1, <2>2 DEF Writing
<1>4. CASE task[u].pc # "replace"
  BY <1>1, <1>2, <1>4 DEF TurnsCut, At, Writing
<1>5. QED
  BY <1>3, <1>4

LEMMA CutShortKeeps ==
  ASSUME ShapeInv, NEW u \in Update, NEW v \in Update, CutShort(u, v),
         rename' \in Session \cup {None}
  PROVE  /\ StoreInv' /\ disturbed \subseteq disturbed'
         /\ \/ turns' = turns
            \/ /\ disturbed' = Touched(task[v].session) /\ task[v].session \in Session
               /\ turns'[task[v].session] \in TurnsCut(v)
               /\ \A s \in Session \ { task[v].session } : turns'[s] = turns[s]
<1> DEFINE s == task[u].session
           t == task[v].session
<1>1. StoreInv /\ t \in Session \cup {None}
  BY TaskOf DEF TaskRecord
<1>2. disturbed \subseteq disturbed' /\ disturbed' \subseteq Update
  BY <1>1, TouchedGrows DEF CutShort, StoreInv
<1>3. \/ turns' = turns
      \/ /\ t \in Session /\ turns' \in [Session -> Seq(Turn)] /\ turns'[t] \in TurnsCut(v)
         /\ \A x \in Session \ {t} : turns'[x] = turns[x]
  <2>1. CASE t = None
    BY <2>1 DEF CutShort
  <2>2. CASE t # None
    <3>1. PICK h \in TurnsCut(v) : turns' = [turns EXCEPT ![t] = h]
      BY <2>2 DEF CutShort
    <3>2. t \in Session /\ h \in Seq(Turn)
      BY <1>1, <2>2, TurnsCutOf
    <3>3. QED
      BY <1>1, <3>1, <3>2 DEF StoreInv
  <2>3. QED
    BY <2>1, <2>2
<1>4. turns' \in [Session -> Seq(Turn)]
  BY <1>1, <1>3 DEF StoreInv
<1>5. catalog' \in Catalog
  BY CatalogCutOf DEF CutShort
<1>6. used' \in Nat /\ 1 .. used' \subseteq Session
  <2>1. used \in Nat /\ 1 .. used \subseteq Session /\ catalog'.known \subseteq Session
    BY <1>1, <1>5 DEF StoreInv, Catalog
  <2>2. used' = IF used + 1 \in catalog'.known THEN used + 1 ELSE used
    BY DEF CutShort
  <2>3. QED
    BY <2>1, <2>2
<1>7. deleted' \subseteq Session
  <2>1. deleted \subseteq Session /\ catalog.known \subseteq Session
    BY <1>1 DEF StoreInv, Catalog
  <2>2. QED
    BY <2>1 DEF CutShort, DeletedBy
<1>8. torn' \in BOOLEAN /\ paused' \subseteq Session
  BY <1>1 DEF CutShort, StoreInv
<1>9. StoreInv'
  BY <1>2, <1>4, <1>5, <1>6, <1>7, <1>8 DEF StoreInv
<1>10. turns' # turns => disturbed' = Touched(t)
  BY DEF CutShort
<1>11. QED
  BY <1>2, <1>3, <1>9, <1>10

LEMMA GetActiveStep ==
  ASSUME ShapeInv, NEW u \in Update, GetActive(u)
  PROVE  \E r : TaskStep(u, r)
<1>1. /\ StoreInv' /\ Disturbs(u) /\ permit' = permit
      /\ faults' \in 0 .. MaxFailures /\ UNCHANGED << polling, crashes >>
  BY TaskOf, StoresStay DEF GetActive, NoFault, StoreInv
<1>2. /\ task[u].pc = "active" /\ ~ task[u].answered /\ task[u].pc \notin Rest \cup {"spawned"}
      /\ task[u].kind \in {"request", "cancel", "clear", "compact", "setting", "delete"}
  BY TaskOf DEF GetActive, At, TaskFits, Rest
<1>3. CASE Respond(u)
  BY <1>1, <1>2, <1>3, RespondStep
<1>4. CASE Resolves(catalog) /\ catalog.active # None /\ GotoWith(u, catalog.active, Uses(u))
  <2>1. /\ Uses(u) \in {"hear", "forget", "read", "name", "delete"}
        /\ Uses(u) = "hear" => task[u].kind = "request"
    BY <1>2 DEF Uses, Is
  <2>2. catalog.active \in catalog.known /\ catalog.active \in Session
    BY <1>4, TaskOf DEF Resolves, StoreInv, Catalog
  <2> DEFINE r == [task[u] EXCEPT !.pc = Uses(u), !.session = catalog.active]
  <2>3. Uses(u) \in Pc \ (Rest \cup {"spawned", "active", "replace"})
    BY <2>1 DEF Pc, Rest
  <2>4. Moves(u, r) /\ r.pc = Uses(u) /\ r.session = catalog.active /\ ~ r.answered
    BY <1>1, <1>2, <1>4, <2>1, <2>2, <2>3, GoesOnWith
  <2> HIDE DEF r
  <2>5. Honest(u, r)
    BY <2>1, <2>2, <2>4 DEF Honest
  <2>6. QED
    BY <1>1, <2>4, <2>5 DEF TaskStep
<1>5. CASE Goto(u, "create")
  <2> DEFINE r == [task[u] EXCEPT !.pc = "create"]
  <2>1. "create" \in Pc \ (Rest \cup {"spawned", "active"}) /\ "create" \notin Working
    BY DEF Pc, Rest, Working
  <2>2. Moves(u, r) /\ r.pc = "create" /\ r.session = task[u].session
        /\ r.answered = task[u].answered
    BY <1>1, <1>2, <1>5, <2>1, GoesOn
  <2> HIDE DEF r
  <2>3. Honest(u, r)
    BY <1>2, <2>2 DEF Honest, Writing
  <2>4. QED
    BY <1>1, <2>2, <2>3 DEF TaskStep
<1>6. QED
  BY <1>3, <1>4, <1>5 DEF GetActive

LEMMA CreateStep ==
  ASSUME ShapeInv, NEW u \in Update, Create(u)
  PROVE  \E r : TaskStep(u, r)
<1> DEFINE s == used + 1
<1>1. /\ task[u].pc = "create" /\ ~ task[u].answered /\ task[u].pc \notin Rest \cup {"spawned"}
      /\ s \in Session /\ used \in Nat /\ 1 .. used \subseteq Session
  BY TaskOf DEF Create, At, Rest, StoreInv
<1>2. catalog \in Catalog /\ catalog' = [catalog EXCEPT !.known = @ \cup {s}]
  BY <1>1, TaskOf, CatalogWrites DEF Create, StoreInv
<1>3. catalog' \in Catalog
  BY <1>1, <1>2 DEF Catalog
<1>4. 1 .. used' \subseteq Session /\ used' \in Nat
  BY <1>1 DEF Create
<1>5. /\ StoreInv' /\ Disturbs(u) /\ permit' = permit
      /\ faults' \in 0 .. MaxFailures /\ UNCHANGED << polling, crashes >>
  BY <1>3, <1>4, TaskOf DEF Create, NoFault, StoreInv, Disturbs, history
<1> DEFINE r == [task[u] EXCEPT !.pc = "select", !.session = s]
<1>6. "select" \in Pc \ (Rest \cup {"spawned", "active", "replace"})
  BY DEF Pc, Rest
<1>7. GotoWith(u, s, "select")
  BY DEF Create
<1>8. Moves(u, r) /\ r.pc = "select" /\ r.session = s /\ ~ r.answered
  BY <1>1, <1>5, <1>6, <1>7, GoesOnWith
<1> HIDE DEF r
<1>9. Honest(u, r)
  BY <1>8 DEF Honest, Writing
<1>10. QED
  BY <1>5, <1>8, <1>9 DEF TaskStep

LEMMA SelectStep ==
  ASSUME ShapeInv, NEW u \in Update, Select(u)
  PROVE  \E r : TaskStep(u, r)
<1> DEFINE s == task[u].session
<1>1. /\ task[u].pc = "select" /\ ~ task[u].answered /\ task[u].pc \notin Rest \cup {"spawned"}
      /\ s \in Session
  BY TaskOf DEF Select, At, Rest, TaskFits, Working
<1>2. catalog' = catalog \/ (s \in catalog.known /\ catalog' = Pointing(catalog, s))
  BY <1>1, TaskOf, CatalogWrites DEF Select, StoreInv
<1>3. catalog' \in Catalog
  BY <1>1, <1>2, TaskOf DEF Catalog, StoreInv, Pointing
<1>4. /\ StoreInv' /\ Disturbs(u) /\ permit' = permit
      /\ faults' \in 0 .. MaxFailures /\ UNCHANGED << polling, crashes >>
  BY <1>3, TaskOf DEF Select, NoFault, StoreInv, Disturbs, history
<1>5. CASE Respond(u)
  BY <1>1, <1>4, <1>5, RespondStep
<1>6. CASE s \in catalog.known /\ task[u].kind = "request" /\ Goto(u, "hear")
  <2> DEFINE r == [task[u] EXCEPT !.pc = "hear"]
  <2>1. "hear" \in Pc \ (Rest \cup {"spawned", "active"})
    BY DEF Pc, Rest
  <2>2. /\ Moves(u, r) /\ r.pc = "hear" /\ r.session = task[u].session
        /\ r.answered = task[u].answered
    BY <1>1, <1>4, <1>6, <2>1, GoesOn
  <2> HIDE DEF r
  <2>3. Honest(u, r)
    BY <1>1, <1>6, <2>2 DEF Honest
  <2>4. QED
    BY <1>4, <2>2, <2>3 DEF TaskStep
<1>7. QED
  BY <1>5, <1>6 DEF Select, Is

LEMMA RenameStep ==
  ASSUME ShapeInv, NEW u \in Update, Rename(u)
  PROVE  \E r : TaskStep(u, r)
<1>1. /\ StoreInv' /\ Disturbs(u) /\ permit' = permit
      /\ faults' \in 0 .. MaxFailures /\ UNCHANGED << polling, crashes >>
  BY TaskOf, StoresStay DEF Rename, NoFault, StoreInv
<1>2. task[u].pc = "rename" /\ ~ task[u].answered /\ task[u].pc \notin Rest \cup {"spawned"}
  BY TaskOf DEF Rename, At, Rest
<1> DEFINE r == [task[u] EXCEPT !.pc = "unname"]
<1>3. "unname" \in Pc \ (Rest \cup {"spawned", "active"}) /\ "unname" \notin Working
  BY DEF Pc, Rest, Working
<1>4. /\ Moves(u, r) /\ r.pc = "unname" /\ r.session = task[u].session
      /\ r.answered = task[u].answered
  BY <1>1, <1>2, <1>3, GoesOn DEF Rename
<1> HIDE DEF r
<1>5. Honest(u, r)
  BY <1>2, <1>4 DEF Honest, Writing
<1>6. QED
  BY <1>1, <1>4, <1>5 DEF TaskStep

LEMMA UnnameStep ==
  ASSUME ShapeInv, NEW u \in Update, Unname(u)
  PROVE  \E r : TaskStep(u, r)
<1>1. /\ StoreInv' /\ Disturbs(u) /\ permit' = permit
      /\ faults' \in 0 .. MaxFailures /\ UNCHANGED << polling, crashes >>
  BY TaskOf, StoresStay DEF Unname, NoFault
<1>2. task[u].pc \notin Rest /\ Respond(u)
  BY DEF Unname, At, Rest
<1>3. QED
  BY <1>1, <1>2, RespondStep

LEMMA AskNameStep ==
  ASSUME ShapeInv, NEW u \in Update, AskName(u)
  PROVE  \E r : TaskStep(u, r)
<1>1. task[u].pc \notin Rest /\ Respond(u) /\ task[u].session \in Session
  BY TaskOf DEF AskName, At, Rest, TaskFits, Working
<1>2. /\ StoreInv' /\ Disturbs(u) /\ permit' = permit
      /\ faults' \in 0 .. MaxFailures /\ UNCHANGED << polling, crashes >>
  BY <1>1, TaskOf, StoresStay DEF AskName, NoFault
<1>3. QED
  BY <1>1, <1>2, RespondStep

LEMMA DeleteStep ==
  ASSUME ShapeInv, NEW u \in Update, Delete(u)
  PROVE  \E r : TaskStep(u, r)
<1> DEFINE s == task[u].session
<1>1. /\ task[u].pc = "delete" /\ ~ task[u].answered /\ task[u].pc \notin Rest \cup {"spawned"}
      /\ s \in Session
  BY TaskOf DEF Delete, At, Rest, TaskFits, Working
<1>2. catalog' \in Catalog
  <2>1. catalog \in Catalog
    BY TaskOf DEF StoreInv
  <2>2. /\ Without(catalog, s) \in Catalog
        /\ Pointing(Without(catalog, s), None) \in Catalog
    BY <2>1 DEF Catalog, Without, Pointing
  <2>3. QED
    BY <1>1, <2>1, <2>2, CatalogWrites DEF Delete
<1>3. disturbed' = Touched(s) /\ disturbed \subseteq disturbed' /\ disturbed' \subseteq Update
  BY TaskOf, TouchedGrows DEF Delete
<1>4. turns' = [turns EXCEPT ![s] = << >>] /\ turns' \in [Session -> Seq(Turn)]
  <2>1. << >> \in Seq(Turn)
    OBVIOUS
  <2>2. QED
    BY <1>1, <2>1, TaskOf, ReplacedTurns DEF Delete
<1>5. /\ StoreInv' /\ permit' = permit
      /\ faults' \in 0 .. MaxFailures /\ UNCHANGED << polling, crashes >>
  <2>1. deleted' \subseteq Session
    BY <1>1, TaskOf DEF Delete, DeletedBy, StoreInv
  <2>2. QED
    BY <1>1, <1>2, <1>3, <1>4, <2>1, TaskOf DEF Delete, NoFault, StoreInv
<1>6. \A x \in Session \ {s} : turns'[x] = turns[x]
  BY <1>4, TaskOf DEF StoreInv
<1>7. Disturbs(u)
  BY <1>3, <1>6 DEF Disturbs
<1> DEFINE r == [task[u] EXCEPT !.pc = "create"]
<1>8. "create" \in Pc \ (Rest \cup {"spawned", "active"}) /\ "create" \notin Working
  BY DEF Pc, Rest, Working
<1>9. /\ Moves(u, r) /\ r.pc = "create" /\ r.session = task[u].session
      /\ r.answered = task[u].answered
  BY <1>1, <1>5, <1>8, GoesOn DEF Delete
<1> HIDE DEF r
<1>10. Honest(u, r)
  BY <1>1, <1>9 DEF Honest, Writing
<1>11. QED
  BY <1>5, <1>7, <1>9, <1>10 DEF TaskStep

LEMMA DeleteMissingStep ==
  ASSUME ShapeInv, NEW u \in Update, DeleteMissing(u)
  PROVE  \E r : TaskStep(u, r)
<1>1. /\ StoreInv' /\ Disturbs(u) /\ permit' = permit
      /\ faults' \in 0 .. MaxFailures /\ UNCHANGED << polling, crashes >>
  BY TaskOf, StoresStay DEF DeleteMissing, NoFault, StoreInv
<1>2. task[u].pc \notin Rest /\ Respond(u)
  BY DEF DeleteMissing, At, Rest
<1>3. QED
  BY <1>1, <1>2, RespondStep

LEMMA HearStep ==
  ASSUME ShapeInv, NEW u \in Update, Hear(u)
  PROVE  \E r : TaskStep(u, r)
<1> DEFINE s == task[u].session
<1>1. /\ task[u].pc = "hear" /\ ~ task[u].answered /\ task[u].pc \notin Rest \cup {"spawned"}
      /\ s \in Session /\ task[u].kind = "request"
  BY TaskOf DEF Hear, At, Rest, TaskFits, Working
<1>2. turns' \in [Session -> Seq(Turn)]
  BY <1>1, TaskOf, SaidType, AppendedTurn DEF Hear
<1>3. /\ StoreInv' /\ permit' = permit /\ Disturbs(u)
      /\ faults' \in 0 .. MaxFailures /\ UNCHANGED << polling, crashes >>
  BY <1>2, TaskOf DEF Hear, NoFault, StoreInv, history, Disturbs
<1> DEFINE r == [task[u] EXCEPT !.pc = "execute"]
<1>4. "execute" \in Pc \ (Rest \cup {"spawned", "active"})
  BY DEF Pc, Rest
<1>5. /\ Moves(u, r) /\ r.pc = "execute" /\ r.session = task[u].session
      /\ r.answered = task[u].answered
  BY <1>1, <1>3, <1>4, GoesOn DEF Hear
<1> HIDE DEF r
<1>6. Honest(u, r)
  BY <1>1, <1>5 DEF Honest, Writing
<1>7. QED
  BY <1>3, <1>5, <1>6 DEF TaskStep

LEMMA ExecuteStep ==
  ASSUME ShapeInv, NEW u \in Update, Execute(u)
  PROVE  \E r : TaskStep(u, r)
<1>1. /\ task[u].pc = "execute" /\ ~ task[u].answered /\ task[u].pc \notin Rest \cup {"spawned"}
      /\ task[u].session \in Session /\ task[u].kind = "request"
  BY TaskOf DEF Execute, At, Rest, TaskFits, Working
<1>2. paused' \subseteq Session
  BY <1>1, TaskOf DEF Execute, StoreInv
<1>3. /\ StoreInv' /\ permit' = permit /\ Disturbs(u)
      /\ faults' \in 0 .. MaxFailures /\ UNCHANGED << polling, crashes >>
  BY <1>2, TaskOf DEF Execute, NoFault, StoreInv, history, Disturbs
<1> DEFINE r == [task[u] EXCEPT !.pc = "answer"]
<1>4. "answer" \in Pc \ (Rest \cup {"spawned", "active"})
  BY DEF Pc, Rest
<1>5. /\ Moves(u, r) /\ r.pc = "answer" /\ r.session = task[u].session
      /\ r.answered = task[u].answered
  BY <1>1, <1>3, <1>4, GoesOn DEF Execute
<1> HIDE DEF r
<1>6. Honest(u, r)
  BY <1>1, <1>5 DEF Honest, Writing
<1>7. QED
  BY <1>3, <1>5, <1>6 DEF TaskStep

LEMMA AnswerStep ==
  ASSUME ShapeInv, NEW u \in Update, Answer(u)
  PROVE  \E r : TaskStep(u, r)
<1> DEFINE s == task[u].session
<1>1. /\ task[u].pc = "answer" /\ ~ task[u].answered /\ task[u].pc \notin Rest \cup {"spawned"}
      /\ s \in Session /\ task[u].kind = "request" /\ task[u] \in TaskRecord
  BY TaskOf DEF Answer, At, Rest, TaskFits, Working
<1>2. turns' \in [Session -> Seq(Turn)]
  BY <1>1, TaskOf, SaidType, AppendedTurn DEF Answer
<1>3. /\ StoreInv' /\ permit' = permit /\ Disturbs(u)
      /\ faults' \in 0 .. MaxFailures /\ UNCHANGED << polling, crashes >>
  BY <1>2, TaskOf DEF Answer, NoFault, StoreInv, history, Disturbs
<1> DEFINE r == [task[u] EXCEPT !.pc = "reply", !.answered = TRUE]
<1>4. /\ r.pc = "reply" /\ r.kind = "request" /\ r.target = task[u].target
      /\ r.session = s /\ r.answered
      /\ r.held = task[u].held /\ r \in TaskRecord /\ task' = [task EXCEPT ![u] = r]
  BY <1>1, TaskOf DEF Answer, TaskRecord, Pc, TaskInv
<1> HIDE DEF r
<1>5. TaskFits(r)
  BY <1>1, <1>4 DEF TaskFits, Working, Rest, Callback
<1>6. Moves(u, r)
  BY <1>1, <1>3, <1>4, <1>5, TaskOf, GotoMoves DEF Rest
<1>7. Honest(u, r)
  BY <1>4 DEF Honest, Writing
<1>8. QED
  BY <1>3, <1>6, <1>7 DEF TaskStep

LEMMA ForgetStep ==
  ASSUME ShapeInv, NEW u \in Update, Forget(u)
  PROVE  \E r : TaskStep(u, r)
<1>1. /\ task[u].pc = "forget" /\ ~ task[u].answered /\ task[u].pc \notin Rest \cup {"spawned"}
      /\ task[u].session \in Session
  BY TaskOf DEF Forget, At, Rest, TaskFits, Working
<1>2. /\ StoreInv' /\ permit' = permit /\ Disturbs(u)
      /\ faults' \in 0 .. MaxFailures /\ UNCHANGED << polling, crashes >>
  BY TaskOf DEF Forget, NoFault, StoreInv, history, Disturbs
<1>3. CASE Respond(u)
  BY <1>1, <1>2, <1>3, RespondStep
<1>4. CASE Goto(u, "wipe")
  <2> DEFINE r == [task[u] EXCEPT !.pc = "wipe"]
  <2>1. "wipe" \in Pc \ (Rest \cup {"spawned", "active"})
    BY DEF Pc, Rest
  <2>2. /\ Moves(u, r) /\ r.pc = "wipe" /\ r.session = task[u].session
        /\ r.answered = task[u].answered
    BY <1>1, <1>2, <1>4, <2>1, GoesOn
  <2> HIDE DEF r
  <2>3. Honest(u, r)
    BY <1>1, <2>2 DEF Honest, Writing
  <2>4. QED
    BY <1>2, <2>2, <2>3 DEF TaskStep
<1>5. QED
  BY <1>3, <1>4 DEF Forget

LEMMA WipeStep ==
  ASSUME ShapeInv, NEW u \in Update, Wipe(u)
  PROVE  \E r : TaskStep(u, r)
<1> DEFINE s == task[u].session
<1>1. task[u].pc \notin Rest /\ Respond(u) /\ s \in Session
  BY TaskOf DEF Wipe, At, Rest, TaskFits, Working
<1>2. disturbed' = Touched(s) /\ disturbed \subseteq disturbed' /\ disturbed' \subseteq Update
  BY TaskOf, TouchedGrows DEF Wipe
<1>3. turns' = [turns EXCEPT ![s] = << >>] /\ turns' \in [Session -> Seq(Turn)]
  <2>1. << >> \in Seq(Turn)
    OBVIOUS
  <2>2. QED
    BY <1>1, <2>1, TaskOf, ReplacedTurns DEF Wipe
<1>4. /\ StoreInv' /\ permit' = permit
      /\ faults' \in 0 .. MaxFailures /\ UNCHANGED << polling, crashes >>
  BY <1>2, <1>3, TaskOf DEF Wipe, NoFault, StoreInv
<1>5. \A x \in Session \ {s} : turns'[x] = turns[x]
  BY <1>3, TaskOf DEF StoreInv
<1>6. Disturbs(u)
  BY <1>2, <1>5 DEF Disturbs
<1>7. QED
  BY <1>1, <1>4, <1>6, RespondStep

LEMMA ReadStep ==
  ASSUME ShapeInv, NEW u \in Update, Read(u)
  PROVE  \E r : TaskStep(u, r)
<1> DEFINE s == task[u].session
<1>1. /\ task[u].pc = "read" /\ ~ task[u].answered /\ task[u].pc \notin Rest \cup {"spawned"}
      /\ s \in Session /\ task[u] \in TaskRecord
  BY TaskOf DEF Read, At, Rest, TaskFits, Working
<1>2. /\ StoreInv' /\ Disturbs(u) /\ permit' = permit
      /\ faults' \in 0 .. MaxFailures /\ UNCHANGED << polling, crashes >>
  BY TaskOf, StoresStay DEF Read, NoFault, StoreInv
<1>3. CASE Respond(u)
  BY <1>1, <1>2, <1>3, RespondStep
<1>4. CASE /\ Len(turns[s]) > Retain
           /\ task' = [task EXCEPT ![u].pc = "replace", ![u].held = turns[s]]
  <2> DEFINE r == [task[u] EXCEPT !.pc = "replace", !.held = turns[s]]
  <2>1. turns[s] \in Seq(Turn)
    BY <1>1, TaskOf DEF StoreInv
  <2>2. /\ r.pc = "replace" /\ r.kind = task[u].kind /\ r.target = task[u].target
      /\ r.session = s /\ ~ r.answered
        /\ r.held = turns[s] /\ r \in TaskRecord /\ task' = [task EXCEPT ![u] = r]
    BY ZenonT(40), <1>1, <1>4, <2>1, TaskOf DEF TaskRecord, Pc, TaskInv
  <2> HIDE DEF r
  <2>3. TaskFits(r)
    BY <1>1, <1>4, <2>2, TaskOf DEF TaskFits, Working
  <2>4. Moves(u, r)
    BY <1>1, <1>2, <2>2, <2>3, TaskOf, GotoMoves DEF Rest
  <2>5. Honest(u, r)
    BY <1>1, <2>2 DEF Honest, Writing
  <2>6. QED
    BY <1>2, <2>4, <2>5 DEF TaskStep
<1>5. QED
  BY <1>3, <1>4 DEF Read

LEMMA ReplaceStep ==
  ASSUME ShapeInv, NEW u \in Update, Replace(u)
  PROVE  \E r : TaskStep(u, r)
<1> DEFINE s == task[u].session
           h == task[u].held
<1>1. task[u].pc \notin Rest /\ Respond(u) /\ s \in Session /\ h \in Seq(Turn) /\ Len(h) > Retain
  BY TaskOf DEF Replace, At, Rest, TaskFits, Working, TaskRecord
<1>2. disturbed' = Touched(s) /\ disturbed \subseteq disturbed' /\ disturbed' \subseteq Update
  BY TaskOf, TouchedGrows DEF Replace
<1>3. Compacted(h) \in Seq(Turn)
  <2>1. Len(h) \in Len(h) - Retain .. Len(h)
    BY <1>1, ChatAssumption
  <2>2. QED
    BY <1>1, <2>1, KeptTurns DEF Compacted
<1>4. turns' = [turns EXCEPT ![s] = Compacted(h)] /\ turns' \in [Session -> Seq(Turn)]
  BY <1>1, <1>3, TaskOf, ReplacedTurns DEF Replace
<1>5. /\ StoreInv' /\ permit' = permit
      /\ faults' \in 0 .. MaxFailures /\ UNCHANGED << polling, crashes >>
  BY <1>2, <1>4, TaskOf DEF Replace, NoFault, StoreInv
<1>6. \A x \in Session \ {s} : turns'[x] = turns[x]
  BY <1>4, TaskOf DEF StoreInv
<1>7. Disturbs(u)
  BY <1>2, <1>6 DEF Disturbs
<1>8. QED
  BY <1>1, <1>5, <1>7, RespondStep

LEMMA ReplyStep ==
  ASSUME ShapeInv, NEW u \in Update, Reply(u)
  PROVE  \E r : TaskStep(u, r)
<1>1. /\ StoreInv' /\ Disturbs(u)
      /\ faults' \in 0 .. MaxFailures /\ UNCHANGED << polling, crashes >>
  BY TaskOf, StoresStay DEF Reply, NoFault, StoreInv
<1> DEFINE r == Ended(u)
<1>2. task' = [task EXCEPT ![u] = r] /\ TaskFits(r) /\ Retires(u, r) /\ ~ Served(r)
  BY TaskOf, EndRetires DEF Reply
<1> HIDE DEF r
<1>3. Moves(u, r)
  BY <1>2 DEF Moves, Reply, At, Rest
<1>4. QED
  BY <1>1, <1>2, <1>3, RetiresHonest DEF TaskStep

LEMMA StoreFailsStep ==
  ASSUME ShapeInv, NEW u \in Update, StoreFails(u)
  PROVE  (\E r : TaskStep(u, r)) /\ task'[u].pc \in {"unname", "reply", "done"}
<1>1. /\ task[u].pc \notin Rest \cup {"spawned"} /\ ~ task[u].answered
      /\ task \in [Update -> TaskRecord] /\ StoreInv
  BY TaskOf DEF StoreFails, Rest, TaskInv
<1>2. /\ permit' = permit /\ rename' = rename /\ crashes' = crashes /\ faults' = faults + 1
      /\ CutShort(u, u)
  BY DEF StoreFails
<1>3. StoreInv' /\ Disturbs(u)
  BY <1>1, <1>2, CutShortKeeps DEF Disturbs, StoreInv
<1>4. faults' \in 0 .. MaxFailures
  BY <1>2, ChatAssumption DEF ShapeInv, CutShort
<1>5. UNCHANGED << polling, crashes >>
  BY <1>2 DEF StoreFails, CutShort, polling
<1>6. CASE Respond(u)
  <2>1. PICK r : Moves(u, r) /\ Retires(u, r)
    BY <1>1, <1>2, <1>6, TaskOf, RespondRetires
  <2>2. task'[u].pc \in {"reply", "done"}
    BY <1>1, <2>1 DEF Moves, Retires
  <2>3. QED
    BY <1>3, <1>4, <1>5, <2>1, <2>2, RetiresHonest DEF TaskStep
<1>7. CASE Goto(u, "unname")
  <2> DEFINE r == [task[u] EXCEPT !.pc = "unname"]
  <2>1. "unname" \in Pc \ (Rest \cup {"spawned", "active"}) /\ "unname" \notin Working
    BY DEF Pc, Rest, Working
  <2>2. /\ Moves(u, r) /\ r.pc = "unname" /\ r.session = task[u].session
        /\ r.answered = task[u].answered
    BY <1>1, <1>2, <1>7, <2>1, GoesOn
  <2> HIDE DEF r
  <2>3. Honest(u, r)
    BY <1>1, <2>2 DEF Honest, Writing
  <2>4. task'[u].pc = "unname"
    BY <1>1, <2>2 DEF Moves
  <2>5. QED
    BY <1>3, <1>4, <1>5, <2>2, <2>3, <2>4 DEF TaskStep
<1>8. QED
  BY <1>6, <1>7 DEF StoreFails

LEMMA StepsAreTaskSteps ==
  ASSUME ShapeInv, NEW u \in Update, Step(u) \/ StoreFails(u)
  PROVE  \E r : TaskStep(u, r)
BY AcquireStep, BeginCommandStep, GetActiveStep, CreateStep, SelectStep, RenameStep,
   UnnameStep, AskNameStep, DeleteStep, DeleteMissingStep, HearStep, ExecuteStep, AnswerStep,
   ForgetStep, WipeStep, ReadStep, ReplaceStep, ReplyStep, StoreFailsStep DEF Step

-----------------------------------------------------------------------------
(* The shape of the state.                                                 *)

LEMMA InitShape ==
  Init => ShapeInv
<1> SUFFICES ASSUME Init PROVE ShapeInv
  OBVIOUS
<1>1. PollInv
  BY ChatAssumption DEF Init, PollInv, Idle, Rest, Update
<1>2. TaskInv
  <2>1. Idle \in TaskRecord /\ TaskFits(Idle) /\ ~ Served(Idle)
    BY DEF Idle, TaskRecord, TaskFits, Served, Pc, Rest, Working, Callback
  <2>2. 0 \notin Update
    BY ChatAssumption DEF Update
  <2>3. QED
    BY <2>1, <2>2 DEF Init, TaskInv
<1>3. StoreInv
  <2>0. used \in Nat /\ used <= Prior /\ 1 .. used \subseteq Session
        /\ (used # 0 => used \in 1 .. used)
    BY ChatAssumption DEF Init
  <2>1. turns \in [Session -> Seq(Turn)] /\ catalog \in Catalog
    BY <2>0 DEF Init, NoSessions, Catalog
  <2>2. torn \in BOOLEAN
    BY DEF Init
  <2>3. QED
    BY <2>0, <2>1, <2>2 DEF Init, StoreInv
<1>4. QED
  BY <1>1, <1>2, <1>3, ChatAssumption DEF Init, ShapeInv

LEMMA StepTask ==
  ASSUME TaskInv, NEW u \in Update, NEW r, Moves(u, r)
  PROVE  TaskInv'
<1>1. r \in TaskRecord /\ task' = [task EXCEPT ![u] = r] /\ task \in [Update -> TaskRecord]
  BY DEF Moves, TaskFits, TaskInv
<1>2. task' \in [Update -> TaskRecord]
  BY <1>1
<1>3. task'[u] = r /\ \A v \in Update \ {u} : task'[v] = task[v]
  BY <1>1
<1>4. \A v \in Update : TaskFits(task[v])'
  BY <1>3 DEF TaskInv, Moves, TaskFits
<1>5. 0 \notin Update
  BY ChatAssumption DEF Update
<1>6. ASSUME NEW v \in Update
      PROVE  permit' = v <=> Served(task'[v])
  BY <1>3, <1>5 DEF TaskInv, Moves
<1>7. permit' \in {0} \cup Update
  BY DEF TaskInv, Moves
<1>8. QED
  BY <1>2, <1>4, <1>6, <1>7 DEF TaskInv, Served

LEMMA StepShape ==
  ASSUME ShapeInv, NEW u \in Update, NEW r, TaskStep(u, r)
  PROVE  ShapeInv'
<1>1. TaskInv'
  BY StepTask DEF TaskStep, ShapeInv
<1>2. PollInv'
  <2>1. PollInv /\ task \in [Update -> TaskRecord]
    BY DEF ShapeInv, TaskInv
  <2>2. /\ task[u].pc \notin Rest /\ task' = [task EXCEPT ![u] = r]
        /\ UNCHANGED << polling, crashes >>
    BY DEF TaskStep, Moves
  <2>3. \A v \in Update : task'[v].pc \notin Rest => task[v].pc \notin Rest
    BY <2>1, <2>2
  <2>4. QED
    BY <2>1, <2>2, <2>3 DEF PollInv, polling
<1>3. QED
  BY <1>1, <1>2 DEF TaskStep, ShapeInv

LEMMA SendShape ==
  ASSUME ShapeInv, NEW kind \in Kind, NEW target \in Press(kind), Send(kind, target)
  PROVE  ShapeInv'
<1> DEFINE u == sent + 1
<1>1. u \in Update /\ sent \in Nat /\ next \in Nat /\ next <= sent
  BY ChatAssumption DEF ShapeInv, PollInv, Send, Update
<1>2. task[u].pc \in Rest
  BY <1>1 DEF ShapeInv, PollInv
<1> DEFINE r == [task[u] EXCEPT !.kind = kind, !.target = target]
<1>3. kind \in {"request"} \cup Command \cup Callback /\ target \in Session \cup {None}
      /\ (kind \in Callback => target \in Session)
  BY ChatAssumption DEF Press, ShapeInv, StoreInv
<1>4. task[u] \in TaskRecord /\ TaskFits(task[u]) /\ TaskInv
  BY <1>1 DEF ShapeInv, TaskInv
<1>5. /\ r \in TaskRecord /\ r.pc = task[u].pc /\ r.session = task[u].session
      /\ r.answered = task[u].answered /\ r.held = task[u].held
      /\ r.kind = kind /\ r.target = target
      /\ task' = [task EXCEPT ![u] = r]
  BY <1>3, <1>4 DEF TaskRecord, Send, TaskInv
<1> HIDE DEF r
<1>6. TaskFits(r) /\ ~ Served(r) /\ ~ Served(task[u])
  BY <1>2, <1>3, <1>4, <1>5 DEF TaskFits, Served, Rest
<1>7. task'[u] = r /\ \A v \in Update \ {u} : task'[v] = task[v]
  BY <1>1, <1>4, <1>5 DEF TaskInv
<1>8. TaskInv'
  <2>1. task' \in [Update -> TaskRecord]
    BY <1>1, <1>4, <1>5 DEF TaskInv
  <2>2. \A v \in Update : TaskFits(task[v])'
    BY <1>4, <1>6, <1>7 DEF TaskInv, TaskFits
  <2>3. \A v \in Update : permit' = v <=> Served(task'[v])
    BY <1>1, <1>4, <1>6, <1>7 DEF TaskInv, Send
  <2>4. QED
    BY <1>4, <2>1, <2>2, <2>3 DEF TaskInv, Served, Send
<1>9. PollInv'
  <2>1. \A v \in Update : task'[v].pc \notin Rest => task[v].pc \notin Rest
    BY <1>2, <1>5, <1>7
  <2>2. PollInv /\ sent' = sent + 1 /\ sent < MaxUpdates /\ MaxUpdates \in Nat
        /\ UNCHANGED << confirmed, next, runs, crashes >>
    BY ChatAssumption DEF ShapeInv, Send
  <2>3. sent' \in 0 .. MaxUpdates /\ confirmed' \in 0 .. sent' /\ next' \in 0 .. sent'
    BY <2>2 DEF PollInv
  <2>4. QED
    BY <2>1, <2>2, <2>3 DEF PollInv
<1>10. StoreInv'
  BY DEF ShapeInv, StoreInv, Send, stores, history
<1>11. QED
  BY <1>8, <1>9, <1>10 DEF ShapeInv, Send

\* A batch finds tasks at rest, and none of them waits for the permit.
LEMMA SpawnedFits ==
  ASSUME ShapeInv, NEW u \in Update
  PROVE  LET r == Spawned(task[u].kind, task[u].target)
         IN  /\ TaskFits(r) /\ ~ Served(r) /\ ~ r.answered
             /\ r.pc \in {"select", "active", "spawned"}
             /\ r.session \in {None, task[u].target}
<1> DEFINE r == Spawned(task[u].kind, task[u].target)
<1>1. task[u] \in TaskRecord /\ TaskFits(task[u]) /\ Idle \in TaskRecord
  BY DEF ShapeInv, TaskInv, Idle, TaskRecord, Pc
<1>2. /\ r.kind = task[u].kind /\ r.target = task[u].target /\ ~ r.answered
      /\ r.pc = IF r.kind = "select" THEN "select"
                ELSE IF r.kind = "delete" THEN "active" ELSE "spawned"
      /\ r.session = IF r.kind = "select" THEN r.target ELSE None
      /\ r \in TaskRecord
  <2> DEFINE k == task[u].kind
             t == task[u].target
             p == IF k = "select" THEN "select" ELSE IF k = "delete" THEN "active" ELSE "spawned"
             y == IF k = "select" THEN t ELSE None
  <2>1. /\ k \in {"request"} \cup Command \cup Callback /\ t \in Session \cup {None}
        /\ Idle.answered = FALSE /\ p \in Pc /\ y \in Session \cup {None}
    BY <1>1 DEF TaskRecord, Idle, Pc
  <2>2. r = [Idle EXCEPT !.pc = p, !.kind = k, !.target = t, !.session = y]
    BY DEF Spawned
  <2> HIDE DEF r, k, t, p, y
  <2>3. /\ r.kind = k /\ r.target = t /\ ~ r.answered /\ r.pc = p /\ r.session = y
        /\ r \in TaskRecord
    BY <1>1, <2>1, <2>2 DEF TaskRecord
  <2>4. QED
    BY <2>3 DEF k, t, p, y
<1> HIDE DEF r
<1>3. r.kind \in Callback => r.target \in Session
  BY <1>1, <1>2 DEF TaskFits
<1>4. r.kind \in {"request"} \cup Command \cup Callback
  BY <1>2 DEF TaskRecord
<1>5. TaskFits(r)
  BY <1>2, <1>3, <1>4 DEF TaskFits, Working, Callback
<1>6. ~ Served(r)
  BY <1>2 DEF Served
<1>7. QED
  BY <1>2, <1>5, <1>6 DEF r

LEMMA PollShape ==
  ASSUME ShapeInv, Poll
  PROVE  ShapeInv'
<1> DEFINE batch == Offset + 1 .. sent
<1>1. /\ sent \in 0 .. MaxUpdates /\ confirmed \in 0 .. sent /\ next \in 0 .. sent
      /\ MaxUpdates \in Nat /\ (next # 0 => confirmed <= next) /\ Update = 1 .. MaxUpdates
      /\ Offset = (IF next = 0 THEN confirmed ELSE next) /\ Offset \in 0 .. sent
      /\ crashes \in Nat /\ crashes' = crashes
  BY ChatAssumption DEF ShapeInv, PollInv, Update, Offset, Poll
<1>2. /\ next' = IF batch = {} THEN next ELSE sent
      /\ task' = [u \in Update |-> IF u \in batch THEN Spawned(task[u].kind, task[u].target)
                                   ELSE task[u]]
      /\ runs' = [u \in Update |-> IF u \in batch THEN runs[u] + 1 ELSE runs[u]]
      /\ confirmed' = Offset /\ sent' = sent /\ permit' = permit
      /\ disturbed' = disturbed \ batch
  BY DEF Poll
<1>3. batch = {} <=> Offset = sent
  BY <1>1
<1>4. next' \in 0 .. sent /\ next <= next' /\ (next' # 0 => confirmed' <= next')
      /\ \A u \in batch : next < u /\ confirmed < u /\ u <= next'
  BY <1>1, <1>2, <1>3
<1>5. \A u \in Update : runs[u] \in Nat /\ task[u] \in TaskRecord /\ TaskFits(task[u])
      /\ (permit = u <=> Served(task[u]))
  BY DEF ShapeInv, PollInv, TaskInv
<1>6. \A u \in batch : task[u].pc \in Rest /\ ~ Served(task[u]) /\ u \in Update
  BY <1>1, <1>4 DEF ShapeInv, PollInv, Served
<1>7. PollInv'
  <2>1. runs' \in [Update -> Nat]
    BY <1>2, <1>5
  <2>2. ASSUME NEW u \in Update
        PROVE  /\ runs'[u] <= crashes' + (IF u <= next' THEN 1 ELSE 0)
               /\ u <= next' \/ u <= confirmed' => runs'[u] > 0
               /\ task'[u].pc \notin Rest => u <= next'
    <3>1. /\ runs[u] <= crashes + (IF u <= next THEN 1 ELSE 0)
          /\ u <= next \/ u <= confirmed => runs[u] > 0
          /\ task[u].pc \notin Rest => u <= next
      BY DEF ShapeInv, PollInv
    <3>2. CASE u \in batch
      <4>1. runs'[u] = runs[u] + 1 /\ ~ (u <= next) /\ u <= next'
        BY <1>1, <1>2, <1>4, <3>2
      <4>2. QED
        BY <1>1, <1>5, <3>1, <4>1
    <3>3. CASE u \notin batch
      <4>1. runs'[u] = runs[u] /\ task'[u] = task[u]
        BY <1>2, <3>3
      <4>2. u <= next' \/ u <= confirmed' => u <= next \/ u <= confirmed
        BY <1>1, <1>2, <1>3, <3>3
      <4>3. QED
        BY <1>1, <1>4, <1>5, <3>1, <4>1, <4>2
    <3>4. QED
      BY <3>2, <3>3
  <2>3. sent' \in 0 .. MaxUpdates /\ confirmed' \in 0 .. sent' /\ next' \in 0 .. sent'
    BY <1>1, <1>2, <1>4
  <2>4. QED
    BY <1>4, <2>1, <2>2, <2>3 DEF PollInv
<1>8. TaskInv'
  <2>1. ASSUME NEW u \in Update
        PROVE  /\ TaskFits(task'[u]) /\ task'[u] \in TaskRecord
               /\ Served(task'[u]) <=> Served(task[u])
    <3>1. CASE u \in batch
      <4>1. task'[u] = Spawned(task[u].kind, task[u].target)
        BY <1>2, <3>1
      <4>2. QED
        BY <1>6, <3>1, <4>1, SpawnedFits DEF TaskFits
    <3>2. CASE u \notin batch
      BY <1>2, <1>5, <3>2
    <3>3. QED
      BY <3>1, <3>2
  <2>2. task' \in [Update -> TaskRecord]
    BY <1>2, <2>1
  <2>3. QED
    BY <1>2, <1>5, <2>1, <2>2 DEF ShapeInv, TaskInv, TaskFits, Served
<1>9. StoreInv'
  BY <1>2 DEF ShapeInv, StoreInv, Poll, stores
<1>10. QED
  BY <1>7, <1>8, <1>9 DEF ShapeInv, Poll

LEMMA PollFailsShape ==
  ASSUME ShapeInv, PollFails
  PROVE  ShapeInv'
<1>1. /\ sent \in 0 .. MaxUpdates /\ confirmed \in 0 .. sent /\ next \in 0 .. sent
      /\ (next # 0 => confirmed <= next)
      /\ Offset = (IF next = 0 THEN confirmed ELSE next) /\ confirmed' = Offset
  BY DEF ShapeInv, PollInv, Offset, PollFails
<1>2. UNCHANGED << sent, next, runs, task, permit, rename, stores, crashes, history >>
  BY DEF PollFails
<1>3. \A u \in Update : u <= confirmed' => u <= next \/ u <= confirmed
  BY <1>1
<1>4. confirmed' \in 0 .. sent /\ (next # 0 => confirmed' <= next)
  BY <1>1
<1>5. PollInv'
  BY <1>2, <1>3, <1>4 DEF ShapeInv, PollInv
<1>6. TaskInv'
  BY <1>2 DEF ShapeInv, TaskInv, TaskFits, Served
<1>7. StoreInv'
  BY <1>2 DEF ShapeInv, StoreInv, stores, history
<1>8. faults' \in 0 .. MaxFailures
  BY ChatAssumption DEF ShapeInv, PollFails
<1>9. QED
  BY <1>2, <1>5, <1>6, <1>7, <1>8 DEF ShapeInv

LEMMA CrashShape ==
  ASSUME ShapeInv, Crash
  PROVE  ShapeInv'
<1>1. /\ task' = [u \in Update |-> IF AtRest(u) THEN task[u] ELSE [task[u] EXCEPT !.pc = "lost"]]
      /\ crashes' = crashes + 1 /\ next' = 0 /\ permit' = 0 /\ rename' = None
      /\ UNCHANGED << sent, confirmed, runs, faults >>
      /\ faults + crashes < MaxFailures
  BY DEF Crash, CutShort
<1>2. ASSUME NEW u \in Update
      PROVE  /\ task'[u] \in TaskRecord /\ TaskFits(task'[u]) /\ ~ Served(task'[u])
             /\ task'[u].pc \in Rest
  <2>1. task[u] \in TaskRecord /\ TaskFits(task[u])
    BY DEF ShapeInv, TaskInv
  <2>2. CASE AtRest(u)
    BY <1>1, <2>1, <2>2 DEF AtRest, Served, Rest
  <2>3. CASE ~ AtRest(u)
    <3> DEFINE r == [task[u] EXCEPT !.pc = "lost"]
    <3>1. /\ r \in TaskRecord /\ r.pc = "lost" /\ r.kind = task[u].kind
          /\ r.target = task[u].target /\ r.session = task[u].session
          /\ r.answered = task[u].answered
      BY <2>1 DEF TaskRecord, Pc
    <3>2. task'[u] = r
      BY <1>1, <2>3
    <3> HIDE DEF r
    <3>3. TaskFits(r) /\ ~ Served(r) /\ r.pc \in Rest
      BY <2>1, <3>1 DEF TaskFits, Served, Rest, Working
    <3>4. QED
      BY <3>1, <3>2, <3>3
  <2>4. QED
    BY <2>2, <2>3
<1>3. TaskInv'
  <2>1. 0 \notin Update
    BY ChatAssumption DEF Update
  <2>2. task' \in [Update -> TaskRecord]
    BY <1>1, <1>2
  <2>3. QED
    BY <1>1, <1>2, <2>1, <2>2 DEF TaskInv, TaskFits, Served
<1>4. crashes \in Nat /\ crashes' \in 0 .. MaxFailures
  BY <1>1, ChatAssumption DEF ShapeInv
<1>5. PollInv'
  <2>1. ASSUME NEW u \in Update
        PROVE  /\ runs[u] <= crashes' + (IF u <= next' THEN 1 ELSE 0)
               /\ u <= next' \/ u <= confirmed => runs[u] > 0
    <3>1. /\ runs[u] <= crashes + (IF u <= next THEN 1 ELSE 0) /\ runs[u] \in Nat
          /\ u <= confirmed => runs[u] > 0 /\ u > 0
      BY ChatAssumption DEF ShapeInv, PollInv, Update
    <3>2. u \in Nat /\ u > 0
      BY ChatAssumption DEF Update
    <3>3. QED
      BY <1>1, <1>4, <3>1, <3>2
  <2>2. sent' = sent /\ confirmed' = confirmed /\ next' = 0 /\ runs' = runs
    BY <1>1
  <2>3. sent \in 0 .. MaxUpdates /\ confirmed \in 0 .. sent /\ 0 \in 0 .. sent
        /\ runs \in [Update -> Nat]
    BY ChatAssumption DEF ShapeInv, PollInv
  <2>4. QED
    BY <1>2, <2>1, <2>2, <2>3 DEF PollInv
<1>6. StoreInv'
  BY <1>1, CutShortKeeps DEF Crash
<1>7. QED
  BY <1>1, <1>3, <1>4, <1>5, <1>6 DEF ShapeInv

LEMMA ShapeInvariant ==
  ShapeInv /\ [Next]_vars => ShapeInv'
<1> SUFFICES ASSUME ShapeInv, [Next]_vars PROVE ShapeInv'
  OBVIOUS
<1>1. ASSUME NEW u \in Update, Step(u) \/ StoreFails(u)
      PROVE  ShapeInv'
  BY <1>1, StepsAreTaskSteps, StepShape
<1>2. CASE UNCHANGED vars
  BY <1>2 DEF ShapeInv, PollInv, TaskInv, StoreInv, TaskFits, Served, vars, polling, stores, history
<1>3. QED
  BY <1>1, <1>2, SendShape, PollShape, PollFailsShape, CrashShape DEF Next

LEMMA ShapeTells ==
  ShapeInv => TypeOK /\ DispatchedOnce
<1> SUFFICES ASSUME ShapeInv PROVE TypeOK /\ DispatchedOnce
  OBVIOUS
<1>1. \A u \in Update : runs[u] \in 0 .. 1 + crashes /\ (u <= confirmed => runs[u] > 0)
  BY DEF ShapeInv, PollInv
<1>2. runs \in [Update -> 0 .. 1 + crashes]
  BY <1>1 DEF ShapeInv, PollInv
<1>3. permit # 0 => ~ AtRest(permit) /\ Is(permit, {"request"})
  BY DEF ShapeInv, TaskInv, Served, AtRest, Is, Rest
<1>4. TypeOK
  BY <1>2, <1>3 DEF TypeOK, ShapeInv, PollInv, TaskInv, StoreInv, TaskRecord
<1>5. QED
  BY <1>1, <1>4 DEF DispatchedOnce

\* An update is dispatched once in the life of a process, and by a later process
\* only if the server was not told; what it was told of was dispatched (the
\* offset of getUpdates in bot.rs).
THEOREM UpdateDispatchedOnce ==
  Spec => []DispatchedOnce
<1>1. Spec => []ShapeInv
  BY InitShape, ShapeInvariant, PTL DEF Spec
<1>2. QED
  BY <1>1, ShapeTells, PTL

-----------------------------------------------------------------------------
(* A message and its answer.                                               *)

LEMMA AppendKeepsAnswers ==
  ASSUME NEW h \in Seq(Turn), NEW x \in Turn, NEW u, Answers(h, u)
  PROVE  Answers(Append(h, x), u)
<1>1. PICK i \in DOMAIN h : i > 1 /\ h[i] = Said("assistant", u) /\ h[i - 1] = Said("user", u)
  BY DEF Answers
<1>2. i \in 1 .. Len(h) /\ i - 1 \in 1 .. Len(h)
  BY <1>1
<1>3. /\ i \in DOMAIN Append(h, x) /\ Append(h, x)[i] = h[i]
      /\ Append(h, x)[i - 1] = h[i - 1]
  BY <1>2, AppendProperties
<1>4. QED
  BY <1>1, <1>3 DEF Answers

LEMMA AppendAnswers ==
  ASSUME NEW h \in Seq(Turn), NEW u \in Update, h # << >>, h[Len(h)] = Said("user", u)
  PROVE  Answers(Append(h, Said("assistant", u)), u)
<1> DEFINE x == Said("assistant", u)
           i == Len(h) + 1
<1>1. x \in Turn
  BY SaidType
<1> HIDE DEF x
<1>2. Len(h) \in Nat /\ Len(h) > 0
  BY EmptySeq
<1>3. /\ i \in DOMAIN Append(h, x) /\ i > 1 /\ Append(h, x)[i] = x
      /\ Append(h, x)[i - 1] = h[Len(h)]
  BY <1>1, <1>2, AppendProperties
<1>4. QED
  BY <1>3 DEF Answers, x

\* One request at a time is between its message and its answer.
LEMMA OneServed ==
  ASSUME ShapeInv, NEW u \in Update, NEW v \in Update,
         task[u].pc \in {"hear", "execute", "answer"}, task[v].pc \in {"hear", "execute", "answer"}
  PROVE  u = v
<1>1. Served(task[u]) /\ Served(task[v])
  BY TaskOf DEF TaskFits, Served, Rest
<1>2. QED
  BY <1>1, TaskOf

\* What the step of u is for the answers: one turn more, or the updates of the
\* sessions it touches are disturbed.
LEMMA AnswersKept ==
  ASSUME ShapeInv, AnswerInv, NEW u \in Update, NEW r, TaskStep(u, r)
  PROVE  AnswerInv'
<1> SUFFICES ASSUME NEW v \in Update \ disturbed'
             PROVE  /\ task'[v].answered => Answers(turns'[task'[v].session], v)
                    /\ task'[v].pc \in {"execute", "answer"} =>
                         LET h == turns'[task'[v].session]
                         IN  h # << >> /\ h[Len(h)] = Said("user", v)
  BY DEF AnswerInv
<1> DEFINE s == task[u].session
           Told(w) == /\ task[w].answered => Answers(turns[task[w].session], w)
                      /\ task[w].pc \in {"execute", "answer"} =>
                           LET h == turns[task[w].session]
                           IN  h # << >> /\ h[Len(h)] = Said("user", w)
<1>1. v \in Update \ disturbed /\ Told(v)
  BY DEF TaskStep, Disturbs, AnswerInv
<1>2. task' = [task EXCEPT ![u] = r] /\ Honest(u, r) /\ Disturbs(u)
      /\ turns \in [Session -> Seq(Turn)]
  BY DEF TaskStep, Moves, ShapeInv, StoreInv
<1>3. task'[u] = r /\ (v # u => task'[v] = task[v])
  BY <1>2 DEF ShapeInv, TaskInv
<1>4. /\ task[v].answered => task[v].session \in Session
      /\ task[v].pc \in {"execute", "answer"} => task[v].session \in Session
  BY TaskOf DEF TaskFits, Working
<1>5. CASE Hear(u)
  <2>1. /\ task[u].pc = "hear" /\ ~ task[u].answered /\ s \in Session /\ Said("user", u) \in Turn
        /\ turns' = [turns EXCEPT ![s] = Append(turns[s], Said("user", u))]
        /\ r.pc = "execute" /\ r.session = s /\ ~ r.answered
    <3>1. task[u].pc = "hear" /\ s \in Session /\ ~ task[u].answered
      BY <1>5, TaskOf DEF Hear, At, TaskFits, Working
    <3>2. task'[u].pc = "execute" /\ task'[u].session = s /\ task'[u].answered = task[u].answered
      BY <1>5, TaskOf DEF Hear, Goto, TaskInv, TaskRecord
    <3>3. QED
      BY <1>3, <1>5, <3>1, <3>2, SaidType DEF Hear
  <2>2. CASE v = u
    <3>1. /\ turns'[s] = Append(turns[s], Said("user", u)) /\ turns[s] \in Seq(Turn)
      BY <1>2, <2>1
    <3>2. /\ Append(turns[s], Said("user", u)) # << >>
          /\ Append(turns[s], Said("user", u))[Len(Append(turns[s], Said("user", u)))] =
               Said("user", u)
      BY <2>1, <3>1, AppendProperties
    <3>3. QED
      BY <1>3, <2>1, <2>2, <3>1, <3>2
  <2>3. CASE v # u
    <3>1. task[v].pc \notin {"execute", "answer"}
      BY <2>1, <2>3, OneServed
    <3>2. task[v].answered => Answers(turns'[task[v].session], v)
      BY <1>1, <1>2, <1>4, <2>1, AppendKeepsAnswers
    <3>3. QED
      BY <1>3, <2>3, <3>1, <3>2
  <2>4. QED
    BY <2>2, <2>3
<1>6. CASE Answer(u)
  <2>1. /\ task[u].pc = "answer" /\ s \in Session /\ Said("assistant", u) \in Turn
        /\ turns' = [turns EXCEPT ![s] = Append(turns[s], Said("assistant", u))]
        /\ r.pc = "reply" /\ r.session = s
    <3>1. task[u].pc = "answer" /\ s \in Session
      BY <1>6, TaskOf DEF Answer, At, TaskFits, Working
    <3>2. task'[u].pc = "reply" /\ task'[u].session = s
      BY <1>6, TaskOf DEF Answer, TaskInv, TaskRecord
    <3>3. QED
      BY <1>3, <1>6, <3>1, <3>2, SaidType DEF Answer
  <2>2. CASE v = u
    <3>1. turns'[s] = Append(turns[s], Said("assistant", u)) /\ turns[s] \in Seq(Turn)
      BY <1>2, <2>1
    <3>2. turns[s] # << >> /\ turns[s][Len(turns[s])] = Said("user", u)
      BY <1>1, <2>1, <2>2
    <3>3. Answers(turns'[s], u)
      BY <3>1, <3>2, AppendAnswers
    <3>4. QED
      BY <1>3, <2>1, <2>2, <3>3
  <2>3. CASE v # u
    <3>1. task[v].pc \notin {"execute", "answer"}
      BY <2>1, <2>3, OneServed
    <3>2. task[v].answered => Answers(turns'[task[v].session], v)
      BY <1>1, <1>2, <1>4, <2>1, AppendKeepsAnswers
    <3>3. QED
      BY <1>3, <2>3, <3>1, <3>2
  <2>4. QED
    BY <2>2, <2>3
<1>7. CASE ~ Hear(u) /\ ~ Answer(u)
  <2>1. /\ task'[v].answered => task[v].answered /\ task'[v].session = task[v].session
        /\ task'[v].pc \in {"execute", "answer"} =>
             task[v].pc \in {"execute", "answer"} /\ task'[v].session = task[v].session
    BY <1>2, <1>3, <1>7 DEF Honest
  <2>2. ASSUME task[v].answered \/ task[v].pc \in {"execute", "answer"}
        PROVE  turns'[task[v].session] = turns[task[v].session]
    <3>1. CASE turns' = turns
      BY <3>1
    <3>2. CASE /\ disturbed' = Touched(s)
               /\ \A x \in Session \ {s} : turns'[x] = turns[x]
      <4>1. task[v].session \in Session /\ task[v].session # None
        BY <1>4, <2>2, SessionAssumption
      <4>2. task[v].session # s
        BY <2>2, <3>2, <4>1 DEF Touched, At
      <4>3. QED
        BY <3>2, <4>1, <4>2
    <3>3. QED
      BY <1>2, <1>7, <3>1, <3>2 DEF Disturbs
  <2>3. QED
    BY <1>1, <2>1, <2>2
<1>8. QED
  BY <1>5, <1>6, <1>7

LEMMA AnswerInvariant ==
  ShapeInv /\ AnswerInv /\ [Next]_vars => AnswerInv'
<1> SUFFICES ASSUME ShapeInv, AnswerInv, [Next]_vars PROVE AnswerInv'
  OBVIOUS
<1>0. task \in [Update -> TaskRecord]
  BY DEF ShapeInv, TaskInv
<1>1. ASSUME NEW u \in Update, Step(u) \/ StoreFails(u)
      PROVE  AnswerInv'
  BY <1>1, StepsAreTaskSteps, AnswersKept
\* Nothing else changes the turns, and what it changes of a task is another thing.
<1>2. ASSUME UNCHANGED turns,
             \A v \in Update \ disturbed' :
               /\ task'[v].answered => task[v].answered
               /\ task'[v].pc \in {"execute", "answer"} => task[v].pc \in {"execute", "answer"}
               /\ task'[v].answered \/ task'[v].pc \in {"execute", "answer"} =>
                    v \notin disturbed /\ task'[v].session = task[v].session
      PROVE  AnswerInv'
  BY <1>2 DEF AnswerInv
<1>3. ASSUME NEW kind \in Kind, NEW target \in Press(kind), Send(kind, target)
      PROVE  AnswerInv'
  <2>1. \A v \in Update : /\ task'[v].answered = task[v].answered
                          /\ task'[v].pc = task[v].pc /\ task'[v].session = task[v].session
    BY <1>0, <1>3 DEF Send, TaskRecord
  <2>2. disturbed' = disturbed /\ UNCHANGED turns
    BY <1>3 DEF Send, history, stores
  <2>3. QED
    BY <1>2, <2>1, <2>2
<1>4. CASE Poll
  <2>1. ASSUME NEW v \in Update
        PROVE  \/ ~ task'[v].answered /\ task'[v].pc \notin {"execute", "answer"}
               \/ task'[v] = task[v] /\ (v \notin disturbed' => v \notin disturbed)
    <3>1. CASE v \in Offset + 1 .. sent
      <4>1. task'[v] = Spawned(task[v].kind, task[v].target)
        BY <1>4, <3>1 DEF Poll
      <4>2. QED
        BY <4>1, SpawnedFits
    <3>2. CASE v \notin Offset + 1 .. sent
      BY <1>4, <3>2 DEF Poll
    <3>3. QED
      BY <3>1, <3>2
  <2>2. UNCHANGED turns
    BY <1>4 DEF Poll, stores
  <2>3. QED
    BY <2>1, <2>2 DEF AnswerInv
<1>5. CASE PollFails
  BY <1>5 DEF AnswerInv, PollFails, stores, history
<1>6. CASE Crash
  <2>1. \A v \in Update : /\ task'[v].answered = task[v].answered
                          /\ task'[v].pc \notin {"execute", "answer"}
                          /\ task'[v].session = task[v].session
    BY <1>0, <1>6 DEF Crash, TaskRecord, AtRest
  <2>2. PICK x \in Update, w \in Update : CutShort(x, w)
    BY <1>6 DEF Crash
  <2>3. rename' = None
    BY <1>6 DEF Crash
  <2>4. CASE turns' = turns
    <3>1. disturbed \subseteq disturbed'
      BY <2>2, <2>3, CutShortKeeps
    <3>2. QED
      BY <2>1, <2>4, <3>1 DEF AnswerInv
  <2>5. CASE turns' # turns
    <3>1. /\ disturbed' = Touched(task[w].session) /\ disturbed \subseteq disturbed'
          /\ \A s \in Session \ { task[w].session } : turns'[s] = turns[s]
      BY <2>2, <2>3, <2>5, CutShortKeeps
    <3>2. ASSUME NEW v \in Update \ disturbed', task[v].answered
          PROVE  turns'[task[v].session] = turns[task[v].session]
      <4>1. task[v].session \in Session /\ task[v].session # None
        BY <3>2, TaskOf, SessionAssumption DEF TaskFits
      <4>2. task[v].session # task[w].session
        BY <3>1, <3>2, <4>1 DEF Touched
      <4>3. QED
        BY <3>1, <4>1, <4>2
    <3>3. QED
      BY <2>1, <3>1, <3>2 DEF AnswerInv
  <2>6. QED
    BY <2>4, <2>5
<1>7. CASE UNCHANGED vars
  BY <1>7 DEF AnswerInv, vars, stores, history
<1>8. QED
  BY <1>1, <1>3, <1>4, <1>5, <1>6, <1>7 DEF Next

\* A message and its answer stand together in the session that was active when
\* the message came, whatever other updates do meanwhile and wherever the process
\* dies, unless one of them, or an append that failed, touched the turns of that
\* session (AnswersFollow).
THEOREM AnswersAlwaysFollow ==
  Spec => []AnswersFollow
<1>1. Init => ShapeInv /\ AnswerInv
  <2>1. ASSUME Init PROVE AnswerInv
    BY <2>1 DEF Init, AnswerInv, Idle
  <2>2. QED
    BY <2>1, InitShape
<1>2. (ShapeInv /\ AnswerInv) /\ [Next]_vars => (ShapeInv /\ AnswerInv)'
  BY ShapeInvariant, AnswerInvariant
<1>3. ShapeInv /\ AnswerInv => AnswersFollow
  BY DEF AnswerInv, AnswersFollow, Answers
<1>4. QED
  BY <1>1, <1>2, <1>3, PTL DEF Spec

-----------------------------------------------------------------------------
(* What is deleted.                                                        *)

\* A step of u writes at most on its own session, and to go on writing it has to
\* find it in the catalog.
LEMMA StepKeepsQuiet ==
  ASSUME ShapeInv, NEW u \in Update, NEW r, TaskStep(u, r), NEW s \in Session, Quiet(s),
         s \notin catalog.known,
         turns'[s] \in {turns[s], << >>} \/ (task[u].pc \in Writing /\
            \A x \in Session \ { task[u].session } : turns'[x] = turns[x])
  PROVE  Quiet(s)'
<1>1. task' = [task EXCEPT ![u] = r] /\ Honest(u, r) /\ task \in [Update -> TaskRecord]
  BY DEF TaskStep, Moves, ShapeInv, TaskInv
<1>2. task'[u] = r /\ \A v \in Update \ {u} : task'[v] = task[v]
  BY <1>1
<1>3. turns'[s] = << >>
  BY DEF Quiet
<1>4. r.session = s => r.pc \notin Writing
  BY <1>1 DEF Honest, Quiet
<1>5. QED
  BY <1>2, <1>3, <1>4 DEF Quiet

\* What a step of u changes of the turns.
LEMMA TurnsOf ==
  ASSUME ShapeInv, NEW u \in Update, Step(u), NEW s \in Session
  PROVE  \/ turns'[s] \in {turns[s], << >>}
         \/ /\ task[u].pc \in Writing
            /\ \A x \in Session \ { task[u].session } : turns'[x] = turns[x]
<1>1. turns \in [Session -> Seq(Turn)]
  BY DEF ShapeInv, StoreInv
<1>2. CASE Hear(u)
  BY <1>1, <1>2 DEF Hear, At, Writing
<1>3. CASE Answer(u)
  BY <1>1, <1>3 DEF Answer, At, Writing
<1>4. CASE Replace(u)
  BY <1>1, <1>4 DEF Replace, At, Writing
<1>5. CASE Wipe(u)
  BY <1>1, <1>5 DEF Wipe
<1>6. CASE Delete(u)
  BY <1>1, <1>6 DEF Delete
<1>7. CASE \/ Acquire(u) \/ BeginCommand(u) \/ GetActive(u) \/ Create(u) \/ Select(u) \/ Rename(u)
           \/ Unname(u) \/ AskName(u) \/ DeleteMissing(u) \/ Execute(u) \/ Forget(u)
           \/ Read(u) \/ Reply(u)
  <2>1. turns' = turns
    BY <1>7 DEF Acquire, BeginCommand, GetActive, Create, Select, Rename, Unname, AskName,
                DeleteMissing, Execute, Forget, Read, Reply, stores
  <2>2. QED
    BY <2>1
<1>8. QED
  BY <1>2, <1>3, <1>4, <1>5, <1>6, <1>7 DEF Step

\* What a step of u changes of the catalog.
LEMMA CatalogOf ==
  ASSUME ShapeInv, NEW u \in Update, Step(u)
  PROVE  LET s == task[u].session
         IN  \/ /\ catalog'.known = catalog.known /\ used' = used /\ UNCHANGED << deleted, torn >>
                /\ catalog'.active = catalog.active \/ catalog'.active \in catalog.known
             \/ /\ used' = used + 1 /\ UNCHANGED << deleted, torn >>
                /\ catalog'.known = catalog.known \cup { used + 1 }
                /\ catalog'.active = catalog.active
             \/ /\ Delete(u) /\ used' = used /\ deleted' = DeletedBy(u) /\ torn' = torn
                /\ catalog'.known = catalog.known \ {s}
                /\ catalog'.active = IF catalog.active = s THEN None ELSE catalog.active
<1> DEFINE s == task[u].session
<1>1. catalog \in Catalog
  BY DEF ShapeInv, StoreInv
<1>2. CASE Create(u)
  <2>1. catalog' = [catalog EXCEPT !.known = @ \cup { used + 1 }]
    BY <1>1, <1>2, CatalogWrites DEF Create
  <2>2. QED
    BY <1>1, <1>2, <2>1 DEF Create, Catalog, history
<1>3. CASE Select(u)
  <2>1. s \in Session
    BY <1>3, TaskOf DEF Select, At, TaskFits, Working
  <2>2. catalog' = catalog \/ (s \in catalog.known /\ catalog' = Pointing(catalog, s))
    BY <1>1, <1>3, <2>1, CatalogWrites DEF Select
  <2>3. QED
    BY <1>1, <1>3, <2>2 DEF Select, Catalog, Pointing, history
<1>4. CASE Delete(u)
  <2>1. s \in Session
    BY <1>4, TaskOf DEF Delete, At, TaskFits, Working
  <2>2. catalog' = IF catalog.active = s THEN Pointing(Without(catalog, s), None)
                   ELSE Without(catalog, s)
    BY <1>1, <1>4, <2>1, CatalogWrites DEF Delete
  <2>3. QED
    BY <1>1, <1>4, <2>2 DEF Delete, Catalog, Pointing, Without
<1>5. CASE \/ Acquire(u) \/ BeginCommand(u) \/ GetActive(u) \/ Rename(u) \/ Unname(u)
           \/ AskName(u) \/ DeleteMissing(u) \/ Hear(u) \/ Execute(u) \/ Answer(u)
           \/ Forget(u) \/ Wipe(u) \/ Read(u) \/ Replace(u) \/ Reply(u)
  <2>1. catalog' = catalog /\ used' = used /\ UNCHANGED << deleted, torn >>
    BY <1>5 DEF Acquire, BeginCommand, GetActive, Rename, Unname, AskName, DeleteMissing,
                Hear, Execute, Answer, Forget, Wipe, Read, Replace, Reply, stores, history
  <2>2. QED
    BY <2>1
<1>6. QED
  BY <1>2, <1>3, <1>4, <1>5 DEF Step

LEMMA StepKeepsGone ==
  ASSUME ShapeInv, GoneInv, NEW u \in Update, Step(u)
  PROVE  GoneInv'
<1> DEFINE s == task[u].session
<1>1. PICK r : TaskStep(u, r)
  BY StepsAreTaskSteps
<1>2. /\ catalog \in Catalog /\ used \in Nat /\ deleted \subseteq Session
      /\ catalog.known \cup deleted \subseteq 1 .. used /\ (~ torn => Resolves(catalog))
  BY DEF ShapeInv, StoreInv, GoneInv
<1>3. ASSUME NEW x \in deleted
      PROVE  x \notin catalog.known /\ Quiet(x)' /\ x \in 1 .. used
  <2>1. Quiet(x) /\ x \in Session /\ x \notin catalog.known /\ x \in 1 .. used
    BY <1>2 DEF GoneInv
  <2>2. QED
    BY <1>1, <2>1, StepKeepsQuiet, TurnsOf
<1>4. CASE /\ catalog'.known = catalog.known /\ used' = used /\ UNCHANGED << deleted, torn >>
           /\ catalog'.active = catalog.active \/ catalog'.active \in catalog.known
  BY <1>2, <1>3, <1>4 DEF GoneInv, Resolves
<1>5. CASE /\ used' = used + 1 /\ UNCHANGED << deleted, torn >>
           /\ catalog'.known = catalog.known \cup { used + 1 }
           /\ catalog'.active = catalog.active
  <2>1. 1 .. used' = 1 .. used \cup { used + 1 } /\ used + 1 \notin 1 .. used
    BY <1>2, <1>5
  <2>2. ~ torn' => Resolves(catalog')
    BY <1>2, <1>5 DEF Resolves
  <2>3. catalog'.known \cup deleted' \subseteq 1 .. used'
    BY <1>2, <1>5, <2>1
  <2>4. ASSUME NEW x \in deleted'
        PROVE  x \notin catalog'.known /\ Quiet(x)'
    BY <1>3, <1>5, <2>1, <2>4
  <2>5. QED
    BY <2>2, <2>3, <2>4 DEF GoneInv
<1>6. CASE /\ Delete(u) /\ used' = used /\ deleted' = DeletedBy(u) /\ torn' = torn
           /\ catalog'.known = catalog.known \ {s}
           /\ catalog'.active = IF catalog.active = s THEN None ELSE catalog.active
  <2>1. ~ torn' => Resolves(catalog')
    BY <1>2, <1>6 DEF Resolves
  <2>2. s \in catalog.known /\ s \in Session /\ task[u].pc = "delete"
    BY <1>6, TaskOf DEF Delete, At, TaskFits, Working
  <2>3. catalog'.known \cup deleted' \subseteq 1 .. used'
    BY <1>2, <1>6, <2>2 DEF DeletedBy
  <2>4. ASSUME NEW x \in deleted'
        PROVE  x \notin catalog'.known /\ Quiet(x)'
    <3>1. CASE x \in deleted
      BY <1>3, <1>6, <3>1
    <3>2. CASE x \notin deleted
      <4>1. Users(s) = {u} /\ x = s
        BY <1>6, <2>4, <3>2 DEF DeletedBy
      <4>2. \A v \in Update \ {u} : task[v].session = s => task[v].pc \notin Writing
        BY <4>1 DEF Users, AtRest, Writing
      <4>3. turns'[s] = << >>
        BY <1>6, <2>2 DEF Delete, ShapeInv, StoreInv
      <4>4. task'[u].pc = "create" /\ \A v \in Update \ {u} : task'[v] = task[v]
        BY <1>6, TaskOf DEF Delete, Goto, TaskInv, TaskRecord
      <4>5. QED
        BY <1>6, <4>1, <4>2, <4>3, <4>4 DEF Quiet, Writing
    <3>3. QED
      BY <3>1, <3>2
  <2>5. QED
    BY <2>1, <2>3, <2>4 DEF GoneInv
<1>7. QED
  BY <1>4, <1>5, <1>6, CatalogOf

\* Operations that are cut short leave nothing of a deleted session, whoever still
\* writes afterwards.
LEMMA CutShortKeepsGone ==
  ASSUME ShapeInv, GoneInv, NEW u \in Update, NEW v \in Update, CutShort(u, v),
         rename' \in Session \cup {None}
  PROVE  /\ ~ torn' => Resolves(catalog')
         /\ catalog'.known \cup deleted' \subseteq 1 .. used'
         /\ \A s \in deleted' : s \notin catalog'.known /\ turns'[s] = << >>
         /\ \A s \in deleted' \ deleted : s = task[u].session /\ Users(s) = {u}
<1> DEFINE s == task[u].session
           t == task[v].session
<1>1. /\ catalog \in Catalog /\ used \in Nat /\ deleted \subseteq Session
      /\ catalog.known \cup deleted \subseteq 1 .. used /\ torn \in BOOLEAN
      /\ ~ torn => Resolves(catalog)
      /\ \A x \in deleted : x \notin catalog.known /\ Quiet(x)
  BY DEF ShapeInv, StoreInv, GoneInv
<1>2. /\ torn' = (torn \/ catalog' # catalog)
      /\ used' = IF used + 1 \in catalog'.known THEN used + 1 ELSE used
      /\ deleted' = IF At(u, "delete") /\ s \in catalog.known \ catalog'.known
                    THEN DeletedBy(u) ELSE deleted
      /\ At(u, "delete") /\ catalog' # catalog => turns'[s] = << >>
  BY DEF CutShort
<1>3. catalog'.known \subseteq catalog.known \cup { used + 1 }
  BY CatalogCutOf DEF CutShort
<1>4. ~ torn' => Resolves(catalog')
  BY <1>1, <1>2
<1>5. ASSUME NEW x \in deleted' \ deleted
      PROVE  /\ x = s /\ Users(s) = {u} /\ s \in catalog.known \ catalog'.known
             /\ turns'[s] = << >>
  BY <1>2 DEF DeletedBy
<1>6. ASSUME NEW x \in deleted
      PROVE  x \notin catalog'.known /\ turns'[x] = << >>
  <2>1. x \in 1 .. used /\ x \in Session /\ x \notin catalog.known /\ Quiet(x)
    BY <1>1
  <2>2. x \notin catalog'.known
    <3>1. x # used + 1
      BY <1>1, <2>1
    <3>2. QED
      BY <1>3, <2>1, <3>1
  <2>3. CASE turns'[x] = turns[x]
    BY <2>1, <2>2, <2>3 DEF Quiet
  <2>4. CASE turns'[x] # turns[x]
    <3>1. t = x /\ turns'[x] \in TurnsCut(v)
      BY <2>1, <2>4, CutShortKeeps
    <3>2. TurnsCut(v) \subseteq { turns[x], << >> }
      <4>1. task[v].pc \notin Writing /\ t \in Session
        BY <2>1, <3>1 DEF Quiet
      <4>2. TurnsCut(v) \subseteq { turns[t], << >> }
        BY <4>1, TurnsCutOf
      <4>3. QED
        BY <3>1, <4>2
    <3>3. QED
      BY <2>1, <2>2, <3>1, <3>2 DEF Quiet
  <2>5. QED
    BY <2>3, <2>4
<1>7. catalog'.known \cup deleted' \subseteq 1 .. used'
  <2>1. 1 .. used \subseteq 1 .. used' /\ (used + 1 \in catalog'.known => used + 1 \in 1 .. used')
    BY <1>1, <1>2
  <2>2. catalog'.known \subseteq 1 .. used'
    BY <1>1, <1>3, <2>1
  <2>3. deleted' \subseteq 1 .. used'
    BY <1>1, <1>5, <2>1
  <2>4. QED
    BY <2>2, <2>3
<1>8. QED
  BY <1>4, <1>5, <1>6, <1>7

LEMMA GoneInvariant ==
  ShapeInv /\ GoneInv /\ [Next]_vars => GoneInv'
<1> SUFFICES ASSUME ShapeInv, GoneInv, [Next]_vars
             PROVE  GoneInv'
  OBVIOUS
<1>1. task \in [Update -> TaskRecord] /\ StoreInv
  BY DEF ShapeInv, TaskInv
<1>2. ASSUME NEW u \in Update, Step(u)
      PROVE  GoneInv'
  BY <1>2, StepKeepsGone
<1>3. ASSUME NEW u \in Update, StoreFails(u)
      PROVE  GoneInv'
  <2>1. CutShort(u, u) /\ rename' \in Session \cup {None}
    BY <1>1, <1>3 DEF StoreFails, StoreInv
  <2>2. task'[u].pc \in {"unname", "reply", "done"}
    BY <1>3, StoreFailsStep
  <2>3. \A v \in Update \ {u} : task'[v] = task[v]
    BY <1>1, <1>3 DEF StoreFails, Goto, Respond, End
  <2>4. ASSUME NEW s \in deleted'
        PROVE  Quiet(s)'
    <3>1. turns'[s] = << >>
      BY <2>1, CutShortKeepsGone
    <3>2. \A v \in Update \ {u} : task[v].session = s => task[v].pc \notin Writing
      <4>1. CASE s \in deleted
        BY <4>1 DEF GoneInv, Quiet
      <4>2. CASE s \notin deleted
        BY <2>1, <4>2, CutShortKeepsGone DEF Users, AtRest, Writing
      <4>3. QED
        BY <4>1, <4>2
    <3>3. QED
      BY <2>2, <2>3, <3>1, <3>2 DEF Quiet, Writing
  <2>5. QED
    BY <2>1, <2>4, CutShortKeepsGone DEF GoneInv
<1>4. ASSUME UNCHANGED << stores, deleted, torn >>,
             \A u \in Update : task'[u].pc \in Writing =>
               task[u].pc \in Writing /\ task'[u].session = task[u].session
      PROVE  GoneInv'
  BY <1>4 DEF GoneInv, Quiet, stores
<1>5. ASSUME NEW kind \in Kind, NEW target \in Press(kind), Send(kind, target)
      PROVE  GoneInv'
  <2>1. \A v \in Update : task'[v].pc = task[v].pc /\ task'[v].session = task[v].session
    BY <1>1, <1>5 DEF Send, TaskRecord
  <2>2. QED
    BY <1>4, <1>5, <2>1 DEF Send, history
<1>6. CASE Poll
  <2>1. ASSUME NEW v \in Update
        PROVE  task'[v].pc \in Writing => task'[v] = task[v]
    <3>1. CASE v \in Offset + 1 .. sent
      <4>1. task'[v] = Spawned(task[v].kind, task[v].target)
        BY <1>6, <3>1 DEF Poll
      <4>2. QED
        BY <4>1, SpawnedFits DEF Writing
    <3>2. CASE v \notin Offset + 1 .. sent
      BY <1>6, <3>2 DEF Poll
    <3>3. QED
      BY <3>1, <3>2
  <2>2. QED
    BY <1>4, <1>6, <2>1 DEF Poll
<1>7. CASE PollFails
  BY <1>4, <1>7 DEF PollFails, history
<1>8. CASE Crash
  <2>1. PICK u \in Update, v \in Update : CutShort(u, v)
    BY <1>8 DEF Crash
  <2>2. rename' = None
    BY <1>8 DEF Crash
  <2>3. \A w \in Update : task'[w].pc \notin Writing
    BY <1>1, <1>8 DEF Crash, TaskRecord, AtRest, Writing
  <2>4. QED
    BY <2>1, <2>2, <2>3, CutShortKeepsGone DEF GoneInv, Quiet
<1>9. CASE UNCHANGED vars
  BY <1>4, <1>9 DEF vars, history
<1>10. QED
  BY <1>2, <1>3, <1>5, <1>6, <1>7, <1>8, <1>9 DEF Next

\* A session that was deleted while no other task was using it is not listed, has no
\* turns and no request works in it, for good, whatever updates, failures and deaths
\* come, also inside the deletion; the row of its paused loop may stay, but is never
\* resumed.  As long as no operation of the catalog was cut short, the active session
\* exists (DeletedIsGone).
THEOREM DeletedAlwaysGone ==
  Spec => []DeletedIsGone
<1>1. Init => ShapeInv /\ GoneInv
  <2>1. ASSUME Init PROVE GoneInv
    <3>1. used \in Nat /\ (used # 0 => used \in 1 .. used)
      BY <2>1, ChatAssumption DEF Init
    <3>2. QED
      BY <2>1, <3>1 DEF Init, GoneInv, NoSessions, Resolves
  <2>2. QED
    BY <2>1, InitShape
<1>2. (ShapeInv /\ GoneInv) /\ [Next]_vars => (ShapeInv /\ GoneInv)'
  BY ShapeInvariant, GoneInvariant
<1>3. ShapeInv /\ GoneInv => DeletedIsGone
  BY DEF GoneInv, DeletedIsGone, Quiet, Writing
<1>4. QED
  BY <1>1, <1>2, <1>3, PTL DEF Spec
=============================================================================
