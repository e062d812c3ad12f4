--------------------------- MODULE ToolHostProofs ---------------------------
(***************************************************************************)
(* For any number of calls, loops, failures and deaths: the tool of a      *)
(* server is executed again only after an attempt that took too long,      *)
(* files outside the roots stay as they are, no version of a skill that    *)
(* was ever installed is lost, the record of a skill is true unless two    *)
(* installations overlap, and what is written stands until it is replaced, *)
(* unless two writers overlap.                                             *)
(***************************************************************************)
EXTENDS ToolHost, FiniteSetTheorems, TLAPS

CallType ==
  [tool : Tool, on : File \cup Source \cup {None}, pc : Pc, attempt : Nat, late : Nat,
   approved : BOOLEAN, held : Text, gone : Text]

HostType ==
  /\ call \in [Call -> CallType]
  /\ executed \in [Call -> Nat]
  /\ file \in [File -> Text]
  /\ begun \in 0 .. MaxCalls /\ late \in Nat

\* What has not begun, or was not let through, was not executed.
NotBegun == { "idle", "check", "ask", "denied" }

\* A call of a server counts its attempts; where it runs, the last of them is
\* still to come.
AttemptsAreCounted ==
  \A c \in Call :
    /\ c > begun => At(c, "idle")
    /\ call[c].pc \in NotBegun => executed[c] = 0
    /\ At(c, "run") /\ Is(c, "Remote") => executed[c] <= call[c].late
    /\ executed[c] <= 1 + call[c].late

\* Where only an installation gets to, and where a file is written.
InstallPc == { "staged", "backup", "publish", "record", "rename" }
Writes(k) == k.tool \in {"Edit", "Write"} /\ k.on \notin Outside
MayStandAt(k, pc) ==
  /\ pc \in InstallPc => k.tool = "Install"
  /\ pc = "empty" => Writes(k)
  /\ pc = "fill" => k.tool = "Install" \/ Writes(k)

\* Only what may be written is ever opened to be written.
WritersMayWrite ==
  \A c \in Call : /\ MayStandAt(call[c], call[c].pc)
                  /\ call[c].tool \in {"Edit", "Write"} => call[c].on \in File
                  /\ call[c].tool = "Install" => call[c].on \in Source

OutsideUntouched == \A f \in Outside : file[f] = {0}

Inv == HostType /\ AttemptsAreCounted /\ WritersMayWrite /\ OutsideUntouched

-----------------------------------------------------------------------------
LEMMA InitInv == Init => Inv
BY HostAssumption
   DEF Init, Inv, HostType, CallType, Fresh, Tool, Pc, Ended, Text, Call, AttemptsAreCounted,
       WritersMayWrite, MayStandAt, InstallPc, OutsideUntouched, At, Is, NotBegun

\* A call that is under way moves, and the others stay.
LEMMA OneCall ==
  ASSUME Inv, NEW c \in Call, NEW j \in CallType, call' = [call EXCEPT ![c] = j],
         call[c].pc # "idle", begun' = begun,
         executed' \in [Call -> Nat], \A d \in Call \ {c} : executed'[d] = executed[d],
         j.pc \in NotBegun => executed'[c] = 0,
         j.pc = "run" /\ j.tool = "Remote" => executed'[c] <= j.late,
         executed'[c] <= 1 + j.late,
         MayStandAt(j, j.pc), j.tool = call[c].tool, j.on = call[c].on
  PROVE  call' \in [Call -> CallType] /\ AttemptsAreCounted' /\ WritersMayWrite'
<1>1. /\ call' \in [Call -> CallType] /\ call'[c] = j
      /\ \A d \in Call \ {c} : call'[d] = call[d]
  BY DEF Inv, HostType
<1>2. ~ (c > begun)
  BY DEF Inv, AttemptsAreCounted, At
<1>3. AttemptsAreCounted'
  BY <1>1, <1>2 DEF Inv, AttemptsAreCounted, At, Is
<1>4. WritersMayWrite'
  BY <1>1 DEF Inv, WritersMayWrite
<1> QED
  BY <1>1, <1>3, <1>4

\* What becomes of a call whose tool has returned.
LEMMA Returned ==
  ASSUME Inv, NEW c \in Call, NEW outcome \in {"ok", "not_ok", "failed"}, Return(c, outcome)
  PROVE  /\ late' \in Nat
         /\ \E j \in CallType :
              /\ call' = [call EXCEPT ![c] = j] /\ j.tool = call[c].tool /\ j.on = call[c].on
              /\ \/ j.pc = outcome /\ j.late = call[c].late
                 \/ j.pc \in {"run", "timeout"} /\ j.late = call[c].late + 1
<1>1. /\ call[c] \in CallType /\ late \in Nat /\ late + 1 \in Nat
      /\ call[c].attempt + 1 \in Nat /\ call[c].late + 1 \in Nat
  BY DEF Inv, HostType, CallType
<1>2. CASE Goto(c, outcome) /\ UNCHANGED late
  <2>1. [call[c] EXCEPT !.pc = outcome] \in CallType
    BY <1>1 DEF CallType, Pc, Ended
  <2> QED
    BY <1>1, <1>2, <2>1 DEF Goto, CallType
<1>3. CASE late' = late + 1 /\ call' = [Try(c, call[c].attempt + 1) EXCEPT ![c].late = @ + 1]
  <2> DEFINE j == [call[c] EXCEPT !.pc = "run", !.attempt = call[c].attempt + 1,
                                  !.late = call[c].late + 1]
  <2>1. j \in CallType /\ j.tool = call[c].tool /\ j.on = call[c].on /\ j.pc = "run" /\ j.late = call[c].late + 1
    <3> HIDE DEF j
    <3>1. \A n, m \in Nat :
            [call[c] EXCEPT !.pc = "run", !.attempt = n, !.late = m] \in CallType
      BY <1>1 DEF CallType, Pc
    <3> QED
      BY <1>1, <3>1 DEF j, CallType
  <2>2. call' = [call EXCEPT ![c] = j]
    BY <1>1, <1>3 DEF Try, Inv, HostType, CallType
  <2> HIDE DEF j
  <2> QED
    BY <1>1, <1>3, <2>1, <2>2
<1>4. CASE late' = late + 1 /\ call' = [call EXCEPT ![c].pc = "timeout", ![c].late = @ + 1]
  <2> DEFINE j == [call[c] EXCEPT !.pc = "timeout", !.late = call[c].late + 1]
  <2>1. j \in CallType /\ j.tool = call[c].tool /\ j.on = call[c].on /\ j.pc = "timeout" /\ j.late = call[c].late + 1
    <3> HIDE DEF j
    <3>1. \A m \in Nat : [call[c] EXCEPT !.pc = "timeout", !.late = m] \in CallType
      BY <1>1 DEF CallType, Pc, Ended
    <3> QED
      BY <1>1, <3>1 DEF j, CallType
  <2>2. call' = [call EXCEPT ![c] = j]
    BY <1>1, <1>4 DEF Inv, HostType, CallType
  <2> HIDE DEF j
  <2> QED
    BY <1>1, <1>4, <2>1, <2>2
<1> QED
  BY <1>2, <1>3, <1>4 DEF Return

\* A step of a call that executes nothing ends or repeats its attempt.
LEMMA ReturnKeeps ==
  ASSUME Inv, NEW c \in Call, NEW outcome \in {"ok", "not_ok", "failed"}, Return(c, outcome),
         call[c].pc \notin NotBegun, UNCHANGED << begun, executed >>
  PROVE  call' \in [Call -> CallType] /\ late' \in Nat /\ AttemptsAreCounted' /\ WritersMayWrite'
<1>1. PICK j \in CallType :
        /\ call' = [call EXCEPT ![c] = j] /\ j.tool = call[c].tool /\ j.on = call[c].on
        /\ \/ j.pc = outcome /\ j.late = call[c].late
           \/ j.pc \in {"run", "timeout"} /\ j.late = call[c].late + 1
  BY Returned
<1>2. late' \in Nat
  BY Returned
<1>3. /\ executed[c] <= 1 + call[c].late /\ call[c].late \in Nat /\ executed \in [Call -> Nat]
      /\ call[c].pc # "idle"
  BY DEF Inv, HostType, CallType, AttemptsAreCounted, NotBegun
<1>4. /\ j.pc \notin NotBegun /\ MayStandAt(j, j.pc) /\ executed[c] <= 1 + j.late
      /\ j.pc = "run" => executed[c] <= j.late
  BY <1>1, <1>3 DEF NotBegun, MayStandAt, InstallPc
<1> QED
  BY <1>1, <1>2, <1>3, <1>4, OneCall

\* A step of a call that executes nothing and goes on.
LEMMA GotoKeeps ==
  ASSUME Inv, NEW c \in Call, NEW pc \in Pc \ (NotBegun \cup {"run"}), Goto(c, pc),
         call[c].pc # "idle", UNCHANGED << begun, executed >>,
         MayStandAt(call[c], pc)
  PROVE  call' \in [Call -> CallType] /\ AttemptsAreCounted' /\ WritersMayWrite'
<1>1. /\ call[c] \in CallType /\ executed \in [Call -> Nat]
      /\ executed[c] <= 1 + call[c].late
  BY DEF Inv, HostType, AttemptsAreCounted
<1> DEFINE j == [call[c] EXCEPT !.pc = pc]
<1>2. /\ j \in CallType /\ j.pc = pc /\ j.tool = call[c].tool /\ j.late = call[c].late
      /\ j.on = call[c].on
  BY <1>1 DEF CallType
<1>3. call' = [call EXCEPT ![c] = j]
  BY DEF Goto
<1>4. MayStandAt(j, j.pc)
  BY <1>2 DEF MayStandAt, Writes
<1> HIDE DEF j
<1> QED
  BY <1>1, <1>2, <1>3, <1>4, OneCall

-----------------------------------------------------------------------------
(* One lemma for each group of actions.                                    *)

LEMMA BeginInv ==
  ASSUME Inv, NEW tool \in Tool, NEW on \in Targets(tool), Begin(tool, on)
  PROVE  Inv'
<1> DEFINE b == begun + 1
           j == [Fresh EXCEPT !.tool = tool, !.on = on, !.pc = "check"]
<1>1. /\ b \in Call /\ b > begun /\ b \in 0 .. MaxCalls /\ begun \in Nat
      /\ begun' = b /\ call' = [call EXCEPT ![b] = j]
      /\ UNCHANGED << file, executed, late >>
  BY HostAssumption DEF Begin, Inv, HostType, Call, work, bounds
<1>2. on \in File \cup Source \cup {None}
  BY DEF Targets, Tool
<1>3. j \in CallType /\ j.pc = "check" /\ j.late = 0
  BY <1>2 DEF Fresh, CallType, Tool, Pc, Text, Ended
<1>4. executed[b] = 0
  BY <1>1 DEF Inv, AttemptsAreCounted, At, NotBegun
<1> HIDE DEF b, j
<1>5. /\ call' \in [Call -> CallType] /\ call'[b] = j
      /\ \A d \in Call \ {b} : call'[d] = call[d]
  BY <1>1, <1>3 DEF Inv, HostType
<1>6. HostType'
  BY <1>1, <1>5 DEF Inv, HostType
<1>7. \A d \in Call : d > b => d > begun /\ d # b
  BY <1>1 DEF Call, b
<1>8. AttemptsAreCounted'
  BY <1>1, <1>3, <1>4, <1>5, <1>7 DEF Inv, AttemptsAreCounted, At, Is
<1>9. WritersMayWrite'
  <2>1. MayStandAt(j, j.pc)
    BY <1>3 DEF MayStandAt, InstallPc
  <2>2. /\ j.tool \in {"Edit", "Write"} => j.on \in File
        /\ j.tool = "Install" => j.on \in Source
    BY DEF j, Fresh, Targets
  <2> QED
    BY <1>5, <2>1, <2>2 DEF Inv, WritersMayWrite
<1>10. OutsideUntouched'
  BY <1>1 DEF Inv, OutsideUntouched
<1> QED
  BY <1>6, <1>8, <1>9, <1>10 DEF Inv

\* A refused or granted call has not been executed yet.
LEMMA AdmitInv ==
  ASSUME Inv, NEW c \in Call, Refuse(c) \/ Check(c) \/ Decide(c)
  PROVE  Inv'
<1>1. /\ call[c] \in CallType /\ call[c].pc \in {"check", "ask"} /\ executed[c] = 0
      /\ executed \in [Call -> Nat] /\ call[c].late \in Nat
      /\ UNCHANGED << begun, file, executed, late >>
  BY DEF Inv, HostType, AttemptsAreCounted, NotBegun, CallType, Refuse, Check, Decide, At,
     work, bounds
<1>2. PICK j \in CallType : call' = [call EXCEPT ![c] = j] /\ j.pc \in {"denied", "ask", "run"}
                           /\ j.late = call[c].late /\ j.tool = call[c].tool
                           /\ j.on = call[c].on
  <2>1. /\ [call[c] EXCEPT !.pc = "denied"] \in CallType
        /\ [call[c] EXCEPT !.pc = "ask"] \in CallType
        /\ [call[c] EXCEPT !.pc = "run", !.attempt = 1] \in CallType
        /\ [call[c] EXCEPT !.pc = "run", !.attempt = 1, !.approved = TRUE] \in CallType
    BY <1>1 DEF CallType, Pc, Ended
  <2>2. \/ call' = [call EXCEPT ![c] = [call[c] EXCEPT !.pc = "denied"]]
        \/ call' = [call EXCEPT ![c] = [call[c] EXCEPT !.pc = "ask"]]
        \/ call' = [call EXCEPT ![c] = [call[c] EXCEPT !.pc = "run", !.attempt = 1]]
        \/ call' = [call EXCEPT ![c] =
                      [call[c] EXCEPT !.pc = "run", !.attempt = 1, !.approved = TRUE]]
    BY DEF Refuse, Check, Decide, Goto, Try, Inv, HostType
  <2> QED
    BY <1>1, <2>1, <2>2 DEF CallType
<1>3. MayStandAt(j, j.pc)
  BY <1>2 DEF MayStandAt, InstallPc
<1>4. /\ call[c].pc # "idle" /\ executed' \in [Call -> Nat] /\ executed'[c] = 0
      /\ \A d \in Call : executed'[d] = executed[d]
      /\ executed'[c] <= j.late /\ executed'[c] <= 1 + j.late /\ begun' = begun
  BY <1>1, <1>2
<1>5. call' \in [Call -> CallType] /\ AttemptsAreCounted' /\ WritersMayWrite'
  BY <1>1, <1>2, <1>3, <1>4, OneCall
<1> QED
  BY <1>1, <1>5 DEF Inv, HostType, OutsideUntouched

\* Reading, and the parts of an installation: no file of the tools changes.
LEMMA OtherInv ==
  ASSUME Inv, NEW c \in Call,
         ReadFile(c) \/ List(c) \/ LookForOld(c) \/ Backup(c) \/ Publish(c)
           \/ OpenTemp(c) \/ FillTemp(c) \/ Rename(c)
  PROVE  Inv'
<1>1. /\ call[c].pc \in {"run", "staged", "backup", "publish", "record", "fill", "rename"}
      /\ UNCHANGED << begun, file, executed >>
  BY DEF ReadFile, List, LookForOld, Backup, Publish, OpenTemp, FillTemp, Rename, At, Kept, work
<1>2. late \in Nat /\ call[c].pc \notin NotBegun /\ call[c].pc # "idle"
  BY <1>1 DEF Inv, HostType, NotBegun
<1>3. call[c].pc \in InstallPc => call[c].tool = "Install"
  BY DEF Inv, WritersMayWrite, MayStandAt
<1>4. \/ Return(c, "ok") \/ Return(c, "failed")
      \/ /\ late' = late /\ call[c].tool = "Install"
         /\ \E pc \in InstallPc \cup {"fill"} : Goto(c, pc)
  BY <1>3 DEF ReadFile, List, LookForOld, Backup, Publish, OpenTemp, FillTemp, Rename, At, Is,
     InstallPc
<1>5. call' \in [Call -> CallType] /\ late' \in Nat /\ AttemptsAreCounted' /\ WritersMayWrite'
  <2>1. CASE Return(c, "ok") \/ Return(c, "failed")
    BY <1>1, <1>2, <2>1, ReturnKeeps
  <2>2. ASSUME late' = late, call[c].tool = "Install", NEW pc \in InstallPc \cup {"fill"}, Goto(c, pc)
        PROVE  call' \in [Call -> CallType] /\ AttemptsAreCounted' /\ WritersMayWrite'
    <3>1. pc \in Pc \ (NotBegun \cup {"run"}) /\ MayStandAt(call[c], pc)
      BY <2>2 DEF Pc, NotBegun, InstallPc, MayStandAt
    <3> QED
      BY <1>1, <1>2, <2>2, <3>1, GotoKeeps
  <2> QED
    BY <1>2, <1>4, <2>1, <2>2
<1> QED
  BY <1>1, <1>5 DEF Inv, HostType, OutsideUntouched

LEMMA ExecuteInv ==
  ASSUME Inv, NEW c \in Call, Execute(c)
  PROVE  Inv'
<1>1. PICK outcome \in {"ok", "failed"} : Return(c, outcome)
  BY DEF Execute
<1>2. /\ call[c].pc = "run" /\ call[c].tool = "Remote"
      /\ executed' = [executed EXCEPT ![c] = executed[c] + 1] /\ UNCHANGED << begun, file >>
  BY DEF Execute, At, Is, Kept
<1>3. PICK j \in CallType :
        /\ call' = [call EXCEPT ![c] = j] /\ j.tool = call[c].tool /\ j.on = call[c].on
        /\ \/ j.pc = outcome /\ j.late = call[c].late
           \/ j.pc \in {"run", "timeout"} /\ j.late = call[c].late + 1
  BY <1>1, Returned
<1>4. late' \in Nat
  BY <1>1, Returned
<1>5. /\ executed \in [Call -> Nat] /\ executed[c] \in Nat /\ call[c].late \in Nat
      /\ executed[c] <= call[c].late
  BY <1>2 DEF Inv, HostType, CallType, AttemptsAreCounted, At, Is
<1>6. /\ executed' \in [Call -> Nat] /\ executed'[c] = executed[c] + 1
      /\ \A d \in Call \ {c} : executed'[d] = executed[d]
  BY <1>2, <1>5
<1>7. /\ j.pc \notin NotBegun /\ MayStandAt(j, j.pc) /\ executed'[c] <= 1 + j.late
      /\ j.pc = "run" => executed'[c] <= j.late
  BY <1>3, <1>5, <1>6 DEF NotBegun, MayStandAt, InstallPc
<1>8. call' \in [Call -> CallType] /\ AttemptsAreCounted' /\ WritersMayWrite'
  BY <1>2, <1>3, <1>6, <1>7, OneCall
<1> QED
  BY <1>2, <1>4, <1>6, <1>8 DEF Inv, HostType, OutsideUntouched

\* Opening a file to edit or to write it.
LEMMA OpenInv ==
  ASSUME Inv, NEW c \in Call, OpenEdit(c) \/ OpenWrite(c)
  PROVE  Inv'
<1>1. /\ call[c] \in CallType /\ call[c].pc = "run" /\ call[c].tool \in {"Edit", "Write"}
      /\ executed \in [Call -> Nat] /\ executed[c] <= 1 + call[c].late
      /\ file \in [File -> Text] /\ late \in Nat
      /\ UNCHANGED << begun, file, executed >>
  BY DEF Inv, HostType, AttemptsAreCounted, OpenEdit, OpenWrite, At, Is, Kept, work
<1>2. CASE Return(c, "not_ok") \/ Return(c, "failed")
  <2>1. call[c].pc \notin NotBegun
    BY <1>1 DEF NotBegun
  <2>2. call' \in [Call -> CallType] /\ late' \in Nat /\ AttemptsAreCounted' /\ WritersMayWrite'
    BY <1>1, <1>2, <2>1, ReturnKeeps
  <2> QED
    BY <1>1, <2>2 DEF Inv, HostType, OutsideUntouched
<1>3. ASSUME Writeable(c), late' = late, NEW text \in Text, NEW gone \in Text,
             call' = [call EXCEPT ![c].pc = "empty", ![c].held = text, ![c].gone = gone]
      PROVE  Inv'
  <2> DEFINE j == [call[c] EXCEPT !.pc = "empty", !.held = text, !.gone = gone]
  <2>1. /\ j \in CallType /\ j.pc = "empty" /\ j.tool = call[c].tool /\ j.on = call[c].on
        /\ j.late = call[c].late
    BY <1>1 DEF CallType, Pc
  <2>2. call' = [call EXCEPT ![c] = j]
    BY <1>3 DEF Inv, HostType
  <2> HIDE DEF j
  <2>3. j.pc \notin NotBegun /\ MayStandAt(j, j.pc)
    BY <1>1, <1>3, <2>1 DEF NotBegun, MayStandAt, InstallPc, Writeable, Writes
  <2>4. call' \in [Call -> CallType] /\ AttemptsAreCounted' /\ WritersMayWrite'
    BY <1>1, <2>1, <2>2, <2>3, OneCall
  <2> QED
    BY <1>1, <1>3, <2>4 DEF Inv, HostType, OutsideUntouched
<1>4. {c} \in Text /\ call[c].gone \in Text
  BY <1>1 DEF Text, CallType
<1>5. file[call[c].on] \in Text
  BY <1>1 DEF Inv, WritersMayWrite
<1>6. CASE OpenWrite(c)
  <2>1. CASE /\ Writeable(c) /\ UNCHANGED late
             /\ call' = [call EXCEPT ![c].pc = "empty", ![c].held = {c}]
    <3>1. call' = [call EXCEPT ![c].pc = "empty", ![c].held = {c}, ![c].gone = call[c].gone]
      BY <1>1, <2>1 DEF CallType
    <3> QED
      BY <1>3, <1>4, <2>1, <3>1
  <2> QED
    BY <1>2, <1>6, <2>1 DEF OpenWrite
<1>7. CASE OpenEdit(c)
  <2>1. ASSUME Writeable(c), UNCHANGED late, NEW gone \in SUBSET file[call[c].on],
               call' = [call EXCEPT ![c].pc = "empty", ![c].held = Edited(c, gone),
                                    ![c].gone = @ \cup gone]
        PROVE  Inv'
    <3>1. Edited(c, gone) \in Text /\ call[c].gone \cup gone \in Text
      BY <1>4, <1>5, <2>1 DEF Text, Edited
    <3>2. call' = [call EXCEPT ![c].pc = "empty", ![c].held = Edited(c, gone),
                               ![c].gone = call[c].gone \cup gone]
      BY <2>1
    <3> QED
      BY <1>3, <2>1, <3>1, <3>2
  <2> QED
    BY <1>2, <1>7, <2>1 DEF OpenEdit
<1> QED
  BY <1>6, <1>7

LEMMA WriteInv ==
  ASSUME Inv, NEW c \in Call, EmptyFile(c) \/ FillFile(c)
  PROVE  Inv'
<1> DEFINE f == call[c].on
<1>1. /\ call[c] \in CallType /\ call[c].pc \in {"empty", "fill"} /\ call[c].held \in Text
      /\ file \in [File -> Text] /\ late \in Nat /\ UNCHANGED << begun, executed >>
  BY DEF Inv, HostType, CallType, EmptyFile, FillFile, At, Kept
<1>2. f \in File \ Outside
  BY DEF Inv, WritersMayWrite, MayStandAt, Writes, EmptyFile, FillFile, At, Is
<1>3. {} \in Text /\ {-1} \in Text
  BY DEF Text
<1>4. PICK text \in Text : file' = [file EXCEPT ![f] = text]
  BY <1>1, <1>3 DEF EmptyFile, FillFile
<1> HIDE DEF f
<1>5. file' \in [File -> Text] /\ \A g \in Outside : file'[g] = file[g]
  BY <1>1, <1>2, <1>4, HostAssumption
<1>6. call' \in [Call -> CallType] /\ late' \in Nat /\ AttemptsAreCounted' /\ WritersMayWrite'
  <2>1. CASE EmptyFile(c)
    <3>1. "fill" \in Pc \ (NotBegun \cup {"run"}) /\ MayStandAt(call[c], "fill")
      BY <2>1 DEF Pc, NotBegun, MayStandAt, Inv, WritersMayWrite, InstallPc, EmptyFile, At
    <3>2. Goto(c, "fill") /\ late' = late /\ call[c].pc # "idle"
      BY <1>1, <2>1 DEF EmptyFile
    <3> QED
      BY <1>1, <3>1, <3>2, GotoKeeps
  <2>2. CASE FillFile(c)
    <3>1. Return(c, "ok") /\ call[c].pc \notin NotBegun
      BY <1>1, <2>2 DEF FillFile, NotBegun
    <3> QED
      BY <1>1, <3>1, ReturnKeeps
  <2> QED
    BY <2>1, <2>2
<1> QED
  BY <1>1, <1>5, <1>6 DEF Inv, HostType, OutsideUntouched

LEMMA FailureInv ==
  ASSUME Inv, NEW c \in Call, FileSystemFails(c)
  PROVE  Inv'
<1>1. /\ "failed" \in Pc \ (NotBegun \cup {"run"}) /\ MayStandAt(call[c], "failed")
      /\ Goto(c, "failed") /\ call[c].pc # "idle" /\ UNCHANGED << begun, executed, file, late >>
  BY DEF FileSystemFails, Pc, Ended, NotBegun, MayStandAt, InstallPc
<1>2. call' \in [Call -> CallType] /\ AttemptsAreCounted' /\ WritersMayWrite'
  BY <1>1, GotoKeeps
<1> QED
  BY <1>1, <1>2 DEF Inv, HostType, OutsideUntouched

LEMMA CrashInv == Inv /\ Crash => Inv'
<1> SUFFICES ASSUME Inv, Crash PROVE Inv'
  OBVIOUS
<1>1. UNCHANGED << begun, executed, file, late >>
  BY DEF Crash
<1>2. ASSUME NEW c \in Call
      PROVE  \/ call'[c] = call[c]
             \/ call[c].pc # "idle" /\ call'[c] = [call[c] EXCEPT !.pc = "lost"]
  BY DEF Crash, Live, Ended
<1>3. ASSUME NEW c \in Call
      PROVE  [call[c] EXCEPT !.pc = "lost"] \in CallType
  <2>1. call[c] \in CallType
    BY DEF Inv, HostType
  <2> QED
    BY <2>1 DEF CallType, Pc, Ended
<1>4. call' \in [Call -> CallType]
  <2>1. \A c \in Call : call[c] \in CallType
    BY DEF Inv, HostType
  <2> QED
    BY <1>3, <2>1 DEF Crash
<1>5. ASSUME NEW c \in Call
      PROVE  /\ call'[c].tool = call[c].tool /\ call'[c].on = call[c].on
             /\ call'[c].late = call[c].late
             /\ call'[c].pc = call[c].pc \/ (call'[c].pc = "lost" /\ call[c].pc # "idle")
  <2>1. call[c] \in CallType
    BY DEF Inv, HostType
  <2> QED
    BY <1>2, <2>1 DEF CallType
<1>6. AttemptsAreCounted'
  BY <1>1, <1>5 DEF Inv, AttemptsAreCounted, At, Is, NotBegun
<1>7. WritersMayWrite'
  BY <1>5 DEF Inv, WritersMayWrite, MayStandAt, InstallPc, Writes
<1> QED
  BY <1>1, <1>4, <1>6, <1>7 DEF Inv, HostType, OutsideUntouched

LEMMA NextInv == Inv /\ [Next]_vars => Inv'
<1> SUFFICES ASSUME Inv, [Next]_vars PROVE Inv'
  OBVIOUS
<1>1. CASE UNCHANGED vars
  BY <1>1 DEF vars, work, bounds, Inv, HostType, AttemptsAreCounted, WritersMayWrite,
     OutsideUntouched, At, Is
<1>2. ASSUME NEW tool \in Tool, NEW on \in Targets(tool), Begin(tool, on) PROVE Inv'
  BY <1>2, BeginInv
<1>3. ASSUME NEW c \in Call, Refuse(c) \/ Check(c) \/ Decide(c) PROVE Inv'
  BY <1>3, AdmitInv
<1>4. ASSUME NEW c \in Call,
             ReadFile(c) \/ List(c) \/ LookForOld(c) \/ Backup(c) \/ Publish(c)
               \/ OpenTemp(c) \/ FillTemp(c) \/ Rename(c)
      PROVE  Inv'
  BY <1>4, OtherInv
<1>5. ASSUME NEW c \in Call, OpenEdit(c) \/ OpenWrite(c) PROVE Inv'
  BY <1>5, OpenInv
<1>6. ASSUME NEW c \in Call, EmptyFile(c) \/ FillFile(c) PROVE Inv'
  BY <1>6, WriteInv
<1>7. ASSUME NEW c \in Call, Execute(c) \/ FileSystemFails(c) PROVE Inv'
  BY <1>7, ExecuteInv, FailureInv
<1> QED
  BY <1>1, <1>2, <1>3, <1>4, <1>5, <1>6, <1>7, CrashInv DEF Next, Step

\* Whatever fails, dies or takes too long, a call is executed once and once more
\* for each attempt that took too long, and never before it is let through.
THEOREM RepeatedAlwaysLate == Spec => []RepeatedOnlyIfLate
<1>1. Inv => RepeatedOnlyIfLate
  BY DEF Inv, AttemptsAreCounted, RepeatedOnlyIfLate, NotBegun
<1> QED
  BY <1>1, InitInv, NextInv, PTL DEF Spec

\* The file tools change nothing outside their roots, approved or not.
THEOREM OutsideAlwaysUntouched == Spec => []OutsideUntouched
<1>1. Inv => OutsideUntouched
  BY SMTT(30) DEF Inv
<1> QED
  BY <1>1, InitInv, NextInv, PTL DEF Spec

-----------------------------------------------------------------------------
\* What an installation moves away was installed, and what it installs replaces
\* nothing.
Fields == {"dir", "backups", "record", "temp"}
SkillInv ==
  /\ SkillsSurvive /\ published \subseteq Source
  /\ skill \in [Fields -> {skill[x] : x \in Fields}]

LEMMA SkillsNext == Inv /\ SkillInv /\ [Next]_vars => SkillInv'
<1> SUFFICES ASSUME Inv, SkillInv, [Next]_vars PROVE SkillInv'
  OBVIOUS
<1>1. CASE UNCHANGED << skill, published >>
  BY <1>1 DEF SkillInv, SkillsSurvive
<1>2. ASSUME NEW c \in Call, Backup(c) PROVE SkillInv'
  BY <1>1, <1>2 DEF Backup, MoveAway, SkillsSurvive, SkillInv, Fields
<1>3. ASSUME NEW c \in Call, Publish(c) PROVE SkillInv'
  <2>1. call[c].on \in Source
    BY <1>3 DEF Publish, At, Inv, WritersMayWrite, MayStandAt, InstallPc
  <2> QED
    BY <1>1, <1>3, <2>1, SourceAssumption DEF Publish, MoveIn, SkillsSurvive, SkillInv, Fields
<1>4. ASSUME NEW c \in Call, OpenTemp(c) \/ FillTemp(c) \/ Rename(c) PROVE SkillInv'
  <2>1. \/ UNCHANGED << skill, published >>
        \/ /\ published' = published
           /\ \E v : skill' = [skill EXCEPT !.temp = v] \/ skill' = [skill EXCEPT !.record = v]
        \/ /\ published' = published
           /\ skill' = [skill EXCEPT !.temp = None, !.record = skill.temp]
    BY <1>4 DEF OpenTemp, FillTemp, Rename, CreateTemp, RenameTemp
  <2> QED
    BY <1>1, <2>1 DEF SkillsSurvive, SkillInv, Fields
<1> QED
  BY ZenonT(30), <1>1, <1>2, <1>3, <1>4
     DEF Next, Step, vars, work, history, Begin, Refuse, Check, Decide, ReadFile, OpenEdit,
         OpenWrite, EmptyFile, FillFile, Execute, List, LookForOld, FileSystemFails, Crash, Kept

\* However installations race, fail or die, no version that was ever installed is
\* lost: it is installed or among the backups.
THEOREM SkillsAlwaysSurvive == Spec => []SkillsSurvive
<1>1. Init => SkillInv
  BY DEF Init, SkillInv, SkillsSurvive, NoSkill, Fields
<1>2. SkillInv => SkillsSurvive
  BY DEF SkillInv
<1> QED
  BY <1>1, <1>2, InitInv, NextInv, SkillsNext, PTL DEF Spec

-----------------------------------------------------------------------------
(* Types and bounds.                                                       *)

BodyPc == Pc \ (Ended \cup {"check", "ask"})
Limit(k) == IF k.tool = "Remote" THEN 2 ELSE 1

\* The attempts of a call, and how often it was executed: a tool at work is in
\* an attempt, which a tool of a server has not been executed in.
Counted(k, n) ==
  /\ k.attempt <= Limit(k) /\ n <= k.attempt
  /\ k.pc \in BodyPc => k.attempt >= 1
  /\ k.pc = "run" /\ k.tool = "Remote" => n < k.attempt

BoundsInv ==
  /\ failures \in Nat /\ crashes \in Nat /\ failures + crashes <= MaxFailures
  /\ late <= MaxLate
  /\ Cardinality(Live) <= Width
  /\ skill \in Store /\ handle \in [Call -> {"none", "temp", "record", "gone"}]
  /\ raced \subseteq File \cup Source /\ published \subseteq Source
  /\ \A c \in Call : Counted(call[c], executed[c]) /\ call[c].late <= late

Writer(k) == k.tool \in {"Edit", "Write"}

\* What an installation knows of the skill while no other is under way.
Knows(c) ==
  /\ At(c, "backup") => skill.dir # None
  /\ At(c, "publish") => skill.dir = None
  /\ call[c].pc \in {"record", "fill", "rename"} => skill.dir = call[c].on
  /\ At(c, "fill") => handle[c] = "temp" /\ skill.temp = Torn
  /\ At(c, "rename") => skill.temp = call[c].on

Installers == { c \in Live : Is(c, "Install") }
Replacing == { c \in Installers : call[c].pc \in {"publish", "record", "fill", "rename"} }

RecordInv ==
  raced \cap Source = {} =>
    /\ skill.record # Torn
    /\ \A c, d \in Installers : c = d
    /\ \A c \in Installers : Knows(c)
    /\ Undisturbed => Replacing # {} \/ skill.record \in {None, skill.dir}

\* A later Write has replaced what c has written, or a later Edit leaves it out.
Replaced(c) ==
  \E d \in Call : /\ d > c /\ call[d].on = call[c].on
                  /\ \/ Is(d, "Write") /\ call[d].pc \in {"fill", "ok", "timeout"}
                     \/ c \in call[d].gone /\ ~ At(d, "idle")

\* A later Edit is about to fill the file again.
Rewritten(c) ==
  \E d \in Call : d > c /\ call[d].on = call[c].on /\ Is(d, "Edit") /\ At(d, "fill")

LastOfFile(c) ==
  \A d \in Call \ {c} :
    Writer(call[d]) /\ call[d].on = call[c].on /\ ~ At(d, "idle") => d < c

Stands(c) ==
  /\ At(c, "ok") => c \in file[call[c].on] \/ Replaced(c) \/ Rewritten(c)
  /\ At(c, "fill") => file[call[c].on] = {}
  /\ call[c].pc \in {"empty", "fill"} => c \in call[c].held
  /\ call[c].pc \in {"empty", "fill"} /\ Is(c, "Edit") =>
       \A e \in Call : At(e, "ok") /\ Writer(call[e]) /\ call[e].on = call[c].on =>
         e \in call[c].held \/ Replaced(e)

FilesInv ==
  /\ \A c \in Call :
       /\ Is(c, "Remote") => call[c].on = None
       /\ At(c, "ok") /\ Writer(call[c]) => Writes(call[c])
       /\ At(c, "ok") /\ Is(c, "Read") /\ call[c].on \in Outside => call[c].approved
  /\ \A c \in Live : Writer(call[c]) /\ call[c].on \notin raced => LastOfFile(c)
  /\ Undisturbed => \A c \in Call : Writer(call[c]) /\ call[c].on \notin raced => Stands(c)

-----------------------------------------------------------------------------
(* How one call moves.                                                     *)

Same(c, j) ==
  /\ c \in Live /\ j \in CallType /\ call' = [call EXCEPT ![c] = j]
  /\ j.tool = call[c].tool /\ j.on = call[c].on /\ call[c].gone \subseteq j.gone

Granted(c, j) ==
  call[c].pc \in {"check", "ask"} /\ j.pc = "run" /\ j.attempt = 1
  /\ j.late = call[c].late /\ late' = late
GoesOn(c, j) ==
  /\ j.pc # "run" /\ j.pc # "idle" /\ (j.pc \in BodyPc => call[c].pc \in BodyPc)
  /\ j.attempt = call[c].attempt /\ j.late = call[c].late /\ late' = late
TriesAgain(c, j) ==
  /\ call[c].pc \in BodyPc /\ j.pc = "run"
  /\ call[c].attempt < Limit(call[c]) /\ j.attempt = call[c].attempt + 1
  /\ late < MaxLate /\ late' = late + 1 /\ j.late = call[c].late + 1
TooLate(c, j) ==
  /\ call[c].pc \in BodyPc /\ j.pc = "timeout" /\ j.attempt = call[c].attempt
  /\ late < MaxLate /\ late' = late + 1 /\ j.late = call[c].late + 1

Shift(c, j) ==
  Same(c, j) /\ (Granted(c, j) \/ GoesOn(c, j) \/ TriesAgain(c, j) \/ TooLate(c, j))

LEMMA GotoShifts ==
  ASSUME Inv, NEW c \in Live, NEW pc \in Pc \ {"run", "idle"}, Goto(c, pc),
         pc \in BodyPc => call[c].pc \in BodyPc, late' = late
  PROVE  \E j : Shift(c, j) /\ j.pc = pc /\ j.held = call[c].held /\ j.approved = call[c].approved
<1> DEFINE j == [call[c] EXCEPT !.pc = pc]
<1>1. call[c] \in CallType /\ c \in Call
  BY DEF Inv, HostType, Live
<1>2. /\ j \in CallType /\ j.pc = pc /\ j.tool = call[c].tool /\ j.on = call[c].on
      /\ j.attempt = call[c].attempt /\ j.late = call[c].late
      /\ j.held = call[c].held /\ j.gone = call[c].gone /\ j.approved = call[c].approved
  BY <1>1 DEF CallType
<1>3. call' = [call EXCEPT ![c] = j]
  BY DEF Goto
<1> HIDE DEF j
<1> QED
  BY <1>2, <1>3 DEF Shift, Same, GoesOn

\* A tool that returns is only tried again if its limit allows it.
LEMMA ReturnShifts ==
  ASSUME Inv, NEW c \in Call, call[c].pc \in BodyPc,
         NEW outcome \in {"ok", "not_ok", "failed"}, Return(c, outcome)
  PROVE  \E j : /\ Shift(c, j) /\ j.approved = call[c].approved
                /\ \/ j.pc \in {outcome, "timeout"}
                   \/ j.pc = "run" /\ call[c].attempt < Limit(call[c])
<1>1. /\ call[c] \in CallType /\ late \in Nat /\ call[c].attempt \in Nat
      /\ call[c].late \in Nat /\ c \in Live
  BY DEF Inv, HostType, CallType, Live, BodyPc
<1>2. CASE Goto(c, outcome) /\ UNCHANGED late
  <2>1. outcome \in Pc \ {"run", "idle"} /\ outcome \notin BodyPc
    BY DEF Pc, Ended, BodyPc
  <2> QED
    BY <1>1, <1>2, <2>1, GotoShifts
<1>3. CASE /\ late < MaxLate /\ late' = late + 1 /\ call[c].attempt < MaxAttempts(c)
           /\ call' = [Try(c, call[c].attempt + 1) EXCEPT ![c].late = @ + 1]
  <2> DEFINE n == call[c].attempt + 1
             m == call[c].late + 1
             j == [call[c] EXCEPT !.pc = "run", !.attempt = n, !.late = m]
  <2>1. n \in Nat /\ m \in Nat
    BY <1>1
  <2>2. call' = [call EXCEPT ![c] = j]
    BY <1>1, <1>3 DEF Try, Inv, HostType, CallType
  <2> HIDE DEF n, m
  <2>3. /\ j \in CallType /\ j.tool = call[c].tool /\ j.on = call[c].on /\ j.pc = "run"
        /\ j.late = m /\ j.attempt = n /\ j.approved = call[c].approved
        /\ j.gone = call[c].gone
    BY <1>1, <2>1 DEF CallType, Pc
  <2> HIDE DEF j
  <2> QED
    BY <1>1, <1>3, <2>2, <2>3 DEF Shift, Same, TriesAgain, Limit, MaxAttempts, Is, n, m
<1>4. CASE /\ late < MaxLate /\ late' = late + 1
           /\ call' = [call EXCEPT ![c].pc = "timeout", ![c].late = @ + 1]
  <2> DEFINE m == call[c].late + 1
             j == [call[c] EXCEPT !.pc = "timeout", !.late = m]
  <2>1. m \in Nat
    BY <1>1
  <2>2. call' = [call EXCEPT ![c] = j]
    BY <1>1, <1>4 DEF Inv, HostType, CallType
  <2> HIDE DEF m
  <2>3. /\ j \in CallType /\ j.tool = call[c].tool /\ j.on = call[c].on /\ j.pc = "timeout"
        /\ j.late = m /\ j.attempt = call[c].attempt /\ j.approved = call[c].approved
        /\ j.gone = call[c].gone
    BY <1>1, <2>1 DEF CallType, Pc, Ended
  <2> HIDE DEF j
  <2> QED
    BY <1>1, <1>4, <2>2, <2>3 DEF Shift, Same, TooLate, m
<1> QED
  BY <1>2, <1>3, <1>4 DEF Return

\* How opening a file changes a call: it will write text, and leave out gone.
Opens(c, text, gone) ==
  /\ late' = late /\ text \in Text /\ gone \in Text /\ c \in text
  /\ call' = [call EXCEPT ![c].pc = "empty", ![c].held = text, ![c].gone = @ \cup gone]
  /\ Is(c, "Edit") => gone \subseteq file[call[c].on] /\ text = Edited(c, gone)

\* What opening a file makes of a call.
LEMMA OpenShifts ==
  ASSUME Inv, NEW c \in Call, call[c].pc \in BodyPc, NEW text, NEW gone, Opens(c, text, gone)
  PROVE  \E j : Shift(c, j) /\ j.pc = "empty" /\ j.held = text /\ gone \subseteq j.gone
<1> DEFINE more == call[c].gone \cup gone
           j == [call[c] EXCEPT !.pc = "empty", !.held = text, !.gone = more]
<1>1. call[c] \in CallType /\ c \in Live
  BY DEF Inv, HostType, Live, BodyPc
<1>2. more \in Text
  BY <1>1 DEF Opens, Text, CallType
<1>3. call' = [call EXCEPT ![c] = j]
  BY DEF Inv, HostType, Opens
<1>4. call[c].gone \subseteq more /\ gone \subseteq more
  OBVIOUS
<1> HIDE DEF more
<1>5. /\ j \in CallType /\ j.pc = "empty" /\ j.tool = call[c].tool /\ j.on = call[c].on
      /\ j.attempt = call[c].attempt /\ j.late = call[c].late /\ j.held = text /\ j.gone = more
  BY <1>1, <1>2 DEF CallType, Pc, Opens
<1> HIDE DEF j
<1> QED
  BY <1>1, <1>3, <1>4, <1>5 DEF Shift, Same, GoesOn, Opens

\* Edit and Write open the file, or return.
LEMMA OpensOrReturns ==
  ASSUME Inv, NEW c \in Call, OpenEdit(c) \/ OpenWrite(c)
  PROVE  \/ Return(c, "not_ok") \/ Return(c, "failed")
         \/ \E text, gone : Opens(c, text, gone)
<1>1. call[c] \in CallType /\ file[call[c].on] \in Text /\ {c} \in Text /\ {} \in Text
  BY DEF Inv, HostType, WritersMayWrite, OpenEdit, OpenWrite, Is, Text
<1>2. CASE OpenWrite(c)
  <2>1. CASE call' = [call EXCEPT ![c].pc = "empty", ![c].held = {c}] /\ late' = late
    <3>1. call' = [call EXCEPT ![c].pc = "empty", ![c].held = {c}, ![c].gone = @ \cup {}]
      BY <1>1, <2>1 DEF CallType
    <3>2. Opens(c, {c}, {})
      BY <1>1, <1>2, <2>1, <3>1 DEF Opens, OpenWrite, Is
    <3> QED
      BY <3>2
  <2> QED
    BY <1>2, <2>1 DEF OpenWrite
<1>3. CASE OpenEdit(c)
  <2>1. ASSUME NEW gone \in SUBSET file[call[c].on], late' = late,
               call' = [call EXCEPT ![c].pc = "empty", ![c].held = Edited(c, gone),
                                    ![c].gone = @ \cup gone]
        PROVE  Opens(c, Edited(c, gone), gone)
    <3>1. Edited(c, gone) \in Text /\ gone \in Text /\ c \in Edited(c, gone)
      BY <1>1, <2>1 DEF Text, Edited
    <3> QED
      BY <2>1, <3>1 DEF Opens
  <2> QED
    BY <1>3, <2>1 DEF OpenEdit
<1> QED
  BY <1>2, <1>3

LEMMA DecideShifts ==
  ASSUME Inv, NEW c \in Call, Refuse(c) \/ Check(c) \/ Decide(c)
  PROVE  \E j : Shift(c, j) /\ j.pc \in {"denied", "ask", "run"}
                /\ (j.pc = "run" => Granted(c, j))
<1>1. /\ call[c] \in CallType /\ call[c].pc \in {"check", "ask"} /\ late' = late
      /\ c \in Live
  BY DEF Inv, HostType, Refuse, Check, Decide, At, bounds, Live, Ended
<1>2. ASSUME NEW pc \in {"denied", "ask"}, Goto(c, pc)
      PROVE  \E j : Shift(c, j) /\ j.pc = pc
  <2>1. pc \in Pc \ {"run", "idle"} /\ pc \notin BodyPc
    BY DEF Pc, Ended, BodyPc
  <2> QED
    BY <1>1, <1>2, <2>1, GotoShifts
<1> DEFINE Admitted(a) == [call[c] EXCEPT !.pc = "run", !.attempt = 1, !.approved = a]
<1>3. ASSUME NEW a \in BOOLEAN, call' = [call EXCEPT ![c] = Admitted(a)]
      PROVE  \E j : Shift(c, j) /\ j.pc = "run" /\ Granted(c, j)
  <2> DEFINE j == Admitted(a)
  <2>1. /\ j \in CallType /\ j.pc = "run" /\ j.tool = call[c].tool /\ j.on = call[c].on
        /\ j.attempt = 1 /\ j.late = call[c].late /\ j.gone = call[c].gone
    BY <1>1, <1>3 DEF CallType, Pc
  <2> HIDE DEF j, Admitted
  <2>2. call' = [call EXCEPT ![c] = j]
    BY <1>3 DEF j
  <2> QED
    BY <1>1, <2>1, <2>2 DEF Shift, Same, Granted
<1>4. \/ Goto(c, "denied") \/ Goto(c, "ask")
      \/ call' = [call EXCEPT ![c] = Admitted(call[c].approved)]
      \/ call' = [call EXCEPT ![c] = Admitted(TRUE)]
  <2>1. [call[c] EXCEPT !.pc = "run", !.attempt = 1] = Admitted(call[c].approved)
    BY <1>1 DEF CallType
  <2>2. \/ Goto(c, "denied") \/ Goto(c, "ask")
        \/ call' = [call EXCEPT ![c] = [call[c] EXCEPT !.pc = "run", !.attempt = 1]]
        \/ call' = [call EXCEPT ![c] = Admitted(TRUE)]
    BY DEF Refuse, Check, Decide, Goto, Try, Inv, HostType
  <2> QED
    BY <2>1, <2>2
<1>5. call[c].approved \in BOOLEAN
  BY <1>1 DEF CallType
<1> HIDE DEF Admitted
<1> QED
  BY <1>2, <1>3, <1>4, <1>5

\* The tool works on, in the place it is in.
LEMMA BodyShifts ==
  ASSUME Inv, NEW c \in Call, call[c].pc \in BodyPc,
         NEW pc \in BodyPc \ {"run"}, Goto(c, pc), late' = late
  PROVE  \E j : Shift(c, j) /\ j.pc = pc /\ j.held = call[c].held /\ j.approved = call[c].approved
<1>1. c \in Live /\ pc \in Pc \ {"run", "idle"}
  BY DEF Live, BodyPc, Ended
<1> QED
  BY <1>1, GotoShifts

LEMMA FailureShifts ==
  ASSUME Inv, NEW c \in Call, FileSystemFails(c)
  PROVE  \E j : Shift(c, j) /\ j.pc = "failed"
<1>1. /\ c \in Live /\ "failed" \in Pc \ {"run", "idle"} /\ "failed" \notin BodyPc
      /\ Goto(c, "failed") /\ late' = late
  BY DEF FileSystemFails, Live, Pc, Ended, BodyPc
<1> QED
  BY <1>1, GotoShifts

LEMMA StepShifts ==
  ASSUME Inv, NEW c \in Call, Step(c) \/ Decide(c) \/ FileSystemFails(c)
  PROVE  /\ \E j : Shift(c, j)
         /\ \/ executed' = executed
            \/ /\ At(c, "run") /\ Is(c, "Remote")
               /\ executed' = [executed EXCEPT ![c] = @ + 1]
<1>1. CASE Refuse(c) \/ Check(c) \/ Decide(c)
  BY <1>1, DecideShifts DEF Refuse, Check, Decide, work
<1>2. CASE FileSystemFails(c)
  BY <1>2, FailureShifts DEF FileSystemFails
<1>3. CASE ReadFile(c) \/ Execute(c) \/ List(c) \/ LookForOld(c) \/ Backup(c) \/ Publish(c)
             \/ OpenTemp(c) \/ FillTemp(c) \/ Rename(c) \/ EmptyFile(c) \/ FillFile(c)
  <2>1. call[c].pc \in BodyPc
    BY <1>3 DEF ReadFile, Execute, List, LookForOld, Backup, Publish, OpenTemp, FillTemp, Rename,
       EmptyFile, FillFile, At, BodyPc, Pc, Ended
  <2>2. \/ Return(c, "ok") \/ Return(c, "failed")
        \/ late' = late /\ \E pc \in {"staged", "backup", "publish", "record", "fill", "rename"} : Goto(c, pc)
    BY <1>3 DEF ReadFile, Execute, List, LookForOld, Backup, Publish, OpenTemp, FillTemp, Rename,
       EmptyFile, FillFile
  <2>3. {"staged", "backup", "publish", "record", "fill", "rename"} \subseteq BodyPc \ {"run"}
    BY DEF BodyPc, Pc, Ended
  <2>4. \E j : Shift(c, j)
    BY <2>1, <2>2, <2>3, ReturnShifts, BodyShifts
  <2> QED
    BY <1>3, <2>4 DEF ReadFile, Execute, List, LookForOld, Backup, Publish, OpenTemp, FillTemp,
       Rename, EmptyFile, FillFile, work
<1>4. CASE OpenEdit(c) \/ OpenWrite(c)
  <2>1. /\ call[c].pc \in BodyPc /\ call[c].tool \in {"Edit", "Write"} /\ executed' = executed
    BY <1>4 DEF OpenEdit, OpenWrite, At, Is, BodyPc, Pc, Ended, work
  <2>2. ASSUME NEW outcome \in {"not_ok", "failed"}, Return(c, outcome)
        PROVE  \E j : Shift(c, j)
    BY <2>1, <2>2, ReturnShifts
  <2> QED
    BY <1>4, <2>1, <2>2, OpensOrReturns, OpenShifts
<1> QED
  BY <1>1, <1>2, <1>3, <1>4 DEF Step

-----------------------------------------------------------------------------
(* The bounds are kept.                                                    *)

LEMMA LiveIsFinite == IsFiniteSet(Live) /\ Cardinality(Live) \in Nat
<1>1. IsFiniteSet(1 .. MaxCalls)
  BY HostAssumption, FS_Interval
<1>2. Live \subseteq 1 .. MaxCalls
  BY DEF Live, Call
<1>3. IsFiniteSet(Live)
  BY <1>1, <1>2, FS_Subset
<1> QED
  BY <1>3, FS_CardinalityType

LEMMA FewerLive ==
  ASSUME Cardinality(Live) <= Width, Live' \subseteq Live
  PROVE  Cardinality(Live)' <= Width
<1>1. IsFiniteSet(Live') /\ Cardinality(Live') <= Cardinality(Live)
  BY LiveIsFinite, FS_Subset
<1>2. Cardinality(Live') \in Nat
  BY <1>1, FS_CardinalityType
<1> QED
  BY <1>1, <1>2, LiveIsFinite, HostAssumption

LEMMA InitBounds == Init => BoundsInv
<1> SUFFICES ASSUME Init PROVE BoundsInv
  OBVIOUS
<1>1. \A c \in Call : call[c] = Fresh
  BY DEF Init
<1>2. Live = {}
  BY <1>1 DEF Live, Ended, Fresh
<1>3. Cardinality(Live) <= Width
  BY <1>2, FS_EmptySet, HostAssumption
<1>4. \A c \in Call : Counted(call[c], executed[c]) /\ call[c].late <= late
  BY <1>1 DEF Init, Counted, Fresh, Limit, BodyPc, Ended
<1>5. skill \in Store
  BY DEF Init, NoSkill, Store
<1> QED
  BY <1>3, <1>4, <1>5, HostAssumption DEF Init, BoundsInv

LEMMA ShiftCounts ==
  ASSUME Inv, BoundsInv, NEW c \in Call, NEW j, Shift(c, j),
         \/ executed' = executed
         \/ /\ At(c, "run") /\ Is(c, "Remote")
            /\ executed' = [executed EXCEPT ![c] = @ + 1]
  PROVE  /\ late' <= MaxLate /\ Live' \subseteq Live
         /\ \A d \in Call : Counted(call[d], executed[d])' /\ (call[d].late <= late)'
<1>1. /\ call[c] \in CallType /\ call \in [Call -> CallType] /\ late \in Nat
      /\ executed \in [Call -> Nat] /\ late <= MaxLate /\ MaxLate \in Nat
      /\ \A d \in Call : call[d].late <= late /\ call[d].late \in Nat
      /\ Counted(call[c], executed[c])
      /\ call[c].pc \in NotBegun => executed[c] = 0
  BY HostAssumption DEF Inv, HostType, CallType, BoundsInv, AttemptsAreCounted
<1>2. call'[c] = j /\ \A d \in Call \ {c} : call'[d] = call[d]
  BY <1>1 DEF Shift, Same
<1>3. Live' \subseteq Live
  BY <1>2 DEF Live, Shift, Same
<1>4. late' <= MaxLate /\ late' \in Nat /\ late <= late' /\ j.late <= late'
  BY <1>1 DEF Shift, Granted, GoesOn, TriesAgain, TooLate
<1>5. Counted(j, executed'[c])
  <2>1. /\ j.tool = call[c].tool /\ j.attempt \in Nat /\ call[c].attempt \in Nat
        /\ executed[c] \in Nat
    BY <1>1 DEF Shift, Same, CallType
  <2>2. \/ executed'[c] = executed[c]
        \/ At(c, "run") /\ Is(c, "Remote") /\ executed'[c] = executed[c] + 1
    BY <1>1
  <2>3. CASE Granted(c, j)
    BY <1>1, <2>1, <2>2, <2>3 DEF Granted, Counted, Limit, NotBegun, At
  <2>4. CASE GoesOn(c, j) \/ TooLate(c, j)
    BY <1>1, <2>1, <2>2, <2>4 DEF GoesOn, TooLate, Counted, Limit, At, Is, BodyPc, Ended
  <2>5. CASE TriesAgain(c, j)
    BY <1>1, <2>1, <2>2, <2>5 DEF TriesAgain, Counted, Limit, At, Is
  <2> QED
    BY <2>3, <2>4, <2>5 DEF Shift
<1>6. ASSUME NEW d \in Call \ {c} PROVE executed'[d] = executed[d]
  BY <1>1
<1>7. ASSUME NEW d \in Call PROVE Counted(call'[d], executed'[d]) /\ call'[d].late <= late'
  <2>1. CASE d = c
    BY <1>2, <1>4, <1>5, <2>1
  <2>2. CASE d # c
    <3>1. Counted(call[d], executed[d]) /\ call[d].late <= late /\ call[d].late \in Nat
      BY <1>1 DEF BoundsInv
    <3> QED
      BY <1>1, <1>2, <1>4, <1>6, <2>2, <3>1
  <2> QED
    BY <2>1, <2>2
<1>8. \A d \in Call : Counted(call[d], executed[d])' <=> Counted(call'[d], executed'[d])
  BY DEF Counted, Limit
<1> QED
  BY <1>3, <1>4, <1>7, <1>8

SkillTypeOK == skill \in Store /\ handle \in [Call -> {"none", "temp", "record", "gone"}]

\* What the file system holds keeps its type.
LEMMA StoreKeepsType ==
  ASSUME Inv, BoundsInv, NEW c \in Call, Step(c) \/ Decide(c) \/ FileSystemFails(c)
  PROVE  SkillTypeOK' /\ published' \subseteq Source
<1>1. /\ skill \in Store /\ handle \in [Call -> {"none", "temp", "record", "gone"}]
      /\ published \subseteq Source
  BY DEF BoundsInv
<1>2. CASE UNCHANGED << skill, handle, published >>
  BY <1>1, <1>2 DEF SkillTypeOK
<1>3. CASE FileSystemFails(c)
  BY <1>1, <1>3 DEF FileSystemFails, SkillTypeOK, history
<1>4. CASE Backup(c)
  <2>1. /\ handle' = handle /\ published' = published
        /\ skill' = skill \/ (skill.dir # None /\ skill' = MoveAway(skill))
    BY <1>4 DEF Backup
  <2> DEFINE kept == skill.backups \cup {skill.dir}
             moved == [skill EXCEPT !.dir = None, !.backups = kept]
  <2>2. skill.dir # None => kept \in SUBSET Source
    BY <1>1 DEF Store
  <2>3. MoveAway(skill) = moved
    BY <1>1 DEF MoveAway, Store
  <2> HIDE DEF kept
  <2>4. kept \in SUBSET Source => moved \in Store
    BY <1>1 DEF Store
  <2> HIDE DEF moved
  <2> QED
    BY <1>1, <2>1, <2>2, <2>3, <2>4 DEF SkillTypeOK
<1>5. call[c].pc \in InstallPc \/ (At(c, "fill") /\ Is(c, "Install"))
        => call[c].on \in Source
  BY DEF Inv, WritersMayWrite, MayStandAt, Is
<1>6. CASE Publish(c)
  <2>1. call[c].on \in Source
    BY <1>5, <1>6 DEF Publish, At, InstallPc
  <2>2. /\ handle' = handle
        /\ \/ skill' = skill /\ published' = published
           \/ skill' = MoveIn(skill, call[c].on) /\ published' = published \cup {call[c].on}
    BY <1>6 DEF Publish
  <2>3. MoveIn(skill, call[c].on) \in Store
    BY <1>1, <2>1 DEF MoveIn, Store
  <2> QED
    BY <1>1, <2>1, <2>2, <2>3 DEF SkillTypeOK
<1>7. CASE OpenTemp(c)
  BY <1>1, <1>7 DEF OpenTemp, CreateTemp, Store, SkillTypeOK
<1>8. CASE FillTemp(c)
  <2>1. call[c].on \in Source
    BY <1>5, <1>8 DEF FillTemp
  <2>2. \A old : Written(old, call[c].on) \subseteq Source \cup {None, Torn}
    BY <2>1 DEF Written
  <2>3. \/ skill' = skill
        \/ \E t \in Source \cup {None, Torn} :
             skill' = [skill EXCEPT !.temp = t] \/ skill' = [skill EXCEPT !.record = t]
    BY <1>8, <2>2 DEF FillTemp
  <2> QED
    BY <1>1, <1>8, <2>3 DEF FillTemp, Store, SkillTypeOK
<1>9. CASE Rename(c)
  <2>1. [[d \in Call |-> Moved(handle[d])] EXCEPT ![c] = "none"]
          \in [Call -> {"none", "temp", "record", "gone"}]
    <3>1. \A d \in Call : Moved(handle[d]) \in {"none", "temp", "record", "gone"}
      BY <1>1 DEF Moved
    <3> QED
      BY <3>1
  <2>2. /\ published' = published
        /\ \/ UNCHANGED << skill, handle >>
           \/ /\ skill' = RenameTemp(skill)
              /\ handle' = [[d \in Call |-> Moved(handle[d])] EXCEPT ![c] = "none"]
    BY <1>9 DEF Rename
  <2>3. RenameTemp(skill) \in Store
    BY <1>1 DEF RenameTemp, Store
  <2> QED
    BY <1>1, <2>1, <2>2, <2>3 DEF SkillTypeOK
<1> QED
  BY <1>2, <1>3, <1>4, <1>6, <1>7, <1>8, <1>9
     DEF Step, Refuse, Check, Decide, ReadFile, OpenEdit, OpenWrite, EmptyFile, FillFile,
         Execute, List, LookForOld, work, history, Kept

LEMMA StepBounds ==
  ASSUME Inv, BoundsInv, NEW c \in Call, Step(c) \/ Decide(c) \/ FileSystemFails(c)
  PROVE  BoundsInv'
<1>1. PICK j : Shift(c, j)
  BY StepShifts
<1>2. /\ late' <= MaxLate /\ Live' \subseteq Live
      /\ \A d \in Call : Counted(call[d], executed[d])' /\ (call[d].late <= late)'
  BY <1>1, StepShifts, ShiftCounts
<1>3. Cardinality(Live)' <= Width
  BY <1>2, FewerLive DEF BoundsInv
<1>4. raced' = raced
  BY DEF Step, Refuse, Check, Decide, FileSystemFails, ReadFile, OpenEdit, OpenWrite, EmptyFile,
     FillFile, Execute, List, LookForOld, Backup, Publish, OpenTemp, FillTemp, Rename,
     history, Kept
<1>5. failures' \in Nat /\ crashes' \in Nat /\ failures' + crashes' <= MaxFailures
  <2>1. /\ failures \in Nat /\ crashes \in Nat /\ MaxFailures \in Nat
        /\ failures + crashes <= MaxFailures
    BY HostAssumption DEF BoundsInv
  <2>2. \/ failures' = failures /\ crashes' = crashes
        \/ failures + crashes < MaxFailures /\ failures' = failures + 1 /\ crashes' = crashes
    BY DEF Step, Refuse, Check, Decide, FileSystemFails, ReadFile, OpenEdit, OpenWrite, EmptyFile,
       FillFile, Execute, List, LookForOld, Backup, Publish, OpenTemp, FillTemp, Rename,
       bounds, Kept
  <2> QED
    BY <2>1, <2>2
<1> QED
  BY <1>2, <1>3, <1>4, <1>5, StoreKeepsType DEF BoundsInv, SkillTypeOK

LEMMA BeginBounds ==
  ASSUME Inv, BoundsInv, NEW tool \in Tool, NEW on \in Targets(tool), Begin(tool, on)
  PROVE  BoundsInv'
<1> DEFINE b == begun + 1
           j == [Fresh EXCEPT !.tool = tool, !.on = on, !.pc = "check"]
<1>1. /\ b \in Call /\ b > begun /\ call' = [call EXCEPT ![b] = j]
      /\ Cardinality(Live) < Width
      /\ UNCHANGED << file, executed, late, skill, handle, failures, crashes, published >>
  BY HostAssumption DEF Begin, Inv, HostType, Call, work, bounds
<1>2. executed[b] = 0
  BY <1>1 DEF Inv, AttemptsAreCounted, At, NotBegun
<1>3. /\ call'[b] = j /\ \A d \in Call \ {b} : call'[d] = call[d]
  BY <1>1 DEF Inv, HostType
<1>4. j.attempt = 0 /\ j.late = 0 /\ j.pc = "check"
  BY DEF Fresh
<1>5. late \in Nat
  BY DEF Inv, HostType
<1> HIDE DEF b, j
<1>6. ASSUME NEW d \in Call PROVE Counted(call[d], executed[d])' /\ (call[d].late <= late)'
  <2>1. CASE d = b
    BY <1>1, <1>2, <1>3, <1>4, <1>5, <2>1 DEF Counted, Limit, BodyPc
  <2>2. CASE d # b
    BY <1>1, <1>3, <2>2 DEF BoundsInv, Counted, Limit
  <2> QED
    BY <2>1, <2>2
<1>7. Cardinality(Live)' <= Width
  <2>1. Live' \subseteq Live \cup {b}
    BY <1>1, <1>3 DEF Live
  <2>2. /\ IsFiniteSet(Live \cup {b}) /\ Cardinality(Live \cup {b}) <= Cardinality(Live) + 1
        /\ Cardinality(Live \cup {b}) \in Nat
    <3>1. /\ IsFiniteSet(Live \cup {b})
          /\ Cardinality(Live \cup {b})
               = IF b \in Live THEN Cardinality(Live) ELSE Cardinality(Live) + 1
      BY LiveIsFinite, FS_AddElement
    <3> QED
      BY <3>1, LiveIsFinite
  <2>3. /\ IsFiniteSet(Live') /\ Cardinality(Live') <= Cardinality(Live \cup {b})
    BY <2>1, <2>2, FS_Subset
  <2>4. Cardinality(Live') \in Nat
    BY <2>3, FS_CardinalityType
  <2> QED
    BY <1>1, <2>2, <2>3, <2>4, LiveIsFinite, HostAssumption
<1>8. raced' \subseteq File \cup Source
  <2>1. ASSUME NEW c \in Live, Shares(c, tool, on)
        PROVE  {on, call[c].on} \subseteq File \cup Source
    BY <2>1 DEF Shares, Is, Inv, WritersMayWrite, Live, Targets
  <2> QED
    BY <2>1 DEF Begin, BoundsInv
<1> QED
  BY <1>1, <1>6, <1>7, <1>8 DEF BoundsInv

LEMMA CrashBounds == Inv /\ BoundsInv /\ Crash => BoundsInv'
<1> SUFFICES ASSUME Inv, BoundsInv, Crash PROVE BoundsInv'
  OBVIOUS
<1>1. /\ UNCHANGED << executed, skill, failures, late, raced, published >>
      /\ failures + crashes < MaxFailures /\ crashes' = crashes + 1
      /\ handle' = [c \in Call |-> "none"]
  BY DEF Crash, history
<1>2. ASSUME NEW c \in Call
      PROVE  /\ call'[c].attempt = call[c].attempt /\ call'[c].late = call[c].late
             /\ call'[c].tool = call[c].tool
             /\ call'[c].pc = call[c].pc \/ call'[c].pc = "lost"
             /\ c \in Live' => c \in Live
  <2>1. call[c] \in CallType
    BY DEF Inv, HostType
  <2>2. \/ call'[c] = call[c]
        \/ call'[c] = [call[c] EXCEPT !.pc = "lost"]
    BY DEF Crash
  <2> QED
    BY <2>1, <2>2 DEF CallType, Live, Ended
<1>3. Live' \subseteq Live
  BY <1>2 DEF Live
<1>4. \A c \in Call : Counted(call[c], executed[c])' /\ (call[c].late <= late)'
  BY <1>1, <1>2 DEF BoundsInv, Counted, Limit, BodyPc, Ended
<1>5. crashes' \in Nat /\ failures' + crashes' <= MaxFailures
  BY <1>1, HostAssumption DEF BoundsInv
<1> QED
  BY <1>1, <1>3, <1>4, <1>5, FewerLive DEF BoundsInv

LEMMA NextBounds == Inv /\ BoundsInv /\ [Next]_vars => BoundsInv'
<1> SUFFICES ASSUME Inv, BoundsInv, [Next]_vars PROVE BoundsInv'
  OBVIOUS
<1>1. CASE UNCHANGED vars
  BY <1>1 DEF vars, work, bounds, history, BoundsInv, Live, Counted, Limit
<1>2. CASE Next
  BY <1>2, BeginBounds, StepBounds, CrashBounds DEF Next
<1> QED
  BY <1>1, <1>2

LEMMA BoundsGiveTypes == Inv /\ BoundsInv => TypeOK
<1> SUFFICES ASSUME Inv, BoundsInv PROVE TypeOK
  OBVIOUS
<1>1. MaxLate \in Nat /\ late \in 0 .. MaxLate /\ {failures, crashes} \subseteq 0 .. MaxFailures
  BY HostAssumption DEF BoundsInv, Inv, HostType
<1>2. ASSUME NEW c \in Call
      PROVE  /\ call[c] \in [tool : Tool, on : File \cup Source \cup {None}, pc : Pc,
                             attempt : 0 .. 2, late : 0 .. MaxLate, approved : BOOLEAN,
                             held : Text, gone : Text]
             /\ executed[c] \in 0 .. 2
  <2>1. /\ call[c] \in CallType /\ executed[c] \in Nat
        /\ Counted(call[c], executed[c]) /\ call[c].late <= late
    BY DEF Inv, HostType, BoundsInv
  <2>2. /\ call[c].attempt \in 0 .. 2 /\ call[c].late \in 0 .. MaxLate
        /\ executed[c] \in 0 .. 2
    BY <1>1, <2>1 DEF Counted, Limit, CallType
  <2> QED
    BY <2>1, <2>2 DEF CallType
<1>3. /\ call \in [Call -> CallType] /\ executed \in [Call -> Nat]
      /\ begun \in 0 .. MaxCalls /\ file \in [File -> Text]
  BY DEF Inv, HostType
<1> QED
  BY <1>1, <1>2, <1>3 DEF TypeOK, BoundsInv

-----------------------------------------------------------------------------
(* The record of a skill.                                                  *)

LatePc == {"publish", "record", "fill", "rename"}

LEMMA InitRecord == Init => RecordInv
<1> SUFFICES ASSUME Init PROVE RecordInv
  OBVIOUS
<1>1. Installers = {}
  BY DEF Init, Installers, Live, Fresh, Ended
<1> QED
  BY <1>1, SourceAssumption DEF Init, RecordInv, NoSkill

\* A step of a call that is no installation, or is not that far yet.
LEMMA QuietStep ==
  ASSUME Inv, RecordInv, NEW c \in Call, NEW j, Shift(c, j),
         UNCHANGED << skill, handle, raced, failures, crashes >>,
         \/ ~ Is(c, "Install")
         \/ call[c].pc \notin LatePc /\ j.pc \notin LatePc \cup {"backup"}
  PROVE  RecordInv'
<1>1. /\ call'[c] = j /\ j.tool = call[c].tool /\ c \in Live
      /\ \A d \in Call \ {c} : call'[d] = call[d]
  BY DEF Shift, Same, Inv, HostType
<1>2. Installers' \subseteq Installers
  BY <1>1 DEF Installers, Live, Is
<1>3. Replacing \subseteq Replacing'
  BY <1>1 DEF Replacing, Installers, Live, Is, LatePc, Ended
<1>4. ASSUME NEW d \in Installers', Knows(d) PROVE Knows(d)'
  <2>1. d \in Call
    BY DEF Installers, Live
  <2>2. CASE d # c
    BY <1>1, <1>4, <2>1, <2>2 DEF Knows, At
  <2>3. CASE d = c
    BY <1>1, <2>3 DEF Knows, At, Installers, Is, LatePc
  <2> QED
    BY <2>2, <2>3
<1> QED
  BY <1>2, <1>3, <1>4 DEF RecordInv, Undisturbed

\* The next step of the only installation there is.
LEMMA OnlyInstaller ==
  ASSUME Inv, RecordInv, NEW c \in Installers, NEW j, Shift(c, j),
         UNCHANGED << raced, failures, crashes >>,
         raced \cap Source = {} =>
           /\ skill'.record # Torn
           /\ c \in Installers' => Knows(c)'
           /\ Undisturbed => (j.pc \in LatePc) \/ skill'.record \in {None, skill'.dir}
  PROVE  RecordInv'
<1>1. /\ call'[c] = j /\ j.tool = call[c].tool /\ c \in Live /\ c \in Call
      /\ \A d \in Call \ {c} : call'[d] = call[d]
  BY DEF Shift, Same, Inv, HostType, Live
<1>2. Installers' \subseteq Installers
  BY <1>1 DEF Installers, Live, Is
<1>3. j.pc \in LatePc => c \in Replacing'
  BY <1>1 DEF Replacing, Installers, Live, Is, LatePc, Ended
<1>4. raced \cap Source = {} => \A d \in Installers : d = c
  BY DEF RecordInv
<1> QED
  BY <1>2, <1>3, <1>4 DEF RecordInv, Undisturbed

LEMMA InstallRecord ==
  ASSUME Inv, BoundsInv, RecordInv, NEW c \in Call,
         LookForOld(c) \/ Backup(c) \/ Publish(c) \/ OpenTemp(c) \/ FillTemp(c) \/ Rename(c)
  PROVE  RecordInv'
<1>1. /\ call[c].pc \in BodyPc /\ c \in Installers
      /\ UNCHANGED << raced, failures, crashes >>
  BY DEF LookForOld, Backup, Publish, OpenTemp, FillTemp, Rename, At, Is, Kept, BodyPc, Pc, Ended,
     Installers, Live, Inv, WritersMayWrite, MayStandAt, InstallPc
<1>2. skill \in Store /\ raced \cap Source = {} => Knows(c) /\ skill.record # Torn
  BY <1>1 DEF RecordInv, BoundsInv
<1>3. handle \in [Call -> {"none", "temp", "record", "gone"}] /\ skill \in Store
  BY DEF BoundsInv
<1>4. call[c].on \in Source
  BY <1>1 DEF Installers, Inv, WritersMayWrite, Is
<1>5. CASE LookForOld(c)
  <2>1. PICK pc \in {"publish", "backup"} :
          /\ Goto(c, pc) /\ UNCHANGED << skill, handle, late >>
          /\ pc = "publish" <=> skill.dir = None
    BY <1>5 DEF LookForOld, work
  <2>2. PICK j : Shift(c, j) /\ j.pc = pc
    BY <1>1, <2>1, BodyShifts DEF BodyPc, Pc, Ended
  <2>3. call'[c] = j /\ call[c].pc = "staged"
    BY <1>5, <2>2 DEF Shift, Same, Inv, HostType, LookForOld, At
  <2>4. Knows(c)'
    BY <2>1, <2>2, <2>3 DEF Knows, At
  <2>5. raced \cap Source = {} => Replacing = {}
    BY <1>1, <2>3 DEF RecordInv, Replacing
  <2> QED
    BY <1>1, <2>1, <2>2, <2>4, <2>5, OnlyInstaller DEF RecordInv, LatePc
<1>6. CASE Backup(c)
  <2>1. CASE raced \cap Source = {}
    <3>1. skill.dir # None
      BY <1>2, <1>3, <1>6, <2>1 DEF Backup, Knows
    <3>2. Goto(c, "publish") /\ skill' = MoveAway(skill) /\ late' = late /\ handle' = handle
      BY <1>6, <3>1 DEF Backup
    <3>3. PICK j : Shift(c, j) /\ j.pc = "publish"
      BY <1>1, <3>2, BodyShifts DEF BodyPc, Pc, Ended
    <3>4. call'[c] = j
      BY <3>3 DEF Shift, Same, Inv, HostType
    <3>5. skill'.record = skill.record /\ skill'.dir = None
      BY <1>3, <3>2 DEF MoveAway, Store
    <3> QED
      BY <1>1, <1>2, <1>3, <3>3, <3>4, <3>5, OnlyInstaller DEF Knows, At, LatePc
  <2>2. CASE raced \cap Source # {}
    BY <1>1, <2>2 DEF RecordInv
  <2> QED
    BY <2>1, <2>2
<1>7. CASE Publish(c)
  <2>1. CASE raced \cap Source = {}
    <3>1. skill.dir = None
      BY <1>2, <1>3, <1>7, <2>1 DEF Publish, Knows
    <3>2. Goto(c, "record") /\ skill' = MoveIn(skill, call[c].on) /\ late' = late /\ handle' = handle
      BY <1>7, <3>1 DEF Publish
    <3>3. PICK j : Shift(c, j) /\ j.pc = "record"
      BY <1>1, <3>2, BodyShifts DEF BodyPc, Pc, Ended
    <3>4. call'[c] = j /\ j.on = call[c].on
      BY <3>3 DEF Shift, Same, Inv, HostType
    <3>5. skill'.record = skill.record /\ skill'.dir = call[c].on
      BY <1>3, <3>2 DEF MoveIn, Store
    <3> QED
      BY <1>1, <1>2, <1>3, <3>3, <3>4, <3>5, OnlyInstaller DEF Knows, At, LatePc
  <2>2. CASE raced \cap Source # {}
    BY <1>1, <2>2 DEF RecordInv
  <2> QED
    BY <2>1, <2>2
<1>8. CASE OpenTemp(c)
  <2>1. /\ Goto(c, "fill") /\ skill' = CreateTemp(skill) /\ late' = late /\ At(c, "record")
        /\ handle' = [handle EXCEPT ![c] = "temp"]
    BY <1>8 DEF OpenTemp
  <2>2. PICK j : Shift(c, j) /\ j.pc = "fill"
    BY <1>1, <2>1, BodyShifts DEF BodyPc, Pc, Ended
  <2>3. call'[c] = j /\ j.on = call[c].on
    BY <2>2 DEF Shift, Same, Inv, HostType
  <2>4. skill'.record = skill.record /\ skill'.dir = skill.dir /\ skill'.temp = Torn
        /\ handle'[c] = "temp"
    BY <1>3, <2>1 DEF CreateTemp, Store
  <2> QED
    BY <1>1, <1>2, <1>3, <2>1, <2>2, <2>3, <2>4, OnlyInstaller DEF Knows, At, LatePc
<1>9. CASE FillTemp(c)
  <2>1. CASE raced \cap Source = {}
    <3>1. handle[c] = "temp" /\ skill.temp = Torn /\ skill.dir = call[c].on
      BY <1>2, <1>3, <1>9, <2>1 DEF FillTemp, Knows, At
    <3>2. /\ Goto(c, "rename") /\ late' = late
          /\ skill' = [skill EXCEPT !.temp = call[c].on]
      BY <1>9, <3>1 DEF FillTemp, Written
    <3>3. PICK j : Shift(c, j) /\ j.pc = "rename"
      BY <1>1, <3>2, BodyShifts DEF BodyPc, Pc, Ended
    <3>4. call'[c] = j /\ j.on = call[c].on
      BY <3>3 DEF Shift, Same, Inv, HostType
    <3>5. skill'.record = skill.record /\ skill'.dir = skill.dir /\ skill'.temp = call[c].on
      BY <1>3, <3>2 DEF Store
    <3> QED
      BY <1>1, <1>2, <1>3, <3>1, <3>3, <3>4, <3>5, OnlyInstaller DEF Knows, At, LatePc
  <2>2. CASE raced \cap Source # {}
    BY <1>1, <2>2 DEF RecordInv
  <2> QED
    BY <2>1, <2>2
<1>10. CASE Rename(c)
  <2>1. CASE raced \cap Source = {}
    <3>1. skill.temp = call[c].on /\ skill.dir = call[c].on
      BY <1>2, <1>3, <1>10, <2>1 DEF Rename, Knows, At
    <3>2. Return(c, "ok") /\ skill' = RenameTemp(skill)
      BY <1>4, <1>10, <3>1, SourceAssumption DEF Rename
    <3>3. PICK j : Shift(c, j) /\ j.pc \in {"ok", "timeout", "run"}
      BY <1>1, <3>2, ReturnShifts
    <3>4. call'[c] = j
      BY <3>3 DEF Shift, Same, Inv, HostType
    <3>5. skill'.record = call[c].on /\ skill'.dir = call[c].on
      BY <1>3, <3>1, <3>2 DEF RenameTemp, Store
    <3>6. Knows(c)'
      BY <3>3, <3>4 DEF Knows, At
    <3> QED
      BY <1>1, <1>4, <3>3, <3>5, <3>6, SourceAssumption, OnlyInstaller
  <2>2. CASE raced \cap Source # {}
    BY <1>1, <2>2 DEF RecordInv
  <2> QED
    BY <2>1, <2>2
<1> QED
  BY <1>5, <1>6, <1>7, <1>8, <1>9, <1>10

LEMMA OtherRecord ==
  ASSUME Inv, RecordInv, NEW c \in Call,
         \/ Refuse(c) \/ Check(c) \/ Decide(c) \/ ReadFile(c) \/ OpenEdit(c) \/ OpenWrite(c)
         \/ EmptyFile(c) \/ FillFile(c) \/ Execute(c) \/ List(c)
  PROVE  RecordInv'
<1>1. UNCHANGED << skill, handle, raced, failures, crashes >>
  BY DEF Refuse, Check, Decide, ReadFile, OpenEdit, OpenWrite, EmptyFile, FillFile, Execute, List,
     work, bounds, history, Kept
<1>2. CASE ~ Is(c, "Install")
  BY <1>1, <1>2, StepShifts, QuietStep DEF Step
<1>3. CASE Refuse(c) \/ Check(c) \/ Decide(c)
  <2>1. PICK j : Shift(c, j) /\ j.pc \in {"denied", "ask", "run"}
    BY <1>3, DecideShifts
  <2>2. call[c].pc \notin LatePc
    BY <1>3 DEF Refuse, Check, Decide, At, LatePc
  <2> QED
    BY <1>1, <2>1, <2>2, QuietStep DEF LatePc
<1>4. CASE List(c)
  <2>1. call[c].pc = "run" /\ call[c].pc \in BodyPc
    BY <1>4 DEF List, At, BodyPc, Pc, Ended
  <2>2. CASE Return(c, "ok") \/ Return(c, "failed")
    <3>1. PICK j : Shift(c, j) /\ j.pc \in {"ok", "failed", "timeout", "run"}
      BY <2>1, <2>2, ReturnShifts
    <3> QED
      BY <1>1, <2>1, <3>1, QuietStep DEF LatePc
  <2>3. CASE Goto(c, "staged") /\ late' = late
    <3>1. PICK j : Shift(c, j) /\ j.pc = "staged"
      BY <2>1, <2>3, BodyShifts DEF BodyPc, Pc, Ended
    <3> QED
      BY <1>1, <2>1, <3>1, QuietStep DEF LatePc
  <2> QED
    BY <1>4, <2>2, <2>3 DEF List
<1>5. CASE EmptyFile(c)
  BY <1>2, <1>5 DEF EmptyFile, At, Inv, WritersMayWrite, MayStandAt, Writes, Is
<1> QED
  BY <1>2, <1>3, <1>4, <1>5 DEF ReadFile, OpenEdit, OpenWrite, FillFile, Execute, Is

LEMMA BeginRecord ==
  ASSUME Inv, RecordInv, NEW tool \in Tool, NEW on \in Targets(tool), Begin(tool, on)
  PROVE  RecordInv'
<1> DEFINE j == [Fresh EXCEPT !.tool = tool, !.on = on, !.pc = "check"]
<1>0. PICK b : b = begun + 1
  OBVIOUS
<1>1. /\ b \in Call /\ b > begun /\ call' = [call EXCEPT ![b] = j]
      /\ UNCHANGED << skill, handle, failures, crashes >> /\ raced \subseteq raced'
  BY <1>0, HostAssumption DEF Begin, Inv, HostType, Call, work, bounds
<1>2. /\ call'[b] = j /\ \A d \in Call \ {b} : call'[d] = call[d]
  BY <1>1 DEF Inv, HostType
<1>3. j.tool = tool /\ j.pc = "check"
  BY DEF Fresh
<1>4. At(b, "idle")
  BY <1>1 DEF Inv, AttemptsAreCounted
<1> HIDE DEF j
<1>5. Replacing \subseteq Replacing'
  BY <1>1, <1>2, <1>4 DEF Replacing, Installers, Live, Is, At
<1>6. Installers' \subseteq Installers \cup {b}
  BY <1>1, <1>2 DEF Installers, Live, Is
<1>7. CASE tool = "Install" /\ Installers # {}
  <2>1. PICK d \in Installers : TRUE
    BY <1>7
  <2>2. d \in Live /\ Shares(d, tool, on) /\ on \in Source
    BY <1>7, <2>1 DEF Installers, Shares, Targets
  <2>3. on \in raced'
    BY <2>2 DEF Begin
  <2> QED
    BY <2>2, <2>3 DEF RecordInv
<1>8. CASE ~ (tool = "Install" /\ Installers # {})
  <2>1. \/ Installers' \subseteq Installers
        \/ Installers = {} /\ Installers' \subseteq {b}
    BY <1>2, <1>3, <1>6, <1>8 DEF Installers, Is
  <2>2. Knows(b)'
    BY <1>2, <1>3 DEF Knows, At
  <2>3. ASSUME NEW d \in Installers', Knows(d), d # b PROVE Knows(d)'
    BY <1>1, <1>2, <2>3 DEF Knows, At, Installers, Live
  <2> QED
    BY <1>1, <1>5, <2>1, <2>2, <2>3 DEF RecordInv, Undisturbed
<1> QED
  BY <1>7, <1>8

\* After a failure, and after the process has died, nothing more is said than
\* that the record is whole.
LEMMA FailureRecord ==
  ASSUME Inv, BoundsInv, RecordInv, Crash \/ \E c \in Call : FileSystemFails(c)
  PROVE  RecordInv'
<1>1. UNCHANGED << skill, raced >> /\ ~ Undisturbed'
  <2>1. failures \in Nat /\ crashes \in Nat
    BY DEF BoundsInv
  <2> QED
    BY <2>1 DEF Crash, FileSystemFails, history, Undisturbed
<1>2. CASE Crash
  <2>1. \A c \in Call : call'[c].pc \in Ended
    <3>1. ASSUME NEW c \in Call PROVE call'[c].pc \in Ended
      <4>1. call[c] \in CallType
        BY DEF Inv, HostType
      <4>2. CASE c \in Live
        <5>1. call'[c] = [call[c] EXCEPT !.pc = "lost"]
          BY <1>2, <4>2 DEF Crash
        <5> QED
          BY <4>1, <5>1 DEF CallType, Ended
      <4>3. CASE c \notin Live
        BY <1>2, <4>3 DEF Crash, Live
      <4> QED
        BY <4>2, <4>3
    <3> QED
      BY <3>1
  <2>2. Installers' = {}
    BY <2>1 DEF Installers, Live
  <2> QED
    BY <1>1, <2>2 DEF RecordInv
<1>3. ASSUME NEW c \in Call, FileSystemFails(c)
      PROVE  RecordInv'
  <2>1. PICK j : Shift(c, j) /\ j.pc = "failed"
    BY <1>3, FailureShifts
  <2>2. /\ call'[c] = j /\ c \in Live /\ \A d \in Call \ {c} : call'[d] = call[d]
    BY <2>1 DEF Shift, Same, Inv, HostType
  <2>3. Installers' \subseteq Installers \ {c}
    BY <2>1, <2>2 DEF Installers, Live, Is, Ended
  <2>4. \A d \in Call \ {c} : handle'[d] = handle[d]
    BY <1>3 DEF FileSystemFails, BoundsInv
  <2>5. ASSUME NEW d \in Installers', Knows(d) PROVE Knows(d)'
    BY <1>1, <2>2, <2>3, <2>4, <2>5 DEF Knows, At, Installers, Live
  <2> QED
    BY <1>1, <2>3, <2>5 DEF RecordInv
<1> QED
  BY <1>2, <1>3

LEMMA NextRecord == Inv /\ BoundsInv /\ RecordInv /\ [Next]_vars => RecordInv'
<1> SUFFICES ASSUME Inv, BoundsInv, RecordInv, [Next]_vars PROVE RecordInv'
  OBVIOUS
<1>1. CASE UNCHANGED vars
  BY <1>1 DEF vars, work, bounds, history, RecordInv, Installers, Replacing, Live, Is, Knows, At,
     Undisturbed
<1>2. CASE Next
  BY <1>2, BeginRecord, InstallRecord, OtherRecord, FailureRecord DEF Next, Step
<1> QED
  BY <1>1, <1>2

\* For any number of calls, loops, failures and deaths: while no two installations
\* overlapped the registry can be read, and if nothing failed the record names
\* what is installed.
THEOREM RecordAlwaysTrue == Spec => []RecordIsTrue
<1>1. Inv /\ BoundsInv /\ RecordInv => RecordIsTrue
  <2> SUFFICES ASSUME RecordInv, raced \cap Source = {}
               PROVE  /\ Listable(skill)
                      /\ Undisturbed /\ ~ Installing /\ skill.record # None
                           => skill.dir = skill.record
    BY DEF RecordIsTrue
  <2>1. ~ Installing => Replacing = {}
    BY DEF Installing, Replacing, Installers
  <2> QED
    BY <2>1 DEF RecordInv, Listable
<1> QED
  BY <1>1, InitInv, NextInv, InitBounds, NextBounds, InitRecord, NextRecord, PTL DEF Spec

-----------------------------------------------------------------------------
(* What was written stands.                                                *)

\* What every call is known to be there for, and to have done.
Aimed(c) ==
  /\ Is(c, "Remote") => call[c].on = None
  /\ At(c, "ok") /\ Writer(call[c]) => Writes(call[c])
  /\ At(c, "ok") /\ Is(c, "Read") /\ call[c].on \in Outside => call[c].approved

Aims == \A c \in Call : Aimed(c)
WritersAreLast == \A c \in Live : Writer(call[c]) /\ call[c].on \notin raced => LastOfFile(c)
TextStands ==
  Undisturbed => \A c \in Call : Writer(call[c]) /\ call[c].on \notin raced => Stands(c)

LEMMA FilesParts == FilesInv <=> Aims /\ WritersAreLast /\ TextStands
BY DEF FilesInv, Aims, Aimed, WritersAreLast, TextStands

LEMMA InitFiles == Init => FilesInv
<1> SUFFICES ASSUME Init PROVE FilesInv
  OBVIOUS
<1>1. \A c \in Call : call[c] = Fresh
  BY DEF Init
<1>2. ASSUME NEW c \in Call PROVE Aimed(c) /\ Stands(c) /\ c \notin Live
  BY <1>1 DEF Aimed, Stands, Fresh, At, Is, Live, Ended
<1> QED
  BY <1>2, FilesParts DEF Aims, WritersAreLast, TextStands, Live

\* The only call that works on a file is the last that was given it.
LEMMA OneOnFile ==
  ASSUME FilesInv, Inv, NEW c \in Live, NEW d \in Live, Writer(call[c]), Writer(call[d]),
         call[d].on = call[c].on, call[c].on \notin raced
  PROVE  c = d
<1>1. /\ LastOfFile(c) /\ LastOfFile(d) /\ c \in Call /\ d \in Call
      /\ ~ At(c, "idle") /\ ~ At(d, "idle")
  BY FilesParts DEF WritersAreLast, Live, Ended, At
<1>2. c \in Nat /\ d \in Nat
  BY <1>1 DEF Call
<1> QED
  BY <1>1, <1>2 DEF LastOfFile

\* Whoever moves, the others and the order stay.
LEMMA ShiftFrame ==
  ASSUME Inv, NEW c \in Call, NEW j, Shift(c, j)
  PROVE  /\ call'[c] = j /\ j.tool = call[c].tool /\ j.on = call[c].on /\ c \in Live
         /\ \A d \in Call \ {c} : call'[d] = call[d]
         /\ Live' \subseteq Live /\ j.pc # "idle" /\ call[c].gone \subseteq j.gone
         /\ \A d \in Call : call'[d].tool = call[d].tool /\ call'[d].on = call[d].on
BY DEF Shift, Same, Granted, GoesOn, TriesAgain, TooLate, Inv, HostType, Live

LEMMA ShiftKeepsLast ==
  ASSUME Inv, FilesInv, NEW c \in Call, NEW j, Shift(c, j), raced' = raced
  PROVE  WritersAreLast'
<1>1. /\ c \in Live /\ Live' \subseteq Live /\ \A d \in Call \ {c} : call'[d] = call[d]
      /\ \A d \in Call : call'[d].tool = call[d].tool /\ call'[d].on = call[d].on
  BY ShiftFrame
<1>2. ~ At(c, "idle")
  BY <1>1 DEF Live, Ended, At
<1>3. ASSUME NEW e \in Live', Writer(call[e])', (call[e].on \notin raced)'
      PROVE  LastOfFile(e)'
  <2>1. e \in Call /\ LastOfFile(e)
    BY <1>1, <1>3, FilesParts DEF WritersAreLast, Live, Writer
  <2>2. \A d \in Call : At(d, "idle")' <=> At(d, "idle") \/ (d = c /\ call'[c].pc = "idle")
    BY <1>1, <1>2 DEF At
  <2> QED
    BY <1>1, <1>2, <2>1, <2>2 DEF LastOfFile, Writer
<1> QED
  BY <1>3 DEF WritersAreLast

\* A call that has not begun to write, and does not, changes nothing.
Quiet(c, j) ==
  \/ ~ Writer(call[c])
  \/ call[c].pc \notin {"empty", "fill"} /\ j.pc \notin {"empty", "fill", "ok"}

LEMMA ReplacedStays ==
  ASSUME Inv, NEW c \in Call, NEW j, Shift(c, j), NEW e \in Call, Replaced(e),
         At(c, "fill") /\ Is(c, "Write") => j.pc \in {"ok", "timeout"}
  PROVE  Replaced(e)'
<1>1. PICK d \in Call : /\ d > e /\ call[d].on = call[e].on
                        /\ \/ Is(d, "Write") /\ call[d].pc \in {"fill", "ok", "timeout"}
                           \/ e \in call[d].gone /\ ~ At(d, "idle")
  BY DEF Replaced
<1>2. /\ call'[c] = j /\ c \in Live /\ \A x \in Call \ {c} : call'[x] = call[x]
      /\ \A x \in Call : call'[x].tool = call[x].tool /\ call'[x].on = call[x].on
      /\ j.pc # "idle" /\ call[c].gone \subseteq j.gone
  BY ShiftFrame
<1>3. CASE Is(d, "Write") /\ call[d].pc \in {"fill", "ok", "timeout"}
  <2>1. call'[d].pc \in {"fill", "ok", "timeout"}
    BY <1>2, <1>3 DEF Live, Ended, At, Is
  <2> QED
    BY <1>1, <1>2, <1>3, <2>1 DEF Replaced, Is
<1>4. CASE e \in call[d].gone /\ ~ At(d, "idle")
  <2>1. e \in call'[d].gone /\ ~ At(d, "idle")'
    BY <1>2, <1>4 DEF At
  <2> QED
    BY <1>1, <1>2, <2>1 DEF Replaced
<1> QED
  BY <1>1, <1>3, <1>4

LEMMA QuietFiles ==
  ASSUME Inv, FilesInv, NEW c \in Call, NEW j, Shift(c, j), Quiet(c, j),
         UNCHANGED << file, raced, failures, crashes >>
  PROVE  TextStands'
<1>1. /\ call'[c] = j /\ c \in Live /\ \A x \in Call \ {c} : call'[x] = call[x]
      /\ \A x \in Call : call'[x].tool = call[x].tool /\ call'[x].on = call[x].on
  BY ShiftFrame
<1>2. At(c, "fill") => ~ Is(c, "Write") /\ ~ Is(c, "Edit")
  BY DEF Quiet, At, Is, Writer
<1>3. \A e \in Call : Replaced(e) => Replaced(e)'
  BY <1>2, ReplacedStays
<1>4. \A e \in Call : Rewritten(e) => Rewritten(e)'
  BY <1>1, <1>2 DEF Rewritten, At, Is
<1>5. ASSUME NEW e \in Call, Writer(call[e]), e # c \/ j.pc \notin {"empty", "fill", "ok"}, Stands(e)
      PROVE  Stands(e)'
  <2>1. ASSUME NEW x \in Call, At(x, "ok")', Writer(call[x])'
        PROVE  At(x, "ok") /\ Writer(call[x])
    BY <1>1, <2>1 DEF Quiet, At, Writer
  <2>2. CASE e = c
    BY <1>1, <1>5, <2>2 DEF Stands, At
  <2>3. CASE e # c
    BY <1>1, <1>3, <1>4, <1>5, <2>1, <2>3 DEF Stands, At, Is
  <2> QED
    BY <2>2, <2>3
<1> QED
  BY <1>1, <1>5, FilesParts DEF TextStands, Undisturbed, Writer, Quiet

LEMMA OpenFiles ==
  ASSUME Inv, FilesInv, NEW c \in Call, NEW j, Shift(c, j), Writer(call[c]), At(c, "run"),
         NEW gone, Opens(c, j.held, gone), gone \subseteq j.gone, j.pc = "empty",
         UNCHANGED << file, raced, failures, crashes >>
  PROVE  TextStands'
<1>1. /\ call'[c] = j /\ c \in Live /\ \A x \in Call \ {c} : call'[x] = call[x]
      /\ \A x \in Call : call'[x].tool = call[x].tool /\ call'[x].on = call[x].on
  BY ShiftFrame
<1>3. \A e \in Call : Replaced(e) => Replaced(e)'
  BY ReplacedStays DEF At
<1>4. \A e \in Call : Rewritten(e) => Rewritten(e)'
  BY <1>1 DEF Rewritten, At, Is
<1>5. \A x \in Call : At(x, "ok")' <=> At(x, "ok")
  BY <1>1 DEF At
<1>6. ASSUME NEW e \in Call \ {c}, Writer(call[e]), Stands(e)
      PROVE  Stands(e)'
  BY <1>1, <1>3, <1>4, <1>5, <1>6 DEF Stands, At, Is, Writer
<1>7. ASSUME Undisturbed, call[c].on \notin raced PROVE Stands(c)'
  <2>1. ASSUME Is(c, "Edit"), NEW e \in Call, At(e, "ok"), Writer(call[e]), call[e].on = call[c].on
        PROVE  e \in j.held \/ Replaced(e)'
    <3>1. e \in file[call[c].on] \/ Replaced(e) \/ Rewritten(e)
      BY <1>7, <2>1, FilesParts DEF TextStands, Stands
    <3>2. ~ Rewritten(e)
      <4> SUFFICES ASSUME NEW d \in Call, d > e, call[d].on = call[e].on, Is(d, "Edit"), At(d, "fill")
                   PROVE  FALSE
        BY DEF Rewritten
      <4>1. d \in Live /\ d # c
        BY DEF Live, Ended, At
      <4> QED
        BY <1>1, <1>7, <2>1, <4>1, OneOnFile DEF Writer, Is
    <3>3. CASE e \in gone
      <4>1. c > e
        BY <1>1, <1>7, <2>1, FilesParts DEF WritersAreLast, LastOfFile, At
      <4>2. e \in call'[c].gone /\ ~ At(c, "idle")'
        BY <1>1, <3>3 DEF At
      <4> QED
        BY <1>1, <2>1, <4>1, <4>2 DEF Replaced
    <3> QED
      BY <1>3, <2>1, <3>1, <3>2, <3>3 DEF Opens, Edited
  <2>2. c \in j.held
    BY DEF Opens
  <2> QED
    BY <1>1, <1>5, <2>1, <2>2 DEF Stands, At, Is, Writer
<1> QED
  BY <1>1, <1>6, <1>7, FilesParts DEF TextStands, Undisturbed, Writer

\* What a call does to its own file.
OnlyItsFile(c, text) ==
  \A f \in File : file'[f] = IF f = call[c].on THEN text ELSE file[f]

LEMMA EmptyFiles ==
  ASSUME Inv, FilesInv, NEW c \in Call, NEW j, Shift(c, j), Writer(call[c]), At(c, "empty"),
         j.pc = "fill", j.held = call[c].held, OnlyItsFile(c, {}),
         UNCHANGED << raced, failures, crashes >>
  PROVE  TextStands'
<1>1. /\ call'[c] = j /\ c \in Live /\ \A x \in Call \ {c} : call'[x] = call[x]
      /\ \A x \in Call : call'[x].tool = call[x].tool /\ call'[x].on = call[x].on
  BY ShiftFrame
<1>2. \A e \in Call : Writer(call[e]) => call[e].on \in File
  BY DEF Inv, WritersMayWrite, Writer
<1>3. \A e \in Call : Replaced(e) => Replaced(e)'
  BY ReplacedStays DEF At
<1>4. \A e \in Call : Rewritten(e) => Rewritten(e)'
  BY <1>1 DEF Rewritten, At, Is
<1>5. \A x \in Call : At(x, "ok")' <=> At(x, "ok")
  BY <1>1 DEF At
<1>6. ASSUME NEW e \in Call \ {c}, Writer(call[e]), Stands(e), call[e].on \notin raced
      PROVE  Stands(e)'
  <2>1. CASE call[e].on # call[c].on
    BY <1>1, <1>2, <1>3, <1>4, <1>5, <1>6, <2>1 DEF Stands, At, Is, Writer, OnlyItsFile
  <2>2. CASE call[e].on = call[c].on /\ At(e, "ok")
    <3>1. c > e
      BY <1>1, <1>6, <2>2, FilesParts DEF WritersAreLast, LastOfFile, At, Writer
    <3>2. Replaced(e)' \/ Rewritten(e)'
      BY <1>1, <2>2, <3>1 DEF Replaced, Rewritten, Is, At, Writer
    <3> QED
      BY <1>1, <2>2, <3>2 DEF Stands, At
  <2>3. CASE call[e].on = call[c].on /\ e \in Live
    BY <1>1, <1>6, <2>3, OneOnFile
  <2>4. CASE e \notin Live /\ ~ At(e, "ok")
    BY <1>1, <1>6, <2>4 DEF Stands, At, Live, Ended
  <2> QED
    BY <2>1, <2>2, <2>3, <2>4
<1>7. ASSUME Stands(c) PROVE Stands(c)'
  BY <1>1, <1>2, <1>3, <1>5, <1>7 DEF Stands, At, Is, Writer, OnlyItsFile
<1> QED
  BY <1>1, <1>6, <1>7, FilesParts DEF TextStands, Undisturbed, Writer

LEMMA FillFiles ==
  ASSUME Inv, FilesInv, NEW c \in Call, NEW j, Shift(c, j), Writer(call[c]), At(c, "fill"),
         j.pc \in {"ok", "timeout"}, UNCHANGED << raced, failures, crashes >>,
         NEW text, OnlyItsFile(c, text),
         text = call[c].held \/ file[call[c].on] # {}
  PROVE  TextStands'
<1>1. /\ call'[c] = j /\ c \in Live /\ \A x \in Call \ {c} : call'[x] = call[x]
      /\ \A x \in Call : call'[x].tool = call[x].tool /\ call'[x].on = call[x].on
  BY ShiftFrame
<1>2. \A e \in Call : Writer(call[e]) => call[e].on \in File
  BY DEF Inv, WritersMayWrite, Writer
<1>3. \A e \in Call : Replaced(e) => Replaced(e)'
  BY ReplacedStays
<1>4. ASSUME NEW e \in Call, Rewritten(e), call[e].on # call[c].on PROVE Rewritten(e)'
  BY <1>1, <1>4 DEF Rewritten, At, Is
<1>5. ASSUME NEW e \in Call \ {c}, Writer(call[e]), Stands(e), call[e].on # call[c].on
      PROVE  Stands(e)'
  <2>1. \A x \in Call : call[x].on = call[e].on => x # c
    BY <1>5
  <2>2. file'[call[e].on] = file[call[e].on]
    BY <1>2, <1>5 DEF OnlyItsFile
  <2> QED
    BY <1>1, <1>3, <1>4, <1>5, <2>1, <2>2 DEF Stands, At, Is, Writer
<1>6. ASSUME Undisturbed, call[c].on \notin raced
      PROVE  \A e \in Call : Writer(call[e]) /\ call[e].on = call[c].on => Stands(e)'
  <2>1. Stands(c) /\ file[call[c].on] = {} /\ text = call[c].held /\ c \in text
    BY <1>6, FilesParts DEF TextStands, Stands, At
  <2>2. Stands(c)'
    BY <1>1, <1>2, <2>1 DEF Stands, At, OnlyItsFile
  <2>3. ASSUME NEW e \in Call \ {c}, Writer(call[e]), call[e].on = call[c].on PROVE Stands(e)'
    <3>1. CASE e \in Live
      BY <1>1, <1>6, <2>3, <3>1, OneOnFile
    <3>2. CASE At(e, "ok")
      <4>1. Replaced(e) \/ Rewritten(e)
        BY <1>6, <2>1, <2>3, <3>2, FilesParts DEF TextStands, Stands
      <4>2. CASE Rewritten(e)
        <5>1. PICK d \in Call : call[d].on = call[e].on /\ Is(d, "Edit") /\ At(d, "fill")
          BY <4>2 DEF Rewritten
        <5>2. d = c
          BY <1>1, <1>6, <2>3, <5>1, OneOnFile DEF Live, Ended, At, Writer, Is
        <5>3. e \in text \/ Replaced(e)
          BY <2>1, <2>3, <3>2, <5>1, <5>2 DEF Stands, At
        <5>4. e \in file'[call[e].on] \/ Replaced(e)'
          BY <1>2, <1>3, <2>3, <5>3 DEF OnlyItsFile
        <5> QED
          BY <1>1, <3>2, <5>4 DEF Stands, At
      <4>3. CASE Replaced(e)
        BY <1>1, <1>3, <3>2, <4>3 DEF Stands, At
      <4> QED
        BY <4>1, <4>2, <4>3
    <3>3. CASE e \notin Live /\ ~ At(e, "ok")
      BY <1>1, <3>3 DEF Stands, At, Live, Ended
    <3> QED
      BY <3>1, <3>2, <3>3
  <2> QED
    BY <2>2, <2>3
<1> QED
  BY <1>1, <1>5, <1>6, FilesParts DEF TextStands, Undisturbed, Writer

\* What a call is there for stays, and what it reports it was allowed to do.
LEMMA StepAims ==
  ASSUME Inv, BoundsInv, FilesInv, NEW c \in Call, Step(c) \/ Decide(c) \/ FileSystemFails(c)
  PROVE  Aims'
<1>1. PICK j : Shift(c, j)
  BY StepShifts
<1>2. /\ call'[c] = j /\ c \in Live /\ \A x \in Call \ {c} : call'[x] = call[x]
      /\ j.tool = call[c].tool /\ j.on = call[c].on
  BY <1>1, ShiftFrame
<1>3. At(c, "ok")' /\ Writer(call[c]) => Writes(call[c])
  <2> SUFFICES ASSUME call'[c].pc = "ok", Writer(call[c]) PROVE Writes(call[c])
    BY DEF At
  <2>1. CASE FillFile(c)
    BY <2>1 DEF FillFile, Inv, WritersMayWrite, MayStandAt, At, Is
  <2>2. CASE Refuse(c) \/ Check(c) \/ Decide(c)
    BY <1>2, <2>2, DecideShifts, ShiftFrame
  <2>3. CASE FileSystemFails(c)
    BY <1>2, <2>3, FailureShifts, ShiftFrame
  <2>4. CASE EmptyFile(c)
    BY <2>4 DEF EmptyFile, Inv, WritersMayWrite, MayStandAt, At
  <2>5. CASE OpenEdit(c) \/ OpenWrite(c)
    <3>1. call[c].pc \in BodyPc
      BY <2>5 DEF OpenEdit, OpenWrite, At, BodyPc, Pc, Ended
    <3>2. CASE Return(c, "not_ok") \/ Return(c, "failed")
      BY <1>2, <3>1, <3>2, ReturnShifts, ShiftFrame
    <3>3. ASSUME NEW text, NEW gone, Opens(c, text, gone) PROVE FALSE
      <4>1. PICK k : Shift(c, k) /\ k.pc = "empty"
        BY <3>1, <3>3, OpenShifts
      <4> QED
        BY <4>1, ShiftFrame
    <3> QED
      BY <2>5, <3>2, <3>3, OpensOrReturns
  <2>6. CASE ReadFile(c) \/ Execute(c) \/ List(c)
    BY <2>6 DEF ReadFile, Execute, List, Is, Writer
  <2>7. CASE LookForOld(c) \/ Backup(c) \/ Publish(c) \/ OpenTemp(c) \/ FillTemp(c) \/ Rename(c)
    BY <2>7 DEF LookForOld, Backup, Publish, OpenTemp, FillTemp, Rename, Inv, WritersMayWrite,
       MayStandAt, InstallPc, At, Is, Writer
  <2> QED
    BY <2>1, <2>2, <2>3, <2>4, <2>5, <2>6, <2>7 DEF Step
<1>4. At(c, "ok")' /\ Is(c, "Read") /\ call[c].on \in Outside => j.approved
  <2> SUFFICES ASSUME call'[c].pc = "ok", Is(c, "Read"), call[c].on \in Outside PROVE j.approved
    BY DEF At
  <2>1. CASE ReadFile(c)
    <3>1. PICK outcome \in {"ok", "failed"} :
            Return(c, outcome) /\ (outcome = "ok" => call[c].approved)
      BY <2>1 DEF ReadFile, Readable
    <3>2. call[c].pc \in BodyPc
      BY <2>1 DEF ReadFile, At, BodyPc, Pc, Ended
    <3>3. PICK k : /\ Shift(c, k) /\ k.approved = call[c].approved
                   /\ k.pc \in {outcome, "timeout", "run"}
      BY <3>1, <3>2, ReturnShifts
    <3> QED
      BY <1>2, <3>1, <3>3, ShiftFrame
  <2>2. CASE Refuse(c) \/ Check(c) \/ Decide(c)
    BY <1>2, <2>2, DecideShifts, ShiftFrame
  <2>3. CASE FileSystemFails(c)
    BY <1>2, <2>3, FailureShifts, ShiftFrame
  <2>4. ~ ReadFile(c) /\ Step(c) => Refuse(c) \/ Check(c)
    BY DEF Step, OpenEdit, OpenWrite, EmptyFile, FillFile, Execute, List, LookForOld, Backup,
       Publish, OpenTemp, FillTemp, Rename, Inv, WritersMayWrite, MayStandAt, InstallPc, Writes,
       At, Is
  <2> QED
    BY <2>1, <2>2, <2>3, <2>4
<1>5. Aimed(c)'
  BY <1>2, <1>3, <1>4, FilesParts DEF Aims, Aimed, At, Is, Writer, Writes
<1>6. \A d \in Call \ {c} : Aimed(d)'
  BY <1>2, FilesParts DEF Aims, Aimed, At, Is, Writer, Writes
<1> QED
  BY <1>5, <1>6 DEF Aims

\* Every step of a call, seen by what it does to files.
LEMMA StepFiles ==
  ASSUME Inv, BoundsInv, FilesInv, NEW c \in Call, Step(c) \/ Decide(c)
  PROVE  TextStands'
<1>1. UNCHANGED << raced, failures, crashes >>
  BY DEF Step, Refuse, Check, Decide, ReadFile, OpenEdit, OpenWrite, EmptyFile, FillFile, Execute,
     List, LookForOld, Backup, Publish, OpenTemp, FillTemp, Rename, bounds, history, Kept
<1>2. CASE Refuse(c) \/ Check(c) \/ Decide(c)
  <2>1. PICK j : Shift(c, j) /\ j.pc \in {"denied", "ask", "run"}
    BY <1>2, DecideShifts
  <2>2. Quiet(c, j) /\ file' = file
    BY <1>2, <2>1 DEF Quiet, Refuse, Check, Decide, At, work
  <2> QED
    BY <1>1, <2>1, <2>2, QuietFiles
<1>3. CASE ~ Writer(call[c]) /\ file' = file
  BY <1>1, <1>3, StepShifts, QuietFiles DEF Quiet
<1>4. CASE OpenEdit(c) \/ OpenWrite(c)
  <2>1. /\ At(c, "run") /\ call[c].pc \in BodyPc /\ Writer(call[c]) /\ file' = file
    BY <1>4 DEF OpenEdit, OpenWrite, At, Is, Writer, BodyPc, Pc, Ended, work
  <2>2. ASSUME NEW outcome \in {"not_ok", "failed"}, Return(c, outcome) PROVE TextStands'
    <3>1. PICK j : Shift(c, j) /\ j.pc \in {outcome, "timeout", "run"}
      BY <2>1, <2>2, ReturnShifts
    <3>2. Quiet(c, j)
      BY <2>1, <3>1 DEF Quiet, At
    <3> QED
      BY <1>1, <2>1, <3>1, <3>2, QuietFiles
  <2>3. ASSUME NEW text, NEW gone, Opens(c, text, gone)
        PROVE  TextStands'
    <3>1. PICK j : Shift(c, j) /\ j.pc = "empty" /\ j.held = text /\ gone \subseteq j.gone
      BY <2>1, <2>3, OpenShifts
    <3> QED
      BY <1>1, <2>1, <2>3, <3>1, OpenFiles
  <2> QED
    BY <1>4, <2>2, <2>3, OpensOrReturns
<1>5. file \in [File -> Text] /\ (Writer(call[c]) => call[c].on \in File)
  BY DEF Inv, HostType, WritersMayWrite, Writer
<1>6. CASE EmptyFile(c)
  <2>1. /\ At(c, "empty") /\ Writer(call[c]) /\ call[c].pc \in BodyPc
        /\ Goto(c, "fill") /\ late' = late
    BY <1>6 DEF EmptyFile, Inv, WritersMayWrite, MayStandAt, Writes, Writer, At, BodyPc, Pc, Ended
  <2>2. PICK j : Shift(c, j) /\ j.pc = "fill" /\ j.held = call[c].held
    BY <2>1, BodyShifts DEF BodyPc, Pc, Ended
  <2>3. OnlyItsFile(c, {})
    BY <1>5, <1>6, <2>1 DEF EmptyFile, OnlyItsFile
  <2> QED
    BY <1>1, <2>1, <2>2, <2>3, EmptyFiles
<1>7. CASE FillFile(c)
  <2>1. /\ At(c, "fill") /\ Writer(call[c]) /\ call[c].pc \in BodyPc /\ Return(c, "ok")
    BY <1>7 DEF FillFile, Inv, WritersMayWrite, MayStandAt, Writes, Writer, At, Is, BodyPc, Pc, Ended
  <2>2. ~ (call[c].attempt < Limit(call[c]))
    <3>1. call[c] \in CallType /\ Counted(call[c], executed[c])
      BY DEF Inv, HostType, BoundsInv
    <3> QED
      BY <2>1, <3>1 DEF Counted, Limit, Writer, CallType
  <2>3. PICK j : Shift(c, j) /\ j.pc \in {"ok", "timeout"}
    BY <2>1, <2>2, ReturnShifts
  <2>4. PICK text : /\ file' = [file EXCEPT ![call[c].on] = text]
                    /\ text = call[c].held \/ file[call[c].on] # {}
    BY <1>7 DEF FillFile
  <2>5. OnlyItsFile(c, text)
    BY <1>5, <2>1, <2>4 DEF OnlyItsFile
  <2> QED
    BY <1>1, <2>1, <2>3, <2>4, <2>5, FillFiles
<1>8. CASE \/ ReadFile(c) \/ Execute(c) \/ List(c) \/ LookForOld(c) \/ Backup(c) \/ Publish(c)
           \/ OpenTemp(c) \/ FillTemp(c) \/ Rename(c)
  <2>1. ~ Writer(call[c]) /\ file' = file
    BY <1>8 DEF ReadFile, Execute, List, LookForOld, Backup, Publish, OpenTemp, FillTemp, Rename,
       Inv, WritersMayWrite, MayStandAt, InstallPc, At, Is, Writer, work
  <2> QED
    BY <1>3, <2>1
<1> QED
  BY <1>2, <1>4, <1>6, <1>7, <1>8 DEF Step

LEMMA BeginFiles ==
  ASSUME Inv, FilesInv, NEW tool \in Tool, NEW on \in Targets(tool), Begin(tool, on)
  PROVE  FilesInv'
<1> DEFINE j == [Fresh EXCEPT !.tool = tool, !.on = on, !.pc = "check"]
<1>0. PICK b : b = begun + 1
  OBVIOUS
<1>1. /\ b \in Call /\ b > begun /\ begun \in Nat /\ call' = [call EXCEPT ![b] = j]
      /\ UNCHANGED << file, failures, crashes >> /\ raced \subseteq raced'
  BY <1>0, HostAssumption DEF Begin, Inv, HostType, Call, work, bounds
<1>2. /\ call'[b] = j /\ \A d \in Call \ {b} : call'[d] = call[d]
  BY <1>1 DEF Inv, HostType
<1>3. j.tool = tool /\ j.on = on /\ j.pc = "check"
  BY DEF Fresh
<1>4. At(b, "idle") /\ \A d \in Call \ {b} : ~ At(d, "idle") => d < b
  BY <1>0, <1>1 DEF Inv, AttemptsAreCounted, Call
<1> HIDE DEF j
<1>5. Aims'
  <2>1. Aimed(b)'
    BY <1>2, <1>3 DEF Aimed, At, Is, Targets, Tool
  <2>2. \A d \in Call \ {b} : Aimed(d)'
    BY <1>2, FilesParts DEF Aims, Aimed, At, Is, Writer, Writes
  <2> QED
    BY <2>1, <2>2 DEF Aims
<1>6. WritersAreLast'
  <2>1. LastOfFile(b)'
    BY <1>2, <1>4 DEF LastOfFile, At
  <2>2. ASSUME NEW e \in Live', e # b, Writer(call[e])', (call[e].on \notin raced)'
        PROVE  LastOfFile(e)'
    <3>1. e \in Live /\ e \in Call /\ call'[e] = call[e] /\ Writer(call[e]) /\ call[e].on \notin raced
      BY <1>1, <1>2, <2>2 DEF Live, Writer
    <3>2. LastOfFile(e)
      BY <3>1, FilesParts DEF WritersAreLast
    <3>3. ~ (Writer(j) /\ on = call[e].on)
      <4> SUFFICES ASSUME Writer(j), on = call[e].on PROVE FALSE
        OBVIOUS
      <4>1. Shares(e, tool, on)
        BY <1>3, <3>1 DEF Shares, Writer
      <4>2. call[e].on \in raced'
        BY <3>1, <4>1 DEF Begin
      <4> QED
        BY <2>2, <3>1, <4>2
    <3> QED
      BY <1>2, <1>3, <3>1, <3>2, <3>3 DEF LastOfFile, At, Writer
  <2> QED
    BY <2>1, <2>2 DEF WritersAreLast
<1>7. TextStands'
  <2>1. Stands(b)'
    BY <1>2, <1>3 DEF Stands, At
  <2>2. ASSUME NEW e \in Call PROVE Replaced(e) => Replaced(e)'
    <3> SUFFICES ASSUME NEW d \in Call, d > e, call[d].on = call[e].on, ~ At(d, "idle"), e # b,
                        \/ Is(d, "Write") /\ call[d].pc \in {"fill", "ok", "timeout"}
                        \/ e \in call[d].gone
                 PROVE  Replaced(e)'
      BY <1>1, <1>4 DEF Replaced, Call, At, Is
    <3> QED
      BY <1>2, <1>4 DEF Replaced, Is, At
  <2>3. ASSUME NEW e \in Call, e # b PROVE Rewritten(e) => Rewritten(e)'
    BY <1>2, <1>4, <2>3 DEF Rewritten, Is, At
  <2>4. ASSUME NEW e \in Call \ {b}, Writer(call[e]), Stands(e) PROVE Stands(e)'
    <3>1. \A x \in Call : At(x, "ok")' => x # b /\ At(x, "ok")
      BY <1>2, <1>3 DEF At
    <3> QED
      BY <1>1, <1>2, <2>2, <2>3, <2>4, <3>1 DEF Stands, At, Is, Writer
  <2> QED
    BY <1>1, <1>2, <2>1, <2>4, FilesParts DEF TextStands, Undisturbed, Writer
<1>8. (Aims /\ WritersAreLast /\ TextStands)' => FilesInv'
  BY FilesParts, PTL
<1> QED
  BY <1>5, <1>6, <1>7, <1>8

LEMMA FailureFiles ==
  ASSUME Inv, BoundsInv, FilesInv, Crash \/ \E c \in Call : FileSystemFails(c)
  PROVE  FilesInv'
<1>1. raced' = raced /\ ~ Undisturbed'
  <2>1. failures \in Nat /\ crashes \in Nat
    BY DEF BoundsInv
  <2> QED
    BY <2>1 DEF Crash, FileSystemFails, history, Undisturbed
<1>2. TextStands'
  BY <1>1 DEF TextStands
<1>3. CASE Crash
  <2>1. ASSUME NEW c \in Call
        PROVE  /\ call'[c].tool = call[c].tool /\ call'[c].on = call[c].on
               /\ call'[c].approved = call[c].approved
               /\ call'[c].pc = call[c].pc \/ call'[c].pc = "lost"
               /\ call'[c].pc \in Ended
    <3>1. call[c] \in CallType
      BY DEF Inv, HostType
    <3>2. \/ c \in Live /\ call'[c] = [call[c] EXCEPT !.pc = "lost"]
          \/ c \notin Live /\ call'[c] = call[c]
      BY <1>3 DEF Crash
    <3> QED
      BY <3>1, <3>2 DEF CallType, Live, Ended
  <2>2. Aims'
    BY <2>1, FilesParts DEF Aims, Aimed, At, Is, Writer, Writes
  <2>3. WritersAreLast'
    BY <2>1 DEF WritersAreLast, Live
  <2>4. (Aims /\ WritersAreLast /\ TextStands)' => FilesInv'
    BY FilesParts, PTL
  <2> QED
    BY <1>2, <2>2, <2>3, <2>4
<1>4. ASSUME NEW c \in Call, FileSystemFails(c)
      PROVE  FilesInv'
  <2>1. \E j : Shift(c, j)
    BY <1>4, FailureShifts
  <2>2. Aims' /\ WritersAreLast'
    BY <1>1, <1>4, <2>1, StepAims, ShiftKeepsLast
  <2>3. (Aims /\ WritersAreLast /\ TextStands)' => FilesInv'
    BY FilesParts, PTL
  <2> QED
    BY <1>2, <2>2, <2>3
<1> QED
  BY <1>3, <1>4

LEMMA NextFiles == Inv /\ BoundsInv /\ FilesInv /\ [Next]_vars => FilesInv'
<1> SUFFICES ASSUME Inv, BoundsInv, FilesInv, [Next]_vars PROVE FilesInv'
  OBVIOUS
<1>1. CASE UNCHANGED vars
  BY <1>1 DEF vars, work, bounds, history, FilesInv, LastOfFile, Stands, Replaced, Rewritten,
     Live, Is, At, Writer, Writes, Undisturbed
<1>2. ASSUME NEW c \in Call, Step(c) \/ Decide(c) PROVE FilesInv'
  <2>1. raced' = raced /\ \E j : Shift(c, j)
    BY <1>2, StepShifts
       DEF Step, Refuse, Check, Decide, ReadFile, OpenEdit, OpenWrite, EmptyFile, FillFile,
           Execute, List, LookForOld, Backup, Publish, OpenTemp, FillTemp, Rename, history, Kept
  <2>2. Aims' /\ WritersAreLast' /\ TextStands'
    BY <1>2, <2>1, StepAims, ShiftKeepsLast, StepFiles
  <2>3. (Aims /\ WritersAreLast /\ TextStands)' => FilesInv'
    BY FilesParts, PTL
  <2> QED
    BY <2>2, <2>3
<1> QED
  BY <1>1, <1>2, BeginFiles, FailureFiles DEF Next

\* For any number of calls and loops: until something fails, what Edit and Write
\* report as done is in the file until a later Write, or a later Edit that names
\* it in its old string, unless two of them used the file at once, and a file
\* outside the roots is read only with an approval; it never changes, whatever
\* fails.
THEOREM WritesAlwaysStand == Spec => []WritesStand
<1>1. Inv /\ BoundsInv /\ FilesInv => WritesStand
  <2> SUFFICES ASSUME Inv, BoundsInv, FilesInv PROVE WritesStand
    OBVIOUS
  <2>1. TypeOK /\ \A f \in Outside : file[f] = {0}
    BY BoundsGiveTypes DEF Inv, OutsideUntouched
  <2>2. ASSUME NEW c \in Call, At(c, "ok"), call[c].on \in File \ raced, Undisturbed
        PROVE  \/ Is(c, "Read") /\ (call[c].on \in Outside => call[c].approved)
               \/ c \in file[call[c].on]
               \/ \E d \in Call :
                    /\ d > c /\ call[d].on = call[c].on
                    /\ \/ At(d, "fill") \/ c \in call[d].gone
                       \/ Is(d, "Write") /\ call[d].pc \in {"ok", "timeout"}
    <3>1. /\ call[c].tool \in Tool /\ None \notin File /\ File \cap Source = {}
      BY HostAssumption DEF Inv, HostType, CallType
    <3>2. Is(c, "Read") \/ Writer(call[c])
      BY <2>2, <3>1, FilesParts DEF Aims, Aimed, Inv, WritersMayWrite, Tool, Writer, Is
    <3>3. CASE Is(c, "Read")
      BY <2>2, <3>3, FilesParts DEF Aims, Aimed
    <3>4. CASE Writer(call[c])
      <4>1. c \in file[call[c].on] \/ Replaced(c) \/ Rewritten(c)
        BY <2>2, <3>4, FilesParts DEF TextStands, Stands
      <4> QED
        BY <4>1 DEF Replaced, Rewritten, At
    <3> QED
      BY <3>2, <3>3, <3>4
  <2> QED
    BY <2>1, <2>2 DEF WritesStand
<1> QED
  BY <1>1, InitInv, NextInv, InitBounds, NextBounds, InitFiles, NextFiles, PTL DEF Spec
=============================================================================
