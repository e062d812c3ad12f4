------------------------------ MODULE ToolHost ------------------------------
(***************************************************************************)
(* The plugin host's tool runtime, which the main loop, its sub-agents and *)
(* its background tasks call at the same time, and the tools that change   *)
(* what is outside the process: Edit and Write on files, the installation  *)
(* of a skill, and a tool of an MCP server.                                *)
(*                                                                         *)
(* The runtime checks a call, asks the tool for its policy, and then tries *)
(* the tool up to its number of attempts.  It cannot interrupt a tool: the *)
(* time an attempt took is looked at when it is over, and the result of    *)
(* one that took too long is thrown away.  Every call of the file system   *)
(* is a step.  The process may die between two of them.                    *)
(***************************************************************************)
EXTENDS SkillStore, Integers, FiniteSets

CONSTANTS
  File,         \* files
  Outside,      \* those outside the roots the tools may use
  MaxCalls,     \* bounds the calls
  Width,        \* how many loops call tools at the same time
  MaxFailures,  \* bounds the calls of the file system that fail, and the deaths
  MaxLate       \* bounds the attempts that take too long

Call == 1 .. MaxCalls
Tool == {"Read", "Edit", "Write", "Install", "Remote"}

ASSUME HostAssumption ==
  /\ Outside \subseteq File /\ File \cap (Source \cup {None}) = {}
  /\ {MaxCalls, Width, MaxFailures, MaxLate} \subseteq Nat

VARIABLES
  call,      \* the calls, in the order they begin
  begun,     \* how many have begun
  file,      \* the marks of what each file contains
  skill,     \* the skill on the disk
  handle,    \* the file each installation has open to write its record
  executed,  \* how often the server executed each call
  failures, crashes, late,
  raced,     \* history: the files, and sources, that two calls used at once
  published  \* history: what was ever installed

work == << file, skill, handle, executed >>
history == << raced, published >>
bounds == << failures, crashes, late >>
vars == << call, begun, work, bounds, history >>

\* A file contains the marks of who wrote it, 0 for what it contained before.
\* -1 stands for text that is damaged.  A call holds the text it is going to
\* write; gone is what it leaves out of the text it has read.
Text == SUBSET ({-1, 0} \cup Call)
Fresh == [tool |-> "Read", on |-> None, pc |-> "idle", attempt |-> 0, late |-> 0,
          approved |-> FALSE, held |-> {}, gone |-> {}]

Init ==
  /\ call = [c \in Call |-> Fresh]
  /\ begun = 0
  /\ file = [f \in File |-> {0}]
  /\ skill = NoSkill
  /\ handle = [c \in Call |-> "none"]
  /\ executed = [c \in Call |-> 0]
  /\ failures = 0 /\ crashes = 0 /\ late = 0
  /\ raced = {} /\ published = {}

At(c, pc) == call[c].pc = pc
Is(c, tool) == call[c].tool = tool
Ended == {"idle", "ok", "not_ok", "failed", "timeout", "denied", "lost"}
Live == { c \in Call : call[c].pc \notin Ended }
Goto(c, pc) == call' = [call EXCEPT ![c].pc = pc]

\* What two calls must not use at once: a file, or the one skill.
Shares(c, tool, on) ==
  \/ tool = "Install" /\ Is(c, "Install")
  \/ {tool, call[c].tool} \subseteq {"Edit", "Write"} /\ call[c].on = on

Targets(tool) == CASE tool = "Install" -> Source
                   [] tool = "Remote"  -> {None}
                   [] OTHER            -> File

-----------------------------------------------------------------------------
(* invoke: the checks, the policy and the attempts.                        *)

\* One of the loops calls a tool.
Begin(tool, on) ==
  /\ begun < MaxCalls /\ Cardinality(Live) < Width
  /\ begun' = begun + 1
  /\ call' = [call EXCEPT ![begun + 1] =
                [Fresh EXCEPT !.tool = tool, !.on = on, !.pc = "check"]]
  /\ raced' = IF \E c \in Live : Shares(c, tool, on) THEN raced \cup {on} \cup
                   { call[c].on : c \in { d \in Live : Shares(d, tool, on) } }
              ELSE raced
  /\ UNCHANGED << work, bounds, published >>

MaxAttempts(c) == IF Is(c, "Remote") THEN 2 ELSE 1
Try(c, n) == [call EXCEPT ![c].pc = "run", ![c].attempt = n]

\* An unknown tool, a missing field or capability, a different tool's name in
\* the canonical execution.
Refuse(c) ==
  /\ At(c, "check")
  /\ Goto(c, "denied")
  /\ UNCHANGED << begun, work, bounds, history >>

\* What is outside the roots requires approval.
Check(c) ==
  /\ At(c, "check")
  /\ IF call[c].on \in Outside THEN Goto(c, "ask") ELSE call' = Try(c, 1)
  /\ UNCHANGED << begun, work, bounds, history >>

\* The approved call skips the policy; the ticket may also be rejected, or
\* never be decided.
Decide(c) ==
  /\ At(c, "ask")
  /\ \/ Goto(c, "denied")
     \/ call' = [Try(c, 1) EXCEPT ![c].approved = TRUE]
  /\ UNCHANGED << begun, work, bounds, history >>

\* Mutant: what failed is tried again, too.
ReturnRetries(c, outcome) ==
  \/ /\ outcome = "ok" \/ call[c].attempt = MaxAttempts(c)
     /\ Goto(c, outcome) /\ UNCHANGED late
  \/ /\ outcome # "ok" /\ call[c].attempt < MaxAttempts(c)
     /\ call' = Try(c, call[c].attempt + 1) /\ UNCHANGED late
\* The tool has returned.  Failures of these tools are terminal, so that only
\* an attempt that took too long is repeated, whatever it returned.
Return(c, outcome) ==
  \/ Goto(c, outcome) /\ UNCHANGED late
  \/ /\ late < MaxLate /\ late' = late + 1
     /\ IF call[c].attempt < MaxAttempts(c)
        THEN call' = [Try(c, call[c].attempt + 1) EXCEPT ![c].late = @ + 1]
        ELSE call' = [call EXCEPT ![c].pc = "timeout", ![c].late = @ + 1]

Kept == UNCHANGED << begun, failures, crashes, raced >>

-----------------------------------------------------------------------------
(* The file tools.                                                         *)

\* An approval widens the roots that may be read, not those that may be
\* written: the tools refuse the approved path.
Readable(c)  == call[c].on \in Outside => call[c].approved
Writeable(c) == call[c].on \notin Outside

ReadFile(c) ==
  /\ At(c, "run") /\ Is(c, "Read")
  /\ Return(c, IF Readable(c) THEN "ok" ELSE "failed")
  /\ Kept /\ UNCHANGED << work, published >>

\* Mutant: an edit writes the new string instead of the new content.
EditedAnew(c, gone) == {c}
\* The new string takes the place of the old one.
Edited(c, gone) == (file[call[c].on] \ gone) \cup {c}

\* The old string is some part of the file, and nothing or everything that a
\* call wrote there may be gone with it.  If it is missing, or there more than
\* once, Edit returns an observation.
OpenEdit(c) ==
  /\ At(c, "run") /\ Is(c, "Edit")
  /\ \/ ~ Writeable(c) /\ Return(c, "failed")
     \/ Writeable(c) /\ Return(c, "not_ok")
     \/ /\ Writeable(c) /\ file[call[c].on] # {}
        /\ \E gone \in SUBSET file[call[c].on] :
             call' = [call EXCEPT ![c].pc = "empty", ![c].held = Edited(c, gone),
                                  ![c].gone = @ \cup gone]
        /\ UNCHANGED late
  /\ Kept /\ UNCHANGED << work, published >>

OpenWrite(c) ==
  /\ At(c, "run") /\ Is(c, "Write")
  /\ IF Writeable(c)
     THEN call' = [call EXCEPT ![c].pc = "empty", ![c].held = {c}] /\ UNCHANGED late
     ELSE Return(c, "failed")
  /\ Kept /\ UNCHANGED << work, published >>

\* Both write by emptying the file and filling it again.
EmptyFile(c) ==
  /\ At(c, "empty")
  /\ file' = [file EXCEPT ![call[c].on] = {}]
  /\ Goto(c, "fill")
  /\ Kept /\ UNCHANGED << skill, handle, executed, late, published >>

FillFile(c) ==
  /\ At(c, "fill") /\ ~ Is(c, "Install")
  /\ \/ file' = [file EXCEPT ![call[c].on] = call[c].held]
     \/ file[call[c].on] # {} /\ file' = [file EXCEPT ![call[c].on] = {-1}]
  /\ Return(c, "ok")
  /\ Kept /\ UNCHANGED << skill, handle, executed, published >>

-----------------------------------------------------------------------------
(* The MCP server.                                                         *)

Execute(c) ==
  /\ At(c, "run") /\ Is(c, "Remote")
  /\ executed' = [executed EXCEPT ![c] = @ + 1]
  /\ Return(c, "ok") \/ Return(c, "failed")
  /\ Kept /\ UNCHANGED << file, skill, handle, published >>

-----------------------------------------------------------------------------
(* The installation of a skill.                                            *)

\* Nothing is done for a source that has a record.  The archive is fetched and
\* staged in a directory of the call's own.
List(c) ==
  /\ At(c, "run") /\ Is(c, "Install")
  /\ \/ ~ Listable(skill) /\ Return(c, "failed")
     \/ Listable(skill) /\ skill.record = call[c].on /\ Return(c, "ok")
     \/ /\ Listable(skill) /\ skill.record # call[c].on
        /\ Goto(c, "staged") /\ UNCHANGED late
  /\ Kept /\ UNCHANGED << work, published >>

LookForOld(c) ==
  /\ At(c, "staged")
  /\ Goto(c, IF skill.dir = None THEN "publish" ELSE "backup")
  /\ Kept /\ UNCHANGED << work, late, published >>

Backup(c) ==
  /\ At(c, "backup")
  /\ IF skill.dir = None
     THEN Return(c, "failed") /\ UNCHANGED skill
     ELSE Goto(c, "publish") /\ skill' = MoveAway(skill) /\ UNCHANGED late
  /\ Kept /\ UNCHANGED << file, handle, executed, published >>

Publish(c) ==
  /\ At(c, "publish")
  /\ IF skill.dir # None
     THEN Return(c, "failed") /\ UNCHANGED << skill, published >>
     ELSE /\ Goto(c, "record") /\ skill' = MoveIn(skill, call[c].on) /\ UNCHANGED late
          /\ published' = published \cup {call[c].on}
  /\ Kept /\ UNCHANGED << file, handle, executed >>

OpenTemp(c) ==
  /\ At(c, "record")
  /\ skill' = CreateTemp(skill)
  /\ handle' = [handle EXCEPT ![c] = "temp"]
  /\ Goto(c, "fill")
  /\ Kept /\ UNCHANGED << file, executed, late, published >>

\* The file that was opened may have been renamed meanwhile.
FillTemp(c) ==
  /\ At(c, "fill") /\ Is(c, "Install")
  /\ \/ handle[c] = "temp" /\ \E t \in Written(skill.temp, call[c].on) :
                                 skill' = [skill EXCEPT !.temp = t]
     \/ handle[c] = "record" /\ \E t \in Written(skill.record, call[c].on) :
                                   skill' = [skill EXCEPT !.record = t]
     \/ handle[c] = "gone" /\ UNCHANGED skill
  /\ Goto(c, "rename")
  /\ Kept /\ UNCHANGED << file, handle, executed, late, published >>

\* Who has the temporary file open has the record open now.
Moved(h) == IF h = "temp" THEN "record" ELSE IF h = "record" THEN "gone" ELSE h
Rename(c) ==
  /\ At(c, "rename")
  /\ IF skill.temp = None
     THEN Return(c, "failed") /\ UNCHANGED << skill, handle >>
     ELSE /\ Return(c, "ok") /\ skill' = RenameTemp(skill)
          /\ handle' = [[d \in Call |-> Moved(handle[d])] EXCEPT ![c] = "none"]
  /\ Kept /\ UNCHANGED << file, executed, published >>

-----------------------------------------------------------------------------
(* Failures.                                                               *)

\* A call of the file system fails, and with it the tool.
FileSystemFails(c) ==
  /\ call[c].pc \in {"run", "empty", "fill", "staged", "backup", "publish", "record", "rename"}
  /\ ~ Is(c, "Remote")
  /\ failures + crashes < MaxFailures /\ failures' = failures + 1
  /\ Goto(c, "failed")
  /\ handle' = [handle EXCEPT ![c] = "none"]
  /\ UNCHANGED << begun, file, skill, executed, crashes, late, history >>

\* The process dies; all calls are lost, and what they wrote stays.
Crash ==
  /\ failures + crashes < MaxFailures /\ crashes' = crashes + 1
  /\ Live # {}
  /\ call' = [c \in Call |-> IF c \in Live THEN [call[c] EXCEPT !.pc = "lost"] ELSE call[c]]
  /\ handle' = [c \in Call |-> "none"]
  /\ UNCHANGED << begun, file, skill, executed, failures, late, history >>

Step(c) ==
  \/ Refuse(c) \/ Check(c)
  \/ ReadFile(c) \/ OpenEdit(c) \/ OpenWrite(c) \/ EmptyFile(c) \/ FillFile(c)
  \/ Execute(c)
  \/ List(c) \/ LookForOld(c) \/ Backup(c) \/ Publish(c)
  \/ OpenTemp(c) \/ FillTemp(c) \/ Rename(c)

Next ==
  \/ \E tool \in Tool : \E on \in Targets(tool) : Begin(tool, on)
  \/ \E c \in Call : Step(c) \/ Decide(c) \/ FileSystemFails(c)
  \/ Crash

Spec == Init /\ [][Next]_vars

-----------------------------------------------------------------------------
(* Properties.                                                             *)

Pc == Ended \cup {"check", "ask", "run", "empty", "fill", "staged", "backup",
                  "publish", "record", "rename"}

TypeOK ==
  /\ call \in [Call -> [tool : Tool, on : File \cup Source \cup {None}, pc : Pc,
                        attempt : 0 .. 2, late : 0 .. MaxLate, approved : BOOLEAN,
                        held : Text, gone : Text]]
  /\ begun \in 0 .. MaxCalls /\ Cardinality(Live) <= Width
  /\ file \in [File -> Text]
  /\ skill \in Store
  /\ handle \in [Call -> {"none", "temp", "record", "gone"}]
  /\ executed \in [Call -> 0 .. 2]
  /\ {failures, crashes} \subseteq 0 .. MaxFailures /\ late \in 0 .. MaxLate
  /\ raced \subseteq File \cup Source /\ published \subseteq Source

Undisturbed == failures + crashes = 0
Installing == \E c \in Live : Is(c, "Install")

\* A tool of a server is executed again only after an attempt that took too
\* long, and what was denied is never executed.
RepeatedOnlyIfLate ==
  /\ \A c \in Call : executed[c] <= 1 + call[c].late
  /\ \A c \in Call : call[c].pc \in {"idle", "check", "ask", "denied"} => executed[c] = 0

\* What Edit and Write report as done is in the file until a later Write, or a
\* later Edit that names it in its old string, unless two of them used the file
\* at once; files outside the roots never change, and they are read only with an
\* approval.
WritesStand ==
  /\ TypeOK
  /\ \A c \in Call :
       LET f == call[c].on
       IN  At(c, "ok") /\ f \in File \ raced /\ Undisturbed =>
             \/ Is(c, "Read") /\ (f \in Outside => call[c].approved)
             \/ c \in file[f]
             \/ \E d \in Call :
                  /\ d > c /\ call[d].on = f
                  /\ \/ At(d, "fill") \/ c \in call[d].gone
                     \/ Is(d, "Write") /\ call[d].pc \in {"ok", "timeout"}
  /\ \A f \in Outside : file[f] = {0}

\* Every version of the skill that was ever installed is still on the disk,
\* whole, whichever calls raced, failed or died.
SkillsSurvive ==
  \A s \in published : s = skill.dir \/ s \in skill.backups

\* As long as no two installations overlap, the registry can be read, also
\* after failures and crashes; and if there were none, the record names the
\* source of what is installed.
RecordIsTrue ==
  raced \cap Source = {} =>
    /\ Listable(skill)
    /\ Undisturbed /\ ~ Installing /\ skill.record # None => skill.dir = skill.record
=============================================================================
