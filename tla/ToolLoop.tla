------------------------------ MODULE ToolLoop ------------------------------
(***************************************************************************)
(* One run of execute_tool_loop: turns in which the model is asked and its *)
(* tool calls are handled one by one, the message buffer they fill, the    *)
(* compactions that shorten that buffer, and the sub-agent that an Agent   *)
(* call starts, which is the same loop with a buffer and a budget of its   *)
(* own.                                                                    *)
(*                                                                         *)
(* A message is its role and which call of which turn it is about.  What   *)
(* it says, how large the buffer is, and what the model and the tools      *)
(* answer is not modelled: any estimate and any answer may come.           *)
(***************************************************************************)
EXTENDS Integers, Sequences, FiniteSets, FiniteSetsExt

CONSTANTS
  StepBudget,      \* initial_step_budget
  RecoveryBudget,  \* initial_recovery_budget
  SubSteps,        \* max_steps of a sub-agent
  Retain,          \* messages that a full compaction keeps
  BreakerLimit,    \* MAX_CONSECUTIVE_AUTOCOMPACT_FAILURES
  MaxBatch,        \* bounds the calls of one answer
  MaxPrior,        \* bounds the conversation before the request
  MaxSummary       \* bounds the messages of a remote summary

ASSUME ToolLoopAssumption ==
  /\ {StepBudget, RecoveryBudget, SubSteps, BreakerLimit} \subseteq Nat \ {0}
  /\ Retain \in Nat /\ Retain >= 5
  /\ {MaxBatch, MaxSummary} \subseteq Nat \ {0} /\ MaxPrior \in Nat

Loop == {"main", "sub"}
Ended == {"answered", "asked", "failed"}
Phase == {"off", "turn", "attempt", "call", "calls", "agent", "compact"} \cup Ended

\* "text" is any message without a call or a result: what the user and the
\* assistant said before, the goal, a summary.  "warning" is a User message too.
Message == [role : {"text", "warning", "assistant", "result"}, turn : Nat, call : Nat]
Said(role) == [role |-> role, turn |-> 0, call |-> 0]
Result(turn, c) == [role |-> "result", turn |-> turn, call |-> c]

Kind == {"tool", "pseudo", "agent"}
Call == [turn : Nat, call : Nat, kind : Kind]

VARIABLES
  phase,      \* where each loop is
  messages,   \* its message buffer
  batch,      \* the calls of the present answer that are still to be handled
  budget,     \* remaining_step_budget
  recovery,   \* remaining_recovery_budget
  reactive,   \* reactive_compact_used
  failures,   \* consecutive_autocompact_failures
  turns,      \* how often the model has answered, in both loops
  unpaid      \* whether a loop has had an answer that no step paid for yet

vars == << phase, messages, batch, budget, recovery, reactive, failures, turns, unpaid >>

\* saturating_sub, and a mutant that does not saturate.
LessWraps(s, n) == s - n
Less(s, n) == IF s < n THEN 0 ELSE s - n

Goto(l, p) == phase' = [phase EXCEPT ![l] = p]

Init ==
  /\ phase = [l \in Loop |-> IF l = "main" THEN "turn" ELSE "off"]
  /\ \E n \in 0..MaxPrior :
       messages = [l \in Loop |-> IF l = "main" THEN [i \in 1..n + 1 |-> Said("text")]
                                  ELSE << >>]
  /\ batch = [l \in Loop |-> << >>]
  /\ budget = [l \in Loop |-> IF l = "main" THEN StepBudget ELSE 0]
  /\ recovery = [l \in Loop |-> IF l = "main" THEN RecoveryBudget ELSE 0]
  /\ reactive = [l \in Loop |-> FALSE]
  /\ failures = [l \in Loop |-> 0]
  /\ turns = 0
  /\ unpaid = [l \in Loop |-> 0]

-----------------------------------------------------------------------------
(* Shortening the buffer.                                                  *)

\* Mutant: the split stays where it was put.
AdjustNothing(ms, k) == k

\* The first message to keep: k, or before it where k is a tool result, up to
\* the message that is no result.
AdjustSplit(ms, k) == Max({2} \cup { j \in 2..k : ms[j].role # "result" })

\* The first message is kept, those before k give way to n messages.
Collapsed(ms, k, n) ==
  << ms[1] >> \o [i \in 1..n |-> Said("text")] \o SubSeq(ms, k, Len(ms))

\* Mid-tier: the older half after the first message.
HalfSplit(ms) == AdjustSplit(ms, 2 + Len(ms) \div 2)
MidCompacted(ms) ==
  IF Len(ms) < 3 \/ HalfSplit(ms) <= 2 THEN ms ELSE Collapsed(ms, HalfSplit(ms), 1)

TailSplit(ms) == AdjustSplit(ms, Len(ms) - Retain + 1)
Compactable(ms) == Len(ms) > Retain + 1 /\ TailSplit(ms) > 2

\* Full compaction.  A model or a remote endpoint summarises, or fails and the
\* summary is made mechanically; once the breaker has tripped it always is.
RunCompaction(l) ==
  LET ms == messages[l]
      Replace(n) == messages' = [messages EXCEPT ![l] = Collapsed(ms, TailSplit(ms), n)]
  IN  \/ ~Compactable(ms) /\ UNCHANGED << messages, failures >>
      \/ /\ Compactable(ms) /\ failures[l] < BreakerLimit
         /\ \/ /\ \E n \in 1..MaxSummary : Replace(n)
               /\ failures' = [failures EXCEPT ![l] = 0]
            \/ /\ Replace(1)
               /\ failures' = [failures EXCEPT ![l] = @ + 1]
      \/ /\ Compactable(ms) /\ failures[l] >= BreakerLimit
         /\ Replace(1)
         /\ UNCHANGED failures

-----------------------------------------------------------------------------
(* Asking the model.                                                       *)

\* An answer or a failure is a step, too; a question to the user is not.
Finish(l, p) ==
  /\ Goto(l, p)
  /\ budget' = [budget EXCEPT ![l] = Less(@, 1)]
  /\ unpaid' = [unpaid EXCEPT ![l] = 0]

Exhausted(l) ==
  /\ phase[l] = "turn" /\ budget[l] = 0
  /\ Finish(l, "failed")
  /\ UNCHANGED << messages, batch, recovery, reactive, failures, turns >>

\* Clearing the bodies of old results, when the provider's cache is cold,
\* changes no role and no pairing.
BeginTurn(l) ==
  /\ phase[l] = "turn" /\ budget[l] > 0
  /\ reactive' = [reactive EXCEPT ![l] = FALSE]
  /\ Goto(l, "attempt")
  /\ UNCHANGED << messages, batch, budget, recovery, failures, turns, unpaid >>

Preflight(l) ==
  /\ phase[l] = "attempt"
  /\ \/ UNCHANGED messages
     \/ ~reactive[l] /\ messages' = [messages EXCEPT ![l] = MidCompacted(@)]
  /\ Goto(l, "call")
  /\ UNCHANGED << batch, budget, recovery, reactive, failures, turns, unpaid >>

\* The model answers without a call, or with final_answer or fail among them.
Answer(l) ==
  /\ phase[l] = "call"
  /\ \E p \in {"answered", "failed"} : Finish(l, p)
  /\ turns' = turns + 1
  /\ UNCHANGED << messages, batch, recovery, reactive, failures >>

AskUser(l) ==
  /\ phase[l] = "call"
  /\ Goto(l, "asked")
  /\ turns' = turns + 1
  /\ unpaid' = [unpaid EXCEPT ![l] = 1]
  /\ UNCHANGED << messages, batch, budget, recovery, reactive, failures >>

Respond(l) ==
  /\ phase[l] = "call"
  /\ \E n \in 1..MaxBatch, kinds \in [1..MaxBatch -> Kind] :
       /\ messages' = [messages EXCEPT ![l] =
            Append(@, [role |-> "assistant", turn |-> turns + 1, call |-> n])]
       /\ batch' = [batch EXCEPT ![l] =
            [c \in 1..n |-> [turn |-> turns + 1, call |-> c, kind |-> kinds[c]]]]
  /\ Goto(l, "calls")
  /\ turns' = turns + 1
  /\ unpaid' = [unpaid EXCEPT ![l] = 1]
  /\ UNCHANGED << budget, recovery, reactive, failures >>

\* Mutant: nothing remembers that the turn was compacted.
OverflowForgets(l) ==
  /\ phase[l] = "call" /\ ~reactive[l]
  /\ RunCompaction(l)
  /\ Goto(l, "attempt")
  /\ UNCHANGED << batch, budget, recovery, reactive, turns, unpaid >>

\* The provider finds the prompt too long: once a turn it is compacted and
\* sent again.
Overflow(l) ==
  /\ phase[l] = "call" /\ ~reactive[l]
  /\ reactive' = [reactive EXCEPT ![l] = TRUE]
  /\ RunCompaction(l)
  /\ Goto(l, "attempt")
  /\ UNCHANGED << batch, budget, recovery, turns, unpaid >>

\* Any other error, or still too long.
CallFailed(l) ==
  /\ phase[l] = "call"
  /\ Finish(l, "failed")
  /\ UNCHANGED << messages, batch, recovery, reactive, failures, turns >>

-----------------------------------------------------------------------------
(* Handling the calls of an answer.                                        *)

Handles(l, kind) ==
  phase[l] = "calls" /\ batch[l] # << >> /\ Head(batch[l]).kind = kind

\* The result of the present call enters the buffer, and what follows it.
Reply(l, after) ==
  /\ messages' = [messages EXCEPT ![l] =
       Append(@, Result(Head(batch[l]).turn, Head(batch[l]).call)) \o after]
  /\ batch' = [batch EXCEPT ![l] = Tail(@)]

\* Where a loop is once it has replied.
AfterReply(l) == IF Len(batch[l]) = 1 THEN "compact" ELSE "calls"

Charge(l) ==
  /\ budget' = [budget EXCEPT ![l] = Less(@, 1)]
  /\ unpaid' = [unpaid EXCEPT ![l] = 0]

\* Mutant: what is answered at once costs nothing.
RepliesForFree(l) ==
  /\ phase[l] = "calls" /\ batch[l] # << >>
  /\ Reply(l, << >>)
  /\ Goto(l, AfterReply(l))
  /\ UNCHANGED << budget, recovery, reactive, failures, turns, unpaid >>

\* Mutant: a denied call is skipped without a result.
RepliesNothing(l) ==
  /\ phase[l] = "calls" /\ batch[l] # << >>
  /\ Charge(l)
  /\ batch' = [batch EXCEPT ![l] = Tail(@)]
  /\ Goto(l, AfterReply(l))
  /\ UNCHANGED << messages, recovery, reactive, failures, turns >>

\* A call of any kind that the approval gate denies, tool_search and the task
\* tools, and an Agent call without a task or by a sub-agent: a step is spent
\* and the answer is immediate.
RepliesAtOnce(l) ==
  /\ phase[l] = "calls" /\ batch[l] # << >>
  /\ Charge(l)
  /\ Reply(l, << >>)
  /\ Goto(l, AfterReply(l))
  /\ UNCHANGED << recovery, reactive, failures, turns >>

\* A tool runs: a failure that is not final spends recovery budget.  When
\* either budget is gone a User message says so.
RunTool(l) ==
  /\ Handles(l, "tool")
  /\ Charge(l)
  /\ \E outcome \in {"ok", "error", "final error", "ambiguous"} :
       LET left == IF outcome = "error" THEN Less(recovery[l], 1) ELSE recovery[l]
           exhausted == \/ budget'[l] = 0
                        \/ outcome \in {"error", "ambiguous"} /\ left = 0
       IN  /\ recovery' = [recovery EXCEPT ![l] = left]
           /\ Reply(l, IF exhausted THEN << Said("warning") >> ELSE << >>)
  /\ Goto(l, AfterReply(l))
  /\ UNCHANGED << reactive, failures, turns >>

\* The sub-agent gets what it may use of the budget; the rest stays.
Spawn ==
  /\ Handles("main", "agent")
  /\ LET left == Less(budget["main"], 1)
         given == IF left < SubSteps THEN left ELSE SubSteps
     IN  budget' = [budget EXCEPT !["main"] = left - given, !["sub"] = given]
  /\ phase' = [phase EXCEPT !["main"] = "agent", !["sub"] = "turn"]
  /\ messages' = [messages EXCEPT !["sub"] = << Said("text") >>]
  /\ recovery' = [recovery EXCEPT !["sub"] = RecoveryBudget]
  /\ unpaid' = [unpaid EXCEPT !["main"] = 0]
  /\ UNCHANGED << batch, reactive, failures, turns >>

\* The sub-agent's loop ended, or waited for a model when its time was up:
\* what is left of it is dropped, and its parent has a result.
SubAgentReturns ==
  /\ phase["main"] = "agent"
  /\ phase["sub"] \in Ended \cup {"call", "compact"}
  /\ phase' = [phase EXCEPT !["main"] = AfterReply("main"), !["sub"] = "off"]
  /\ messages' = [messages EXCEPT !["main"] =
       Append(@, Result(Head(batch["main"]).turn, Head(batch["main"]).call)),
                                  !["sub"] = << >>]
  /\ batch' = [batch EXCEPT !["main"] = Tail(@), !["sub"] = << >>]
  /\ budget' = [budget EXCEPT !["sub"] = 0]
  /\ recovery' = [recovery EXCEPT !["sub"] = 0]
  /\ reactive' = [reactive EXCEPT !["sub"] = FALSE]
  /\ failures' = [failures EXCEPT !["sub"] = 0]
  /\ unpaid' = [unpaid EXCEPT !["sub"] = 0]
  /\ UNCHANGED turns

MaybeCompact(l) ==
  /\ phase[l] = "compact"
  /\ \/ UNCHANGED << messages, failures >>
     \/ RunCompaction(l)
  /\ Goto(l, "turn")
  /\ UNCHANGED << batch, budget, recovery, reactive, turns, unpaid >>

-----------------------------------------------------------------------------
Step(l) ==
  \/ Exhausted(l) \/ BeginTurn(l) \/ Preflight(l)
  \/ Answer(l) \/ AskUser(l) \/ Respond(l) \/ Overflow(l) \/ CallFailed(l)
  \/ RepliesAtOnce(l) \/ RunTool(l) \/ MaybeCompact(l)

Next == (\E l \in Loop : Step(l)) \/ Spawn \/ SubAgentReturns

Spec == Init /\ [][Next]_vars

\* Every wait of the loop ends: the transport of a model call has a timeout, a
\* tool call blocks until it returns, and nothing else is waited for.
FairSpec == Spec /\ WF_vars(Next)

-----------------------------------------------------------------------------
(* What each variable may hold: a budget never underflows.                 *)
TypeOK ==
  /\ phase \in [Loop -> Phase]
  /\ messages \in [Loop -> Seq(Message)]
  /\ batch \in [Loop -> Seq(Call)]
  /\ budget \in [Loop -> Nat]
  /\ recovery \in [Loop -> Nat]
  /\ reactive \in [Loop -> BOOLEAN]
  /\ failures \in [Loop -> Nat]
  /\ turns \in Nat
  /\ unpaid \in [Loop -> Nat]

(* However the calls of a run are denied, answered at once, handed to a    *)
(* sub-agent or cut off by its timeout, the models of the run and of its   *)
(* sub-agents together answer no more often than the run has steps: no way *)
(* through the handler of a call skips the payment.                        *)
TurnsArePaid == turns <= StepBudget

\* The buffers that are about to be sent to a model.
Sent == { messages[l] : l \in { k \in Loop : phase[k] = "call" } }

Where(ms, role) == { i \in DOMAIN ms : ms[i].role = role }

(* Every call the model made and still sees has exactly one result, after  *)
(* it, whenever the model is asked: no way of handling a call, and no      *)
(* compaction, leaves it open or answers it twice.                         *)
CallsAnswered ==
  \A ms \in Sent : \A i \in Where(ms, "assistant") : \A c \in 1..ms[i].call :
    /\ Cardinality({ j \in Where(ms, "result") : ms[j] = Result(ms[i].turn, c) }) = 1
    /\ \E j \in Where(ms, "result") : j > i /\ ms[j] = Result(ms[i].turn, c)

(* Where no warning intervenes, the results of a turn that the model sees  *)
(* follow one another and their answer: a compaction never keeps the later *)
(* results of a turn and drops the earlier ones or the answer.             *)
ResultsAttached ==
  \A ms \in Sent : \A j \in Where(ms, "result") :
    \/ ms[j - 1].role = "warning"
    \/ ms[j - 1].role = "assistant" /\ ms[j - 1].turn = ms[j].turn
    \/ ms[j - 1] = Result(ms[j].turn, ms[j].call - 1)

(* What mid_compact_messages documents, "tool_use <-> tool_result pairing  *)
(* is always preserved": every result that is sent has its call before it. *)
(* It does not hold: the last protected messages may begin with results.   *)
PairsAreKept ==
  \A ms \in Sent : \A j \in Where(ms, "result") :
    \E i \in Where(ms, "assistant") : i < j /\ ms[i].turn = ms[j].turn

(* The loop ends: no answer of the model and no failing provider,          *)
(* compaction, tool or sub-agent keeps it going for ever.                  *)
Terminates == <>(phase["main"] \in Ended)
=============================================================================
