--------------------------- MODULE ToolLoopProofs ---------------------------
(***************************************************************************)
(* For any budgets, any answers of the models and any failures: a run and  *)
(* its sub-agents never have more answers than the run has steps, and no   *)
(* compaction parts the results of a turn from one another or from their   *)
(* answer where no warning stands between them, and every call that is     *)
(* still sent has exactly one result, behind it.  A run has a bounded      *)
(* number of steps, and until it is over there is one to take.             *)
(***************************************************************************)
EXTENDS ToolLoop, FiniteSetTheorems, WellFoundedInduction, TLAPS

\* Where a loop may owe a step for its latest answer.
MayOwe == {"calls", "asked", "answered", "failed"}

PaidType ==
  /\ phase \in [Loop -> Phase]
  /\ budget \in [Loop -> Nat]
  /\ unpaid \in [Loop -> {0, 1}]
  /\ turns \in Nat

\* A sub-agent has a budget only while its parent waits for it.
SubAgentIsAlone ==
  /\ phase["sub"] # "off" => phase["main"] = "agent"
  /\ phase["sub"] = "off" => budget["sub"] = 0 /\ unpaid["sub"] = 0

OwesWhatItHas ==
  \A l \in Loop : /\ unpaid[l] <= budget[l]
                  /\ phase[l] \notin MayOwe => unpaid[l] = 0
                  /\ phase[l] \in {"attempt", "call"} => budget[l] > 0

\* What is answered and not owed, and what is left, came out of the budget.
Balance ==
  turns + (budget["main"] - unpaid["main"]) + (budget["sub"] - unpaid["sub"]) <= StepBudget

PaidInv == PaidType /\ SubAgentIsAlone /\ OwesWhatItHas /\ Balance

-----------------------------------------------------------------------------
LEMMA PaidInit == Init => PaidInv
<1> SUFFICES ASSUME Init PROVE PaidInv
  OBVIOUS
<1>1. StepBudget \in Nat
  BY ToolLoopAssumption
<1> QED
  BY <1>1 DEF Init, PaidInv, PaidType, SubAgentIsAlone, OwesWhatItHas, Balance, Loop,
     Phase, Ended, MayOwe

\* A step of one loop: the other one keeps its phase, budget and debt.
LEMMA StepIsPaid ==
  ASSUME PaidInv, NEW l \in Loop, Step(l)
  PROVE  PaidInv'
<1>1. StepBudget \in Nat
  BY ToolLoopAssumption
<1>2. phase[l] \notin {"off", "agent"}
  BY DEF Step, Exhausted, BeginTurn, Preflight, Answer, AskUser, Respond, Overflow,
     CallFailed, RepliesAtOnce, RunTool, MaybeCompact, Handles
<1> USE DEF PaidInv, PaidType, SubAgentIsAlone, OwesWhatItHas, Balance, Loop, Phase,
        Ended, MayOwe, Goto, Less
<1>3. CASE Exhausted(l)
  BY <1>1, <1>2, <1>3 DEF Exhausted, Finish
<1>4. CASE BeginTurn(l)
  BY <1>1, <1>2, <1>4 DEF BeginTurn
<1>5. CASE Preflight(l)
  BY <1>1, <1>2, <1>5 DEF Preflight
<1>6. CASE Answer(l)
  BY <1>1, <1>2, <1>6 DEF Answer, Finish
<1>7. CASE AskUser(l)
  BY <1>1, <1>2, <1>7 DEF AskUser
<1>8. CASE Respond(l)
  <2>1. /\ phase[l] = "call"
        /\ phase' = [phase EXCEPT ![l] = "calls"]
        /\ unpaid' = [unpaid EXCEPT ![l] = 1]
        /\ turns' = turns + 1 /\ UNCHANGED budget
    BY <1>8 DEF Respond
  <2> QED
    BY <1>1, <2>1
<1>9. CASE Overflow(l)
  <2>1. /\ phase[l] = "call"
        /\ phase' = [phase EXCEPT ![l] = "attempt"]
        /\ UNCHANGED << budget, turns, unpaid >>
    BY <1>9 DEF Overflow
  <2> QED
    BY <1>1, <2>1
<1>10. CASE CallFailed(l)
  BY <1>1, <1>2, <1>10 DEF CallFailed, Finish
<1>11. CASE RepliesAtOnce(l)
  BY <1>1, <1>2, <1>11 DEF RepliesAtOnce, Charge, AfterReply
<1>12. CASE RunTool(l)
  <2>1. /\ phase[l] = "calls"
        /\ phase' = [phase EXCEPT ![l] = AfterReply(l)]
        /\ UNCHANGED turns
    BY <1>12 DEF RunTool, Handles
  <2>2. Charge(l)
    BY <1>12 DEF RunTool
  <2>3. AfterReply(l) \in {"compact", "calls"}
    BY DEF AfterReply
  <2> QED
    BY <1>1, <2>1, <2>2, <2>3 DEF Charge
<1>13. CASE MaybeCompact(l)
  <2>1. /\ phase[l] = "compact"
        /\ phase' = [phase EXCEPT ![l] = "turn"]
        /\ UNCHANGED << budget, turns, unpaid >>
    BY <1>13 DEF MaybeCompact
  <2> QED
    BY <1>1, <2>1
<1> QED
  BY <1>3, <1>4, <1>5, <1>6, <1>7, <1>8, <1>9, <1>10, <1>11, <1>12, <1>13 DEF Step

LEMMA SubAgentIsPaid ==
  ASSUME PaidInv, Spawn \/ SubAgentReturns
  PROVE  PaidInv'
<1>1. StepBudget \in Nat /\ SubSteps \in Nat
  BY ToolLoopAssumption
<1> USE DEF PaidInv, PaidType, SubAgentIsAlone, OwesWhatItHas, Balance, Loop, Phase,
        Ended, MayOwe, Less
<1>2. CASE Spawn
  BY <1>1, <1>2 DEF Spawn, Handles
<1>3. CASE SubAgentReturns
  BY <1>1, <1>3 DEF SubAgentReturns, AfterReply
<1> QED
  BY <1>2, <1>3

LEMMA PaidAlways == Spec => []PaidInv
<1>1. ASSUME PaidInv, [Next]_vars PROVE PaidInv'
  <2>1. CASE UNCHANGED vars
    BY <1>1, <2>1 DEF PaidInv, PaidType, SubAgentIsAlone, OwesWhatItHas, Balance, vars
  <2> QED
    BY <1>1, <2>1, StepIsPaid, SubAgentIsPaid DEF Next
<1> QED
  BY <1>1, PaidInit, PTL DEF Spec

(* For all budgets, batches and failures, the models of a run answer no    *)
(* more often than the run has steps.                                      *)
THEOREM TurnsAlwaysPaid == Spec => []TurnsArePaid
<1>1. PaidInv => TurnsArePaid
  <2>1. StepBudget \in Nat
    BY ToolLoopAssumption
  <2> QED
    BY <2>1 DEF PaidInv, PaidType, OwesWhatItHas, Balance, TurnsArePaid, Loop
<1> QED
  BY <1>1, PaidAlways, PTL

-----------------------------------------------------------------------------
(* The buffer.                                                             *)

\* What may stand directly before the result of a call.
Leads(m, turn, c) ==
  \/ m.role = "warning"
  \/ m.role = "assistant" /\ m.turn = turn
  \/ m = Result(turn, c - 1)

Attached(ms) ==
  \A j \in DOMAIN ms :
    ms[j].role = "result" => j > 1 /\ Leads(ms[j - 1], ms[j].turn, ms[j].call)

Buffer(ms) ==
  /\ ms \in Seq(Message) /\ ms # << >>
  /\ ms[1].role # "result"
  /\ Attached(ms)

\* The calls left to handle are consecutive calls of one answer.
Consecutive(b) ==
  \A i \in DOMAIN b : b[i].turn = b[1].turn /\ b[i].call = b[1].call + i - 1

LEMMA AnyMaximum ==
  ASSUME NEW k \in Nat, NEW S \in SUBSET (0..k), S # {}
  PROVE  Max(S) \in S /\ \A y \in S : Max(S) >= y
<1> DEFINE R == { p \in Nat \X Nat : p[1] < p[2] }
           T == { k - x : x \in S }
<1>1. IsWellFoundedOn(R, Nat)
  BY NatLessThanWellFounded, Zenon DEF OpToRel
<1>2. T \subseteq Nat /\ T # {}
  <2>1. \A x \in S : k - x \in Nat
    OBVIOUS
  <2> QED
    BY <2>1
<1>3. \E x \in T : \A y \in T : ~ (<< y, x >> \in R)
  <2> HIDE DEF T, R
  <2> QED
    BY <1>1, <1>2, WFMin, Zenon
<1>4. \A x, y \in Nat : y < x => << y, x >> \in R
  OBVIOUS
<1> HIDE DEF R
<1>5. PICK x \in T : \A y \in T : ~ (<< y, x >> \in R)
  BY <1>3
<1>6. PICK z \in S : x = k - z
  OBVIOUS
<1>7. ASSUME NEW y \in S PROVE z >= y
  <2>1. k - y \in T
    OBVIOUS
  <2>2. ~ (k - y < x)
    BY <1>2, <1>4, <1>5, <2>1
  <2> QED
    BY <1>6, <2>2
<1> QED
  BY <1>7 DEF Max

LEMMA SplitIsSound ==
  ASSUME NEW ms \in Seq(Message), NEW k \in 2..Len(ms)
  PROVE  /\ AdjustSplit(ms, k) \in 2..k
         /\ AdjustSplit(ms, k) > 2 => ms[AdjustSplit(ms, k)].role # "result"
<1> DEFINE S == {2} \cup { j \in 2..k : ms[j].role # "result" }
<1>1. S \in SUBSET (0..k) /\ S # {} /\ k \in Nat
  OBVIOUS
<1>2. AdjustSplit(ms, k) \in S
  BY <1>1, AnyMaximum DEF AdjustSplit
<1> QED
  BY <1>2

\* What a collapsed buffer keeps, it keeps in order: what is new in it is text.
LEMMA CollapsedKeepsOrder ==
  ASSUME NEW ms \in Seq(Message), NEW k \in 2..Len(ms), NEW n \in Nat
  PROVE  LET new == Collapsed(ms, k, n) IN
         /\ new \in Seq(Message) /\ Len(new) = n + 1 + Len(ms) - k + 1
         /\ new[1] = ms[1]
         /\ \A i \in 2..n + 1 : new[i] = Said("text")
         /\ \A i \in n + 2..Len(new) : new[i] = ms[i - n - 2 + k]
<1> DEFINE new == Collapsed(ms, k, n)
           mid == [i \in 1..n |-> Said("text")]
           tail == SubSeq(ms, k, Len(ms))
<1>1. /\ Len(ms) \in Nat
      /\ mid \in Seq(Message) /\ Len(mid) = n
      /\ \A i \in 1..n : mid[i] = Said("text")
  BY DEF Said, Message
<1>2. /\ tail \in Seq(Message) /\ Len(tail) = Len(ms) - k + 1
      /\ \A i \in 1..Len(tail) : tail[i] = ms[i + k - 1]
  BY <1>1
<1>3. /\ << ms[1] >> \in Seq(Message) /\ Len(<< ms[1] >>) = 1
  BY <1>1
<1> HIDE DEF mid, tail
<1>4. << ms[1] >> \o mid \in Seq(Message) /\ Len(<< ms[1] >> \o mid) = n + 1
  BY <1>1, <1>3
<1>5. new \in Seq(Message) /\ Len(new) = n + 1 + Len(ms) - k + 1
  BY <1>2, <1>4 DEF mid, tail, Collapsed
<1>6. new[1] = ms[1]
  BY <1>1, <1>2, <1>3, <1>4 DEF mid, tail, Collapsed
<1>7. \A i \in 2..n + 1 : new[i] = Said("text")
  BY <1>1, <1>2, <1>3, <1>4 DEF mid, tail, Collapsed
<1>8. \A i \in n + 2..Len(new) : new[i] = ms[i - n - 2 + k]
  BY <1>1, <1>2, <1>3, <1>4, <1>5 DEF mid, tail, Collapsed
<1> QED
  BY <1>5, <1>6, <1>7, <1>8

LEMMA CollapsedIsBuffer ==
  ASSUME NEW ms, Buffer(ms), NEW k \in 2..Len(ms), ms[k].role # "result", NEW n \in Nat
  PROVE  Buffer(Collapsed(ms, k, n))
<1> DEFINE new == Collapsed(ms, k, n)
<1>1. /\ ms \in Seq(Message) /\ Len(ms) \in Nat /\ DOMAIN ms = 1..Len(ms)
      /\ ms[1].role # "result" /\ Said("text").role # "result"
  BY DEF Buffer, Said
<1>2. /\ new \in Seq(Message) /\ Len(new) = n + 1 + Len(ms) - k + 1
      /\ new[1] = ms[1]
      /\ \A i \in 2..n + 1 : new[i] = Said("text")
      /\ \A i \in n + 2..Len(new) : new[i] = ms[i - n - 2 + k]
  BY <1>1, CollapsedKeepsOrder
<1> HIDE DEF new
<1>3. Attached(new)
  <2> SUFFICES ASSUME NEW j \in 1..Len(new), new[j].role = "result"
               PROVE  j > 1 /\ Leads(new[j - 1], new[j].turn, new[j].call)
    BY SMTT(30), <1>2 DEF Attached
  <2>1. j > n + 2
    <3>1. j # 1 /\ j \notin 2..n + 1
      BY <1>1, <1>2
    <3>2. CASE j = n + 2
      <4>1. new[j] = ms[j - n - 2 + k] /\ j - n - 2 + k = k
        BY <1>2, <3>2
      <4> QED
        BY <4>1
    <3> QED
      BY <1>1, <1>2, <3>1, <3>2
  <2>2. /\ new[j] = ms[j - n - 2 + k] /\ new[j - 1] = ms[j - n - 3 + k]
        /\ j - n - 2 + k \in 1..Len(ms)
    <3>1. j \in n + 2..Len(new) /\ j - 1 \in n + 2..Len(new)
      BY <1>1, <1>2, <2>1
    <3>2. (j - 1) - n - 2 + k = j - n - 3 + k /\ j - n - 2 + k \in 1..Len(ms)
      BY <1>1, <1>2, <2>1
    <3> QED
      BY <1>2, <3>1, <3>2
  <2> QED
    <3>1. LET i == j - n - 2 + k
          IN  ms[i].role = "result" => i > 1 /\ Leads(ms[i - 1], ms[i].turn, ms[i].call)
      BY <1>1, <2>2 DEF Buffer, Attached
    <3>2. (j - n - 2 + k) - 1 = j - n - 3 + k
      BY <1>1, <1>2
    <3> QED
      BY <2>1, <2>2, <3>1, <3>2, <1>2
<1> QED
  BY <1>1, <1>2, <1>3 DEF Buffer, new

LEMMA AppendIsBuffer ==
  ASSUME NEW ms, Buffer(ms), NEW m \in Message,
         m.role = "result" => Leads(ms[Len(ms)], m.turn, m.call)
  PROVE  Buffer(Append(ms, m)) /\ Append(ms, m)[Len(Append(ms, m))] = m
<1>1. /\ ms \in Seq(Message) /\ Len(ms) \in Nat \ {0}
      /\ Append(ms, m) \in Seq(Message) /\ Len(Append(ms, m)) = Len(ms) + 1
      /\ \A i \in 1..Len(ms) : Append(ms, m)[i] = ms[i]
      /\ Append(ms, m)[Len(ms) + 1] = m
  BY DEF Buffer
<1> DEFINE new == Append(ms, m)
<1> HIDE DEF new
<1>2. Attached(new)
  <2> SUFFICES ASSUME NEW j \in 1..Len(ms) + 1, new[j].role = "result"
               PROVE  j > 1 /\ Leads(new[j - 1], new[j].turn, new[j].call)
    BY <1>1 DEF Attached, new
  <2>1. CASE j = Len(ms) + 1
    BY <1>1, <2>1 DEF new
  <2>2. CASE j # Len(ms) + 1
    <3>1. j \in 1..Len(ms) /\ new[j] = ms[j]
      BY <1>1, <2>2 DEF new
    <3>2. j > 1 /\ Leads(ms[j - 1], ms[j].turn, ms[j].call)
      BY <1>1, <3>1 DEF Buffer, Attached
    <3> QED
      BY <1>1, <3>1, <3>2 DEF new
  <2> QED
    BY <2>1, <2>2
<1> QED
  BY <1>1, <1>2 DEF Buffer, new

\* A reply to the first of the calls that are left.
LEMMA ReplyIsBuffer ==
  ASSUME NEW ms, Buffer(ms), NEW b \in Seq(Call), b # << >>, Consecutive(b),
         Leads(ms[Len(ms)], b[1].turn, b[1].call),
         NEW after \in {<< >>, << Said("warning") >>},
         NEW new, new = Append(ms, Result(b[1].turn, b[1].call)) \o after
  PROVE  /\ Buffer(new)
         /\ Tail(b) \in Seq(Call) /\ Consecutive(Tail(b))
         /\ Tail(b) # << >> => Leads(new[Len(new)], Tail(b)[1].turn, Tail(b)[1].call)
<1> DEFINE r == Result(b[1].turn, b[1].call)
<1>1. b[1] \in Call
  OBVIOUS
<1>2. b[1].turn \in Nat /\ b[1].call \in Nat
  BY <1>1 DEF Call
<1>3. r \in Message /\ r.turn = b[1].turn /\ r.call = b[1].call
  BY <1>2 DEF Message, Result
<1>4. Said("warning") \in Message /\ Said("warning").role = "warning"
  BY DEF Said, Message
<1>5. Buffer(Append(ms, r)) /\ Append(ms, r)[Len(Append(ms, r))] = r
  BY <1>3, AppendIsBuffer
<1>6. /\ Buffer(new)
      /\ new[Len(new)] = r \/ new[Len(new)].role = "warning"
  <2>1. CASE after = << >>
    <3>1. new = Append(ms, r)
      BY <1>5, <2>1 DEF Buffer
    <3> QED
      BY <1>5, <3>1
  <2>2. CASE after = << Said("warning") >>
    <3>1. new = Append(Append(ms, r), Said("warning"))
      BY <1>4, <1>5, <2>2 DEF Buffer
    <3>2. /\ Buffer(Append(Append(ms, r), Said("warning")))
          /\ Append(Append(ms, r), Said("warning"))
               [Len(Append(Append(ms, r), Said("warning")))] = Said("warning")
      <4>1. Said("warning").role # "result"
        BY <1>4
      <4> HIDE DEF r
      <4> QED
        BY <1>4, <1>5, <4>1, AppendIsBuffer
    <3> QED
      BY <1>4, <3>1, <3>2
  <2> QED
    BY <2>1, <2>2
<1>7. /\ Tail(b) \in Seq(Call) /\ DOMAIN Tail(b) = 1..Len(b) - 1
      /\ \A i \in 1..Len(b) - 1 : Tail(b)[i] = b[i + 1]
  OBVIOUS
<1> DEFINE left == Tail(b)
<1> HIDE DEF left
<1>8. ASSUME NEW i \in 1..Len(b) - 1
      PROVE  left[i].turn = b[1].turn /\ left[i].call = b[1].call + i
  <2>1. i + 1 \in DOMAIN b
    OBVIOUS
  <2>2. b[i + 1].turn = b[1].turn /\ b[i + 1].call = b[1].call + (i + 1) - 1
    BY <2>1 DEF Consecutive
  <2> QED
    BY <1>2, <1>7, <2>2 DEF left
<1>9. Consecutive(left)
  <2> SUFFICES ASSUME NEW i \in 1..Len(b) - 1
               PROVE  /\ left[i].turn = left[1].turn
                      /\ left[i].call = left[1].call + i - 1
    BY <1>7 DEF Consecutive, left
  <2>1. 1 \in 1..Len(b) - 1
    OBVIOUS
  <2>2. /\ left[1].turn = b[1].turn /\ left[1].call = b[1].call + 1
        /\ left[i].turn = b[1].turn /\ left[i].call = b[1].call + i
    BY <1>8, <2>1
  <2>3. i \in Int /\ b[1].call + i = (b[1].call + 1) + i - 1
    BY <1>2
  <2> QED
    BY <2>2, <2>3
<1>10. ASSUME left # << >>
       PROVE  Leads(new[Len(new)], left[1].turn, left[1].call)
  <2>1. left[1].turn = b[1].turn /\ left[1].call = b[1].call + 1
    <3>1. 1 \in 1..Len(b) - 1
      BY <1>10 DEF left
    <3> QED
      BY <1>8, <3>1
  <2>2. (b[1].call + 1) - 1 = b[1].call
    BY <1>2
  <2> QED
    BY <1>6, <2>1, <2>2 DEF Leads
<1> QED
  BY <1>6, <1>7, <1>9, <1>10 DEF left

-----------------------------------------------------------------------------
(* The loop keeps its buffer in order.                                     *)

\* What a loop relies on: a buffer, and before it handles a call, that the
\* result will be in its place.
Ready(p, ms, b) ==
  /\ Buffer(ms) /\ Consecutive(b)
  /\ p \in {"calls", "agent"} => b # << >> /\ Leads(ms[Len(ms)], b[1].turn, b[1].call)

BufferInv ==
  /\ TypeOK
  /\ phase["main"] # "off"
  /\ phase["main"] # "agent" => phase["sub"] = "off"
  /\ \A l \in Loop : phase[l] # "off" => Ready(phase[l], messages[l], batch[l])
  /\ phase["sub"] = "off" => batch["sub"] = << >>

LEMMA BufferInit == Init => BufferInv
<1> SUFFICES ASSUME Init PROVE BufferInv
  OBVIOUS
<1>1. PICK n \in 0..MaxPrior : messages = [l \in Loop |->
        IF l = "main" THEN [i \in 1..n + 1 |-> Said("text")] ELSE << >>]
  BY DEF Init
<1>2. n \in Nat /\ {StepBudget, RecoveryBudget} \subseteq Nat
  BY ToolLoopAssumption
<1> DEFINE ms == [i \in 1..n + 1 |-> Said("text")]
<1>3. Said("text") \in Message /\ Said("text").role # "result"
  BY DEF Said, Message
<1>4. ms \in Seq(Message) /\ ms # << >>
  BY <1>2, <1>3
<1>5. Buffer(ms)
  BY <1>2, <1>3, <1>4 DEF Buffer, Attached
<1>6. Consecutive(<< >>)
  BY DEF Consecutive
<1> HIDE DEF ms
<1>7. messages["main"] = ms /\ messages["sub"] = << >>
  BY <1>1 DEF Loop, ms
<1>8. messages \in [Loop -> Seq(Message)]
  BY <1>1, <1>4 DEF Loop, ms
<1>9. TypeOK
  BY <1>2, <1>8 DEF Init, TypeOK, Phase
<1> QED
  BY <1>5, <1>6, <1>7, <1>9 DEF Init, BufferInv, Ready, Loop

LEMMA CompactionIsSafe ==
  ASSUME TypeOK, NEW l \in Loop, Buffer(messages[l]), RunCompaction(l)
  PROVE  /\ Buffer(messages'[l])
         /\ messages' = [messages EXCEPT ![l] = messages'[l]]
         /\ failures' \in [Loop -> Nat]
<1> DEFINE ms == messages[l]
           k == TailSplit(ms)
<1>1. messages \in [Loop -> Seq(Message)] /\ failures \in [Loop -> Nat] /\ ms \in Seq(Message)
  BY DEF TypeOK
<1>2. Retain \in Nat /\ Retain >= 5 /\ MaxSummary \in Nat
  BY ToolLoopAssumption
<1>3. CASE ~Compactable(ms)
  BY <1>1, <1>3 DEF RunCompaction
<1>4. CASE Compactable(ms)
  <2>1. Len(ms) - Retain + 1 \in 2..Len(ms)
    BY <1>1, <1>2, <1>4 DEF Compactable
  <2>2. k \in 2..Len(ms) /\ ms[k].role # "result"
    BY <1>1, <1>2, <1>4, <2>1, SplitIsSound DEF Compactable, TailSplit
  <2> HIDE DEF k
  <2>3. \A n \in Nat : Buffer(Collapsed(ms, k, n))
    BY <2>2, CollapsedIsBuffer
  <2>4. PICK n \in Nat : messages' = [messages EXCEPT ![l] = Collapsed(ms, k, n)]
    BY <1>2, <1>4 DEF RunCompaction, k
  <2>5. failures' \in [Loop -> Nat]
    <3>1. \/ failures' = failures
          \/ failures' = [failures EXCEPT ![l] = 0]
          \/ failures' = [failures EXCEPT ![l] = @ + 1]
      BY <1>4 DEF RunCompaction
    <3>2. failures[l] + 1 \in Nat
      BY <1>1
    <3>3. CASE failures' = failures
      BY <1>1, <3>3
    <3>4. CASE failures' = [failures EXCEPT ![l] = 0]
      BY <1>1, <3>4
    <3>5. CASE failures' = [failures EXCEPT ![l] = @ + 1]
      BY <1>1, <3>2, <3>5
    <3> QED
      BY <3>1, <3>3, <3>4, <3>5
  <2> QED
    BY <1>1, <2>3, <2>4, <2>5
<1> QED
  BY <1>3, <1>4

LEMMA MidCompactionIsSafe ==
  ASSUME NEW ms, Buffer(ms)
  PROVE  Buffer(MidCompacted(ms))
<1>1. ms \in Seq(Message) /\ Len(ms) \in Nat
  BY DEF Buffer
<1>2. CASE Len(ms) < 3 \/ HalfSplit(ms) <= 2
  BY <1>2 DEF MidCompacted
<1>3. CASE ~(Len(ms) < 3 \/ HalfSplit(ms) <= 2)
  <2>1. 2 + Len(ms) \div 2 \in 2..Len(ms)
    BY <1>1, <1>3
  <2>2. HalfSplit(ms) \in 2..Len(ms) /\ ms[HalfSplit(ms)].role # "result"
    BY <1>1, <1>3, <2>1, SplitIsSound DEF HalfSplit
  <2> QED
    BY <1>3, <2>2, CollapsedIsBuffer DEF MidCompacted
<1> QED
  BY <1>2, <1>3

\* The part of the type invariant that is about numbers and flags.
Counters ==
  /\ budget \in [Loop -> Nat]
  /\ recovery \in [Loop -> Nat]
  /\ reactive \in [Loop -> BOOLEAN]
  /\ failures \in [Loop -> Nat]
  /\ turns \in Nat
  /\ unpaid \in [Loop -> Nat]

Running == {"turn", "attempt", "call", "calls", "compact", "answered", "asked", "failed"}

LEMMA LessIsNat ==
  ASSUME NEW s \in Nat
  PROVE  Less(s, 1) \in Nat
<1>1. CASE s < 1
  BY <1>1 DEF Less
<1>2. CASE ~(s < 1)
  BY <1>2 DEF Less
<1> QED
  BY <1>1, <1>2

LEMMA OneLoopMoves ==
  ASSUME BufferInv, NEW l \in Loop, phase[l] \in Running,
         NEW p \in Running, phase' = [phase EXCEPT ![l] = p],
         NEW ms, messages' = [messages EXCEPT ![l] = ms],
         NEW b \in Seq(Call), batch' = [batch EXCEPT ![l] = b],
         Ready(p, ms, b), Counters'
  PROVE  BufferInv'
<1>1. /\ phase \in [Loop -> Phase] /\ messages \in [Loop -> Seq(Message)]
      /\ batch \in [Loop -> Seq(Call)]
  BY DEF BufferInv, TypeOK
<1>2. ms \in Seq(Message)
  BY DEF Ready, Buffer
<1>3. /\ phase' \in [Loop -> Phase] /\ messages' \in [Loop -> Seq(Message)]
      /\ batch' \in [Loop -> Seq(Call)]
  BY <1>1, <1>2 DEF Running, Phase, Ended
<1>4. TypeOK'
  BY <1>3 DEF TypeOK, Counters
<1>5. ASSUME NEW k \in Loop, phase'[k] # "off"
      PROVE  Ready(phase'[k], messages'[k], batch'[k])
  <2>1. CASE k = l
    <3>1. phase'[k] = p /\ messages'[k] = ms /\ batch'[k] = b
      BY <1>1, <2>1
    <3> QED
      BY <3>1
  <2>2. CASE k # l
    <3>1. phase'[k] = phase[k] /\ messages'[k] = messages[k] /\ batch'[k] = batch[k]
      BY <1>1, <2>2
    <3>2. Ready(phase[k], messages[k], batch[k])
      BY <1>5, <3>1 DEF BufferInv
    <3> QED
      BY <3>1, <3>2
  <2> QED
    BY <2>1, <2>2
<1>6. /\ phase'["main"] # "off"
      /\ phase'["main"] # "agent" => phase'["sub"] = "off"
  BY <1>1 DEF BufferInv, Loop, Running
<1>7. phase'["sub"] = "off" => batch'["sub"] = << >>
  BY <1>1 DEF BufferInv, Loop, Running
<1> QED
  BY <1>4, <1>5, <1>6, <1>7 DEF BufferInv

\* A step that leaves the buffer and the calls of the loop as they are.
LEMMA OnlyPhaseMoves ==
  ASSUME BufferInv, NEW l \in Loop, phase[l] \in Running,
         NEW p \in Running \ {"calls"}, phase' = [phase EXCEPT ![l] = p],
         UNCHANGED << messages, batch >>, Counters'
  PROVE  BufferInv'
<1>1. /\ messages \in [Loop -> Seq(Message)] /\ batch \in [Loop -> Seq(Call)]
      /\ Ready(phase[l], messages[l], batch[l])
  BY DEF BufferInv, TypeOK, Running
<1>2. Ready(p, messages[l], batch[l])
  BY <1>1 DEF Ready, Running
<1>3. /\ messages' = [messages EXCEPT ![l] = messages[l]]
      /\ batch' = [batch EXCEPT ![l] = batch[l]]
  BY <1>1
<1>4. batch[l] \in Seq(Call) /\ p \in Running
  BY <1>1
<1> QED
  BY <1>2, <1>3, <1>4, OneLoopMoves

\* A step that only puts another buffer in place.
LEMMA OnlyBufferMoves ==
  ASSUME BufferInv, NEW l \in Loop, phase[l] \in Running,
         NEW p \in Running \ {"calls"}, phase' = [phase EXCEPT ![l] = p],
         NEW ms, messages' = [messages EXCEPT ![l] = ms], Buffer(ms),
         UNCHANGED batch, Counters'
  PROVE  BufferInv'
<1>1. /\ batch \in [Loop -> Seq(Call)]
      /\ Ready(phase[l], messages[l], batch[l])
  BY DEF BufferInv, TypeOK, Running
<1>2. Ready(p, ms, batch[l])
  BY <1>1 DEF Ready, Running
<1>3. batch' = [batch EXCEPT ![l] = batch[l]]
  BY <1>1
<1>4. batch[l] \in Seq(Call) /\ p \in Running
  BY <1>1
<1> QED
  BY <1>2, <1>3, <1>4, OneLoopMoves

LEMMA ReplyMoves ==
  ASSUME BufferInv, NEW l \in Loop, phase[l] = "calls",
         NEW after \in {<< >>, << Said("warning") >>}, Reply(l, after),
         Goto(l, AfterReply(l)), Counters'
  PROVE  BufferInv'
<1> DEFINE b == batch[l]
           new == Append(messages[l], Result(b[1].turn, b[1].call)) \o after
<1>1. /\ Buffer(messages[l]) /\ Consecutive(b) /\ b # << >> /\ b \in Seq(Call)
      /\ Leads(messages[l][Len(messages[l])], b[1].turn, b[1].call)
  BY DEF BufferInv, Ready, TypeOK
<1>2. /\ Buffer(new)
      /\ Tail(b) \in Seq(Call) /\ Consecutive(Tail(b))
      /\ Tail(b) # << >> => Leads(new[Len(new)], Tail(b)[1].turn, Tail(b)[1].call)
  <2> HIDE DEF b
  <2> QED
    BY <1>1, ReplyIsBuffer
<1>3. Head(b) = b[1]
  BY <1>1
<1>4. /\ messages' = [messages EXCEPT ![l] = new]
      /\ batch' = [batch EXCEPT ![l] = Tail(b)]
  BY <1>3 DEF Reply, BufferInv, TypeOK
<1>5. AfterReply(l) \in Running /\ (AfterReply(l) = "calls" => Tail(b) # << >>)
  <2>1. Len(b) # 1 => Tail(b) # << >>
    <3> HIDE DEF b
    <3>1. Len(Tail(b)) = Len(b) - 1 /\ Len(b) \in Nat \ {0}
      BY <1>1
    <3>2. Len(<< >>) = 0
      OBVIOUS
    <3> QED
      BY <3>1, <3>2
  <2> QED
    BY <2>1 DEF AfterReply, Running
<1> HIDE DEF b, new
<1>6. Ready(AfterReply(l), new, Tail(b))
  BY <1>2, <1>5 DEF Ready, Running
<1> QED
  BY <1>2, <1>4, <1>5, <1>6, OneLoopMoves DEF Goto, Running

LEMMA StepKeepsBuffer ==
  ASSUME BufferInv, NEW l \in Loop, Step(l)
  PROVE  BufferInv'
<1>1. Counters /\ TypeOK
  BY DEF BufferInv, TypeOK, Counters
<1>2. CASE Exhausted(l)
  <2>1. PICK p \in {"failed"} : phase' = [phase EXCEPT ![l] = p]
    BY <1>2 DEF Exhausted, Finish, Goto
  <2>2. phase[l] \in Running /\ UNCHANGED << messages, batch >>
    BY <1>2 DEF Exhausted, Finish, Goto, Running
  <2>3. Counters'
    BY <1>1, <1>2 DEF Exhausted, Finish, Goto, Counters, Less
  <2> QED
    BY <2>1, <2>2, <2>3, OnlyPhaseMoves DEF Running
<1>3. CASE BeginTurn(l)
  <2>1. PICK p \in {"attempt"} : phase' = [phase EXCEPT ![l] = p]
    BY <1>3 DEF BeginTurn, Goto
  <2>2. phase[l] \in Running /\ UNCHANGED << messages, batch >>
    BY <1>3 DEF BeginTurn, Goto, Running
  <2>3. Counters'
    BY <1>1, <1>3 DEF BeginTurn, Goto, Counters
  <2> QED
    BY <2>1, <2>2, <2>3, OnlyPhaseMoves DEF Running
<1>4. CASE Preflight(l)
  <2>1. /\ phase' = [phase EXCEPT ![l] = "call"] /\ phase[l] \in Running
        /\ UNCHANGED batch
    BY <1>4 DEF Preflight, Goto, Running
  <2>2. Buffer(messages[l])
    BY <2>1 DEF BufferInv, Ready, Running
  <2>3. \/ messages' = [messages EXCEPT ![l] = messages[l]]
        \/ messages' = [messages EXCEPT ![l] = MidCompacted(messages[l])]
    BY <1>1, <1>4 DEF Preflight, TypeOK
  <2>4. Counters'
    BY <1>1, <1>4 DEF Preflight, Counters
  <2> QED
    BY <2>1, <2>2, <2>3, <2>4, MidCompactionIsSafe, OnlyBufferMoves DEF Running
<1>5. CASE Answer(l)
  <2>1. PICK p \in {"answered", "failed"} : phase' = [phase EXCEPT ![l] = p]
    BY <1>5 DEF Answer, Finish, Goto
  <2>2. phase[l] \in Running /\ UNCHANGED << messages, batch >>
    BY <1>5 DEF Answer, Finish, Goto, Running
  <2>3. Counters'
    BY <1>1, <1>5 DEF Answer, Finish, Goto, Counters, Less
  <2> QED
    BY <2>1, <2>2, <2>3, OnlyPhaseMoves DEF Running
<1>6. CASE AskUser(l)
  <2>1. PICK p \in {"asked"} : phase' = [phase EXCEPT ![l] = p]
    BY <1>6 DEF AskUser, Goto
  <2>2. phase[l] \in Running /\ UNCHANGED << messages, batch >>
    BY <1>6 DEF AskUser, Goto, Running
  <2>3. Counters'
    BY <1>1, <1>6 DEF AskUser, Goto, Counters
  <2> QED
    BY <2>1, <2>2, <2>3, OnlyPhaseMoves DEF Running
<1>7. CASE Respond(l)
  <2>1. PICK n \in 1..MaxBatch, kinds \in [1..MaxBatch -> Kind] :
          /\ messages' = [messages EXCEPT ![l] =
               Append(@, [role |-> "assistant", turn |-> turns + 1, call |-> n])]
          /\ batch' = [batch EXCEPT ![l] =
               [c \in 1..n |-> [turn |-> turns + 1, call |-> c, kind |-> kinds[c]]]]
    BY <1>7 DEF Respond
  <2> DEFINE m == [role |-> "assistant", turn |-> turns + 1, call |-> n]
             b == [c \in 1..n |-> [turn |-> turns + 1, call |-> c, kind |-> kinds[c]]]
             ms == Append(messages[l], m)
  <2>2. MaxBatch \in Nat /\ turns + 1 \in Nat
    BY <1>1, ToolLoopAssumption DEF TypeOK
  <2>3. m \in Message /\ m.role = "assistant" /\ m.turn = turns + 1
    BY <2>2 DEF Message
  <2>4. \A c \in 1..n : [turn |-> turns + 1, call |-> c, kind |-> kinds[c]] \in Call
    BY <2>2 DEF Call
  <2>5. b \in Seq(Call) /\ b # << >> /\ b[1].turn = turns + 1
    BY <2>2, <2>4
  <2>6. Consecutive(b)
    BY <2>2 DEF Consecutive
  <2>7. Buffer(messages[l]) /\ phase[l] \in Running
    BY <1>7 DEF Respond, BufferInv, Ready, Running
  <2> HIDE DEF m, b
  <2>8. Buffer(ms) /\ ms[Len(ms)] = m
    BY <2>3, <2>7, AppendIsBuffer
  <2>9. messages' = [messages EXCEPT ![l] = ms] /\ batch' = [batch EXCEPT ![l] = b]
    BY <2>1 DEF m, b
  <2> HIDE DEF ms
  <2>10. Ready("calls", ms, b)
    BY <2>3, <2>5, <2>6, <2>8 DEF Ready, Leads
  <2>11. phase' = [phase EXCEPT ![l] = "calls"]
    BY <1>7 DEF Respond, Goto
  <2>12. Counters'
    BY <1>1, <1>7, <2>2 DEF Respond, Counters
  <2> QED
    BY <2>5, <2>7, <2>9, <2>10, <2>11, <2>12, OneLoopMoves DEF Running
<1>8. CASE Overflow(l)
  <2>1. /\ phase' = [phase EXCEPT ![l] = "attempt"] /\ phase[l] \in Running
        /\ UNCHANGED batch /\ RunCompaction(l)
    BY <1>8 DEF Overflow, Goto, Running
  <2>2. Buffer(messages[l])
    BY <2>1 DEF BufferInv, Ready, Running
  <2>3. /\ Buffer(messages'[l])
        /\ messages' = [messages EXCEPT ![l] = messages'[l]]
        /\ failures' \in [Loop -> Nat]
    BY <1>1, <2>1, <2>2, CompactionIsSafe
  <2>4. Counters'
    BY <1>1, <1>8, <2>3 DEF Overflow, Counters
  <2> QED
    BY <2>1, <2>3, <2>4, OnlyBufferMoves DEF Running
<1>9. CASE CallFailed(l)
  <2>1. PICK p \in {"failed"} : phase' = [phase EXCEPT ![l] = p]
    BY <1>9 DEF CallFailed, Finish, Goto
  <2>2. phase[l] \in Running /\ UNCHANGED << messages, batch >>
    BY <1>9 DEF CallFailed, Finish, Goto, Running
  <2>3. Counters'
    BY <1>1, <1>9 DEF CallFailed, Finish, Goto, Counters, Less
  <2> QED
    BY <2>1, <2>2, <2>3, OnlyPhaseMoves DEF Running
<1>10. CASE RepliesAtOnce(l)
  <2>1. Counters'
    BY <1>1, <1>10 DEF RepliesAtOnce, Charge, Counters, Less
  <2> QED
    BY <1>10, <2>1, ReplyMoves DEF RepliesAtOnce
<1>11. CASE RunTool(l)
  <2>1. PICK outcome \in {"ok", "error", "final error", "ambiguous"} :
          \E after \in {<< >>, << Said("warning") >>} :
            /\ recovery' = [recovery EXCEPT ![l] =
                 IF outcome = "error" THEN Less(recovery[l], 1) ELSE recovery[l]]
            /\ Reply(l, after)
    BY <1>11 DEF RunTool
  <2>2. recovery' \in [Loop -> Nat]
    <3>1. recovery[l] \in Nat
      BY <1>1 DEF Counters
    <3>2. Less(recovery[l], 1) \in Nat
      BY <3>1, LessIsNat
    <3> QED
      BY <1>1, <2>1, <3>1, <3>2 DEF Counters
  <2>3. Counters'
    <3>1. /\ Charge(l) /\ UNCHANGED << reactive, failures, turns >>
      BY <1>11 DEF RunTool
    <3>2. Less(budget[l], 1) \in Nat
      <4>1. budget[l] \in Nat
        BY <1>1 DEF Counters
      <4> QED
        BY <4>1, LessIsNat
    <3>3. budget' \in [Loop -> Nat] /\ unpaid' \in [Loop -> Nat]
      BY <1>1, <3>1, <3>2 DEF Charge, Counters
    <3> QED
      BY <1>1, <2>2, <3>1, <3>3 DEF Counters
  <2>4. phase[l] = "calls" /\ Goto(l, AfterReply(l))
    BY <1>11 DEF RunTool, Handles
  <2> QED
    BY <2>1, <2>3, <2>4, ReplyMoves
<1>12. CASE MaybeCompact(l)
  <2>1. /\ phase' = [phase EXCEPT ![l] = "turn"] /\ phase[l] \in Running
        /\ UNCHANGED << batch, budget, recovery, reactive, turns, unpaid >>
    BY <1>12 DEF MaybeCompact, Goto, Running
  <2>2. CASE UNCHANGED << messages, failures >>
    <3>1. Counters'
      BY <1>1, <2>1, <2>2 DEF Counters
    <3> QED
      BY <2>1, <2>2, <3>1, OnlyPhaseMoves DEF Running
  <2>3. CASE RunCompaction(l)
    <3>1. Buffer(messages[l])
      BY <2>1 DEF BufferInv, Ready, Running
    <3>2. /\ Buffer(messages'[l])
          /\ messages' = [messages EXCEPT ![l] = messages'[l]]
          /\ failures' \in [Loop -> Nat]
      BY <1>1, <2>3, <3>1, CompactionIsSafe
    <3>3. Counters'
      BY <1>1, <2>1, <3>2 DEF Counters
    <3> QED
      BY <2>1, <3>2, <3>3, OnlyBufferMoves DEF Running
  <2> QED
    BY <1>12, <2>2, <2>3 DEF MaybeCompact
<1> QED
  BY <1>2, <1>3, <1>4, <1>5, <1>6, <1>7, <1>8, <1>9, <1>10, <1>11, <1>12 DEF Step

LEMMA SpawnKeepsBuffer ==
  ASSUME BufferInv, Spawn
  PROVE  BufferInv'
<1>1. /\ phase \in [Loop -> Phase] /\ messages \in [Loop -> Seq(Message)]
      /\ batch \in [Loop -> Seq(Call)] /\ budget \in [Loop -> Nat]
      /\ recovery \in [Loop -> Nat] /\ unpaid \in [Loop -> Nat]
      /\ SubSteps \in Nat /\ RecoveryBudget \in Nat
  BY ToolLoopAssumption DEF BufferInv, TypeOK
<1>2. /\ phase["main"] = "calls"
      /\ phase' = [phase EXCEPT !["main"] = "agent", !["sub"] = "turn"]
      /\ messages' = [messages EXCEPT !["sub"] = << Said("text") >>]
      /\ recovery' = [recovery EXCEPT !["sub"] = RecoveryBudget]
      /\ unpaid' = [unpaid EXCEPT !["main"] = 0]
      /\ UNCHANGED << batch, reactive, failures, turns >>
  BY DEF Spawn, Handles
<1>3. budget' \in [Loop -> Nat]
  <2>1. budget["main"] \in Nat
    BY <1>1 DEF Loop
  <2> DEFINE left == Less(budget["main"], 1)
             given == IF left < SubSteps THEN left ELSE SubSteps
  <2>2. budget' = [budget EXCEPT !["main"] = left - given, !["sub"] = given]
    BY DEF Spawn
  <2>3. left \in Nat
    BY <2>1, LessIsNat
  <2> HIDE DEF left
  <2>4. given \in Nat /\ left - given \in Nat
    BY <1>1, <2>3
  <2> QED
    BY <1>1, <2>2, <2>4
<1>4. Said("text") \in Message /\ Said("text").role # "result"
  BY DEF Said, Message
<1> DEFINE ms == << Said("text") >>
<1>5. ms \in Seq(Message) /\ Len(ms) = 1 /\ ms[1] = Said("text")
  BY <1>4
<1> HIDE DEF ms
<1>6. Buffer(ms)
  BY <1>4, <1>5 DEF Buffer, Attached
<1>7. messages' \in [Loop -> Seq(Message)] /\ phase' \in [Loop -> Phase]
  BY <1>1, <1>2, <1>5 DEF ms, Phase, Ended
<1>8. TypeOK'
  BY <1>1, <1>2, <1>3, <1>7 DEF TypeOK, BufferInv
<1>9. phase'["main"] = "agent" /\ phase'["sub"] = "turn"
  BY <1>1, <1>2 DEF Loop
<1>10. Ready(phase'["main"], messages'["main"], batch'["main"])
  BY <1>1, <1>2, <1>9 DEF Ready, BufferInv, Loop
<1>11. Consecutive(batch["sub"])
  <2>1. batch["sub"] = << >>
    BY <1>2 DEF BufferInv
  <2> QED
    BY <2>1 DEF Consecutive
<1>12. Ready(phase'["sub"], messages'["sub"], batch'["sub"])
  <2>1. messages'["sub"] = ms /\ batch'["sub"] = batch["sub"]
    BY <1>1, <1>2 DEF Loop, ms
  <2> QED
    BY <1>6, <1>9, <1>11, <2>1 DEF Ready
<1> QED
  BY <1>8, <1>9, <1>10, <1>12 DEF BufferInv, Loop

LEMMA ReturnKeepsBuffer ==
  ASSUME BufferInv, SubAgentReturns
  PROVE  BufferInv'
<1> DEFINE ms == messages["main"]
           b == batch["main"]
           new == Append(ms, Result(b[1].turn, b[1].call))
<1>1. /\ phase \in [Loop -> Phase] /\ messages \in [Loop -> Seq(Message)]
      /\ batch \in [Loop -> Seq(Call)] /\ phase["main"] = "agent"
      /\ ms \in Seq(Message)
  BY DEF BufferInv, TypeOK, SubAgentReturns, Loop
<1>2. /\ Buffer(ms) /\ Consecutive(b) /\ b # << >> /\ b \in Seq(Call)
      /\ Leads(ms[Len(ms)], b[1].turn, b[1].call)
  BY <1>1 DEF BufferInv, Ready, Loop
<1>3. new = new \o << >>
  <2>1. Result(b[1].turn, b[1].call) \in Message
    <3>1. b[1] \in Call
      BY <1>2
    <3> QED
      BY <3>1 DEF Result, Message, Call
  <2> QED
    BY <1>1, <2>1
<1>4. /\ Buffer(new)
      /\ Tail(b) \in Seq(Call) /\ Consecutive(Tail(b))
      /\ Tail(b) # << >> => Leads(new[Len(new)], Tail(b)[1].turn, Tail(b)[1].call)
  <2> HIDE DEF b, ms
  <2> QED
    BY <1>2, <1>3, ReplyIsBuffer
<1>5. Len(b) # 1 => Tail(b) # << >>
  <2> HIDE DEF b
  <2>1. Len(Tail(b)) = Len(b) - 1 /\ Len(b) \in Nat \ {0}
    BY <1>2
  <2>2. Len(<< >>) = 0
    OBVIOUS
  <2> QED
    BY <2>1, <2>2
<1>6. Head(b) = b[1]
  BY <1>2
<1>7. /\ messages' = [messages EXCEPT !["main"] = new, !["sub"] = << >>]
      /\ batch' = [batch EXCEPT !["main"] = Tail(b), !["sub"] = << >>]
      /\ phase' = [phase EXCEPT !["main"] = AfterReply("main"), !["sub"] = "off"]
  BY <1>1, <1>6 DEF SubAgentReturns
<1>8. /\ AfterReply("main") \in {"compact", "calls"}
      /\ AfterReply("main") = "calls" => Tail(b) # << >>
  BY <1>5 DEF AfterReply
<1> HIDE DEF ms, b, new
<1>9. /\ phase'["main"] = AfterReply("main") /\ phase'["sub"] = "off"
      /\ messages'["main"] = new /\ batch'["main"] = Tail(b)
      /\ batch'["sub"] = << >>
  BY <1>1, <1>7 DEF Loop
<1>10. Ready(phase'["main"], messages'["main"], batch'["main"])
  BY <1>4, <1>8, <1>9 DEF Ready
<1>11. new \in Seq(Message)
  BY <1>4 DEF Buffer
<1>12. /\ phase' \in [Loop -> Phase] /\ messages' \in [Loop -> Seq(Message)]
       /\ batch' \in [Loop -> Seq(Call)]
  <2>1. << >> \in Seq(Message) /\ << >> \in Seq(Call)
    OBVIOUS
  <2>2. "off" \in Phase /\ AfterReply("main") \in Phase
    BY <1>8 DEF Phase
  <2> QED
    BY <1>1, <1>4, <1>7, <1>11, <2>1, <2>2
<1>13. TypeOK'
  BY <1>12 DEF TypeOK, BufferInv, SubAgentReturns
<1> QED
  BY <1>8, <1>9, <1>10, <1>13 DEF BufferInv, Loop

LEMMA BufferAlways == Spec => []BufferInv
<1>1. ASSUME BufferInv, [Next]_vars PROVE BufferInv'
  <2>1. CASE UNCHANGED vars
    BY <1>1, <2>1 DEF BufferInv, TypeOK, vars
  <2> QED
    BY <1>1, <2>1, StepKeepsBuffer, SpawnKeepsBuffer, ReturnKeepsBuffer DEF Next
<1> QED
  BY <1>1, BufferInit, PTL DEF Spec

(* The type invariant of the loop, for all constants: no budget underflows *)
(* and no split of a buffer lies outside it.                               *)
THEOREM ToolLoopTypeCorrect == Spec => []TypeOK
<1>1. BufferInv => TypeOK
  BY DEF BufferInv
<1> QED
  BY <1>1, BufferAlways, PTL

(* Whatever is compacted, and how often: a result that a model sees stands *)
(* behind its answer, an earlier result of it or a warning.                *)
THEOREM ResultsAlwaysAttached == Spec => []ResultsAttached
<1>1. BufferInv => ResultsAttached
  <2> SUFFICES ASSUME BufferInv, NEW l \in Loop, phase[l] = "call",
                      NEW j \in Where(messages[l], "result")
               PROVE  \/ messages[l][j - 1].role = "warning"
                      \/ /\ messages[l][j - 1].role = "assistant"
                         /\ messages[l][j - 1].turn = messages[l][j].turn
                      \/ messages[l][j - 1]
                           = Result(messages[l][j].turn, messages[l][j].call - 1)
    BY DEF ResultsAttached, Sent
  <2>1. Attached(messages[l])
    BY DEF BufferInv, Ready, Buffer
  <2> QED
    BY <2>1 DEF Attached, Leads, Where
<1> QED
  BY <1>1, BufferAlways, PTL

-----------------------------------------------------------------------------
(* Every call gets its result, and one only.                               *)

Open(b, turn, c) == \E k \in DOMAIN b : b[k].turn = turn /\ b[k].call = c

\* No message and no open call is of a turn that is still to come.
Dated(ms, b, n) ==
  /\ \A i \in DOMAIN ms : ms[i].turn <= n
  /\ \A k \in DOMAIN b : b[k].turn <= n

\* No two results are the same, and an open call has none.
ResultsDiffer(ms, b) ==
  /\ \A i, j \in DOMAIN ms : ms[i].role = "result" /\ ms[i] = ms[j] => i = j
  /\ \A k \in DOMAIN b, j \in DOMAIN ms : ms[j] # Result(b[k].turn, b[k].call)

\* Of the calls of an answer, those that are not open have a result behind it.
OpenOrAnswered(ms, b) ==
  \A i \in DOMAIN ms : ms[i].role = "assistant" =>
    \A c \in 1..ms[i].call :
      \/ Open(b, ms[i].turn, c)
      \/ \E j \in DOMAIN ms : j > i /\ ms[j] = Result(ms[i].turn, c)

Answered(ms, b, n) ==
  /\ ms \in Seq(Message) /\ b \in Seq(Call) /\ n \in Nat
  /\ ms # << >> => ms[1].role = "text"
  /\ Dated(ms, b, n) /\ ResultsDiffer(ms, b) /\ OpenOrAnswered(ms, b)

AnsweredInv ==
  \A l \in Loop :
    /\ Answered(messages[l], batch[l], turns)
    /\ phase[l] \notin {"calls", "agent"} => batch[l] = << >>

LEMMA LaterTurnsAreAnswered ==
  ASSUME NEW ms, NEW b, NEW n, Answered(ms, b, n), NEW m \in Nat, m >= n
  PROVE  Answered(ms, b, m)
<1>1. ASSUME NEW i \in DOMAIN ms PROVE ms[i].turn \in Nat
  <2>1. ms[i] \in Message
    BY DEF Answered
  <2> QED
    BY <2>1 DEF Message
<1>2. ASSUME NEW k \in DOMAIN b PROVE b[k].turn \in Nat
  <2>1. b[k] \in Call
    BY DEF Answered
  <2> QED
    BY <2>1 DEF Call
<1>3. n \in Nat
  BY DEF Answered
<1>4. Dated(ms, b, m)
  BY <1>1, <1>2, <1>3 DEF Answered, Dated
<1> QED
  BY <1>4 DEF Answered

LEMMA CollapsedIsAnswered ==
  ASSUME NEW ms, NEW b, NEW t, Answered(ms, b, t),
         NEW k \in 2..Len(ms), NEW n \in Nat
  PROVE  Answered(Collapsed(ms, k, n), b, t)
<1> DEFINE new == Collapsed(ms, k, n)
           old(i) == i - n - 2 + k
<1>1. /\ ms \in Seq(Message) /\ Len(ms) \in Nat /\ b \in Seq(Call) /\ t \in Nat
      /\ ms # << >> /\ ms[1].role = "text" /\ DOMAIN ms = 1..Len(ms)
  BY DEF Answered
<1>2. /\ new \in Seq(Message) /\ Len(new) = n + 1 + Len(ms) - k + 1
      /\ new[1] = ms[1]
      /\ \A i \in 2..n + 1 : new[i] = Said("text")
      /\ \A i \in n + 2..Len(new) : new[i] = ms[old(i)]
  BY <1>1, CollapsedKeepsOrder
<1> HIDE DEF new
<1>3. DOMAIN new = 1..Len(new) /\ Len(new) \in Nat
  BY <1>2
<1>4. Said("text").role = "text" /\ Said("text").turn = 0
  BY DEF Said
<1>5. ASSUME NEW i \in DOMAIN new, new[i].role # "text"
      PROVE  i \in n + 2..Len(new) /\ old(i) \in DOMAIN ms /\ new[i] = ms[old(i)]
  <2>1. i # 1 /\ i \notin 2..n + 1
    BY <1>1, <1>2, <1>4, <1>5
  <2>2. i \in n + 2..Len(new)
    BY <1>3, <2>1
  <2>3. old(i) \in 1..Len(ms)
    BY SMTT(30), <1>1, <1>2, <2>2
  <2> QED
    BY <1>1, <1>2, <2>2, <2>3
<1>6. ASSUME NEW j \in DOMAIN ms, j >= k
      PROVE  /\ j - k + n + 2 \in DOMAIN new
             /\ new[j - k + n + 2] = ms[j]
  <2>0. j \in 1..Len(ms) /\ j \in Int /\ k \in Int /\ n \in Nat
    BY <1>1
  <2>1. PICK i \in n + 2..Len(new) : i = j - k + n + 2
    <3>1. j - k + n + 2 \in n + 2..Len(new)
      BY SMTT(30), <1>1, <1>2, <1>6, <2>0
    <3> QED
      BY <3>1
  <2>2. old(i) = j
    <3>1. (j - k + n + 2) - n - 2 + k = j
      BY <2>0
    <3> QED
      BY <2>1, <3>1
  <2>3. new[i] = ms[old(i)]
    BY <1>2
  <2>4. i \in DOMAIN new
    BY <1>3, <2>1
  <2> QED
    BY <2>1, <2>2, <2>3, <2>4
<1>7. Dated(new, b, t)
  <2> SUFFICES ASSUME NEW i \in DOMAIN new PROVE new[i].turn <= t
    BY DEF Dated, Answered
  <2>1. CASE i \in 2..n + 1
    BY <1>1, <1>2, <1>4, <2>1
  <2>2. CASE i = 1
    BY SMTT(30), <1>1, <1>2, <2>2 DEF Answered, Dated
  <2>3. CASE i \in n + 2..Len(new)
    <3>1. old(i) \in DOMAIN ms
      BY SMTT(30), <1>1, <1>2, <2>3
    <3> QED
      BY <1>2, <2>3, <3>1 DEF Answered, Dated
  <2> QED
    BY <1>3, <2>1, <2>2, <2>3
<1>8. ResultsDiffer(new, b)
  <2>1. ASSUME NEW i \in DOMAIN new, NEW j \in DOMAIN new,
               new[i].role = "result", new[i] = new[j]
        PROVE  i = j
    <3>1. /\ i \in n + 2..Len(new) /\ old(i) \in DOMAIN ms /\ new[i] = ms[old(i)]
          /\ j \in n + 2..Len(new) /\ old(j) \in DOMAIN ms /\ new[j] = ms[old(j)]
      BY <1>5, <2>1
    <3>2. old(i) = old(j)
      BY <2>1, <3>1 DEF Answered, ResultsDiffer
    <3>3. i \in Int /\ j \in Int
      BY <1>3
    <3> QED
      BY <1>1, <3>2, <3>3
  <2>2. ASSUME NEW c \in DOMAIN b, NEW j \in DOMAIN new,
               new[j] = Result(b[c].turn, b[c].call)
        PROVE  FALSE
    <3>1. new[j].role # "text"
      BY <2>2 DEF Result
    <3>2. old(j) \in DOMAIN ms /\ new[j] = ms[old(j)]
      BY <1>5, <3>1
    <3> QED
      BY <2>2, <3>2 DEF Answered, ResultsDiffer
  <2> QED
    BY <2>1, <2>2 DEF ResultsDiffer
<1>9. OpenOrAnswered(new, b)
  <2> SUFFICES ASSUME NEW i \in DOMAIN new, new[i].role = "assistant",
                      NEW c \in 1..new[i].call, ~ Open(b, new[i].turn, c)
               PROVE  \E j \in DOMAIN new : j > i /\ new[j] = Result(new[i].turn, c)
    BY DEF OpenOrAnswered
  <2>1. i \in n + 2..Len(new) /\ old(i) \in DOMAIN ms /\ new[i] = ms[old(i)]
    BY <1>5
  <2>2. PICK j \in DOMAIN ms : j > old(i) /\ ms[j] = Result(new[i].turn, c)
    BY <2>1 DEF Answered, OpenOrAnswered
  <2>3. i \in Int /\ i >= n + 2 /\ j \in Int
    BY <1>1, <1>3, <2>1
  <2>4. j >= k /\ j - k + n + 2 > i
    BY <2>2, <2>3
  <2> QED
    BY <1>6, <2>2, <2>4
<1> QED
  BY <1>1, <1>2, <1>7, <1>8, <1>9 DEF Answered, new

LEMMA ReplyIsAnswered ==
  ASSUME NEW ms, NEW b, NEW t, Answered(ms, b, t), ms # << >>,
         b # << >>, Consecutive(b),
         NEW after \in {<< >>, << Said("warning") >>}
  PROVE  Answered(Append(ms, Result(b[1].turn, b[1].call)) \o after, Tail(b), t)
<1> DEFINE r == Result(b[1].turn, b[1].call)
           new == Append(ms, r) \o after
           last == Len(ms) + 1
           left == Tail(b)
<1>1. /\ ms \in Seq(Message) /\ Len(ms) \in Nat /\ b \in Seq(Call) /\ t \in Nat
      /\ ms[1].role = "text" /\ DOMAIN ms = 1..Len(ms)
      /\ Dated(ms, b, t) /\ ResultsDiffer(ms, b) /\ OpenOrAnswered(ms, b)
  BY DEF Answered
<1>2. b[1] \in Call /\ 1 \in DOMAIN b
  BY <1>1
<1>3. /\ r \in Message /\ r.role = "result" /\ r.turn = b[1].turn /\ r.call = b[1].call
  BY <1>2 DEF Message, Result, Call
<1>4. Said("warning") \in Message /\ Said("warning").role = "warning" /\ Said("warning").turn = 0
  BY DEF Said, Message
<1> HIDE DEF r
<1>5. /\ new \in Seq(Message)
      /\ \A i \in DOMAIN ms : i \in DOMAIN new /\ new[i] = ms[i]
      /\ last \in DOMAIN new /\ new[last] = r
      /\ \A i \in DOMAIN new : i \in DOMAIN ms \/ i = last \/ new[i] = Said("warning")
  <2>1. /\ Append(ms, r) \in Seq(Message) /\ Len(Append(ms, r)) = last
        /\ \A i \in 1..Len(ms) : Append(ms, r)[i] = ms[i]
        /\ Append(ms, r)[last] = r
    BY <1>1, <1>3
  <2>2. CASE after = << >>
    <3>1. new = Append(ms, r)
      BY <2>1, <2>2
    <3> QED
      BY <1>1, <2>1, <3>1
  <2>3. CASE after = << Said("warning") >>
    <3>1. new = Append(Append(ms, r), Said("warning"))
      BY <1>4, <2>1, <2>3
    <3> HIDE DEF new
    <3> QED
      BY <1>1, <1>4, <2>1, <3>1
  <2> QED
    BY <2>2, <2>3
<1>6. /\ left \in Seq(Call) /\ DOMAIN left = 1..Len(b) - 1 /\ DOMAIN b = 1..Len(b)
      /\ \A i \in 1..Len(b) - 1 : i + 1 \in DOMAIN b /\ left[i] = b[i + 1]
      /\ Len(b) \in Nat
  BY <1>1
<1> HIDE DEF new, left
<1>7. Dated(new, left, t)
  <2>1. \A i \in DOMAIN new : new[i].turn <= t
    BY <1>1, <1>2, <1>3, <1>4, <1>5 DEF Dated
  <2>2. \A k \in DOMAIN left : left[k].turn <= t
    BY <1>1, <1>6 DEF Dated
  <2> QED
    BY <2>1, <2>2 DEF Dated
<1>8. ResultsDiffer(new, left)
  <2>1. \A j \in DOMAIN ms : ms[j] # r
    BY <1>1, <1>2 DEF ResultsDiffer, r
  <2>2. ASSUME NEW i \in DOMAIN new, NEW j \in DOMAIN new,
               new[i].role = "result", new[i] = new[j]
        PROVE  i = j
    <3>1. /\ i \in DOMAIN ms \/ i = last
          /\ j \in DOMAIN ms \/ j = last
      BY <1>4, <1>5, <2>2
    <3> QED
      BY <1>1, <1>5, <2>1, <2>2, <3>1 DEF ResultsDiffer
  <2>3. ASSUME NEW k \in DOMAIN left, NEW j \in DOMAIN new
        PROVE  new[j] # Result(left[k].turn, left[k].call)
    <3>1. k + 1 \in DOMAIN b /\ left[k] = b[k + 1] /\ k >= 1 /\ k \in Int
      BY <1>6
    <3>2. CASE j \in DOMAIN ms
      BY <1>1, <1>5, <3>1, <3>2 DEF ResultsDiffer
    <3>3. CASE j = last
      <4>1. left[k].call = b[1].call + (k + 1) - 1 /\ b[1].call \in Nat
        BY <1>2, <3>1 DEF Consecutive, Call
      <4>2. left[k].call # r.call
        BY <1>3, <3>1, <4>1
      <4> QED
        BY <1>5, <3>3, <4>2 DEF Result
    <3>4. CASE new[j] = Said("warning")
      BY <1>4, <3>4 DEF Result
    <3> QED
      BY <1>5, <3>2, <3>3, <3>4
  <2> QED
    BY <2>2, <2>3 DEF ResultsDiffer
<1>9. OpenOrAnswered(new, left)
  <2> SUFFICES ASSUME NEW i \in DOMAIN new, new[i].role = "assistant",
                      NEW c \in 1..new[i].call
               PROVE  \/ Open(left, new[i].turn, c)
                      \/ \E j \in DOMAIN new : j > i /\ new[j] = Result(new[i].turn, c)
    BY DEF OpenOrAnswered
  <2>1. i \in DOMAIN ms /\ new[i] = ms[i] /\ last > i
    BY SMTT(30), <1>1, <1>3, <1>4, <1>5
  <2>2. CASE \E j \in DOMAIN ms : j > i /\ ms[j] = Result(ms[i].turn, c)
    BY <1>5, <2>1, <2>2
  <2>3. CASE Open(b, ms[i].turn, c)
    <3>1. PICK k \in DOMAIN b : b[k].turn = ms[i].turn /\ b[k].call = c
      BY <2>3 DEF Open
    <3>2. CASE k = 1
      BY <1>5, <2>1, <3>1, <3>2 DEF r
    <3>3. CASE k # 1
      <4>1. k - 1 \in DOMAIN left /\ left[k - 1] = b[k]
        <5>1. k - 1 \in 1..Len(b) - 1 /\ (k - 1) + 1 = k
          BY <1>6, <3>3
        <5> QED
          BY <1>6, <5>1
      <4> QED
        BY <2>1, <3>1, <4>1 DEF Open
    <3> QED
      BY <3>2, <3>3
  <2> QED
    BY <1>1, <2>1, <2>2, <2>3 DEF OpenOrAnswered
<1>10. new # << >> /\ new[1] = ms[1]
  <2>1. 1 \in DOMAIN ms
    BY <1>1
  <2> QED
    BY <1>5, <2>1
<1> QED
  BY <1>1, <1>5, <1>6, <1>7, <1>8, <1>9, <1>10 DEF Answered, new, left, r

\* An answer whose calls are all open.
LEMMA ResponseIsAnswered ==
  ASSUME NEW ms, NEW t, Answered(ms, << >>, t), ms # << >>,
         NEW n \in Nat, NEW b \in Seq(Call), DOMAIN b = 1..n,
         \A c \in 1..n : b[c].turn = t + 1 /\ b[c].call = c,
         NEW m \in Message, m.role = "assistant", m.turn = t + 1, m.call = n
  PROVE  Answered(Append(ms, m), b, t + 1)
<1> DEFINE new == Append(ms, m)
           last == Len(ms) + 1
<1>1. /\ ms \in Seq(Message) /\ Len(ms) \in Nat /\ t \in Nat
      /\ ms[1].role = "text" /\ DOMAIN ms = 1..Len(ms)
      /\ Dated(ms, << >>, t) /\ ResultsDiffer(ms, << >>) /\ OpenOrAnswered(ms, << >>)
  BY DEF Answered
<1>2. /\ new \in Seq(Message) /\ DOMAIN new = 1..last
      /\ \A i \in DOMAIN ms : i \in DOMAIN new /\ new[i] = ms[i]
      /\ last \in DOMAIN new /\ new[last] = m
      /\ \A i \in DOMAIN new : i \in DOMAIN ms \/ i = last
  BY <1>1
<1> HIDE DEF new
<1>3. ASSUME NEW i \in DOMAIN ms PROVE ms[i].turn \in Nat /\ ms[i].turn <= t
  <2>1. ms[i] \in Message
    BY <1>1
  <2> QED
    BY <1>1, <2>1 DEF Message, Dated
<1>4. Dated(new, b, t + 1)
  <2>1. ASSUME NEW i \in DOMAIN new PROVE new[i].turn <= t + 1
    <3>1. CASE i \in DOMAIN ms
      BY <1>1, <1>2, <1>3, <3>1
    <3>2. CASE i = last
      BY <1>1, <1>2, <3>2
    <3> QED
      BY <1>2, <3>1, <3>2
  <2>2. \A c \in DOMAIN b : b[c].turn <= t + 1
    BY <1>1
  <2> QED
    BY <2>1, <2>2 DEF Dated
<1>5. ResultsDiffer(new, b)
  <2>1. ASSUME NEW i \in DOMAIN new, NEW j \in DOMAIN new,
               new[i].role = "result", new[i] = new[j]
        PROVE  i = j
    BY <1>1, <1>2, <2>1 DEF ResultsDiffer
  <2>2. ASSUME NEW c \in DOMAIN b, NEW j \in DOMAIN new
        PROVE  new[j] # Result(b[c].turn, b[c].call)
    <3>1. b[c].turn = t + 1
      OBVIOUS
    <3>2. CASE j \in DOMAIN ms
      BY <1>1, <1>2, <1>3, <3>1, <3>2 DEF Result
    <3>3. CASE j = last
      BY <1>2, <3>3 DEF Result
    <3> QED
      BY <1>2, <3>2, <3>3
  <2> QED
    BY <2>1, <2>2 DEF ResultsDiffer
<1>6. OpenOrAnswered(new, b)
  <2> SUFFICES ASSUME NEW i \in DOMAIN new, new[i].role = "assistant",
                      NEW c \in 1..new[i].call
               PROVE  \/ Open(b, new[i].turn, c)
                      \/ \E j \in DOMAIN new : j > i /\ new[j] = Result(new[i].turn, c)
    BY DEF OpenOrAnswered
  <2>1. CASE i \in DOMAIN ms
    <3>1. ~ Open(<< >>, ms[i].turn, c)
      BY DEF Open
    <3> QED
      BY <1>1, <1>2, <2>1, <3>1 DEF OpenOrAnswered
  <2>2. CASE i = last
    BY <1>2, <2>2 DEF Open
  <2> QED
    BY <1>2, <2>1, <2>2
<1>7. new # << >> /\ new[1] = ms[1]
  <2>1. 1 \in DOMAIN ms
    BY <1>1
  <2> QED
    BY <1>2, <2>1
<1> QED
  BY <1>1, <1>2, <1>4, <1>5, <1>6, <1>7 DEF Answered, new

-----------------------------------------------------------------------------
LEMMA AnsweredInit == Init => AnsweredInv
<1> SUFFICES ASSUME Init PROVE AnsweredInv
  OBVIOUS
<1>1. TypeOK
  BY BufferInit DEF BufferInv
<1>2. PICK n \in 0..MaxPrior : messages = [l \in Loop |->
        IF l = "main" THEN [i \in 1..n + 1 |-> Said("text")] ELSE << >>]
  BY DEF Init
<1>3. Said("text").role = "text" /\ Said("text").turn = 0
  BY DEF Said
<1>4. ASSUME NEW l \in Loop
      PROVE  \A i \in DOMAIN messages[l] : messages[l][i] = Said("text")
  BY <1>2 DEF Loop
<1>5. ASSUME NEW l \in Loop PROVE Answered(messages[l], << >>, 0)
  <2> DEFINE ms == messages[l]
  <2>1. ms \in Seq(Message) /\ (ms # << >> => 1 \in DOMAIN ms)
    BY <1>1 DEF TypeOK
  <2>2. \A i \in DOMAIN ms : ms[i].role = "text" /\ ms[i].turn = 0
    BY <1>3, <1>4
  <2> HIDE DEF ms
  <2> QED
    BY <2>1, <2>2 DEF Answered, Dated, ResultsDiffer, OpenOrAnswered, ms
<1> QED
  BY <1>5 DEF Init, AnsweredInv, Loop

LEMMA MidCompactionIsAnswered ==
  ASSUME NEW ms, NEW b, NEW t, Answered(ms, b, t)
  PROVE  Answered(MidCompacted(ms), b, t)
<1>1. ms \in Seq(Message) /\ Len(ms) \in Nat
  BY DEF Answered
<1>2. CASE Len(ms) < 3 \/ HalfSplit(ms) <= 2
  BY <1>2 DEF MidCompacted
<1>3. CASE ~(Len(ms) < 3 \/ HalfSplit(ms) <= 2)
  <2>1. 2 + Len(ms) \div 2 \in 2..Len(ms)
    BY <1>1, <1>3
  <2>2. HalfSplit(ms) \in 2..Len(ms)
    BY <1>1, <2>1, SplitIsSound DEF HalfSplit
  <2> QED
    BY <1>3, <2>2, CollapsedIsAnswered DEF MidCompacted
<1> QED
  BY <1>2, <1>3

LEMMA CompactionIsAnswered ==
  ASSUME TypeOK, NEW l \in Loop, NEW b, NEW t, Answered(messages[l], b, t),
         RunCompaction(l)
  PROVE  \E ms : Answered(ms, b, t) /\ messages' = [messages EXCEPT ![l] = ms]
<1> DEFINE ms == messages[l]
<1>1. messages \in [Loop -> Seq(Message)] /\ ms \in Seq(Message)
  BY DEF TypeOK
<1>2. Retain \in Nat /\ Retain >= 5 /\ MaxSummary \in Nat
  BY ToolLoopAssumption
<1>3. CASE ~Compactable(ms)
  <2>1. messages' = [messages EXCEPT ![l] = ms]
    BY <1>1, <1>3 DEF RunCompaction
  <2> QED
    BY <2>1
<1>4. CASE Compactable(ms)
  <2>1. Len(ms) - Retain + 1 \in 2..Len(ms)
    BY <1>1, <1>2, <1>4 DEF Compactable
  <2>2. TailSplit(ms) \in 2..Len(ms)
    BY <1>1, <2>1, SplitIsSound DEF TailSplit
  <2>3. PICK n \in Nat : messages' = [messages EXCEPT ![l] = Collapsed(ms, TailSplit(ms), n)]
    BY <1>2, <1>4 DEF RunCompaction
  <2>4. Answered(Collapsed(ms, TailSplit(ms), n), b, t)
    BY <2>2, CollapsedIsAnswered
  <2> QED
    BY <2>3, <2>4
<1> QED
  BY <1>3, <1>4

\* A step of one loop: the other one sees at most that turns have passed.
LEMMA OneLoopIsAnswered ==
  ASSUME BufferInv, AnsweredInv, NEW l \in Loop,
         NEW p, phase' = [phase EXCEPT ![l] = p],
         NEW ms, messages' = [messages EXCEPT ![l] = ms],
         NEW b, batch' = [batch EXCEPT ![l] = b],
         turns' \in Nat, turns' >= turns,
         Answered(ms, b, turns'), p \notin {"calls", "agent"} => b = << >>
  PROVE  AnsweredInv'
<1>1. /\ phase \in [Loop -> Phase] /\ messages \in [Loop -> Seq(Message)]
      /\ batch \in [Loop -> Seq(Call)]
  BY DEF BufferInv, TypeOK
<1>2. ASSUME NEW k \in Loop
      PROVE  /\ Answered(messages'[k], batch'[k], turns')
             /\ phase'[k] \notin {"calls", "agent"} => batch'[k] = << >>
  <2>1. CASE k = l
    BY <1>1, <2>1
  <2>2. CASE k # l
    <3>1. phase'[k] = phase[k] /\ messages'[k] = messages[k] /\ batch'[k] = batch[k]
      BY <1>1, <2>2
    <3>2. Answered(messages[k], batch[k], turns')
      BY LaterTurnsAreAnswered DEF AnsweredInv
    <3> QED
      BY <3>1, <3>2 DEF AnsweredInv
  <2> QED
    BY <2>1, <2>2
<1> QED
  BY <1>2 DEF AnsweredInv

\* A step that appends nothing: the buffer stays, or is compacted.
LEMMA QuietStepIsAnswered ==
  ASSUME BufferInv, AnsweredInv, NEW l \in Loop,
         NEW p, phase' = [phase EXCEPT ![l] = p],
         phase[l] \notin {"calls", "agent"}, UNCHANGED batch,
         turns' \in {turns, turns + 1},
         \/ UNCHANGED messages
         \/ messages' = [messages EXCEPT ![l] = MidCompacted(@)]
         \/ RunCompaction(l)
  PROVE  AnsweredInv'
<1>1. /\ messages \in [Loop -> Seq(Message)] /\ batch \in [Loop -> Seq(Call)]
      /\ turns \in Nat /\ TypeOK
  BY DEF BufferInv, TypeOK
<1>2. turns' \in Nat /\ turns' >= turns
  BY <1>1
<1>3. batch[l] = << >> /\ Answered(messages[l], batch[l], turns')
  BY <1>2, LaterTurnsAreAnswered DEF AnsweredInv
<1>4. PICK ms : Answered(ms, batch[l], turns') /\ messages' = [messages EXCEPT ![l] = ms]
  <2>1. CASE UNCHANGED messages
    <3>1. messages' = [messages EXCEPT ![l] = messages[l]]
      BY <1>1, <2>1
    <3> QED
      BY <1>3, <3>1
  <2>2. CASE messages' = [messages EXCEPT ![l] = MidCompacted(@)]
    <3>1. messages' = [messages EXCEPT ![l] = MidCompacted(messages[l])]
      BY <2>2
    <3> QED
      BY <1>3, <3>1, MidCompactionIsAnswered
  <2>3. CASE RunCompaction(l)
    BY <1>1, <1>3, <2>3, CompactionIsAnswered
  <2> QED
    BY <2>1, <2>2, <2>3
<1>5. batch' = [batch EXCEPT ![l] = batch[l]]
  BY <1>1
<1> QED
  BY <1>2, <1>3, <1>4, <1>5, OneLoopIsAnswered

LEMMA ReplyStepIsAnswered ==
  ASSUME BufferInv, AnsweredInv, NEW l \in Loop, phase[l] = "calls",
         NEW after \in {<< >>, << Said("warning") >>}, Reply(l, after),
         Goto(l, AfterReply(l)), UNCHANGED turns
  PROVE  AnsweredInv'
<1> DEFINE b == batch[l]
           ms == messages[l]
           new == Append(ms, Result(b[1].turn, b[1].call)) \o after
<1>1. /\ Buffer(ms) /\ Consecutive(b) /\ b # << >> /\ b \in Seq(Call)
      /\ turns \in Nat /\ ms # << >> /\ Answered(ms, b, turns)
  BY DEF BufferInv, Ready, TypeOK, AnsweredInv, Buffer
<1>2. Head(b) = b[1] /\ (Len(b) = 1 => Tail(b) = << >>)
  <2> HIDE DEF b
  <2>1. Tail(b) \in Seq(Call) /\ Len(Tail(b)) = Len(b) - 1
    BY <1>1
  <2> QED
    BY <1>1, <2>1
<1>3. Answered(new, Tail(b), turns')
  <2> HIDE DEF b, ms
  <2> QED
    BY <1>1, ReplyIsAnswered
<1>4. /\ messages' = [messages EXCEPT ![l] = new]
      /\ batch' = [batch EXCEPT ![l] = Tail(b)]
      /\ phase' = [phase EXCEPT ![l] = AfterReply(l)]
  BY <1>2 DEF Reply, Goto, BufferInv, TypeOK
<1>5. AfterReply(l) \notin {"calls", "agent"} => Tail(b) = << >>
  BY <1>2 DEF AfterReply
<1>6. turns' \in Nat /\ turns' >= turns
  BY <1>1
<1> HIDE DEF b, ms, new
<1> QED
  BY <1>3, <1>4, <1>5, <1>6, OneLoopIsAnswered

LEMMA StepIsAnswered ==
  ASSUME BufferInv, AnsweredInv, NEW l \in Loop, Step(l)
  PROVE  AnsweredInv'
<1>1. CASE Exhausted(l)
  BY <1>1, QuietStepIsAnswered DEF Exhausted, Finish, Goto
<1>2. CASE BeginTurn(l)
  BY <1>2, QuietStepIsAnswered DEF BeginTurn, Goto
<1>3. CASE Preflight(l)
  BY <1>3, QuietStepIsAnswered DEF Preflight, Goto
<1>4. CASE Answer(l)
  BY <1>4, QuietStepIsAnswered DEF Answer, Finish, Goto
<1>5. CASE AskUser(l)
  BY <1>5, QuietStepIsAnswered DEF AskUser, Goto
<1>6. CASE Overflow(l)
  BY <1>6, QuietStepIsAnswered DEF Overflow, Goto
<1>7. CASE CallFailed(l)
  BY <1>7, QuietStepIsAnswered DEF CallFailed, Finish, Goto
<1>8. CASE MaybeCompact(l)
  BY <1>8, QuietStepIsAnswered DEF MaybeCompact, Goto
<1>9. CASE RepliesAtOnce(l)
  BY <1>9, ReplyStepIsAnswered DEF RepliesAtOnce
<1>10. CASE RunTool(l)
  <2>1. PICK after \in {<< >>, << Said("warning") >>} : Reply(l, after)
    BY <1>10 DEF RunTool
  <2> QED
    BY <1>10, <2>1, ReplyStepIsAnswered DEF RunTool, Handles
<1>11. CASE Respond(l)
  <2>1. PICK n \in 1..MaxBatch, kinds \in [1..MaxBatch -> Kind] :
          /\ messages' = [messages EXCEPT ![l] =
               Append(@, [role |-> "assistant", turn |-> turns + 1, call |-> n])]
          /\ batch' = [batch EXCEPT ![l] =
               [c \in 1..n |-> [turn |-> turns + 1, call |-> c, kind |-> kinds[c]]]]
    BY <1>11 DEF Respond
  <2> DEFINE m == [role |-> "assistant", turn |-> turns + 1, call |-> n]
             b == [c \in 1..n |-> [turn |-> turns + 1, call |-> c, kind |-> kinds[c]]]
             ms == Append(messages[l], m)
  <2>2. MaxBatch \in Nat /\ turns \in Nat /\ turns' = turns + 1 /\ n \in Nat
    BY <1>11, ToolLoopAssumption DEF BufferInv, TypeOK, Respond
  <2>3. m \in Message /\ m.role = "assistant" /\ m.turn = turns + 1 /\ m.call = n
    BY <2>2 DEF Message
  <2>4. \A c \in 1..n : [turn |-> turns + 1, call |-> c, kind |-> kinds[c]] \in Call
    BY <2>2 DEF Call
  <2>5. /\ b \in Seq(Call) /\ DOMAIN b = 1..n
        /\ \A c \in 1..n : b[c].turn = turns + 1 /\ b[c].call = c
    BY <2>2, <2>4
  <2>6. /\ messages[l] # << >> /\ batch[l] = << >>
        /\ Answered(messages[l], << >>, turns)
    BY <1>11 DEF Respond, BufferInv, Ready, Buffer, AnsweredInv
  <2>7. messages' = [messages EXCEPT ![l] = ms] /\ batch' = [batch EXCEPT ![l] = b]
    BY <2>1
  <2>8. phase' = [phase EXCEPT ![l] = "calls"]
    BY <1>11 DEF Respond, Goto
  <2> HIDE DEF m, b
  <2>9. Answered(ms, b, turns')
    BY <2>2, <2>3, <2>5, <2>6, ResponseIsAnswered
  <2>10. turns' \in Nat /\ turns' >= turns
    BY <2>2
  <2> HIDE DEF ms
  <2> QED
    BY <2>7, <2>8, <2>9, <2>10, OneLoopIsAnswered
<1> QED
  BY <1>1, <1>2, <1>3, <1>4, <1>5, <1>6, <1>7, <1>8, <1>9, <1>10, <1>11 DEF Step

LEMMA SpawnIsAnswered ==
  ASSUME BufferInv, AnsweredInv, Spawn
  PROVE  AnsweredInv'
<1>1. /\ phase \in [Loop -> Phase] /\ messages \in [Loop -> Seq(Message)]
      /\ turns \in Nat
  BY DEF BufferInv, TypeOK
<1>2. /\ phase["main"] = "calls"
      /\ phase' = [phase EXCEPT !["main"] = "agent", !["sub"] = "turn"]
      /\ messages' = [messages EXCEPT !["sub"] = << Said("text") >>]
      /\ UNCHANGED << batch, turns >>
  BY DEF Spawn, Handles
<1>3. batch["sub"] = << >>
  BY <1>2 DEF BufferInv
<1> DEFINE ms == << Said("text") >>
<1>4. /\ Said("text") \in Message /\ Said("text").role = "text" /\ Said("text").turn = 0
  BY DEF Said, Message
<1>5. ms \in Seq(Message) /\ DOMAIN ms = {1} /\ ms[1] = Said("text")
  BY <1>4
<1> HIDE DEF ms
<1>6. Answered(ms, << >>, turns)
  BY <1>1, <1>4, <1>5 DEF Answered, Dated, ResultsDiffer, OpenOrAnswered
<1>7. messages'["sub"] = ms /\ messages'["main"] = messages["main"]
  BY <1>1, <1>2 DEF Loop, ms
<1>8. phase'["main"] = "agent"
  BY <1>1, <1>2 DEF Loop
<1> QED
  BY <1>2, <1>3, <1>6, <1>7, <1>8 DEF AnsweredInv, Loop

LEMMA ReturnIsAnswered ==
  ASSUME BufferInv, AnsweredInv, SubAgentReturns
  PROVE  AnsweredInv'
<1> DEFINE ms == messages["main"]
           b == batch["main"]
           new == Append(ms, Result(b[1].turn, b[1].call))
<1>1. /\ phase \in [Loop -> Phase] /\ messages \in [Loop -> Seq(Message)]
      /\ batch \in [Loop -> Seq(Call)] /\ phase["main"] = "agent"
      /\ turns \in Nat
  BY DEF BufferInv, TypeOK, SubAgentReturns, Loop
<1>2. /\ Buffer(ms) /\ Consecutive(b) /\ b # << >> /\ b \in Seq(Call)
      /\ ms # << >> /\ ms \in Seq(Message) /\ Answered(ms, b, turns)
  BY <1>1 DEF BufferInv, Ready, Buffer, AnsweredInv, Loop
<1>3. new = new \o << >>
  <2>1. Result(b[1].turn, b[1].call) \in Message
    <3>1. b[1] \in Call
      BY <1>2
    <3> QED
      BY <3>1 DEF Result, Message, Call
  <2> QED
    BY <1>2, <2>1
<1>4. Answered(new, Tail(b), turns)
  <2> HIDE DEF b, ms
  <2> QED
    BY <1>2, <1>3, ReplyIsAnswered
<1>5. Head(b) = b[1] /\ (Len(b) = 1 => Tail(b) = << >>)
  <2> HIDE DEF b
  <2>1. Tail(b) \in Seq(Call) /\ Len(Tail(b)) = Len(b) - 1
    BY <1>2
  <2> QED
    BY <1>2, <2>1
<1>6. /\ messages' = [messages EXCEPT !["main"] = new, !["sub"] = << >>]
      /\ batch' = [batch EXCEPT !["main"] = Tail(b), !["sub"] = << >>]
      /\ phase' = [phase EXCEPT !["main"] = AfterReply("main"), !["sub"] = "off"]
      /\ UNCHANGED turns
  BY <1>1, <1>5 DEF SubAgentReturns
<1>7. AfterReply("main") # "calls" => Tail(b) = << >>
  BY <1>5 DEF AfterReply
<1>8. Answered(<< >>, << >>, turns)
  BY <1>1 DEF Answered, Dated, ResultsDiffer, OpenOrAnswered
<1> HIDE DEF ms, b, new
<1>9. /\ phase'["main"] = AfterReply("main") /\ phase'["sub"] = "off"
      /\ messages'["main"] = new /\ batch'["main"] = Tail(b)
      /\ messages'["sub"] = << >> /\ batch'["sub"] = << >>
  BY <1>1, <1>6 DEF Loop
<1> QED
  BY <1>4, <1>6, <1>7, <1>8, <1>9 DEF AnsweredInv, Loop

(* For any number of turns, calls, sub-agents, denials and compactions,    *)
(* every call a model still sees has exactly one result, behind it.        *)
THEOREM CallsAlwaysAnswered == Spec => []CallsAnswered
<1>1. ASSUME BufferInv, AnsweredInv, [Next]_vars PROVE AnsweredInv'
  <2>1. CASE UNCHANGED vars
    BY <1>1, <2>1 DEF AnsweredInv, vars
  <2> QED
    BY <1>1, <2>1, StepIsAnswered, SpawnIsAnswered, ReturnIsAnswered DEF Next
<1>2. AnsweredInv => CallsAnswered
  <2> SUFFICES ASSUME AnsweredInv, NEW l \in Loop, phase[l] = "call",
                      NEW i \in Where(messages[l], "assistant"),
                      NEW c \in 1..messages[l][i].call,
                      NEW S, S = { j \in Where(messages[l], "result") :
                                     messages[l][j] = Result(messages[l][i].turn, c) }
               PROVE  /\ Cardinality(S) = 1
                      /\ \E j \in S : j > i
    BY DEF CallsAnswered, Sent
  <2> DEFINE ms == messages[l]
  <2>1. Answered(ms, << >>, turns)
    BY DEF AnsweredInv
  <2>2. i \in DOMAIN ms /\ ms[i].role = "assistant" /\ ~ Open(<< >>, ms[i].turn, c)
    BY DEF Where, Open
  <2> HIDE DEF ms
  <2>3. PICK j \in DOMAIN ms : j > i /\ ms[j] = Result(ms[i].turn, c)
    BY <2>1, <2>2 DEF Answered, OpenOrAnswered, ms
  <2>4. j \in S
    BY <2>3 DEF Where, Result, ms
  <2>5. S = {j}
    BY <2>1, <2>3, <2>4 DEF Answered, ResultsDiffer, Where, ms
  <2> QED
    BY <2>3, <2>5, FS_Singleton
<1>3. Spec => []AnsweredInv
  BY <1>1, AnsweredInit, BufferAlways, PTL DEF Spec
<1> QED
  BY <1>2, <1>3, PTL

-----------------------------------------------------------------------------
(* A run is short.  Each turn takes a step from the budget before the next *)
(* one begins, and between two payments a loop only goes forward: it is    *)
(* compacted once a turn, and handles no more calls than the answer had.   *)

\* More than a loop can do between two payments.
TurnCost == 10 * MaxBatch + 20

\* How far a loop at p still is from its next payment, or from its end where
\* it has paid for the answer it handles: n calls are left, late when the turn
\* was compacted, owed when the answer is not paid for.
Distance(p, late, owed, n) ==
  CASE p = "turn"    -> 7
    [] p = "attempt" -> IF late THEN 4 ELSE 6
    [] p = "call"    -> IF late THEN 3 ELSE 5
    [] p = "calls"   -> IF owed = 1 THEN 2 ELSE 8 + 10 * n
    [] p = "agent"   -> 10 * n - 1
    [] p = "compact" -> 8
    [] OTHER         -> 0

Share(l) ==
  Distance(phase[l], reactive[l], unpaid[l], Len(batch[l])) + TurnCost * budget[l]

\* The steps that a run has left are no more than this.
StepsLeft == Share("main") + Share("sub")

BatchesAreShort == \A l \in Loop : Len(batch[l]) <= MaxBatch

RunInv == PaidInv /\ BufferInv /\ BatchesAreShort

LEMMA ReplyShortens ==
  ASSUME NEW b \in Seq(Call), b # << >>
  PROVE  Tail(b) \in Seq(Call) /\ Len(b) \in Nat \ {0} /\ Len(Tail(b)) = Len(b) - 1
OBVIOUS

LEMMA BatchesStayShort ==
  ASSUME BufferInv, BatchesAreShort, [Next]_vars
  PROVE  BatchesAreShort'
<1>1. batch \in [Loop -> Seq(Call)] /\ MaxBatch \in Nat \ {0}
  BY ToolLoopAssumption DEF BufferInv, TypeOK
<1>2. ASSUME NEW l \in Loop, NEW b, batch' = [batch EXCEPT ![l] = b], Len(b) <= MaxBatch
      PROVE  BatchesAreShort'
  BY <1>1, <1>2 DEF BatchesAreShort
<1>3. ASSUME NEW l \in Loop, Respond(l) PROVE BatchesAreShort'
  <2>1. PICK n \in 1..MaxBatch, kinds \in [1..MaxBatch -> Kind] :
          batch' = [batch EXCEPT ![l] =
            [c \in 1..n |-> [turn |-> turns + 1, call |-> c, kind |-> kinds[c]]]]
    BY <1>3 DEF Respond
  <2> DEFINE b == [c \in 1..n |-> [turn |-> turns + 1, call |-> c, kind |-> kinds[c]]]
  <2>2. Len(b) = n
    BY <1>1
  <2>3. batch' = [batch EXCEPT ![l] = b] /\ n <= MaxBatch
    BY <1>1, <2>1
  <2> HIDE DEF b
  <2> QED
    BY <1>2, <2>2, <2>3
<1>4. ASSUME NEW l \in Loop, batch[l] # << >>, batch' = [batch EXCEPT ![l] = Tail(@)]
      PROVE  BatchesAreShort'
  <2>1. Len(Tail(batch[l])) <= MaxBatch
    BY <1>1, <1>4, ReplyShortens DEF BatchesAreShort
  <2> QED
    BY <1>2, <1>4, <2>1
<1>5. ASSUME SubAgentReturns PROVE BatchesAreShort'
  <2>1. batch["main"] # << >> /\ {"main", "sub"} = Loop
    BY <1>5 DEF SubAgentReturns, BufferInv, Ready, Loop
  <2>2. Len(Tail(batch["main"])) <= MaxBatch /\ Len(<< >>) <= MaxBatch
    BY <1>1, <2>1, ReplyShortens DEF BatchesAreShort
  <2>3. batch' = [batch EXCEPT !["main"] = Tail(@), !["sub"] = << >>]
    BY <1>5 DEF SubAgentReturns
  <2> QED
    BY <1>1, <2>1, <2>2, <2>3 DEF BatchesAreShort
<1>6. ASSUME UNCHANGED batch PROVE BatchesAreShort'
  BY <1>6 DEF BatchesAreShort
<1>7. ASSUME NEW l \in Loop, Step(l) PROVE BatchesAreShort'
  <2>1. CASE RepliesAtOnce(l) \/ RunTool(l)
    BY <1>4, <2>1 DEF RepliesAtOnce, RunTool, Handles, Reply
  <2>2. CASE ~ (RepliesAtOnce(l) \/ RunTool(l) \/ Respond(l))
    <3>1. UNCHANGED batch
      BY <1>7, <2>2 DEF Step, Exhausted, BeginTurn, Preflight, Answer, AskUser, Overflow,
         CallFailed, MaybeCompact
    <3> QED
      BY <1>6, <3>1
  <2> QED
    BY <1>3, <2>1, <2>2
<1> QED
  BY <1>5, <1>6, <1>7 DEF Next, Spawn, vars

LEMMA RunAlways == Spec => []RunInv
<1>1. Init => BatchesAreShort
  BY ToolLoopAssumption DEF Init, BatchesAreShort
<1> QED
  BY <1>1, BatchesStayShort, PaidAlways, BufferAlways, PTL DEF Spec, RunInv

\* What a payment takes from a share.
LEMMA PaymentShrinks ==
  ASSUME NEW K \in Nat, NEW b \in Nat
  PROVE  /\ K * b \in Nat /\ K * Less(b, 1) \in Nat
         /\ K * Less(b, 1) <= K * b
         /\ b > 0 => K * Less(b, 1) = K * b - K
<1>1. CASE b = 0
  <2>1. Less(b, 1) = 0
    BY <1>1 DEF Less
  <2> QED
    BY <1>1, <2>1
<1>2. CASE b > 0
  <2>1. Less(b, 1) = b - 1 /\ b - 1 \in Nat
    BY <1>2 DEF Less
  <2>2. K * (b - 1) = K * b - K
    BY SMT
  <2>3. K * b \in Nat /\ K * (b - 1) \in Nat
    BY <2>1
  <2> QED
    BY <2>1, <2>2, <2>3
<1> QED
  BY <1>1, <1>2

LEMMA DistanceIsNat ==
  ASSUME NEW p, NEW late, NEW owed, NEW n \in Nat, p = "agent" => n > 0
  PROVE  Distance(p, late, owed, n) \in Nat
BY DEF Distance

LEMMA DistanceOf ==
  ASSUME NEW late, NEW owed, NEW n
  PROVE  /\ Distance("turn", late, owed, n) = 7
         /\ Distance("attempt", late, owed, n) = IF late THEN 4 ELSE 6
         /\ Distance("call", late, owed, n) = IF late THEN 3 ELSE 5
         /\ Distance("calls", late, owed, n) = IF owed = 1 THEN 2 ELSE 8 + 10 * n
         /\ Distance("agent", late, owed, n) = 10 * n - 1
         /\ Distance("compact", late, owed, n) = 8
         /\ Distance("off", late, owed, n) = 0
         /\ \A p \in Ended : Distance(p, late, owed, n) = 0
BY DEF Distance, Ended

\* A step of one loop, by what it does to the loop's part of the state.
LEMMA OneLoopShrinks ==
  ASSUME RunInv, NEW l \in Loop, Step(l)
  PROVE  Share(l)' < Share(l) /\ \A k \in Loop \ {l} : Share(k)' = Share(k)
<1> DEFINE K == TurnCost
           b == budget[l]
           n == Len(batch[l])
           late == reactive[l]
           owed == unpaid[l]
           full == K * b
           rest == K * Less(b, 1)
<1>1. /\ K \in Nat /\ K >= 10 * n + 20 /\ b \in Nat /\ n \in Nat
  <2>1. batch[l] \in Seq(Call) /\ n <= MaxBatch /\ MaxBatch \in Nat
    BY ToolLoopAssumption DEF RunInv, BufferInv, TypeOK, BatchesAreShort
  <2> QED
    BY <2>1 DEF TurnCost, RunInv, PaidInv, PaidType
<1>2. /\ phase \in [Loop -> Phase] /\ budget \in [Loop -> Nat] /\ unpaid \in [Loop -> {0, 1}]
      /\ reactive \in [Loop -> BOOLEAN] /\ batch \in [Loop -> Seq(Call)]
  BY DEF RunInv, PaidInv, PaidType, BufferInv, TypeOK
<1> HIDE DEF K
<1>3. /\ full \in Nat /\ rest \in Nat /\ rest <= full
      /\ b > 0 => rest = full - K
  BY <1>1, PaymentShrinks
<1>4. /\ owed <= b
      /\ phase[l] \in {"attempt", "call"} => b > 0
  BY DEF RunInv, PaidInv, OwesWhatItHas
<1>5. Share(l) = Distance(phase[l], late, owed, n) + full
  BY DEF Share, K
<1>6. ASSUME NEW p, NEW r, NEW o, NEW left, NEW d,
             phase' = [phase EXCEPT ![l] = p], reactive' = [reactive EXCEPT ![l] = r],
             unpaid' = [unpaid EXCEPT ![l] = o], batch' = [batch EXCEPT ![l] = left],
             budget' = [budget EXCEPT ![l] = d],
             Distance(p, r, o, Len(left)) + K * d < Share(l)
      PROVE  Share(l)' < Share(l) /\ \A k \in Loop \ {l} : Share(k)' = Share(k)
  <2>1. Share(l)' = Distance(p, r, o, Len(left)) + K * d
    BY <1>2, <1>6 DEF Share, K, TurnCost
  <2>2. ASSUME NEW k \in Loop \ {l} PROVE Share(k)' = Share(k)
    BY <1>2, <1>6 DEF Share, TurnCost
  <2> QED
    BY <1>6, <2>1, <2>2
<1>7. /\ phase = [phase EXCEPT ![l] = phase[l]] /\ reactive = [reactive EXCEPT ![l] = late]
      /\ unpaid = [unpaid EXCEPT ![l] = owed] /\ batch = [batch EXCEPT ![l] = batch[l]]
      /\ budget = [budget EXCEPT ![l] = b]
  BY <1>2
<1>8. late \in BOOLEAN /\ owed \in {0, 1}
  BY <1>2
<1>9. CASE Exhausted(l) \/ Answer(l) \/ CallFailed(l)
  <2>1. PICK p \in Ended : Finish(l, p) /\ UNCHANGED << batch, reactive >>
    BY <1>9 DEF Exhausted, Answer, CallFailed, Ended
  <2>2. phase[l] = "turn" \/ phase[l] = "call"
    BY <1>9 DEF Exhausted, Answer, CallFailed
  <2> HIDE DEF n, late, owed, full, rest
  <2>3. Distance(p, late, 0, n) = 0 /\ Distance(phase[l], late, owed, n) \in {7, 5, 3}
    BY <1>8, <2>2, DistanceOf
  <2>4. Distance(p, late, 0, n) + rest < Share(l)
    BY <1>3, <1>5, <2>3
  <2>5. /\ phase' = [phase EXCEPT ![l] = p] /\ unpaid' = [unpaid EXCEPT ![l] = 0]
        /\ budget' = [budget EXCEPT ![l] = Less(b, 1)]
        /\ batch' = [batch EXCEPT ![l] = batch[l]] /\ reactive' = [reactive EXCEPT ![l] = late]
    BY <1>7, <2>1 DEF Finish, Goto
  <2> QED
    BY <1>6, <2>4, <2>5 DEF n, rest
<1>10. ASSUME NEW p, Goto(l, p), UNCHANGED << budget, unpaid, batch, reactive >>,
              Distance(p, late, owed, n) < Distance(phase[l], late, owed, n),
              Distance(p, late, owed, n) \in Nat, Distance(phase[l], late, owed, n) \in Nat
       PROVE  Share(l)' < Share(l) /\ \A k \in Loop \ {l} : Share(k)' = Share(k)
  <2> HIDE DEF n, late, owed, full, b
  <2>1. Distance(p, late, owed, n) + full < Share(l)
    BY <1>3, <1>5, <1>10
  <2>2. /\ phase' = [phase EXCEPT ![l] = p] /\ unpaid' = [unpaid EXCEPT ![l] = owed]
        /\ budget' = [budget EXCEPT ![l] = b] /\ batch' = [batch EXCEPT ![l] = batch[l]]
        /\ reactive' = [reactive EXCEPT ![l] = late]
    BY <1>7, <1>10 DEF Goto
  <2> QED
    BY <1>6, <2>1, <2>2 DEF n, full
<1>11. CASE Preflight(l)
  <2>1. phase[l] = "attempt" /\ Goto(l, "call") /\ UNCHANGED << budget, unpaid, batch, reactive >>
    BY <1>11 DEF Preflight
  <2> HIDE DEF n, late, owed
  <2>2. Distance("call", late, owed, n) < Distance("attempt", late, owed, n)
        /\ Distance("call", late, owed, n) \in Nat /\ Distance("attempt", late, owed, n) \in Nat
    BY DistanceOf
  <2> QED
    BY <1>10, <2>1, <2>2
<1>12. CASE MaybeCompact(l)
  <2>1. phase[l] = "compact" /\ Goto(l, "turn") /\ UNCHANGED << budget, unpaid, batch, reactive >>
    BY <1>12 DEF MaybeCompact
  <2> HIDE DEF n, late, owed
  <2>2. Distance("turn", late, owed, n) = 7 /\ Distance("compact", late, owed, n) = 8
    BY DistanceOf
  <2> QED
    BY <1>10, <2>1, <2>2
<1>13. CASE BeginTurn(l)
  <2> DEFINE r == FALSE
  <2>1. /\ phase[l] = "turn" /\ phase' = [phase EXCEPT ![l] = "attempt"]
        /\ reactive' = [reactive EXCEPT ![l] = r]
        /\ UNCHANGED << budget, unpaid, batch >>
    BY <1>13 DEF BeginTurn, Goto
  <2> HIDE DEF n, late, owed, full, b, r
  <2>2. Distance("attempt", r, owed, n) = 6
    BY DEF Distance, r
  <2>3. Distance(phase[l], late, owed, n) = 7
    BY <2>1 DEF Distance
  <2>4. 6 + full < Share(l)
    BY <1>3, <1>5, <2>3
  <2>5. Distance("attempt", r, owed, Len(batch[l])) + K * b < Share(l)
    BY <2>2, <2>4 DEF n, full
  <2>6. /\ unpaid' = [unpaid EXCEPT ![l] = owed] /\ batch' = [batch EXCEPT ![l] = batch[l]]
        /\ budget' = [budget EXCEPT ![l] = b]
    BY <1>7, <2>1
  <2> QED
    BY <1>6, <2>1, <2>5, <2>6
<1>14. CASE Overflow(l)
  <2> DEFINE r == TRUE
  <2>1. /\ phase[l] = "call" /\ ~ late /\ phase' = [phase EXCEPT ![l] = "attempt"]
        /\ reactive' = [reactive EXCEPT ![l] = r]
        /\ UNCHANGED << budget, unpaid, batch >>
    BY <1>14 DEF Overflow, Goto
  <2> HIDE DEF n, late, owed, full, b, r
  <2>2. Distance("attempt", r, owed, n) = 4
    BY DEF Distance, r
  <2>3. Distance(phase[l], late, owed, n) = 5
    BY <2>1 DEF Distance
  <2>4. 4 + full < Share(l)
    BY <1>3, <1>5, <2>3
  <2>5. Distance("attempt", r, owed, Len(batch[l])) + K * b < Share(l)
    BY <2>2, <2>4 DEF n, full
  <2>6. /\ unpaid' = [unpaid EXCEPT ![l] = owed] /\ batch' = [batch EXCEPT ![l] = batch[l]]
        /\ budget' = [budget EXCEPT ![l] = b]
    BY <1>7, <2>1
  <2> QED
    BY <1>6, <2>1, <2>5, <2>6
<1>15. CASE AskUser(l) \/ Respond(l)
  <2>1. PICK p \in {"asked", "calls"} :
          /\ phase[l] = "call" /\ phase' = [phase EXCEPT ![l] = p]
          /\ unpaid' = [unpaid EXCEPT ![l] = 1]
          /\ UNCHANGED << budget, reactive >>
          /\ \E left : batch' = [batch EXCEPT ![l] = left]
    BY <1>7, <1>15 DEF AskUser, Respond, Goto
  <2>2. PICK left : batch' = [batch EXCEPT ![l] = left]
    BY <2>1
  <2> HIDE DEF n, late, owed, full, b
  <2>3. Distance(p, late, 1, Len(left)) \in {0, 2} /\ Distance("call", late, owed, n) \in {3, 5}
    BY <1>8, <2>1, DistanceOf DEF Ended
  <2>4. Distance(p, late, 1, Len(left)) + full < Share(l)
    BY <1>3, <1>5, <2>1, <2>3
  <2> QED
    BY <1>6, <1>7, <2>1, <2>2, <2>4 DEF full
<1>16. CASE RepliesAtOnce(l) \/ RunTool(l)
  <2>1. /\ phase[l] = "calls" /\ batch[l] # << >> /\ Charge(l) /\ Goto(l, AfterReply(l))
        /\ batch' = [batch EXCEPT ![l] = Tail(batch[l])] /\ UNCHANGED reactive
    BY <1>16 DEF RepliesAtOnce, RunTool, Handles, Reply
  <2>2. n > 0 /\ Len(Tail(batch[l])) = n - 1
    BY <1>2, <2>1, ReplyShortens
  <2>3. AfterReply(l) = IF n = 1 THEN "compact" ELSE "calls"
    BY DEF AfterReply
  <2>4. /\ phase' = [phase EXCEPT ![l] = AfterReply(l)]
        /\ unpaid' = [unpaid EXCEPT ![l] = 0]
        /\ budget' = [budget EXCEPT ![l] = Less(b, 1)]
        /\ reactive' = [reactive EXCEPT ![l] = late]
    BY <1>7, <2>1 DEF Charge, Goto
  <2> HIDE DEF n, late, owed, full, rest, b
  <2>5. Distance(AfterReply(l), late, 0, n - 1) = 8 + 10 * (n - 1)
    BY <1>1, <2>2, <2>3, DistanceOf
  <2>6. Distance("calls", late, owed, n) = IF owed = 1 THEN 2 ELSE 8 + 10 * n
    BY DistanceOf
  <2>7. 8 + 10 * (n - 1) + rest < Share(l)
    BY <1>1, <1>3, <1>4, <1>5, <1>8, <2>1, <2>2, <2>6
  <2>8. Distance(AfterReply(l), late, 0, Len(Tail(batch[l]))) + K * Less(b, 1) < Share(l)
    BY <2>2, <2>5, <2>7 DEF rest
  <2> QED
    BY <1>6, <2>1, <2>4, <2>8
<1> QED
  BY <1>9, <1>11, <1>12, <1>13, <1>14, <1>15, <1>16 DEF Step

\* The sub-agent gets what its parent gives away, and the step that is paid
\* for it covers where it begins.
LEMMA SpawnShrinks ==
  ASSUME RunInv, Spawn
  PROVE  StepsLeft' < StepsLeft
<1> DEFINE K == TurnCost
           b == budget["main"]
           n == Len(batch["main"])
           left == Less(b, 1)
           given == IF left < SubSteps THEN left ELSE SubSteps
<1>1. /\ phase \in [Loop -> Phase] /\ budget \in [Loop -> Nat] /\ unpaid \in [Loop -> {0, 1}]
      /\ reactive \in [Loop -> BOOLEAN] /\ batch \in [Loop -> Seq(Call)]
      /\ Loop = {"main", "sub"}
  BY DEF RunInv, PaidInv, PaidType, BufferInv, TypeOK, Loop
<1>2. /\ phase["main"] = "calls" /\ batch["main"] # << >>
      /\ phase["sub"] = "off" /\ budget["sub"] = 0
      /\ unpaid["main"] <= b
  BY DEF Spawn, Handles, RunInv, BufferInv, PaidInv, SubAgentIsAlone, OwesWhatItHas, Loop
<1>3. /\ K \in Nat /\ K >= 10 * n + 20 /\ b \in Nat /\ n \in Nat \ {0}
  <2>1. n \in Nat \ {0} /\ n <= MaxBatch /\ MaxBatch \in Nat
    BY <1>1, <1>2, ReplyShortens, ToolLoopAssumption DEF RunInv, BatchesAreShort
  <2> QED
    BY <1>1, <2>1 DEF TurnCost
<1>4. left \in Nat /\ given \in Nat /\ left - given \in Nat
  <2>1. left \in Nat /\ SubSteps \in Nat
    BY <1>3, LessIsNat, ToolLoopAssumption
  <2> HIDE DEF left
  <2> QED
    BY <2>1
<1>5. /\ phase'["main"] = "agent" /\ phase'["sub"] = "turn"
      /\ budget'["main"] = left - given /\ budget'["sub"] = given
      /\ batch' = batch
  BY <1>1 DEF Spawn
<1> HIDE DEF K, left, given
<1> DEFINE full == K * b
           rest == K * left
           kept == K * (left - given)
           gone == K * given
<1>6. Share("main")' = 10 * n - 1 + kept /\ Share("sub")' = 7 + gone
  BY <1>5 DEF Share, Distance, K, TurnCost
<1>7. /\ Share("main") = (IF unpaid["main"] = 1 THEN 2 ELSE 8 + 10 * n) + full
      /\ Share("sub") = 0
  <2>1. K * 0 = 0
    BY <1>3
  <2> QED
    BY <1>2, <2>1 DEF Share, Distance, K
<1>8. kept + gone = rest
  BY <1>3, <1>4, SMT
<1>9. /\ full \in Nat /\ rest \in Nat /\ rest <= full
      /\ b > 0 => rest = full - K
  BY <1>3, PaymentShrinks DEF left
<1>10. kept \in Int /\ gone \in Int
  BY <1>3, <1>4
<1>11. unpaid["main"] \in {0, 1}
  BY <1>1
<1> HIDE DEF full, rest, kept, gone, n, b
<1>12. 10 * n + 6 + rest < (IF unpaid["main"] = 1 THEN 2 ELSE 8 + 10 * n) + full
  <2>1. CASE unpaid["main"] = 1
    BY <1>2, <1>3, <1>9, <2>1
  <2>2. CASE unpaid["main"] = 0
    BY <1>3, <1>9, <2>2
  <2> QED
    BY <1>11, <2>1, <2>2
<1>13. StepsLeft' = 10 * n + 6 + rest
  BY <1>3, <1>6, <1>8, <1>9, <1>10 DEF StepsLeft
<1>14. StepsLeft = (IF unpaid["main"] = 1 THEN 2 ELSE 8 + 10 * n) + full
  <2>1. Share("main") \in Int
    BY <1>3, <1>7, <1>9
  <2> QED
    BY <1>7, <2>1 DEF StepsLeft
<1> QED
  BY <1>12, <1>13, <1>14

LEMMA ReturnShrinks ==
  ASSUME RunInv, SubAgentReturns
  PROVE  StepsLeft' < StepsLeft
<1> DEFINE K == TurnCost
           n == Len(batch["main"])
<1>1. /\ phase \in [Loop -> Phase] /\ budget \in [Loop -> Nat] /\ unpaid \in [Loop -> {0, 1}]
      /\ batch \in [Loop -> Seq(Call)] /\ Loop = {"main", "sub"}
  BY DEF RunInv, PaidInv, PaidType, BufferInv, TypeOK, Loop
<1>2. /\ phase["main"] = "agent" /\ batch["main"] # << >> /\ unpaid["main"] = 0
      /\ phase["sub"] \in Ended \cup {"call", "compact"}
  BY DEF SubAgentReturns, RunInv, BufferInv, Ready, PaidInv, OwesWhatItHas, MayOwe, Loop
<1>3. /\ K \in Nat /\ n \in Nat \ {0} /\ Len(Tail(batch["main"])) = n - 1
      /\ Len(batch["sub"]) \in Nat
  BY SMTT(30), <1>1, <1>2, ReplyShortens, ToolLoopAssumption DEF TurnCost
<1>4. /\ phase'["main"] = AfterReply("main") /\ phase'["sub"] = "off"
      /\ budget'["main"] = budget["main"] /\ budget'["sub"] = 0
      /\ batch'["main"] = Tail(batch["main"]) /\ unpaid'["main"] = 0
  BY <1>1, <1>2 DEF SubAgentReturns
<1> HIDE DEF K
<1>5. Share("sub")' = 0 /\ Share("sub") \in Nat
  <2>1. K * 0 = 0 /\ K * budget["sub"] \in Nat
    BY <1>1, <1>3
  <2>2. Distance(phase["sub"], reactive["sub"], unpaid["sub"], Len(batch["sub"])) \in Nat
    BY <1>2, <1>3, DistanceIsNat DEF Ended
  <2> QED
    BY <1>4, <2>1, <2>2 DEF Share, Distance, K, TurnCost
<1>6. /\ Share("main") = 10 * n - 1 + K * budget["main"]
      /\ Share("main")' = 8 + 10 * (n - 1) + K * budget["main"]
  <2> DEFINE late == reactive'["main"]
  <2>1. Share("main") = 10 * n - 1 + K * budget["main"]
    BY <1>2 DEF Share, Distance, K
  <2>2. Share("main")' = Distance(AfterReply("main"), late, 0, n - 1) + K * budget["main"]
    BY <1>3, <1>4 DEF Share, K, TurnCost
  <2>3. AfterReply("main") = IF n = 1 THEN "compact" ELSE "calls"
    BY DEF AfterReply
  <2> HIDE DEF late, n
  <2>4. Distance(AfterReply("main"), late, 0, n - 1) = 8 + 10 * (n - 1)
    BY <1>3, <2>3, DistanceOf
  <2> QED
    BY <2>1, <2>2, <2>4
<1>7. K * budget["main"] \in Nat
  BY <1>1, <1>3
<1> QED
  BY <1>3, <1>5, <1>6, <1>7 DEF StepsLeft

LEMMA SharesAreNat ==
  ASSUME RunInv, NEW l \in Loop
  PROVE  Share(l) \in Nat
<1>1. /\ TurnCost \in Nat /\ budget[l] \in Nat /\ batch[l] \in Seq(Call)
      /\ Len(batch[l]) \in Nat
  <2>1. budget[l] \in Nat /\ batch[l] \in Seq(Call) /\ MaxBatch \in Nat
    BY ToolLoopAssumption DEF RunInv, PaidInv, PaidType, BufferInv, TypeOK
  <2> QED
    BY <2>1 DEF TurnCost
<1>2. phase[l] = "agent" => Len(batch[l]) > 0
  BY <1>1 DEF RunInv, BufferInv, Ready
<1>3. TurnCost * budget[l] \in Nat
  BY <1>1
<1> QED
  BY <1>1, <1>2, <1>3, DistanceIsNat DEF Share

(* Every step of a run, whatever the models, tools and sub-agents answer   *)
(* and whatever fails or is compacted, takes it nearer to its end: a run   *)
(* is over after TurnCost * StepBudget + 7 steps at the latest.  So        *)
(* Terminates needs no more than that a step which can be taken is taken.  *)
THEOREM RunsAreShort ==
  Spec => /\ StepsLeft = TurnCost * StepBudget + 7
          /\ [](StepsLeft \in Nat)
          /\ [][StepsLeft' < StepsLeft]_vars
<1>1. Init => StepsLeft = TurnCost * StepBudget + 7
  <2> SUFFICES ASSUME Init PROVE StepsLeft = TurnCost * StepBudget + 7
    OBVIOUS
  <2> DEFINE K == TurnCost
  <2>1. K \in Nat /\ StepBudget \in Nat /\ Loop = {"main", "sub"}
    BY ToolLoopAssumption DEF TurnCost, Loop
  <2> HIDE DEF K
  <2>2. Share("main") = 7 + K * StepBudget /\ Share("sub") = 0 + K * 0
    BY <2>1 DEF Init, Share, Distance, K
  <2>3. K * StepBudget \in Nat /\ K * 0 = 0
    BY <2>1
  <2> QED
    BY <2>2, <2>3 DEF StepsLeft, K
<1> DEFINE SharesNat == Share("main") \in Nat /\ Share("sub") \in Nat
<1>2. RunInv => SharesNat
  BY SharesAreNat DEF Loop
<1>3. SharesNat => StepsLeft \in Nat
  BY DEF StepsLeft
<1>4. RunInv /\ SharesNat /\ SharesNat' /\ [Next]_vars => [StepsLeft' < StepsLeft]_vars
  <2>1. ASSUME RunInv, SharesNat, SharesNat', NEW l \in Loop, Step(l)
        PROVE  StepsLeft' < StepsLeft
    <3>1. Share(l)' < Share(l) /\ \A k \in Loop \ {l} : Share(k)' = Share(k)
      BY <2>1, OneLoopShrinks
    <3>2. CASE l = "main"
      <4>1. Share("sub")' = Share("sub") /\ Share("main")' < Share("main")
        BY <3>1, <3>2 DEF Loop
      <4> QED
        BY <2>1, <4>1 DEF StepsLeft
    <3>3. CASE l = "sub"
      <4>1. Share("main")' = Share("main") /\ Share("sub")' < Share("sub")
        BY <3>1, <3>3 DEF Loop
      <4> QED
        BY <2>1, <4>1 DEF StepsLeft
    <3> QED
      BY <3>2, <3>3 DEF Loop
  <2> QED
    BY <2>1, SpawnShrinks, ReturnShrinks DEF Next
<1> HIDE DEF SharesNat
<1> QED
  BY <1>1, <1>2, <1>3, <1>4, RunAlways, PTL DEF Spec

\* Where a loop has a step to take by itself, whatever else holds: it begins or
\* gives up a turn, sends, hears from the model, replies, or goes on.
CanStep(l) ==
  \/ phase[l] \in {"turn", "attempt", "call", "compact"}
  \/ phase[l] = "calls" /\ batch[l] # << >>

(* Until the run is over, it or its sub-agent has a step to take, or the   *)
(* sub-agent is done and its parent takes the result: a parent never waits *)
(* for a sub-agent that is not there, and no loop is left among calls      *)
(* without a call to handle.                                               *)
THEOREM NobodyIsStuck ==
  Spec => [](\/ phase["main"] \in Ended
             \/ \E l \in Loop : CanStep(l)
             \/ phase["main"] = "agent" /\ phase["sub"] \in Ended)
<1> DEFINE Waits == phase["main"] = "agent" => phase["sub"] \notin {"off", "agent"}
<1>1. Init => Waits
  BY DEF Init, Loop
<1>2. ASSUME BufferInv, Waits, [Next]_vars PROVE Waits'
  <2>1. phase \in [Loop -> Phase] /\ Loop = {"main", "sub"}
    BY <1>2 DEF BufferInv, TypeOK, Loop
  <2>2. CASE UNCHANGED vars
    BY <1>2, <2>2 DEF vars
  <2>3. CASE Spawn \/ SubAgentReturns
    BY <2>1, <2>3 DEF Spawn, SubAgentReturns, AfterReply
  <2>4. ASSUME NEW l \in Loop, Step(l) PROVE Waits'
    <3>1. PICK p \in Phase \ {"off", "agent"} : Goto(l, p)
      BY <2>4 DEF Step, Exhausted, BeginTurn, Preflight, Answer, AskUser, Respond, Overflow,
         CallFailed, RepliesAtOnce, RunTool, MaybeCompact, Finish, AfterReply, Phase, Ended
    <3> QED
      BY <1>2, <2>1, <2>4, <3>1 DEF Goto
  <2> QED
    BY <1>2, <2>2, <2>3, <2>4 DEF Next
<1>3. BufferInv /\ Waits => \/ phase["main"] \in Ended
                            \/ \E l \in Loop : CanStep(l)
                            \/ phase["main"] = "agent" /\ phase["sub"] \in Ended
  <2> SUFFICES ASSUME BufferInv, Waits, phase["main"] \notin Ended
               PROVE  \/ CanStep("main") \/ CanStep("sub")
                      \/ phase["main"] = "agent" /\ phase["sub"] \in Ended
    BY DEF Loop
  <2>1. /\ phase["main"] \in Phase \ {"off"} /\ phase["sub"] \in Phase
        /\ \A l \in Loop : phase[l] = "calls" => batch[l] # << >>
    BY DEF BufferInv, TypeOK, Ready, Loop
  <2> QED
    BY <2>1 DEF CanStep, Phase, Loop
<1> HIDE DEF Waits
<1> QED
  BY <1>1, <1>2, <1>3, BufferAlways, PTL DEF Spec
=============================================================================
