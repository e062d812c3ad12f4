----------------------------- MODULE LlmRouter -----------------------------
(***************************************************************************)
(* The router between the agents of one process and its LLM providers:     *)
(* generate and generate_streaming with their retries, and the circuit     *)
(* breaker that the calls of a provider share.                             *)
(*                                                                         *)
(* A call is a chain of attempts.  An attempt of a streaming call emits    *)
(* chunks into a channel of its own, from which a forwarder task copies    *)
(* them to the caller.  A caller may drop its call at any await: the       *)
(* summary of a compaction and a sub-agent run under a timeout, and a      *)
(* cancelled request is dropped as a whole.                                *)
(*                                                                         *)
(* What is said, how long an attempt takes and the length of a backoff are *)
(* not modelled, nor are the metrics: any attempt may end in any way.      *)
(***************************************************************************)
EXTENDS ModelRouting, Integers, FiniteSets

CONSTANTS
  Call,        \* concurrent callers, each with one call at a time
  Provider,    \* the registered providers
  Request,     \* what may be asked
  Threshold,   \* circuit_breaker_failure_threshold
  MaxRetries,  \* max_retries
  MaxChunks    \* bounds the chunks of one attempt

ASSUME RouterAssumption ==
  /\ IsFiniteSet(Call)
  /\ {Threshold, MaxRetries, MaxChunks} \subseteq Nat

Kind == {"generate", "stream"}
Result == {"none", "ok", "over", "unroutable", "unregistered", "circuit", "overflow", "failed",
           "dropped"}

VARIABLES
  breaker,   \* the state of each provider's circuit, its failures and whether
             \* its cooldown is over
  call,      \* where each call is
  channel,   \* the chunks of its present attempt that are not forwarded yet
  heard,     \* the attempts of which the caller has content
  prober,    \* history: the call that half-opened the circuit
  hits       \* history: failures since the last success or half-opening

vars == << breaker, call, channel, heard, prober, hits >>

Idle == [pc |-> "idle", kind |-> "generate", provider |-> None, attempt |-> 0, chunks |-> 0,
         result |-> "none"]

Init ==
  /\ breaker = [p \in Provider |-> [state |-> "closed", failures |-> 0, cooled |-> FALSE]]
  /\ call = [c \in Call |-> Idle]
  /\ channel = [c \in Call |-> << >>]
  /\ heard = [c \in Call |-> {}]
  /\ prober = [p \in Provider |-> None]
  /\ hits = [p \in Provider |-> 0]

\* Where the requests go; the models are registered before the first call.
Route == [r \in Request |-> SelectModel(r)]

InFlight(c) == call[c].pc \in {"attempt", "backoff"}
On(p) == { c \in Call : InFlight(c) /\ call[c].provider = p }

-----------------------------------------------------------------------------
(* The circuit breaker of a provider.                                      *)

Closed == [state |-> "closed", failures |-> 0, cooled |-> FALSE]
Opened == [state |-> "open", failures |-> 0, cooled |-> FALSE]
HalfOpen == [state |-> "half", failures |-> 0, cooled |-> FALSE]

Allows(p) == breaker[p].state = "closed" \/ breaker[p].cooled

\* Mutants: the failed probe is forgotten; the circuit closes after it.
AfterFailureForgets(b) ==
  IF Threshold = 0 \/ b.state # "closed" THEN b
  ELSE IF b.failures + 1 >= Threshold THEN Opened
  ELSE [b EXCEPT !.failures = @ + 1]
AfterFailureCloses(b) ==
  IF Threshold = 0 \/ b.state = "open" THEN b
  ELSE IF b.state = "half" THEN Closed
  ELSE IF b.failures + 1 >= Threshold THEN Opened
  ELSE [b EXCEPT !.failures = @ + 1]
AfterFailure(b) ==
  IF Threshold = 0 \/ b.state = "open" THEN b
  ELSE IF b.state = "half" \/ b.failures + 1 >= Threshold THEN Opened
  ELSE [b EXCEPT !.failures = @ + 1]

\* What record_failure returns: the circuit is open now.
Opens(b) == Threshold # 0 /\ AfterFailure(b).state = "open"

\* The cooldown of an open circuit ends.
Cool(p) ==
  /\ breaker[p].state = "open" /\ ~ breaker[p].cooled
  /\ breaker' = [breaker EXCEPT ![p].cooled = TRUE]
  /\ UNCHANGED << call, channel, heard, prober, hits >>

-----------------------------------------------------------------------------
(* A call.                                                                 *)

Ended(c, result) ==
  call' = [call EXCEPT ![c] = [Idle EXCEPT !.pc = "done", !.attempt = call[c].attempt,
                                           !.result = result]]

\* The circuit is asked once, before the first attempt.
BeginWith(c, r, k) ==
  LET m == Route[r]
      p == m.provider
      Refused(result) ==
        /\ call' = [call EXCEPT ![c] = [Idle EXCEPT !.pc = "done", !.result = result]]
        /\ UNCHANGED << breaker, prober, hits >>
  IN  \/ m = None /\ Refused("unroutable")
      \/ m # None /\ p \notin Provider /\ Refused("unregistered")
      \/ m # None /\ p \in Provider /\ ~ Allows(p) /\ Refused("circuit")
      \/ /\ m # None /\ p \in Provider /\ Allows(p)
         /\ call' = [call EXCEPT ![c] = [Idle EXCEPT !.pc = "attempt", !.kind = k,
                                                     !.provider = p]]
         /\ IF breaker[p].state = "closed"
            THEN UNCHANGED << breaker, prober, hits >>
            ELSE /\ breaker' = [breaker EXCEPT ![p] = HalfOpen]
                 /\ prober' = [prober EXCEPT ![p] = c]
                 /\ hits' = [hits EXCEPT ![p] = 0]

Begin(c) ==
  /\ call[c].pc \in {"idle", "done"} /\ channel[c] = << >>
  /\ heard' = [heard EXCEPT ![c] = {}]
  /\ \E r \in Request, k \in Kind : BeginWith(c, r, k)
  /\ UNCHANGED channel

\* The provider streams a piece of its answer; a provider may send the closing
\* Done before it fails.
Emit(c) ==
  /\ call[c].pc = "attempt" /\ call[c].kind = "stream" /\ call[c].chunks < MaxChunks
  /\ \E content \in BOOLEAN :
       channel' = [channel EXCEPT ![c] =
                     Append(@, [attempt |-> call[c].attempt, content |-> content])]
  /\ call' = [call EXCEPT ![c].chunks = @ + 1]
  /\ UNCHANGED << breaker, heard, prober, hits >>

\* The forwarder task; it outlives a call that is dropped.
Forward(c) ==
  /\ channel[c] # << >>
  /\ channel' = [channel EXCEPT ![c] = Tail(@)]
  /\ heard' = [heard EXCEPT ![c] =
                 IF Head(channel[c]).content THEN @ \cup {Head(channel[c]).attempt} ELSE @]
  /\ UNCHANGED << breaker, call, prober, hits >>

\* Mutant: the forwarder is not awaited.
ReturnsEarly(c) == call[c].pc = "attempt"
\* An attempt is over when the provider has returned, or its 300 seconds are
\* up, and the forwarder has drained the channel.
Returns(c) == call[c].pc = "attempt" /\ channel[c] = << >>

\* generate still refuses an answer that was too slow or too expensive.
Succeed(c) ==
  /\ Returns(c)
  /\ breaker' = [breaker EXCEPT ![call[c].provider] = Closed]
  /\ hits' = [hits EXCEPT ![call[c].provider] = 0]
  /\ \/ Ended(c, "ok")
     \/ call[c].kind = "generate" /\ Ended(c, "over")
  /\ UNCHANGED << channel, heard, prober >>

\* The circuit is left by a call that tells it nothing.
Abandoned(c) ==
  prober' = [p \in Provider |-> IF prober[p] = c THEN None ELSE prober[p]]

\* The prompt is too long: returned at once and not recorded.  The providers
\* see it by the status of the response, before the first chunk.
Overflow(c) ==
  /\ Returns(c) /\ call[c].chunks = 0
  /\ Ended(c, "overflow")
  /\ Abandoned(c)
  /\ UNCHANGED << breaker, channel, heard, hits >>

\* Whether a failed attempt is followed by another one.
MayRetry(c, retryable) ==
  /\ retryable
  /\ ~ Opens(breaker[call[c].provider])
  /\ call[c].attempt < MaxRetries
  /\ call[c].kind = "stream" => heard[c] = {}

\* An attempt fails or times out.  It counts against the circuit also when the
\* circuit has changed since the call was admitted.
Fail(c, retryable) ==
  LET p == call[c].provider
  IN  /\ Returns(c)
      /\ breaker' = [breaker EXCEPT ![p] = AfterFailure(@)]
      /\ hits' = [hits EXCEPT ![p] = @ + 1]
      /\ IF MayRetry(c, retryable)
         THEN call' = [call EXCEPT ![c].pc = "backoff"]
         ELSE Ended(c, "failed")
      /\ UNCHANGED << channel, heard, prober >>

\* After its backoff a call tries again without asking the circuit.
Retry(c) ==
  /\ call[c].pc = "backoff"
  /\ call' = [call EXCEPT ![c].pc = "attempt", ![c].attempt = @ + 1, ![c].chunks = 0]
  /\ UNCHANGED << breaker, channel, heard, prober, hits >>

\* The caller drops the future.
Drop(c) ==
  /\ InFlight(c)
  /\ Ended(c, "dropped")
  /\ Abandoned(c)
  /\ UNCHANGED << breaker, channel, heard, hits >>

Next ==
  \/ \E p \in Provider : Cool(p)
  \/ \E c \in Call :
       \/ Begin(c) \/ Emit(c) \/ Forward(c)
       \/ Succeed(c) \/ Overflow(c) \/ Fail(c, TRUE) \/ Fail(c, FALSE)
       \/ Retry(c) \/ Drop(c)

Spec == Init /\ [][Next]_vars

\* Time passes, tasks are scheduled, an attempt of a stream ends after 300
\* seconds at the latest, and an agent that failed or finished asks again.
\* Nobody has to stream or to drop, and nothing limits an attempt of generate.
Fairness ==
  /\ \A p \in Provider : WF_vars(Cool(p))
  /\ \A c \in Call :
       /\ WF_vars(Begin(c)) /\ WF_vars(Forward(c)) /\ WF_vars(Retry(c))
       /\ WF_vars(/\ call[c].kind = "stream"
                  /\ Succeed(c) \/ Overflow(c) \/ Fail(c, TRUE) \/ Fail(c, FALSE))

FairSpec == Spec /\ Fairness

-----------------------------------------------------------------------------
(* Properties.                                                             *)

CallState ==
  [pc : {"idle", "attempt", "backoff", "done"}, kind : Kind, provider : Provider \cup {None},
   attempt : 0 .. MaxRetries, chunks : 0 .. MaxChunks, result : Result]

TypeOK ==
  /\ breaker \in [Provider -> [state : {"closed", "open", "half"}, failures : Nat,
                               cooled : BOOLEAN]]
  /\ \A p \in Provider :
       /\ breaker[p].failures > 0 => breaker[p].failures < Threshold
       /\ breaker[p].state # "closed" => Threshold > 0 /\ breaker[p].failures = 0
       /\ breaker[p].cooled => breaker[p].state = "open"
  /\ call \in [Call -> CallState]
  /\ \A c \in Call : InFlight(c) => call[c].provider \in Provider
  /\ channel \in [Call -> Seq([attempt : 0 .. MaxRetries, content : BOOLEAN])]
  /\ heard \in [Call -> SUBSET (0 .. MaxRetries)]
  /\ prober \in [Provider -> Call \cup {None}]
  /\ hits \in [Provider -> Nat]

\* What a caller of generate_streaming has been sent comes from one attempt,
\* the last: an attempt that was heard is never followed by another one, also
\* when it fails while chunks are still on their way (router.rs: "Never retry
\* once chunks have been forwarded (would duplicate content)").
OneVoice == \A c \in Call : heard[c] \subseteq {call[c].attempt}

\* A broken provider is left alone: between two probes it fails at most
\* Threshold times, and once more for every call that was already under way,
\* although retries do not ask the circuit again.
FailuresContained ==
  /\ TypeOK
  /\ Threshold > 0 =>
       \A p \in Provider : hits[p] + Cardinality(On(p)) < Threshold + Cardinality(Call)

\* A half-open circuit is decided, unless its probe overflows, is dropped or
\* waits without a timeout: what the probe of a stream reports closes it or opens
\* it again, and meanwhile everybody else is refused.
CircuitIsDecided ==
  \A p \in Provider :
    breaker[p].state = "half" ~>
      \/ breaker[p].state # "half"
      \/ prober[p] = None
      \/ \E c \in On(p) : call[c].kind = "generate"
=============================================================================
