--------------------------- MODULE ModelCallProofs ---------------------------
(***************************************************************************)
(* The way of an answer from a provider to a turn, in its two models.      *)
(*                                                                         *)
(* The router (LlmRouter), for any number of callers, providers and        *)
(* retries: what a caller hears comes from one attempt, and a circuit that *)
(* keeps opening lets no more than its threshold and the calls already     *)
(* under way fail.                                                         *)
(*                                                                         *)
(* One request (ModelTurn), for any channels, attempts, calls and lengths: *)
(* the accumulator makes of the chunks that are still on their way exactly *)
(* what the provider has parsed, so that nothing is lost and the terminal  *)
(* shows what the turn goes on with.                                       *)
(***************************************************************************)
EXTENDS LlmRouter, ModelTurn, FiniteSetTheorems, SequenceTheorems, TLAPS

-----------------------------------------------------------------------------
(* The router.                                                             *)

RouterChunk == [attempt : 0 .. MaxRetries, content : BOOLEAN]

\* A call that waits for its backoff will have another attempt, which nobody
\* has heard anything of.
WaitsUnheard ==
  \A c \in Call :
    /\ call[c].pc = "backoff" =>
         call[c].attempt < MaxRetries /\ channel[c] = << >> /\ heard[c] = {}
    /\ InFlight(c) /\ call[c].kind = "generate" => channel[c] = << >> /\ heard[c] = {}

\* What is on its way to a caller comes from the present attempt.
ChunksArePresent ==
  \A c \in Call : \A i \in DOMAIN channel[c] : channel[c][i].attempt = call[c].attempt

\* While a circuit is closed its failures are counted; an open one can only be
\* hit by the calls it admitted before.
HitsAreCounted ==
  Threshold > 0 =>
    \A p \in Provider :
      /\ breaker[p].state = "closed" => hits[p] = breaker[p].failures
      /\ breaker[p].state = "half" => hits[p] = 0
      /\ breaker[p].state = "open" =>
           hits[p] + Cardinality(On(p)) < Threshold + Cardinality(Call)

Inv == TypeOK /\ WaitsUnheard /\ ChunksArePresent /\ OneVoice /\ HitsAreCounted

-----------------------------------------------------------------------------
(* Chunks.                                                                 *)

LEMMA AppendChunk ==
  ASSUME NEW s \in Seq(RouterChunk), NEW n \in 0 .. MaxRetries, NEW b \in BOOLEAN,
         \A i \in DOMAIN s : s[i].attempt = n,
         NEW t, t = Append(s, [attempt |-> n, content |-> b])
  PROVE  t \in Seq(RouterChunk) /\ \A i \in DOMAIN t : t[i].attempt = n
BY DEF RouterChunk

LEMMA TakeChunk ==
  ASSUME NEW s \in Seq(RouterChunk), s # << >>, NEW n,
         \A i \in DOMAIN s : s[i].attempt = n,
         NEW t, t = Tail(s)
  PROVE  /\ t \in Seq(RouterChunk) /\ \A i \in DOMAIN t : t[i].attempt = n
         /\ Head(s) \in RouterChunk /\ Head(s).attempt = n
<1>1. Len(s) \in Nat /\ Len(s) > 0 /\ 1 \in DOMAIN s /\ Head(s) = s[1]
  OBVIOUS
<1>2. t \in Seq(RouterChunk) /\ DOMAIN t = 1 .. Len(s) - 1
  BY <1>1
<1>3. \A i \in DOMAIN t : i + 1 \in DOMAIN s /\ t[i] = s[i + 1]
  BY <1>1, <1>2
<1> QED
  BY <1>1, <1>2, <1>3

-----------------------------------------------------------------------------
(* The calls of a provider.                                                *)

LEMMA OnIsFinite ==
  ASSUME NEW p
  PROVE  /\ IsFiniteSet(On(p)) /\ Cardinality(On(p)) \in Nat
         /\ Cardinality(Call) \in Nat /\ Cardinality(On(p)) <= Cardinality(Call)
<1>1. IsFiniteSet(Call) /\ On(p) \in SUBSET Call
  BY RouterAssumption DEF On
<1> QED
  BY <1>1, FS_Subset, FS_CardinalityType

\* Calls only leave: their number does not grow.
LEMMA FewerOn ==
  ASSUME NEW p, NEW S \in SUBSET On(p)
  PROVE  Cardinality(S) \in Nat /\ Cardinality(S) <= Cardinality(On(p))
BY OnIsFinite, FS_Subset, FS_CardinalityType

LEMMA OneFewerOn ==
  ASSUME NEW p, NEW c \in On(p), NEW S \in SUBSET (On(p) \ {c})
  PROVE  Cardinality(S) \in Nat /\ Cardinality(S) <= Cardinality(On(p)) - 1
<1>1. /\ IsFiniteSet(On(p) \ {c})
      /\ Cardinality(On(p) \ {c}) = Cardinality(On(p)) - 1
  BY OnIsFinite, FS_RemoveElement
<1> QED
  BY <1>1, FS_Subset, FS_CardinalityType

-----------------------------------------------------------------------------
LEMMA InitInv == Init => Inv
BY SMTT(30), RouterAssumption
   DEF Init, Inv, TypeOK, CallState, Idle, InFlight, Kind, Result, WaitsUnheard,
       ChunksArePresent, OneVoice, HitsAreCounted, On

\* The two ways a call may begin, with the route left aside.
LEMMA BeginCases ==
  ASSUME NEW c \in Call, Begin(c)
  PROVE  /\ call[c].pc \in {"idle", "done"} /\ channel[c] = << >>
         /\ heard' = [heard EXCEPT ![c] = {}] /\ channel' = channel
         /\ \/ /\ \E result \in Result :
                    call' = [call EXCEPT ![c] = [Idle EXCEPT !.pc = "done", !.result = result]]
               /\ UNCHANGED << breaker, prober, hits >>
            \/ \E p \in Provider, k \in Kind :
                 /\ Allows(p)
                 /\ call' = [call EXCEPT ![c] = [Idle EXCEPT !.pc = "attempt", !.kind = k,
                                                             !.provider = p]]
                 /\ IF breaker[p].state = "closed"
                    THEN UNCHANGED << breaker, prober, hits >>
                    ELSE /\ breaker' = [breaker EXCEPT ![p] = HalfOpen]
                         /\ prober' = [prober EXCEPT ![p] = c]
                         /\ hits' = [hits EXCEPT ![p] = 0]
<1>1. /\ call[c].pc \in {"idle", "done"} /\ channel[c] = << >>
      /\ heard' = [heard EXCEPT ![c] = {}] /\ channel' = channel
  BY DEF Begin
<1>2. PICK r \in Request, k \in Kind : BeginWith(c, r, k)
  BY DEF Begin, BeginWith
<1> DEFINE m == Route[r]
<1>3. CASE m = None /\ UNCHANGED << breaker, prober, hits >>
        /\ call' = [call EXCEPT ![c] = [Idle EXCEPT !.pc = "done", !.result = "unroutable"]]
  BY <1>1, <1>3 DEF Result
<1>4. CASE m # None /\ m.provider \notin Provider /\ UNCHANGED << breaker, prober, hits >>
        /\ call' = [call EXCEPT ![c] = [Idle EXCEPT !.pc = "done", !.result = "unregistered"]]
  BY <1>1, <1>4 DEF Result
<1>5. CASE m # None /\ UNCHANGED << breaker, prober, hits >>
        /\ call' = [call EXCEPT ![c] = [Idle EXCEPT !.pc = "done", !.result = "circuit"]]
  BY <1>1, <1>5 DEF Result
<1>6. CASE /\ m # None /\ m.provider \in Provider /\ Allows(m.provider)
           /\ call' = [call EXCEPT ![c] = [Idle EXCEPT !.pc = "attempt", !.kind = k,
                                                       !.provider = m.provider]]
           /\ IF breaker[m.provider].state = "closed"
              THEN UNCHANGED << breaker, prober, hits >>
              ELSE /\ breaker' = [breaker EXCEPT ![m.provider] = HalfOpen]
                   /\ prober' = [prober EXCEPT ![m.provider] = c]
                   /\ hits' = [hits EXCEPT ![m.provider] = 0]
  BY <1>1, <1>6
<1> QED
  BY ZenonT(30), <1>2, <1>3, <1>4, <1>5, <1>6 DEF BeginWith

LEMMA EndedIsTyped ==
  ASSUME TypeOK, NEW c \in Call, NEW result \in Result, Ended(c, result)
  PROVE  /\ call' \in [Call -> CallState]
         /\ call'[c].pc = "done" /\ call'[c].attempt = call[c].attempt
         /\ \A d \in Call \ {c} : call'[d] = call[d]
<1>1. call \in [Call -> CallState]
  BY DEF TypeOK
<1>2. call[c].attempt \in 0 .. MaxRetries /\ 0 \in 0 .. MaxChunks
  BY <1>1, RouterAssumption DEF CallState
<1> DEFINE j == [Idle EXCEPT !.pc = "done", !.attempt = call[c].attempt, !.result = result]
<1>3. j \in CallState /\ j.pc = "done" /\ j.attempt = call[c].attempt
  BY <1>2 DEF Idle, CallState, Kind
<1>4. call' = [call EXCEPT ![c] = j]
  BY DEF Ended
<1> HIDE DEF j
<1> QED
  BY <1>1, <1>3, <1>4

\* A call that ends leaves its provider to the others.
LEMMA EndedLeaves ==
  ASSUME TypeOK, NEW c \in Call, NEW result \in Result, Ended(c, result), NEW p
  PROVE  On(p)' \in SUBSET (On(p) \ {c})
<1>1. call'[c].pc = "done" /\ \A d \in Call \ {c} : call'[d] = call[d]
  BY EndedIsTyped
<1> QED
  BY <1>1 DEF On, InFlight

\* A call whose place stays the same leaves the sets of calls alone.
LEMMA SameOn ==
  ASSUME NEW p,
         \A d \in Call : InFlight(d)' => InFlight(d) /\ call'[d].provider = call[d].provider
  PROVE  On(p)' \in SUBSET On(p)
BY DEF On, InFlight

-----------------------------------------------------------------------------
(* One lemma for each part, one step for each action.                      *)

\* A step of the circuit.
LEMMA AfterFailureTyped ==
  ASSUME NEW b \in [state : {"closed", "open", "half"}, failures : Nat, cooled : BOOLEAN],
         b.failures > 0 => b.failures < Threshold,
         b.state # "closed" => Threshold > 0 /\ b.failures = 0,
         b.cooled => b.state = "open",
         NEW a, a = AfterFailure(b)
  PROVE  /\ a \in [state : {"closed", "open", "half"}, failures : Nat, cooled : BOOLEAN]
         /\ a.failures > 0 => a.failures < Threshold
         /\ a.state # "closed" => Threshold > 0 /\ a.failures = 0
         /\ a.cooled => a.state = "open"
         /\ Threshold > 0 =>
              /\ a.state = "closed" => b.state = "closed" /\ a.failures = b.failures + 1
              /\ a.state # "half"
              /\ b.state = "closed" /\ a.state = "open" => b.failures + 1 = Threshold
<1>1. Threshold \in Nat
  BY RouterAssumption
<1>2. CASE Threshold = 0 \/ b.state = "open"
  BY <1>1, <1>2 DEF AfterFailure
<1>3. CASE Threshold # 0 /\ b.state # "open" /\ (b.state = "half" \/ b.failures + 1 >= Threshold)
  BY <1>1, <1>3 DEF AfterFailure, Opened
<1>4. CASE Threshold # 0 /\ b.state = "closed" /\ ~ (b.failures + 1 >= Threshold)
  BY <1>1, <1>4 DEF AfterFailure
<1> QED
  BY <1>2, <1>3, <1>4

\* A call that ends keeps the invariant, if the circuit does its part.
LEMMA EndedKeepsInv ==
  ASSUME Inv, NEW c \in Call, NEW result \in Result, Ended(c, result),
         UNCHANGED << channel, heard >>
  PROVE  /\ call' \in [Call -> CallState]
         /\ \A d \in Call : InFlight(d)' => call'[d].provider \in Provider
         /\ WaitsUnheard' /\ ChunksArePresent' /\ OneVoice'
<1>1. /\ call' \in [Call -> CallState]
      /\ call'[c].pc = "done" /\ call'[c].attempt = call[c].attempt
      /\ \A d \in Call \ {c} : call'[d] = call[d]
  BY EndedIsTyped DEF Inv
<1>2. \A d \in Call : InFlight(d)' => d # c /\ InFlight(d)
  BY <1>1 DEF InFlight
<1>3. \A d \in Call : InFlight(d)' => call'[d].provider \in Provider
  BY <1>1, <1>2 DEF Inv, TypeOK
<1>4. WaitsUnheard'
  BY <1>1, <1>2 DEF Inv, WaitsUnheard
<1>5. ChunksArePresent' /\ OneVoice'
  BY <1>1 DEF Inv, ChunksArePresent, OneVoice
<1> QED
  BY <1>1, <1>3, <1>4, <1>5

\* Calls that only leave cannot hit more.
LEMMA HitsStay ==
  ASSUME Inv, breaker' = breaker, hits' = hits, \A p : On(p)' \in SUBSET On(p)
  PROVE  HitsAreCounted'
<1>1. ASSUME NEW p
      PROVE  Cardinality(On(p))' \in Nat /\ Cardinality(On(p))' <= Cardinality(On(p))
  <2>1. On(p)' \in SUBSET On(p)
    OBVIOUS
  <2> DEFINE S == On(p)'
  <2>2. Cardinality(S) \in Nat /\ Cardinality(S) <= Cardinality(On(p))
    BY <2>1, FewerOn
  <2> QED
    BY <2>2
<1>2. Threshold \in Nat /\ \A p \in Provider : hits[p] \in Nat
  BY RouterAssumption DEF Inv, TypeOK
<1>3. ASSUME Threshold > 0, NEW p \in Provider, breaker[p].state = "open"
      PROVE  hits[p] + Cardinality(On(p))' < Threshold + Cardinality(Call)
  BY <1>1, <1>2, <1>3, OnIsFinite DEF Inv, HitsAreCounted
<1> QED
  BY <1>3 DEF Inv, HitsAreCounted

LEMMA CoolInv ==
  ASSUME Inv, NEW p \in Provider, Cool(p)
  PROVE  Inv'
<1>1. TypeOK'
  BY DEF Cool, Inv, TypeOK, InFlight
<1>2. HitsAreCounted'
  BY DEF Cool, Inv, TypeOK, HitsAreCounted, On, InFlight
<1> QED
  BY <1>1, <1>2 DEF Cool, Inv, WaitsUnheard, ChunksArePresent, OneVoice, InFlight

LEMMA BeginInv ==
  ASSUME Inv, NEW c \in Call, Begin(c)
  PROVE  Inv'
<1>0. /\ Threshold \in Nat /\ 0 \in 0 .. MaxRetries /\ 0 \in 0 .. MaxChunks
      /\ call \in [Call -> CallState] /\ heard \in [Call -> SUBSET (0 .. MaxRetries)]
  BY RouterAssumption DEF Inv, TypeOK
<1>1. /\ channel[c] = << >> /\ call[c].pc \in {"idle", "done"}
      /\ heard' = [heard EXCEPT ![c] = {}] /\ channel' = channel
  BY BeginCases
<1>2. CASE /\ \E result \in Result :
                call' = [call EXCEPT ![c] = [Idle EXCEPT !.pc = "done", !.result = result]]
           /\ UNCHANGED << breaker, prober, hits >>
  <2>1. PICK result \in Result :
          call' = [call EXCEPT ![c] = [Idle EXCEPT !.pc = "done", !.result = result]]
    BY <1>2
  <2> DEFINE j == [Idle EXCEPT !.pc = "done", !.result = result]
  <2>2. j \in CallState /\ j.pc = "done"
    BY <1>0 DEF Idle, CallState, Kind
  <2>3. call' = [call EXCEPT ![c] = j]
    BY <2>1
  <2> HIDE DEF j
  <2>4. call' \in [Call -> CallState] /\ call'[c].pc = "done"
          /\ \A d \in Call \ {c} : call'[d] = call[d] /\ heard'[d] = heard[d]
    BY <1>0, <1>1, <2>2, <2>3
  <2>5. \A d \in Call : InFlight(d)' => d # c /\ InFlight(d)
    BY <2>4 DEF InFlight
  <2>6. TypeOK'
    BY <1>0, <1>1, <1>2, <2>4, <2>5 DEF Inv, TypeOK
  <2>7. WaitsUnheard' /\ ChunksArePresent' /\ OneVoice'
    BY <1>0, <1>1, <2>4, <2>5 DEF Inv, WaitsUnheard, ChunksArePresent, OneVoice
  <2>8. \A p : On(p)' \in SUBSET On(p)
    BY <2>4, <2>5 DEF On
  <2>9. HitsAreCounted'
    BY <1>2, <2>8, HitsStay
  <2> QED
    BY <2>6, <2>7, <2>9 DEF Inv
<1>3. ASSUME NEW p \in Provider, NEW k \in Kind, Allows(p),
             call' = [call EXCEPT ![c] = [Idle EXCEPT !.pc = "attempt", !.kind = k,
                                                      !.provider = p]],
             IF breaker[p].state = "closed"
             THEN UNCHANGED << breaker, prober, hits >>
             ELSE /\ breaker' = [breaker EXCEPT ![p] = HalfOpen]
                  /\ prober' = [prober EXCEPT ![p] = c]
                  /\ hits' = [hits EXCEPT ![p] = 0]
      PROVE  Inv'
  <2> DEFINE j == [Idle EXCEPT !.pc = "attempt", !.kind = k, !.provider = p]
  <2>2. j \in CallState /\ j.pc = "attempt" /\ j.provider = p
    BY <1>0 DEF Idle, CallState, Kind, Result
  <2>3. call' = [call EXCEPT ![c] = j]
    BY <1>3
  <2> HIDE DEF j
  <2>4. call' \in [Call -> CallState] /\ call'[c] = j
          /\ \A d \in Call \ {c} : call'[d] = call[d] /\ heard'[d] = heard[d]
    BY <1>0, <1>1, <2>2, <2>3
  <2>5. \A d \in Call \ {c} : InFlight(d)' <=> InFlight(d)
    BY <2>4 DEF InFlight
  <2>6. \A d \in Call : InFlight(d)' => call'[d].provider \in Provider
    BY <2>2, <2>4, <2>5 DEF Inv, TypeOK
  <2>7. WaitsUnheard' /\ ChunksArePresent' /\ OneVoice'
    BY <1>0, <1>1, <2>2, <2>4, <2>5 DEF Inv, WaitsUnheard, ChunksArePresent, OneVoice
  <2>8. \A q \in Provider \ {p} : On(q)' = On(q)
    BY <1>1, <2>2, <2>4, <2>5 DEF On, InFlight
  <2>9. CASE breaker[p].state = "closed"
    <3>1. TypeOK'
      BY ZenonT(60), <1>0, <1>1, <1>3, <2>4, <2>6, <2>9 DEF Inv, TypeOK
    <3>2. HitsAreCounted'
      BY <1>3, <2>8, <2>9 DEF Inv, HitsAreCounted
    <3> QED
      BY <3>1, <3>2, <2>7 DEF Inv
  <2>10. CASE breaker[p].state # "closed"
    <3>1. /\ breaker' = [breaker EXCEPT ![p] = HalfOpen]
          /\ prober' = [prober EXCEPT ![p] = c]
          /\ hits' = [hits EXCEPT ![p] = 0]
      BY <1>3, <2>10
    <3>2. TypeOK'
      BY <1>0, <1>1, <2>4, <2>6, <2>10, <3>1 DEF Inv, TypeOK, HalfOpen
    <3>3. HitsAreCounted'
      BY <2>8, <3>1 DEF Inv, TypeOK, HitsAreCounted, HalfOpen
    <3> QED
      BY <3>2, <3>3, <2>7 DEF Inv
  <2> QED
    BY <2>9, <2>10
<1>4. CASE \E p \in Provider, k \in Kind :
             /\ Allows(p)
             /\ call' = [call EXCEPT ![c] = [Idle EXCEPT !.pc = "attempt", !.kind = k,
                                                         !.provider = p]]
             /\ IF breaker[p].state = "closed"
                THEN UNCHANGED << breaker, prober, hits >>
                ELSE /\ breaker' = [breaker EXCEPT ![p] = HalfOpen]
                     /\ prober' = [prober EXCEPT ![p] = c]
                     /\ hits' = [hits EXCEPT ![p] = 0]
  BY <1>3, <1>4
<1> QED
  BY <1>2, <1>4, BeginCases

\* A call that stays where it is, but for its chunks or its attempt.
LEMMA MovedOn ==
  ASSUME Inv, NEW c \in Call, NEW j \in CallState, call' = [call EXCEPT ![c] = j],
         InFlight(c), j.provider = call[c].provider
  PROVE  /\ call' \in [Call -> CallState] /\ call'[c] = j
         /\ \A d \in Call \ {c} : call'[d] = call[d]
         /\ \A d \in Call : InFlight(d)' => InFlight(d) /\ call'[d].provider = call[d].provider
         /\ \A d \in Call : InFlight(d)' => call'[d].provider \in Provider
         /\ \A p : On(p)' \in SUBSET On(p)
<1>1. call' \in [Call -> CallState] /\ call'[c] = j /\ \A d \in Call \ {c} : call'[d] = call[d]
  BY DEF Inv, TypeOK
<1>2. \A d \in Call : InFlight(d)' => InFlight(d) /\ call'[d].provider = call[d].provider
  BY <1>1 DEF InFlight
<1>3. \A d \in Call : InFlight(d)' => call'[d].provider \in Provider
  BY <1>2 DEF Inv, TypeOK
<1> QED
  BY <1>1, <1>2, <1>3, SameOn

LEMMA EmitInv ==
  ASSUME Inv, NEW c \in Call, Emit(c)
  PROVE  Inv'
<1>0. /\ call[c] \in CallState /\ MaxChunks \in Nat
      /\ channel \in [Call -> Seq(RouterChunk)] /\ channel[c] \in Seq(RouterChunk)
      /\ call[c].pc = "attempt" /\ call[c].kind = "stream" /\ call[c].chunks < MaxChunks
      /\ UNCHANGED << breaker, heard, prober, hits >>
  BY RouterAssumption DEF Inv, TypeOK, Emit, RouterChunk
<1> DEFINE j == [call[c] EXCEPT !.chunks = call[c].chunks + 1]
<1>a. call[c].chunks + 1 \in 0 .. MaxChunks
  BY <1>0 DEF CallState
<1>1. /\ j \in CallState /\ j.pc = "attempt" /\ j.kind = "stream"
      /\ j.attempt = call[c].attempt /\ j.provider = call[c].provider
  BY <1>0, <1>a DEF CallState
<1>2. call' = [call EXCEPT ![c] = j]
  BY DEF Emit
<1> HIDE DEF j
<1>3. /\ call' \in [Call -> CallState] /\ call'[c] = j
      /\ \A d \in Call \ {c} : call'[d] = call[d]
      /\ \A d \in Call : InFlight(d)' => InFlight(d) /\ call'[d].provider \in Provider
      /\ \A p : On(p)' \in SUBSET On(p)
  BY <1>0, <1>1, <1>2, MovedOn DEF InFlight
<1>4. PICK content \in BOOLEAN :
        channel' = [channel EXCEPT ![c] =
                      Append(@, [attempt |-> call[c].attempt, content |-> content])]
  BY DEF Emit
<1> DEFINE t == Append(channel[c], [attempt |-> call[c].attempt, content |-> content])
<1>5. /\ call[c].attempt \in 0 .. MaxRetries
      /\ \A i \in DOMAIN channel[c] : channel[c][i].attempt = call[c].attempt
  BY <1>0 DEF CallState, Inv, ChunksArePresent
<1>7. channel' = [channel EXCEPT ![c] = t]
        /\ t = Append(channel[c], [attempt |-> call[c].attempt, content |-> content])
  BY <1>4
<1> HIDE DEF t
<1>6. t \in Seq(RouterChunk) /\ \A i \in DOMAIN t : t[i].attempt = call[c].attempt
  <2> DEFINE s == channel[c]
             n == call[c].attempt
  <2>1. /\ s \in Seq(RouterChunk) /\ n \in 0 .. MaxRetries /\ \A i \in DOMAIN s : s[i].attempt = n
        /\ t = Append(s, [attempt |-> n, content |-> content])
    BY <1>0, <1>5, <1>7
  <2> HIDE DEF s, n
  <2>2. t \in Seq(RouterChunk) /\ \A i \in DOMAIN t : t[i].attempt = n
    BY <2>1, <1>4, AppendChunk
  <2> QED
    BY <2>2 DEF n
<1>8. channel' \in [Call -> Seq(RouterChunk)] /\ channel'[c] = t
        /\ \A d \in Call \ {c} : channel'[d] = channel[d]
  BY <1>0, <1>6, <1>7
<1>9. TypeOK'
  BY <1>0, <1>3, <1>8 DEF Inv, TypeOK, RouterChunk
<1>10. WaitsUnheard'
  BY <1>0, <1>1, <1>3, <1>8 DEF Inv, WaitsUnheard, InFlight
<1>11. ChunksArePresent'
  <2>1. \A i \in DOMAIN channel'[c] : channel'[c][i].attempt = call'[c].attempt
    BY <1>1, <1>3, <1>6, <1>8
  <2> QED
    BY ZenonT(30), <1>3, <1>8, <2>1 DEF Inv, ChunksArePresent
<1>12. OneVoice'
  BY <1>0, <1>1, <1>3 DEF Inv, OneVoice
<1> QED
  BY <1>0, <1>3, <1>9, <1>10, <1>11, <1>12, HitsStay DEF Inv

LEMMA ForwardInv ==
  ASSUME Inv, NEW c \in Call, Forward(c)
  PROVE  Inv'
<1>0. /\ channel \in [Call -> Seq(RouterChunk)] /\ channel[c] \in Seq(RouterChunk)
      /\ heard \in [Call -> SUBSET (0 .. MaxRetries)]
      /\ channel[c] # << >> /\ UNCHANGED << breaker, call, prober, hits >>
  BY DEF Inv, TypeOK, Forward, RouterChunk
<1> DEFINE t == Tail(channel[c])
<1>1. \A i \in DOMAIN channel[c] : channel[c][i].attempt = call[c].attempt
  BY DEF Inv, ChunksArePresent
<1>2. /\ t \in Seq(RouterChunk) /\ \A i \in DOMAIN t : t[i].attempt = call[c].attempt
      /\ Head(channel[c]) \in RouterChunk /\ Head(channel[c]).attempt = call[c].attempt
  BY <1>0, <1>1, TakeChunk
<1>3. channel' = [channel EXCEPT ![c] = t]
  BY DEF Forward
<1> HIDE DEF t
<1>4. channel' \in [Call -> Seq(RouterChunk)] /\ channel'[c] = t
        /\ \A d \in Call \ {c} : channel'[d] = channel[d]
  BY <1>0, <1>2, <1>3
<1> DEFINE h == IF Head(channel[c]).content THEN heard[c] \cup {Head(channel[c]).attempt}
                ELSE heard[c]
<1>5. h \in SUBSET (0 .. MaxRetries) /\ (heard[c] \subseteq {call[c].attempt} => h \subseteq {call[c].attempt})
  BY <1>0, <1>2 DEF RouterChunk
<1>6. heard' = [heard EXCEPT ![c] = h]
  BY DEF Forward
<1> HIDE DEF h
<1>7. heard' \in [Call -> SUBSET (0 .. MaxRetries)] /\ heard'[c] = h
        /\ \A d \in Call \ {c} : heard'[d] = heard[d]
  BY <1>0, <1>5, <1>6
<1>8. TypeOK'
  BY <1>0, <1>4, <1>7 DEF Inv, TypeOK, RouterChunk, InFlight
<1>9. WaitsUnheard'
  BY <1>0, <1>4, <1>7 DEF Inv, WaitsUnheard, InFlight
<1>10. ChunksArePresent' /\ OneVoice'
  <2>1. \A i \in DOMAIN channel'[c] : channel'[c][i].attempt = call'[c].attempt
    BY <1>0, <1>2, <1>4
  <2>2. heard'[c] \subseteq {call'[c].attempt}
    BY <1>0, <1>5, <1>7 DEF Inv, OneVoice
  <2>3. ChunksArePresent'
    BY <1>0, <1>4, <2>1 DEF Inv, ChunksArePresent
  <2> QED
    BY <1>0, <1>7, <2>2, <2>3 DEF Inv, OneVoice
<1>11. HitsAreCounted'
  BY <1>0 DEF Inv, HitsAreCounted, On, InFlight
<1> QED
  BY <1>8, <1>9, <1>10, <1>11 DEF Inv

LEMMA SucceedInv ==
  ASSUME Inv, NEW c \in Call, Succeed(c)
  PROVE  Inv'
<1>1. PICK result \in {"ok", "over"} : Ended(c, result)
  BY DEF Succeed
<1>2. /\ InFlight(c) /\ call[c].provider \in Provider /\ result \in Result
      /\ UNCHANGED << channel, heard, prober >>
  BY DEF Succeed, Returns, InFlight, Inv, TypeOK, Result
<1>3. /\ call' \in [Call -> CallState]
      /\ \A d \in Call : InFlight(d)' => call'[d].provider \in Provider
      /\ WaitsUnheard' /\ ChunksArePresent' /\ OneVoice'
  BY <1>1, <1>2, EndedKeepsInv
<1>4. \A p : On(p)' \in SUBSET (On(p) \ {c})
  BY <1>1, <1>2, EndedLeaves DEF Inv
<1>5. /\ breaker' = [breaker EXCEPT ![call[c].provider] = Closed]
      /\ hits' = [hits EXCEPT ![call[c].provider] = 0]
  BY DEF Succeed
<1>6. TypeOK'
  <2> DEFINE B == [state : {"closed", "open", "half"}, failures : Nat, cooled : BOOLEAN]
             p == call[c].provider
  <2>1. p \in Provider /\ breaker \in [Provider -> B] /\ hits \in [Provider -> Nat]
    BY <1>2 DEF Inv, TypeOK
  <2>2. Closed \in B /\ Closed.state = "closed" /\ Closed.failures = 0 /\ Closed.cooled = FALSE
    BY DEF Closed
  <2> HIDE DEF B, p
  <2>3. /\ breaker' \in [Provider -> B] /\ hits' \in [Provider -> Nat]
        /\ breaker'[p] = Closed /\ \A q \in Provider \ {p} : breaker'[q] = breaker[q]
    BY <1>5, <2>1, <2>2 DEF p
  <2>4. \A q \in Provider :
          /\ breaker'[q].failures > 0 => breaker'[q].failures < Threshold
          /\ breaker'[q].state # "closed" => Threshold > 0 /\ breaker'[q].failures = 0
          /\ breaker'[q].cooled => breaker'[q].state = "open"
    <3> TAKE q \in Provider
    <3>1. CASE q = p
      BY <2>3, <3>1 DEF Closed
    <3>2. CASE q # p
      BY <2>3, <3>2 DEF Inv, TypeOK
    <3> QED
      BY <3>1, <3>2
  <2>5. /\ channel' \in [Call -> Seq([attempt : 0 .. MaxRetries, content : BOOLEAN])]
        /\ heard' \in [Call -> SUBSET (0 .. MaxRetries)]
        /\ prober' \in [Provider -> Call \cup {None}]
    BY <1>2 DEF Inv, TypeOK
  <2> QED
    BY <1>3, <2>3, <2>4, <2>5 DEF TypeOK, B
<1>7. \A q \in Provider \ {call[c].provider} : On(q)' = On(q)
  <2>1. call'[c].pc = "done" /\ \A d \in Call \ {c} : call'[d] = call[d]
    BY <1>1, <1>2, EndedIsTyped DEF Inv
  <2> QED
    BY <2>1 DEF On, InFlight
<1>8. HitsAreCounted'
  BY <1>2, <1>5, <1>7 DEF Inv, TypeOK, HitsAreCounted, Closed
<1> QED
  BY <1>3, <1>6, <1>8 DEF Inv

\* A call that tells the circuit nothing.
LEMMA LeftInv ==
  ASSUME Inv, NEW c \in Call, NEW result \in Result, Ended(c, result), Abandoned(c),
         UNCHANGED << breaker, channel, heard, hits >>
  PROVE  Inv'
<1>1. /\ call' \in [Call -> CallState]
      /\ \A d \in Call : InFlight(d)' => call'[d].provider \in Provider
      /\ WaitsUnheard' /\ ChunksArePresent' /\ OneVoice'
  BY EndedKeepsInv
<1>2. \A p : On(p)' \in SUBSET On(p)
  BY EndedLeaves DEF Inv
<1>3. TypeOK'
  BY <1>1 DEF Inv, TypeOK, Abandoned
<1> QED
  BY <1>1, <1>2, <1>3, HitsStay DEF Inv

LEMMA RetryInv ==
  ASSUME Inv, NEW c \in Call, Retry(c)
  PROVE  Inv'
<1>0. /\ call[c] \in CallState /\ MaxRetries \in Nat /\ 0 \in 0 .. MaxChunks
      /\ call[c].pc = "backoff" /\ call[c].attempt < MaxRetries
      /\ channel[c] = << >> /\ heard[c] = {}
      /\ UNCHANGED << breaker, channel, heard, prober, hits >>
  BY RouterAssumption DEF Inv, TypeOK, WaitsUnheard, Retry
<1> DEFINE j == [call[c] EXCEPT !.pc = "attempt", !.attempt = call[c].attempt + 1,
                                !.chunks = 0]
<1>a. call[c].attempt + 1 \in 0 .. MaxRetries
  BY <1>0 DEF CallState
<1>1. j \in CallState /\ j.pc = "attempt" /\ j.provider = call[c].provider
  BY <1>0, <1>a DEF CallState
<1>2. call' = [call EXCEPT ![c] = j]
  BY DEF Retry
<1> HIDE DEF j
<1>3. /\ call' \in [Call -> CallState] /\ call'[c] = j
      /\ \A d \in Call \ {c} : call'[d] = call[d]
      /\ \A d \in Call : InFlight(d)' => InFlight(d) /\ call'[d].provider \in Provider
      /\ \A p : On(p)' \in SUBSET On(p)
  BY <1>0, <1>1, <1>2, MovedOn DEF InFlight
<1>4. TypeOK'
  BY <1>0, <1>3 DEF Inv, TypeOK
<1>5. WaitsUnheard'
  BY <1>0, <1>1, <1>3 DEF Inv, WaitsUnheard, InFlight
<1>6. ChunksArePresent' /\ OneVoice'
  BY <1>0, <1>1, <1>3 DEF Inv, ChunksArePresent, OneVoice
<1> QED
  BY <1>0, <1>3, <1>4, <1>5, <1>6, HitsStay DEF Inv

\* A failure is counted, opens the circuit with the last one that is allowed, or
\* takes its call off an open circuit.
LEMMA FailureCounted ==
  ASSUME Inv, NEW p \in Provider, NEW c \in On(p), NEW a, a = AfterFailure(breaker[p]),
         breaker' = [breaker EXCEPT ![p] = a], hits' = [hits EXCEPT ![p] = hits[p] + 1],
         \A q : On(q)' \in SUBSET On(q),
         Threshold > 0 /\ a.state = "open" => On(p)' \in SUBSET (On(p) \ {c})
  PROVE  /\ breaker' \in [Provider -> [state : {"closed", "open", "half"}, failures : Nat,
                                      cooled : BOOLEAN]]
         /\ hits' \in [Provider -> Nat]
         /\ \A q \in Provider :
              /\ breaker'[q].failures > 0 => breaker'[q].failures < Threshold
              /\ breaker'[q].state # "closed" => Threshold > 0 /\ breaker'[q].failures = 0
              /\ breaker'[q].cooled => breaker'[q].state = "open"
         /\ HitsAreCounted'
<1> DEFINE B == [state : {"closed", "open", "half"}, failures : Nat, cooled : BOOLEAN]
           b == breaker[p]
<1>1. /\ Threshold \in Nat /\ breaker \in [Provider -> B] /\ hits \in [Provider -> Nat]
      /\ b \in B /\ b.failures \in Nat
      /\ b.failures > 0 => b.failures < Threshold
      /\ b.state # "closed" => Threshold > 0 /\ b.failures = 0
      /\ b.cooled => b.state = "open"
  BY RouterAssumption DEF Inv, TypeOK
<1>2. a = AfterFailure(b)
  OBVIOUS
<1> HIDE DEF b
<1>3. /\ a \in B
      /\ a.failures > 0 => a.failures < Threshold
      /\ a.state # "closed" => Threshold > 0 /\ a.failures = 0
      /\ a.cooled => a.state = "open"
      /\ Threshold > 0 =>
           /\ a.state = "closed" => b.state = "closed" /\ a.failures = b.failures + 1
           /\ a.state # "half"
           /\ b.state = "closed" /\ a.state = "open" => b.failures + 1 = Threshold
  BY <1>1, <1>2, AfterFailureTyped
<1> HIDE DEF B
<1>4. /\ breaker' \in [Provider -> B] /\ breaker'[p] = a
      /\ hits' \in [Provider -> Nat] /\ hits'[p] = hits[p] + 1
      /\ \A q \in Provider \ {p} : breaker'[q] = breaker[q] /\ hits'[q] = hits[q]
  BY <1>1, <1>3
<1>5. ASSUME NEW q \in Provider
      PROVE  /\ breaker'[q].failures > 0 => breaker'[q].failures < Threshold
             /\ breaker'[q].state # "closed" => Threshold > 0 /\ breaker'[q].failures = 0
             /\ breaker'[q].cooled => breaker'[q].state = "open"
  <2>1. CASE q = p
    BY <1>3, <1>4, <2>1
  <2>2. CASE q # p
    BY <1>4, <2>2 DEF Inv, TypeOK
  <2> QED
    BY <2>1, <2>2
<1>6. ASSUME Threshold > 0, NEW q \in Provider
      PROVE  /\ breaker'[q].state = "closed" => hits'[q] = breaker'[q].failures
             /\ breaker'[q].state = "half" => hits'[q] = 0
             /\ breaker'[q].state = "open" =>
                  hits'[q] + Cardinality(On(q))' < Threshold + Cardinality(Call)
  <2>1. CASE q = p
    <3>1. /\ b.state = "closed" => hits[p] = b.failures
          /\ b.state = "half" => hits[p] = 0
          /\ b.state = "open" => hits[p] + Cardinality(On(p)) < Threshold + Cardinality(Call)
      BY <1>6 DEF b, Inv, HitsAreCounted
    <3>2. ASSUME a.state = "open"
          PROVE  hits[p] + 1 + Cardinality(On(p))' < Threshold + Cardinality(Call)
      <4> DEFINE S == On(p)'
      <4>1. Cardinality(S) \in Nat /\ Cardinality(S) <= Cardinality(On(p)) - 1
        BY <1>6, <3>2, OneFewerOn
      <4>2. /\ Cardinality(On(p)) \in Nat /\ Cardinality(Call) \in Nat
            /\ Cardinality(On(p)) <= Cardinality(Call)
        BY OnIsFinite
      <4>3. b.state \in {"closed", "open", "half"} /\ hits[p] \in Nat
        BY <1>1 DEF B
      <4> HIDE DEF S
      <4>4. hits[p] + 1 + Cardinality(S) < Threshold + Cardinality(Call)
        BY <1>1, <1>3, <1>6, <3>1, <3>2, <4>1, <4>2, <4>3
      <4> QED
        BY <4>4 DEF S
    <3>3. hits'[p] = hits[p] + 1 /\ breaker'[p] = a
      BY <1>4
    <3> QED
      BY <1>3, <1>6, <2>1, <3>1, <3>2, <3>3
  <2>2. CASE q # p
    <3> DEFINE S == On(q)'
    <3>1. Cardinality(S) \in Nat /\ Cardinality(S) <= Cardinality(On(q))
      BY FewerOn
    <3>2. /\ Cardinality(On(q)) \in Nat /\ Cardinality(Call) \in Nat
          /\ hits[q] \in Nat
      BY <1>1, OnIsFinite
    <3>3. hits'[q] = hits[q] /\ breaker'[q] = breaker[q]
      BY <1>4, <2>2
    <3>4. /\ breaker[q].state = "closed" => hits[q] = breaker[q].failures
          /\ breaker[q].state = "half" => hits[q] = 0
          /\ breaker[q].state = "open" =>
               hits[q] + Cardinality(On(q)) < Threshold + Cardinality(Call)
      BY <1>6 DEF Inv, HitsAreCounted
    <3> HIDE DEF S
    <3>5. breaker[q].state = "open" => hits[q] + Cardinality(S) < Threshold + Cardinality(Call)
      BY <1>1, <3>1, <3>2, <3>4
    <3> QED
      BY <3>3, <3>4, <3>5 DEF S
  <2> QED
    BY <2>1, <2>2
<1>7. HitsAreCounted'
  BY <1>6 DEF HitsAreCounted
<1> QED
  BY <1>4, <1>5, <1>7 DEF B

LEMMA FailInv ==
  ASSUME Inv, NEW c \in Call, NEW retryable \in BOOLEAN, Fail(c, retryable)
  PROVE  Inv'
<1> DEFINE p == call[c].provider
           a == AfterFailure(breaker[p])
<1>1. /\ call[c] \in CallState /\ call[c].pc = "attempt" /\ channel[c] = << >>
      /\ p \in Provider /\ c \in On(p) /\ InFlight(c)
      /\ UNCHANGED << channel, heard, prober >>
  BY DEF Fail, Returns, Inv, TypeOK, InFlight, On
<1>2. /\ breaker' = [breaker EXCEPT ![p] = a]
      /\ hits' = [hits EXCEPT ![p] = hits[p] + 1]
  BY DEF Fail
<1>3. /\ channel' \in [Call -> Seq([attempt : 0 .. MaxRetries, content : BOOLEAN])]
      /\ heard' \in [Call -> SUBSET (0 .. MaxRetries)]
      /\ prober' \in [Provider -> Call \cup {None}]
  BY <1>1 DEF Inv, TypeOK
<1>4. CASE MayRetry(c, retryable)
  <2>1. /\ call[c].attempt < MaxRetries /\ ~ (Threshold # 0 /\ a.state = "open")
        /\ heard[c] = {}
    BY <1>1, <1>4 DEF MayRetry, Opens, Inv, WaitsUnheard, CallState, Kind
  <2> DEFINE j == [call[c] EXCEPT !.pc = "backoff"]
  <2>2. /\ j \in CallState /\ j.pc = "backoff" /\ j.attempt = call[c].attempt
        /\ j.provider = call[c].provider
    BY <1>1 DEF CallState
  <2>3. call' = [call EXCEPT ![c] = j]
    BY <1>4 DEF Fail
  <2> HIDE DEF j
  <2>4. /\ call' \in [Call -> CallState] /\ call'[c] = j
        /\ \A d \in Call \ {c} : call'[d] = call[d]
        /\ \A d \in Call : InFlight(d)' => call'[d].provider \in Provider
        /\ \A q : On(q)' \in SUBSET On(q)
    BY <1>1, <2>2, <2>3, MovedOn
  <2> HIDE DEF a
  <2>5. ~ (Threshold > 0 /\ a.state = "open")
    BY <2>1, RouterAssumption
  <2>6. /\ breaker' \in [Provider -> [state : {"closed", "open", "half"}, failures : Nat,
                                     cooled : BOOLEAN]]
        /\ hits' \in [Provider -> Nat]
        /\ \A q \in Provider :
             /\ breaker'[q].failures > 0 => breaker'[q].failures < Threshold
             /\ breaker'[q].state # "closed" => Threshold > 0 /\ breaker'[q].failures = 0
             /\ breaker'[q].cooled => breaker'[q].state = "open"
        /\ HitsAreCounted'
    <3>1. a = AfterFailure(breaker[p])
      BY DEF a
    <3> HIDE DEF p
    <3> QED
      BY <1>1, <1>2, <2>4, <2>5, <3>1, FailureCounted
  <2>7. TypeOK'
    BY <1>3, <2>4, <2>6 DEF TypeOK
  <2>8. WaitsUnheard'
    BY <1>1, <2>1, <2>2, <2>4 DEF Inv, WaitsUnheard, InFlight
  <2>9. ChunksArePresent' /\ OneVoice'
    BY <1>1, <2>2, <2>4 DEF Inv, ChunksArePresent, OneVoice
  <2> QED
    BY <2>6, <2>7, <2>8, <2>9 DEF Inv
<1>5. CASE ~ MayRetry(c, retryable)
  <2>1. Ended(c, "failed") /\ "failed" \in Result
    BY <1>5 DEF Fail, Result
  <2>2. /\ call' \in [Call -> CallState]
        /\ \A d \in Call : InFlight(d)' => call'[d].provider \in Provider
        /\ WaitsUnheard' /\ ChunksArePresent' /\ OneVoice'
    BY <1>1, <2>1, EndedKeepsInv
  <2>3. \A q : On(q)' \in SUBSET (On(q) \ {c})
    BY <2>1, EndedLeaves DEF Inv
  <2>4. /\ breaker' \in [Provider -> [state : {"closed", "open", "half"}, failures : Nat,
                                     cooled : BOOLEAN]]
        /\ hits' \in [Provider -> Nat]
        /\ \A q \in Provider :
             /\ breaker'[q].failures > 0 => breaker'[q].failures < Threshold
             /\ breaker'[q].state # "closed" => Threshold > 0 /\ breaker'[q].failures = 0
             /\ breaker'[q].cooled => breaker'[q].state = "open"
        /\ HitsAreCounted'
    <3>1. a = AfterFailure(breaker[p]) /\ \A q : On(q)' \in SUBSET On(q)
      BY <2>3
    <3> HIDE DEF p, a
    <3> QED
      BY <1>1, <1>2, <2>3, <3>1, FailureCounted
  <2> QED
    BY <1>3, <2>2, <2>4 DEF Inv, TypeOK
<1> QED
  BY <1>4, <1>5

-----------------------------------------------------------------------------
LEMMA NextInv == Inv /\ [Next]_vars => Inv'
<1> SUFFICES ASSUME Inv, [Next]_vars PROVE Inv'
  OBVIOUS
<1>1. CASE UNCHANGED vars
  BY <1>1 DEF vars, Inv, TypeOK, WaitsUnheard, ChunksArePresent, OneVoice, HitsAreCounted,
     InFlight, On
<1>2. ASSUME NEW p \in Provider, Cool(p) PROVE Inv'
  BY <1>2, CoolInv
<1>3. ASSUME NEW c \in Call,
             \/ Begin(c) \/ Emit(c) \/ Forward(c)
             \/ Succeed(c) \/ Fail(c, TRUE) \/ Fail(c, FALSE) \/ Retry(c)
      PROVE  Inv'
  BY <1>3, BeginInv, EmitInv, ForwardInv, SucceedInv, FailInv, RetryInv
<1>4. ASSUME NEW c \in Call, Overflow(c) \/ Drop(c) PROVE Inv'
  <2>1. \E result \in Result : Ended(c, result)
    BY <1>4 DEF Overflow, Drop, Result
  <2>2. Abandoned(c) /\ UNCHANGED << breaker, channel, heard, hits >>
    BY <1>4 DEF Overflow, Drop
  <2> QED
    BY <2>1, <2>2, LeftInv
<1> QED
  BY <1>1, <1>2, <1>3, <1>4 DEF Next

\* However many callers share a provider and however they race with its circuit,
\* a caller never hears two attempts.
THEOREM OneVoiceAlways == Spec => []OneVoice
<1>1. Inv => OneVoice
  BY DEF Inv
<1> QED
  BY <1>1, InitInv, NextInv, PTL DEF Spec

\* And between two probes a provider fails at most as often as its threshold and
\* the calls that were under way allow, whatever they retry.
THEOREM FailuresAlwaysContained == Spec => []FailuresContained
<1>1. ASSUME Inv PROVE FailuresContained
  <2>1. Threshold \in Nat /\ \A p \in Provider : hits[p] \in Nat
    BY <1>1, RouterAssumption DEF Inv, TypeOK
  <2>2. ASSUME Threshold > 0, NEW p \in Provider
        PROVE  hits[p] + Cardinality(On(p)) < Threshold + Cardinality(Call)
    <3>1. /\ Cardinality(On(p)) \in Nat /\ Cardinality(Call) \in Nat
          /\ Cardinality(On(p)) <= Cardinality(Call)
      BY OnIsFinite
    <3>2. /\ breaker[p].state \in {"closed", "open", "half"} /\ breaker[p].failures \in Nat
          /\ breaker[p].failures > 0 => breaker[p].failures < Threshold
      BY <1>1 DEF Inv, TypeOK
    <3> QED
      BY <1>1, <2>1, <2>2, <3>1, <3>2 DEF Inv, HitsAreCounted
  <2> QED
    BY <1>1, <2>2 DEF FailuresContained, Inv
<1> QED
  BY <1>1, InitInv, NextInv, PTL DEF Spec

-----------------------------------------------------------------------------
(* One request.                                                            *)

AccState == [text : Pieces, pending : Calls, calls : Calls]
Fresh == [text |-> << >>, pending |-> Nothing.calls, calls |-> Nothing.calls]

\* The accumulator makes b of a and the chunks q.
Reaches(a, q, b) ==
  \E A \in [0 .. Len(q) -> AccState] :
    /\ A[0] = a /\ A[Len(q)] = b
    /\ \A i \in 1 .. Len(q) : A[i] = Taken(A[i - 1], q[i])

\* The chunks that are on their way to the accumulator.
Pipe == outer \o inner \o sending

\* The calls whose end has been sent, and what the accumulator holds when it
\* has taken everything the provider has sent so far.
Finished ==
  IF server.end # "none" /\ turn.dialect # "responses" THEN Started ELSE server.closed
Fits(b) ==
  /\ b.text = server.text
  /\ \A t \in Tool :
       /\ b.pending[t] = IF t \in Finished THEN NotStarted ELSE server.calls[t]
       /\ b.calls[t] = IF t \in Finished THEN server.calls[t] ELSE NotStarted

\* An attempt whose chunks all arrive.
Live ==
  turn.phase \in {"events", "closing"} \/ (turn.phase = "returned" /\ turn.ok)

Chosen == turn.phase \in {"escalate", "answered"}

ServerInv ==
  /\ parsed.text = server.text /\ parsed.calls = server.calls
  /\ server.closed \subseteq Started
  /\ turn.dialect \in {"openai", "openrouter"} => server.closed = {}
  /\ server.end \in {"stop", "max"} /\ turn.dialect \in {"anthropic", "responses"} =>
       Started = server.closed
  /\ turn.phase = "events" => server.end = "none"
  /\ turn.phase \notin {"events", "closing"} => sending = << >>
  /\ turn.mode = "stream" /\ turn.phase \notin {"request", "failed", "overflow"} =>
       \A i \in DOMAIN server.text : server.text[i] = turn.attempt

UnheardInv ==
  /\ ~ forwarded => acc = Fresh /\ \A i \in DOMAIN outer : outer[i].kind = "done"
  /\ turn.mode = "generate" => outer = << >>

StreamInv ==
  turn.mode = "stream" =>
    /\ turn.phase = "request" => ~ forwarded /\ inner = << >>
    /\ Chosen => inner = << >> /\ outer = << >>
    /\ ~ Chosen => screen = acc.text
    /\ \E b \in AccState : Reaches(acc, Pipe, b) /\ (Live => Fits(b))

AnswerInv ==
  turn.mode = "stream" /\ Chosen =>
    /\ screen = answer.text
    /\ \/ answer.text = << Larger >>
       \/ /\ answer.text = server.text
          /\ server.end \in {"stop", "max"} => answer.calls = server.calls

TurnInv == TurnTypeOK /\ ServerInv /\ UnheardInv /\ StreamInv /\ AnswerInv

-----------------------------------------------------------------------------
(* Chunks on their way.                                                    *)

LEMMA HeadMoves ==
  ASSUME NEW p \in Seq(Chunks), NEW q \in Seq(Chunks), q # << >>
  PROVE  /\ Head(q) \in Chunks /\ Tail(q) \in Seq(Chunks)
         /\ Append(p, Head(q)) \in Seq(Chunks)
         /\ Len(Append(p, Head(q))) = Len(p) + 1
         /\ Append(p, Head(q)) \o Tail(q) = p \o q
         /\ Head(q \o p) = Head(q) /\ Tail(q \o p) = Tail(q) \o p
         /\ q \o p # << >> /\ q \o p \in Seq(Chunks)
<1>1. Head(q) \in Chunks /\ Tail(q) \in Seq(Chunks) /\ Len(q) > 0
  OBVIOUS
<1>2. Append(p, Head(q)) \in Seq(Chunks) /\ Len(Append(p, Head(q))) = Len(p) + 1
  BY <1>1
<1>3. Append(p, Head(q)) \o Tail(q) = p \o q
  <2> DEFINE l == Append(p, Head(q)) \o Tail(q)
             r == p \o q
  <2>1. l \in Seq(Chunks) /\ r \in Seq(Chunks) /\ Len(l) = Len(r)
    BY <1>1
  <2>2. \A i \in 1 .. Len(r) : l[i] = r[i]
    BY <1>1
  <2> QED
    BY <2>1, <2>2, SeqEqual
<1>4. q \o p # << >> /\ q \o p \in Seq(Chunks) /\ Len(q \o p) = Len(q) + Len(p)
  BY <1>1
<1>5. Head(q \o p) = Head(q)
  BY <1>1, <1>4
<1>6. Tail(q \o p) = Tail(q) \o p
  <2> DEFINE l == Tail(q \o p)
             r == Tail(q) \o p
  <2>1. l \in Seq(Chunks) /\ r \in Seq(Chunks) /\ Len(l) = Len(r)
    BY <1>1, <1>4
  <2>2. \A i \in 1 .. Len(r) : l[i] = r[i]
    BY <1>1, <1>4
  <2> QED
    BY <2>1, <2>2, SeqEqual
<1> QED
  BY <1>1, <1>2, <1>3, <1>4, <1>5, <1>6

LEMMA ConcatGroups ==
  ASSUME NEW p \in Seq(Chunks), NEW q \in Seq(Chunks), NEW r \in Seq(Chunks)
  PROVE  p \o q \o r = p \o (q \o r)
<1> DEFINE l == p \o q \o r
           m == p \o (q \o r)
<1>1. l \in Seq(Chunks) /\ m \in Seq(Chunks) /\ Len(l) = Len(m)
  OBVIOUS
<1>2. \A i \in 1 .. Len(m) : l[i] = m[i]
  OBVIOUS
<1> QED
  BY <1>1, <1>2, SeqEqual

LEMMA ConcatNothing ==
  ASSUME NEW p \in Seq(Chunks)
  PROVE  p \o << >> = p /\ << >> \o p = p
OBVIOUS

-----------------------------------------------------------------------------
(* What the accumulator makes of them.                                     *)

LEMMA NothingReaches ==
  ASSUME NEW a \in AccState
  PROVE  Reaches(a, << >>, a) /\ \A b : Reaches(a, << >>, b) => b = a
<1>1. Reaches(a, << >>, a)
  <2> DEFINE A == [i \in 0 .. 0 |-> a]
  <2>1. A \in [0 .. Len(<< >>) -> AccState] /\ A[0] = a /\ A[Len(<< >>)] = a
    OBVIOUS
  <2>2. \A i \in 1 .. Len(<< >>) : A[i] = Taken(A[i - 1], << >>[i])
    OBVIOUS
  <2> QED
    BY <2>1, <2>2 DEF Reaches
<1>2. ASSUME NEW b, Reaches(a, << >>, b) PROVE b = a
  BY <1>2 DEF Reaches
<1> QED
  BY <1>1, <1>2

LEMMA OneReaches ==
  ASSUME NEW a \in AccState, NEW c \in Chunks, Taken(a, c) \in AccState
  PROVE  Reaches(a, << c >>, Taken(a, c))
<1> DEFINE A == [i \in 0 .. 1 |-> IF i = 0 THEN a ELSE Taken(a, c)]
<1>1. A \in [0 .. Len(<< c >>) -> AccState] /\ A[0] = a /\ A[1] = Taken(a, c)
  OBVIOUS
<1>2. \A i \in 1 .. Len(<< c >>) : A[i] = Taken(A[i - 1], << c >>[i])
  BY <1>1
<1> HIDE DEF A
<1>3. A[Len(<< c >>)] = Taken(a, c)
  BY <1>1
<1> QED
  BY <1>1, <1>2, <1>3 DEF Reaches

LEMMA ReachesOn ==
  ASSUME NEW a, NEW b, NEW d, NEW q \in Seq(Chunks), NEW r \in Seq(Chunks),
         Reaches(a, q, b), Reaches(b, r, d)
  PROVE  Reaches(a, q \o r, d)
<1>1. PICK A \in [0 .. Len(q) -> AccState] :
        /\ A[0] = a /\ A[Len(q)] = b
        /\ \A i \in 1 .. Len(q) : A[i] = Taken(A[i - 1], q[i])
  BY DEF Reaches
<1>2. PICK B \in [0 .. Len(r) -> AccState] :
        /\ B[0] = b /\ B[Len(r)] = d
        /\ \A i \in 1 .. Len(r) : B[i] = Taken(B[i - 1], r[i])
  BY DEF Reaches
<1> DEFINE n == Len(q)
           m == Len(r)
           C == [i \in 0 .. n + m |-> IF i <= n THEN A[i] ELSE B[i - n]]
<1>3. n \in Nat /\ m \in Nat /\ Len(q \o r) = n + m
  OBVIOUS
<1>4. C \in [0 .. n + m -> AccState]
  BY <1>3
<1>5. C[0] = a
  BY <1>1, <1>3
<1>6. C[n + m] = d
  <2>1. CASE m = 0
    <3>1. C[n + m] = A[n] /\ B[m] = B[0]
      BY <2>1, <1>3
    <3> QED
      BY <3>1, <1>1, <1>2
  <2>2. CASE m > 0
    <3>1. C[n + m] = B[n + m - n] /\ n + m - n = m
      BY <2>2, <1>3
    <3> QED
      BY <3>1, <1>2
  <2> QED
    BY <2>1, <2>2, <1>3
<1>7. ASSUME NEW i \in 1 .. n + m PROVE C[i] = Taken(C[i - 1], (q \o r)[i])
  <2>1. CASE i <= n
    <3>1. C[i] = A[i] /\ C[i - 1] = A[i - 1] /\ (q \o r)[i] = q[i] /\ i \in 1 .. Len(q)
      BY <2>1, <1>3
    <3> QED
      BY <3>1, <1>1
  <2>2. CASE i > n
    <3>1. /\ C[i] = B[i - n] /\ i - n \in 1 .. Len(r)
          /\ (q \o r)[i] = r[i - n]
      BY <2>2, <1>3
    <3>2. C[i - 1] = B[i - n - 1]
      BY <2>2, <1>1, <1>2, <1>3
    <3> QED
      BY <3>1, <3>2, <1>2
  <2> QED
    BY <2>1, <2>2, <1>3
<1> QED
  BY ZenonT(40), <1>3, <1>4, <1>5, <1>6, <1>7 DEF Reaches

LEMMA FirstIsTaken ==
  ASSUME NEW a, NEW b, NEW q \in Seq(Chunks), q # << >>, Reaches(a, q, b)
  PROVE  Taken(a, Head(q)) \in AccState /\ Reaches(Taken(a, Head(q)), Tail(q), b)
<1>1. PICK A \in [0 .. Len(q) -> AccState] :
        /\ A[0] = a /\ A[Len(q)] = b
        /\ \A i \in 1 .. Len(q) : A[i] = Taken(A[i - 1], q[i])
  BY DEF Reaches
<1> DEFINE n == Len(q) - 1
           B == [i \in 0 .. n |-> A[i + 1]]
<1>2. n \in Nat /\ Len(Tail(q)) = n /\ 1 \in 1 .. Len(q) /\ Head(q) = q[1]
  OBVIOUS
<1>3. A[1] = Taken(a, Head(q)) /\ A[1] \in AccState
  BY <1>1, <1>2
<1>4. B \in [0 .. n -> AccState] /\ B[0] = A[1] /\ B[n] = b
  BY <1>1, <1>2
<1>5. ASSUME NEW i \in 1 .. n PROVE B[i] = Taken(B[i - 1], Tail(q)[i])
  <2>1. B[i] = A[i + 1] /\ B[i - 1] = A[i] /\ Tail(q)[i] = q[i + 1] /\ i + 1 \in 1 .. Len(q)
    BY <1>2
  <2> QED
    BY <2>1, <1>1
<1> QED
  BY ZenonT(30), <1>2, <1>3, <1>4, <1>5 DEF Reaches

LEMMA PrefixReaches ==
  ASSUME NEW a, NEW b, NEW q \in Seq(Chunks), NEW r \in Seq(Chunks), Reaches(a, q \o r, b)
  PROVE  \E d \in AccState : Reaches(a, q, d)
<1>1. PICK A \in [0 .. Len(q \o r) -> AccState] :
        /\ A[0] = a
        /\ \A i \in 1 .. Len(q \o r) : A[i] = Taken(A[i - 1], (q \o r)[i])
  BY DEF Reaches
<1> DEFINE B == [i \in 0 .. Len(q) |-> A[i]]
<1>2. Len(q) \in Nat /\ Len(q) <= Len(q \o r) /\ Len(q \o r) \in Nat
  OBVIOUS
<1>3. B \in [0 .. Len(q) -> AccState] /\ B[0] = a /\ B[Len(q)] \in AccState
  BY <1>1, <1>2
<1>4. ASSUME NEW i \in 1 .. Len(q) PROVE B[i] = Taken(B[i - 1], q[i])
  <2>1. B[i] = A[i] /\ B[i - 1] = A[i - 1] /\ (q \o r)[i] = q[i] /\ i \in 1 .. Len(q \o r)
    BY <1>2
  <2> QED
    BY <2>1, <1>1
<1>5. Reaches(a, q, B[Len(q)])
  BY <1>3, <1>4 DEF Reaches
<1> QED
  BY <1>3, <1>5

-----------------------------------------------------------------------------
(* The chunks of each kind.                                                *)

LEMMA TextIsTaken ==
  ASSUME NEW a \in AccState, NEW c \in Chunks, c.kind = "text"
  PROVE  Taken(a, c) = [text |-> Append(a.text, c.piece), pending |-> a.pending,
                        calls |-> a.calls]
<1>1. Taken(a, c) = [a EXCEPT !.text = Append(@, c.piece)]
  BY DEF Taken
<1> QED
  BY <1>1 DEF AccState

LEMMA StartIsTaken ==
  ASSUME NEW a \in AccState, NEW c \in Chunks, c.kind = "start"
  PROVE  Taken(a, c) = [text |-> a.text, pending |-> [a.pending EXCEPT ![c.tool] = 0],
                        calls |-> a.calls]
<1>1. Taken(a, c) = [a EXCEPT !.pending[c.tool] = 0]
  BY DEF Taken
<1> QED
  BY <1>1 DEF AccState

LEMMA PieceIsTaken ==
  ASSUME NEW a \in AccState, NEW c \in Chunks, c.kind = "piece",
         a.pending[c.tool] # NotStarted
  PROVE  Taken(a, c) = [text |-> a.text, calls |-> a.calls,
                        pending |-> [a.pending EXCEPT ![c.tool] = @ + 1]]
<1>1. Taken(a, c) = [a EXCEPT !.pending[c.tool] = @ + 1]
  BY DEF Taken
<1> QED
  BY <1>1 DEF AccState

LEMMA StopIsTaken ==
  ASSUME NEW a \in AccState, NEW c \in Chunks, c.kind = "stop"
  PROVE  Taken(a, c) =
           IF a.pending[c.tool] = NotStarted THEN a
           ELSE [text |-> a.text, pending |-> [a.pending EXCEPT ![c.tool] = NotStarted],
                 calls |-> [a.calls EXCEPT ![c.tool] = a.pending[c.tool]]]
<1>1. CASE a.pending[c.tool] = NotStarted
  <2>1. Taken(a, c) = a
    BY <1>1 DEF Taken
  <2> QED
    BY <1>1, <2>1
<1>2. CASE a.pending[c.tool] # NotStarted
  <2>1. Taken(a, c) = [a EXCEPT !.calls[c.tool] = a.pending[c.tool],
                               !.pending[c.tool] = NotStarted]
    BY <1>2 DEF Taken
  <2> QED
    BY <1>2, <2>1 DEF AccState
<1> QED
  BY <1>1, <1>2

LEMMA DoneIsTaken ==
  ASSUME NEW a, NEW c, c.kind = "done"
  PROVE  Taken(a, c) = a
BY DEF Taken

-----------------------------------------------------------------------------
(* The calls that are closed together at the end of a stream, in any order.*)

Stops(order) == [i \in DOMAIN order |-> Chunk("stop", order[i])]

\* The accumulator after the stops of S.
Stopped(a, S) ==
  [text |-> a.text,
   pending |-> [t \in Tool |-> IF t \in S THEN NotStarted ELSE a.pending[t]],
   calls |-> [t \in Tool |-> IF t \in S /\ a.pending[t] # NotStarted
                             THEN a.pending[t] ELSE a.calls[t]]]

LEMMA StoppedType ==
  ASSUME NEW a \in AccState, NEW S
  PROVE  Stopped(a, S) \in AccState
<1>1. a.pending \in Calls /\ a.calls \in Calls /\ a.text \in Pieces
  BY DEF AccState
<1>2. NotStarted \in NotStarted .. MaxPieces
  BY TurnAssumption DEF NotStarted
<1>3. Stopped(a, S).pending \in Calls /\ Stopped(a, S).calls \in Calls
  BY <1>1, <1>2 DEF Stopped, Calls
<1> QED
  BY <1>1, <1>3 DEF Stopped, AccState

LEMMA StoppedNone ==
  ASSUME NEW a \in AccState
  PROVE  Stopped(a, {}) = a
<1>1. a = [text |-> a.text, pending |-> a.pending, calls |-> a.calls]
  BY DEF AccState
<1>2. a.pending \in [Tool -> NotStarted .. MaxPieces] /\ a.calls \in [Tool -> NotStarted .. MaxPieces]
  BY DEF AccState, Calls
<1>3. /\ [t \in Tool |-> a.pending[t]] = a.pending
      /\ [t \in Tool |-> a.calls[t]] = a.calls
  BY <1>2
<1>4. Stopped(a, {}) = [text |-> a.text, pending |-> [t \in Tool |-> a.pending[t]],
                        calls |-> [t \in Tool |-> a.calls[t]]]
  BY DEF Stopped
<1> QED
  BY <1>1, <1>3, <1>4

LEMMA StoppedOne ==
  ASSUME NEW a \in AccState, NEW S \in SUBSET Tool, NEW c \in Chunks,
         c.kind = "stop", c.tool \in Tool
  PROVE  Taken(Stopped(a, S), c) = Stopped(a, S \cup {c.tool})
<1> DEFINE d == Stopped(a, S)
           e == Stopped(a, S \cup {c.tool})
           t == c.tool
<1>1. d \in AccState /\ e \in AccState
  BY StoppedType
<1>2. /\ d.text = a.text /\ e.text = a.text
      /\ \A u \in Tool : /\ d.pending[u] = IF u \in S THEN NotStarted ELSE a.pending[u]
                         /\ d.calls[u] = IF u \in S /\ a.pending[u] # NotStarted
                                         THEN a.pending[u] ELSE a.calls[u]
                         /\ e.pending[u] = IF u \in S \/ u = t THEN NotStarted ELSE a.pending[u]
                         /\ e.calls[u] = IF (u \in S \/ u = t) /\ a.pending[u] # NotStarted
                                         THEN a.pending[u] ELSE a.calls[u]
  BY DEF Stopped
<1>3. d.pending \in [Tool -> NotStarted .. MaxPieces] /\ d.calls \in [Tool -> NotStarted .. MaxPieces]
  BY <1>1 DEF AccState, Calls
<1>4. e.pending \in [Tool -> NotStarted .. MaxPieces] /\ e.calls \in [Tool -> NotStarted .. MaxPieces]
  BY <1>1 DEF AccState, Calls
<1>5. /\ d = [text |-> d.text, pending |-> d.pending, calls |-> d.calls]
      /\ e = [text |-> e.text, pending |-> e.pending, calls |-> e.calls]
  BY DEF Stopped
<1> HIDE DEF d, e
<1>6. CASE d.pending[t] = NotStarted
  <2>1. Taken(d, c) = d
    BY <1>1, <1>6, StopIsTaken
  <2>2. \A u \in Tool : d.pending[u] = e.pending[u] /\ d.calls[u] = e.calls[u]
    BY <1>2, <1>6
  <2>3. d.pending = e.pending /\ d.calls = e.calls
    BY <2>2, <1>3, <1>4
  <2> QED
    BY <2>1, <2>3, <1>2, <1>5 DEF d, e
<1>7. CASE d.pending[t] # NotStarted
  <2> DEFINE P == [d.pending EXCEPT ![t] = NotStarted]
             Q == [d.calls EXCEPT ![t] = d.pending[t]]
  <2>1. Taken(d, c) = [text |-> d.text, pending |-> P, calls |-> Q]
    BY <1>1, <1>7, StopIsTaken
  <2>2. t \notin S /\ d.pending[t] = a.pending[t]
    BY <1>2, <1>7
  <2>3. \A u \in Tool : P[u] = e.pending[u]
    BY <1>2, <1>3
  <2>4. \A u \in Tool : Q[u] = e.calls[u]
    BY <1>2, <1>3, <2>2, <1>7
  <2>5. P \in [Tool -> {NotStarted} \cup (NotStarted .. MaxPieces)] /\ Q \in [Tool -> NotStarted .. MaxPieces]
    BY <1>3
  <2>6. P = e.pending
    BY <2>3, <2>5, <1>4
  <2>7. Q = e.calls
    BY <2>4, <2>5, <1>4
  <2> QED
    BY <2>1, <2>6, <2>7, <1>2, <1>5 DEF d, e
<1> QED
  BY <1>6, <1>7 DEF d, e

LEMMA StopsReach ==
  ASSUME NEW a \in AccState, NEW n \in Nat, NEW S \in SUBSET Tool,
         NEW order \in [1 .. n -> S], \A t \in S : \E i \in 1 .. n : order[i] = t,
         turn.attempt \in 1 .. MaxAttempts
  PROVE  /\ Stops(order) \in Seq(Chunks)
         /\ Reaches(a, Stops(order), Stopped(a, S))
<1> DEFINE q == Stops(order)
           Until(i) == { order[j] : j \in 1 .. i }
           A == [i \in 0 .. n |-> Stopped(a, Until(i))]
<1>1. \A i \in 1 .. n : /\ q[i] = Chunk("stop", order[i]) /\ q[i] \in Chunks
                        /\ q[i].kind = "stop" /\ q[i].tool = order[i] /\ order[i] \in Tool
  BY DEF Stops, Chunk, Chunks
<1>2. q \in Seq(Chunks) /\ Len(q) = n
  <2>1. q = [i \in 1 .. n |-> Chunk("stop", order[i])]
    BY DEF Stops
  <2>2. \A i \in 1 .. n : Chunk("stop", order[i]) \in Chunks
    BY <1>1
  <2> QED
    BY <2>1, <2>2
<1>3. A \in [0 .. n -> AccState] /\ 0 \in 0 .. n /\ n \in 0 .. n
  BY StoppedType
<1>4. Until(0) = {} /\ Until(n) = S
  OBVIOUS
<1>5. A[0] = a /\ A[n] = Stopped(a, S)
  BY <1>3, <1>4, StoppedNone
<1>6. ASSUME NEW i \in 1 .. n PROVE A[i] = Taken(A[i - 1], q[i])
  <2>1. i - 1 \in 0 .. n /\ i \in 0 .. n
    OBVIOUS
  <2>2. Until(i) = Until(i - 1) \cup {order[i]}
    OBVIOUS
  <2>3. Until(i - 1) \in SUBSET Tool
    <3>1. \A j \in 1 .. i - 1 : j \in 1 .. n
      OBVIOUS
    <3> QED
      BY <3>1, <1>1
  <2>4. Taken(Stopped(a, Until(i - 1)), q[i]) = Stopped(a, Until(i - 1) \cup {q[i].tool})
    BY <2>3, <1>1, StoppedOne
  <2> QED
    BY <2>1, <2>2, <2>4, <1>1
<1> QED
  BY <1>2, <1>3, <1>5, <1>6 DEF Reaches

\* Every order of a set of calls is one.
LEMMA OrdersCover ==
  ASSUME NEW S \in SUBSET Tool, NEW order \in Orders(S)
  PROVE  /\ Cardinality(S) \in Nat
         /\ order \in [1 .. Cardinality(S) -> S]
         /\ \A t \in S : \E i \in 1 .. Cardinality(S) : order[i] = t
<1>1. Cardinality(S) \in Nat
  BY TurnAssumption, FS_Subset, FS_CardinalityType
<1> QED
  BY <1>1 DEF Orders

-----------------------------------------------------------------------------
(* The invariant.                                                          *)

LEMMA GotoTypes ==
  ASSUME TurnTypeOK, NEW p \in Phase, Goto(p)
  PROVE  /\ turn' \in [phase : Phase, dialect : Dialect, mode : Mode,
                       attempt : 1 .. MaxAttempts, ok : BOOLEAN]
         /\ turn'.phase = p /\ turn'.dialect = turn.dialect /\ turn'.mode = turn.mode
         /\ turn'.attempt = turn.attempt /\ turn'.ok = turn.ok
BY DEF TurnTypeOK, Goto

LEMMA AgainTypes ==
  ASSUME TurnTypeOK, Again
  PROVE  /\ turn' \in [phase : Phase, dialect : Dialect, mode : Mode,
                       attempt : 1 .. MaxAttempts, ok : BOOLEAN]
         /\ turn'.phase = "request" /\ turn'.dialect = turn.dialect /\ turn'.mode = turn.mode
         /\ turn'.ok = FALSE /\ ~ forwarded
<1>1. turn.attempt \in 1 .. MaxAttempts /\ MaxAttempts \in Nat /\ turn.attempt < MaxAttempts
  BY TurnAssumption DEF TurnTypeOK, Again
<1>2. turn.attempt + 1 \in 1 .. MaxAttempts
  BY <1>1
<1>3. "request" \in Phase /\ turn.dialect \in Dialect /\ turn.mode \in Mode
  BY DEF TurnTypeOK, Phase
<1>4. turn' = [phase |-> "request", dialect |-> turn.dialect, mode |-> turn.mode,
               attempt |-> turn.attempt + 1, ok |-> FALSE]
  BY DEF TurnTypeOK, Again
<1> QED
  BY <1>2, <1>3, <1>4 DEF Again

LEMMA ChunkTypes ==
  ASSUME TurnTypeOK, NEW t \in Tool \cup {AnyTool},
         NEW kind \in {"text", "start", "piece", "stop", "done"}
  PROVE  /\ Chunk(kind, t) \in Chunks /\ Chunk(kind, t).kind = kind
         /\ Chunk(kind, t).tool = t /\ Chunk(kind, t).piece = turn.attempt
BY DEF TurnTypeOK, Chunk, Chunks

LEMMA FreshType == Fresh \in AccState
<1>1. NotStarted \in NotStarted .. MaxPieces
  BY TurnAssumption DEF NotStarted
<1> QED
  BY <1>1 DEF Fresh, Nothing, AccState, Calls, Pieces

LEMMA SilentTypes ==
  /\ Silent \in [text : Pieces, calls : Calls, closed : SUBSET Tool,
                 end : {"none", "stop", "max", "cut", "error"}]
  /\ Nothing \in [text : Pieces, calls : Calls]
<1>1. NotStarted \in NotStarted .. MaxPieces
  BY TurnAssumption DEF NotStarted
<1> QED
  BY <1>1 DEF Silent, Nothing, Calls, Pieces

LEMMA DonesReach ==
  ASSUME NEW a \in AccState, NEW q \in Seq(Chunks), \A i \in DOMAIN q : q[i].kind = "done"
  PROVE  Reaches(a, q, a)
<1> DEFINE A == [i \in 0 .. Len(q) |-> a]
<1>1. A \in [0 .. Len(q) -> AccState] /\ A[0] = a /\ A[Len(q)] = a
  OBVIOUS
<1>2. \A i \in 1 .. Len(q) : A[i] = Taken(A[i - 1], q[i])
  BY DoneIsTaken
<1> QED
  BY <1>1, <1>2 DEF Reaches

LEMMA TurnInitInv == TurnInit => TurnInv
<1> SUFFICES ASSUME TurnInit PROVE TurnInv
  OBVIOUS
<1> USE DEF TurnInit
<1>1. acc = Fresh /\ Pipe = << >>
  BY DEF Fresh, Pipe
<1>2. PICK d \in Dialect, m \in Mode :
        turn = [phase |-> "request", dialect |-> d, mode |-> m, attempt |-> 1, ok |-> FALSE]
  OBVIOUS
<1>3. TurnTypeOK
  <2>1. 1 \in 1 .. MaxAttempts /\ 0 <= Capacity
    BY TurnAssumption
  <2>2. turn \in [phase : Phase, dialect : Dialect, mode : Mode, attempt : 1 .. MaxAttempts,
                  ok : BOOLEAN]
    BY <1>2, <2>1 DEF Phase
  <2>3. sending \in Seq(Chunks) /\ Len(inner) <= Capacity /\ Len(outer) <= Capacity
    BY <2>1
  <2>4. acc \in AccState /\ screen \in Pieces
    BY <1>1, FreshType DEF Pieces
  <2> QED
    BY <2>2, <2>3, <2>4, SilentTypes DEF TurnTypeOK, AccState
<1>4. ServerInv
  BY <1>2 DEF ServerInv, Silent, Nothing, Started
<1>5. UnheardInv
  BY <1>1 DEF UnheardInv
<1>6. Reaches(acc, Pipe, acc)
  BY <1>1, FreshType, NothingReaches
<1>7. StreamInv /\ AnswerInv
  BY <1>1, <1>2, <1>6, FreshType DEF StreamInv, AnswerInv, Live, Chosen, Fresh
<1> QED
  BY <1>3, <1>4, <1>5, <1>7 DEF TurnInv

\* The attempt goes on to another phase, and nothing else happens.
LEMMA PhaseChanges ==
  ASSUME TurnInv,
         UNCHANGED << server, parsed, sending, inner, outer, forwarded, acc, screen, answer >>,
         turn' \in [phase : Phase, dialect : Dialect, mode : Mode, attempt : 1 .. MaxAttempts,
                    ok : BOOLEAN],
         turn'.dialect = turn.dialect, turn'.mode = turn.mode,
         ~ Chosen, ~ Chosen', Live' => Live,
         turn'.phase = "request" /\ turn.mode = "stream" => ~ forwarded /\ inner = << >>,
         turn'.phase = "events" => server.end = "none",
         turn'.phase \notin {"events", "closing"} => sending = << >>,
         turn'.phase \notin {"request", "failed", "overflow"} =>
           /\ turn'.attempt = turn.attempt
           /\ turn.phase \notin {"request", "failed", "overflow"}
  PROVE  TurnInv'
<1>1. TurnTypeOK'
  BY DEF TurnInv, TurnTypeOK
<1>2. ServerInv'
  BY DEF TurnInv, ServerInv, Started
<1>3. UnheardInv'
  BY DEF TurnInv, UnheardInv
<1>4. StreamInv'
  <2> SUFFICES ASSUME turn.mode = "stream" PROVE StreamInv'
    BY DEF StreamInv
  <2>1. PICK b \in AccState : Reaches(acc, Pipe, b) /\ (Live => Fits(b))
    BY DEF TurnInv, StreamInv
  <2>2. Pipe' = Pipe /\ (Fits(b) => Fits(b)')
    BY DEF Pipe, Fits, Finished, Started
  <2>3. Reaches(acc, Pipe, b)'
    BY <2>1, <2>2 DEF Reaches
  <2>4. screen = acc.text
    BY DEF TurnInv, StreamInv
  <2> QED
    BY <2>1, <2>2, <2>3, <2>4 DEF StreamInv, Mode
<1>5. AnswerInv'
  BY DEF AnswerInv
<1> QED
  BY <1>1, <1>2, <1>3, <1>4, <1>5 DEF TurnInv

LEMMA RefusedInv ==
  ASSUME TurnInv, Refused
  PROVE  TurnInv'
<1> USE DEF TurnInv
<1>1. /\ turn' \in [phase : Phase, dialect : Dialect, mode : Mode,
                    attempt : 1 .. MaxAttempts, ok : BOOLEAN]
      /\ turn'.phase \in {"request", "failed", "overflow"}
      /\ turn'.dialect = turn.dialect /\ turn'.mode = turn.mode
      /\ turn'.phase = "request" => ~ forwarded
  <2>1. TurnTypeOK /\ "failed" \in Phase /\ "overflow" \in Phase
    BY DEF Phase, Settled
  <2>2. CASE Again
    BY <2>1, <2>2, AgainTypes
  <2>3. CASE Goto("failed")
    BY <2>1, <2>3, GotoTypes
  <2>4. CASE Goto("overflow")
    BY <2>1, <2>4, GotoTypes
  <2> QED
    BY <2>2, <2>3, <2>4 DEF Refused
<1>2. sending = << >> /\ (turn.mode = "stream" => inner = << >>) /\ turn.phase = "request"
  BY DEF Refused, ServerInv, StreamInv
<1>3. turn.mode \in {"stream", "generate"}
  BY DEF TurnTypeOK, Mode
<1> QED
  BY <1>1, <1>2, <1>3, PhaseChanges DEF Refused, Chosen, Live

LEMMA ReturnInv ==
  ASSUME TurnInv, Return
  PROVE  TurnInv'
<1>1. /\ turn' \in [phase : Phase, dialect : Dialect, mode : Mode,
                    attempt : 1 .. MaxAttempts, ok : BOOLEAN]
      /\ turn'.phase = "returned" /\ turn'.attempt = turn.attempt
      /\ turn'.dialect = turn.dialect /\ turn'.mode = turn.mode
  BY GotoTypes DEF TurnInv, Return, Phase
<1> QED
  BY <1>1, PhaseChanges DEF Return, Chosen, Live

LEMMA RetryAttemptInv ==
  ASSUME TurnInv, RetryAttempt \/ GiveUp
  PROVE  TurnInv'
<1>1. /\ turn' \in [phase : Phase, dialect : Dialect, mode : Mode,
                    attempt : 1 .. MaxAttempts, ok : BOOLEAN]
      /\ turn'.phase \in {"request", "failed"}
      /\ turn'.dialect = turn.dialect /\ turn'.mode = turn.mode
      /\ turn'.phase = "request" => ~ forwarded
  <2>1. TurnTypeOK /\ "failed" \in Phase
    BY DEF TurnInv, Phase, Settled
  <2>2. CASE Again
    BY <2>1, <2>2, AgainTypes
  <2>3. CASE Goto("failed")
    BY <2>1, <2>3, GotoTypes
  <2> QED
    BY <2>2, <2>3 DEF RetryAttempt, GiveUp
<1>2. /\ turn.phase = "returned" /\ inner = << >> /\ sending = << >>
      /\ UNCHANGED << server, parsed, sending, inner, outer, forwarded, acc, screen, answer >>
  BY DEF TurnInv, ServerInv, RetryAttempt, GiveUp, Drained
<1> QED
  BY <1>1, <1>2, PhaseChanges DEF Chosen, Live

LEMMA AcceptedInv ==
  ASSUME TurnInv, Accepted
  PROVE  TurnInv'
<1> USE DEF TurnInv
<1>1. /\ turn' \in [phase : Phase, dialect : Dialect, mode : Mode,
                    attempt : 1 .. MaxAttempts, ok : BOOLEAN]
      /\ turn'.phase = "events" /\ turn'.attempt = turn.attempt /\ turn'.dialect = turn.dialect
      /\ turn'.mode = turn.mode
  BY GotoTypes DEF Accepted, Phase
<1>2. /\ server' = Silent /\ parsed' = Nothing /\ turn.phase = "request"
      /\ UNCHANGED << sending, inner, outer, forwarded, acc, screen, answer >>
  BY DEF Accepted
<1>3. TurnTypeOK'
  BY <1>1, <1>2, SilentTypes DEF TurnTypeOK
<1>4. /\ server'.text = << >> /\ server'.closed = {} /\ server'.end = "none"
      /\ server'.calls = [t \in Tool |-> NotStarted] /\ parsed'.text = << >>
      /\ parsed'.calls = server'.calls
  BY <1>2 DEF Silent, Nothing
<1>5. Started' = {}
  BY <1>4 DEF Started
<1>6. ServerInv'
  BY <1>1, <1>4, <1>5 DEF ServerInv
<1>7. UnheardInv'
  BY <1>1, <1>2 DEF UnheardInv
<1>8. StreamInv'
  <2> SUFFICES ASSUME turn.mode = "stream" PROVE StreamInv'
    BY <1>1 DEF StreamInv
  <2>1. /\ sending = << >> /\ inner = << >> /\ acc = Fresh
        /\ \A i \in DOMAIN outer : outer[i].kind = "done"
    BY <1>2 DEF ServerInv, StreamInv, UnheardInv
  <2>2. outer \in Seq(Chunks)
    BY DEF TurnTypeOK
  <2>3. Reaches(Fresh, outer, Fresh)
    BY <2>1, <2>2, FreshType, DonesReach
  <2>4. Pipe' = outer
    BY <1>2, <2>1, <2>2, ConcatNothing DEF Pipe
  <2>5. Reaches(acc, Pipe, Fresh)'
    BY <1>2, <2>1, <2>3, <2>4 DEF Reaches, Fresh, Nothing
  <2>6. Fits(Fresh)'
    BY <1>1, <1>4, <1>5 DEF Fits, Finished, Fresh, Nothing
  <2>7. screen = acc.text
    BY <1>2 DEF StreamInv, Chosen
  <2> QED
    BY <1>1, <1>2, <2>5, <2>6, <2>7, FreshType DEF StreamInv, Chosen, Fresh, Nothing, AccState
<1>9. AnswerInv'
  BY <1>1 DEF AnswerInv, Chosen
<1> QED
  BY <1>3, <1>6, <1>7, <1>8, <1>9

LEMMA BodyInv ==
  ASSUME TurnInv, NEW truncated \in BOOLEAN, Body(truncated)
  PROVE  TurnInv'
<1> USE DEF TurnInv
<1>1. PICK calls \in [Tool -> {NotStarted, MaxPieces}] :
        answer' = [text |-> [i \in 1 .. MaxText |-> turn.attempt], calls |-> calls]
  BY DEF Body
<1>2. /\ turn' \in [phase : Phase, dialect : Dialect, mode : Mode,
                    attempt : 1 .. MaxAttempts, ok : BOOLEAN]
      /\ turn'.phase \in {"escalate", "answered"}
      /\ turn'.attempt = turn.attempt /\ turn'.dialect = turn.dialect /\ turn'.mode = turn.mode
  <2>1. CASE Goto("escalate")
    BY <2>1, GotoTypes DEF Phase
  <2>2. CASE Goto("answered")
    BY <2>2, GotoTypes DEF Phase, Settled
  <2> QED
    BY <2>1, <2>2 DEF Body
<1>3. /\ turn.phase = "request" /\ turn.mode # "stream"
      /\ UNCHANGED << server, parsed, sending, inner, outer, forwarded, acc, screen >>
  BY DEF Body, Streams
<1>4. answer' \in [text : Pieces, calls : Calls]
  <2>1. /\ MaxText \in Nat /\ MaxPieces \in Nat
        /\ turn.attempt \in 0 .. MaxAttempts
        /\ {NotStarted, MaxPieces} \subseteq NotStarted .. MaxPieces
    BY TurnAssumption DEF TurnTypeOK, NotStarted
  <2>2. [i \in 1 .. MaxText |-> turn.attempt] \in Pieces
    BY <2>1 DEF Pieces
  <2>3. calls \in Calls
    BY <2>1 DEF Calls
  <2> QED
    BY <1>1, <2>2, <2>3
<1>5. TurnTypeOK'
  BY <1>2, <1>3, <1>4 DEF TurnTypeOK
<1>6. ServerInv'
  BY <1>2, <1>3 DEF ServerInv, Started
<1>7. UnheardInv' /\ StreamInv' /\ AnswerInv'
  BY <1>2, <1>3 DEF UnheardInv, StreamInv, AnswerInv
<1> QED
  BY <1>5, <1>6, <1>7

-----------------------------------------------------------------------------
(* The provider sends more.                                                *)

\* It takes an event and has chunks to send of which the accumulator will make
\* what fits.
Tells ==
  /\ sending' \in Seq(Chunks)
  /\ \A b \in AccState : Fits(b) => \E d \in AccState : Reaches(b, sending', d) /\ Fits(d)'

LEMMA TellsInv ==
  ASSUME TurnInv, Reads, Tells, TurnTypeOK', ServerInv',
         UNCHANGED << inner, outer, forwarded, acc, screen, answer >>,
         turn'.mode = turn.mode, turn'.phase \in {"events", "closing"}
  PROVE  TurnInv'
<1> USE DEF TurnInv
<1>1. /\ turn.phase = "events" /\ sending = << >>
      /\ inner \in Seq(Chunks) /\ outer \in Seq(Chunks) /\ sending' \in Seq(Chunks)
  BY DEF Reads, TurnTypeOK, Tells
<1>2. UnheardInv' /\ AnswerInv'
  BY DEF UnheardInv, AnswerInv, Chosen
<1>3. StreamInv'
  <2> SUFFICES ASSUME turn.mode = "stream" PROVE StreamInv'
    BY DEF StreamInv
  <2>1. PICK b \in AccState : Reaches(acc, Pipe, b) /\ Fits(b)
    BY <1>1 DEF StreamInv, Live
  <2>2. PICK d \in AccState : Reaches(b, sending', d) /\ Fits(d)'
    BY <2>1 DEF Tells
  <2>3. Pipe = outer \o inner /\ Pipe' = outer \o inner \o sending'
    BY <1>1, ConcatNothing DEF Pipe
  <2>4. Reaches(acc, Pipe', d)
    <3>1. outer \o inner \in Seq(Chunks) /\ Reaches(acc, outer \o inner, b)
      BY <1>1, <2>1, <2>3
    <3>2. Reaches(acc, outer \o inner \o sending', d)
      BY <1>1, <2>2, <3>1, ReachesOn
    <3> QED
      BY <2>3, <3>2
  <2>5. Reaches(acc, Pipe, d)'
    BY <2>4 DEF Reaches
  <2>6. screen' = acc'.text
    BY <1>1 DEF StreamInv, Chosen
  <2> QED
    BY <2>2, <2>5, <2>6 DEF StreamInv, Chosen, AccState
<1> QED
  BY <1>2, <1>3

LEMMA TextInv ==
  ASSUME TurnInv, Text
  PROVE  TurnInv'
<1> USE DEF TurnInv
<1>0. PICK n \in 1 .. MaxAttempts : n = turn.attempt
  BY DEF TurnTypeOK
<1>1. /\ Reads /\ turn.phase = "events" /\ server.end = "none"
      /\ UNCHANGED << turn, inner, outer, forwarded, acc, screen, answer >>
      /\ sending' = << TextChunk >>
  BY DEF Text, Reads
<1>2. /\ server.text \in Seq(0 .. MaxAttempts) /\ parsed.text \in Seq(0 .. MaxAttempts)
      /\ n \in 1 .. MaxAttempts /\ MaxAttempts \in Nat
      /\ Append(server.text, n) \in Pieces /\ Append(parsed.text, n) \in Pieces
  BY TurnAssumption DEF TurnTypeOK, Pieces
<1>3. /\ server' = [text |-> Append(server.text, n), calls |-> server.calls,
                    closed |-> server.closed, end |-> server.end]
      /\ parsed' = [text |-> Append(parsed.text, n), calls |-> parsed.calls]
  BY <1>0 DEF Text, TurnTypeOK
<1>4. TextChunk \in Chunks /\ TextChunk.kind = "text" /\ TextChunk.piece = n
  BY <1>0, ChunkTypes DEF TextChunk
<1>5. TurnTypeOK'
  BY <1>1, <1>2, <1>3, <1>4 DEF TurnTypeOK
<1>6. ServerInv'
  <2>1. Started' = Started
    BY <1>3 DEF Started
  <2>2. turn.mode = "stream" => \A i \in DOMAIN server'.text : server'.text[i] = n
    BY <1>0, <1>1, <1>2, <1>3 DEF ServerInv
  <2> QED
    BY <1>0, <1>1, <1>3, <2>1, <2>2 DEF ServerInv
<1>7. Tells
  <2> SUFFICES ASSUME NEW b \in AccState, Fits(b)
               PROVE  \E d \in AccState : Reaches(b, sending', d) /\ Fits(d)'
    BY <1>1, <1>4 DEF Tells
  <2> DEFINE d == [text |-> Append(b.text, n), pending |-> b.pending, calls |-> b.calls]
  <2>1. Taken(b, TextChunk) = d
    BY <1>4, TextIsTaken
  <2>2. d \in AccState
    BY <1>2 DEF Fits, AccState
  <2>3. Reaches(b, sending', d)
    BY <1>1, <1>4, <2>1, <2>2, OneReaches
  <2>4. Fits(d)'
    <3>1. d.text = server'.text /\ d.pending = b.pending /\ d.calls = b.calls
      BY <1>3 DEF Fits
    <3>2. server'.calls = server.calls /\ server'.closed = server.closed /\ server'.end = server.end
      BY <1>3
    <3>3. Finished' = Finished
      BY <1>1, <3>2 DEF Finished, Started
    <3> QED
      BY <3>1, <3>2, <3>3 DEF Fits
  <2> QED
    BY <2>2, <2>3, <2>4
<1> QED
  BY <1>1, <1>5, <1>6, <1>7, TellsInv

\* A call that has begun and is not closed goes on.
LEMMA PieceInv ==
  ASSUME TurnInv, NEW t \in Tool, Piece(t)
  PROVE  TurnInv'
<1> USE DEF TurnInv
<1> DEFINE c == Chunk("piece", t)
<1>1. /\ Reads /\ turn.phase = "events" /\ server.end = "none"
      /\ UNCHANGED << turn, inner, outer, forwarded, acc, screen, answer >>
      /\ sending' = << c >> /\ t \in Started \ server.closed
      /\ server.calls[t] < MaxPieces
  BY DEF Piece, Reads
<1>2. /\ server.calls \in [Tool -> NotStarted .. MaxPieces]
      /\ parsed.calls \in [Tool -> NotStarted .. MaxPieces]
      /\ MaxPieces \in Nat /\ server.calls[t] \in 0 .. MaxPieces
  BY SMTT(30), <1>1, TurnAssumption DEF TurnTypeOK, Calls, Started, NotStarted
<1>3. /\ server' = [text |-> server.text,
                    calls |-> [server.calls EXCEPT ![t] = server.calls[t] + 1],
                    closed |-> server.closed, end |-> server.end]
      /\ parsed' = [text |-> parsed.text,
                    calls |-> [parsed.calls EXCEPT ![t] = parsed.calls[t] + 1]]
      /\ parsed.calls = server.calls
  BY DEF Piece, TurnTypeOK, ServerInv
<1>4. c \in Chunks /\ c.kind = "piece" /\ c.tool = t
  BY ChunkTypes
<1>5. TurnTypeOK'
  <2>1. server.calls[t] + 1 \in NotStarted .. MaxPieces
    BY <1>1, <1>2 DEF NotStarted
  <2>2. [server.calls EXCEPT ![t] = server.calls[t] + 1] \in Calls
    BY <1>2, <2>1 DEF Calls
  <2>3. parsed' \in [text : Pieces, calls : Calls]
    BY <2>2, <1>3 DEF TurnTypeOK
  <2>4. sending' \in Seq(Chunks)
    BY <1>1, <1>4
  <2> QED
    BY <1>1, <1>3, <2>2, <2>3, <2>4 DEF TurnTypeOK
<1>6. ServerInv'
  <2>1. Started' = Started
    BY <1>2, <1>3 DEF Started, NotStarted
  <2> QED
    BY <1>1, <1>3, <2>1 DEF ServerInv
<1>7. Tells
  <2> SUFFICES ASSUME NEW b \in AccState, Fits(b)
               PROVE  \E d \in AccState : Reaches(b, sending', d) /\ Fits(d)'
    BY <1>1, <1>4 DEF Tells
  <2> DEFINE d == [text |-> b.text, pending |-> [b.pending EXCEPT ![t] = @ + 1],
                   calls |-> b.calls]
  <2>1. t \notin Finished /\ b.pending[t] = server.calls[t] /\ b.pending[t] # NotStarted
    BY <1>1, <1>2 DEF Fits, Finished, NotStarted
  <2>2. Taken(b, c) = d
    BY <1>4, <2>1, PieceIsTaken
  <2>3. d \in AccState
    BY <1>1, <1>2, <2>1 DEF AccState, Calls, NotStarted
  <2>4. Reaches(b, sending', d)
    BY <1>1, <1>4, <2>2, <2>3, OneReaches
  <2>5. Fits(d)'
    <3>1. d.text = server'.text /\ Finished' = Finished
      BY <1>1, <1>2, <1>3 DEF Fits, Finished, Started, NotStarted
    <3>2. b.pending \in [Tool -> NotStarted .. MaxPieces]
      BY DEF AccState, Calls
    <3>3. \A u \in Tool : d.calls[u] = b.calls[u]
                         /\ d.pending[u] = IF u = t THEN b.pending[u] + 1 ELSE b.pending[u]
      BY <3>2
    <3>4. \A u \in Tool : server'.calls[u] = IF u = t THEN server.calls[u] + 1
                                            ELSE server.calls[u]
      BY <1>2, <1>3
    <3> QED
      BY <2>1, <3>1, <3>3, <3>4 DEF Fits
  <2> QED
    BY <2>3, <2>4, <2>5
<1> QED
  BY <1>1, <1>5, <1>6, <1>7, TellsInv

LEMMA StartCallInv ==
  ASSUME TurnInv, NEW t \in Tool, StartCall(t)
  PROVE  TurnInv'
<1> USE DEF TurnInv
<1>1. PICK n \in {0, 1} :
        /\ n <= MaxPieces
        /\ server' = [server EXCEPT !.calls[t] = n]
        /\ parsed' = [parsed EXCEPT !.calls[t] = n]
        /\ sending' = Opening(t, n)
  BY DEF StartCall
<1>2. /\ Reads /\ turn.phase = "events" /\ server.end = "none" /\ t \notin Started
      /\ UNCHANGED << turn, inner, outer, forwarded, acc, screen, answer >>
  BY DEF StartCall, Reads
<1>3. /\ server.calls \in [Tool -> NotStarted .. MaxPieces] /\ parsed.calls = server.calls
      /\ MaxPieces \in Nat /\ n \in NotStarted .. MaxPieces /\ n # NotStarted
  BY <1>1, TurnAssumption DEF TurnTypeOK, Calls, ServerInv, NotStarted
<1>4. /\ server' = [text |-> server.text, calls |-> [server.calls EXCEPT ![t] = n],
                    closed |-> server.closed, end |-> server.end]
      /\ parsed' = [text |-> parsed.text, calls |-> [parsed.calls EXCEPT ![t] = n]]
  BY <1>1 DEF TurnTypeOK
<1> DEFINE c == Chunk("start", t)
           e == Chunk("piece", t)
<1>5. /\ c \in Chunks /\ c.kind = "start" /\ c.tool = t
      /\ e \in Chunks /\ e.kind = "piece" /\ e.tool = t
  BY ChunkTypes
<1>6. sending' = IF n = 0 THEN << c >> ELSE << c >> \o << e >>
  <2>1. CASE n = 0
    <3>1. [i \in 1 .. n |-> e] = << >>
      BY <2>1
    <3> QED
      BY <1>1, <1>5, <2>1, <3>1, ConcatNothing DEF Opening
  <2>2. CASE n = 1
    <3>1. [i \in 1 .. n |-> e] = << e >>
      BY <2>2
    <3> QED
      BY <1>1, <2>2, <3>1 DEF Opening
  <2> QED
    BY <1>1, <2>1, <2>2
<1>7. sending' \in Seq(Chunks)
  BY <1>5, <1>6
<1>8. TurnTypeOK'
  <2>1. [server.calls EXCEPT ![t] = n] \in Calls
    BY <1>3 DEF Calls
  <2> QED
    BY <1>2, <1>3, <1>4, <1>7, <2>1 DEF TurnTypeOK
<1>9. Started' = Started \cup {t}
  BY <1>3, <1>4 DEF Started
<1>10. ServerInv'
  BY <1>2, <1>3, <1>4, <1>9 DEF ServerInv
<1>11. Tells
  <2> SUFFICES ASSUME NEW b \in AccState, Fits(b)
               PROVE  \E d \in AccState : Reaches(b, sending', d) /\ Fits(d)'
    BY <1>7 DEF Tells
  <2> DEFINE f == [text |-> b.text, pending |-> [b.pending EXCEPT ![t] = 0],
                   calls |-> b.calls]
             d == [text |-> b.text, pending |-> [b.pending EXCEPT ![t] = n],
                   calls |-> b.calls]
  <2>1. b.pending \in [Tool -> NotStarted .. MaxPieces]
    BY DEF AccState, Calls
  <2>2. f \in AccState /\ d \in AccState /\ f.pending[t] = 0
    BY <1>3, <2>1 DEF AccState, Calls, NotStarted
  <2>3. Reaches(b, << c >>, f)
    BY <1>5, <2>2, StartIsTaken, OneReaches
  <2>4. Reaches(b, sending', d)
    <3>1. CASE n = 0
      BY <1>6, <2>3, <3>1
    <3>2. CASE n = 1
      <4>1. Taken(f, e) = [text |-> f.text, calls |-> f.calls,
                           pending |-> [f.pending EXCEPT ![t] = @ + 1]]
        <5>1. f.pending[e.tool] # NotStarted
          BY <1>5, <2>2 DEF NotStarted
        <5> HIDE DEF e, f
        <5> QED
          BY <1>5, <2>2, <5>1, PieceIsTaken
      <4>2. [f.pending EXCEPT ![t] = @ + 1] = [b.pending EXCEPT ![t] = n]
        BY <2>1, <2>2, <3>2
      <4>3. Taken(f, e) = d
        BY <4>1, <4>2
      <4>4. Reaches(f, << e >>, d)
        BY <1>5, <2>2, <4>3, OneReaches
      <4>5. << c >> \in Seq(Chunks) /\ << e >> \in Seq(Chunks)
        BY <1>5
      <4>6. Reaches(b, << c >> \o << e >>, d)
        BY <2>3, <4>4, <4>5, ReachesOn
      <4> QED
        BY <1>6, <3>2, <4>6
    <3> QED
      BY <1>1, <3>1, <3>2
  <2>5. Fits(d)'
    <3>1. d.text = server'.text /\ Finished' = Finished /\ t \notin Finished
      BY <1>2, <1>4 DEF Fits, Finished, Started, ServerInv
    <3>2. \A u \in Tool : d.calls[u] = b.calls[u]
                         /\ d.pending[u] = IF u = t THEN n ELSE b.pending[u]
      BY <2>1
    <3>3. \A u \in Tool : server'.calls[u] = IF u = t THEN n ELSE server.calls[u]
      BY <1>3, <1>4
    <3> QED
      BY <3>1, <3>2, <3>3 DEF Fits
  <2> QED
    BY <2>2, <2>4, <2>5
<1> QED
  BY <1>2, <1>8, <1>10, <1>11, TellsInv

LEMMA StopInv ==
  ASSUME TurnInv, NEW t \in Tool, Stop(t)
  PROVE  TurnInv'
<1> USE DEF TurnInv
<1> DEFINE c == Chunk("stop", t)
<1>1. /\ Reads /\ turn.phase = "events" /\ server.end = "none"
      /\ t \in Started \ server.closed /\ turn.dialect \in {"anthropic", "responses"}
      /\ UNCHANGED << turn, parsed, inner, outer, forwarded, acc, screen, answer >>
      /\ sending' = << c >>
  BY DEF Stop, Reads
<1>2. server' = [text |-> server.text, calls |-> server.calls,
                 closed |-> server.closed \cup {t}, end |-> server.end]
  BY DEF Stop, TurnTypeOK
<1>3. c \in Chunks /\ c.kind = "stop" /\ c.tool = t
  BY ChunkTypes
<1>4. TurnTypeOK'
  <2>1. sending' \in Seq(Chunks)
    BY <1>1, <1>3
  <2> QED
    BY <1>1, <1>2, <2>1 DEF TurnTypeOK
<1>5. Started' = Started
  BY <1>2 DEF Started
<1>6. ServerInv'
  BY <1>1, <1>2, <1>5 DEF ServerInv
<1>7. Tells
  <2> SUFFICES ASSUME NEW b \in AccState, Fits(b)
               PROVE  \E d \in AccState : Reaches(b, sending', d) /\ Fits(d)'
    BY <1>1, <1>3 DEF Tells
  <2> DEFINE d == [text |-> b.text, pending |-> [b.pending EXCEPT ![t] = NotStarted],
                   calls |-> [b.calls EXCEPT ![t] = b.pending[t]]]
  <2>1. /\ b.pending \in [Tool -> NotStarted .. MaxPieces]
        /\ b.calls \in [Tool -> NotStarted .. MaxPieces]
        /\ NotStarted \in NotStarted .. MaxPieces
    BY TurnAssumption DEF AccState, Calls, NotStarted
  <2>2. Finished = server.closed /\ Finished' = server.closed \cup {t}
    BY <1>1, <1>2 DEF Finished
  <2>3. b.pending[t] = server.calls[t] /\ b.pending[t] # NotStarted
    BY <1>1, <2>2 DEF Fits, Started
  <2>4. Taken(b, c) = d
    BY <1>3, <2>3, StopIsTaken
  <2>5. d \in AccState
    BY <2>1 DEF AccState, Calls
  <2>6. Reaches(b, sending', d)
    BY <1>1, <1>3, <2>4, <2>5, OneReaches
  <2>7. Fits(d)'
    <3>1. \A u \in Tool : /\ d.pending[u] = IF u = t THEN NotStarted ELSE b.pending[u]
                         /\ d.calls[u] = IF u = t THEN b.pending[t] ELSE b.calls[u]
      BY <2>1
    <3>2. server'.text = server.text /\ server'.calls = server.calls /\ d.text = b.text
      BY <1>2
    <3> QED
      BY <2>2, <2>3, <3>1, <3>2 DEF Fits
  <2> QED
    BY <2>5, <2>6, <2>7
<1> QED
  BY <1>1, <1>4, <1>6, <1>7, TellsInv

LEMMA EndInv ==
  ASSUME TurnInv, EndSomehow
  PROVE  TurnInv'
<1> USE DEF TurnInv
<1>1. PICK how \in {"stop", "max", "cut", "error"}, held \in BOOLEAN : End(how, held)
  BY DEF EndSomehow
<1>2. PICK n \in 1 .. MaxAttempts : n = turn.attempt
  BY DEF TurnTypeOK
<1> DEFINE text == IF held THEN << n >> ELSE server.text
           first == IF held THEN << TextChunk >> ELSE << >>
<1>3. /\ Reads /\ turn.phase = "events" /\ server.end = "none"
      /\ how \in {"stop", "max"} /\ turn.dialect \in {"anthropic", "responses"} =>
           Started = server.closed
      /\ held => server.text = << >>
      /\ UNCHANGED << inner, outer, forwarded, acc, screen, answer >>
  BY <1>1 DEF End, Reads
<1>4. /\ server' = [text |-> text, calls |-> server.calls, closed |-> server.closed,
                    end |-> how]
      /\ parsed' = [text |-> text, calls |-> parsed.calls]
  BY <1>1, <1>2 DEF End, TurnTypeOK
<1>5. PICK order \in Orders(Unclosed) : sending' = first \o Stops(order) \o << DoneChunk >>
  BY <1>1 DEF End, Stops
<1>6. /\ turn' = [phase |-> "closing", dialect |-> turn.dialect, mode |-> turn.mode,
                  attempt |-> turn.attempt, ok |-> how # "error"]
  BY <1>1 DEF End, TurnTypeOK
<1>7. /\ TextChunk \in Chunks /\ TextChunk.kind = "text" /\ TextChunk.piece = n
      /\ DoneChunk \in Chunks /\ DoneChunk.kind = "done"
  BY <1>2, ChunkTypes DEF TextChunk, DoneChunk
<1>8. /\ Unclosed \in SUBSET Tool /\ Unclosed \subseteq Started \ server.closed
      /\ Finished = server.closed /\ Finished' = server.closed \cup Unclosed
  <2>1. Started' = Started /\ Started \subseteq Tool /\ Finished = server.closed
    BY <1>3, <1>4 DEF Started, Finished
  <2>2. Finished' = IF turn.dialect # "responses" THEN Started ELSE server.closed
    BY <1>4, <1>6, <2>1 DEF Finished
  <2>3. server.closed \subseteq Started /\ turn.dialect \in Dialect
    BY DEF ServerInv, TurnTypeOK
  <2>4. CASE turn.dialect = "anthropic"
    <3>1. Unclosed = Started \ server.closed
      BY <2>4 DEF Unclosed
    <3> QED
      BY <2>1, <2>2, <2>3, <2>4, <3>1
  <2>5. CASE turn.dialect \in {"openai", "openrouter"}
    <3>1. Unclosed = Started /\ server.closed = {}
      BY <2>5 DEF Unclosed, ServerInv
    <3> QED
      BY <2>1, <2>2, <2>5, <3>1
  <2>6. CASE turn.dialect = "responses"
    <3>1. Unclosed = {}
      BY <2>6 DEF Unclosed
    <3> QED
      BY <2>1, <2>2, <2>6, <3>1
  <2> QED
    BY <2>3, <2>4, <2>5, <2>6 DEF Dialect
<1>9. /\ Stops(order) \in Seq(Chunks)
      /\ \A b \in AccState : Reaches(b, Stops(order), Stopped(b, Unclosed))
  <2>1. PICK U \in SUBSET Tool : U = Unclosed
    BY <1>8
  <2>2. PICK k \in Nat :
          order \in [1 .. k -> U] /\ \A t \in U : \E i \in 1 .. k : order[i] = t
    BY <2>1, OrdersCover
  <2>3. turn.attempt \in 1 .. MaxAttempts
    BY <1>2
  <2>4. ASSUME NEW b \in AccState
        PROVE  Stops(order) \in Seq(Chunks) /\ Reaches(b, Stops(order), Stopped(b, U))
    BY <2>2, <2>3, StopsReach
  <2>5. acc \in AccState
    BY DEF TurnTypeOK, AccState
  <2> QED
    BY <2>1, <2>4, <2>5
<1>10. /\ first \in Seq(Chunks) /\ << DoneChunk >> \in Seq(Chunks)
       /\ first \o Stops(order) \in Seq(Chunks) /\ sending' \in Seq(Chunks)
  <2>1. first \in Seq(Chunks) /\ << DoneChunk >> \in Seq(Chunks)
    BY <1>7
  <2> HIDE DEF first
  <2> QED
    BY <1>5, <1>9, <2>1
<1>11. text \in Pieces
  <2>1. n \in 0 .. MaxAttempts
    BY <1>2, TurnAssumption
  <2>2. << n >> \in Pieces
    BY <2>1 DEF Pieces
  <2>3. server.text \in Pieces
    BY DEF TurnTypeOK
  <2> QED
    BY <2>2, <2>3
<1>12. TurnTypeOK'
  <2>1. turn' \in [phase : Phase, dialect : Dialect, mode : Mode, attempt : 1 .. MaxAttempts,
                   ok : BOOLEAN]
    BY <1>6 DEF TurnTypeOK, Phase
  <2>2. /\ server' \in [text : Pieces, calls : Calls, closed : SUBSET Tool,
                        end : {"none", "stop", "max", "cut", "error"}]
        /\ parsed' \in [text : Pieces, calls : Calls]
    <3> HIDE DEF text
    <3> QED
      BY <1>4, <1>11 DEF TurnTypeOK
  <2> QED
    BY <1>3, <1>10, <2>1, <2>2 DEF TurnTypeOK
<1>13. ServerInv'
  <2>1. Started' = Started
    BY <1>4 DEF Started
  <2>2. turn.mode = "stream" => \A i \in DOMAIN text : text[i] = n
    BY <1>2, <1>3 DEF ServerInv
  <2>3. /\ parsed'.text = server'.text /\ parsed'.calls = server'.calls
        /\ server'.text = text /\ server'.closed = server.closed /\ server'.end = how
    BY <1>4 DEF ServerInv
  <2> HIDE DEF text
  <2> QED
    BY <1>2, <1>3, <1>6, <2>1, <2>2, <2>3 DEF ServerInv
<1>14. Tells
  <2> SUFFICES ASSUME NEW b \in AccState, Fits(b)
               PROVE  \E d \in AccState : Reaches(b, sending', d) /\ Fits(d)'
    BY <1>10 DEF Tells
  <2>1. PICK e \in AccState : /\ Reaches(b, first, e) /\ e.text = text
                              /\ e.pending = b.pending /\ e.calls = b.calls
    <3>1. CASE held
      <4> DEFINE f == [text |-> Append(b.text, n), pending |-> b.pending, calls |-> b.calls]
      <4>1. b.text = << >>
        BY <1>3, <3>1 DEF Fits
      <4>2. Append(<< >>, n) = << n >>
        OBVIOUS
      <4>3. f.text = text
        BY <3>1, <4>1, <4>2
      <4>4. f \in AccState
        <5> HIDE DEF text
        <5> QED
          BY <1>11, <4>3 DEF AccState
      <4>5. Taken(b, TextChunk) = f
        BY <1>7, TextIsTaken
      <4>6. Reaches(b, first, f)
        BY <1>7, <3>1, <4>4, <4>5, OneReaches
      <4> QED
        BY <4>3, <4>4, <4>6
    <3>2. CASE ~ held
      BY <3>2, NothingReaches DEF Fits
    <3> QED
      BY <3>1, <3>2
  <2>2. PICK U \in SUBSET Tool : U = Unclosed
    BY <1>8
  <2> DEFINE d == Stopped(e, U)
  <2>3. d \in AccState
    BY StoppedType
  <2> HIDE DEF first
  <2>4. Reaches(b, first \o Stops(order), d)
    BY <1>9, <1>10, <2>1, <2>2, ReachesOn
  <2>5. Reaches(d, << DoneChunk >>, d)
    <3>1. Taken(d, DoneChunk) = d
      BY <1>7, DoneIsTaken
    <3> QED
      BY <1>7, <2>3, <3>1, OneReaches
  <2>6. Reaches(b, sending', d)
    <3> HIDE DEF d
    <3> QED
      BY <1>5, <1>10, <2>4, <2>5, ReachesOn
  <2>7. Fits(d)'
    <3>1. /\ d.text = text
          /\ \A t \in Tool :
               /\ d.pending[t] = IF t \in U THEN NotStarted ELSE b.pending[t]
               /\ d.calls[t] = IF t \in U /\ b.pending[t] # NotStarted
                               THEN b.pending[t] ELSE b.calls[t]
      BY <2>1 DEF Stopped
    <3>2. server'.text = text /\ server'.calls = server.calls
      BY <1>4
    <3>3. \A t \in U : b.pending[t] = server.calls[t] /\ b.pending[t] # NotStarted
      BY <1>8, <2>2 DEF Fits, Started
    <3>4. \A t \in Tool : t \in Finished' <=> t \in Finished \/ t \in U
      BY <1>8, <2>2
    <3> HIDE DEF text, d
    <3>5. \A t \in Tool : /\ d.pending[t] = IF t \in Finished' THEN NotStarted
                                            ELSE server.calls[t]
                          /\ d.calls[t] = IF t \in Finished' THEN server.calls[t]
                                          ELSE NotStarted
      BY <3>1, <3>3, <3>4 DEF Fits
    <3>6. /\ d.text = server'.text
          /\ \A t \in Tool : /\ d.pending[t] = IF t \in Finished' THEN NotStarted
                                               ELSE server'.calls[t]
                             /\ d.calls[t] = IF t \in Finished' THEN server'.calls[t]
                                             ELSE NotStarted
      BY <3>1, <3>2, <3>5
    <3> QED
      BY <3>6 DEF Fits, d
  <2> QED
    BY <2>3, <2>6, <2>7
<1> QED
  BY <1>3, <1>6, <1>12, <1>13, <1>14, TellsInv

-----------------------------------------------------------------------------
(* Chunks move on.                                                         *)

LEMMA SendInv ==
  ASSUME TurnInv, Send
  PROVE  TurnInv'
<1> USE DEF TurnInv
<1>1. /\ sending # << >> /\ Len(inner) < Capacity
      /\ inner' = Append(inner, Head(sending)) /\ sending' = Tail(sending)
      /\ UNCHANGED << turn, server, parsed, outer, forwarded, acc, screen, answer >>
  BY DEF Send
<1>2. /\ inner \in Seq(Chunks) /\ outer \in Seq(Chunks) /\ sending \in Seq(Chunks)
      /\ Len(inner) \in Nat /\ Capacity \in Nat
  BY TurnAssumption DEF TurnTypeOK
<1>3. /\ inner' \in Seq(Chunks) /\ sending' \in Seq(Chunks) /\ Len(inner') = Len(inner) + 1
      /\ inner' \o sending' = inner \o sending
  BY ZenonT(30), <1>1, <1>2, HeadMoves
<1>4. TurnTypeOK'
  BY <1>1, <1>2, <1>3 DEF TurnTypeOK
<1>5. turn.phase \in {"events", "closing"}
  BY <1>1 DEF ServerInv
<1>6. ServerInv'
  BY <1>1, <1>5 DEF ServerInv, Started
<1>7. UnheardInv' /\ AnswerInv'
  BY <1>1 DEF UnheardInv, AnswerInv, Chosen
<1>8. StreamInv'
  <2> SUFFICES ASSUME turn.mode = "stream" PROVE StreamInv'
    BY <1>1 DEF StreamInv
  <2>1. PICK b \in AccState : Reaches(acc, Pipe, b) /\ (Live => Fits(b))
    BY DEF StreamInv
  <2>2. Pipe' = Pipe
    <3>1. outer \o inner \o sending = outer \o (inner \o sending)
      BY <1>2, ConcatGroups
    <3>2. outer \o inner' \o sending' = outer \o (inner' \o sending')
      BY ZenonT(40), <1>2, <1>3, ConcatGroups
    <3>3. Pipe' = outer \o inner' \o sending'
      BY <1>1 DEF Pipe
    <3> QED
      BY <1>3, <3>1, <3>2, <3>3 DEF Pipe
  <2>3. Reaches(acc, Pipe, b)'
    BY <1>1, <2>1, <2>2 DEF Reaches
  <2>4. Live' => Fits(b)'
    BY <1>1, <2>1 DEF Live, Fits, Finished, Started
  <2> QED
    BY <1>1, <1>5, <2>3, <2>4 DEF StreamInv, Chosen, AccState
<1> QED
  BY <1>4, <1>6, <1>7, <1>8

LEMMA ExpireInv ==
  ASSUME TurnInv, Expire
  PROVE  TurnInv'
<1> USE DEF TurnInv
<1>1. /\ turn.mode = "stream" /\ turn.phase \in {"events", "closing"} /\ sending' = << >>
      /\ UNCHANGED << server, parsed, inner, outer, forwarded, acc, screen, answer >>
  BY DEF Expire
<1>2. turn' = [phase |-> "returned", dialect |-> turn.dialect, mode |-> turn.mode,
               attempt |-> turn.attempt, ok |-> FALSE]
  BY DEF Expire, TurnTypeOK
<1>3. TurnTypeOK'
  <2>1. "returned" \in Phase /\ sending' \in Seq(Chunks)
    BY <1>1 DEF Phase
  <2> QED
    BY <1>1, <1>2, <2>1 DEF TurnTypeOK
<1>4. ServerInv'
  BY <1>1, <1>2 DEF ServerInv, Started
<1>5. UnheardInv' /\ AnswerInv'
  BY <1>1, <1>2 DEF UnheardInv, AnswerInv, Chosen
<1>6. StreamInv'
  <2>1. PICK b \in AccState : Reaches(acc, Pipe, b)
    BY <1>1 DEF StreamInv
  <2>2. outer \o inner \in Seq(Chunks) /\ sending \in Seq(Chunks)
    BY DEF TurnTypeOK
  <2>3. PICK d \in AccState : Reaches(acc, outer \o inner, d)
    BY <2>1, <2>2, PrefixReaches DEF Pipe
  <2>4. Pipe' = outer \o inner
    BY <1>1, <2>2, ConcatNothing DEF Pipe
  <2>5. Reaches(acc, Pipe, d)'
    BY <1>1, <2>3, <2>4 DEF Reaches
  <2> QED
    BY <1>1, <1>2, <2>5 DEF StreamInv, Chosen, Live, AccState
<1> QED
  BY <1>3, <1>4, <1>5, <1>6

LEMMA ForwardChunkInv ==
  ASSUME TurnInv, ForwardChunk
  PROVE  TurnInv'
<1> USE DEF TurnInv
<1>1. /\ turn.mode = "stream" /\ inner # << >> /\ Len(outer) < Capacity
      /\ outer' = Append(outer, Head(inner)) /\ inner' = Tail(inner)
      /\ forwarded' = (forwarded \/ Head(inner).kind # "done")
      /\ UNCHANGED << turn, server, parsed, sending, acc, screen, answer >>
  BY DEF ForwardChunk
<1>2. /\ inner \in Seq(Chunks) /\ outer \in Seq(Chunks) /\ sending \in Seq(Chunks)
      /\ Len(inner) \in Nat /\ Len(outer) \in Nat /\ Capacity \in Nat
  BY TurnAssumption DEF TurnTypeOK
<1>3. /\ outer' \in Seq(Chunks) /\ inner' \in Seq(Chunks) /\ Len(outer') = Len(outer) + 1
      /\ outer' \o inner' = outer \o inner /\ Len(inner') <= Len(inner)
  <2>1. /\ outer' \in Seq(Chunks) /\ inner' \in Seq(Chunks) /\ Len(outer') = Len(outer) + 1
        /\ outer' \o inner' = outer \o inner
    BY <1>1, <1>2, HeadMoves
  <2>2. Len(inner') = Len(inner) - 1
    BY <1>1, <1>2
  <2> QED
    BY <1>2, <2>1, <2>2
<1>4. TurnTypeOK'
  BY <1>1, <1>2, <1>3 DEF TurnTypeOK
<1>5. ServerInv'
  BY <1>1 DEF ServerInv, Started
<1>6. turn.phase # "request" /\ ~ Chosen
  BY <1>1 DEF StreamInv
<1>7. UnheardInv'
  <2>1. ASSUME ~ forwarded' PROVE \A i \in DOMAIN outer' : outer'[i].kind = "done"
    <3>1. Head(inner).kind = "done" /\ \A i \in DOMAIN outer : outer[i].kind = "done"
      BY <1>1, <2>1 DEF UnheardInv
    <3> QED
      BY <1>1, <1>2, <3>1
  <2> QED
    BY <1>1, <2>1 DEF UnheardInv, Fresh, Nothing
<1>8. AnswerInv'
  BY <1>1, <1>6 DEF AnswerInv, Chosen
<1>9. StreamInv'
  <2>1. PICK b \in AccState : Reaches(acc, Pipe, b) /\ (Live => Fits(b))
    BY <1>1 DEF StreamInv
  <2>2. Pipe' = Pipe
    BY <1>1, <1>3 DEF Pipe
  <2>3. Reaches(acc, Pipe, b)'
    BY <1>1, <2>1, <2>2 DEF Reaches
  <2>4. Live' => Fits(b)'
    BY <1>1, <2>1 DEF Live, Fits, Finished, Started
  <2>5. screen = acc.text
    BY <1>1, <1>6 DEF StreamInv
  <2> QED
    BY <1>1, <1>6, <2>3, <2>4, <2>5 DEF StreamInv, Chosen, AccState
<1> QED
  BY <1>4, <1>5, <1>7, <1>8, <1>9

LEMMA AccumulateInv ==
  ASSUME TurnInv, Accumulate
  PROVE  TurnInv'
<1> USE DEF TurnInv
<1> DEFINE c == Head(outer)
<1>1. /\ outer # << >> /\ acc' = Taken(acc, c) /\ outer' = Tail(outer)
      /\ screen' = IF c.kind = "text" THEN Append(screen, c.piece) ELSE screen
      /\ UNCHANGED << turn, server, parsed, sending, inner, forwarded, answer >>
  BY DEF Accumulate
<1>2. turn.mode = "stream" /\ ~ Chosen
  BY <1>1 DEF UnheardInv, StreamInv, TurnTypeOK, Mode
<1>3. /\ inner \in Seq(Chunks) /\ outer \in Seq(Chunks) /\ sending \in Seq(Chunks)
      /\ inner \o sending \in Seq(Chunks) /\ Len(outer) \in Nat /\ Capacity \in Nat
      /\ acc \in AccState /\ Len(outer) <= Capacity
  BY TurnAssumption DEF TurnTypeOK, AccState
<1>4. /\ c \in Chunks /\ outer' \in Seq(Chunks) /\ Len(outer') <= Capacity
  BY <1>1, <1>3
<1>5. PICK b \in AccState : Reaches(acc, Pipe, b) /\ (Live => Fits(b))
  BY <1>2 DEF StreamInv
<1>6. /\ Pipe = outer \o (inner \o sending) /\ Pipe' = outer' \o (inner \o sending)
      /\ Pipe \in Seq(Chunks) /\ Pipe # << >>
      /\ Head(Pipe) = c /\ Tail(Pipe) = Pipe'
  <2>1. Pipe = outer \o (inner \o sending) /\ Pipe' = outer' \o (inner \o sending)
    <3>1. outer \o inner \o sending = outer \o (inner \o sending)
      BY SMTT(30), <1>3, ConcatGroups
    <3>2. outer' \o inner \o sending = outer' \o (inner \o sending)
      BY ZenonT(60), <1>3, <1>4, ConcatGroups
    <3>3. Pipe' = outer' \o inner \o sending
      BY <1>1 DEF Pipe
    <3> QED
      BY <3>1, <3>2, <3>3 DEF Pipe
  <2>2. /\ outer \o (inner \o sending) \in Seq(Chunks)
        /\ outer \o (inner \o sending) # << >>
        /\ Head(outer \o (inner \o sending)) = c
        /\ Tail(outer \o (inner \o sending)) = Tail(outer) \o (inner \o sending)
    BY <1>1, <1>3, HeadMoves
  <2> QED
    BY <1>1, <2>1, <2>2
<1>7. acc' \in AccState /\ Reaches(acc', Pipe', b)
  BY <1>1, <1>5, <1>6, FirstIsTaken
<1>8. screen = acc.text /\ screen' = acc'.text
  <2>1. screen = acc.text
    BY <1>2 DEF StreamInv
  <2>2. CASE c.kind = "text"
    BY <1>1, <1>3, <1>4, <2>1, <2>2, TextIsTaken
  <2>3. CASE c.kind = "start"
    BY <1>1, <1>3, <1>4, <2>1, <2>3, StartIsTaken
  <2>4. CASE c.kind = "piece" /\ acc.pending[c.tool] # NotStarted
    BY <1>1, <1>3, <1>4, <2>1, <2>4, PieceIsTaken
  <2>5. CASE c.kind = "stop"
    BY <1>1, <1>3, <1>4, <2>1, <2>5, StopIsTaken
  <2>6. CASE c.kind = "done"
    BY <1>1, <2>1, <2>6, DoneIsTaken
  <2>7. CASE c.kind = "piece" /\ acc.pending[c.tool] = NotStarted
    <3>1. Taken(acc, c) = acc
      BY <2>7 DEF Taken
    <3> QED
      BY <1>1, <2>1, <2>7, <3>1
  <2> QED
    BY <1>4, <2>2, <2>3, <2>4, <2>5, <2>6, <2>7 DEF Chunks
<1>9. TurnTypeOK'
  BY <1>1, <1>4, <1>7, <1>8 DEF TurnTypeOK, AccState
<1>10. ServerInv'
  BY <1>1 DEF ServerInv, Started
<1>11. UnheardInv'
  <2>1. ASSUME ~ forwarded
        PROVE  acc' = acc /\ \A i \in DOMAIN outer' : outer'[i].kind = "done"
    <3>1. \A i \in DOMAIN outer : outer[i].kind = "done"
      BY <2>1 DEF UnheardInv
    <3>2. c.kind = "done"
      BY <1>1, <1>3, <3>1
    <3>3. acc' = acc
      BY <1>1, <3>2, DoneIsTaken
    <3>4. \A i \in DOMAIN outer' : i + 1 \in DOMAIN outer /\ outer'[i] = outer[i + 1]
      BY <1>1, <1>3
    <3> QED
      BY <3>1, <3>3, <3>4
  <2> QED
    BY <1>1, <1>2, <2>1 DEF UnheardInv, Fresh, Nothing
<1>12. AnswerInv'
  BY <1>1, <1>2 DEF AnswerInv, Chosen
<1>13. StreamInv'
  <2>1. Reaches(acc, Pipe, b)'
    BY <1>7 DEF Reaches
  <2>2. Live' => Fits(b)'
    BY <1>1, <1>5 DEF Live, Fits, Finished, Started
  <2>3. turn.phase = "request" => ~ forwarded /\ inner = << >>
    BY <1>2 DEF StreamInv
  <2> QED
    BY <1>1, <1>2, <1>8, <2>1, <2>2, <2>3 DEF StreamInv, Chosen, AccState
<1> QED
  BY <1>9, <1>10, <1>11, <1>12, <1>13

-----------------------------------------------------------------------------
(* The end of the turn.                                                    *)

LEMMA AfterAnswerTypes ==
  AfterAnswer \in {"escalate", "answered"} /\ {"escalate", "answered"} \subseteq Phase
BY DEF AfterAnswer, Phase, Settled

\* What the loop has put together when everything has arrived.
LEMMA JoinInv ==
  ASSUME TurnInv, Join
  PROVE  TurnInv'
<1> USE DEF TurnInv
<1> DEFINE text == IF acc.text = << >> THEN parsed.text ELSE acc.text
<1>1. /\ turn.phase = "returned" /\ turn.mode = "stream" /\ turn.ok
      /\ inner = << >> /\ outer = << >>
      /\ answer' = [text |-> text, calls |-> acc.calls]
      /\ screen' = IF acc.text = << >> THEN screen \o text ELSE screen
      /\ UNCHANGED << server, parsed, sending, inner, outer, forwarded, acc >>
  BY DEF Join, Drained
<1>2. /\ turn' \in [phase : Phase, dialect : Dialect, mode : Mode,
                    attempt : 1 .. MaxAttempts, ok : BOOLEAN]
      /\ turn'.phase \in {"escalate", "answered"}
      /\ turn'.attempt = turn.attempt /\ turn'.dialect = turn.dialect /\ turn'.mode = turn.mode
  BY GotoTypes, AfterAnswerTypes DEF Join
<1>3. sending = << >> /\ Pipe = << >>
  <2>1. sending = << >>
    BY <1>1 DEF ServerInv
  <2> QED
    BY <1>1, <2>1 DEF Pipe
<1>4. acc \in AccState /\ Fits(acc)
  <2>1. PICK b \in AccState : Reaches(acc, Pipe, b) /\ Fits(b)
    BY <1>1 DEF StreamInv, Live
  <2>2. acc \in AccState
    BY DEF TurnTypeOK, AccState
  <2> QED
    BY <1>3, <2>1, <2>2, NothingReaches
<1>5. text = server.text /\ text \in Pieces /\ screen' = text
  <2>1. acc.text = server.text /\ parsed.text = server.text /\ screen = acc.text
    BY <1>1, <1>4 DEF Fits, ServerInv, StreamInv, Chosen
  <2>2. text = server.text /\ text \in Pieces
    BY <2>1 DEF TurnTypeOK
  <2>3. CASE acc.text = << >>
    <3>1. screen \o text = << >>
      BY <2>1, <2>3
    <3> QED
      BY <1>1, <2>1, <2>2, <2>3, <3>1
  <2>4. CASE acc.text # << >>
    BY <1>1, <2>1, <2>2, <2>4
  <2> QED
    BY <2>2, <2>3, <2>4
<1>6. server.end \in {"stop", "max"} => acc.calls = server.calls
  <2> SUFFICES ASSUME server.end \in {"stop", "max"} PROVE acc.calls = server.calls
    OBVIOUS
  <2>1. Finished = Started
    BY DEF Finished, ServerInv, TurnTypeOK, Dialect
  <2>2. \A t \in Tool : acc.calls[t] = server.calls[t]
    BY <1>4, <2>1 DEF Fits, Started
  <2>3. acc.calls \in [Tool -> NotStarted .. MaxPieces]
        /\ server.calls \in [Tool -> NotStarted .. MaxPieces]
    BY DEF TurnTypeOK, Calls
  <2> QED
    BY <2>2, <2>3
<1> HIDE DEF text
<1>7. TurnTypeOK'
  BY <1>1, <1>2, <1>5 DEF TurnTypeOK
<1>8. ServerInv'
  BY <1>1, <1>2, <1>3 DEF ServerInv, Started
<1>9. UnheardInv'
  BY <1>1, <1>2 DEF UnheardInv, Fresh, Nothing
<1>10. AnswerInv'
  BY <1>1, <1>5, <1>6 DEF AnswerInv
<1>11. StreamInv'
  <2>1. Reaches(acc, Pipe, acc)'
    BY <1>1, <1>3, <1>4, NothingReaches DEF Pipe, Reaches
  <2> QED
    BY <1>1, <1>2, <1>4, <2>1 DEF StreamInv, Chosen, Live, AccState
<1> QED
  BY <1>7, <1>8, <1>9, <1>10, <1>11

LEMMA DrainInv ==
  ASSUME TurnInv, Drain
  PROVE  TurnInv'
<1> USE DEF TurnInv
<1>1. /\ turn.phase = "returned" /\ turn.mode = "generate" /\ inner' = << >>
      /\ UNCHANGED << server, parsed, sending, outer, forwarded, acc, screen >>
      /\ answer' \in {answer, parsed}
  BY DEF Drain
<1>2. /\ turn' \in [phase : Phase, dialect : Dialect, mode : Mode,
                    attempt : 1 .. MaxAttempts, ok : BOOLEAN]
      /\ turn'.phase \in {"request", "failed", "answered"}
      /\ turn'.dialect = turn.dialect /\ turn'.mode = turn.mode
  <2>1. TurnTypeOK /\ "failed" \in Phase /\ "answered" \in Phase
    BY DEF Phase, Settled
  <2>2. CASE Again
    BY <2>1, <2>2, AgainTypes
  <2>3. CASE Goto("failed")
    BY <2>1, <2>3, GotoTypes
  <2>4. CASE Goto("answered")
    BY <2>1, <2>4, GotoTypes
  <2> QED
    BY <2>2, <2>3, <2>4 DEF Drain
<1>3. TurnTypeOK'
  <2>1. inner' \in Seq(Chunks) /\ Len(inner') <= Capacity
    BY <1>1, TurnAssumption
  <2>2. answer' \in [text : Pieces, calls : Calls]
    BY <1>1 DEF TurnTypeOK
  <2> QED
    BY <1>1, <1>2, <2>1, <2>2 DEF TurnTypeOK
<1>4. ServerInv'
  BY <1>1, <1>2 DEF ServerInv, Started
<1>5. UnheardInv' /\ AnswerInv' /\ StreamInv'
  BY <1>1, <1>2 DEF UnheardInv, AnswerInv, StreamInv, Fresh, Nothing
<1> QED
  BY <1>3, <1>4, <1>5

LEMMA EscalateInv ==
  ASSUME TurnInv, Escalate
  PROVE  TurnInv'
<1> USE DEF TurnInv
<1>1. /\ turn.phase = "escalate"
      /\ UNCHANGED << server, parsed, sending, inner, outer, forwarded, acc >>
      /\ \/ /\ \E calls \in [Tool -> {NotStarted, MaxPieces}] :
                 answer' = [text |-> << Larger >>, calls |-> calls]
            /\ screen' = IF turn.mode = "stream" THEN << Larger >> ELSE screen
         \/ answer' = answer /\ screen' = screen
  BY DEF Escalate, Replaced
<1>2. /\ turn' \in [phase : Phase, dialect : Dialect, mode : Mode,
                    attempt : 1 .. MaxAttempts, ok : BOOLEAN]
      /\ turn'.phase = "answered" /\ turn'.attempt = turn.attempt
      /\ turn'.dialect = turn.dialect /\ turn'.mode = turn.mode
  BY GotoTypes, AfterAnswerTypes DEF Escalate
<1>3. answer' \in [text : Pieces, calls : Calls] /\ screen' \in Pieces
  <2>1. << Larger >> \in Pieces
    <3>1. Larger \in 0 .. MaxAttempts
      BY TurnAssumption DEF Larger
    <3> QED
      BY <3>1 DEF Pieces
  <2>2. [Tool -> {NotStarted, MaxPieces}] \subseteq Calls
    <3>1. {NotStarted, MaxPieces} \subseteq NotStarted .. MaxPieces
      BY TurnAssumption DEF NotStarted
    <3> QED
      BY <3>1 DEF Calls
  <2>3. CASE answer' = answer /\ screen' = screen
    BY <2>3 DEF TurnTypeOK
  <2>4. CASE /\ \E calls \in [Tool -> {NotStarted, MaxPieces}] :
                  answer' = [text |-> << Larger >>, calls |-> calls]
             /\ screen' = IF turn.mode = "stream" THEN << Larger >> ELSE screen
    <3>1. PICK calls \in Calls : answer' = [text |-> << Larger >>, calls |-> calls]
      BY <2>2, <2>4
    <3> QED
      BY <2>1, <2>4, <3>1 DEF TurnTypeOK
  <2> QED
    BY <1>1, <2>3, <2>4
<1>4. TurnTypeOK'
  BY <1>1, <1>2, <1>3 DEF TurnTypeOK
<1>5. ServerInv'
  BY <1>1, <1>2 DEF ServerInv, Started
<1>6. UnheardInv'
  BY <1>1, <1>2 DEF UnheardInv, Fresh, Nothing
<1>7. AnswerInv'
  BY <1>1, <1>2 DEF AnswerInv, Chosen
<1>8. StreamInv'
  <2> SUFFICES ASSUME turn.mode = "stream" PROVE StreamInv'
    BY <1>2 DEF StreamInv
  <2>1. PICK b \in AccState : Reaches(acc, Pipe, b)
    BY DEF StreamInv
  <2>2. Reaches(acc, Pipe, b)'
    BY <1>1, <2>1 DEF Reaches, Pipe
  <2> QED
    BY <1>1, <1>2, <2>2 DEF StreamInv, Chosen, Live, AccState
<1> QED
  BY <1>4, <1>5, <1>6, <1>7, <1>8

LEMMA TurnNextInv ==
  ASSUME TurnInv, [TurnNext]_turnVars
  PROVE  TurnInv'
<1>1. CASE UNCHANGED turnVars
  BY <1>1 DEF turnVars, TurnInv, TurnTypeOK, ServerInv, UnheardInv, StreamInv, AnswerInv,
              Started, Fresh, Nothing, Chosen, Live, Pipe, Reaches, Fits, Finished, AccState
<1>2. ASSUME NEW t \in Tool, StartCall(t) \/ Piece(t) \/ Stop(t) PROVE TurnInv'
  BY <1>2, StartCallInv, PieceInv, StopInv
<1>3. ASSUME NEW truncated \in BOOLEAN, Body(truncated) PROVE TurnInv'
  BY <1>3, BodyInv
<1> QED
  BY <1>1, <1>2, <1>3, RefusedInv, AcceptedInv, TextInv, EndInv, SendInv, ReturnInv,
     ExpireInv, ForwardChunkInv, AccumulateInv, RetryAttemptInv, JoinInv, DrainInv,
     EscalateInv
     DEF TurnNext

\* What a turn goes on with after a stream that the server has ended is what the
\* server sent, in any dialect, with any number of calls in any order, however
\* far the two channels run behind and whatever failed before (NothingLost).
THEOREM NothingIsLost ==
  TurnSpec => []NothingLost
<1>1. TurnInv => NothingLost
  BY DEF TurnInv, NothingLost, AnswerInv, Chosen
<1> QED
  BY <1>1, TurnInitInv, TurnNextInv, PTL DEF TurnSpec

\* Whatever failed before it, and whether or not it was repeated with a larger
\* slot, the terminal shows the answer the turn goes on with, from one attempt
\* (ScreenShowsAnswer).
THEOREM ScreenAlwaysShowsAnswer ==
  TurnSpec => []ScreenShowsAnswer
<1>1. ASSUME TurnInv PROVE ScreenShowsAnswer
  <2> SUFFICES ASSUME turn.phase = "answered", turn.mode = "stream"
               PROVE  /\ screen = answer.text
                      /\ \A i, j \in DOMAIN screen : screen[i] = screen[j]
    BY DEF ScreenShowsAnswer
  <2>1. screen = answer.text
    BY <1>1 DEF TurnInv, AnswerInv, Chosen
  <2>2. CASE answer.text = << Larger >>
    BY <2>1, <2>2
  <2>3. CASE answer.text = server.text
    BY <1>1, <2>1, <2>3 DEF TurnInv, ServerInv
  <2> QED
    BY <1>1, <2>1, <2>2, <2>3 DEF TurnInv, AnswerInv, Chosen
<1> QED
  BY <1>1, TurnInitInv, TurnNextInv, PTL DEF TurnSpec
=============================================================================
