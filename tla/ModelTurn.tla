----------------------------- MODULE ModelTurn -----------------------------
(***************************************************************************)
(* One request of a turn to a model: the events of the provider's server,  *)
(* the chunks the provider makes of them, the router's forwarder, the      *)
(* accumulator of the tool loop, what the terminal shows meanwhile, and    *)
(* the repetition with a larger output slot.  The four providers differ in *)
(* when they close a tool call; the Responses provider streams also when   *)
(* it is asked not to, into a channel that it drains afterwards.           *)
(*                                                                         *)
(* A text is the sequence of its pieces, a piece is the attempt it belongs *)
(* to; the arguments of a tool call are the number of their pieces.  The   *)
(* channels have a capacity of Capacity instead of 32 and 64.              *)
(***************************************************************************)
EXTENDS Integers, Sequences, FiniteSets

CONSTANTS
  Tool,        \* calls that the model may make in its answer
  Capacity,    \* of each channel
  MaxAttempts, \* max_retries + 1
  MaxText,     \* bounds the pieces of a text
  MaxPieces    \* bounds the pieces of the arguments of a call

ASSUME TurnAssumption ==
  /\ IsFiniteSet(Tool)
  /\ {Capacity, MaxAttempts} \subseteq Nat \ {0}
  /\ {MaxText, MaxPieces} \subseteq Nat

Dialect == {"anthropic", "openai", "openrouter", "responses"}
Mode == {"stream", "generate"}
Settled == {"answered", "failed", "overflow"}
Phase == {"request", "events", "closing", "returned", "escalate"} \cup Settled

Larger == 0    \* the piece of which the text of the larger slot consists
NotStarted == -1

VARIABLES
  turn,     \* phase, dialect, mode, attempt and whether it has succeeded
  server,   \* what the server has sent in this attempt
  parsed,   \* what the provider has made of it
  sending,  \* chunks the provider has still to send
  inner,    \* the channel of the attempt
  outer,    \* the channel of the call
  forwarded, \* chunks_forwarded > 0
  acc,      \* the accumulator
  screen,   \* the text on the terminal
  answer    \* what the turn goes on with

turnVars == << turn, server, parsed, sending, inner, outer, forwarded, acc, screen, answer >>

Silent == [text |-> << >>, calls |-> [t \in Tool |-> NotStarted], closed |-> {},
           end |-> "none"]
Nothing == [text |-> << >>, calls |-> [t \in Tool |-> NotStarted]]

TurnInit ==
  /\ \E d \in Dialect, m \in Mode :
       turn = [phase |-> "request", dialect |-> d, mode |-> m, attempt |-> 1, ok |-> FALSE]
  /\ server = Silent
  /\ parsed = Nothing
  /\ sending = << >> /\ inner = << >> /\ outer = << >>
  /\ forwarded = FALSE
  /\ acc = [text |-> << >>, pending |-> Nothing.calls, calls |-> Nothing.calls]
  /\ screen = << >>
  /\ answer = Nothing

Goto(p) == turn' = [turn EXCEPT !.phase = p]

Started == { t \in Tool : server.calls[t] # NotStarted }
Chunk(kind, t) == [kind |-> kind, tool |-> t, piece |-> turn.attempt]
AnyTool == CHOOSE t \in Tool : TRUE
TextChunk == Chunk("text", AnyTool)
DoneChunk == Chunk("done", AnyTool)

\* complete() of the other providers reads one body instead of a stream.
Streams == turn.mode = "stream" \/ turn.dialect = "responses"

-----------------------------------------------------------------------------
(* The router around an attempt.                                           *)

\* The next attempt, unless something was heard of this one.
Again ==
  /\ ~ forwarded /\ turn.attempt < MaxAttempts
  /\ turn' = [turn EXCEPT !.phase = "request", !.attempt = @ + 1, !.ok = FALSE]

\* The request is refused by its status or the connection fails.
Refused ==
  /\ turn.phase = "request"
  /\ Again \/ Goto("failed") \/ Goto("overflow")
  /\ UNCHANGED << server, parsed, sending, inner, outer, forwarded, acc, screen, answer >>

Accepted ==
  /\ turn.phase = "request" /\ Streams
  /\ Goto("events")
  /\ server' = Silent /\ parsed' = Nothing
  /\ UNCHANGED << sending, inner, outer, forwarded, acc, screen, answer >>

\* One body with the whole answer.
Body(truncated) ==
  /\ turn.phase = "request" /\ ~ Streams
  /\ \E calls \in [Tool -> {NotStarted, MaxPieces}] :
       answer' = [text |-> [i \in 1 .. MaxText |-> turn.attempt], calls |-> calls]
  /\ Goto(IF truncated THEN "escalate" ELSE "answered")
  /\ UNCHANGED << server, parsed, sending, inner, outer, forwarded, acc, screen >>

-----------------------------------------------------------------------------
(* The events of the server, and what the provider sends for each.         *)

Reads == turn.phase = "events" /\ sending = << >> /\ server.end = "none"

Text ==
  /\ Reads /\ Len(server.text) < MaxText
  /\ server' = [server EXCEPT !.text = Append(@, turn.attempt)]
  /\ parsed' = [parsed EXCEPT !.text = Append(@, turn.attempt)]
  /\ sending' = << TextChunk >>
  /\ UNCHANGED << turn, inner, outer, forwarded, acc, screen, answer >>

\* The Chat Completions dialects may bring the first arguments with the name.
Opening(t, n) == << Chunk("start", t) >> \o [i \in 1 .. n |-> Chunk("piece", t)]

StartCall(t) ==
  /\ Reads /\ t \notin Started
  /\ \E n \in {0, 1} :
       /\ n <= MaxPieces /\ (n = 1 => turn.dialect \in {"openai", "openrouter"})
       /\ server' = [server EXCEPT !.calls[t] = n]
       /\ parsed' = [parsed EXCEPT !.calls[t] = n]
       /\ sending' = Opening(t, n)
  /\ UNCHANGED << turn, inner, outer, forwarded, acc, screen, answer >>

Piece(t) ==
  /\ Reads /\ t \in Started \ server.closed /\ server.calls[t] < MaxPieces
  /\ server' = [server EXCEPT !.calls[t] = @ + 1]
  /\ parsed' = [parsed EXCEPT !.calls[t] = @ + 1]
  /\ sending' = << Chunk("piece", t) >>
  /\ UNCHANGED << turn, inner, outer, forwarded, acc, screen, answer >>

\* content_block_stop and output_item.done.
Stop(t) ==
  /\ Reads /\ t \in Started \ server.closed
  /\ turn.dialect \in {"anthropic", "responses"}
  /\ server' = [server EXCEPT !.closed = @ \cup {t}]
  /\ sending' = << Chunk("stop", t) >>
  /\ UNCHANGED << turn, parsed, inner, outer, forwarded, acc, screen, answer >>

\* The calls that a provider closes itself when the stream is over.
Unclosed ==
  CASE turn.dialect = "anthropic" -> Started \ server.closed
    [] turn.dialect \in {"openai", "openrouter"} -> Started
    [] turn.dialect = "responses" -> {}

\* They come out of a hash map, in any order.
Orders(S) == { s \in [1 .. Cardinality(S) -> S] : \A t \in S : \E i \in DOMAIN s : s[i] = t }

\* The server has said everything ("max" if the slot was too small), or the
\* connection ends; a connection that is closed between two events is taken
\* for an end, too.  The Responses server may hold back the text until then.
End(how, held) ==
  /\ Reads
  /\ how \in {"stop", "max"} /\ turn.dialect \in {"anthropic", "responses"} => Started = server.closed
  /\ held => turn.dialect = "responses" /\ how = "stop" /\ server.text = << >> /\ MaxText > 0
  /\ LET text == IF held THEN << turn.attempt >> ELSE server.text
     IN  /\ server' = [server EXCEPT !.end = how, !.text = text]
         /\ parsed' = [parsed EXCEPT !.text = text]
  /\ \E order \in Orders(Unclosed) :
       sending' = (IF held THEN << TextChunk >> ELSE << >>)
                    \o [i \in DOMAIN order |-> Chunk("stop", order[i])] \o << DoneChunk >>
  /\ turn' = [turn EXCEPT !.phase = "closing", !.ok = (how # "error")]
  /\ UNCHANGED << inner, outer, forwarded, acc, screen, answer >>

Send ==
  /\ sending # << >> /\ Len(inner) < Capacity
  /\ inner' = Append(inner, Head(sending))
  /\ sending' = Tail(sending)
  /\ UNCHANGED << turn, server, parsed, outer, forwarded, acc, screen, answer >>

Return ==
  /\ turn.phase = "closing" /\ sending = << >>
  /\ Goto("returned")
  /\ UNCHANGED << server, parsed, sending, inner, outer, forwarded, acc, screen, answer >>

\* The 300 seconds of a streaming attempt: the provider's future is dropped.
Expire ==
  /\ turn.mode = "stream" /\ turn.phase \in {"events", "closing"}
  /\ turn' = [turn EXCEPT !.phase = "returned", !.ok = FALSE]
  /\ sending' = << >>
  /\ UNCHANGED << server, parsed, inner, outer, forwarded, acc, screen, answer >>

-----------------------------------------------------------------------------
(* The forwarder and the accumulator.                                      *)

ForwardChunk ==
  /\ turn.mode = "stream" /\ inner # << >> /\ Len(outer) < Capacity
  /\ outer' = Append(outer, Head(inner))
  /\ inner' = Tail(inner)
  /\ forwarded' = (forwarded \/ Head(inner).kind # "done")
  /\ UNCHANGED << turn, server, parsed, sending, acc, screen, answer >>

\* Mutant: only the call announced last is pending.
TakenOne(a, c) ==
  CASE c.kind = "text"  -> [a EXCEPT !.text = Append(@, c.piece)]
    [] c.kind = "start" -> [a EXCEPT !.pending = [t \in Tool |-> IF t = c.tool THEN 0
                                                                 ELSE NotStarted]]
    [] c.kind = "piece" /\ a.pending[c.tool] # NotStarted -> [a EXCEPT !.pending[c.tool] = @ + 1]
    [] c.kind = "stop" /\ a.pending[c.tool] # NotStarted ->
         [a EXCEPT !.calls[c.tool] = a.pending[c.tool], !.pending[c.tool] = NotStarted]
    [] OTHER -> a
\* What the accumulator makes of a chunk: pieces and ends of a call that was
\* not announced are dropped.
Taken(a, c) ==
  CASE c.kind = "text"  -> [a EXCEPT !.text = Append(@, c.piece)]
    [] c.kind = "start" -> [a EXCEPT !.pending[c.tool] = 0]
    [] c.kind = "piece" /\ a.pending[c.tool] # NotStarted -> [a EXCEPT !.pending[c.tool] = @ + 1]
    [] c.kind = "stop" /\ a.pending[c.tool] # NotStarted ->
         [a EXCEPT !.calls[c.tool] = a.pending[c.tool], !.pending[c.tool] = NotStarted]
    [] OTHER -> a

\* The router waits for its forwarder before it looks at what was forwarded.
Drained == turn.phase = "returned" /\ turn.mode = "stream" /\ inner = << >>

\* Mutant: the channel is read after the call, as complete() does.
AccumulateLate ==
  /\ Drained /\ outer # << >>
  /\ acc' = Taken(acc, Head(outer))
  /\ screen' = IF Head(outer).kind = "text" THEN Append(screen, Head(outer).piece) ELSE screen
  /\ outer' = Tail(outer)
  /\ UNCHANGED << turn, server, parsed, sending, inner, forwarded, answer >>
Accumulate ==
  /\ outer # << >>
  /\ acc' = Taken(acc, Head(outer))
  /\ screen' = IF Head(outer).kind = "text" THEN Append(screen, Head(outer).piece) ELSE screen
  /\ outer' = Tail(outer)
  /\ UNCHANGED << turn, server, parsed, sending, inner, forwarded, answer >>

-----------------------------------------------------------------------------
(* The end of an attempt and of the turn.                                  *)

\* Mutant: what has been heard is not considered.
RetryHeard ==
  /\ Drained /\ ~ turn.ok
  /\ turn.attempt < MaxAttempts
  /\ turn' = [turn EXCEPT !.phase = "request", !.attempt = @ + 1]
  /\ UNCHANGED << server, parsed, sending, inner, outer, forwarded, acc, screen, answer >>
RetryAttempt ==
  /\ Drained /\ ~ turn.ok
  /\ Again
  /\ UNCHANGED << server, parsed, sending, inner, outer, forwarded, acc, screen, answer >>

GiveUp ==
  /\ Drained /\ ~ turn.ok
  /\ Goto("failed")
  /\ UNCHANGED << server, parsed, sending, inner, outer, forwarded, acc, screen, answer >>

\* A truncated answer is asked for again where the client may set the size of
\* the slot.
AfterAnswer ==
  IF server.end = "max" /\ turn.dialect # "responses" THEN "escalate" ELSE "answered"

\* The loop awaits the accumulator, and takes the text of the response where no
\* delta has brought one.
Join ==
  /\ Drained /\ turn.ok /\ outer = << >>
  /\ LET text == IF acc.text = << >> THEN parsed.text ELSE acc.text
     IN  /\ answer' = [text |-> text, calls |-> acc.calls]
         /\ screen' = IF acc.text = << >> THEN screen \o text ELSE screen
  /\ Goto(AfterAnswer)
  /\ UNCHANGED << server, parsed, sending, inner, outer, forwarded, acc >>

\* complete() of the Responses provider drains its channel when it is done.
Drain ==
  /\ turn.phase = "returned" /\ turn.mode = "generate"
  /\ inner' = << >>
  /\ \/ turn.ok /\ Goto("answered") /\ answer' = parsed
     \/ ~ turn.ok /\ (Again \/ Goto("failed")) /\ UNCHANGED answer
  /\ UNCHANGED << server, parsed, sending, outer, forwarded, acc, screen >>

\* LlmTextReplace; there is nothing to replace without a stream.
Replaced(text) == screen' = IF turn.mode = "stream" THEN text ELSE screen

\* Once, and without a stream; if it fails the truncated answer is used.
Escalate ==
  /\ turn.phase = "escalate"
  /\ Goto("answered")
  /\ \/ \E calls \in [Tool -> {NotStarted, MaxPieces}] :
          /\ answer' = [text |-> << Larger >>, calls |-> calls]
          /\ Replaced(<< Larger >>)
     \/ UNCHANGED << answer, screen >>
  /\ UNCHANGED << server, parsed, sending, inner, outer, forwarded, acc >>

EndSomehow == \E how \in {"stop", "max", "cut", "error"}, held \in BOOLEAN : End(how, held)

TurnNext ==
  \/ Refused \/ Accepted \/ (\E truncated \in BOOLEAN : Body(truncated))
  \/ Text \/ (\E t \in Tool : StartCall(t) \/ Piece(t) \/ Stop(t)) \/ EndSomehow
  \/ Send \/ Return \/ Expire \/ ForwardChunk \/ Accumulate
  \/ RetryAttempt \/ GiveUp \/ Join \/ Drain \/ Escalate

TurnSpec == TurnInit /\ [][TurnNext]_turnVars

\* The tasks are scheduled and an attempt of a stream expires.  A server
\* answers or its connection ends; for streams the providers see to it, by a
\* timeout of 120 seconds for an event.
TurnFairness ==
  /\ WF_turnVars(Accepted \/ Refused \/ \E truncated \in BOOLEAN : Body(truncated))
  /\ WF_turnVars(EndSomehow) /\ WF_turnVars(Send) /\ WF_turnVars(Return) /\ WF_turnVars(Expire)
  /\ WF_turnVars(ForwardChunk) /\ WF_turnVars(Accumulate)
  /\ WF_turnVars(RetryAttempt \/ GiveUp) /\ WF_turnVars(Join) /\ WF_turnVars(Drain)
  /\ WF_turnVars(Escalate)

FairTurn == TurnSpec /\ TurnFairness

-----------------------------------------------------------------------------
(* Properties.                                                             *)

Chunks == [kind : {"text", "start", "piece", "stop", "done"}, tool : Tool \cup {AnyTool},
           piece : 1 .. MaxAttempts]
Calls == [Tool -> NotStarted .. MaxPieces]
Pieces == Seq(0 .. MaxAttempts)

TurnTypeOK ==
  /\ turn \in [phase : Phase, dialect : Dialect, mode : Mode, attempt : 1 .. MaxAttempts,
               ok : BOOLEAN]
  /\ server \in [text : Pieces, calls : Calls, closed : SUBSET Tool,
                 end : {"none", "stop", "max", "cut", "error"}]
  /\ parsed \in [text : Pieces, calls : Calls]
  /\ sending \in Seq(Chunks)
  /\ inner \in Seq(Chunks) /\ Len(inner) <= Capacity
  /\ outer \in Seq(Chunks) /\ Len(outer) <= Capacity
  /\ forwarded \in BOOLEAN
  /\ acc \in [text : Pieces, pending : Calls, calls : Calls]
  /\ screen \in Pieces
  /\ answer \in [text : Pieces, calls : Calls]

\* What the turn goes on with after a stream that the server has ended is what
\* the server sent: all of its text, exactly its calls, and all of their
\* arguments, although the loop puts them together a second time, from chunks.
NothingLost ==
  /\ TurnTypeOK
  /\ turn.phase = "answered" /\ turn.mode = "stream" /\ server.end \in {"stop", "max"}
       /\ answer.text # << Larger >>
     => answer.text = server.text /\ answer.calls = server.calls

\* Also after failed attempts, a cut connection and a repetition with a larger
\* slot the terminal shows the text that the turn goes on with, and that text
\* comes from one attempt: nothing is on the screen twice.
ScreenShowsAnswer ==
  turn.phase = "answered" /\ turn.mode = "stream" =>
    screen = answer.text /\ \A i, j \in DOMAIN screen : screen[i] = screen[j]

\* The provider waits for room in a channel that nobody reads yet: complete()
\* of the Responses provider reads it only after stream() has returned.
Wedged ==
  /\ turn.mode = "generate" /\ turn.dialect = "responses"
  /\ sending # << >> /\ Len(inner) = Capacity

\* Every request comes to an end, except for such a wedge.
Answered == turn.phase = "request" ~> (turn.phase \in Settled \/ Wedged)
=============================================================================
