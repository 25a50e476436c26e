---------------------------- MODULE StreamDrain ----------------------------
(***************************************************************************)
(* A streamed answer on its way from the upstream to the client, and what  *)
(* the gateway concludes about it.                                         *)
(*                                                                         *)
(*   internal/gateway/server.go   drainSSEProtocol, protocolSSEConverter,  *)
(*                                convertSSEBlock, streamUsageAccumulator  *)
(*   internal/gateway/kiro.go     drainKiroStream                          *)
(*                                                                         *)
(* An event is what decodeProtocolStreamEvent and the accumulator make of  *)
(* it: pieces of text, a finish reason, the end, a token count.  A         *)
(* converted stream is rendered in the client's protocol, any other is     *)
(* handed on.                                                              *)
(***************************************************************************)
EXTENDS Naturals

CONSTANT MaxEvents   \* bound: events of an upstream

VARIABLES
  source,    \* protocol of the upstream
  target,    \* protocol of the client
  sent,      \* what the upstream has sent: text, reason, ended, tokens, events
  event,     \* eventData: the event whose blank line is to come
  done,      \* an end of the upstream's has been seen
  usage,     \* the accumulator's token count, Unknown when not present
  converter, \* finishReason and finished of the converter
  got,       \* what was written to the client: text, reason, ends
  client,    \* "here", "away", or "cut" once a write has failed
  result     \* what the drain returned: error, partial

streamVars == <<source, target, sent, event, done, usage, converter, got, client, result>>

Sources == {"chat", "anthropic", "responses", "gemini", "kiro"}
Targets == {"chat", "anthropic", "responses"}
Reasons == {"stop", "length"}
None == "none"
Counts == 0 .. 2
Unknown == 3    \* no token count

EventOf(text, why, end, tokens) ==
  [text |-> text, reason |-> why, end |-> end, tokens |-> tokens, odd |-> FALSE]

NoEvent == EventOf(0, None, FALSE, Unknown)

\* unsupportedStreamEvent
Odd == [text |-> 0, reason |-> None, end |-> FALSE, tokens |-> Unknown, odd |-> TRUE]

Events ==
  [text : {0, 1}, reason : Reasons \cup {None}, end : BOOLEAN, tokens : Counts \cup {Unknown},
   odd : BOOLEAN]

\* What each protocol says in which event; Kiro's text that repeats the event
\* before is no new text.
Says(p, e) ==
  \/ e = EventOf(1, None, FALSE, Unknown)
  \/ \E n \in Counts : e = EventOf(0, None, FALSE, n)
  \/ p # "kiro" /\ e = Odd
  \/ p = "kiro" /\ e = NoEvent
  \/ p = "chat" /\ \E w \in Reasons : e = EventOf(0, w, FALSE, Unknown)
  \/ p = "anthropic" /\ \E w \in Reasons, n \in Counts : e = EventOf(0, w, FALSE, n)
  \/ p \in {"chat", "anthropic"} /\ e = EventOf(0, None, TRUE, Unknown)
  \/ p = "responses" /\ \E w \in Reasons, n \in Counts : e = EventOf(0, w, TRUE, n)
  \/ p = "gemini" /\ \E t \in {0, 1}, w \in Reasons, n \in Counts : e = EventOf(t, w, TRUE, n)

EventsOf == [p \in Sources |-> {e \in Events : Says(p, e)}]

Running == [open |-> TRUE, error |-> FALSE, partial |-> FALSE]
NothingSent == [text |-> 0, reason |-> None, ended |-> FALSE, tokens |-> Unknown, events |-> 0]
Nothing == [text |-> 0, reason |-> None, ends |-> 0]
Unstarted == [reason |-> None, finished |-> FALSE]

StreamInit ==
  /\ source \in Sources
  /\ target \in Targets
  /\ sent = NothingSent
  /\ event = NoEvent
  /\ done = FALSE
  /\ usage = Unknown
  /\ converter = Unstarted
  /\ got = Nothing
  /\ client = "here"
  /\ result = Running

(***************************************************************************)
(* What the client gets of an event.                                       *)
(***************************************************************************)

Block(text, why, end) == [text |-> text, reason |-> why, ends |-> IF end THEN 1 ELSE 0]

\* A write to a client that is away is the last one; what follows is drained.
\* The blocks of one event go out together.
Write(block) ==
  /\ got' = IF client = "here"
              THEN [text |-> got.text + block.text,
                    reason |-> IF block.reason = None THEN got.reason ELSE block.reason,
                    ends |-> got.ends + block.ends]
              ELSE got
  /\ client' = IF client = "here" THEN "here" ELSE "cut"

Converted == source # target
Rendered == Converted /\ target # "chat"

\* convertSSEBlock: the end of an Anthropic and of a Responses stream is "stop"
\* whatever the reason was.
ChatBlock(e) ==
  Block(e.text, IF e.end /\ source # "gemini" THEN "stop" ELSE e.reason, e.end)

\* The reason may have come before the end.
FinishReason(e) ==
  IF e.reason # None THEN e.reason
  ELSE IF converter.reason # None THEN converter.reason ELSE "stop"

\* convertToAnthropic and convertToResponses; nothing follows the end.
RenderedBlock(e) ==
  IF converter.finished THEN Nothing
  ELSE Block(e.text, IF e.end THEN FinishReason(e) ELSE None, e.end)

\* A converter that has not finished gives up at an event it cannot render.
Unsupported(e) == e.odd /\ Converted /\ ~(Rendered /\ converter.finished)

BlockFor(e) ==
  CASE ~Converted -> Block(e.text, e.reason, e.end)
    [] Rendered -> RenderedBlock(e)
    [] OTHER -> ChatBlock(e)

(***************************************************************************)
(* drainSSEProtocol.                                                       *)
(***************************************************************************)

\* streamUsageAccumulator.merge
Merged(u, n) == IF n = Unknown \/ (n = 0 /\ u # Unknown) THEN u ELSE n

\* Counts are cumulative, and an event may leave them at zero.
Reported(u, n) == IF n = Unknown \/ (u # Unknown /\ n < u) THEN u ELSE n

\* The upstream says one reason and one end, no text after either, and every
\* event in one data line.
InOrder(e) ==
  /\ e \in EventsOf[source]
  /\ sent.events < MaxEvents
  /\ sent.reason # None \/ sent.ended => e.text = 0 /\ e.reason = None
  /\ sent.ended => ~e.end
  /\ sent.tokens # Unknown /\ (e.tokens # 0 \/ source = "kiro") => e.tokens >= sent.tokens

Receive(e) ==
  /\ sent' = [text |-> sent.text + e.text,
              reason |-> IF e.reason = None THEN sent.reason ELSE e.reason,
              ended |-> sent.ended \/ e.end,
              tokens |-> Reported(sent.tokens, e.tokens),
              events |-> sent.events + 1]

\* The data line: the count and the end are noted before the client gets it.
ReadData(e) ==
  /\ result.open
  /\ source # "kiro"
  /\ event = NoEvent
  /\ InOrder(e)
  /\ Receive(e)
  /\ usage' = Merged(usage, e.tokens)
  /\ event' = e
  /\ done' = (done \/ e.end)
  /\ UNCHANGED <<source, target, converter, got, client, result>>

Returned(error, partial) == [open |-> FALSE, error |-> error, partial |-> partial]

\* A blank line is written on as it is, or converted when there is an event; a
\* chat client may be sent a token count in a chunk of its own.
WritesOf(e) ==
  IF BlockFor(e) # Nothing \/ ~Converted THEN {TRUE}
  ELSE IF Rendered \/ e.tokens = Unknown THEN {FALSE} ELSE {TRUE, FALSE}

\* The blank line, or the end of the body: the event goes to the client.
Dispatch ==
  /\ result.open
  /\ source # "kiro"
  /\ event' = NoEvent
  /\ \/ /\ Unsupported(event)
        /\ result' = Returned(TRUE, TRUE)
        /\ UNCHANGED <<converter, got, client>>
     \/ /\ ~Unsupported(event)
        /\ converter' =
             IF ~Rendered \/ converter.finished THEN converter
             ELSE [reason |-> IF event.reason = None THEN converter.reason ELSE event.reason,
                   finished |-> event.end]
        /\ \E writes \in WritesOf(event) :
             IF writes THEN Write(BlockFor(event)) ELSE UNCHANGED <<got, client>>
        /\ UNCHANGED result
  /\ UNCHANGED <<source, target, sent, done, usage>>

\* Mutant: only a missing end makes the answer partial.
EndMissing == ~done

Partial == ~done \/ client = "cut"

EndOfBody ==
  /\ result.open
  /\ source # "kiro"
  /\ event = NoEvent
  /\ result' = Returned(FALSE, Partial)
  /\ UNCHANGED <<source, target, sent, event, done, usage, converter, got, client>>

\* A read error, or the deadline; the event at hand is not written any more.
ReadError ==
  /\ result.open
  /\ result' = Returned(TRUE, IF source = "kiro" THEN TRUE ELSE Partial)
  /\ UNCHANGED <<source, target, sent, event, done, usage, converter, got, client>>

\* A line over maxSSELineBytes.
LineTooLong ==
  /\ result.open
  /\ source # "kiro"
  /\ result' = Returned(TRUE, TRUE)
  /\ UNCHANGED <<source, target, sent, event, done, usage, converter, got, client>>

(***************************************************************************)
(* drainKiroStream: chat chunks, whatever the client speaks; the end of    *)
(* the body is the end of the answer.                                      *)
(***************************************************************************)

ReadKiro(e) ==
  /\ result.open
  /\ source = "kiro"
  /\ InOrder(e)
  /\ Receive(e)
  /\ usage' = IF e.tokens = Unknown THEN usage ELSE e.tokens
  /\ IF e.text > 0 THEN Write(Block(e.text, None, FALSE)) ELSE UNCHANGED <<got, client>>
  /\ UNCHANGED <<source, target, event, done, converter, result>>

EndOfKiro ==
  /\ result.open
  /\ source = "kiro"
  /\ \/ /\ sent.text = 0
        /\ result' = Returned(TRUE, TRUE)
        /\ UNCHANGED <<got, client>>
     \/ /\ sent.text > 0
        /\ Write(Block(0, "stop", TRUE))
        /\ result' = Returned(FALSE, client' = "cut")
  /\ UNCHANGED <<source, target, sent, event, done, usage, converter>>

\* The client's context ends; the upstream's goes on.
ClientLeaves ==
  /\ result.open
  /\ client = "here"
  /\ client' = "away"
  /\ UNCHANGED <<source, target, sent, event, done, usage, converter, got, result>>

\* Another answer; nothing is kept of this one.
NextStream ==
  /\ ~result.open
  /\ source' \in Sources
  /\ target' \in Targets
  /\ sent' = NothingSent
  /\ event' = NoEvent
  /\ done' = FALSE
  /\ usage' = Unknown
  /\ converter' = Unstarted
  /\ got' = Nothing
  /\ client' = "here"
  /\ result' = Running

StreamNext ==
  \/ \E e \in EventsOf[source] : ReadData(e) \/ ReadKiro(e)
  \/ Dispatch \/ EndOfBody \/ ReadError \/ LineTooLong \/ EndOfKiro
  \/ ClientLeaves \/ NextStream

StreamSpec == StreamInit /\ [][StreamNext]_streamVars

\* A stream that ends without an error has the tokens the upstream reported,
\* although the client may have left long before; and when it is recorded as
\* complete the client was sent all of its text and one end.  The end gives the
\* reason the upstream gave, except to a chat client of a converted stream, who
\* is told "stop" whatever it was (convertSSEBlock).
CompleteIsWhole ==
  ~result.open /\ ~result.error =>
    /\ usage = sent.tokens
    /\ ~result.partial =>
         /\ got.text = sent.text
         /\ got.ends = 1
         /\ ~Converted => got.reason = sent.reason
         /\ Converted /\ target # "chat" /\ source # "kiro" =>
              got.reason = IF sent.reason = None THEN "stop" ELSE sent.reason
=============================================================================
