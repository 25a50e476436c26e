---------------------------- MODULE StreamProofs ----------------------------
(***************************************************************************)
(* A streamed answer that is recorded as complete is whole, for any number *)
(* of events.                                                              *)
(*                                                                         *)
(* CompleteIsWhole speaks of the end of a stream.  The invariant says what *)
(* holds on the way: what the client was sent and the event at hand make   *)
(* up what the upstream has sent, until a write fails or the drain gives   *)
(* up.                                                                     *)
(***************************************************************************)
EXTENDS StreamDrain, TLAPS

AnyReason == Reasons \cup {None}
AnyCount == Counts \cup {Unknown}

StreamTypes ==
  /\ source \in Sources
  /\ target \in Targets
  /\ sent \in [text : Nat, reason : AnyReason, ended : BOOLEAN, tokens : AnyCount, events : Nat]
  /\ event \in Events
  /\ done \in BOOLEAN
  /\ usage \in AnyCount
  /\ converter \in [reason : AnyReason, finished : BOOLEAN]
  /\ got \in [text : Nat, reason : AnyReason, ends : Nat]
  /\ client \in {"here", "away", "cut"}
  /\ result \in [open : BOOLEAN, error : BOOLEAN, partial : BOOLEAN]

\* The end has gone out.
EndPassed == sent.ended /\ ~event.end

\* The event at hand is part of what the upstream has sent, and nothing but
\* token counts follows the end.
EventCounted ==
  /\ event.end => sent.ended
  /\ event.reason # None => sent.reason = event.reason
  /\ EndPassed => event.text = 0 /\ event.reason = None

\* An answer of Kiro has no event at hand, no reason and no end of its own.
KiroPlain ==
  source = "kiro" => event = NoEvent /\ sent.reason = None /\ ~sent.ended

TextPassed == client # "cut" => got.text + event.text = sent.text

EndsPassed ==
  client # "cut" =>
    IF source = "kiro" THEN got.ends = IF result.open THEN 0 ELSE 1
    ELSE got.ends = IF EndPassed THEN 1 ELSE 0

\* The reason the client is told, when it is handed on and when it is rendered.
ReasonPassed ==
  /\ ~Converted /\ client # "cut" /\ event.reason = None => got.reason = sent.reason
  /\ Rendered /\ source # "kiro" =>
       /\ event.reason = None => converter.reason = sent.reason
       /\ converter.finished = EndPassed
       /\ EndPassed /\ client # "cut" =>
            got.reason = IF sent.reason = None THEN "stop" ELSE sent.reason

\* What the drain has returned.
ReturnTrue ==
  ~result.open =>
    /\ event = NoEvent
    /\ result.partial = (client = "cut" \/ (source # "kiro" /\ ~done))

Tally ==
  /\ usage = sent.tokens
  /\ source # "kiro" => done = sent.ended
  /\ EventCounted
  /\ KiroPlain
  /\ TextPassed
  /\ EndsPassed
  /\ ReasonPassed
  /\ ReturnTrue

StreamInv == StreamTypes /\ (result.open \/ ~result.error => Tally)

Blocks == [text : Nat, reason : AnyReason, ends : Nat]

\* Kiro's events have neither a reason nor an end.
LEMMA EventFacts ==
  ASSUME NEW p \in Sources, NEW e \in EventsOf[p]
  PROVE  e \in Events /\ (p = "kiro" => e.reason = None /\ ~e.end)
BY DEF EventsOf, Says, EventOf, NoEvent, Odd

\* What a write does as long as no write has failed.
LEMMA WriteFacts ==
  ASSUME StreamTypes, NEW b \in Blocks, Write(b)
  PROVE  /\ got' \in [text : Nat, reason : AnyReason, ends : Nat]
         /\ client' \in {"here", "away", "cut"}
         /\ client' # "cut" =>
              /\ client # "cut"
              /\ got'.text = got.text + b.text
              /\ got'.reason = IF b.reason = None THEN got.reason ELSE b.reason
              /\ got'.ends = got.ends + b.ends
BY DEF StreamTypes, Blocks, Write

\* The block of an event is a block, and has its text and its end unless the
\* converter has finished.
LEMMA BlockFacts ==
  ASSUME StreamTypes, ~Unsupported(event)
  PROVE  /\ BlockFor(event) \in Blocks
         /\ ~(Rendered /\ converter.finished) =>
              /\ BlockFor(event).text = event.text
              /\ BlockFor(event).ends = IF event.end THEN 1 ELSE 0
         /\ Rendered /\ converter.finished =>
              BlockFor(event).text = 0 /\ BlockFor(event).ends = 0
         /\ ~Converted => BlockFor(event).reason = event.reason
         /\ Rendered /\ ~converter.finished =>
              BlockFor(event).reason = IF event.end THEN FinishReason(event) ELSE None
<1> USE DEF StreamTypes, Events, Blocks, AnyReason, Reasons, None, Block, Nothing
<1>1. CASE ~Converted BY <1>1 DEF BlockFor, Converted, Rendered
<1>2. CASE Rendered
  BY <1>2 DEF BlockFor, Converted, Rendered, RenderedBlock, FinishReason
<1>3. CASE Converted /\ ~Rendered
  BY <1>3 DEF BlockFor, Converted, Rendered, ChatBlock
<1>4. QED BY <1>1, <1>2, <1>3

\* The initial state.
LEMMA InitInv == StreamInit => StreamInv
<1> SUFFICES ASSUME StreamInit PROVE StreamInv OBVIOUS
<1> USE DEF StreamInit, NoEvent, EventOf, NothingSent, Nothing, Unstarted, Running, None
<1>1. StreamTypes
  BY DEF StreamTypes, Events, AnyReason, AnyCount, Counts, Unknown
<1>2. usage = sent.tokens /\ done = sent.ended
  OBVIOUS
<1>3. EventCounted /\ KiroPlain /\ TextPassed
  BY DEF EventCounted, EndPassed, KiroPlain, TextPassed
<1>4. EndsPassed /\ ReturnTrue
  BY DEF EndsPassed, EndPassed, ReturnTrue
<1>5. ReasonPassed
  BY DEF ReasonPassed, EndPassed
<1>6. QED BY <1>1, <1>2, <1>3, <1>4, <1>5 DEF StreamInv, Tally

(***************************************************************************)
(* Every step keeps the invariant.                                         *)
(***************************************************************************)

LEMMA ReadDataInv ==
  ASSUME StreamInv, NEW e \in EventsOf[source], ReadData(e)
  PROVE  StreamInv'
<1> USE DEF ReadData, Receive
<1>1. StreamTypes /\ e \in Events
  BY EventFacts DEF StreamInv, StreamTypes
<1>2. StreamTypes'
  BY <1>1 DEF StreamTypes, Events, AnyReason, AnyCount, Counts, Unknown, Merged, Reported, None
<1> SUFFICES Tally'
  BY <1>2 DEF StreamInv
<1>3. Tally BY DEF StreamInv
<1>4. event.text = 0 /\ event.reason = None /\ ~event.end
  BY DEF NoEvent, EventOf
<1>5. (usage = sent.tokens)'
  BY <1>1, <1>3 DEF Tally, StreamTypes, Events, AnyCount, Counts, Unknown, Merged, Reported, InOrder
<1>6. (source # "kiro" => done = sent.ended)' /\ EventCounted' /\ KiroPlain'
  BY <1>1, <1>3 DEF Tally, StreamTypes, Events, EventCounted, EndPassed, KiroPlain, InOrder
<1>7. TextPassed'
  BY <1>1, <1>3, <1>4 DEF Tally, StreamTypes, Events, TextPassed
<1>8. EndsPassed'
  BY <1>1, <1>3, <1>4 DEF Tally, StreamTypes, Events, EndsPassed, EndPassed, InOrder
<1>9. ReasonPassed'
  BY <1>1, <1>3, <1>4
  DEF Tally, StreamTypes, Events, ReasonPassed, EndPassed, InOrder, Converted, Rendered
<1>10. ReturnTrue'
  BY <1>1 DEF ReturnTrue, StreamTypes
<1>11. QED BY <1>5, <1>6, <1>7, <1>8, <1>9, <1>10 DEF Tally

LEMMA DispatchInv ==
  ASSUME StreamInv, Dispatch
  PROVE  StreamInv'
<1>0. /\ event' = NoEvent
      /\ UNCHANGED <<source, target, sent, done, usage>>
  BY DEF Dispatch
<1>1. StreamTypes /\ NoEvent \in Events
  BY DEF StreamInv, NoEvent, EventOf, Events, None, Unknown
<1>2. CASE Unsupported(event)
  <2>1. /\ result' = [open |-> FALSE, error |-> TRUE, partial |-> TRUE]
        /\ UNCHANGED <<converter, got, client>>
    BY <1>2 DEF Dispatch, Returned
  <2>2. StreamTypes'
    BY <1>0, <1>1, <2>1 DEF StreamTypes
  <2>3. QED BY <2>1, <2>2 DEF StreamInv
<1>3. CASE ~Unsupported(event)
  <2>0. /\ result' = result
        /\ converter' =
             IF ~Rendered \/ converter.finished THEN converter
             ELSE [reason |-> IF event.reason = None THEN converter.reason ELSE event.reason,
                   finished |-> event.end]
    BY <1>3 DEF Dispatch
  <2>1. PICK writes \in WritesOf(event) :
          IF writes THEN Write(BlockFor(event)) ELSE UNCHANGED <<got, client>>
    BY <1>3 DEF Dispatch
  <2>2. BlockFor(event) \in Blocks
    BY <1>1, <1>3, BlockFacts
  <2>3. ~writes => BlockFor(event) = Nothing
    BY DEF WritesOf
  <2>4. /\ got' \in [text : Nat, reason : AnyReason, ends : Nat]
        /\ client' \in {"here", "away", "cut"}
        /\ client' # "cut" =>
             /\ client # "cut"
             /\ got'.text = got.text + BlockFor(event).text
             /\ got'.reason = IF BlockFor(event).reason = None THEN got.reason
                              ELSE BlockFor(event).reason
             /\ got'.ends = got.ends + BlockFor(event).ends
    <3>1. CASE writes BY <3>1, <2>1, <2>2, <1>1, WriteFacts
    <3>2. CASE ~writes
      BY <3>2, <2>1, <2>3, <1>1 DEF StreamTypes, Nothing
    <3>3. QED BY <3>1, <3>2
  <2>5. StreamTypes'
    <3>1. converter' \in [reason : AnyReason, finished : BOOLEAN]
      BY <1>1, <2>0 DEF StreamTypes, Events, AnyReason
    <3>2. event' \in Events BY <1>0, <1>1
    <3>3. QED BY <1>0, <1>1, <2>0, <2>4, <3>1, <3>2 DEF StreamTypes
  <2> SUFFICES Tally'
    BY <2>5 DEF StreamInv
  <2>6. Tally BY DEF StreamInv, Dispatch
  <2>7. event'.text = 0 /\ event'.reason = None /\ event'.end = FALSE
    BY <1>0 DEF NoEvent, EventOf
  <2>8. Rendered /\ source # "kiro" /\ converter.finished =>
          event.text = 0 /\ event.reason = None /\ ~event.end
    BY <2>6 DEF Tally, ReasonPassed, EventCounted, EndPassed
  <2>9. (usage = sent.tokens)' /\ (source # "kiro" => done = sent.ended)'
    BY <1>0, <2>6 DEF Tally
  <2>10. EventCounted' /\ KiroPlain'
    BY <1>0, <2>6, <2>7 DEF Tally, EventCounted, EndPassed, KiroPlain
  <2>11. TextPassed'
    BY <1>0, <1>1, <1>3, <2>4, <2>6, <2>7, <2>8, BlockFacts
    DEF Tally, KiroPlain, NoEvent, EventOf, StreamTypes, Events, TextPassed
  <2>12. EndsPassed'
    <3>1. source # "kiro" /\ source' # "kiro" BY <1>0 DEF Dispatch
    <3>2. ASSUME client' # "cut" PROVE got'.ends = IF sent.ended THEN 1 ELSE 0
      <4>1. got.ends = IF EndPassed THEN 1 ELSE 0
        BY <2>4, <2>6, <3>1, <3>2 DEF Tally, EndsPassed
      <4>2. CASE Rendered /\ converter.finished
        <5>1. EndPassed BY <2>6, <3>1, <4>2 DEF Tally, ReasonPassed
        <5>2. QED BY <1>1, <1>3, <2>4, <3>2, <4>1, <4>2, <5>1, BlockFacts DEF EndPassed
      <4>3. CASE ~(Rendered /\ converter.finished)
        <5>1. BlockFor(event).ends = IF event.end THEN 1 ELSE 0
          BY <1>1, <1>3, <4>3, BlockFacts
        <5>2. event.end => sent.ended BY <2>6 DEF Tally, EventCounted
        <5>3. QED BY <2>4, <3>2, <4>1, <5>1, <5>2 DEF EndPassed
      <4>4. QED BY <4>2, <4>3
    <3>3. QED BY <1>0, <2>7, <3>1, <3>2 DEF EndsPassed, EndPassed
  <2>13. ReasonPassed'
    <3>1. source # "kiro" BY DEF Dispatch
    <3>2. ASSUME ~Converted, client' # "cut" PROVE got'.reason = sent.reason
      <4>1. BlockFor(event).reason = event.reason BY <1>1, <1>3, <3>2, BlockFacts
      <4>2. QED BY <2>4, <2>6, <3>2, <4>1 DEF Tally, ReasonPassed, EventCounted
    <3>3. ASSUME Rendered
          PROVE  /\ converter'.reason = sent.reason
                 /\ converter'.finished = sent.ended
                 /\ sent.ended /\ client' # "cut" =>
                      got'.reason = IF sent.reason = None THEN "stop" ELSE sent.reason
      <4>1. /\ event.reason = None => converter.reason = sent.reason
            /\ converter.finished = EndPassed
            /\ EndPassed /\ client # "cut" =>
                 got.reason = IF sent.reason = None THEN "stop" ELSE sent.reason
            /\ event.end => sent.ended
            /\ event.reason # None => sent.reason = event.reason
        BY <2>6, <3>1, <3>3 DEF Tally, ReasonPassed, EventCounted
      <4>2. CASE converter.finished
        <5>1. converter' = converter BY <2>0, <4>2
        <5>2. EndPassed /\ event.reason = None BY <2>8, <3>1, <3>3, <4>1, <4>2
        <5>3. BlockFor(event) = Nothing
          BY <3>3, <4>2 DEF BlockFor, Rendered, RenderedBlock
        <5>4. client' # "cut" => client # "cut" /\ got'.reason = got.reason
          BY <2>4, <5>3 DEF Nothing
        <5>5. QED BY <4>1, <4>2, <5>1, <5>2, <5>4 DEF EndPassed
      <4>3. CASE ~converter.finished
        <5>1. /\ converter'.reason = IF event.reason = None THEN converter.reason ELSE event.reason
              /\ converter'.finished = event.end
          BY <2>0, <3>3, <4>3
        <5>2. BlockFor(event).reason = IF event.end THEN FinishReason(event) ELSE None
          BY <1>1, <1>3, <3>3, <4>3, BlockFacts
        <5>3. event.end = sent.ended
          BY <1>1, <4>1, <4>3 DEF EndPassed, StreamTypes, Events
        <5>4. FinishReason(event) = IF sent.reason = None THEN "stop" ELSE sent.reason
          BY <4>1 DEF FinishReason
        <5>5. FinishReason(event) # None BY <5>4 DEF None
        <5>6. QED BY <2>4, <4>1, <5>1, <5>2, <5>3, <5>4, <5>5
      <4>4. QED BY <4>2, <4>3
    <3>4. sent.ended \in BOOLEAN BY <1>1 DEF StreamTypes
    <3>5. (Converted' <=> Converted) /\ (Rendered' <=> Rendered) /\ (EndPassed' <=> sent.ended)
      BY <1>0, <2>7 DEF Converted, Rendered, EndPassed
    <3>6. EndPassed' = sent.ended BY <3>4, <1>0, <2>7 DEF EndPassed
    <3>7. QED BY <1>0, <2>7, <3>2, <3>3, <3>5, <3>6 DEF ReasonPassed
  <2>14. ReturnTrue'
    BY <2>0 DEF ReturnTrue, Dispatch
  <2>15. QED BY <2>9, <2>10, <2>11, <2>12, <2>13, <2>14 DEF Tally
<1>4. QED BY <1>2, <1>3

\* A drain that returns an error leaves nothing to show but types.
LEMMA ErrorInv ==
  ASSUME StreamInv, ReadError \/ LineTooLong
  PROVE  StreamInv'
<1>1. PICK p \in BOOLEAN : result' = [open |-> FALSE, error |-> TRUE, partial |-> p]
  BY DEF StreamInv, StreamTypes, ReadError, LineTooLong, Returned, Partial
<1>2. UNCHANGED <<source, target, sent, event, done, usage, converter, got, client>>
  BY DEF ReadError, LineTooLong
<1>3. StreamTypes'
  BY <1>1, <1>2 DEF StreamInv, StreamTypes
<1>4. QED BY <1>1, <1>3 DEF StreamInv

LEMMA EndOfBodyInv ==
  ASSUME StreamInv, EndOfBody
  PROVE  StreamInv'
<1>1. /\ result' = [open |-> FALSE, error |-> FALSE, partial |-> Partial]
      /\ UNCHANGED <<source, target, sent, event, done, usage, converter, got, client>>
      /\ event = NoEvent
      /\ source # "kiro"
  BY DEF EndOfBody, Returned
<1>2. StreamTypes'
  BY <1>1 DEF StreamInv, StreamTypes, Partial
<1> SUFFICES Tally'
  BY <1>2 DEF StreamInv
<1>3. Tally BY DEF StreamInv, EndOfBody
<1>4. /\ (usage = sent.tokens)' /\ (source # "kiro" => done = sent.ended)'
      /\ EventCounted' /\ KiroPlain' /\ TextPassed'
  BY <1>1, <1>3 DEF Tally, EventCounted, EndPassed, KiroPlain, TextPassed
<1>5. EndsPassed' /\ ReasonPassed'
  BY <1>1, <1>3 DEF Tally, EndsPassed, ReasonPassed, EndPassed, Converted, Rendered
<1>6. ReturnTrue'
  BY <1>1 DEF ReturnTrue, Partial
<1>7. QED BY <1>4, <1>5, <1>6 DEF Tally

LEMMA ReadKiroInv ==
  ASSUME StreamInv, NEW e \in EventsOf[source], ReadKiro(e)
  PROVE  StreamInv'
<1>1. StreamTypes /\ e \in Events /\ e.reason = None /\ ~e.end
  BY EventFacts DEF StreamInv, StreamTypes, ReadKiro
<1>2. /\ source = "kiro"
      /\ UNCHANGED <<source, target, event, done, converter, result>>
      /\ usage' = IF e.tokens = Unknown THEN usage ELSE e.tokens
      /\ sent' = [text |-> sent.text + e.text, reason |-> sent.reason, ended |-> sent.ended,
                  tokens |-> Reported(sent.tokens, e.tokens), events |-> sent.events + 1]
  BY <1>1 DEF ReadKiro, Receive, StreamTypes
<1>3. /\ got' \in [text : Nat, reason : AnyReason, ends : Nat]
      /\ client' \in {"here", "away", "cut"}
      /\ client' # "cut" =>
           /\ client # "cut"
           /\ got'.text = got.text + e.text
           /\ got'.reason = got.reason
           /\ got'.ends = got.ends
  <2>1. CASE e.text > 0
    <3>1. Write([text |-> e.text, reason |-> None, ends |-> 0])
      BY <2>1 DEF ReadKiro, Block
    <3>2. [text |-> e.text, reason |-> None, ends |-> 0] \in Blocks
      BY <1>1 DEF Blocks, AnyReason, Events
    <3>3. QED BY <1>1, <3>1, <3>2, WriteFacts DEF StreamTypes
  <2>2. CASE e.text = 0
    <3>1. UNCHANGED <<got, client>> BY <2>2 DEF ReadKiro
    <3>2. QED BY <1>1, <2>2, <3>1 DEF StreamTypes
  <2>3. QED BY <1>1, <2>1, <2>2 DEF Events
<1>4. StreamTypes'
  BY <1>1, <1>2, <1>3 DEF StreamTypes, Events, AnyCount, Counts, Unknown, Reported
<1> SUFFICES Tally'
  BY <1>4 DEF StreamInv
<1>5. Tally /\ result.open BY DEF StreamInv, ReadKiro
<1>6. event.text = 0 /\ event.reason = None /\ ~event.end
  BY <1>2, <1>5 DEF Tally, KiroPlain, NoEvent, EventOf
<1>7. (usage = sent.tokens)'
  BY <1>1, <1>2, <1>5
  DEF Tally, StreamTypes, Events, AnyCount, Counts, Unknown, Reported, InOrder, ReadKiro
<1>8. (source # "kiro" => done = sent.ended)' /\ EventCounted' /\ KiroPlain'
  BY <1>2, <1>5, <1>6 DEF Tally, EventCounted, EndPassed, KiroPlain
<1>9. TextPassed'
  BY <1>1, <1>2, <1>3, <1>5, <1>6 DEF Tally, TextPassed, StreamTypes, Events
<1>10. EndsPassed'
  BY <1>2, <1>3, <1>5 DEF Tally, EndsPassed
<1>11. ReasonPassed'
  BY <1>1, <1>2 DEF ReasonPassed, StreamTypes, Sources, Targets, Converted
<1>12. ReturnTrue'
  BY <1>2, <1>5 DEF ReturnTrue
<1>13. QED BY <1>7, <1>8, <1>9, <1>10, <1>11, <1>12 DEF Tally

LEMMA EndOfKiroInv ==
  ASSUME StreamInv, EndOfKiro
  PROVE  StreamInv'
<1>1. /\ source = "kiro"
      /\ UNCHANGED <<source, target, sent, event, done, usage, converter>>
  BY DEF EndOfKiro
<1>2. StreamTypes BY DEF StreamInv
<1>3. CASE sent.text = 0
  <2>1. result' = [open |-> FALSE, error |-> TRUE, partial |-> TRUE] /\ UNCHANGED <<got, client>>
    BY <1>3 DEF EndOfKiro, Returned
  <2>2. StreamTypes' BY <1>1, <1>2, <2>1 DEF StreamTypes
  <2>3. QED BY <2>1, <2>2 DEF StreamInv
<1>4. CASE sent.text > 0
  <2>0. sent.text # 0 BY <1>2, <1>4 DEF StreamTypes
  <2>1. Write([text |-> 0, reason |-> "stop", ends |-> 1])
    BY <2>0 DEF EndOfKiro, Block
  <2>2. [text |-> 0, reason |-> "stop", ends |-> 1] \in Blocks
    BY DEF Blocks, AnyReason, Reasons
  <2>3. result' = [open |-> FALSE, error |-> FALSE, partial |-> client' = "cut"]
    BY <2>0 DEF EndOfKiro, Returned
  <2>4. /\ got' \in [text : Nat, reason : AnyReason, ends : Nat]
        /\ client' \in {"here", "away", "cut"}
        /\ client' # "cut" =>
             client # "cut" /\ got'.text = got.text /\ got'.ends = got.ends + 1
    BY <1>2, <2>1, <2>2, WriteFacts DEF StreamTypes
  <2>5. StreamTypes' BY <1>1, <1>2, <2>3, <2>4 DEF StreamTypes
  <2> SUFFICES Tally'
    BY <2>5 DEF StreamInv
  <2>6. Tally /\ result.open BY DEF StreamInv, EndOfKiro
  <2>7. /\ (usage = sent.tokens)' /\ (source # "kiro" => done = sent.ended)'
        /\ EventCounted' /\ KiroPlain' /\ TextPassed'
    BY <1>1, <2>4, <2>6 DEF Tally, EventCounted, EndPassed, KiroPlain, TextPassed
  <2>8. EndsPassed'
    BY <1>1, <1>2, <2>3, <2>4, <2>6 DEF Tally, EndsPassed, StreamTypes
  <2>9. ReasonPassed'
    BY <1>1, <1>2 DEF ReasonPassed, StreamTypes, Sources, Targets, Converted
  <2>10. ReturnTrue'
    BY <1>1, <2>3, <2>6 DEF Tally, KiroPlain, ReturnTrue
  <2>11. QED BY <2>7, <2>8, <2>9, <2>10 DEF Tally
<1>5. QED BY <1>2, <1>3, <1>4 DEF StreamTypes

LEMMA ClientLeavesInv ==
  ASSUME StreamInv, ClientLeaves
  PROVE  StreamInv'
<1>1. /\ client = "here" /\ client' = "away" /\ result.open
      /\ UNCHANGED <<source, target, sent, event, done, usage, converter, got, result>>
  BY DEF ClientLeaves
<1>2. StreamTypes' BY <1>1 DEF StreamInv, StreamTypes
<1> SUFFICES Tally'
  BY <1>2 DEF StreamInv
<1>3. Tally BY <1>1 DEF StreamInv
<1>4. /\ (usage = sent.tokens)' /\ (source # "kiro" => done = sent.ended)'
      /\ EventCounted' /\ KiroPlain' /\ TextPassed' /\ ReturnTrue'
  BY <1>1, <1>3 DEF Tally, EventCounted, EndPassed, KiroPlain, TextPassed, ReturnTrue
<1>5. EndsPassed' /\ ReasonPassed'
  BY <1>1, <1>3 DEF Tally, EndsPassed, ReasonPassed, EndPassed, Converted, Rendered
<1>6. QED BY <1>4, <1>5 DEF Tally

\* The next answer starts as the first did.
LEMMA NextStreamInv ==
  ASSUME NextStream
  PROVE  StreamInv'
<1>1. StreamInit' BY DEF NextStream, StreamInit
<1>2. QED BY <1>1, InitInv, PTL

LEMMA StutterInv ==
  ASSUME StreamInv, UNCHANGED streamVars
  PROVE  StreamInv'
BY DEF streamVars, StreamInv, StreamTypes, Tally, EventCounted, EndPassed, KiroPlain, TextPassed,
       EndsPassed, ReasonPassed, ReturnTrue, Converted, Rendered

\* A stream that ends without an error has the tokens the upstream reported; one
\* recorded as complete, in the code the drain's partial = false, was passed on in
\* full, with one end; whenever the client leaves and whatever the two protocols
\* are.  The end gives the reason the upstream gave, except to a chat client of a
\* converted stream, for whom convertSSEBlock writes "stop" (server.go).
THEOREM StreamsWhole == StreamSpec => []CompleteIsWhole
<1>1. StreamInit => StreamInv BY InitInv
<1>2. StreamInv /\ [StreamNext]_streamVars => StreamInv'
  <2> SUFFICES ASSUME StreamInv, [StreamNext]_streamVars PROVE StreamInv' OBVIOUS
  <2>1. ASSUME NEW e \in EventsOf[source], ReadData(e) \/ ReadKiro(e) PROVE StreamInv'
    BY <2>1, ReadDataInv, ReadKiroInv
  <2>2. CASE Dispatch BY <2>2, DispatchInv
  <2>3. CASE EndOfBody BY <2>3, EndOfBodyInv
  <2>4. CASE ReadError \/ LineTooLong BY <2>4, ErrorInv
  <2>5. CASE EndOfKiro BY <2>5, EndOfKiroInv
  <2>6. CASE ClientLeaves BY <2>6, ClientLeavesInv
  <2>7. CASE NextStream BY <2>7, NextStreamInv
  <2>8. CASE UNCHANGED streamVars BY <2>8, StutterInv
  <2>9. QED BY <2>1, <2>2, <2>3, <2>4, <2>5, <2>6, <2>7, <2>8 DEF StreamNext
<1>3. StreamInv => CompleteIsWhole
  <2> SUFFICES ASSUME StreamInv, ~result.open, ~result.error
               PROVE  /\ usage = sent.tokens
                      /\ ~result.partial =>
                           /\ got.text = sent.text
                           /\ got.ends = 1
                           /\ ~Converted => got.reason = sent.reason
                           /\ Converted /\ target # "chat" /\ source # "kiro" =>
                                got.reason = IF sent.reason = None THEN "stop" ELSE sent.reason
    BY DEF CompleteIsWhole
  <2>1. StreamTypes /\ Tally BY DEF StreamInv
  <2>2. event.text = 0 /\ event.reason = None /\ ~event.end
    BY <2>1 DEF Tally, ReturnTrue, NoEvent, EventOf
  <2>3. usage = sent.tokens BY <2>1 DEF Tally
  <2> SUFFICES ASSUME ~result.partial
               PROVE  /\ got.text = sent.text
                      /\ got.ends = 1
                      /\ ~Converted => got.reason = sent.reason
                      /\ Converted /\ target # "chat" /\ source # "kiro" =>
                           got.reason = IF sent.reason = None THEN "stop" ELSE sent.reason
    BY <2>3
  <2>4. client # "cut" /\ (source # "kiro" => EndPassed)
    BY <2>1, <2>2 DEF Tally, ReturnTrue, StreamTypes, EndPassed
  <2>5. got.text = sent.text
    BY <2>1, <2>2, <2>4 DEF Tally, TextPassed, StreamTypes
  <2>6. got.ends = 1
    BY <2>1, <2>4 DEF Tally, EndsPassed
  <2>7. ~Converted => got.reason = sent.reason
    BY <2>1, <2>2, <2>4 DEF Tally, ReasonPassed
  <2>8. Converted /\ target # "chat" /\ source # "kiro" =>
          got.reason = IF sent.reason = None THEN "stop" ELSE sent.reason
    BY <2>1, <2>4 DEF Tally, ReasonPassed, Rendered
  <2>9. QED BY <2>5, <2>6, <2>7, <2>8
<1>4. QED BY <1>1, <1>2, <1>3, PTL DEF StreamSpec
=============================================================================
