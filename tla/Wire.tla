-------------------------------- MODULE Wire --------------------------------
(***************************************************************************)
(* The connection between a driver and the measurer: DI_send_request on    *)
(* one side, BE_get_request on the other, ME_sock_send and ME_sock_recv    *)
(* between them.  A text travels in a frame of fixed size, cut if it is    *)
(* longer and padded with zeros if it is shorter; TCP carries a stream of  *)
(* bytes and knows nothing of frames.  A direction of the stream is kept   *)
(* as the texts that were written to it and the position that its reader   *)
(* has come to.  What a request makes the measurer do is left open here    *)
(* (see Measurer): it is answered, or the measurer ends or hangs.          *)
(***************************************************************************)
EXTENDS Integers, Sequences

CONSTANTS
  FrameSize,     \* bytes of a frame (1024)
  Pieces,        \* how many bytes a read() may return
  RequestSizes,  \* lengths of the JSON texts of requests
  ResponseSizes, \* lengths of the JSON texts of responses
  MaxRequests    \* bound: requests of a driver

ASSUME WireAssumption ==
  /\ FrameSize \in Nat \ {0} /\ Pieces \subseteq 1 .. FrameSize
  /\ RequestSizes \subseteq Nat \ {0} /\ ResponseSizes \subseteq Nat \ {0}
  /\ MaxRequests \in Nat

VARIABLES
  driver,      \* "idle", "waiting" for a response, "gone", "crashed"
  measurer,    \* "poll", "eval", "hung", "ended", "crashed"
  requests,    \* the texts that the driver sent: their length, and whether
               \* they hold an expression
  responses,   \* the texts that the measurer sent, with the request they answer
  requestPos, responsePos,  \* how far each stream was read: frame and offset
  served,      \* history: the requests that were evaluated, in order
  accepted,    \* history: the requests whose response the driver took
  split        \* history: a read() returned less than a frame

vars == <<driver, measurer, requests, responses, requestPos, responsePos,
          served, accepted, split>>

Gone  == {"gone", "crashed"}
Ended == {"ended", "crashed"}

Request(size, hasExpr)  == [size |-> size, hasExpr |-> hasExpr]
Response(to, size)      == [to |-> to, size |-> size]
Position(frame, offset) == [frame |-> frame, offset |-> offset]

Init ==
  /\ driver = "idle" /\ measurer = "poll"
  /\ requests = <<>> /\ responses = <<>>
  /\ requestPos = Position(1, 0) /\ responsePos = Position(1, 0)
  /\ served = <<>> /\ accepted = <<>> /\ split = FALSE

-----------------------------------------------------------------------------
(* Streams.                                                                *)

\* Bytes of the frames sent that are not read yet
Unread(pos, sent) == pos.frame <= Len(sent)

Advance(pos, n) ==
  IF pos.offset + n < FrameSize
    THEN Position(pos.frame, pos.offset + n)
    ELSE Position(pos.frame + 1, pos.offset + n - FrameSize)

\* read() returns what has arrived, which is no more than what was written
Readable(pos, n, sent) ==
  LET end == Advance(pos, n)
  IN end.frame <= Len(sent) \/ (end.frame = Len(sent) + 1 /\ end.offset = 0)

\* Mutant: the last byte of the frame is kept for the end of the text
HeardShort(size, offset, n) ==
  IF offset >= size THEN {"empty"}
  ELSE IF offset > 0 \/ n < size \/ size >= FrameSize - 1 THEN {"garbage"}
  ELSE {"whole"}

\* What strcpy() makes of n bytes from an offset of a frame on: nothing if they
\* begin with padding, the text if all of it is there, and else a piece that is
\* no JSON.  A text that fills the frame has no end of its own: what follows it
\* on the stack may happen to be one.
Heard(size, offset, n) ==
  IF offset >= size THEN {"empty"}
  ELSE IF offset > 0 \/ n < size THEN {"garbage"}
  ELSE IF size = FrameSize THEN {"whole", "garbage"}
  ELSE {"whole"}

\* A process that ends with bytes unread resets the connection.
ResetByDriver   == driver \in Gone /\ Unread(responsePos, responses)
ResetByMeasurer == measurer \in Ended /\ Unread(requestPos, requests)

-----------------------------------------------------------------------------
(* The driver: DI_send_request, and the ends of its process.               *)

\* Mutant: the next request is sent before the response is there
SendRequestEarly(size, hasExpr) ==
  /\ driver \in {"idle", "waiting"} /\ Len(requests) < MaxRequests
  /\ requests' = Append(requests, Request(size, hasExpr))
  /\ driver' = IF ResetByMeasurer THEN "gone" ELSE "waiting"
  /\ UNCHANGED <<measurer, responses, requestPos, responsePos, served, accepted, split>>

\* A line that is no text (the end of the input) makes a request without an
\* expression.  Writing to a connection that was reset kills the driver.
SendRequest(size, hasExpr) ==
  /\ driver = "idle" /\ Len(requests) < MaxRequests
  /\ requests' = Append(requests, Request(size, hasExpr))
  /\ driver' = IF ResetByMeasurer THEN "gone" ELSE "waiting"
  /\ UNCHANGED <<measurer, responses, requestPos, responsePos, served, accepted, split>>

\* Anything but a whole response gives ME_measurement_fromJSON no object, which
\* it does not survive; the id of the response is not looked at.
ReadResponse(n) ==
  /\ driver = "waiting" /\ Readable(responsePos, n, responses)
  /\ responsePos' = Advance(responsePos, n)
  /\ \E heard \in Heard(responses[responsePos.frame].size, responsePos.offset, n) :
       IF heard = "whole"
         THEN driver' = "idle" /\ accepted' = Append(accepted, responses[responsePos.frame].to)
         ELSE driver' = "crashed" /\ UNCHANGED accepted
  /\ split' = (split \/ n < FrameSize)
  /\ UNCHANGED <<measurer, requests, responses, requestPos, served>>

\* "Driver closed!" on the driver's side, or a read error
MeasurerClosed ==
  /\ driver = "waiting" /\ measurer \in Ended
  /\ ~Unread(responsePos, responses) \/ ResetByMeasurer
  /\ driver' = "gone"
  /\ UNCHANGED <<measurer, requests, responses, requestPos, responsePos, served, accepted, split>>

\* The end of a driver's program, or Ctrl-C
DriverGoes ==
  /\ driver \notin Gone
  /\ driver' = "gone"
  /\ UNCHANGED <<measurer, requests, responses, requestPos, responsePos, served, accepted, split>>

-----------------------------------------------------------------------------
(* The measurer: BE_get_request.                                           *)

\* An empty text is passed over; a text that is no JSON, or has no expression,
\* gives ME_RLI_tokenize no text, which it does not survive.
ReadRequest(n) ==
  /\ measurer = "poll" /\ Readable(requestPos, n, requests)
  /\ requestPos' = Advance(requestPos, n)
  /\ \E heard \in Heard(requests[requestPos.frame].size, requestPos.offset, n) :
       CASE heard = "empty" -> UNCHANGED <<measurer, served>>
         [] heard = "whole" /\ requests[requestPos.frame].hasExpr ->
              measurer' = "eval" /\ served' = Append(served, requestPos.frame)
         [] OTHER -> measurer' = "crashed" /\ UNCHANGED served
  /\ split' = (split \/ n < FrameSize)
  /\ UNCHANGED <<driver, requests, responses, responsePos, accepted>>

\* Mutant: a response that does not fit is not sent
RespondIfShort(size) ==
  /\ measurer = "eval" /\ measurer' \in {"poll", "ended"}
  /\ responses' = IF size > FrameSize THEN responses
                    ELSE Append(responses, Response(served[Len(served)], size))
  /\ UNCHANGED <<driver, requests, requestPos, responsePos, served, accepted, split>>

\* The measurer ends after the response if the request was a (quit); writing
\* to a connection that was reset kills it.
Respond(size) ==
  /\ measurer = "eval"
  /\ IF ResetByDriver
       THEN measurer' = "ended" /\ UNCHANGED responses
       ELSE /\ measurer' \in {"poll", "ended"}
            /\ responses' = Append(responses, Response(served[Len(served)], size))
  /\ UNCHANGED <<driver, requests, requestPos, responsePos, served, accepted, split>>

\* Mutant: the end of the stream is taken for a read that would block
DriverClosedPolls ==
  /\ measurer = "poll" /\ driver \in Gone
  /\ ResetByDriver
  /\ measurer' = "ended"
  /\ UNCHANGED <<driver, requests, responses, requestPos, responsePos, served, accepted, split>>

\* "Driver closed!", or a read error
DriverClosed ==
  /\ measurer = "poll" /\ driver \in Gone
  /\ ~Unread(requestPos, requests) \/ ResetByDriver
  /\ measurer' = "ended"
  /\ UNCHANGED <<driver, requests, responses, requestPos, responsePos, served, accepted, split>>

\* A request or a hook's action ends in an error of gdb or in a crash; an
\* action may also wait for ever (see Measurer).
MeasurerFails ==
  /\ \/ measurer \in {"poll", "eval"} /\ measurer' = "ended"
     \/ measurer = "poll" /\ measurer' = "hung"
  /\ UNCHANGED <<driver, requests, responses, requestPos, responsePos, served, accepted, split>>

-----------------------------------------------------------------------------
Driver ==
  \/ \E size \in RequestSizes, hasExpr \in BOOLEAN : SendRequest(size, hasExpr)
  \/ DriverGoes

DriverReads == MeasurerClosed \/ \E n \in Pieces : ReadResponse(n)

Measurer ==
  \/ \E n \in Pieces : ReadRequest(n)
  \/ \E size \in ResponseSizes : Respond(size)
  \/ DriverClosed

Next == Driver \/ DriverReads \/ Measurer \/ MeasurerFails

Spec == Init /\ [][Next]_vars

\* Both processes are scheduled and what was written arrives; nothing makes a
\* driver send, end, or the measurer fail.
FairSpec == Spec /\ WF_vars(Measurer) /\ WF_vars(DriverReads)

-----------------------------------------------------------------------------
(* Properties.                                                             *)

Positions == [frame : Nat \ {0}, offset : 0 .. FrameSize - 1]

\* Every variable has its type.
TypeOK ==
  /\ driver \in {"idle", "waiting"} \cup Gone
  /\ measurer \in {"poll", "eval", "hung"} \cup Ended
  /\ requests \in Seq([size : RequestSizes, hasExpr : BOOLEAN])
  /\ responses \in Seq([to : Nat, size : ResponseSizes])
  /\ requestPos \in Positions /\ responsePos \in Positions
  /\ served \in Seq(Nat) /\ accepted \in Seq(Nat) /\ split \in BOOLEAN

\* Requests are evaluated once each and in order, and what the driver takes for
\* the answer to its n-th request is that, although neither side compares ids
\* and reads may cut and join frames anywhere (DI_send_request, ME_sock_recv).
AnswersMatchRequests ==
  /\ \A i \in 1 .. Len(served)   : served[i] = i
  /\ \A i \in 1 .. Len(accepted) : accepted[i] = i

\* A crash of either side needs a frame that arrived in pieces, a text as long
\* as the frame, or, for the measurer, a request without an expression.
CrashesAreExplained ==
  /\ driver = "crashed" => split \/ \E i \in 1 .. Len(responses) : responses[i].size >= FrameSize
  /\ measurer = "crashed" =>
       split \/ \E i \in 1 .. Len(requests) : requests[i].size >= FrameSize \/ ~requests[i].hasExpr

\* The driver waits for a response that nobody will send only if a frame
\* arrived in pieces: the measurer then takes the start of a request for the
\* padding of the one before.
NoRequestIsLost ==
  driver = "waiting" /\ measurer = "poll"
    /\ ~Unread(requestPos, requests) /\ ~Unread(responsePos, responses) => split

\* The wire implements a service that answers one request at a time.
Service == INSTANCE RequestService
             WITH asked <- Len(requests), evaluated <- served, answered <- accepted
WireImplementsService == Service!Spec

\* A driver that waits gets an answer or learns of the end of the measurer,
\* unless an action of a hook hangs or a frame arrived in pieces.
RequestsAreAnswered ==
  driver = "waiting" ~> driver # "waiting" \/ measurer = "hung" \/ split

\* No measurer outlives its driver (it would keep the port and the target).
SessionsEnd == driver \in Gone ~> measurer \in Ended \cup {"hung"}
=============================================================================
