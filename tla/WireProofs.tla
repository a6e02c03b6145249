----------------------------- MODULE WireProofs -----------------------------
(* Proofs of the safety properties of Wire, and that it implements         *)
(* RequestService, for frames and texts of every size and reads that end   *)
(* anywhere.                                                               *)
EXTENDS Wire, TLAPS

(***************************************************************************)
(* The inductive invariant.  No number of a request is compared anywhere,  *)
(* so that what keeps requests and responses together is counted: neither  *)
(* reader is ever behind the last text it took, nor at its start, and the  *)
(* driver sends nothing before everything it sent was answered.            *)
(***************************************************************************)

\* Texts carry the number of their request.
InOrder ==
  /\ AnswersMatchRequests
  /\ \A j \in 1 .. Len(responses) : responses[j].to = j

\* What was accepted was sent, what was sent was served, what was served was
\* asked, and each of these is at most one behind the one before.
CountInv ==
  /\ Len(accepted) <= Len(responses) /\ Len(responses) <= Len(served)
  /\ Len(served) <= Len(requests) /\ Len(requests) <= Len(served) + 1
  /\ driver = "idle"    => Len(accepted) = Len(requests)
  /\ driver = "waiting" => Len(requests) = Len(accepted) + 1
  /\ measurer = "poll"  => Len(responses) = Len(served)
  /\ measurer = "eval"  => Len(served) = Len(responses) + 1

\* A reader that has taken some of the texts sent is past the start of the
\* last one that it took.
ReaderInv(pos, taken, sent) ==
  /\ taken <= pos.frame /\ pos.frame <= sent + 1
  /\ pos.frame = taken => pos.offset > 0
  /\ pos.frame = sent + 1 => pos.offset = 0

\* As long as every read() returned a frame, a reader has taken all it read.
WholeInv ==
  ~split =>
    /\ requestPos.offset = 0 /\ responsePos.offset = 0
    /\ measurer \in {"poll", "eval"} => requestPos.frame = Len(served) + 1
    /\ driver \in {"idle", "waiting"} => responsePos.frame = Len(accepted) + 1

WireInv ==
  /\ TypeOK /\ InOrder /\ CountInv
  /\ ReaderInv(requestPos, Len(served), Len(requests))
  /\ ReaderInv(responsePos, Len(accepted), Len(responses))
  /\ WholeInv /\ CrashesAreExplained

-----------------------------------------------------------------------------
\* An element of a sequence.
LEMMA ElementOf ==
  ASSUME NEW T, NEW s \in Seq(T), NEW i \in 1 .. Len(s)
  PROVE  s[i] \in T
  OBVIOUS

\* Where a read() of n bytes leaves its reader: in the same frame, or in the
\* next one, and then no further than it was in the one before.
LEMMA AdvanceMoves ==
  ASSUME NEW pos \in Positions, NEW n \in Pieces
  PROVE  /\ Advance(pos, n) \in Positions
         /\ \/ Advance(pos, n).frame = pos.frame /\ Advance(pos, n).offset = pos.offset + n
            \/ /\ Advance(pos, n).frame = pos.frame + 1
               /\ Advance(pos, n).offset = pos.offset + n - FrameSize
  BY WireAssumption DEF Positions, Advance, Position

\* What is read was sent.
LEMMA ReadableIsSent ==
  ASSUME NEW pos \in Positions, NEW n \in Pieces, NEW T, NEW sent \in Seq(T),
         Readable(pos, n, sent)
  PROVE  /\ pos.frame <= Len(sent)
         /\ Advance(pos, n).frame <= Len(sent) + 1
         /\ Advance(pos, n).frame = Len(sent) + 1 => Advance(pos, n).offset = 0
<1>1. n \in Nat \ {0} /\ FrameSize \in Nat /\ n <= FrameSize
  BY WireAssumption
<1>2. pos.frame \in Nat /\ pos.offset \in Nat /\ Len(sent) \in Nat
      /\ Advance(pos, n).frame \in Nat /\ Advance(pos, n).offset \in Nat
  BY AdvanceMoves, WireAssumption DEF Positions
<1>3. \/ Advance(pos, n).frame = pos.frame /\ Advance(pos, n).offset = pos.offset + n
      \/ Advance(pos, n).frame = pos.frame + 1
  BY AdvanceMoves
<1> QED BY <1>1, <1>2, <1>3 DEF Readable

\* A text is heard whole only from its start on; read from there by a whole
\* frame, it is heard whole unless it does not fit.
LEMMA HeardWhole ==
  ASSUME NEW size \in Nat \ {0}, NEW offset \in Nat, NEW n \in Pieces,
         NEW heard \in Heard(size, offset, n)
  PROVE  /\ heard = "whole" => offset = 0
         /\ offset = 0 /\ n = FrameSize /\ heard # "whole" => size >= FrameSize
  BY WireAssumption DEF Heard

-----------------------------------------------------------------------------
\* A request that is sent is the one after the last that was served.
LEMMA SendRequestStep ==
  ASSUME WireInv, NEW size \in RequestSizes, NEW hasExpr \in BOOLEAN,
         SendRequest(size, hasExpr)
  PROVE  WireInv'
<1> USE DEF WireInv, SendRequest
<1>1. Request(size, hasExpr) \in [size : RequestSizes, hasExpr : BOOLEAN]
  BY DEF Request
<1>2. requests \in Seq([size : RequestSizes, hasExpr : BOOLEAN]) /\ requests' = Append(requests, Request(size, hasExpr))
  BY DEF TypeOK
<1>3. /\ requests' \in Seq([size : RequestSizes, hasExpr : BOOLEAN])
      /\ Len(requests') = Len(requests) + 1
      /\ \A i \in 1 .. Len(requests) : requests'[i] = requests[i]
  BY <1>1, <1>2
<1>4. TypeOK'
  BY <1>3 DEF TypeOK, Gone
<1>5. InOrder'
  BY DEF InOrder, AnswersMatchRequests
<1>6. CountInv'
  BY <1>3 DEF CountInv, TypeOK
<1>7. ReaderInv(requestPos, Len(served), Len(requests))' /\ ReaderInv(responsePos, Len(accepted), Len(responses))'
  BY <1>3 DEF ReaderInv, CountInv, TypeOK, Positions
<1>8. WholeInv'
  BY DEF WholeInv
<1>9. CrashesAreExplained'
  <2>1. ASSUME measurer = "crashed", ~split
        PROVE  \E i \in 1 .. Len(requests') : requests'[i].size >= FrameSize \/ ~requests'[i].hasExpr
    <3>1. PICK i \in 1 .. Len(requests) : requests[i].size >= FrameSize \/ ~requests[i].hasExpr
      BY <2>1 DEF CrashesAreExplained
    <3> QED BY <3>1, <1>3 DEF TypeOK
  <2> QED BY <2>1 DEF CrashesAreExplained
<1> QED BY <1>4, <1>5, <1>6, <1>7, <1>8, <1>9

\* A driver that takes a response takes the one to the request it has made.
LEMMA ReadResponseStep ==
  ASSUME WireInv, NEW n \in Pieces, ReadResponse(n)
  PROVE  /\ WireInv'
         /\ driver' = "idle" =>
              /\ accepted' = Append(accepted, Len(requests))
              /\ Len(served) = Len(requests) /\ Len(accepted) = Len(requests) - 1
<1> DEFINE frame == responsePos.frame
           offset == responsePos.offset
<1>1. /\ responsePos \in Positions /\ responses \in Seq([to : Nat, size : ResponseSizes])
      /\ accepted \in Seq(Nat)
  BY DEF WireInv, TypeOK
<1>14. /\ frame \in Nat \ {0} /\ offset \in Nat
       /\ Len(accepted) \in Nat /\ Len(responses) \in Nat
       /\ Len(served) \in Nat /\ Len(requests) \in Nat
  BY WireAssumption DEF WireInv, TypeOK, Positions
<1>2. /\ driver = "waiting" /\ responsePos' = Advance(responsePos, n)
      /\ UNCHANGED <<measurer, requests, responses, requestPos, served>>
  BY DEF ReadResponse
<1>3. PICK heard \in Heard(responses[frame].size, offset, n) :
        IF heard = "whole"
          THEN driver' = "idle" /\ accepted' = Append(accepted, responses[frame].to)
          ELSE driver' = "crashed" /\ UNCHANGED accepted
  BY DEF ReadResponse
<1>4. /\ frame <= Len(responses) /\ responsePos'.frame <= Len(responses) + 1
      /\ responsePos'.frame = Len(responses) + 1 => responsePos'.offset = 0
  BY <1>1, <1>2, ReadableIsSent DEF ReadResponse
<1>5. /\ responsePos' \in Positions
      /\ \/ responsePos'.frame = frame /\ responsePos'.offset = offset + n
         \/ responsePos'.frame = frame + 1 /\ responsePos'.offset = offset + n - FrameSize
  BY <1>1, <1>2, AdvanceMoves
<1>6. responses[frame].size \in Nat \ {0} /\ responses[frame].to = frame
  <2>1. frame \in 1 .. Len(responses)
    BY <1>14, <1>4
  <2>2. responses[frame] \in [to : Nat, size : ResponseSizes]
    BY <1>1, <2>1, ElementOf
  <2>3. responses[frame].to = frame
    BY <2>1 DEF WireInv, InOrder
  <2> QED BY <2>2, <2>3, WireAssumption
<1>7. /\ heard = "whole" => offset = 0
      /\ offset = 0 /\ n = FrameSize /\ heard # "whole" => responses[frame].size >= FrameSize
  BY <1>14, <1>3, <1>6, HeardWhole
<1>8. /\ n \in Nat \ {0} /\ n <= FrameSize /\ FrameSize \in Nat
      /\ responsePos'.frame \in Nat /\ responsePos'.offset \in Nat
      /\ responsePos'.offset < FrameSize
  BY <1>5, WireAssumption DEF Positions
<1> DEFINE taken == Len(accepted)
<1>12. split' \in BOOLEAN /\ (~split' => ~split /\ n = FrameSize)
  <2>1. split' = (split \/ n < FrameSize) /\ split \in BOOLEAN
    BY DEF ReadResponse, WireInv, TypeOK
  <2>2. n < FrameSize \/ n = FrameSize
    BY <1>8
  <2> QED BY <2>1, <2>2
<1>13. /\ taken <= frame /\ (frame = taken => offset > 0)
       /\ ~split => offset = 0 /\ requestPos.offset = 0 /\ frame = taken + 1
                    /\ (measurer \in {"poll", "eval"} => requestPos.frame = Len(served) + 1)
  BY <1>2 DEF WireInv, ReaderInv, WholeInv
<1>15. frame \in 1 .. Len(responses)
  BY <1>4, <1>14
<1> HIDE DEF frame, offset, taken
<1>9. CASE heard = "whole"
  <2>1. offset = 0 /\ driver' = "idle" /\ accepted' = Append(accepted, frame)
    BY <1>3, <1>6, <1>7, <1>9
  <2>2. /\ frame = Len(accepted) + 1 /\ frame = Len(requests)
        /\ Len(served) = Len(requests) /\ Len(responses) = Len(served)
    BY <1>14, <1>2, <1>4, <1>13, <2>1 DEF WireInv, CountInv, taken
  <2>3. accepted' \in Seq(Nat) /\ Len(accepted') = Len(requests) /\ \A i \in 1 .. Len(accepted') : accepted'[i] = i
    BY <1>1, <2>1, <2>2 DEF WireInv, InOrder, AnswersMatchRequests
  <2>4. TypeOK' /\ InOrder'
    BY <1>1, <1>2, <1>5, <1>12, <2>1, <2>3 DEF WireInv, InOrder, AnswersMatchRequests, TypeOK
  <2>5. CountInv'
    BY <1>1, <1>2, <2>1, <2>2, <2>3 DEF WireInv, CountInv
  <2>6. ReaderInv(requestPos, Len(served), Len(requests))'
    BY <1>2 DEF WireInv
  <2>7. ReaderInv(responsePos, Len(accepted), Len(responses))'
    BY <1>14, <1>2, <1>4, <1>5, <1>8, <2>1, <2>2, <2>3 DEF ReaderInv
  <2>8. WholeInv'
    <3>1. ~split' => responsePos'.offset = 0 /\ responsePos'.frame = frame + 1
      BY <1>14, <1>5, <1>8, <1>12, <1>13, <2>1
    <3> QED BY <1>1, <1>2, <1>12, <1>13, <2>2, <2>3, <3>1 DEF WholeInv
  <2>9. CrashesAreExplained'
    BY <1>1, <1>2, <1>12, <2>1 DEF WireInv, CrashesAreExplained
  <2> QED BY <1>1, <2>1, <2>2, <2>4, <2>5, <2>6, <2>7, <2>8, <2>9 DEF WireInv
<1>10. CASE heard # "whole"
  <2>1. driver' = "crashed" /\ accepted' = accepted
    BY <1>3, <1>10
  <2>2. TypeOK' /\ InOrder'
    BY <1>1, <1>2, <1>5, <1>12, <2>1 DEF WireInv, InOrder, AnswersMatchRequests, TypeOK, Gone
  <2>3. CountInv'
    BY <1>2, <2>1 DEF WireInv, CountInv
  <2>4. ReaderInv(requestPos, Len(served), Len(requests))'
    BY <1>2 DEF WireInv
  <2>5. ReaderInv(responsePos, Len(accepted), Len(responses))'
    <3>1. /\ taken <= responsePos'.frame /\ responsePos'.frame <= Len(responses) + 1
          /\ responsePos'.frame = taken => responsePos'.offset > 0
      BY <1>4, <1>5, <1>8, <1>14, <1>13 DEF taken
    <3> QED BY <1>2, <1>4, <2>1, <3>1 DEF ReaderInv, taken
  <2>6. WholeInv'
    <3>1. ~split' => responsePos'.offset = 0
      BY <1>14, <1>5, <1>8, <1>12, <1>13
    <3> QED BY <1>2, <1>12, <1>13, <2>1, <3>1 DEF WholeInv
  <2>7. ~split' => responses[frame].size >= FrameSize
    BY <1>7, <1>10, <1>12, <1>13
  <2>8. CrashesAreExplained'
    BY <1>2, <1>12, <1>15, <2>1, <2>7 DEF WireInv, CrashesAreExplained
  <2> QED BY <2>1, <2>2, <2>3, <2>4, <2>5, <2>6, <2>8 DEF WireInv
<1> QED BY <1>9, <1>10

\* A request is evaluated when it is the last that was sent and was not
\* evaluated before; where frames are cut, a request may be passed over.
LEMMA ReadRequestStep ==
  ASSUME WireInv, NEW n \in Pieces, ReadRequest(n)
  PROVE  /\ WireInv'
         /\ \/ UNCHANGED served
            \/ /\ served' = Append(served, Len(requests))
               /\ Len(served) = Len(requests) - 1
<1> DEFINE frame == requestPos.frame
           offset == requestPos.offset
           request == requests[frame]
<1>1. /\ requestPos \in Positions /\ requests \in Seq([size : RequestSizes, hasExpr : BOOLEAN])
      /\ served \in Seq(Nat) /\ Len(accepted) \in Nat /\ Len(responses) \in Nat
  BY DEF WireInv, TypeOK
<1>2. /\ frame \in Nat \ {0} /\ offset \in Nat /\ FrameSize \in Nat
      /\ Len(served) \in Nat /\ Len(requests) \in Nat
      /\ n \in Nat \ {0} /\ n <= FrameSize
  BY <1>1, WireAssumption DEF Positions
<1>3. /\ measurer = "poll" /\ requestPos' = Advance(requestPos, n)
      /\ UNCHANGED <<driver, requests, responses, responsePos, accepted>>
  BY DEF ReadRequest
<1>4. PICK heard \in Heard(request.size, offset, n) :
        \/ heard = "empty" /\ UNCHANGED <<measurer, served>>
        \/ /\ heard = "whole" /\ request.hasExpr
           /\ measurer' = "eval" /\ served' = Append(served, frame)
        \/ /\ heard # "empty" /\ ~(heard = "whole" /\ request.hasExpr)
           /\ measurer' = "crashed" /\ UNCHANGED served
  BY DEF ReadRequest
<1>5. split' \in BOOLEAN /\ (~split' => ~split /\ n = FrameSize)
  <2>1. split' = (split \/ n < FrameSize) /\ split \in BOOLEAN
    BY DEF ReadRequest, WireInv, TypeOK
  <2>2. n < FrameSize \/ n = FrameSize
    BY <1>2
  <2> QED BY <2>1, <2>2
<1>6. /\ frame \in 1 .. Len(requests) /\ requestPos'.frame <= Len(requests) + 1
      /\ requestPos'.frame = Len(requests) + 1 => requestPos'.offset = 0
  BY <1>1, <1>2, <1>3, ReadableIsSent DEF ReadRequest
<1>7. /\ requestPos' \in Positions
      /\ \/ requestPos'.frame = frame /\ requestPos'.offset = offset + n
         \/ requestPos'.frame = frame + 1 /\ requestPos'.offset = offset + n - FrameSize
  BY <1>1, <1>3, AdvanceMoves
<1>8. /\ requestPos'.frame \in Nat /\ requestPos'.offset \in Nat /\ requestPos'.offset < FrameSize
  BY <1>2, <1>7 DEF Positions
<1>9. request.size \in Nat \ {0}
  <2>1. request \in [size : RequestSizes, hasExpr : BOOLEAN]
    BY <1>1, <1>6, ElementOf
  <2> QED BY <2>1, WireAssumption
<1>10. /\ heard = "whole" => offset = 0
       /\ offset = 0 /\ n = FrameSize /\ heard # "whole" => request.size >= FrameSize
  BY <1>2, <1>4, <1>9, HeardWhole
<1>11. /\ Len(served) <= frame /\ (frame = Len(served) => offset > 0)
       /\ Len(served) <= Len(requests) /\ Len(requests) <= Len(served) + 1
       /\ Len(responses) = Len(served) /\ Len(accepted) <= Len(responses)
       /\ driver = "idle" => Len(accepted) = Len(requests)
       /\ driver = "waiting" => Len(requests) = Len(accepted) + 1
  BY <1>3 DEF WireInv, ReaderInv, CountInv
<1>12. ~split => /\ offset = 0 /\ responsePos.offset = 0 /\ frame = Len(served) + 1
                 /\ driver \in {"idle", "waiting"} => responsePos.frame = Len(accepted) + 1
  BY <1>3 DEF WireInv, WholeInv
<1>13. ~split' => requestPos'.offset = 0 /\ requestPos'.frame = frame + 1
  BY <1>2, <1>5, <1>7, <1>8, <1>12
<1>14. ReaderInv(responsePos, Len(accepted), Len(responses))'
  BY <1>3 DEF WireInv
<1> HIDE DEF frame, offset, request
<1>15. CASE heard = "whole" /\ measurer' = "eval" /\ served' = Append(served, frame)
  <2>1. frame = Len(requests) /\ frame = Len(served) + 1
    BY <1>2, <1>6, <1>10, <1>11, <1>15
  <2>2. /\ served' \in Seq(Nat) /\ Len(served') = Len(served) + 1
        /\ AnswersMatchRequests'
    BY <1>1, <1>2, <1>3, <1>15, <2>1 DEF WireInv, InOrder, AnswersMatchRequests
  <2>3. TypeOK' /\ InOrder'
    BY <1>1, <1>3, <1>5, <1>7, <1>15, <2>2 DEF WireInv, InOrder, TypeOK
  <2>4. CountInv'
    BY <1>1, <1>2, <1>3, <1>11, <1>15, <2>1, <2>2 DEF CountInv
  <2>5. ReaderInv(requestPos, Len(served), Len(requests))'
    BY <1>2, <1>3, <1>6, <1>7, <1>8, <2>1, <2>2 DEF ReaderInv
  <2>6. WholeInv'
    BY <1>1, <1>2, <1>3, <1>5, <1>12, <1>13, <2>2 DEF WholeInv
  <2>7. CrashesAreExplained'
    BY <1>3, <1>5, <1>15 DEF WireInv, CrashesAreExplained
  <2> QED BY <1>14, <1>15, <2>1, <2>3, <2>4, <2>5, <2>6, <2>7, <1>2 DEF WireInv
<1>16. CASE UNCHANGED served /\ (measurer' = "poll" \/ measurer' = "crashed")
  <2>1. TypeOK' /\ InOrder'
    BY <1>1, <1>3, <1>5, <1>7, <1>16 DEF WireInv, InOrder, AnswersMatchRequests, TypeOK, Ended
  <2>2. CountInv'
    BY <1>2, <1>3, <1>11, <1>16 DEF CountInv
  <2>3. ReaderInv(requestPos, Len(served), Len(requests))'
    <3>1. /\ Len(served) <= requestPos'.frame
          /\ requestPos'.frame = Len(served) => requestPos'.offset > 0
      BY <1>2, <1>7, <1>8, <1>11
    <3> QED BY <1>3, <1>6, <1>16, <3>1 DEF ReaderInv
  <2>4. ~split' => heard # "empty"
    BY <1>2, <1>4, <1>5, <1>9, <1>12 DEF Heard
  <2>5. WholeInv'
    <3>1. ~split' => measurer' = "crashed"
      BY <1>4, <1>16, <2>4
    <3> QED BY <1>3, <1>5, <1>12, <1>13, <1>16, <3>1 DEF WholeInv
  <2>6. measurer' = "crashed" /\ ~split' => request.size >= FrameSize \/ ~request.hasExpr
    <3>1. measurer' = "crashed" => ~(heard = "whole" /\ request.hasExpr)
      BY <1>3, <1>4
    <3>2. ~split' /\ heard # "whole" => request.size >= FrameSize
      BY <1>5, <1>10, <1>12
    <3> QED BY <3>1, <3>2
  <2>7. CrashesAreExplained'
    BY <1>3, <1>5, <1>6, <1>16, <2>6 DEF WireInv, CrashesAreExplained, request
  <2> QED BY <1>14, <1>16, <2>1, <2>2, <2>3, <2>5, <2>7 DEF WireInv
<1> QED BY <1>3, <1>4, <1>15, <1>16

\* A response is for the request that was evaluated last.
LEMMA RespondStep ==
  ASSUME WireInv, NEW size \in ResponseSizes, Respond(size)
  PROVE  WireInv'
<1>1. /\ served \in Seq(Nat) /\ responses \in Seq([to : Nat, size : ResponseSizes])
      /\ Len(accepted) \in Nat /\ Len(requests) \in Nat
      /\ measurer = "eval" /\ UNCHANGED <<driver, requests, requestPos, responsePos, served, accepted, split>>
  BY DEF WireInv, TypeOK, Respond
<1>2. CASE measurer' = "ended" /\ UNCHANGED responses
  BY <1>1, <1>2 DEF WireInv, TypeOK, Ended, InOrder, AnswersMatchRequests, CountInv, ReaderInv,
                    WholeInv, CrashesAreExplained
<1>3. CASE /\ measurer' \in {"poll", "ended"}
           /\ responses' = Append(responses, Response(served[Len(served)], size))
  <2>1. Len(served) \in 1 .. Len(served) /\ Len(served) = Len(responses) + 1
    BY <1>1 DEF WireInv, CountInv
  <2>2. served[Len(served)] = Len(served)
    BY <2>1 DEF WireInv, InOrder, AnswersMatchRequests
  <2>3. Response(Len(served), size) \in [to : Nat, size : ResponseSizes]
    BY <1>1 DEF Response
  <2>4. responses' = Append(responses, Response(Len(served), size))
    BY <1>3, <2>2
  <2>5. /\ responses' \in Seq([to : Nat, size : ResponseSizes])
        /\ Len(responses') = Len(responses) + 1
        /\ \A j \in 1 .. Len(responses) : responses'[j] = responses[j]
        /\ responses'[Len(responses) + 1] = Response(Len(served), size)
    BY <1>1, <2>3, <2>4
  <2>6. TypeOK'
    BY <1>1, <1>3, <2>5 DEF WireInv, TypeOK, Ended
  <2>7. InOrder'
    <3>1. ASSUME NEW j \in 1 .. Len(responses') PROVE responses'[j].to = j
      <4>1. CASE j \in 1 .. Len(responses)
        BY <2>5, <4>1 DEF WireInv, InOrder
      <4>2. CASE j = Len(responses) + 1
        BY <2>1, <2>5, <4>2 DEF Response
      <4> QED BY <1>1, <2>5, <4>1, <4>2
    <3> QED BY <1>1, <3>1 DEF WireInv, InOrder, AnswersMatchRequests
  <2>8. CountInv'
    BY <1>1, <1>3, <2>1, <2>5 DEF WireInv, CountInv
  <2>9. ReaderInv(requestPos, Len(served), Len(requests))'
    BY <1>1 DEF WireInv
  <2>10. ReaderInv(responsePos, Len(accepted), Len(responses))'
    BY <1>1, <2>5 DEF WireInv, ReaderInv, TypeOK, Positions
  <2>11. WholeInv'
    BY <1>1, <1>3 DEF WireInv, WholeInv
  <2>12. CrashesAreExplained'
    <3>1. ASSUME driver = "crashed", ~split
          PROVE  \E i \in 1 .. Len(responses') : responses'[i].size >= FrameSize
      <4>1. PICK i \in 1 .. Len(responses) : responses[i].size >= FrameSize
        BY <3>1 DEF WireInv, CrashesAreExplained
      <4> QED BY <1>1, <2>5, <4>1
    <3> QED BY <1>1, <1>3, <3>1 DEF WireInv, CrashesAreExplained
  <2> QED BY <2>6, <2>7, <2>8, <2>9, <2>10, <2>11, <2>12 DEF WireInv
<1> QED BY <1>2, <1>3 DEF Respond

\* A side that ends, fails or is left alone changes nothing that was sent.
LEMMA OtherStep ==
  ASSUME WireInv,
         \/ MeasurerClosed \/ DriverGoes \/ DriverClosed \/ MeasurerFails \/ UNCHANGED vars
  PROVE  WireInv'
<1>1. /\ UNCHANGED <<requests, responses, requestPos, responsePos, served, accepted, split>>
      /\ driver' = driver \/ driver' = "gone"
      /\ measurer' = measurer \/ measurer' = "ended" \/ measurer' = "hung"
  BY DEF MeasurerClosed, DriverGoes, DriverClosed, MeasurerFails, vars
<1>2. TypeOK' /\ InOrder'
  BY <1>1 DEF WireInv, TypeOK, Gone, Ended, InOrder, AnswersMatchRequests
<1>3. CountInv'
  BY <1>1 DEF WireInv, CountInv
<1>4. /\ ReaderInv(requestPos, Len(served), Len(requests))'
      /\ ReaderInv(responsePos, Len(accepted), Len(responses))'
  BY <1>1 DEF WireInv
<1>5. WholeInv' /\ CrashesAreExplained'
  BY <1>1 DEF WireInv, WholeInv, CrashesAreExplained
<1> QED BY <1>2, <1>3, <1>4, <1>5 DEF WireInv

\* Every step keeps the invariant.
LEMMA WireStep ==
  ASSUME WireInv, [Next]_vars PROVE WireInv'
<1>1. ASSUME NEW size \in RequestSizes, NEW hasExpr \in BOOLEAN, SendRequest(size, hasExpr)
      PROVE  WireInv'
  BY <1>1, SendRequestStep
<1>2. ASSUME NEW n \in Pieces, ReadResponse(n) PROVE WireInv'
  BY <1>2, ReadResponseStep
<1>3. ASSUME NEW n \in Pieces, ReadRequest(n) PROVE WireInv'
  BY <1>3, ReadRequestStep
<1>4. ASSUME NEW size \in ResponseSizes, Respond(size) PROVE WireInv'
  BY <1>4, RespondStep
<1> QED BY <1>1, <1>2, <1>3, <1>4, OtherStep DEF Next, Driver, DriverReads, Measurer

\* It holds when the connection is made.
LEMMA InitWireInv ==
  ASSUME Init PROVE WireInv
<1> USE DEF Init
<1>1. Position(1, 0) \in Positions
  BY WireAssumption DEF Position, Positions
<1>2. TypeOK
  <2>1. driver \in {"idle", "waiting"} \cup Gone /\ measurer \in {"poll", "eval", "hung"} \cup Ended
    OBVIOUS
  <2>2. requests \in Seq([size : RequestSizes, hasExpr : BOOLEAN]) /\ responses \in Seq([to : Nat, size : ResponseSizes])
    OBVIOUS
  <2>3. served \in Seq(Nat) /\ accepted \in Seq(Nat)
    OBVIOUS
  <2>4. split \in BOOLEAN
    OBVIOUS
  <2> QED BY <1>1, <2>1, <2>2, <2>3, <2>4 DEF TypeOK
<1>3. InOrder /\ CountInv /\ WholeInv
  BY DEF InOrder, AnswersMatchRequests, CountInv, WholeInv, Position
<1>4. /\ ReaderInv(requestPos, Len(served), Len(requests))
      /\ ReaderInv(responsePos, Len(accepted), Len(responses))
  BY DEF ReaderInv, Position
<1>5. CrashesAreExplained
  BY DEF CrashesAreExplained
<1> QED BY <1>2, <1>3, <1>4, <1>5 DEF WireInv

\* The inductive invariant of the connection holds in every reachable state
\* (DI_send_request, BE_get_request, ME_sock_send, ME_sock_recv).
THEOREM WireInvariance == Spec => []WireInv
<1>1. Init => WireInv
  BY InitWireInv
<1>2. WireInv /\ [Next]_vars => WireInv'
  BY WireStep
<1> QED BY <1>1, <1>2, PTL DEF Spec

\* Every variable keeps its type, and a reader never leaves the stream.
THEOREM WireTypeCorrectness == Spec => []TypeOK
<1>1. WireInv => TypeOK
  BY DEF WireInv
<1> QED BY <1>1, WireInvariance, PTL

\* Requests are evaluated once and in order, and a driver takes no response
\* for the one of another request, whatever read() returns.
THEOREM AnswersStayInStep == Spec => []AnswersMatchRequests
<1>1. WireInv => AnswersMatchRequests
  BY DEF WireInv, InOrder
<1> QED BY <1>1, WireInvariance, PTL

\* A crash of a side needs a frame in pieces, a text that does not fit or a
\* request without an expression.
THEOREM WireCrashesHaveACause == Spec => []CrashesAreExplained
<1>1. WireInv => CrashesAreExplained
  BY DEF WireInv
<1> QED BY <1>1, WireInvariance, PTL

\* Where every frame arrives whole, no request is passed over unanswered.
THEOREM RequestsAreKept == Spec => []NoRequestIsLost
<1>1. ASSUME WireInv, driver = "waiting", measurer = "poll", ~split,
             ~Unread(requestPos, requests), ~Unread(responsePos, responses)
      PROVE  FALSE
  <2>1. /\ Len(requests) \in Nat /\ Len(responses) \in Nat
        /\ Len(served) \in Nat /\ Len(accepted) \in Nat
    BY <1>1 DEF WireInv, TypeOK
  <2>2. requestPos.frame = Len(served) + 1 /\ responsePos.frame = Len(accepted) + 1
    BY <1>1 DEF WireInv, WholeInv
  <2>3. Len(responses) = Len(served) /\ Len(requests) = Len(accepted) + 1
    BY <1>1 DEF WireInv, CountInv
  <2>4. requestPos.frame > Len(requests) /\ responsePos.frame > Len(responses)
    BY <1>1, <2>1, <2>2 DEF Unread
  <2>5. responsePos.frame <= Len(responses) + 1 /\ Len(accepted) <= Len(responses)
        /\ Len(served) <= Len(requests)
    BY <1>1 DEF WireInv, ReaderInv, CountInv
  <2> QED BY <2>1, <2>2, <2>3, <2>4, <2>5
<1>2. WireInv => NoRequestIsLost
  BY <1>1 DEF NoRequestIsLost
<1> QED BY <1>2, WireInvariance, PTL

\* Each step of the two processes is one of the service, or none of it.
LEMMA ServiceStep ==
  ASSUME WireInv, [Next]_vars PROVE [Service!Next]_(Service!vars)
<1> USE DEF Service!vars
<1>0. Len(requests) \in Nat /\ Len(served) \in Nat /\ Len(accepted) \in Nat
  BY DEF WireInv, TypeOK
<1>1. ASSUME NEW size \in RequestSizes, NEW hasExpr \in BOOLEAN, SendRequest(size, hasExpr)
      PROVE  Service!Ask
  <2>1. Request(size, hasExpr) \in [size : RequestSizes, hasExpr : BOOLEAN]
    BY DEF Request
  <2>2. requests \in Seq([size : RequestSizes, hasExpr : BOOLEAN])
    BY DEF WireInv, TypeOK
  <2>3. Len(requests') = Len(requests) + 1 /\ UNCHANGED <<served, accepted>>
    BY <1>1, <2>1, <2>2 DEF SendRequest
  <2>4. Len(accepted) = Len(requests)
    BY <1>1 DEF WireInv, CountInv, SendRequest
  <2> QED BY <2>3, <2>4 DEF Service!Ask
<1>2. ASSUME NEW n \in Pieces, ReadResponse(n)
      PROVE  Service!Answer \/ UNCHANGED Service!vars
  <2>1. UNCHANGED <<requests, served>>
    BY <1>2 DEF ReadResponse
  <2>2. driver' = "idle" \/ UNCHANGED accepted
    BY <1>2 DEF ReadResponse
  <2> QED BY <1>2, <2>1, <2>2, ReadResponseStep DEF Service!Answer
<1>3. ASSUME NEW n \in Pieces, ReadRequest(n)
      PROVE  Service!Evaluate \/ UNCHANGED Service!vars
  <2>1. UNCHANGED <<requests, accepted>>
    BY <1>3 DEF ReadRequest
  <2> QED BY <1>3, <2>1, ReadRequestStep DEF Service!Evaluate
<1>4. ASSUME NEW size \in ResponseSizes, Respond(size) PROVE UNCHANGED Service!vars
  BY <1>4 DEF Respond
<1>5. ASSUME \/ MeasurerClosed \/ DriverGoes \/ DriverClosed \/ MeasurerFails \/ UNCHANGED vars
      PROVE  UNCHANGED Service!vars
  BY <1>5 DEF MeasurerClosed, DriverGoes, DriverClosed, MeasurerFails, vars
<1> QED BY <1>1, <1>2, <1>3, <1>4, <1>5 DEF Next, Driver, DriverReads, Measurer, Service!Next

\* The wire implements a service that answers one request at a time.
THEOREM WireIsAService == Spec => WireImplementsService
<1>1. Init => Service!Init
  BY DEF Init, Service!Init
<1>2. WireInv /\ [Next]_vars => [Service!Next]_(Service!vars)
  BY ServiceStep
<1> QED BY <1>1, <1>2, WireInvariance, PTL DEF Spec, WireImplementsService, Service!Spec

=============================================================================
