--------------------------- MODULE FirmwareProofs ---------------------------
(***************************************************************************)
(* For any number of targets, packets and connections: the facility and    *)
(* the application agree on the download in progress, and answers are not  *)
(* overwritten.                                                            *)
(*                                                                         *)
(* Neither property is inductive.  DownloadAgreed needs that only a        *)
(* download that was started fails, and that a packet which asks for       *)
(* information about another target is not there during a download.        *)
(* AnswerKept needs that a packet is still there after its answer only     *)
(* while the download fails.                                               *)
(***************************************************************************)
EXTENDS Firmware, TLAPS

\* What a packet leaves in the response buffer waits there until it is sent.
TypeInv == TypeOK /\ (send_busy => response \in Response)

\* An answer to the packet of this step has its type, and so has the send packet.
LEMMA ReplyTyped ==
    ASSUME TypeOK, inbox # NoPacket, NEW kind \in Kinds, Reply(kind)
    PROVE  response' \in Response /\ slot' \in SendPacket /\ send_busy' \in BOOLEAN
<1>1. inbox.n \in 1 .. MaxIn
  BY DEF TypeOK, Packet
<1>2. response' \in Response
  BY <1>1 DEF Reply, Response
<1>3. slot \in SendPacket /\ Answer(response') \in SendPacket
  BY <1>2 DEF TypeOK, SendPacket
<1> QED
  BY <1>2, <1>3 DEF Reply

\* Whatever a step returns, the packet and the connection keep their types.
Returned ==
    /\ inbox \in Packet \cup {NoPacket}
    /\ link \in {"closed", "discovering", "open", "closing"}
    /\ hurried \in BOOLEAN
    /\ count \in [in : 0 .. MaxIn, other : 0 .. MaxOther, links : 0 .. MaxLinks]

LEMMA ReturnTyped ==
    ASSUME TypeOK, NEW result, Return(result)
    PROVE  Returned'
  BY DEF Return, TypeOK, Returned

\* So does an answer alone.
LEMMA RefuseTyped ==
    ASSUME TypeOK, inbox # NoPacket, NEW kind \in Kinds, Refuse(kind)
    PROVE  /\ response' \in Response /\ slot' \in SendPacket /\ send_busy' \in BOOLEAN
           /\ Returned'
  BY ReplyTyped, ReturnTyped DEF Refuse

\* A callback keeps the types of the keepalive and of the order.
LEMMA AskTyped ==
    ASSUME TypeOK, NEW callback, NEW t, NEW timed \in BOOLEAN, NEW result,
           result \in Results(callback)
    PROVE  /\ keepalive' \in KeepaliveAfter(result, timed) => keepalive' \in BOOLEAN
           /\ Knows(callback, t)
                => fault' \in {"none", "out_of_order", "busy_cleanup"}
  BY DEF Results, KeepaliveAfter, Knows, TypeOK

\* Every action keeps the types.
LEMMA TypeStep ==
    ASSUME TypeInv, [Next]_vars
    PROVE  TypeInv'
<1> TypeOK
  BY DEF TypeInv
<1> USE ConstantsAssumption
<1> USE DEF Kinds, TypeInv, Returned
<1>1. CASE InvalidTarget
  BY <1>1, RefuseTyped DEF InvalidTarget, Turn, TypeOK, clock
<1>2. CASE InvalidOpcode
  BY <1>2, RefuseTyped DEF InvalidOpcode, Ready, Turn, TypeOK, clock
<1>3. ASSUME NEW r, InfoRequest(r) PROVE TypeInv'
  <2>1. inbox.target \in Targets /\ inbox # NoPacket
    BY <1>3 DEF InfoRequest, Ready, Turn
  <2>2. CASE inbox.valid
    <3>1. slot' \in SendPacket
      BY <1>3, <2>2 DEF InfoRequest, TypeOK, SendPacket
    <3>2. Returned'
      BY <1>3, <2>2, ReturnTyped DEF InfoRequest
    <3> QED
      BY <1>3, <2>1, <2>2, <3>1, <3>2 DEF InfoRequest, TypeOK
  <2>3. CASE ~inbox.valid
    BY <1>3, <2>1, <2>3, RefuseTyped DEF InfoRequest, TypeOK
  <2> QED
    BY <2>2, <2>3
<1>4. CASE DownloadRequestRefused
  BY <1>4, RefuseTyped DEF DownloadRequestRefused, Ready, Turn, TypeOK, clock
<1>5. ASSUME NEW r, DownloadRequest(r) PROVE TypeInv'
  <2>1. inbox.target \in Targets /\ inbox # NoPacket
    BY <1>5 DEF DownloadRequest, Ready, Turn
  <2>2. keepalive' \in BOOLEAN /\ fault' \in {"none", "out_of_order", "busy_cleanup"}
    BY <1>5, AskTyped DEF DownloadRequest, TypeOK
  <2>3. CASE r = "pending"
    BY <1>5, <2>2, <2>3, ReturnTyped DEF DownloadRequest, NoReply, TypeOK
  <2>4. CASE r # "pending"
    <3>1. PICK kind \in Kinds :
             /\ Refuse(kind)
             /\ \/ update_started' = TRUE /\ target' = inbox.target /\ app' = inbox.target
                \/ UNCHANGED <<update_started, target, app>>
      BY <1>5, <2>4 DEF DownloadRequest
    <3> QED
      BY <1>5, <2>1, <2>2, <3>1, RefuseTyped DEF DownloadRequest, TypeOK
  <2> QED
    BY <2>3, <2>4
<1>6. CASE BlockRefused
  <2>1. inbox # NoPacket
    BY <1>6 DEF BlockRefused, Ready, Turn
  <2>2. Returned'
    BY <1>6, ReturnTyped DEF BlockRefused
  <2>3. failing' \in BOOLEAN
    BY <1>6 DEF BlockRefused, OfDownload, TypeOK
  <2> QED
    BY <1>6, <2>1, <2>2, <2>3, ReplyTyped DEF BlockRefused, NoReply, TypeOK, clock
<1>7. ASSUME NEW r, BinaryBlock(r) PROVE TypeInv'
  <2>1. inbox # NoPacket
    BY <1>7 DEF BinaryBlock, Ready, Turn
  <2>2. keepalive' \in BOOLEAN /\ fault' \in {"none", "out_of_order", "busy_cleanup"}
    BY <1>7, AskTyped DEF BinaryBlock, TypeOK
  <2>3. /\ failing' \in BOOLEAN
        /\ \/ Reply("abort") /\ Return("pending")
           \/ Refuse("block_ack")
           \/ NoReply /\ Return(r)
    BY <1>7 DEF BinaryBlock
  <2>4. CASE Reply("abort") /\ Return("pending")
    BY <1>7, <2>1, <2>2, <2>3, <2>4, ReplyTyped, ReturnTyped DEF BinaryBlock, TypeOK
  <2>5. CASE Refuse("block_ack")
    BY <1>7, <2>1, <2>2, <2>3, <2>5, RefuseTyped DEF BinaryBlock, TypeOK
  <2>6. CASE NoReply /\ Return(r)
    BY <1>7, <2>2, <2>3, <2>6, ReturnTyped DEF BinaryBlock, NoReply, TypeOK
  <2> QED
    BY <2>3, <2>4, <2>5, <2>6
<1>8. CASE DownloadAbort
  BY <1>8, ReturnTyped DEF DownloadAbort, NoReply, TypeOK, OfDownload
<1>9. CASE CompleteRefused
  BY <1>9, RefuseTyped DEF CompleteRefused, Ready, Turn, TypeOK
<1>10. ASSUME NEW r, DownloadComplete(r) PROVE TypeInv'
  <2>1. inbox # NoPacket
    BY <1>10 DEF DownloadComplete, Ready, Turn
  <2>2. keepalive' \in BOOLEAN /\ fault' \in {"none", "out_of_order", "busy_cleanup"}
    BY <1>10, AskTyped DEF DownloadComplete
  <2>3. \/ \E kind \in Kinds : Refuse(kind)
        \/ NoReply /\ Return("pending")
    BY <1>10 DEF DownloadComplete, Results
  <2>4. /\ response' \in Response \cup {NoResponse}
        /\ slot' \in SendPacket /\ send_busy' \in BOOLEAN
        /\ send_busy' => response' \in Response
        /\ Returned'
    BY <2>1, <2>3, RefuseTyped, ReturnTyped DEF NoReply, TypeOK
  <2> QED
    BY <1>10, <2>2, <2>4 DEF DownloadComplete, TypeOK
<1>11. ASSUME NEW r, TargetReset(r) PROVE TypeInv'
  BY <1>11, ReturnTyped DEF TargetReset, NoReply, TypeOK
<1>12. ASSUME NEW r, Keepalive(r) PROVE TypeInv'
  <2>1. keepalive' \in BOOLEAN
    BY <1>12, AskTyped DEF Keepalive, TypeOK
  <2>2. slot' \in SendPacket
    BY <1>12 DEF Keepalive, SendPacket, TypeOK
  <2>3. Returned'
    BY <1>12, ReturnTyped DEF Keepalive
  <2> QED
    BY <1>12, <2>1, <2>2, <2>3 DEF Keepalive, facility, TypeOK
<1>13. CASE Resend
  <2>1. slot' \in SendPacket
    BY <1>13 DEF Resend, Turn, SendPacket
  <2> QED
    BY <1>13, <2>1, ReturnTyped DEF Resend, TypeOK, clock
<1>14. ASSUME NEW r, TellAbort(r) PROVE TypeInv'
  <2>1. slot' \in SendPacket
    BY <1>14 DEF TellAbort, SendPacket, TypeOK
  <2>2. keepalive' \in BOOLEAN /\ fault' \in {"none", "out_of_order", "busy_cleanup"}
    BY <1>14, AskTyped DEF TellAbort, TypeOK
  <2> QED
    BY <1>14, <2>1, <2>2, ReturnTyped DEF TellAbort, TypeOK
<1>15. CASE Receive
  BY <1>15 DEF Receive, TypeOK, facility, clock
<1>16. CASE OtherSends
  BY <1>16 DEF OtherSends, TypeOK, SendPacket, facility, clock
<1>17. CASE SendComplete
  BY <1>17 DEF SendComplete, TypeOK, SendPacket, facility
<1>18. ASSUME NEW r, Open(r) PROVE TypeInv'
  <2>1. 0 \in Targets
    BY DEF Targets
  <2>2. slot' \in SendPacket /\ link' \in {"discovering", "closing"}
    BY <1>18 DEF Open, TypeOK, SendPacket
  <2>3. count' \in [in : 0 .. MaxIn, other : 0 .. MaxOther, links : 0 .. MaxLinks]
    BY <1>18 DEF Open, TypeOK
  <2> QED
    BY <1>18, <2>1, <2>2, <2>3 DEF Open, TypeOK
<1>19. CASE Fail
  BY <1>19 DEF Fail, TypeOK, facility, clock
<1>20. ASSUME NEW r, Close(r) PROVE TypeInv'
  <2>1. timer' \in BOOLEAN /\ keepalive' \in BOOLEAN
    BY <1>20 DEF Close, TypeOK, KeepaliveAfter, Results
  <2> QED
    BY <1>20, <2>1 DEF Close, TypeOK, SendPacket, facility, Knows
<1>21. CASE UNCHANGED vars
  BY <1>21 DEF vars, facility, clock, TypeOK
<1> QED
  BY <1>1, <1>2, <1>3, <1>4, <1>5, <1>6, <1>7, <1>8, <1>9, <1>10, <1>11, <1>12, <1>13,
     <1>14, <1>15, <1>16, <1>17, <1>18, <1>19, <1>20, <1>21 DEF Next, Asks, Refuses

LEMMA TypeInit == Init => TypeInv
<1> SUFFICES ASSUME Init
             PROVE  TypeInv
  OBVIOUS
<1>1. 0 \in Targets
  BY ConstantsAssumption DEF Targets
<1>2. count \in [in : 0 .. MaxIn, other : 0 .. MaxOther, links : 0 .. MaxLinks]
  BY ConstantsAssumption DEF Init
<1> QED
  BY <1>1, <1>2 DEF Init, TypeInv, TypeOK, SendPacket

\* Whatever Device Cloud sends, the application answers and the network does, the
\* state of the facility has its type: target is an image of the application, and
\* the send packet points to nothing but a message of the facility.
THEOREM TypeCorrect == Spec => []TypeOK
<1>1. Init => TypeInv
  BY TypeInit
<1>2. TypeInv /\ [Next]_vars => TypeInv'
  BY TypeStep
<1>3. TypeInv => TypeOK
  BY DEF TypeInv
<1> QED
  BY <1>1, <1>2, <1>3, PTL DEF Spec

-----------------------------------------------------------------------------
\* A packet that is still there after its answer is of a download that fails, or came
\* before the answer in the slot was sent.
AnsweredFails ==
    slot.from = "response" /\ inbox # NoPacket => hurried \/ failing

AnswerInv == TypeInv /\ AnswerKept /\ AnsweredFails

\* Nothing of the response buffer is in the slot, or it is what the buffer holds.
LEMMA SlotKinds ==
    /\ Free.from # "response"
    /\ \A from \in {"info", "list", "other"} : Shared(from).from # "response"
    /\ \A m : Answer(m).from = "response" /\ Answer(m).msg = m
  BY DEF Free, Shared, Answer

\* An answer replaces the one before only in a hurried connection.
LEMMA ReplyKeeps ==
    ASSUME AnswerInv, inbox # NoPacket, ~failing, hurried' = hurried,
           NEW kind, Reply(kind)
    PROVE  AnswerKept'
<1>1. CASE slot = Free
  BY <1>1, SlotKinds DEF Reply, AnswerKept, AnsweredFails
<1>2. CASE slot # Free
  BY <1>2 DEF Reply, AnswerInv, AnswerKept, AnsweredFails
<1> QED
  BY <1>1, <1>2

\* The two ways in which a packet is answered: it is done with the answer handed over, or
\* it stays with the answer handed over and the download failing.
LEMMA RefuseKeeps ==
    ASSUME AnswerInv, inbox # NoPacket, ~failing, NEW kind, Refuse(kind)
    PROVE  AnswerKept' /\ AnsweredFails'
<1>1. hurried' = hurried /\ AnswerKept'
  BY ReplyKeeps DEF Refuse, Return
<1>2. CASE slot = Free
  BY <1>1, <1>2 DEF Refuse, Return, Sent, AnsweredFails
<1>3. CASE slot # Free
  BY <1>1, <1>3 DEF Refuse, Reply, Return, AnswerInv, AnsweredFails
<1> QED
  BY <1>1, <1>2, <1>3

\* The slot and the buffer stay as they are: so does the property, unless the packet
\* comes now or the failure is over while it stays.
LEMMA Unanswered ==
    ASSUME AnswerInv, UNCHANGED <<response, slot, hurried>>,
           inbox' = inbox \/ inbox' = NoPacket,
           failing => failing' \/ inbox' = NoPacket
    PROVE  AnswerKept' /\ AnsweredFails'
  BY DEF AnswerInv, AnswerKept, AnsweredFails

LEMMA AnswerStep ==
    ASSUME AnswerInv, [Next]_vars
    PROVE  AnswerInv'
<1> SUFFICES AnswerKept' /\ AnsweredFails'
  BY TypeStep DEF AnswerInv
<1>1. CASE InvalidTarget \/ InvalidOpcode \/ DownloadRequestRefused \/ CompleteRefused
  BY <1>1, RefuseKeeps
  DEF InvalidTarget, InvalidOpcode, DownloadRequestRefused, CompleteRefused, Ready, Turn
<1>2. ASSUME NEW r, InfoRequest(r) PROVE AnswerKept' /\ AnsweredFails'
  <2>1. inbox # NoPacket /\ ~failing
    BY <1>2 DEF InfoRequest, Ready, Turn
  <2>2. CASE ~inbox.valid
    BY <1>2, <2>1, <2>2, RefuseKeeps DEF InfoRequest
  <2>3. CASE inbox.valid /\ r = "working" /\ slot = Free
    BY <1>2, <2>3, SlotKinds DEF InfoRequest, Return, AnswerKept, AnsweredFails
  <2>4. CASE inbox.valid /\ ~(r = "working" /\ slot = Free)
    <3>1. UNCHANGED <<response, slot, hurried>> /\ (inbox' = inbox \/ inbox' = NoPacket)
      BY <1>2, <2>4 DEF InfoRequest, Return
    <3> QED
      BY <2>1, <3>1, Unanswered
  <2> QED
    BY <2>2, <2>3, <2>4
<1>3. ASSUME NEW r, DownloadRequest(r) PROVE AnswerKept' /\ AnsweredFails'
  <2>1. inbox # NoPacket /\ ~failing
    BY <1>3 DEF DownloadRequest, Ready, Turn
  <2>2. CASE r = "pending"
    BY <1>3, <2>1, <2>2, Unanswered DEF DownloadRequest, NoReply, Return
  <2>3. CASE r # "pending"
    <3>1. PICK kind \in Kinds : Refuse(kind)
      BY <1>3, <2>3 DEF DownloadRequest, Kinds
    <3> QED
      BY <2>1, <3>1, RefuseKeeps
  <2> QED
    BY <2>2, <2>3
<1>4. CASE BlockRefused
  <2>1. inbox # NoPacket /\ ~failing
    BY <1>4 DEF BlockRefused, Ready, Turn
  <2>2. CASE OfDownload
    <3>1. Reply("error") /\ failing' = TRUE /\ hurried' = hurried
      BY <1>4, <2>2 DEF BlockRefused, OfDownload, Return
    <3> QED
      BY <2>1, <3>1, ReplyKeeps DEF AnsweredFails
  <2>3. CASE update_started /\ ~OfDownload
    <3>1. Refuse("error")
      BY <1>4, <2>3 DEF BlockRefused, Refuse
    <3> QED
      BY <2>1, <3>1, RefuseKeeps
  <2>4. CASE ~update_started
    BY <1>4, <2>1, <2>4, Unanswered DEF BlockRefused, NoReply, Return
  <2> QED
    BY <2>2, <2>3, <2>4
<1>5. ASSUME NEW r, BinaryBlock(r) PROVE AnswerKept' /\ AnsweredFails'
  <2>1. inbox # NoPacket /\ ~failing
    BY <1>5 DEF BinaryBlock, Ready, Turn
  <2>2. \/ Reply("abort") /\ Return("pending") /\ failing' = TRUE
        \/ Refuse("block_ack")
        \/ NoReply /\ Return(r)
    BY <1>5 DEF BinaryBlock
  <2>3. CASE Reply("abort") /\ Return("pending") /\ failing' = TRUE
    BY <2>1, <2>3, ReplyKeeps DEF Return, AnsweredFails
  <2>4. CASE Refuse("block_ack")
    BY <2>1, <2>4, RefuseKeeps
  <2>5. CASE NoReply /\ Return(r)
    BY <2>1, <2>5, Unanswered DEF NoReply, Return
  <2> QED
    BY <2>2, <2>3, <2>4, <2>5
<1>6. CASE DownloadAbort
  <2>1. ~failing /\ NoReply /\ hurried' = hurried /\ (inbox' = inbox \/ inbox' = NoPacket)
    BY <1>6 DEF DownloadAbort, Ready, Turn, Return
  <2> QED
    BY <2>1, Unanswered DEF NoReply
<1>7. ASSUME NEW r, DownloadComplete(r) PROVE AnswerKept' /\ AnsweredFails'
  <2>1. inbox # NoPacket /\ ~failing
    BY <1>7 DEF DownloadComplete, Ready, Turn
  <2>2. \/ \E kind \in Kinds : Refuse(kind)
        \/ NoReply /\ Return("pending")
    BY <1>7 DEF DownloadComplete, Results, Kinds
  <2>3. CASE NoReply /\ Return("pending")
    BY <2>1, <2>3, Unanswered DEF NoReply, Return
  <2> QED
    BY <2>1, <2>2, <2>3, RefuseKeeps
<1>8. ASSUME NEW r, TargetReset(r) PROVE AnswerKept' /\ AnsweredFails'
  BY <1>8, Unanswered DEF TargetReset, Ready, Turn, NoReply, Return
<1>9. ASSUME NEW r, Keepalive(r) PROVE AnswerKept' /\ AnsweredFails'
  <2>1. slot'.from # "response"
    BY <1>9, SlotKinds DEF Keepalive
  <2> QED
    BY <2>1 DEF AnswerKept, AnsweredFails
<1>10. CASE Resend
  BY <1>10, SlotKinds DEF Resend, Return, AnswerKept, AnsweredFails
<1>11. ASSUME NEW r, TellAbort(r) PROVE AnswerKept' /\ AnsweredFails'
  <2>1. CASE send_busy
    BY <1>11, <2>1, SlotKinds DEF TellAbort, Return, AnswerKept, AnsweredFails
  <2>2. CASE ~send_busy
    BY <1>11, <2>2, Unanswered DEF TellAbort, Return
  <2> QED
    BY <2>1, <2>2
<1>12. CASE Receive
  BY <1>12 DEF Receive, facility, AnswerInv, AnswerKept, AnsweredFails
<1>13. CASE OtherSends
  BY <1>13, SlotKinds DEF OtherSends, AnswerKept, AnsweredFails
<1>14. CASE SendComplete
  BY <1>14, SlotKinds DEF SendComplete, AnswerKept, AnsweredFails
<1>15. ASSUME NEW r, Open(r) PROVE AnswerKept' /\ AnsweredFails'
  BY <1>15, SlotKinds DEF Open, AnswerInv, AnswerKept, AnsweredFails
<1>16. CASE Fail
  BY <1>16, Unanswered DEF Fail, facility
<1>17. ASSUME NEW r, Close(r) PROVE AnswerKept' /\ AnsweredFails'
  BY <1>17, SlotKinds DEF Close, AnswerKept, AnsweredFails
<1>18. CASE UNCHANGED vars
  BY <1>18, Unanswered DEF vars, facility
<1> QED
  BY <1>1, <1>2, <1>3, <1>4, <1>5, <1>6, <1>7, <1>8, <1>9, <1>10, <1>11, <1>12, <1>13,
     <1>14, <1>15, <1>16, <1>17, <1>18 DEF Next, Asks, Refuses

\* The send packet points into the one buffer in which all answers are built: no answer
\* is replaced while it waits there or is being sent, unless Device Cloud sent another
\* packet before it had the answer.
THEOREM AnswersAreKept == Spec => []AnswerKept
<1>1. Init => AnswerInv
  BY TypeInit, SlotKinds DEF Init, AnswerInv, AnswerKept, AnsweredFails
<1>2. AnswerInv /\ [Next]_vars => AnswerInv'
  BY AnswerStep
<1>3. AnswerInv => AnswerKept
  BY DEF AnswerInv
<1> QED
  BY <1>1, <1>2, <1>3, PTL DEF Spec

-----------------------------------------------------------------------------
\* Device Cloud asks about no other target during a download, the abort callback is not
\* busy and the complete callback does not abort.
Disciplined == ~InfoAnytime /\ "abort" \notin BusyIn /\ "complete" \notin AbortIn

\* Only a download that began fails, and what arrived during a download does not turn
\* target to another image.
OneTarget ==
    /\ failing => update_started
    /\ update_started /\ inbox # NoPacket =>
          (inbox.opcode = "info_request" => inbox.target \in {target, TargetCount})

DownloadInv == TypeInv /\ DownloadAgreed /\ OneTarget

\* The download, the packet and the application stay as they are, and the connection is
\* not closed or opened.
LEMMA Untouched ==
    ASSUME DownloadInv, UNCHANGED <<update_started, target, app, fault>>,
           link # "closed", link' # "closed",
           inbox' = inbox \/ inbox' = NoPacket,
           failing' => failing \/ update_started
    PROVE  DownloadAgreed' /\ OneTarget'
  BY DEF DownloadInv, DownloadAgreed, OneTarget

\* The same, with what Return leaves.
LEMMA ReturnKeeps ==
    ASSUME DownloadInv, link = "open", NEW result, Return(result)
    PROVE  link' # "closed" /\ (inbox' = inbox \/ inbox' = NoPacket)
  BY DEF Return

LEMMA DownloadStep ==
    ASSUME Disciplined, DownloadInv, [Next]_vars
    PROVE  DownloadInv'
<1> SUFFICES DownloadAgreed' /\ OneTarget'
  BY TypeStep DEF DownloadInv
<1>1. CASE InvalidTarget \/ InvalidOpcode \/ DownloadRequestRefused \/ CompleteRefused
  BY <1>1, ReturnKeeps, Untouched
  DEF InvalidTarget, InvalidOpcode, DownloadRequestRefused, CompleteRefused, Ready, Turn,
      Refuse
<1>2. ASSUME NEW r, InfoRequest(r) PROVE DownloadAgreed' /\ OneTarget'
  <2>1. /\ link = "open" /\ inbox # NoPacket /\ inbox.opcode = "info_request"
        /\ inbox.target \in Targets
        /\ link' # "closed" /\ (inbox' = inbox \/ inbox' = NoPacket)
        /\ target' \in {target, inbox.target}
        /\ UNCHANGED <<update_started, failing, app, fault>>
    BY <1>2, ReturnKeeps DEF InfoRequest, Ready, Turn, Refuse
  <2>2. update_started => target' = target
    BY <2>1, ConstantsAssumption DEF DownloadInv, OneTarget, Targets
  <2> QED
    BY <2>1, <2>2 DEF DownloadInv, DownloadAgreed, OneTarget
<1>3. ASSUME NEW r, DownloadRequest(r) PROVE DownloadAgreed' /\ OneTarget'
  <2>1. /\ link = "open" /\ ~failing /\ ~update_started
        /\ inbox # NoPacket /\ inbox.opcode = "download_request"
        /\ fault' = "none" /\ failing' = FALSE
    BY <1>3 DEF DownloadRequest, Ready, Turn, Knows, DownloadInv, DownloadAgreed
  <2>2. link' # "closed" /\ (inbox' = inbox \/ inbox' = NoPacket)
    <3>1. \E result : Return(result)
      BY <1>3 DEF DownloadRequest, Refuse
    <3> QED
      BY <2>1, <3>1, ReturnKeeps
  <2>3. \/ update_started' = TRUE /\ target' = inbox.target /\ app' = inbox.target
        \/ UNCHANGED <<update_started, target, app>>
    BY <1>3 DEF DownloadRequest
  <2> QED
    BY <2>1, <2>2, <2>3 DEF DownloadInv, DownloadAgreed, OneTarget
<1>4. CASE BlockRefused
  <2>1. /\ link = "open" /\ UNCHANGED <<update_started, target, app, fault>>
        /\ failing' => failing \/ update_started
    BY <1>4 DEF BlockRefused, Ready, Turn, OfDownload
  <2>2. \E result : Return(result)
    BY <1>4 DEF BlockRefused
  <2> QED
    BY <2>1, <2>2, ReturnKeeps, Untouched
<1>5. ASSUME NEW r, BinaryBlock(r) PROVE DownloadAgreed' /\ OneTarget'
  <2>1. /\ link = "open" /\ update_started
        /\ UNCHANGED <<update_started, target, app, fault>>
    BY <1>5 DEF BinaryBlock, Ready, Turn, OfDownload, Knows, DownloadInv, DownloadAgreed
  <2>2. \E result : Return(result)
    BY <1>5 DEF BinaryBlock, Refuse
  <2> QED
    BY <2>1, <2>2, ReturnKeeps, Untouched
<1>6. CASE DownloadAbort
  <2>1. /\ link = "open" /\ UNCHANGED <<update_started, target, app, fault>>
        /\ failing' => update_started
    BY <1>6 DEF DownloadAbort, Ready, Turn, OfDownload
  <2>2. \E result : Return(result)
    BY <1>6 DEF DownloadAbort
  <2> QED
    BY <2>1, <2>2, ReturnKeeps, Untouched
<1>7. ASSUME NEW r, DownloadComplete(r) PROVE DownloadAgreed' /\ OneTarget'
  <2>1. /\ link = "open" /\ ~failing /\ update_started
        /\ inbox # NoPacket /\ inbox.opcode = "download_complete"
        /\ fault' = "none" /\ UNCHANGED <<target, failing>>
    BY <1>7 DEF DownloadComplete, Ready, Turn, OfDownload, Knows, DownloadInv, DownloadAgreed
  <2>2. link' # "closed" /\ (inbox' = inbox \/ inbox' = NoPacket)
    <3>1. \E result : Return(result)
      BY <1>7 DEF DownloadComplete, Refuse, Results
    <3> QED
      BY <2>1, <3>1, ReturnKeeps
  <2>3. r \in {"working", "pending"}
    BY <1>7 DEF DownloadComplete, Results, Disciplined
  <2>4. update_started' = (r # "working") /\ app' = IF r = "pending" THEN app ELSE NoTarget
    BY <1>7 DEF DownloadComplete
  <2> QED
    BY <2>1, <2>2, <2>3, <2>4 DEF DownloadInv, DownloadAgreed, OneTarget
<1>8. ASSUME NEW r, TargetReset(r) PROVE DownloadAgreed' /\ OneTarget'
  BY <1>8, ReturnKeeps, Untouched DEF TargetReset, Ready, Turn
<1>9. ASSUME NEW r, Keepalive(r) PROVE DownloadAgreed' /\ OneTarget'
  BY <1>9, ReturnKeeps, Untouched DEF Keepalive, facility
<1>10. CASE Resend
  BY <1>10, ReturnKeeps, Untouched DEF Resend, Turn
<1>11. ASSUME NEW r, TellAbort(r) PROVE DownloadAgreed' /\ OneTarget'
  <2>1. link = "open" /\ failing /\ update_started /\ r # "pending" /\ target' = target
    BY <1>11 DEF TellAbort, Turn, Results, Disciplined, DownloadInv, OneTarget
  <2>2. update_started' = FALSE /\ failing' = FALSE /\ app' = NoTarget /\ fault' = "none"
    BY <1>11, <2>1 DEF TellAbort, Knows, DownloadInv, DownloadAgreed
  <2> QED
    BY <2>1, <2>2 DEF DownloadAgreed, OneTarget
<1>12. CASE Receive
  <2>1. /\ link' = "open" /\ link = "open"
        /\ UNCHANGED <<update_started, target, failing, app, fault>>
        /\ inbox'.opcode = "info_request" /\ update_started
              => inbox'.target \in {target, TargetCount}
    BY <1>12 DEF Receive, facility, Disciplined
  <2> QED
    BY <2>1 DEF DownloadInv, DownloadAgreed, OneTarget
<1>13. CASE OtherSends
  BY <1>13, Untouched DEF OtherSends, facility
<1>14. CASE SendComplete
  BY <1>14, Untouched DEF SendComplete, facility
<1>15. ASSUME NEW r, Open(r) PROVE DownloadAgreed' /\ OneTarget'
  BY <1>15 DEF Open, DownloadInv, DownloadAgreed, OneTarget
<1>16. CASE Fail
  BY <1>16, Untouched DEF Fail, facility
<1>17. ASSUME NEW r, Close(r) PROVE DownloadAgreed' /\ OneTarget'
  <2>1. link = "closing" /\ link' = "closed" /\ UNCHANGED <<inbox, update_started, target, failing>>
    BY <1>17 DEF Close, facility
  <2>2. app' = NoTarget /\ fault' = "none"
    <3>1. CASE update_started
      BY <1>17, <2>1, <3>1 DEF Close, Results, Disciplined, Knows, DownloadInv, DownloadAgreed
    <3>2. CASE ~update_started
      BY <1>17, <2>1, <3>2 DEF Close, DownloadInv, DownloadAgreed
    <3> QED
      BY <3>1, <3>2
  <2> QED
    BY <2>1, <2>2 DEF DownloadInv, DownloadAgreed, OneTarget
<1>18. CASE UNCHANGED vars
  BY <1>18 DEF vars, facility, DownloadInv, DownloadAgreed, OneTarget
<1> QED
  BY <1>1, <1>2, <1>3, <1>4, <1>5, <1>6, <1>7, <1>8, <1>9, <1>10, <1>11, <1>12, <1>13,
     <1>14, <1>15, <1>16, <1>17, <1>18 DEF Next, Asks, Refuses

\* However the packets, the busy callbacks and the lost connections interleave, the
\* application sees the callbacks of a download in order and all of the same target, and
\* has ended every download of a connection that was closed: on the conditions that
\* Disciplined names, without which TLC finds the property violated.
THEOREM DownloadsAgree ==
    ASSUME Disciplined
    PROVE  Spec => []DownloadAgreed
<1>1. Init => DownloadInv
  BY TypeInit DEF Init, DownloadInv, DownloadAgreed, OneTarget
<1>2. DownloadInv /\ [Next]_vars => DownloadInv'
  BY DownloadStep
<1>3. DownloadInv => DownloadAgreed
  BY DEF DownloadInv
<1> QED
  BY <1>1, <1>2, <1>3, PTL DEF Spec

=============================================================================
