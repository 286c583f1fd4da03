-------------------------- MODULE MsgFacilityProofs --------------------------
(***************************************************************************)
(* What the messaging facility keeps in order, whatever the number of      *)
(* sessions, requests, ids and packets, and whatever the callbacks answer: *)
(* the send buffer, the list of sessions with its counts and limits, the   *)
(* ids, and the errors.                                                    *)
(*                                                                         *)
(* The send buffer first.  BufferAccounted is not inductive: a session     *)
(* that is freed leaves its slot behind (Dangling changes one field), so   *)
(* the proof has to know that the slot has the fields the facility gave it.*)
(*                                                                         *)
(* TypeOK and SessionsAccounted are not inductive either.  A count stays a *)
(* number only because it is the number of sessions; a session is unlinked *)
(* from the right place only because it is in the list once; and a session *)
(* that is freed is gone for good only because the turn (session.current)  *)
(* and the slot do not name it any more.  TypeInv says all of that at once.*)
(* A step is proved to treat the sessions in one of three ways, Revised,   *)
(* Added or Removed, and each of the three to keep the invariant.          *)
(*                                                                         *)
(* What the senders of requests are told follows from where each request   *)
(* and each packet of its conversation is (RequestInv, TalkInv); that no   *)
(* packet is dropped follows from a count of those under way (FlowInv).    *)
(***************************************************************************)
EXTENDS MsgFacility, ListLemmas, TLAPS, FiniteSetTheorems, SequenceTheorems

\* The slot was filled by the facility: it has exactly its three fields.
SlotFilled ==
    slot = [kind |-> slot.kind, session |-> slot.session,
            packet |-> slot.packet]

BufferInv ==
    /\ SlotFilled
    /\ bufInUse \in BOOLEAN
    /\ BufferAccounted

\* The ways in which a step may treat the send buffer.
Kept     == UNCHANGED sendVars
Filled   == /\ \E h, p : slot' = DataSlot(h, p) \/ slot' = ControlSlot(p)
            /\ bufInUse' = TRUE
Released == slot' = NoSlot /\ bufInUse' = FALSE
Orphaned == (\E h : slot' = Dangling(h)) /\ UNCHANGED bufInUse

\* Each of them keeps the buffer accounted for.
LEMMA BufferTreated ==
    ASSUME BufferInv, Kept \/ Filled \/ Released \/ Orphaned
    PROVE  BufferInv'
<1>1. CASE Kept
  BY <1>1 DEF Kept, sendVars, BufferInv, SlotFilled, BufferAccounted
<1>2. CASE Filled
  BY <1>2 DEF Filled, DataSlot, ControlSlot, BufferInv, SlotFilled,
              BufferAccounted
<1>3. CASE Released
  BY <1>3 DEF Released, NoSlot, BufferInv, SlotFilled, BufferAccounted
<1>4. CASE Orphaned
  <2>1. PICK h : slot' = Dangling(h)
    BY <1>4 DEF Orphaned
  <2>2. \/ slot' = slot
        \/ slot' = [slot EXCEPT !.session = NoHandle]
    BY <2>1 DEF Dangling
  <2>3. slot' = [kind |-> slot.kind, session |-> slot'.session,
                 packet |-> slot.packet]
    BY <2>2 DEF BufferInv, SlotFilled
  <2>4. bufInUse' = bufInUse
    BY <1>4 DEF Orphaned
  <2> QED
    BY <2>3, <2>4 DEF BufferInv, SlotFilled, BufferAccounted
<1> QED
  BY <1>1, <1>2, <1>3, <1>4

\* The send step: the buffer is filled by a keepalive, released when its
\* packet is out, or left alone.
LEMMA SendStepTreats ==
    ASSUME SendStep
    PROVE  Kept \/ Filled \/ Released
<1>1. CASE SendKeepAlive
  BY <1>1 DEF SendKeepAlive, Filled
<1>2. CASE SendNothing
  BY <1>2 DEF SendNothing, Kept
<1>3. CASE SendControlComplete
  BY <1>3 DEF SendControlComplete, Released
<1>4. CASE SendDataComplete
  BY <1>4 DEF SendDataComplete, Released
<1>5. CASE SendDataDangling
  BY <1>5 DEF SendDataDangling, Kept
<1> QED
  BY <1>1, <1>2, <1>3, <1>4, <1>5 DEF SendStep

\* A packet of Device Cloud: an error for nobody fills the buffer, an error for
\* a session may leave the slot without its session.
LEMMA ProcessTreats ==
    ASSUME NEW p, Process(p)
    PROVE  Kept \/ Filled \/ Orphaned
<1>1. ErrorForNobody(p) => Filled
  BY DEF ErrorForNobody, Filled
<1>2. CASE StartDeviceRequest(p)
  BY <1>2 DEF StartDeviceRequest, Kept
<1>3. CASE RefuseDeviceRequest(p)
  BY <1>1, <1>3 DEF RefuseDeviceRequest, Kept
<1>4. CASE StartUnknown(p)
  BY <1>1, <1>4 DEF StartUnknown, Kept
<1>5. CASE DataUnknown(p)
  BY <1>1, <1>5 DEF DataUnknown, Kept
<1>6. CASE PassToSession(p)
  BY <1>6 DEF PassToSession, Kept
<1>7. CASE ProcessAck(p)
  BY <1>7 DEF ProcessAck, Kept
<1>8. CASE ProcessError(p)
  BY <1>8 DEF ProcessError, Kept, Orphaned
<1>9. CASE ErrorUnknown(p)
  BY <1>9 DEF ErrorUnknown, Kept
<1> QED
  BY <1>2, <1>3, <1>4, <1>5, <1>6, <1>7, <1>8, <1>9 DEF Process

LEMMA ReceiveStepTreats ==
    ASSUME ReceiveStep
    PROVE  Kept \/ Filled \/ Orphaned
<1>1. CASE ReceiveNothing
  BY <1>1 DEF ReceiveNothing, Kept
<1>2. CASE ReceivePacket
  BY <1>2, ProcessTreats DEF ReceivePacket
<1>3. CASE ProcessHeld
  BY <1>3, ProcessTreats DEF ProcessHeld
<1> QED
  BY <1>1, <1>2, <1>3 DEF ReceiveStep

\* The polled session fills the buffer with its data, its acknowledgement or
\* its error, leaves it alone, or is freed.
LEMMA PollStepTreats ==
    ASSUME PollStep
    PROVE  Kept \/ Filled \/ Orphaned
<1>1. CASE PollNobody \/ PollSwitch \/ PollBusy \/ PollAfterStatus
  BY <1>1 DEF PollNobody, PollSwitch, PollBusy, PollAfterStatus, Kept
<1>2. CASE PollNoBuffer \/ PollCancel
  BY <1>2 DEF PollNoBuffer, PollCancel, Kept
<1>3. CASE PollSendData
  BY <1>3 DEF PollSendData, Filled
<1>4. CASE PollSendAck
  BY <1>4 DEF PollSendAck, Filled
<1>5. CASE PollSendError
  BY <1>5 DEF PollSendError, Filled
<1>6. CASE PollDelete
  BY <1>6 DEF PollDelete, Orphaned
<1> QED
  BY <1>1, <1>2, <1>3, <1>4, <1>5, <1>6 DEF PollStep

\* What closes a connection releases the buffer; the cleanup of a session may
\* leave a slot without its session.
LEMMA ClosingTreats ==
    ASSUME Closing
    PROVE  Kept \/ Released \/ Orphaned
<1>1. CASE CloseNetwork
  BY <1>1 DEF CloseNetwork, AbortSend, Released
<1>2. CASE CleanupSession
  BY <1>2 DEF CleanupSession, Orphaned
<1>3. CASE CleanupRequest
  BY <1>3 DEF CleanupRequest, Kept
<1> QED
  BY <1>1, <1>2, <1>3 DEF Closing

\* Device Cloud does not reach the buffer.
LEMMA CloudTreats ==
    ASSUME Cloud
    PROVE  Kept
<1>1. ASSUME NEW p, CloudSends(p)
      PROVE  Kept
  BY <1>1 DEF CloudSends, Kept
<1> QED
  BY <1>1 DEF Cloud, CloudAck, CloudReply, CloudStart, CloudData, CloudError

LEMMA BufferInit == Init => BufferInv
<1> SUFFICES ASSUME slot = NoSlot, bufInUse = FALSE
             PROVE  BufferInv
  BY DEF Init
<1>1. /\ slot.kind = "empty"
      /\ slot.session = NoHandle
      /\ slot.packet = NoPacket
  BY DEF NoSlot
<1> QED
  BY <1>1 DEF NoSlot, BufferInv, SlotFilled, BufferAccounted

LEMMA BufferStep == BufferInv /\ [Next]_vars => BufferInv'
<1> SUFFICES ASSUME BufferInv, [Next]_vars
             PROVE  Kept \/ Filled \/ Released \/ Orphaned
  BY BufferTreated
<1>1. CASE SendStep
  BY <1>1, SendStepTreats
<1>2. CASE ReceiveStep
  BY <1>2, ReceiveStepTreats
<1>3. CASE StartStep
  BY <1>3 DEF StartStep, Kept
<1>4. CASE PollStep
  BY <1>4, PollStepTreats
<1>5. CASE Disconnect \/ Reopen \/ Terminate
  BY <1>5 DEF Disconnect, Reopen, Terminate, Kept
<1>6. CASE Closing
  BY <1>6, ClosingTreats
<1>7. CASE Cloud
  BY <1>7, CloudTreats
<1>8. ASSUME NEW req \in Requests, Initiate(req)
      PROVE  Kept
  BY <1>8 DEF Initiate, Kept
<1>9. CASE UNCHANGED vars
  BY <1>9 DEF vars, sendVars, Kept
<1> QED
  BY <1>1, <1>2, <1>3, <1>4, <1>5, <1>6, <1>7, <1>8, <1>9 DEF Next, Step

\* The send buffer is taken exactly while a packet is in the slot, whichever
\* session, error, keepalive or closed connection took it or gave it back: the
\* connector never finds the buffer taken with nothing to send (a stall of
\* every session), and never fills a buffer that is being sent.
THEOREM SendBufferAccounted == Spec => []BufferAccounted
<1>1. BufferInv => BufferAccounted
  BY DEF BufferInv
<1> QED
  BY BufferInit, BufferStep, <1>1, PTL DEF Spec

-----------------------------------------------------------------------------
\* A session as the facility keeps it: its error names its owner, and a put
\* request has a context.
Proper ==
    {s \in Session :
        /\ s.st = "send_error"
              => (s.owner = "client" <=> s.errRequest = s.errSender)
        /\ s.owner = "client" => s.rt \in {"send_data", "status"}}

SameKey(s1, s) == s1.owner = s.owner /\ s1.id = s.id /\ s1.req = s.req
Becomes(s1, s) == s1 \in Proper /\ SameKey(s1, s)

\* Free memory is not mistaken for a session.
LEMMA FreeIsNoSession == Free \notin Proper
BY DEF Free, Proper, Session, States

\* The data block of the other direction leaves the session its identity.
LEMMA FreshBlockKeeps ==
    ASSUME NEW s \in Proper, NEW request \in BOOLEAN, NEW st \in {"get_data", "receive"}
    PROVE  Becomes(FreshBlock(s, request, st), s)
<1> DEFINE f == FreshBlock(s, request, st)
<1>1. s \in Session
  BY DEF Proper
<1>2. f \in Session /\ f.st # "send_error" /\ f.rt = s.rt /\ SameKey(f, s)
  BY <1>1 DEF FreshBlock, Session, States, SameKey
<1> HIDE DEF f
<1>3. f \in Proper
  BY <1>2 DEF Proper, SameKey
<1> QED
  BY <1>2, <1>3 DEF Becomes, f

\* The session whose message fills the buffer keeps its identity and waits until
\* the buffer is sent (msg_prepare_send_data, msg_send_data).
Filling(s, last, n, full) ==
    [s EXCEPT !.st = "wait_send_complete", !.start = FALSE,
              !.last = last, !.total = n, !.ackPending = full]

LEMMA FillingKeeps ==
    ASSUME NEW s \in Proper, NEW last \in BOOLEAN, NEW n \in Nat, NEW full \in BOOLEAN
    PROVE  Becomes(Filling(s, last, n, full), s)
<1> DEFINE f == Filling(s, last, n, full)
<1>1. s \in Session /\ (s.owner = "client" => s.rt \in {"send_data", "status"})
  BY DEF Proper
<1>2. f \in Session
  BY <1>1 DEF Filling, Session, States
<1>3. f.st = "wait_send_complete" /\ f.rt = s.rt /\ SameKey(f, s)
  BY <1>1 DEF Filling, Session, SameKey
<1> HIDE DEF f
<1>4. f \in Proper
  BY <1>1, <1>2, <1>3 DEF Proper, SameKey
<1> QED
  BY <1>3, <1>4 DEF Becomes, f

\* msg_set_error names the owner of the session in the error it prepares.
LEMMA SetErrorKeeps ==
    ASSUME NEW s \in Proper
    PROVE  Becomes(SetError(s), s)
<1> DEFINE e == SetError(s)
<1>1. s \in Session /\ s.owner \in Owners /\ s.request \in BOOLEAN
      /\ s.start \in BOOLEAN
  BY DEF Proper, Session
<1>2. e \in Session /\ e.rt = s.rt /\ SameKey(e, s)
  BY ZenonT(60), <1>1 DEF SetError, Session, States, Receiving, SameKey
<1>3. e.st = "send_error" => (e.owner = "client" <=> e.errRequest = e.errSender)
  <2>1. CASE s.owner = "client"
    BY <1>1, <2>1 DEF SetError, Receiving, Session
  <2>2. CASE s.owner = "cloud"
    BY <1>1, <2>2 DEF SetError, Receiving, Session
  <2> QED
    BY <1>1, <2>1, <2>2 DEF Owners
<1> HIDE DEF e
<1>4. e \in Proper
  BY <1>2, <1>3 DEF Proper, SameKey
<1> QED
  BY <1>2, <1>4 DEF Becomes, e

\* A session starts well-formed; a put request starts with its context.
LEMMA NewSessionTyped ==
    ASSUME NEW owner \in Owners, NEW id \in Nat, NEW req \in Talks,
           NEW st \in {"get_data", "receive"}, NEW rt \in RequestTypes,
           owner = "client" => rt = "send_data"
    PROVE  NewSession(owner, id, req, st, rt) \in Proper
<1> DEFINE n == NewSession(owner, id, req, st, rt)
<1>1. n \in Session /\ n.st # "send_error" /\ n.owner = owner /\ n.rt = rt
  BY DEF NewSession, Session, States
<1> HIDE DEF n
<1>2. n \in Proper
  BY <1>1 DEF Proper
<1> QED
  BY <1>2 DEF n

\* What error_value says of the end of a message.
Reasons == {"none", "cancel", "error"}

\* Telling the owner an error leaves the session its identity.
LEMMA InformedKeeps ==
    ASSUME NEW s \in Proper, NEW reason \in Reasons, NEW answer
    PROVE  Becomes(Informed(s, reason, answer), s)
<1> DEFINE s1 == [s EXCEPT !.rt = "status", !.reason = reason]
<1>1. Becomes(s1, s)
  BY DEF Reasons, Proper, Session, RequestTypes, Becomes, SameKey
<1>2. Becomes(SetError(s1), s1)
  BY <1>1, SetErrorKeeps DEF Becomes
<1> QED
  BY <1>1, <1>2 DEF Informed, Becomes, SameKey

\* Taking a packet of data leaves the session its identity.
LEMMA TakenKeeps ==
    ASSUME NEW s \in Proper, NEW last \in BOOLEAN
    PROVE  Becomes(Taken(s, last), s)
<1> DEFINE s1 == [s EXCEPT !.start = FALSE, !.last = last]
<1>1. Becomes(s1, s)
  BY DEF Proper, Session, Becomes, SameKey
<1>2. Becomes(FreshBlock(s1, FALSE, "get_data"), s1)
  BY <1>1, FreshBlockKeeps DEF Becomes, States
<1>3. Becomes([s1 EXCEPT !.st = "delete"], s1)
  BY ZenonT(60), <1>1 DEF Proper, Session, States, Becomes, SameKey
<1>4. ASSUME NEW n \in Nat, NEW st \in {"send_ack", "receive"}
      PROVE  Becomes([s1 EXCEPT !.total = n, !.st = st], s1)
  <2> HIDE DEF s1
  <2> QED
    BY <1>1 DEF Proper, Session, States, Becomes, SameKey
<1>5. s.total + 1 \in Nat
  BY DEF Proper, Session
<1> QED
  BY <1>1, <1>2, <1>3, <1>4, <1>5 DEF Taken, Becomes, SameKey

\* What a callback that takes data answers, and the status of a packet.
Taking == {"continue", "busy", "error"}
Statuses == {"working", "pending", "active", "unavailable"}

\* The callbacks of a device request: types of what they leave behind.
LEMMA DeviceRequestTyped ==
    ASSUME NEW rt \in RequestTypes, NEW last \in BOOLEAN, NEW answer \in Taking
    PROVE  /\ DeviceRequest(rt, last, answer).rt \in RequestTypes
           /\ DeviceRequest(rt, last, answer).status \in Statuses
BY DEF DeviceRequest, RequestTypes, Taking, Statuses

\* Whatever the service layer answers to a packet, the session stays
\* well-formed and the packet gets a status.
LEMMA PassKeeps ==
    ASSUME NEW s \in Proper, NEW p, p.last \in BOOLEAN,
           NEW answer \in PassAnswers(s), ConstantsAssumption
    PROVE  /\ Becomes(Pass(s, p, answer).s, s)
           /\ Pass(s, p, answer).status \in Statuses
<1>1. CASE s.st # "receive"
  BY <1>1 DEF Pass, Becomes, SameKey, Statuses
<1>2. CASE s.st = "receive" /\ s.owner = "cloud"
  <2> DEFINE rt == IF s.rt = "none" THEN "target" ELSE s.rt
             d  == DeviceRequest(rt, p.last, answer)
             s1 == [s EXCEPT !.rt = d.rt, !.last = p.last]
  <2>1. CASE s.rt = "none" /\ answer = "no_memory"
    <3>1. Becomes([s EXCEPT !.last = p.last], s)
      BY DEF Proper, Session, Becomes, SameKey
    <3> QED
      BY <1>2, <2>1, <3>1 DEF Pass, PassDeviceRequest, Statuses
  <2>2. CASE ~(s.rt = "none" /\ answer = "no_memory")
    <3>1. answer \in Taking
      BY <2>2 DEF PassAnswers, ConstantsAssumption, Taking
    <3>2. rt \in RequestTypes
      BY DEF Proper, Session, RequestTypes
    <3>3. d.rt \in RequestTypes /\ d.status \in Statuses
      BY <3>1, <3>2, DeviceRequestTyped
    <3>4. Becomes(s1, s)
      BY ZenonT(60), <1>2, <3>3 DEF Proper, Session, Becomes, SameKey
    <3>5. Becomes(Taken(s1, p.last), s1)
      BY <3>4, TakenKeeps DEF Becomes
    <3>6. Pass(s, p, answer) = [s |-> IF d.status = "working" THEN Taken(s1, p.last) ELSE s1,
              status |-> d.status]
      BY <1>2, <2>2 DEF Pass, PassDeviceRequest
    <3> HIDE DEF s1, d
    <3> QED
      BY <3>3, <3>4, <3>5, <3>6 DEF Becomes, SameKey
  <2> QED
    BY <2>1, <2>2
<1>3. CASE s.st = "receive" /\ s.owner # "cloud"
  <2> DEFINE s1 == [s EXCEPT !.last = p.last]
             s2 == [s1 EXCEPT !.reason = "cancel"]
  <2>1. answer \in Taking
    BY <1>3 DEF PassAnswers, ConstantsAssumption, Taking
  <2>2. Becomes(s1, s) /\ Becomes(s2, s)
    BY DEF Proper, Session, Becomes, SameKey
  <2>3. Becomes(Taken(s1, p.last), s1)
    BY <2>2, TakenKeeps DEF Becomes
  <2>4. Becomes(SetError(s2), s2)
    BY <2>2, SetErrorKeeps DEF Becomes
  <2>5. Pass(s, p, answer) = PassResponse(s, p, answer)
    BY <1>3 DEF Pass
  <2> HIDE DEF s1
  <2>6. PassResponse(s, p, answer) = 
         CASE answer = "continue" ->
                [s |-> Taken(s1, p.last), status |-> "working"]
          [] answer = "busy" -> [s |-> s1, status |-> "pending"]
          [] answer = "error" ->
                [s |-> SetError(s2),
                 status |-> "unavailable"]
    BY DEF PassResponse, s1
  <2> HIDE DEF s2
  <2> QED
    BY <2>1, <2>2, <2>3, <2>4, <2>5, <2>6 DEF Becomes, SameKey, Statuses, Taking
<1> QED
  BY <1>1, <1>2, <1>3

-----------------------------------------------------------------------------
\* There are finitely many sessions.
LEMMA FiniteHandles ==
    ConstantsAssumption => IsFiniteSet(Handles)
BY FS_Interval DEF ConstantsAssumption, Handles

-----------------------------------------------------------------------------
\* The sessions of one owner.
Of(owner) == {h \in Live : session[h].owner = owner}

\* The list, the turn and the counts describe the sessions in memory.
ListInv ==
    /\ session \in [Handles -> Proper \cup {Free}]
    /\ list \in Seq(Handles)
    /\ Once(list)
    /\ Elements(list) = Live
    /\ current \in Live \cup {NoHandle}

\* The transaction counts, and their limits.
CountInv ==
    /\ active \in [Owners -> Nat]
    /\ \A owner \in Owners :
          /\ active[owner] = Cardinality(Of(owner))
          /\ MaxTransactions[owner] # 0 => active[owner] <= MaxTransactions[owner]
\* Nobody else has the id of a session, and a device request has its own.
KeyInv ==
    /\ IdsUnique
    /\ \A h \in Live :
          LET s == session[h]
          IN  /\ <<s.owner, s.id>> \in Keys
              /\ IF s.owner = "cloud" THEN s.req = s.id ELSE s.req \in Requests

StateInv == ListInv /\ CountInv /\ KeyInv

\* The ways in which a step may treat the sessions.
Revised ==
    /\ session' \in [Handles -> Proper \cup {Free}]
    /\ \A h \in Handles : IF h \in Live THEN Becomes(session'[h], session[h])
                          ELSE session'[h] = Free
    /\ UNCHANGED <<list, active>>
    /\ current' \in Live \cup {NoHandle}

\* A session is added within the limits (msg_create_session).
Added(h, s) ==
    /\ h \in Handles \ Live
    /\ s \in Proper
    /\ MayCreate(s.owner)
    /\ Find(s.owner, s.id) = {}
    /\ <<s.owner, s.id>> \in Keys
    /\ IF s.owner = "cloud" THEN s.req = s.id ELSE s.req \in Requests
    /\ AddSession(h, s)

\* A session is unlinked, counted and freed (msg_delete_session).
Removed(h) ==
    /\ h \in Live
    /\ session' = [session EXCEPT ![h] = Free]
    /\ list' = Without(h)
    /\ active' = [active EXCEPT ![session[h].owner] = @ - 1]
    /\ \E cursor \in Live \cup {NoHandle} : current' = CursorAfter(h, cursor)

Treated == Revised \/ (\E h, s : Added(h, s)) \/ (\E h : Removed(h))

\* What the list invariant says of one session.
LEMMA LiveTyped ==
    ASSUME ListInv, NEW h \in Live
    PROVE  h \in Handles /\ session[h] \in Proper /\ session[h].owner \in Owners
BY DEF ListInv, Live, Proper, Session, Free

\* Revising keeps the sessions in memory and their identity.
LEMMA RevisedLive ==
    ASSUME Revised
    PROVE  /\ Live' = Live
           /\ \A h \in Live : Becomes(session'[h], session[h])
BY FreeIsNoSession DEF Revised, Live, Becomes

\* Revising sessions keeps list, counts and ids in agreement.
LEMMA RevisedKeeps ==
    ASSUME StateInv, Revised
    PROVE  StateInv'
<1>1. /\ Live' = Live
      /\ \A h \in Live : SameKey(session'[h], session[h])
  BY RevisedLive DEF Becomes
<1>2. \A owner \in Owners : Of(owner)' = Of(owner)
  BY <1>1 DEF Of, SameKey
<1>3. ListInv'
  BY <1>1 DEF StateInv, ListInv, Revised, Once, Elements
<1>4. CountInv'
  BY <1>2 DEF StateInv, CountInv, Revised
<1>5. KeyInv'
  BY <1>1 DEF StateInv, KeyInv, SameKey, IdsUnique
<1> QED
  BY <1>3, <1>4, <1>5 DEF StateInv

\* Adding a session keeps list, counts, limits and ids in agreement.
LEMMA AddedKeeps ==
    ASSUME ConstantsAssumption, StateInv, NEW h, NEW s, Added(h, s)
    PROVE  StateInv'
<1>1. /\ h \in Handles /\ h \notin Live /\ s \in Proper /\ s # Free
      /\ s.owner \in Owners
  BY FreeIsNoSession DEF Added, Proper, Session
<1>2. /\ session \in [Handles -> Proper \cup {Free}]
      /\ session' = [session EXCEPT ![h] = s]
      /\ list' = <<h>> \o list
      /\ active' = [active EXCEPT ![s.owner] = @ + 1]
      /\ current' = current
  BY DEF StateInv, ListInv, Added, AddSession
<1>3. /\ Live' = Live \cup {h}
      /\ session'[h] = s
      /\ \A g \in Live : session'[g] = session[g]
  BY <1>1, <1>2 DEF Live
<1>4. ListInv'
  <2>1. /\ list \in Seq(Handles) /\ Once(list) /\ Elements(list) = Live
        /\ current \in Live \cup {NoHandle}
    BY DEF StateInv, ListInv
  <2>2. list' \in Seq(Handles) /\ Once(list') /\ Elements(list') = Live \cup {h}
    BY <1>1, <1>2, <2>1, AddedOnce
  <2>3. session' \in [Handles -> Proper \cup {Free}]
    BY <1>1, <1>2
  <2> QED
    BY <1>2, <1>3, <2>1, <2>2, <2>3 DEF ListInv, Once, Elements
<1>5. CountInv'
  <2>1. ASSUME NEW owner \in Owners
        PROVE  /\ active'[owner] = Cardinality(Of(owner)')
               /\ MaxTransactions[owner] # 0 => active'[owner] <= MaxTransactions[owner]
    <3>1. active \in [Owners -> Nat] /\ active[owner] = Cardinality(Of(owner))
      BY DEF StateInv, CountInv
    <3>2. MaxTransactions[owner] \in Nat
      BY DEF ConstantsAssumption
    <3>3. IsFiniteSet(Of(owner))
      BY FiniteHandles, FS_Subset DEF Of, Live
    <3>4. CASE owner = s.owner
      <4>1. Of(owner)' = Of(owner) \cup {h}
        BY <1>3, <3>4 DEF Of
      <4>2. h \notin Of(owner)
        BY <1>1 DEF Of
      <4>3. active'[owner] = active[owner] + 1
        BY <1>2, <3>1, <3>4
      <4>4. MaxTransactions[owner] # 0 => active[owner] < MaxTransactions[owner]
        BY <3>4 DEF Added, MayCreate
      <4>5. Cardinality(Of(owner) \cup {h}) = Cardinality(Of(owner)) + 1
        BY <3>3, <4>2, FS_AddElement
      <4> QED
        BY <3>1, <3>2, <4>1, <4>3, <4>4, <4>5
    <3>5. CASE owner # s.owner
      <4>1. Of(owner)' = Of(owner)
        BY <1>3, <3>5 DEF Of
      <4>2. active'[owner] = active[owner]
        BY <1>2, <3>1, <3>5
      <4> QED
        BY <3>1, <4>1, <4>2 DEF StateInv, CountInv
    <3> QED
      BY <3>4, <3>5
  <2>2. active' \in [Owners -> Nat]
    BY <1>1, <1>2 DEF StateInv, CountInv
  <2> QED
    BY <2>1, <2>2 DEF CountInv
<1>6. KeyInv'
  <2>1. \A g \in Live : session[g].owner = s.owner => session[g].id # s.id
    BY DEF Added, Find
  <2>2. IdsUnique'
    BY <1>3, <2>1 DEF StateInv, KeyInv, IdsUnique
  <2> QED
    BY <1>3, <2>2 DEF StateInv, KeyInv, Added
<1> QED
  BY <1>4, <1>5, <1>6 DEF StateInv

\* Every session in memory has its place in the list.
LEMMA PositionOf ==
    ASSUME ListInv, NEW h \in Live
    PROVE  Position(h) \in 1 .. Len(list) /\ list[Position(h)] = h
BY DEF ListInv, Elements, Position

\* The tail is in the list, unless it is empty.
LEMMA TailOfList ==
    ASSUME NEW seq \in Seq(Handles)
    PROVE  TailOf(seq) \in Elements(seq) \cup {NoHandle}
<1>1. CASE seq = << >>
  BY <1>1 DEF TailOf
<1>2. CASE seq # << >>
  <2>1. Len(seq) \in 1 .. Len(seq)
    BY <1>2, EmptySeq
  <2> QED
    BY <1>2, <2>1 DEF TailOf, Elements
<1> QED
  BY <1>1, <1>2

\* The turn goes to a session that is in the list.
LEMMA BeforeInList ==
    ASSUME ListInv, NEW h \in Live,
           NEW seq \in Seq(Handles), Elements(seq) \subseteq Live
    PROVE  /\ Before(h, seq) \in Live \cup {NoHandle}
           /\ h \notin Elements(seq) => Before(h, seq) # h
<1>1. /\ list \in Seq(Handles) /\ Once(list) /\ Elements(list) = Live
      /\ Len(list) \in Nat
      /\ Position(h) \in 1 .. Len(list) /\ list[Position(h)] = h
  BY PositionOf, LenProperties DEF ListInv
<1>2. TailOf(seq) \in Elements(seq) \cup {NoHandle}
  BY TailOfList
<1>3. h # NoHandle
  BY DEF Live, Handles, NoHandle
<1>4. CASE Position(h) > 1
  <2>1. /\ Position(h) - 1 \in 1 .. Len(list)
        /\ Position(h) - 1 # Position(h)
    BY <1>1, <1>4
  <2>2. list[Position(h) - 1] \in Live /\ list[Position(h) - 1] # h
    BY <1>1, <2>1 DEF Elements, Once
  <2> QED
    BY <1>4, <2>2 DEF Before
<1>5. CASE ~(Position(h) > 1)
  BY <1>2, <1>3, <1>5 DEF Before
<1> QED
  BY <1>4, <1>5

\* Without(h) is the list without h.
LEMMA RemovedList ==
    ASSUME ListInv, NEW h \in Live
    PROVE  /\ Without(h) \in Seq(Handles)
           /\ Once(Without(h))
           /\ Elements(Without(h)) = Live \ {h}
<1>1. Position(h) \in 1 .. Len(list) /\ list[Position(h)] = h
  BY PositionOf
<1> QED
  BY <1>1, RemoveAtIs, RemovedOnce DEF ListInv, Without

\* Removing a session keeps list, counts and ids in agreement: the turn
\* leaves the session before it is freed.
LEMMA RemovedKeeps ==
    ASSUME ConstantsAssumption, StateInv, NEW h, Removed(h)
    PROVE  StateInv' /\ Live' = Live \ {h}
<1>1. ListInv /\ CountInv /\ KeyInv /\ h \in Live /\ h \in Handles
  BY DEF StateInv, Removed, Live
<1>2. /\ session \in [Handles -> Proper \cup {Free}]
      /\ session' = [session EXCEPT ![h] = Free]
      /\ list' = Without(h)
      /\ active' = [active EXCEPT ![session[h].owner] = @ - 1]
  BY <1>1 DEF ListInv, Removed
<1>3. /\ Live' = Live \ {h}
      /\ \A g \in Live' : session'[g] = session[g]
  BY <1>1, <1>2 DEF Live
<1>4. ListInv'
  <2>1. /\ Without(h) \in Seq(Handles)
        /\ Once(Without(h))
        /\ Elements(Without(h)) = Live \ {h}
    BY <1>1, RemovedList
  <2>2. PICK cursor \in Live \cup {NoHandle} : current' = CursorAfter(h, cursor)
    BY DEF Removed
  <2>3. current' \in (Live \ {h}) \cup {NoHandle}
    <3>1. CASE cursor = h
      BY <1>1, <2>1, <2>2, <3>1, BeforeInList DEF CursorAfter
    <3>2. CASE cursor # h
      BY <2>2, <3>2 DEF CursorAfter
    <3> QED
      BY <3>1, <3>2
  <2>4. session' \in [Handles -> Proper \cup {Free}]
    BY <1>2
  <2> QED
    BY SMTT(30), <1>2, <1>3, <2>1, <2>3, <2>4 DEF ListInv, Once, Elements
<1>5. CountInv'
  <2>1. ASSUME NEW owner \in Owners
        PROVE  /\ active'[owner] \in Nat
               /\ active'[owner] = Cardinality(Of(owner)')
               /\ MaxTransactions[owner] # 0 => active'[owner] <= MaxTransactions[owner]
    <3>1. /\ active \in [Owners -> Nat] /\ active[owner] = Cardinality(Of(owner))
          /\ MaxTransactions[owner] # 0 => active[owner] <= MaxTransactions[owner]
      BY <1>1 DEF CountInv
    <3>2. MaxTransactions[owner] \in Nat
      BY DEF ConstantsAssumption
    <3>3. IsFiniteSet(Of(owner))
      BY FiniteHandles, FS_Subset DEF Of, Live
    <3>4. CASE owner = session[h].owner
      <4>1. Of(owner)' = Of(owner) \ {h}
        BY <1>3, <3>4 DEF Of
      <4>2. h \in Of(owner)
        BY <1>1, <3>4 DEF Of
      <4>3. active'[owner] = active[owner] - 1
        BY <1>2, <3>1, <3>4
      <4>4. /\ IsFiniteSet(Of(owner) \ {h})
            /\ Cardinality(Of(owner) \ {h}) = Cardinality(Of(owner)) - 1
        BY <3>3, <4>2, FS_RemoveElement
      <4>5. Cardinality(Of(owner) \ {h}) \in Nat
        BY <4>4, FS_CardinalityType
      <4> QED
        BY <3>1, <3>2, <4>1, <4>3, <4>4, <4>5
    <3>5. CASE owner # session[h].owner
      <4>1. Of(owner)' = Of(owner)
        BY <1>3, <3>5 DEF Of
      <4>2. active'[owner] = active[owner]
        BY <1>2, <3>1, <3>5
      <4> QED
        BY <3>1, <4>1, <4>2
    <3> QED
      BY <3>4, <3>5
  <2>2. active' = [owner \in Owners |-> active'[owner]]
    BY <1>1, <1>2 DEF CountInv
  <2> QED
    BY <2>1, <2>2 DEF CountInv
<1>6. KeyInv'
  BY <1>1, <1>3 DEF KeyInv, IdsUnique
<1> QED
  BY <1>3, <1>4, <1>5, <1>6 DEF StateInv

-----------------------------------------------------------------------------
\* The types of the other variables.
ToldType == [Talks -> {"unsent", "waiting", "busy", "complete", "cancel", "error", "twice"}]
SlotPackets == Packets \cup {KeepAlive, NoPacket}
SlotType == [kind: {"empty", "data", "control"}, session: Handles \cup {NoHandle},
             packet: SlotPackets]
ConvType == [Keys -> [phase: {"none", "receiving", "replying", "answered", "sending",
                              "waiting"},
                      count: Nat, acked: Nat]]
FaultType == {"none", "use_after_free", "null_context", "assertion"}
Results == Statuses \cup {"idle"}

\* The slot points to a session in memory, if any.
SlotInv ==
    /\ slot \in SlotType
    /\ slot.session \in Live \cup {NoHandle}
    /\ bufInUse \in BOOLEAN

\* The owners and the fault.
ToldInv == told \in ToldType /\ fault \in FaultType

\* Device Cloud uses ids of the device, or its own.
Keyed(p) == p.op \in {"start", "data", "ack"} => <<p.owner, p.id>> \in Keys

\* Every packet names a conversation that can exist.
PacketInv ==
    /\ held \in Packets \cup {NoPacket}
    /\ Keyed(held)
    /\ inbound \in Seq(Packets)
    /\ \A i \in 1 .. Len(inbound) : Keyed(inbound[i])
    /\ conv \in ConvType
    /\ result \in Results

\* The queue holds requests, and the ids stay within their range.
QueueInv ==
    /\ pending \in [{"user", "internal"} -> Requests \cup {NoRequest}]
    /\ lastId \in 0 .. MaxId

\* The sessions, the slot and the owners.
CoreInv == StateInv /\ SlotInv /\ ToldInv

\* What a step that treats the sessions leaves behind.
Sound == Treated /\ SlotInv' /\ ToldInv'

\* A sound step keeps the sessions, the slot and the owners in order.
LEMMA SoundKeeps ==
    ASSUME ConstantsAssumption, CoreInv, Sound
    PROVE  CoreInv'
BY RevisedKeeps, AddedKeeps, RemovedKeeps DEF CoreInv, Sound, Treated

\* Changing one session revises the sessions.
LEMMA ReviseOne ==
    ASSUME ListInv, NEW h \in Live, NEW s1, Becomes(s1, session[h]),
           session' = [session EXCEPT ![h] = s1],
           UNCHANGED <<list, active>>,
           current' \in Live \cup {NoHandle}
    PROVE  Revised /\ Live' = Live
<1>1. /\ session \in [Handles -> Proper \cup {Free}]
      /\ h \in Handles /\ s1 \in Proper
  BY DEF ListInv, Live, Becomes
<1>2. ASSUME NEW g \in Live
      PROVE  session[g] \in Proper
  BY LiveTyped
<1>3. \A g \in Live : Becomes(session'[g], session[g])
  BY <1>1, <1>2 DEF Live, Becomes, SameKey
<1>4. \A g \in Handles : g \notin Live => session'[g] = Free
  BY <1>1 DEF Live
<1>5. session' \in [Handles -> Proper \cup {Free}]
  BY <1>1
<1>6. Revised
  BY <1>3, <1>4, <1>5 DEF Revised
<1> QED
  BY <1>6, RevisedLive

\* Moving only the turn revises the sessions.
LEMMA ReviseNone ==
    ASSUME ListInv, UNCHANGED <<session, list, active>>,
           current' \in Live \cup {NoHandle}
    PROVE  Revised /\ Live' = Live
<1>1. \A g \in Live : Becomes(session[g], session[g])
  BY LiveTyped DEF Becomes, SameKey
<1> QED
  BY <1>1 DEF Revised, Live, ListInv

\* Telling keeps the type of what was told.
LEMMA TellTyped ==
    ASSUME NEW t \in ToldType, NEW req, NEW reason \in Reasons, NEW answer
    PROVE  Tell(t, req, reason, answer) \in ToldType
BY DEF Tell, Outcome, Reasons, ToldType

\* msg_delete_session removes the session, whatever is told to its owner.
LEMMA DeleteRemoves ==
    ASSUME ConstantsAssumption, StateInv, ToldInv, NEW h \in Live,
           NEW s, Becomes(s, session[h]), NEW t \in ToldType,
           NEW cursor \in Live \cup {NoHandle},
           DeleteSession(h, s, t, cursor)
    PROVE  Removed(h) /\ Live' = Live \ {h} /\ ToldInv'
<1>1. Removed(h)
  BY DEF DeleteSession, Removed, Becomes, SameKey
<1>2. told' \in ToldType
  <2>1. s.reason \in Reasons
    BY DEF Becomes, Proper, Session, Reasons
  <2> QED
    BY <2>1, TellTyped DEF DeleteSession
<1>3. fault' \in FaultType
  BY DEF DeleteSession, ToldInv, FaultType
<1> QED
  BY <1>1, <1>2, <1>3, RemovedKeeps DEF ToldInv

\* A data packet in the slot.
LEMMA DataSlotTyped ==
    ASSUME NEW h \in Handles, NEW p \in SlotPackets
    PROVE  DataSlot(h, p) \in SlotType /\ DataSlot(h, p).session = h
BY DEF DataSlot, SlotType

\* A packet without a session in the slot.
LEMMA ControlSlotTyped ==
    ASSUME NEW p \in SlotPackets
    PROVE  ControlSlot(p) \in SlotType /\ ControlSlot(p).session = NoHandle
BY DEF ControlSlot, SlotType

\* An empty slot.
LEMMA NoSlotTyped == NoSlot \in SlotType /\ NoSlot.session = NoHandle
BY DEF NoSlot, SlotType, SlotPackets

\* The slot does not name a session that is freed.
LEMMA DanglingTyped ==
    ASSUME SlotInv, NEW h
    PROVE  /\ Dangling(h) \in SlotType
           /\ Dangling(h).session \in (Live \ {h}) \cup {NoHandle}
           /\ Dangling(h).kind = slot.kind
BY DEF SlotInv, Dangling, SlotType, Live, Handles, NoHandle

\* Device Cloud takes any packet and keeps its conversations typed.
LEMMA CloudTakesTyped ==
    ASSUME NEW c \in ConvType, NEW p \in SlotPackets
    PROVE  CloudTakes(c, p) \in ConvType
<1> DEFINE V == [phase: {"none", "receiving", "replying", "answered", "sending", "waiting"},
                 count: Nat, acked: Nat]
<1>1. NoConversation \in V
  BY DEF NoConversation
<1>2. /\ Conversation("replying", 1) \in V /\ Conversation("receiving", 1) \in V
  BY DEF Conversation
<1>3. ASSUME NEW v \in V, NEW last
      PROVE  Counted(v, last) \in V
  <2>1. v.count + 1 \in Nat
    OBVIOUS
  <2>2. (IF last THEN "replying" ELSE v.phase) \in
            {"none", "receiving", "replying", "answered", "sending", "waiting"}
    OBVIOUS
  <2>3. \A n \in Nat :
            \A ph \in {"none", "receiving", "replying", "answered", "sending", "waiting"} :
                [v EXCEPT !.count = n, !.phase = ph] \in V
    OBVIOUS
  <2> QED
    BY <2>1, <2>2, <2>3 DEF Counted
<1>4. ASSUME NEW v \in V, NEW n \in Nat
      PROVE  Acknowledged(v, n) \in V
  BY DEF Acknowledged
<1>5. p.op = "ack" => p.count \in Nat
  BY DEF SlotPackets, Packets, DataPacket, AckPacket, ErrorPacket, KeepAlive, NoPacket
<1>6. c \in [Keys -> V] /\ ConvType = [Keys -> V]
  BY DEF ConvType
<1> HIDE DEF V
<1>7. ASSUME NEW k, NEW v, k \in Keys => v \in V
      PROVE  [c EXCEPT ![k] = v] \in [Keys -> V]
  BY <1>6, <1>7
<1>8. ASSUME NEW k \in Keys
      PROVE  c[k] \in V
  BY <1>6
<1>9. CASE p.op = "start"
  BY <1>1, <1>2, <1>6, <1>7, <1>8, <1>9 DEF CloudTakes
<1>10. CASE p.op = "data"
  BY <1>1, <1>3, <1>6, <1>7, <1>8, <1>10 DEF CloudTakes
<1>11. CASE p.op = "ack"
  BY <1>4, <1>5, <1>6, <1>7, <1>8, <1>11 DEF CloudTakes
<1>12. CASE p.op = "error"
  BY <1>1, <1>6, <1>7, <1>12 DEF CloudTakes
<1>13. CASE p.op \notin {"start", "data", "ack", "error"}
  BY <1>6, <1>13 DEF CloudTakes
<1> QED
  BY <1>9, <1>10, <1>11, <1>12, <1>13

-----------------------------------------------------------------------------
\* A step that leaves the sessions alone.
LEMMA Untouched ==
    ASSUME CoreInv, UNCHANGED listVars, ToldInv',
           slot' \in SlotType, slot'.session \in {slot.session, NoHandle},
           bufInUse' \in BOOLEAN
    PROVE  Sound
<1>1. ListInv /\ current' \in Live \cup {NoHandle}
  BY DEF CoreInv, StateInv, ListInv, listVars
<1>2. Revised /\ Live' = Live
  BY <1>1, ReviseNone DEF listVars
<1> QED
  BY <1>2 DEF Sound, Treated, SlotInv, CoreInv

\* A step that revises one session.
LEMMA RevisedSound ==
    ASSUME CoreInv, NEW h \in Live, NEW s, Becomes(s, session[h]),
           session' = [session EXCEPT ![h] = s], UNCHANGED <<list, active>>,
           current' \in Live \cup {NoHandle}, ToldInv',
           slot' \in SlotType, slot'.session \in Live \cup {NoHandle},
           bufInUse' \in BOOLEAN
    PROVE  Sound
<1>1. Revised /\ Live' = Live
  BY ReviseOne DEF CoreInv, StateInv
<1> QED
  BY <1>1 DEF Sound, Treated, SlotInv

\* A step that deletes a session.
LEMMA DeletedSound ==
    ASSUME ConstantsAssumption, CoreInv, NEW h \in Live,
           NEW s, Becomes(s, session[h]), NEW t \in ToldType,
           NEW cursor \in Live \cup {NoHandle},
           DeleteSession(h, s, t, cursor),
           slot' \in SlotType, slot'.session \in (Live \ {h}) \cup {NoHandle},
           bufInUse' \in BOOLEAN
    PROVE  Sound
BY DeleteRemoves DEF CoreInv, Sound, Treated, SlotInv

\* The send step is sound.
LEMMA SendStepSound ==
    ASSUME ConstantsAssumption, CoreInv, PacketInv, SendStep
    PROVE  Sound /\ PacketInv'
<1>0. /\ slot \in SlotType /\ slot.session \in Live \cup {NoHandle}
      /\ slot.packet \in SlotPackets /\ bufInUse \in BOOLEAN /\ ToldInv /\ ListInv
  BY DEF CoreInv, SlotInv, SlotType, StateInv
<1>1. conv' \in ConvType => PacketInv'
  BY DEF SendStep, recvVars, PacketInv
<1>2. conv \in ConvType /\ CloudTakes(conv, slot.packet) \in ConvType
  BY <1>0, CloudTakesTyped DEF PacketInv
<1>3. CASE SendKeepAlive
  <2>1. KeepAlive \in SlotPackets
    BY DEF SlotPackets
  <2>2. slot' \in SlotType /\ slot'.session = NoHandle
    BY <1>3, <2>1, ControlSlotTyped DEF SendKeepAlive
  <2>3. ToldInv' /\ UNCHANGED listVars /\ bufInUse' \in BOOLEAN
    BY <1>0, <1>3 DEF SendKeepAlive, ToldInv
  <2> QED
    BY <1>1, <1>2, <1>3, <2>2, <2>3, Untouched DEF SendKeepAlive
<1>4. CASE SendNothing
  <2>1. ToldInv' /\ UNCHANGED listVars /\ bufInUse' \in BOOLEAN /\ slot' = slot
    BY <1>0, <1>4 DEF SendNothing, ToldInv, sendVars
  <2> QED
    BY <1>0, <1>1, <1>2, <1>4, <2>1, Untouched DEF SendNothing
<1>5. CASE SendControlComplete
  <2>1. ToldInv' /\ UNCHANGED listVars /\ bufInUse' \in BOOLEAN
    BY <1>0, <1>5 DEF SendControlComplete, ToldInv
  <2>2. slot' \in SlotType /\ slot'.session = NoHandle
    BY <1>5, NoSlotTyped DEF SendControlComplete
  <2> QED
    BY <1>1, <1>2, <1>5, <2>1, <2>2, Untouched DEF SendControlComplete
<1>6. CASE SendDataDangling
  <2>1. /\ ToldInv' /\ UNCHANGED listVars /\ bufInUse' \in BOOLEAN
        /\ slot' = slot
    BY <1>0, <1>6 DEF SendDataDangling, ToldInv, FaultType, sendVars
  <2> QED
    BY <1>0, <1>1, <1>2, <1>6, <2>1, Untouched DEF SendDataDangling
<1>7. CASE SendDataComplete
  <2> DEFINE h == slot.session
             s == session[h]
  <2>1. h \in Live /\ s \in Proper
    BY <1>0, <1>7, LiveTyped DEF SendDataComplete
  <2>2. slot' \in SlotType /\ slot'.session = NoHandle /\ bufInUse' \in BOOLEAN
    BY <1>7, NoSlotTyped DEF SendDataComplete
  <2>3. conv' \in ConvType
    BY <1>2, <1>7 DEF SendDataComplete
  <2>4. CASE s.last /\ ~s.request
    <3>1. DeleteSession(h, s, told, current)
      BY <1>7, <2>4 DEF SendDataComplete
    <3>2. Becomes(s, session[h]) /\ told \in ToldType /\ current \in Live \cup {NoHandle}
      BY <1>0, <2>1 DEF Becomes, SameKey, ToldInv, ListInv
    <3> QED
      BY <1>1, <2>1, <2>2, <2>3, <3>1, <3>2, DeletedSound
  <2>5. CASE ~(s.last /\ ~s.request)
    <3> DEFINE s1 == [s EXCEPT !.st = IF s.last THEN "receive" ELSE "get_data"]
    <3>1. /\ session' = [session EXCEPT ![h] = s1]
          /\ UNCHANGED <<list, current, active, told, fault>>
      BY <1>7, <2>5 DEF SendDataComplete
    <3>2. Becomes(s1, session[h])
      BY <2>1 DEF Becomes, SameKey, Proper, Session, States
    <3>3. ToldInv' /\ current' \in Live \cup {NoHandle}
      BY <1>0, <3>1 DEF ToldInv, ListInv
    <3> QED
      BY <1>1, <2>1, <2>2, <2>3, <3>1, <3>2, <3>3, RevisedSound
  <2> QED
    BY <2>4, <2>5
<1> QED
  BY <1>3, <1>4, <1>5, <1>6, <1>7 DEF SendStep

\* msg_find_session returns a session with the owner and the id asked for.
LEMMA FindTyped ==
    ASSUME ListInv, NEW owner, NEW id, NEW h \in Find(owner, id)
    PROVE  /\ h \in Live /\ session[h] \in Proper
           /\ session[h].owner = owner /\ session[h].id = id
BY LiveTyped DEF Find

\* Memory for another session.
LEMMA NewHandleFree ==
    ASSUME ConstantsAssumption, HasMemory
    PROVE  NewHandle \in Handles \ Live
<1>1. Handles \ Live # {} /\ Handles \ Live \in SUBSET Nat
  BY DEF HasMemory, Live, Handles
<1>2. IsFiniteSet(Handles \ Live)
  BY FiniteHandles, FS_Subset
<1> QED
  BY <1>1, <1>2, MinOf DEF NewHandle

\* msg_find_next_available_id returns an id that no session has, also after
\* a wrap.
LEMMA NextIdFree ==
    ASSUME ConstantsAssumption, lastId \in 0 .. MaxId, FreeIds # {}
    PROVE  NextId \in FreeIds
<1> DEFINE above == {id \in FreeIds : id > lastId}
<1>1. FreeIds \in SUBSET (1 .. MaxId) /\ IsFiniteSet(1 .. MaxId)
  BY FS_Interval DEF FreeIds, ConstantsAssumption
<1>2. IsFiniteSet(FreeIds) /\ FreeIds \in SUBSET Nat
  <2>1. FreeIds \in SUBSET Nat
    BY DEF FreeIds
  <2> QED
    BY <1>1, <2>1, FS_Subset
<1>3. above \in SUBSET FreeIds /\ IsFiniteSet(above) /\ above \in SUBSET Nat
  BY <1>2, FS_Subset
<1>4. above # {} => Min(above) \in above
  BY <1>3, MinOf
<1>5. Min(FreeIds) \in FreeIds
  BY <1>2, MinOf
<1> QED
  BY <1>3, <1>4, <1>5 DEF NextId

-----------------------------------------------------------------------------
\* An error for a session that does not exist fills the slot.
LEMMA ErrorForNobodySound ==
    ASSUME NEW p \in Packets, Keyed(p), p.op \in {"start", "data"}, ErrorForNobody(p)
    PROVE  /\ slot' \in SlotType /\ slot'.session = NoHandle
           /\ bufInUse' \in BOOLEAN
<1> DEFINE e == [op |-> "error", request |-> p.owner = "cloud", sender |-> FALSE,
                 id |-> p.id]
<1>1. p.id \in Nat
  BY DEF Packets, DataPacket, AckPacket, ErrorPacket
<1>2. e \in SlotPackets
  BY <1>1 DEF SlotPackets, Packets, ErrorPacket
<1> HIDE DEF e
<1>3. slot' = ControlSlot(e) /\ bufInUse' = TRUE
  BY DEF ErrorForNobody, e
<1> QED
  BY <1>2, <1>3, ControlSlotTyped

\* A packet without a session changes at most the slot.
LEMMA RefusalSound ==
    ASSUME CoreInv, NEW p \in Packets, Keyed(p), p.op \in {"start", "data"},
           ErrorForNobody(p) \/ UNCHANGED sendVars,
           UNCHANGED <<listVars, told, fault>>
    PROVE  Sound
<1>1. slot \in SlotType /\ bufInUse \in BOOLEAN /\ ToldInv'
  BY DEF CoreInv, SlotInv, ToldInv
<1>2. CASE ErrorForNobody(p)
  BY <1>1, <1>2, ErrorForNobodySound, Untouched
<1>3. CASE UNCHANGED sendVars
  BY <1>1, <1>3, Untouched DEF sendVars
<1> QED
  BY <1>2, <1>3

\* A device request is taken or refused soundly.
LEMMA StartDeviceRequestSound ==
    ASSUME ConstantsAssumption, CoreInv, NEW p \in Packets, Keyed(p),
           StartDeviceRequest(p)
    PROVE  Sound /\ result' \in Results
<1> DEFINE s == NewSession("cloud", p.id, p.id, "receive", "none")
<1>1. /\ p.op = "start" /\ p.owner = "cloud" /\ Find("cloud", p.id) = {}
      /\ MayCreate("cloud") /\ HasMemory
      /\ p.last \in BOOLEAN
      /\ <<"cloud", p.id>> \in Keys /\ p.id \in CloudIds /\ p.id \in Nat
  BY DEF StartDeviceRequest, Keyed, Keys, Packets, DataPacket, AckPacket, ErrorPacket,
         ConstantsAssumption
<1>2. s \in Proper
  BY <1>1, NewSessionTyped DEF Owners, Talks, States, RequestTypes
<1>3. s.owner = "cloud" /\ s.id = p.id /\ s.req = p.id
  BY DEF NewSession
<1> HIDE DEF s
<1>4. PICK answer \in PassAnswers(s) :
         /\ AddSession(NewHandle, Pass(s, p, answer).s)
         /\ result' = Pass(s, p, answer).status
  BY DEF StartDeviceRequest, s
<1> DEFINE d == Pass(s, p, answer).s
<1>5. Becomes(d, s) /\ Pass(s, p, answer).status \in Statuses
  BY <1>1, <1>2, PassKeeps
<1>6. NewHandle \in Handles \ Live
  BY <1>1, NewHandleFree
<1>7. d \in Proper /\ d.owner = "cloud" /\ d.id = p.id /\ d.req = p.id
  BY <1>3, <1>5 DEF Becomes, SameKey
<1> HIDE DEF d
<1>8. Added(NewHandle, d)
  BY <1>1, <1>4, <1>6, <1>7 DEF Added, d
<1>9. Live \subseteq Live'
  <2>1. d # Free
    BY <1>7, FreeIsNoSession
  <2> QED
    BY <1>6, <1>8, <2>1 DEF Added, AddSession, Live, CoreInv, StateInv, ListInv
<1>10. ToldInv' /\ UNCHANGED sendVars
  BY <1>1 DEF StartDeviceRequest, CoreInv, ToldInv, ToldType
<1>11. SlotInv'
  BY <1>9, <1>10 DEF CoreInv, SlotInv, sendVars
<1> QED
  BY <1>4, <1>5, <1>8, <1>10, <1>11 DEF Sound, Treated, Results

\* A packet is passed to its session soundly.
LEMMA PassToSessionSound ==
    ASSUME ConstantsAssumption, CoreInv, NEW p \in Packets, Keyed(p),
           PassToSession(p)
    PROVE  Sound /\ result' \in Results
<1>1. PICK h \in Find(p.owner, p.id) :
         LET s == IF /\ p.op = "start"
                      /\ p.owner = "client"
                      /\ session[h].st # "send_error"
                   THEN FreshBlock(session[h], FALSE, "receive")
                   ELSE session[h]
         IN  \E answer \in PassAnswers(s) :
                 LET done == Pass(s, p, answer)
                 IN  /\ session' = [session EXCEPT ![h] = done.s]
                     /\ result' = done.status
  BY DEF PassToSession
<1>2. ListInv /\ ToldInv /\ slot \in SlotType /\ bufInUse \in BOOLEAN
  BY DEF CoreInv, StateInv, SlotInv
<1>3. h \in Live /\ session[h] \in Proper
  BY <1>2, FindTyped
<1> DEFINE s == IF /\ p.op = "start"
                      /\ p.owner = "client"
                      /\ session[h].st # "send_error"
                   THEN FreshBlock(session[h], FALSE, "receive")
                   ELSE session[h]
<1>4. Becomes(s, session[h])
  BY <1>3, FreshBlockKeeps DEF States, Becomes, SameKey
<1> HIDE DEF s
<1>5. PICK answer \in PassAnswers(s) :
         /\ session' = [session EXCEPT ![h] = Pass(s, p, answer).s]
         /\ result' = Pass(s, p, answer).status
  BY <1>1 DEF s
<1>6. p.last \in BOOLEAN
  BY DEF PassToSession, Packets, DataPacket, AckPacket, ErrorPacket
<1>7. Becomes(Pass(s, p, answer).s, s) /\ result' \in Results
  BY <1>4, <1>5, <1>6, PassKeeps DEF Becomes, Results
<1>8. Becomes(Pass(s, p, answer).s, session[h])
  BY <1>4, <1>7 DEF Becomes, SameKey
<1>9. /\ UNCHANGED <<list, current, active, told, fault>>
      /\ slot' = slot /\ bufInUse' = bufInUse
  BY DEF PassToSession, sendVars
<1>10. ToldInv' /\ current' \in Live \cup {NoHandle}
  BY <1>2, <1>9 DEF ToldInv, ListInv
<1>11. slot'.session \in Live \cup {NoHandle}
  BY <1>9 DEF CoreInv, SlotInv
<1> QED
  BY <1>2, <1>3, <1>5, <1>7, <1>8, <1>9, <1>10, <1>11, RevisedSound

\* An acknowledgement is processed soundly.
LEMMA ProcessAckSound ==
    ASSUME ConstantsAssumption, CoreInv, NEW p \in Packets, ProcessAck(p)
    PROVE  Sound /\ result' \in Results
<1>1. ListInv /\ SlotInv /\ ToldInv
  BY DEF CoreInv, StateInv
<1>2. p.count \in Nat
  BY DEF ProcessAck, Packets, DataPacket, AckPacket, ErrorPacket
<1>3. ASSUME NEW h \in Handles
      PROVE  IF h \in Live THEN Becomes(session'[h], session[h]) ELSE session'[h] = Free
  <2> DEFINE s == session[h]
             s1 == [s EXCEPT !.acked = p.count, !.ackPending = FALSE]
  <2>1. (session'[h] = s1 /\ h \in Live) \/ session'[h] = s
    BY DEF ProcessAck, Find
  <2>2. h \in Live => s \in Proper
    BY <1>1, LiveTyped
  <2>3. h \in Live => Becomes(s1, s)
    BY <1>2, <2>2 DEF Becomes, SameKey, Proper, Session
  <2>4. h \in Live => Becomes(s, s)
    BY <2>2 DEF Becomes, SameKey
  <2>5. h \notin Live => s = Free
    BY DEF Live
  <2> HIDE DEF s1
  <2> QED
    BY <2>1, <2>3, <2>4, <2>5
<1>4. session' \in [Handles -> Proper \cup {Free}]
  <2>1. session' = [h \in Handles |-> session'[h]]
    BY DEF ProcessAck
  <2> QED
    BY <1>3, <2>1 DEF Becomes
<1>5. UNCHANGED <<list, current, active, told, sendVars, fault>>
  BY DEF ProcessAck
<1>6. Revised
  BY <1>1, <1>3, <1>4, <1>5 DEF Revised, ListInv
<1>7. SlotInv' /\ ToldInv'
  BY <1>1, <1>5, <1>6, RevisedLive DEF SlotInv, ToldInv, sendVars
<1> QED
  BY <1>6, <1>7 DEF Sound, Treated, ProcessAck, Results, Statuses

\* An error of Device Cloud is processed soundly.
LEMMA ProcessErrorSound ==
    ASSUME ConstantsAssumption, CoreInv, NEW p \in Packets, ProcessError(p),
           result \in Results
    PROVE  Sound /\ result' \in Results
<1>1. PICK h \in ErrorKnown(p), answer \in StatusAnswers :
          LET s == session[h]
              s1 == Informed(s, "error", answer)
              t  == Tell(told, s.req, "error", answer)
          IN  IF s.rt = "none"
              THEN /\ fault' = "null_context"
                   /\ UNCHANGED <<listVars, told, sendVars, result>>
              ELSE IF answer = "busy"
              THEN /\ session' = [session EXCEPT ![h] = s1]
                   /\ told' = t
                   /\ result' = "pending"
                   /\ UNCHANGED <<list, current, active, sendVars, fault>>
              ELSE /\ DeleteSession(h, s1, t, current)
                   /\ slot' = Dangling(h)
                   /\ result' = "working"
                   /\ UNCHANGED bufInUse
  BY DEF ProcessError
<1> DEFINE s == session[h]
           s1 == Informed(s, "error", answer)
           t  == Tell(told, s.req, "error", answer)
<1>2. ListInv /\ SlotInv /\ ToldInv
  BY DEF CoreInv, StateInv
<1>3. h \in Live /\ s \in Proper
  BY <1>2, FindTyped DEF ErrorKnown
<1>4. Becomes(s1, session[h])
  BY <1>3, InformedKeeps DEF Reasons
<1>5. t \in ToldType
  BY <1>2, TellTyped DEF ToldInv, Reasons
<1>6. current \in Live \cup {NoHandle}
  BY <1>2 DEF ListInv
<1> HIDE DEF s1, t
<1>7. CASE s.rt = "none"
  <2>1. /\ UNCHANGED <<listVars, told, sendVars, result>> /\ fault' = "null_context"
    BY <1>1, <1>7
  <2> QED
    BY <1>2, <2>1, Untouched DEF ToldInv, FaultType, SlotInv, sendVars
<1>8. CASE s.rt # "none" /\ answer = "busy"
  <2>1. /\ session' = [session EXCEPT ![h] = s1]
        /\ told' = t
        /\ result' = "pending"
        /\ UNCHANGED <<list, current, active, sendVars, fault>>
    BY <1>1, <1>8 DEF s1, t
  <2>2. /\ ToldInv' /\ slot' \in SlotType /\ slot'.session \in Live \cup {NoHandle}
        /\ bufInUse' \in BOOLEAN
    BY <1>2, <1>5, <2>1 DEF ToldInv, SlotInv, sendVars
  <2> QED
    BY <1>3, <1>4, <1>6, <2>1, <2>2, RevisedSound DEF Results, Statuses
<1>9. CASE s.rt # "none" /\ answer # "busy"
  <2>1. /\ DeleteSession(h, s1, t, current)
        /\ slot' = Dangling(h)
        /\ result' = "working"
        /\ UNCHANGED bufInUse
    BY <1>1, <1>9 DEF s1, t
  <2>2. /\ slot' \in SlotType /\ slot'.session \in (Live \ {h}) \cup {NoHandle}
        /\ bufInUse' \in BOOLEAN
    BY <1>2, <2>1, DanglingTyped DEF SlotInv
  <2> QED
    BY <1>3, <1>4, <1>5, <1>6, <2>1, <2>2, DeletedSound DEF Results, Statuses
<1> QED
  BY <1>7, <1>8, <1>9

\* So is every packet.
LEMMA ProcessSound ==
    ASSUME ConstantsAssumption, CoreInv, NEW p \in Packets, Keyed(p), Process(p),
           result \in Results
    PROVE  Sound /\ result' \in Results
<1>1. CASE RefuseDeviceRequest(p) \/ StartUnknown(p) \/ DataUnknown(p)
  <2>1. /\ p.op \in {"start", "data"}
        /\ ErrorForNobody(p) \/ UNCHANGED sendVars
        /\ UNCHANGED <<listVars, told, fault>>
        /\ result' \in {"working", "pending"}
    BY <1>1 DEF RefuseDeviceRequest, StartUnknown, DataUnknown
  <2> QED
    BY <2>1, RefusalSound DEF Results, Statuses
<1>2. CASE ErrorUnknown(p)
  <2>1. UNCHANGED <<listVars, told, sendVars, fault>> /\ result' = "working"
    BY <1>2 DEF ErrorUnknown
  <2> QED
    BY <2>1, Untouched DEF CoreInv, ToldInv, SlotInv, sendVars, Results, Statuses
<1> QED
  BY <1>1, <1>2, StartDeviceRequestSound, PassToSessionSound, ProcessAckSound,
     ProcessErrorSound DEF Process

\* The receive step is sound.
LEMMA ReceiveStepSound ==
    ASSUME ConstantsAssumption, CoreInv, PacketInv, ReceiveStep
    PROVE  Sound /\ PacketInv'
<1>1. conv' = conv
  BY DEF ReceiveStep
<1>2. CASE ReceiveNothing
  <2>1. /\ UNCHANGED <<held, inbound, listVars, told, sendVars, fault>>
        /\ result' = "idle"
    BY <1>2 DEF ReceiveNothing
  <2>2. Sound
    BY <2>1, Untouched DEF CoreInv, ToldInv, SlotInv, sendVars
  <2>3. PacketInv'
    BY <1>1, <2>1 DEF PacketInv, Results, Keyed
  <2> QED
    BY <2>2, <2>3
<1>3. CASE ReceivePacket
  <2>1. /\ inbound \in Seq(Packets) /\ inbound # << >>
        /\ held' = Head(inbound) /\ inbound' = Tail(inbound)
    BY <1>3 DEF ReceivePacket, PacketInv
  <2>2. /\ Len(inbound) \in Nat /\ Len(inbound) >= 1 /\ Head(inbound) = inbound[1]
        /\ inbound' \in Seq(Packets)
        /\ Len(inbound') = Len(inbound) - 1
        /\ \A i \in 1 .. Len(inbound') : inbound'[i] = inbound[i + 1]
    BY <2>1, EmptySeq, HeadTailProperties
  <2>3. held' \in Packets /\ Keyed(held')
    BY <2>1, <2>2, HeadTailProperties DEF PacketInv
  <2>4. ASSUME NEW i \in 1 .. Len(inbound')
        PROVE  Keyed(inbound'[i])
    <3>1. i + 1 \in 1 .. Len(inbound)
      BY <2>2
    <3> QED
      BY <2>2, <3>1 DEF PacketInv
  <2>5. Sound /\ result' \in Results
    BY <1>3, <2>1, <2>3, ProcessSound DEF ReceivePacket, PacketInv
  <2> QED
    BY <1>1, <2>2, <2>3, <2>4, <2>5 DEF PacketInv, Keyed
<1>4. CASE ProcessHeld
  <2>1. held \in Packets /\ Keyed(held) /\ UNCHANGED <<held, inbound>>
    BY <1>4 DEF ProcessHeld, PacketInv
  <2>2. Sound /\ result' \in Results
    BY <1>4, <2>1, ProcessSound DEF ProcessHeld, PacketInv
  <2> QED
    BY <1>1, <2>1, <2>2 DEF PacketInv, Keyed
<1> QED
  BY <1>2, <1>3, <1>4 DEF ReceiveStep

-----------------------------------------------------------------------------
\* A pending request becomes a session with an id of its own.
LEMMA StartRequestSound ==
    ASSUME ConstantsAssumption, CoreInv, QueueInv, StartRequest,
           UNCHANGED sendVars
    PROVE  Sound /\ QueueInv'
<1> DEFINE req == pending[NextPending]
           s   == NewSession("client", NextId, req, "get_data", "send_data")
<1>1. /\ req \in Requests /\ MayCreate("client") /\ HasMemory
  BY DEF StartRequest, NextPending, QueueInv
<1>2. NextId \in 1 .. MaxId /\ Find("client", NextId) = {}
  <2>1. FreeIds # {}
    BY <1>1 DEF MayCreate
  <2>2. NextId \in FreeIds
    BY <2>1, NextIdFree DEF QueueInv
  <2> QED
    BY <2>2 DEF FreeIds
<1>3. /\ s \in Proper /\ s.owner = "client" /\ s.id = NextId /\ s.req = req
  <2>1. NextId \in Nat
    BY <1>2
  <2> QED
    BY <1>1, <2>1, NewSessionTyped DEF Owners, Talks, States, RequestTypes, NewSession
<1> HIDE DEF s
<1>4. AddSession(NewHandle, s) /\ UNCHANGED <<told, fault>>
  BY DEF StartRequest, s
<1>5. NewHandle \in Handles \ Live
  BY <1>1, NewHandleFree
<1>6. Added(NewHandle, s)
  BY <1>1, <1>2, <1>3, <1>4, <1>5 DEF Added, Keys
<1>7. Live \subseteq Live'
  <2>1. s # Free
    BY <1>3, FreeIsNoSession
  <2> QED
    BY <1>4, <1>5, <2>1 DEF AddSession, Live, CoreInv, StateInv, ListInv
<1>8. SlotInv' /\ ToldInv'
  BY <1>4, <1>7 DEF CoreInv, SlotInv, ToldInv, sendVars
<1>9. QueueInv'
  <2>1. /\ lastId' = NextId
        /\ pending' = [pending EXCEPT ![NextPending] = NoRequest]
    BY DEF StartRequest
  <2>2. NextId \in 0 .. MaxId
    BY <1>2
  <2> QED
    BY <2>1, <2>2 DEF QueueInv
<1> QED
  BY <1>6, <1>8, <1>9 DEF Sound, Treated

\* The start step is sound.
LEMMA StartStepSound ==
    ASSUME ConstantsAssumption, CoreInv, QueueInv, StartStep
    PROVE  Sound /\ QueueInv'
<1>1. UNCHANGED sendVars
  BY DEF StartStep
<1>2. CASE StartRequest
  BY <1>1, <1>2, StartRequestSound
<1>3. CASE StartWithoutContext
  <2>1. UNCHANGED <<listVars, lastId, pending, told>> /\ fault' = "null_context"
    BY <1>3 DEF StartWithoutContext
  <2> QED
    BY <1>1, <2>1, Untouched
       DEF CoreInv, ToldInv, SlotInv, sendVars, FaultType, QueueInv
<1>4. CASE StartNothing
  <2>1. UNCHANGED <<listVars, pending, told, fault>>
    BY <1>4 DEF StartNothing
  <2>2. lastId' \in 0 .. MaxId
    <3>1. CASE UNCHANGED lastId
      BY <3>1 DEF QueueInv
    <3>2. CASE lastId' = NextId /\ MayCreate("client")
      <4>1. NextId \in 1 .. MaxId
        BY <3>2, NextIdFree DEF QueueInv, MayCreate, FreeIds
      <4> QED
        BY <3>2, <4>1
    <3> QED
      BY <1>4, <3>1, <3>2 DEF StartNothing
  <2> QED
    BY <1>1, <2>1, <2>2, Untouched DEF CoreInv, ToldInv, SlotInv, sendVars, QueueInv
<1> QED
  BY <1>2, <1>3, <1>4 DEF StartStep

-----------------------------------------------------------------------------
\* The session polled is in memory: session.current is never stale.
LEMMA PolledLive ==
    ASSUME ListInv
    PROVE  Polled \in Live \cup {NoHandle}
BY TailOfList DEF ListInv, Polled

\* A poll that changes no session: the turn stays or goes to the next one.
LEMMA PollTurns ==
    ASSUME CoreInv, UNCHANGED <<session, list, active, told, sendVars, fault>>,
           current' \in Live \cup {NoHandle}
    PROVE  Sound
<1>1. Revised /\ Live' = Live
  BY ReviseNone DEF CoreInv, StateInv
<1> QED
  BY <1>1 DEF Sound, Treated, CoreInv, SlotInv, ToldInv, sendVars

\* The turn goes to a session in memory.
LEMMA SwitchInList ==
    ASSUME ListInv, NEW h \in Live, Switch(h)
    PROVE  current' \in Live \cup {NoHandle}
BY BeforeInList DEF Switch, ListInv

\* Polling a session that sends is sound.
LEMMA PollSendDataSound ==
    ASSUME ConstantsAssumption, CoreInv, PollSendData
    PROVE  Sound
<1>1. ListInv /\ ToldInv
  BY DEF CoreInv, StateInv
<1>2. Polled \in Live /\ session[Polled] \in Proper /\ Polled \in Handles
  BY <1>1, PolledLive, LiveTyped DEF PollSendData, MayAskForData
<1> DEFINE s == session[Polled]
           total == s.total + 1
           packet(last) == [op |-> IF s.start THEN "start" ELSE "data",
                            owner |-> s.owner, id |-> s.id, last |-> last]
           s1(last, full) == [s EXCEPT !.st = "wait_send_complete", !.start = FALSE,
                              !.last = last, !.total = total, !.ackPending = full]
<1>3. PICK last \in BOOLEAN :
        /\ session' = [session EXCEPT ![Polled] = s1(last, WindowFull(total, s.acked))]
        /\ slot' = DataSlot(Polled, packet(last))
  BY DEF PollSendData
<1>4. total \in Nat /\ WindowFull(total, s.acked) \in BOOLEAN
  BY <1>2 DEF Proper, Session, WindowFull
<1>5. packet(last) \in SlotPackets
  BY <1>2 DEF SlotPackets, Packets, DataPacket, Proper, Session
<1>6. s1(last, WindowFull(total, s.acked))
          = Filling(s, last, total, WindowFull(total, s.acked))
  BY DEF Filling
<1>7. Becomes(s1(last, WindowFull(total, s.acked)), session[Polled])
  <2>1. \A n \in Nat, full \in BOOLEAN : Becomes(Filling(s, last, n, full), s)
    BY <1>2, FillingKeeps
  <2> HIDE DEF total, s1
  <2> QED
    BY <1>4, <1>6, <2>1
<1> HIDE DEF packet, s1
<1>8. slot' \in SlotType /\ slot'.session = Polled
  BY <1>2, <1>3, <1>5, DataSlotTyped
<1>9. /\ bufInUse' \in BOOLEAN /\ current' = Polled
      /\ UNCHANGED <<list, active, told, fault>>
  BY DEF PollSendData
<1>10. ToldInv'
  BY <1>1, <1>9 DEF ToldInv
<1> QED
  BY <1>2, <1>3, <1>7, <1>8, <1>9, <1>10, RevisedSound

\* Polling a session that is cancelled is sound.
LEMMA PollCancelSound ==
    ASSUME ConstantsAssumption, CoreInv, PollCancel
    PROVE  Sound
<1>1. ListInv /\ ToldInv /\ SlotInv
  BY DEF CoreInv, StateInv
<1>2. Polled \in Live /\ session[Polled] \in Proper
  BY <1>1, PolledLive, LiveTyped DEF PollCancel, MayAskForData
<1> DEFINE s == session[Polled]
           rt == IF s.rt = "reply_data" THEN "reply_length" ELSE s.rt
           s1 == [s EXCEPT !.reason = "cancel", !.rt = rt]
<1>3. Becomes(s1, s)
  <2>1. rt \in RequestTypes /\ (s.owner = "client" => rt = s.rt)
    BY <1>2 DEF Proper, Session, RequestTypes
  <2> HIDE DEF rt
  <2> QED
    BY <1>2, <2>1 DEF Becomes, SameKey, Proper, Session
<1>4. /\ session' = [session EXCEPT ![Polled] = SetError(s1)]
      /\ UNCHANGED <<list, active, told, sendVars, fault>> /\ current' = Polled
  BY DEF PollCancel
<1> HIDE DEF s1
<1>5. Becomes(SetError(s1), session[Polled])
  BY <1>3, SetErrorKeeps DEF Becomes, SameKey
<1>6. /\ ToldInv' /\ slot' \in SlotType /\ slot'.session \in Live \cup {NoHandle}
      /\ bufInUse' \in BOOLEAN
  BY <1>1, <1>4 DEF ToldInv, SlotInv, sendVars
<1> QED
  BY <1>2, <1>4, <1>5, <1>6, RevisedSound

\* Polling a session that acknowledges is sound.
LEMMA PollSendAckSound ==
    ASSUME ConstantsAssumption, CoreInv, PollSendAck
    PROVE  Sound
<1>1. ListInv /\ ToldInv
  BY DEF CoreInv, StateInv
<1>2. Polled \in Live /\ session[Polled] \in Proper
  BY <1>1, PolledLive, LiveTyped DEF PollSendAck
<1> DEFINE s  == session[Polled]
           e  == [op |-> "ack", owner |-> s.owner, id |-> s.id, count |-> s.total]
           s1 == [s EXCEPT !.acked = s.total, !.st = "receive"]
<1>3. Becomes(s1, s)
  BY <1>2 DEF Becomes, SameKey, Proper, Session, States
<1>4. e \in SlotPackets
  BY <1>2 DEF SlotPackets, Packets, AckPacket, Proper, Session
<1>5. session' = [session EXCEPT ![Polled] = s1]
  BY <1>1 DEF PollSendAck, ListInv
<1>6. /\ slot' = ControlSlot(e) /\ bufInUse' = TRUE /\ current' = Polled
      /\ UNCHANGED <<list, active, told, fault>>
  BY DEF PollSendAck
<1> HIDE DEF s1, e
<1>7. slot' \in SlotType /\ slot'.session = NoHandle
  BY <1>4, <1>6, ControlSlotTyped
<1>8. ToldInv'
  BY <1>1, <1>6 DEF ToldInv
<1> QED
  BY <1>2, <1>3, <1>5, <1>6, <1>7, <1>8, RevisedSound

\* Polling a session that ends with an error is sound.
LEMMA PollSendErrorSound ==
    ASSUME ConstantsAssumption, CoreInv, PollSendError
    PROVE  Sound
<1>1. ListInv /\ ToldInv
  BY DEF CoreInv, StateInv
<1>2. Polled \in Live /\ session[Polled] \in Proper
  BY <1>1, PolledLive, LiveTyped DEF PollSendError
<1> DEFINE s == session[Polled]
           e == [op |-> "error", request |-> s.errRequest, sender |-> s.errSender,
                 id |-> s.id]
<1>3. e \in SlotPackets
  BY <1>2 DEF SlotPackets, Packets, ErrorPacket, Proper, Session
<1>4. /\ slot' = ControlSlot(e) /\ bufInUse' = TRUE
      /\ DeleteSession(Polled, s, told, Polled)
  BY DEF PollSendError
<1> HIDE DEF e
<1>5. slot' \in SlotType /\ slot'.session = NoHandle
  BY <1>3, <1>4, ControlSlotTyped
<1>6. Becomes(s, session[Polled]) /\ told \in ToldType
  BY <1>1, <1>2 DEF Becomes, SameKey, ToldInv
<1> QED
  BY <1>2, <1>4, <1>5, <1>6, DeletedSound

\* Polling a session that is deleted is sound.
LEMMA PollDeleteSound ==
    ASSUME ConstantsAssumption, CoreInv, PollDelete
    PROVE  Sound
<1>1. ListInv /\ ToldInv /\ SlotInv
  BY DEF CoreInv, StateInv
<1>2. Polled \in Live /\ session[Polled] \in Proper
  BY <1>1, PolledLive, LiveTyped DEF PollDelete
<1>3. /\ DeleteSession(Polled, session[Polled], told, Polled)
      /\ slot' = Dangling(Polled) /\ bufInUse' = bufInUse
  BY DEF PollDelete
<1>4. /\ slot' \in SlotType /\ slot'.session \in (Live \ {Polled}) \cup {NoHandle}
      /\ bufInUse' \in BOOLEAN
  BY <1>1, <1>3, DanglingTyped DEF SlotInv
<1>5. Becomes(session[Polled], session[Polled]) /\ told \in ToldType
  BY <1>1, <1>2 DEF Becomes, SameKey, ToldInv
<1> QED
  BY <1>2, <1>3, <1>4, <1>5, DeletedSound

\* The poll step is sound.
LEMMA PollStepSound ==
    ASSUME ConstantsAssumption, CoreInv, PacketInv, PollStep
    PROVE  Sound /\ PacketInv'
<1>1. ListInv /\ SlotInv /\ ToldInv /\ Polled \in Live \cup {NoHandle}
  BY PolledLive DEF CoreInv, StateInv
<1>2. PacketInv'
  <2>1. held' \in {held, NoPacket} /\ UNCHANGED <<result, inbound, conv>>
    BY DEF PollStep, Release
  <2> QED
    BY <2>1 DEF PacketInv, Keyed, NoPacket
<1>3. CASE PollNobody \/ PollAfterStatus
  <2>1. UNCHANGED <<listVars, told, sendVars>> /\ fault' \in {fault, "assertion"}
    BY <1>3 DEF PollNobody, PollAfterStatus
  <2>2. Sound
    BY <1>1, <2>1, Untouched DEF sendVars, ToldInv, SlotInv, FaultType
  <2> QED
    BY <1>2, <2>2
<1>4. CASE PollSwitch \/ PollBusy
  <2>1. Polled \in Live /\ Switch(Polled)
    BY <1>1, <1>4 DEF PollSwitch, PollBusy, MayAskForData
  <2>2. UNCHANGED <<session, list, active, told, sendVars, fault>>
    BY <1>4 DEF PollSwitch, PollBusy
  <2>3. Sound
    BY <1>1, <2>1, <2>2, SwitchInList, PollTurns
  <2> QED
    BY <1>2, <2>3
<1>5. CASE PollNoBuffer
  <2>1. /\ UNCHANGED <<session, list, active, told, sendVars, fault>>
        /\ current' \in Live \cup {NoHandle}
    BY <1>1, <1>5 DEF PollNoBuffer
  <2>2. Sound
    BY <2>1, PollTurns
  <2> QED
    BY <1>2, <2>2
<1> QED
  BY <1>2, <1>3, <1>4, <1>5, PollSendDataSound, PollCancelSound, PollSendAckSound,
     PollSendErrorSound, PollDeleteSound DEF PollStep

-----------------------------------------------------------------------------
\* What was being sent ends with an error; the sessions stay.
LEMMA CloseNetworkSound ==
    ASSUME ConstantsAssumption, CoreInv, PacketInv, CloseNetwork
    PROVE  Sound /\ PacketInv'
<1>1. /\ ListInv /\ ToldInv /\ current' \in Live \cup {NoHandle}
      /\ slot \in SlotType /\ slot.session \in Live \cup {NoHandle}
  BY DEF CoreInv, StateInv, ListInv, SlotInv, CloseNetwork
<1>2. slot' \in SlotType /\ slot'.session = NoHandle /\ bufInUse' \in BOOLEAN
  BY NoSlotTyped DEF CloseNetwork, AbortSend
<1>3. PacketInv'
  <2>1. /\ NoConversation \in [phase: {"none", "receiving", "replying", "answered",
                                       "sending", "waiting"}, count: Nat, acked: Nat]
        /\ Conversation("answered", 0) \in
               [phase: {"none", "receiving", "replying", "answered", "sending",
                        "waiting"}, count: Nat, acked: Nat]
    BY DEF NoConversation, Conversation
  <2>2. conv' \in ConvType
    BY <2>1 DEF CloseNetwork, ConvType
  <2> QED
    BY <2>2 DEF CloseNetwork, PacketInv
<1>4. CASE slot.kind # "data" \/ slot.session = NoHandle
  <2>1. /\ UNCHANGED <<session, told, list, current, active>>
        /\ fault' \in {fault, "use_after_free"}
    BY <1>4 DEF CloseNetwork, AbortSend
  <2>2. Sound
    BY <1>1, <1>2, <2>1, Untouched DEF listVars, ToldInv, FaultType
  <2> QED
    BY <1>3, <2>2
<1>5. CASE slot.kind = "data" /\ slot.session # NoHandle
  <2> DEFINE h == slot.session
             s == session[h]
  <2>1. h \in Live /\ s \in Proper
    BY <1>1, <1>5, LiveTyped
  <2>2. PICK answer \in StatusAnswers :
          /\ session' = [session EXCEPT ![h] = Informed(s, "error", answer)]
          /\ told' = Tell(told, s.req, "error", answer)
          /\ fault' = fault
    BY <1>5 DEF CloseNetwork, AbortSend
  <2>3. "error" \in Reasons
    BY DEF Reasons
  <2>4. Becomes(Informed(s, "error", answer), session[h])
    BY <2>1, <2>3, InformedKeeps
  <2>5. ToldInv'
    BY <1>1, <2>2, <2>3, TellTyped DEF ToldInv
  <2>6. UNCHANGED <<list, active>>
    BY DEF CloseNetwork
  <2>7. Sound
    BY <1>1, <1>2, <2>1, <2>2, <2>4, <2>5, <2>6, RevisedSound
  <2> QED
    BY <1>3, <2>7
<1> QED
  BY <1>4, <1>5

\* Freeing a session when the connection is closed is sound.
LEMMA CleanupSessionSound ==
    ASSUME ConstantsAssumption, CoreInv, CleanupSession
    PROVE  Sound
<1>1. ListInv /\ ToldInv /\ SlotInv
  BY DEF CoreInv, StateInv
<1> DEFINE h == Head(list)
           s == session[h]
<1>2. h \in Live /\ s \in Proper
  <2>1. list \in Seq(Handles) /\ list # << >>
    BY <1>1 DEF CleanupSession, ListInv
  <2>2. Head(list) = list[1] /\ 1 \in 1 .. Len(list)
    BY <2>1
  <2>3. Head(list) \in Live
    BY <1>1, <2>2 DEF ListInv, Elements
  <2> QED
    BY <1>1, <2>3, LiveTyped
<1>3. slot' \in SlotType /\ slot'.session \in (Live \ {h}) \cup {NoHandle}
      /\ bufInUse' \in BOOLEAN
  BY <1>1, DanglingTyped DEF CleanupSession, SlotInv
<1>4. told \in ToldType /\ current \in Live \cup {NoHandle}
  BY <1>1 DEF ToldInv, ListInv
<1>5. Becomes(s, session[h])
  BY <1>2 DEF Becomes, SameKey
<1>6. CASE s.st \in {"delete", "send_error"}
  <2>1. DeleteSession(h, s, told, current)
    BY <1>6 DEF CleanupSession
  <2> QED
    BY <1>2, <1>3, <1>4, <1>5, <2>1, DeletedSound
<1>7. CASE s.st \notin {"delete", "send_error"}
  <2>1. PICK answer \in StatusAnswers :
          DeleteSession(h, IF s.rt = "none" THEN s ELSE Informed(s, "cancel", answer),
                        Tell(told, s.req, "cancel", answer), current)
    BY <1>7 DEF CleanupSession
  <2>2. Becomes(IF s.rt = "none" THEN s ELSE Informed(s, "cancel", answer), session[h])
    BY <1>2, <1>5, InformedKeeps DEF Reasons
  <2>3. Tell(told, s.req, "cancel", answer) \in ToldType
    BY <1>4, TellTyped DEF Reasons
  <2> HIDE DEF h
  <2> QED
    BY <1>2, <1>3, <1>4, <2>1, <2>2, <2>3, DeletedSound
<1> QED
  BY <1>6, <1>7

\* Dropping a request that has no session is sound.
LEMMA CleanupRequestSound ==
    ASSUME ConstantsAssumption, CoreInv, QueueInv, CleanupRequest
    PROVE  Sound /\ QueueInv'
<1>1. /\ slot \in SlotType /\ bufInUse \in BOOLEAN /\ ToldInv
      /\ UNCHANGED <<listVars, lastId, sendVars, fault>>
  BY DEF CoreInv, SlotInv, CleanupRequest
<1>2. ToldInv' /\ QueueInv'
  <2>1. CASE pending[NextPending] = NoRequest
    BY <1>1, <2>1 DEF CleanupRequest, ToldInv, QueueInv
  <2>2. CASE pending[NextPending] # NoRequest
    <3>1. PICK answer \in StatusAnswers :
            told' = Tell(told, pending[NextPending], "cancel", answer)
      BY <2>2 DEF CleanupRequest
    <3>2. told' \in ToldType
      BY <1>1, <3>1, TellTyped DEF ToldInv, Reasons
    <3>3. pending' = [pending EXCEPT ![NextPending] = NoRequest]
      BY <2>2 DEF CleanupRequest
    <3> QED
      BY <1>1, <3>2, <3>3 DEF ToldInv, QueueInv
  <2> QED
    BY <2>1, <2>2
<1> QED
  BY <1>1, <1>2, Untouched DEF sendVars

\* A packet joins the stream.
LEMMA SentTyped ==
    ASSUME PacketInv, NEW p \in Packets, Keyed(p), CloudSends(p),
           conv' \in ConvType
    PROVE  PacketInv'
<1>1. /\ inbound \in Seq(Packets) /\ inbound' = Append(inbound, p)
      /\ UNCHANGED <<held, result>>
  BY DEF PacketInv, CloudSends
<1>2. inbound' \in Seq(Packets) /\ Len(inbound') = Len(inbound) + 1
  BY <1>1
<1>3. ASSUME NEW i \in 1 .. Len(inbound')
      PROVE  Keyed(inbound'[i])
  <2>1. inbound'[i] = IF i = Len(inbound) + 1 THEN p ELSE inbound[i]
    BY <1>1, <1>2
  <2>2. i # Len(inbound) + 1 => i \in 1 .. Len(inbound)
    BY <1>1, <1>2
  <2> QED
    BY <2>1, <2>2 DEF PacketInv
<1> QED
  BY <1>1, <1>2, <1>3 DEF PacketInv

\* So is every step of Device Cloud.
LEMMA CloudSound ==
    ASSUME ConstantsAssumption, CoreInv, PacketInv, QueueInv, Cloud
    PROVE  Sound /\ PacketInv' /\ QueueInv'
<1> DEFINE V == [phase: {"none", "receiving", "replying", "answered", "sending", "waiting"},
                 count: Nat, acked: Nat]
<1>1. PICK key \in Keys :
        \/ CloudAck(key)
        \/ CloudReply(key)
        \/ \E last \in BOOLEAN : CloudStart(key, last) \/ CloudData(key, last)
        \/ CloudError(key)
  BY DEF Cloud
<1>2. /\ key[1] \in Owners /\ key[2] \in Nat /\ key = <<key[1], key[2]>>
  <2>1. CASE key \in {"client"} \X (1 .. MaxId)
    <3>1. PICK n \in 1 .. MaxId : key = <<"client", n>>
      BY <2>1
    <3> QED
      BY <3>1 DEF Owners
  <2>2. CASE key \in {"cloud"} \X CloudIds
    <3>1. key = <<key[1], key[2]>> /\ key[1] = "cloud" /\ key[2] \in CloudIds
      BY <2>2
    <3> QED
      BY <3>1 DEF Owners, ConstantsAssumption
  <2> QED
    BY <2>1, <2>2 DEF Keys
<1>3. conv \in [Keys -> V] /\ ConvType = [Keys -> V] /\ conv[key] \in V
  BY DEF PacketInv, ConvType
<1>4. ASSUME NEW p, CloudSends(p)
      PROVE  Sound /\ QueueInv'
  <2>1. UNCHANGED <<listVars, told, sendVars, fault, lastId, pending>>
    BY <1>4 DEF CloudSends
  <2>2. Sound
    BY <2>1, Untouched DEF CoreInv, SlotInv, ToldInv, sendVars
  <2> QED
    BY <2>1, <2>2 DEF QueueInv
<1>5. ASSUME NEW v \in V
      PROVE  [conv EXCEPT ![key] = v] \in ConvType
  BY <1>3
<1>6. /\ \A n \in Nat : Conversation("answered", n) \in V
      /\ Conversation("waiting", 1) \in V /\ Conversation("sending", 1) \in V
      /\ NoConversation \in V
  BY DEF Conversation, NoConversation
<1>7. CASE CloudAck(key)
  <2> DEFINE p == [op |-> "ack", owner |-> key[1], id |-> key[2],
                   count |-> conv[key].count]
  <2>1. p \in Packets /\ Keyed(p)
    BY <1>2, <1>3 DEF Packets, AckPacket, Keyed
  <2>2. CloudSends(p) /\ conv' = [conv EXCEPT ![key].acked = conv[key].count]
    BY <1>7 DEF CloudAck
  <2>3. conv' \in ConvType
    BY <1>3, <2>2
  <2> HIDE DEF p
  <2> QED
    BY <1>4, <2>1, <2>2, <2>3, SentTyped
<1>8. CASE CloudReply(key)
  <2> DEFINE p == [op |-> "start", owner |-> key[1], id |-> key[2], last |-> TRUE]
  <2>1. p \in Packets /\ Keyed(p)
    BY <1>2 DEF Packets, DataPacket, Keyed
  <2>2. CloudSends(p) /\ conv' = [conv EXCEPT ![key] = Conversation("answered", 0)]
    BY <1>8 DEF CloudReply
  <2>3. conv' \in ConvType
    BY <1>5, <1>6, <2>2
  <2> HIDE DEF p
  <2> QED
    BY <1>4, <2>1, <2>2, <2>3, SentTyped
<1>9. ASSUME NEW last \in BOOLEAN, CloudStart(key, last)
      PROVE  Sound /\ PacketInv' /\ QueueInv'
  <2> DEFINE p == [op |-> "start", owner |-> key[1], id |-> key[2], last |-> last]
  <2>1. p \in Packets /\ Keyed(p)
    BY <1>2 DEF Packets, DataPacket, Keyed
  <2>2. CloudSends(p)
    BY <1>9 DEF CloudStart
  <2>3. conv' \in ConvType
    BY <1>5, <1>6, <1>9 DEF CloudStart
  <2> HIDE DEF p
  <2> QED
    BY <1>4, <2>1, <2>2, <2>3, SentTyped
<1>10. ASSUME NEW last \in BOOLEAN, CloudData(key, last)
       PROVE  Sound /\ PacketInv' /\ QueueInv'
  <2> DEFINE p == [op |-> "data", owner |-> key[1], id |-> key[2], last |-> last]
             n == conv[key].count + 1
             ph == IF last THEN "waiting" ELSE conv[key].phase
  <2>1. p \in Packets /\ Keyed(p)
    BY <1>2 DEF Packets, DataPacket, Keyed
  <2>2. CloudSends(p)
    BY <1>10 DEF CloudData
  <2>3. conv' = [conv EXCEPT ![key].count = n, ![key].phase = ph]
    BY <1>10 DEF CloudData
  <2>4. n \in Nat /\ ph \in {"none", "receiving", "replying", "answered", "sending", "waiting"}
    BY <1>3
  <2> HIDE DEF n, ph, p
  <2>5. conv' = [conv EXCEPT ![key] = [conv[key] EXCEPT !.count = n, !.phase = ph]]
    BY <1>3, <2>3
  <2>6. [conv[key] EXCEPT !.count = n, !.phase = ph] \in V
    BY <1>3, <2>4
  <2>7. conv' \in ConvType
    BY <1>5, <2>5, <2>6
  <2> QED
    BY <1>4, <2>1, <2>2, <2>7, SentTyped
<1>11. CASE CloudError(key)
  <2> DEFINE sends == conv[key].phase \in {"sending", "waiting", "replying"}
             p == [op |-> "error", id |-> key[2], sender |-> sends,
                   request |-> IF key[1] = "cloud" THEN sends ELSE ~sends]
  <2>1. p \in Packets /\ Keyed(p)
    <3>1. p.op = "error"
      OBVIOUS
    <3>2. sends \in BOOLEAN
      OBVIOUS
    <3> HIDE DEF sends
    <3>3. (IF key[1] = "cloud" THEN sends ELSE ~sends) \in BOOLEAN
      BY <3>2
    <3>4. p \in ErrorPacket
      BY <1>2, <3>2, <3>3 DEF ErrorPacket
    <3> QED
      BY <3>1, <3>4 DEF Packets, Keyed
  <2>2. CloudSends(p) /\ conv' = [conv EXCEPT ![key] = NoConversation]
    BY <1>11 DEF CloudError
  <2>3. conv' \in ConvType
    BY <1>5, <1>6, <2>2
  <2> HIDE DEF p
  <2> QED
    BY <1>4, <2>1, <2>2, <2>3, SentTyped
<1> QED
  BY <1>1, <1>7, <1>8, <1>9, <1>10, <1>11

\* Queueing a request is sound.
LEMMA InitiateSound ==
    ASSUME ConstantsAssumption, CoreInv, QueueInv, NEW req \in Requests, Initiate(req)
    PROVE  Sound /\ QueueInv'
<1>1. UNCHANGED <<listVars, lastId, sendVars, fault>>
  BY DEF Initiate
<1>2. ToldInv'
  BY <1>1 DEF Initiate, CoreInv, ToldInv, ToldType
<1>3. QueueInv'
  BY <1>1 DEF Initiate, QueueInv
<1> QED
  BY <1>1, <1>2, <1>3, Untouched DEF CoreInv, SlotInv, sendVars

-----------------------------------------------------------------------------
\* The inductive invariant of the sessions, the slot, the packets and the
\* queue.
TypeInv ==
    /\ CoreInv
    /\ PacketInv
    /\ QueueInv
    /\ pc \in {"send", "receive", "start", "poll",
               "close", "cleanup", "down", "ended"}

\* It holds at the start.
LEMMA TypeInit == ConstantsAssumption /\ Init => TypeInv
<1> SUFFICES ASSUME ConstantsAssumption, Init
             PROVE  TypeInv
  OBVIOUS
<1>1. Live = {} /\ session \in [Handles -> Proper \cup {Free}]
  BY DEF Init, Live
<1>2. ListInv
  BY <1>1 DEF Init, ListInv, Once, Elements
<1>3. CountInv
  <2>1. \A owner \in Owners : Of(owner) = {}
    BY <1>1 DEF Of
  <2>2. Cardinality({}) = 0
    BY FS_EmptySet
  <2>3. active = [owner \in Owners |-> 0]
    BY DEF Init
  <2>4. \A owner \in Owners : MaxTransactions[owner] \in Nat
    BY DEF ConstantsAssumption
  <2>5. ASSUME NEW owner \in Owners
        PROVE  /\ active[owner] = Cardinality(Of(owner))
               /\ MaxTransactions[owner] # 0 => active[owner] <= MaxTransactions[owner]
    BY <2>1, <2>2, <2>3, <2>4
  <2>6. active \in [Owners -> Nat]
    BY <2>3
  <2> QED
    BY <2>5, <2>6 DEF CountInv
<1>4. KeyInv
  BY <1>1 DEF KeyInv, IdsUnique
<1>5. SlotInv
  BY NoSlotTyped DEF Init, SlotInv
<1>6. ToldInv
  BY DEF Init, ToldInv, ToldType, FaultType
<1>7. PacketInv
  <2>1. held = NoPacket /\ inbound = << >> /\ result = "idle"
    BY DEF Init
  <2>2. conv \in ConvType
    BY DEF Init, NoConversation, ConvType
  <2> QED
    BY <2>1, <2>2 DEF PacketInv, Keyed, NoPacket, Results
<1>8. QueueInv
  BY DEF Init, QueueInv, ConstantsAssumption
<1> QED
  BY <1>2, <1>3, <1>4, <1>5, <1>6, <1>7, <1>8 DEF TypeInv, CoreInv, StateInv, Init

\* Every step keeps it.
LEMMA TypeStep == ConstantsAssumption /\ TypeInv /\ [Next]_vars => TypeInv'
<1> SUFFICES ASSUME ConstantsAssumption, TypeInv, [Next]_vars
             PROVE  TypeInv'
  OBVIOUS
<1> USE DEF TypeInv
<1>1. Sound => CoreInv'
  BY SoundKeeps
<1>2. CASE SendStep
  <2>1. QueueInv' /\ pc' = "receive"
    BY <1>2 DEF SendStep, QueueInv
  <2> QED
    BY <1>1, <1>2, <2>1, SendStepSound
<1>3. CASE ReceiveStep
  <2>1. QueueInv' /\ pc' = "start"
    BY <1>3 DEF ReceiveStep, QueueInv
  <2> QED
    BY <1>1, <1>3, <2>1, ReceiveStepSound
<1>4. CASE StartStep
  <2>1. PacketInv' /\ pc' = "poll"
    BY <1>4 DEF StartStep, recvVars, PacketInv
  <2> QED
    BY <1>1, <1>4, <2>1, StartStepSound
<1>5. CASE PollStep
  <2>1. QueueInv' /\ pc' = "send"
    BY <1>5 DEF PollStep, QueueInv
  <2> QED
    BY <1>1, <1>5, <2>1, PollStepSound
<1>6. CASE CloseNetwork
  <2>1. QueueInv' /\ pc' = "cleanup"
    BY <1>6 DEF CloseNetwork, QueueInv
  <2> QED
    BY <1>1, <1>6, <2>1, CloseNetworkSound
<1>7. CASE CleanupSession
  <2>1. QueueInv' /\ PacketInv' /\ pc' = pc
    BY <1>7 DEF CleanupSession, QueueInv, PacketInv, recvVars
  <2> QED
    BY <1>1, <1>7, <2>1, CleanupSessionSound
<1>8. CASE CleanupRequest
  <2>1. PacketInv' /\ pc' = "down"
    BY <1>8 DEF CleanupRequest, PacketInv, recvVars
  <2> QED
    BY <1>1, <1>8, <2>1, CleanupRequestSound
<1>9. CASE Disconnect \/ Reopen \/ Terminate
  <2>1. /\ UNCHANGED <<listVars, told, sendVars, fault, lastId, result, inbound, conv>>
        /\ pc' \in {"close", "send", "ended"}
        /\ held' \in {held, NoPacket}
    BY <1>9 DEF Disconnect, Reopen, Terminate, recvVars
  <2>2. QueueInv'
    BY <1>9 DEF Disconnect, Reopen, Terminate, QueueInv
  <2>3. PacketInv'
    <3>1. CASE held' = held
      BY <2>1, <3>1 DEF PacketInv, Keyed
    <3>2. CASE held' = NoPacket
      <4>1. Keyed(NoPacket)
        BY DEF Keyed, NoPacket
      <4> QED
        BY <2>1, <3>2, <4>1 DEF PacketInv, Keyed
    <3> QED
      BY <2>1, <3>1, <3>2
  <2>4. Sound
    BY <2>1, Untouched DEF CoreInv, SlotInv, ToldInv, sendVars
  <2> QED
    BY <1>1, <2>1, <2>2, <2>3, <2>4
<1>10. CASE Cloud
  <2>1. pc' = pc
    BY <1>10 DEF Cloud, CloudAck, CloudReply, CloudStart, CloudData, CloudError,
                 CloudSends
  <2> QED
    BY <1>1, <1>10, <2>1, CloudSound
<1>11. ASSUME NEW req \in Requests, Initiate(req)
       PROVE  TypeInv'
  <2>1. PacketInv' /\ pc' = pc
    BY <1>11 DEF Initiate, PacketInv, recvVars
  <2> QED
    BY <1>1, <1>11, <2>1, InitiateSound
<1>12. CASE UNCHANGED vars
  <2>1. /\ UNCHANGED <<listVars, told, sendVars, fault, lastId, pending, pc, recvVars, conv>>
    BY <1>12 DEF vars, listVars, sendVars, recvVars
  <2>2. Sound
    BY <2>1, Untouched DEF CoreInv, SlotInv, ToldInv, sendVars
  <2> QED
    BY <1>1, <2>1, <2>2 DEF recvVars, PacketInv, QueueInv
<1> QED
  BY <1>2, <1>3, <1>4, <1>5, <1>6, <1>7, <1>8, <1>9, <1>10, <1>11, <1>12
     DEF Next, Step, Closing

\* The sessions, the slot, the packets and the queue are always in order.
THEOREM TypeInvariant == Spec => []TypeInv
BY TypeInit, TypeStep, ConstantsAssumption, PTL DEF Spec

\* Every variable always has its type.
THEOREM TypeCorrect == Spec => []TypeOK
<1>1. TypeInv => TypeOK
  <2> SUFFICES ASSUME TypeInv
               PROVE  TypeOK
    OBVIOUS
  <2>1. /\ session \in [Handles -> Proper \cup {Free}]
        /\ list \in Seq(Handles)
        /\ current \in Handles \cup {NoHandle}
        /\ active \in [Owners -> Nat]
    BY DEF TypeInv, CoreInv, StateInv, ListInv, CountInv, Live, Proper
  <2>3. session \in [Handles -> Session \cup {Free}]
    BY <2>1 DEF Proper
  <2>2. /\ told \in ToldType /\ slot \in SlotType /\ bufInUse \in BOOLEAN
        /\ fault \in FaultType
    BY DEF TypeInv, CoreInv, SlotInv, ToldInv
  <2> QED
    BY <2>1, <2>2, <2>3 DEF TypeInv, TypeOK, PacketInv, QueueInv, ToldType, SlotType, SlotPackets,
       ConvType, FaultType, Results, Statuses
<1> QED
  BY <1>1, TypeInvariant, PTL

\* The list, the transaction counts and the sessions in memory agree, and the
\* limits hold: msg_create_session and msg_delete_session lose no session and
\* count none twice, and session.current is never a freed session.
THEOREM SessionsAreAccounted == Spec => []SessionsAccounted
<1>1. TypeInv => SessionsAccounted
  <2> SUFFICES ASSUME TypeInv
               PROVE  SessionsAccounted
    OBVIOUS
  <2>1. /\ list \in Seq(Handles) /\ Once(list) /\ Elements(list) = Live
        /\ current \in Live \cup {NoHandle} /\ CountInv
    BY DEF TypeInv, CoreInv, StateInv, ListInv
  <2>2. Len(list) = Cardinality(Live)
    BY <2>1, LengthCounts
  <2> QED
    BY <2>1, <2>2 DEF SessionsAccounted, CountInv, Of, Elements
<1> QED
  BY <1>1, TypeInvariant, PTL

\* No two sessions answer to the same id, also after the ids wrapped
\* (msg_find_next_available_id).
THEOREM IdsAreUnique == Spec => []IdsUnique
<1>1. TypeInv => IdsUnique
  BY DEF TypeInv, CoreInv, StateInv, KeyInv
<1> QED
  BY <1>1, TypeInvariant, PTL

\* The error msg_set_error prepares names the owner of its session.
THEOREM ErrorsNameSessions == Spec => []ErrorsNameTheirSession
<1>1. TypeInv => ErrorsNameTheirSession
  <2>1. TypeInv => \A h \in Live : session[h] \in Proper
    BY LiveTyped DEF TypeInv, CoreInv, StateInv
  <2> QED
    BY <2>1 DEF ErrorsNameTheirSession, Proper
<1> QED
  BY <1>1, TypeInvariant, PTL

-----------------------------------------------------------------------------
(***************************************************************************)
(* What the messaging facility promises to the owner of a message: that it *)
(* is told once how the message ended and not forgotten, that a put        *)
(* request is "complete" only when Device Cloud has it (PutService), and   *)
(* that nothing freed is read on the way.                                  *)
(*                                                                         *)
(* ToldOnce depends on which of the queue, a session and nobody answers    *)
(* for a request, and on what that session remembers: its request type is  *)
(* "status" from the first status call on.  A step is proved to be Quiet,  *)
(* to inform the owner of one session (Informs), to end one session whose  *)
(* owner was told (Ended), or to give a request to a new session.          *)
(*                                                                         *)
(* That PutService is implemented depends on what Device Cloud and the     *)
(* device know of each other: TalkInv relates the phase of a conversation, *)
(* the packets under way, the send slot and the sessions.  It holds only   *)
(* of a Device Cloud that ends no message with an error: a response that   *)
(* is under way when the device gives up its session may otherwise find    *)
(* the next session with the same id.  ContextInv then shows that every    *)
(* session has the context its next callback needs.                        *)
(***************************************************************************)

\* What the owner of a live session was told so far.
Due(h) ==
    IF session[h].rt # "status" THEN told[session[h].req] = "waiting"
    ELSE \/ told[session[h].req] = "busy"
         \/ /\ pc = "cleanup"
            /\ session[h].st \in {"delete", "send_error"}
            /\ told[session[h].req] # "waiting"

\* No two sessions bear the same message.
Bearing == \A g, h \in Live : session[g].req = session[h].req => g = h

\* A pending request waits, and has no session yet.
Waiting(who) ==
    pending[who] # NoRequest =>
        /\ told[pending[who]] = "waiting"
        /\ \A h \in Live : session[h].req # pending[who]

\* Somebody still answers for the request: the queue or a session.
Represented(req) ==
    \/ \E who \in {"user", "internal"} : pending[who] = req
    \/ \E h \in Live : session[h].req = req

\* The inductive invariant of the owners: a request is waiting only while it
\* is queued or has exactly one session, whose request type says whether its
\* owner was told.
RequestInv ==
    /\ ToldOnce
    /\ Bearing
    /\ \A h \in Live : Due(h)
    /\ pending["user"] \in UserRequests \cup {NoRequest}
    /\ pending["internal"] \in InternalRequests \cup {NoRequest}
    /\ \A who \in {"user", "internal"} : Waiting(who)
    /\ pc \in {"down", "ended"} => Live = {}
    /\ pc # "ended" =>
          \A req \in Requests : told[req] = "waiting" => Represented(req)

\* The ways in which a step may treat the owners of the messages.
SameMark(s1, s) == s1.rt = "status" <=> s.rt = "status"

\* ... nobody is told anything;
Quiet ==
    /\ UNCHANGED <<told, pending>>
    /\ Live' = Live
    /\ \A h \in Live :
          /\ SameKey(session'[h], session[h])
          /\ SameMark(session'[h], session[h])

\* ... a session ends and its owner was told;
Ended(h) ==
    /\ h \in Live
    /\ session' = [session EXCEPT ![h] = Free]
    /\ pending' = pending
    /\ \A req \in Talks \ {session[h].req} : told'[req] = told[req]
    /\ told'[session[h].req] # "twice"
    /\ session[h].req \in Requests => told'[session[h].req] # "waiting"

\* ... an owner is told and the session remembers it.
Informs(h) ==
    /\ h \in Live
    /\ \E s : /\ session' = [session EXCEPT ![h] = s]
              /\ Becomes(s, session[h])
              /\ s.rt = "status"
    /\ pending' = pending
    /\ \A req \in Talks \ {session[h].req} : told'[req] = told[req]
    /\ told'[session[h].req] \notin {"waiting", "twice"}
    /\ Due(h)'

\* What the type invariant says of one session.
LEMMA RequestTyped ==
    ASSUME TypeInv, NEW h \in Live
    PROVE  /\ h \in Handles /\ session[h] \in Proper /\ session[h].req \in Talks
           /\ session[h].owner = "cloud" => session[h].req \in CloudIds
           /\ session[h].owner = "client" => session[h].req \in Requests
           /\ session[h].owner \in Owners
<1>1. ListInv /\ KeyInv
  BY DEF TypeInv, CoreInv, StateInv
<1>2. h \in Handles /\ session[h] \in Proper /\ session[h].owner \in Owners
  BY <1>1, LiveTyped
<1>3. session[h].owner = "cloud" => session[h].req \in CloudIds
  BY <1>1 DEF KeyInv, Keys
<1>4. session[h].owner = "client" => session[h].req \in Requests
  BY <1>1 DEF KeyInv
<1> QED
  BY <1>2, <1>3, <1>4 DEF Talks, Owners

\* A step that tells nobody keeps the invariant.
LEMMA QuietKeeps ==
    ASSUME TypeInv, RequestInv, Quiet, pc # "cleanup",
           pc' \in {"down", "ended"} => Live = {},
           pc = "ended" => pc' = "ended"
    PROVE  RequestInv'
<1>1. /\ Live' = Live /\ told' = told /\ pending' = pending
      /\ \A h \in Live : /\ session'[h].req = session[h].req
                         /\ session'[h].rt = "status" <=> session[h].rt = "status"
  BY DEF Quiet, SameKey, SameMark
<1>2. Bearing' /\ ToldOnce'
  BY <1>1 DEF RequestInv, Bearing, ToldOnce
<1>3. \A h \in Live : Due(h)'
  BY <1>1 DEF RequestInv, Due
<1>4. \A who \in {"user", "internal"} : Waiting(who)'
  BY <1>1 DEF RequestInv, Waiting
<1>5. \A req : Represented(req) => Represented(req)'
  BY <1>1 DEF Represented
<1> QED
  BY <1>1, <1>2, <1>3, <1>4, <1>5 DEF RequestInv

\* A step that ends a session keeps the invariant.
LEMMA EndedKeeps ==
    ASSUME ConstantsAssumption, TypeInv, RequestInv, NEW h, Ended(h),
           pc = "cleanup" => pc' = "cleanup",
           pc' \notin {"down", "ended"}, pc # "ended"
    PROVE  RequestInv'
<1> DEFINE r == session[h].req
<1>0. session \in [Handles -> Proper \cup {Free}]
  BY DEF TypeInv, CoreInv, StateInv, ListInv
<1>1. /\ Live' = Live \ {h}
      /\ \A g \in Live \ {h} : session'[g] = session[g] /\ session[g].req # r
  BY <1>0, RequestTyped DEF Ended, Live, RequestInv, Bearing
<1>2. \A g \in Live : session[g].req \in Talks
  BY RequestTyped
<1>3. /\ pending' = pending
      /\ \A req \in Talks \ {r} : told'[req] = told[req]
      /\ told'[r] # "twice"
      /\ r \in Requests => told'[r] # "waiting"
  BY DEF Ended
<1> HIDE DEF r
<1>4. Bearing' /\ ToldOnce'
  BY <1>1, <1>3 DEF RequestInv, Bearing, ToldOnce
<1>5. ASSUME NEW g \in Live'
      PROVE  Due(g)'
  <2>1. g \in Live /\ g # h /\ Due(g)
    BY <1>1 DEF RequestInv
  <2>2. told'[session[g].req] = told[session[g].req]
    BY <1>1, <1>2, <1>3, <2>1
  <2> QED
    BY <1>1, <2>1, <2>2 DEF Due
<1>6. ASSUME NEW who \in {"user", "internal"}
      PROVE  Waiting(who)'
  <2>1. pending[who] \in Requests \cup {NoRequest} /\ Waiting(who)
    BY DEF RequestInv, Requests
  <2>2. pending[who] # NoRequest => pending[who] # r /\ pending[who] \in Talks
    BY <2>1 DEF Waiting, Ended, Talks, r
  <2> QED
    BY <1>1, <1>3, <2>1, <2>2 DEF Waiting
<1>7. ASSUME NEW req \in Requests, told'[req] = "waiting"
      PROVE  Represented(req)'
  <2>1. req # r /\ req \in Talks
    BY <1>3, <1>7 DEF Talks
  <2>2. Represented(req)
    BY <1>3, <1>7, <2>1 DEF RequestInv
  <2>3. ASSUME NEW g \in Live, session[g].req = req
        PROVE  g \in Live' /\ session'[g].req = req
    BY <1>1, <2>1, <2>3 DEF r
  <2> QED
    BY <1>3, <2>2, <2>3 DEF Represented
<1> QED
  BY <1>3, <1>4, <1>5, <1>6, <1>7 DEF RequestInv

\* A step that tells an owner keeps the invariant.
LEMMA InformsKeeps ==
    ASSUME ConstantsAssumption, TypeInv, RequestInv, NEW h, Informs(h),
           pc # "cleanup", pc' \notin {"down", "ended"}, pc # "ended"
    PROVE  RequestInv'
<1> DEFINE r == session[h].req
<1>0. session \in [Handles -> Proper \cup {Free}] /\ h \in Handles
  BY RequestTyped DEF TypeInv, CoreInv, StateInv, ListInv, Informs
<1>1. PICK s : /\ session' = [session EXCEPT ![h] = s]
               /\ Becomes(s, session[h]) /\ s.rt = "status"
  BY DEF Informs
<1>2. Live' = Live
  BY <1>0, <1>1, FreeIsNoSession DEF Live, Becomes, Informs
<1>3. /\ session'[h].req = r
      /\ \A g \in Live \ {h} : session'[g] = session[g] /\ session[g].req # r
  BY <1>0, <1>1 DEF Becomes, SameKey, RequestInv, Bearing, Informs, Live
<1>4. \A g \in Live : session[g].req \in Talks
  BY RequestTyped
<1>5. /\ pending' = pending
      /\ \A req \in Talks \ {r} : told'[req] = told[req]
      /\ told'[r] \notin {"waiting", "twice"}
      /\ Due(h)'
  BY DEF Informs
<1>6. \A g \in Live : session'[g].req = session[g].req
  BY <1>3
<1> HIDE DEF r
<1>7. Bearing' /\ ToldOnce'
  BY <1>2, <1>5, <1>6 DEF RequestInv, Bearing, ToldOnce
<1>8. ASSUME NEW g \in Live'
      PROVE  Due(g)'
  <2>1. CASE g = h
    BY <1>5, <2>1
  <2>2. CASE g # h
    <3>1. g \in Live /\ Due(g) /\ told'[session[g].req] = told[session[g].req]
      BY <1>2, <1>3, <1>4, <1>5, <2>2 DEF RequestInv
    <3> QED
      BY <1>3, <2>2, <3>1 DEF Due
  <2> QED
    BY <2>1, <2>2
<1>9. ASSUME NEW who \in {"user", "internal"}
      PROVE  Waiting(who)'
  <2>1. pending[who] \in Requests \cup {NoRequest} /\ Waiting(who)
    BY DEF RequestInv, Requests
  <2>2. pending[who] # NoRequest => pending[who] # r /\ pending[who] \in Talks
    BY <2>1 DEF Waiting, Informs, Talks, r
  <2> QED
    BY <1>2, <1>5, <1>6, <2>1, <2>2 DEF Waiting
<1>10. ASSUME NEW req \in Requests, told'[req] = "waiting"
      PROVE  Represented(req)'
  <2>1. req # r /\ req \in Talks
    BY <1>5, <1>10 DEF Talks
  <2>2. Represented(req)
    BY <1>5, <1>10, <2>1 DEF RequestInv
  <2> QED
    BY <1>2, <1>5, <1>6, <2>2 DEF Represented
<1> QED
  BY <1>2, <1>5, <1>7, <1>8, <1>9, <1>10 DEF RequestInv

-----------------------------------------------------------------------------
\* A step that gives a request its session keeps the invariant.
LEMMA BegunKeeps ==
    ASSUME ConstantsAssumption, TypeInv, RequestInv, NEW h \in Handles \ Live,
           NEW s \in Proper, s.rt # "status", s.req \in Talks,
           session' = [session EXCEPT ![h] = s],
           told'[s.req] = "waiting",
           \A req \in Talks \ {s.req} : told'[req] = told[req],
           \A g \in Live : session[g].req # s.req,
           DOMAIN pending' = {"user", "internal"},
           \A who \in {"user", "internal"} :
              pending'[who] = IF pending[who] = s.req THEN NoRequest ELSE pending[who],
           pc \notin {"cleanup", "ended"}, pc' \notin {"down", "ended"}
    PROVE  RequestInv'
<1>0. session \in [Handles -> Proper \cup {Free}]
  BY DEF TypeInv, CoreInv, StateInv, ListInv
<1>1. /\ Live' = Live \cup {h} /\ h \notin Live
      /\ session'[h] = s
      /\ \A g \in Live : session'[g] = session[g] /\ g # h
  BY <1>0, FreeIsNoSession DEF Live
<1>2. \A g \in Live : session[g].req \in Talks
  BY RequestTyped
<1>3. Bearing' /\ ToldOnce'
  BY <1>1 DEF RequestInv, Bearing, ToldOnce
<1>4. ASSUME NEW g \in Live'
      PROVE  Due(g)'
  <2>1. CASE g = h
    BY <1>1, <2>1 DEF Due
  <2>2. CASE g # h
    <3>1. g \in Live /\ Due(g) /\ told'[session[g].req] = told[session[g].req]
      BY <1>1, <1>2, <2>2 DEF RequestInv
    <3> QED
      BY <1>1, <2>2, <3>1 DEF Due
  <2> QED
    BY <2>1, <2>2
<1>5. ASSUME NEW who \in {"user", "internal"}
      PROVE  Waiting(who)'
  <2>1. pending[who] \in Requests \cup {NoRequest} /\ Waiting(who)
    BY DEF RequestInv, Requests
  <2>2. pending'[who] # NoRequest =>
           pending'[who] = pending[who] /\ pending[who] # s.req /\ pending[who] \in Talks
    BY <2>1 DEF Talks
  <2> QED
    BY <1>1, <2>1, <2>2 DEF Waiting
<1>6. ASSUME NEW req \in Requests, told'[req] = "waiting"
      PROVE  Represented(req)'
  <2>1. CASE req = s.req
    BY <1>1, <2>1 DEF Represented
  <2>2. CASE req # s.req
    <3>1. Represented(req)
      BY <1>6, <2>2 DEF RequestInv, Talks
    <3>2. \A g \in Live : session[g].req = req => g \in Live' /\ session'[g].req = req
      BY <1>1
    <3>3. \A who \in {"user", "internal"} : pending[who] = req => pending'[who] = req
      BY <2>2
    <3> QED
      BY <3>1, <3>2, <3>3 DEF Represented
  <2> QED
    BY <2>1, <2>2
<1>7. /\ pending'["user"] \in UserRequests \cup {NoRequest}
      /\ pending'["internal"] \in InternalRequests \cup {NoRequest}
  BY DEF RequestInv
<1> QED
  BY <1>3, <1>4, <1>5, <1>6, <1>7 DEF RequestInv

\* The status of a message whose owner awaits it.
LEMMA TellIs ==
    ASSUME NEW t \in ToldType, NEW req \in Talks, t[req] \in {"waiting", "busy"},
           NEW reason \in Reasons, NEW answer
    PROVE  /\ \A r \in Talks \ {req} : Tell(t, req, reason, answer)[r] = t[r]
           /\ Tell(t, req, reason, answer)[req] =
                 IF answer = "busy" THEN "busy" ELSE Outcome(reason)
           /\ Outcome(reason) \in {"complete", "cancel", "error"}
BY DEF Tell, ToldType, Outcome, Reasons

\* A session that ends tells its owner, who was told nothing.
LEMMA DeletionEnds ==
    ASSUME ConstantsAssumption, TypeInv, RequestInv, NEW h \in Live, NEW cursor,
           DeleteSession(h, session[h], told, cursor), pending' = pending
    PROVE  Ended(h)
<1> DEFINE s == session[h]
<1>1. /\ s \in Proper /\ s.req \in Talks /\ s.owner \in Owners
      /\ s.owner = "cloud" => s.req \in CloudIds
      /\ s.reason \in Reasons
  BY RequestTyped DEF Proper, Session, Reasons
<1>2. session' = [session EXCEPT ![h] = Free]
  BY DEF DeleteSession
<1>3. told \in ToldType /\ Due(h) /\ told[s.req] # "twice"
  BY <1>1 DEF TypeInv, CoreInv, ToldInv, RequestInv, ToldOnce
<1>4. CASE s.rt \in {"status", "none"}
  <2>1. told' = told
    BY <1>4 DEF DeleteSession
  <2>2. s.req \in Requests => s.rt # "none"
    BY <1>1 DEF ConstantsAssumption, Proper, Owners
  <2>3. s.req \in Requests => told[s.req] # "waiting"
    BY <1>3, <1>4, <2>2 DEF Due
  <2> QED
    BY <1>2, <1>3, <2>1, <2>3 DEF Ended
<1>5. CASE s.rt \notin {"status", "none"}
  <2>1. PICK answer \in StatusAnswers : told' = Tell(told, s.req, s.reason, answer)
    BY <1>5 DEF DeleteSession
  <2>2. told[s.req] \in {"waiting", "busy"}
    BY <1>3, <1>5 DEF Due
  <2>3. /\ \A r \in Talks \ {s.req} : told'[r] = told[r]
        /\ told'[s.req] \in {"busy", "complete", "cancel", "error"}
    BY <1>1, <1>3, <2>1, <2>2, TellIs
  <2> HIDE DEF s
  <2> QED
    BY <1>2, <2>3 DEF Ended, s
<1> QED
  BY <1>4, <1>5

\* A session that was told its end before it is deleted.
LEMMA ToldDeletionEnds ==
    ASSUME TypeInv, NEW h \in Live, told[session[h].req] \in {"waiting", "busy"},
           NEW s, s.rt \in {"status", "none"}, NEW reason \in Reasons, NEW answer,
           NEW cursor,
           DeleteSession(h, s, Tell(told, session[h].req, reason, answer), cursor),
           pending' = pending
    PROVE  Ended(h)
<1>1. /\ session' = [session EXCEPT ![h] = Free]
      /\ told' = Tell(told, session[h].req, reason, answer)
  BY DEF DeleteSession
<1>2. session[h].req \in Talks /\ told \in ToldType
  BY RequestTyped DEF TypeInv, CoreInv, ToldInv
<1>3. /\ \A r \in Talks \ {session[h].req} : told'[r] = told[r]
      /\ told'[session[h].req] \in {"busy", "complete", "cancel", "error"}
  BY <1>1, <1>2, TellIs
<1> QED
  BY <1>1, <1>3 DEF Ended

\* Telling the owner: the session remembers it.
LEMMA InformedTells ==
    ASSUME TypeInv, NEW h \in Live, told[session[h].req] \in {"waiting", "busy"},
           NEW reason \in Reasons, NEW answer,
           answer = "busy" \/ pc' = "cleanup",
           session' = [session EXCEPT ![h] = Informed(session[h], reason, answer)],
           told' = Tell(told, session[h].req, reason, answer), pending' = pending
    PROVE  Informs(h)
<1> DEFINE s == Informed(session[h], reason, answer)
<1>1. /\ h \in Handles /\ session[h] \in Proper /\ session[h].req \in Talks
      /\ told \in ToldType
  BY RequestTyped DEF TypeInv, CoreInv, ToldInv
<1>2. Becomes(s, session[h])
  BY <1>1, InformedKeeps
<1>3. s.rt = "status" /\ (answer # "busy" => s.st \in {"delete", "send_error"})
  <2> DEFINE s1 == [session[h] EXCEPT !.rt = "status", !.reason = reason]
  <2>1. s1.rt = "status" /\ SetError(s1).rt = s1.rt
        /\ SetError(s1).st \in {"delete", "send_error"}
    BY <1>1 DEF SetError, Proper, Session
  <2> QED
    BY <2>1 DEF Informed
<1>4. session'[h] = s
  BY <1>1 DEF TypeInv, CoreInv, StateInv, ListInv
<1> HIDE DEF s
<1>5. /\ \A r \in Talks \ {session[h].req} : told'[r] = told[r]
      /\ told'[session[h].req] = IF answer = "busy" THEN "busy" ELSE Outcome(reason)
      /\ Outcome(reason) \in {"complete", "cancel", "error"}
  BY <1>1, TellIs
<1>6. Due(h)'
  BY <1>2, <1>3, <1>4, <1>5 DEF Due, Becomes, SameKey
<1> QED
  BY <1>2, <1>3, <1>5, <1>6 DEF Informs, s

\* A change of one session that does not tell anybody.
LEMMA MarkedOne ==
    ASSUME TypeInv, NEW h \in Live, NEW s, Becomes(s, session[h]),
           SameMark(s, session[h]), session' = [session EXCEPT ![h] = s],
           UNCHANGED <<told, pending>>
    PROVE  Quiet
<1>1. session \in [Handles -> Proper \cup {Free}] /\ h \in Handles
  BY DEF TypeInv, CoreInv, StateInv, ListInv, Live
<1>2. Live' = Live /\ session'[h] = s /\ \A g \in Live \ {h} : session'[g] = session[g]
  BY <1>1, FreeIsNoSession DEF Live, Becomes
<1> QED
  BY <1>2 DEF Quiet, SameMark, Becomes, SameKey

\* A step that leaves sessions and owners alone tells nobody.
LEMMA QuietNone ==
    ASSUME UNCHANGED <<session, told, pending>>
    PROVE  Quiet
BY DEF Quiet, SameKey, SameMark, Live

\* Passing a packet to the service does not tell the owner anything.
LEMMA PassMarks ==
    ASSUME NEW s \in Proper, NEW p, p.last \in BOOLEAN, ConstantsAssumption,
           NEW answer \in PassAnswers(s)
    PROVE  SameMark(Pass(s, p, answer).s, s)
<1>1. ASSUME NEW s2 \in Proper, NEW last
      PROVE  Taken(s2, last).rt = s2.rt
  BY DEF Taken, FreshBlock, Proper, Session
<1>2. ASSUME NEW s2 \in Proper
      PROVE  SetError(s2).rt = s2.rt
  BY DEF SetError, Proper, Session
<1>3. CASE s.st # "receive"
  BY <1>3 DEF Pass, SameMark
<1>4. CASE s.st = "receive" /\ s.owner = "cloud"
  <2> DEFINE rt == IF s.rt = "none" THEN "target" ELSE s.rt
             d  == DeviceRequest(rt, p.last, answer)
             s1 == [s EXCEPT !.rt = d.rt, !.last = p.last]
  <2>1. CASE s.rt = "none" /\ answer = "no_memory"
    BY <1>4, <2>1 DEF Pass, PassDeviceRequest, SameMark, Proper, Session
  <2>2. CASE ~(s.rt = "none" /\ answer = "no_memory")
    <3>1. answer \in Taking
      BY <2>2 DEF PassAnswers, ConstantsAssumption, Taking
    <3>2. d.rt = "status" <=> s.rt = "status"
      BY <3>1 DEF DeviceRequest, Taking
    <3>3. rt \in RequestTypes
      BY DEF Proper, Session, RequestTypes
    <3>4. d.rt \in RequestTypes
      BY <3>1, <3>3, DeviceRequestTyped
    <3>5. s1 \in Proper /\ s1.rt = d.rt
      BY ZenonT(60), <1>4, <3>4 DEF Proper, Session
    <3>6. Pass(s, p, answer).s = IF d.status = "working" THEN Taken(s1, p.last) ELSE s1
      BY <1>4, <2>2 DEF Pass, PassDeviceRequest
    <3> HIDE DEF s1, d
    <3> QED
      BY <1>1, <3>2, <3>5, <3>6 DEF SameMark
  <2> QED
    BY <2>1, <2>2
<1>5. CASE s.st = "receive" /\ s.owner # "cloud"
  <2> DEFINE s1 == [s EXCEPT !.last = p.last]
             s2 == [s1 EXCEPT !.reason = "cancel"]
  <2>1. answer \in Taking
    BY <1>5 DEF PassAnswers, ConstantsAssumption, Taking
  <2>2. s1 \in Proper /\ s1.rt = s.rt /\ s2 \in Proper /\ s2.rt = s.rt
    BY DEF Proper, Session
  <2>3. Taken(s1, p.last).rt = s.rt /\ SetError(s2).rt = s.rt
    BY <1>1, <1>2, <2>2
  <2>4. Pass(s, p, answer) = PassResponse(s, p, answer)
    BY <1>5 DEF Pass
  <2> HIDE DEF s1
  <2>5. PassResponse(s, p, answer) = 
         CASE answer = "continue" ->
                [s |-> Taken(s1, p.last), status |-> "working"]
          [] answer = "busy" -> [s |-> s1, status |-> "pending"]
          [] answer = "error" ->
                [s |-> SetError(s2),
                 status |-> "unavailable"]
    BY DEF PassResponse, s1
  <2> HIDE DEF s2
  <2> QED
    BY <2>1, <2>2, <2>3, <2>4, <2>5 DEF SameMark, Taking
<1> QED
  BY <1>3, <1>4, <1>5

-----------------------------------------------------------------------------
\* In which the connector is when a step may only begin, inform or end.
Working == pc \notin {"cleanup", "down", "ended"} /\ pc' \notin {"down", "ended", "cleanup"}

\* While the connection works, a quiet step keeps the invariant.
LEMMA QuietWorks ==
    ASSUME TypeInv, RequestInv, Quiet, Working
    PROVE  RequestInv'
BY QuietKeeps DEF Working

\* While the connection works, the end of a session keeps the invariant.
LEMMA EndedWorks ==
    ASSUME ConstantsAssumption, TypeInv, RequestInv, NEW h, Ended(h), Working
    PROVE  RequestInv'
BY EndedKeeps DEF Working

\* The send step: a message that is complete is deleted and told so.
LEMMA SendStepTells ==
    ASSUME ConstantsAssumption, TypeInv, RequestInv, SendStep
    PROVE  RequestInv'
<1>1. Working /\ pending' = pending
  BY DEF SendStep, Working
<1>2. CASE SendKeepAlive \/ SendNothing \/ SendControlComplete \/ SendDataDangling
  BY <1>1, <1>2, QuietNone, QuietWorks
     DEF SendKeepAlive, SendNothing, SendControlComplete, SendDataDangling, listVars
<1>3. CASE SendDataComplete
  <2> DEFINE h == slot.session
             s == session[h]
  <2>1. h \in Live
    BY <1>3 DEF SendDataComplete, TypeInv, CoreInv, SlotInv
  <2>2. CASE s.last /\ ~s.request
    <3>1. DeleteSession(h, s, told, current)
      BY <1>3, <2>2 DEF SendDataComplete
    <3> QED
      BY <1>1, <2>1, <3>1, DeletionEnds, EndedWorks
  <2>3. CASE ~(s.last /\ ~s.request)
    <3> DEFINE s1 == [s EXCEPT !.st = IF s.last THEN "receive" ELSE "get_data"]
    <3>1. session' = [session EXCEPT ![h] = s1] /\ told' = told
      BY <1>3, <2>3 DEF SendDataComplete
    <3>2. s \in Proper
      BY <2>1, RequestTyped
    <3>3. Becomes(s1, s) /\ SameMark(s1, s)
      BY <3>2 DEF Becomes, SameKey, SameMark, Proper, Session, States
    <3> QED
      BY <1>1, <2>1, <3>1, <3>3, MarkedOne, QuietWorks
  <2> QED
    BY <2>2, <2>3
<1> QED
  BY <1>2, <1>3 DEF SendStep

\* A device request begins.
LEMMA StartDeviceRequestTells ==
    ASSUME ConstantsAssumption, TypeInv, RequestInv, Working, pending' = pending,
           NEW p \in Packets, Keyed(p), StartDeviceRequest(p)
    PROVE  RequestInv'
<1> DEFINE s == NewSession("cloud", p.id, p.id, "receive", "none")
<1>1. /\ p.op = "start" /\ p.owner = "cloud" /\ Find("cloud", p.id) = {}
      /\ HasMemory /\ p.last \in BOOLEAN
      /\ p.id \in CloudIds /\ p.id \in Nat /\ p.id \in Talks
  BY DEF StartDeviceRequest, Keyed, Keys, Packets, DataPacket, AckPacket, ErrorPacket,
         ConstantsAssumption, Talks
<1>2. s \in Proper
  BY <1>1, NewSessionTyped DEF Owners, Talks, States, RequestTypes
<1>3. s.req = p.id /\ s.rt = "none"
  BY DEF NewSession
<1> HIDE DEF s
<1>4. PICK answer \in PassAnswers(s) : AddSession(NewHandle, Pass(s, p, answer).s)
  BY DEF StartDeviceRequest, s
<1> DEFINE d == Pass(s, p, answer).s
<1>5. Becomes(d, s) /\ SameMark(d, s)
  BY <1>1, <1>2, PassKeeps, PassMarks
<1>6. d \in Proper /\ d.req = p.id /\ d.rt # "status"
  BY <1>3, <1>5 DEF Becomes, SameKey, SameMark
<1>7. NewHandle \in Handles \ Live /\ session' = [session EXCEPT ![NewHandle] = d]
  BY <1>1, <1>4, NewHandleFree DEF AddSession
<1> HIDE DEF d
<1>8. told' = [told EXCEPT ![p.id] = "waiting"] /\ told \in ToldType
  BY DEF StartDeviceRequest, TypeInv, CoreInv, ToldInv
<1>9. ASSUME NEW g \in Live
      PROVE  session[g].req # p.id
  <2>1. CASE session[g].owner = "cloud"
    <3>1. session[g].req = session[g].id
      BY <2>1 DEF TypeInv, CoreInv, StateInv, KeyInv
    <3> QED
      BY <1>1, <2>1, <3>1 DEF Find
  <2>2. CASE session[g].owner = "client"
    BY <1>1, <2>2, RequestTyped DEF ConstantsAssumption
  <2> QED
    BY <2>1, <2>2, RequestTyped DEF Owners
<1>10. \A who \in {"user", "internal"} : pending[who] # p.id \/ pending[who] = NoRequest
  BY <1>1 DEF RequestInv, ConstantsAssumption, Requests
<1>11. DOMAIN pending' = {"user", "internal"}
  BY DEF TypeInv, QueueInv
<1>12. told'[p.id] = "waiting" /\ \A req \in Talks \ {p.id} : told'[req] = told[req]
  BY <1>1, <1>8 DEF ToldType
<1>13. \A who \in {"user", "internal"} :
          pending'[who] = IF pending[who] = p.id THEN NoRequest ELSE pending[who]
  BY <1>10
<1> QED
  <2>1. /\ d.req \in Talks /\ told'[d.req] = "waiting"
        /\ \A req \in Talks \ {d.req} : told'[req] = told[req]
        /\ \A g \in Live : session[g].req # d.req
        /\ \A who \in {"user", "internal"} :
              pending'[who] = IF pending[who] = d.req THEN NoRequest ELSE pending[who]
    BY <1>1, <1>6, <1>9, <1>12, <1>13
  <2>2. pc \notin {"cleanup", "ended"} /\ pc' \notin {"down", "ended"}
    BY DEF Working
  <2> QED
    BY <1>6, <1>7, <1>11, <2>1, <2>2, BegunKeeps

\* A packet for a session tells nobody.
LEMMA PassToSessionTells ==
    ASSUME ConstantsAssumption, TypeInv, NEW p \in Packets, PassToSession(p),
           pending' = pending
    PROVE  Quiet
<1>1. PICK h \in Find(p.owner, p.id) :
         LET s == IF /\ p.op = "start"
                      /\ p.owner = "client"
                      /\ session[h].st # "send_error"
                   THEN FreshBlock(session[h], FALSE, "receive")
                   ELSE session[h]
         IN  \E answer \in PassAnswers(s) :
                 LET done == Pass(s, p, answer)
                 IN  /\ session' = [session EXCEPT ![h] = done.s]
                     /\ result' = done.status
  BY DEF PassToSession
<1>2. h \in Live /\ session[h] \in Proper
  BY FindTyped DEF TypeInv, CoreInv, StateInv
<1> DEFINE s == IF /\ p.op = "start"
                      /\ p.owner = "client"
                      /\ session[h].st # "send_error"
                   THEN FreshBlock(session[h], FALSE, "receive")
                   ELSE session[h]
<1>3. Becomes(s, session[h]) /\ SameMark(s, session[h])
  <2>1. FreshBlock(session[h], FALSE, "receive").rt = session[h].rt
    BY <1>2 DEF FreshBlock, Proper, Session
  <2> QED
    BY <1>2, <2>1, FreshBlockKeeps DEF SameMark, Becomes, SameKey
<1> HIDE DEF s
<1>4. PICK answer \in PassAnswers(s) :
         session' = [session EXCEPT ![h] = Pass(s, p, answer).s]
  BY <1>1 DEF s
<1>5. p.last \in BOOLEAN
  BY DEF PassToSession, Packets, DataPacket, AckPacket, ErrorPacket
<1>6. Becomes(Pass(s, p, answer).s, s) /\ SameMark(Pass(s, p, answer).s, s)
  BY <1>3, <1>5, PassKeeps, PassMarks DEF Becomes
<1>7. /\ Becomes(Pass(s, p, answer).s, session[h])
      /\ SameMark(Pass(s, p, answer).s, session[h])
  BY <1>3, <1>6 DEF Becomes, SameKey, SameMark
<1>8. told' = told
  BY DEF PassToSession
<1> QED
  BY <1>2, <1>4, <1>7, <1>8, MarkedOne

\* An acknowledgement tells nobody.
LEMMA ProcessAckTells ==
    ASSUME TypeInv, NEW p, ProcessAck(p), pending' = pending
    PROVE  Quiet
<1>1. ASSUME NEW h \in Handles
      PROVE  IF h \in Live
             THEN /\ session'[h] # Free
                  /\ SameKey(session'[h], session[h])
                  /\ SameMark(session'[h], session[h])
             ELSE session'[h] = Free
  <2> DEFINE s == session[h]
             s1 == [s EXCEPT !.acked = p.count, !.ackPending = FALSE]
  <2>1. (session'[h] = s1 /\ h \in Live) \/ session'[h] = s
    BY DEF ProcessAck, Find
  <2>2. h \in Live => s \in Proper
    BY RequestTyped
  <2>3. h \in Live => SameKey(s1, s) /\ SameMark(s1, s) /\ s1.st = s.st
    BY <2>2 DEF SameKey, SameMark, Proper, Session
  <2>4. h \in Live => s.st # "free"
    BY <2>2 DEF Proper, Session, States
  <2>5. Free.st = "free"
    BY DEF Free
  <2>6. h \notin Live => s = Free
    BY DEF Live
  <2>7. SameKey(s, s) /\ SameMark(s, s)
    BY DEF SameKey, SameMark
  <2> HIDE DEF s1
  <2>8. h \in Live => session'[h] # Free
    BY <2>1, <2>3, <2>4, <2>5
  <2> QED
    BY <2>1, <2>3, <2>6, <2>7, <2>8
<1>2. Live' = Live
  BY <1>1 DEF Live
<1> QED
  BY <1>1, <1>2 DEF Quiet, ProcessAck, Live

\* An error of Device Cloud is told to the owner, and only once.
LEMMA ProcessErrorTells ==
    ASSUME ConstantsAssumption, TypeInv, RequestInv, Working, pending' = pending,
           NEW p, ProcessError(p)
    PROVE  RequestInv'
<1>1. PICK h \in ErrorKnown(p), answer \in StatusAnswers :
          LET s == session[h]
              s1 == Informed(s, "error", answer)
              t  == Tell(told, s.req, "error", answer)
          IN  IF s.rt = "none"
              THEN /\ fault' = "null_context"
                   /\ UNCHANGED <<listVars, told, sendVars, result>>
              ELSE IF answer = "busy"
              THEN /\ session' = [session EXCEPT ![h] = s1]
                   /\ told' = t
                   /\ result' = "pending"
                   /\ UNCHANGED <<list, current, active, sendVars, fault>>
              ELSE /\ DeleteSession(h, s1, t, current)
                   /\ slot' = Dangling(h)
                   /\ result' = "working"
                   /\ UNCHANGED bufInUse
  BY DEF ProcessError
<1> DEFINE s == session[h]
           s1 == Informed(s, "error", answer)
           t  == Tell(told, s.req, "error", answer)
<1>2. h \in Live /\ "error" \in Reasons
  BY DEF ErrorKnown, Find, Reasons
<1>3. told[s.req] \in {"waiting", "busy"}
  BY <1>2 DEF RequestInv, Due, Working
<1>4. CASE s.rt = "none"
  BY <1>1, <1>4, QuietNone, QuietWorks DEF listVars
<1>5. CASE s.rt # "none" /\ answer = "busy"
  <2>1. session' = [session EXCEPT ![h] = s1] /\ told' = t
    BY <1>1, <1>5
  <2>2. Informs(h)
    BY <1>2, <1>3, <1>5, <2>1, InformedTells
  <2> QED
    BY <2>2, InformsKeeps DEF Working
<1>6. CASE s.rt # "none" /\ answer # "busy"
  <2>1. DeleteSession(h, s1, t, current)
    BY <1>1, <1>6
  <2>2. s1.rt = "status"
    BY <1>2, RequestTyped DEF Informed, SetError, Proper, Session
  <2>3. Ended(h)
    BY <1>2, <1>3, <2>1, <2>2, ToldDeletionEnds
  <2> QED
    BY <2>3, EndedWorks
<1> QED
  BY <1>4, <1>5, <1>6

\* Every packet keeps the invariant.
LEMMA ProcessTells ==
    ASSUME ConstantsAssumption, TypeInv, RequestInv, Working, pending' = pending,
           NEW p \in Packets, Keyed(p), Process(p)
    PROVE  RequestInv'
<1>1. CASE RefuseDeviceRequest(p) \/ StartUnknown(p) \/ DataUnknown(p) \/ ErrorUnknown(p)
  <2>1. UNCHANGED <<session, told>>
    BY <1>1 DEF RefuseDeviceRequest, StartUnknown, DataUnknown, ErrorUnknown, listVars
  <2> QED
    BY <2>1, QuietNone, QuietWorks
<1>2. CASE PassToSession(p)
  BY <1>2, PassToSessionTells, QuietWorks
<1>3. CASE ProcessAck(p)
  BY <1>3, ProcessAckTells, QuietWorks
<1> QED
  BY <1>1, <1>2, <1>3, StartDeviceRequestTells, ProcessErrorTells DEF Process

\* The receive step keeps the invariant.
LEMMA ReceiveStepTells ==
    ASSUME ConstantsAssumption, TypeInv, RequestInv, ReceiveStep
    PROVE  RequestInv'
<1>1. Working /\ pending' = pending
  BY DEF ReceiveStep, Working
<1>2. CASE ReceiveNothing
  BY <1>1, <1>2, QuietNone, QuietWorks DEF ReceiveNothing, listVars
<1>3. CASE ReceivePacket
  <2>1. inbound \in Seq(Packets) /\ inbound # << >>
    BY <1>3 DEF ReceivePacket, TypeInv, PacketInv
  <2>2. Head(inbound) = inbound[1] /\ 1 \in 1 .. Len(inbound) /\ Head(inbound) \in Packets
    BY <2>1
  <2>3. Keyed(Head(inbound))
    BY <2>2 DEF TypeInv, PacketInv
  <2> QED
    BY <1>1, <1>3, <2>2, <2>3, ProcessTells DEF ReceivePacket
<1>4. CASE ProcessHeld
  BY <1>1, <1>4, ProcessTells DEF ProcessHeld, TypeInv, PacketInv
<1> QED
  BY <1>2, <1>3, <1>4 DEF ReceiveStep

\* The start step gives the request to a session, or cancels it.
LEMMA StartStepTells ==
    ASSUME ConstantsAssumption, TypeInv, RequestInv, StartStep
    PROVE  RequestInv'
<1>1. Working
  BY DEF StartStep, Working
<1>2. CASE StartWithoutContext \/ StartNothing
  BY <1>1, <1>2, QuietNone, QuietWorks DEF StartWithoutContext, StartNothing, listVars
<1>3. CASE StartRequest
  <2> DEFINE req == pending[NextPending]
             s   == NewSession("client", NextId, req, "get_data", "send_data")
  <2>1. /\ NextPending \in {"user", "internal"} /\ req \in Requests /\ MayCreate("client")
        /\ HasMemory /\ req # NoRequest
    BY <1>3 DEF StartRequest, NextPending, TypeInv, QueueInv
  <2>2. NextId \in Nat
    BY <2>1, NextIdFree DEF TypeInv, QueueInv, MayCreate, FreeIds
  <2>3. s \in Proper
    BY <2>1, <2>2, NewSessionTyped DEF Owners, Talks, States, RequestTypes
  <2>4. s.req = req /\ s.rt = "send_data"
    BY DEF NewSession
  <2> HIDE DEF s
  <2>5. NewHandle \in Handles \ Live /\ session' = [session EXCEPT ![NewHandle] = s]
    BY <1>3, <2>1, NewHandleFree DEF StartRequest, AddSession, s
  <2>6. /\ told' = told
        /\ pending' = [pending EXCEPT ![NextPending] = NoRequest]
    BY <1>3 DEF StartRequest
  <2>7. told[req] = "waiting" /\ \A g \in Live : session[g].req # req
    BY <2>1 DEF RequestInv, Waiting
  <2>8. \A who \in {"user", "internal"} :
           pending'[who] = IF pending[who] = req THEN NoRequest ELSE pending[who]
    <3>1. pending \in [{"user", "internal"} -> Requests \cup {NoRequest}]
      BY DEF TypeInv, QueueInv
    <3>2. \A who \in {"user", "internal"} : pending[who] = req => who = NextPending
      <4>1. pending["user"] # NoRequest /\ pending["internal"] # NoRequest
               => pending["user"] # pending["internal"]
        BY DEF RequestInv, ConstantsAssumption
      <4> QED
        BY <2>1, <4>1 DEF NextPending
    <3> QED
      BY <2>6, <3>1, <3>2
  <2>9. DOMAIN pending' = {"user", "internal"}
    BY <2>6 DEF TypeInv, QueueInv
  <2> HIDE DEF req
  <2> QED
    BY ZenonT(60), <1>1, <2>1, <2>3, <2>4, <2>5, <2>6, <2>7, <2>8, <2>9, BegunKeeps
    DEF Working, Talks
<1> QED
  BY <1>2, <1>3 DEF StartStep

\* The poll step keeps the invariant: a session that is deleted tells its
\* owner unless a status call was made before.
LEMMA PollStepTells ==
    ASSUME ConstantsAssumption, TypeInv, RequestInv, PollStep
    PROVE  RequestInv'
<1>1. Working /\ pending' = pending
  BY DEF PollStep, Working
<1>2. Polled # NoHandle => Polled \in Live /\ session[Polled] \in Proper
  BY PolledLive, RequestTyped DEF TypeInv, CoreInv, StateInv
<1>3. CASE PollNobody \/ PollSwitch \/ PollBusy \/ PollAfterStatus \/ PollNoBuffer
  <2>1. UNCHANGED <<session, told>>
    BY <1>3 DEF PollNobody, PollSwitch, PollBusy, PollAfterStatus, PollNoBuffer, listVars
  <2> QED
    BY <1>1, <2>1, QuietNone, QuietWorks
<1>4. CASE PollSendError \/ PollDelete
  <2>1. Polled # NoHandle /\ DeleteSession(Polled, session[Polled], told, Polled)
    BY <1>4 DEF PollSendError, PollDelete
  <2> QED
    BY <1>1, <1>2, <2>1, DeletionEnds, EndedWorks
<1> DEFINE s == session[Polled]
<1>5. CASE PollSendData
  <2>1. PICK last \in BOOLEAN :
          session' = [session EXCEPT ![Polled] =
                    Filling(s, last, s.total + 1, WindowFull(s.total + 1, s.acked))]
    BY <1>5 DEF PollSendData, Filling
  <2>2. Polled \in Live /\ s \in Proper /\ told' = told
    BY <1>2, <1>5 DEF PollSendData, MayAskForData
  <2>3. s.total + 1 \in Nat /\ WindowFull(s.total + 1, s.acked) \in BOOLEAN
    BY <2>2 DEF Proper, Session, WindowFull
  <2> DEFINE s1 == Filling(s, last, s.total + 1, WindowFull(s.total + 1, s.acked))
  <2>4. Becomes(s1, s) /\ s1.rt = s.rt
    <3>1. \A n \in Nat, full \in BOOLEAN : Becomes(Filling(s, last, n, full), s)
      BY <2>2, FillingKeeps
    <3>2. s1.rt = s.rt
      BY <2>2 DEF Filling, Proper, Session
    <3> QED
      BY <2>3, <3>1, <3>2
  <2> HIDE DEF s1
  <2>5. SameMark(s1, s)
    BY <2>4 DEF SameMark
  <2> USE DEF s1
  <2> QED
    BY <2>5, <1>1, <2>1, <2>2, <2>3, <2>4, MarkedOne, QuietWorks
<1>6. CASE PollSendAck
  <2> DEFINE s1 == [s EXCEPT !.acked = s.total, !.st = "receive"]
  <2>1. Polled \in Live /\ s \in Proper /\ told' = told
    BY <1>2, <1>6 DEF PollSendAck
  <2>2. session' = [session EXCEPT ![Polled] = s1]
    BY <1>6 DEF PollSendAck, TypeInv, CoreInv, StateInv, ListInv
  <2>3. Becomes(s1, s) /\ SameMark(s1, s)
    BY <2>1 DEF Becomes, SameKey, SameMark, Proper, Session, States
  <2> QED
    BY <1>1, <2>1, <2>2, <2>3, MarkedOne, QuietWorks
<1>7. CASE PollCancel
  <2> DEFINE rt == IF s.rt = "reply_data" THEN "reply_length" ELSE s.rt
             s1 == [s EXCEPT !.reason = "cancel", !.rt = rt]
  <2>1. Polled \in Live /\ s \in Proper /\ told' = told
    BY <1>2, <1>7 DEF PollCancel, MayAskForData
  <2>2. session' = [session EXCEPT ![Polled] = SetError(s1)]
    BY <1>7 DEF PollCancel
  <2>3. /\ rt \in RequestTypes /\ (s.owner = "client" => rt = s.rt)
        /\ rt = "status" <=> s.rt = "status"
    BY <2>1 DEF Proper, Session, RequestTypes
  <2> HIDE DEF rt
  <2>4. Becomes(s1, s) /\ SameMark(s1, s)
    BY <2>1, <2>3 DEF Becomes, SameKey, SameMark, Proper, Session
  <2>5. Becomes(SetError(s1), s1) /\ SetError(s1).rt = s1.rt
    <3>1. s1 \in Proper
      BY <2>4 DEF Becomes
    <3> HIDE DEF s1
    <3>2. SetError(s1).rt = s1.rt
      BY <3>1 DEF SetError, Proper, Session
    <3> QED
      BY <3>1, <3>2, SetErrorKeeps
  <2>6. Becomes(SetError(s1), s) /\ SameMark(SetError(s1), s)
    BY <2>4, <2>5 DEF Becomes, SameKey, SameMark
  <2> QED
    BY <1>1, <2>1, <2>2, <2>6, MarkedOne, QuietWorks
<1> QED
  BY <1>3, <1>4, <1>5, <1>6, <1>7 DEF PollStep

\* Closing tells every session that was not told, and each once.
LEMMA ClosingTells ==
    ASSUME ConstantsAssumption, TypeInv, RequestInv, Closing
    PROVE  RequestInv'
<1>1. CASE CloseNetwork
  <2>1. pc = "close" /\ pc' = "cleanup" /\ pending' = pending
    BY <1>1 DEF CloseNetwork
  <2>2. CASE slot.kind # "data" \/ slot.session = NoHandle
    <3>1. UNCHANGED <<session, told>>
      BY <1>1, <2>2 DEF CloseNetwork, AbortSend
    <3> QED
      BY <2>1, <3>1, QuietNone, QuietKeeps
  <2>3. CASE slot.kind = "data" /\ slot.session # NoHandle
    <3> DEFINE h == slot.session
    <3>1. h \in Live
      BY <2>3 DEF TypeInv, CoreInv, SlotInv
    <3>2. PICK answer \in StatusAnswers :
            /\ session' = [session EXCEPT ![h] = Informed(session[h], "error", answer)]
            /\ told' = Tell(told, session[h].req, "error", answer)
      BY <1>1, <2>3 DEF CloseNetwork, AbortSend
    <3>3. told[session[h].req] \in {"waiting", "busy"}
      BY <2>1, <3>1 DEF RequestInv, Due
    <3>4. Informs(h)
      BY <2>1, <3>1, <3>2, <3>3, InformedTells DEF Reasons
    <3> QED
      BY <2>1, <3>4, InformsKeeps
  <2> QED
    BY <2>2, <2>3
<1>2. CASE CleanupSession
  <2> DEFINE h == Head(list)
             s == session[h]
  <2>1. pc = "cleanup" /\ pc' = "cleanup" /\ pending' = pending
    BY <1>2 DEF CleanupSession
  <2>2. h \in Live
    <3>1. list \in Seq(Handles) /\ list # << >>
      BY <1>2 DEF CleanupSession, TypeInv, CoreInv, StateInv, ListInv
    <3>2. Head(list) = list[1] /\ 1 \in 1 .. Len(list)
      BY <3>1
    <3> QED
      BY <3>2 DEF TypeInv, CoreInv, StateInv, ListInv, Elements
  <2>3. CASE s.st \in {"delete", "send_error"}
    <3>1. DeleteSession(h, s, told, current)
      BY <1>2, <2>3 DEF CleanupSession
    <3> QED
      BY <2>1, <2>2, <3>1, DeletionEnds, EndedKeeps
  <2>4. CASE s.st \notin {"delete", "send_error"}
    <3>1. PICK answer \in StatusAnswers :
            DeleteSession(h, IF s.rt = "none" THEN s ELSE Informed(s, "cancel", answer),
                          Tell(told, s.req, "cancel", answer), current)
      BY <1>2, <2>4 DEF CleanupSession
    <3> DEFINE s1 == IF s.rt = "none" THEN s ELSE Informed(s, "cancel", answer)
    <3>2. s1.rt \in {"status", "none"}
      BY <2>2, RequestTyped DEF Informed, SetError, Proper, Session
    <3>3. told[s.req] \in {"waiting", "busy"}
      BY <2>2, <2>4 DEF RequestInv, Due
    <3>4. Ended(h)
      BY <2>1, <2>2, <3>1, <3>2, <3>3, ToldDeletionEnds DEF Reasons
    <3> QED
      BY <2>1, <3>4, EndedKeeps
  <2> QED
    BY <2>3, <2>4
<1>3. CASE CleanupRequest
  <2>1. pc = "cleanup" /\ pc' = "down" /\ session' = session /\ list = << >>
    BY <1>3 DEF CleanupRequest, listVars
  <2>2. Live = {} /\ Live' = {}
    <3>1. Elements(list) = {}
      BY <2>1 DEF Elements
    <3> QED
      BY <2>1, <3>1 DEF TypeInv, CoreInv, StateInv, ListInv, Live
  <2>3. CASE pending[NextPending] = NoRequest
    <3>1. UNCHANGED <<pending, told>>
      BY <1>3, <2>3 DEF CleanupRequest
    <3> QED
      BY <2>1, <2>2, <3>1
         DEF RequestInv, ToldOnce, Bearing, Waiting, Represented
  <2>4. CASE pending[NextPending] # NoRequest
    <3> DEFINE r == pending[NextPending]
    <3>1. /\ r \in Requests /\ r \in Talks /\ NextPending \in {"user", "internal"}
          /\ told[r] = "waiting" /\ told \in ToldType
      BY <2>4 DEF NextPending, RequestInv, Waiting, Requests, Talks, TypeInv, CoreInv, ToldInv
    <3>2. PICK answer \in StatusAnswers : told' = Tell(told, r, "cancel", answer)
      BY <1>3, <2>4 DEF CleanupRequest
    <3>3. /\ \A req \in Talks \ {r} : told'[req] = told[req]
          /\ told'[r] \in {"busy", "complete", "cancel", "error"}
      BY <3>1, <3>2, TellIs DEF Reasons
    <3>4. pending' = [pending EXCEPT ![NextPending] = NoRequest]
      BY <1>3, <2>4 DEF CleanupRequest
    <3>5. \A who \in {"user", "internal"} :
             pending'[who] = IF pending[who] = r THEN NoRequest ELSE pending[who]
      <4>1. pending["user"] # NoRequest /\ pending["internal"] # NoRequest
               => pending["user"] # pending["internal"]
        BY DEF RequestInv, ConstantsAssumption
      <4>2. pending \in [{"user", "internal"} -> Requests \cup {NoRequest}]
        BY DEF TypeInv, QueueInv
      <4> QED
        BY <2>4, <3>4, <4>1, <4>2 DEF NextPending
    <3> HIDE DEF r
    <3>6. ToldOnce' /\ Bearing' /\ \A h \in Live' : Due(h)'
      BY <2>2, <3>3 DEF RequestInv, ToldOnce, Bearing
    <3>7. ASSUME NEW who \in {"user", "internal"}
          PROVE  Waiting(who)'
      <4>1. pending[who] \in Requests \cup {NoRequest} /\ Waiting(who)
        BY DEF RequestInv, Requests
      <4> QED
        BY <2>2, <3>3, <3>5, <4>1 DEF Waiting, Talks
    <3>8. ASSUME NEW req \in Requests, told'[req] = "waiting"
          PROVE  Represented(req)'
      <4>1. req # r /\ Represented(req)
        BY <2>1, <3>3, <3>8 DEF RequestInv, Talks
      <4> QED
        BY <2>2, <3>5, <4>1 DEF Represented
    <3>9. /\ pending'["user"] \in UserRequests \cup {NoRequest}
          /\ pending'["internal"] \in InternalRequests \cup {NoRequest}
      BY <3>5 DEF RequestInv
    <3> QED
      BY <2>1, <2>2, <3>6, <3>7, <3>8, <3>9 DEF RequestInv
  <2> QED
    BY <2>3, <2>4
<1> QED
  BY <1>1, <1>2, <1>3 DEF Closing

\* Queueing a request makes it wait.
LEMMA InitiateTells ==
    ASSUME ConstantsAssumption, TypeInv, RequestInv, NEW req \in Requests, Initiate(req)
    PROVE  RequestInv'
<1> DEFINE who == IF req \in UserRequests THEN "user" ELSE "internal"
<1>1. /\ Working /\ session' = session /\ pc' = pc
      /\ told[req] \notin {"waiting", "busy"} /\ pending[who] = NoRequest
      /\ pending' = [pending EXCEPT ![who] = req]
      /\ told' = [told EXCEPT ![req] = "waiting"]
  BY DEF Initiate, Working, Connected, listVars
<1>2. Live' = Live /\ \A h \in Live : session[h].req # req /\ session[h].req \in Talks
  <2>1. Live' = Live
    BY <1>1 DEF Live
  <2>2. ASSUME NEW h \in Live
        PROVE  session[h].req # req
    BY <1>1 DEF RequestInv, Due, Working
  <2> QED
    BY <2>1, <2>2, RequestTyped
<1>3. /\ told'[req] = "waiting"
      /\ \A r \in Talks \ {req} : told'[r] = told[r]
      /\ req # NoRequest
  BY <1>1 DEF TypeInv, CoreInv, ToldInv, ToldType, Talks, ConstantsAssumption
<1>4. /\ pending'["user"] \in UserRequests \cup {NoRequest}
      /\ pending'["internal"] \in InternalRequests \cup {NoRequest}
      /\ pending'[who] = req
      /\ \A other \in {"user", "internal"} \ {who} : pending'[other] = pending[other]
  <2>1. pending \in [{"user", "internal"} -> Requests \cup {NoRequest}]
    BY DEF TypeInv, QueueInv
  <2>2. who \in {"user", "internal"}
    OBVIOUS
  <2> QED
    BY <1>1, <2>1, <2>2 DEF RequestInv, Requests
<1>5. ToldOnce' /\ Bearing'
  BY <1>1, <1>2, <1>3 DEF RequestInv, ToldOnce, Bearing
<1>6. ASSUME NEW h \in Live
      PROVE  Due(h)'
  <2>1. Due(h) /\ told'[session[h].req] = told[session[h].req]
    BY <1>2, <1>3 DEF RequestInv
  <2> QED
    BY <1>1, <2>1 DEF Due
<1>7. ASSUME NEW other \in {"user", "internal"}
      PROVE  Waiting(other)'
  <2>1. CASE other = who
    BY <1>1, <1>2, <1>3, <1>4, <2>1 DEF Waiting
  <2>2. CASE other # who
    <3>1. Waiting(other) /\ pending[other] \in Requests \cup {NoRequest}
          /\ pending'[other] = pending[other]
      BY <1>4, <2>2 DEF RequestInv, Requests
    <3>2. pending[other] # NoRequest => pending[other] # req /\ pending[other] \in Talks
      BY <1>1, <3>1 DEF Waiting, Talks
    <3> QED
      BY <1>1, <1>2, <1>3, <3>1, <3>2 DEF Waiting
  <2> QED
    BY <2>1, <2>2
<1>8. ASSUME NEW r \in Requests, told'[r] = "waiting"
      PROVE  Represented(r)'
  <2>1. CASE r = req
    BY <1>4, <2>1 DEF Represented
  <2>2. CASE r # req
    <3>1. Represented(r)
      BY <1>1, <1>3, <1>8, <2>2 DEF RequestInv, Talks, Working
    <3>2. \A other \in {"user", "internal"} : pending[other] = r => pending'[other] = r
      BY <1>1, <1>4, <2>2 DEF ConstantsAssumption
    <3> QED
      BY <1>1, <1>2, <3>1, <3>2 DEF Represented
  <2> QED
    BY <2>1, <2>2
<1> HIDE DEF who
<1> QED
  BY <1>1, <1>2, <1>4, <1>5, <1>6, <1>7, <1>8 DEF RequestInv, Working

\* The invariant of the owners holds at the start.
LEMMA RequestInit == ConstantsAssumption /\ Init => RequestInv
<1> SUFFICES ASSUME ConstantsAssumption, Init
             PROVE  RequestInv
  OBVIOUS
<1>1. Live = {} /\ pc = "send"
  BY DEF Init, Live
<1>2. \A req \in Talks : told[req] = "unsent"
  BY DEF Init
<1>3. pending["user"] = NoRequest /\ pending["internal"] = NoRequest
  BY DEF Init
<1> QED
  BY <1>1, <1>2, <1>3 DEF RequestInv, ToldOnce, Bearing, Waiting, Talks

\* Every step keeps it.
LEMMA RequestStep == ConstantsAssumption /\ TypeInv /\ RequestInv /\ [Next]_vars => RequestInv'
<1> SUFFICES ASSUME ConstantsAssumption, TypeInv, RequestInv, [Next]_vars
             PROVE  RequestInv'
  OBVIOUS
<1>1. CASE Disconnect
  <2>1. UNCHANGED <<session, told, pending>> /\ pc \in {"send", "receive"} /\ pc' = "close"
    BY <1>1 DEF Disconnect, listVars
  <2> QED
    BY <2>1, QuietNone, QuietKeeps
<1>2. CASE Reopen
  <2>1. UNCHANGED <<session, told, pending>> /\ pc = "down" /\ pc' = "send"
    BY <1>2 DEF Reopen, listVars
  <2> QED
    BY <2>1, QuietNone, QuietKeeps
<1>3. CASE Terminate
  <2>1. /\ UNCHANGED <<session, told>> /\ pc = "down" /\ pc' = "ended"
        /\ pending' = [who \in DOMAIN pending |-> NoRequest]
    BY <1>3 DEF Terminate, listVars
  <2>2. Live = {} /\ Live' = {}
    BY <2>1 DEF RequestInv, Live
  <2>3. pending'["user"] = NoRequest /\ pending'["internal"] = NoRequest
    BY <2>1 DEF TypeInv, QueueInv
  <2> QED
    BY <2>1, <2>2, <2>3 DEF RequestInv, ToldOnce, Bearing, Waiting
<1>4. CASE Cloud
  <2>1. ASSUME NEW p, CloudSends(p)
        PROVE  UNCHANGED <<session, told, pending, pc>> /\ Working
    BY <2>1 DEF CloudSends, Connected, Working, listVars
  <2>2. UNCHANGED <<session, told, pending, pc>> /\ Working
    BY <1>4, <2>1 DEF Cloud, CloudAck, CloudReply, CloudStart, CloudData, CloudError
  <2> QED
    BY <2>2, QuietNone, QuietWorks
<1>5. CASE UNCHANGED vars
  <2>1. UNCHANGED <<session, told, pending, pc>> /\ Live' = Live
    BY <1>5 DEF vars, Live
  <2>2. \A h : Due(h) => Due(h)'
    BY <2>1 DEF Due
  <2> QED
    BY <2>1, <2>2 DEF RequestInv, ToldOnce, Bearing, Waiting, Represented
<1> QED
  BY <1>1, <1>2, <1>3, <1>4, <1>5, SendStepTells, ReceiveStepTells, StartStepTells,
     PollStepTells, ClosingTells, InitiateTells DEF Next, Step

\* A request waits exactly while somebody answers for it.
THEOREM RequestInvariant == Spec => []RequestInv
BY RequestInit, RequestStep, TypeInvariant, ConstantsAssumption, PTL DEF Spec

\* Nobody is told twice how a message ended: neither the retries of a busy
\* status callback nor the cleanup of the sessions repeat a status that was
\* taken.
THEOREM OwnersAreToldOnce == Spec => []ToldOnce
<1>1. RequestInv => ToldOnce
  BY DEF RequestInv
<1> QED
  BY <1>1, RequestInvariant, PTL

-----------------------------------------------------------------------------
\* Requests of the user only, or of the data points service only.
OneSource == UserRequests = {} \/ InternalRequests = {}

\* Only the queue could hold a request when the connection is down; the
\* cleanup empties one entry of it.
EndInv ==
    /\ pc = "down" => \A who \in {"user", "internal"} : pending[who] = NoRequest
    /\ NobodyForgotten

\* Every step keeps it.
LEMMA EndStep ==
    ConstantsAssumption /\ OneSource /\ TypeInv /\ RequestInv /\ EndInv /\ [Next]_vars
        => EndInv'
<1> SUFFICES ASSUME ConstantsAssumption, OneSource, TypeInv, RequestInv, EndInv,
                    [Next]_vars
             PROVE  EndInv'
  OBVIOUS
<1>1. CASE CleanupRequest
  <2>1. pc' = "down" /\ NextPending \in {"user", "internal"}
    BY <1>1 DEF CleanupRequest, NextPending
  <2>2. pending \in [{"user", "internal"} -> Requests \cup {NoRequest}]
    BY DEF TypeInv, QueueInv
  <2>3. pending["user"] = NoRequest \/ pending["internal"] = NoRequest
    BY DEF RequestInv, OneSource
  <2>4. \A who \in {"user", "internal"} : pending'[who] = NoRequest
    BY <1>1, <2>2, <2>3 DEF CleanupRequest, NextPending
  <2> QED
    BY <2>1, <2>4 DEF EndInv, NobodyForgotten
<1>2. CASE Terminate
  <2>1. pc = "down" /\ pc' = "ended" /\ told' = told
    BY <1>2 DEF Terminate
  <2>2. ASSUME NEW req \in Requests
        PROVE  told[req] # "waiting"
    <3>1. ~Represented(req)
      BY <2>1 DEF EndInv, RequestInv, Represented, ConstantsAssumption
    <3> QED
      BY <2>1, <3>1 DEF RequestInv
  <2> QED
    BY <2>1, <2>2 DEF EndInv, NobodyForgotten
<1>3. ASSUME pc' \notin {"down", "ended"}
      PROVE  EndInv'
  BY <1>3 DEF EndInv, NobodyForgotten
<1>4. CASE UNCHANGED vars
  BY <1>4 DEF vars, EndInv, NobodyForgotten
<1>5. CASE Step \/ Disconnect \/ Reopen \/ CloseNetwork \/ CleanupSession
  BY <1>3, <1>5 DEF Step, SendStep, ReceiveStep, StartStep, PollStep, Disconnect, Reopen,
                    CloseNetwork, CleanupSession
<1>6. ASSUME NEW p, CloudSends(p)
      PROVE  pc' \notin {"down", "ended"}
  BY <1>6 DEF CloudSends, Connected
<1>7. CASE Cloud
  BY <1>3, <1>6, <1>7 DEF Cloud, CloudAck, CloudReply, CloudStart, CloudData, CloudError
<1>8. ASSUME NEW req \in Requests, Initiate(req)
      PROVE  EndInv'
  BY <1>3, <1>8 DEF Initiate, Connected
<1> QED
  BY <1>1, <1>2, <1>4, <1>5, <1>7, <1>8 DEF Next, Closing

\* The connector never ends with a request whose owner was told nothing, if
\* only one of the user and the data points service sends requests.
THEOREM NobodyIsForgotten ==
    ASSUME OneSource
    PROVE  Spec => []NobodyForgotten
<1>1. Init => EndInv
  BY DEF Init, EndInv, NobodyForgotten
<1>2. EndInv => NobodyForgotten
  BY DEF EndInv
<1> QED
  BY <1>1, <1>2, EndStep, TypeInvariant, RequestInvariant, ConstantsAssumption, OneSource, PTL
     DEF Spec

-----------------------------------------------------------------------------
\* The stream between the device and Device Cloud is there.
Open == pc \in {"send", "receive", "start", "poll", "close"}

\* The ids of the put requests.
ClientIds == 1 .. MaxId

\* What Device Cloud knows of a put request.
Phase(id) == conv[<<"client", id>>].phase

\* The packet is the response to the put request id.
Replies(p, id) == p.op \in {"start", "data"} /\ p.owner = "client" /\ p.id = id

\* The packet in the receive buffer is to be processed (again).
StillHeld == pc \in {"start", "poll"} => result \in {"pending", "active"}

\* The response is under way to its session.
Arriving(id) ==
    \/ \E i \in 1 .. Len(inbound) : Replies(inbound[i], id)
    \/ StillHeld /\ Replies(held, id)

\* Device Cloud sends no errors, and a response in one packet.
Plain(p) ==
    /\ p.op # "error"
    /\ p.op \in {"start", "data"} /\ p.owner = "client" => p.op = "start" /\ p.last = TRUE

\* Of every response there is one packet at most.
PacketTalk ==
    /\ Plain(held)
    /\ \A i \in 1 .. Len(inbound) : Plain(inbound[i])
    /\ \A i, j \in 1 .. Len(inbound) : \A id \in ClientIds :
          Replies(inbound[i], id) /\ Replies(inbound[j], id) => i = j
    /\ \A i \in 1 .. Len(inbound) : \A id \in ClientIds :
          ~(Replies(inbound[i], id) /\ StillHeld /\ Replies(held, id))

\* What is being sent belongs to a session that waits for it; an error that
\* is being sent concerns no session that has sent anything.
SlotTalk ==
    /\ slot.kind = "data" =>
          /\ slot.session \in Live
          /\ slot.packet.op \in {"start", "data"}
          /\ session[slot.session].st = "wait_send_complete"
          /\ slot.packet.owner = session[slot.session].owner
          /\ slot.packet.id = session[slot.session].id
          /\ slot.packet.last = session[slot.session].last
    /\ slot.kind = "control" =>
          /\ slot.packet.op \notin {"start", "data"}
          /\ slot.packet.op = "error" /\ ErrorOwner(slot.packet) = "client" =>
                \A h \in Find("client", slot.packet.id) :
                    /\ session[h].st = "get_data"
                    /\ session[h].request
                    /\ session[h].start

\* The session of the put request waits for the response.
Expected(id) == \E h \in Find("client", id) : session[h].st = "receive"

\* While the stream is there, a response that was or will be sent finds the
\* session that waits for it.
ExpectTalk ==
    Open => \A id \in ClientIds :
        /\ Arriving(id) => Phase(id) = "answered"
        /\ Arriving(id) \/ Phase(id) = "replying" => Expected(id)

\* Device Cloud sends nothing but responses in the conversations of the
\* device.
PhaseTalk == \A id \in ClientIds : Phase(id) \notin {"sending", "waiting"}

\* Nothing is under way without a stream.
ClosedTalk ==
    ~Open =>
        /\ inbound = << >>
        /\ slot.kind = "empty"
        /\ \A id \in ClientIds : Phase(id) # "replying"

\* The message ended well, and its owner is to be told.
Finished(s) == s.rt # "status" /\ s.st = "delete" /\ s.reason = "none"

\* Where a session of a put request can be.
Clientele(s) ==
    /\ s.st \in {"get_data", "wait_send_complete"} => s.request
    /\ s.rt # "status" /\ s.st = "send_error" => s.reason # "none"
    /\ Finished(s) => ~s.request

\* A put request that ended well has been answered.
Behaved(s) ==
    s.owner = "client" => Clientele(s) /\ (Finished(s) => Phase(s.id) = "answered")

\* So every session behaves.
ClientTalk == \A h \in Live : Behaved(session[h])

\* The inductive invariant of the conversations.
TalkInv ==
    PacketTalk /\ SlotTalk /\ ExpectTalk /\ PhaseTalk /\ ClosedTalk /\ ClientTalk

\* A step in which Device Cloud sends and takes nothing that matters.
SamePhases == \A id \in ClientIds : Phase(id)' = Phase(id)

\* Who waits for a response still does, if it has not come.
StillExpected ==
    \A id \in ClientIds :
        Expected(id) /\ (Arriving(id)' \/ Phase(id)' = "replying") => Expected(id)'

\* A session of a put request has an id of the device.
LEMMA ClientIdOf ==
    ASSUME TypeInv, NEW h \in Live, session[h].owner = "client"
    PROVE  session[h].id \in ClientIds
BY DEF TypeInv, CoreInv, StateInv, KeyInv, Keys, ClientIds

\* Owner and id identify a session.
LEMMA OnlyOne ==
    ASSUME TypeInv, NEW h \in Live, NEW g \in Live,
           session[g].owner = session[h].owner, session[g].id = session[h].id
    PROVE  g = h
BY DEF TypeInv, CoreInv, StateInv, KeyInv, IdsUnique

\* A step on an open stream in which no new response arrives keeps the
\* invariant, if the sessions and the slot keep their part.
LEMMA TalkKeeps ==
    ASSUME TalkInv, Open, Open', PacketTalk', SlotTalk', ClientTalk', SamePhases,
           \A id \in ClientIds : Arriving(id)' => Arriving(id),
           StillExpected
    PROVE  TalkInv'
<1>1. ExpectTalk'
  BY DEF TalkInv, ExpectTalk, SamePhases, StillExpected
<1>2. PhaseTalk' /\ ClosedTalk'
  BY DEF TalkInv, PhaseTalk, ClosedTalk, SamePhases
<1> QED
  BY <1>1, <1>2 DEF TalkInv

\* A step that changes one session.
LEMMA OneTalks ==
    ASSUME TypeInv, TalkInv, NEW h \in Live, NEW s, Becomes(s, session[h]),
           session' = [session EXCEPT ![h] = s], SamePhases, Behaved(s),
           \/ session[h].owner = "client" /\ session[h].st = "receive" => s.st = "receive"
           \/ \A r \in ClientIds : r = session[h].id => ~Arriving(r)' /\ Phase(r) # "replying"
    PROVE  ClientTalk' /\ StillExpected /\ Live' = Live
<1>1. session \in [Handles -> Proper \cup {Free}] /\ h \in Handles
  BY DEF TypeInv, CoreInv, StateInv, ListInv, Live
<1>2. Live' = Live /\ session'[h] = s /\ \A g \in Live \ {h} : session'[g] = session[g]
  BY <1>1, FreeIsNoSession DEF Live, Becomes
<1>3. s.owner = session[h].owner /\ s.id = session[h].id
  BY DEF Becomes, SameKey
<1>4. ASSUME NEW g \in Live'
      PROVE  Behaved(session[g])' 
  <2>1. g \in Live /\ Behaved(session'[g])
    BY <1>2 DEF TalkInv, ClientTalk
  <2>2. session'[g].owner = "client" => session'[g].id \in ClientIds
    BY <1>2, <1>3, <2>1, ClientIdOf
  <2> QED
    BY <2>1, <2>2 DEF Behaved, SamePhases
<1>5. ASSUME NEW id \in ClientIds, Expected(id), Arriving(id)' \/ Phase(id)' = "replying"
      PROVE  Expected(id)'
  <2>1. PICK g \in Find("client", id) : session[g].st = "receive"
    BY <1>5 DEF Expected
  <2>2. g \in Live /\ session[g].owner = "client" /\ session[g].id = id
    BY <2>1 DEF Find
  <2>3. session'[g].st = "receive" /\ session'[g].owner = "client" /\ session'[g].id = id
    BY <1>2, <1>3, <1>5, <2>1, <2>2 DEF SamePhases
  <2> QED
    BY <1>2, <2>2, <2>3 DEF Expected, Find
<1> QED
  BY <1>2, <1>4, <1>5 DEF ClientTalk, StillExpected

\* A step that deletes one session, which expects nothing.
LEMMA DeletionTalks ==
    ASSUME TypeInv, TalkInv, NEW h \in Live,
           session' = [session EXCEPT ![h] = Free], SamePhases,
           session[h].owner = "client" => session[h].st # "receive"
    PROVE  ClientTalk' /\ StillExpected /\ Live' = Live \ {h}
<1>1. session \in [Handles -> Proper \cup {Free}] /\ h \in Handles
  BY DEF TypeInv, CoreInv, StateInv, ListInv, Live
<1>2. Live' = Live \ {h} /\ \A g \in Live \ {h} : session'[g] = session[g]
  BY <1>1 DEF Live
<1>3. ASSUME NEW g \in Live'
      PROVE  Behaved(session[g])'
  <2>1. g \in Live /\ session'[g] = session[g] /\ Behaved(session[g])
    BY <1>2 DEF TalkInv, ClientTalk
  <2>2. session[g].owner = "client" => session[g].id \in ClientIds
    BY <2>1, ClientIdOf
  <2> QED
    BY <2>1, <2>2 DEF Behaved, SamePhases
<1>4. ASSUME NEW id \in ClientIds, Expected(id)
      PROVE  Expected(id)'
  <2>1. PICK g \in Find("client", id) : session[g].st = "receive"
    BY <1>4 DEF Expected
  <2>2. g \in Live' /\ session'[g] = session[g]
    BY <1>2, <2>1 DEF Find
  <2> QED
    BY <2>1, <2>2 DEF Expected, Find
<1> QED
  BY <1>2, <1>3, <1>4 DEF ClientTalk, StillExpected

\* A step that adds a session.
LEMMA AdditionTalks ==
    ASSUME TypeInv, TalkInv, NEW h \in Handles \ Live, NEW s \in Proper,
           session' = [session EXCEPT ![h] = s], SamePhases,
           s.owner = "client" => /\ s.st = "get_data" /\ s.request
    PROVE  ClientTalk' /\ StillExpected /\ Live' = Live \cup {h}
<1>1. session \in [Handles -> Proper \cup {Free}] /\ h \in Handles
  BY DEF TypeInv, CoreInv, StateInv, ListInv, Live
<1>2. /\ Live' = Live \cup {h} /\ session'[h] = s
      /\ \A g \in Live : session'[g] = session[g]
  BY <1>1, FreeIsNoSession DEF Live
<1>3. ASSUME NEW g \in Live'
      PROVE  Behaved(session[g])'
  <2>1. CASE g = h
    BY <1>2, <2>1 DEF Behaved, Clientele, Finished
  <2>2. CASE g # h
    <3>1. g \in Live /\ session'[g] = session[g] /\ Behaved(session[g])
      BY <1>2, <2>2 DEF TalkInv, ClientTalk
    <3>2. session[g].owner = "client" => session[g].id \in ClientIds
      BY <3>1, ClientIdOf
    <3> QED
      BY <3>1, <3>2 DEF Behaved, SamePhases
  <2> QED
    BY <2>1, <2>2
<1>4. ASSUME NEW id \in ClientIds, Expected(id)
      PROVE  Expected(id)'
  <2>1. PICK g \in Find("client", id) : session[g].st = "receive"
    BY <1>4 DEF Expected
  <2>2. g \in Live' /\ session'[g] = session[g]
    BY <1>2, <2>1 DEF Find
  <2> QED
    BY <2>1, <2>2 DEF Expected, Find
<1> QED
  BY <1>2, <1>3, <1>4 DEF ClientTalk, StillExpected

\* A step that leaves the sessions and the slot alone.
LEMMA SameSessionsTalk ==
    ASSUME TypeInv, TalkInv, session' = session, SamePhases
    PROVE  ClientTalk' /\ StillExpected /\ Live' = Live
<1>1. Live' = Live
  BY DEF Live
<1>2. ASSUME NEW g \in Live'
      PROVE  Behaved(session[g])'
  <2>1. g \in Live /\ session'[g] = session[g] /\ Behaved(session[g])
    BY <1>1 DEF TalkInv, ClientTalk
  <2>2. session[g].owner = "client" => session[g].id \in ClientIds
    BY <2>1, ClientIdOf
  <2> QED
    BY <2>1, <2>2 DEF Behaved, SamePhases
<1> QED
  BY <1>1, <1>2 DEF ClientTalk, StillExpected, Expected, Find

\* A step that leaves the sessions and the slot alone.
LEMMA SameSlotTalk ==
    ASSUME TalkInv, UNCHANGED <<session, slot>>
    PROVE  SlotTalk'
BY DEF TalkInv, SlotTalk, Find, Live

-----------------------------------------------------------------------------
\* What a packet of the device does to a conversation of the client.
LEMMA ClientPhase ==
    ASSUME NEW c \in ConvType, NEW p, NEW id \in ClientIds, p.op # "start", p.op # "data",
           c[<<"client", id>>].phase # "sending"
    PROVE  LET after == CloudTakes(c, p)[<<"client", id>>].phase
           IN  \/ after = c[<<"client", id>>].phase
               \/ /\ after = "none" /\ p.op = "error"
                  /\ ErrorOwner(p) = "client" /\ p.id = id
<1> DEFINE k == <<"client", id>>
<1>1. k \in Keys /\ c \in [Keys -> [phase: {"none", "receiving", "replying", "answered",
                                            "sending", "waiting"}, count: Nat, acked: Nat]]
  BY DEF Keys, ClientIds, ConvType
<1>2. CASE p.op = "ack"
  <2>1. CloudTakes(c, p) = [c EXCEPT ![<<p.owner, p.id>>] =
                IF @.phase = "sending" THEN Acknowledged(@, p.count) ELSE @]
    BY <1>2 DEF CloudTakes
  <2> QED
    BY <1>1, <2>1
<1>3. CASE p.op = "error" /\ <<ErrorOwner(p), p.id>> \in Keys
  <2>1. CloudTakes(c, p) = [c EXCEPT ![<<ErrorOwner(p), p.id>>] = NoConversation]
    BY <1>3 DEF CloudTakes
  <2>2. CASE k = <<ErrorOwner(p), p.id>>
    <3>1. CloudTakes(c, p)[k] = NoConversation
      BY <1>1, <2>1, <2>2
    <3> QED
      BY <1>3, <2>2, <3>1 DEF NoConversation
  <2>3. CASE k # <<ErrorOwner(p), p.id>>
    BY <1>1, <2>1, <2>3
  <2> QED
    BY <2>2, <2>3
<1>4. CASE p.op # "ack" /\ ~(p.op = "error" /\ <<ErrorOwner(p), p.id>> \in Keys)
  BY <1>4 DEF CloudTakes
<1> QED
  BY <1>2, <1>3, <1>4

\* ... and what its data does.
LEMMA DataPhase ==
    ASSUME NEW c \in ConvType, NEW p, NEW id \in ClientIds, p.op \in {"start", "data"},
           p.last \in BOOLEAN
    PROVE  LET before == c[<<"client", id>>].phase
               after == CloudTakes(c, p)[<<"client", id>>].phase
           IN  \/ after = before
               \/ /\ p.owner = "client" /\ p.id = id
                  /\ after = IF p.last THEN "replying" ELSE "receiving"
<1> DEFINE k == <<"client", id>>
           V == [phase: {"none", "receiving", "replying", "answered",
                         "sending", "waiting"}, count: Nat, acked: Nat]
<1>1. k \in Keys /\ c \in [Keys -> V]
  BY DEF Keys, ClientIds, ConvType
<1>2. CASE <<p.owner, p.id>> # k
  <2>1. \E v : CloudTakes(c, p) = [c EXCEPT ![<<p.owner, p.id>>] = v] \/ CloudTakes(c, p) = c
    BY DEF CloudTakes
  <2> QED
    BY <1>1, <1>2, <2>1
<1>3. CASE <<p.owner, p.id>> = k /\ p.op = "start"
  <2>1. p.owner = "client" /\ p.id = id
    BY <1>3
  <2>2. CloudTakes(c, p) =
           [c EXCEPT ![k] = Conversation(IF p.last THEN "replying" ELSE "receiving", 1)]
    BY <1>3, <2>1 DEF CloudTakes
  <2>3. CloudTakes(c, p)[k] = Conversation(IF p.last THEN "replying" ELSE "receiving", 1)
    BY <1>1, <2>2
  <2> QED
    BY <2>1, <2>3 DEF Conversation
<1>4. CASE <<p.owner, p.id>> = k /\ p.op = "data"
  <2>1. p.owner = "client" /\ p.id = id
    BY <1>4
  <2>2. CloudTakes(c, p) = [c EXCEPT ![k] =
                IF c[k].phase # "receiving" THEN c[k] ELSE Counted(c[k], p.last)]
    BY <1>1, <1>4, <2>1 DEF CloudTakes
  <2>3. CloudTakes(c, p)[k] = IF c[k].phase # "receiving" THEN c[k] ELSE Counted(c[k], p.last)
    BY <1>1, <2>2
  <2>4. c[k] \in V
    BY <1>1
  <2> HIDE DEF k
  <2>5. Counted(c[k], p.last).phase = IF p.last THEN "replying" ELSE c[k].phase
    BY <2>4 DEF Counted
  <2> QED
    BY <2>1, <2>3, <2>5 DEF k
<1> QED
  BY <1>2, <1>3, <1>4

\* The send step: Device Cloud has the request when its session turns to wait.
LEMMA SendStepTalks ==
    ASSUME ConstantsAssumption, TypeInv, TalkInv, SendStep
    PROVE  TalkInv'
<1>1. Open /\ Open' /\ pc = "send" /\ pc' = "receive" /\ UNCHANGED <<held, result, inbound>>
  BY DEF SendStep, Open, recvVars
<1>2. /\ PacketTalk'
      /\ \A id : Arriving(id)' <=> Arriving(id)
  BY <1>1 DEF TalkInv, PacketTalk, Arriving, StillHeld
<1>3. conv \in ConvType
  BY DEF TypeInv, PacketInv
<1>4. CASE SendKeepAlive \/ SendNothing \/ SendDataDangling
  <2>1. session' = session /\ conv' = conv
    BY <1>4 DEF SendKeepAlive, SendNothing, SendDataDangling, listVars
  <2>2. SamePhases
    BY <2>1 DEF SamePhases, Phase
  <2>3. SlotTalk'
    <3>1. CASE SendKeepAlive
      BY <3>1 DEF SendKeepAlive, SlotTalk, ControlSlot, KeepAlive
    <3>2. CASE SendNothing \/ SendDataDangling
      BY <2>1, <3>2, SameSlotTalk DEF SendNothing, SendDataDangling, sendVars
    <3> QED
      BY <1>4, <3>1, <3>2
  <2> QED
    BY <1>1, <1>2, <2>1, <2>2, <2>3, SameSessionsTalk, TalkKeeps
<1>5. CASE SendControlComplete
  <2> DEFINE p == slot.packet
  <2>1. /\ session' = session /\ slot' = NoSlot /\ conv' = CloudTakes(conv, p)
        /\ slot.kind = "control"
    BY <1>5 DEF SendControlComplete, listVars
  <2>2. SlotTalk'
    BY <2>1 DEF NoSlot, SlotTalk
  <2>3. p.op # "start" /\ p.op # "data"
    BY <2>1 DEF TalkInv, SlotTalk
  <2>4. ASSUME NEW id \in ClientIds
        PROVE  \/ Phase(id)' = Phase(id)
               \/ /\ Phase(id)' = "none" /\ p.op = "error"
                  /\ ErrorOwner(p) = "client" /\ p.id = id
    BY <1>3, <2>1, <2>3, ClientPhase DEF Phase, TalkInv, PhaseTalk
  <2>5. ASSUME NEW id \in ClientIds, Phase(id)' # Phase(id)
        PROVE  /\ ~Expected(id)
               /\ \A h \in Find("client", id) : session[h].st = "get_data"
    <3>1. \A h \in Find("client", id) : session[h].st = "get_data"
      BY <2>1, <2>4, <2>5 DEF TalkInv, SlotTalk
    <3> QED
      BY <3>1 DEF Expected
  <2>6. \A id : Expected(id)' <=> Expected(id)
    BY <2>1 DEF Expected, Find, Live
  <2>7. ExpectTalk'
    BY <1>1, <1>2, <2>4, <2>5, <2>6 DEF TalkInv, ExpectTalk
  <2>8. PhaseTalk' /\ ClosedTalk'
    BY <1>1, <2>4 DEF TalkInv, PhaseTalk, ClosedTalk
  <2>9. ASSUME NEW h \in Live'
        PROVE  Behaved(session[h])'
    <3>1. h \in Live /\ session'[h] = session[h] /\ Behaved(session[h])
      BY <2>1 DEF TalkInv, ClientTalk, Live
    <3>2. CASE session[h].owner = "client" /\ Finished(session[h])
      <4>1. session[h].id \in ClientIds /\ h \in Find("client", session[h].id)
        BY <3>1, <3>2, ClientIdOf DEF Find
      <4> PICK id \in ClientIds : id = session[h].id
        BY <4>1
      <4>2. id \in ClientIds /\ h \in Find("client", id) /\ session[h].st = "delete"
        BY <3>2, <4>1 DEF Finished
      <4>3. Phase(id)' = Phase(id)
        BY <2>5, <4>2
      <4> QED
        BY <3>1, <4>3 DEF Behaved
    <3>3. CASE ~(session[h].owner = "client" /\ Finished(session[h]))
      BY <3>1, <3>3 DEF Behaved
    <3> QED
      BY <3>2, <3>3
  <2> QED
    BY <1>2, <2>2, <2>7, <2>8, <2>9 DEF TalkInv, ClientTalk
<1>6. CASE SendDataComplete
  <2> DEFINE p == slot.packet
             h == slot.session
             s == session[h]
  <2>1. /\ slot.kind = "data" /\ slot' = NoSlot /\ conv' = CloudTakes(conv, p)
    BY <1>6 DEF SendDataComplete
  <2>2. /\ h \in Live /\ p.op \in {"start", "data"} /\ s.st = "wait_send_complete"
        /\ p.owner = s.owner /\ p.id = s.id /\ p.last = s.last
    BY <2>1 DEF TalkInv, SlotTalk
  <2>3. s \in Proper /\ p.last \in BOOLEAN /\ s.request \in BOOLEAN /\ s.owner \in Owners
    BY <2>2, RequestTyped DEF Proper, Session
  <2>4. SlotTalk'
    BY <2>1 DEF NoSlot, SlotTalk
  <2>5. ASSUME NEW id \in ClientIds
        PROVE  \/ Phase(id)' = Phase(id)
               \/ /\ s.owner = "client" /\ s.id = id
                  /\ Phase(id)' = IF s.last THEN "replying" ELSE "receiving"
    BY <1>3, <2>1, <2>2, <2>3, DataPhase DEF Phase
  <2>6. CASE s.owner = "cloud"
    <3>1. SamePhases
      BY <2>5, <2>6 DEF SamePhases
    <3>2. CASE s.last /\ ~s.request
      <4>1. session' = [session EXCEPT ![h] = Free]
        BY <1>6, <3>2 DEF SendDataComplete, DeleteSession
      <4> QED
        BY <1>1, <1>2, <2>2, <2>4, <2>6, <3>1, <4>1, DeletionTalks, TalkKeeps
    <3>3. CASE ~(s.last /\ ~s.request)
      <4> DEFINE s1 == [s EXCEPT !.st = IF s.last THEN "receive" ELSE "get_data"]
      <4>1. session' = [session EXCEPT ![h] = s1]
        BY <1>6, <3>3 DEF SendDataComplete
      <4>2. Becomes(s1, s)
        BY <2>3 DEF Becomes, SameKey, Proper, Session, States
      <4>3. Behaved(s1)
        BY <2>6, <4>2 DEF Behaved, Becomes, SameKey
      <4> QED
        BY <1>1, <1>2, <2>2, <2>4, <2>6, <3>1, <4>1, <4>2, <4>3, OneTalks, TalkKeeps
    <3> QED
      BY <3>2, <3>3
  <2>7. CASE s.owner = "client"
    <3> DEFINE st == IF s.last THEN "receive" ELSE "get_data"
               s1 == [s EXCEPT !.st = st]
    <3>1. s.request /\ s.id \in ClientIds
      BY <2>2, <2>7, ClientIdOf DEF TalkInv, ClientTalk, Behaved, Clientele
    <3>2. session' = [session EXCEPT ![h] = s1]
      BY <1>6, <3>1 DEF SendDataComplete
    <3>3. s1.st = st /\ s1.request = s.request /\ SameKey(s1, s) /\ s1 \in Proper
      BY <2>3 DEF Proper, Session, States, SameKey
    <3>4. /\ Live' = Live /\ session'[h] = s1
          /\ \A g \in Live \ {h} : session'[g] = session[g]
      <4>1. session \in [Handles -> Proper \cup {Free}] /\ h \in Handles
        BY <2>2 DEF TypeInv, CoreInv, StateInv, ListInv, Live
      <4> QED
        BY <2>2, <3>2, <3>3, <4>1, FreeIsNoSession DEF Live
    <3> HIDE DEF s1
    <3> PICK r \in ClientIds : r = s.id
      BY <3>1
    <3>5. ~Expected(r) /\ ~Arriving(r) /\ Phase(r) # "replying"
      <4>1. ~Expected(r)
        BY <2>2, <2>7, OnlyOne DEF Expected, Find
      <4> QED
        BY <1>1, <3>1, <4>1 DEF TalkInv, ExpectTalk
    <3>6. ASSUME NEW id \in ClientIds, id # r
          PROVE  Phase(id)' = Phase(id) /\ (Expected(id)' <=> Expected(id))
      <4>1. Phase(id)' = Phase(id)
        BY <2>5, <3>6
      <4>2. Find("client", id)' = Find("client", id) /\ h \notin Find("client", id)
        BY <3>3, <3>4, <3>6 DEF Find, SameKey
      <4>3. \A g \in Find("client", id) : session'[g] = session[g]
        BY <3>4, <4>2 DEF Find
      <4> QED
        BY <4>1, <4>2, <4>3 DEF Expected
    <3>7. Phase(r)' = "replying" => Expected(r)'
      <4>1. Phase(r)' = "replying" => s.last
        <5> SUFFICES ASSUME Phase(r)' = "replying" PROVE s.last
          OBVIOUS
        <5>1. Phase(r)' # Phase(r)
          BY <3>5
        <5>2. Phase(r)' = IF s.last THEN "replying" ELSE "receiving"
          BY <2>5, <3>1, <5>1
        <5> QED
          BY <5>2
      <4>2. h \in Live' /\ session'[h].owner = "client" /\ session'[h].id = r
        BY <2>2, <2>7, <3>3, <3>4 DEF SameKey
      <4>3. s.last => session'[h].st = "receive"
        BY <3>3, <3>4
      <4> QED
        BY <4>1, <4>2, <4>3 DEF Expected, Find
    <3>8. ExpectTalk'
      <4>1. ASSUME NEW id \in ClientIds
            PROVE  /\ Arriving(id)' => Phase(id)' = "answered"
                   /\ Arriving(id)' \/ Phase(id)' = "replying" => Expected(id)'
        <5>1. CASE id = r
          <6>1. ~Arriving(id)' /\ (Phase(id)' = "replying" => Expected(id)')
            BY <1>2, <3>5, <3>7, <5>1
          <6> QED
            BY <6>1
        <5>2. CASE id # r
          BY <1>1, <1>2, <3>6, <5>2 DEF TalkInv, ExpectTalk
        <5> QED
          BY <5>1, <5>2
      <4> QED
        BY <4>1 DEF ExpectTalk
    <3>9. PhaseTalk' /\ ClosedTalk'
      BY <1>1, <2>5 DEF TalkInv, PhaseTalk, ClosedTalk
    <3>10. ASSUME NEW g \in Live'
           PROVE  Behaved(session[g])'
      <4>1. CASE g = h
        BY <3>1, <3>3, <3>4, <4>1 DEF Behaved, Clientele, Finished
      <4>2. CASE g # h
        <5>1. g \in Live /\ session'[g] = session[g] /\ Behaved(session[g])
          BY <3>4, <4>2 DEF TalkInv, ClientTalk
        <5>2. session[g].owner = "client" => session[g].id \in ClientIds /\ session[g].id # r
          BY <2>2, <2>7, <4>2, <5>1, ClientIdOf, OnlyOne
        <5> QED
          BY <3>6, <5>1, <5>2 DEF Behaved
      <4> QED
        BY <4>1, <4>2
    <3> QED
      BY <1>2, <2>4, <3>8, <3>9, <3>10 DEF TalkInv, ClientTalk
  <2> QED
    BY <2>3, <2>6, <2>7 DEF Owners
<1> QED
  BY <1>4, <1>5, <1>6 DEF SendStep

-----------------------------------------------------------------------------
\* Sessions that differ in nothing a conversation depends on.
Alike(s1, s) ==
    /\ SameKey(s1, s)
    /\ s1.st = s.st /\ s1.request = s.request /\ s1.start = s.start
    /\ s1.last = s.last /\ s1.rt = s.rt /\ s1.reason = s.reason

\* A step that changes sessions in nothing that matters.
LEMMA AlikeTalk ==
    ASSUME TypeInv, TalkInv, SamePhases, Live' = Live, slot' = slot,
           \A h \in Live : Alike(session'[h], session[h])
    PROVE  ClientTalk' /\ StillExpected /\ SlotTalk'
<1>1. ASSUME NEW h \in Live
      PROVE  Behaved(session[h])'
  <2>1. Behaved(session[h]) /\ Alike(session'[h], session[h])
    BY <1>1 DEF TalkInv, ClientTalk
  <2>2. session[h].owner = "client" => session[h].id \in ClientIds
    BY <1>1, ClientIdOf
  <2> QED
    BY <2>1, <2>2 DEF Behaved, Clientele, Finished, Alike, SameKey, SamePhases
<1>2. \A owner, id : Find(owner, id)' = Find(owner, id)
  BY DEF Find, Alike, SameKey
<1>3. \A owner, id : \A h \in Find(owner, id) : Alike(session'[h], session[h])
  BY DEF Find
<1>4. StillExpected
  BY <1>2, <1>3 DEF StillExpected, Expected, Alike
<1>5. SlotTalk'
  <2>1. SlotTalk
    BY DEF TalkInv
  <2>2. slot.kind = "data" =>
          /\ slot.session \in Live
          /\ slot.packet.op \in {"start", "data"}
          /\ session'[slot.session].st = "wait_send_complete"
          /\ slot.packet.owner = session'[slot.session].owner
          /\ slot.packet.id = session'[slot.session].id
          /\ slot.packet.last = session'[slot.session].last
    BY <2>1 DEF SlotTalk, Alike, SameKey
  <2>3. slot.kind = "control" =>
          /\ slot.packet.op \notin {"start", "data"}
          /\ slot.packet.op = "error" /\ ErrorOwner(slot.packet) = "client" =>
                \A h \in Find("client", slot.packet.id)' :
                    /\ session'[h].st = "get_data"
                    /\ session'[h].request
                    /\ session'[h].start
    BY <1>2, <1>3, <2>1 DEF SlotTalk, Alike
  <2> QED
    BY <2>2, <2>3 DEF SlotTalk
<1> QED
  BY <1>1, <1>4, <1>5 DEF ClientTalk

\* The slot, when one session changes that is neither being sent nor about to
\* be the subject of an error.
LEMMA OneSlotTalk ==
    ASSUME TypeInv, TalkInv, NEW h \in Live, NEW s, Becomes(s, session[h]),
           session' = [session EXCEPT ![h] = s], slot' = slot,
           session[h].st \in {"get_data", "wait_send_complete"} => s = session[h]
    PROVE  SlotTalk'
<1>1. session \in [Handles -> Proper \cup {Free}] /\ h \in Handles
  BY DEF TypeInv, CoreInv, StateInv, ListInv, Live
<1>2. Live' = Live /\ session'[h] = s /\ \A g \in Live \ {h} : session'[g] = session[g]
  BY <1>1, FreeIsNoSession DEF Live, Becomes
<1>3. SameKey(s, session[h])
  BY DEF Becomes
<1>4. ASSUME NEW g \in Live, session[g].st \in {"get_data", "wait_send_complete"}
      PROVE  session'[g] = session[g]
  BY <1>2, <1>4
<1>5. ASSUME NEW g \in Find("client", slot.packet.id)'
      PROVE  g \in Find("client", slot.packet.id)
  <2>1. g \in Live /\ session'[g].owner = session[g].owner /\ session'[g].id = session[g].id
    BY <1>2, <1>3, <1>5 DEF Find, SameKey
  <2> QED
    BY <1>5, <2>1 DEF Find
<1>6. SlotTalk
  BY DEF TalkInv
<1>7. slot.kind = "data" =>
          /\ slot.session \in Live
          /\ slot.packet.op \in {"start", "data"}
          /\ session'[slot.session].st = "wait_send_complete"
          /\ slot.packet.owner = session'[slot.session].owner
          /\ slot.packet.id = session'[slot.session].id
          /\ slot.packet.last = session'[slot.session].last
  BY <1>4, <1>6 DEF SlotTalk
<1>8. slot.kind = "control" /\ slot.packet.op = "error" /\ ErrorOwner(slot.packet) = "client" =>
                \A g \in Find("client", slot.packet.id)' :
                    /\ session'[g].st = "get_data"
                    /\ session'[g].request
                    /\ session'[g].start
  <2> SUFFICES ASSUME slot.kind = "control", slot.packet.op = "error",
                      ErrorOwner(slot.packet) = "client",
                      NEW g \in Find("client", slot.packet.id)'
               PROVE  session'[g].st = "get_data" /\ session'[g].request /\ session'[g].start
    OBVIOUS
  <2>1. g \in Find("client", slot.packet.id) /\ g \in Live
    BY <1>5 DEF Find
  <2>2. session[g].st = "get_data" /\ session[g].request /\ session[g].start
    BY <1>6, <2>1 DEF SlotTalk
  <2> QED
    BY <1>4, <2>1, <2>2
<1> QED
  BY <1>2, <1>6, <1>7, <1>8 DEF SlotTalk

\* ... and when a session is added.
LEMMA AdditionSlotTalk ==
    ASSUME TypeInv, TalkInv, NEW h \in Handles \ Live, NEW s \in Proper,
           session' = [session EXCEPT ![h] = s], slot' = slot,
           s.owner = "client" => s.st = "get_data" /\ s.request /\ s.start
    PROVE  SlotTalk'
<1>1. session \in [Handles -> Proper \cup {Free}] /\ h \in Handles
  BY DEF TypeInv, CoreInv, StateInv, ListInv, Live
<1>2. /\ Live' = Live \cup {h} /\ session'[h] = s
      /\ \A g \in Live : session'[g] = session[g]
  BY <1>1, FreeIsNoSession DEF Live
<1>3. SlotTalk
  BY DEF TalkInv
<1>4. slot.kind = "data" =>
          /\ slot.session \in Live
          /\ slot.packet.op \in {"start", "data"}
          /\ session'[slot.session].st = "wait_send_complete"
          /\ slot.packet.owner = session'[slot.session].owner
          /\ slot.packet.id = session'[slot.session].id
          /\ slot.packet.last = session'[slot.session].last
  BY <1>2, <1>3 DEF SlotTalk
<1>5. slot.kind = "control" /\ slot.packet.op = "error" /\ ErrorOwner(slot.packet) = "client" =>
                \A g \in Find("client", slot.packet.id)' :
                    /\ session'[g].st = "get_data"
                    /\ session'[g].request
                    /\ session'[g].start
  <2> SUFFICES ASSUME slot.kind = "control", slot.packet.op = "error",
                      ErrorOwner(slot.packet) = "client",
                      NEW g \in Find("client", slot.packet.id)'
               PROVE  session'[g].st = "get_data" /\ session'[g].request /\ session'[g].start
    OBVIOUS
  <2>1. CASE g = h
    BY <1>2, <2>1 DEF Find
  <2>2. CASE g # h
    <3>1. g \in Live /\ session'[g] = session[g] /\ g \in Find("client", slot.packet.id)
      BY <1>2, <2>2 DEF Find
    <3> QED
      BY <1>3, <3>1 DEF SlotTalk
  <2> QED
    BY <2>1, <2>2
<1> QED
  BY <1>2, <1>3, <1>4, <1>5 DEF SlotTalk

\* The packet that a receive step hands on, and what is left of the stream.
LEMMA ReceivedTalk ==
    ASSUME TypeInv, TalkInv, ReceiveStep
    PROVE  /\ PacketTalk'
           /\ \A id \in ClientIds :
                 /\ Arriving(id)' => Arriving(id)
                 /\ Replies(held', id) =>
                       /\ Arriving(id)
                       /\ result' \notin {"pending", "active"} => ~Arriving(id)'
<1>1. pc = "receive" /\ pc' = "start"
  BY DEF ReceiveStep
<1>2. StillHeld /\ (StillHeld' <=> result' \in {"pending", "active"})
  BY <1>1 DEF StillHeld
<1>3. PacketTalk /\ inbound \in Seq(Packets) /\ held \in Packets \cup {NoPacket}
  BY DEF TalkInv, TypeInv, PacketInv
<1>4. NoPacket.op = "none" /\ Plain(NoPacket) /\ \A id : ~Replies(NoPacket, id)
  BY DEF NoPacket, Plain, Replies
<1>5. CASE held' = held /\ inbound' = inbound
  <2>1. PacketTalk'
    BY <1>2, <1>3, <1>5 DEF PacketTalk
  <2> QED
    BY <1>2, <1>3, <1>5, <2>1 DEF PacketTalk, Arriving
<1>6. CASE held = NoPacket /\ inbound # << >> /\ held' = Head(inbound) /\ inbound' = Tail(inbound)
  <2>1. /\ Len(inbound) \in Nat /\ Len(inbound) >= 1 /\ Len(inbound') = Len(inbound) - 1
        /\ held' = inbound[1]
        /\ \A i \in 1 .. Len(inbound') : inbound'[i] = inbound[i + 1]
    BY <1>3, <1>6
  <2>2. \A i \in 1 .. Len(inbound') : i + 1 \in 1 .. Len(inbound) /\ i + 1 # 1
    BY <2>1
  <2>3. 1 \in 1 .. Len(inbound) /\ Len(inbound') \in Nat
    BY <2>1
  <2>4. Plain(held') /\ \A i \in 1 .. Len(inbound') : Plain(inbound'[i])
    BY <1>3, <2>1, <2>2, <2>3 DEF PacketTalk
  <2>5. ASSUME NEW i \in 1 .. Len(inbound'), NEW j \in 1 .. Len(inbound'), NEW id \in ClientIds,
               Replies(inbound'[i], id), Replies(inbound'[j], id)
        PROVE  i = j
    <3>1. i + 1 = j + 1
      BY <1>3, <2>1, <2>2, <2>5 DEF PacketTalk
    <3> QED
      BY <2>3, <3>1
  <2>6. ASSUME NEW i \in 1 .. Len(inbound'), NEW id \in ClientIds, Replies(inbound'[i], id)
        PROVE  ~Replies(held', id)
    BY <1>3, <2>1, <2>2, <2>3, <2>6 DEF PacketTalk
  <2>7. PacketTalk'
    BY <2>4, <2>5, <2>6 DEF PacketTalk
  <2>8. ASSUME NEW id \in ClientIds, Arriving(id)'
        PROVE  Arriving(id)
    BY <2>1, <2>2, <2>3, <2>8 DEF Arriving
  <2>9. ASSUME NEW id \in ClientIds, Replies(held', id)
        PROVE  /\ Arriving(id)
               /\ result' \notin {"pending", "active"} => ~Arriving(id)'
    <3>1. Arriving(id)
      BY <2>1, <2>3, <2>9 DEF Arriving
    <3> QED
      BY <1>2, <2>6, <2>9, <3>1 DEF Arriving
  <2> QED
    BY <2>7, <2>8, <2>9
<1> QED
  BY <1>5, <1>6 DEF ReceiveStep, ReceiveNothing, ReceivePacket, ProcessHeld

-----------------------------------------------------------------------------
\* What the packet p that is processed has to do with the conversations.
Awaited(p) ==
    /\ p \in Packets /\ Keyed(p) /\ Plain(p)
    /\ \A id \in ClientIds :
          Replies(p, id) =>
             /\ Expected(id) /\ Phase(id) = "answered"
             /\ result' \notin {"pending", "active"} => ~Arriving(id)'

\* A packet without a session keeps the conversations of the others.
LEMMA RefusalTalks ==
    ASSUME TypeInv, TalkInv, SamePhases, NEW p, p.owner = "cloud",
           ErrorForNobody(p) \/ UNCHANGED sendVars, session' = session
    PROVE  ClientTalk' /\ StillExpected /\ SlotTalk'
<1>1. ClientTalk' /\ StillExpected
  BY SameSessionsTalk
<1>2. CASE ErrorForNobody(p)
  <2> DEFINE e == [op |-> "error", request |-> p.owner = "cloud", sender |-> FALSE, id |-> p.id]
  <2>1. slot' = ControlSlot(e)
    BY <1>2 DEF ErrorForNobody
  <2>2. slot'.kind = "control" /\ slot'.packet.op = "error" /\ ErrorOwner(slot'.packet) = "cloud"
    BY <2>1 DEF ControlSlot, ErrorOwner
  <2> QED
    BY <1>1, <2>2 DEF SlotTalk
<1>3. CASE UNCHANGED sendVars
  BY <1>1, <1>3, SameSlotTalk DEF sendVars
<1> QED
  BY <1>2, <1>3

\* So does a new device request.
LEMMA NewDeviceRequestTalks ==
    ASSUME ConstantsAssumption, TypeInv, TalkInv, SamePhases, NEW p \in Packets, Keyed(p),
           StartDeviceRequest(p)
    PROVE  ClientTalk' /\ StillExpected /\ SlotTalk'
<1> DEFINE n == NewSession("cloud", p.id, p.id, "receive", "none")
<1>1. p.op = "start" /\ p.owner = "cloud" /\ HasMemory /\ slot' = slot
  BY DEF StartDeviceRequest, sendVars
<1>2. <<p.owner, p.id>> \in Keys
  BY <1>1 DEF Keyed
<1>3. p.id \in CloudIds
  BY <1>1, <1>2 DEF Keys
<1>4. p.id \in Nat /\ p.id \in Talks
  BY <1>3 DEF ConstantsAssumption, Talks
<1>5. n \in Proper
  BY <1>4, NewSessionTyped DEF RequestTypes, Owners
<1>6. p.last \in BOOLEAN
  BY <1>1 DEF Packets, DataPacket, AckPacket, ErrorPacket
<1>7. PICK answer \in PassAnswers(n) : AddSession(NewHandle, Pass(n, p, answer).s)
  BY DEF StartDeviceRequest
<1> DEFINE s == Pass(n, p, answer).s
<1>8. Becomes(s, n)
  BY <1>5, <1>6, PassKeeps
<1>9. s \in Proper /\ s.owner = "cloud"
  BY <1>8 DEF Becomes, SameKey, NewSession
<1>10. session' = [session EXCEPT ![NewHandle] = s]
  BY <1>7 DEF AddSession
<1>11. NewHandle \in Handles \ Live
  BY <1>1, NewHandleFree
<1> HIDE DEF s
<1> QED
  BY <1>1, <1>9, <1>10, <1>11, AdditionTalks, AdditionSlotTalk

\* So does a packet of a device request.
LEMMA DeviceDataTalks ==
    ASSUME ConstantsAssumption, TypeInv, TalkInv, SamePhases, NEW p \in Packets,
           p.owner = "cloud", PassToSession(p)
    PROVE  ClientTalk' /\ StillExpected /\ SlotTalk'
<1>0. PICK h \in Find(p.owner, p.id) : \E answer \in PassAnswers(session[h]) :
         session' = [session EXCEPT ![h] = Pass(session[h], p, answer).s]
  BY DEF PassToSession
<1>1. PICK answer \in PassAnswers(session[h]) :
         session' = [session EXCEPT ![h] = Pass(session[h], p, answer).s]
  BY <1>0
<1>2. h \in Live /\ session[h].owner = "cloud" /\ session[h] \in Proper
  BY <1>0, RequestTyped DEF Find
<1>3. p.last \in BOOLEAN /\ slot' = slot
  BY DEF PassToSession, Packets, DataPacket, AckPacket, ErrorPacket, sendVars
<1> DEFINE s == Pass(session[h], p, answer).s
<1>4. Becomes(s, session[h])
  BY <1>1, <1>2, <1>3, PassKeeps
<1>5. session[h].st \in {"get_data", "wait_send_complete"} => s = session[h]
  BY DEF Pass
<1>6. Behaved(s)
  BY <1>2, <1>4 DEF Behaved, Becomes, SameKey
<1> HIDE DEF s
<1>7. session' = [session EXCEPT ![h] = s]
  BY <1>1 DEF s
<1> QED
  BY <1>2, <1>3, <1>4, <1>5, <1>6, <1>7, OneTalks, OneSlotTalk

\* The response to a put request ends its session, or waits for its owner.
Responded(done, f) ==
    /\ Becomes(done.s, f)
    /\ ~done.s.request
    /\ done.s.st = "send_error" => done.s.reason # "none"
    /\ \/ done.s.st = "receive" /\ done.status = "pending"
       \/ /\ done.s.st \in {"delete", "send_error"}
          /\ done.status \notin {"pending", "active"}

\* A session that was turned round for its response.
Responding(f) ==
    f \in Proper /\ f.owner = "client" /\ f.st = "receive" /\ f.request = FALSE

\* The response is one packet.
Final(p) == p.last = TRUE

\* The service ends the session of the put request, or asks for time.
LEMMA ResponsePasses ==
    ASSUME ConstantsAssumption, NEW f, Responding(f),
           NEW p, Final(p), NEW answer \in TakeAnswers
    PROVE  Responded(Pass(f, p, answer), f)
<1> DEFINE done == Pass(f, p, answer)
<1>0. f \in Proper /\ f.owner = "client" /\ f.st = "receive" /\ f.request = FALSE
  BY DEF Responding
<1>a. f \in Proper
  BY <1>0
<1>b. p.last = TRUE
  BY DEF Final
<1>1. answer \in PassAnswers(f) /\ answer \in Taking
  BY <1>0 DEF PassAnswers, ConstantsAssumption, Taking
<1>2. Becomes(done.s, f)
  <2>1. p.last \in BOOLEAN
    BY <1>b
  <2>2. Becomes(Pass(f, p, answer).s, f)
    BY <1>a, <1>1, <2>1, PassKeeps
  <2> QED
    BY <2>2
<1>3. done = PassResponse(f, p, answer)
  BY <1>0 DEF Pass
<1> DEFINE s1 == [f EXCEPT !.last = p.last]
<1> HIDE DEF done
<1>4. s1.st = "receive" /\ s1.request = FALSE /\ s1.owner = "client" /\ s1 \in Session
  BY <1>0, <1>b DEF Proper, Session
<1>5. ASSUME answer = "continue" PROVE Responded(done, f)
  <2>1. done = [s |-> Taken(s1, p.last), status |-> "working"]
    BY <1>3, <1>5 DEF PassResponse
  <2>2. Taken(s1, p.last) = [[s1 EXCEPT !.start = FALSE, !.last = p.last] EXCEPT !.st = "delete"]
    BY <1>4, <1>b DEF Taken
  <2> DEFINE t == Taken(s1, p.last)
  <2>3. t.st = "delete" /\ t.request = FALSE
    BY <1>4, <2>2 DEF Session
  <2> HIDE DEF t
  <2>4. done.s = t /\ done.status = "working"
    BY <2>1 DEF t
  <2> QED
    BY <1>2, <2>3, <2>4 DEF Responded
<1>6. ASSUME answer = "busy" PROVE Responded(done, f)
  <2>1. done = [s |-> s1, status |-> "pending"]
    BY <1>3, <1>6 DEF PassResponse
  <2> HIDE DEF s1
  <2>2. done.s = s1 /\ done.status = "pending"
    BY <2>1
  <2> QED
    BY <1>2, <1>4, <2>2 DEF Responded
<1>7. ASSUME answer = "error" PROVE Responded(done, f)
  <2> DEFINE s2 == [s1 EXCEPT !.reason = "cancel"]
             e == SetError(s2)
  <2>1. done = [s |-> e, status |-> "unavailable"]
    BY <1>3, <1>7 DEF PassResponse
  <2>2. s2.request = FALSE /\ s2.owner = "client" /\ s2.reason = "cancel" /\ s2 \in Session
    BY <1>4 DEF Session
  <2> HIDE DEF s2
  <2>3. e = [s2 EXCEPT !.st = "send_error", !.errRequest = FALSE, !.errSender = FALSE]
    BY <2>2 DEF SetError, Receiving
  <2>4. e.st = "send_error" /\ e.reason = "cancel" /\ e.request = FALSE
    BY <2>2, <2>3 DEF Session
  <2> HIDE DEF e
  <2>5. done.s = e /\ done.status = "unavailable"
    BY <2>1
  <2> QED
    BY <1>2, <2>4, <2>5 DEF Responded
<1>8. Responded(done, f)
  BY <1>1, <1>5, <1>6, <1>7 DEF Taking
<1> QED
  BY <1>8 DEF done

\* A response ends the session that waits for it.
LEMMA ResponseTalks ==
    ASSUME ConstantsAssumption, TypeInv, TalkInv, SamePhases, NEW p, Awaited(p),
           p.owner = "client", PassToSession(p)
    PROVE  ClientTalk' /\ StillExpected /\ SlotTalk'
<1>1. p.op = "start" /\ slot' = slot
  BY DEF PassToSession, Awaited, Plain, sendVars
<1>a. Final(p)
  BY <1>1 DEF Awaited, Plain, PassToSession, Final
<1>2. PICK h \in Find(p.owner, p.id) :
         LET s == IF session[h].st # "send_error"
                  THEN FreshBlock(session[h], FALSE, "receive")
                  ELSE session[h]
         IN  \E answer \in PassAnswers(s) :
                LET done == Pass(s, p, answer)
                IN  /\ session' = [session EXCEPT ![h] = done.s]
                    /\ result' = done.status
  BY <1>1 DEF PassToSession
<1>3. h \in Live /\ session[h].owner = "client" /\ session[h].id = p.id /\ session[h] \in Proper
  BY <1>2, RequestTyped DEF Find
<1> PICK r \in ClientIds : r = p.id
  BY <1>3, ClientIdOf
<1>4. Replies(p, r)
  BY <1>1 DEF Replies
<1>5. session[h].st = "receive"
  BY <1>3, <1>4, OnlyOne DEF Awaited, Expected, Find
<1> DEFINE f == FreshBlock(session[h], FALSE, "receive")
<1>b. Becomes(f, session[h])
  BY <1>3, FreshBlockKeeps
<1>6. Responding(f) /\ f.owner = "client"
  BY <1>3, <1>b DEF FreshBlock, Proper, Session, Becomes, Responding
<1>7. PICK answer \in TakeAnswers :
         /\ session' = [session EXCEPT ![h] = Pass(f, p, answer).s]
         /\ result' = Pass(f, p, answer).status
  BY <1>2, <1>5, <1>6 DEF PassAnswers
<1> DEFINE done == Pass(f, p, answer)
           s == done.s
<1> HIDE DEF f, done
<1>8. /\ Becomes(s, session[h]) /\ ~s.request
      /\ s.st = "send_error" => s.reason # "none"
      /\ \/ s.st = "receive" /\ result' = "pending"
         \/ s.st \in {"delete", "send_error"} /\ result' \notin {"pending", "active"}
  <2>1. Responded(Pass(f, p, answer), f)
    BY <1>a, <1>6, ResponsePasses
  <2>2. Responded(done, f) /\ result' = done.status
    BY <1>7, <2>1 DEF done
  <2>3. Becomes(s, session[h])
    BY <1>b, <2>2 DEF Responded, Becomes, SameKey
  <2> QED
    BY <2>2, <2>3 DEF Responded
<1>9. session' = [session EXCEPT ![h] = s]
  BY <1>7 DEF done
<1> HIDE DEF s
<1>10. s.id = r /\ s.owner = "client"
  BY <1>3, <1>8 DEF Becomes, SameKey
<1>11. Behaved(s)
  BY <1>4, <1>8, <1>10 DEF Behaved, Clientele, Awaited, Finished
<1>12. s.st = "receive" \/ (~Arriving(r)' /\ Phase(r) # "replying")
  BY <1>4, <1>8 DEF Awaited
<1>13. ClientTalk' /\ StillExpected
  <2>1. \/ session[h].owner = "client" /\ session[h].st = "receive" => s.st = "receive"
        \/ \A id \in ClientIds : id = session[h].id => ~Arriving(id)' /\ Phase(id) # "replying"
    BY <1>3, <1>12
  <2> QED
    BY <1>3, <1>8, <1>9, <1>11, <2>1, OneTalks
<1>14. SlotTalk'
  BY <1>1, <1>3, <1>5, <1>8, <1>9, OneSlotTalk
<1> QED
  BY <1>13, <1>14

\* An acknowledgement changes nothing that matters.
LEMMA AckTalks ==
    ASSUME TypeInv, TalkInv, SamePhases, NEW p, ProcessAck(p)
    PROVE  ClientTalk' /\ StillExpected /\ SlotTalk'
<1>1. /\ slot' = slot
      /\ session' = [h \in Handles |->
              IF h \in Find(p.owner, p.id) /\ ~Receiving(session[h])
              THEN [session[h] EXCEPT !.acked = p.count, !.ackPending = FALSE]
              ELSE session[h]]
  BY DEF ProcessAck, sendVars
<1>2. ASSUME NEW h \in Handles
      PROVE  /\ h \in Live => Alike(session'[h], session[h]) /\ session'[h] # Free
             /\ h \notin Live => session'[h] = Free
  <2>1. CASE h \in Live
    <3> DEFINE s == session[h]
               a == [s EXCEPT !.acked = p.count, !.ackPending = FALSE]
    <3>1. s \in Session /\ s # Free
      BY <2>1, RequestTyped DEF Proper, Live
    <3> HIDE DEF s
    <3>2. Alike(a, s) /\ a.st = s.st /\ Alike(s, s)
      BY <3>1 DEF Alike, SameKey, Session
    <3>3. a # Free
      BY <3>1 DEF Free, Session
    <3>4. session'[h] = a \/ session'[h] = s
      BY <1>1 DEF s
    <3> QED
      BY <2>1, <3>1, <3>2, <3>3, <3>4 DEF s
  <2>2. CASE h \notin Live
    <3>1. h \notin Find(p.owner, p.id)
      BY <2>2 DEF Find
    <3> QED
      BY <1>1, <2>2, <3>1 DEF Live
  <2> QED
    BY <2>1, <2>2
<1>3. Live' = Live /\ \A h \in Live : Alike(session'[h], session[h])
  <2>1. Live' = {h \in Handles : session'[h] # Free}
    BY DEF Live
  <2>2. Live \subseteq Handles
    BY DEF Live
  <2> QED
    BY <1>2, <2>1, <2>2
<1> QED
  BY <1>1, <1>3, AlikeTalk

\* Every packet keeps the conversations.
LEMMA ProcessTalks ==
    ASSUME ConstantsAssumption, TypeInv, TalkInv, SamePhases, NEW p, Awaited(p), Process(p)
    PROVE  ClientTalk' /\ StillExpected /\ SlotTalk'
<1>1. p \in Packets /\ Keyed(p) /\ Plain(p)
  BY DEF Awaited
<1>2. CASE StartDeviceRequest(p)
  BY <1>1, <1>2, NewDeviceRequestTalks
<1>3. CASE RefuseDeviceRequest(p)
  BY <1>3, RefusalTalks DEF RefuseDeviceRequest, listVars
<1>4. CASE StartUnknown(p)
  <2>1. p.op = "start" /\ p.owner = "client" /\ Find("client", p.id) = {}
    BY <1>4 DEF StartUnknown
  <2>2. p.id \in ClientIds /\ Replies(p, p.id)
    BY <1>1, <2>1 DEF Keyed, Keys, ClientIds, Replies
  <2>3. Expected(p.id)
    BY <2>2 DEF Awaited
  <2> QED
    BY <2>1, <2>3 DEF Expected
<1>5. CASE DataUnknown(p)
  <2>1. p.op = "data" /\ session' = session /\ (ErrorForNobody(p) \/ UNCHANGED sendVars)
    BY <1>5 DEF DataUnknown, listVars
  <2>2. p.owner \in Owners
    BY <1>1, <2>1 DEF Packets, DataPacket, AckPacket, ErrorPacket
  <2>3. p.owner = "cloud"
    BY <1>1, <2>1, <2>2 DEF Plain, Owners
  <2> QED
    BY <2>1, <2>3, RefusalTalks
<1>6. CASE PassToSession(p)
  <2>1. p.op \in {"start", "data"}
    BY <1>6 DEF PassToSession
  <2>2. p.owner \in Owners
    BY <1>1, <2>1 DEF Packets, DataPacket, AckPacket, ErrorPacket
  <2> QED
    BY <1>1, <1>6, <2>2, ResponseTalks, DeviceDataTalks DEF Owners
<1>7. CASE ProcessAck(p)
  BY <1>7, AckTalks
<1>8. CASE ProcessError(p) \/ ErrorUnknown(p)
  BY <1>1, <1>8 DEF ProcessError, ErrorUnknown, Plain
<1> QED
  BY <1>2, <1>3, <1>4, <1>5, <1>6, <1>7, <1>8 DEF Process

\* The receive step keeps the invariant.
LEMMA ReceiveStepTalks ==
    ASSUME ConstantsAssumption, TypeInv, TalkInv, ReceiveStep
    PROVE  TalkInv'
<1>1. Open /\ Open' /\ conv' = conv
  BY DEF ReceiveStep, Open
<1>2. SamePhases
  BY <1>1 DEF SamePhases, Phase
<1>3. /\ PacketTalk'
      /\ \A id \in ClientIds :
            /\ Arriving(id)' => Arriving(id)
            /\ Replies(held', id) =>
                  /\ Arriving(id)
                  /\ result' \notin {"pending", "active"} => ~Arriving(id)'
  BY ReceivedTalk
<1>4. ClientTalk' /\ StillExpected /\ SlotTalk'
  <2>1. CASE ReceiveNothing
    BY <1>2, <2>1, SameSessionsTalk, SameSlotTalk DEF ReceiveNothing, listVars, sendVars
  <2>2. CASE ReceivePacket \/ ProcessHeld
    <3>1. Process(held') /\ held' \in Packets /\ Keyed(held')
      <4>1. CASE ReceivePacket
        <5>1. inbound \in Seq(Packets) /\ inbound # << >> /\ \A i \in 1 .. Len(inbound) : Keyed(inbound[i])
          BY <4>1 DEF ReceivePacket, TypeInv, PacketInv
        <5>2. 1 \in 1 .. Len(inbound) /\ Head(inbound) = inbound[1]
          BY <5>1
        <5> QED
          BY <4>1, <5>1, <5>2 DEF ReceivePacket
      <4>2. CASE ProcessHeld
        BY <4>2 DEF ProcessHeld, TypeInv, PacketInv
      <4> QED
        BY <2>2, <4>1, <4>2
    <3>2. Plain(held')
      BY <1>3 DEF PacketTalk
    <3>3. \A id \in ClientIds : Arriving(id) => Expected(id) /\ Phase(id) = "answered"
      BY <1>1 DEF TalkInv, ExpectTalk
    <3>4. Awaited(held')
      BY <1>3, <3>1, <3>2, <3>3 DEF Awaited
    <3> PICK p : p = held'
      OBVIOUS
    <3>5. Awaited(p) /\ Process(p)
      BY <3>1, <3>4
    <3> QED
      BY <1>2, <3>5, ProcessTalks
  <2> QED
    BY <2>1, <2>2 DEF ReceiveStep
<1> QED
  BY <1>1, <1>2, <1>3, <1>4, TalkKeeps

-----------------------------------------------------------------------------
\* The start step: a new put request has sent nothing yet.
LEMMA StartStepTalks ==
    ASSUME ConstantsAssumption, TypeInv, TalkInv, StartStep
    PROVE  TalkInv'
<1>1. /\ Open /\ Open' /\ UNCHANGED <<held, result, inbound>> /\ conv' = conv
      /\ slot' = slot /\ (StillHeld' <=> StillHeld)
  BY DEF StartStep, Open, recvVars, sendVars, StillHeld
<1>2. SamePhases /\ PacketTalk' /\ \A id \in ClientIds : Arriving(id)' => Arriving(id)
  BY <1>1 DEF SamePhases, Phase, TalkInv, PacketTalk, Arriving
<1>3. ClientTalk' /\ StillExpected /\ SlotTalk'
  <2>1. CASE StartRequest
    <3> DEFINE req == pending[NextPending]
               s   == NewSession("client", NextId, req, "get_data", "send_data")
    <3>1. /\ req \in Requests /\ MayCreate("client") /\ HasMemory
      BY <2>1 DEF StartRequest, NextPending, TypeInv, QueueInv
    <3>2. NextId \in Nat
      BY <3>1, NextIdFree DEF MayCreate, TypeInv, QueueInv, FreeIds
    <3>3. s \in Proper /\ s.st = "get_data" /\ s.request /\ s.start
      BY <3>1, <3>2, NewSessionTyped DEF Owners, Talks, RequestTypes, NewSession
    <3> HIDE DEF s
    <3>4. session' = [session EXCEPT ![NewHandle] = s]
      BY <2>1 DEF StartRequest, AddSession, s
    <3>5. NewHandle \in Handles \ Live
      BY <3>1, NewHandleFree
    <3> QED
      BY <1>1, <1>2, <3>3, <3>4, <3>5, AdditionTalks, AdditionSlotTalk
  <2>2. CASE StartWithoutContext \/ StartNothing
    <3>1. session' = session
      BY <2>2 DEF StartWithoutContext, StartNothing, listVars
    <3> QED
      BY <1>1, <1>2, <3>1, SameSessionsTalk, SameSlotTalk
  <2> QED
    BY <2>1, <2>2 DEF StartStep
<1> QED
  BY <1>1, <1>2, <1>3, TalkKeeps

-----------------------------------------------------------------------------
\* Polling a session that sends.
LEMMA PollSendDataTalks ==
    ASSUME ConstantsAssumption, TypeInv, TalkInv, SamePhases, PollSendData
    PROVE  ClientTalk' /\ StillExpected /\ SlotTalk'
<1>1. Polled \in Live /\ session[Polled].st = "get_data"
  BY PolledLive DEF PollSendData, MayAskForData, TypeInv, CoreInv, StateInv
<1>2. session[Polled] \in Proper /\ Polled \in Handles
  BY <1>1, RequestTyped
<1> DEFINE s == session[Polled]
           total == s.total + 1
           full == WindowFull(total, s.acked)
           packet(last) == [op |-> IF s.start THEN "start" ELSE "data",
                            owner |-> s.owner, id |-> s.id, last |-> last]
           new(last, b) == Filling(s, last, total, b)
<1>3. PICK last \in BOOLEAN :
        /\ session' = [session EXCEPT ![Polled] = new(last, full)]
        /\ slot' = DataSlot(Polled, packet(last))
  BY DEF PollSendData, Filling
<1>4. total \in Nat /\ full \in BOOLEAN
  BY <1>2 DEF Proper, Session, WindowFull
<1> DEFINE s1 == new(last, full)
<1> DEFINE Sent(t) == /\ Becomes(t, s)
                       /\ t.st = "wait_send_complete" /\ t.last = last
                       /\ t.request = s.request /\ t.owner = s.owner /\ t.id = s.id
<1>5. /\ Becomes(s1, s) /\ s1.st = "wait_send_complete" /\ s1.last = last
      /\ s1.request = s.request
  <2>1. \A n \in Nat, b \in BOOLEAN : Becomes(Filling(s, last, n, b), s)
    BY <1>2, FillingKeeps
  <2>2. s1.st = "wait_send_complete" /\ s1.last = last /\ s1.request = s.request
    BY <1>2 DEF Filling, Proper, Session
  <2> HIDE DEF total, full
  <2> QED
    BY <1>4, <2>1, <2>2
<1> HIDE DEF new
<1>6. Sent(s1)
  BY <1>5 DEF Becomes, SameKey
<1>a. session' = [session EXCEPT ![Polled] = s1]
  BY <1>3
<1> HIDE DEF new, s1, packet
<1>7. Behaved(s1)
  <2>1. Behaved(s)
    BY <1>1 DEF TalkInv, ClientTalk
  <2> QED
    BY <1>1, <1>6, <2>1 DEF Behaved, Clientele, Finished
<1>8. ClientTalk' /\ StillExpected /\ Live' = Live
  BY <1>1, <1>6, <1>a, <1>7, OneTalks
<1>9. session'[Polled] = s1
  BY <1>2, <1>a DEF TypeInv, CoreInv, StateInv, ListInv
<1>10. /\ slot'.kind = "data" /\ slot'.session = Polled
       /\ slot'.packet.op \in {"start", "data"} /\ slot'.packet.owner = s.owner
       /\ slot'.packet.id = s.id /\ slot'.packet.last = last
  BY <1>3 DEF DataSlot, packet
<1>11. SlotTalk'
  <2>1. /\ slot'.session \in Live'
        /\ session'[slot'.session].st = "wait_send_complete"
        /\ slot'.packet.owner = session'[slot'.session].owner
        /\ slot'.packet.id = session'[slot'.session].id
        /\ slot'.packet.last = session'[slot'.session].last
    BY <1>1, <1>6, <1>8, <1>9, <1>10
  <2> QED
    BY <1>10, <2>1 DEF SlotTalk
<1> QED
  BY <1>8, <1>11

\* Polling a session that is cancelled.
LEMMA PollCancelTalks ==
    ASSUME ConstantsAssumption, TypeInv, TalkInv, SamePhases, PollCancel
    PROVE  ClientTalk' /\ StillExpected /\ SlotTalk'
<1>1. Polled \in Live /\ session[Polled].st = "get_data" /\ BufferFree
  BY PolledLive DEF PollCancel, MayAskForData, TypeInv, CoreInv, StateInv
<1>2. session[Polled] \in Proper /\ Polled \in Handles
  BY <1>1, RequestTyped
<1> DEFINE s == session[Polled]
           rt == IF s.rt = "reply_data" THEN "reply_length" ELSE s.rt
           s1 == [s EXCEPT !.reason = "cancel", !.rt = rt]
           e == SetError(s1)
<1>3. Becomes(s1, s) /\ s1.reason = "cancel" /\ s1.owner = s.owner
  <2>1. rt \in RequestTypes /\ (s.owner = "client" => rt = s.rt)
    BY <1>2 DEF Proper, Session, RequestTypes
  <2> HIDE DEF rt
  <2> QED
    BY <1>2, <2>1 DEF Becomes, SameKey, Proper, Session
<1>4. session' = [session EXCEPT ![Polled] = e] /\ slot' = slot
  BY DEF PollCancel, sendVars
<1> HIDE DEF s1
<1>5. Becomes(e, s1)
  BY <1>3, SetErrorKeeps DEF Becomes
<1>6. e.reason = "cancel" /\ e.st \in {"delete", "send_error"}
  <2>1. s1 \in Session
    BY <1>3 DEF Becomes, Proper
  <2> QED
    BY <1>3, <2>1 DEF SetError, Session
<1> HIDE DEF e
<1>7. Becomes(e, session[Polled]) /\ Behaved(e)
  BY <1>3, <1>5, <1>6 DEF Becomes, SameKey, Behaved, Clientele, Finished
<1>8. ClientTalk' /\ StillExpected
  BY <1>1, <1>4, <1>7, OneTalks
<1>9. SlotTalk'
  BY <1>1, <1>4 DEF BufferFree, SlotTalk
<1> QED
  BY <1>8, <1>9

\* Polling a session that acknowledges.
LEMMA PollSendAckTalks ==
    ASSUME ConstantsAssumption, TypeInv, TalkInv, SamePhases, PollSendAck
    PROVE  ClientTalk' /\ StillExpected /\ SlotTalk'
<1>1. Polled \in Live /\ session[Polled].st = "send_ack"
  BY PolledLive DEF PollSendAck, TypeInv, CoreInv, StateInv
<1>2. session[Polled] \in Proper /\ Polled \in Handles
  BY <1>1, RequestTyped
<1> DEFINE s == session[Polled]
           s1 == [s EXCEPT !.acked = s.total, !.st = "receive"]
<1>3. Becomes(s1, s) /\ s1.st = "receive"
  BY <1>2 DEF Becomes, SameKey, Proper, Session, States
<1>4. session' = [session EXCEPT ![Polled] = s1]
  BY <1>2 DEF PollSendAck, TypeInv, CoreInv, StateInv, ListInv
<1>5. slot' = ControlSlot([op |-> "ack", owner |-> s.owner, id |-> s.id, count |-> s.total])
  BY DEF PollSendAck
<1> HIDE DEF s1
<1>6. Behaved(s1)
  BY <1>3 DEF Behaved, Clientele, Finished
<1>7. ClientTalk' /\ StillExpected
  BY <1>1, <1>3, <1>4, <1>6, OneTalks
<1>8. slot'.kind = "control" /\ slot'.packet.op = "ack"
  BY <1>5 DEF ControlSlot
<1> QED
  BY <1>7, <1>8 DEF SlotTalk

\* Polling a session that ends with an error: the id is free, and whoever
\* gets it next has sent nothing when the error arrives.
LEMMA PollSendErrorTalks ==
    ASSUME ConstantsAssumption, TypeInv, TalkInv, SamePhases, PollSendError
    PROVE  ClientTalk' /\ StillExpected /\ SlotTalk'
<1>1. Polled \in Live /\ session[Polled].st = "send_error"
  BY PolledLive DEF PollSendError, TypeInv, CoreInv, StateInv
<1>2. session[Polled] \in Proper /\ Polled \in Handles
  BY <1>1, RequestTyped
<1> DEFINE s == session[Polled]
           e == [op |-> "error", request |-> s.errRequest, sender |-> s.errSender, id |-> s.id]
<1>3. session' = [session EXCEPT ![Polled] = Free] /\ slot' = ControlSlot(e)
  BY DEF PollSendError, DeleteSession
<1>4. ClientTalk' /\ StillExpected /\ Live' = Live \ {Polled}
  BY <1>1, <1>3, DeletionTalks
<1>5. slot'.kind = "control" /\ slot'.packet.op = "error" /\ slot'.packet.id = s.id
  BY <1>3 DEF ControlSlot
<1>6. ErrorOwner(slot'.packet) = "client" => s.owner = "client"
  <2>1. ErrorOwner(e) = "client" => s.errRequest = s.errSender
    BY DEF ErrorOwner
  <2>2. s.owner = "client" <=> s.errRequest = s.errSender
    BY <1>1, <1>2 DEF Proper
  <2>3. slot'.packet = e
    BY <1>3 DEF ControlSlot
  <2> QED
    BY <2>1, <2>2, <2>3
<1> PICK r : r = s.id
  OBVIOUS
<1>7. s.owner = "client" => Find("client", r)' = {}
  <2> SUFFICES ASSUME s.owner = "client", NEW g \in Live', session'[g].owner = "client",
                      session'[g].id = r
               PROVE  FALSE
    BY DEF Find
  <2>1. g \in Live /\ g # Polled
    BY <1>4
  <2>2. session'[g] = session[g]
    BY <1>3, <2>1 DEF TypeInv, CoreInv, StateInv, ListInv, Live
  <2> QED
    BY <1>1, <2>1, <2>2, OnlyOne
<1>8. SlotTalk'
  <2>1. slot'.packet.id = r
    BY <1>5
  <2>2. ErrorOwner(slot'.packet) = "client" => Find("client", slot.packet.id)' = {}
    BY <1>6, <1>7, <2>1
  <2> QED
    BY <1>5, <2>2 DEF SlotTalk
<1> QED
  BY <1>4, <1>8

\* A session that is freed was not being sent.
LEMMA DeletionSlotTalk ==
    ASSUME TypeInv, TalkInv, NEW h \in Live, session' = [session EXCEPT ![h] = Free],
           session[h].st # "wait_send_complete" \/ slot.kind = "empty",
           slot' = Dangling(h)
    PROVE  SlotTalk'
<1>1. session \in [Handles -> Proper \cup {Free}] /\ h \in Handles
  BY DEF TypeInv, CoreInv, StateInv, ListInv, Live
<1>2. Live' = Live \ {h} /\ \A g \in Live \ {h} : session'[g] = session[g]
  BY <1>1 DEF Live
<1>3. SlotTalk /\ slot \in SlotType
  BY DEF TalkInv, TypeInv, CoreInv, SlotInv
<1>4. slot'.kind = slot.kind /\ slot'.packet = slot.packet
  BY <1>3 DEF Dangling, SlotType
<1>5. CASE slot.kind = "data"
  <2>1. slot.session # h /\ slot.session \in Live
    BY <1>3, <1>5 DEF SlotTalk
  <2>2. slot' = slot /\ session'[slot.session] = session[slot.session] /\ slot.session \in Live'
    BY <1>2, <2>1 DEF Dangling
  <2> QED
    BY <1>3, <1>5, <2>2 DEF SlotTalk
<1>6. CASE slot.kind # "data"
  <2>1. \A id : \A g \in Find("client", id)' :
           g \in Find("client", id) /\ session'[g] = session[g]
    BY <1>2 DEF Find
  <2> QED
    BY <1>3, <1>4, <1>6, <2>1 DEF SlotTalk
<1> QED
  BY <1>5, <1>6

\* The poll step keeps the invariant.
LEMMA PollStepTalks ==
    ASSUME ConstantsAssumption, TypeInv, TalkInv, PollStep
    PROVE  TalkInv'
<1>1. /\ Open /\ Open' /\ UNCHANGED <<result, inbound>> /\ conv' = conv
      /\ pc = "poll" /\ pc' = "send"
  BY DEF PollStep, Open
<1>2. \/ held' = held /\ result \in {"pending", "active"}
      \/ held' = NoPacket
  BY DEF PollStep, Release
<1>3. SamePhases
  BY <1>1 DEF SamePhases, Phase
<1>4. NoPacket.op = "none" /\ Plain(NoPacket) /\ \A id : ~Replies(NoPacket, id)
  BY DEF NoPacket, Plain, Replies
<1>5. PacketTalk' /\ \A id \in ClientIds : Arriving(id)' => Arriving(id)
  <2>1. CASE held' = held /\ result \in {"pending", "active"}
    BY <1>1, <2>1 DEF TalkInv, PacketTalk, Arriving, StillHeld
  <2>2. CASE held' = NoPacket
    BY <1>1, <1>4, <2>2 DEF TalkInv, PacketTalk, Arriving
  <2> QED
    BY <1>2, <2>1, <2>2
<1>6. ClientTalk' /\ StillExpected /\ SlotTalk'
  <2>1. CASE PollNobody \/ PollSwitch \/ PollBusy \/ PollAfterStatus \/ PollNoBuffer
    <3>1. session' = session /\ slot' = slot
      BY <2>1 DEF PollNobody, PollSwitch, PollBusy, PollAfterStatus, PollNoBuffer,
                  listVars, sendVars
    <3> QED
      BY <1>3, <3>1, SameSessionsTalk, SameSlotTalk
  <2>2. CASE PollDelete
    <3>1. /\ Polled \in Live /\ session[Polled].st = "delete" /\ slot' = Dangling(Polled)
          /\ session' = [session EXCEPT ![Polled] = Free]
      BY <2>2, PolledLive DEF PollDelete, TypeInv, CoreInv, StateInv, DeleteSession
    <3> QED
      BY <1>3, <3>1, DeletionTalks, DeletionSlotTalk
  <2> QED
    BY <1>3, <2>1, <2>2, PollSendDataTalks, PollCancelTalks, PollSendAckTalks,
       PollSendErrorTalks DEF PollStep
<1> QED
  BY <1>1, <1>3, <1>5, <1>6, TalkKeeps

-----------------------------------------------------------------------------
\* Closing the network ends every conversation.
LEMMA CloseNetworkTalks ==
    ASSUME ConstantsAssumption, TypeInv, TalkInv, CloseNetwork
    PROVE  TalkInv'
<1>1. /\ ~Open' /\ inbound' = << >> /\ slot' = NoSlot /\ held' = held
      /\ conv' = [key \in Keys |-> IF conv[key].phase \in {"replying", "answered"}
                                   THEN Conversation("answered", 0)
                                   ELSE NoConversation]
  BY DEF CloseNetwork, AbortSend, Open
<1>2. ASSUME NEW id \in ClientIds
      PROVE  Phase(id)' = IF Phase(id) \in {"replying", "answered"} THEN "answered" ELSE "none"
  <2>1. <<"client", id>> \in Keys
    BY DEF Keys, ClientIds
  <2> QED
    BY <1>1, <2>1 DEF Phase, Conversation, NoConversation
<1>3. PacketTalk'
  BY <1>1 DEF TalkInv, PacketTalk
<1>4. SlotTalk' /\ slot'.kind = "empty"
  BY <1>1 DEF SlotTalk, NoSlot
<1>5. PhaseTalk' /\ ClosedTalk' /\ ExpectTalk'
  BY <1>1, <1>2, <1>4 DEF PhaseTalk, ClosedTalk, ExpectTalk
<1>6. ASSUME NEW s, Behaved(s), s.owner = "client" => s.id \in ClientIds
      PROVE  s.owner = "client" => Clientele(s) /\ (Finished(s) => conv'[<<"client", s.id>>].phase = "answered")
  BY <1>2, <1>6 DEF Behaved, Phase
<1>7. ClientTalk'
  <2>1. CASE session' = session
    <3>1. ASSUME NEW h \in Live'
          PROVE  Behaved(session[h])'
      <4>1. h \in Live /\ Behaved(session[h]) /\ session'[h] = session[h]
        BY <2>1 DEF Live, TalkInv, ClientTalk
      <4>2. session[h].owner = "client" => session[h].id \in ClientIds
        BY <4>1, ClientIdOf
      <4> QED
        BY <1>6, <4>1, <4>2 DEF Behaved, Phase
    <3> QED
      BY <3>1 DEF ClientTalk
  <2>2. CASE slot.kind = "data" /\ slot.session # NoHandle
    <3> DEFINE g == slot.session
               s == session[g]
    <3>1. g \in Live /\ s \in Proper /\ s.st = "wait_send_complete" /\ Behaved(s)
      BY <2>2, RequestTyped DEF TalkInv, SlotTalk, ClientTalk
    <3>2. PICK answer \in StatusAnswers :
             session' = [session EXCEPT ![g] = Informed(s, "error", answer)]
      BY <2>2 DEF CloseNetwork, AbortSend
    <3> DEFINE e == Informed(s, "error", answer)
    <3>3. Becomes(e, s)
      BY <3>1, InformedKeeps DEF Reasons
    <3>4. e.rt = "status" /\ (e.st = "wait_send_complete" => e.request = s.request)
          /\ e.st # "get_data"
      <4> DEFINE t == [s EXCEPT !.rt = "status", !.reason = "error"]
      <4>1. t.rt = "status" /\ t.st = s.st /\ t.request = s.request /\ t \in Session
        BY <3>1 DEF Proper, Session, RequestTypes
      <4>2. e = t \/ e = SetError(t)
        BY DEF Informed
      <4> HIDE DEF t, e
      <4>3. SetError(t).rt = "status" /\ SetError(t).st \in {"delete", "send_error"}
        BY <4>1 DEF SetError, Session
      <4> QED
        BY <3>1, <4>1, <4>2, <4>3
    <3> HIDE DEF e
    <3>5. ASSUME NEW h \in Live'
          PROVE  Behaved(session[h])'
      <4>1. h \in Live /\ (IF h = g THEN session'[h] = e ELSE session'[h] = session[h])
        BY <3>1, <3>2, FreeIsNoSession DEF Live, TypeInv, CoreInv, StateInv, ListInv, e
      <4>2. CASE h = g
        <5>1. session'[h] = e
          BY <4>1, <4>2
        <5>2. e.owner = "client" /\ e.st \in {"get_data", "wait_send_complete"} => e.request
          BY <3>1, <3>3, <3>4 DEF Behaved, Clientele, Becomes, SameKey
        <5> QED
          BY <3>4, <5>1, <5>2 DEF Behaved, Clientele, Finished
      <4>3. CASE h # g
        <5>1. h \in Live /\ Behaved(session[h]) /\ session'[h] = session[h]
          BY <4>1, <4>3 DEF TalkInv, ClientTalk
        <5>2. session[h].owner = "client" => session[h].id \in ClientIds
          BY <5>1, ClientIdOf
        <5> QED
          BY <1>6, <5>1, <5>2 DEF Behaved, Phase
      <4> QED
        BY <4>2, <4>3
    <3> QED
      BY <3>5 DEF ClientTalk
  <2> QED
    BY <2>1, <2>2 DEF CloseNetwork, AbortSend
<1> QED
  BY <1>3, <1>4, <1>5, <1>7 DEF TalkInv

\* While there is no connection.
LEMMA ClosedKeeps ==
    ASSUME TalkInv, ~Open, inbound' = inbound, SamePhases,
           held' = held \/ held' = NoPacket, Open' => held' = NoPacket,
           ClientTalk', SlotTalk', slot'.kind = slot.kind
    PROVE  TalkInv'
<1>1. inbound = << >> /\ slot.kind = "empty" /\ \A id \in ClientIds : Phase(id)' # "replying"
  BY DEF TalkInv, ClosedTalk, SamePhases
<1>2. Plain(NoPacket) /\ \A id : ~Replies(NoPacket, id)
  BY DEF NoPacket, Plain, Replies
<1>3. PacketTalk'
  BY <1>1, <1>2 DEF TalkInv, PacketTalk
<1>4. PhaseTalk' /\ ClosedTalk'
  BY <1>1 DEF TalkInv, PhaseTalk, ClosedTalk, SamePhases
<1>5. ExpectTalk'
  <2> SUFFICES ASSUME Open', NEW id \in ClientIds
               PROVE  ~Arriving(id)' /\ Phase(id)' # "replying"
    BY DEF ExpectTalk
  <2> QED
    BY <1>1, <1>2 DEF Arriving
<1> QED
  BY <1>3, <1>4, <1>5 DEF TalkInv

\* A step that only frees sessions.
LEMMA FewerTalk ==
    ASSUME TypeInv, TalkInv, SamePhases, Live' \subseteq Live,
           \A h \in Live' : session'[h] = session[h]
    PROVE  ClientTalk'
<1>1. ASSUME NEW h \in Live'
      PROVE  Behaved(session[h])'
  <2>1. h \in Live /\ session'[h] = session[h] /\ Behaved(session[h])
    BY DEF TalkInv, ClientTalk
  <2>2. session[h].owner = "client" => session[h].id \in ClientIds
    BY <2>1, ClientIdOf
  <2> QED
    BY <2>1, <2>2 DEF Behaved, SamePhases
<1> QED
  BY <1>1 DEF ClientTalk

\* Freeing a session after the connection was closed.
LEMMA CleanupSessionTalks ==
    ASSUME ConstantsAssumption, TypeInv, TalkInv, CleanupSession
    PROVE  TalkInv'
<1> DEFINE h == Head(list)
<1>1. /\ pc = "cleanup" /\ pc' = "cleanup" /\ list # << >> /\ slot' = Dangling(h)
      /\ UNCHANGED <<held, inbound, conv>>
  BY DEF CleanupSession, recvVars
<1>2. session' = [session EXCEPT ![h] = Free]
  BY DEF CleanupSession, DeleteSession
<1>3. h \in Live /\ session \in [Handles -> Proper \cup {Free}]
  <2>1. list \in Seq(Handles) /\ Elements(list) = Live
        /\ session \in [Handles -> Proper \cup {Free}]
    BY DEF TypeInv, CoreInv, StateInv, ListInv
  <2>2. 1 \in 1 .. Len(list) /\ h = list[1]
    BY <1>1, <2>1
  <2> QED
    BY <2>1, <2>2 DEF Elements
<1> HIDE DEF h
<1>4. Live' = Live \ {h} /\ \A g \in Live' : session'[g] = session[g]
  BY <1>2, <1>3 DEF Live
<1>5. SamePhases
  BY <1>1 DEF SamePhases, Phase
<1>6. ClientTalk'
  BY <1>4, <1>5, FewerTalk
<1>7. ~Open /\ ~Open' /\ slot.kind = "empty"
  BY <1>1 DEF Open, TalkInv, ClosedTalk
<1>8. SlotTalk'
  BY <1>1, <1>2, <1>3, <1>7, DeletionSlotTalk
<1>9. slot'.kind = slot.kind
  BY <1>1, DanglingTyped DEF TypeInv, CoreInv
<1> QED
  BY <1>1, <1>5, <1>6, <1>7, <1>8, <1>9, ClosedKeeps

\* A step that changes no session, no packet and no conversation.
LEMMA QuietTalks ==
    ASSUME TypeInv, TalkInv, UNCHANGED <<session, slot, inbound, conv>>,
           \/ Open /\ Open' /\ held' = held /\ (StillHeld' => StillHeld)
           \/ ~Open /\ held' \in {held, NoPacket} /\ (Open' => held' = NoPacket)
    PROVE  TalkInv'
<1>1. SamePhases
  BY DEF SamePhases, Phase
<1>2. ClientTalk' /\ StillExpected /\ SlotTalk'
  BY <1>1, SameSessionsTalk, SameSlotTalk
<1>3. CASE Open /\ Open' /\ held' = held /\ (StillHeld' => StillHeld)
  <2>1. PacketTalk' /\ \A id \in ClientIds : Arriving(id)' => Arriving(id)
    BY <1>3 DEF TalkInv, PacketTalk, Arriving
  <2> QED
    BY <1>1, <1>2, <1>3, <2>1, TalkKeeps
<1>4. CASE ~Open /\ held' \in {held, NoPacket} /\ (Open' => held' = NoPacket)
  BY <1>1, <1>2, <1>4, ClosedKeeps
<1> QED
  BY <1>3, <1>4

-----------------------------------------------------------------------------
\* Append, element by element.
LEMMA Appended ==
    ASSUME NEW S, NEW seq \in Seq(S), NEW x
    PROVE  /\ Len(Append(seq, x)) = Len(seq) + 1
           /\ Append(seq, x)[Len(seq) + 1] = x
           /\ \A i \in 1 .. Len(seq) : Append(seq, x)[i] = seq[i]
           /\ \A i \in 1 .. Len(seq) + 1 : i = Len(seq) + 1 \/ i \in 1 .. Len(seq)
OBVIOUS

\* Device Cloud sends something other than a response.
LEMMA OtherSent ==
    ASSUME TypeInv, TalkInv, NEW p, CloudSends(p), p.op # "error",
           \A id \in ClientIds : ~Replies(p, id),
           p.op \in {"start", "data"} => p.owner # "client", SamePhases
    PROVE  TalkInv'
<1>1. /\ Open /\ Open' /\ UNCHANGED <<session, slot, held, result, pc>>
      /\ inbound' = Append(inbound, p)
  BY DEF CloudSends, Open, Connected, listVars, sendVars
<1>2. /\ Len(inbound') = Len(inbound) + 1 /\ inbound'[Len(inbound) + 1] = p
      /\ \A i \in 1 .. Len(inbound) : inbound'[i] = inbound[i]
      /\ \A i \in 1 .. Len(inbound') : i = Len(inbound) + 1 \/ i \in 1 .. Len(inbound)
  BY <1>1, Appended DEF TypeInv, PacketInv
<1>3. Plain(p)
  BY DEF Plain
<1>4. PacketTalk /\ (StillHeld' <=> StillHeld)
  BY <1>1 DEF TalkInv, StillHeld
<1>5. ASSUME NEW i \in 1 .. Len(inbound'), NEW id \in ClientIds, Replies(inbound'[i], id)
      PROVE  i \in 1 .. Len(inbound) /\ Replies(inbound[i], id)
  BY <1>2, <1>5
<1>6. PacketTalk'
  <2>1. Plain(held') /\ \A i \in 1 .. Len(inbound') : Plain(inbound'[i])
    BY <1>1, <1>2, <1>3, <1>4 DEF PacketTalk
  <2>2. ASSUME NEW i \in 1 .. Len(inbound'), NEW j \in 1 .. Len(inbound'), NEW id \in ClientIds,
               Replies(inbound'[i], id), Replies(inbound'[j], id)
        PROVE  i = j
    BY <1>4, <1>5, <2>2 DEF PacketTalk
  <2>3. ASSUME NEW i \in 1 .. Len(inbound'), NEW id \in ClientIds, Replies(inbound'[i], id)
        PROVE  ~(StillHeld' /\ Replies(held', id))
    BY <1>1, <1>4, <1>5, <2>3 DEF PacketTalk
  <2> QED
    BY <2>1, <2>2, <2>3 DEF PacketTalk
<1>7. \A id \in ClientIds : Arriving(id)' => Arriving(id)
  BY <1>1, <1>4, <1>5 DEF Arriving
<1> QED
  BY <1>1, <1>6, <1>7, SameSessionsTalk, SameSlotTalk, TalkKeeps

\* Device Cloud responds to a put request.
LEMMA ResponseSent ==
    ASSUME TypeInv, TalkInv, NEW r \in ClientIds, NEW p, p.op = "start",
           p.owner = "client", p.id = r, p.last = TRUE, CloudSends(p),
           Phase(r) = "replying",
           conv' = [conv EXCEPT ![<<"client", r>>] = Conversation("answered", 0)]
    PROVE  TalkInv'
<1>1. /\ Open /\ Open' /\ UNCHANGED <<session, slot, held, result, pc>>
      /\ inbound' = Append(inbound, p)
  BY DEF CloudSends, Open, Connected, listVars, sendVars
<1>2. /\ Len(inbound') = Len(inbound) + 1 /\ inbound'[Len(inbound) + 1] = p
      /\ \A i \in 1 .. Len(inbound) : inbound'[i] = inbound[i]
      /\ \A i \in 1 .. Len(inbound') : i = Len(inbound) + 1 \/ i \in 1 .. Len(inbound)
  BY <1>1, Appended DEF TypeInv, PacketInv
<1>3. Plain(p) /\ \A id \in ClientIds : Replies(p, id) <=> id = r
  BY DEF Plain, Replies
<1>4. PacketTalk /\ ExpectTalk /\ PhaseTalk /\ (StillHeld' <=> StillHeld)
  BY <1>1 DEF TalkInv, StillHeld
<1>5. ~Arriving(r) /\ Expected(r)
  BY <1>1, <1>4 DEF ExpectTalk
<1>6. ASSUME NEW id \in ClientIds
      PROVE  Phase(id)' = IF id = r THEN "answered" ELSE Phase(id)
  <2>1. <<"client", id>> \in Keys /\ conv \in ConvType
    BY DEF Keys, ClientIds, TypeInv, PacketInv
  <2>2. <<"client", id>> = <<"client", r>> <=> id = r
    OBVIOUS
  <2> QED
    BY <2>1, <2>2 DEF Phase, ConvType, Conversation
<1>7. ASSUME NEW i \in 1 .. Len(inbound'), NEW id \in ClientIds, Replies(inbound'[i], id)
      PROVE  IF id = r THEN i = Len(inbound) + 1
             ELSE i \in 1 .. Len(inbound) /\ Replies(inbound[i], id)
  <2>1. CASE i = Len(inbound) + 1
    BY <1>2, <1>3, <1>7, <2>1
  <2>2. CASE i \in 1 .. Len(inbound)
    <3>1. Replies(inbound[i], id)
      BY <1>2, <1>7, <2>2
    <3>2. id # r
      BY <1>5, <2>2, <3>1 DEF Arriving
    <3> QED
      BY <2>2, <3>1, <3>2
  <2> QED
    BY <1>2, <2>1, <2>2
<1>8. PacketTalk'
  <2>1. Plain(held') /\ \A i \in 1 .. Len(inbound') : Plain(inbound'[i])
    BY <1>1, <1>2, <1>3, <1>4 DEF PacketTalk
  <2>2. ASSUME NEW i \in 1 .. Len(inbound'), NEW j \in 1 .. Len(inbound'), NEW id \in ClientIds,
               Replies(inbound'[i], id), Replies(inbound'[j], id)
        PROVE  i = j
    BY <1>4, <1>7, <2>2 DEF PacketTalk
  <2>3. ASSUME NEW i \in 1 .. Len(inbound'), NEW id \in ClientIds, Replies(inbound'[i], id)
        PROVE  ~(StillHeld' /\ Replies(held', id))
    BY <1>1, <1>4, <1>5, <1>7, <2>3 DEF PacketTalk, Arriving
  <2> QED
    BY <2>1, <2>2, <2>3 DEF PacketTalk
<1>9. \A id \in ClientIds : id # r => (Arriving(id)' => Arriving(id))
  BY <1>1, <1>4, <1>7 DEF Arriving
<1>10. Live' = Live /\ \A id : Expected(id)' <=> Expected(id)
  BY <1>1 DEF Live, Expected, Find
<1>11. ExpectTalk'
  BY <1>1, <1>4, <1>5, <1>6, <1>9, <1>10 DEF ExpectTalk
<1>12. PhaseTalk' /\ ClosedTalk'
  BY <1>1, <1>4, <1>6 DEF PhaseTalk, ClosedTalk
<1>13. ClientTalk'
  <2>1. ASSUME NEW h \in Live'
        PROVE  Behaved(session[h])'
    <3>1. h \in Live /\ session'[h] = session[h] /\ Behaved(session[h])
      BY <1>1, <1>10 DEF TalkInv, ClientTalk
    <3>2. session[h].owner = "client" => session[h].id \in ClientIds
      BY <3>1, ClientIdOf
    <3> QED
      BY <1>6, <3>1, <3>2 DEF Behaved
  <2> QED
    BY <2>1 DEF ClientTalk
<1>14. SlotTalk'
  BY <1>1, SameSlotTalk
<1> QED
  BY <1>8, <1>11, <1>12, <1>13, <1>14 DEF TalkInv

\* Device Cloud keeps the invariant, unless it sends errors.
LEMMA CloudTalks ==
    ASSUME ConstantsAssumption, ~CloudErrors, TypeInv, TalkInv, Cloud
    PROVE  TalkInv'
<1>1. PICK key \in Keys :
        \/ CloudAck(key)
        \/ CloudReply(key)
        \/ \E last \in BOOLEAN : CloudStart(key, last) \/ CloudData(key, last)
  BY DEF Cloud, CloudError
<1>2. key = <<key[1], key[2]>> /\ ((key[1] = "client" /\ key[2] \in ClientIds) \/ key[1] = "cloud")
  <2>1. CASE key \in {"client"} \X (1 .. MaxId)
    <3>1. PICK n \in 1 .. MaxId : key = <<"client", n>>
      BY <2>1
    <3> QED
      BY <3>1 DEF ClientIds
  <2>2. CASE key \in {"cloud"} \X CloudIds
    <3>1. key = <<key[1], key[2]>> /\ key[1] = "cloud"
      BY <2>2
    <3> QED
      BY <3>1
  <2> QED
    BY <2>1, <2>2 DEF Keys
<1>3. conv \in ConvType /\ \A id \in ClientIds : <<"client", id>> \in Keys
  BY DEF TypeInv, PacketInv, Keys, ClientIds
<1>4. ASSUME key[1] = "cloud", NEW v, conv' = [conv EXCEPT ![key] = v]
      PROVE  SamePhases
  <2>1. \A id \in ClientIds : <<"client", id>> # key
    BY <1>2, <1>4
  <2> QED
    BY <1>3, <1>4, <2>1 DEF SamePhases, Phase, ConvType
<1>5. CASE CloudAck(key)
  <2> DEFINE p == [op |-> "ack", owner |-> key[1], id |-> key[2],
                   count |-> conv[key].count]
  <2>1. CloudSends(p) /\ conv' = [conv EXCEPT ![key].acked = conv[key].count]
    BY <1>5 DEF CloudAck
  <2>2. SamePhases
    BY <1>3, <2>1 DEF SamePhases, Phase, ConvType
  <2>3. p.op = "ack"
    OBVIOUS
  <2> HIDE DEF p
  <2> QED
    BY <2>1, <2>2, <2>3, OtherSent DEF Replies
<1>6. CASE CloudReply(key)
  <2> DEFINE p == [op |-> "start", owner |-> key[1], id |-> key[2], last |-> TRUE]
  <2>1. /\ CloudSends(p) /\ conv' = [conv EXCEPT ![key] = Conversation("answered", 0)]
        /\ conv[key].phase = "replying"
    BY <1>6 DEF CloudReply
  <2>2. CASE key[1] = "cloud"
    <3>1. SamePhases
      BY <1>4, <2>1, <2>2
    <3>2. p.op = "start" /\ p.owner # "client"
      BY <2>2
    <3> HIDE DEF p
    <3> QED
      BY <2>1, <3>1, <3>2, OtherSent DEF Replies
  <2>3. CASE key[1] # "cloud"
    <3>0. PICK r \in ClientIds : key = <<"client", r>>
      BY <1>2, <2>3
    <3>1. Phase(r) = "replying" /\ p.op = "start" /\ p.owner = "client" /\ p.id = r /\ p.last = TRUE
      BY <2>1, <3>0 DEF Phase
    <3>2. conv' = [conv EXCEPT ![<<"client", r>>] = Conversation("answered", 0)]
      BY <2>1, <3>0
    <3> HIDE DEF p
    <3> QED
      BY <2>1, <3>1, <3>2, ResponseSent
  <2> QED
    BY <2>2, <2>3
<1>7. ASSUME NEW last \in BOOLEAN, CloudStart(key, last) \/ CloudData(key, last)
      PROVE  TalkInv'
  <2>1. key[1] = "cloud"
    <3>1. CASE CloudStart(key, last)
      BY <3>1 DEF CloudStart
    <3>2. CASE CloudData(key, last) /\ key[1] # "cloud"
      <4>0. PICK r \in ClientIds : key = <<"client", r>>
        BY <1>2, <3>2
      <4>1. Phase(r) = "sending"
        BY <3>2, <4>0 DEF CloudData, Phase
      <4> QED
        BY <4>1 DEF TalkInv, PhaseTalk
    <3> QED
      BY <1>7, <3>1, <3>2
  <2>2. PICK op \in {"start", "data"} :
           CloudSends([op |-> op, owner |-> key[1], id |-> key[2], last |-> last])
    BY <1>7 DEF CloudStart, CloudData
  <2> DEFINE p == [op |-> op, owner |-> key[1], id |-> key[2], last |-> last]
  <2>3. p.op \in {"start", "data"} /\ p.owner # "client" /\ CloudSends(p)
    BY <2>1, <2>2
  <2> HIDE DEF p
  <2>4. SamePhases
    <3>1. CASE CloudStart(key, last)
      BY <1>4, <2>1, <3>1 DEF CloudStart
    <3>2. CASE CloudData(key, last)
      <4>1. \A id \in ClientIds : <<"client", id>> # key
        BY <1>2, <2>1
      <4>2. conv' = [conv EXCEPT ![key].count = @ + 1,
                                 ![key].phase = IF last THEN "waiting" ELSE @]
        BY <3>2 DEF CloudData
      <4>3. \A k \in Keys \ {key} : conv'[k] = conv[k]
        BY <1>3, <4>2 DEF ConvType
      <4> QED
        BY <1>3, <4>1, <4>3 DEF SamePhases, Phase
    <3> QED
      BY <1>7, <3>1, <3>2
  <2> QED
    BY <2>3, <2>4, OtherSent DEF Replies
<1> QED
  BY <1>1, <1>5, <1>6, <1>7

-----------------------------------------------------------------------------
\* The invariant of the conversations holds at the start.
LEMMA TalkInit == ConstantsAssumption /\ Init => TalkInv
<1> SUFFICES ASSUME ConstantsAssumption, Init
             PROVE  TalkInv
  OBVIOUS
<1>1. /\ Live = {} /\ held = NoPacket /\ inbound = << >> /\ slot = NoSlot /\ pc = "send"
      /\ \A id \in ClientIds : Phase(id) = "none"
  BY DEF Init, Live, Phase, ClientIds, Keys, NoConversation
<1>2. Plain(NoPacket) /\ \A id : ~Replies(NoPacket, id)
  BY DEF NoPacket, Plain, Replies
<1>3. PacketTalk
  BY <1>1, <1>2 DEF PacketTalk
<1>4. SlotTalk
  BY <1>1 DEF SlotTalk, NoSlot
<1>5. ExpectTalk /\ PhaseTalk /\ ClosedTalk /\ ClientTalk
  BY <1>1, <1>2 DEF ExpectTalk, PhaseTalk, ClosedTalk, ClientTalk, Arriving, Open
<1> QED
  BY <1>3, <1>4, <1>5 DEF TalkInv

\* Every step keeps it.
LEMMA TalkStep ==
    ConstantsAssumption /\ ~CloudErrors /\ TypeInv /\ TalkInv /\ [Next]_vars => TalkInv'
<1> SUFFICES ASSUME ConstantsAssumption, ~CloudErrors, TypeInv, TalkInv, [Next]_vars
             PROVE  TalkInv'
  OBVIOUS
<1>1. CASE Step
  BY <1>1, SendStepTalks, ReceiveStepTalks, StartStepTalks, PollStepTalks DEF Step
<1>2. CASE Closing
  <2>1. CASE CleanupRequest
    <3>1. UNCHANGED <<session, slot, inbound, conv, held>> /\ ~Open /\ ~Open'
      BY <2>1 DEF CleanupRequest, Open, listVars, sendVars, recvVars
    <3> QED
      BY <3>1, QuietTalks
  <2> QED
    BY <1>2, <2>1, CloseNetworkTalks, CleanupSessionTalks DEF Closing
<1>3. CASE Disconnect
  <2>1. /\ UNCHANGED <<session, slot, inbound, conv, held>> /\ Open /\ Open'
        /\ StillHeld' => StillHeld
    BY <1>3 DEF Disconnect, Open, listVars, sendVars, recvVars, StillHeld
  <2> QED
    BY <2>1, QuietTalks
<1>4. CASE Reopen
  <2>1. UNCHANGED <<session, slot, inbound, conv>> /\ ~Open /\ held' = NoPacket
    BY <1>4 DEF Reopen, Open, listVars, sendVars
  <2> QED
    BY <2>1, QuietTalks
<1>5. CASE Terminate
  <2>1. UNCHANGED <<session, slot, inbound, conv, held>> /\ ~Open /\ ~Open'
    BY <1>5 DEF Terminate, Open, listVars, sendVars, recvVars
  <2> QED
    BY <2>1, QuietTalks
<1>6. CASE Cloud
  BY <1>6, CloudTalks
<1>7. ASSUME NEW req \in Requests, Initiate(req)
      PROVE  TalkInv'
  <2>1. UNCHANGED <<session, slot, inbound, conv, held, pc, result>>
    BY <1>7 DEF Initiate, listVars, sendVars, recvVars
  <2>2. Open /\ Open' /\ (StillHeld' => StillHeld)
    BY <1>7, <2>1 DEF Initiate, Connected, Open, StillHeld
  <2> QED
    BY <2>1, <2>2, QuietTalks
<1>8. CASE UNCHANGED vars
  <2>1. UNCHANGED <<session, slot, inbound, conv, held, pc, result>>
    BY <1>8 DEF vars
  <2>2. (Open' <=> Open) /\ (StillHeld' <=> StillHeld)
    BY <2>1 DEF Open, StillHeld
  <2>3. CASE Open
    BY <2>1, <2>2, <2>3, QuietTalks
  <2>4. CASE ~Open
    BY <2>1, <2>2, <2>4, QuietTalks
  <2> QED
    BY <2>3, <2>4
<1> QED
  BY <1>1, <1>2, <1>3, <1>4, <1>5, <1>6, <1>7, <1>8 DEF Next

\* If Device Cloud ends no message with an error, a response is always for
\* the session that waits for it, and a session that ended well was answered.
THEOREM TalkInvariant ==
    ASSUME ~CloudErrors
    PROVE  Spec => []TalkInv
BY TalkInit, TalkStep, TypeInvariant, ConstantsAssumption, PTL DEF Spec

-----------------------------------------------------------------------------
\* What the abstract service allows one request.
Served(req) ==
    \/ Status(req) # "waiting" /\ Status(req)' = "waiting" /\ ~Delivered(req)'
    \/ Status(req) = "waiting" /\ Status(req)' = "waiting"
    \/ /\ Status(req) = "waiting" /\ Status(req)' \in {"complete", "cancel", "error"}
       /\ Status(req)' = "complete" => Delivered(req)
       /\ ~Delivered(req)'
    \/ Status(req)' = Status(req) /\ ~Delivered(req) /\ ~Delivered(req)'

\* What a step may tell its owner.
Concludes(req) ==
    \/ told'[req] = told[req]
    \/ /\ told[req] \in {"waiting", "busy"}
       /\ told'[req] \in {"busy", "complete", "cancel", "error"}
       /\ told'[req] = "complete" => Delivered(req)

\* A request that waits no more is not seen as delivered.
LEMMA EndedUndelivered ==
    ASSUME RequestInv, NEW req \in Requests, told[req] # "waiting"
    PROVE  ~Delivered(req)
BY DEF RequestInv, Due, Delivered, Bearers

\* A step that tells its owner what it may is a step of the service.
LEMMA ConcludesServes ==
    ASSUME RequestInv, RequestInv', NEW req \in Requests, Concludes(req)
    PROVE  Served(req)
<1>1. told[req] # "waiting" => ~Delivered(req)
  BY EndedUndelivered
<1>2. told'[req] # "waiting" => ~Delivered(req)'
  <2> SUFFICES ASSUME told'[req] # "waiting"
               PROVE  ~Delivered(req)'
    OBVIOUS
  <2> QED
    BY DEF RequestInv, Due, Delivered, Bearers
<1> HIDE DEF Delivered
<1>3. CASE told'[req] = told[req]
  BY <1>1, <1>2, <1>3 DEF Served, Status
<1>4. CASE told'[req] # told[req]
  BY <1>1, <1>2, <1>4 DEF Served, Status, Concludes
<1> QED
  BY <1>3, <1>4

\* A status call tells the owner what it may; "complete" only when Device
\* Cloud has the request.
LEMMA TellConcludes ==
    ASSUME TypeInv, ToldOnce', NEW r \in Talks, NEW reason \in Reasons, NEW answer,
           told' = Tell(told, r, reason, answer),
           r \in Requests /\ reason = "none" => Delivered(r),
           NEW req \in Requests
    PROVE  Concludes(req)
<1>1. told \in ToldType /\ req \in Talks
  BY DEF TypeInv, CoreInv, ToldInv, Talks
<1>2. CASE req = r
  <2>1. told'[r] = IF told[r] \notin {"waiting", "busy"} THEN "twice"
                   ELSE IF answer = "busy" THEN "busy" ELSE Outcome(reason)
    BY <1>1 DEF Tell, ToldType
  <2>2. told'[r] # "twice"
    BY DEF ToldOnce
  <2>3. Outcome(reason) \in {"complete", "cancel", "error"}
        /\ (Outcome(reason) = "complete" => reason = "none")
    BY DEF Outcome, Reasons
  <2> HIDE DEF Delivered
  <2> QED
    BY <1>2, <2>1, <2>2, <2>3 DEF Concludes
<1>3. CASE req # r
  <2>1. told'[req] = told[req]
    BY <1>1, <1>3 DEF Tell, ToldType
  <2> QED
    BY <2>1 DEF Concludes
<1> QED
  BY <1>2, <1>3

\* A session that ends in its own time.
LEMMA DeletionConcludes ==
    ASSUME TypeInv, TalkInv, ToldOnce', NEW h \in Live, NEW cursor,
           DeleteSession(h, session[h], told, cursor),
           session[h].st \in {"delete", "send_error"} \/ session[h].owner = "cloud",
           NEW req \in Requests
    PROVE  Concludes(req)
<1> DEFINE s == session[h]
<1>1. s \in Proper /\ s.req \in Talks /\ s.reason \in Reasons /\ (s.owner = "cloud" => s.req \in CloudIds)
  BY RequestTyped DEF Proper, Session, Reasons
<1>2. CASE s.rt \in {"status", "none"}
  BY <1>2 DEF DeleteSession, Concludes
<1>3. CASE s.rt \notin {"status", "none"}
  <2>1. PICK answer \in StatusAnswers : told' = Tell(told, s.req, s.reason, answer)
    BY <1>3 DEF DeleteSession
  <2>2. s.req \in Requests /\ s.reason = "none" => Delivered(s.req)
    <3> SUFFICES ASSUME s.req \in Requests, s.reason = "none"
                 PROVE  Delivered(s.req)
      OBVIOUS
    <3>1. s.owner = "client"
      BY <1>1, ConstantsAssumption DEF ConstantsAssumption, Proper, Session, Owners
    <3>2. Behaved(s) /\ s.st \in {"delete", "send_error"}
      BY <3>1 DEF TalkInv, ClientTalk
    <3>3. ~s.request /\ Phase(s.id) = "answered"
      BY <1>3, <3>1, <3>2 DEF Behaved, Clientele, Finished
    <3> QED
      BY <1>3, <3>3 DEF Delivered, Bearers, Phase
  <2> QED
    BY <1>1, <2>1, <2>2, TellConcludes
<1> QED
  BY <1>2, <1>3

-----------------------------------------------------------------------------
\* So does an error.
LEMMA InformedConcludes ==
    ASSUME TypeInv, ToldOnce', NEW h \in Live, NEW reason \in {"cancel", "error"}, NEW answer,
           told' = Tell(told, session[h].req, reason, answer), NEW req \in Requests
    PROVE  Concludes(req)
BY RequestTyped, TellConcludes DEF Reasons

\* The send step tells owners what it may: no put request ends there.
LEMMA SendStepConcludes ==
    ASSUME TypeInv, TalkInv, ToldOnce', SendStep, NEW req \in Requests
    PROVE  Concludes(req)
<1>1. CASE SendDataComplete
  <2> DEFINE h == slot.session
             s == session[h]
  <2>1. CASE s.last /\ ~s.request
    <3>1. h \in Live /\ s.st = "wait_send_complete" /\ Behaved(s) /\ s.owner \in Owners
      BY <1>1, RequestTyped DEF SendDataComplete, TalkInv, SlotTalk, ClientTalk
    <3>2. s.owner = "cloud"
      BY <2>1, <3>1 DEF Behaved, Clientele, Owners
    <3>3. DeleteSession(h, s, told, current)
      BY <1>1, <2>1 DEF SendDataComplete
    <3> QED
      BY <3>1, <3>2, <3>3, DeletionConcludes
  <2>2. CASE ~(s.last /\ ~s.request)
    BY <1>1, <2>2 DEF SendDataComplete, Concludes
  <2> QED
    BY <2>1, <2>2
<1>2. CASE ~SendDataComplete
  <2>1. told' = told
    BY <1>2 DEF SendStep, SendKeepAlive, SendNothing, SendControlComplete, SendDataDangling
  <2> QED
    BY <2>1 DEF Concludes
<1> QED
  BY <1>1, <1>2

\* The receive step tells no owner of a put request anything.
LEMMA ReceiveStepConcludes ==
    ASSUME TypeInv, TalkInv, ToldOnce', ReceiveStep, NEW req \in Requests
    PROVE  Concludes(req)
<1>1. CASE ReceiveNothing
  BY <1>1 DEF ReceiveNothing, Concludes
<1>2. ASSUME NEW p \in Packets, Keyed(p), p.op # "error", Process(p)
      PROVE  Concludes(req)
  <2>1. CASE StartDeviceRequest(p)
    <3>1. p.id \in CloudIds /\ told' = [told EXCEPT ![p.id] = "waiting"]
      BY <1>2, <2>1 DEF StartDeviceRequest, Keyed, Keys
    <3>2. req # p.id /\ told \in ToldType
      BY <3>1, ConstantsAssumption DEF ConstantsAssumption, TypeInv, CoreInv, ToldInv
    <3> QED
      BY <3>1, <3>2 DEF Concludes, ToldType
  <2>2. CASE ~StartDeviceRequest(p)
    <3>1. told' = told
      BY <1>2, <2>2 DEF Process, RefuseDeviceRequest, StartUnknown, DataUnknown, PassToSession,
                        ProcessAck, ProcessError, ErrorUnknown
    <3> QED
      BY <3>1 DEF Concludes
  <2> QED
    BY <2>1, <2>2
<1>3. CASE ReceivePacket
  <2>1. Head(inbound) = inbound[1] /\ 1 \in 1 .. Len(inbound) /\ inbound \in Seq(Packets)
    BY <1>3 DEF ReceivePacket, TypeInv, PacketInv
  <2>2. Head(inbound) \in Packets /\ Keyed(Head(inbound)) /\ Head(inbound).op # "error"
    BY <2>1 DEF TypeInv, PacketInv, TalkInv, PacketTalk, Plain
  <2> QED
    BY <1>2, <1>3, <2>2 DEF ReceivePacket
<1>4. CASE ProcessHeld
  <2>1. held \in Packets /\ Keyed(held) /\ held.op # "error"
    BY <1>4 DEF ProcessHeld, TypeInv, PacketInv, TalkInv, PacketTalk, Plain
  <2> QED
    BY <1>2, <1>4, <2>1 DEF ProcessHeld
<1> QED
  BY <1>1, <1>3, <1>4 DEF ReceiveStep

\* The poll step tells owners what it may.
LEMMA PollStepConcludes ==
    ASSUME TypeInv, TalkInv, ToldOnce', PollStep, NEW req \in Requests
    PROVE  Concludes(req)
<1>1. Polled # NoHandle => Polled \in Live
  BY PolledLive DEF TypeInv, CoreInv, StateInv
<1>2. CASE PollSendError
  BY <1>1, <1>2, DeletionConcludes DEF PollSendError
<1>3. CASE PollDelete
  BY <1>1, <1>3, DeletionConcludes DEF PollDelete
<1>4. CASE ~PollSendError /\ ~PollDelete
  <2>1. told' = told
    BY <1>4 DEF PollStep, PollNobody, PollSwitch, PollSendData, PollBusy, PollAfterStatus,
                PollSendAck, PollNoBuffer, PollCancel, listVars
  <2> QED
    BY <2>1 DEF Concludes
<1> QED
  BY <1>2, <1>3, <1>4

\* So does the end of a connection.
LEMMA ClosingConcludes ==
    ASSUME TypeInv, RequestInv, TalkInv, ToldOnce', Closing, NEW req \in Requests
    PROVE  Concludes(req)
<1>1. CASE CloseNetwork
  <2>1. CASE told' = told
    BY <2>1 DEF Concludes
  <2>2. CASE told' # told
    <3>1. slot.kind = "data" /\ slot.session \in Live
      BY <1>1, <2>2 DEF CloseNetwork, AbortSend, TalkInv, SlotTalk
    <3>2. PICK answer \in StatusAnswers :
             told' = Tell(told, session[slot.session].req, "error", answer)
      BY <1>1, <2>2, <3>1 DEF CloseNetwork, AbortSend
    <3> QED
      BY <3>1, <3>2, InformedConcludes
  <2> QED
    BY <2>1, <2>2
<1>2. CASE CleanupSession
  <2> DEFINE h == Head(list)
             s == session[h]
  <2>1. h \in Live
    <3>1. list \in Seq(Handles) /\ Elements(list) = Live /\ list # << >>
      BY <1>2 DEF CleanupSession, TypeInv, CoreInv, StateInv, ListInv
    <3>2. 1 \in 1 .. Len(list) /\ h = list[1]
      BY <3>1
    <3> QED
      BY <3>1, <3>2 DEF Elements
  <2>2. CASE s.st \in {"delete", "send_error"}
    <3>1. DeleteSession(h, s, told, current)
      BY <1>2, <2>2 DEF CleanupSession
    <3> HIDE DEF h
    <3> QED
      BY <2>1, <2>2, <3>1, DeletionConcludes
  <2>3. CASE s.st \notin {"delete", "send_error"}
    <3>1. PICK answer \in StatusAnswers :
             DeleteSession(h, IF s.rt = "none" THEN s ELSE Informed(s, "cancel", answer),
                           Tell(told, s.req, "cancel", answer), current)
      BY <1>2, <2>3 DEF CleanupSession
    <3>2. told' = Tell(told, s.req, "cancel", answer)
      <4>1. CASE s.rt = "none"
        BY <3>1, <4>1 DEF DeleteSession
      <4>2. CASE s.rt # "none"
        <5>1. s \in Session
          BY <2>1, RequestTyped DEF Proper
        <5>2. Informed(s, "cancel", answer).rt = "status"
          BY <5>1 DEF Informed, SetError, Session
        <5> QED
          BY <3>1, <4>2, <5>2 DEF DeleteSession
      <4> QED
        BY <4>1, <4>2
    <3> HIDE DEF h
    <3> QED
      BY <2>1, <3>2, InformedConcludes
  <2> QED
    BY <2>2, <2>3
<1>3. CASE CleanupRequest
  <2>1. CASE told' = told
    BY <2>1 DEF Concludes
  <2>2. CASE told' # told
    <3>1. PICK answer \in StatusAnswers : told' = Tell(told, pending[NextPending], "cancel", answer)
      BY <1>3, <2>2 DEF CleanupRequest
    <3>2. pending[NextPending] \in Requests
      BY <1>3, <2>2 DEF CleanupRequest, RequestInv, NextPending, Requests
    <3> QED
      BY <3>1, <3>2, TellConcludes DEF Talks, Reasons
  <2> QED
    BY <2>1, <2>2
<1> QED
  BY <1>1, <1>2, <1>3 DEF Closing

\* Queueing a request submits it.
LEMMA InitiateServes ==
    ASSUME TypeInv, RequestInv, RequestInv', NEW r \in Requests, Initiate(r), NEW req \in Requests
    PROVE  Served(req)
<1>1. told \in ToldType /\ told' = [told EXCEPT ![r] = "waiting"] /\ told[r] \notin {"waiting", "busy"}
  BY DEF TypeInv, CoreInv, ToldInv, Initiate
<1>2. CASE req = r
  <2>1. PICK who \in {"user", "internal"} : pending'[who] = req
    BY <1>2 DEF Initiate, TypeInv, QueueInv
  <2>2. req # NoRequest
    BY ConstantsAssumption DEF ConstantsAssumption
  <2>3. ~Delivered(req)'
    BY <2>1, <2>2 DEF RequestInv, Waiting, Delivered, Bearers
  <2> HIDE DEF Delivered
  <2> QED
    BY <1>1, <1>2, <2>3 DEF Served, Status, ToldType, Talks
<1>3. CASE req # r
  <2>1. told'[req] = told[req]
    BY <1>1, <1>3 DEF ToldType
  <2> QED
    BY <2>1, ConcludesServes DEF Concludes
<1> QED
  BY <1>2, <1>3

-----------------------------------------------------------------------------
\* Every step serves every put request.
LEMMA ServedStep ==
    ASSUME TypeInv, RequestInv, RequestInv', TalkInv, [Next]_vars, NEW req \in Requests
    PROVE  Served(req)
<1>1. ToldOnce'
  BY DEF RequestInv
<1>2. CASE UNCHANGED told
  BY <1>2, ConcludesServes DEF Concludes
<1>3. CASE Step
  BY <1>1, <1>2, <1>3, ConcludesServes, SendStepConcludes, ReceiveStepConcludes, PollStepConcludes
     DEF Step, StartStep, StartRequest, StartWithoutContext, StartNothing
<1>4. CASE Closing
  BY <1>1, <1>4, ConcludesServes, ClosingConcludes
<1>5. CASE \E r \in Requests : Initiate(r)
  BY <1>5, InitiateServes
<1>6. CASE Disconnect \/ Reopen \/ Terminate \/ UNCHANGED vars
  BY <1>2, <1>6 DEF Disconnect, Reopen, Terminate, vars
<1>7. CASE Cloud
  <2>1. ASSUME NEW p, CloudSends(p)
        PROVE  UNCHANGED told
    BY <2>1 DEF CloudSends
  <2> QED
    BY <1>2, <1>7, <2>1 DEF Cloud, CloudAck, CloudReply, CloudStart, CloudData, CloudError
<1> QED
  BY <1>3, <1>4, <1>5, <1>6, <1>7 DEF Next

\* The facility starts as the service does.
LEMMA ServiceInit == ConstantsAssumption /\ Init => Service!Init
<1> SUFFICES ASSUME ConstantsAssumption, Init
             PROVE  Service!Init
  OBVIOUS
<1>1. ASSUME NEW req \in Requests
      PROVE  Status(req) = "unsent" /\ Delivered(req) = FALSE
  <2>1. Live = {} /\ told[req] = "unsent"
    BY DEF Init, Live, Talks
  <2>2. ~Delivered(req)
    BY <2>1 DEF Delivered, Bearers
  <2>3. Delivered(req) \in BOOLEAN
    BY DEF Delivered
  <2> HIDE DEF Delivered
  <2> QED
    BY <2>1, <2>2, <2>3 DEF Status
<1> HIDE DEF Delivered, Status
<1> QED
  BY <1>1 DEF Service!Init

\* A step that serves every put request is a step of the service.
LEMMA ServiceStep ==
    ASSUME \A req \in Requests : Served(req)
    PROVE  Service!Next
<1>1. ASSUME NEW req \in Requests
      PROVE  Service!Submit(req) \/ Service!Progress(req) \/ Service!Finish(req) \/ Service!Stay(req)
  <2>1. /\ [r \in Requests |-> Status(r)][req] = Status(req)
        /\ ([r \in Requests |-> Status(r)])'[req] = Status(req)'
        /\ [r \in Requests |-> Delivered(r)][req] = Delivered(req)
        /\ ([r \in Requests |-> Delivered(r)])'[req] = Delivered(req)'
    OBVIOUS
  <2>2. ~Delivered(req) /\ ~Delivered(req)' => Delivered(req)' = Delivered(req)
    BY DEF Delivered
  <2> HIDE DEF Delivered, Status
  <2> QED
    BY <1>1, <2>1, <2>2 DEF Served, Service!Submit, Service!Progress, Service!Finish, Service!Stay,
       Service!Ends
<1> QED
  BY <1>1 DEF Service!Next

\* The facility implements PutService: whatever happens to sessions, buffers
\* and connections, a put request that was accepted ends at most once, and as
\* "complete" only when Device Cloud has all of it - if Device Cloud ends no
\* message with an error.
THEOREM ServiceKept ==
    ASSUME ~CloudErrors
    PROVE  Spec => ServiceSpec
<1>1. Init => Service!Init
  BY ServiceInit, ConstantsAssumption
<1>2. TypeInv /\ RequestInv /\ RequestInv' /\ TalkInv /\ [Next]_vars => [Service!Next]_Service!vars
  BY ServedStep, ServiceStep
<1> QED
  BY <1>1, <1>2, TypeInvariant, RequestInvariant, TalkInvariant, PTL DEF Spec, ServiceSpec, Service!Spec

-----------------------------------------------------------------------------
\* Memory for the context of a message is always there.
ContextMemory == "put_request" \notin BusyBuffers /\ "service" \notin BusyBuffers

\* A session whose context the service may use.
Serving(s) ==
    /\ s.rt \notin {"none", "status"}
    /\ s.owner = "cloud" =>
          /\ s.rt # "send_data"
          /\ s.st \in {"get_data", "wait_send_complete"} => s.rt \in {"reply_length", "reply_data"}

\* The inductive invariant of the contexts.
ContextInv ==
    /\ fault = "none"
    /\ \A h \in Live : session[h].rt # "none"
    /\ pc # "cleanup" => \A h \in Live : Serving(session[h])

\* Changing one session.
LEMMA OneServes ==
    ASSUME TypeInv, ContextInv, NEW h \in Live, NEW s, s \in Proper, Serving(s),
           session' = [session EXCEPT ![h] = s], fault' = fault,
           pc' # "cleanup" => pc # "cleanup"
    PROVE  ContextInv'
<1>1. session \in [Handles -> Proper \cup {Free}] /\ h \in Handles
  BY DEF TypeInv, CoreInv, StateInv, ListInv, Live
<1>2. Live' = Live /\ session'[h] = s /\ \A g \in Live \ {h} : session'[g] = session[g]
  BY <1>1, FreeIsNoSession DEF Live
<1>3. \A g \in Live' : session'[g].rt # "none"
  BY <1>2 DEF ContextInv, Serving
<1>4. pc' # "cleanup" => \A g \in Live' : Serving(session'[g])
  BY <1>2 DEF ContextInv
<1> QED
  BY <1>3, <1>4 DEF ContextInv

\* Adding one.
LEMMA AdditionServes ==
    ASSUME TypeInv, ContextInv, NEW h \in Handles \ Live, NEW s \in Proper, Serving(s),
           session' = [session EXCEPT ![h] = s], fault' = fault, pc # "cleanup"
    PROVE  ContextInv'
<1>1. session \in [Handles -> Proper \cup {Free}] /\ h \in Handles
  BY DEF TypeInv, CoreInv, StateInv, ListInv, Live
<1>2. /\ Live' = Live \cup {h} /\ session'[h] = s
      /\ \A g \in Live : session'[g] = session[g]
  BY <1>1, FreeIsNoSession DEF Live
<1>3. \A g \in Live' : Serving(session'[g])
  BY <1>2 DEF ContextInv
<1> QED
  BY <1>3 DEF ContextInv, Serving

\* Freeing some.
LEMMA FewerServe ==
    ASSUME ContextInv, Live' \subseteq Live, \A g \in Live' : session'[g] = session[g],
           fault' = fault, pc' # "cleanup" => pc # "cleanup" \/ Live' = {}
    PROVE  ContextInv'
BY DEF ContextInv

\* Leaving them alone.
LEMMA SameServe ==
    ASSUME ContextInv, session' = session, fault' = fault, pc' # "cleanup" => pc # "cleanup"
    PROVE  ContextInv'
<1>1. Live' = Live
  BY DEF Live
<1> QED
  BY <1>1, FewerServe

\* msg_delete_session of a session that has a context.
LEMMA DeletionServes ==
    ASSUME TypeInv, ContextInv, NEW h \in Live, NEW s, s.rt # "none", NEW t, NEW cursor,
           DeleteSession(h, s, t, cursor), pc' # "cleanup" => pc # "cleanup"
    PROVE  ContextInv'
<1>1. session \in [Handles -> Proper \cup {Free}]
  BY DEF TypeInv, CoreInv, StateInv, ListInv
<1>2. session' = [session EXCEPT ![h] = Free] /\ fault' = fault
  BY DEF DeleteSession
<1>3. Live' = Live \ {h} /\ \A g \in Live' : session'[g] = session[g]
  BY <1>1, <1>2 DEF Live
<1> QED
  BY <1>2, <1>3, FewerServe

-----------------------------------------------------------------------------
\* The send step: what is being sent belongs to a session in memory.
LEMMA SendStepServes ==
    ASSUME TypeInv, TalkInv, ContextInv, SendStep
    PROVE  ContextInv'
<1>1. pc # "cleanup"
  BY DEF SendStep
<1>2. CASE SendKeepAlive \/ SendNothing \/ SendControlComplete
  BY <1>1, <1>2, SameServe DEF SendKeepAlive, SendNothing, SendControlComplete, listVars
<1>3. CASE SendDataDangling
  <2>1. NoHandle \notin Live
    BY DEF Live, Handles, NoHandle
  <2> QED
    BY <1>3, <2>1 DEF SendDataDangling, TalkInv, SlotTalk
<1>4. CASE SendDataComplete
  <2> DEFINE h == slot.session
             s == session[h]
             e == [s EXCEPT !.st = IF s.last THEN "receive" ELSE "get_data"]
  <2>1. h \in Live /\ s.st = "wait_send_complete" /\ s \in Proper /\ Serving(s)
    BY <1>1, <1>4, RequestTyped DEF SendDataComplete, TalkInv, SlotTalk, ContextInv
  <2>2. CASE s.last /\ ~s.request
    <3>1. DeleteSession(h, s, told, current)
      BY <1>4, <2>2 DEF SendDataComplete
    <3> HIDE DEF h
    <3> QED
      BY <1>1, <2>1, <3>1, DeletionServes DEF Serving
  <2>3. CASE ~(s.last /\ ~s.request)
    <3>1. session' = [session EXCEPT ![h].st = IF s.last THEN "receive" ELSE "get_data"]
          /\ fault' = fault
      BY <1>4, <2>3 DEF SendDataComplete
    <3>2. session' = [session EXCEPT ![h] = e]
      BY <3>1
    <3>3. e \in Proper /\ Serving(e)
      BY <2>1 DEF Proper, Session, States, Serving
    <3> HIDE DEF e, h
    <3> QED
      BY <1>1, <2>1, <3>1, <3>2, <3>3, OneServes
  <2> QED
    BY <2>2, <2>3
<1> QED
  BY <1>2, <1>3, <1>4 DEF SendStep

-----------------------------------------------------------------------------
\* Data that was taken: the reply follows the last packet.
LEMMA TakenServes ==
    ASSUME NEW s \in Proper, NEW last \in BOOLEAN, s.rt \notin {"none", "status", "send_data"},
           last => s.rt \in {"reply_length", "reply_data"}
    PROVE  Serving(Taken(s, last))
<1> DEFINE t == Taken(s, last)
<1>1. t.rt = s.rt /\ t.owner = s.owner
  BY DEF Taken, FreshBlock, Proper, Session
<1>2. ~last => t.st \in {"send_ack", "receive"}
  BY DEF Taken, FreshBlock, Proper, Session
<1> HIDE DEF t
<1>3. Serving(t)
  BY <1>1, <1>2 DEF Serving
<1> QED
  BY <1>3 DEF t

\* A packet of a device request leaves a context to go on with.
LEMMA PassServes ==
    ASSUME ConstantsAssumption, ContextMemory, NEW s \in Proper, s.owner = "cloud",
           Serving(s) \/ (s.rt = "none" /\ s.st = "receive"),
           NEW p, p.last \in BOOLEAN, NEW answer \in PassAnswers(s)
    PROVE  Serving(Pass(s, p, answer).s)
<1>1. CASE s.st # "receive"
  BY <1>1 DEF Pass
<1>2. CASE s.st = "receive"
  <2> DEFINE rt == IF s.rt = "none" THEN "target" ELSE s.rt
             d  == DeviceRequest(rt, p.last, answer)
             s1 == [s EXCEPT !.rt = d.rt, !.last = p.last]
  <2>1. answer \in Taking
    BY DEF PassAnswers, ConstantsAssumption, ContextMemory, Taking
  <2>2. rt \in {"target", "data", "reply_length", "reply_data"}
    BY DEF Serving, Proper, Session, RequestTypes
  <2> HIDE DEF rt
  <2>3. /\ d.rt \in {"target", "data", "reply_length", "reply_data"}
        /\ d.status = "working" /\ p.last => d.rt \in {"reply_length", "reply_data"}
    <3>1. CASE rt = "target"
      BY <2>1, <3>1 DEF DeviceRequest, Taking
    <3>2. CASE rt = "data"
      BY <2>1, <3>2 DEF DeviceRequest, Taking
    <3>3. CASE rt \in {"reply_length", "reply_data"}
      BY <2>1, <3>3 DEF DeviceRequest, Taking
    <3> QED
      BY <2>2, <3>1, <3>2, <3>3
  <2>4. Pass(s, p, answer).s = IF d.status = "working" THEN Taken(s1, p.last) ELSE s1
    BY <1>2, <2>1 DEF Pass, PassDeviceRequest, rt, Taking
  <2> HIDE DEF d
  <2>5. s1 \in Proper /\ s1.rt = d.rt /\ s1.st = "receive" /\ s1.owner = "cloud"
    BY <1>2, <2>3 DEF Proper, Session, RequestTypes
  <2> HIDE DEF s1
  <2>6. Serving(s1)
    BY <2>3, <2>5 DEF Serving
  <2>7. d.status = "working" => Serving(Taken(s1, p.last))
    <3> SUFFICES ASSUME d.status = "working"
                 PROVE  Serving(Taken(s1, p.last))
      OBVIOUS
    <3>1. s1.rt \notin {"none", "status", "send_data"}
      BY <2>3, <2>5
    <3>2. p.last => s1.rt \in {"reply_length", "reply_data"}
      BY <2>3, <2>5
    <3> QED
      BY <2>5, <3>1, <3>2, TakenServes
  <2> QED
    BY <2>4, <2>6, <2>7
<1> QED
  BY <1>1, <1>2

\* ... and the session of a put request keeps its own.
LEMMA MarkServes ==
    ASSUME NEW s, NEW s1, Becomes(s1, s), SameMark(s1, s), s.owner = "client", Serving(s)
    PROVE  Serving(s1)
BY DEF Becomes, SameKey, SameMark, Serving, Proper

-----------------------------------------------------------------------------
\* A device request gets a context with its first packet.
LEMMA StartDeviceRequestServes ==
    ASSUME ConstantsAssumption, ContextMemory, TypeInv, ContextInv, pc # "cleanup",
           NEW p \in Packets, Keyed(p), StartDeviceRequest(p)
    PROVE  ContextInv'
<1>1. /\ HasMemory /\ p.last \in BOOLEAN
      /\ p.id \in CloudIds /\ p.id \in Nat /\ p.id \in Talks /\ fault' = fault
  BY DEF StartDeviceRequest, Keyed, Keys, Packets, DataPacket, AckPacket, ErrorPacket,
         ConstantsAssumption, Talks
<1> DEFINE n == NewSession("cloud", p.id, p.id, "receive", "none")
<1>2. PICK answer \in PassAnswers(n) : AddSession(NewHandle, Pass(n, p, answer).s)
  BY DEF StartDeviceRequest
<1>3. n \in Proper /\ n.owner = "cloud" /\ n.rt = "none" /\ n.st = "receive"
  BY ZenonT(60), <1>1, NewSessionTyped DEF Owners, RequestTypes, NewSession
<1> HIDE DEF n
<1> DEFINE s == Pass(n, p, answer).s
<1>4. s \in Proper
  BY <1>1, <1>3, PassKeeps DEF Becomes
<1>5. Serving(s)
  BY <1>1, <1>3, PassServes
<1>6. session' = [session EXCEPT ![NewHandle] = s]
  BY <1>2 DEF AddSession
<1> HIDE DEF s
<1>7. NewHandle \in Handles \ Live
  BY <1>1, NewHandleFree
<1> QED
  BY <1>1, <1>4, <1>5, <1>6, <1>7, AdditionServes

\* A packet for a session.
LEMMA PassToSessionServes ==
    ASSUME ConstantsAssumption, ContextMemory, TypeInv, ContextInv,
           pc # "cleanup", pc' # "cleanup", NEW p \in Packets, PassToSession(p)
    PROVE  ContextInv'
<1>1. fault' = fault /\ p.last \in BOOLEAN
  BY DEF PassToSession, Packets, DataPacket, AckPacket, ErrorPacket
<1>2. PICK h \in Find(p.owner, p.id) :
         LET s == IF /\ p.op = "start"
                      /\ p.owner = "client"
                      /\ session[h].st # "send_error"
                   THEN FreshBlock(session[h], FALSE, "receive")
                   ELSE session[h]
         IN  \E answer \in PassAnswers(s) :
                 session' = [session EXCEPT ![h] = Pass(s, p, answer).s]
  BY DEF PassToSession
<1>3. h \in Live /\ session[h] \in Proper /\ session[h].owner = p.owner /\ Serving(session[h])
  BY <1>2, RequestTyped DEF Find, ContextInv
<1>4. CASE session[h].owner = "cloud"
  <2>1. PICK answer \in PassAnswers(session[h]) :
           session' = [session EXCEPT ![h] = Pass(session[h], p, answer).s]
    BY <1>2, <1>3, <1>4
  <2> DEFINE s == Pass(session[h], p, answer).s
  <2>2. s \in Proper
    BY <1>1, <1>3, PassKeeps DEF Becomes
  <2>3. Serving(s)
    BY <1>1, <1>3, <1>4, PassServes
  <2> HIDE DEF s
  <2>4. session' = [session EXCEPT ![h] = s]
    BY <2>1 DEF s
  <2> QED
    BY <1>1, <1>3, <2>2, <2>3, <2>4, OneServes
<1>5. CASE session[h].owner = "client"
  <2> DEFINE f == FreshBlock(session[h], FALSE, "receive")
  <2>1. Becomes(f, session[h]) /\ SameMark(f, session[h])
    <3>1. Becomes(f, session[h])
      BY <1>3, FreshBlockKeeps
    <3>2. f.rt = session[h].rt
      BY <1>3 DEF FreshBlock, Proper, Session
    <3> QED
      BY <3>1, <3>2 DEF SameMark
  <2> HIDE DEF f
  <2>2. PICK s \in {f, session[h]} :
           \E answer \in PassAnswers(s) : session' = [session EXCEPT ![h] = Pass(s, p, answer).s]
    BY <1>2 DEF f
  <2>3. PICK answer \in PassAnswers(s) : session' = [session EXCEPT ![h] = Pass(s, p, answer).s]
    BY <2>2
  <2>4. s \in Proper /\ s.owner = "client" /\ Serving(s)
    BY <1>3, <1>5, <2>1, <2>2, MarkServes DEF Becomes, SameKey
  <2> DEFINE e == Pass(s, p, answer).s
  <2>5. Becomes(e, s) /\ SameMark(e, s)
    BY <1>1, <2>3, <2>4, PassKeeps, PassMarks
  <2> HIDE DEF e
  <2>6. Serving(e) /\ e \in Proper
    BY <2>4, <2>5, MarkServes DEF Becomes
  <2>7. session' = [session EXCEPT ![h] = e]
    BY <2>3 DEF e
  <2> QED
    BY <1>1, <1>3, <2>6, <2>7, OneServes
<1> QED
  BY <1>3, <1>4, <1>5, RequestTyped DEF Owners

\* An acknowledgement.
LEMMA ProcessAckServes ==
    ASSUME TypeInv, ContextInv, pc # "cleanup", NEW p, ProcessAck(p)
    PROVE  ContextInv'
<1>1. /\ fault' = fault
      /\ session' = [h \in Handles |->
              IF h \in Find(p.owner, p.id) /\ ~Receiving(session[h])
              THEN [session[h] EXCEPT !.acked = p.count, !.ackPending = FALSE]
              ELSE session[h]]
  BY DEF ProcessAck
<1>2. ASSUME NEW h \in Live'
      PROVE  Serving(session'[h])
  <2>1. h \in Handles
    BY <1>2 DEF Live
  <2> DEFINE a == [session[h] EXCEPT !.acked = p.count, !.ackPending = FALSE]
  <2>2. CASE session'[h] = session[h]
    BY <1>2, <2>2 DEF ContextInv, Live
  <2>3. CASE session'[h] # session[h]
    <3>1. session'[h] = a /\ h \in Live
      BY <1>1, <2>1, <2>3 DEF Find
    <3>2. session[h] \in Session /\ Serving(session[h])
      BY <3>1, RequestTyped DEF Proper, ContextInv
    <3>3. a.rt = session[h].rt /\ a.owner = session[h].owner /\ a.st = session[h].st
      BY <3>2 DEF Session
    <3> HIDE DEF a
    <3> QED
      BY <3>1, <3>2, <3>3 DEF Serving
  <2> QED
    BY <2>2, <2>3
<1> QED
  BY <1>1, <1>2 DEF ContextInv, Serving

\* Any packet but an error.
LEMMA ProcessServes ==
    ASSUME ConstantsAssumption, ContextMemory, TypeInv, ContextInv,
           pc # "cleanup", pc' # "cleanup", NEW p \in Packets, Keyed(p), p.op # "error", Process(p)
    PROVE  ContextInv'
<1>1. CASE StartDeviceRequest(p)
  BY <1>1, StartDeviceRequestServes
<1>2. CASE PassToSession(p)
  BY <1>2, PassToSessionServes
<1>3. CASE ProcessAck(p)
  BY <1>3, ProcessAckServes
<1>4. CASE RefuseDeviceRequest(p) \/ StartUnknown(p) \/ DataUnknown(p)
  BY <1>4, SameServe DEF RefuseDeviceRequest, StartUnknown, DataUnknown, listVars
<1> QED
  BY <1>1, <1>2, <1>3, <1>4 DEF Process, ProcessError, ErrorUnknown

\* The receive step.
LEMMA ReceiveStepServes ==
    ASSUME ConstantsAssumption, ContextMemory, TypeInv, TalkInv, ContextInv, ReceiveStep
    PROVE  ContextInv'
<1>1. pc # "cleanup" /\ pc' # "cleanup"
  BY DEF ReceiveStep
<1>2. CASE ReceiveNothing
  BY <1>1, <1>2, SameServe DEF ReceiveNothing, listVars
<1>3. CASE ReceivePacket
  <2>1. Head(inbound) = inbound[1] /\ 1 \in 1 .. Len(inbound) /\ inbound \in Seq(Packets)
    BY <1>3 DEF ReceivePacket, TypeInv, PacketInv
  <2>2. Head(inbound) \in Packets /\ Keyed(Head(inbound)) /\ Head(inbound).op # "error"
    BY <2>1 DEF TypeInv, PacketInv, TalkInv, PacketTalk, Plain
  <2> QED
    BY <1>1, <1>3, <2>2, ProcessServes DEF ReceivePacket
<1>4. CASE ProcessHeld
  <2>1. held \in Packets /\ Keyed(held) /\ held.op # "error"
    BY <1>4 DEF ProcessHeld, TypeInv, PacketInv, TalkInv, PacketTalk, Plain
  <2> QED
    BY <1>1, <1>4, <2>1, ProcessServes DEF ProcessHeld
<1> QED
  BY <1>2, <1>3, <1>4 DEF ReceiveStep

\* The start step: a put request starts with its context.
LEMMA StartStepServes ==
    ASSUME ConstantsAssumption, ContextMemory, TypeInv, ContextInv, StartStep
    PROVE  ContextInv'
<1>1. pc # "cleanup"
  BY DEF StartStep
<1>2. CASE StartRequest
  <2> DEFINE req == pending[NextPending]
             s   == NewSession("client", NextId, req, "get_data", "send_data")
  <2>1. /\ req \in Requests /\ MayCreate("client") /\ HasMemory /\ fault' = fault
    BY <1>2 DEF StartRequest, NextPending, TypeInv, QueueInv
  <2>2. NextId \in Nat
    BY <2>1, NextIdFree DEF MayCreate, TypeInv, QueueInv, FreeIds
  <2>3. s \in Proper /\ Serving(s)
    BY <2>1, <2>2, NewSessionTyped DEF Owners, Talks, RequestTypes, NewSession, Serving
  <2> HIDE DEF s
  <2>4. session' = [session EXCEPT ![NewHandle] = s]
    BY <1>2 DEF StartRequest, AddSession, s
  <2>5. NewHandle \in Handles \ Live
    BY <2>1, NewHandleFree
  <2> QED
    BY <1>1, <2>1, <2>3, <2>4, <2>5, AdditionServes
<1>3. CASE StartNothing
  BY <1>1, <1>3, SameServe DEF StartNothing, listVars
<1> QED
  BY <1>2, <1>3 DEF StartStep, StartWithoutContext, ContextMemory

-----------------------------------------------------------------------------
\* The poll step: nobody is asked for data after a status call.
LEMMA PollStepServes ==
    ASSUME TypeInv, ContextInv, PollStep
    PROVE  ContextInv'
<1>1. pc # "cleanup"
  BY DEF PollStep
<1>2. Polled # NoHandle => Polled \in Live
  BY PolledLive DEF TypeInv, CoreInv, StateInv
<1>3. Polled # NoHandle => session[Polled] \in Proper /\ Serving(session[Polled])
  BY <1>1, <1>2, RequestTyped DEF ContextInv
<1> DEFINE s == session[Polled]
<1>4. CASE PollNobody \/ PollSwitch \/ PollBusy \/ PollNoBuffer
  BY <1>1, <1>4, SameServe DEF PollNobody, PollSwitch, PollBusy, PollNoBuffer, listVars
<1>5. CASE PollSendData
  <2> DEFINE total == s.total + 1
             new(last) == Filling(s, last, total, WindowFull(total, s.acked))
  <2>1. PICK last \in BOOLEAN : session' = [session EXCEPT ![Polled] = new(last)]
    BY <1>5 DEF PollSendData, Filling
  <2>2. Polled # NoHandle /\ fault' = fault /\ MayAnswer(s)
    BY <1>5 DEF PollSendData, MayAskForData
  <2>3. s.total \in Nat /\ s.acked \in Nat /\ s \in Session
    BY <1>3, <2>2 DEF Proper, Session
  <2>4. total \in Nat /\ WindowFull(total, s.acked) \in BOOLEAN
    BY <2>3 DEF WindowFull
  <2> HIDE DEF total
  <2>5. Becomes(new(last), s) /\ new(last).rt = s.rt
    <3>1. \A n \in Nat, full \in BOOLEAN : Becomes(Filling(s, last, n, full), s)
      BY <1>3, <2>2, FillingKeeps
    <3>2. new(last).rt = s.rt
      BY <2>3 DEF Filling, Session
    <3> QED
      BY <2>4, <3>1, <3>2
  <2> HIDE DEF new
  <2>6. new(last) \in Proper /\ new(last).owner = s.owner
    BY <2>5 DEF Becomes, SameKey
  <2>7. Serving(new(last))
    BY <1>3, <2>2, <2>5, <2>6 DEF Serving, MayAnswer
  <2> QED
    BY <1>1, <1>2, <2>1, <2>2, <2>6, <2>7, OneServes
<1>6. CASE PollAfterStatus
  BY <1>3, <1>6 DEF PollAfterStatus, MayAskForData, MayAnswer, Serving, Proper, Session, Owners
<1>7. CASE PollSendAck
  <2> DEFINE e == [s EXCEPT !.acked = s.total, !.st = "receive"]
  <2>1. session' = [session EXCEPT ![Polled] = e]
    <3>1. session' = [session EXCEPT ![Polled].acked = s.total, ![Polled].st = "receive"]
      BY <1>7 DEF PollSendAck
    <3> QED
      BY <3>1, <1>2, <1>3, <1>7 DEF PollSendAck, TypeInv, CoreInv, StateInv, ListInv
  <2>2. Polled # NoHandle /\ fault' = fault
    BY <1>7 DEF PollSendAck
  <2>3. e \in Proper /\ Serving(e)
    BY <1>3, <2>2 DEF Proper, Session, States, Serving
  <2> HIDE DEF e
  <2> QED
    BY <1>1, <1>2, <2>1, <2>2, <2>3, OneServes
<1>8. CASE PollSendError \/ PollDelete
  <2>1. Polled # NoHandle /\ DeleteSession(Polled, s, told, Polled)
    BY <1>8 DEF PollSendError, PollDelete
  <2> QED
    BY <1>1, <1>2, <1>3, <2>1, DeletionServes DEF Serving
<1>9. CASE PollCancel
  <2> DEFINE rt == IF s.rt = "reply_data" THEN "reply_length" ELSE s.rt
             s1 == [s EXCEPT !.reason = "cancel", !.rt = rt]
             e  == SetError(s1)
  <2>1. Polled # NoHandle /\ fault' = fault /\ session' = [session EXCEPT ![Polled] = e]
    BY <1>9 DEF PollCancel, MayAskForData
  <2>2. rt \in RequestTypes \ {"none", "status"} /\ (s.owner = "client" => rt = s.rt)
        /\ (s.owner = "cloud" => rt # "send_data")
    BY <1>3, <2>1 DEF Proper, Session, RequestTypes, Serving
  <2> HIDE DEF rt
  <2>3. s1 \in Proper /\ s1.rt = rt /\ s1.owner = s.owner
    BY <1>3, <2>1, <2>2 DEF Proper, Session
  <2> HIDE DEF s1
  <2>4. Becomes(e, s1) /\ e.rt = rt /\ e.st \in {"delete", "send_error"}
    <3>1. s1 \in Session
      BY <2>3 DEF Proper
    <3> QED
      BY <2>3, <3>1, SetErrorKeeps DEF SetError, Session
  <2> HIDE DEF e
  <2>5. e \in Proper /\ Serving(e)
    BY <2>2, <2>3, <2>4 DEF Becomes, SameKey, Serving
  <2> QED
    BY <1>1, <1>2, <2>1, <2>5, OneServes
<1> QED
  BY <1>4, <1>5, <1>6, <1>7, <1>8, <1>9 DEF PollStep

\* Closing: the status calls mark the sessions that are then freed.
LEMMA ClosingServes ==
    ASSUME TypeInv, TalkInv, ContextInv, Closing
    PROVE  ContextInv'
<1>1. CASE CloseNetwork
  <2>0. pc' = "cleanup" /\ pc # "cleanup" /\ NoHandle \notin Live
    BY <1>1 DEF CloseNetwork, Live, Handles, NoHandle
  <2>1. CASE session' = session /\ fault' = fault
    BY <2>0, <2>1, SameServe
  <2>2. CASE ~(session' = session /\ fault' = fault)
    <3> DEFINE h == slot.session
    <3>1. slot.kind = "data" /\ h \in Live
      BY <1>1, <2>2 DEF CloseNetwork, AbortSend, TalkInv, SlotTalk
    <3>2. PICK answer \in StatusAnswers :
             session' = [session EXCEPT ![h] = Informed(session[h], "error", answer)]
      BY <1>1, <2>0, <3>1 DEF CloseNetwork, AbortSend
    <3>3. fault' = fault
      BY <1>1, <2>0, <3>1 DEF CloseNetwork, AbortSend
    <3> DEFINE e == Informed(session[h], "error", answer)
    <3>4. session[h] \in Session /\ session \in [Handles -> Proper \cup {Free}] /\ h \in Handles
      BY <3>1, RequestTyped DEF Proper, TypeInv, CoreInv, StateInv, ListInv
    <3>5. e.rt = "status"
      BY <3>4 DEF Informed, SetError, Session
    <3> HIDE DEF e, h
    <3>6. session'[h] = e /\ \A g \in Handles \ {h} : session'[g] = session[g]
      BY <3>2, <3>4 DEF e
    <3>7. \A g \in Live' : session'[g].rt # "none"
      BY <3>5, <3>6 DEF ContextInv, Live
    <3> QED
      BY <2>0, <3>3, <3>7 DEF ContextInv
  <2> QED
    BY <2>1, <2>2
<1>2. CASE CleanupSession
  <2> DEFINE h == Head(list)
             s == session[h]
  <2>0. pc = "cleanup" /\ pc' = "cleanup"
    BY <1>2 DEF CleanupSession
  <2>1. h \in Live
    <3>1. list \in Seq(Handles) /\ Elements(list) = Live /\ list # << >>
      BY <1>2 DEF CleanupSession, TypeInv, CoreInv, StateInv, ListInv
    <3>2. 1 \in 1 .. Len(list) /\ h = list[1]
      BY <3>1
    <3> QED
      BY <3>1, <3>2 DEF Elements
  <2>2. s.rt # "none" /\ s \in Session
    BY <2>1, RequestTyped DEF ContextInv, Proper
  <2>3. CASE s.st \in {"delete", "send_error"}
    <3>1. DeleteSession(h, s, told, current)
      BY <1>2, <2>3 DEF CleanupSession
    <3> HIDE DEF h
    <3> QED
      BY <2>0, <2>1, <2>2, <3>1, DeletionServes
  <2>4. CASE s.st \notin {"delete", "send_error"}
    <3>1. PICK answer \in StatusAnswers :
             DeleteSession(h, Informed(s, "cancel", answer),
                           Tell(told, s.req, "cancel", answer), current)
      BY <1>2, <2>2, <2>4 DEF CleanupSession
    <3> DEFINE e == Informed(s, "cancel", answer)
    <3>2. e.rt = "status"
      BY <2>2 DEF Informed, SetError, Session
    <3> HIDE DEF h, e
    <3>3. DeleteSession(h, e, Tell(told, s.req, "cancel", answer), current)
      BY <3>1 DEF e
    <3> QED
      BY <2>0, <2>1, <3>2, <3>3, DeletionServes
  <2> QED
    BY <2>3, <2>4
<1>3. CASE CleanupRequest
  <2>1. list = << >> /\ Elements(list) = Live /\ fault' = fault /\ session' = session
    BY <1>3 DEF CleanupRequest, TypeInv, CoreInv, StateInv, ListInv, listVars
  <2>2. Live = {} /\ Live' = {}
    BY <2>1 DEF Elements, Live
  <2> QED
    BY <2>1, <2>2, FewerServe
<1> QED
  BY <1>1, <1>2, <1>3 DEF Closing

\* Every step keeps the contexts.
LEMMA ContextStep ==
    ConstantsAssumption /\ ContextMemory /\ TypeInv /\ TalkInv /\ ContextInv /\ [Next]_vars
        => ContextInv'
<1> SUFFICES ASSUME ConstantsAssumption, ContextMemory, TypeInv, TalkInv, ContextInv, [Next]_vars
             PROVE  ContextInv'
  OBVIOUS
<1>1. CASE Step
  BY <1>1, SendStepServes, ReceiveStepServes, StartStepServes, PollStepServes DEF Step
<1>2. CASE Closing
  BY <1>2, ClosingServes
<1>3. CASE Disconnect \/ Reopen \/ Terminate \/ \E r \in Requests : Initiate(r)
  <2>1. session' = session /\ fault' = fault /\ pc # "cleanup"
    BY <1>3 DEF Disconnect, Reopen, Terminate, Initiate, Connected, listVars
  <2> QED
    BY <2>1, SameServe
<1>4. CASE UNCHANGED vars
  BY <1>4, SameServe DEF vars
<1>5. CASE Cloud
  <2>1. ASSUME NEW p, CloudSends(p)
        PROVE  session' = session /\ fault' = fault /\ pc # "cleanup"
    BY <2>1 DEF CloudSends, Connected, listVars
  <2>2. session' = session /\ fault' = fault /\ pc # "cleanup"
    BY <1>5, <2>1 DEF Cloud, CloudAck, CloudReply, CloudStart, CloudData, CloudError
  <2> QED
    BY <2>2, SameServe
<1> QED
  BY <1>1, <1>2, <1>3, <1>4, <1>5 DEF Next

\* The connector reads no freed session and no NULL context and fails no
\* assertion, if there is memory for every context and Device Cloud ends no
\* message with an error.
THEOREM NothingFreedIsRead ==
    ASSUME ~CloudErrors, ContextMemory
    PROVE  Spec => []NoFault
<1>1. Init => ContextInv
  <2> SUFFICES ASSUME Init
               PROVE  ContextInv
    OBVIOUS
  <2>1. Live = {} /\ fault = "none"
    BY DEF Init, Live
  <2> QED
    BY <2>1 DEF ContextInv
<1>2. ContextInv => NoFault
  BY DEF ContextInv, NoFault
<1> QED
  BY <1>1, <1>2, ContextStep, ConstantsAssumption, TypeInvariant, TalkInvariant, PTL DEF Spec

-----------------------------------------------------------------------------
\* The packets on their way to the service, the one that is processed first.
Stream == IF held # NoPacket /\ StillHeld THEN <<held>> \o inbound ELSE inbound

\* The packets of a message, the first of them, and the ones that are not a
\* response.
Carried(key)  == {p \in DataPacket : <<p.owner, p.id>> = key}
Starting(key) == {p \in Carried(key) : p.op = "start"}
Partial(key)  == {p \in Carried(key) : ~(p.op = "start" /\ p.last = TRUE)}

\* The packets that end a conversation of the client: responses and errors.
Ending(id) ==
    Carried(<<"client", id>>)
        \cup {p \in ErrorPacket : ErrorOwnerReceived(p) = "client" /\ p.id = id}

Unsent == {"get_data", "wait_send_complete"}
Lost   == {"send_error", "delete"}

\* Device Cloud has the start of the request.
Started(s) == s.st = "receive" \/ (s.st \in Unsent /\ ~s.start)

\* Device Cloud sends the request.
Coming(key) == conv[key].phase \in {"sending", "waiting"}

\* A device request: what Device Cloud has sent is taken or on its way.  A
\* start on its way is the first packet, and nothing was taken before it.
CloudFlow(id) ==
    LET key == <<"cloud", id>>
    IN  /\ conv[key].phase \notin {"replying", "answered"}
        /\ NoneBefore(Stream, Carried(key), Starting(key))
        /\ HowMany(Stream, Starting(key)) # 0 =>
              /\ Coming(key) => conv[key].count = HowMany(Stream, Carried(key))
              /\ \A h \in Find("cloud", id) : session[h].request /\ session[h].total = 0
        /\ \A h \in Find("cloud", id) :
              session[h].request =>
                 /\ session[h].st \notin Unsent
                 /\ Coming(key) /\ session[h].st \notin Lost =>
                       conv[key].count = session[h].total + HowMany(Stream, Carried(key))

\* The session sends the first packet of its request.
SendsStart(h) == slot.kind = "data" /\ slot.session = h /\ slot.packet.op = "start"

\* Where the session of a put request can be: it has its response under way
\* or none is known from an earlier request of this id.
ClientFlowOf(h, id) ==
    LET key == <<"client", id>>
        s   == session[h]
    IN  /\ s.st # "send_ack"
        /\ s.st \in Unsent => s.request
        /\ conv[key].phase = "answered" =>
              /\ s.st = "receive" => HowMany(Stream, Carried(key)) = 1
              /\ s.st \in Unsent /\ ~s.start => SendsStart(h)

\* A put request: one packet at most ends its conversation, and the session it
\* ends is there.
ClientFlow(id) ==
    LET key   == <<"client", id>>
        phase == conv[key].phase
    IN  /\ phase \notin {"sending", "waiting"}
        /\ HowMany(Stream, Ending(id)) <= 1
        /\ HowMany(Stream, Partial(key)) = 0
        /\ HowMany(Stream, Ending(id)) # 0 => phase \in {"none", "answered"}
        /\ HowMany(Stream, Ending(id)) # 0 \/ phase \in {"receiving", "replying"} =>
              \E h \in Find("client", id) : Started(session[h])
        /\ HowMany(Stream, Carried(key)) # 0 \/ phase = "replying" =>
              \E h \in Find("client", id) : session[h].st = "receive"
        /\ \A h \in Find("client", id) : ClientFlowOf(h, id)

\* What is being sent is the last that its session filled; when it starts a
\* put request, nothing of the conversation has happened yet.
SlotFlow ==
    /\ slot.kind = "data" /\ slot.session # NoHandle =>
          LET s == session[slot.session]
              p == slot.packet
          IN  /\ s.st = "wait_send_complete" /\ ~s.start
              /\ p \in DataPacket
              /\ p.owner = s.owner /\ p.id = s.id /\ p.last = s.last
              /\ s.owner = "client" /\ p.op = "start" =>
                    /\ HowMany(Stream, Ending(s.id)) = 0
                    /\ conv[<<"client", s.id>>].phase \in {"none", "answered"}
    /\ slot.kind = "control" => slot.packet.op \notin {"start", "data"}

\* Between two connections nothing is on its way.
ClosedFlow ==
    /\ inbound = << >> /\ slot.kind = "empty"
    /\ \A id \in ClientIds : conv[<<"client", id>>].phase \in {"none", "answered"}
    /\ \A id \in CloudIds : conv[<<"cloud", id>>].phase = "none"
    /\ pc # "cleanup" => Live = {}

\* The flow on an open stream.
OpenFlow ==
    /\ \A id \in CloudIds : CloudFlow(id)
    /\ \A id \in ClientIds : ClientFlow(id)
    /\ SlotFlow

FlowInv == IF Open THEN OpenFlow ELSE ClosedFlow

-----------------------------------------------------------------------------
\* What the type invariant says of the stream.
LEMMA StreamTyped ==
    ASSUME TypeInv
    PROVE  /\ Stream \in Seq(Packets) /\ inbound \in Seq(Packets)
           /\ held # NoPacket => held \in Packets
<1>1. /\ inbound \in Seq(Packets) /\ held \in Packets \cup {NoPacket}
  BY DEF TypeInv, PacketInv
<1>2. held # NoPacket => <<held>> \o inbound \in Seq(Packets)
  BY <1>1, AtTheHead
<1> QED
  BY <1>1, <1>2 DEF Stream

\* NULL is not a packet.
LEMMA NoPacketIsNone == NoPacket \notin Packets
BY DEF NoPacket, Packets, DataPacket, AckPacket, ErrorPacket

\* A packet belongs to a message if it names it.
LEMMA CarriedPackets ==
    ASSUME NEW p \in Packets, NEW owner, NEW id
    PROVE  /\ p \in Carried(<<owner, id>>) <=>
                 p.op \in {"start", "data"} /\ p.owner = owner /\ p.id = id
           /\ p.op \in {"start", "data"} => p \in DataPacket /\ p.last \in BOOLEAN
<1>1. p \in DataPacket => p.op \in {"start", "data"} /\ p.last \in BOOLEAN
  BY DEF DataPacket
<1>2. p \in AckPacket \cup ErrorPacket => p.op \notin {"start", "data"}
  BY DEF AckPacket, ErrorPacket
<1>3. p \in DataPacket <=> p.op \in {"start", "data"}
  BY <1>1, <1>2 DEF Packets
<1> QED
  BY <1>1, <1>3 DEF Carried

\* ... and ends a conversation if it is a response or an error in it.
LEMMA EndingPackets ==
    ASSUME NEW p \in Packets, NEW id
    PROVE  p \in Ending(id) <=>
              \/ p.op \in {"start", "data"} /\ p.owner = "client" /\ p.id = id
              \/ p.op = "error" /\ ErrorOwnerReceived(p) = "client" /\ p.id = id
<1>1. p \in ErrorPacket => p.op = "error"
  BY DEF ErrorPacket
<1>2. p \in DataPacket \cup AckPacket => p.op # "error"
  BY DEF DataPacket, AckPacket
<1>3. p \in ErrorPacket <=> p.op = "error"
  BY <1>1, <1>2 DEF Packets
<1> QED
  BY <1>3, CarriedPackets DEF Ending

\* The sets that are counted, one in the other.
LEMMA KindsOfPackets ==
    /\ \A key : Starting(key) \subseteq Carried(key) /\ Partial(key) \subseteq Carried(key)
    /\ \A id : Carried(<<"client", id>>) \subseteq Ending(id)
BY DEF Starting, Partial, Ending

\* A step that keeps the packet that is held, and the ones that come.
LEMMA StreamUnmoved ==
    ASSUME UNCHANGED <<held, inbound>>, StillHeld' <=> StillHeld
    PROVE  Stream' = Stream
BY DEF Stream

\* The packet that a receive step processes is the first; it leaves the stream
\* unless its handler asks for more time.
LEMMA StreamReceived ==
    ASSUME TypeInv, ReceiveStep
    PROVE  \/ ReceiveNothing /\ Stream' = Stream
           \/ \E p \in Packets, rest \in Seq(Packets) :
                 /\ Process(p) /\ Keyed(p)
                 /\ Stream = <<p>> \o rest
                 /\ Stream' = IF result' \in {"pending", "active"} THEN Stream ELSE rest
<1>1. /\ StillHeld /\ (StillHeld' <=> result' \in {"pending", "active"})
      /\ pc = "receive" /\ pc' = "start"
  BY DEF ReceiveStep, StillHeld
<1>2. inbound \in Seq(Packets) /\ held \in Packets \cup {NoPacket} /\ Keyed(held)
  BY DEF TypeInv, PacketInv
<1>3. CASE ReceiveNothing
  BY <1>3 DEF ReceiveNothing, Stream
<1>4. CASE ReceivePacket
  <2>1. /\ held = NoPacket /\ inbound # << >> /\ held' = Head(inbound)
        /\ inbound' = Tail(inbound) /\ Process(Head(inbound))
    BY <1>4 DEF ReceivePacket
  <2>2. /\ Head(inbound) \in Packets /\ Tail(inbound) \in Seq(Packets)
        /\ inbound = <<Head(inbound)>> \o Tail(inbound)
        /\ Head(inbound) = inbound[1] /\ 1 \in 1 .. Len(inbound)
    BY <1>2, <2>1
  <2>3. Keyed(Head(inbound))
    BY <2>2 DEF TypeInv, PacketInv
  <2>4. Stream = <<Head(inbound)>> \o Tail(inbound)
    BY <2>1, <2>2 DEF Stream
  <2>5. Head(inbound) # NoPacket
    BY <2>2, NoPacketIsNone
  <2>6. Stream' = IF result' \in {"pending", "active"} THEN Stream ELSE Tail(inbound)
    BY <1>1, <2>1, <2>4, <2>5 DEF Stream
  <2> QED
    BY <2>1, <2>2, <2>3, <2>4, <2>6
<1>5. CASE ProcessHeld
  <2>1. held # NoPacket /\ Process(held) /\ UNCHANGED <<held, inbound>>
    BY <1>5 DEF ProcessHeld
  <2>2. Stream = <<held>> \o inbound
    BY <1>1, <2>1 DEF Stream
  <2>3. Stream' = IF result' \in {"pending", "active"} THEN Stream ELSE inbound
    BY <1>1, <2>1, <2>2 DEF Stream
  <2> QED
    BY <1>2, <2>1, <2>2, <2>3
<1> QED
  BY <1>3, <1>4, <1>5 DEF ReceiveStep

\* A packet of Device Cloud goes to the end of the stream.
LEMMA StreamSent ==
    ASSUME TypeInv, NEW p \in Packets, CloudSends(p)
    PROVE  Stream' = Append(Stream, p)
<1>1. inbound' = Append(inbound, p) /\ held' = held /\ (StillHeld' <=> StillHeld)
  BY DEF CloudSends, StillHeld
<1>2. inbound \in Seq(Packets) /\ held \in Packets \cup {NoPacket}
  BY DEF TypeInv, PacketInv
<1>3. CASE held # NoPacket
  <2>1. <<held>> \in Seq(Packets) /\ <<p>> \in Seq(Packets) /\ <<held>> \o inbound \in Seq(Packets)
    BY <1>2, <1>3, AtTheHead
  <2>2. Append(inbound, p) = inbound \o <<p>>
    BY <1>2, AppendIsConcat
  <2>3. Append(<<held>> \o inbound, p) = (<<held>> \o inbound) \o <<p>>
    BY <2>1, AppendIsConcat
  <2>4. (<<held>> \o inbound) \o <<p>> = <<held>> \o (inbound \o <<p>>)
    BY <1>2, <2>1, ConcatAssociative
  <2> QED
    BY <1>1, <2>2, <2>3, <2>4 DEF Stream
<1>4. CASE held = NoPacket
  BY <1>1, <1>4 DEF Stream
<1> QED
  BY <1>3, <1>4

-----------------------------------------------------------------------------
\* Which sessions there are after one changed,
LEMMA OneChanged ==
    ASSUME TypeInv, NEW h \in Live, NEW s, Becomes(s, session[h]),
           session' = [session EXCEPT ![h] = s]
    PROVE  /\ Live' = Live /\ session'[h] = s
           /\ \A g \in Live \ {h} : session'[g] = session[g]
<1>1. session \in [Handles -> Proper \cup {Free}] /\ h \in Handles
  BY DEF TypeInv, CoreInv, StateInv, ListInv, Live
<1> QED
  BY <1>1, FreeIsNoSession DEF Live, Becomes

\* after one was freed,
LEMMA OneFreed ==
    ASSUME TypeInv, NEW h \in Live, session' = [session EXCEPT ![h] = Free]
    PROVE  Live' = Live \ {h} /\ \A g \in Live \ {h} : session'[g] = session[g]
<1>1. session \in [Handles -> Proper \cup {Free}] /\ h \in Handles
  BY DEF TypeInv, CoreInv, StateInv, ListInv, Live
<1> QED
  BY <1>1 DEF Live

\* and after one was added.
LEMMA OneAdded ==
    ASSUME TypeInv, NEW h \in Handles \ Live, NEW s \in Proper,
           session' = [session EXCEPT ![h] = s]
    PROVE  /\ Live' = Live \cup {h} /\ session'[h] = s
           /\ \A g \in Live : g # h /\ session'[g] = session[g]
<1>1. session \in [Handles -> Proper \cup {Free}] /\ h \in Handles
  BY DEF TypeInv, CoreInv, StateInv, ListInv, Live
<1> QED
  BY <1>1, FreeIsNoSession DEF Live

-----------------------------------------------------------------------------
\* A step leaves the part a device request has in the flow alone.
CloudAlike(s1, s) ==
    /\ s1.request = s.request
    /\ s.request => /\ s1.total = s.total
                    /\ s1.st \in Unsent => s.st \in Unsent
                    /\ s.st \in Lost => s1.st \in Lost

CloudPhaseKept(id) ==
    LET key == <<"cloud", id>>
    IN  /\ conv'[key].phase \notin {"replying", "answered"}
        /\ Coming(key)' => Coming(key) /\ conv'[key].count = conv[key].count

LEMMA CloudFlowKeeps ==
    ASSUME NEW id, CloudFlow(id), CloudPhaseKept(id),
           LET key == <<"cloud", id>>
           IN  /\ HowMany(Stream', Carried(key)) = HowMany(Stream, Carried(key))
               /\ HowMany(Stream', Starting(key)) = HowMany(Stream, Starting(key))
               /\ NoneBefore(Stream', Carried(key), Starting(key)),
           \A h \in Find("cloud", id)' :
              h \in Find("cloud", id) /\ CloudAlike(session'[h], session[h])
    PROVE  CloudFlow(id)'
<1> DEFINE key == <<"cloud", id>>
           n   == HowMany(Stream, Carried(key))
           n1  == HowMany(Stream', Carried(key))
<1>1. n1 = n
  OBVIOUS
<1>2. conv'[key].phase \notin {"replying", "answered"}
  BY DEF CloudPhaseKept
<1>3. ASSUME HowMany(Stream', Starting(key)) # 0
      PROVE  /\ Coming(key)' => conv'[key].count = n1
             /\ \A h \in Find("cloud", id)' : session'[h].request /\ session'[h].total = 0
  <2>1. /\ Coming(key) => conv[key].count = n
        /\ \A h \in Find("cloud", id) : session[h].request /\ session[h].total = 0
    BY <1>3 DEF CloudFlow
  <2>2. Coming(key)' => conv'[key].count = n1
    BY <1>1, <2>1 DEF CloudPhaseKept
  <2>3. \A h \in Find("cloud", id)' : session'[h].request /\ session'[h].total = 0
    BY <2>1 DEF CloudAlike
  <2> QED
    BY <2>2, <2>3
<1>4. ASSUME NEW h \in Find("cloud", id)', session'[h].request
      PROVE  /\ session'[h].st \notin Unsent
             /\ Coming(key)' /\ session'[h].st \notin Lost =>
                   conv'[key].count = session'[h].total + n1
  <2>1. h \in Find("cloud", id) /\ CloudAlike(session'[h], session[h])
    OBVIOUS
  <2>2. session[h].request
    BY <1>4, <2>1 DEF CloudAlike
  <2>3. /\ session[h].st \notin Unsent
        /\ Coming(key) /\ session[h].st \notin Lost => conv[key].count = session[h].total + n
    BY <2>1, <2>2 DEF CloudFlow
  <2>4. session'[h].st \notin Unsent /\ session'[h].total = session[h].total
    BY <2>1, <2>2, <2>3 DEF CloudAlike
  <2>5. session'[h].st \notin Lost => session[h].st \notin Lost
    BY <2>1, <2>2 DEF CloudAlike
  <2>6. Coming(key)' => Coming(key) /\ conv'[key].count = conv[key].count
    BY DEF CloudPhaseKept
  <2> QED
    BY <1>1, <2>3, <2>4, <2>5, <2>6
<1> HIDE DEF n, n1
<1>5. NoneBefore(Stream', Carried(key), Starting(key))
  OBVIOUS
<1> QED
  BY <1>2, <1>3, <1>4, <1>5 DEF CloudFlow, n1

\* A step leaves the part a put request has in the flow alone.
ClientAlike(s1, s) ==
    /\ s1.st = s.st
    /\ s.st \in Unsent => s1.request = s.request /\ s1.start = s.start

LEMMA ClientFlowKeeps ==
    ASSUME NEW id, ClientFlow(id), Phase(id)' \in {Phase(id), "none"},
           LET key == <<"client", id>>
           IN  /\ HowMany(Stream', Carried(key)) = HowMany(Stream, Carried(key))
               /\ HowMany(Stream', Partial(key)) = HowMany(Stream, Partial(key))
               /\ HowMany(Stream', Ending(id)) = HowMany(Stream, Ending(id)),
           \A h \in Find("client", id)' :
              /\ h \in Find("client", id) /\ ClientAlike(session'[h], session[h])
              /\ Phase(id)' = "answered" /\ SendsStart(h) => SendsStart(h)',
           \A h \in Find("client", id) : Started(session[h]) => h \in Find("client", id)'
    PROVE  ClientFlow(id)'
<1> DEFINE key == <<"client", id>>
           r == HowMany(Stream, Carried(key))
           e == HowMany(Stream, Ending(id))
<1>1. /\ HowMany(Stream', Carried(key)) = r /\ HowMany(Stream', Ending(id)) = e
      /\ HowMany(Stream', Partial(key)) = HowMany(Stream, Partial(key))
  OBVIOUS
<1> HIDE DEF r, e
<1>2. /\ Phase(id) \notin {"sending", "waiting"} /\ e <= 1 /\ HowMany(Stream, Partial(key)) = 0
      /\ e # 0 => Phase(id) \in {"none", "answered"}
      /\ e # 0 \/ Phase(id) \in {"receiving", "replying"} =>
            \E h \in Find("client", id) : Started(session[h])
      /\ r # 0 \/ Phase(id) = "replying" => \E h \in Find("client", id) : session[h].st = "receive"
      /\ \A h \in Find("client", id) : ClientFlowOf(h, id)
  BY DEF ClientFlow, Phase, r, e
<1>3. \A h \in Find("client", id) : session[h].st = "receive" => Started(session[h])
  BY DEF Started
<1>4. /\ Phase(id)' \notin {"sending", "waiting"}
      /\ e # 0 => Phase(id)' \in {"none", "answered"}
  BY <1>2
<1>5. e # 0 \/ Phase(id)' \in {"receiving", "replying"} =>
            \E h \in Find("client", id)' : Started(session'[h])
  BY <1>2 DEF ClientAlike, Started
<1>6. r # 0 \/ Phase(id)' = "replying" => \E h \in Find("client", id)' : session'[h].st = "receive"
  BY <1>2, <1>3 DEF ClientAlike
<1>7. ASSUME NEW h \in Find("client", id)'
      PROVE  ClientFlowOf(h, id)'
  <2>1. /\ h \in Find("client", id) /\ ClientAlike(session'[h], session[h])
        /\ Phase(id)' = "answered" /\ SendsStart(h) => SendsStart(h)'
    OBVIOUS
  <2>2. /\ session[h].st # "send_ack"
        /\ session[h].st \in Unsent => session[h].request
        /\ Phase(id) = "answered" =>
              /\ session[h].st = "receive" => r = 1
              /\ session[h].st \in Unsent /\ ~session[h].start => SendsStart(h)
    BY <1>2, <2>1 DEF ClientFlowOf, Phase, r
  <2>3. /\ session'[h].st # "send_ack"
        /\ session'[h].st \in Unsent => session'[h].request
        /\ Phase(id)' = "answered" =>
              /\ session'[h].st = "receive" => r = 1
              /\ session'[h].st \in Unsent /\ ~session'[h].start => SendsStart(h)'
    BY <2>1, <2>2 DEF ClientAlike
  <2> QED
    BY <1>1, <2>3 DEF ClientFlowOf, Phase
<1> QED
  BY <1>1, <1>2, <1>4, <1>5, <1>6, <1>7 DEF ClientFlow, Phase

\* What a step that changes nothing that matters does to a session.
SameFlow(s1, s) ==
    /\ SameKey(s1, s)
    /\ s1.st = s.st \/ (s.owner = "cloud" /\ s.st = "send_ack" /\ s1.st = "receive")
    /\ s.st \in Unsent => s1.last = s.last /\ s1.start = s.start /\ s1.request = s.request
    /\ s.owner = "cloud" => s1.request = s.request /\ (s.request => s1.total = s.total)

LEMMA SameFlowAlike ==
    ASSUME NEW s, NEW s1, SameFlow(s1, s)
    PROVE  /\ s.owner = "cloud" => CloudAlike(s1, s)
           /\ s.owner = "client" => ClientAlike(s1, s)
BY DEF SameFlow, CloudAlike, ClientAlike, Unsent, Lost

LEMMA SameFlowItself == \A s : SameFlow(s, s)
BY DEF SameFlow, SameKey

\* ... to the slot,
SlotKept ==
    \/ slot' = slot
    \/ /\ slot.kind # "data" /\ slot'.kind # "data"
       /\ slot'.kind = "control" => slot'.packet.op \notin {"start", "data"}
    \/ \E g : g \notin Live' /\ slot' = Dangling(g)

\* ... and to the conversations.
PhasesKept ==
    /\ \A id \in CloudIds : CloudPhaseKept(id)
    /\ \A id \in ClientIds : Phase(id)' \in {Phase(id), "none"}

\* The slot that frees a session names no other.
LEMMA SlotKeptFor ==
    ASSUME SlotKept, NEW h \in Live', SendsStart(h)
    PROVE  SendsStart(h)'
<1>1. slot.kind = "data" /\ slot.session = h /\ slot.packet.op = "start"
  BY DEF SendsStart
<1>2. slot' = slot
  BY <1>1 DEF SlotKept, Dangling
<1> QED
  BY <1>1, <1>2 DEF SendsStart

\* Nothing changed in the conversations.
LEMMA SameConversations ==
    ASSUME OpenFlow, conv' = conv
    PROVE  PhasesKept
BY DEF OpenFlow, CloudFlow, PhasesKept, CloudPhaseKept, Coming, Phase

\* The first packet of the put request id is being sent.
SlotStarts(id) ==
    /\ slot.session # NoHandle /\ SendsStart(slot.session)
    /\ slot.packet.owner = "client" /\ slot.packet.id = id

\* What is being sent, when no conversation ends and the session stays.
LEMMA SlotFlowKeeps ==
    ASSUME TypeInv, TypeInv', SlotFlow, SlotKept,
           \A h \in Live \cap Live' :
              session[h].st = "wait_send_complete" => SameFlow(session'[h], session[h]),
           \A id \in ClientIds :
              SlotStarts(id) =>
                 /\ HowMany(Stream, Ending(id)) = 0 => HowMany(Stream', Ending(id)) = 0
                 /\ Phase(id)' \in {Phase(id), "none"}
    PROVE  SlotFlow'
<1>1. CASE slot'.kind # "data"
  <2>1. slot'.kind = "control" => slot'.packet.op \notin {"start", "data"}
    <3>1. CASE \E g : slot' = Dangling(g)
      <4>1. slot'.kind = slot.kind /\ slot'.packet = slot.packet
        BY <3>1 DEF Dangling, TypeInv, CoreInv, SlotInv, SlotType
      <4> QED
        BY <4>1 DEF SlotFlow
    <3> QED
      BY <3>1 DEF SlotKept, SlotFlow
  <2> QED
    BY <1>1, <2>1 DEF SlotFlow
<1>2. CASE slot'.kind = "data" /\ slot'.session = NoHandle
  BY <1>2 DEF SlotFlow
<1>3. CASE slot'.kind = "data" /\ slot'.session # NoHandle
  <2>1. slot' = slot
    <3>1. ASSUME NEW g, slot' = Dangling(g)
          PROVE  slot' = slot
      <4>1. [slot EXCEPT !.session = NoHandle].session = NoHandle
        BY DEF TypeInv, CoreInv, SlotInv, SlotType
      <4> QED
        BY <1>3, <3>1, <4>1 DEF Dangling
    <3> QED
      BY <1>3, <3>1 DEF SlotKept
  <2> DEFINE h == slot.session
             s == session[h]
             p == slot.packet
  <2>2. h \in Live' /\ h \in Live
    BY <1>3, <2>1 DEF TypeInv, CoreInv, SlotInv
  <2>3. /\ s.st = "wait_send_complete" /\ ~s.start /\ p \in DataPacket
        /\ p.owner = s.owner /\ p.id = s.id /\ p.last = s.last
        /\ s.owner = "client" /\ p.op = "start" =>
                    /\ HowMany(Stream, Ending(s.id)) = 0
                    /\ Phase(s.id) \in {"none", "answered"}
    BY <1>3, <2>1 DEF SlotFlow, Phase
  <2>4. /\ session'[h].st = "wait_send_complete" /\ session'[h].start = s.start
        /\ session'[h].last = s.last /\ SameKey(session'[h], s)
    BY <2>2, <2>3 DEF SameFlow, Unsent
  <2>5. ASSUME s.owner = "client", p.op = "start"
        PROVE  /\ HowMany(Stream', Ending(s.id)) = 0
               /\ conv'[<<"client", s.id>>].phase \in {"none", "answered"}
    <3>1. PICK id \in ClientIds : id = s.id
      BY <2>2, <2>5, ClientIdOf
    <3>2. SlotStarts(id)
      BY <1>3, <2>1, <2>3, <2>5, <3>1 DEF SendsStart, SlotStarts
    <3>3. HowMany(Stream', Ending(id)) = 0 /\ Phase(id)' \in {"none", "answered"}
      BY <2>3, <2>5, <3>1, <3>2
    <3> QED
      BY <3>1, <3>3 DEF Phase
  <2>6. session'[h].owner = s.owner /\ session'[h].id = s.id
    BY <2>4 DEF SameKey
  <2>7. session'[h].owner = "client" /\ p.op = "start" =>
              /\ HowMany(Stream', Ending(session'[h].id)) = 0
              /\ conv'[<<"client", session'[h].id>>].phase \in {"none", "answered"}
    BY <2>5, <2>6
  <2>8. /\ session'[h].st = "wait_send_complete" /\ ~session'[h].start
        /\ p \in DataPacket /\ p.owner = session'[h].owner /\ p.id = session'[h].id
        /\ p.last = session'[h].last
    BY <2>3, <2>4, <2>6
  <2> HIDE DEF s
  <2> QED
    BY <1>3, <2>1, <2>7, <2>8 DEF SlotFlow
<1> QED
  BY <1>1, <1>2, <1>3

-----------------------------------------------------------------------------
\* Who is found after a step that adds no session.
LEMMA FoundBefore ==
    ASSUME \A h \in Live' : h \in Live /\ SameKey(session'[h], session[h])
    PROVE  \A owner, id : Find(owner, id)' = Find(owner, id) \cap Live'
BY DEF Find, SameKey

\* A step that changes nothing that matters keeps the flow.
LEMMA FlowStays ==
    ASSUME TypeInv, TypeInv', OpenFlow, Stream' = Stream, PhasesKept, SlotKept,
           \A h \in Live' : h \in Live /\ SameFlow(session'[h], session[h]),
           \A h \in Live : h \notin Live' => session[h].st \in Lost
    PROVE  OpenFlow'
<1>1. \A owner, id : Find(owner, id)' = Find(owner, id) \cap Live'
  BY FoundBefore DEF SameFlow
<1>2. \A owner, id : \A h \in Find(owner, id) : h \in Live /\ session[h].owner = owner
  BY DEF Find
<1>3. ASSUME NEW id \in CloudIds
      PROVE  CloudFlow(id)'
  <2>1. CloudFlow(id) /\ CloudPhaseKept(id)
    BY DEF OpenFlow, PhasesKept
  <2>2. \A h \in Find("cloud", id)' :
              h \in Find("cloud", id) /\ CloudAlike(session'[h], session[h])
    BY <1>1, <1>2, SameFlowAlike
  <2>3. NoneBefore(Stream', Carried(<<"cloud", id>>), Starting(<<"cloud", id>>))
    BY <2>1 DEF CloudFlow
  <2> QED
    BY <2>1, <2>2, <2>3, CloudFlowKeeps
<1>4. ASSUME NEW id \in ClientIds
      PROVE  ClientFlow(id)'
  <2>1. ClientFlow(id) /\ Phase(id)' \in {Phase(id), "none"}
    BY DEF OpenFlow, PhasesKept
  <2>2. \A h \in Find("client", id)' :
              /\ h \in Find("client", id) /\ ClientAlike(session'[h], session[h])
              /\ SendsStart(h) => SendsStart(h)'
    BY <1>1, <1>2, SameFlowAlike, SlotKeptFor
  <2>3. \A h \in Find("client", id) : Started(session[h]) => h \in Find("client", id)'
    BY <1>1, <1>2 DEF Started, Unsent, Lost
  <2> QED
    BY <2>1, <2>2, <2>3, ClientFlowKeeps
<1>5. SlotFlow'
  BY SlotFlowKeeps DEF OpenFlow, PhasesKept
<1> QED
  BY <1>3, <1>4, <1>5 DEF OpenFlow

\* What becomes of a session when the packet p leaves the stream: nothing that
\* matters if the packet is not for it, or if the session is at its end; the
\* packet is counted, or it ends the session.
Takes(s1, s, p) ==
    LET carried == p \in Carried(<<s.owner, s.id>>)
    IN  /\ SameKey(s1, s)
        /\ \/ /\ SameFlow(s1, s)
              /\ carried => s.owner = "cloud" /\ (s.request => s.st \in Lost)
           \/ /\ carried /\ s.owner = "cloud" /\ s.st = "receive"
              /\ s1.request => /\ s.request /\ s1.st \notin Unsent \cup Lost
                               /\ s1.total = s.total + 1
           \/ /\ s.owner = "client" /\ p \in Ending(s.id)
              /\ s.st = "receive" /\ s1.st \in Lost

\* A step in which a packet leaves the stream keeps the flow.
LEMMA FlowTakes ==
    ASSUME TypeInv, TypeInv', OpenFlow, NEW p \in Packets, NEW rest \in Seq(Packets),
           Stream = <<p>> \o rest, Stream' = rest, conv' = conv, SlotKept,
           \A h \in Live' : h \in Live /\ Takes(session'[h], session[h], p),
           \A h \in Live : h \notin Live' =>
               \/ session[h].st \in Lost
               \/ session[h].owner = "client" => p \in Ending(session[h].id)
    PROVE  OpenFlow'
<1>1. \A owner, id : Find(owner, id)' = Find(owner, id) \cap Live'
  BY FoundBefore DEF Takes
<1>2. \A owner, id : \A h \in Find(owner, id) :
          h \in Live /\ session[h].owner = owner /\ session[h].id = id
  BY DEF Find
<1>3. /\ \A S : HowMany(Stream, S) = HowMany(Stream', S) + (IF p \in S THEN 1 ELSE 0)
      /\ \A S : HowMany(Stream', S) \in Nat
      /\ \A S, T : NoneBefore(Stream, S, T) => /\ NoneBefore(Stream', S, T)
                                               /\ p \in S => HowMany(Stream', T) = 0
  <2>1. \A S : HowMany(rest, S) \in Nat
    BY HowManyTyped
  <2>2. /\ \A S : HowMany(<<p>> \o rest, S)
                   = HowMany(rest, S) + (IF p \in S THEN 1 ELSE 0)
        /\ \A S, T : NoneBefore(<<p>> \o rest, S, T) => /\ NoneBefore(rest, S, T)
                                                        /\ p \in S => HowMany(rest, T) = 0
    BY AtTheHead
  <2> QED
    BY <2>1, <2>2
<1>4. PhasesKept
  BY SameConversations
<1>5. ASSUME NEW id \in CloudIds
      PROVE  CloudFlow(id)'
  <2> DEFINE key == <<"cloud", id>>
  <2>1. CloudFlow(id) /\ CloudPhaseKept(id)
    BY <1>4 DEF OpenFlow, PhasesKept
  <2>2. NoneBefore(Stream', Carried(key), Starting(key))
    BY <1>3, <2>1 DEF CloudFlow
  <2>3. CASE p \in Carried(key)
    <3>1. HowMany(Stream', Starting(key)) = 0
      BY <1>3, <2>1, <2>3 DEF CloudFlow
    <3>2. HowMany(Stream, Carried(key)) = HowMany(Stream', Carried(key)) + 1
      BY <1>3, <2>3
    <3>3. ASSUME NEW h \in Find("cloud", id)', session'[h].request
          PROVE  /\ session'[h].st \notin Unsent
                 /\ Coming(key)' /\ session'[h].st \notin Lost =>
                       conv'[key].count = session'[h].total + HowMany(Stream', Carried(key))
      <4>1. h \in Find("cloud", id) /\ h \in Live' /\ h \in Live
        BY <1>1, <1>2
      <4>2. Takes(session'[h], session[h], p) /\ session[h].owner = "cloud" /\ session[h].id = id
        BY <1>2, <4>1
      <4>3. Coming(key)' => Coming(key) /\ conv'[key].count = conv[key].count
        BY <2>1 DEF CloudPhaseKept
      <4>4. session[h].request =>
               /\ session[h].st \notin Unsent
               /\ Coming(key) /\ session[h].st \notin Lost =>
                     conv[key].count = session[h].total + HowMany(Stream, Carried(key))
        BY <2>1, <4>1 DEF CloudFlow
      <4>5. CASE SameFlow(session'[h], session[h])
        <5>1. /\ session[h].request /\ session'[h].st \in {session[h].st, "receive"}
              /\ session[h].st # "send_ack" => session'[h].st = session[h].st
          BY <3>3, <4>2, <4>5 DEF SameFlow
        <5>2. CASE session[h].st \in Lost
          BY <5>1, <5>2 DEF Unsent, Lost
        <5>3. CASE session[h].st \notin Lost
          <6>1. /\ session[h].st = "receive" /\ session'[h].request
                /\ session'[h].total = session[h].total + 1
            BY <2>3, <3>3, <4>2, <5>1, <5>3 DEF Takes
          <6>2. session'[h].total = session[h].total /\ session[h].total \in Nat
            BY <4>1, <4>2, <4>5, <5>1, RequestTyped DEF SameFlow, Proper, Session
          <6> QED
            BY <6>1, <6>2
        <5> QED
          BY <5>2, <5>3
      <4>6. CASE ~SameFlow(session'[h], session[h])
        <5>1. /\ session[h].request /\ session'[h].st \notin Unsent \cup Lost
              /\ session'[h].total = session[h].total + 1 /\ session[h].st = "receive"
          BY <3>3, <4>2, <4>6 DEF Takes
        <5>2. session[h].total \in Nat
          BY <4>1, RequestTyped DEF Proper, Session
        <5>3. Coming(key)' => conv[key].count = session[h].total + HowMany(Stream, Carried(key))
          BY <4>3, <4>4, <5>1 DEF Lost
        <5>4. HowMany(Stream', Carried(key)) \in Nat
          BY <1>3
        <5>5. session[h].total + HowMany(Stream, Carried(key))
                = session'[h].total + HowMany(Stream', Carried(key))
          <6>1. PICK t \in Nat, n \in Nat :
                   t = session[h].total /\ n = HowMany(Stream', Carried(key))
            BY <5>2, <5>4
          <6>2. session'[h].total = t + 1 /\ HowMany(Stream, Carried(key)) = n + 1
            BY <3>2, <5>1, <6>1
          <6>3. t + (n + 1) = (t + 1) + n
            OBVIOUS
          <6> QED
            BY <6>1, <6>2, <6>3
        <5> QED
          BY <4>3, <5>1, <5>3, <5>5
      <4> QED
        BY <4>5, <4>6
    <3>4. conv'[key].phase \notin {"replying", "answered"}
      BY <2>1 DEF CloudPhaseKept
    <3> QED
      BY <2>2, <3>1, <3>3, <3>4 DEF CloudFlow
  <2>4. CASE p \notin Carried(key)
    <3>1. p \notin Starting(key)
      BY <2>4 DEF Starting
    <3>2. /\ HowMany(Stream', Carried(key)) = HowMany(Stream, Carried(key))
          /\ HowMany(Stream', Starting(key)) = HowMany(Stream, Starting(key))
      BY <1>3, <2>4, <3>1
    <3>3. \A h \in Find("cloud", id)' :
              h \in Find("cloud", id) /\ CloudAlike(session'[h], session[h])
      BY <1>1, <1>2, <2>4, SameFlowAlike DEF Takes
    <3> QED
      BY <2>1, <2>2, <3>2, <3>3, CloudFlowKeeps
  <2> QED
    BY <2>3, <2>4
<1>6. ASSUME NEW id \in ClientIds
      PROVE  ClientFlow(id)'
  <2> DEFINE key == <<"client", id>>
  <2>1. ClientFlow(id) /\ Phase(id)' = Phase(id)
    BY DEF OpenFlow, Phase
  <2>2. \A S : HowMany(Stream, S) \in Nat
    BY StreamTyped, HowManyTyped
  <2>3. CASE p \in Ending(id)
    <3>1. /\ HowMany(Stream, Ending(id)) = 1 /\ HowMany(Stream', Ending(id)) = 0
          /\ Phase(id) \in {"none", "answered"}
      BY <1>3, <2>1, <2>2, <2>3 DEF ClientFlow, Phase
    <3>2. HowMany(Stream', Carried(key)) = 0 /\ HowMany(Stream', Partial(key)) = 0
      <4>1. Carried(key) \subseteq Ending(id) /\ Partial(key) \subseteq Ending(id)
        BY KindsOfPackets
      <4> QED
        BY <3>1, <4>1, NoneOfSubset
    <3>3. ASSUME NEW h \in Find("client", id)'
          PROVE  ClientFlowOf(h, id)'
      <4>1. h \in Find("client", id) /\ h \in Live' /\ h \in Live
        BY <1>1, <1>2
      <4>2. /\ Takes(session'[h], session[h], p)
            /\ session[h].owner = "client" /\ session[h].id = id
        BY <1>2, <4>1
      <4>3. CASE SameFlow(session'[h], session[h]) /\ p \notin Carried(key)
        <5>1. ClientAlike(session'[h], session[h])
          BY <4>2, <4>3, SameFlowAlike
        <5>2. HowMany(Stream, Carried(key)) = 0
          <6>1. HowMany(Stream, Carried(key)) = HowMany(Stream', Carried(key))
            BY <1>3, <4>3
          <6> QED
            BY <3>2, <6>1
        <5>3. /\ session[h].st # "send_ack"
              /\ session[h].st \in Unsent => session[h].request
              /\ Phase(id) = "answered" =>
                    /\ session[h].st # "receive"
                    /\ session[h].st \in Unsent /\ ~session[h].start => SendsStart(h)
          <6>1. ClientFlowOf(h, id)
            BY <2>1, <4>1 DEF ClientFlow
          <6> QED
            BY <5>2, <6>1 DEF ClientFlowOf, Phase
        <5>4. SendsStart(h) => SendsStart(h)'
          BY <4>1, SlotKeptFor
        <5> QED
          BY <2>1, <5>1, <5>3, <5>4 DEF ClientAlike, ClientFlowOf, Phase
      <4>4. CASE ~(SameFlow(session'[h], session[h]) /\ p \notin Carried(key))
        <5>1. session'[h].st \in Lost
          BY <4>2, <4>4 DEF Takes
        <5> QED
          BY <5>1 DEF ClientFlowOf, Unsent, Lost
      <4> QED
        BY <4>3, <4>4
    <3> QED
      BY <2>1, <3>1, <3>2, <3>3 DEF ClientFlow, Phase
  <2>4. CASE p \notin Ending(id)
    <3>1. p \notin Carried(key) /\ p \notin Partial(key)
      BY <2>4, KindsOfPackets
    <3>2. /\ HowMany(Stream', Carried(key)) = HowMany(Stream, Carried(key))
          /\ HowMany(Stream', Partial(key)) = HowMany(Stream, Partial(key))
          /\ HowMany(Stream', Ending(id)) = HowMany(Stream, Ending(id))
      BY <1>3, <2>4, <3>1
    <3>3. \A h \in Find("client", id)' :
              /\ h \in Find("client", id) /\ ClientAlike(session'[h], session[h])
              /\ SendsStart(h) => SendsStart(h)'
      <4> SUFFICES ASSUME NEW h \in Find("client", id)'
                   PROVE  /\ h \in Find("client", id) /\ ClientAlike(session'[h], session[h])
                          /\ SendsStart(h) => SendsStart(h)'
        OBVIOUS
      <4>1. h \in Find("client", id) /\ h \in Live'
        BY <1>1
      <4>2. session[h].owner = "client" /\ session[h].id = id
        BY <1>2, <4>1
      <4>3. SameFlow(session'[h], session[h])
        BY <2>4, <4>1, <4>2 DEF Takes
      <4> QED
        BY <4>1, <4>2, <4>3, SameFlowAlike, SlotKeptFor
    <3>4. \A h \in Find("client", id) : Started(session[h]) => h \in Find("client", id)'
      BY <1>1, <1>2, <2>4 DEF Started, Unsent, Lost
    <3> QED
      BY <2>1, <3>2, <3>3, <3>4, ClientFlowKeeps
  <2> QED
    BY <2>3, <2>4
<1>7. SlotFlow'
  <2>1. \A h \in Live \cap Live' :
           session[h].st = "wait_send_complete" => SameFlow(session'[h], session[h])
    BY DEF Takes
  <2>2. ASSUME NEW id \in ClientIds, HowMany(Stream, Ending(id)) = 0
        PROVE  HowMany(Stream', Ending(id)) = 0
    BY <1>3, <2>2
  <2> QED
    BY <1>4, <2>1, <2>2, SlotFlowKeeps DEF OpenFlow, PhasesKept
<1> QED
  BY <1>5, <1>6, <1>7 DEF OpenFlow

-----------------------------------------------------------------------------
\* A handler that asks for more time changes nothing that matters; otherwise
\* the packet leaves the stream.
Retained == result' \in {"pending", "active"}

Handled(p) ==
    /\ SlotKept
    /\ \A h \in Live' : h \in Live /\ IF Retained THEN SameFlow(session'[h], session[h])
                                      ELSE Takes(session'[h], session[h], p)
    /\ \A h \in Live : h \notin Live' =>
          ~Retained /\ (session[h].owner = "client" => p \in Ending(session[h].id))

LEMMA FlowHandled ==
    ASSUME TypeInv, TypeInv', OpenFlow, NEW p \in Packets, NEW rest \in Seq(Packets),
           Stream = <<p>> \o rest, Stream' = IF Retained THEN Stream ELSE rest,
           conv' = conv, Handled(p)
    PROVE  OpenFlow'
<1>1. PhasesKept
  BY SameConversations
<1>2. CASE Retained
  BY <1>1, <1>2, FlowStays DEF Handled
<1>3. CASE ~Retained
  BY <1>3, FlowTakes DEF Handled
<1> QED
  BY <1>2, <1>3

\* A packet for nobody.
LEMMA NobodyHandled ==
    ASSUME NEW p \in Packets, session' = session, SlotKept,
           p.op \in {"start", "data"} => Find(p.owner, p.id) = {}
    PROVE  Handled(p)
<1>1. Live' = Live
  BY DEF Live
<1>2. ASSUME NEW h \in Live
      PROVE  p \notin Carried(<<session[h].owner, session[h].id>>)
  BY <1>2, CarriedPackets DEF Find
<1>3. ASSUME NEW h \in Live
      PROVE  SameFlow(session'[h], session[h]) /\ Takes(session'[h], session[h], p)
  BY <1>2, SameFlowItself DEF Takes, SameFlow
<1> QED
  BY <1>1, <1>3 DEF Handled

\* An error that is sent for nobody.
LEMMA RefusalKeepsSlot ==
    ASSUME NEW p, IF BufferFree THEN ErrorForNobody(p) ELSE UNCHANGED sendVars
    PROVE  SlotKept
<1>1. CASE BufferFree
  <2> DEFINE e == [op |-> "error", request |-> p.owner = "cloud", sender |-> FALSE, id |-> p.id]
  <2>1. slot' = ControlSlot(e) /\ e.op = "error"
    BY <1>1 DEF ErrorForNobody
  <2> HIDE DEF e
  <2>2. slot'.kind = "control" /\ slot'.packet = e
    BY <2>1 DEF ControlSlot
  <2> QED
    BY <1>1, <2>1, <2>2 DEF SlotKept, BufferFree
<1>2. CASE ~BufferFree
  BY <1>2 DEF SlotKept, sendVars
<1> QED
  BY <1>1, <1>2

\* An acknowledgement changes no session in what matters.
LEMMA AckHandled ==
    ASSUME TypeInv, NEW p \in Packets, ProcessAck(p)
    PROVE  Handled(p)
<1>1. /\ slot' = slot /\ p.op = "ack"
      /\ session' = [h \in Handles |->
              IF h \in Find(p.owner, p.id) /\ ~Receiving(session[h])
              THEN [session[h] EXCEPT !.acked = p.count, !.ackPending = FALSE]
              ELSE session[h]]
  BY DEF ProcessAck, sendVars
<1>2. ASSUME NEW h \in Handles
      PROVE  /\ h \in Live => SameFlow(session'[h], session[h]) /\ session'[h] # Free
             /\ h \notin Live => session'[h] = Free
  <2>1. CASE h \in Live
    <3> DEFINE s == session[h]
               a == [s EXCEPT !.acked = p.count, !.ackPending = FALSE]
    <3>1. s \in Session /\ s # Free
      BY <2>1, RequestTyped DEF Proper, Live
    <3> HIDE DEF s
    <3>2. SameFlow(a, s) /\ SameFlow(s, s)
      BY <3>1 DEF SameFlow, SameKey, Session
    <3>3. a # Free
      BY <3>1 DEF Free, Session
    <3>4. session'[h] = a \/ session'[h] = s
      BY <1>1 DEF s
    <3> QED
      BY <2>1, <3>1, <3>2, <3>3, <3>4 DEF s
  <2>2. CASE h \notin Live
    <3>1. h \notin Find(p.owner, p.id)
      BY <2>2 DEF Find
    <3> QED
      BY <1>1, <2>2, <3>1 DEF Live
  <2> QED
    BY <2>1, <2>2
<1>3. Live' = Live /\ \A h \in Live : SameFlow(session'[h], session[h])
  <2>1. Live' = {h \in Handles : session'[h] # Free} /\ Live \subseteq Handles
    BY DEF Live
  <2> QED
    BY <1>2, <2>1
<1>4. \A h \in Live : p \notin Carried(<<session[h].owner, session[h].id>>)
  BY <1>1, CarriedPackets
<1>5. \A h \in Live : Takes(session'[h], session[h], p)
  BY <1>3, <1>4 DEF Takes, SameFlow
<1> QED
  BY <1>1, <1>3, <1>5 DEF Handled, SlotKept

\* The service takes a packet of a device request, or asks for time.
LEMMA DevicePasses ==
    ASSUME ConstantsAssumption, NEW s \in Proper, s.owner = "cloud", NEW p \in DataPacket,
           p \in Carried(<<s.owner, s.id>>), NEW answer \in PassAnswers(s)
    PROVE  LET done == Pass(s, p, answer)
           IN  IF done.status \in {"pending", "active"} THEN SameFlow(done.s, s)
               ELSE Takes(done.s, s, p)
<1> DEFINE done == Pass(s, p, answer)
<1>1. s \in Session /\ p.last \in BOOLEAN
  BY DEF Proper, DataPacket
<1>2. SameKey(done.s, s)
  BY <1>1, PassKeeps DEF Becomes
<1>3. CASE s.st # "receive"
  <2>1. done = [s |-> s, status |-> IF s.st \in {"send_error", "delete"}
                                    THEN "working" ELSE "active"]
    BY <1>3 DEF Pass
  <2> HIDE DEF done
  <2>2. done.s = s /\ (done.status = "active" \/ s.st \in Lost)
    BY <2>1 DEF Lost
  <2>3. SameFlow(done.s, s)
    BY <2>2, SameFlowItself
  <2> QED
    BY <1>2, <2>2, <2>3 DEF Takes, done
<1>4. CASE s.st = "receive"
  <2>1. done = PassDeviceRequest(s, p, answer)
    BY <1>4 DEF Pass
  <2> HIDE DEF done
  <2>2. CASE s.rt = "none" /\ answer = "no_memory"
    <3>1. done = [s |-> [s EXCEPT !.last = p.last], status |-> "pending"]
      BY <2>1, <2>2 DEF PassDeviceRequest
    <3>2. done.status = "pending" /\ done.s = [s EXCEPT !.last = p.last]
      BY <3>1
    <3>3. SameFlow([s EXCEPT !.last = p.last], s)
      BY <1>1, <1>4 DEF SameFlow, SameKey, Session, Unsent
    <3> QED
      BY <3>2, <3>3 DEF done
  <2>3. CASE ~(s.rt = "none" /\ answer = "no_memory")
    <3> DEFINE rt == IF s.rt = "none" THEN "target" ELSE s.rt
               d  == DeviceRequest(rt, p.last, answer)
               s1 == [s EXCEPT !.rt = d.rt, !.last = p.last]
    <3>1. done = [s |-> IF d.status = "working" THEN Taken(s1, p.last) ELSE s1,
                  status |-> d.status]
      BY <2>1, <2>3 DEF PassDeviceRequest
    <3>2. d.status \in {"pending", "working"}
      BY DEF DeviceRequest
    <3> HIDE DEF d, rt
    <3>3. /\ s1.st = "receive" /\ s1.request = s.request /\ s1.total = s.total
          /\ s1.owner = "cloud" /\ s1.id = s.id /\ s1.req = s.req
      BY <1>1, <1>4 DEF Session
    <3> HIDE DEF s1
    <3>4. CASE d.status = "pending"
      <4>1. done.s = s1 /\ done.status = "pending"
        BY <3>1, <3>4
      <4>2. SameFlow(s1, s)
        BY <1>4, <3>3 DEF SameFlow, SameKey, Unsent
      <4> QED
        BY <4>1, <4>2 DEF done
    <3>5. CASE d.status = "working"
      <4> DEFINE t == Taken(s1, p.last)
      <4>1. done.s = t /\ done.status = "working"
        BY <3>1, <3>5
      <4>2. t.request => s.request /\ t.st \notin Unsent \cup Lost /\ t.total = s.total + 1
        <5>1. CASE ~p.last
          <6>1. PICK st \in {"send_ack", "receive"} :
                   t = [[s1 EXCEPT !.start = FALSE, !.last = p.last] EXCEPT
                           !.total = s1.total + 1, !.st = st]
            BY <5>1, Zenon DEF Taken
          <6>2. /\ t.request = s1.request /\ t.total = s1.total + 1
                /\ t.st \in {"send_ack", "receive"}
            BY <1>1, <6>1 DEF s1, Session
          <6> QED
            BY <3>3, <6>2 DEF Unsent, Lost
        <5>2. CASE p.last /\ s1.request
          <6>1. t = FreshBlock([s1 EXCEPT !.start = FALSE, !.last = p.last], FALSE, "get_data")
            BY <1>1, <5>2 DEF Taken, s1, Session
          <6>2. t.request = FALSE
            BY <1>1, <6>1 DEF FreshBlock, s1, Session
          <6> QED
            BY <6>2
        <5>3. CASE p.last /\ ~s1.request
          <6>1. t = [[s1 EXCEPT !.start = FALSE, !.last = p.last] EXCEPT !.st = "delete"]
            BY <1>1, <5>3 DEF Taken, s1, Session
          <6>2. t.request = s1.request
            BY <1>1, <6>1 DEF s1, Session
          <6> QED
            BY <5>3, <6>2
        <5> QED
          BY <1>1, <5>1, <5>2, <5>3
      <4> HIDE DEF t
      <4>3. Takes(t, s, p)
        BY <1>2, <1>4, <4>1, <4>2 DEF Takes
      <4> QED
        BY <4>1, <4>3 DEF done
    <3> QED
      BY <3>2, <3>4, <3>5
  <2> QED
    BY <2>2, <2>3
<1> QED
  BY <1>3, <1>4

\* A packet of a device request.
LEMMA DeviceDataHandled ==
    ASSUME ConstantsAssumption, TypeInv, NEW p \in Packets, p.owner = "cloud",
           PassToSession(p)
    PROVE  Handled(p)
<1>0. PICK h \in Find(p.owner, p.id) : \E answer \in PassAnswers(session[h]) :
         LET done == Pass(session[h], p, answer)
         IN  /\ session' = [session EXCEPT ![h] = done.s]
             /\ result' = done.status
  BY DEF PassToSession
<1>1. PICK answer \in PassAnswers(session[h]) :
         LET done == Pass(session[h], p, answer)
         IN  /\ session' = [session EXCEPT ![h] = done.s]
             /\ result' = done.status
  BY <1>0
<1>2. /\ h \in Live /\ session[h].owner = "cloud" /\ session[h].id = p.id
      /\ session[h] \in Proper
  BY <1>0, RequestTyped DEF Find
<1>3. p \in DataPacket /\ p.last \in BOOLEAN /\ slot' = slot
  BY CarriedPackets DEF PassToSession, sendVars
<1>4. p \in Carried(<<session[h].owner, session[h].id>>)
  BY <1>2, CarriedPackets DEF PassToSession
<1> DEFINE done == Pass(session[h], p, answer)
<1>5. Becomes(done.s, session[h])
  BY <1>1, <1>2, <1>3, PassKeeps
<1>6. IF done.status \in {"pending", "active"} THEN SameFlow(done.s, session[h])
      ELSE Takes(done.s, session[h], p)
  BY <1>2, <1>3, <1>4, DevicePasses
<1>7. session' = [session EXCEPT ![h] = done.s] /\ result' = done.status
  BY <1>1
<1> HIDE DEF done
<1>8. Live' = Live /\ session'[h] = done.s /\ \A g \in Live \ {h} : session'[g] = session[g]
  BY <1>2, <1>5, <1>7, OneChanged
<1>9. ASSUME NEW g \in Live \ {h}
      PROVE  p \notin Carried(<<session[g].owner, session[g].id>>)
  BY <1>2, <1>9, CarriedPackets, OnlyOne
<1>10. ASSUME NEW g \in Live
       PROVE  IF Retained THEN SameFlow(session'[g], session[g])
              ELSE Takes(session'[g], session[g], p)
  <2>1. CASE g = h
    BY <1>6, <1>7, <1>8, <2>1 DEF Retained
  <2>2. CASE g # h
    BY <1>8, <1>9, <2>2, SameFlowItself DEF Takes, SameFlow
  <2> QED
    BY <2>1, <2>2
<1> QED
  BY <1>3, <1>8, <1>10 DEF Handled, SlotKept

\* The response to a put request.
LEMMA ResponseHandled ==
    ASSUME ConstantsAssumption, TypeInv, OpenFlow, NEW p \in Packets, Keyed(p),
           NEW rest \in Seq(Packets), Stream = <<p>> \o rest,
           p.owner = "client", PassToSession(p)
    PROVE  Handled(p)
<1>1. p.op \in {"start", "data"} /\ slot' = slot
  BY DEF PassToSession, sendVars
<1>2. PICK r \in ClientIds : r = p.id
  BY <1>1 DEF Keyed, Keys, ClientIds
<1> DEFINE key == <<"client", r>>
<1>3. p \in Carried(key) /\ p \in Ending(r)
  BY <1>1, <1>2, CarriedPackets, KindsOfPackets
<1>4. \A S : p \in S => HowMany(Stream, S) # 0
  <2>1. \A S : HowMany(Stream, S) = HowMany(rest, S) + (IF p \in S THEN 1 ELSE 0)
    BY AtTheHead
  <2>2. \A S : HowMany(rest, S) \in Nat
    BY HowManyTyped
  <2> QED
    BY <2>1, <2>2
<1>5. p.op = "start" /\ Final(p)
  <2>1. p \notin Partial(key)
    BY <1>4 DEF OpenFlow, ClientFlow
  <2> QED
    BY <1>3, <2>1 DEF Partial, Final
<1>6. PICK h \in Find(p.owner, p.id) :
         LET s == IF session[h].st # "send_error"
                  THEN FreshBlock(session[h], FALSE, "receive")
                  ELSE session[h]
         IN  \E answer \in PassAnswers(s) :
                LET done == Pass(s, p, answer)
                IN  /\ session' = [session EXCEPT ![h] = done.s]
                    /\ result' = done.status
  BY <1>5 DEF PassToSession
<1>7. h \in Live /\ session[h].owner = "client" /\ session[h].id = r /\ session[h] \in Proper
  BY <1>2, <1>6, RequestTyped DEF Find
<1>8. session[h].st = "receive"
  <2>1. PICK g \in Find("client", r) : session[g].st = "receive"
    BY <1>3, <1>4 DEF OpenFlow, ClientFlow
  <2> QED
    BY <1>7, <2>1, OnlyOne DEF Find
<1> DEFINE f == FreshBlock(session[h], FALSE, "receive")
<1>9. Becomes(f, session[h])
  BY <1>7, FreshBlockKeeps
<1>10. Responding(f) /\ f.owner = "client"
  BY <1>7, <1>9 DEF FreshBlock, Proper, Session, Becomes, Responding
<1>11. PICK answer \in TakeAnswers :
         /\ session' = [session EXCEPT ![h] = Pass(f, p, answer).s]
         /\ result' = Pass(f, p, answer).status
  BY <1>6, <1>8, <1>10 DEF PassAnswers
<1> DEFINE done == Pass(f, p, answer)
           s == done.s
<1> HIDE DEF f, done
<1>12. /\ Becomes(s, session[h])
       /\ \/ s.st = "receive" /\ Retained
          \/ s.st \in Lost /\ ~Retained
  <2>1. Responded(Pass(f, p, answer), f)
    BY <1>5, <1>10, ResponsePasses
  <2>2. Responded(done, f) /\ result' = done.status
    BY <1>11, <2>1 DEF done
  <2>3. Becomes(s, session[h])
    BY <1>9, <2>2 DEF Responded, Becomes, SameKey
  <2> QED
    BY <2>2, <2>3 DEF Responded, Retained, Lost
<1>13. session' = [session EXCEPT ![h] = s]
  BY <1>11 DEF done
<1> HIDE DEF s
<1>14. Live' = Live /\ session'[h] = s /\ \A g \in Live \ {h} : session'[g] = session[g]
  BY <1>7, <1>12, <1>13, OneChanged
<1>15. ASSUME NEW g \in Live \ {h}
       PROVE  p \notin Carried(<<session[g].owner, session[g].id>>)
  BY <1>2, <1>7, <1>15, CarriedPackets, OnlyOne
<1>16. ASSUME NEW g \in Live
       PROVE  IF Retained THEN SameFlow(session'[g], session[g])
              ELSE Takes(session'[g], session[g], p)
  <2>1. CASE g = h
    BY <1>3, <1>7, <1>8, <1>12, <1>14, <2>1 DEF SameFlow, Takes, Becomes, Unsent
  <2>2. CASE g # h
    BY <1>14, <1>15, <2>2, SameFlowItself DEF Takes, SameFlow
  <2> QED
    BY <2>1, <2>2
<1> QED
  BY <1>1, <1>14, <1>16 DEF Handled, SlotKept

\* An error of Device Cloud.
LEMMA ErrorHandled ==
    ASSUME ConstantsAssumption, TypeInv, NEW p \in Packets, ProcessError(p)
    PROVE  Handled(p)
<1>1. p.op = "error"
  BY DEF ProcessError
<1>2. PICK h \in ErrorKnown(p), answer \in StatusAnswers :
          LET s == session[h]
              s1 == Informed(s, "error", answer)
              t  == Tell(told, s.req, "error", answer)
          IN  IF s.rt = "none"
              THEN /\ fault' = "null_context"
                   /\ UNCHANGED <<listVars, told, sendVars, result>>
              ELSE IF answer = "busy"
              THEN /\ session' = [session EXCEPT ![h] = s1]
                   /\ told' = t
                   /\ result' = "pending"
                   /\ UNCHANGED <<list, current, active, sendVars, fault>>
              ELSE /\ DeleteSession(h, s1, t, current)
                   /\ slot' = Dangling(h)
                   /\ result' = "working"
                   /\ UNCHANGED bufInUse
  BY DEF ProcessError
<1>3. /\ h \in Live /\ session[h] \in Proper
      /\ session[h].owner = ErrorOwnerReceived(p) /\ session[h].id = p.id
  BY <1>2, RequestTyped DEF ErrorKnown, Find
<1>4. \A g \in Live : p \notin Carried(<<session[g].owner, session[g].id>>)
  BY <1>1, CarriedPackets
<1>5. ASSUME NEW g \in Live, session'[g] = session[g]
      PROVE  SameFlow(session'[g], session[g]) /\ Takes(session'[g], session[g], p)
  BY <1>4, <1>5, SameFlowItself DEF Takes, SameFlow
<1>6. CASE session[h].rt = "none"
  BY <1>1, <1>2, <1>6, NobodyHandled DEF listVars, sendVars, SlotKept
<1>7. CASE session[h].rt # "none" /\ answer = "busy"
  <2> DEFINE s == [session[h] EXCEPT !.rt = "status", !.reason = "error"]
  <2>1. Informed(session[h], "error", answer) = s
    BY <1>7 DEF Informed
  <2>2. session' = [session EXCEPT ![h] = s] /\ result' = "pending" /\ slot' = slot
    BY <1>2, <1>7, <2>1 DEF sendVars
  <2>3. Becomes(s, session[h]) /\ SameFlow(s, session[h])
    BY <1>3 DEF Becomes, Proper, Session, RequestTypes, SameFlow, SameKey
  <2> HIDE DEF s
  <2>4. Live' = Live /\ session'[h] = s /\ \A g \in Live \ {h} : session'[g] = session[g]
    BY <1>3, <2>2, <2>3, OneChanged
  <2> QED
    BY <1>5, <2>2, <2>3, <2>4 DEF Handled, SlotKept, Retained
<1>8. CASE session[h].rt # "none" /\ answer # "busy"
  <2>1. session' = [session EXCEPT ![h] = Free] /\ slot' = Dangling(h) /\ result' = "working"
    BY <1>2, <1>8 DEF DeleteSession
  <2>2. Live' = Live \ {h} /\ \A g \in Live \ {h} : session'[g] = session[g]
    BY <1>3, <2>1, OneFreed
  <2>3. session[h].owner = "client" => p \in Ending(session[h].id)
    <3> SUFFICES ASSUME session[h].owner = "client"
                 PROVE  p \in Ending(session[h].id)
      OBVIOUS
    <3>1. PICK id : id = session[h].id
      OBVIOUS
    <3>2. ErrorOwnerReceived(p) = "client" /\ p.id = id
      BY <1>3, <3>1
    <3>3. p \in Ending(id)
      BY <1>1, <3>2, EndingPackets
    <3> QED
      BY <3>1, <3>3
  <2>4. SlotKept /\ ~Retained
    BY <2>1, <2>2 DEF SlotKept, Retained
  <2>5. \A g \in Live' : g \in Live /\ Takes(session'[g], session[g], p)
    BY <1>5, <2>2
  <2>6. \A g \in Live : g \notin Live' =>
           (session[g].owner = "client" => p \in Ending(session[g].id))
    BY <2>2, <2>3
  <2> QED
    BY <2>4, <2>5, <2>6 DEF Handled
<1> QED
  BY <1>6, <1>7, <1>8

-----------------------------------------------------------------------------
\* A step that adds a session and takes at most packets of its message keeps
\* the flow of the others.
LEMMA FlowAdds ==
    ASSUME TypeInv, TypeInv', OpenFlow, NEW h \in Handles \ Live, NEW s \in Proper,
           session' = [session EXCEPT ![h] = s], slot' = slot, conv' = conv,
           \A T : T \cap Carried(<<s.owner, s.id>>) = {} =>
                      HowMany(Stream', T) = HowMany(Stream, T),
           \A T : HowMany(Stream, T) = 0 => HowMany(Stream', T) = 0,
           \A S, T : NoneBefore(Stream, S, T) => NoneBefore(Stream', S, T),
           s.owner = "cloud" => \A id \in CloudIds : id = s.id => CloudFlow(id)',
           s.owner = "client" => \A id \in ClientIds : id = s.id => ClientFlow(id)'
    PROVE  OpenFlow'
<1>1. Live' = Live \cup {h} /\ session'[h] = s /\ \A g \in Live : g # h /\ session'[g] = session[g]
  BY OneAdded
<1>2. ASSUME NEW owner, NEW id, ~(s.owner = owner /\ s.id = id)
      PROVE  /\ Find(owner, id)' = Find(owner, id)
             /\ \A g \in Find(owner, id) : g \in Live /\ session'[g] = session[g]
             /\ Carried(<<owner, id>>) \cap Carried(<<s.owner, s.id>>) = {}
  <2>1. Find(owner, id)' = Find(owner, id)
    BY <1>1, <1>2 DEF Find
  <2>2. \A g \in Find(owner, id) : g \in Live /\ session'[g] = session[g]
    BY <1>1 DEF Find
  <2>3. Carried(<<owner, id>>) \cap Carried(<<s.owner, s.id>>) = {}
    BY <1>2 DEF Carried
  <2> QED
    BY <2>1, <2>2, <2>3
<1>3. PhasesKept
  BY SameConversations
<1>4. ASSUME NEW id \in CloudIds
      PROVE  CloudFlow(id)'
  <2>1. CASE s.owner = "cloud" /\ s.id = id
    BY <2>1
  <2>2. CASE ~(s.owner = "cloud" /\ s.id = id)
    <3> DEFINE key == <<"cloud", id>>
    <3>1. CloudFlow(id) /\ CloudPhaseKept(id)
      BY <1>3 DEF OpenFlow, PhasesKept
    <3>2. Starting(key) \subseteq Carried(key)
      BY KindsOfPackets
    <3>3. /\ Carried(key) \cap Carried(<<s.owner, s.id>>) = {}
          /\ Starting(key) \cap Carried(<<s.owner, s.id>>) = {}
      BY <1>2, <2>2, <3>2
    <3>4. /\ HowMany(Stream', Carried(key)) = HowMany(Stream, Carried(key))
          /\ HowMany(Stream', Starting(key)) = HowMany(Stream, Starting(key))
      BY <3>3
    <3>5. NoneBefore(Stream', Carried(key), Starting(key))
      BY <3>1 DEF CloudFlow
    <3>6. \A g \in Find("cloud", id)' :
             g \in Find("cloud", id) /\ CloudAlike(session'[g], session[g])
      <4>1. /\ Find("cloud", id)' = Find("cloud", id)
            /\ \A g \in Find("cloud", id) : session'[g] = session[g]
        BY <1>2, <2>2
      <4> QED
        BY <4>1 DEF CloudAlike
    <3> QED
      BY <3>1, <3>4, <3>5, <3>6, CloudFlowKeeps
  <2> QED
    BY <2>1, <2>2
<1>5. ASSUME NEW id \in ClientIds
      PROVE  ClientFlow(id)'
  <2>1. CASE s.owner = "client" /\ s.id = id
    BY <2>1
  <2>2. CASE ~(s.owner = "client" /\ s.id = id)
    <3> DEFINE key == <<"client", id>>
    <3>1. ClientFlow(id) /\ Phase(id)' \in {Phase(id), "none"}
      BY <1>3 DEF OpenFlow, PhasesKept
    <3>2. Partial(key) \subseteq Carried(key)
      BY KindsOfPackets
    <3>3. Carried(key) \cap Carried(<<s.owner, s.id>>) = {}
      BY <1>2, <2>2
    <3>4. {p \in ErrorPacket : ErrorOwnerReceived(p) = "client" /\ p.id = id}
             \cap Carried(<<s.owner, s.id>>) = {}
      BY DEF Carried, ErrorPacket, DataPacket
    <3>5. Ending(id) \cap Carried(<<s.owner, s.id>>) = {}
      BY <3>3, <3>4 DEF Ending
    <3>6. Partial(key) \cap Carried(<<s.owner, s.id>>) = {}
      BY <3>2, <3>3
    <3>7. /\ HowMany(Stream', Carried(key)) = HowMany(Stream, Carried(key))
          /\ HowMany(Stream', Partial(key)) = HowMany(Stream, Partial(key))
          /\ HowMany(Stream', Ending(id)) = HowMany(Stream, Ending(id))
      BY <3>3, <3>5, <3>6
    <3>8. \A g \in Find("client", id)' :
             /\ g \in Find("client", id) /\ ClientAlike(session'[g], session[g])
             /\ SendsStart(g) => SendsStart(g)'
      <4>1. /\ Find("client", id)' = Find("client", id)
            /\ \A g \in Find("client", id) : session'[g] = session[g]
        BY <1>2, <2>2
      <4>2. \A g : SendsStart(g)' <=> SendsStart(g)
        BY DEF SendsStart
      <4> QED
        BY <4>1, <4>2 DEF ClientAlike
    <3>9. \A g \in Find("client", id) : Started(session[g]) => g \in Find("client", id)'
      BY <1>2, <2>2
    <3> QED
      BY <3>1, <3>7, <3>8, <3>9, ClientFlowKeeps
  <2> QED
    BY <2>1, <2>2
<1>6. SlotFlow'
  <2>1. \A g \in Live \cap Live' : SameFlow(session'[g], session[g])
    BY <1>1, SameFlowItself
  <2>2. SlotKept
    BY DEF SlotKept
  <2> QED
    BY <1>3, <2>1, <2>2, SlotFlowKeeps DEF OpenFlow, PhasesKept
<1> QED
  BY <1>4, <1>5, <1>6 DEF OpenFlow

\* A new device request: nothing of its message was taken before.
LEMMA DeviceRequestFlows ==
    ASSUME ConstantsAssumption, TypeInv, TypeInv', OpenFlow, NEW p \in Packets, Keyed(p),
           NEW rest \in Seq(Packets), Stream = <<p>> \o rest,
           Stream' = IF Retained THEN Stream ELSE rest,
           conv' = conv, StartDeviceRequest(p)
    PROVE  OpenFlow'
<1>1. /\ p.op = "start" /\ p.owner = "cloud" /\ Find("cloud", p.id) = {}
      /\ HasMemory /\ slot' = slot
  BY DEF StartDeviceRequest, sendVars
<1>2. p \in DataPacket /\ p.last \in BOOLEAN
  BY <1>1, CarriedPackets
<1>3. PICK id \in CloudIds : id = p.id
  BY <1>1 DEF Keyed, Keys
<1> DEFINE key == <<"cloud", id>>
           new == NewSession("cloud", id, id, "receive", "none")
<1>4. id \in Nat
  BY DEF ConstantsAssumption
<1>5. new \in Proper
  BY <1>4, NewSessionTyped DEF Owners, Talks, States, RequestTypes
<1>6. /\ new.owner = "cloud" /\ new.id = id /\ new.request = TRUE /\ new.total = 0
      /\ new.st = "receive"
  BY DEF NewSession
<1>7. PICK answer \in PassAnswers(new) :
         AddSession(NewHandle, Pass(new, p, answer).s) /\ result' = Pass(new, p, answer).status
  BY <1>3 DEF StartDeviceRequest
<1> DEFINE done == Pass(new, p, answer)
           s    == done.s
           h    == NewHandle
<1> HIDE DEF new
<1>8. p \in Carried(<<new.owner, new.id>>) /\ p \in Carried(key) /\ p \in Starting(key)
  BY <1>1, <1>2, <1>3, <1>6, CarriedPackets DEF Starting
<1>9. Becomes(s, new)
  BY <1>2, <1>5, <1>7, PassKeeps
<1>10. IF Retained THEN SameFlow(s, new) ELSE Takes(s, new, p)
  <2>1. IF done.status \in {"pending", "active"} THEN SameFlow(s, new) ELSE Takes(s, new, p)
    BY <1>2, <1>5, <1>6, <1>8, DevicePasses
  <2> QED
    BY <1>7, <2>1 DEF Retained
<1>11. session' = [session EXCEPT ![h] = s]
  BY <1>7 DEF AddSession
<1> HIDE DEF s, done
<1>12. s \in Proper /\ s.owner = "cloud" /\ s.id = id
  BY <1>6, <1>9 DEF Becomes, SameKey
<1>13. h \in Handles \ Live
  BY <1>1, NewHandleFree
<1> HIDE DEF h
<1>14. /\ \A S : HowMany(Stream, S) = HowMany(rest, S) + (IF p \in S THEN 1 ELSE 0)
       /\ \A S : HowMany(rest, S) \in Nat
       /\ \A S, T : NoneBefore(Stream, S, T) => /\ NoneBefore(rest, S, T)
                                                /\ p \in S => HowMany(rest, T) = 0
  <2>1. \A S : HowMany(rest, S) \in Nat
    BY HowManyTyped
  <2>2. /\ \A S : HowMany(<<p>> \o rest, S)
                   = HowMany(rest, S) + (IF p \in S THEN 1 ELSE 0)
        /\ \A S, T : NoneBefore(<<p>> \o rest, S, T) => /\ NoneBefore(rest, S, T)
                                                        /\ p \in S => HowMany(rest, T) = 0
    BY AtTheHead
  <2> QED
    BY <2>1, <2>2
<1>15. /\ \A T : T \cap Carried(key) = {} => HowMany(Stream', T) = HowMany(Stream, T)
       /\ \A T : HowMany(Stream, T) = 0 => HowMany(Stream', T) = 0
       /\ \A S, T : NoneBefore(Stream, S, T) => NoneBefore(Stream', S, T)
  <2>1. CASE Retained
    BY <2>1
  <2>2. CASE ~Retained
    <3>1. ASSUME NEW T, T \cap Carried(key) = {}
          PROVE  HowMany(rest, T) = HowMany(Stream, T)
      <4>1. p \notin T
        BY <1>8, <3>1
      <4> QED
        BY <1>14, <4>1
    <3>2. ASSUME NEW T, HowMany(Stream, T) = 0
          PROVE  HowMany(rest, T) = 0
      BY <1>14, <3>2
    <3> QED
      BY <1>14, <2>2, <3>1, <3>2
  <2> QED
    BY <2>1, <2>2
<1>16. CloudFlow(id)
  BY DEF OpenFlow
<1>17. HowMany(Stream, Starting(key)) # 0
  <2>1. HowMany(Stream, Starting(key)) = HowMany(rest, Starting(key)) + 1
    BY <1>8, <1>14
  <2>2. HowMany(rest, Starting(key)) \in Nat
    BY <1>14
  <2> QED
    BY <2>1, <2>2
<1>18. /\ conv[key].phase \notin {"replying", "answered"}
       /\ NoneBefore(Stream, Carried(key), Starting(key))
       /\ Coming(key) => conv[key].count = HowMany(Stream, Carried(key))
  BY <1>16, <1>17 DEF CloudFlow
<1>19. Find("cloud", id)' = {h} /\ session'[h] = s
  <2>1. Live' = Live \cup {h} /\ session'[h] = s
        /\ \A g \in Live : g # h /\ session'[g] = session[g]
    BY <1>11, <1>12, <1>13, OneAdded
  <2>2. \A g \in Live : ~(session[g].owner = "cloud" /\ session[g].id = id)
    BY <1>1, <1>3 DEF Find
  <2>3. \A g \in Live' : session'[g].owner = "cloud" /\ session'[g].id = id <=> g = h
    BY <1>12, <2>1, <2>2
  <2> QED
    BY <2>1, <2>3 DEF Find
<1>20. Coming(key)' = Coming(key)
  BY DEF Coming
<1>21. CASE Retained
  <2>1. s.request = TRUE /\ s.total = 0 /\ s.st = "receive"
    BY <1>6, <1>10, <1>21 DEF SameFlow
  <2>2. HowMany(Stream, Carried(key)) \in Nat
    BY <1>14, StreamTyped, HowManyTyped
  <2>3. Coming(key) => conv[key].count = 0 + HowMany(Stream, Carried(key))
    BY <1>18, <2>2
  <2>4. s.st \notin Unsent
    BY <2>1 DEF Unsent
  <2>5. Stream' = Stream
    BY <1>21
  <2>6. CloudFlow(id)'
    BY <1>18, <1>19, <1>20, <2>1, <2>3, <2>4, <2>5 DEF CloudFlow
  <2> QED
    BY <1>1, <1>11, <1>12, <1>13, <1>15, <2>6, FlowAdds
<1>22. CASE ~Retained
  <2>1. /\ s.request => s.st \notin Unsent \cup Lost /\ s.total = 1
    BY <1>6, <1>8, <1>10, <1>22 DEF Takes, Lost, SameFlow
  <2>2. HowMany(rest, Starting(key)) = 0 /\ NoneBefore(rest, Carried(key), Starting(key))
    <3>1. NoneBefore(Stream, Carried(key), Starting(key)) /\ p \in Carried(key)
      BY <1>8, <1>18
    <3>2. \A S, T : NoneBefore(Stream, S, T) =>
              NoneBefore(rest, S, T) /\ (p \in S => HowMany(rest, T) = 0)
      BY <1>14
    <3> QED
      BY Zenon, <3>1, <3>2
  <2>3. HowMany(Stream, Carried(key)) = 1 + HowMany(rest, Carried(key))
    <3>1. p \in Carried(key)
      BY <1>8
    <3>2. /\ HowMany(Stream, Carried(key))
                = HowMany(rest, Carried(key)) + (IF p \in Carried(key) THEN 1 ELSE 0)
          /\ HowMany(rest, Carried(key)) \in Nat
      BY <1>14
    <3> QED
      BY <3>1, <3>2
  <2>4. CloudFlow(id)'
    BY <1>18, <1>19, <1>20, <1>22, <2>1, <2>2, <2>3 DEF CloudFlow
  <2> QED
    BY <1>1, <1>11, <1>12, <1>13, <1>15, <2>4, FlowAdds
<1> QED
  BY <1>21, <1>22

\* What any packet does.
LEMMA ProcessFlows ==
    ASSUME ConstantsAssumption, TypeInv, TypeInv', OpenFlow, NEW p \in Packets, Keyed(p),
           NEW rest \in Seq(Packets), Stream = <<p>> \o rest,
           Stream' = IF Retained THEN Stream ELSE rest,
           conv' = conv, Process(p)
    PROVE  OpenFlow'
<1>1. CASE StartDeviceRequest(p)
  BY <1>1, DeviceRequestFlows
<1>2. CASE RefuseDeviceRequest(p) \/ StartUnknown(p) \/ DataUnknown(p)
  <2>1. /\ session' = session /\ Find(p.owner, p.id) = {}
        /\ IF BufferFree THEN ErrorForNobody(p) ELSE UNCHANGED sendVars
    BY <1>2 DEF RefuseDeviceRequest, StartUnknown, DataUnknown, listVars
  <2>2. SlotKept
    BY <2>1, RefusalKeepsSlot
  <2>3. Handled(p)
    BY <2>1, <2>2, NobodyHandled
  <2> QED
    BY <2>3, FlowHandled
<1>3. CASE ErrorUnknown(p)
  <2>1. session' = session /\ slot' = slot /\ p.op = "error"
    BY <1>3 DEF ErrorUnknown, listVars, sendVars
  <2>2. Handled(p)
    BY <2>1, NobodyHandled DEF SlotKept
  <2> QED
    BY <2>2, FlowHandled
<1>4. CASE ProcessAck(p)
  BY <1>4, AckHandled, FlowHandled
<1>5. CASE ProcessError(p)
  BY <1>5, ErrorHandled, FlowHandled
<1>6. CASE PassToSession(p)
  <2>1. p.owner \in {"client", "cloud"}
    BY <1>6 DEF PassToSession, Keyed, Keys
  <2>2. CASE p.owner = "client"
    BY <1>6, <2>2, ResponseHandled, FlowHandled
  <2>3. CASE p.owner = "cloud"
    BY <1>6, <2>3, DeviceDataHandled, FlowHandled
  <2> QED
    BY <2>1, <2>2, <2>3
<1> QED
  BY <1>1, <1>2, <1>3, <1>4, <1>5, <1>6 DEF Process

\* The receive step.
LEMMA ReceiveStepFlows ==
    ASSUME ConstantsAssumption, TypeInv, TypeInv', OpenFlow, ReceiveStep
    PROVE  OpenFlow'
<1>1. conv' = conv
  BY DEF ReceiveStep
<1>2. CASE ReceiveNothing /\ Stream' = Stream
  <2>1. session' = session /\ slot' = slot
    BY <1>2 DEF ReceiveNothing, listVars, sendVars
  <2>2. Live' = Live /\ \A h \in Live : SameFlow(session'[h], session[h])
    BY <2>1, SameFlowItself DEF Live
  <2>3. PhasesKept /\ SlotKept
    BY <1>1, <2>1, SameConversations DEF SlotKept
  <2> QED
    BY <1>2, <2>2, <2>3, FlowStays
<1>3. CASE ~(ReceiveNothing /\ Stream' = Stream)
  <2>1. PICK p \in Packets, rest \in Seq(Packets) :
           /\ Process(p) /\ Keyed(p)
           /\ Stream = <<p>> \o rest
           /\ Stream' = IF result' \in {"pending", "active"} THEN Stream ELSE rest
    BY <1>3, StreamReceived
  <2> QED
    BY <1>1, <2>1, ProcessFlows DEF Retained
<1> QED
  BY <1>2, <1>3

-----------------------------------------------------------------------------
\* A step that changes no session keeps the flow.
LEMMA FlowUntouched ==
    ASSUME TypeInv, TypeInv', OpenFlow, session' = session, SlotKept, PhasesKept,
           Stream' = Stream
    PROVE  OpenFlow'
<1>1. Live' = Live /\ \A h \in Live : SameFlow(session'[h], session[h])
  BY SameFlowItself DEF Live
<1> QED
  BY <1>1, FlowStays

\* A session for a pending request: its id was free, so nothing of an earlier
\* request that has it is on its way.
LEMMA StartStepFlows ==
    ASSUME ConstantsAssumption, TypeInv, TypeInv', OpenFlow, StartStep
    PROVE  OpenFlow'
<1>1. pc = "start" /\ pc' = "poll" /\ UNCHANGED <<slot, held, inbound, result, conv>>
  BY DEF StartStep, sendVars, recvVars
<1>2. Stream' = Stream
  BY <1>1, StreamUnmoved DEF StillHeld
<1>3. CASE StartRequest
  <2> DEFINE req == pending[NextPending]
  <2>1. /\ req \in Requests /\ MayCreate("client") /\ HasMemory
    <3>1. NextPending \in {"user", "internal"}
      BY DEF NextPending
    <3>2. pending \in [{"user", "internal"} -> Requests \cup {NoRequest}]
      BY DEF TypeInv, QueueInv
    <3> QED
      BY <1>3, <3>1, <3>2 DEF StartRequest
  <2> HIDE DEF req
  <2>2. PICK id \in ClientIds : id = NextId /\ Find("client", id) = {}
    <3>1. lastId \in 0 .. MaxId /\ FreeIds # {}
      BY <2>1 DEF MayCreate, TypeInv, QueueInv
    <3>2. NextId \in FreeIds
      BY <3>1, NextIdFree
    <3> QED
      BY <3>2 DEF FreeIds, ClientIds
  <2>3. PICK s \in Proper : s = NewSession("client", id, req, "get_data", "send_data")
    <3>1. id \in Nat
      BY <2>2 DEF ClientIds, ConstantsAssumption
    <3> QED
      BY <2>1, <3>1, NewSessionTyped DEF Owners, Talks, States, RequestTypes
  <2>4. /\ s.owner = "client" /\ s.id = id /\ s.st = "get_data" /\ s.request = TRUE
        /\ s.start = TRUE
    BY <2>3 DEF NewSession
  <2>5. PICK h \in Handles \ Live : session' = [session EXCEPT ![h] = s]
    <3>1. NewHandle \in Handles \ Live
      BY <2>1, NewHandleFree
    <3>2. session' = [session EXCEPT ![NewHandle] = s]
      BY <1>3, <2>2, <2>3 DEF StartRequest, AddSession, req
    <3> QED
      BY <3>1, <3>2
  <2> DEFINE key == <<"client", id>>
  <2>6. Find("client", id)' = {h} /\ session'[h] = s
    <3>1. Live' = Live \cup {h} /\ session'[h] = s
          /\ \A g \in Live : g # h /\ session'[g] = session[g]
      BY <2>5, OneAdded
    <3> QED
      BY <2>2, <2>4, <3>1 DEF Find
  <2>7. /\ conv[key].phase \notin {"sending", "waiting", "receiving", "replying"}
        /\ HowMany(Stream, Ending(id)) <= 1 /\ HowMany(Stream, Partial(key)) = 0
        /\ HowMany(Stream, Ending(id)) = 0 /\ HowMany(Stream, Carried(key)) = 0
    BY <2>2 DEF OpenFlow, ClientFlow
  <2>8. ClientFlowOf(h, id)'
    BY <2>4, <2>6 DEF ClientFlowOf, Unsent
  <2>9. ClientFlow(id)'
    BY <1>1, <1>2, <2>6, <2>7, <2>8 DEF ClientFlow
  <2> QED
    BY <1>1, <1>2, <2>4, <2>5, <2>9, FlowAdds
<1>4. CASE ~StartRequest
  <2>1. session' = session
    BY <1>4 DEF StartStep, StartWithoutContext, StartNothing, listVars
  <2> QED
    BY <1>1, <1>2, <2>1, SameConversations, FlowUntouched DEF SlotKept
<1> QED
  BY <1>3, <1>4

-----------------------------------------------------------------------------
\* A step that changes or frees one session keeps the flow, if it keeps the
\* flow of that session's message.
LEMMA FlowOne ==
    ASSUME TypeInv, OpenFlow, Stream' = Stream, NEW h \in Live, Live' \subseteq Live,
           \A g \in Live \ {h} : g \in Live' /\ session'[g] = session[g],
           h \in Live' => SameKey(session'[h], session[h]),
           \A g \in Live : g # h /\ SendsStart(g) => SendsStart(g)',
           \A id \in CloudIds : CloudPhaseKept(id),
           \A id \in ClientIds : ~(session[h].owner = "client" /\ session[h].id = id)
                                     => Phase(id)' \in {Phase(id), "none"},
           session[h].owner = "cloud" /\ h \in Live' => CloudAlike(session'[h], session[h]),
           \A id \in ClientIds : session[h].owner = "client" /\ session[h].id = id
                                     => ClientFlow(id)',
           SlotFlow'
    PROVE  OpenFlow'
<1>1. \A owner, id : Find(owner, id)' = Find(owner, id) \cap Live'
  <2>1. \A g \in Live' : g \in Live /\ SameKey(session'[g], session[g])
    BY DEF SameKey
  <2> QED
    BY <2>1, FoundBefore
<1>2. \A owner, id : \A g \in Find(owner, id) :
          g \in Live /\ session[g].owner = owner /\ session[g].id = id
  BY DEF Find
<1>3. ASSUME NEW id \in CloudIds
      PROVE  CloudFlow(id)'
  <2>1. CloudFlow(id) /\ CloudPhaseKept(id)
    BY DEF OpenFlow
  <2>2. ASSUME NEW g \in Find("cloud", id)'
        PROVE  g \in Find("cloud", id) /\ CloudAlike(session'[g], session[g])
    <3>1. g \in Find("cloud", id) /\ g \in Live /\ g \in Live' /\ session[g].owner = "cloud"
      BY <1>1, <1>2
    <3>2. CASE g = h
      BY <3>1, <3>2
    <3>3. CASE g # h
      <4>1. session'[g] = session[g]
        BY <3>1, <3>3
      <4> QED
        BY <3>1, <4>1 DEF CloudAlike
    <3> QED
      BY <3>2, <3>3
  <2>3. NoneBefore(Stream', Carried(<<"cloud", id>>), Starting(<<"cloud", id>>))
    BY <2>1 DEF CloudFlow
  <2> QED
    BY <2>1, <2>2, <2>3, CloudFlowKeeps
<1>4. ASSUME NEW id \in ClientIds
      PROVE  ClientFlow(id)'
  <2>1. CASE session[h].owner = "client" /\ session[h].id = id
    BY <2>1
  <2>2. CASE ~(session[h].owner = "client" /\ session[h].id = id)
    <3>1. ClientFlow(id) /\ Phase(id)' \in {Phase(id), "none"}
      BY <2>2 DEF OpenFlow
    <3>2. \A g \in Find("client", id) : g \in Live /\ g # h
      BY <1>2, <2>2
    <3>3. \A g \in Find("client", id) : g \in Find("client", id)' /\ session'[g] = session[g]
      BY <1>1, <3>2
    <3>4. ASSUME NEW g \in Find("client", id)'
          PROVE  /\ g \in Find("client", id) /\ ClientAlike(session'[g], session[g])
                 /\ SendsStart(g) => SendsStart(g)'
      <4>1. g \in Find("client", id)
        BY <1>1
      <4>2. session'[g] = session[g] /\ g \in Live /\ g # h
        BY <3>2, <3>3, <4>1
      <4> QED
        BY <4>1, <4>2 DEF ClientAlike
    <3> QED
      BY <3>1, <3>3, <3>4, ClientFlowKeeps
  <2> QED
    BY <2>1, <2>2
<1> QED
  BY <1>3, <1>4 DEF OpenFlow

\* The sessions that are found where h is: h alone.
LEMMA FoundAlone ==
    ASSUME TypeInv, NEW h \in Live, NEW id, session[h].owner = "client", session[h].id = id
    PROVE  Find("client", id) = {h}
BY OnlyOne DEF Find

\* The user fills the buffer: the session waits until its packet is out.
LEMMA PollSendDataFlows ==
    ASSUME ConstantsAssumption, TypeInv, TypeInv', OpenFlow, PollSendData,
           Stream' = Stream, conv' = conv
    PROVE  OpenFlow'
<1>1. PICK h \in Live : h = Polled /\ session[h] \in Proper
  <2>1. Polled \in Live
    BY PolledLive DEF PollSendData, MayAskForData, TypeInv, CoreInv, StateInv
  <2> QED
    BY <2>1, RequestTyped
<1> DEFINE total == session[h].total + 1
<1>2. PICK last \in BOOLEAN, full \in BOOLEAN :
         /\ session' = [session EXCEPT ![h] =
               [session[h] EXCEPT !.st = "wait_send_complete", !.start = FALSE, !.last = last,
                                  !.total = total, !.ackPending = full]]
         /\ slot' = DataSlot(h, [op |-> IF session[h].start THEN "start" ELSE "data",
                                 owner |-> session[h].owner, id |-> session[h].id,
                                 last |-> last])
  <2>1. PICK last \in BOOLEAN :
         /\ session' = [session EXCEPT ![h] =
               [session[h] EXCEPT !.st = "wait_send_complete", !.start = FALSE, !.last = last,
                                  !.total = total,
                                  !.ackPending = WindowFull(total, session[h].acked)]]
         /\ slot' = DataSlot(h, [op |-> IF session[h].start THEN "start" ELSE "data",
                                 owner |-> session[h].owner, id |-> session[h].id,
                                 last |-> last])
    BY <1>1 DEF PollSendData
  <2>2. WindowFull(total, session[h].acked) \in BOOLEAN
    BY DEF WindowFull
  <2> QED
    BY <2>1, <2>2
<1>3. session[h].st = "get_data" /\ slot.kind = "empty"
  BY <1>1 DEF PollSendData, MayAskForData, BufferFree
<1> DEFINE s1 == [session[h] EXCEPT !.st = "wait_send_complete", !.start = FALSE, !.last = last,
                                    !.total = total, !.ackPending = full]
           p  == [op |-> IF session[h].start THEN "start" ELSE "data",
                  owner |-> session[h].owner, id |-> session[h].id, last |-> last]
<1>4. /\ s1.st = "wait_send_complete" /\ s1.start = FALSE /\ s1.last = last
      /\ s1.request = session[h].request /\ SameKey(s1, session[h])
  BY <1>1 DEF Proper, Session, SameKey
<1>5. Becomes(s1, session[h])
  <2>1. total \in Nat
    BY <1>1 DEF Proper, Session
  <2>2. s1 = Filling(session[h], last, total, full)
    BY DEF Filling
  <2> HIDE DEF total, s1
  <2> QED
    BY <1>1, <2>1, <2>2, FillingKeeps
<1>6. p \in DataPacket /\ p.op = (IF session[h].start THEN "start" ELSE "data")
      /\ p.owner = session[h].owner /\ p.id = session[h].id /\ p.last = last
  BY <1>1 DEF DataPacket, Proper, Session
<1>7. session' = [session EXCEPT ![h] = s1] /\ slot' = DataSlot(h, p)
  BY <1>2
<1> HIDE DEF s1, p
<1>8. Live' = Live /\ session'[h] = s1 /\ \A g \in Live \ {h} : session'[g] = session[g]
  BY <1>5, <1>7, OneChanged
<1>9. slot'.kind = "data" /\ slot'.session = h /\ slot'.packet = p
  BY <1>7 DEF DataSlot
<1>10. h # NoHandle
  BY DEF Live, Handles, NoHandle
<1>11. PhasesKept
  BY SameConversations
<1>12. ASSUME session[h].owner = "cloud"
       PROVE  CloudAlike(s1, session[h])
  <2>1. PICK id \in CloudIds : id = session[h].id
    BY <1>12 DEF TypeInv, CoreInv, StateInv, KeyInv, Keys
  <2>2. h \in Find("cloud", id)
    BY <1>12, <2>1 DEF Find
  <2>3. ~session[h].request
    BY <1>3, <2>2 DEF OpenFlow, CloudFlow, Unsent
  <2> QED
    BY <1>4, <2>3 DEF CloudAlike
<1>13. ASSUME NEW id \in ClientIds, session[h].owner = "client", session[h].id = id
       PROVE  /\ HowMany(Stream, Carried(<<"client", id>>)) = 0
              /\ Phase(id) \in {"none", "receiving", "answered"}
              /\ session[h].request
              /\ session[h].start => /\ HowMany(Stream, Ending(id)) = 0
                                     /\ Phase(id) \in {"none", "answered"}
              /\ ~session[h].start => Phase(id) # "answered"
  <2>1. Find("client", id) = {h}
    BY <1>13, FoundAlone
  <2>2. /\ Phase(id) \notin {"sending", "waiting"}
        /\ HowMany(Stream, Ending(id)) # 0 \/ Phase(id) \in {"receiving", "replying"} =>
              Started(session[h])
        /\ HowMany(Stream, Carried(<<"client", id>>)) # 0 \/ Phase(id) = "replying" =>
              session[h].st = "receive"
        /\ ClientFlowOf(h, id)
    BY <2>1 DEF OpenFlow, ClientFlow, Phase
  <2>3. Phase(id) \in {"none", "receiving", "replying", "answered", "sending", "waiting"}
    <3>1. conv \in ConvType /\ <<"client", id>> \in Keys
      BY DEF TypeInv, PacketInv, Keys, ClientIds
    <3> QED
      BY <3>1 DEF ConvType, Phase
  <2>4. Started(session[h]) <=> ~session[h].start
    BY <1>3 DEF Started, Unsent
  <2>5. session[h].request /\ (Phase(id) = "answered" /\ ~session[h].start => SendsStart(h))
    BY <1>3, <2>2 DEF ClientFlowOf, Unsent, Phase
  <2>6. ~SendsStart(h)
    BY <1>3 DEF SendsStart
  <2> QED
    BY <1>3, <2>2, <2>3, <2>4, <2>5, <2>6
<1>14. ASSUME NEW id \in ClientIds, session[h].owner = "client", session[h].id = id
       PROVE  ClientFlow(id)'
  <2> DEFINE key == <<"client", id>>
  <2>1. Find("client", id) = {h} /\ Find("client", id)' = {h}
    <3>1. Find("client", id) = {h}
      BY <1>14, FoundAlone
    <3>2. session'[h].owner = "client" /\ session'[h].id = id
      BY <1>4, <1>8, <1>14 DEF SameKey
    <3> QED
      BY <1>8, <3>1, <3>2 DEF Find
  <2>2. /\ HowMany(Stream, Ending(id)) <= 1 /\ HowMany(Stream, Partial(key)) = 0
        /\ HowMany(Stream, Ending(id)) # 0 => Phase(id) \in {"none", "answered"}
    BY DEF OpenFlow, ClientFlow, Phase
  <2>3. Started(session[h])'
    BY <1>4, <1>8 DEF Started, Unsent
  <2>4. Phase(id)' = Phase(id)
    BY DEF Phase
  <2>5. SendsStart(h)' <=> session[h].start
    BY <1>6, <1>9 DEF SendsStart
  <2>6. ClientFlowOf(h, id)'
    BY <1>4, <1>8, <1>13, <1>14, <2>4, <2>5 DEF ClientFlowOf, Unsent, Phase
  <2> QED
    BY <1>13, <1>14, <2>1, <2>2, <2>3, <2>4, <2>6 DEF ClientFlow, Phase
<1>15. SlotFlow'
  <2>1. /\ session'[h].st = "wait_send_complete" /\ ~session'[h].start
        /\ p \in DataPacket /\ p.owner = session'[h].owner /\ p.id = session'[h].id
        /\ p.last = session'[h].last
    BY <1>4, <1>6, <1>8 DEF SameKey
  <2>2. ASSUME session'[h].owner = "client", p.op = "start"
        PROVE  /\ HowMany(Stream', Ending(session'[h].id)) = 0
               /\ conv'[<<"client", session'[h].id>>].phase \in {"none", "answered"}
    <3>1. session[h].owner = "client" /\ session'[h].id = session[h].id
      BY <1>4, <1>8, <2>2 DEF SameKey
    <3>2. PICK id \in ClientIds : id = session[h].id
      BY <3>1, ClientIdOf
    <3>3. session[h].start
      BY <1>6, <2>2
    <3>4. HowMany(Stream, Ending(id)) = 0 /\ Phase(id) \in {"none", "answered"}
      BY <1>13, <3>1, <3>2, <3>3
    <3> QED
      BY <3>1, <3>2, <3>4 DEF Phase
  <2> QED
    BY <1>9, <2>1, <2>2 DEF SlotFlow
<1>16. \A g \in Live : ~SendsStart(g)
  BY <1>3 DEF SendsStart
<1> QED
  BY <1>4, <1>8, <1>11, <1>12, <1>14, <1>15, <1>16, FlowOne DEF PhasesKept

\* The poll step.
LEMMA PollStepFlows ==
    ASSUME ConstantsAssumption, TypeInv, TypeInv', OpenFlow, PollStep,
           "error" \notin SendAnswers
    PROVE  OpenFlow'
<1>1. pc = "poll" /\ pc' = "send" /\ inbound' = inbound /\ result' = result /\ conv' = conv
  BY DEF PollStep
<1>2. ~PollCancel
  BY DEF PollCancel, Answers
<1>3. Release
  BY <1>2 DEF PollStep
<1>4. Stream' = Stream
  BY <1>1, <1>3 DEF Release, Stream, StillHeld
<1>5. PhasesKept
  BY <1>1, SameConversations
<1>6. CASE PollSendData
  BY <1>1, <1>4, <1>6, PollSendDataFlows
<1>7. CASE PollNobody \/ PollSwitch \/ PollBusy \/ PollAfterStatus \/ PollNoBuffer
  <2>1. session' = session /\ slot' = slot
    BY <1>7 DEF PollNobody, PollSwitch, PollBusy, PollAfterStatus, PollNoBuffer, listVars,
                sendVars
  <2> QED
    BY <1>4, <1>5, <2>1, FlowUntouched DEF SlotKept
<1>8. Polled # NoHandle => Polled \in Live /\ session[Polled] \in Proper
  BY PolledLive, RequestTyped DEF TypeInv, CoreInv, StateInv
<1>9. CASE PollSendAck
  <2>1. PICK h \in Live : h = Polled /\ session[h] \in Proper
    BY <1>8, <1>9 DEF PollSendAck
  <2> DEFINE s == session[h]
             s1 == [s EXCEPT !.acked = s.total, !.st = "receive"]
             e  == [op |-> "ack", owner |-> s.owner, id |-> s.id, count |-> s.total]
  <2>2. s.st = "send_ack" /\ slot.kind = "empty" /\ slot' = ControlSlot(e) /\ e.op = "ack"
    BY <1>9, <2>1 DEF PollSendAck, BufferFree
  <2>3. session' = [session EXCEPT ![h] = s1]
    <3>1. session \in [Handles -> Proper \cup {Free}]
      BY DEF TypeInv, CoreInv, StateInv, ListInv
    <3> QED
      BY <1>9, <2>1, <3>1 DEF PollSendAck
  <2>4. Becomes(s1, s)
    BY <2>1 DEF Becomes, SameKey, Proper, Session, States
  <2>5. s.owner = "cloud"
    <3>1. CASE s.owner = "client"
      <4>1. PICK id \in ClientIds : id = s.id
        BY <3>1, ClientIdOf
      <4>2. h \in Find("client", id)
        BY <3>1, <4>1 DEF Find
      <4> QED
        BY <2>2, <4>2 DEF OpenFlow, ClientFlow, ClientFlowOf
    <3> QED
      BY <2>1, <3>1 DEF Proper, Session, Owners
  <2>6. SameFlow(s1, s)
    BY <2>1, <2>2, <2>5 DEF SameFlow, SameKey, Proper, Session, Unsent
  <2> HIDE DEF s1, e
  <2>7. Live' = Live /\ session'[h] = s1 /\ \A g \in Live \ {h} : session'[g] = session[g]
    BY <2>3, <2>4, OneChanged
  <2>8. \A g \in Live' : g \in Live /\ SameFlow(session'[g], session[g])
    BY <2>6, <2>7, SameFlowItself
  <2>9. SlotKept
    BY <2>2 DEF SlotKept, ControlSlot
  <2> QED
    BY <1>4, <1>5, <2>7, <2>8, <2>9, FlowStays
<1>10. CASE PollSendError \/ PollDelete
  <2>1. PICK h \in Live : h = Polled
    BY <1>8, <1>10 DEF PollSendError, PollDelete
  <2>2. session' = [session EXCEPT ![h] = Free] /\ session[h].st \in Lost
    BY <1>10, <2>1 DEF PollSendError, PollDelete, DeleteSession, Lost
  <2>3. Live' = Live \ {h} /\ \A g \in Live \ {h} : session'[g] = session[g]
    BY <2>2, OneFreed
  <2>4. SlotKept
    <3>1. CASE PollSendError
      <4> DEFINE e == [op |-> "error", request |-> session[Polled].errRequest,
                       sender |-> session[Polled].errSender, id |-> session[Polled].id]
      <4>1. slot.kind = "empty" /\ slot' = ControlSlot(e) /\ e.op = "error"
        BY <3>1 DEF PollSendError, BufferFree
      <4> HIDE DEF e
      <4> QED
        BY <4>1 DEF SlotKept, ControlSlot
    <3>2. CASE PollDelete
      <4>1. slot' = Dangling(h) /\ h \notin Live'
        BY <2>1, <2>3, <3>2 DEF PollDelete
      <4> QED
        BY <4>1 DEF SlotKept
    <3> QED
      BY <1>10, <3>1, <3>2
  <2>5. \A g \in Live' : g \in Live /\ SameFlow(session'[g], session[g])
    BY <2>3, SameFlowItself
  <2>6. \A g \in Live : g \notin Live' => session[g].st \in Lost
    BY <2>2, <2>3
  <2> QED
    BY <1>4, <1>5, <2>4, <2>5, <2>6, FlowStays
<1> QED
  BY <1>2, <1>6, <1>7, <1>9, <1>10 DEF PollStep

-----------------------------------------------------------------------------
\* What Device Cloud takes keeps its part of a device request.
LEMMA CloudPhase ==
    ASSUME NEW c \in ConvType, NEW p, NEW id \in CloudIds,
           p.op \in {"start", "data"} => p.last \in BOOLEAN,
           c[<<"cloud", id>>].phase \notin {"replying", "answered"}
    PROVE  LET before == c[<<"cloud", id>>]
               after  == CloudTakes(c, p)[<<"cloud", id>>]
           IN  /\ after.phase \notin {"replying", "answered"}
               /\ after.phase \in {"sending", "waiting"} =>
                     after.phase = before.phase /\ after.count = before.count
<1> DEFINE k == <<"cloud", id>>
           V == [phase: {"none", "receiving", "replying", "answered", "sending", "waiting"},
                 count: Nat, acked: Nat]
<1>1. k \in Keys /\ c \in [Keys -> V] /\ c[k] \in V
  BY DEF Keys, ConvType
<1>2. \A q : q # k => \A v : [c EXCEPT ![q] = v][k] = c[k]
  BY <1>1
<1>3. \A v : [c EXCEPT ![k] = v][k] = v
  BY <1>1
<1>4. NoConversation.phase = "none" /\ Conversation("receiving", 1).phase = "receiving"
  BY DEF NoConversation, Conversation
<1>5. CASE p.op = "start"
  <2>1. CASE p.owner = "client"
    <3>1. CloudTakes(c, p) = [c EXCEPT ![<<p.owner, p.id>>] =
              Conversation(IF p.last THEN "replying" ELSE "receiving", 1)]
      BY <1>5, <2>1 DEF CloudTakes
    <3>2. <<p.owner, p.id>> # k
      BY <2>1
    <3> QED
      BY <1>2, <3>1, <3>2
  <2>2. CASE <<p.owner, p.id>> = k
    <3>1. CloudTakes(c, p) = [c EXCEPT ![k] =
              IF c[k].phase # "waiting" THEN c[k]
              ELSE IF p.last THEN NoConversation ELSE Conversation("receiving", 1)]
      BY <1>1, <1>5, <2>2 DEF CloudTakes
    <3>2. CloudTakes(c, p)[k] =
              IF c[k].phase # "waiting" THEN c[k]
              ELSE IF p.last THEN NoConversation ELSE Conversation("receiving", 1)
      BY <1>3, <3>1
    <3> QED
      BY <1>4, <3>2
  <2>3. CASE p.owner # "client" /\ <<p.owner, p.id>> # k
    <3>1. CloudTakes(c, p) = c
          \/ \E v : CloudTakes(c, p) = [c EXCEPT ![<<p.owner, p.id>>] = v]
      BY <1>5 DEF CloudTakes
    <3> QED
      <4>1. PICK q, v : q # k /\ (CloudTakes(c, p) = c \/ CloudTakes(c, p) = [c EXCEPT ![q] = v])
        BY <2>3, <3>1
      <4>2. [c EXCEPT ![q] = v][k] = c[k]
        BY <1>2, <4>1
      <4>3. CloudTakes(c, p)[k] = c[k]
        BY <4>1, <4>2
      <4> QED
        BY <4>3
  <2> QED
    BY <2>1, <2>2, <2>3
<1>6. CASE p.op = "data"
  <2>1. CASE <<p.owner, p.id>> = k
    <3>1. p.owner = "cloud"
      BY <2>1
    <3>2. CloudTakes(c, p) = [c EXCEPT ![k] =
              IF c[k].phase # "receiving" THEN c[k]
              ELSE IF p.last THEN NoConversation ELSE Counted(c[k], p.last)]
      BY <1>1, <1>6, <2>1, <3>1 DEF CloudTakes
    <3>3. CloudTakes(c, p)[k] =
              IF c[k].phase # "receiving" THEN c[k]
              ELSE IF p.last THEN NoConversation ELSE Counted(c[k], p.last)
      BY <1>3, <3>2
    <3>4. ~p.last => Counted(c[k], p.last).phase = c[k].phase
      <4>1. \A v \in V : ~p.last => Counted(v, p.last).phase = v.phase
        BY DEF Counted
      <4> QED
        BY <1>1, <4>1
    <3> HIDE DEF k
    <3> QED
      BY <1>4, <3>3, <3>4 DEF k
  <2>2. CASE <<p.owner, p.id>> # k
    <3>1. \E v : CloudTakes(c, p) = [c EXCEPT ![<<p.owner, p.id>>] = v]
      BY <1>6 DEF CloudTakes
    <3> QED
      BY <1>2, <2>2, <3>1
  <2> QED
    BY <2>1, <2>2
<1>7. CASE p.op = "ack"
  <2>1. CloudTakes(c, p) = [c EXCEPT ![<<p.owner, p.id>>] =
              IF c[<<p.owner, p.id>>].phase = "sending"
              THEN Acknowledged(c[<<p.owner, p.id>>], p.count) ELSE c[<<p.owner, p.id>>]]
    BY <1>1, <1>7 DEF CloudTakes
  <2>2. CASE <<p.owner, p.id>> = k
    <3>1. CloudTakes(c, p)[k] = IF c[k].phase = "sending"
                                THEN Acknowledged(c[k], p.count) ELSE c[k]
      BY <1>3, <2>1, <2>2
    <3>2. \A v \in V : /\ Acknowledged(v, p.count).phase = v.phase
                       /\ Acknowledged(v, p.count).count = v.count
      BY DEF Acknowledged
    <3>3. /\ Acknowledged(c[k], p.count).phase = c[k].phase
          /\ Acknowledged(c[k], p.count).count = c[k].count
      BY <1>1, <3>2
    <3> HIDE DEF k
    <3> QED
      BY <3>1, <3>3 DEF k
  <2>3. CASE <<p.owner, p.id>> # k
    BY <1>2, <2>1, <2>3
  <2> QED
    BY <2>2, <2>3
<1>8. CASE p.op = "error" /\ <<ErrorOwner(p), p.id>> \in Keys
  <2>1. CloudTakes(c, p) = [c EXCEPT ![<<ErrorOwner(p), p.id>>] = NoConversation]
    BY <1>8 DEF CloudTakes
  <2> QED
    BY <1>2, <1>3, <1>4, <2>1
<1>9. CASE p.op \notin {"start", "data", "ack"}
           /\ ~(p.op = "error" /\ <<ErrorOwner(p), p.id>> \in Keys)
  <2>1. CloudTakes(c, p) = c
    BY <1>9 DEF CloudTakes
  <2> QED
    BY <2>1
<1> QED
  BY <1>5, <1>6, <1>7, <1>8, <1>9

\* What it takes of a put request, packet by packet.
LEMMA RequestPhase ==
    ASSUME NEW c \in ConvType, NEW p, NEW id \in ClientIds, p.op \in {"start", "data"},
           p.last \in BOOLEAN, p.owner = "client", p.id = id
    PROVE  LET before == c[<<"client", id>>].phase
               after  == CloudTakes(c, p)[<<"client", id>>].phase
           IN  after = IF p.op = "start" \/ before = "receiving"
                       THEN (IF p.last THEN "replying" ELSE "receiving") ELSE before
<1> DEFINE k == <<"client", id>>
           V == [phase: {"none", "receiving", "replying", "answered", "sending", "waiting"},
                 count: Nat, acked: Nat]
<1>1. k \in Keys /\ c \in [Keys -> V] /\ c[k] \in V /\ <<p.owner, p.id>> = k
  BY DEF Keys, ConvType, ClientIds
<1>2. \A v : [c EXCEPT ![k] = v][k] = v
  BY <1>1
<1>3. CASE p.op = "start"
  <2>1. CloudTakes(c, p)[k] = Conversation(IF p.last THEN "replying" ELSE "receiving", 1)
    BY <1>1, <1>2, <1>3 DEF CloudTakes
  <2> QED
    BY <1>3, <2>1 DEF Conversation
<1>4. CASE p.op = "data"
  <2>1. CloudTakes(c, p) = [c EXCEPT ![k] =
            IF c[k].phase # "receiving" THEN c[k] ELSE Counted(c[k], p.last)]
    BY <1>1, <1>4 DEF CloudTakes
  <2>2. CloudTakes(c, p)[k] = IF c[k].phase # "receiving" THEN c[k] ELSE Counted(c[k], p.last)
    BY <1>2, <2>1
  <2>3. Counted(c[k], p.last).phase = IF p.last THEN "replying" ELSE c[k].phase
    <3>1. \A v \in V : Counted(v, p.last).phase = IF p.last THEN "replying" ELSE v.phase
      BY DEF Counted
    <3> QED
      BY <1>1, <3>1
  <2> HIDE DEF k
  <2> QED
    BY <1>4, <2>2, <2>3 DEF k
<1> QED
  BY <1>3, <1>4

\* The packet of a session is out: a request waits for its response, or for
\* more data; the response to a device request ends it.
LEMMA SendDataFlows ==
    ASSUME ConstantsAssumption, TypeInv, TypeInv', OpenFlow, SendDataComplete,
           Stream' = Stream
    PROVE  OpenFlow'
<1>1. PICK h \in Live : h = slot.session /\ session[h] \in Proper
  BY RequestTyped DEF SendDataComplete, TypeInv, CoreInv, SlotInv
<1> DEFINE p == slot.packet
           s1 == [session[h] EXCEPT !.st = IF session[h].last THEN "receive" ELSE "get_data"]
<1>2. /\ slot.kind = "data" /\ slot' = NoSlot /\ conv' = CloudTakes(conv, p)
      /\ IF session[h].last /\ ~session[h].request
         THEN DeleteSession(h, session[h], told, current)
         ELSE session' = [session EXCEPT ![h] = s1]
  BY <1>1 DEF SendDataComplete
<1>3. /\ session[h].st = "wait_send_complete" /\ ~session[h].start
      /\ p \in DataPacket
      /\ p.owner = session[h].owner /\ p.id = session[h].id /\ p.last = session[h].last
      /\ \A id \in ClientIds :
            session[h].owner = "client" /\ session[h].id = id /\ p.op = "start" =>
               HowMany(Stream, Ending(id)) = 0
  BY <1>1, <1>2 DEF OpenFlow, SlotFlow, SendDataComplete
<1>4. conv \in ConvType /\ p.op \in {"start", "data"} /\ p.last \in BOOLEAN
  BY <1>3 DEF TypeInv, PacketInv, DataPacket
<1>5. s1.st = (IF session[h].last THEN "receive" ELSE "get_data")
      /\ s1.start = FALSE /\ s1.request = session[h].request
  BY <1>1, <1>3 DEF Proper, Session
<1>6. Becomes(s1, session[h])
  BY <1>1 DEF Becomes, SameKey, Proper, Session, States
<1> HIDE DEF s1
<1>7. /\ Live' \subseteq Live
      /\ \A g \in Live \ {h} : g \in Live' /\ session'[g] = session[g]
      /\ h \in Live' => session'[h] = s1
      /\ session[h].request => h \in Live'
  <2>1. CASE session[h].last /\ ~session[h].request
    <3>1. session' = [session EXCEPT ![h] = Free]
      BY <1>2, <2>1 DEF DeleteSession
    <3>2. Live' = Live \ {h} /\ \A g \in Live \ {h} : session'[g] = session[g]
      BY <3>1, OneFreed
    <3> QED
      BY <2>1, <3>2
  <2>2. CASE ~(session[h].last /\ ~session[h].request)
    <3>1. Live' = Live /\ session'[h] = s1 /\ \A g \in Live \ {h} : session'[g] = session[g]
      BY <1>2, <1>6, <2>2, OneChanged
    <3> QED
      BY <3>1
  <2> QED
    BY <2>1, <2>2
<1>8. ASSUME NEW id \in CloudIds
      PROVE  CloudPhaseKept(id)
  <2>1. conv[<<"cloud", id>>].phase \notin {"replying", "answered"}
    BY DEF OpenFlow, CloudFlow
  <2>2. /\ conv'[<<"cloud", id>>].phase \notin {"replying", "answered"}
        /\ conv'[<<"cloud", id>>].phase \in {"sending", "waiting"} =>
              /\ conv'[<<"cloud", id>>].phase = conv[<<"cloud", id>>].phase
              /\ conv'[<<"cloud", id>>].count = conv[<<"cloud", id>>].count
    BY <1>2, <1>4, <2>1, CloudPhase
  <2> QED
    BY <2>2 DEF CloudPhaseKept, Coming
<1>9. ASSUME NEW id \in ClientIds, ~(session[h].owner = "client" /\ session[h].id = id)
      PROVE  Phase(id)' \in {Phase(id), "none"}
  <2>1. ~(p.owner = "client" /\ p.id = id)
    BY <1>3, <1>9
  <2> QED
    BY <1>2, <1>4, <2>1, DataPhase DEF Phase
<1>10. ASSUME session[h].owner = "cloud", h \in Live'
       PROVE  CloudAlike(session'[h], session[h])
  <2>1. PICK id \in CloudIds : id = session[h].id
    BY <1>10 DEF TypeInv, CoreInv, StateInv, KeyInv, Keys
  <2>2. h \in Find("cloud", id)
    BY <1>10, <2>1 DEF Find
  <2>3. ~session[h].request
    BY <1>3, <2>2 DEF OpenFlow, CloudFlow, Unsent
  <2> QED
    BY <1>5, <1>7, <1>10, <2>3 DEF CloudAlike
<1>11. ASSUME NEW id \in ClientIds, session[h].owner = "client", session[h].id = id
       PROVE  ClientFlow(id)'
  <2> DEFINE key == <<"client", id>>
             e   == HowMany(Stream, Ending(id))
             r   == HowMany(Stream, Carried(key))
  <2>1. Find("client", id) = {h}
    BY <1>11, FoundAlone
  <2>2. /\ e <= 1 /\ HowMany(Stream, Partial(key)) = 0
        /\ Phase(id) \notin {"sending", "waiting"}
        /\ e # 0 => Phase(id) \in {"none", "answered"}
        /\ r # 0 \/ Phase(id) = "replying" => session[h].st = "receive"
        /\ ClientFlowOf(h, id)
    BY <2>1 DEF OpenFlow, ClientFlow, Phase
  <2>3. r = 0 /\ Phase(id) # "replying"
    BY <1>3, <2>2
  <2>4. /\ session[h].request
        /\ Phase(id) = "answered" => p.op = "start"
    BY <1>3, <2>2 DEF ClientFlowOf, Unsent, SendsStart, Phase
  <2>5. p.op = "start" => e = 0
    BY <1>3, <1>11
  <2>6. Phase(id)' = IF p.op = "start" \/ Phase(id) = "receiving"
                     THEN (IF p.last THEN "replying" ELSE "receiving") ELSE Phase(id)
    <3>1. p.owner = "client" /\ p.id = id
      BY <1>3, <1>11
    <3> QED
      BY <1>2, <1>4, <3>1, RequestPhase DEF Phase
  <2>7. Phase(id) \in {"none", "receiving", "answered"}
    <3>1. <<"client", id>> \in Keys
      BY DEF Keys, ClientIds
    <3>2. Phase(id) \in {"none", "receiving", "replying", "answered", "sending", "waiting"}
      BY <1>4, <3>1 DEF ConvType, Phase
    <3> QED
      BY <2>2, <2>3, <3>2
  <2>8. /\ Phase(id)' \in {"none", "receiving", "replying"}
        /\ Phase(id)' = "replying" => p.last = TRUE
        /\ e # 0 => Phase(id)' = "none"
    BY <1>4, <2>2, <2>4, <2>5, <2>6, <2>7
  <2>9. h \in Live' /\ session'[h] = s1 /\ SameKey(s1, session[h])
    BY <1>6, <1>7, <2>4 DEF Becomes
  <2>10. Find("client", id)' = {h}
    <3>1. session'[h].owner = "client" /\ session'[h].id = id
      BY <1>11, <2>9 DEF SameKey
    <3>2. \A g \in Live' : g # h => session'[g] = session[g] /\ g \in Live
      BY <1>7
    <3> QED
      BY <2>1, <2>9, <3>1, <3>2 DEF Find
  <2>11. /\ Started(session[h])' 
         /\ p.last => session'[h].st = "receive"
    BY <1>3, <1>5, <2>9 DEF Started, Unsent
  <2>12. ClientFlowOf(h, id)'
    BY <1>5, <2>4, <2>8, <2>9 DEF ClientFlowOf, Unsent, Phase
  <2> HIDE DEF e, r
  <2>13. HowMany(Stream', Ending(id)) = e /\ HowMany(Stream', Carried(key)) = r
         /\ HowMany(Stream', Partial(key)) = 0
    BY <2>2 DEF e, r
  <2> QED
    BY <2>2, <2>3, <2>8, <2>10, <2>11, <2>12, <2>13 DEF ClientFlow, Phase
<1>12. SlotFlow'
  BY <1>2 DEF SlotFlow, NoSlot
<1>13. \A g \in Live : g # h => ~SendsStart(g)
  BY <1>1 DEF SendsStart
<1>14. h \in Live' => SameKey(session'[h], session[h])
  BY <1>6, <1>7 DEF Becomes
<1> QED
  BY <1>7, <1>8, <1>9, <1>10, <1>11, <1>12, <1>13, <1>14, FlowOne

\* The send step.
LEMMA SendStepFlows ==
    ASSUME ConstantsAssumption, TypeInv, TypeInv', OpenFlow, SendStep
    PROVE  OpenFlow'
<1>1. Stream' = Stream
  <2>1. UNCHANGED <<held, inbound>> /\ pc = "send" /\ pc' = "receive"
    BY DEF SendStep, recvVars
  <2> QED
    BY <2>1, StreamUnmoved DEF StillHeld
<1>2. CASE SendKeepAlive
  <2>1. session' = session /\ conv' = conv /\ slot.kind = "empty" /\ slot' = ControlSlot(KeepAlive)
    BY <1>2 DEF SendKeepAlive, listVars, BufferFree
  <2>2. SlotKept
    BY <2>1 DEF SlotKept, ControlSlot, KeepAlive
  <2> QED
    BY <1>1, <2>1, <2>2, SameConversations, FlowUntouched
<1>3. CASE SendNothing \/ SendDataDangling
  <2>1. session' = session /\ conv' = conv /\ slot' = slot
    BY <1>3 DEF SendNothing, SendDataDangling, listVars, sendVars
  <2> QED
    BY <1>1, <2>1, SameConversations, FlowUntouched DEF SlotKept
<1>4. CASE SendControlComplete
  <2>1. /\ session' = session /\ slot.kind = "control" /\ slot' = NoSlot
        /\ conv' = CloudTakes(conv, slot.packet)
    BY <1>4 DEF SendControlComplete, listVars
  <2>2. slot.packet.op \notin {"start", "data"} /\ conv \in ConvType
    BY <2>1 DEF OpenFlow, SlotFlow, TypeInv, PacketInv
  <2>3. ASSUME NEW id \in CloudIds
        PROVE  CloudPhaseKept(id)
    <3>1. conv[<<"cloud", id>>].phase \notin {"replying", "answered"}
      BY DEF OpenFlow, CloudFlow
    <3>2. /\ conv'[<<"cloud", id>>].phase \notin {"replying", "answered"}
          /\ conv'[<<"cloud", id>>].phase \in {"sending", "waiting"} =>
                /\ conv'[<<"cloud", id>>].phase = conv[<<"cloud", id>>].phase
                /\ conv'[<<"cloud", id>>].count = conv[<<"cloud", id>>].count
      BY <2>1, <2>2, <3>1, CloudPhase
    <3> QED
      BY <3>2 DEF CloudPhaseKept, Coming
  <2>4. ASSUME NEW id \in ClientIds
        PROVE  Phase(id)' \in {Phase(id), "none"}
    <3>1. conv[<<"client", id>>].phase # "sending"
      BY DEF OpenFlow, ClientFlow
    <3> QED
      BY <2>1, <2>2, <3>1, ClientPhase DEF Phase
  <2>5. PhasesKept
    BY <2>3, <2>4 DEF PhasesKept
  <2>6. SlotKept
    BY <2>1 DEF SlotKept, NoSlot
  <2> QED
    BY <1>1, <2>1, <2>5, <2>6, FlowUntouched
<1>5. CASE SendDataComplete
  BY <1>1, <1>5, SendDataFlows
<1> QED
  BY <1>2, <1>3, <1>4, <1>5 DEF SendStep

-----------------------------------------------------------------------------
\* Device Cloud sends a packet: the flow of the messages that it does not
\* belong to stays.
LEMMA FlowSends ==
    ASSUME TypeInv, TypeInv', OpenFlow, NEW p \in Packets, CloudSends(p),
           \A id \in CloudIds :
              \/ CloudPhaseKept(id) /\ p \notin Carried(<<"cloud", id>>)
              \/ CloudFlow(id)',
           \A id \in ClientIds :
              \/ Phase(id)' \in {Phase(id), "none"} /\ p \notin Ending(id)
              \/ Phase(id) \notin {"none", "answered"} /\ ClientFlow(id)'
    PROVE  OpenFlow'
<1>1. session' = session /\ slot' = slot /\ Stream' = Append(Stream, p)
  BY StreamSent DEF CloudSends, listVars, sendVars
<1>2. /\ \A S : HowMany(Stream', S) = HowMany(Stream, S) + (IF p \in S THEN 1 ELSE 0)
      /\ \A S, T : NoneBefore(Stream, S, T) /\ (p \in T => HowMany(Stream, S) = 0)
                      => NoneBefore(Stream', S, T)
      /\ \A S : HowMany(Stream, S) \in Nat
  BY <1>1, StreamTyped, AtTheEnd, HowManyTyped
<1>3. \A owner, id : Find(owner, id)' = Find(owner, id)
  BY <1>1 DEF Find, Live
<1>4. \A S : p \notin S => HowMany(Stream', S) = HowMany(Stream, S)
  BY <1>2
<1>5. ASSUME NEW id \in CloudIds
      PROVE  CloudFlow(id)'
  <2> DEFINE key == <<"cloud", id>>
  <2>1. CASE CloudPhaseKept(id) /\ p \notin Carried(key)
    <3>1. CloudFlow(id)
      BY DEF OpenFlow
    <3>2. p \notin Starting(key)
      BY <2>1, KindsOfPackets
    <3>3. NoneBefore(Stream', Carried(key), Starting(key))
      BY <1>2, <3>1, <3>2 DEF CloudFlow
    <3>4. /\ HowMany(Stream', Carried(key)) = HowMany(Stream, Carried(key))
          /\ HowMany(Stream', Starting(key)) = HowMany(Stream, Starting(key))
      BY <1>4, <2>1, <3>2
    <3>5. \A h \in Find("cloud", id)' :
             h \in Find("cloud", id) /\ CloudAlike(session'[h], session[h])
      BY <1>1, <1>3 DEF CloudAlike
    <3> QED
      BY <2>1, <3>1, <3>3, <3>4, <3>5, CloudFlowKeeps
  <2>2. CASE CloudFlow(id)'
    BY <2>2
  <2> QED
    BY <2>1, <2>2
<1>6. ASSUME NEW id \in ClientIds
      PROVE  ClientFlow(id)'
  <2> DEFINE key == <<"client", id>>
  <2>1. CASE Phase(id)' \in {Phase(id), "none"} /\ p \notin Ending(id)
    <3>1. ClientFlow(id)
      BY DEF OpenFlow
    <3>2. p \notin Carried(key) /\ p \notin Partial(key)
      BY <2>1, KindsOfPackets
    <3>3. /\ HowMany(Stream', Carried(key)) = HowMany(Stream, Carried(key))
          /\ HowMany(Stream', Partial(key)) = HowMany(Stream, Partial(key))
          /\ HowMany(Stream', Ending(id)) = HowMany(Stream, Ending(id))
      BY <1>4, <2>1, <3>2
    <3>4. \A h \in Find("client", id)' :
             /\ h \in Find("client", id) /\ ClientAlike(session'[h], session[h])
             /\ SendsStart(h) => SendsStart(h)'
      BY <1>1, <1>3 DEF ClientAlike, SendsStart
    <3>5. \A h \in Find("client", id) : Started(session[h]) => h \in Find("client", id)'
      BY <1>3
    <3> QED
      BY <2>1, <3>1, <3>3, <3>4, <3>5, ClientFlowKeeps
  <2>2. CASE ClientFlow(id)'
    BY <2>2
  <2> QED
    BY <2>1, <2>2
<1>7. SlotFlow'
  <2>1. \A h \in Live \cap Live' : SameFlow(session'[h], session[h])
    BY <1>1, SameFlowItself
  <2>2. ASSUME NEW id \in ClientIds, SlotStarts(id)
        PROVE  /\ HowMany(Stream, Ending(id)) = 0 => HowMany(Stream', Ending(id)) = 0
               /\ Phase(id)' \in {Phase(id), "none"}
    <3>1. Phase(id) \in {"none", "answered"}
      BY <2>2 DEF OpenFlow, SlotFlow, SlotStarts, SendsStart, Phase
    <3> QED
      BY <1>4, <3>1
  <2>3. SlotKept /\ SlotFlow
    BY <1>1 DEF SlotKept, OpenFlow
  <2> QED
    BY <2>1, <2>2, <2>3, SlotFlowKeeps
<1> QED
  BY <1>5, <1>6, <1>7 DEF OpenFlow

\* A step that changes one conversation leaves the others alone.
LEMMA OtherConversations ==
    ASSUME TypeInv, OpenFlow, NEW key \in Keys, NEW v, conv' = [conv EXCEPT ![key] = v]
    PROVE  /\ conv'[key] = v
           /\ \A id \in CloudIds : <<"cloud", id>> # key => CloudPhaseKept(id)
           /\ \A id \in ClientIds : <<"client", id>> # key => Phase(id)' = Phase(id)
<1>1. conv \in [Keys -> [phase: {"none", "receiving", "replying", "answered", "sending",
                                 "waiting"}, count: Nat, acked: Nat]]
  BY DEF TypeInv, PacketInv, ConvType
<1>2. \A k \in Keys : conv'[k] = IF k = key THEN v ELSE conv[k]
  BY <1>1
<1>3. /\ \A id \in CloudIds : <<"cloud", id>> \in Keys
      /\ \A id \in ClientIds : <<"client", id>> \in Keys
  BY DEF Keys, ClientIds
<1>4. ASSUME NEW id \in CloudIds, <<"cloud", id>> # key
      PROVE  CloudPhaseKept(id)
  <2>1. conv'[<<"cloud", id>>] = conv[<<"cloud", id>>]
    BY <1>2, <1>3, <1>4
  <2>2. conv[<<"cloud", id>>].phase \notin {"replying", "answered"}
    BY DEF OpenFlow, CloudFlow
  <2> QED
    BY <2>1, <2>2 DEF CloudPhaseKept, Coming
<1>5. ASSUME NEW id \in ClientIds, <<"client", id>> # key
      PROVE  Phase(id)' = Phase(id)
  BY <1>2, <1>3, <1>5 DEF Phase
<1> QED
  BY <1>2, <1>4, <1>5

\* The ids of a conversation are numbers.
LEMMA ClientIdTyped == ConstantsAssumption => ClientIds \subseteq Nat
BY DEF ConstantsAssumption, ClientIds

\* The parts of a conversation's key.
LEMMA KeyParts ==
    ASSUME NEW key \in Keys
    PROVE  \/ \E id \in CloudIds : key = <<"cloud", id>>
           \/ \E id \in ClientIds : key = <<"client", id>>
BY DEF Keys, ClientIds

\* ... and their types.
LEMMA KeyTyped ==
    ASSUME ConstantsAssumption, NEW key \in Keys
    PROVE  key[1] \in Owners /\ key[2] \in Nat /\ key = <<key[1], key[2]>>
BY KeyParts, ClientIdTyped DEF ConstantsAssumption, Owners

\* An acknowledgement.
LEMMA CloudAckFlows ==
    ASSUME ConstantsAssumption, TypeInv, TypeInv', OpenFlow, NEW key \in Keys, CloudAck(key)
    PROVE  OpenFlow'
<1> DEFINE p == [op |-> "ack", owner |-> key[1], id |-> key[2], count |-> conv[key].count]
           v == [conv[key] EXCEPT !.acked = conv[key].count]
<1>1. /\ CloudSends(p) /\ conv' = [conv EXCEPT ![key] = v] /\ p.op = "ack"
  BY DEF CloudAck
<1>2. conv[key] \in [phase: {"none", "receiving", "replying", "answered", "sending", "waiting"},
                     count: Nat, acked: Nat]
  BY DEF TypeInv, PacketInv, ConvType
<1>3. v.phase = conv[key].phase /\ v.count = conv[key].count
  BY <1>2
<1>4. p \in Packets
  <2>1. key[1] \in Owners /\ key[2] \in Nat
    BY KeyTyped
  <2> QED
    BY <1>2, <2>1 DEF Packets, AckPacket
<1> HIDE DEF p, v
<1>5. /\ conv'[key] = v
      /\ \A id \in CloudIds : <<"cloud", id>> # key => CloudPhaseKept(id)
      /\ \A id \in ClientIds : <<"client", id>> # key => Phase(id)' = Phase(id)
  BY <1>1, OtherConversations
<1>6. \A id \in CloudIds : CloudPhaseKept(id) /\ p \notin Carried(<<"cloud", id>>)
  <2> SUFFICES ASSUME NEW id \in CloudIds
               PROVE  CloudPhaseKept(id) /\ p \notin Carried(<<"cloud", id>>)
    OBVIOUS
  <2>1. p \notin Carried(<<"cloud", id>>)
    BY <1>1, <1>4, CarriedPackets
  <2>2. conv[<<"cloud", id>>].phase \notin {"replying", "answered"}
    BY DEF OpenFlow, CloudFlow
  <2>3. <<"cloud", id>> = key => CloudPhaseKept(id)
    BY <1>3, <1>5, <2>2 DEF CloudPhaseKept, Coming
  <2> QED
    BY <1>5, <2>1, <2>3
<1>7. \A id \in ClientIds : Phase(id)' = Phase(id) /\ p \notin Ending(id)
  <2> SUFFICES ASSUME NEW id \in ClientIds
               PROVE  Phase(id)' = Phase(id) /\ p \notin Ending(id)
    OBVIOUS
  <2>1. p \notin Ending(id)
    BY <1>1, <1>4, EndingPackets
  <2>2. <<"client", id>> = key => Phase(id)' = Phase(id)
    BY <1>3, <1>5 DEF Phase
  <2>3. <<"client", id>> # key => Phase(id)' = Phase(id)
    BY <1>5
  <2> QED
    BY <2>1, <2>2, <2>3
<1> QED
  BY <1>1, <1>4, <1>6, <1>7, FlowSends

\* The response to a put request: its session waits for it.
LEMMA CloudReplyFlows ==
    ASSUME ConstantsAssumption, TypeInv, TypeInv', OpenFlow, NEW key \in Keys, CloudReply(key)
    PROVE  OpenFlow'
<1>1. conv[key].phase = "replying"
  BY DEF CloudReply
<1>2. PICK id \in ClientIds : key = <<"client", id>>
  <2>1. ASSUME NEW id \in CloudIds, key = <<"cloud", id>>
        PROVE  FALSE
    BY <1>1, <2>1 DEF OpenFlow, CloudFlow
  <2> QED
    BY <2>1, KeyParts
<1> DEFINE p == [op |-> "start", owner |-> "client", id |-> id, last |-> TRUE]
           v == Conversation("answered", 0)
<1>3. /\ CloudSends(p) /\ conv' = [conv EXCEPT ![key] = v]
      /\ p.op = "start" /\ p.owner = "client" /\ p.id = id /\ p.last = TRUE
  BY <1>2 DEF CloudReply
<1>4. p \in Packets
  BY <1>2, ClientIdTyped DEF Packets, DataPacket, Owners
<1>5. v.phase = "answered"
  BY DEF Conversation
<1> HIDE DEF p, v
<1>6. /\ conv'[key] = v
      /\ \A i \in CloudIds : <<"cloud", i>> # key => CloudPhaseKept(i)
      /\ \A i \in ClientIds : <<"client", i>> # key => Phase(i)' = Phase(i)
  BY <1>3, OtherConversations
<1>7. \A i \in CloudIds : CloudPhaseKept(i) /\ p \notin Carried(<<"cloud", i>>)
  BY <1>2, <1>3, <1>4, <1>6, CarriedPackets
<1>8. \A i \in ClientIds : i # id => Phase(i)' = Phase(i) /\ p \notin Ending(i)
  <2> SUFFICES ASSUME NEW i \in ClientIds, i # id
               PROVE  Phase(i)' = Phase(i) /\ p \notin Ending(i)
    OBVIOUS
  <2>1. p \notin Ending(i)
    BY <1>3, <1>4, EndingPackets
  <2>2. <<"client", i>> # key
    BY <1>2
  <2>3. Phase(i)' = Phase(i)
    BY <1>6, <2>2
  <2> QED
    BY <2>1, <2>3
<1>9. p \in Ending(id) /\ p \in Carried(key) /\ p \notin Partial(key)
  BY <1>2, <1>3, <1>4, CarriedPackets, EndingPackets DEF Partial
<1>10. Phase(id) = "replying" /\ Phase(id)' = "answered"
  BY <1>1, <1>2, <1>5, <1>6 DEF Phase
<1>11. PICK h \in Find("client", id) : session[h].st = "receive"
  BY <1>1, <1>2 DEF OpenFlow, ClientFlow
<1>12. h \in Live /\ Find("client", id) = {h}
  <2>1. h \in Live /\ session[h].owner = "client" /\ session[h].id = id
    BY <1>11 DEF Find
  <2> QED
    BY <2>1, FoundAlone
<1>13. session' = session /\ Stream' = Append(Stream, p) /\ Find("client", id)' = {h}
  BY <1>3, <1>4, <1>12, StreamSent DEF CloudSends, listVars, Find, Live
<1>14. /\ HowMany(Stream, Ending(id)) = 0 /\ HowMany(Stream, Partial(key)) = 0
       /\ HowMany(Stream, Carried(key)) = 0
  <2>1. HowMany(Stream, Ending(id)) = 0 /\ HowMany(Stream, Partial(key)) = 0
    BY <1>2, <1>10 DEF OpenFlow, ClientFlow, Phase
  <2> QED
    BY <1>2, <2>1, StreamTyped, KindsOfPackets, NoneOfSubset
<1>15. /\ HowMany(Stream', Ending(id)) = 1 /\ HowMany(Stream', Partial(key)) = 0
       /\ HowMany(Stream', Carried(key)) = 1
  <2>1. \A S : HowMany(Stream', S) = HowMany(Stream, S) + (IF p \in S THEN 1 ELSE 0)
    BY <1>4, <1>13, StreamTyped, AtTheEnd
  <2> QED
    BY <1>9, <1>14, <2>1
<1>16. ClientFlow(id)'
  <2>1. session'[h].st = "receive" /\ Started(session[h])'
    BY <1>11, <1>13 DEF Started
  <2>2. ClientFlowOf(h, id)'
    BY <1>2, <1>15, <2>1 DEF ClientFlowOf, Unsent
  <2> QED
    BY <1>2, <1>10, <1>13, <1>15, <2>1, <2>2 DEF ClientFlow, Phase
<1> QED
  BY <1>3, <1>4, <1>7, <1>8, <1>10, <1>16, FlowSends

\* An error: the session of the put request that it ends is there.
LEMMA CloudErrorFlows ==
    ASSUME ConstantsAssumption, TypeInv, TypeInv', OpenFlow, NEW key \in Keys, CloudError(key)
    PROVE  OpenFlow'
<1>1. conv[key].phase \notin {"none", "answered"}
  BY DEF CloudError
<1> DEFINE sends == conv[key].phase \in {"sending", "waiting", "replying"}
<1>2. PICK p : /\ p = [op |-> "error", id |-> key[2], sender |-> sends,
                       request |-> IF key[1] = "cloud" THEN sends ELSE ~sends]
               /\ CloudSends(p)
  BY DEF CloudError
<1>3. key[1] \in Owners /\ key[2] \in Nat
  BY KeyTyped
<1>4. p \in ErrorPacket /\ p.op = "error" /\ p.id = key[2] /\ ErrorOwnerReceived(p) = key[1]
  <2> HIDE DEF sends
  <2>1. sends \in BOOLEAN
    BY DEF sends
  <2>2. p \in ErrorPacket /\ p.op = "error" /\ p.id = key[2] /\ p.sender = sends
        /\ p.request = (IF key[1] = "cloud" THEN sends ELSE ~sends)
    BY <1>2, <1>3, <2>1 DEF ErrorPacket
  <2> QED
    BY <1>3, <2>1, <2>2 DEF ErrorOwnerReceived, Owners
<1>5. p \in Packets
  BY <1>4 DEF Packets
<1>6. conv' = [conv EXCEPT ![key] = NoConversation] /\ NoConversation.phase = "none"
  BY DEF CloudError, NoConversation
<1>7. /\ conv'[key].phase = "none"
      /\ \A i \in CloudIds : <<"cloud", i>> # key => CloudPhaseKept(i)
      /\ \A i \in ClientIds : <<"client", i>> # key => Phase(i)' = Phase(i)
  BY <1>6, OtherConversations
<1>8. \A i \in CloudIds : CloudPhaseKept(i) /\ p \notin Carried(<<"cloud", i>>)
  <2> SUFFICES ASSUME NEW i \in CloudIds
               PROVE  CloudPhaseKept(i) /\ p \notin Carried(<<"cloud", i>>)
    OBVIOUS
  <2>1. p \notin Carried(<<"cloud", i>>)
    BY <1>4, <1>5, CarriedPackets
  <2>2. <<"cloud", i>> = key => CloudPhaseKept(i)
    BY <1>7 DEF CloudPhaseKept, Coming
  <2> QED
    BY <1>7, <2>1, <2>2
<1>9. \A i \in ClientIds : <<"client", i>> # key =>
          Phase(i)' \in {Phase(i), "none"} /\ p \notin Ending(i)
  <2> SUFFICES ASSUME NEW i \in ClientIds, <<"client", i>> # key
               PROVE  Phase(i)' = Phase(i) /\ p \notin Ending(i)
    OBVIOUS
  <2>1. ~(key[1] = "client" /\ key[2] = i)
    <3>1. key = <<key[1], key[2]>>
      BY KeyTyped
    <3> QED
      BY <3>1
  <2>2. p \notin Ending(i)
    BY <1>4, <1>5, <2>1, EndingPackets
  <2>3. Phase(i)' = Phase(i)
    BY <1>7
  <2> QED
    BY <2>2, <2>3
<1>10. ASSUME NEW id \in ClientIds, <<"client", id>> = key
       PROVE  Phase(id) \notin {"none", "answered"} /\ ClientFlow(id)'
  <2>1. conv \in ConvType
    BY DEF TypeInv, PacketInv
  <2>2. Phase(id) \in {"receiving", "replying"} /\ Phase(id)' = "none"
    <3>1. Phase(id) \in {"none", "receiving", "replying", "answered", "sending", "waiting"}
      BY <1>10, <2>1 DEF ConvType, Phase
    <3>2. Phase(id) \notin {"sending", "waiting"}
      BY DEF OpenFlow, ClientFlow, Phase
    <3>3. Phase(id) \notin {"none", "answered"} /\ Phase(id)' = "none"
      BY <1>1, <1>7, <1>10 DEF Phase
    <3> QED
      BY <3>1, <3>2, <3>3
  <2>3. /\ HowMany(Stream, Ending(id)) = 0 /\ HowMany(Stream, Partial(key)) = 0
        /\ HowMany(Stream, Carried(key)) = 0
    <3>1. HowMany(Stream, Ending(id)) = 0 /\ HowMany(Stream, Partial(key)) = 0
      BY <1>10, <2>2 DEF OpenFlow, ClientFlow, Phase
    <3> QED
      BY <1>10, <3>1, StreamTyped, KindsOfPackets, NoneOfSubset
  <2>4. p \in Ending(id) /\ p \notin Carried(key) /\ p \notin Partial(key)
    <3>1. key[1] = "client" /\ key[2] = id
      BY <1>10
    <3>2. p \in Ending(id) /\ p \notin Carried(<<"client", id>>)
      BY <1>4, <1>5, <3>1, EndingPackets, CarriedPackets
    <3> QED
      BY <1>10, <3>2, KindsOfPackets
  <2>5. session' = session /\ Stream' = Append(Stream, p) /\ slot' = slot
        /\ Find("client", id)' = Find("client", id)
    BY <1>2, <1>5, StreamSent DEF CloudSends, listVars, sendVars, Find, Live
  <2>6. /\ HowMany(Stream', Ending(id)) = 1 /\ HowMany(Stream', Partial(key)) = 0
        /\ HowMany(Stream', Carried(key)) = 0
    <3>1. \A S : HowMany(Stream', S) = HowMany(Stream, S) + (IF p \in S THEN 1 ELSE 0)
      BY <1>5, <2>5, StreamTyped, AtTheEnd
    <3> QED
      BY <2>3, <2>4, <3>1
  <2>7. \E h \in Find("client", id) : Started(session[h])
    BY <2>2 DEF OpenFlow, ClientFlow, Phase
  <2>8. \A h \in Find("client", id) : ClientFlowOf(h, id)'
    <3>1. \A h \in Find("client", id) : ClientFlowOf(h, id)
      BY DEF OpenFlow, ClientFlow
    <3> QED
      BY <2>2, <2>5, <3>1 DEF ClientFlowOf, Phase
  <2>9. \E h \in Find("client", id)' : Started(session[h])'
    BY <2>5, <2>7 DEF Started
  <2> QED
    BY <1>10, <2>2, <2>5, <2>6, <2>8, <2>9 DEF ClientFlow, Phase
<1> QED
  BY <1>2, <1>5, <1>8, <1>9, <1>10, FlowSends

\* The first packet of a device request: nothing of an earlier one that had
\* its id is on its way.
LEMMA CloudStartFlows ==
    ASSUME ConstantsAssumption, TypeInv, TypeInv', OpenFlow, NEW key \in Keys,
           NEW last \in BOOLEAN, CloudStart(key, last)
    PROVE  OpenFlow'
<1>1. key[1] = "cloud" /\ Unused(key)
  BY DEF CloudStart
<1>2. PICK id \in CloudIds : key = <<"cloud", id>>
  BY <1>1, KeyParts
<1> DEFINE p == [op |-> "start", owner |-> key[1], id |-> key[2], last |-> last]
           v == Conversation(IF last THEN "waiting" ELSE "sending", 1)
<1>3. /\ CloudSends(p) /\ conv' = [conv EXCEPT ![key] = v]
      /\ p.op = "start" /\ p.owner = "cloud" /\ p.id = id
  BY <1>2 DEF CloudStart
<1>4. p \in Packets
  BY KeyTyped DEF Packets, DataPacket
<1>5. v.phase \in {"waiting", "sending"} /\ v.count = 1
  BY DEF Conversation
<1> HIDE DEF p, v
<1>6. /\ conv'[key] = v
      /\ \A i \in CloudIds : <<"cloud", i>> # key => CloudPhaseKept(i)
      /\ \A i \in ClientIds : <<"client", i>> # key => Phase(i)' = Phase(i)
  BY <1>3, OtherConversations
<1>7. ASSUME NEW i \in CloudIds, i # id
      PROVE  CloudPhaseKept(i) /\ p \notin Carried(<<"cloud", i>>)
  <2>1. p \notin Carried(<<"cloud", i>>)
    BY <1>3, <1>4, <1>7, CarriedPackets
  <2>2. <<"cloud", i>> # key
    BY <1>2, <1>7
  <2> QED
    BY <1>6, <2>1, <2>2
<1>8. ASSUME NEW i \in ClientIds
      PROVE  Phase(i)' = Phase(i) /\ p \notin Ending(i)
  <2>1. p \notin Ending(i)
    BY <1>3, <1>4, EndingPackets
  <2>2. <<"client", i>> # key
    BY <1>2
  <2> QED
    BY <1>6, <2>1, <2>2
<1>9. Find("cloud", id) = {} /\ Find("cloud", id)' = {}
  <2>1. Find("cloud", id) = {}
    BY <1>1, <1>2 DEF Unused
  <2> QED
    BY <1>3, <2>1 DEF CloudSends, listVars, Find, Live
<1>10. HowMany(Stream, Carried(key)) = 0
  <2>1. ASSUME NEW q \in Carried(key)
        PROVE  "id" \in DOMAIN q /\ q.id = id
    BY <1>2, <2>1 DEF Carried, DataPacket
  <2>2. /\ \A i \in 1 .. Len(inbound) : inbound[i] \notin Carried(key)
        /\ held \notin Carried(key)
    BY <1>1, <1>2, <2>1 DEF Unused
  <2>3. HowMany(inbound, Carried(key)) = 0 /\ inbound \in Seq(Packets)
    BY <2>2, StreamTyped, HowManyTyped
  <2>4. held # NoPacket => HowMany(<<held>> \o inbound, Carried(key)) = 0
    <3>1. held # NoPacket =>
             HowMany(<<held>> \o inbound, Carried(key))
                = HowMany(inbound, Carried(key)) + (IF held \in Carried(key) THEN 1 ELSE 0)
      BY <2>3, StreamTyped, AtTheHead
    <3> QED
      BY <2>2, <2>3, <3>1
  <2> QED
    BY <2>3, <2>4 DEF Stream
<1>11. CloudFlow(id)'
  <2>1. Stream' = Append(Stream, p)
    BY <1>3, <1>4, StreamSent
  <2>2. p \in Carried(key)
    BY <1>2, <1>3, <1>4, CarriedPackets
  <2>3. HowMany(Stream', Carried(key)) = 1
    <3>1. HowMany(Stream', Carried(key)) = HowMany(Stream, Carried(key)) + 1
      BY <1>4, <2>1, <2>2, StreamTyped, AtTheEnd
    <3> QED
      BY <1>10, <3>1
  <2>4. NoneBefore(Stream', Carried(key), Starting(key))
    <3>1. NoneBefore(Stream, Carried(key), Starting(key))
      BY <1>2 DEF OpenFlow, CloudFlow
    <3> QED
      BY <1>4, <1>10, <2>1, <3>1, StreamTyped, AtTheEnd
  <2> QED
    BY <1>2, <1>5, <1>6, <1>9, <2>3, <2>4 DEF CloudFlow
<1>12. \A i \in CloudIds :
           \/ CloudPhaseKept(i) /\ p \notin Carried(<<"cloud", i>>)
           \/ CloudFlow(i)'
  BY <1>7, <1>11
<1> QED
  BY <1>3, <1>4, <1>8, <1>12, FlowSends

\* More of a device request.
LEMMA CloudDataFlows ==
    ASSUME ConstantsAssumption, TypeInv, TypeInv', OpenFlow, NEW key \in Keys,
           NEW last \in BOOLEAN, CloudData(key, last)
    PROVE  OpenFlow'
<1>1. conv[key].phase = "sending"
  BY DEF CloudData
<1>2. PICK id \in CloudIds : key = <<"cloud", id>>
  <2>1. ASSUME NEW id \in ClientIds, key = <<"client", id>>
        PROVE  FALSE
    BY <1>1, <2>1 DEF OpenFlow, ClientFlow
  <2> QED
    BY <2>1, KeyParts
<1> DEFINE p == [op |-> "data", owner |-> key[1], id |-> key[2], last |-> last]
           c == conv[key]
           v == [c EXCEPT !.count = @ + 1, !.phase = IF last THEN "waiting" ELSE @]
<1>3. /\ CloudSends(p)
      /\ p.op = "data" /\ p.owner = "cloud" /\ p.id = id
  BY <1>2 DEF CloudData
<1>4. p \in Packets
  BY KeyTyped DEF Packets, DataPacket
<1>5. /\ c \in [phase: {"none", "receiving", "replying", "answered", "sending", "waiting"},
                count: Nat, acked: Nat]
      /\ conv \in [Keys -> [phase: {"none", "receiving", "replying", "answered", "sending",
                                    "waiting"}, count: Nat, acked: Nat]]
  BY DEF TypeInv, PacketInv, ConvType
<1>6. v.phase \in {"waiting", "sending"} /\ v.count = c.count + 1
  BY <1>1, <1>5
<1>7. conv' = [conv EXCEPT ![key] = v]
  BY <1>5 DEF CloudData
<1> HIDE DEF p, v
<1>8. /\ conv'[key] = v
      /\ \A i \in CloudIds : <<"cloud", i>> # key => CloudPhaseKept(i)
      /\ \A i \in ClientIds : <<"client", i>> # key => Phase(i)' = Phase(i)
  BY <1>7, OtherConversations
<1>9. ASSUME NEW i \in CloudIds, i # id
      PROVE  CloudPhaseKept(i) /\ p \notin Carried(<<"cloud", i>>)
  <2>1. p \notin Carried(<<"cloud", i>>)
    BY <1>3, <1>4, <1>9, CarriedPackets
  <2>2. <<"cloud", i>> # key
    BY <1>2, <1>9
  <2> QED
    BY <1>8, <2>1, <2>2
<1>10. ASSUME NEW i \in ClientIds
      PROVE  Phase(i)' = Phase(i) /\ p \notin Ending(i)
  <2>1. p \notin Ending(i)
    BY <1>3, <1>4, EndingPackets
  <2>2. <<"client", i>> # key
    BY <1>2
  <2> QED
    BY <1>8, <2>1, <2>2
<1>11. CloudFlow(id)'
  <2>1. Stream' = Append(Stream, p)
    BY <1>3, <1>4, StreamSent
  <2>2. p \in Carried(key) /\ p \notin Starting(key)
    BY <1>2, <1>3, <1>4, CarriedPackets DEF Starting
  <2>3. /\ HowMany(Stream', Carried(key)) = HowMany(Stream, Carried(key)) + 1
        /\ HowMany(Stream', Starting(key)) = HowMany(Stream, Starting(key))
        /\ HowMany(Stream, Carried(key)) \in Nat
    <3>1. \A S : HowMany(Stream', S) = HowMany(Stream, S) + (IF p \in S THEN 1 ELSE 0)
      BY <1>4, <2>1, StreamTyped, AtTheEnd
    <3>2. \A S : HowMany(Stream, S) \in Nat
      BY StreamTyped, HowManyTyped
    <3> QED
      BY <2>2, <3>1, <3>2
  <2>4. CloudFlow(id)
    BY DEF OpenFlow
  <2>5. NoneBefore(Stream', Carried(key), Starting(key))
    <3>1. NoneBefore(Stream, Carried(key), Starting(key))
      BY <1>2, <2>4 DEF CloudFlow
    <3> QED
      BY <1>4, <2>1, <2>2, <3>1, StreamTyped, AtTheEnd
  <2>6. /\ session' = session /\ Find("cloud", id)' = Find("cloud", id)
        /\ \A h \in Find("cloud", id) : session[h].total \in Nat
    <3>1. \A h \in Find("cloud", id) : session[h].total \in Nat
      BY RequestTyped DEF Find, Proper, Session
    <3> QED
      BY <1>3, <3>1 DEF CloudSends, listVars, Find, Live
  <2>7. conv'[key].phase \notin {"replying", "answered"} /\ Coming(key)'
        /\ conv'[key].count = conv[key].count + 1
    BY <1>6, <1>8 DEF Coming
  <2>8. Coming(key)
    BY <1>1 DEF Coming
  <2> DEFINE n  == HowMany(Stream, Carried(key))
             n1 == HowMany(Stream', Carried(key))
  <2>9. HowMany(Stream', Starting(key)) # 0 =>
           /\ conv'[key].count = n1
           /\ \A h \in Find("cloud", id) : session[h].request /\ session[h].total = 0
    <3>1. HowMany(Stream, Starting(key)) # 0 =>
             /\ conv[key].count = n
             /\ \A h \in Find("cloud", id) : session[h].request /\ session[h].total = 0
      BY <1>2, <2>4, <2>8 DEF CloudFlow
    <3> QED
      BY <2>3, <2>7, <3>1
  <2>10. ASSUME NEW h \in Find("cloud", id), session[h].request
         PROVE  /\ session[h].st \notin Unsent
                /\ session[h].st \notin Lost => conv'[key].count = session[h].total + n1
    <3>1. /\ session[h].st \notin Unsent
          /\ session[h].st \notin Lost => conv[key].count = session[h].total + n
      BY <1>2, <2>4, <2>8, <2>10 DEF CloudFlow
    <3>2. (session[h].total + n) + 1 = session[h].total + (n + 1)
      <4>1. PICK t \in Nat, m \in Nat : t = session[h].total /\ m = n
        BY <2>3, <2>6
      <4>2. (t + m) + 1 = t + (m + 1)
        OBVIOUS
      <4> QED
        BY <4>1, <4>2
    <3> QED
      BY <2>3, <2>7, <3>1, <3>2
  <2> HIDE DEF n, n1
  <2> QED
    BY <1>2, <2>5, <2>6, <2>7, <2>9, <2>10 DEF CloudFlow, n1
<1>12. \A i \in CloudIds :
           \/ CloudPhaseKept(i) /\ p \notin Carried(<<"cloud", i>>)
           \/ CloudFlow(i)'
  BY <1>9, <1>11
<1> QED
  BY <1>3, <1>4, <1>10, <1>12, FlowSends

\* What Device Cloud sends.
LEMMA CloudFlows ==
    ASSUME ConstantsAssumption, TypeInv, TypeInv', OpenFlow, Cloud
    PROVE  OpenFlow' /\ pc' = pc
<1>1. PICK key \in Keys :
        \/ CloudAck(key)
        \/ CloudReply(key)
        \/ \E last \in BOOLEAN : CloudStart(key, last) \/ CloudData(key, last)
        \/ CloudError(key)
  BY DEF Cloud
<1>2. pc' = pc
  BY <1>1 DEF CloudAck, CloudReply, CloudStart, CloudData, CloudError, CloudSends
<1>3. OpenFlow'
  BY <1>1, CloudAckFlows, CloudReplyFlows, CloudStartFlows, CloudDataFlows, CloudErrorFlows
<1> QED
  BY <1>2, <1>3

-----------------------------------------------------------------------------
\* The socket is closed: what was on its way is gone.
LEMMA CloseNetworkFlows ==
    ASSUME ConstantsAssumption, TypeInv, OpenFlow, CloseNetwork
    PROVE  ClosedFlow'
<1>1. /\ pc' = "cleanup" /\ slot' = NoSlot /\ inbound' = << >>
      /\ conv' = [key \in Keys |-> IF conv[key].phase \in {"replying", "answered"}
                                   THEN Conversation("answered", 0)
                                   ELSE NoConversation]
  BY DEF CloseNetwork, AbortSend
<1>2. slot'.kind = "empty"
  BY <1>1 DEF NoSlot
<1>3. Conversation("answered", 0).phase = "answered" /\ NoConversation.phase = "none"
  BY DEF Conversation, NoConversation
<1>4. \A id \in ClientIds : conv'[<<"client", id>>].phase \in {"none", "answered"}
  <2>1. \A id \in ClientIds : <<"client", id>> \in Keys
    BY DEF Keys, ClientIds
  <2> QED
    BY <1>1, <1>3, <2>1
<1>5. \A id \in CloudIds : conv'[<<"cloud", id>>].phase = "none"
  <2>1. \A id \in CloudIds : <<"cloud", id>> \in Keys
    BY DEF Keys
  <2>2. \A id \in CloudIds : conv[<<"cloud", id>>].phase \notin {"replying", "answered"}
    BY DEF OpenFlow, CloudFlow
  <2> QED
    BY <1>1, <1>3, <2>1, <2>2
<1> QED
  BY <1>1, <1>2, <1>4, <1>5 DEF ClosedFlow

\* A new connection: nothing is on its way, nobody is there.
LEMMA ReopenFlows ==
    ASSUME TypeInv, ClosedFlow, Reopen
    PROVE  OpenFlow'
<1>1. /\ session' = session /\ slot' = slot /\ conv' = conv /\ inbound' = inbound
      /\ held' = NoPacket /\ pc = "down"
  BY DEF Reopen, listVars, sendVars
<1>2. Stream' = << >>
  BY <1>1 DEF ClosedFlow, Stream
<1>3. \A owner, id : Find(owner, id)' = {}
  BY <1>1 DEF ClosedFlow, Find, Live
<1>4. \A S, T : HowMany(Stream', S) = 0 /\ NoneBefore(Stream', S, T)
  BY <1>2, EmptyStream
<1>5. ASSUME NEW id \in CloudIds
      PROVE  CloudFlow(id)'
  <2>1. conv'[<<"cloud", id>>].phase = "none"
    BY <1>1 DEF ClosedFlow
  <2> QED
    BY <1>3, <1>4, <2>1 DEF CloudFlow
<1>6. ASSUME NEW id \in ClientIds
      PROVE  ClientFlow(id)'
  <2>1. conv'[<<"client", id>>].phase \in {"none", "answered"}
    BY <1>1 DEF ClosedFlow
  <2>2. /\ HowMany(Stream', Ending(id)) = 0 /\ HowMany(Stream', Carried(<<"client", id>>)) = 0
        /\ HowMany(Stream', Partial(<<"client", id>>)) = 0
    BY <1>4
  <2> QED
    BY <1>3, <2>1, <2>2 DEF ClientFlow
<1>7. SlotFlow'
  BY <1>1 DEF ClosedFlow, SlotFlow
<1> QED
  BY <1>5, <1>6, <1>7 DEF OpenFlow

\* Between two connections.
LEMMA ClosedStays ==
    ASSUME TypeInv, ClosedFlow,
           CleanupSession \/ CleanupRequest \/ Terminate
    PROVE  ClosedFlow'
<1>1. CASE CleanupSession
  <2>1. pc' = "cleanup" /\ inbound' = inbound /\ conv' = conv /\ slot' = Dangling(Head(list))
    BY <1>1 DEF CleanupSession, recvVars
  <2>2. slot'.kind = slot.kind
    BY <2>1, DanglingTyped DEF TypeInv, CoreInv
  <2> QED
    BY <2>1, <2>2 DEF ClosedFlow
<1>2. CASE CleanupRequest
  <2>1. /\ inbound' = inbound /\ conv' = conv /\ slot' = slot /\ session' = session
        /\ list = << >>
    BY <1>2 DEF CleanupRequest, recvVars, sendVars, listVars
  <2>2. Live = {}
    BY <2>1 DEF TypeInv, CoreInv, StateInv, ListInv, Elements
  <2> QED
    BY <2>1, <2>2 DEF ClosedFlow, Live
<1>3. CASE Terminate
  <2>1. /\ inbound' = inbound /\ conv' = conv /\ slot' = slot /\ session' = session
        /\ pc = "down"
    BY <1>3 DEF Terminate, recvVars, sendVars, listVars
  <2> QED
    BY <2>1 DEF ClosedFlow, Live
<1> QED
  BY <1>1, <1>2, <1>3

\* The flow at the start, and at every step.
LEMMA FlowInit == ConstantsAssumption /\ Init => FlowInv
<1> SUFFICES ASSUME ConstantsAssumption, Init
             PROVE  OpenFlow
  BY DEF FlowInv, Open, Init
<1>1. Stream = << >> /\ Live = {}
  BY DEF Init, Stream, Live
<1>2. \A owner, id : Find(owner, id) = {}
  BY <1>1 DEF Find
<1>3. \A S, T : HowMany(Stream, S) = 0 /\ NoneBefore(Stream, S, T)
  BY <1>1, EmptyStream
<1>4. \A key \in Keys : conv[key].phase = "none"
  BY DEF Init, NoConversation
<1>5. ASSUME NEW id \in CloudIds
      PROVE  CloudFlow(id)
  <2>1. conv[<<"cloud", id>>].phase = "none"
    BY <1>4 DEF Keys
  <2> QED
    BY <1>2, <1>3, <2>1 DEF CloudFlow
<1>6. ASSUME NEW id \in ClientIds
      PROVE  ClientFlow(id)
  <2>1. conv[<<"client", id>>].phase = "none"
    BY <1>4 DEF Keys, ClientIds
  <2>2. /\ HowMany(Stream, Ending(id)) = 0 /\ HowMany(Stream, Carried(<<"client", id>>)) = 0
        /\ HowMany(Stream, Partial(<<"client", id>>)) = 0
    BY <1>3
  <2> QED
    BY <1>2, <2>1, <2>2 DEF ClientFlow
<1>7. SlotFlow
  BY DEF Init, NoSlot, SlotFlow
<1> QED
  BY <1>5, <1>6, <1>7 DEF OpenFlow

LEMMA FlowStep ==
    ASSUME ConstantsAssumption, TypeInv, TypeInv', FlowInv, [Next]_vars,
           "error" \notin SendAnswers
    PROVE  FlowInv'
<1>1. CASE UNCHANGED vars
  <2>1. pc' = pc /\ (FlowInv' <=> FlowInv)
    BY <1>1 DEF vars, listVars, sendVars, recvVars, FlowInv, Open, OpenFlow, ClosedFlow,
                CloudFlow, ClientFlow, ClientFlowOf, SlotFlow, Find, Live, Coming, Stream,
                StillHeld, SendsStart, Started
  <2> QED
    BY <2>1
<1>2. CASE Step
  <2>1. Open /\ Open' /\ OpenFlow
    BY <1>2 DEF Step, SendStep, ReceiveStep, StartStep, PollStep, Open, FlowInv
  <2>2. OpenFlow'
    BY <1>2, <2>1, SendStepFlows, ReceiveStepFlows, StartStepFlows, PollStepFlows DEF Step
  <2> QED
    BY <2>1, <2>2 DEF FlowInv
<1>3. CASE Disconnect
  <2>1. /\ Open /\ Open' /\ OpenFlow /\ session' = session /\ slot' = slot /\ conv' = conv
        /\ UNCHANGED <<held, inbound>> /\ StillHeld' /\ StillHeld
    BY <1>3 DEF Disconnect, Open, FlowInv, listVars, sendVars, recvVars, StillHeld
  <2>2. OpenFlow'
    BY <2>1, StreamUnmoved, SameConversations, FlowUntouched DEF SlotKept
  <2> QED
    BY <2>1, <2>2 DEF FlowInv
<1>4. CASE CloseNetwork
  <2>1. OpenFlow /\ ~Open'
    BY <1>4 DEF CloseNetwork, FlowInv, Open
  <2> QED
    BY <1>4, <2>1, CloseNetworkFlows DEF FlowInv
<1>5. CASE CleanupSession \/ CleanupRequest \/ Terminate
  <2>1. ClosedFlow /\ ~Open'
    BY <1>5 DEF CleanupSession, CleanupRequest, Terminate, FlowInv, Open
  <2> QED
    BY <1>5, <2>1, ClosedStays DEF FlowInv
<1>6. CASE Reopen
  <2>1. ClosedFlow /\ Open'
    BY <1>6 DEF Reopen, FlowInv, Open
  <2> QED
    BY <1>6, <2>1, ReopenFlows DEF FlowInv
<1>7. CASE Cloud
  <2>1. Open /\ OpenFlow
    <3>1. Connected
      BY <1>7 DEF Cloud, CloudAck, CloudReply, CloudStart, CloudData, CloudError, CloudSends
    <3> QED
      BY <3>1 DEF Connected, Open, FlowInv
  <2>2. OpenFlow' /\ pc' = pc
    BY <1>7, <2>1, CloudFlows
  <2> QED
    BY <2>1, <2>2 DEF FlowInv, Open
<1>8. CASE \E req \in Requests : Initiate(req)
  <2>1. /\ Open /\ pc' = pc /\ OpenFlow /\ session' = session /\ slot' = slot /\ conv' = conv
        /\ UNCHANGED <<held, inbound, result>>
    BY <1>8 DEF Initiate, Connected, Open, FlowInv, listVars, sendVars, recvVars
  <2>2. OpenFlow'
    BY <2>1, StreamUnmoved, SameConversations, FlowUntouched DEF SlotKept, StillHeld
  <2> QED
    BY <2>1, <2>2 DEF FlowInv, Open
<1> QED
  BY <1>1, <1>2, <1>3, <1>4, <1>5, <1>6, <1>7, <1>8 DEF Next, Closing

\* What is under way or held back is what the stream carries.
LEMMA DueIs ==
    ASSUME TypeInv, Connected, NEW h \in Live
    PROVE  LET key == <<session[h].owner, session[h].id>>
           IN  Cardinality(UnderWay(key)) + (IF HeldBack(key) THEN 1 ELSE 0)
                  = HowMany(Stream, Carried(key))
<1> DEFINE key == <<session[h].owner, session[h].id>>
<1>1. PICK k : k = key
  OBVIOUS
<1>2. /\ inbound \in Seq(Packets)
      /\ held # NoPacket => held \in Packets
      /\ NoPacket.op = "none"
  BY StreamTyped DEF NoPacket
<1>3. ASSUME NEW p \in Packets
      PROVE  p \in Carried(k) <=> p.op \in {"start", "data"} /\ <<p.owner, p.id>> = k
  BY <1>1, CarriedPackets
<1>4. UnderWay(k) = {i \in 1 .. Len(inbound) : inbound[i] \in Carried(k)}
  <2>1. \A i \in 1 .. Len(inbound) : inbound[i] \in Packets
    BY <1>2
  <2> QED
    BY <1>3, <2>1 DEF UnderWay
<1>5. Cardinality(UnderWay(k)) = HowMany(inbound, Carried(k))
  BY <1>4 DEF HowMany
<1>6. HeldBack(k) <=> held # NoPacket /\ StillHeld /\ held \in Carried(k)
  BY <1>2, <1>3 DEF HeldBack, StillHeld
<1>7. HowMany(inbound, Carried(k)) \in Nat
  BY <1>2, HowManyTyped
<1>8. HowMany(Stream, Carried(k)) = HowMany(inbound, Carried(k)) + (IF HeldBack(k) THEN 1 ELSE 0)
  <2>1. CASE held # NoPacket /\ StillHeld
    <3>1. Stream = <<held>> \o inbound
      BY <2>1 DEF Stream
    <3>2. HowMany(<<held>> \o inbound, Carried(k))
             = HowMany(inbound, Carried(k)) + (IF held \in Carried(k) THEN 1 ELSE 0)
      BY <1>2, <2>1, AtTheHead
    <3> QED
      BY <1>6, <2>1, <3>1, <3>2
  <2>2. CASE ~(held # NoPacket /\ StillHeld)
    BY <1>6, <1>7, <2>2 DEF Stream
  <2> QED
    BY <2>1, <2>2
<1> QED
  BY <1>1, <1>5, <1>8

\* So no packet is lost for the session it is for.
LEMMA FlowCounts == TypeInv /\ FlowInv => NothingDropped
<1> SUFFICES ASSUME TypeInv, FlowInv, Connected, NEW h \in Live,
                    session[h].st \notin {"send_error", "delete"}
             PROVE  LET s   == session[h]
                        key == <<s.owner, s.id>>
                        due == Cardinality(UnderWay(key)) + (IF HeldBack(key) THEN 1 ELSE 0)
                    IN  /\ conv[key].phase \in {"sending", "waiting"} /\ s.request
                              => conv[key].count = s.total + due
                        /\ conv[key].phase = "answered" /\ s.st = "receive" => due = 1
  BY DEF NothingDropped
<1> DEFINE key == <<session[h].owner, session[h].id>>
           due == Cardinality(UnderWay(key)) + (IF HeldBack(key) THEN 1 ELSE 0)
<1>1. due = HowMany(Stream, Carried(key))
  BY DueIs
<1> HIDE DEF due
<1>2. OpenFlow
  BY DEF FlowInv, Open, Connected
<1>3. key \in Keys
  BY DEF TypeInv, CoreInv, StateInv, KeyInv
<1>4. ASSUME NEW id \in CloudIds, key = <<"cloud", id>>
      PROVE  /\ conv[key].phase \in {"sending", "waiting"} /\ session[h].request
                   => conv[key].count = session[h].total + due
             /\ conv[key].phase # "answered"
  <2>1. h \in Find("cloud", id) /\ CloudFlow(id)
    BY <1>2, <1>4 DEF Find, OpenFlow
  <2> HIDE DEF key
  <2> QED
    BY <1>1, <1>4, <2>1 DEF CloudFlow, Coming, Lost
<1>5. ASSUME NEW id \in ClientIds, key = <<"client", id>>
      PROVE  /\ conv[key].phase \notin {"sending", "waiting"}
             /\ conv[key].phase = "answered" /\ session[h].st = "receive" => due = 1
  <2>1. h \in Find("client", id) /\ ClientFlow(id)
    BY <1>2, <1>5 DEF Find, OpenFlow
  <2> HIDE DEF key
  <2> QED
    BY <1>1, <1>5, <2>1 DEF ClientFlow, ClientFlowOf
<1> QED
  BY <1>3, <1>4, <1>5, KeyParts DEF due

\* Every packet that Device Cloud sent to a session was taken by it, or is
\* under way, or is held to be offered again: no packet is dropped, and none is
\* taken twice.  The hypothesis leaves out one path of the code: when the
\* user cancels a message, the error of the polled session overrules the status
\* of the packet that is held (msg_process), and that packet is released.
THEOREM NothingIsDropped ==
    ASSUME "error" \notin SendAnswers
    PROVE  Spec => []NothingDropped
<1>1. Init => FlowInv
  BY FlowInit, ConstantsAssumption
<1>2. TypeInv /\ TypeInv' /\ FlowInv /\ [Next]_vars => FlowInv'
  BY FlowStep, ConstantsAssumption
<1>3. TypeInv /\ FlowInv => NothingDropped
  BY FlowCounts
<1> QED
  BY <1>1, <1>2, <1>3, TypeInvariant, PTL DEF Spec
=============================================================================
