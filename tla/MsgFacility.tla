----------------------------- MODULE MsgFacility -----------------------------
(***************************************************************************)
(* The messaging facility of one Cloud Connector over TCP, carrying the    *)
(* data service: put requests of the user (or of the data points service)  *)
(* and device requests of Device Cloud, in sessions that share one send    *)
(* buffer, one send slot and one receive buffer.                           *)
(*                                                                         *)
(* connector_edp_step alternates a send step and a receive step.  A        *)
(* receive step hands at most one packet to the facility (msg_process),    *)
(* starts a session for a pending request (msg_start_session) and then     *)
(* polls one session (msg_process_pending); "pc" says which of these comes *)
(* next, because a user thread may queue a request between any two.        *)
(*                                                                         *)
(* Messages are counted in packets: a packet is the unit of the windows.   *)
(* Device Cloud and the user's callbacks are the environment.              *)
(***************************************************************************)
EXTENDS Naturals, Sequences, FiniteSets, SequencesExt, FiniteSetsExt

CONSTANTS
    UserRequests,     \* put requests of the user
    InternalRequests, \* put requests of the data points service
    CloudIds,         \* transaction ids Device Cloud uses for device requests
    NoRequest,        \* NULL in pending_service_request
    MaxSessions,      \* bound on the sessions in memory
    MaxId,            \* ids wrap here (MSG_INVALID_CLIENT_SESSION - 1)
    MaxTransactions,  \* [owner -> max_transactions]; 0 is unlimited
    CloudWindow,      \* window Device Cloud announces, in packets
    RecvWindow,       \* MSG_RECV_WINDOW_SIZE, in packets
    MaxOut,           \* bound on the packets of a message of the device
    MaxIn,            \* bound on the packets of a message of Device Cloud
    MaxInbound,       \* bound on the packets under way to the device
    SendAnswers,      \* what the send_data and receive_reply_data callbacks answer
    TakeAnswers,      \* what the callbacks that take data answer
    StatusAnswers,    \* what the status callbacks answer
    BusyBuffers,      \* buffers whose allocation may answer busy
    StuckRequests,    \* requests whose send_data callback always answers busy
    CloudErrors,      \* Device Cloud may end a conversation with an error
    KeepAlives,       \* rx keepalives compete for the send buffer
    Disconnects,      \* the connection may break or be stopped
    Terminates,       \* the user may terminate the connector
    Resubmits         \* requests, of either side, that may be sent again

Requests == UserRequests \cup InternalRequests
Talks    == Requests \cup CloudIds
Owners   == {"client", "cloud"}
Handles  == 1 .. MaxSessions
NoHandle == 0
Keys     == ({"client"} \X (1 .. MaxId)) \cup ({"cloud"} \X CloudIds)

ASSUME ConstantsAssumption ==
    /\ UserRequests \cap InternalRequests = {}
    /\ Requests \cap CloudIds = {}
    /\ NoRequest \notin Requests
    /\ MaxSessions \in Nat \ {0}
    /\ MaxId \in Nat \ {0}
    /\ CloudIds \subseteq Nat
    /\ MaxTransactions \in [Owners -> Nat]
    /\ CloudWindow \in Nat \ {0}
    /\ RecvWindow \in Nat \ {0}
    /\ MaxOut \in Nat \ {0}
    /\ MaxIn \in Nat \ {0}
    /\ MaxInbound \in Nat
    /\ SendAnswers \subseteq {"continue", "busy", "error"}
    /\ TakeAnswers \subseteq {"continue", "busy", "error"}
    /\ StatusAnswers \subseteq {"continue", "busy"}
    /\ BusyBuffers \subseteq {"session", "put_request", "service"}
    /\ StuckRequests \subseteq Requests
    /\ Resubmits \subseteq Talks
    /\ {CloudErrors, KeepAlives, Disconnects, Terminates} \subseteq BOOLEAN

VARIABLES
    pc,        \* what the connector does next
    session,   \* [Handles -> session in that memory, or Free]
    list,      \* msg_ptr->session: head first
    current,   \* msg_ptr->session.current
    active,    \* active_transactions by owner
    lastId,    \* last_assigned_id
    pending,   \* pending_service_request: user and internal
    told,      \* the status the owner of a message was told
    slot,      \* edp_data.send_packet
    bufInUse,  \* edp_data.send_packet.packet_buffer.in_use
    held,      \* fac_ptr->packet_buffer: the packet being processed
    result,    \* status of the packet in this round
    inbound,   \* packets under way to the device
    conv,      \* what Device Cloud knows of each conversation
    fault      \* undefined behaviour or a failed assertion: the end

listVars == <<session, list, current, active>>
sendVars == <<slot, bufInUse>>
recvVars == <<held, result, inbound>>
vars == <<pc, session, list, current, active, lastId, pending, told,
          slot, bufInUse, held, result, inbound, conv, fault>>

-----------------------------------------------------------------------------
\* Sessions.

Free == [st |-> "free"]

States == {"get_data", "wait_send_complete", "receive", "send_ack",
           "send_error", "delete"}

\* The request_type of data_service_context_t; "none" is a NULL context and
\* "status" stands for send_status and receive_status.
RequestTypes == {"none", "send_data", "target", "data", "reply_length",
                 "reply_data", "status"}

\* request, start, last, ackPending: the MSG_FLAGs of the data block in use;
\* total, acked: its counters; errRequest, errSender: error_flag; reason:
\* service_layer_data.error_value.
Session ==
    [st: States, owner: Owners, id: Nat, req: Talks,
     request: BOOLEAN, start: BOOLEAN, last: BOOLEAN, ackPending: BOOLEAN,
     total: Nat, acked: Nat, rt: RequestTypes,
     reason: {"none", "cancel", "error"},
     errRequest: BOOLEAN, errSender: BOOLEAN]

\* Device Cloud's requests and the replies to the client's are received.
Receiving(s) == s.request <=> s.owner = "cloud"

Live == {h \in Handles : session[h] # Free}

\* msg_find_session.
Find(owner, id) ==
    {h \in Live : session[h].owner = owner /\ session[h].id = id}

\* msg_find_next_available_id: the first free id after the last one assigned,
\* cyclically; after a wrap id 0 is skipped.
FreeIds == {id \in 1 .. MaxId : Find("client", id) = {}}
\* Mutants: without the wrap; without asking whether the id is free.
NextIdPastWrap  == lastId + 1
NextIdUnchecked == IF lastId = MaxId THEN 1 ELSE lastId + 1

NextId  == LET above == {id \in FreeIds : id > lastId}
           IN  IF above # {} THEN Min(above) ELSE Min(FreeIds)

\* msg_initialize_data_block with msg_default_data_block.
FreshBlock(s, request, st) ==
    [s EXCEPT !.request = request, !.st = st, !.start = TRUE, !.last = FALSE,
              !.ackPending = FALSE, !.total = 0, !.acked = 0]

NewSession(owner, id, req, st, rt) ==
    [st |-> st, owner |-> owner, id |-> id, req |-> req, request |-> TRUE,
     start |-> TRUE, last |-> FALSE, ackPending |-> FALSE, total |-> 0,
     acked |-> 0, rt |-> rt, reason |-> "none", errRequest |-> FALSE,
     errSender |-> FALSE]

\* Mutant: the sender of a response does not say that it was sending.
SetErrorNoSender(s) ==
    IF s.owner = "client" /\ s.request /\ s.start
    THEN [s EXCEPT !.st = "delete"]
    ELSE [s EXCEPT !.st = "send_error", !.errRequest = s.request,
                   !.errSender = s.owner = "client" /\ s.request]

\* msg_set_error.
SetError(s) ==
    LET clientRequest  == s.owner = "client" /\ ~Receiving(s)
        clientResponse == s.owner = "cloud" /\ ~Receiving(s)
        cloudRequest   == s.owner = "cloud" /\ Receiving(s)
    IN  IF clientRequest /\ s.start
        THEN [s EXCEPT !.st = "delete"]
        ELSE [s EXCEPT
                !.st = "send_error",
                !.errRequest = clientRequest \/ cloudRequest
                                   \/ (clientResponse /\ s.start),
                !.errSender = clientRequest \/ (clientResponse /\ ~s.start)]

\* Mutant: one transaction too many.
MayCreateOneMore(owner) ==
    /\ MaxTransactions[owner] # 0 => active[owner] <= MaxTransactions[owner]
    /\ owner = "client" => FreeIds # {}

\* The limits msg_create_session checks before it allocates.
MayCreate(owner) ==
    /\ MaxTransactions[owner] # 0 => active[owner] < MaxTransactions[owner]
    /\ owner = "client" => FreeIds # {}

\* malloc_data_buffer: memory for MaxSessions sessions.
HasMemory == Live # Handles
MayLackMemory == ~HasMemory \/ "session" \in BusyBuffers
NewHandle == Min(Handles \ Live)

\* add_list_node, and the count.
AddSession(h, s) ==
    /\ session' = [session EXCEPT ![h] = s]
    /\ list' = <<h>> \o list
    /\ active' = [active EXCEPT ![s.owner] = @ + 1]
    /\ UNCHANGED current

\* session->prev, or the tail: the session polled after h.
Position(h) == CHOOSE i \in 1 .. Len(list) : list[i] = h
Without(h)  == RemoveAt(list, Position(h))
TailOf(seq) == IF seq = << >> THEN NoHandle ELSE seq[Len(seq)]
Before(h, seq) ==
    IF Position(h) > 1 THEN list[Position(h) - 1] ELSE TailOf(seq)

\* session.current after h left the list.
CursorKept(h, cursor)  == cursor \* Mutant: not moved.
CursorAfter(h, cursor) == IF cursor = h THEN Before(h, Without(h)) ELSE cursor

\* Mutant: the same session again.
Stay(h)   == current' = h
Switch(h) == current' = Before(h, list)

-----------------------------------------------------------------------------
\* Telling the owner of a message how it ended.

\* Mutant: the error_value does not reach the callback.
OutcomeLost(reason) == "complete"
Outcome(reason) == IF reason = "none" THEN "complete" ELSE reason

\* A status callback that answers busy has not taken the status.
Tell(t, req, reason, answer) ==
    [t EXCEPT ![req] =
        IF @ \notin {"waiting", "busy"} THEN "twice"
        ELSE IF answer = "busy" THEN "busy" ELSE Outcome(reason)]

\* Mutant: the status call leaves no trace in the request type.
InformedUnmarked(s, reason, answer) ==
    LET s1 == [s EXCEPT !.reason = reason]
    IN  IF answer = "busy" THEN s1 ELSE SetError(s1)

\* msg_inform_error: the session after the status callback answered.
Informed(s, reason, answer) ==
    LET s1 == [s EXCEPT !.rt = "status", !.reason = reason]
    IN  IF answer = "busy" THEN s1 ELSE SetError(s1)

\* msg_delete_session: unlink, count, tell the owner unless a status call was
\* made before, free.  Whatever the status callback answers, the session goes;
\* without a context (rt is "none") the callback is not reached.
\* "cursor" is session.current at this point, t what was told before.
DeleteSession(h, s, t, cursor) ==
    /\ session' = [session EXCEPT ![h] = Free]
    /\ list' = Without(h)
    /\ current' = CursorAfter(h, cursor)
    /\ active' = [active EXCEPT ![s.owner] = @ - 1]
    /\ \E answer \in StatusAnswers :
          told' = IF s.rt \in {"status", "none"} THEN t
                  ELSE Tell(t, s.req, s.reason, answer)
    /\ fault' = IF s.rt = "none" THEN "null_context" ELSE fault

-----------------------------------------------------------------------------
\* Packets, the send slot and Device Cloud.

DataPacket == [op: {"start", "data"}, owner: Owners, id: Nat, last: BOOLEAN]
AckPacket  == [op: {"ack"}, owner: Owners, id: Nat, count: Nat]
ErrorPacket == [op: {"error"}, request: BOOLEAN, sender: BOOLEAN, id: Nat]
KeepAlive  == [op |-> "keepalive"]
NoPacket   == [op |-> "none"]
Packets    == DataPacket \cup AckPacket \cup ErrorPacket

\* An error names the session's owner: request errors name their sender's own.
ErrorOwner(p) == IF p.request = p.sender THEN "client" ELSE "cloud"
\* The same rule read by the receiver (msg_process_error).
ErrorOwnerReceived(p) ==
    IF p.request # p.sender THEN "client" ELSE "cloud"

NoSlot == [kind |-> "empty", session |-> NoHandle, packet |-> NoPacket]
\* tcp_initiate_send_facility_packet with msg_send_complete or with
\* tcp_release_packet_buffer as the complete callback.
DataSlot(h, p) == [kind |-> "data", session |-> h, packet |-> p]
ControlSlot(p) == [kind |-> "control", session |-> NoHandle, packet |-> p]

\* tcp_get_packet_buffer returns the one buffer, or NULL.
BufferFree == slot.kind = "empty" /\ ~bufInUse

\* The slot keeps its user_data when the session it points to is freed.
Dangling(h) == IF slot.session = h THEN [slot EXCEPT !.session = NoHandle]
               ELSE slot

NoConversation == [phase |-> "none", count |-> 0, acked |-> 0]
Conversation(phase, count) == [phase |-> phase, count |-> count, acked |-> 0]

\* One more packet of a message it receives.
Counted(v, last) ==
    [v EXCEPT !.count = @ + 1, !.phase = IF last THEN "replying" ELSE @]

\* The device acknowledged count packets of a message it sends.
Acknowledged(v, count) == [v EXCEPT !.acked = count]

\* Device Cloud takes a packet of the device.
CloudTakes(c, p) ==
    CASE p.op = "start" /\ p.owner = "client" ->
            [c EXCEPT ![<<p.owner, p.id>>] =
                Conversation(IF p.last THEN "replying" ELSE "receiving", 1)]
      [] p.op = "start" /\ p.owner = "cloud" ->
            [c EXCEPT ![<<p.owner, p.id>>] =
                IF @.phase # "waiting" THEN @
                ELSE IF p.last THEN NoConversation
                ELSE Conversation("receiving", 1)]
      [] p.op = "data" ->
            [c EXCEPT ![<<p.owner, p.id>>] =
                IF @.phase # "receiving" THEN @
                ELSE IF p.last /\ p.owner = "cloud" THEN NoConversation
                ELSE Counted(@, p.last)]
      [] p.op = "ack" ->
            [c EXCEPT ![<<p.owner, p.id>>] =
                IF @.phase = "sending" THEN Acknowledged(@, p.count) ELSE @]
      [] p.op = "error" /\ <<ErrorOwner(p), p.id>> \in Keys ->
            [c EXCEPT ![<<ErrorOwner(p), p.id>>] = NoConversation]
      [] OTHER -> c

Connected == pc \in {"send", "receive", "start", "poll"}

\* A packet Device Cloud sends goes to the end of the stream.
CloudSends(p) ==
    /\ Connected
    /\ Len(inbound) < MaxInbound
    /\ inbound' = Append(inbound, p)
    /\ UNCHANGED <<pc, listVars, lastId, pending, told, sendVars, held, result,
                   fault>>

CloudAck(key) ==
    /\ conv[key].phase = "receiving"
    /\ conv[key].count - conv[key].acked > CloudWindow \div 2
    /\ CloudSends([op |-> "ack", owner |-> key[1], id |-> key[2],
                   count |-> conv[key].count])
    /\ conv' = [conv EXCEPT ![key].acked = conv[key].count]

\* The response to a put request is one packet.
CloudReply(key) ==
    /\ conv[key].phase = "replying"
    /\ CloudSends([op |-> "start", owner |-> key[1], id |-> key[2],
                   last |-> TRUE])
    /\ conv' = [conv EXCEPT ![key] = Conversation("answered", 0)]

\* The 16-bit ids of Device Cloud are not used again while the device or a
\* packet knows the conversation.
Unused(key) ==
    /\ conv[key].phase = "none"
    /\ Find(key[1], key[2]) = {}
    /\ \A p \in {inbound[i] : i \in 1 .. Len(inbound)}
                \cup {held, slot.packet} :
          "id" \in DOMAIN p => p.id # key[2]

CloudStart(key, last) ==
    /\ key[1] = "cloud"
    /\ Unused(key)
    /\ key[2] \in Resubmits \/ told[key[2]] = "unsent"
    /\ MaxIn = 1 => last
    /\ CloudSends([op |-> "start", owner |-> key[1], id |-> key[2],
                   last |-> last])
    /\ conv' = [conv EXCEPT ![key] =
                  Conversation(IF last THEN "waiting" ELSE "sending", 1)]

CloudData(key, last) ==
    /\ conv[key].phase = "sending"
    /\ conv[key].count - conv[key].acked < RecvWindow
    /\ conv[key].count + 1 >= MaxIn => last
    /\ CloudSends([op |-> "data", owner |-> key[1], id |-> key[2],
                   last |-> last])
    /\ conv' = [conv EXCEPT ![key].count = @ + 1,
                            ![key].phase = IF last THEN "waiting" ELSE @]

\* The flags say whether it is an error of the request or of the response and
\* whether Device Cloud was sending it.
CloudError(key) ==
    /\ CloudErrors
    /\ conv[key].phase \notin {"none", "answered"}
    /\ LET sends == conv[key].phase \in {"sending", "waiting", "replying"}
       IN  CloudSends([op |-> "error", id |-> key[2], sender |-> sends,
                       request |-> IF key[1] = "cloud" THEN sends ELSE ~sends])
    /\ conv' = [conv EXCEPT ![key] = NoConversation]

Cloud ==
    \E key \in Keys :
        \/ CloudAck(key)
        \/ CloudReply(key)
        \/ \E last \in BOOLEAN : CloudStart(key, last) \/ CloudData(key, last)
        \/ CloudError(key)

-----------------------------------------------------------------------------
\* connector_initiate_action(send_data): edp_initiate_action,
\* data_service_initiate and msg_initiate_request.  The caller waits for the
\* status of a request before it sends it again.
Initiate(req) ==
    LET who == IF req \in UserRequests THEN "user" ELSE "internal"
    IN  /\ Connected
        /\ told[req] \notin {"waiting", "busy"}
        /\ req \in Resubmits \/ told[req] = "unsent"
        /\ pending[who] = NoRequest
        /\ pending' = [pending EXCEPT ![who] = req]
        /\ told' = [told EXCEPT ![req] = "waiting"]
        /\ UNCHANGED <<pc, listVars, lastId, sendVars, recvVars, conv, fault>>

-----------------------------------------------------------------------------
\* The send step: edp_tcp_send_process.

\* tcp_rx_keepalive_process takes the buffer when nothing is to be sent.
SendKeepAlive ==
    /\ KeepAlives
    /\ BufferFree
    /\ slot' = ControlSlot(KeepAlive)
    /\ bufInUse' = TRUE
    /\ UNCHANGED <<listVars, told, conv, fault>>

\* Nothing to send, or the network took only a part of the packet.
SendNothing ==
    UNCHANGED <<listVars, told, sendVars, conv, fault>>

\* Mutant: the complete callback does not release the buffer.
SendControlKeeps ==
    /\ slot.kind = "control"
    /\ slot' = NoSlot
    /\ conv' = CloudTakes(conv, slot.packet)
    /\ UNCHANGED <<bufInUse, listVars, told, fault>>

\* The packet is out; the complete callback is tcp_release_packet_buffer.
SendControlComplete ==
    /\ slot.kind = "control"
    /\ slot' = NoSlot
    /\ bufInUse' = FALSE
    /\ conv' = CloudTakes(conv, slot.packet)
    /\ UNCHANGED <<listVars, told, fault>>

\* The packet is out; the complete callback is msg_send_complete.
SendDataComplete ==
    /\ slot.kind = "data"
    /\ slot.session # NoHandle
    /\ slot' = NoSlot
    /\ bufInUse' = FALSE
    /\ conv' = CloudTakes(conv, slot.packet)
    /\ LET h == slot.session
           s == session[h]
       IN  IF s.last /\ ~s.request
           THEN DeleteSession(h, s, told, current)
           ELSE /\ session' = [session EXCEPT
                                 ![h].st = IF s.last THEN "receive"
                                           ELSE "get_data"]
                /\ UNCHANGED <<list, current, active, told, fault>>

\* msg_send_complete follows user_data to a session that was freed.
SendDataDangling ==
    /\ slot.kind = "data"
    /\ slot.session = NoHandle
    /\ fault' = "use_after_free"
    /\ UNCHANGED <<listVars, told, sendVars, conv>>

SendStep ==
    /\ pc = "send"
    /\ pc' = "receive"
    /\ \/ SendKeepAlive
       \/ SendNothing
       \/ SendControlComplete
       \/ SendDataComplete
       \/ SendDataDangling
    /\ UNCHANGED <<lastId, pending, recvVars>>

-----------------------------------------------------------------------------
\* The receive step, part 1: a packet from Device Cloud.

\* msg_send_error for a session that does not exist.
ErrorForNobody(p) ==
    /\ slot' = ControlSlot([op |-> "error", request |-> p.owner = "cloud",
                            sender |-> FALSE, id |-> p.id])
    /\ bufInUse' = TRUE

\* process_ds_receive_target and process_ds_receive_data: the context after
\* the receive callback answered, and the status of the call.
DeviceRequest(rt, last, answer) ==
    CASE rt = "target" ->
            [rt |-> CASE answer = "continue" -> "data"
                      [] answer = "error" -> "reply_length"
                      [] answer = "busy" -> "target",
             status |-> "pending"]
      [] rt = "data" ->
            [rt |-> CASE answer = "error" -> "reply_length"
                      [] answer = "continue" /\ last -> "reply_data"
                      [] OTHER -> "data",
             status |-> IF answer = "busy" THEN "pending" ELSE "working"]
      [] OTHER -> [rt |-> rt, status |-> "working"]

\* msg_pass_service_data once the service has taken the data: acknowledge,
\* wait for more, turn to the response, or end.
Taken(s, last) ==
    LET total == s.total + 1
        s1    == [s EXCEPT !.start = FALSE, !.last = last]
    IN  IF ~last
        THEN [s1 EXCEPT !.total = total,
                        !.st = IF total - s.acked > RecvWindow \div 2
                               THEN "send_ack" ELSE "receive"]
        ELSE IF s.request THEN FreshBlock(s1, FALSE, "get_data")
        ELSE [s1 EXCEPT !.st = "delete"]

\* msg_process_service_data for the session s in h: a device request goes to
\* the data service's receive callbacks.
PassDeviceRequest(s, p, answer) ==
    IF s.rt = "none" /\ answer = "no_memory"
    THEN [s |-> [s EXCEPT !.last = p.last], status |-> "pending"]
    ELSE LET rt == IF s.rt = "none" THEN "target" ELSE s.rt
             d  == DeviceRequest(rt, p.last, answer)
             s1 == [s EXCEPT !.rt = d.rt, !.last = p.last]
         IN  [s |-> IF d.status = "working" THEN Taken(s1, p.last) ELSE s1,
              status |-> d.status]

\* ... and the response to a put request to process_send_response.
PassResponse(s, p, answer) ==
    LET s1 == [s EXCEPT !.last = p.last]
    IN  CASE answer = "continue" ->
                [s |-> Taken(s1, p.last), status |-> "working"]
          [] answer = "busy" -> [s |-> s1, status |-> "pending"]
          [] answer = "error" ->
                [s |-> SetError([s1 EXCEPT !.reason = "cancel"]),
                 status |-> "unavailable"]

Pass(s, p, answer) ==
    IF s.st # "receive"
    THEN [s |-> s, status |-> IF s.st \in {"send_error", "delete"}
                              THEN "working" ELSE "active"]
    ELSE IF s.owner = "cloud" THEN PassDeviceRequest(s, p, answer)
    ELSE PassResponse(s, p, answer)

PassAnswers(s) ==
    TakeAnswers \cup
        IF s.owner = "cloud" /\ s.rt = "none" /\ "service" \in BusyBuffers
        THEN {"no_memory"} ELSE {}

\* msg_process_start creates a session for a device request.
StartDeviceRequest(p) ==
    /\ p.op = "start" /\ p.owner = "cloud" /\ Find(p.owner, p.id) = {}
    /\ MayCreate("cloud") /\ HasMemory
    /\ LET s == NewSession("cloud", p.id, p.id, "receive", "none")
       IN  \E answer \in PassAnswers(s) :
              LET done == Pass(s, p, answer)
              IN  /\ AddSession(NewHandle, done.s)
                  /\ result' = done.status
    /\ told' = [told EXCEPT ![p.id] = "waiting"]
    /\ UNCHANGED <<sendVars, fault>>

\* ... or refuses it: at the transaction limit, or without memory.  The error
\* goes out only if the send buffer happens to be free.
RefuseDeviceRequest(p) ==
    /\ p.op = "start" /\ p.owner = "cloud" /\ Find(p.owner, p.id) = {}
    /\ ~MayCreate("cloud") \/ MayLackMemory
    /\ IF BufferFree THEN ErrorForNobody(p) ELSE UNCHANGED sendVars
    /\ result' = "working"
    /\ UNCHANGED <<listVars, told, fault>>

\* A response to a session that is gone.
StartUnknown(p) ==
    /\ p.op = "start" /\ p.owner = "client" /\ Find(p.owner, p.id) = {}
    /\ IF BufferFree THEN ErrorForNobody(p) ELSE UNCHANGED sendVars
    /\ result' = "working"
    /\ UNCHANGED <<listVars, told, fault>>

\* msg_process_data without a session: held until the error can be sent.
DataUnknown(p) ==
    /\ p.op = "data" /\ Find(p.owner, p.id) = {}
    /\ IF BufferFree
       THEN ErrorForNobody(p) /\ result' = "working"
       ELSE UNCHANGED sendVars /\ result' = "pending"
    /\ UNCHANGED <<listVars, told, fault>>

\* msg_process_start and msg_process_data for an existing session.  The START
\* of a response turns the session round, unless it has an error to send.
PassToSession(p) ==
    /\ p.op \in {"start", "data"}
    /\ \E h \in Find(p.owner, p.id) :
          LET s == IF /\ p.op = "start"
                      /\ p.owner = "client"
                      /\ session[h].st # "send_error"
                   THEN FreshBlock(session[h], FALSE, "receive")
                   ELSE session[h]
          IN  \E answer \in PassAnswers(s) :
                 LET done == Pass(s, p, answer)
                 IN  /\ session' = [session EXCEPT ![h] = done.s]
                     /\ result' = done.status
    /\ UNCHANGED <<list, current, active, told, sendVars, fault>>

\* msg_process_ack.
ProcessAck(p) ==
    /\ p.op = "ack"
    /\ session' =
          [h \in Handles |->
              IF h \in Find(p.owner, p.id) /\ ~Receiving(session[h])
              THEN [session[h] EXCEPT !.acked = p.count, !.ackPending = FALSE]
              ELSE session[h]]
    /\ result' = "working"
    /\ UNCHANGED <<list, current, active, told, sendVars, fault>>

\* msg_process_error: the owner is told, then the session is deleted; a busy
\* owner keeps both the session and the packet.
ErrorKnown(p) ==
    {h \in Find(ErrorOwnerReceived(p), p.id) :
        session[h].st \notin {"delete", "send_error"}}

ProcessError(p) ==
    /\ p.op = "error"
    /\ \E h \in ErrorKnown(p), answer \in StatusAnswers :
          LET s == session[h]
              s1 == Informed(s, "error", answer)
              t  == Tell(told, s.req, "error", answer)
          IN  IF s.rt = "none"
              THEN /\ fault' = "null_context"
                   /\ UNCHANGED <<listVars, told, sendVars, result>>
              ELSE IF answer = "busy"
              THEN /\ session' = [session EXCEPT ![h] = s1]
                   /\ told' = t
                   /\ result' = "pending"
                   /\ UNCHANGED <<list, current, active, sendVars, fault>>
              ELSE /\ DeleteSession(h, s1, t, current)
                   /\ slot' = Dangling(h)
                   /\ result' = "working"
                   /\ UNCHANGED bufInUse

ErrorUnknown(p) ==
    /\ p.op = "error"
    /\ ErrorKnown(p) = {}
    /\ result' = "working"
    /\ UNCHANGED <<listVars, told, sendVars, fault>>

Process(p) ==
    \/ StartDeviceRequest(p)
    \/ RefuseDeviceRequest(p)
    \/ StartUnknown(p)
    \/ DataUnknown(p)
    \/ PassToSession(p)
    \/ ProcessAck(p)
    \/ ProcessError(p)
    \/ ErrorUnknown(p)

\* tcp_receive_packet has no buffer while the facility holds a packet.
ReceiveNothing ==
    /\ held = NoPacket
    /\ result' = "idle"
    /\ UNCHANGED <<held, inbound, listVars, told, sendVars, fault>>

ReceivePacket ==
    /\ held = NoPacket
    /\ inbound # << >>
    /\ held' = Head(inbound)
    /\ inbound' = Tail(inbound)
    /\ Process(Head(inbound))

ProcessHeld ==
    /\ held # NoPacket
    /\ Process(held)
    /\ UNCHANGED <<held, inbound>>

ReceiveStep ==
    /\ pc = "receive"
    /\ pc' = "start"
    /\ ReceiveNothing \/ ReceivePacket \/ ProcessHeld
    /\ UNCHANGED <<lastId, pending, conv>>

-----------------------------------------------------------------------------
\* The receive step, part 2: msg_start_session for a pending request.

NextPending ==
    IF pending["user"] # NoRequest THEN "user" ELSE "internal"

\* msg_create_session, msg_handle_pending_requests, data_service_put_request_init.
StartRequest ==
    /\ pending[NextPending] # NoRequest
    /\ MayCreate("client") /\ HasMemory
    /\ lastId' = NextId
    /\ pending' = [pending EXCEPT ![NextPending] = NoRequest]
    /\ AddSession(NewHandle, NewSession("client", NextId, pending[NextPending],
                                        "get_data", "send_data"))
    /\ UNCHANGED <<told, fault>>

\* No memory for the context: process_send_error follows the NULL context of
\* the new session to report it.
StartWithoutContext ==
    /\ pending[NextPending] # NoRequest
    /\ MayCreate("client") /\ HasMemory
    /\ "put_request" \in BusyBuffers
    /\ fault' = "null_context"
    /\ UNCHANGED <<listVars, lastId, pending, told>>

\* No request, no free transaction, or no memory for the session.
StartNothing ==
    /\ \/ pending[NextPending] = NoRequest /\ UNCHANGED lastId
       \/ ~MayCreate("client") /\ UNCHANGED lastId
       \/ /\ pending[NextPending] # NoRequest
          /\ MayCreate("client")
          /\ MayLackMemory
          /\ lastId' = NextId
    /\ UNCHANGED <<listVars, pending, told, fault>>

StartStep ==
    /\ pc = "start"
    /\ pc' = "poll"
    /\ StartRequest \/ StartWithoutContext \/ StartNothing
    /\ UNCHANGED <<sendVars, recvVars, conv>>

-----------------------------------------------------------------------------
\* The receive step, part 3: msg_process_pending polls one session.

Polled == IF current # NoHandle THEN current ELSE TailOf(list)

PollNobody ==
    /\ Polled = NoHandle
    /\ UNCHANGED <<listVars, told, sendVars, fault>>

\* Nothing to do for this session, or it must wait: turn to the next one.
PollSwitch ==
    /\ Polled # NoHandle
    /\ \/ session[Polled].st \in {"receive", "wait_send_complete"}
       \/ session[Polled].st = "get_data" /\ session[Polled].ackPending
       \/ session[Polled].st = "get_data" /\ ~BufferFree
    /\ Switch(Polled)
    /\ UNCHANGED <<session, list, active, told, sendVars, fault>>

\* What the service layer is asked for in msg_get_service_data.
MayAskForData ==
    /\ Polled # NoHandle
    /\ session[Polled].st = "get_data"
    /\ ~session[Polled].ackPending
    /\ BufferFree

\* process_send_request asks the sender of a put request whatever it was asked
\* before; process_data_service_device_response only for the reply.
MayAnswer(s) == s.owner = "client" \/ s.rt \in {"reply_length", "reply_data"}

Answers(s) ==
    IF s.req \in StuckRequests THEN {"busy"} ELSE SendAnswers

\* Another packet would exceed the window.
WindowFull(total, acked)     == total - acked >= CloudWindow

\* The user filled the buffer: msg_process_send_data.
PollSendData ==
    /\ MayAskForData
    /\ "continue" \in Answers(session[Polled])
    /\ MayAnswer(session[Polled])
    /\ \E last \in BOOLEAN :
          LET s     == session[Polled]
              total == s.total + 1
          IN  /\ total >= MaxOut => last
              /\ session' = [session EXCEPT ![Polled] =
                    [s EXCEPT !.st = "wait_send_complete", !.start = FALSE,
                              !.last = last, !.total = total,
                              !.ackPending = WindowFull(total, s.acked)]]
              /\ slot' = DataSlot(Polled,
                    [op |-> IF s.start THEN "start" ELSE "data",
                     owner |-> s.owner, id |-> s.id, last |-> last])
    /\ bufInUse' = TRUE
    /\ current' = Polled
    /\ UNCHANGED <<list, active, told, fault>>

\* The user has no data yet: the buffer is released, the next session's turn.
PollBusy ==
    /\ MayAskForData
    /\ "busy" \in Answers(session[Polled])
    /\ MayAnswer(session[Polled])
    /\ Switch(Polled)
    /\ UNCHANGED <<session, list, active, told, sendVars, fault>>

\* The user cancels the message.
PollCancel ==
    /\ MayAskForData
    /\ "error" \in Answers(session[Polled])
    /\ session[Polled].owner = "client" \/ session[Polled].rt = "reply_data"
    /\ LET s  == session[Polled]
           rt == IF s.rt = "reply_data" THEN "reply_length" ELSE s.rt
       IN  session' = [session EXCEPT ![Polled] =
                          SetError([s EXCEPT !.reason = "cancel", !.rt = rt])]
    /\ current' = Polled
    /\ UNCHANGED <<list, active, told, sendVars, fault>>

\* The owner of a device request was told its end already.
PollAfterStatus ==
    /\ MayAskForData
    /\ ~MayAnswer(session[Polled])
    /\ fault' = "assertion"
    /\ UNCHANGED <<listVars, told, sendVars>>

\* msg_send_ack.
PollSendAck ==
    /\ Polled # NoHandle
    /\ session[Polled].st = "send_ack"
    /\ BufferFree
    /\ LET s == session[Polled]
       IN  /\ slot' = ControlSlot([op |-> "ack", owner |-> s.owner,
                                   id |-> s.id, count |-> s.total])
           /\ session' = [session EXCEPT ![Polled].acked = s.total,
                                         ![Polled].st = "receive"]
    /\ bufInUse' = TRUE
    /\ current' = Polled
    /\ UNCHANGED <<list, active, told, fault>>

\* msg_send_error: the error is queued, the session deleted.
PollSendError ==
    /\ Polled # NoHandle
    /\ session[Polled].st = "send_error"
    /\ BufferFree
    /\ LET s == session[Polled]
       IN  /\ slot' = ControlSlot([op |-> "error", request |-> s.errRequest,
                                   sender |-> s.errSender, id |-> s.id])
           /\ DeleteSession(Polled, s, told, Polled)
    /\ bufInUse' = TRUE

\* No buffer for an acknowledgement or an error: the same session again.
PollNoBuffer ==
    /\ Polled # NoHandle
    /\ session[Polled].st \in {"send_ack", "send_error"}
    /\ ~BufferFree
    /\ current' = Polled
    /\ UNCHANGED <<session, list, active, told, sendVars, fault>>

PollDelete ==
    /\ Polled # NoHandle
    /\ session[Polled].st = "delete"
    /\ DeleteSession(Polled, session[Polled], told, Polled)
    /\ slot' = Dangling(Polled)
    /\ UNCHANGED bufInUse

\* Mutant: a packet for a session that is not receiving is released.
ReleaseActive == held' = IF result = "pending" THEN held ELSE NoPacket

\* layer_facility_process releases the packet unless its handler asked for
\* more time; an error from the polled session overrules the handler's status
\* (msg_process).
Release ==
    held' = IF result \in {"pending", "active"} THEN held ELSE NoPacket

PollStep ==
    /\ pc = "poll"
    /\ pc' = "send"
    /\ \/ /\ \/ PollNobody
             \/ PollSwitch
             \/ PollSendData
             \/ PollBusy
             \/ PollAfterStatus
             \/ PollSendAck
             \/ PollSendError
             \/ PollNoBuffer
             \/ PollDelete
          /\ Release
       \/ PollCancel /\ held' = NoPacket
    /\ UNCHANGED <<lastId, pending, result, inbound, conv>>

-----------------------------------------------------------------------------
\* The end of a connection: tcp_close_cloud.

\* The network failed, Device Cloud closed, or the user stopped the transport.
Disconnect ==
    /\ Disconnects
    /\ pc \in {"send", "receive"}
    /\ pc' = "close"
    /\ UNCHANGED <<listVars, lastId, pending, told, sendVars, recvVars, conv,
                   fault>>

\* Mutant: nobody completes the send.
AbortNothing == UNCHANGED <<session, told, fault, slot, bufInUse>>

\* What was being sent completes with an error (tcp_send_complete_callback).
AbortSend ==
    /\ slot' = NoSlot
    /\ bufInUse' = FALSE
    /\ IF slot.kind # "data"
       THEN UNCHANGED <<session, told, fault>>
       ELSE IF slot.session = NoHandle
       THEN fault' = "use_after_free" /\ UNCHANGED <<session, told>>
       ELSE \E answer \in StatusAnswers :
               LET s == session[slot.session]
               IN  /\ session' = [session EXCEPT ![slot.session] =
                                     Informed(s, "error", answer)]
                   /\ told' = Tell(told, s.req, "error", answer)
                   /\ UNCHANGED fault

\* The socket is closed.  Device Cloud forgets its conversations, not what it
\* got completely.
CloseNetwork ==
    /\ pc = "close"
    /\ pc' = "cleanup"
    /\ AbortSend
    /\ inbound' = << >>
    /\ conv' = [key \in Keys |-> IF conv[key].phase \in {"replying", "answered"}
                               THEN Conversation("answered", 0)
                               ELSE NoConversation]
    /\ UNCHANGED <<list, current, active, lastId, pending, held, result>>

\* msg_cleanup_all_sessions, one session.
CleanupSession ==
    /\ pc = "cleanup"
    /\ list # << >>
    /\ LET h == Head(list)
           s == session[h]
       IN  /\ IF s.st \in {"delete", "send_error"}
              THEN DeleteSession(h, s, told, current)
              ELSE \E answer \in StatusAnswers :
                      DeleteSession(h, IF s.rt = "none" THEN s
                                       ELSE Informed(s, "cancel", answer),
                                    Tell(told, s.req, "cancel", answer), current)
          /\ slot' = Dangling(h)
    /\ UNCHANGED <<pc, lastId, pending, bufInUse, recvVars, conv>>

\* Mutant: ... and then nothing.
CleanupUntold ==
    /\ pc = "cleanup"
    /\ list = << >>
    /\ pc' = "down"
    /\ pending' = [who \in DOMAIN pending |-> NoRequest]
    /\ UNCHANGED <<listVars, lastId, told, sendVars, recvVars, conv, fault>>

\* ... and then one request that has no session yet.
CleanupRequest ==
    /\ pc = "cleanup"
    /\ list = << >>
    /\ pc' = "down"
    /\ IF pending[NextPending] = NoRequest
       THEN UNCHANGED <<pending, told>>
       ELSE /\ pending' = [pending EXCEPT ![NextPending] = NoRequest]
            /\ \E answer \in StatusAnswers :
                  told' = Tell(told, pending[NextPending], "cancel", answer)
    /\ UNCHANGED <<listVars, lastId, sendVars, recvVars, conv, fault>>

\* edp_tcp_open_process up to edp_facility_process: the facilities start
\* without a packet (edp_layer_initialize_facilities).
Reopen ==
    /\ pc = "down"
    /\ pc' = "send"
    /\ held' = NoPacket
    /\ UNCHANGED <<listVars, lastId, pending, told, sendVars, result, inbound,
                   conv, fault>>

\* connector_initiate_terminate: the facilities are deleted.
Terminate ==
    /\ Terminates
    /\ pc = "down"
    /\ pc' = "ended"
    /\ pending' = [who \in DOMAIN pending |-> NoRequest]
    /\ UNCHANGED <<listVars, lastId, told, sendVars, recvVars, conv, fault>>

-----------------------------------------------------------------------------
Init ==
    /\ pc = "send"
    /\ session = [h \in Handles |-> Free]
    /\ list = << >>
    /\ current = NoHandle
    /\ active = [owner \in Owners |-> 0]
    /\ lastId = 0
    /\ pending = [who \in {"user", "internal"} |-> NoRequest]
    /\ told = [req \in Talks |-> "unsent"]
    /\ slot = NoSlot
    /\ bufInUse = FALSE
    /\ held = NoPacket
    /\ result = "idle"
    /\ inbound = << >>
    /\ conv = [key \in Keys |-> NoConversation]
    /\ fault = "none"

Step == SendStep \/ ReceiveStep \/ StartStep \/ PollStep

Closing == CloseNetwork \/ CleanupSession \/ CleanupRequest

Next ==
    /\ fault = "none"
    /\ \/ Step
       \/ Disconnect \/ Closing \/ Reopen \/ Terminate
       \/ Cloud
       \/ \E req \in Requests : Initiate(req)

Spec == Init /\ [][Next]_vars

\* The application calls connector_step again and again; the network takes
\* and brings packets again and again, and a callback that may answer
\* "continue" does so again and again.  Device Cloud is strongly fair because
\* the bound MaxInbound lets one conversation delay the packets of another.
FairSpec ==
    /\ Spec
    /\ WF_vars(Step)
    /\ WF_vars(Closing)
    /\ WF_vars(Reopen)
    /\ SF_vars(SendStep /\ (SendControlComplete \/ SendDataComplete))
    /\ SF_vars(ReceiveStep /\ ReceivePacket)
    /\ SF_vars(ReceiveStep /\ ProcessHeld /\ session' # session)
    /\ SF_vars(PollStep /\ PollSendData)
    /\ \A owner \in Owners :
          SF_vars(\E key \in Keys :
                     /\ key[1] = owner
                     /\ \/ CloudAck(key)
                        \/ CloudReply(key)
                        \/ \E last \in BOOLEAN : CloudData(key, last))

-----------------------------------------------------------------------------
TypeOK ==
    /\ pc \in {"send", "receive", "start", "poll",
               "close", "cleanup", "down", "ended"}
    /\ session \in [Handles -> Session \cup {Free}]
    /\ list \in Seq(Handles)
    /\ current \in Handles \cup {NoHandle}
    /\ active \in [Owners -> Nat]
    /\ lastId \in 0 .. MaxId
    /\ pending \in [{"user", "internal"} -> Requests \cup {NoRequest}]
    /\ told \in [Talks -> {"unsent", "waiting", "busy", "complete", "cancel",
                           "error", "twice"}]
    /\ slot \in [kind: {"empty", "data", "control"},
                 session: Handles \cup {NoHandle},
                 packet: Packets \cup {KeepAlive, NoPacket}]
    /\ bufInUse \in BOOLEAN
    /\ held \in Packets \cup {NoPacket}
    /\ result \in {"idle", "working", "pending", "active", "unavailable"}
    /\ inbound \in Seq(Packets)
    /\ conv \in [Keys -> [phase: {"none", "receiving", "replying", "answered",
                                  "sending", "waiting"},
                          count: Nat, acked: Nat]]
    /\ fault \in {"none", "use_after_free", "null_context", "assertion"}

\* The one send buffer is taken exactly while a packet is in the slot: every
\* path that takes it sends or releases (tcp_get_packet_buffer).
BufferAccounted == bufInUse <=> slot.kind # "empty"

\* The list, the transaction counts and the sessions in memory agree, and the
\* limits hold: no session is lost from the list or counted twice.
SessionsAccounted ==
    /\ Len(list) = Cardinality(Live)
    /\ {list[i] : i \in 1 .. Len(list)} = Live
    /\ current \in Live \cup {NoHandle}
    /\ \A owner \in Owners :
          /\ active[owner] = Cardinality({h \in Live : session[h].owner = owner})
          /\ MaxTransactions[owner] # 0 => active[owner] <= MaxTransactions[owner]

\* No two sessions answer to the same id (msg_find_next_available_id, also
\* after the ids wrapped).
IdsUnique ==
    \A g, h \in Live :
        /\ session[g].owner = session[h].owner
        /\ session[g].id = session[h].id
        => g = h

\* Nobody is told twice how a message ended.
ToldOnce == \A req \in Talks : told[req] # "twice"

\* An error the connector will send names a session of the right owner.
ErrorsNameTheirSession ==
    \A h \in Live :
        session[h].st = "send_error"
            => (session[h].owner = "client" <=>
                session[h].errRequest = session[h].errSender)

\* Packets for a session that are under way, or held for another try.
UnderWay(key) ==
    {i \in 1 .. Len(inbound) :
        /\ inbound[i].op \in {"start", "data"}
        /\ <<inbound[i].owner, inbound[i].id>> = key}
HeldBack(key) ==
    /\ held.op \in {"start", "data"}
    /\ <<held.owner, held.id>> = key
    /\ pc \in {"start", "poll"} => result \in {"pending", "active"}

\* Every packet Device Cloud sent is taken, under way or held: a packet that
\* the service could not take yet is offered again, never dropped.
NothingDropped ==
    Connected => \A h \in Live :
        LET s   == session[h]
            key == <<s.owner, s.id>>
            due == Cardinality(UnderWay(key)) + (IF HeldBack(key) THEN 1 ELSE 0)
        IN  s.st \notin {"send_error", "delete"} =>
               /\ conv[key].phase \in {"sending", "waiting"} /\ s.request
                     => conv[key].count = s.total + due
               /\ conv[key].phase = "answered" /\ s.st = "receive" => due = 1

\* The sessions of a put request.
Bearers(req) ==
    {h \in Live : session[h].req = req /\ session[h].rt # "status"}

\* The put requests as the abstract service sees them.
Delivered(req) ==
    \E h \in Bearers(req) :
        /\ session[h].request => ~session[h].start
        /\ conv[<<"client", session[h].id>>].phase \in {"replying", "answered"}

\* A status callback that answered busy may be called again: its owner waits.
Status(req) == IF told[req] = "busy" THEN "waiting" ELSE told[req]

Service == INSTANCE PutService WITH
    status    <- [req \in Requests |-> Status(req)],
    delivered <- [req \in Requests |-> Delivered(req)]

\* Sessions, retries and closed connections keep the promise to the sender of
\* a put request.
ServiceSpec == Service!Spec

\* The connector ends without a request whose owner was told nothing.
NobodyForgotten ==
    pc = "ended" => \A req \in Requests : told[req] # "waiting"

\* Every put request ends, however many packets it takes, unless its own
\* callback never has data: a busy session does not hold up the others.
RequestsEnd ==
    \A req \in Requests \ StuckRequests :
        told[req] = "waiting" ~> told[req] # "waiting"

\* The connector reads no freed session and no NULL context.
NoFault == fault = "none"
=============================================================================
