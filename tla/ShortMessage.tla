---------------------------- MODULE ShortMessage ----------------------------
(***************************************************************************)
(* Short messaging of one Cloud Connector over UDP: pings and put requests *)
(* of the user, pings and device requests of Device Cloud, each in a       *)
(* session, over datagrams that may be lost, reordered or duplicated.      *)
(*                                                                         *)
(* connector_udp_step first takes what the user queued                     *)
(* (sm_process_pending_data) and then runs a receive or a send phase       *)
(* (sm_state_machine); a phase with nothing to do is followed by the       *)
(* other.  "pc" says which comes next.  A user thread may call             *)
(* connector_initiate_action between any two, and while the network open   *)
(* callback runs.                                                          *)
(*                                                                         *)
(* Configuration: CONNECTOR_SM_MULTIPART and the data service, without     *)
(* encryption, compression, SM_CLI and data points.                        *)
(***************************************************************************)
EXTENDS Naturals, Sequences, FiniteSets, SequencesExt, FiniteSetsExt

CONSTANTS
    Requests,       \* what the user sends
    Pings,          \* messages of either side that are pings; others are data
    CloudIds,       \* request ids Device Cloud uses
    NoRequest,      \* NULL in pending.data
    Answered,       \* requests Device Cloud answers
    NeedResponse,   \* messages with response_required
    Timed,          \* messages whose timeout is not SM_WAIT_FOREVER
    Segments,       \* [message -> segments it is sent in]
    MaxSegments,    \* session.max_segments
    MaxSessions,    \* session.max_sessions, of each owner
    MaxMemory,      \* bound on the sessions in memory
    MaxId,          \* request ids are 0 .. MaxId (SM_REQUEST_ID_MASK)
    MaxCalls,       \* bound on the calls that do not send
    Calls,          \* the calls the user makes besides sending
    SendAnswers,    \* what the callbacks that give data answer
    TakeAnswers,    \* what the callbacks that take data answer
    StatusAnswers,  \* what the status callbacks answer
    NetAnswers,     \* what the network send callback answers
    OpenAnswers,    \* what the network open callback answers
    CloseAnswers,   \* what the network close and stop callbacks answer
    MemoryBusy,     \* malloc may answer busy
    Duplicates,     \* a datagram may arrive twice
    LateOpen,       \* calls may be made while the open callback runs
    LateErrors,     \* callbacks may fail while a stop waits for the sessions
    FreedIntact     \* a freed session can still be read

Talks    == Requests \cup CloudIds
Handles  == 1 .. MaxMemory
NoHandle == 0
Ids      == 0 .. MaxId

ASSUME ConstantsAssumption ==
    /\ Requests \cap CloudIds = {}
    /\ NoRequest \notin Requests
    /\ Pings \cup NeedResponse \cup Timed \cup Answered \subseteq Talks
    /\ CloudIds \subseteq Ids
    /\ MaxSegments \in Nat
    /\ Segments \in [Talks -> 1 .. MaxSegments]
    /\ MaxSessions \in Nat \ {0}
    /\ MaxMemory \in Nat \ {0}
    /\ MaxId \in Nat
    /\ MaxCalls \in Nat
    /\ Calls \subseteq {"start", "stop", "finish", "cancel", "cancel_all",
                        "terminate", "again"}
    /\ SendAnswers \cup TakeAnswers \subseteq {"continue", "busy", "error"}
    /\ StatusAnswers \cup CloseAnswers \subseteq {"continue", "busy"}
    /\ NetAnswers \subseteq {"continue", "busy", "partial", "error"}
    /\ OpenAnswers \subseteq {"continue", "busy", "error"}
    /\ {MemoryBusy, Duplicates, LateOpen, LateErrors, FreedIntact} \subseteq BOOLEAN

VARIABLES
    pc,         \* what the connector does next
    transport,  \* transport.state
    auto,       \* transport.connect_type is connector_connect_auto
    opened,     \* network.handle is initialized
    close,      \* close.status, close.stop_condition, close.callback_needed
    wanted,     \* history: the user's last accepted call was not a stop
    pending,    \* pending.request and pending.data
    pendingId,  \* pending.request_id
    session,    \* [Handles -> session in that memory, or Free]
    list,       \* the sessions: head first
    current,    \* session.current
    active,     \* active_client_sessions and active_cloud_sessions
    lastId,     \* request.id
    packet,     \* send_packet: the session it belongs to, its segment
    givenId,    \* history: the id each user request was given
    told,       \* history: the statuses the owner of a message was told
    taken,      \* history: what the user took of each message
    net,        \* datagrams under way to the device
    cloud,      \* what Device Cloud knows of each message
    calls,      \* calls made so far
    fault       \* undefined behaviour or a failed assertion: the end

listVars == <<session, list, current, active>>
connVars == <<transport, auto, opened, close, wanted>>
userVars == <<pending, pendingId, lastId, givenId, calls>>
envVars  == <<net, cloud>>
vars == <<pc, connVars, userVars, listVars, packet, told, taken, envVars, fault>>

-----------------------------------------------------------------------------
\* Sessions.

Free == [st |-> "free"]

SendStates == {"get_total_length", "prepare_payload", "more_data",
               "prepare_segment", "send_data"}
RecvStates == {"receive_data", "process_payload", "complete", "error"}

\* cmd: command; needs .. last: the SM_ flags; error: error; data: in.data is
\* not NULL; ctx: user.context is not NULL; count, processed and got: segments;
\* target: bytes_processed is not 0, the target was passed to the user; due:
\* more than timeout_in_seconds have passed.
Session ==
    [st: SendStates \cup RecvStates, owner: {"client", "cloud"}, id: Ids,
     of: Talks, cmd: {"ping", "data", "opaque"},
     needs: BOOLEAN, resp: BOOLEAN, err: BOOLEAN, multi: BOOLEAN,
     last: BOOLEAN,
     error: {"none", "cancel", "timeout", "complete", "cloud", "no_resource"},
     data: BOOLEAN, ctx: BOOLEAN, target: BOOLEAN, due: BOOLEAN,
     count: Nat, processed: Nat, got: SUBSET Nat]

Live == {h \in Handles : session[h] # Free}

Command(t) == IF t \in Pings THEN "ping" ELSE "data"

\* sm_create_session with sm_copy_user_request.
ClientSession(req) ==
    [st |-> IF req \in Pings THEN "prepare_segment" ELSE "get_total_length",
     owner |-> "client", id |-> pendingId, of |-> req, cmd |-> Command(req),
     needs |-> req \in NeedResponse, resp |-> FALSE, err |-> FALSE,
     multi |-> FALSE, last |-> FALSE, error |-> "none", data |-> FALSE,
     ctx |-> TRUE, target |-> FALSE, due |-> FALSE, count |-> 0,
     processed |-> 0, got |-> {}]

\* The command byte is only in segment 0; without it the command reads 0, ping.
CloudSession(d) ==
    [st |-> "receive_data", owner |-> "cloud", id |-> d.id, of |-> d.of,
     cmd |-> IF d.kind = "response" THEN "opaque"
             ELSE IF d.seg = 0 THEN Command(d.of) ELSE "ping",
     needs |-> FALSE, resp |-> FALSE, err |-> FALSE, multi |-> FALSE,
     last |-> FALSE, error |-> "none", data |-> FALSE, ctx |-> FALSE,
     target |-> FALSE, due |-> FALSE, count |-> 0, processed |-> 0,
     got |-> {}]

\* get_sm_session: where in the list it is looked for; the first one is taken.
Find(owner, id) ==
    {i \in 1 .. Len(list) :
        session[list[i]].owner = owner /\ session[list[i]].id = id}

\* The limit and the allocation of sm_create_session.
MayCreate(owner) == active[owner] < MaxSessions /\ Live # Handles
MayFail(owner)   == ~MayCreate(owner) \/ MemoryBusy
NewHandle == Min(Handles \ Live)

AddSession(s) ==
    /\ session' = [session EXCEPT ![NewHandle] = s]
    /\ list' = <<NewHandle>> \o list
    /\ active' = [active EXCEPT ![s.owner] = @ + 1]
    /\ UNCHANGED current

\* session->next: the list is polled from head to tail.
Position(h) == CHOOSE i \in 1 .. Len(list) : list[i] = h
Next_(h)    == IF Position(h) < Len(list) THEN list[Position(h) + 1]
               ELSE NoHandle
HeadOf(seq) == IF seq = << >> THEN NoHandle ELSE Head(seq)

\* The last session of a stop that waits closes the transport.
\* Mutant: it does not.
ClosedLater(rest, otherwise) == otherwise
Closed(rest, otherwise) ==
    IF close.stop = "wait" /\ rest = << >> THEN "close" ELSE otherwise

\* A session, what its owner was told of it, and whether the callback that
\* tells it answered busy.
Effect(s, says, busy) == [s |-> s, says |-> says, busy |-> busy]

\* sm_inform_ping_complete and sm_inform_data_complete.
\* Mutant: the kind of the session is looked at before its error.
StatusOfKind(s) ==
    CASE s.cmd = "ping" -> "success"
      [] s.cmd # "ping" /\ s.error \in {"cancel", "timeout", "complete"} -> s.error
      [] OTHER -> "error"
StatusOf(s) ==
    CASE s.error \in {"cancel", "timeout", "complete"} -> s.error
      [] s.error = "none" /\ s.cmd = "ping" -> "success"
      [] OTHER -> "error"

\* sm_inform_session_complete: a complete session, an answer that nobody asked
\* for and a ping of Device Cloud have no callback.
HasCallback(s) ==
    s.st # "complete" /\ (s.cmd = "data" \/ (s.cmd = "ping" /\ s.owner = "client"))
Informed(s, answer) ==
    LET s1 == [s EXCEPT !.data = FALSE]
    IN  IF ~HasCallback(s)      THEN Effect(s1, << >>, FALSE)
        ELSE IF answer = "busy" THEN Effect(s1, << >>, TRUE)
        ELSE Effect(s1, <<StatusOf(s)>>, FALSE)

\* sm_switch_path.
SwitchPath(s, next, answer) ==
    IF s.needs
    THEN Effect([s EXCEPT !.data = FALSE, !.st = next, !.multi = FALSE,
                          !.resp = TRUE, !.processed = 0,
                          !.needs = s.cmd # "data"], << >>, FALSE)
    ELSE IF s.err \/ ~(s.owner = "client" \/ s.cmd = "data")
    THEN Effect([s EXCEPT !.data = FALSE, !.st = "complete"], << >>, FALSE)
    ELSE LET e == Informed([s EXCEPT !.error = "complete"], answer)
         IN  IF e.busy THEN e ELSE [e EXCEPT !.s.st = "complete"]

\* sm_verify_result for a result that is neither working, idle nor pending.
Fails ==
    /\ close' = [close EXCEPT !.status = "device_error"]
    /\ transport' = IF transport \in {"idle", "close", "terminate"}
                    THEN transport ELSE "close"

-----------------------------------------------------------------------------
\* Datagrams and Device Cloud.

Datagram == [kind: {"request", "response"}, id: Ids, of: Talks, seg: Nat,
             error: BOOLEAN]

\* A request id of Device Cloud is free when nobody knows of it any more.
CloudRequest(id) ==
    /\ cloud[id].phase = "idle"
    /\ opened
    /\ cloud' = [cloud EXCEPT ![id].phase = "asked"]
    /\ net' = net \cup {[kind |-> "request", id |-> id, of |-> id, seg |-> n,
                         error |-> FALSE] : n \in 0 .. Segments[id] - 1}

\* Every segment arrived: the response, which may be an error.
CloudResponse(req, error) ==
    /\ cloud[req].phase = "idle"
    /\ cloud[req].got = 0 .. Segments[req] - 1
    /\ req \in NeedResponse \cap Answered
    /\ cloud' = [cloud EXCEPT ![req].phase = "asked"]
    /\ net' = net \cup {[kind |-> "response", id |-> cloud[req].id, of |-> req,
                         seg |-> 0, error |-> error]}

Lose(d) == net' = net \ {d} /\ UNCHANGED cloud

Environment ==
    /\ \/ \E id \in CloudIds : CloudRequest(id)
       \/ \E req \in Requests, error \in BOOLEAN : CloudResponse(req, error)
       \/ \E d \in net : Lose(d)
    /\ UNCHANGED <<pc, connVars, userVars, listVars, packet, told, taken, fault>>

\* Time passes for a session that waits.
Elapse(h) ==
    /\ session[h].st = "receive_data"
    /\ session[h].of \in Timed
    /\ ~session[h].due
    /\ session' = [session EXCEPT ![h].due = TRUE]
    /\ UNCHANGED <<pc, connVars, userVars, list, current, active, packet, told,
                   taken, envVars, fault>>

-----------------------------------------------------------------------------
\* connector_initiate_action, called by a user thread.

NothingPending == [kind |-> "none", req |-> NoRequest, id |-> 0]

MayCall(call) == call \in Calls /\ calls < MaxCalls /\ calls' = calls + 1

\* connector_initiate_transport_start with sm_initialize, which forgets
\* whatever sessions there are.
Start ==
    /\ MayCall("start")
    /\ transport \in {"idle", "close"}
    /\ transport' = "idle"
    /\ opened' = FALSE
    /\ close' = [status |-> "device_error", stop |-> "immediately",
                 callback |-> TRUE]
    /\ wanted' = TRUE
    /\ pending' = [NothingPending EXCEPT !.kind = "start"]
    /\ list' = << >>
    /\ current' = NoHandle
    /\ active' = [owner \in {"client", "cloud"} |-> 0]
    /\ UNCHANGED <<auto, session, pendingId, lastId, givenId, packet, told>>

\* connector_initiate_transport_stop; "finish" waits for the sessions.
ClosesNow(call) == call = "stop" \/ list = << >>

Stop(call) ==
    /\ MayCall(call)
    /\ transport \notin {"terminate", "close"}
    /\ close' = [close EXCEPT
                    !.status = "stopped",
                    !.stop = IF call = "stop" THEN "immediately" ELSE "wait"]
    /\ transport' = IF ClosesNow(call) THEN "close" ELSE transport
    /\ wanted' = FALSE
    /\ UNCHANGED <<auto, opened, pending, pendingId, lastId, givenId, listVars,
                   packet, told>>

\* connector_initiate_terminate.
Terminate ==
    /\ MayCall("terminate")
    /\ transport # "terminate"
    /\ transport' = "close"
    /\ close' = [close EXCEPT !.status = "terminated", !.callback = FALSE]
    /\ wanted' = FALSE
    /\ UNCHANGED <<auto, opened, pending, pendingId, lastId, givenId, listVars,
                   packet, told>>

\* connector_initiate_session_cancel and _cancel_all.
Cancel(call, id) ==
    /\ MayCall(call)
    /\ close.stop # "wait"
    /\ pending.kind = "none"
    /\ pending' = [kind |-> call, req |-> NoRequest, id |-> id]
    /\ UNCHANGED <<connVars, pendingId, lastId, givenId, listVars, packet, told>>

\* sm_get_request_id: the next id no session has, cyclically; none when all
\* others are taken.
IdAfter(n)  == (lastId + n) % (MaxId + 1)
IdTaken(id) == \E i \in 1 .. Len(list) : session[list[i]].id = id
FreeSteps   == {n \in 1 .. MaxId : ~IdTaken(IdAfter(n))}
NextId      == IdAfter(Min(FreeSteps))

\* connector_initiate_send_data and connector_initiate_ping_request: an id is
\* taken before it is known whether there is room for the request; the id of a
\* request that is refused stays in pending.request_id.
MaySend(req) ==
    /\ close.stop # "wait"
    /\ transport \in {"send", "receive"}
    /\ FreeSteps # {}
    /\ givenId[req] = {}
    /\ pendingId' = NextId
    /\ lastId' = NextId
    /\ UNCHANGED <<connVars, listVars, packet, told>>

Send(req) ==
    /\ MaySend(req)
    /\ pending.kind = "none"
    /\ pending' = [kind |-> "send", req |-> req, id |-> 0]
    /\ givenId' = [givenId EXCEPT ![req] = {NextId}]
    /\ UNCHANGED calls

SendRefused(req) ==
    /\ MaySend(req)
    /\ pending.kind # "none"
    /\ MayCall("again")
    /\ UNCHANGED <<pending, givenId>>

UserCall ==
    /\ pc = "opening" => LateOpen
    /\ \/ Start \/ Terminate
       \/ \E call \in {"stop", "finish"} : Stop(call)
       \/ \E id \in UNION Range(givenId) : Cancel("cancel", id)
       \/ Cancel("cancel_all", 0)
       \/ \E req \in Requests : Send(req) \/ SendRefused(req)
    /\ UNCHANGED <<pc, taken, envVars, fault>>

-----------------------------------------------------------------------------
\* sm_process_pending_data.

\* sm_cancel_session told the first "done" sessions of the list that they are
\* cancelled and deleted them; the status callback of the next one, if any was
\* to be cancelled, answered busy.
\* Mutant: a session is deleted although its callback was busy.
BusySessionLost(done, most) == {}
BusySession(done, most)     == IF done < most THEN {list[done + 1]} ELSE {}
CancelFirst(done, most) ==
    LET gone == {list[i] : i \in 1 .. done}
        busy == BusySession(done, most)
        rest == SubSeq(list, (IF busy = {} THEN most ELSE done) + 1, Len(list))
        out  == gone \cup (Range(list) \ Range(rest))
        Owned(owner) == Cardinality({h \in out : session[h].owner = owner})
    IN  /\ \A h \in busy : "busy" \in StatusAnswers /\ HasCallback(session[h])
        /\ session' = [h \in Handles |->
              IF h \in out THEN Free
              ELSE IF h \in busy
                   THEN [session[h] EXCEPT !.error = "cancel", !.data = FALSE]
                   ELSE session[h]]
        /\ list' = rest
        /\ active' = [owner \in {"client", "cloud"} |->
                         active[owner] - Owned(owner)]
        /\ current' = IF current \in out THEN HeadOf(rest) ELSE current
        /\ told' = [t \in Talks |->
              LET ended == {h \in gone : session[h].of = t /\ HasCallback(session[h])}
              IN  IF ended = {} THEN told[t]
                  ELSE LET s == session[CHOOSE h \in ended : TRUE]
                       IN  Append(told[t], StatusOf([s EXCEPT !.error = "cancel"]))]

NothingToDo == pending' = pending /\ UNCHANGED <<transport, listVars, told>>

\* The break after one session is reached by its id only: the ids that are
\* compared are the same variable, so it is always the head.
CancelPending ==
    /\ pending.kind \in {"cancel", "cancel_all"}
    /\ LET most == IF pending.kind = "cancel" THEN Min({1, Len(list)})
                   ELSE Len(list)
       IN  \E done \in 0 .. most :
             /\ CancelFirst(done, most)
             /\ transport' = IF done > 0 THEN Closed(list', transport)
                             ELSE transport
             /\ pc' = IF done < most THEN "run" ELSE "pending"
    /\ pending' = NothingPending

StartPending ==
    /\ pending.kind = "start"
    /\ IF transport = "close" THEN NothingToDo
       ELSE /\ transport' = IF transport = "idle" THEN "open" ELSE transport
            /\ pending' = NothingPending
            /\ UNCHANGED <<listVars, told>>
    /\ pc' = "run"

SendPending ==
    /\ pending.kind = "send"
    /\ \/ /\ MayCreate("client")
          /\ AddSession(ClientSession(pending.req))
          /\ pending' = NothingPending
          /\ pc' = "pending"
          /\ UNCHANGED <<transport, told>>
       \/ MayFail("client") /\ NothingToDo /\ pc' = "run"

ProcessPending ==
    /\ pc = "pending"
    /\ transport # "terminate"
    /\ \/ CancelPending \/ StartPending \/ SendPending
       \/ pending.kind = "none" /\ NothingToDo /\ pc' = "run"
    /\ UNCHANGED <<auto, opened, close, wanted, pendingId, lastId, givenId,
                   calls, packet, taken, envVars, fault>>

-----------------------------------------------------------------------------
\* sm_update_session: a datagram arrives.

\* How the header of segment 0 changes the session, which may have been
\* created for a response with that id nobody asked for.
Header(s, d) ==
    IF d.seg # 0 THEN s
    ELSE [s EXCEPT
             !.of    = IF d.kind = "request" THEN d.of ELSE @,
             !.cmd   = IF d.kind = "request" THEN Command(d.of) ELSE @,
             !.needs = @ \/ (d.kind = "request" /\ d.of \in NeedResponse),
             !.err   = @ \/ d.error,
             !.error = IF d.error THEN "cloud" ELSE @,
             !.count = IF d.kind = "request" THEN Segments[d.of] ELSE 1]

Multi(d)      == d.kind = "request" /\ Segments[d.of] > 1
HasPayload(d) == d.kind = "request" /\ d.of \notin Pings

\* A segment of a longer message, in a buffer for all of it.
AddSegment(s, d) ==
    LET got == IF s.data THEN s.got ELSE {}
    IN  [s EXCEPT !.multi = TRUE, !.data = TRUE,
                  !.count = IF ~s.data /\ d.seg > 0 THEN MaxSegments ELSE @,
                  !.processed = IF d.seg \in got THEN @ ELSE @ + 1,
                  !.got = got \cup {d.seg}]

AddOnly(s, d) == [s EXCEPT !.data = HasPayload(d), !.processed = @ + 1]

\* Whatever the session was doing before.
\* Mutant: a message is passed on before its last segment.
WholeEarly(s) == s.processed + 1 >= s.count
Whole(s)      == s.processed >= s.count
Assembled(s, d) ==
    LET s1 == Header(s, d)
        s2 == IF Multi(d) THEN AddSegment(s1, d) ELSE AddOnly(s1, d)
    IN  IF Whole(s2) THEN [s2 EXCEPT !.processed = 0, !.target = FALSE,
                                     !.st = "process_payload"]
        ELSE s2

\* The session a datagram is for; a response belongs to the request of the
\* device that has its id.
For(d) == Find(IF d.kind = "response" THEN "client" ELSE "cloud", d.id)

Take(d) == net' = IF Duplicates THEN net ELSE net \ {d}

Receive(d) ==
    /\ IF For(d) = {}
       THEN /\ MayCreate("cloud")
            /\ AddSession(Assembled(CloudSession(d), d))
            /\ UNCHANGED fault
       ELSE LET h == list[Min(For(d))]
            IN  /\ session' = [session EXCEPT ![h] = Assembled(@, d)]
                /\ fault' = IF ~Multi(d) /\ HasPayload(d) /\ session[h].data
                            THEN "buffer_in_use" ELSE "none"
                /\ UNCHANGED <<list, current, active>>
    /\ Take(d)
    /\ pc' = "pending"
    /\ UNCHANGED <<packet, told, taken, cloud>>

-----------------------------------------------------------------------------
\* The turn of a session: the first one from session.current on, or from the
\* head, that is in one of the states.

From == IF current = NoHandle THEN 1 ELSE Position(current)
Waiting(states) == {i \in From .. Len(list) : session[list[i]].st \in states}
PhaseStates == IF transport = "receive"
               THEN {"process_payload", "complete", "error"} ELSE SendStates

\* The sessions the receive phase passes over on the way are timed out.
\* Mutant: a session that waits is not looked at.
PassedOverNone == {}
PassedOver ==
    LET last == IF Waiting(PhaseStates) = {} THEN Len(list)
                ELSE Min(Waiting(PhaseStates))
    IN  {h \in {list[i] : i \in From .. last} :
            /\ transport = "receive"
            /\ session[h].st = "receive_data"
            /\ session[h].due}
AfterPass ==
    [h \in Handles |->
        IF h \in PassedOver
        THEN [session[h] EXCEPT !.st = "error", !.error = "timeout"]
        ELSE session[h]]

\* The next turn is that of session->next, read after the session may have
\* been freed.
EndTurn(h) ==
    /\ pc' = "pending"
    /\ IF FreedIntact \/ session'[h] # Free
       THEN current' = Next_(h) /\ UNCHANGED fault
       ELSE fault' = "read_freed" /\ UNCHANGED current

\* The state of session h becomes s and its owner is told something.
Becomes(h, s, says) ==
    /\ session' = [AfterPass EXCEPT ![h] = s]
    /\ told' = [told EXCEPT ![session[h].of] = @ \o says]
    /\ EndTurn(h)
    /\ UNCHANGED <<list, active>>

Took(h, what) == taken' = [taken EXCEPT ![session[h].of] = @ \o what]

\* Where a message goes that was passed to the user.
NextPath(s) == IF s.owner = "client" THEN "complete"
               ELSE IF s.cmd = "data" THEN "get_total_length" ELSE "send_data"

\* The end of sm_pass_user_data and sm_process_payload.  The result of
\* sm_switch_path is not looked at.
PassedOn(h, s, says, answer) ==
    LET e == SwitchPath(s, NextPath(s), answer)
    IN  IF s.error \in {"none", "complete"} /\ s.last
        THEN Becomes(h, e.s, says \o e.says)
        ELSE Becomes(h,
                 [s EXCEPT !.processed = IF s.last THEN @ ELSE @ + 1,
                           !.st  = IF s.error \in {"none", "complete"} THEN @
                                   ELSE "error",
                           !.err = @ \/ s.error \notin {"none", "complete"}],
                 says)

PassFailed(h, s, says) ==
    Becomes(h, [s EXCEPT !.error = "cancel", !.st = "error", !.err = TRUE], says)

\* sm_process_data_request: the target first, then one segment at a time; an
\* error of the user ends the message early.
DataRequest(h, s, take, answer) ==
    IF s.error = "complete" THEN PassedOn(h, s, << >>, answer) /\ Took(h, << >>)
    ELSE CASE take = "busy" -> Becomes(h, s, << >>) /\ Took(h, << >>)
           [] take = "error" ->
                PassedOn(h, [s EXCEPT !.error = "complete", !.target = TRUE],
                         << >>, answer) /\ Took(h, << >>)
           [] take = "continue" /\ ~s.target ->
                Becomes(h, [s EXCEPT !.target = TRUE, !.ctx = TRUE], << >>)
                /\ Took(h, << >>)
           [] take = "continue" /\ s.target ->
                PassedOn(h, s, << >>, answer) /\ Took(h, <<s.processed>>)

\* sm_process_data_response: the error of a response is told, and forgotten.
Forgiven(s) == IF s.err THEN [s EXCEPT !.err = FALSE, !.error = "none"] ELSE s
DataResponse(h, s, take, answer) ==
    LET response == IF s.err THEN <<"refused">> ELSE <<"accepted">>
    IN  CASE take = "busy"     -> Becomes(h, s, << >>)
          [] take = "error"    -> PassFailed(h, Forgiven(s), response)
          [] take = "continue" -> PassedOn(h, Forgiven(s), response, answer)

PingResponse(h, s, answer) ==
    IF answer = "busy" THEN Becomes(h, s, << >>)
    ELSE PassedOn(h, Forgiven(s), <<StatusOf(s)>>, answer)

\* sm_process_ping_request and sm_process_opaque_response.
OtherPayload(h, s, take, answer) ==
    CASE take = "busy"     -> Becomes(h, s, << >>)
      [] take = "error"    -> PassFailed(h, s, << >>)
      [] take = "continue" -> PassedOn(h, s, << >>, answer)

ProcessPayload(h, take, answer) ==
    LET s == [session[h] EXCEPT
                 !.last = @ \/ ~session[h].multi
                            \/ session[h].processed + 1 = session[h].count]
    IN  IF s.multi /\ (~s.data \/ s.processed >= s.count)
        THEN /\ fault' = "no_payload"
             /\ UNCHANGED <<pc, listVars, told, taken>>
        ELSE \/ /\ s.cmd = "data" /\ s.owner = "cloud"
                /\ DataRequest(h, s, take, answer)
             \/ /\ UNCHANGED taken
                /\ \/ /\ s.cmd = "data" /\ s.owner = "client"
                      /\ DataResponse(h, s, take, answer)
                   \/ /\ s.cmd = "ping" /\ s.owner = "client"
                      /\ PingResponse(h, s, answer)
                   \/ /\ s.cmd = "opaque" \/ (s.cmd = "ping" /\ s.owner = "cloud")
                      /\ OtherPayload(h, s, take, answer)

\* sm_handle_error.
HandleError(h, answer) ==
    LET s    == [session[h] EXCEPT !.err = TRUE]
        next == IF s.owner = "cloud" /\ ~s.resp THEN "send_data" ELSE "complete"
        e    == IF s.ctx THEN Informed(s, answer) ELSE Effect(s, << >>, FALSE)
        f    == SwitchPath(e.s, next, answer)
    IN  IF e.busy THEN Becomes(h, e.s, << >>)
        ELSE Becomes(h, f.s, e.says \o f.says)

\* sm_handle_complete and sm_delete_session.
\* Mutant: the session is still counted.
HandleCompleteUncounted(h) ==
    /\ session' = [AfterPass EXCEPT ![h] = Free]
    /\ list' = RemoveAt(list, Position(h))
    /\ EndTurn(h)
    /\ UNCHANGED <<active, told>>
HandleComplete(h) ==
    /\ session' = [AfterPass EXCEPT ![h] = Free]
    /\ list' = RemoveAt(list, Position(h))
    /\ active' = [active EXCEPT ![session[h].owner] = @ - 1]
    /\ EndTurn(h)
    /\ UNCHANGED told

\* The receive phase: a datagram, if there is one and it can be used, or else
\* the turn of a session.  A datagram for which no session can be created is
\* dropped.  "take" and "answer" are what the callbacks answer.
NoTurn ==
    /\ Waiting(PhaseStates) = {}
    /\ session' = AfterPass
    /\ current' = NoHandle
    /\ pc' = IF list # << >> /\ pc = "run" THEN "again" ELSE "pending"
    /\ UNCHANGED <<list, active, told, taken, fault>>

Turn(h) ==
    /\ Waiting(PhaseStates) # {}
    /\ h = list[Min(Waiting(PhaseStates))]

ReceiveTurn(h, take, answer) ==
    /\ Turn(h)
    /\ \/ session[h].st = "process_payload" /\ ProcessPayload(h, take, answer)
       \/ session[h].st = "error" /\ HandleError(h, answer) /\ UNCHANGED taken
       \/ session[h].st = "complete" /\ HandleComplete(h) /\ UNCHANGED taken
    /\ transport' = Closed(list', "send")

NoDatagram ==
    \/ UNCHANGED net
    \/ \E d \in net : For(d) = {} /\ MayFail("cloud") /\ opened /\ Take(d)

Running(phase) == pc \in {"run", "again"} /\ transport = phase

ReceiveDatagram ==
    /\ Running("receive")
    /\ opened
    /\ \E d \in net : Receive(d)
    /\ transport' = "send"
    /\ UNCHANGED <<auto, opened, close, wanted, userVars>>

ReceivePhase(h, take, answer) ==
    /\ Running("receive")
    /\ ReceiveTurn(h, take, answer)
    /\ NoDatagram
    /\ UNCHANGED <<auto, opened, close, wanted, userVars, packet, cloud>>

-----------------------------------------------------------------------------
\* The send phase.

\* sm_prepare_payload: out of memory is remembered although it is tried again.
PreparePayload(h) ==
    LET s == session[h]
    IN  \/ /\ ~s.data
           /\ Becomes(h, IF s.error \in {"none", "complete"}
                         THEN [s EXCEPT !.data = TRUE, !.st = "more_data"]
                         ELSE [s EXCEPT !.data = TRUE, !.st = "error", !.err = TRUE],
                      << >>)
        \/ /\ MemoryBusy /\ ~s.data
           /\ Becomes(h, [s EXCEPT !.error = "no_resource"], << >>)
        \/ /\ s.data
           /\ fault' = "buffer_in_use"
           /\ UNCHANGED <<pc, listVars, told>>


\* sm_prepare_segment.
Segmented(s) ==
    LET n == IF s.resp THEN 1 ELSE Segments[s.of]
    IN  [s EXCEPT !.st = "send_data", !.processed = 0, !.count = n,
                  !.multi = @ \/ n > 1]
\* sm_get_user_data_length, sm_get_more_request_data and
\* sm_get_more_response_data: the callback of the user, and what follows.
AskUser(h, next, answer) ==
    \/ /\ answer = "continue"
       /\ Becomes(h, [session[h] EXCEPT !.st = next], << >>)
       /\ transport' = "receive"
       /\ UNCHANGED close
    \/ /\ answer = "busy"
       /\ Becomes(h, session[h], << >>)
       /\ transport' = "receive"
       /\ UNCHANGED close
    \/ /\ answer = "error"
       /\ Becomes(h, session[h], << >>)
       /\ Fails

\* What sm_send_data puts in the buffer for session h.
NoPacket  == [owner |-> NoHandle]
Packet(h) == [owner |-> h, of |-> session[h].of, id |-> session[h].id,
              seg |-> session[h].processed, client |-> session[h].owner = "client"]

\* The owner of the buffer is the session it was filled for.
Owned(p) == session[p.owner] # Free /\ session[p.owner].of = p.of

Arrives(p) ==
    IF p.client
    THEN cloud' = [cloud EXCEPT ![p.of].id = p.id, ![p.of].got = @ \cup {p.seg}]
    ELSE cloud' = [cloud EXCEPT ![p.of].phase = "answered"]

\* sm_send_segment: whatever session has its turn sends the buffer.
SendSegment(h, p, answer) ==
    LET o    == p.owner
        s    == [session[o] EXCEPT !.processed = @ + 1]
        e    == IF s.processed = s.count
                THEN SwitchPath(s, IF s.resp THEN "complete" ELSE "receive_data",
                                answer)
                ELSE Effect(s, << >>, FALSE)
    IN  IF ~Owned(p)
        THEN /\ fault' = "freed_owner"
             /\ UNCHANGED <<pc, listVars, packet, told, cloud>>
        ELSE /\ session' = [session EXCEPT ![o] = e.s]
             /\ told' = [told EXCEPT ![session[o].of] = @ \o e.says]
             /\ packet' = IF e.busy THEN p ELSE NoPacket
             /\ \/ UNCHANGED cloud
                \/ session[o].processed < session[o].count /\ Arrives(p)
             /\ EndTurn(h)
             /\ UNCHANGED <<list, active>>

\* sm_send_data.
SendData(h, network, answer) ==
    LET p == IF packet = NoPacket THEN Packet(h) ELSE packet
    IN  IF packet = NoPacket /\ session[h].processed # 0 /\ ~session[h].multi
        THEN /\ fault' = "no_segment"
             /\ UNCHANGED <<pc, transport, close, listVars, packet, told, cloud>>
        ELSE \/ /\ network \in {"busy", "partial", "error"}
                /\ Becomes(h, session[h], << >>)
                /\ packet' = p
                /\ IF network = "error" THEN Fails
                   ELSE transport' = "receive" /\ UNCHANGED close
                /\ UNCHANGED cloud
             \/ /\ network = "continue"
                /\ SendSegment(h, p, answer)
                /\ transport' = "receive"
                /\ UNCHANGED close

SendPhase(h, send, network, answer) ==
    /\ Running("send")
    /\ Turn(h)
    /\ \/ /\ \/ /\ session[h].st = "get_total_length"
                /\ AskUser(h, "prepare_payload", send)
             \/ /\ session[h].st = "more_data"
                /\ AskUser(h, "prepare_segment", send)
             \/ /\ \/ session[h].st = "prepare_payload" /\ PreparePayload(h)
                   \/ /\ session[h].st = "prepare_segment"
                      /\ Becomes(h, Segmented(session[h]), << >>)
                /\ transport' = "receive"
                /\ UNCHANGED close
          /\ UNCHANGED <<packet, cloud>>
       \/ session[h].st = "send_data" /\ SendData(h, network, answer)
    /\ UNCHANGED <<auto, opened, wanted, userVars, taken, net>>

IdlePhase ==
    \/ /\ Running("receive")
       /\ NoTurn
       /\ NoDatagram
       /\ transport' = "send"
       /\ UNCHANGED <<auto, opened, close, wanted, userVars, packet, cloud>>
    \/ /\ Running("send")
       /\ NoTurn
       /\ transport' = "receive"
       /\ UNCHANGED <<auto, opened, close, wanted, userVars, packet, envVars>>

-----------------------------------------------------------------------------
\* Opening and closing the transport.

\* The open callback; a call made while it runs finds the state "open".
OpenBegin ==
    /\ Running("open")
    /\ pc' = "opening"
    /\ UNCHANGED <<connVars, userVars, listVars, packet, told, taken, envVars, fault>>

OpenEnd(answer) ==
    /\ pc = "opening"
    /\ pc' = "pending"
    /\ \/ answer = "continue" /\ opened' = TRUE
       \/ answer = "busy" /\ opened' \in BOOLEAN  \* the handle is kept
       \/ answer = "error" /\ UNCHANGED opened
    /\ transport' = CASE answer = "continue" -> "receive"
                      [] answer = "busy"     -> "open"
                      [] answer = "error"    -> "reconnect"
    /\ packet' = IF answer = "continue" THEN NoPacket ELSE packet
    /\ UNCHANGED <<auto, close, wanted, userVars, listVars, told, taken, envVars,
                   fault>>

\* CONNECTOR_TRANSPORT_RECONNECT_AFTER seconds, or not yet.
Reconnect ==
    /\ Running("reconnect")
    /\ transport' = "open"
    /\ pc' = "pending"
    /\ UNCHANGED <<auto, opened, close, wanted, userVars, listVars, packet, told,
                   taken, envVars, fault>>

\* Mutant: a transport the user stopped is opened again.
ReopensAlways == auto
Reopens       == auto /\ close.status = "device_error"
Idle ==
    /\ Running("idle")
    /\ transport' = IF Reopens THEN "open" ELSE "idle"
    /\ pc' = "pending"
    /\ UNCHANGED <<auto, opened, close, wanted, userVars, listVars, packet, told,
                   taken, envVars, fault>>

\* sm_close_transport: cancels the sessions, whatever the status callbacks
\* answer; then the network close callback, the packet buffer and the stop
\* callback.
CloseTransport(network, stop, reconnect) ==
    LET stopping == ~opened \/ network = "continue"
        finished == stopping /\ (~close.callback \/ stop = "continue")
    IN  /\ Running("close")
        /\ \E done \in 0 .. Len(list) : CancelFirst(done, Len(list))
        /\ auto' = IF opened /\ network = "continue" THEN reconnect ELSE auto
        /\ opened' = (opened /\ ~stopping)
        /\ packet' = IF stopping THEN NoPacket ELSE packet
        /\ transport' = IF ~finished THEN "close"
                        ELSE IF close.status = "terminated" THEN "terminate"
                        ELSE "idle"
        /\ close' = IF finished /\ close.status # "terminated"
                    THEN [close EXCEPT !.stop = "immediately", !.callback = TRUE]
                    ELSE close
        /\ pc' = "pending"
        /\ UNCHANGED <<wanted, userVars, taken, envVars, fault>>

-----------------------------------------------------------------------------
Init ==
    /\ pc = "pending"
    /\ transport = "idle"
    /\ auto \in BOOLEAN
    /\ opened = FALSE
    /\ close = [status |-> "device_error", stop |-> "immediately",
                callback |-> TRUE]
    /\ wanted = TRUE
    /\ pending = NothingPending
    /\ pendingId = 0
    /\ lastId = 0
    /\ givenId = [req \in Requests |-> {}]
    /\ session = [h \in Handles |-> Free]
    /\ list = << >>
    /\ current = NoHandle
    /\ active = [owner \in {"client", "cloud"} |-> 0]
    /\ packet = NoPacket
    /\ told = [t \in Talks |-> << >>]
    /\ taken = [t \in Talks |-> << >>]
    /\ net = {}
    /\ cloud = [t \in Talks |-> [phase |-> "idle", id |-> 0, got |-> {}]]
    /\ calls = 0
    /\ fault = "none"

\* One step of the connector in which the callbacks answer as given.
Polled(h, send, take, network, answer) ==
    \/ SendPhase(h, send, network, answer)
    \/ ReceivePhase(h, take, answer)

Connector ==
    \/ ProcessPending
    \/ ReceiveDatagram
    \/ IdlePhase
    \/ \E h \in Live, send \in SendAnswers, take \in TakeAnswers,
          network \in NetAnswers, answer \in StatusAnswers :
          /\ "error" \in {send, network} => wanted \/ LateErrors
          /\ Polled(h, send, take, network, answer)
    \/ OpenBegin
    \/ \E answer \in OpenAnswers : OpenEnd(answer)
    \/ Reconnect
    \/ Idle
    \/ \E network, stop \in CloseAnswers, reconnect \in BOOLEAN :
          CloseTransport(network, stop, reconnect)

Next ==
    /\ fault = "none"
    /\ Connector \/ UserCall \/ Environment \/ \E h \in Live : Elapse(h)

Spec == Init /\ [][Next]_vars

\* The application goes on calling connector_run and its callbacks are not
\* busy for ever; time passes.
FairSpec ==
    /\ Spec
    /\ WF_vars(Connector /\ fault = "none")
    /\ SF_vars(ProcessPending /\ pending' # pending /\ fault = "none")
    /\ \A h \in Handles :
        /\ WF_vars(h \in Live /\ Elapse(h) /\ fault = "none")
        /\ SF_vars(/\ h \in Live /\ fault = "none"
                   /\ Polled(h, "continue", "continue", "continue", "continue"))
        /\ SF_vars(/\ h \in Live /\ fault = "none" /\ ~session[h].data
                   /\ Polled(h, "continue", "continue", "continue", "continue")
                   /\ h \in Live' /\ session'[h].data)

-----------------------------------------------------------------------------
\* Properties.

\* Each variable has its type.
TypeOK ==
    /\ pc \in {"pending", "run", "again", "opening"}
    /\ transport \in {"idle", "open", "reconnect", "receive", "send", "close",
                      "terminate"}
    /\ {auto, opened, wanted} \subseteq BOOLEAN
    /\ close \in [status: {"device_error", "stopped", "terminated"},
                  stop: {"immediately", "wait"}, callback: BOOLEAN]
    /\ pending.kind \in {"none", "start", "send", "cancel", "cancel_all"}
    /\ pending.req \in Requests \cup {NoRequest}
    /\ {pending.id, pendingId, lastId} \subseteq Ids
    /\ givenId \in [Requests -> SUBSET Ids]
    /\ \A h \in Live : session[h] \in Session
    /\ list \in Seq(Handles)
    /\ current \in Handles \cup {NoHandle}
    /\ active \in [{"client", "cloud"} -> 0 .. MaxSessions]
    /\ packet.owner \in Handles \cup {NoHandle}
    /\ net \subseteq Datagram
    /\ calls \in 0 .. MaxCalls

\* The state is well typed; every session in memory is in the list once, and counted, and
\* the turn is that of a session in the list.
SessionsAccounted ==
    /\ TypeOK
    /\ IsInjective(list)
    /\ Range(list) = Live
    /\ \A owner \in {"client", "cloud"} :
        active[owner] = Cardinality({h \in Live : session[h].owner = owner})
    /\ current \in Live \cup {NoHandle}

\* The status callbacks: what ends a message for its owner.
Statuses == {"success", "complete", "cancel", "timeout", "error"}

InHand(t) == \E h \in Range(list) : session[h].of = t
Waits(req) == pending.kind = "send" /\ pending.req = req

\* A request that was accepted, and a message whose target the user took, ends
\* with a status: no session disappears silently.
NobodyForgotten ==
    /\ \A req \in Requests :
        givenId[req] = {} \/ Waits(req) \/ InHand(req) \/ told[req] # << >>
    /\ \A id \in CloudIds :
        taken[id] = << >> \/ InHand(id) \/ told[id] # << >>

\* The user takes the segments of a message in order and each of them once.
DeliveredInOrder ==
    \A id \in CloudIds :
        /\ Len(taken[id]) <= Segments[id]
        /\ \A i \in 1 .. Len(taken[id]) : taken[id][i] = i - 1

\* No failed assertion, no use of freed memory.
NoFault == fault = "none"

\* A transport that was stopped stays closed until the user starts it: it is
\* not opened again by itself (connector_api.h:308).
StopFinal == [][transport = "idle" /\ transport' = "open" => wanted]_vars

\* What short messaging promises the sender of a request.
StatusTold(req) ==
    IF givenId[req] = {} THEN "unsent"
    ELSE IF told[req] = << >> THEN "waiting"
    ELSE IF Len(SelectSeq(told[req], LAMBDA t : t \in Statuses)) > 1 THEN "twice"
    ELSE IF Last(told[req]) \in {"accepted", "refused"} THEN "answered"
    ELSE IF Last(told[req]) = "success" THEN "success" ELSE "ended"
Service == INSTANCE ShortService WITH
    status   <- [req \in Requests |-> StatusTold(req)],
    answered <- [req \in Requests |-> cloud[req].phase = "asked"]

\* Sessions, datagrams and timeouts keep that promise.
ServiceSpec == Service!Spec

\* A stop ends: the transport is closed when the sessions are done.
StopEnds == ~wanted ~> transport \in {"idle", "terminate"}

\* Every request ends, unless the user stops the transport before that, or has it
\* closed for good: a session that waits for its response for too long times out.
RequestsEnd ==
    \A req \in Requests :
        givenId[req] # {} ~> (~wanted \/ ~auto \/ Range(told[req]) \cap Statuses # {})
=============================================================================
