--------------------------- MODULE EdpConnection ---------------------------
(***************************************************************************)
(* The TCP transport of Cloud Connector: connector_step calls              *)
(* connector_edp_step, which opens the network, goes through the handshake *)
(* with Device Cloud, alternates between sending and receiving, follows    *)
(* redirects, closes and connects again.  The user starts, stops and       *)
(* terminates it through one slot, "initiate", which the end of every step *)
(* looks at; callbacks may abort it.                                       *)
(*                                                                         *)
(* A step is its begin (StepBegin), the rounds of the loop of              *)
(* connector_edp_step (one action per state), the look at the slot (Check) *)
(* and the report.  Facilities are two: messaging, with one packet to send *)
(* in the handshake, and connection control, with two.                     *)
(***************************************************************************)
EXTENDS Integers, Sequences, SequencesExt

CONSTANTS
    Manual,         \* connect_type is connector_connect_manual
    Password,       \* the identity verification asks for a password
    Provisioned,    \* the device has its id
    OpenAnswers,    \* what the network open callback answers
    SendAnswers,    \* what the network send callback answers
    ReceiveAnswers, \* what the network receive callback answers
    CloseAnswers,   \* what the network close callback answers
    StopAnswers,    \* what the stop callback answers
    ConfigAnswers,  \* what the configuration and status callbacks answer
    Reconnects,     \* what the close callback leaves in "reconnect"
    CloudMessages,  \* what Device Cloud sends against the connection
    Calls,          \* the calls the user makes
    MaxCalls,       \* bound on the calls
    MaxTroubles,    \* bound on errors, aborts, refusals and disconnects
    MaxRedirects,   \* bound on redirects
    MaxUrls,        \* CC_REDIRECT_URL_COUNT
    LateCalls,      \* calls are also made while a step runs
    Overlaps        \* what the user's calls may coincide with

ASSUME ConstantsAssumption ==
    /\ {Manual, Password, Provisioned, LateCalls} \subseteq BOOLEAN
    /\ OpenAnswers \cup SendAnswers \cup ReceiveAnswers
         \subseteq {"continue", "busy", "error", "abort"}
    /\ CloseAnswers \cup StopAnswers \subseteq {"continue", "busy", "abort"}
    /\ ConfigAnswers \subseteq {"continue", "abort"}
    /\ Reconnects \subseteq BOOLEAN
    /\ CloudMessages \subseteq {"refuse", "disconnect", "redirect"}
    /\ Calls \subseteq {"start", "stop", "stop_all", "terminate"}
    /\ {MaxCalls, MaxTroubles, MaxRedirects, MaxUrls} \subseteq Nat
    /\ Overlaps \subseteq {"start_closing", "stop_redirect", "stop_callback",
                            "after_abort"}

VARIABLES
    pc,         \* where connector_step is
    result,     \* result of the step
    first,      \* init_active_state
    api,        \* connector_ptr->stop.state
    ending,     \* connector_initiate_action(terminate) has not set stop.state yet
    active,     \* state.active
    initiate,   \* state.initiate
    edp,        \* state.edp.current
    next,       \* state.edp.next
    auto,       \* stop.auto_connect
    stop,       \* stop.condition is immediately, stop.is_set
    status,     \* close_status
    timer,      \* connect_at is not 0
    cc,         \* state, redirect_count and report_code of connection control
    current,    \* facilities.current, during the handshake
    out,        \* the packet in the send buffer
    gotId,      \* connector_got_device_id
    open,       \* history: the application has a network connection
    via,        \* history: how it was, or will be, made
    sent,       \* history: what was sent on it in the handshake
    wanted,     \* history: the user wants the transport
    owed,       \* history: stops accepted less stop callbacks made
    calls,      \* calls made so far
    troubles,   \* errors, aborts, refusals and disconnects so far
    redirects,  \* redirects so far
    fault       \* a failed assertion

stepVars == <<pc, result, first>>
apiVars  == <<api, ending>>
slotVars == <<initiate, stop>>
hsVars   == <<next, current, out, gotId>>
netVars  == <<open, via, sent>>
userVars == <<wanted, owed, calls>>
vars == <<stepVars, apiVars, slotVars, hsVars, netVars, userVars, active, edp,
          auto, status, timer, cc, troubles, redirects, fault>>

-----------------------------------------------------------------------------
\* The handshake.

\* The states that send a message, and what follows it.
After == [send_version          |-> "receive_version_response",
          send_keepalive        |-> "send_protocol_version",
          send_protocol_version |-> "receive_protocol_version",
          send_identity         |-> "send_device_id",
          send_device_id        |-> IF gotId THEN "send_cloud_url"
                                    ELSE "receive_device_id",
          send_cloud_url        |-> IF Password THEN "send_password"
                                    ELSE "send_vendor_id",
          send_password         |-> "send_vendor_id",
          send_vendor_id        |-> "send_device_type",
          send_device_type      |-> "discovery_facility",
          send_complete         |-> "connected"]
SendStates == {"send_version", "send_keepalive", "send_protocol_version",
               "send_identity", "send_device_id", "send_cloud_url",
               "send_password", "send_vendor_id", "send_device_type",
               "send_complete"}
MessageOf(state) == IF state = "send_device_id" /\ ~gotId
                    THEN "send_provisioning" ELSE state

\* The states that wait for a message of Device Cloud.
Answered == [receive_version_response |-> "send_keepalive",
             receive_protocol_version |-> "send_identity",
             receive_device_id        |-> "send_cloud_url"]

Unconnected == {"connect_to_cloud", "configuration_init"}
EdpStates == Unconnected \cup SendStates \cup DOMAIN Answered
             \cup {"discovery_facility", "connected", "facility_process",
                   "send_in_progress"}
Reports == {"not_redirect", "redirect_success", "redirect_error"}
Packets == SendStates \cup Reports
           \cup {"send_provisioning", "capabilities", "connection_report", "data"}

\* What Device Cloud expects on a connection made as "via" says.
Handshake(provisioning) ==
    <<"send_version", "send_keepalive", "send_protocol_version", "send_identity",
      IF provisioning THEN "send_provisioning" ELSE "send_device_id",
      "send_cloud_url">>
    \o (IF Password THEN <<"send_password">> ELSE << >>)
    \o <<"send_vendor_id", "send_device_type", "capabilities",
         CASE via = "redirect" -> "redirect_success"
           [] via = "fallback" -> "redirect_error"
           [] OTHER            -> "not_redirect",
         "connection_report", "send_complete">>

FreshCc == [state |-> "redirect_report", urls |-> 0, report |-> "not_redirect"]

-----------------------------------------------------------------------------
Init ==
    /\ pc = "step" /\ result = "idle" /\ first = "idle"
    /\ api = "running" /\ ending = FALSE
    /\ active = IF Manual THEN "idle" ELSE "open"
    /\ initiate = "idle"
    /\ edp = "connect_to_cloud" /\ next = "connect_to_cloud"
    /\ auto = ~Manual
    /\ stop = [immediately |-> TRUE, is_set |-> FALSE]
    /\ status = "none" /\ timer = FALSE
    /\ cc = FreshCc /\ current = "none" /\ out = "none"
    /\ gotId = Provisioned
    /\ open = FALSE /\ via = "cloud" /\ sent = << >>
    /\ wanted = ~Manual /\ owed = [tcp |-> 0, all |-> 0]
    /\ calls = 0 /\ troubles = 0 /\ redirects = 0 /\ fault = "none"

\* One callback answers a; errors and aborts are bounded.
Answer(a) ==
    /\ a \in {"error", "abort", "refuse", "disconnect"} => troubles < MaxTroubles
    /\ troubles' = IF a \in {"continue", "busy"} THEN troubles ELSE troubles + 1
NoAnswer == UNCHANGED troubles

Running(state) == pc = "run" /\ fault = "none" /\ active = state

\* The round ends with result r in the active state s; what follows it.
Ends(r, s) ==
    /\ result' = r
    /\ active' = s
    /\ pc' = CASE r = "abort"             -> "report"
               [] r = "device_terminated" -> "step"
               [] r = "idle" /\ s # first -> "run"
               [] OTHER                   -> "check"
    /\ UNCHANGED <<first, apiVars, initiate, owed, calls, redirects, fault>>
Round(r, s) == Ends(r, s) /\ UNCHANGED <<stop, wanted>>

-----------------------------------------------------------------------------
\* connector_step begins: the stop callback for all transports, or the end.

StepFree ==
    /\ pc = "step" /\ fault = "none"
    /\ api \in {"terminate", "abort"} /\ active = "terminate"
    /\ pc' = "freed"
    /\ gotId' = FALSE
    /\ UNCHANGED <<result, first, apiVars, slotVars, next, current, out, netVars,
                   userVars, active, edp, auto, status, timer, cc, troubles,
                   redirects, fault>>

StepBegin ==
    /\ pc = "step" /\ fault = "none"
    /\ ~(api \in {"terminate", "abort"} /\ active = "terminate")
    /\ LET told == api = "stop" /\ active = "idle" IN
       \E a \in IF told THEN StopAnswers ELSE {"none"} :
          /\ IF told THEN Answer(a) ELSE NoAnswer
          /\ api' = IF a = "continue" THEN "running" ELSE api
          /\ owed' = IF a = "continue" THEN [owed EXCEPT !.all = @ - 1] ELSE owed
          /\ result' = IF a = "abort" THEN "abort" ELSE "idle"
          /\ pc' = IF a = "abort" THEN "report" ELSE "run"
    /\ first' = active
    /\ UNCHANGED <<ending, slotVars, hsVars, netVars, wanted, calls, active, edp,
                   auto, status, timer, cc, redirects, fault>>

-----------------------------------------------------------------------------
\* connector_transport_idle, wait_for_reconnect

IdleRound ==
    /\ Running("idle")
    /\ active' = IF auto THEN "open" ELSE "idle"
    /\ result' = "idle" /\ pc' = "check"
    /\ UNCHANGED <<first, apiVars, slotVars, hsVars, netVars, userVars, edp, auto,
                   status, timer, cc, troubles, redirects, fault>>

WaitRound ==
    /\ Running("wait_for_reconnect")
    /\ timer' = TRUE
    /\ \E s \in {"wait_for_reconnect"} \cup (IF timer THEN {"open"} ELSE {}) :
          Round("working", s)
    /\ NoAnswer
    /\ UNCHANGED <<hsVars, netVars, edp, auto, status, cc>>

-----------------------------------------------------------------------------
\* connector_transport_open: edp_tcp_open_process

\* Mutant: whatever connect_type is.
AfterOpenErrorIdle == "idle"
\* Where the transport is after an open error.
AfterOpenError == IF Manual THEN "idle" ELSE "wait_for_reconnect"

ConnectRound ==
    /\ Running("open") /\ edp = "connect_to_cloud"
    /\ \E a \in OpenAnswers :
          /\ Answer(a)
          /\ Ends(CASE a = "continue" -> "working"
                    [] a = "busy"     -> "pending"
                    [] a = "error"    -> "open_error"
                    [] a = "abort"    -> "abort",
                  IF a = "error" THEN AfterOpenError ELSE "open")
          /\ wanted' = (wanted /\ (a = "error" => auto \/ ~Manual))
          /\ edp' = IF a = "continue" THEN "configuration_init" ELSE edp
          /\ out' = IF a = "continue" THEN "none" ELSE out
          /\ timer' = IF a = "error" THEN FALSE ELSE timer
          /\ open' = (open \/ a = "continue")
          /\ sent' = IF a = "continue" THEN << >> ELSE sent
    /\ UNCHANGED <<next, current, gotId, via, stop, auto, status, cc>>

\* connector_edp_init: forgets the last connection, asks the application for its
\* configuration and creates the facilities that do not exist yet.
ConfigureRound ==
    /\ Running("open") /\ edp = "configuration_init"
    /\ \E a \in ConfigAnswers :
          /\ Answer(a)
          /\ edp' = IF a = "continue" THEN "send_version" ELSE "connect_to_cloud"
          /\ result' = IF a = "continue" THEN "working" ELSE "abort"
          /\ pc' = IF a = "continue" THEN "check" ELSE "report"
    /\ next' = "connect_to_cloud" /\ current' = "none" /\ status' = "none"
    /\ stop' = [stop EXCEPT !.immediately = TRUE]
    /\ UNCHANGED <<first, apiVars, initiate, out, gotId, netVars, userVars, active,
                   auto, timer, cc, redirects, fault>>

\* edp_tcp_send_process on packet p, in the handshake.  When it is sent the state
\* becomes n; until then edp_state_send_in_progress with n as the next one.
Transmit(p, n) ==
    \E a \in SendAnswers :
       /\ Answer(a)
       /\ Round(CASE a = "continue" -> "working" [] a = "busy" -> "pending"
                  [] OTHER -> "idle",
                IF a \in {"continue", "busy"} THEN "open" ELSE "close")
       /\ edp' = CASE a = "continue" -> n [] a = "busy" -> "send_in_progress"
                   [] OTHER -> edp
       /\ next' = n
       /\ out' = IF a = "continue" THEN "none" ELSE p
       /\ sent' = IF a = "continue" THEN Append(sent, p) ELSE sent
       /\ status' = CASE a = "error" -> "device_error" [] a = "abort" -> "abort"
                      [] OTHER -> status

SendRound ==
    /\ Running("open") /\ edp \in SendStates \cup {"send_in_progress"}
    /\ IF edp = "send_in_progress" THEN Transmit(out, next)
       ELSE Transmit(MessageOf(edp), After[edp])
    /\ UNCHANGED <<current, gotId, open, via, auto, timer, cc>>

\* layer_discovery_facility: messaging sends its capabilities, connection control
\* a redirect report and then a connection report.  In its other states it has
\* nothing to send, which edp_tcp_open_process does not expect.
DiscoveryRound ==
    /\ Running("open") /\ edp = "discovery_facility"
    /\ LET discovers == IF current = "none" THEN "msg" ELSE cc.state IN
       CASE discovers = "msg" ->
              /\ current' = "cc"
              /\ Transmit("capabilities", "discovery_facility")
              /\ UNCHANGED cc
         [] discovers = "redirect_report" ->
              /\ cc' = [cc EXCEPT !.state = "connect_report", !.report = "not_redirect"]
              /\ Transmit(cc.report, "discovery_facility")
              /\ UNCHANGED current
         [] discovers = "connect_report" ->
              /\ current' = "none"
              /\ Transmit("connection_report", "send_complete")
              /\ UNCHANGED cc
         [] OTHER ->
              /\ fault' = "nothing_to_send"
              /\ UNCHANGED <<stepVars, apiVars, slotVars, userVars, current, next, out,
                             sent, active, edp, status, cc, troubles, redirects>>
    /\ UNCHANGED <<gotId, open, via, auto, timer>>

\* The end of the handshake: notify_status(connector_tcp_communication_started).
\* "Should not be here since active state should not be open state" afterwards.
ConnectedRound ==
    /\ Running("open") /\ edp \in {"connected", "facility_process"}
    /\ edp' = "facility_process"
    /\ IF edp = "connected"
       THEN \E a \in ConfigAnswers :
               /\ Answer(a)
               /\ Round("working", IF a = "continue" THEN "receive" ELSE "close")
               /\ status' = IF a = "continue" THEN status ELSE "device_error"
       ELSE /\ fault' = "open_while_connected"
            /\ UNCHANGED <<stepVars, apiVars, slotVars, userVars, active, status,
                           troubles, redirects>>
    /\ UNCHANGED <<hsVars, netVars, auto, timer, cc>>

\* A message of the handshake is awaited; a bad one, an error or an abort of the
\* callback closes the connection.
AnswerRound ==
    /\ Running("open") /\ edp \in DOMAIN Answered
    /\ \E a \in ReceiveAnswers \cup (CloudMessages \cap {"refuse"}) :
          LET unsuitable == a = "refuse" /\ edp = "receive_protocol_version" IN
          /\ Answer(a)
          /\ a = "refuse" => edp # "receive_device_id"
          /\ Round(IF a = "busy" THEN "pending" ELSE "working",
                   IF a \in {"continue", "busy"} THEN "open" ELSE "close")
          /\ edp' = IF a = "continue" \/ unsuitable THEN Answered[edp] ELSE edp
          /\ gotId' = (gotId \/ (a = "continue" /\ edp = "receive_device_id"))
          /\ status' = CASE a \in {"continue", "busy"} -> status
                         [] unsuitable                 -> "abort"
                         [] OTHER                      -> "device_error"
    /\ UNCHANGED <<next, current, out, netVars, auto, timer, cc>>

-----------------------------------------------------------------------------
\* connector_transport_send, connector_transport_receive

DataRound ==
    /\ Running("send")
    /\ \/ out = "none" /\ Round("idle", "receive") /\ NoAnswer
          /\ UNCHANGED <<out, status>>
       \/ /\ out # "none"
          /\ \E a \in SendAnswers :
                /\ Answer(a)
                /\ Round(CASE a = "continue" -> "working" [] a = "busy" -> "pending"
                           [] OTHER -> "idle",
                         IF a \in {"continue", "busy"} THEN "receive" ELSE "close")
                /\ out' = IF a = "continue" THEN "none" ELSE out
                /\ status' = CASE a = "error" -> "device_error"
                               [] a = "abort" -> "abort" [] OTHER -> status
    /\ UNCHANGED <<next, current, gotId, netVars, edp, auto, timer, cc>>

\* A packet for messaging, or none: the facilities run.  One of them may queue a
\* packet, wait for its callback, or abort.
ReceiveRound ==
    /\ Running("receive")
    /\ \/ \E r \in {"idle", "pending"} :
             Round(r, "send") /\ NoAnswer /\ UNCHANGED out
       \/ out = "none" /\ out' = "data" /\ Round("working", "send") /\ NoAnswer
    /\ UNCHANGED <<next, current, gotId, netVars, edp, auto, status, timer, cc>>

ReceiveFails ==
    /\ Running("receive")
    /\ \E a \in ReceiveAnswers \cap {"error", "abort"} :
          /\ Answer(a)
          /\ status' = IF a = "error" THEN "device_error" ELSE "abort"
    /\ Round("working", "close")
    /\ UNCHANGED <<hsVars, netVars, edp, auto, timer, cc>>

\* Connection control: FAC_CC_DISCONNECT, FAC_CC_REDIRECT_TO_SDA
Disconnected ==
    /\ Running("receive") /\ "disconnect" \in CloudMessages
    /\ Answer("disconnect")
    /\ status' = "cloud_disconnected"
    /\ Round("working", "close")
    /\ UNCHANGED <<hsVars, netVars, edp, auto, timer, cc>>

Redirected ==
    /\ Running("receive") /\ "redirect" \in CloudMessages
    /\ "stop_redirect" \in Overlaps \/ initiate # "close"
    /\ redirects < MaxRedirects /\ redirects' = redirects + 1
    /\ \E n \in 1 .. MaxUrls : cc' = [cc EXCEPT !.state = "close", !.urls = n]
    /\ result' = "working" /\ active' = "redirect" /\ pc' = "check"
    /\ UNCHANGED <<first, apiVars, slotVars, hsVars, netVars, userVars, edp, auto,
                   status, timer, troubles, fault>>

-----------------------------------------------------------------------------
\* connector_transport_close, connector_transport_terminate: tcp_close_cloud

NetworkUsed == edp \notin Unconnected

\* Mutant: the state of the handshake is not reset.
LeaveNetworkInState ==
    /\ auto' \in Reconnects
    /\ open' = FALSE /\ sent' = << >> /\ via' = "cloud"
    /\ edp' = edp /\ next' = next
    /\ current' = "none" /\ out' = "none" /\ status' = "none"
    /\ stop' = [stop EXCEPT !.immediately = TRUE]
    /\ UNCHANGED <<gotId, timer>>
\* The close callback answered: edp_reset_initial_data.
LeaveNetwork ==
    /\ auto' \in Reconnects
    /\ open' = FALSE /\ sent' = << >> /\ via' = "cloud"
    /\ edp' = "connect_to_cloud" /\ next' = "connect_to_cloud"
    /\ current' = "none" /\ out' = "none" /\ status' = "none"
    /\ stop' = [stop EXCEPT !.immediately = TRUE]
    /\ UNCHANGED <<gotId, timer>>

\* The connection is the last: the facilities are deleted.
Final(a) == a = "abort" \/ status \in {"device_terminated", "abort"}
FinalResult(a) == IF a # "abort" /\ status = "device_terminated"
                  THEN "device_terminated" ELSE "abort"

\* Mutant: the reports of the next connection are not prepared.
CleanedKeepsState(c) == [c EXCEPT !.urls = 0]
\* The cleanup of the facilities spares a redirect that is under way.
Cleaned(c) == IF c.state = "close" THEN c ELSE FreshCc

CloseRound ==
    /\ Running("close") \/ Running("terminate")
    /\ \/ /\ NetworkUsed /\ "busy" \in CloseAnswers
          /\ Round("pending", active) /\ NoAnswer
          /\ UNCHANGED <<hsVars, netVars, edp, auto, status, timer, cc>>
       \/ /\ NetworkUsed
          /\ \E a \in CloseAnswers \ {"busy"} :
                /\ Answer(a)
                /\ LeaveNetwork
                /\ wanted' = (wanted /\ (auto' \/ initiate = "open"))
                /\ cc' = IF Final(a) THEN FreshCc ELSE Cleaned(cc)
                /\ IF Final(a) THEN Ends(FinalResult(a), "terminate")
                   ELSE Ends("working", "idle")
       \/ /\ ~NetworkUsed
          /\ NoAnswer
          /\ IF Final("continue") THEN Round(FinalResult("continue"), "terminate")
             ELSE Round("idle", "idle")
          /\ cc' = IF Final("continue") THEN FreshCc ELSE cc
          /\ UNCHANGED <<hsVars, netVars, edp, auto, status, timer>>

-----------------------------------------------------------------------------
\* connector_transport_redirect: edp_redirect_process

RedirectClose ==
    /\ Running("redirect") /\ cc.state = "close"
    /\ \/ /\ "busy" \in CloseAnswers
          /\ status' = "cloud_redirected"
          /\ Round("pending", "redirect") /\ NoAnswer
          /\ UNCHANGED <<hsVars, netVars, edp, auto, timer, cc>>
       \/ \E a \in CloseAnswers \ {"busy"} :
          /\ Answer(a)
          /\ LeaveNetwork
          /\ UNCHANGED wanted
          /\ cc' = IF a = "abort" THEN FreshCc ELSE [cc EXCEPT !.state = "connect"]
          /\ IF a = "abort" THEN Ends("abort", "terminate")
             ELSE Ends("working", "redirect")

UrlsLeft == cc.urls > 0

\* Mutant: connection control still connects.
GiveUpConnecting(c) == [c EXCEPT !.report = "redirect_error"]
\* No address is left: the original one, and its report.
GiveUp(c) == [c EXCEPT !.state = "redirect_report", !.report = "redirect_error"]

\* The next address, or the original one after the last.
RedirectConnect ==
    /\ Running("redirect") /\ cc.state = "connect"
    /\ IF UrlsLeft
       THEN \E a \in OpenAnswers :
               /\ IF a = "abort" THEN Answer(a) ELSE NoAnswer
               /\ Round(CASE a = "continue"          -> "working"
                          [] a \in {"busy", "error"} -> "pending"
                          [] a = "abort"             -> "abort",
                        IF a = "continue" THEN "open" ELSE "redirect")
               /\ cc' = CASE a = "continue" ->
                               [cc EXCEPT !.state = "redirect_report",
                                          !.report = "redirect_success"]
                          [] a = "error" -> [cc EXCEPT !.urls = @ - 1]
                          [] OTHER -> cc
               /\ edp' = IF a = "continue" THEN "send_version" ELSE edp
               /\ out' = IF a = "continue" THEN "none" ELSE out
               /\ open' = (open \/ a = "continue")
               /\ via' = IF a = "continue" THEN "redirect" ELSE via
       ELSE /\ cc' = GiveUp(cc)
            /\ Round("working", "open")
            /\ via' = "fallback"
            /\ NoAnswer
            /\ UNCHANGED <<edp, out, open>>
    /\ UNCHANGED <<next, current, gotId, sent, auto, status, timer>>

-----------------------------------------------------------------------------
\* check_state: the request in the slot meets the state the step ended in.

Checking(request) == pc = "check" /\ fault = "none" /\ initiate = request

\* The step ends, unless abort_connector is still to be called.
StepEnds(r) == pc' = IF r = "abort" THEN "report" ELSE "step"
CheckFrame == UNCHANGED <<first, apiVars, hsVars, netVars, userVars, edp, timer, cc,
                          troubles, redirects, fault>>

\* A stop, and the transport is idle: done.
CheckStopped ==
    /\ Checking("close") /\ active = "idle"
    /\ auto' = FALSE
    /\ initiate' = "idle"
    /\ IF stop.is_set THEN pc' = "stopping" ELSE StepEnds(result)
    /\ CheckFrame
    /\ UNCHANGED <<result, active, stop, status>>

\* Mutant: the request is not restored.
AfterStopCallbackCleared(a) == initiate
\* The slot after the stop callback: busy restores the request.
AfterStopCallback(a) == IF a = "busy" THEN "close" ELSE initiate

StopAnswered ==
    /\ pc = "stopping"
    /\ \E a \in StopAnswers :
          /\ Answer(a)
          /\ initiate' = AfterStopCallback(a)
          /\ stop' = IF a = "continue" THEN [stop EXCEPT !.is_set = FALSE] ELSE stop
          /\ owed' = IF a = "continue" THEN [owed EXCEPT !.tcp = @ - 1] ELSE owed
          /\ result' = CASE a = "continue" -> "working" [] a = "busy" -> "pending"
                         [] a = "abort" -> "abort"
    /\ StepEnds(result')
    /\ UNCHANGED <<first, apiVars, hsVars, netVars, wanted, calls, active, edp, auto,
                   status, timer, cc, redirects, fault>>

\* A stop, and the transport is at work: it closes now, or once there is nothing
\* to do when it may wait.
CheckStop ==
    /\ Checking("close") /\ active # "idle"
    /\ StepEnds(result)
    /\ stop' = IF active \notin {"close", "terminate"} /\ out = "none" /\ result = "idle"
               THEN [stop EXCEPT !.immediately = TRUE] ELSE stop
    /\ IF active \in {"close", "terminate"}
       THEN /\ auto' = (auto /\ active = "terminate")
            /\ UNCHANGED <<active, status>>
       ELSE IF stop'.immediately
       THEN auto' = FALSE /\ status' = "device_stopped" /\ active' = "close"
       ELSE UNCHANGED <<auto, active, status>>
    /\ CheckFrame
    /\ UNCHANGED <<result, initiate>>

CheckStart ==
    /\ Checking("open")
    /\ StepEnds(result)
    /\ IF active \in {"close", "idle"} /\ result # "open_error"
       THEN active' = "open" /\ UNCHANGED initiate
       ELSE /\ initiate' = IF active = "terminate" THEN initiate ELSE "idle"
            /\ UNCHANGED active
    /\ CheckFrame
    /\ UNCHANGED <<result, stop, auto, status>>

\* Mutant: the request is taken out of the slot.
CheckTerminateOnce ==
    /\ Checking("terminate")
    /\ StepEnds(result)
    /\ status' = "device_terminated"
    /\ active' = "close"
    /\ initiate' = "idle"
    /\ CheckFrame
    /\ UNCHANGED <<result, stop, auto>>

CheckTerminate ==
    /\ Checking("terminate")
    /\ StepEnds(result)
    /\ status' = "device_terminated"
    /\ active' = "close"
    /\ CheckFrame
    /\ UNCHANGED <<result, initiate, stop, auto>>

CheckNothing ==
    /\ Checking("idle")
    /\ StepEnds(result)
    /\ CheckFrame
    /\ UNCHANGED <<result, slotVars, active, auto, status>>

\* abort_connector: it ends, unless it ends already.
Report ==
    /\ pc = "report"
    /\ pc' = "step"
    /\ IF api \notin {"terminate", "abort"}
       THEN api' = "abort" /\ initiate' = "terminate" /\ status' = "abort"
       ELSE UNCHANGED <<api, initiate, status>>
    /\ wanted' = FALSE
    /\ UNCHANGED <<result, first, ending, stop, hsVars, netVars, owed, calls, active,
                   edp, auto, timer, cc, troubles, redirects, fault>>

-----------------------------------------------------------------------------
\* connector_initiate_action: edp_initiate_action behind the API's own state.

MayCall(call) ==
    /\ call \in Calls /\ calls < MaxCalls
    /\ pc # "freed" /\ fault = "none" /\ ~ending
    /\ pc = "step" \/ LateCalls
    /\ "stop_callback" \in Overlaps \/ pc # "stopping"
    /\ "after_abort" \in Overlaps \/ (api # "abort" /\ result # "abort")
    /\ calls' = calls + 1
CallFrame == UNCHANGED <<stepVars, hsVars, netVars, active, edp, auto, status, timer,
                         cc, troubles, redirects, fault>>

\* A stop of one transport or of all; refused, it changes nothing.
MayStop ==
    /\ active \notin {"wait_for_reconnect", "terminate"}
    /\ ~(active \in {"idle", "close"} /\ initiate = "open")
    /\ ~(initiate = "close" /\ stop.is_set)
    /\ api # "terminate"
    /\ "stop_redirect" \in Overlaps \/ (active # "redirect" /\ cc.state # "close")

Stop(immediately) ==
    /\ MayCall("stop") /\ MayStop
    /\ stop' = [immediately |-> immediately, is_set |-> TRUE]
    /\ initiate' = "close"
    /\ owed' = [owed EXCEPT !.tcp = @ + 1]
    /\ wanted' = FALSE
    /\ CallFrame
    /\ UNCHANGED apiVars

StopAll(immediately) ==
    /\ MayCall("stop_all") /\ MayStop /\ api = "running"
    /\ stop' = [stop EXCEPT !.immediately = immediately]
    /\ initiate' = "close"
    /\ api' = "stop"
    /\ owed' = [owed EXCEPT !.all = @ + 1]
    /\ wanted' = FALSE
    /\ CallFrame
    /\ UNCHANGED ending

\* A start while the transport is at work is accepted and changes nothing.
Start ==
    /\ MayCall("start") /\ api # "terminate"
    /\ active \notin {"wait_for_reconnect", "terminate"}
    /\ initiate # "close"
    /\ "start_closing" \in Overlaps \/ active # "close"
    /\ initiate' = IF active \in {"idle", "close"} THEN "open" ELSE initiate
    /\ wanted' = TRUE
    /\ CallFrame
    /\ UNCHANGED <<apiVars, stop, owed>>

\* The slot, and then the API's own state.
Terminate ==
    /\ MayCall("terminate") /\ api # "terminate"
    /\ initiate' = "terminate"
    /\ ending' = TRUE
    /\ wanted' = FALSE
    /\ CallFrame
    /\ UNCHANGED <<api, stop, owed>>

Terminated ==
    /\ ending
    /\ ending' = FALSE
    /\ api' = "terminate"
    /\ CallFrame
    /\ UNCHANGED <<slotVars, userVars>>

-----------------------------------------------------------------------------
Rounds == IdleRound \/ WaitRound \/ ConnectRound \/ ConfigureRound \/ SendRound
          \/ DiscoveryRound \/ ConnectedRound \/ AnswerRound \/ DataRound
          \/ ReceiveRound \/ ReceiveFails \/ Disconnected \/ Redirected
          \/ CloseRound \/ RedirectClose \/ RedirectConnect
Check == CheckStopped \/ StopAnswered \/ CheckStop \/ CheckStart \/ CheckTerminate
         \/ CheckNothing
Step == StepFree \/ StepBegin \/ Rounds \/ Check \/ Report
User == \/ \E immediately \in BOOLEAN : Stop(immediately) \/ StopAll(immediately)
        \/ Start \/ Terminate \/ Terminated

\* The transport is freed, or an assertion failed.
Over == pc = "freed" \/ fault # "none"
Ended == Over /\ UNCHANGED vars

Next == Step \/ User \/ Ended
Spec == Init /\ [][Next]_vars

-----------------------------------------------------------------------------
\* Properties.

TypeOK ==
    /\ pc \in {"step", "run", "check", "stopping", "report", "freed"}
    /\ result \in {"idle", "working", "pending", "open_error", "abort",
                   "device_terminated"}
    /\ {first, active} \subseteq {"idle", "open", "send", "receive", "redirect",
                                  "close", "terminate", "wait_for_reconnect"}
    /\ api \in {"running", "stop", "terminate", "abort"}
    /\ initiate \in {"idle", "open", "close", "terminate"}
    /\ {edp, next} \subseteq EdpStates
    /\ {ending, auto, timer, gotId, open, wanted} \subseteq BOOLEAN
    /\ stop \in [immediately : BOOLEAN, is_set : BOOLEAN]
    /\ status \in {"none", "device_error", "device_stopped", "device_terminated",
                   "abort", "cloud_disconnected", "cloud_redirected"}
    /\ cc \in [state : {"redirect_report", "connect_report", "close", "connect"},
               urls : 0 .. MaxUrls, report : Reports]
    /\ current \in {"none", "cc"}
    /\ out \in Packets \cup {"none"}
    /\ via \in {"cloud", "redirect", "fallback"}
    /\ sent \in Seq(Packets)
    /\ calls \in 0 .. MaxCalls /\ troubles \in 0 .. MaxTroubles
    /\ redirects \in 0 .. MaxRedirects
    /\ fault \in {"none", "nothing_to_send", "open_while_connected"}

\* No assertion of the connection automaton fails, whatever the callbacks answer
\* and Device Cloud does.
NoFault == fault = "none"

\* On every connection the device sends the handshake in its order, with what it
\* may leave out and the outcome of the redirect that led to it, and it serves
\* messages only after all of it, however often the network was slow, and
\* whatever ended the connections before.
HandshakeInOrder ==
    \E provisioning \in BOOLEAN :
       /\ IsPrefix(sent, Handshake(provisioning))
       /\ edp = "facility_process" => sent = Handshake(provisioning)

\* The state of the handshake says whether there is a network: the device never
\* sends, receives or closes without one, and never opens a second one.
NetworkMatchesState == open <=> edp # "connect_to_cloud"

\* When the transport has been stopped, its network is closed.
StopCloses == active = "idle" /\ ~auto => ~open

\* Once the user has terminated Cloud Connector, or a callback aborted it, the
\* slot keeps the end until the transport is freed.
EndIsFinal == api \in {"terminate", "abort"} => initiate = "terminate"

\* The connector runs, its callbacks are not busy for ever, time passes, and the
\* sessions of a transport that is to stop come to their end.
Fairness ==
    /\ WF_vars(Step)
    /\ WF_vars(Terminated)
    /\ SF_vars(Rounds /\ result' # "pending")
    /\ SF_vars(DataRound /\ result' # "pending")
    /\ SF_vars(WaitRound /\ active' = "open")
    /\ SF_vars(ReceiveRound /\ result' = "idle" /\ out = "none")
    /\ SF_vars(StopAnswered /\ result' # "pending")
    /\ SF_vars(StepBegin /\ owed' # owed)
FairSpec == Spec /\ Fairness

\* What the user calls comes to its end.  A stop of the transport is told, unless Cloud
\* Connector ends; one of all transports also when the user has not started again.
\* Cloud Connector is freed after a terminate, and after an abort.
CallsEnd ==
    /\ owed.tcp > 0 ~> owed.tcp = 0 \/ api \in {"terminate", "abort"} \/ Over
    /\ owed.all > 0 ~> owed.all = 0 \/ api \in {"terminate", "abort"} \/ Over \/ wanted
    /\ api \in {"terminate", "abort"} ~> Over

\* A transport that the user wants comes to serve Device Cloud, whatever ended its
\* connections before.
Connects == wanted ~> edp = "facility_process" \/ ~wanted \/ Over

=============================================================================
