------------------------ MODULE EdpConnectionProofs ------------------------
(***************************************************************************)
(* For every kind of device, callback and user: types, an end is final,    *)
(* the state of the handshake tells whether there is a network, no         *)
(* assertion of the connection automaton fails, and the handshake is in    *)
(* order on every connection.                                              *)
(***************************************************************************)
EXTENDS EdpConnection, SequenceTheorems, TLAPS

\* The slot holds the end from the moment it is asked for, and nothing while the stop
\* callback is called.
EndInv ==
    /\ initiate = "terminate" <=> ending \/ api \in {"terminate", "abort"}
    /\ pc = "stopping" => initiate = "idle"

\* A message that is being sent leads on in the handshake, but not behind its end.
NextInv ==
    /\ edp = "send_in_progress" => next \notin Unconnected
    /\ next # "facility_process"

NetworkInv == NetworkMatchesState /\ NextInv

\* A redirect that connection control has not finished.
Redirecting == cc.state \in {"close", "connect"}

\* What connection control and the slot hold in each state of the transport.
CcInv ==
    /\ DOMAIN cc = {"state", "urls", "report"} /\ cc = [f \in DOMAIN cc |-> cc[f]]
    /\ cc.state \in {"redirect_report", "connect_report", "close", "connect"}
    /\ Redirecting => \/ active = "redirect"
                      \/ active \in {"close", "idle", "terminate"} /\ initiate = "terminate"
                      \/ active = "open" /\ initiate = "terminate" /\ pc = "check"
    /\ active = "redirect" => initiate # "close"
    /\ active = "redirect" /\ cc.state = "connect" => edp \in Unconnected

\* A start waits only where it opens a connection, and the handshake is over when the
\* transport is not open.
SlotInv ==
    /\ pc = "stopping" => active = "idle"
    /\ active = "open" => edp # "facility_process"
    /\ active \in {"idle", "wait_for_reconnect"} => edp \in Unconnected
    /\ initiate = "open" =>
          \/ active = "idle"
          \/ active = "open" /\ (edp \in Unconnected \/ pc = "check")
          \/ active = "wait_for_reconnect" /\ pc = "check"

FaultInv == NoFault /\ EndInv /\ NextInv /\ CcInv /\ SlotInv

-----------------------------------------------------------------------------
\* The calls of the user do not overlap with a stop callback, and none follows an abort.
NoOverlap == {"stop_callback", "after_abort"} \cap Overlaps = {}

\* A round leaves the requests of the user alone.
LEMMA RoundsKeep ==
    ASSUME Rounds
    PROVE  /\ pc = "run" /\ pc' \in {"run", "step", "check", "report"}
           /\ UNCHANGED <<api, ending, initiate>>
<1>1. CASE IdleRound \/ WaitRound
  BY <1>1 DEF IdleRound, WaitRound, Round, Ends, Running, apiVars, slotVars
<1>2. CASE ConnectRound \/ ConfigureRound
  BY <1>2 DEF ConnectRound, ConfigureRound, Ends, Running, apiVars
<1>3. CASE SendRound \/ DiscoveryRound
  <2>1. CASE \E p, n : Transmit(p, n)
    BY <1>3, <2>1 DEF SendRound, DiscoveryRound, Transmit, Round, Ends, Running, apiVars
  <2>2. CASE UNCHANGED <<stepVars, apiVars, slotVars>>
    BY <1>3, <2>2 DEF SendRound, DiscoveryRound, Running, apiVars, stepVars, slotVars
  <2> QED
    BY <1>3, <2>1, <2>2 DEF SendRound, DiscoveryRound
<1>4. CASE ConnectedRound \/ AnswerRound
  BY <1>4 DEF ConnectedRound, AnswerRound, Round, Ends, Running, apiVars, stepVars, slotVars
<1>5. CASE DataRound \/ ReceiveRound \/ ReceiveFails \/ Disconnected \/ Redirected
  BY <1>5 DEF DataRound, ReceiveRound, ReceiveFails, Disconnected, Redirected, Round, Ends,
              Running, apiVars, slotVars
<1>6. CASE CloseRound \/ RedirectClose \/ RedirectConnect
  BY <1>6 DEF CloseRound, RedirectClose, RedirectConnect, Round, Ends, Running, apiVars
<1> QED
  BY <1>1, <1>2, <1>3, <1>4, <1>5, <1>6 DEF Rounds

\* Only the end itself fills the slot with "terminate", and nothing takes it out again.
LEMMA EndStep ==
    ASSUME NoOverlap, EndInv, [Next]_vars
    PROVE  EndInv'
<1>1. CASE Rounds
  BY <1>1, RoundsKeep DEF EndInv
<1>2. CASE StepFree \/ StepBegin \/ Report
  BY <1>2 DEF StepFree, StepBegin, Report, EndInv, apiVars, slotVars
<1>3. CASE Check
  BY <1>3 DEF Check, CheckStopped, StopAnswered, CheckStop, CheckStart, CheckTerminate,
              CheckNothing, Checking, StepEnds, CheckFrame, AfterStopCallback, EndInv,
              apiVars, slotVars
<1>4. CASE User
  BY <1>4 DEF User, Stop, StopAll, Start, Terminate, Terminated, MayCall, MayStop,
              CallFrame, NoOverlap, EndInv, apiVars, slotVars, stepVars
<1>5. CASE UNCHANGED vars
  BY <1>5 DEF vars, stepVars, apiVars, slotVars, EndInv
<1> QED
  BY <1>1, <1>2, <1>3, <1>4, <1>5 DEF Next, Step, Ended

\* At the beginning nothing has been asked for.
LEMMA EndInit == Init => EndInv
  BY DEF Init, EndInv

\* Once the user has terminated Cloud Connector, or a callback aborted it, no later call, no
\* stop callback and no other end of a connection takes the end out of the slot.
THEOREM EndStaysFinal ==
    ASSUME NoOverlap
    PROVE  Spec => []EndIsFinal
<1>1. EndInv => EndIsFinal
  BY DEF EndInv, EndIsFinal
<1>2. EndInv /\ [Next]_vars => EndInv'
  BY EndStep
<1> QED
  BY EndInit, <1>1, <1>2, PTL DEF Spec

-----------------------------------------------------------------------------
\* The states of the handshake that come after another are states with a network.
LEMMA Afters ==
    /\ \A state \in SendStates : /\ After[state] \notin Unconnected
                                 /\ After[state] \notin {"facility_process", "send_in_progress"}
    /\ \A state \in DOMAIN Answered :
          Answered[state] \notin Unconnected \cup {"facility_process", "send_in_progress"}
  BY DEF SendStates, After, Answered, Unconnected

\* A packet of the handshake is sent.
LEMMA Transmits ==
    ASSUME NEW p, NEW n, Transmit(p, n)
    PROVE  /\ edp' \in {n, "send_in_progress", edp} /\ next' = n
           /\ edp' = "send_in_progress" => active' = "open" \/ edp = "send_in_progress"
           /\ active' \in {"open", "close"}
           /\ pc' = "run" => active' = "close"
           /\ UNCHANGED <<stop, fault, initiate>>
  BY DEF Transmit, Round, Ends

\* A message of the handshake goes out, the last of which leads to the end of it.
LEMMA HandshakeSends ==
    ASSUME SendRound \/ (DiscoveryRound /\ fault' = "none"), NextInv
    PROVE  /\ edp \notin Unconnected /\ edp' \notin Unconnected
           /\ edp' = "send_in_progress" => next' \notin Unconnected
           /\ next' # "facility_process"
           /\ edp # "facility_process" /\ edp' # "facility_process"
           /\ active = "open" /\ active' \in {"open", "close"}
           /\ pc = "run" /\ (pc' = "run" => active' = "close")
           /\ UNCHANGED <<open, initiate>>
<1>1. CASE SendRound
  <2>1. PICK p, n : /\ Transmit(p, n)
                    /\ \/ n \notin Unconnected \cup {"facility_process", "send_in_progress"}
                       \/ n = next /\ edp = "send_in_progress"
    BY <1>1, Afters DEF SendRound
  <2> QED
    BY <1>1, <2>1, Transmits DEF NextInv, SendRound, Running, SendStates, Unconnected
<1>2. CASE DiscoveryRound /\ fault' = "none"
  <2>1. PICK p, n : Transmit(p, n) /\ n \in {"discovery_facility", "send_complete"}
    BY <1>2 DEF DiscoveryRound
  <2> QED
    BY <1>2, <2>1, Transmits DEF NextInv, DiscoveryRound, Running, Unconnected
<1> QED
  BY <1>1, <1>2

-----------------------------------------------------------------------------
\* The types: the conjuncts of TypeOK in five groups, by the actions that change them.
ControlType ==
    /\ pc \in {"step", "run", "check", "stopping", "report", "freed"}
    /\ result \in {"idle", "working", "pending", "open_error", "abort",
                   "device_terminated"}
    /\ {first, active} \subseteq {"idle", "open", "send", "receive", "redirect",
                                  "close", "terminate", "wait_for_reconnect"}
    /\ api \in {"running", "stop", "terminate", "abort"}
    /\ initiate \in {"idle", "open", "close", "terminate"}
    /\ fault \in {"none", "nothing_to_send", "open_while_connected"}
    /\ status \in {"none", "device_error", "device_stopped", "device_terminated",
                   "abort", "cloud_disconnected", "cloud_redirected"}
FlagType ==
    /\ {ending, auto, timer, gotId, open, wanted} \subseteq BOOLEAN
    /\ stop \in [immediately : BOOLEAN, is_set : BOOLEAN]
HandshakeType ==
    /\ {edp, next} \subseteq EdpStates
    /\ current \in {"none", "cc"}
    /\ out \in Packets \cup {"none"}
    /\ via \in {"cloud", "redirect", "fallback"}
    /\ sent \in Seq(Packets)
CcStates == {"redirect_report", "connect_report", "close", "connect"}
CcRecords == [state : CcStates, urls : 0 .. MaxUrls, report : Reports]
CcType == cc \in CcRecords
CountType ==
    /\ calls \in 0 .. MaxCalls /\ troubles \in 0 .. MaxTroubles
    /\ redirects \in 0 .. MaxRedirects

\* A message that is being sent is in the buffer.
OutInv ==
    /\ edp = "send_in_progress" => out # "none"
    /\ next # "send_in_progress"
    /\ active \in {"send", "receive"} => edp = "facility_process"

TypeInv == OutInv /\ ControlType /\ FlagType /\ HandshakeType /\ CcType /\ CountType

\* The states and the packets of the handshake.
LEMMA HandshakeStates ==
    /\ Unconnected \subseteq EdpStates /\ SendStates \subseteq EdpStates
    /\ \A state \in SendStates : After[state] \in EdpStates /\ MessageOf(state) \in Packets
    /\ \A state \in DOMAIN Answered : Answered[state] \in EdpStates
    /\ {"facility_process", "send_in_progress", "discovery_facility", "connected",
        "send_version", "connect_to_cloud", "configuration_init", "send_complete"}
          \subseteq EdpStates
    /\ {"capabilities", "connection_report", "data"} \cup Reports \subseteq Packets
BY DEF EdpStates, Unconnected, SendStates, After, Answered, MessageOf, Packets, Reports

\* The changes connection control makes to its record keep the type of it.
LEMMA CcChanges ==
    /\ \A c \in CcRecords : c.urls \in 0 .. MaxUrls /\ c.report \in Reports
    /\ \A c \in CcRecords, s \in CcStates : [c EXCEPT !.state = s] \in CcRecords
    /\ \A c \in CcRecords, n \in 0 .. MaxUrls : [c EXCEPT !.urls = n] \in CcRecords
    /\ \A c \in CcRecords, s \in CcStates, n \in 0 .. MaxUrls :
          [c EXCEPT !.state = s, !.urls = n] \in CcRecords
    /\ \A c \in CcRecords, s \in CcStates, r \in Reports :
          [c EXCEPT !.state = s, !.report = r] \in CcRecords
BY DEF CcRecords

\* The values it writes.
LEMMA CcValues ==
    /\ {"redirect_report", "connect_report", "close", "connect"} \subseteq CcStates
    /\ {"not_redirect", "redirect_success", "redirect_error"} \subseteq Reports
    /\ FreshCc \in CcRecords
<1>1. 0 \in 0 .. MaxUrls
  BY ConstantsAssumption DEF ConstantsAssumption
<1> QED
  BY <1>1 DEF CcStates, Reports, FreshCc, CcRecords

\* A message is sent from the buffer until it is gone, and data only after the handshake.
LEMMA OutStep ==
    ASSUME TypeInv, [Next]_vars
    PROVE  OutInv'
<1> USE DEF OutInv, TypeInv, Running
<1>1. CASE UNCHANGED <<edp, next, out>> /\ (active' \in {"send", "receive"} => active' = active)
  BY <1>1
<1>2. CASE IdleRound \/ WaitRound \/ Redirected
  BY <1>2, <1>1 DEF IdleRound, WaitRound, Redirected, Round, Ends, hsVars
<1>3. CASE ConnectRound \/ ConfigureRound
  BY <1>3 DEF ConnectRound, ConfigureRound, AfterOpenError, Ends
<1>4. CASE SendRound
  <2>1. PICK p, n : Transmit(p, n) /\ p # "none" /\ n # "send_in_progress"
    BY <1>4, Afters DEF SendRound, SendStates, MessageOf
  <2>2. /\ edp' = "send_in_progress" => out' # "none"
        /\ next' # "send_in_progress"
    BY <2>1 DEF Transmit
  <2>3. active' \notin {"send", "receive"}
    BY <2>1 DEF Transmit, Round, Ends
  <2> QED
    BY <2>2, <2>3
<1>5. CASE DiscoveryRound
  BY <1>5, CcChanges, CcValues DEF DiscoveryRound, Transmit, Round, Ends, slotVars, CcType, Reports
<1>6. CASE ConnectedRound \/ AnswerRound
  BY <1>6 DEF ConnectedRound, AnswerRound, Round, Ends, hsVars, Answered
<1>7. CASE DataRound \/ ReceiveRound \/ ReceiveFails \/ Disconnected
  BY <1>7 DEF DataRound, ReceiveRound, ReceiveFails, Disconnected, Round, Ends, hsVars
<1>8. CASE CloseRound \/ RedirectClose \/ RedirectConnect
  BY <1>8 DEF CloseRound, RedirectClose, RedirectConnect, LeaveNetwork, Round, Ends, hsVars
<1>9. CASE StepFree \/ StepBegin \/ Report \/ Check
  BY <1>1, <1>9 DEF StepFree, StepBegin, Report, Check, CheckStopped, StopAnswered, CheckStop,
                    CheckStart, CheckTerminate, CheckNothing, CheckFrame, hsVars
<1>10. CASE User \/ UNCHANGED vars
  BY <1>1, <1>10 DEF User, Stop, StopAll, Start, Terminate, Terminated, CallFrame, vars, hsVars
<1> QED
  BY <1>2, <1>3, <1>4, <1>5, <1>6, <1>7, <1>8, <1>9, <1>10 DEF Next, Step, Rounds, Ended

\* The positions of a step, the states of the transport and the reason of its end.
LEMMA ControlStep ==
    ASSUME TypeInv, [Next]_vars
    PROVE  ControlType'
<1> USE ConstantsAssumption DEF ConstantsAssumption, TypeInv, ControlType, Answer, Running,
        Round, Ends, stepVars, apiVars, slotVars
<1>1. CASE IdleRound \/ WaitRound
  BY <1>1 DEF IdleRound, WaitRound
<1>2. CASE ConnectRound
  BY <1>2 DEF ConnectRound, AfterOpenError
<1>3. CASE ConfigureRound
  BY <1>3 DEF ConfigureRound
<1>4. CASE SendRound \/ DiscoveryRound
  BY <1>4 DEF SendRound, DiscoveryRound, Transmit
<1>5. CASE ConnectedRound \/ AnswerRound
  BY <1>5 DEF ConnectedRound, AnswerRound
<1>6. CASE DataRound \/ ReceiveRound
  BY <1>6 DEF DataRound, ReceiveRound
<1>7. CASE ReceiveFails \/ Disconnected
  BY <1>7 DEF ReceiveFails, Disconnected
<1>8. CASE Redirected
  BY <1>8 DEF Redirected
<1>9. CASE CloseRound
  BY <1>9 DEF CloseRound, LeaveNetwork, FinalResult
<1>10. CASE RedirectClose
  BY <1>10 DEF RedirectClose, LeaveNetwork
<1>11. CASE RedirectConnect
  BY <1>11 DEF RedirectConnect
<1>12. CASE StepFree \/ StepBegin \/ Report
  BY <1>12 DEF StepFree, StepBegin, Report
<1>13. CASE Check
  BY <1>13 DEF Check, CheckStopped, StopAnswered, CheckStop, CheckStart, CheckTerminate,
     CheckNothing, Checking, StepEnds, CheckFrame, AfterStopCallback
<1>14. CASE \E immediately \in BOOLEAN : Stop(immediately)
  BY <1>14 DEF Stop, MayCall, CallFrame
<1>15. CASE \E immediately \in BOOLEAN : StopAll(immediately)
  BY <1>15 DEF StopAll, MayCall, CallFrame
<1>16. CASE Start \/ Terminate \/ Terminated
  BY <1>16 DEF Start, Terminate, Terminated, MayCall, CallFrame
<1>17. CASE UNCHANGED vars
  BY <1>17 DEF vars
<1> QED
  BY <1>1, <1>2, <1>3, <1>4, <1>5, <1>6, <1>7, <1>8, <1>9, <1>10, <1>11, <1>12, <1>13, <1>14,
     <1>15, <1>16, <1>17 DEF Next, Step, Rounds, User, Ended

\* The flags and the condition of a stop.
LEMMA FlagStep ==
    ASSUME TypeInv, [Next]_vars
    PROVE  FlagType'
<1> USE ConstantsAssumption DEF ConstantsAssumption, TypeInv, FlagType, Round, Ends, Running,
        stepVars, apiVars, slotVars, hsVars, netVars, userVars
<1>1. CASE IdleRound \/ WaitRound
  BY <1>1 DEF IdleRound, WaitRound
<1>2. CASE ConnectRound
  BY <1>2 DEF ConnectRound, AfterOpenError
<1>3. CASE ConfigureRound
  BY <1>3 DEF ConfigureRound
<1>4. CASE SendRound \/ DiscoveryRound
  BY <1>4 DEF SendRound, DiscoveryRound, Transmit
<1>5. CASE ConnectedRound \/ AnswerRound
  BY <1>5 DEF ConnectedRound, AnswerRound
<1>6. CASE DataRound \/ ReceiveRound
  BY <1>6 DEF DataRound, ReceiveRound
<1>7. CASE ReceiveFails \/ Disconnected
  BY <1>7 DEF ReceiveFails, Disconnected
<1>8. CASE Redirected
  BY <1>8 DEF Redirected
<1>9. CASE CloseRound
  BY <1>9 DEF CloseRound, LeaveNetwork, FinalResult
<1>10. CASE RedirectClose
  BY ZenonT(60), <1>10 DEF RedirectClose, LeaveNetwork
<1>11. CASE RedirectConnect
  BY <1>11 DEF RedirectConnect
<1>12. CASE StepFree \/ StepBegin \/ Report
  BY <1>12 DEF StepFree, StepBegin, Report
<1>13. CASE Check
  BY ZenonT(60), <1>13 DEF Check, CheckStopped, StopAnswered, CheckStop, CheckStart, CheckTerminate,
     CheckNothing, Checking, StepEnds, CheckFrame, AfterStopCallback
<1>14. CASE \E immediately \in BOOLEAN : Stop(immediately)
  <2>1. PICK immediately \in BOOLEAN : Stop(immediately)
    BY <1>14
  <2>2. stop' \in [immediately : BOOLEAN, is_set : BOOLEAN]
    BY <2>1 DEF Stop
  <2> QED
    BY <2>1, <2>2 DEF Stop, CallFrame, hsVars, netVars, apiVars
<1>15. CASE \E immediately \in BOOLEAN : StopAll(immediately)
  BY <1>15 DEF StopAll, MayCall, CallFrame
<1>16. CASE Start \/ Terminate \/ Terminated
  BY <1>16 DEF Start, Terminate, Terminated, MayCall, CallFrame
<1>17. CASE UNCHANGED vars
  BY <1>17 DEF vars
<1> QED
  BY <1>1, <1>2, <1>3, <1>4, <1>5, <1>6, <1>7, <1>8, <1>9, <1>10, <1>11, <1>12, <1>13, <1>14,
     <1>15, <1>16, <1>17 DEF Next, Step, Rounds, User, Ended

\* What is sent is a sequence of packets.
LEMMA SentTypes ==
    /\ << >> \in Seq(Packets)
    /\ \A s \in Seq(Packets), p \in Packets : Append(s, p) \in Seq(Packets)
OBVIOUS

\* A packet goes out, or stays in the buffer.
LEMMA TransmitType ==
    ASSUME TypeInv, NEW p \in Packets, NEW n \in EdpStates, Transmit(p, n)
    PROVE  /\ {edp', next'} \subseteq EdpStates
           /\ out' \in Packets \cup {"none"} /\ sent' \in Seq(Packets)
BY SentTypes, HandshakeStates DEF Transmit, TypeInv, HandshakeType

\* The states of the handshake, the buffer and what was sent.
LEMMA HandshakeStep ==
    ASSUME TypeInv, [Next]_vars
    PROVE  HandshakeType'
<1> USE DEF TypeInv, HandshakeType, Running, hsVars, netVars
<1>1. CASE UNCHANGED <<edp, next, current, out, via, sent>>
  BY <1>1
<1>2. CASE ConnectRound \/ ConfigureRound \/ ConnectedRound \/ RedirectConnect
  BY <1>2, HandshakeStates, SentTypes
     DEF ConnectRound, ConfigureRound, ConnectedRound, RedirectConnect
<1>3. CASE SendRound
  <2>1. CASE edp = "send_in_progress" /\ out # "none"
    BY <1>3, <2>1, TransmitType DEF SendRound
  <2>2. CASE edp # "send_in_progress"
    BY <1>3, <2>2, TransmitType, HandshakeStates DEF SendRound
  <2> QED
    BY <1>3, <2>1, <2>2 DEF SendRound, OutInv
<1>4. CASE DiscoveryRound
  <2>1. CASE \E p \in Packets, n \in EdpStates : Transmit(p, n)
    BY <1>4, <2>1, TransmitType DEF DiscoveryRound
  <2>2. CASE UNCHANGED <<edp, next, out, sent>>
    BY <1>4, <2>2 DEF DiscoveryRound
  <2>3. cc.report \in Packets
    BY HandshakeStates, CcChanges, CcValues DEF CcType
  <2> QED
    BY <1>4, <2>1, <2>2, <2>3, HandshakeStates DEF DiscoveryRound
<1>5. CASE AnswerRound
  BY <1>5, HandshakeStates DEF AnswerRound, Answered
<1>6. CASE DataRound \/ ReceiveRound
  BY <1>6, HandshakeStates DEF DataRound, ReceiveRound
<1>7. CASE CloseRound \/ RedirectClose
  BY <1>7, HandshakeStates, SentTypes DEF CloseRound, RedirectClose, LeaveNetwork
<1>8. CASE IdleRound \/ WaitRound \/ ReceiveFails \/ Disconnected \/ Redirected
  BY <1>1, <1>8 DEF IdleRound, WaitRound, ReceiveFails, Disconnected, Redirected
<1>9. CASE StepFree \/ StepBegin \/ Report \/ Check
  BY <1>1, <1>9 DEF StepFree, StepBegin, Report, Check, CheckStopped, StopAnswered, CheckStop,
                    CheckStart, CheckTerminate, CheckNothing, CheckFrame
<1>10. CASE User \/ UNCHANGED vars
  BY <1>1, <1>10 DEF User, Stop, StopAll, Start, Terminate, Terminated, CallFrame, vars
<1> QED
  BY <1>2, <1>3, <1>4, <1>5, <1>6, <1>7, <1>8, <1>9, <1>10 DEF Next, Step, Rounds, Ended

\* Connection control.
LEMMA CcStep ==
    ASSUME TypeInv, [Next]_vars
    PROVE  CcType'
<1>1. cc \in CcRecords /\ cc.urls \in 0 .. MaxUrls
  BY CcChanges DEF TypeInv, CcType
<1>2. CASE cc' \in {cc, FreshCc}
  BY <1>1, <1>2, CcValues DEF CcType
<1>3. CASE DiscoveryRound \/ RedirectClose
  <2>1. \/ cc' \in {cc, FreshCc}
        \/ cc' = [cc EXCEPT !.state = "connect_report", !.report = "not_redirect"]
        \/ cc' = [cc EXCEPT !.state = "connect"]
    BY <1>3 DEF DiscoveryRound, RedirectClose
  <2>2. CASE cc' = [cc EXCEPT !.state = "connect_report", !.report = "not_redirect"]
    BY <1>1, <2>2, CcChanges, CcValues DEF CcType
  <2>3. CASE cc' = [cc EXCEPT !.state = "connect"]
    BY <1>1, <2>3, CcChanges, CcValues DEF CcType
  <2> QED
    BY <1>2, <2>1, <2>2, <2>3
<1>4. CASE Redirected
  <2>1. PICK n \in 1 .. MaxUrls : cc' = [cc EXCEPT !.state = "close", !.urls = n]
    BY <1>4 DEF Redirected
  <2>2. n \in 0 .. MaxUrls
    OBVIOUS
  <2> QED
    BY <1>1, <2>1, <2>2, CcChanges, CcValues DEF CcType
<1>5. CASE RedirectConnect /\ UrlsLeft
  <2>1. \/ cc' = cc
        \/ cc' = [cc EXCEPT !.state = "redirect_report", !.report = "redirect_success"]
        \/ cc' = [cc EXCEPT !.urls = cc.urls - 1]
    BY <1>5 DEF RedirectConnect
  <2>2. cc.urls - 1 \in 0 .. MaxUrls
    BY <1>1, <1>5, ConstantsAssumption DEF UrlsLeft, ConstantsAssumption
  <2>3. CASE cc' = [cc EXCEPT !.state = "redirect_report", !.report = "redirect_success"]
    BY <1>1, <2>3, CcChanges, CcValues DEF CcType
  <2>4. CASE cc' = [cc EXCEPT !.urls = cc.urls - 1]
    BY <1>1, <2>2, <2>4, CcChanges DEF CcType
  <2> QED
    BY <1>2, <2>1, <2>3, <2>4
<1>6. CASE RedirectConnect /\ ~UrlsLeft
  <2>1. cc' = [cc EXCEPT !.state = "redirect_report", !.report = "redirect_error"]
    BY <1>6 DEF RedirectConnect, GiveUp
  <2> QED
    BY <1>1, <2>1, CcChanges, CcValues DEF CcType
<1>7. CASE CloseRound
  BY <1>2, <1>7 DEF CloseRound, Cleaned
<1>8. CASE IdleRound \/ WaitRound \/ ConnectRound \/ ConfigureRound \/ SendRound
            \/ ConnectedRound \/ AnswerRound \/ DataRound \/ ReceiveRound \/ ReceiveFails
            \/ Disconnected
  BY <1>2, <1>8 DEF IdleRound, WaitRound, ConnectRound, ConfigureRound, SendRound,
                    ConnectedRound, AnswerRound, DataRound, ReceiveRound, ReceiveFails,
                    Disconnected
<1>9. CASE StepFree \/ StepBegin \/ Report \/ Check
  BY <1>2, <1>9 DEF StepFree, StepBegin, Report, Check, CheckStopped, StopAnswered, CheckStop,
                    CheckStart, CheckTerminate, CheckNothing, CheckFrame
<1>10. CASE User \/ UNCHANGED vars
  BY <1>2, <1>10 DEF User, Stop, StopAll, Start, Terminate, Terminated, CallFrame, vars
<1> QED
  BY <1>3, <1>4, <1>5, <1>6, <1>7, <1>8, <1>9, <1>10 DEF Next, Step, Rounds, Ended

\* Calls, troubles and redirects keep their bounds.
LEMMA CountStep ==
    ASSUME TypeInv, [Next]_vars
    PROVE  CountType'
<1> USE ConstantsAssumption DEF ConstantsAssumption, TypeInv, CountType, Answer, NoAnswer,
        Running, Round, Ends, userVars
<1>1. CASE IdleRound \/ WaitRound
  BY <1>1 DEF IdleRound, WaitRound
<1>2. CASE ConnectRound
  BY <1>2 DEF ConnectRound, AfterOpenError
<1>3. CASE ConfigureRound
  BY <1>3 DEF ConfigureRound
<1>4. CASE SendRound \/ DiscoveryRound
  BY <1>4 DEF SendRound, DiscoveryRound, Transmit
<1>5. CASE ConnectedRound \/ AnswerRound
  BY <1>5 DEF ConnectedRound, AnswerRound
<1>6. CASE DataRound \/ ReceiveRound
  BY <1>6 DEF DataRound, ReceiveRound
<1>7. CASE ReceiveFails \/ Disconnected
  BY <1>7 DEF ReceiveFails, Disconnected
<1>8. CASE Redirected
  BY <1>8 DEF Redirected
<1>9. CASE CloseRound
  BY <1>9 DEF CloseRound, LeaveNetwork, FinalResult
<1>10. CASE RedirectClose
  BY <1>10 DEF RedirectClose, LeaveNetwork
<1>11. CASE RedirectConnect
  BY <1>11 DEF RedirectConnect
<1>12. CASE StepFree \/ StepBegin \/ Report
  BY <1>12 DEF StepFree, StepBegin, Report
<1>13. CASE Check
  BY <1>13 DEF Check, CheckStopped, StopAnswered, CheckStop, CheckStart, CheckTerminate,
     CheckNothing, Checking, StepEnds, CheckFrame, AfterStopCallback
<1>14. CASE \E immediately \in BOOLEAN : Stop(immediately)
  BY <1>14 DEF Stop, MayCall, CallFrame
<1>15. CASE \E immediately \in BOOLEAN : StopAll(immediately)
  BY <1>15 DEF StopAll, MayCall, CallFrame
<1>16. CASE Start \/ Terminate \/ Terminated
  BY <1>16 DEF Start, Terminate, Terminated, MayCall, CallFrame
<1>17. CASE UNCHANGED vars
  BY <1>17 DEF vars
<1> QED
  BY <1>1, <1>2, <1>3, <1>4, <1>5, <1>6, <1>7, <1>8, <1>9, <1>10, <1>11, <1>12, <1>13, <1>14,
     <1>15, <1>16, <1>17 DEF Next, Step, Rounds, User, Ended

\* The inductive invariant behind the types.
THEOREM TypeInvariant == Spec => []TypeInv
<1>1. Init => TypeInv
  <2>1. Init => OutInv /\ ControlType
    BY ConstantsAssumption DEF Init, OutInv, ControlType, ConstantsAssumption
  <2>2. Init => FlagType
    <3>1. (~Manual) \in BOOLEAN /\ Provisioned \in BOOLEAN
      BY ConstantsAssumption DEF ConstantsAssumption
    <3>2. Init => {ending, auto, timer, gotId, open, wanted} \subseteq BOOLEAN
      BY <3>1 DEF Init
    <3>3. Init => stop \in [immediately : BOOLEAN, is_set : BOOLEAN]
      BY DEF Init
    <3> QED
      BY <3>2, <3>3 DEF FlagType
  <2>3. Init => HandshakeType /\ CcType
    BY HandshakeStates, SentTypes, CcValues DEF Init, HandshakeType, CcType
  <2>4. Init => CountType
    BY ConstantsAssumption DEF Init, CountType, ConstantsAssumption
  <2> QED
    BY <2>1, <2>2, <2>3, <2>4 DEF TypeInv
<1>2. TypeInv /\ [Next]_vars => TypeInv'
  BY OutStep, ControlStep, FlagStep, HandshakeStep, CcStep, CountStep DEF TypeInv
<1> QED
  BY <1>1, <1>2, PTL DEF Spec

\* Whatever the callbacks answer, the user calls and Device Cloud does, every variable keeps
\* its type; nothing but packets of the handshake counts as sent in it.
THEOREM TypeCorrect == Spec => []TypeOK
<1>1. TypeInv => TypeOK
  BY DEF TypeInv, ControlType, FlagType, HandshakeType, CcType, CcRecords, CcStates, CountType,
         TypeOK
<1> QED
  BY <1>1, TypeInvariant, PTL

-----------------------------------------------------------------------------
\* The state of the handshake and the network.

\* A discovery that finds nothing to send changes nothing but the fault.
LEMMA DiscoveryFails ==
    ASSUME DiscoveryRound, fault' # "none"
    PROVE  /\ UNCHANGED <<pc, active, initiate, api, ending, edp, next, open, cc>>
           /\ active = "open" /\ edp = "discovery_facility" /\ pc = "run"
BY Transmits DEF DiscoveryRound, Running, stepVars, slotVars, apiVars

\* Opening the network leaves connect_to_cloud, and leaving the network goes back to it.
LEMMA NetworkStep ==
    ASSUME "abort" \notin ConfigAnswers, ConfigAnswers \subseteq {"continue", "abort"},
           NetworkInv, [Next]_vars
    PROVE  NetworkInv'
<1> USE DEF NetworkInv, NetworkMatchesState, NextInv
<1>1. CASE UNCHANGED <<edp, next, open>>
  BY <1>1
<1>2. CASE IdleRound \/ WaitRound \/ DataRound \/ ReceiveRound \/ ReceiveFails
            \/ Disconnected \/ Redirected
  BY <1>2, <1>1 DEF IdleRound, WaitRound, DataRound, ReceiveRound, ReceiveFails, Disconnected,
                    Redirected, hsVars, netVars
<1>3. CASE ConnectRound
  BY <1>3 DEF ConnectRound, Unconnected
<1>4. CASE ConfigureRound
  BY <1>4 DEF ConfigureRound, Unconnected, netVars
<1>5. CASE SendRound \/ (DiscoveryRound /\ fault' = "none")
  <2>1. edp \notin Unconnected /\ edp' \notin Unconnected
    BY <1>5, HandshakeSends DEF SendRound, DiscoveryRound, Running
  <2> QED
    BY <1>5, <2>1, HandshakeSends DEF SendRound, DiscoveryRound, Running, Unconnected
<1>6. CASE DiscoveryRound /\ fault' # "none"
  BY <1>6, <1>1, DiscoveryFails
<1>7. CASE ConnectedRound
  BY <1>7 DEF ConnectedRound, hsVars, netVars
<1>8. CASE AnswerRound
  BY <1>8, Afters DEF AnswerRound, netVars, Answered, Unconnected
<1>9. CASE CloseRound
  BY <1>9 DEF CloseRound, LeaveNetwork, hsVars, netVars
<1>10. CASE RedirectClose
  BY <1>10 DEF RedirectClose, LeaveNetwork, hsVars, netVars
<1>11. CASE RedirectConnect
  BY <1>11 DEF RedirectConnect
<1>12. CASE StepFree \/ StepBegin \/ Report
  BY <1>12, <1>1 DEF StepFree, StepBegin, Report, hsVars, netVars
<1>13. CASE Check
  BY <1>13, <1>1 DEF Check, CheckStopped, StopAnswered, CheckStop, CheckStart, CheckTerminate,
                     CheckNothing, CheckFrame, hsVars, netVars
<1>14. CASE User
  BY <1>14, <1>1 DEF User, Stop, StopAll, Start, Terminate, Terminated, CallFrame,
                     hsVars, netVars
<1>15. CASE UNCHANGED vars
  BY <1>15, <1>1 DEF vars, hsVars, netVars
<1> QED
  BY <1>2, <1>3, <1>4, <1>5, <1>6, <1>7, <1>8, <1>9, <1>10, <1>11, <1>12, <1>13, <1>14, <1>15
     DEF Next, Step, Rounds, Ended

\* When no callback aborts between the network and the configuration, the state of the
\* handshake says in every state whether there is a network: what is sent, received or closed
\* has one, and no second one is opened.
THEOREM NetworkMatches ==
    ASSUME "abort" \notin ConfigAnswers
    PROVE  Spec => []NetworkMatchesState
<1>1. Init => NetworkInv
  BY DEF Init, NetworkInv, NetworkMatchesState, NextInv
<1>2. NetworkInv /\ [Next]_vars => NetworkInv'
  BY NetworkStep, ConstantsAssumption DEF ConstantsAssumption
<1>3. NetworkInv => NetworkMatchesState
  BY DEF NetworkInv
<1> QED
  BY <1>1, <1>2, <1>3, PTL DEF Spec
-----------------------------------------------------------------------------
\* No assertion fails.

\* The next state of the handshake: the part of the step for NetworkInv that needs no
\* assumption about the callbacks.
LEMMA NextStep ==
    ASSUME NextInv, [Next]_vars
    PROVE  NextInv'
<1>0. CASE UNCHANGED <<edp, next>>
  BY <1>0 DEF NextInv
<1>1. CASE ConnectRound \/ ConfigureRound \/ ConnectedRound \/ AnswerRound
  BY <1>1, Afters DEF ConnectRound, ConfigureRound, ConnectedRound, AnswerRound, NextInv,
                      Unconnected, Answered, hsVars
<1>2. CASE SendRound \/ (DiscoveryRound /\ fault' = "none")
  BY <1>2, HandshakeSends DEF NextInv
<1>3. CASE DiscoveryRound /\ fault' # "none"
  BY <1>3, <1>0, DiscoveryFails
<1>4. CASE CloseRound \/ RedirectClose \/ RedirectConnect
  BY <1>4 DEF CloseRound, RedirectClose, RedirectConnect, LeaveNetwork, NextInv, Unconnected,
              hsVars
<1>5. CASE IdleRound \/ WaitRound \/ DataRound \/ ReceiveRound \/ ReceiveFails
            \/ Disconnected \/ Redirected
  BY <1>5, <1>0 DEF IdleRound, WaitRound, DataRound, ReceiveRound, ReceiveFails, Disconnected,
                    Redirected, hsVars
<1>6. CASE StepFree \/ StepBegin \/ Report
  BY <1>6, <1>0 DEF StepFree, StepBegin, Report, hsVars
<1>7. CASE Check
  BY <1>7, <1>0 DEF Check, CheckStopped, StopAnswered, CheckStop, CheckStart, CheckTerminate,
                    CheckNothing, CheckFrame, hsVars
<1>8. CASE User
  BY <1>8, <1>0 DEF User, Stop, StopAll, Start, Terminate, Terminated, CallFrame, hsVars
<1>9. CASE UNCHANGED vars
  BY <1>9, <1>0 DEF vars, hsVars
<1> QED
  BY <1>1, <1>2, <1>3, <1>4, <1>5, <1>6, <1>7, <1>8, <1>9 DEF Next, Step, Rounds, Ended

\* In a round the slot keeps its request and only connection control can redirect.
LEMMA FaultRounds ==
    ASSUME Overlaps = {}, FaultInv, Rounds
    PROVE  NoFault' /\ CcInv' /\ SlotInv'
<1> USE DEF FaultInv, NoFault, CcInv, SlotInv, Redirecting
<1>1. CASE IdleRound \/ WaitRound
  BY <1>1 DEF IdleRound, WaitRound, Round, Ends, Running, Unconnected, slotVars
<1>2. CASE ConnectRound
  BY <1>2 DEF ConnectRound, AfterOpenError, Ends, Running, Unconnected
<1>3. CASE ConfigureRound
  BY <1>3 DEF ConfigureRound, Running, Unconnected
<1>4. CASE SendRound
  BY <1>4, HandshakeSends DEF SendRound, Running, Unconnected, Transmit, Round, Ends
<1>5. CASE DiscoveryRound
  BY ZenonT(60), <1>5, HandshakeSends
  DEF DiscoveryRound, Running, Unconnected, Transmit, Round, Ends
<1>6. CASE ConnectedRound
  BY <1>6 DEF ConnectedRound, Running, Unconnected, Round, Ends
<1>7. CASE AnswerRound
  BY <1>7, Afters DEF AnswerRound, Running, Unconnected, Round, Ends, Answered
<1>8. CASE DataRound \/ ReceiveRound \/ ReceiveFails \/ Disconnected
  BY <1>8 DEF DataRound, ReceiveRound, ReceiveFails, Disconnected, Running, Unconnected,
              Round, Ends
<1>9. CASE Redirected
  BY <1>9 DEF Redirected, Running, Unconnected, slotVars
<1>10. CASE CloseRound
  BY <1>10 DEF CloseRound, LeaveNetwork, NetworkUsed, Cleaned, FreshCc, Running, Unconnected,
               Round, Ends
<1>11. CASE RedirectClose
  BY <1>11 DEF RedirectClose, LeaveNetwork, FreshCc, Running, Unconnected, Round, Ends
<1>12. CASE RedirectConnect
  BY ZenonT(60), <1>12 DEF RedirectConnect, UrlsLeft, GiveUp, Running, Unconnected, Round, Ends
<1> QED
  BY <1>1, <1>2, <1>3, <1>4, <1>5, <1>6, <1>7, <1>8, <1>9, <1>10, <1>11, <1>12 DEF Rounds

\* The check of the slot, and the calls that fill it.
LEMMA FaultRest ==
    ASSUME Overlaps = {}, FaultInv, [Next]_vars, ~Rounds
    PROVE  NoFault' /\ CcInv' /\ SlotInv'
<1> USE DEF FaultInv, NoFault, EndInv, CcInv, SlotInv, Redirecting
<1>1. CASE StepFree \/ StepBegin
  BY <1>1 DEF StepFree, StepBegin, slotVars
<1>2. CASE CheckStopped \/ StopAnswered
  BY <1>2 DEF CheckStopped, StopAnswered, Checking, StepEnds, CheckFrame, AfterStopCallback
<1>3. CASE CheckStop
  BY <1>3 DEF CheckStop, Checking, StepEnds, CheckFrame
<1>4. CASE CheckStart
  BY <1>4 DEF CheckStart, Checking, StepEnds, CheckFrame, Unconnected
<1>5. CASE CheckTerminate \/ CheckNothing
  BY <1>5 DEF CheckTerminate, CheckNothing, Checking, StepEnds, CheckFrame, slotVars
<1>6. CASE Report
  BY <1>6 DEF Report
<1>7. CASE \E immediately \in BOOLEAN : Stop(immediately) \/ StopAll(immediately)
  BY <1>7 DEF Stop, StopAll, MayCall, MayStop, CallFrame, stepVars
<1>8. CASE Start
  BY <1>8 DEF Start, MayCall, CallFrame, stepVars
<1>9. CASE Terminate \/ Terminated
  BY <1>9 DEF Terminate, Terminated, MayCall, CallFrame, stepVars, slotVars
<1>10. CASE UNCHANGED vars
  BY <1>10 DEF vars, stepVars, slotVars
<1> QED
  BY <1>1, <1>2, <1>3, <1>4, <1>5, <1>6, <1>7, <1>8, <1>9, <1>10
     DEF Next, Step, Check, User, Ended

\* The inductive invariant behind the assertions.
THEOREM FaultInvariant ==
    ASSUME Overlaps = {}
    PROVE  Spec => []FaultInv
<1>1. Init => FaultInv
  BY DEF Init, FaultInv, NoFault, EndInv, NextInv, CcInv, SlotInv, Redirecting, FreshCc,
         Unconnected
<1>2. FaultInv /\ [Next]_vars => FaultInv'
  BY EndStep, NextStep, FaultRounds, FaultRest DEF FaultInv, NoOverlap
<1> QED
  BY <1>1, <1>2, PTL DEF Spec

\* No assertion of the connection automaton fails, when the user's calls do not coincide
\* with a redirect, a slow close, a stop callback or an abort: the handshake always has
\* something to send, and "open" is not entered while the connection is at work.
THEOREM AssertionsHold ==
    ASSUME Overlaps = {}
    PROVE  Spec => []NoFault
<1>1. FaultInv => NoFault
  BY DEF FaultInv
<1> QED
  BY <1>1, FaultInvariant, PTL

-----------------------------------------------------------------------------
\* The handshake.

\* How many messages precede the next one, in each state of the handshake.
Passwords == IF Password THEN 1 ELSE 0
Discovered == IF current = "none" THEN 0 ELSE IF cc.state = "redirect_report" THEN 1 ELSE 2
Place(state) ==
    CASE state = "receive_version_response"                         -> 1
      [] state = "send_keepalive"                                   -> 1
      [] state = "send_protocol_version"                            -> 2
      [] state \in {"receive_protocol_version", "send_identity"}    -> 3
      [] state = "send_device_id"                                   -> 4
      [] state \in {"receive_device_id", "send_cloud_url"}          -> 5
      [] state = "send_password"                                    -> 6
      [] state = "send_vendor_id"                                   -> 6 + Passwords
      [] state = "send_device_type"                                 -> 7 + Passwords
      [] state = "discovery_facility"                               -> 8 + Passwords + Discovered
      [] state = "send_complete"                                    -> 11 + Passwords
      [] state \in {"connected", "facility_process"}                -> 12 + Passwords
      [] OTHER                                                      -> 0

\* The report that Device Cloud expects.
ReportVia == CASE via = "redirect" -> "redirect_success"
               [] via = "fallback" -> "redirect_error"
               [] OTHER            -> "not_redirect"

\* What was sent is the beginning of h.
Follows(h) ==
    /\ Len(sent) <= 12 + Passwords
    /\ \A i \in 1 .. Len(sent) : sent[i] = h[i]

\* All of the handshake was sent before messages are served, and a packet that is being
\* sent is the next one.
Handshakes == {Handshake(provisioning) : provisioning \in BOOLEAN}
SentInv ==
    \E h \in Handshakes :
       /\ Follows(h)
       /\ edp = "facility_process" => Len(sent) = 12 + Passwords
       /\ edp = "send_in_progress" /\ active = "open" => out = h[Len(sent) + 1]

\* The state of an open transport says how far the handshake is.
PlaceInv ==
    /\ edp \in Unconnected => sent = << >> /\ current = "none" /\ cc.state # "connect_report"
    /\ active = "open" =>
          IF edp = "send_in_progress" THEN Len(sent) + 1 = Place(next)
          ELSE Len(sent) = Place(edp)
    /\ active = "open" /\ current # "none" =>
          \/ edp = "discovery_facility"
          \/ edp = "send_in_progress" /\ next = "discovery_facility"
    /\ active = "open" /\ current = "none" /\ cc.state = "connect_report" =>
          \/ edp \in {"send_complete", "connected"}
          \/ edp = "send_in_progress" /\ next \in {"send_complete", "connected"}
    /\ edp = "send_password" \/ (edp = "send_in_progress" /\ next = "send_password") =>
          Passwords = 1

\* The report that waits is that of the connection, unless there will be no other.
ReportInv ==
    /\ cc.state = "redirect_report" =>
          \/ cc.report = ReportVia
          \/ active = "terminate" /\ pc = "report"
          \/ active \in {"close", "idle", "terminate"} /\ initiate = "terminate"
          \/ active = "open" /\ initiate = "terminate" /\ pc = "check"
    /\ status = "device_terminated" => initiate = "terminate"

\* The handshake and the connection it runs on.
OrderInv == SentInv /\ PlaceInv /\ ReportInv

\* A sequence that follows another is a prefix of it.
LEMMA FollowsIsPrefix ==
    ASSUME NEW T, NEW s \in Seq(T), NEW t \in Seq(T), Len(s) <= Len(t),
           \A i \in 1 .. Len(s) : s[i] = t[i]
    PROVE  IsPrefix(s, t) /\ (Len(s) = Len(t) => s = t)
<1>1. SubSeq(s, 1, Len(s)) = SubSeq(t, 1, Len(s))
  OBVIOUS
<1>2. Len(s) = Len(t) => s = t
  OBVIOUS
<1> QED
  BY <1>1, <1>2 DEF IsPrefix

\* A message is added to what follows.
LEMMA Longer ==
    ASSUME NEW T, NEW s \in Seq(T), NEW p \in T, NEW t, NEW n \in Nat,
           Len(s) + 1 <= n, \A i \in 1 .. Len(s) : s[i] = t[i], p = t[Len(s) + 1]
    PROVE  /\ Append(s, p) \in Seq(T) /\ Len(Append(s, p)) = Len(s) + 1
           /\ \A i \in 1 .. Len(Append(s, p)) : Append(s, p)[i] = t[i]
OBVIOUS

\* The two parts of the handshake.
LEMMA TwoParts ==
    ASSUME NEW T, NEW a \in Seq(T), NEW c \in Seq(T), NEW n \in {6, 7}, Len(a) = n, Len(c) = 6
    PROVE  /\ a \o c \in Seq(T) /\ Len(a \o c) = n + 6
           /\ \A i \in 1 .. n : (a \o c)[i] = a[i]
           /\ \A i \in 1 .. 6 : (a \o c)[n + i] = c[i]
<1>1. \A i \in 1 .. 6 : n + i \in 1 .. n + 6 /\ ~(n + i <= n) /\ (n + i) - n = i
  OBVIOUS
<1>2. \A i \in 1 .. n : i \in 1 .. n + 6 /\ i <= n
  OBVIOUS
<1>3. /\ a \o c \in Seq(T) /\ Len(a \o c) = n + 6
      /\ \A i \in 1 .. n + 6 : (a \o c)[i] = IF i <= n THEN a[i] ELSE c[i - n]
  BY SMTT(30), ConcatProperties
<1> QED
  BY <1>1, <1>2, <1>3

\* The message that names the device, or asks for a name.
DeviceMessages == {"send_provisioning", "send_device_id"}

\* The handshake, message by message.
Messages(h, d) ==
    /\ h \in Seq(Packets) /\ Len(h) = 12 + Passwords /\ Passwords \in 0 .. 1
    /\ h[1] = "send_version" /\ h[2] = "send_keepalive"
    /\ h[3] = "send_protocol_version" /\ h[4] = "send_identity"
    /\ h[5] = d
    /\ h[6] = "send_cloud_url"
    /\ Passwords = 1 => h[7] = "send_password"
    /\ h[7 + Passwords] = "send_vendor_id" /\ h[8 + Passwords] = "send_device_type"
    /\ h[9 + Passwords] = "capabilities" /\ h[10 + Passwords] = ReportVia
    /\ h[11 + Passwords] = "connection_report" /\ h[12 + Passwords] = "send_complete"

\* Its parts make it up.
LEMMA PartsMakeIt ==
    ASSUME NEW a \in Seq(Packets), NEW c \in Seq(Packets), NEW d,
           Len(a) = 6 + Passwords, Len(c) = 6,
           a[1] = "send_version", a[2] = "send_keepalive", a[3] = "send_protocol_version",
           a[4] = "send_identity",
           a[5] = d,
           a[6] = "send_cloud_url", Passwords = 1 => a[7] = "send_password",
           c[1] = "send_vendor_id", c[2] = "send_device_type", c[3] = "capabilities",
           c[4] = ReportVia, c[5] = "connection_report", c[6] = "send_complete"
    PROVE  Messages(a \o c, d)
<1> DEFINE h == a \o c
<1>1. PICK n \in {6, 7} : /\ n = 6 + Passwords /\ Passwords \in 0 .. 1 /\ Len(a) = n
  BY DEF Passwords
<1>2. /\ h \in Seq(Packets) /\ Len(h) = n + 6
      /\ \A i \in 1 .. n : h[i] = a[i]
      /\ \A i \in 1 .. 6 : h[n + i] = c[i]
  BY SMTT(30), <1>1, TwoParts
<1> HIDE DEF h
<1>3. /\ 1 \in 1 .. n /\ 2 \in 1 .. n /\ 3 \in 1 .. n /\ 4 \in 1 .. n /\ 5 \in 1 .. n
      /\ 6 \in 1 .. n /\ (Passwords = 1 => 7 \in 1 .. n)
  BY <1>1
<1>4. /\ n + 6 = 12 + Passwords /\ n + 1 = 7 + Passwords /\ n + 2 = 8 + Passwords
      /\ n + 3 = 9 + Passwords /\ n + 4 = 10 + Passwords /\ n + 5 = 11 + Passwords
  BY <1>1
<1>5. /\ h[1] = a[1] /\ h[2] = a[2] /\ h[3] = a[3] /\ h[4] = a[4] /\ h[5] = a[5]
      /\ h[6] = a[6] /\ (Passwords = 1 => h[7] = a[7])
  BY <1>2, <1>3
<1>6. /\ h[n + 1] = c[1] /\ h[n + 2] = c[2] /\ h[n + 3] = c[3] /\ h[n + 4] = c[4]
      /\ h[n + 5] = c[5] /\ h[n + 6] = c[6]
  BY <1>2
<1>7. h = a \o c
  BY DEF h
<1> QED
  BY <1>1, <1>2, <1>4, <1>5, <1>6, <1>7 DEF Messages

\* Device Cloud expects these messages.
LEMMA OneHandshake ==
    ASSUME NEW provisioning \in BOOLEAN, NEW d,
           d = (IF provisioning THEN "send_provisioning" ELSE "send_device_id")
    PROVE  Messages(Handshake(provisioning), d)
<1> DEFINE r == ReportVia
           a == <<"send_version", "send_keepalive", "send_protocol_version", "send_identity",
                  d, "send_cloud_url">>
           b == IF Password THEN <<"send_password">> ELSE << >>
           c == <<"send_vendor_id", "send_device_type", "capabilities", r,
                  "connection_report", "send_complete">>
<1>1. d \in Packets /\ r \in Packets
  BY DEF Packets, SendStates, Reports, ReportVia
<1>2. /\ a \in Seq(Packets) /\ c \in Seq(Packets) /\ Len(a) = 6 /\ Len(c) = 6
      /\ a[1] = "send_version" /\ a[2] = "send_keepalive" /\ a[3] = "send_protocol_version"
      /\ a[4] = "send_identity" /\ a[5] = d /\ a[6] = "send_cloud_url"
      /\ c[1] = "send_vendor_id" /\ c[2] = "send_device_type" /\ c[3] = "capabilities"
      /\ c[4] = r /\ c[5] = "connection_report" /\ c[6] = "send_complete"
  <2> HIDE DEF r
  <2> QED
    BY <1>1 DEF Packets, SendStates
<1>3. Handshake(provisioning) = (a \o b) \o c
  BY DEF Handshake, ReportVia
<1>4. /\ b \in Seq(Packets) /\ Len(b) = Passwords /\ (Passwords = 1 => b[1] = "send_password")
      /\ Passwords \in 0 .. 1
  <2>1. "send_password" \in Packets
    BY DEF Packets, SendStates
  <2>2. CASE Password
    <3>1. b = <<"send_password">> /\ Passwords = 1
      BY <2>2 DEF Passwords
    <3> HIDE DEF b
    <3> QED
      BY <2>1, <2>2, <3>1
  <2>3. CASE ~Password
    <3>1. b = << >> /\ Passwords = 0
      BY <2>3 DEF Passwords
    <3> HIDE DEF b
    <3> QED
      BY <2>3, <3>1
  <2> QED
    BY <2>2, <2>3
<1> HIDE DEF a, b, c
<1>5. /\ a \o b \in Seq(Packets) /\ Len(a \o b) = 6 + Passwords
      /\ \A i \in 1 .. 6 + Passwords : (a \o b)[i] = IF i <= 6 THEN a[i] ELSE b[i - 6]
  <2>1. /\ a \o b \in Seq(Packets) /\ Len(a \o b) = Len(a) + Len(b)
        /\ \A i \in 1 .. Len(a) + Len(b) : (a \o b)[i] = IF i <= Len(a) THEN a[i]
                                                        ELSE b[i - Len(a)]
    BY <1>2, <1>4, ConcatProperties
  <2>2. Len(a) = 6 /\ Len(b) = Passwords
    BY <1>2, <1>4
  <2> QED
    BY <2>1, <2>2
<1>6. /\ 1 \in 1 .. 6 + Passwords /\ 2 \in 1 .. 6 + Passwords /\ 3 \in 1 .. 6 + Passwords
      /\ 4 \in 1 .. 6 + Passwords /\ 5 \in 1 .. 6 + Passwords /\ 6 \in 1 .. 6 + Passwords
      /\ (Passwords = 1 => 7 \in 1 .. 6 + Passwords /\ ~(7 <= 6) /\ 7 - 6 = 1)
  BY <1>4
<1> DEFINE ab == a \o b
<1>7. /\ ab[1] = a[1] /\ ab[2] = a[2] /\ ab[3] = a[3] /\ ab[4] = a[4] /\ ab[5] = a[5]
      /\ ab[6] = a[6] /\ (Passwords = 1 => ab[7] = b[1])
  <2>1. \A i \in 1 .. 6 + Passwords : ab[i] = IF i <= 6 THEN a[i] ELSE b[i - 6]
    BY <1>5
  <2> HIDE DEF ab
  <2>2. /\ ab[1] = a[1] /\ ab[2] = a[2] /\ ab[3] = a[3] /\ ab[4] = a[4] /\ ab[5] = a[5]
        /\ ab[6] = a[6]
    BY <1>6, <2>1
  <2>3. Passwords = 1 => ab[7] = b[1]
    BY <1>6, <2>1
  <2> QED
    BY <2>2, <2>3
<1> HIDE DEF ab
<1>8. ab \in Seq(Packets) /\ Len(ab) = 6 + Passwords
  BY <1>5 DEF ab
<1>9. Messages(ab \o c, d)
  BY <1>2, <1>4, <1>7, <1>8, PartsMakeIt
<1> QED
  BY <1>3, <1>9 DEF ab

\* There are two handshakes.
LEMMA HandshakeMessages ==
    /\ \A h \in Handshakes : \E d \in DeviceMessages : Messages(h, d)
    /\ \A d \in DeviceMessages : \E h \in Handshakes : Messages(h, d)
<1>1. Messages(Handshake(TRUE), "send_provisioning")
  BY OneHandshake
<1>2. Messages(Handshake(FALSE), "send_device_id")
  BY OneHandshake
<1>3. /\ Handshake(TRUE) \in Handshakes /\ Handshake(FALSE) \in Handshakes
      /\ \A h \in Handshakes : h = Handshake(TRUE) \/ h = Handshake(FALSE)
  BY DEF Handshakes
<1> QED
  BY <1>1, <1>2, <1>3 DEF DeviceMessages

\* The places, state by state.
LEMMA Places ==
    /\ Place("send_version") = 0 /\ Place("receive_version_response") = 1
    /\ Place("send_keepalive") = 1 /\ Place("send_protocol_version") = 2
    /\ Place("receive_protocol_version") = 3 /\ Place("send_identity") = 3
    /\ Place("send_device_id") = 4 /\ Place("receive_device_id") = 5
    /\ Place("send_cloud_url") = 5 /\ Place("send_password") = 6
    /\ Place("send_vendor_id") = 6 + Passwords /\ Place("send_device_type") = 7 + Passwords
    /\ Place("discovery_facility") = 8 + Passwords + Discovered
    /\ Place("send_complete") = 11 + Passwords /\ Place("connected") = 12 + Passwords
    /\ Place("facility_process") = 12 + Passwords
BY DEF Place

\* The message of a state is the next one, and it leads one message on.
LEMMA NextMessage ==
    ASSUME NEW h, NEW d, Messages(h, d),
           NEW state \in SendStates, state = "send_password" => Passwords = 1,
           state = "send_device_id" => MessageOf(state) = d
    PROVE  /\ Place(state) \in 0 .. 11 + Passwords
           /\ MessageOf(state) = h[Place(state) + 1]
           /\ After[state] # "discovery_facility" => Place(After[state]) = Place(state) + 1
           /\ After[state] = "discovery_facility" => 8 + Passwords = Place(state) + 1
           /\ After[state] = "send_password" => Passwords = 1
<1>1. Passwords \in 0 .. 1 /\ (After[state] = "send_password" => Passwords = 1)
  BY DEF Passwords, SendStates, After
<1>2. CASE state \in {"send_version", "send_keepalive", "send_protocol_version", "send_identity"}
  <2>1. Place(state) \in 0 .. 3
    BY <1>2, Places
  <2>2. MessageOf(state) = h[Place(state) + 1]
    <3>1. MessageOf(state) = state
      BY <1>2 DEF MessageOf
    <3>2. /\ state = "send_version" => Place(state) + 1 = 1
          /\ state = "send_keepalive" => Place(state) + 1 = 2
          /\ state = "send_protocol_version" => Place(state) + 1 = 3
          /\ state = "send_identity" => Place(state) + 1 = 4
      BY Places
    <3> QED
      BY <1>2, <3>1, <3>2 DEF Messages
  <2>3. /\ Place(After[state]) = Place(state) + 1
        /\ After[state] \notin {"discovery_facility", "send_password"}
    BY <1>2, Places DEF SendStates, After
  <2>4. Place(state) \in 0 .. 11 + Passwords
    BY <1>1, <2>1
  <2> QED
    BY <2>2, <2>3, <2>4
<1>8. CASE state = "send_cloud_url"
  <2>1. MessageOf(state) = h[Place(state) + 1] /\ Place(state) = 5
    BY <1>8 DEF Messages, Place, MessageOf
  <2>2. After[state] = IF Password THEN "send_password" ELSE "send_vendor_id"
    BY <1>8 DEF SendStates, After
  <2>3. Place(After[state]) = 6 /\ After[state] # "discovery_facility"
    BY <2>2 DEF Place, Passwords
  <2> QED
    BY <1>1, <2>1, <2>3
<1>3. CASE state = "send_device_id"
  BY <1>1, <1>3 DEF Messages, SendStates, After, Place
<1>4. CASE state = "send_password"
  BY <1>1, <1>4 DEF Messages, SendStates, After, Place, MessageOf
<1>5. CASE state = "send_vendor_id"
  <2>1. /\ Place(state) = 6 + Passwords /\ After[state] = "send_device_type"
        /\ Place(After[state]) = 7 + Passwords /\ MessageOf(state) = h[7 + Passwords]
    BY <1>5 DEF Messages, SendStates, After, Place, MessageOf
  <2>2. 6 + Passwords + 1 = 7 + Passwords /\ 6 + Passwords \in 0 .. 11 + Passwords
    BY <1>1
  <2> QED
    BY <1>1, <2>1, <2>2
<1>6. CASE state = "send_device_type"
  <2>1. /\ Place(state) = 7 + Passwords /\ After[state] = "discovery_facility"
        /\ MessageOf(state) = h[8 + Passwords]
    BY <1>6 DEF Messages, SendStates, After, Place, MessageOf
  <2>2. 7 + Passwords + 1 = 8 + Passwords /\ 7 + Passwords \in 0 .. 11 + Passwords
    BY <1>1
  <2> QED
    BY <1>1, <2>1, <2>2
<1>7. CASE state = "send_complete"
  <2>1. /\ Place(state) = 11 + Passwords /\ After[state] = "connected"
        /\ Place(After[state]) = 12 + Passwords /\ MessageOf(state) = h[12 + Passwords]
    BY <1>7 DEF Messages, SendStates, After, Place, MessageOf
  <2>2. 11 + Passwords + 1 = 12 + Passwords /\ 11 + Passwords \in 0 .. 11 + Passwords
    BY <1>1
  <2> QED
    BY <1>1, <2>1, <2>2
<1> QED
  BY <1>2, <1>3, <1>4, <1>5, <1>6, <1>7, <1>8 DEF SendStates

\* What Device Cloud expects depends on how the connection was made.
LEMMA HandshakeKept ==
    ASSUME via' = via
    PROVE  Handshakes' = Handshakes
BY DEF Handshakes, Handshake

\* The first four messages do not tell whether the device has a name.
LEMMA EitherFollows ==
    ASSUME sent \in Seq(Packets), NEW g, NEW h, NEW d, NEW e, Messages(g, d), Messages(h, e),
           Follows(g), Len(sent) <= 4
    PROVE  Follows(h)
<1>1. Len(sent) \in Nat
  OBVIOUS
<1>2. \A i \in 1 .. Len(sent) : i \in {1, 2, 3, 4}
  BY <1>1
<1>3. \A i \in {1, 2, 3, 4} : g[i] = h[i]
  BY DEF Messages
<1> QED
  BY <1>2, <1>3 DEF Follows

\* The next message goes out, or stays in the buffer.
LEMMA Transmission ==
    ASSUME NEW p \in Packets, NEW n \in EdpStates, NEW h \in Handshakes,
           Transmit(p, n), UNCHANGED via, sent \in Seq(Packets), Follows(h),
           Len(sent) + 1 <= 12 + Passwords, p = h[Len(sent) + 1],
           Place(n)' = Len(sent) + 1,
           n \notin Unconnected \cup {"send_in_progress", "facility_process"},
           edp \notin Unconnected \cup {"facility_process"},
           n = "send_password" => Passwords = 1, current' # "none" => n = "discovery_facility",
           current' = "none" /\ cc.state' = "connect_report"
               => n \in {"send_complete", "connected"},
           PlaceInv
    PROVE  SentInv' /\ PlaceInv'
<1>1. Passwords' = Passwords /\ h \in Handshakes'
  BY HandshakeKept DEF Passwords
<1>2. Passwords \in 0 .. 1
  BY DEF Passwords
<1>3. CASE sent' = Append(sent, p) /\ edp' = n /\ next' = n
  <2>1. /\ sent' \in Seq(Packets) /\ Len(sent') = Len(sent) + 1
        /\ \A i \in 1 .. Len(sent') : sent'[i] = h[i]
    BY <1>2, <1>3, Longer DEF Follows
  <2>2. Follows(h)'
    BY <1>1, <2>1 DEF Follows
  <2>3. SentInv'
    BY <1>1, <1>3, <2>2 DEF SentInv
  <2>4. PlaceInv'
    BY <1>1, <1>3, <2>1 DEF PlaceInv
  <2> QED
    BY <2>3, <2>4
<1>4. CASE sent' = sent /\ edp' = "send_in_progress" /\ next' = n /\ out' = p
  <2>1. Follows(h)'
    BY <1>1, <1>4 DEF Follows
  <2>2. SentInv'
    BY <1>1, <1>4, <2>1 DEF SentInv
  <2>3. PlaceInv'
    BY <1>1, <1>4 DEF PlaceInv, Unconnected
  <2> QED
    BY <2>2, <2>3
<1>5. CASE sent' = sent /\ edp' = edp /\ next' = n /\ active' = "close"
  <2>1. Follows(h)'
    BY <1>1, <1>5 DEF Follows
  <2>2. SentInv'
    BY <1>1, <1>5, <2>1 DEF SentInv
  <2>3. PlaceInv'
    BY <1>1, <1>5 DEF PlaceInv, Unconnected
  <2> QED
    BY <2>2, <2>3
<1> QED
  BY <1>3, <1>4, <1>5, ConstantsAssumption DEF Transmit, Round, Ends, ConstantsAssumption

\* A message of the handshake is sent.
LEMMA SendOrder ==
    ASSUME TypeInv, NextInv, OrderInv, SendRound
    PROVE  SentInv' /\ PlaceInv'
<1>0. /\ active = "open" /\ sent \in Seq(Packets) /\ UNCHANGED <<current, via, cc>>
      /\ edp \in SendStates \cup {"send_in_progress"} /\ Len(sent) \in Nat
      /\ PlaceInv /\ Passwords \in 0 .. 1
  BY DEF SendRound, Running, TypeInv, HandshakeType, OrderInv, Passwords
<1>1. \A state : Place(state)' = Place(state)
  BY <1>0 DEF Place, Discovered, Passwords
<1>2. CASE edp = "send_in_progress"
  <2>1. PICK h \in Handshakes : Follows(h) /\ out = h[Len(sent) + 1]
    BY <1>0, <1>2 DEF OrderInv, SentInv
  <2>2. Place(next) = Len(sent) + 1 /\ (next = "send_password" => Passwords = 1)
    BY <1>0, <1>2 DEF PlaceInv
  <2>3. \A n : Place(n) <= 12 + Passwords
    BY <1>0 DEF Place, Discovered
  <2>4. Transmit(out, next) /\ out \in Packets /\ next \in EdpStates
    BY <1>2 DEF SendRound, TypeInv, OutInv, HandshakeType
  <2>5. next \notin Unconnected \cup {"send_in_progress", "facility_process"}
    BY <1>2 DEF NextInv, TypeInv, OutInv
  <2>6. Len(sent) + 1 <= 12 + Passwords
    BY <2>2, <2>3
  <2>7. PICK n : n = next
    OBVIOUS
  <2>8. Place(n)' = Len(sent) + 1
    BY <1>1, <2>2, <2>7
  <2>9. /\ edp \notin Unconnected \cup {"facility_process"}
        /\ current # "none" => next = "discovery_facility"
        /\ current = "none" /\ cc.state = "connect_report"
               => next \in {"send_complete", "connected"}
    BY <1>0, <1>2 DEF Unconnected, PlaceInv
  <2> QED
    BY <1>0, <2>1, <2>2, <2>4, <2>5, <2>6, <2>7, <2>8, <2>9, Transmission
<1>3. CASE edp \in SendStates
  <2>1. PICK state \in SendStates : state = edp
    BY <1>3
  <2>2. Len(sent) = Place(state) /\ (state = "send_password" => Passwords = 1)
    BY <1>0, <2>1 DEF PlaceInv, SendStates
  <2>3. PICK g \in Handshakes : Follows(g)
    BY DEF OrderInv, SentInv
  <2>4. PICK h \in Handshakes, d \in DeviceMessages :
            Follows(h) /\ Messages(h, d) /\ (state = "send_device_id" => MessageOf(state) = d)
    <3>1. PICK e \in DeviceMessages : Messages(g, e)
      BY HandshakeMessages
    <3>2. CASE state = "send_device_id"
      <4>1. Len(sent) <= 4
        BY <2>2, <3>2 DEF Place
      <4>2. PICK d \in DeviceMessages : d = MessageOf(state)
        BY <3>2 DEF MessageOf, DeviceMessages
      <4>3. PICK h \in Handshakes : Messages(h, d)
        BY HandshakeMessages
      <4>4. Follows(h)
        BY <1>0, <2>3, <3>1, <4>1, <4>3, EitherFollows
      <4> QED
        BY <4>2, <4>3, <4>4
    <3>3. CASE state # "send_device_id"
      BY <2>3, <3>1, <3>3
    <3> QED
      BY <3>2, <3>3
  <2>6. /\ Place(state) \in 0 .. 11 + Passwords
        /\ MessageOf(state) = h[Place(state) + 1]
        /\ After[state] # "discovery_facility" => Place(After[state]) = Place(state) + 1
        /\ After[state] = "discovery_facility" => 8 + Passwords = Place(state) + 1
        /\ After[state] = "send_password" => Passwords = 1
    BY <2>2, <2>4, NextMessage
  <2>7. PICK n \in EdpStates : n = After[state]
    BY HandshakeStates
  <2>8. /\ n \notin Unconnected \cup {"send_in_progress", "facility_process"}
        /\ edp \notin Unconnected \cup {"facility_process"}
    BY <2>1, <2>7, Afters DEF SendStates, Unconnected
  <2>9. Transmit(MessageOf(state), n) /\ MessageOf(state) \in Packets
    BY <1>3, <2>1, <2>7, HandshakeStates DEF SendRound, SendStates
  <2>10. current = "none" /\ (n = "discovery_facility" => Place(n) = 8 + Passwords)
    <3>1. current = "none"
      BY <1>0, <1>3 DEF PlaceInv, SendStates
    <3> QED
      BY <1>0, <3>1 DEF Place, Discovered
  <2>11. Place(n)' = Len(sent) + 1
    BY <1>1, <2>2, <2>6, <2>7, <2>10
  <2>12. Len(sent) + 1 <= 12 + Passwords
    BY <1>0, <2>2, <2>6
  <2>13. MessageOf(state) = h[Len(sent) + 1]
    BY <2>2, <2>6
  <2>14. n = "send_password" => Passwords = 1
    BY <2>6, <2>7
  <2>15. cc.state = "connect_report" => n \in {"send_complete", "connected"}
    <3>1. cc.state = "connect_report" => state = "send_complete"
      BY <1>0, <1>3, <2>1, <2>10 DEF PlaceInv, SendStates
    <3> QED
      BY <2>7, <3>1 DEF After, SendStates
  <2> QED
    BY <1>0, <2>4, <2>8, <2>9, <2>10, <2>11, <2>12, <2>13, <2>14, <2>15, Transmission
<1> QED
  BY <1>0, <1>2, <1>3

\* The facilities send their messages one by one.
LEMMA DiscoveryOrder ==
    ASSUME TypeInv, FaultInv, OrderInv, DiscoveryRound, fault' = "none"
    PROVE  SentInv' /\ PlaceInv'
<1>0. /\ active = "open" /\ pc = "run" /\ sent \in Seq(Packets) /\ UNCHANGED via
      /\ edp = "discovery_facility" /\ Len(sent) \in Nat
      /\ PlaceInv /\ Passwords \in 0 .. 1 /\ fault = "none"
  BY DEF DiscoveryRound, Running, TypeInv, HandshakeType, OrderInv, Passwords
<1>1. Len(sent) = 8 + Passwords + Discovered
  BY <1>0, Places DEF PlaceInv
<1>2. PICK h \in Handshakes : Follows(h)
  BY DEF OrderInv, SentInv
<1>3. PICK d \in DeviceMessages : Messages(h, d)
  BY HandshakeMessages
<1>4. /\ edp \notin Unconnected \cup {"facility_process"}
      /\ "discovery_facility" \in EdpStates /\ "send_complete" \in EdpStates
      /\ "discovery_facility" \notin Unconnected /\ "send_complete" \notin Unconnected
      /\ {"capabilities", "connection_report"} \cup Reports \subseteq Packets
  BY <1>0, HandshakeStates DEF Unconnected
<1>5. cc.state \notin {"close", "connect"}
  BY <1>0 DEF FaultInv, CcInv, Redirecting
<1>6. cc.state \in {"redirect_report", "connect_report"}
  BY <1>5 DEF TypeInv, CcType, CcRecords, CcStates
<1>7. CASE current = "none"
  <2>1. Transmit("capabilities", "discovery_facility") /\ current' = "cc" /\ cc' = cc
    BY <1>0, <1>7 DEF DiscoveryRound
  <2>2. cc.state = "redirect_report"
    BY <1>0, <1>6, <1>7 DEF PlaceInv
  <2>3. Len(sent) = 8 + Passwords
    BY <1>0, <1>1, <1>7 DEF Discovered
  <2>4. Place("discovery_facility")' = 9 + Passwords
    <3>1. Discovered' = 1 /\ Passwords' = Passwords
      BY <2>1, <2>2 DEF Discovered, Passwords
    <3>2. Place("discovery_facility")' = 8 + Passwords' + Discovered'
      BY DEF Place
    <3> QED
      BY <1>0, <3>1, <3>2
  <2>5. 8 + Passwords + 1 = 9 + Passwords /\ 9 + Passwords <= 12 + Passwords
    BY <1>0
  <2>6. h[Len(sent) + 1] = "capabilities"
    BY <1>3, <2>3, <2>5 DEF Messages
  <2> QED
    BY <1>0, <1>2, <1>4, <2>1, <2>3, <2>4, <2>5, <2>6, Transmission
<1>8. CASE current # "none" /\ cc.state = "redirect_report"
  <2>1. /\ Transmit(cc.report, "discovery_facility") /\ current' = current
        /\ cc' = [cc EXCEPT !.state = "connect_report", !.report = "not_redirect"]
    BY <1>0, <1>8 DEF DiscoveryRound
  <2>2. cc.report = ReportVia /\ cc.report \in Reports
    BY <1>0, <1>8 DEF OrderInv, ReportInv, TypeInv, CcType, CcRecords
  <2>3. Len(sent) = 9 + Passwords
    <3>1. Discovered = 1
      BY <1>8 DEF Discovered
    <3> QED
      BY <1>0, <1>1, <3>1
  <2>4. cc'.state = "connect_report"
    BY <2>1 DEF TypeInv, CcType, CcRecords
  <2>5. Place("discovery_facility")' = 10 + Passwords
    <3>1. Discovered' = 2 /\ Passwords' = Passwords
      BY <1>8, <2>1, <2>4 DEF Discovered, Passwords
    <3>2. Place("discovery_facility")' = 8 + Passwords' + Discovered'
      BY DEF Place
    <3> QED
      BY <1>0, <3>1, <3>2
  <2>6. 9 + Passwords + 1 = 10 + Passwords /\ 10 + Passwords <= 12 + Passwords
    BY <1>0
  <2>7. h[Len(sent) + 1] = cc.report
    BY <1>3, <2>2, <2>3, <2>6 DEF Messages
  <2>8. PICK p \in Packets : p = cc.report
    BY <1>4, <2>2
  <2>9. Transmit(p, "discovery_facility") /\ p = h[Len(sent) + 1] /\ current' # "none"
    BY <1>8, <2>1, <2>7, <2>8
  <2> QED
    BY <1>0, <1>2, <1>4, <2>3, <2>5, <2>6, <2>9, Transmission
<1>9. CASE current # "none" /\ cc.state = "connect_report"
  <2>1. Transmit("connection_report", "send_complete") /\ current' = "none" /\ cc' = cc
    BY <1>0, <1>9 DEF DiscoveryRound
  <2>2. Len(sent) = 10 + Passwords
    <3>1. Discovered = 2
      BY <1>9 DEF Discovered
    <3> QED
      BY <1>0, <1>1, <3>1
  <2>3. Place("send_complete")' = 11 + Passwords
    BY DEF Place, Passwords
  <2>4. 10 + Passwords + 1 = 11 + Passwords /\ 11 + Passwords <= 12 + Passwords
    BY <1>0
  <2>5. h[Len(sent) + 1] = "connection_report"
    BY <1>3, <2>2, <2>4 DEF Messages
  <2> QED
    BY <1>0, <1>2, <1>4, <2>1, <2>2, <2>3, <2>4, <2>5, Transmission
<1> QED
  BY <1>6, <1>7, <1>8, <1>9

\* A connection begins with nothing sent.
LEMMA NothingSent ==
    ASSUME sent' = << >>, edp' \in Unconnected \cup {"send_version"}, current' = "none",
           cc'.state # "connect_report"
    PROVE  SentInv' /\ PlaceInv'
<1>1. Passwords' \in 0 .. 1
  BY DEF Passwords
<1>2. Place(edp)' = 0 /\ edp' \notin {"facility_process", "send_in_progress", "send_password"}
  BY DEF Place, Unconnected
<1>3. Len(sent') = 0
  OBVIOUS
<1>4. PICK h : h \in Handshakes'
  BY DEF Handshakes
<1>5. Follows(h)'
  BY <1>1, <1>3 DEF Follows
<1>6. SentInv'
  BY <1>2, <1>4, <1>5 DEF SentInv
<1>7. PlaceInv'
  BY <1>2, <1>3 DEF PlaceInv
<1> QED
  BY <1>6, <1>7

\* Nothing of the handshake changes.
LEMMA HandshakeRests ==
    ASSUME OrderInv, UNCHANGED <<edp, next, out, sent, via, current, cc>>,
           active' = "open" => active = "open" \/ edp \in Unconnected
    PROVE  SentInv' /\ PlaceInv'
<1>1. Handshakes' = Handshakes /\ Passwords' = Passwords
  BY HandshakeKept DEF Passwords
<1>2. \A state : Place(state)' = Place(state)
  BY DEF Place, Passwords, Discovered
<1>3. edp \in Unconnected => /\ Place(edp) = 0 /\ Len(sent) = 0
                             /\ edp \notin {"facility_process", "send_in_progress"}
                             /\ current = "none" /\ cc.state # "connect_report"
  BY DEF OrderInv, PlaceInv, Place, Unconnected
<1>4. SentInv'
  <2>1. PICK h \in Handshakes :
            /\ Follows(h)
            /\ edp = "facility_process" => Len(sent) = 12 + Passwords
            /\ edp = "send_in_progress" /\ active = "open" => out = h[Len(sent) + 1]
    BY DEF OrderInv, SentInv
  <2>2. Follows(h)'
    BY <1>1, <2>1 DEF Follows
  <2>3. edp = "send_in_progress" /\ active' = "open" => active = "open"
    BY <1>3
  <2> QED
    BY <1>1, <2>1, <2>2, <2>3 DEF SentInv
<1>5. PlaceInv'
  BY <1>1, <1>2, <1>3 DEF OrderInv, PlaceInv
<1> QED
  BY <1>4, <1>5

\* The rounds that send nothing in the handshake.
LEMMA RoundsInOrder ==
    ASSUME TypeInv, FaultInv, FaultInv', OrderInv, Rounds
    PROVE  SentInv' /\ PlaceInv'
<1> USE DEF Running
<1>0. /\ edp \in Unconnected => sent = << >> /\ current = "none" /\ cc.state # "connect_report"
      /\ active = "open" => edp # "facility_process"
      /\ active = "idle" \/ active = "wait_for_reconnect" => edp \in Unconnected
      /\ fault' = "none"
  BY DEF OrderInv, PlaceInv, FaultInv, SlotInv, NoFault
<1>1. CASE IdleRound \/ WaitRound
  <2>1. /\ UNCHANGED <<edp, next, out, sent, via, current, cc>>
        /\ active' = "open" => edp \in Unconnected
    BY <1>0, <1>1 DEF IdleRound, WaitRound, hsVars, netVars
  <2> QED
    BY <2>1, HandshakeRests
<1>2. CASE ConnectRound
  <2>1. CASE UNCHANGED <<edp, next, out, sent, via, current, cc>>
    <3>1. active = "open"
      BY <1>2 DEF ConnectRound
    <3> QED
      BY <2>1, <3>1, HandshakeRests
  <2>2. CASE sent' = << >> /\ edp' = "configuration_init" /\ UNCHANGED <<current, cc>>
    <3>1. current = "none" /\ cc.state # "connect_report"
      BY <1>0, <1>2 DEF ConnectRound, Unconnected
    <3> QED
      BY <2>2, <3>1, NothingSent DEF Unconnected
  <2> QED
    BY <1>2, <2>1, <2>2 DEF ConnectRound
<1>3. CASE ConfigureRound
  <2>1. /\ sent' = << >> /\ current' = "none" /\ cc' = cc /\ cc.state # "connect_report"
        /\ edp' \in Unconnected \cup {"send_version"}
    BY <1>0, <1>3 DEF ConfigureRound, Unconnected, netVars
  <2> QED
    BY <2>1, NothingSent
<1>4. CASE SendRound
  BY <1>4, SendOrder DEF FaultInv
<1>5. CASE DiscoveryRound
  BY <1>0, <1>5, DiscoveryOrder
<1>6. CASE ConnectedRound
  <2>1. /\ edp = "connected" /\ active = "open" /\ edp' = "facility_process" /\ active' # "open"
        /\ UNCHANGED <<sent, via>>
    BY <1>0, <1>6 DEF ConnectedRound, Round, Ends, netVars
  <2>2. Len(sent) = 12 + Passwords
    BY <2>1, Places DEF OrderInv, PlaceInv
  <2>3. Handshakes' = Handshakes /\ Passwords' = Passwords
    BY <2>1, HandshakeKept DEF Passwords
  <2>4. PICK h \in Handshakes : Follows(h)
    BY DEF OrderInv, SentInv
  <2>5. Follows(h)'
    BY <2>1, <2>3, <2>4 DEF Follows
  <2>6. SentInv'
    BY <2>1, <2>2, <2>3, <2>5 DEF SentInv
  <2>7. PlaceInv'
    BY <2>1 DEF PlaceInv, Unconnected
  <2> QED
    BY <2>6, <2>7
<1>7. CASE AnswerRound
  <2>1. /\ edp \in DOMAIN Answered /\ active = "open" /\ edp' \in {edp, Answered[edp]}
        /\ UNCHANGED <<next, current, out, sent, via, cc>>
    BY <1>7 DEF AnswerRound, netVars
  <2>2. Handshakes' = Handshakes /\ Passwords' = Passwords
    BY <2>1, HandshakeKept DEF Passwords
  <2>3. \A state : Place(state)' = Place(state)
    BY <2>1 DEF Place, Passwords, Discovered
  <2>4. PICK state \in DOMAIN Answered : state = edp
    BY <2>1
  <2>5. /\ Place(Answered[state]) = Place(state)
        /\ Answered[state] \in {"send_keepalive", "send_identity", "send_cloud_url"}
        /\ state \notin {"send_in_progress", "discovery_facility", "send_complete", "connected"}
        /\ state \notin {"facility_process", "send_password"}
    BY Places DEF Answered
  <2>6. PICK h \in Handshakes : Follows(h)
    BY DEF OrderInv, SentInv
  <2>7. Follows(h)'
    BY <2>1, <2>2, <2>6 DEF Follows
  <2>8. edp' \notin {"send_in_progress", "facility_process", "send_password"} \cup Unconnected
    BY <2>1, <2>4, <2>5 DEF Unconnected, Answered
  <2>9. SentInv'
    BY <2>2, <2>7, <2>8 DEF SentInv
  <2>10. Len(sent) = Place(state) /\ current = "none" /\ cc.state # "connect_report"
    BY <2>1, <2>4, <2>5 DEF OrderInv, PlaceInv
  <2>11. Place(edp)' = Len(sent)
    <3>1. PICK new : new = edp'
      OBVIOUS
    <3>2. Place(new) = Len(sent)
      BY <2>1, <2>4, <2>5, <2>10, <3>1
    <3> QED
      BY <2>3, <3>1, <3>2
  <2>12. PlaceInv'
    BY <2>1, <2>8, <2>10, <2>11 DEF PlaceInv
  <2> QED
    BY <2>9, <2>12
<1>8. CASE DataRound \/ ReceiveRound
  <2>1. /\ edp = "facility_process" /\ UNCHANGED <<edp, sent, via>> /\ active' # "open"
    BY <1>8 DEF DataRound, ReceiveRound, Round, Ends, netVars, TypeInv, OutInv
  <2>2. Handshakes' = Handshakes /\ Passwords' = Passwords
    BY <2>1, HandshakeKept DEF Passwords
  <2>3. PICK h \in Handshakes : Follows(h) /\ Len(sent) = 12 + Passwords
    BY <2>1 DEF OrderInv, SentInv
  <2>4. Follows(h)'
    BY <2>1, <2>2, <2>3 DEF Follows
  <2>5. SentInv'
    BY <2>1, <2>2, <2>3, <2>4 DEF SentInv
  <2>6. PlaceInv'
    BY <2>1 DEF PlaceInv, Unconnected
  <2> QED
    BY <2>5, <2>6
<1>9. CASE ReceiveFails \/ Disconnected
  <2>1. UNCHANGED <<edp, next, out, sent, via, current, cc>> /\ active' # "open"
    BY <1>9 DEF ReceiveFails, Disconnected, Round, Ends, hsVars, netVars
  <2> QED
    BY <2>1, HandshakeRests
<1>10. CASE Redirected
  <2>1. /\ edp = "facility_process" /\ UNCHANGED <<edp, sent, via>> /\ active' # "open"
    BY <1>10 DEF Redirected, netVars, TypeInv, OutInv
  <2>2. Handshakes' = Handshakes /\ Passwords' = Passwords
    BY <2>1, HandshakeKept DEF Passwords
  <2>3. PICK h \in Handshakes : Follows(h) /\ Len(sent) = 12 + Passwords
    BY <2>1 DEF OrderInv, SentInv
  <2>4. Follows(h)'
    BY <2>1, <2>2, <2>3 DEF Follows
  <2>5. SentInv'
    BY <2>1, <2>2, <2>3, <2>4 DEF SentInv
  <2>6. PlaceInv'
    BY <2>1 DEF PlaceInv, Unconnected
  <2> QED
    BY <2>5, <2>6
<1>11. CASE CloseRound
  <2>1. CASE LeaveNetwork
    <3>1. \/ cc' \in {FreshCc, Cleaned(cc)}
          \/ cc' = cc /\ edp' = edp
      BY <1>11 DEF CloseRound
    <3>2. cc' = cc /\ edp' = edp => edp \in Unconnected
      BY <2>1 DEF LeaveNetwork, Unconnected
    <3>3. FreshCc.state # "connect_report" /\ Cleaned(cc).state # "connect_report"
      BY DEF FreshCc, Cleaned
    <3>4. cc'.state # "connect_report"
      BY <1>0, <3>1, <3>2, <3>3
    <3> QED
      BY <2>1, <3>4, NothingSent DEF LeaveNetwork, Unconnected
  <2>2. CASE UNCHANGED <<edp, next, out, sent, via, current, cc>> /\ active' # "open"
    BY <2>2, HandshakeRests
  <2>3. CASE ~NetworkUsed /\ cc' \in {FreshCc, cc} /\ UNCHANGED <<edp, sent, current>>
    <3>1. sent' = << >> /\ current' = "none" /\ edp' \in Unconnected
      BY <1>0, <2>3 DEF NetworkUsed
    <3>2. cc'.state # "connect_report"
      BY <1>0, <2>3 DEF FreshCc, NetworkUsed
    <3> QED
      BY <3>1, <3>2, NothingSent
  <2> QED
    BY <1>11, <2>1, <2>2, <2>3 DEF CloseRound, Round, Ends, hsVars, netVars
<1>12. CASE RedirectClose
  <2>1. CASE LeaveNetwork
    <3>1. cc'.state # "connect_report"
      BY <1>12, <2>1 DEF RedirectClose, FreshCc, TypeInv, CcType, CcRecords
    <3> QED
      BY <2>1, <3>1, NothingSent DEF LeaveNetwork, Unconnected
  <2>2. CASE UNCHANGED <<edp, next, out, sent, via, current, cc>> /\ active' # "open"
    BY <2>2, HandshakeRests
  <2> QED
    BY <1>12, <2>1, <2>2 DEF RedirectClose, Round, Ends, hsVars, netVars
<1>13. CASE RedirectConnect
  <2>1. edp \in Unconnected
    BY <1>13 DEF RedirectConnect, FaultInv, CcInv
  <2>2. sent' = << >> /\ current' = "none" /\ edp' \in Unconnected \cup {"send_version"}
    BY <1>0, <1>13, <2>1 DEF RedirectConnect
  <2>3. cc'.state # "connect_report"
    BY <1>0, <1>13, <2>1 DEF RedirectConnect, GiveUp, TypeInv, CcType, CcRecords
  <2> QED
    BY <2>2, <2>3, NothingSent
<1> QED
  BY <1>1, <1>2, <1>3, <1>4, <1>5, <1>6, <1>7, <1>8, <1>9, <1>10, <1>11, <1>12, <1>13 DEF Rounds

\* The beginning and the end of a step, and the calls of the user.
LEMMA RestInOrder ==
    ASSUME FaultInv, OrderInv, [Next]_vars, ~Rounds
    PROVE  SentInv' /\ PlaceInv'
<1>1. /\ UNCHANGED <<edp, next, out, sent, via, current, cc>>
      /\ active' = "open" => active = "open" \/ edp \in Unconnected
  <2>1. CASE StepFree \/ StepBegin \/ Report
    BY <2>1 DEF StepFree, StepBegin, Report, hsVars, netVars
  <2>2. CASE CheckStopped \/ StopAnswered \/ CheckStop \/ CheckTerminate \/ CheckNothing
    BY <2>2 DEF CheckStopped, StopAnswered, CheckStop, CheckTerminate, CheckNothing, CheckFrame,
                hsVars, netVars
  <2>3. CASE CheckStart
    BY <2>3 DEF CheckStart, Checking, CheckFrame, hsVars, netVars, FaultInv, SlotInv
  <2>4. CASE User
    BY <2>4 DEF User, Stop, StopAll, Start, Terminate, Terminated, CallFrame, hsVars, netVars
  <2>5. CASE UNCHANGED vars
    BY <2>5 DEF vars, hsVars, netVars
  <2> QED
    BY <2>1, <2>2, <2>3, <2>4, <2>5 DEF Next, Step, Check, Ended
<1> QED
  BY <1>1, HandshakeRests

\* The report of connection control is that of the connection.
LEMMA ReportRounds ==
    ASSUME TypeInv, FaultInv, OrderInv, Rounds
    PROVE  ReportInv'
<1> USE DEF Running, ReportInv
<1>0. /\ ReportInv /\ pc = "run" /\ initiate' = initiate
      /\ cc.state = "redirect_report" =>
            \/ cc.report = ReportVia
            \/ active \in {"close", "idle", "terminate"} /\ initiate = "terminate"
      /\ status = "device_terminated" => initiate = "terminate"
  BY RoundsKeep DEF OrderInv
<1>1. CASE UNCHANGED <<cc, via>> /\ status' \in {status, "none", "device_error", "abort",
                                               "cloud_disconnected", "cloud_redirected"}
           /\ active \notin {"close", "idle", "terminate"}
  <2>1. ReportVia' = ReportVia
    BY <1>1 DEF ReportVia
  <2> QED
    BY <1>0, <1>1, <2>1
<1>2. CASE IdleRound
  <2>1. ReportVia' = ReportVia
    BY <1>2 DEF IdleRound, ReportVia, netVars
  <2> QED
    BY <1>0, <1>2, <2>1 DEF IdleRound, slotVars
<1>3. CASE WaitRound \/ DataRound \/ ReceiveRound \/ ReceiveFails \/ Disconnected
  BY <1>1, <1>3 DEF WaitRound, DataRound, ReceiveRound, ReceiveFails, Disconnected, netVars
<1>4. CASE ConnectRound \/ ConfigureRound \/ ConnectedRound \/ AnswerRound
  BY <1>1, <1>4 DEF ConnectRound, ConfigureRound, ConnectedRound, AnswerRound, netVars
<1>5. CASE SendRound
  BY <1>1, <1>5 DEF SendRound, Transmit
<1>6. CASE DiscoveryRound
  <2>1. /\ via' = via /\ active = "open"
        /\ status' \in {status, "none", "device_error", "abort",
                        "cloud_disconnected", "cloud_redirected"}
    BY <1>6 DEF DiscoveryRound, Transmit
  <2>2. cc' = cc \/ cc' = [cc EXCEPT !.state = "connect_report", !.report = "not_redirect"]
    BY <1>6 DEF DiscoveryRound
  <2>3. CASE cc' = [cc EXCEPT !.state = "connect_report", !.report = "not_redirect"]
    <3>1. cc'.state = "connect_report"
      BY <2>3 DEF TypeInv, CcType, CcRecords
    <3> QED
      BY <1>0, <2>1, <3>1
  <2> QED
    BY <1>1, <2>1, <2>2, <2>3
<1>7. CASE Redirected
  <2>1. cc'.state = "close" /\ status' = status
    BY <1>7 DEF Redirected, TypeInv, CcType, CcRecords
  <2> QED
    BY <1>0, <2>1
<1>8. CASE CloseRound
  <2>1. CASE UNCHANGED <<cc, via, status>> /\ active' = active
    <3>1. ReportVia' = ReportVia
      BY <2>1 DEF ReportVia
    <3> QED
      BY <1>0, <1>8, <2>1, <3>1 DEF CloseRound
  <2>2. CASE LeaveNetwork /\ cc' \in {FreshCc, Cleaned(cc)}
    <3>1. ReportVia' = "not_redirect" /\ status' = "none"
      BY <2>2 DEF LeaveNetwork, ReportVia
    <3>2. cc'.state = "redirect_report" => cc'.report = "not_redirect"
      BY <2>2 DEF FreshCc, Cleaned
    <3> QED
      BY <3>1, <3>2
  <2>3. CASE Final("continue") /\ cc' = FreshCc /\ UNCHANGED status
             /\ Round(FinalResult("continue"), "terminate")
    <3>1. status = "device_terminated" \/ pc' = "report"
      BY <2>3 DEF Final, FinalResult, Round, Ends
    <3>2. active' = "terminate"
      BY <2>3 DEF Round, Ends
    <3> QED
      BY <1>0, <2>3, <3>1, <3>2
  <2>4. CASE ~Final("continue") /\ UNCHANGED <<cc, via, status>> /\ active' = "idle"
    <3>1. ReportVia' = ReportVia
      BY <2>4 DEF ReportVia
    <3> QED
      BY <1>0, <2>4, <3>1
  <2> QED
    BY <1>8, <2>1, <2>2, <2>3, <2>4 DEF CloseRound, Round, Ends, netVars
<1>9. CASE RedirectClose
  <2>1. CASE UNCHANGED <<cc, via>> /\ status' = "cloud_redirected"
    BY <1>1, <1>9, <2>1 DEF RedirectClose
  <2>2. CASE LeaveNetwork /\ cc' \in {FreshCc, [cc EXCEPT !.state = "connect"]}
    <3>1. ReportVia' = "not_redirect" /\ status' = "none"
      BY <2>2 DEF LeaveNetwork, ReportVia
    <3>2. CASE cc' = [cc EXCEPT !.state = "connect"]
      <4>1. cc'.state = "connect"
        BY <3>2 DEF TypeInv, CcType, CcRecords
      <4> QED
        BY <3>1, <4>1
    <3>3. CASE cc' = FreshCc
      <4>1. cc'.report = "not_redirect"
        BY <3>3 DEF FreshCc
      <4> QED
        BY <3>1, <4>1
    <3> QED
      BY <2>2, <3>2, <3>3
  <2> QED
    BY <1>9, <2>1, <2>2 DEF RedirectClose, netVars
<1>10. CASE RedirectConnect
  <2>1. CASE UNCHANGED <<cc, via, status>>
    BY <1>1, <1>10, <2>1 DEF RedirectConnect
  <2>2. CASE /\ cc' = [cc EXCEPT !.state = "redirect_report", !.report = "redirect_success"]
             /\ via' = "redirect" /\ status' = status
    <3>1. cc'.report = "redirect_success"
      BY <2>2 DEF TypeInv, CcType, CcRecords
    <3> QED
      BY <1>0, <2>2, <3>1 DEF ReportVia
  <2>3. CASE cc' = [cc EXCEPT !.urls = @ - 1] /\ status' = status
    <3>1. cc'.state = "connect"
      BY <1>10, <2>3 DEF RedirectConnect, TypeInv, CcType, CcRecords
    <3> QED
      BY <1>0, <2>3, <3>1
  <2>4. CASE cc' = GiveUp(cc) /\ via' = "fallback" /\ status' = status
    <3>1. cc'.report = "redirect_error"
      BY <2>4 DEF GiveUp, TypeInv, CcType, CcRecords
    <3> QED
      BY <1>0, <2>4, <3>1 DEF ReportVia
  <2> QED
    BY <1>10, <2>1, <2>2, <2>3, <2>4 DEF RedirectConnect
<1> QED
  BY <1>2, <1>3, <1>4, <1>5, <1>6, <1>7, <1>8, <1>9, <1>10 DEF Rounds

\* Outside the rounds the report does not change, and nobody gets out of an end.
LEMMA ReportRest ==
    ASSUME Overlaps = {}, FaultInv, FaultInv', OrderInv, [Next]_vars, ~Rounds
    PROVE  ReportInv'
<1> USE DEF ReportInv
<1>0. ReportInv /\ EndInv /\ EndInv'
  BY DEF OrderInv, FaultInv
<1>1. UNCHANGED <<cc, via>> /\ ReportVia' = ReportVia
  <2>1. CASE StepFree \/ StepBegin \/ Report
    BY <2>1 DEF StepFree, StepBegin, Report, netVars, ReportVia
  <2>2. CASE Check
    BY <2>2 DEF Check, CheckStopped, StopAnswered, CheckStop, CheckStart, CheckTerminate,
                CheckNothing, CheckFrame, netVars, ReportVia
  <2>3. CASE User
    BY <2>3 DEF User, Stop, StopAll, Start, Terminate, Terminated, CallFrame, netVars, ReportVia
  <2>4. CASE UNCHANGED vars
    BY <2>4 DEF vars, netVars, ReportVia
  <2> QED
    BY <2>1, <2>2, <2>3, <2>4 DEF Next, Step, Ended
<1>2. CASE StepFree \/ StepBegin
  BY <1>0, <1>1, <1>2 DEF StepFree, StepBegin, slotVars
<1>3. CASE Report
  BY <1>0, <1>1, <1>3 DEF Report, EndInv
<1>4. CASE CheckStopped \/ StopAnswered
  BY <1>0, <1>1, <1>4 DEF CheckStopped, StopAnswered, Checking, CheckFrame, EndInv,
                          AfterStopCallback
<1>5. CASE CheckStop \/ CheckStart \/ CheckNothing
  BY <1>0, <1>1, <1>5 DEF CheckStop, CheckStart, CheckNothing, Checking, CheckFrame, StepEnds,
                          slotVars
<1>6. CASE CheckTerminate
  BY <1>0, <1>1, <1>6 DEF CheckTerminate, Checking, CheckFrame, StepEnds
<1>7. CASE \E immediately \in BOOLEAN : Stop(immediately) \/ StopAll(immediately)
  BY <1>0, <1>1, <1>7 DEF Stop, StopAll, MayCall, MayStop, CallFrame, stepVars, EndInv
<1>8. CASE Start \/ Terminate \/ Terminated
  BY <1>0, <1>1, <1>8 DEF Start, Terminate, Terminated, MayCall, CallFrame, stepVars, slotVars,
                          EndInv
<1>9. CASE UNCHANGED vars
  BY <1>0, <1>1, <1>9 DEF vars, stepVars, slotVars
<1> QED
  BY <1>2, <1>3, <1>4, <1>5, <1>6, <1>7, <1>8, <1>9 DEF Next, Step, Check, User, Ended

\* On every connection the device sends the handshake in its order, with the report of how the
\* connection was made, and serves messages only after all of it, when the user's calls do not
\* coincide with a redirect, a slow close, a stop callback or an abort.
THEOREM HandshakeIsInOrder ==
    ASSUME Overlaps = {}
    PROVE  Spec => []HandshakeInOrder
<1>1. Init => OrderInv
  <2> SUFFICES ASSUME Init
               PROVE  OrderInv
    OBVIOUS
  <2>1. /\ sent = << >> /\ edp = "connect_to_cloud" /\ current = "none" /\ cc = FreshCc
        /\ status = "none" /\ via = "cloud"
    BY DEF Init
  <2>2. Len(sent) = 0 /\ Place(edp) = 0 /\ Passwords \in 0 .. 1
    BY <2>1 DEF Place, Passwords
  <2>3. PICK h : h \in Handshakes
    BY DEF Handshakes
  <2>4. Follows(h)
    BY <2>2 DEF Follows
  <2>5. SentInv
    BY <2>1, <2>3, <2>4 DEF SentInv
  <2>6. PlaceInv
    BY <2>1, <2>2 DEF PlaceInv, FreshCc
  <2>7. ReportInv
    BY <2>1 DEF ReportInv, FreshCc, ReportVia
  <2> QED
    BY <2>5, <2>6, <2>7 DEF OrderInv
<1>2. TypeInv /\ FaultInv /\ FaultInv' /\ OrderInv /\ [Next]_vars => OrderInv'
  BY RoundsInOrder, RestInOrder, ReportRounds, ReportRest DEF OrderInv
<1>3. TypeInv /\ OrderInv => HandshakeInOrder
  <2> SUFFICES ASSUME TypeInv, OrderInv
               PROVE  HandshakeInOrder
    OBVIOUS
  <2>1. PICK h \in Handshakes :
            Follows(h) /\ (edp = "facility_process" => Len(sent) = 12 + Passwords)
    BY DEF OrderInv, SentInv
  <2>2. PICK d \in DeviceMessages : Messages(h, d)
    BY HandshakeMessages
  <2>3. sent \in Seq(Packets) /\ h \in Seq(Packets) /\ Len(h) = 12 + Passwords
    BY <2>2 DEF TypeInv, HandshakeType, Messages
  <2>4. IsPrefix(sent, h) /\ (Len(sent) = Len(h) => sent = h)
    BY <2>1, <2>3, FollowsIsPrefix DEF Follows
  <2>5. PICK provisioning \in BOOLEAN : h = Handshake(provisioning)
    BY DEF Handshakes
  <2> QED
    BY <2>1, <2>3, <2>4, <2>5 DEF HandshakeInOrder
<1> QED
  BY <1>1, <1>2, <1>3, TypeInvariant, FaultInvariant, PTL DEF Spec
=============================================================================
