------------------------------- MODULE Firmware -------------------------------
(***************************************************************************)
(* The firmware facility: Device Cloud downloads images to the targets of  *)
(* the device through the callbacks of the application.                    *)
(*                                                                         *)
(* A packet of the facility is processed again in every step until its     *)
(* callback is done and its answer is handed to the send packet.  All      *)
(* answers are built in one response buffer, which the send packet points  *)
(* to until it is sent.  While a callback is busy the target list is sent  *)
(* now and then to keep the download alive.                                *)
(***************************************************************************)
EXTENDS Integers

CONSTANTS
    TargetCount,  \* the images of the application; targets are numbered from 0
    BusyIn,       \* the callbacks that may be busy
    AbortIn,      \* the callbacks that may abort
    Acks,         \* does Device Cloud ask for the acknowledgement of a block
    InfoAnytime,  \* it asks about another target during a download
    MaxIn,        \* bound: packets of Device Cloud to the facility
    MaxOther,     \* bound: packets that the other facilities send
    MaxLinks      \* bound: connections

Callbacks == {"info", "start", "data", "complete", "abort", "reset"}

ASSUME ConstantsAssumption ==
    /\ TargetCount \in Nat \ {0}
    /\ BusyIn \subseteq Callbacks
    /\ AbortIn \subseteq Callbacks
    /\ Acks \subseteq BOOLEAN
    /\ InfoAnytime \in BOOLEAN
    /\ {MaxIn, MaxOther, MaxLinks} \subseteq Nat

Targets == 0 .. TargetCount - 1
NoTarget == -1

Opcodes == {"info_request", "download_request", "binary_block", "download_abort",
            "download_complete", "target_reset", "other"}

\* valid: the packet has the length of its opcode; n is the number of the packet.
Packet == [opcode : Opcodes, target : 0 .. TargetCount, valid : BOOLEAN,
           ack : BOOLEAN, n : 1 .. MaxIn]
NoPacket == [opcode |-> "none"]

\* What the facility builds in its response buffer, for packet n.
Kinds == {"error", "abort", "accepted", "refused", "block_ack", "completed"}
Response == [kind : Kinds, n : 1 .. MaxIn]
NoResponse == [kind |-> "none"]

\* The send packet: "response" points into the response buffer; "info" and "list" are
\* in the buffer all facilities share; "other" belongs to another facility.
Free == [from |-> "free"]
Shared(from) == [from |-> from]
Answer(m) == [from |-> "response", msg |-> m]
SendPacket == {Free, Shared("info"), Shared("list"), Shared("other")}
              \cup {Answer(m) : m \in Response}

VARIABLES
    link,           \* the connection: "closed", "discovering", "open", "closing"
    inbox,          \* the packet that stays in the receive buffer
    update_started,
    target,         \* target_info.target_number
    failing,        \* abort_reason is not connector_firmware_status_success
    send_busy,
    keepalive,      \* fw_keepalive_start
    timer,          \* last_fw_keepalive_sent_time is not 0
    response,       \* response_buffer
    slot,           \* the send packet
    app,            \* the application: the target whose download it is in
    fault,          \* history: a callback out of order, or an assertion
    hurried,        \* history: a packet came before the answer in the slot was sent
    count           \* bounds: packets, packets of others, connections so far

facility == <<update_started, target, failing, send_busy, response>>
clock == <<keepalive, timer>>
vars == <<link, inbox, facility, clock, slot, app, fault, hurried, count>>

Init ==
    /\ link = "closed"
    /\ inbox = NoPacket
    /\ update_started = FALSE /\ failing = FALSE /\ send_busy = FALSE
    /\ keepalive = FALSE /\ timer = FALSE
    /\ target = 0
    /\ response = NoResponse
    /\ slot = Free
    /\ app = NoTarget
    /\ fault = "none"
    /\ hurried = FALSE
    /\ count = [in |-> 0, other |-> 0, links |-> 0]

-----------------------------------------------------------------------------
\* The callbacks.

Results(callback) ==
    {"working"} \cup {r \in {"pending"} : callback \in BusyIn}
                \cup {r \in {"abort"} : callback \in AbortIn}

\* Mutant: the keepalive is not switched off when it was sent.
KeepaliveKept(result, timed) ==
    CASE result = "working" -> {keepalive}
      [] result = "pending" -> IF timed THEN BOOLEAN ELSE {FALSE}
      [] result = "abort"   -> {keepalive}

\* A busy callback starts the keepalive when the interval has passed since the time
\* the last one was sent, if there is one.
KeepaliveAfter(result, timed) ==
    CASE result = "working" -> {FALSE}
      [] result = "pending" -> IF timed THEN BOOLEAN ELSE {FALSE}
      [] result = "abort"   -> {keepalive}

\* The application begins a download with start, ends it with complete or abort.
Knows(callback, t) ==
    fault' = IF \/ callback = "start" /\ app # NoTarget
                \/ callback \in {"data", "complete", "abort"} /\ app # t
             THEN "out_of_order" ELSE fault

-----------------------------------------------------------------------------
\* What a step does with its packet.

\* layer_facility_process keeps the packet while the facility is pending; an abort
\* closes the connection.
Return(result) ==
    /\ inbox' = IF result = "pending" THEN inbox ELSE NoPacket
    /\ link' = IF result = "abort" THEN "closing" ELSE link
    /\ UNCHANGED <<hurried, count>>

\* send_fw_message, with m in the response buffer.
Sent == IF slot = Free THEN "working" ELSE "pending"
Reply(kind) ==
    LET m == [kind |-> kind, n |-> inbox.n] IN
    /\ response' = m
    /\ slot' = IF slot = Free THEN Answer(m) ELSE slot
    /\ send_busy' = (slot # Free)
NoReply == UNCHANGED <<response, slot, send_busy>>

\* The answer alone: an error of Device Cloud's, or something the facility refuses.
Refuse(kind) == Reply(kind) /\ Return(Sent)

\* fw_process with a packet: the keepalive comes first, then the answer that waits and
\* the abort, then the packet itself.
Turn == link = "open" /\ inbox # NoPacket /\ ~keepalive
Ready(opcode) ==
    /\ Turn /\ ~send_busy /\ ~failing
    /\ inbox.opcode = opcode
    /\ inbox.target \in Targets

\* Mutant: any target will do.
OfAnyTarget == update_started

\* The packet is of the download in progress.
OfDownload == update_started /\ inbox.target = target

InvalidTarget ==
    /\ Turn /\ ~send_busy /\ ~failing
    /\ inbox.target \notin Targets
    /\ Refuse("error")
    /\ UNCHANGED <<update_started, target, failing, clock, app, fault>>

InvalidOpcode ==
    /\ Ready("other")
    /\ Refuse("error")
    /\ UNCHANGED <<update_started, target, failing, clock, app, fault>>

\* process_fw_info_request asks in target_info, which holds the target of the download.
\* The answer is built in the shared buffer, when it is free.
InfoRequest(result) ==
    /\ Ready("info_request")
    /\ keepalive' = FALSE /\ timer' = FALSE
    /\ IF inbox.valid
       THEN /\ result \in Results("info")
            /\ target' = inbox.target
            /\ IF result = "working"
               THEN /\ slot' = IF slot = Free THEN Shared("info") ELSE slot
                    /\ Return(Sent)
               ELSE /\ slot' = slot
                    /\ Return(result)
            /\ UNCHANGED <<response, send_busy>>
       ELSE Refuse("error") /\ UNCHANGED target
    /\ UNCHANGED <<update_started, failing, app, fault>>

\* A request of the wrong length is refused as if the user had aborted it.
DownloadRequestRefused ==
    /\ Ready("download_request")
    /\ ~inbox.valid \/ update_started
    /\ Refuse(IF inbox.valid THEN "abort" ELSE "refused")
    /\ UNCHANGED <<update_started, target, failing, clock, app, fault>>

\* An abort of the callback is told to Device Cloud; a busy one is called again.
DownloadRequest(result) ==
    /\ Ready("download_request")
    /\ inbox.valid /\ ~update_started
    /\ result \in Results("start")
    /\ Knows("start", inbox.target)
    /\ keepalive' \in KeepaliveAfter(result, timer)
    /\ IF result = "pending"
       THEN NoReply /\ Return("pending") /\ UNCHANGED <<update_started, target, app>>
       ELSE \E kind \in IF result = "working" THEN {"accepted", "refused", "abort"}
                        ELSE {"abort"} :
               /\ Refuse(kind)
               /\ IF kind = "accepted"
                  THEN update_started' = TRUE /\ target' = inbox.target /\ app' = inbox.target
                  ELSE UNCHANGED <<update_started, target, app>>
    /\ UNCHANGED <<failing, timer>>

\* A block is dropped when no download is in progress.  A bad one of the download
\* ends it: the abort callback is called in the next step.
BlockRefused ==
    /\ Ready("binary_block")
    /\ ~(OfDownload /\ inbox.valid)
    /\ IF update_started
       THEN /\ Reply("error")
            /\ failing' = OfDownload
            /\ Return(IF OfDownload THEN "pending" ELSE Sent)
       ELSE NoReply /\ Return("idle") /\ UNCHANGED failing
    /\ UNCHANGED <<update_started, target, clock, app, fault>>

\* ok: the application took the data.
BinaryBlock(result) ==
    /\ Ready("binary_block")
    /\ OfDownload /\ inbox.valid
    /\ result \in Results("data")
    /\ Knows("data", inbox.target)
    /\ keepalive' \in KeepaliveAfter(result, timer)
    /\ \E ok \in IF result = "working" THEN BOOLEAN ELSE {TRUE} :
          /\ failing' = ~ok
          /\ CASE ~ok -> Reply("abort") /\ Return("pending")
               [] ok /\ result = "working" /\ inbox.ack -> Refuse("block_ack")
               [] OTHER -> NoReply /\ Return(result)
    /\ UNCHANGED <<update_started, target, timer, app>>

\* Device Cloud aborts the download: the callback is called in the next step.
DownloadAbort ==
    /\ Ready("download_abort")
    /\ keepalive' = FALSE /\ timer' = FALSE
    /\ failing' = (inbox.valid /\ OfDownload)
    /\ Return(IF failing' THEN "pending" ELSE "working")
    /\ NoReply
    /\ UNCHANGED <<update_started, target, app, fault>>

CompleteRefused ==
    /\ Ready("download_complete")
    /\ ~(inbox.valid /\ OfDownload)
    /\ Refuse("error")
    /\ timer' = TRUE
    /\ UNCHANGED <<update_started, target, failing, keepalive, app, fault>>

\* The first try sets the time from which the keepalives are due.  An abort of the
\* callback is told to Device Cloud, and the download goes on.
DownloadComplete(result) ==
    /\ Ready("download_complete")
    /\ inbox.valid /\ OfDownload
    /\ result \in Results("complete")
    /\ Knows("complete", inbox.target)
    /\ keepalive' \in KeepaliveAfter(result, TRUE)
    /\ timer' = (result # "working")
    /\ CASE result = "working" -> Refuse("completed")
         [] result = "pending" -> NoReply /\ Return("pending")
         [] result = "abort"   -> Refuse("abort")
    /\ update_started' = (result # "working")
    /\ app' = IF result = "pending" THEN app ELSE NoTarget
    /\ UNCHANGED <<target, failing>>

TargetReset(result) ==
    /\ Ready("target_reset")
    /\ result \in Results("reset")
    /\ keepalive' = FALSE /\ timer' = FALSE
    /\ NoReply
    /\ Return(result)
    /\ UNCHANGED <<update_started, target, failing, app, fault>>

-----------------------------------------------------------------------------
\* What fw_process does before it comes to the packet.

\* The target list goes out; the packet stays.  Without the shared buffer the facility
\* waits.  The callback tells the version of each target.
Keepalive(result) ==
    /\ link = "open" /\ inbox # NoPacket
    /\ keepalive
    /\ slot = Free
    /\ result \in Results("info")
    /\ slot' = IF result = "working" THEN Shared("list") ELSE slot
    /\ timer' = (timer \/ result = "working")
    /\ keepalive' \in CASE result = "abort" -> {TRUE, TargetCount = 1}
                        [] OTHER -> KeepaliveAfter(result, timer)
    /\ Return(IF result = "abort" THEN "abort" ELSE "pending")
    /\ UNCHANGED <<facility, app, fault>>

\* Mutant: the packet is processed again after its answer.
ResendKeeps ==
    /\ Turn /\ send_busy /\ ~failing
    /\ slot = Free
    /\ slot' = Answer(response)
    /\ send_busy' = FALSE
    /\ Return("pending")
    /\ UNCHANGED <<update_started, target, failing, response, clock, app, fault>>

\* An answer that found no send packet is handed to it now.
Resend ==
    /\ Turn /\ send_busy /\ ~failing
    /\ slot = Free
    /\ slot' = Answer(response)
    /\ send_busy' = FALSE
    /\ Return("working")
    /\ UNCHANGED <<update_started, target, failing, response, clock, app, fault>>

\* The abort callback, after the message to Device Cloud is handed to the send packet.
TellAbort(result) ==
    /\ Turn /\ failing
    /\ send_busy => slot = Free
    /\ slot' = IF send_busy THEN Answer(response) ELSE slot
    /\ send_busy' = FALSE
    /\ result \in Results("abort")
    /\ Knows("abort", target)
    /\ keepalive' \in KeepaliveAfter(result, timer)
    /\ timer' = FALSE
    /\ app' = IF result = "pending" THEN app ELSE NoTarget
    /\ failing' = (result = "pending")
    /\ update_started' = (update_started /\ result = "pending")
    /\ Return(result)
    /\ UNCHANGED <<target, response>>

\* The answer of a packet comes from a callback.
Asks(result) ==
    \/ InfoRequest(result) \/ DownloadRequest(result) \/ BinaryBlock(result)
    \/ DownloadComplete(result) \/ TargetReset(result) \/ TellAbort(result)
Refuses ==
    \/ InvalidTarget \/ InvalidOpcode \/ DownloadRequestRefused \/ BlockRefused
    \/ DownloadAbort \/ CompleteRefused

-----------------------------------------------------------------------------
\* The connection.

\* Device Cloud sends a packet; the receive buffer is free.
Receive ==
    /\ link = "open" /\ inbox = NoPacket
    /\ count.in < MaxIn
    /\ \E p \in Packet :
          /\ p.n = count.in + 1
          /\ p.ack \in IF p.opcode = "binary_block" THEN Acks ELSE {FALSE}
          /\ (p.opcode = "info_request" /\ update_started /\ ~InfoAnytime)
                => p.target \in {target, TargetCount}
          /\ inbox' = p
    /\ count' = [count EXCEPT !.in = @ + 1]
    /\ hurried' = (hurried \/ slot.from = "response")
    /\ UNCHANGED <<link, facility, clock, slot, app, fault>>

\* Another facility sends.
OtherSends ==
    /\ link = "open" /\ slot = Free
    /\ count.other < MaxOther
    /\ slot' = Shared("other")
    /\ count' = [count EXCEPT !.other = @ + 1]
    /\ UNCHANGED <<link, inbox, facility, clock, app, fault, hurried>>

\* The network took the last byte.  send_discovery_packet_callback keeps the time.
SendComplete ==
    /\ link \in {"discovering", "open"} /\ slot # Free
    /\ slot' = Free
    /\ timer' = (timer \/ slot.from = "list")
    /\ link' = "open"
    /\ hurried' = FALSE
    /\ UNCHANGED <<inbox, facility, keepalive, app, fault, count>>

\* The facility is initialized and sends its target list.  A busy callback is not
\* allowed here: nothing is sent, and the connection is closed.
Open(result) ==
    /\ link = "closed"
    /\ count.links < MaxLinks
    /\ inbox' = NoPacket
    /\ update_started' = FALSE /\ failing' = FALSE /\ send_busy' = FALSE
    /\ keepalive' = FALSE /\ timer' = FALSE
    /\ target' = 0
    /\ result \in Results("info")
    /\ IF result = "working" THEN link' = "discovering" /\ slot' = Shared("list")
                             ELSE link' = "closing" /\ slot' = slot
    /\ count' = [count EXCEPT !.links = @ + 1]
    /\ UNCHANGED <<response, app, fault, hurried>>

Fail ==
    /\ link \in {"discovering", "open"}
    /\ link' = "closing"
    /\ UNCHANGED <<inbox, facility, clock, slot, app, fault, hurried, count>>

\* The network is closed and the facilities clean up: a download in progress is aborted.
\* The callback is called once; layer_remove_facilities asserts that it is not busy.
Close(result) ==
    /\ link = "closing"
    /\ link' = "closed"
    /\ slot' = Free
    /\ hurried' = FALSE
    /\ LET timed == timer \/ slot.from = "list" IN
       /\ timer' = timed
       /\ IF update_started
          THEN /\ result \in Results("abort")
               /\ keepalive' \in KeepaliveAfter(result, timed)
               /\ IF result = "pending" THEN fault' = "busy_cleanup"
                                        ELSE Knows("abort", target)
               /\ app' = IF result = "pending" THEN app ELSE NoTarget
          ELSE UNCHANGED <<keepalive, app, fault>>
    /\ UNCHANGED <<inbox, facility, count>>

Next ==
    \/ \E result \in {"working", "pending", "abort"} :
          Asks(result) \/ Keepalive(result) \/ Open(result) \/ Close(result)
    \/ Refuses \/ Resend
    \/ Receive \/ OtherSends \/ SendComplete \/ Fail

Spec == Init /\ [][Next]_vars

\* The connector runs, the network takes what is sent, and no callback is busy for ever.
Fairness ==
    /\ WF_vars(Refuses \/ Resend)
    /\ WF_vars(SendComplete)
    /\ SF_vars(Asks("working") \/ Asks("abort"))
    /\ SF_vars(Keepalive("working") \/ Keepalive("abort"))
    /\ WF_vars(Close("working") \/ Close("abort"))
FairSpec == Spec /\ Fairness

-----------------------------------------------------------------------------
TypeOK ==
    /\ link \in {"closed", "discovering", "open", "closing"}
    /\ inbox \in Packet \cup {NoPacket}
    /\ update_started \in BOOLEAN /\ failing \in BOOLEAN /\ send_busy \in BOOLEAN
    /\ keepalive \in BOOLEAN /\ timer \in BOOLEAN /\ hurried \in BOOLEAN
    /\ target \in Targets
    /\ response \in Response \cup {NoResponse}
    /\ slot \in SendPacket
    /\ app \in Targets \cup {NoTarget}
    /\ fault \in {"none", "out_of_order", "busy_cleanup"}
    /\ count \in [in : 0 .. MaxIn, other : 0 .. MaxOther, links : 0 .. MaxLinks]

\* The application is called in the order of a download, whatever Device Cloud sends and
\* wherever the connection breaks: start, data, then complete or abort once, all of the
\* same target.  The facility and the application agree on the download in progress, and
\* none is left behind by a connection that was lost.
DownloadAgreed ==
    /\ fault = "none"
    /\ app = IF update_started /\ link # "closed" THEN target ELSE NoTarget

\* An answer is not replaced while it waits to be sent or is being sent, unless Device
\* Cloud sent another packet before it had the answer.
AnswerKept ==
    slot.from = "response" /\ slot.msg # response => hurried

\* A packet of Device Cloud does not stay with the facility, and the receive buffer with
\* it, for ever: it is answered or the connection ends.
PacketsHandled == inbox # NoPacket ~> inbox = NoPacket \/ link = "closed"
=============================================================================
