# TLA+ models of Digi Cloud Connector (ANSI-C)

Cloud Connector is a C library that an application links to talk to Device
Cloud. It is single threaded: the application calls `connector_step` (or
`connector_run`) and the library advances a little; everything the platform has
to do (network, memory, time, user data) is a callback that may answer *busy*
and is then asked again. Its difficulty is that one pair of buffers is shared by
many sessions, that every callback may postpone or end its work at any point,
that the application may call `connector_initiate_action` from another thread,
and that the connection may end between any two steps.

This directory holds TLA+ modules of its core, the TLC configurations that check
them on small instances, and theorems checked by TLAPS.

## The system

| Part (under `src/private`) | State | Operations | Interacts with |
|---|---|---|---|
| Messaging facility (`connector_msg.h`) | list of sessions, the polled session, ids, transaction counts, pending requests; per session its state, data block, flags, error | process a START/DATA/ACK/ERROR packet, start a session, poll one session, complete a send, clean up, delete | data service, RCI, CLI, file system (service callbacks); send and receive buffers |
| Data service (`connector_data_service.h`) | a context per session (which callback is next) | put request: send data, take the response, status; device request: target, data, reply, status | messaging facility, application |
| TCP buffers (`connector_tcp_send.h`, `connector_tcp_recv.h`) | one send buffer and slot with its complete callback, one receive buffer, keepalive times | get, release and send a buffer; receive a packet; keepalives | everything that sends |
| EDP layer (`layer.h`, `connector_edp_util.h`) | facility list, the packet each facility holds | discover, process, cleanup, delete facilities | messaging, firmware, control channel |
| EDP connection (`connector_edp.h`, `connector_tcp_open.h`, `connector_tcp_close.h`, `connector_cc.h`) | active state, initiate state, EDP state, close status, timers | open handshake, alternate send and receive, redirect, close, stop, terminate | API, layer |
| API (`connector_api.c`) | transports, the current one, terminate request | init, step, run, initiate actions | all transports |
| Short messaging (`connector_sm*.h`) | sessions with segments, request ids, timers, one packet | send, segment, receive, reassemble, time out, cancel | UDP and SMS callbacks |
| Firmware download (`connector_firmware.h`) | a target's download state, one response buffer | request, binary blocks, complete, abort, reset | layer, application |
| File system (`connector_file_system.h`) | a context per session: command, handle, error | stat, list, get, put, remove, hash, session error | messaging |
| Streaming CLI (`connector_streaming_cli.h`) | session state, handle, transactions of a session | start, poll, execute, end | messaging |
| Data points (`connector_data_point*.h`) | list of requests, their generators | initiate, generate CSV, hand to the data service | data service |
| RCI (`rci_*.h`) | parser, generator and callback states, traversal | parse, call the application, generate | messaging |
| Static buffers (`connector_static_buffer.h`) | bitmaps of buffers | allocate, free | all, with `CONNECTOR_NO_MALLOC` |

Behaviour that is hard to test: the interleaving of sessions over one send slot
whose complete callback holds a session pointer; a packet that is held because
its callback was busy while another session ends; a request queued by another
thread between any two steps; a stop or a terminate that meets a redirect, a
slow close or another stop; errors of Device Cloud for a session in any state;
allocations that answer busy half way; a callback that is asked again and finds
half of its work done; the end of the connection with work in every state;
datagrams lost and reordered; ids that wrap; windows and acknowledgements of the
two sides that must not block each other. `PROJECT.json` lists each with its
line.

What makes the parts correct:

* flow control: the announced window is respected, the stream is intact, a
  waiting sender will be answered;
* sessions: none lost or counted twice, ids unique, the limit of transactions
  holds, the send slot calls back the session that waits for it;
* buffers: the one send buffer is taken exactly while something is in the slot,
  and a packet that was not taken is offered again;
* put requests: the sender of each is told exactly once how it ended, and is told
  "complete" only if Device Cloud has all of it; a busy session does not keep
  others from ending;
* connection: the handshake keeps its order, the network is open exactly when
  the state says so, a stop, start or terminate takes effect once and is final;
* short messages: segments are taken in order and once, every request ends once,
  a stop that waits for the sessions ends, a stopped transport stays stopped;
* files: what was opened is closed, callbacks name only what is open, and Device
  Cloud is told of success when and only when the transfer succeeded;
* firmware: application and facility agree on the download, no answer is
  overwritten, no packet stays for ever.

## Conventions of the modules

Variables and actions keep the names of the C code. One action is one piece of
code that runs without returning to the application; where a call is resumed
after a busy callback, the model has the position it resumes at. Callbacks
choose their answers from constant sets, so an instance says which answers it
considers; Device Cloud and the network are actions of their own. Where the code
reads freed memory or fails an assertion (`ASSERT` is empty in release builds,
`src/public/include/custom/connector_debug.h:83`), `fault` is set and the model
claims nothing more. History variables (`told`, `app`, `file` and the like) hold
what the application and Device Cloud saw. Definitions marked `Mutant` are faulty
variants of the definition that follows them; each shows that a property of a
run notices the fault, and none is used by a specification.

A number of answers and packets that the interfaces allow lead to a state the code
does not intend. Each is switched by a constant, which the passing runs leave
out; the sections below say which constant shows which. Three of them, where a
comment or a document says otherwise, are runs of their own (freed, edp_stopped,
fs_put).

## Modules

### MsgWindow

Flow control of one transfer, byte by byte, for any window, packet size and
message. `out` and `in` are the two `msg_data_block_t` with the part of the
session state that matters; `data` and `acks` the TCP streams. `SendData` is
`msg_get_service_data` with `msg_process_send_data`, `ReceiveData` is
`msg_pass_service_data`, `SendAck` is `msg_send_ack`, `ReceiveAck` is
`msg_process_ack`. Differences of counters are differences of `size_t`
(`Minus`). Both halves are in the repository; in a real transfer one of them is
Device Cloud, taken to follow the same rule. The counters themselves do not wrap:
a message shorter than `SizeLimit` is assumed by the run, and the theorems need
only that window and packet fit in a `size_t`, as the differences do not exceed
the window.

`connector_edp_def.h:40` demands only that the window exceed one packet. The two
rules together need two (`TwoPacketsFit`): with a window of 5 and packets of 4,
for example, a first packet of two bytes makes the sender wait (2 > 5 - 4) and
the receiver silent (2 is not more than 5 / 2). The defaults (four packets)
satisfy it.

### MsgFacility, PutService

The whole facility with the data service on top, for any number of sessions.
Data is counted in packets, the unit of the windows here. One variable group per
C structure: `session`, `list`, `current`, `active`, `lastId`, `pending` are
`connector_msg_data_t`; `slot` and `bufInUse` are `edp_data.send_packet`; `held`
and `result` are the facility's packet buffer and the status of its last
processing; `told` is a history variable (what the application was told),
`inbound` and `conv` are the network and Device Cloud, and `fault` records
undefined behaviour or a failed assertion.

`pc` is the position in `connector_edp_step`: a send step
(`edp_tcp_send_process`), then a receive step in three parts: process a packet
(`msg_process_*`), start a session for a pending request (`msg_start_session`)
and poll one session (`msg_process_pending`). Each part is one action of the
model and is atomic in the code, except that another thread may call
`connector_initiate_action` (`Initiate`) between any two; the last part also
decides whether the packet is kept (`Release`, from `msg_process` and
`layer_facility_process`). The end of a connection (`Disconnect`,
`CloseNetwork`, `CleanupSession` one by one, `CleanupRequest`, then `Reopen` or
`Terminate`) follows `tcp_close_cloud`.

Device Cloud (`Cloud*`) acknowledges, replies, sends device requests, respects
the window, and may end a conversation with an error whenever `CloudErrors`
holds.

`PutService` is what the sender of a put request may rely on, with no sessions,
buffers or connections: one end per request, and "complete" only for what was
delivered. `MsgFacility` implements it under the refinement mapping of `Service`,
in which a sender whose status callback was busy is still waiting; the property
`ServiceSpec` is its specification.

Left out: callbacks that abort (they end the connector), the exchange of
capabilities, compression, the double-buffered sessions of RCI, and the partial
sending of a packet (the send step may do nothing any number of times instead).

What other constants show: a status callback that answers busy is not called
again and the context of its put request stays allocated; a put request without
memory for its context reports the failure through the NULL context; at
termination only one of two pending requests is told; a held packet is dropped
when another session's callback cancels its message in the same round
(`connector_msg.h:2030` lets `connector_unavailable` overrule `pending`).

### ShortMessage, ShortService

Short messages over UDP: the list of sessions with their segments and timers
(`connector_sm_session.h`), the requests queued by the application, the packet
being sent, the step of the transport
(`connector_sm.h`: open, process, close) and the requests to stop,
start or terminate it. `connector_sm_step` receives a datagram, processes it,
takes a queued request and polls one session; `ProcessPending` follows the
session's state machine (`connector_sm_recv.h`, `connector_sm_send.h`). Datagrams are a set:
each may be lost or delayed past any other, received twice with `Duplicates`, and
Device Cloud need not answer. Time is what the timers need of it: a session with a timeout may expire
while it waits.

`ShortService` is the view of one sender: queued, in flight, ended once.
`ShortMessage` implements it (`ServiceSpec`).

`LateErrors` says that callbacks may fail while a stop waits for the sessions. The
fair specification makes the step weakly fair, and strongly fair a callback that
may continue and memory for a payload. `RequestsEnd` excludes one case: a request
queued when the close callback has said that the transport shall not be opened
again becomes a session in an idle transport, which nobody polls.

What other constants show: `connector_sm_cancel_session` compares `*request_id`
with a copy of itself (`connector_sm_session.h:164`), so the newest session is
cancelled whichever id is given (the doc,
`src/doxygen/shortmessaging.c:1137`, speaks of the id); cancelling while a datagram
is held by a busy network frees its owner; a datagram received twice
(`Duplicates`) meets the buffer of the first; a request in several segments that
expires while its reply is under way uses the freed session; a start during a
close, or a stop during an open that succeeds later, is forgotten; a status
callback that answers busy is told twice; a callback error while a stop waits
makes the stop restart or never end; an answer that comes after its session is gone opens a new
session with the same id, which takes the segments of a request of Device Cloud
with that id (the instances keep the ids apart).

They also show (one request in two segments, `Requests` empty, `NeedResponse` and `Timed`
holding the request, `NoFault`) what happens when a request of Device Cloud needs a response
and expires with one segment of two. `sm_handle_error` goes to `send_data` without
`sm_prepare_segment`: the count is that of the request, the error response does not
complete the session, and the next poll fails the assertion of `connector_sm_send.h:585`.
Segments that arrive after the first packet are counted together with the packets sent:
with four of them (`Segments`) the rest of the request passes for a whole message, and
`DeliveredInOrder` fails as well; the two of sm_service are too few for that, and
its request of Device Cloud needs no response.

Left out: SMS (the same sessions with another transport and encoding), encryption,
compression, the CLI, configuration and reboot commands, which are other answers
of the same states.

### EdpConnection

The TCP transport of `connector_step`: `edp` is the state of the handshake,
`active` that of the transport and `initiate` the slot in which the
application's start, stop and terminate meet, `status` the close status, `cc` the
connection control facility with its redirect report; `open`, `via` and `sent` are
history (is there a network, why was it made, what was sent on it). A step is
`StepBegin`, the rounds of the loop of `connector_edp_step` (one action per state:
open, each message of the handshake, discovery, facilities, open, redirect, close,
wait for reconnect, with the busy, error and abort answers of their callbacks), the look at the
slot and the report. The application calls `connector_initiate_action` between
any two of them (`LateCalls`); what such a call may coincide with beyond that is
`Overlaps`.

Findings. In edp_stopped the stop falls between the network open callback and the
first packet: `CheckStop` closes while the state is still
`edp_configuration_init`, in which `tcp_close_cloud` (line 53) believes that
nothing was opened: the stop is told, the network stays open, and after a
terminate nobody ever closes it. With `Overlaps`, "start_closing" and
"stop_redirect" violate `NoFault` (open while connected, nothing to send);
"stop_callback" violates `EndIsFinal` (a terminate is overwritten when the stop callback
was busy), as does "after_abort" (a call after a callback aborted). "abort" in
`ConfigAnswers` violates `NetworkMatchesState` (the open network is opened again).
Less serious: a device with manual connect reopens at once when its network open
callback failed; a graceful stop waits for ever if the network is never idle; a
stop is refused while waiting to reconnect; an answer "bad password" leaves the
received packet in its buffer.

Fairness: the application calls the step (WF `Step`); a callback that may continue
does so again and again (SF of rounds whose callback is not busy, of a received
packet, of the stop callback); Device Cloud answers the handshake; refusals,
redirects and disconnections are bounded by `MaxTroubles` and `MaxRedirects`,
since a cloud that refuses for ever keeps the device trying for ever. `CallsEnd` and
`Connects` follow.

Left out: `get_system_time` failing, keepalive counters, packets byte by byte,
rebooting.

### FileSystem

One file session of the messaging facility: `FileSystem` has the context
(`fs_context_t`: command, handle, flags, offset, `bytes_done`, errors), the packet
in the receive buffer (`cuts` says where the packets of a put end in its payload),
the application's file and handles, and what Device Cloud was told. A call of the
service runs from callback to callback; `pc` names the next one and is `idle`
between calls. Session actions are `PutRequest`, `GetRequest`, `RmRequest` and
`LsRequest` (data arrives), `NoDataResponse`, `GetResponse`, `LsResponse` (data is
asked for), `CloudError` and `Lose` (the connection ends, also after a callback
aborted). Callbacks may answer busy at any point, after which the whole call is
repeated from its start, as in the code.

`Retries` names the repetitions that do not work and are left out of run fs:
`cut_write` (finding fs_put: the header of the first packet is parsed again and
`ftruncate` cuts off what was written before), `truncate` (a busy `ftruncate`
writes the packet again), `seek_set` (the offset is set back), `close_cancelled`
(an assertion fails), `close_lost` (the file stays open). A long path in a get or
ls (`fs_error_path_too_long` is the 0 of a union) also breaks the order of
callbacks. The documentation forbids busy for `get_error` and `session_error`.

Fairness: requests, responses, repetition and the cleanup are weakly fair,
callbacks that answer something other than busy strongly.

Left out: the choice of a hash algorithm, lengths of paths, memory for the
context, offsets past 2^31, callbacks that answer out of range.

### Firmware

The firmware facility on one connection after the other. A packet stays in the
receive buffer and `fw_process` is called again until callback and answer are done;
its order is kept: keepalive, resend of an answer that found the send packet busy, abort
callback, packet. All answers share `response_buffer`, to which the send packet
points. `app` is the download as the application sees it, `fault` what it or an
assertion would object to, and `hurried` says that Device Cloud sent a packet
before it had the answer to the last one.

What other constants show: with `InfoAnytime` an information request for another
target, answered during a download, redirects the blocks to that target
(`connector_firmware.h:337` writes `target_info.target_number`, which every later
callback is given; `src/doxygen/firmware_download.c:421` promises the target whose
download is aborted); "complete" in `AbortIn` sends an abort and goes on, where
the documentation says that Cloud Connector exits; "abort" in `BusyIn` fails the assertion of the cleanup
(`layer.h:120`). A download request that is too short is answered "user abort" of
the union's wrong member.

Fairness: the step, the resend, the network and the close are weakly fair; callbacks answering
other than busy are strongly fair.

Left out: parsing of firmware ids and version numbers, target counts and abort
codes out of range, `rci_fwstub.h`, `get_system_time` failing.

### StreamingCli

The streaming CLI service over the transactions of the messaging facility. `cli`
and `ring` are `streaming_cli_session_t` and the circular list, `trx` what the
service sees of `msg_session_t` (its state, `service_context`, and the flags for
start, last and no reply), `errorBuf` the one error buffer. `app` is what the
application was told and given, `conv`, `sent` and `open` what Device Cloud
believes. A round is: a packet (`streaming_cli_service_request_callback`), the
poll of the CLI sessions (`streaming_cli_service_poll_sessions`), the poll of a
transaction (`streaming_cli_service_response_callback`); each callback is a
position of its own, so that what the code does before it and after it can be
told apart. Windows, acknowledgements and the order in which transactions are
polled are those of `MsgFacility`: here any transaction may be the next one.

A CLI session points to the transaction that receives and to the one that sends,
and they point back; every handler moves one of these pointers.
`SessionsAccounted` says that they match, `NobodyStranded` that every session
that is not idle has a transaction which takes it further and that the error
buffer does not wait for a packet that cannot be received, `AppAgrees` that the
application has been told what the service believes, `DataKept` that what it was
given and what is under way is what Device Cloud sent.

`Troubles` names what run cli leaves out. Each of them, allowed alone, violates a
property:

| Trouble | What happens | Violates |
|---|---|---|
| busy_start | `session_start` busy: the assertion of line 606 fails when the packet is offered again | `SessionsAccounted` |
| partial_last | the last packet of several is taken in parts, or not at once: the rest is discarded as data of a cancelled session | `DataKept` |
| store | the store callback is busy (line 428 answers working), or takes a first packet in parts (its header is skipped again): data of the command is lost or repeated | `DataKept` |
| overlap | two data transactions of one session at once: the session keeps a pointer to the first one, which ends | `SessionsAccounted`, `DataKept` |
| exec_id | the session id of a command is not initialised, and data or a start may find it | `AppAgrees` |
| exec_sent | the connection is lost while the last packet of a command's answer is out: its transaction still points to the freed session | `SessionsAccounted` |
| busy_execute | the end callback is busy after a command's last output: the execute callback is made again | `AppAgrees` |
| restart_lost | the connection is lost before a restart is complete: the session is removed through a pointer to a freed transaction | `SessionsAccounted` |
| busy_lost | the end callback is busy during the cleanup, which does not ask again: the same | `SessionsAccounted` |
| error_answered | Device Cloud gives up a refused command: the error buffer belongs to a freed transaction, later errors wait for ever | `SessionsAccounted` |
| no_block | no memory for the transaction that closes a session: line 1136 does not look at the result, the session is never closed | `NobodyStranded` |
| two_refused | a second request is refused while a refused command is not complete: its packet waits for the error buffer, and the command's next packet for the receive buffer | `NobodyStranded` |

Not expressed there: a busy poll callback, or a limit of transactions that is
reached in `streaming_cli_service_create_transaction`, ends the round of the
messaging facility before any transaction is polled (`connector_msg.h:1894-1896`), also
those that would end; and `info.execute.status` is a `uint8_t` in a union with
`active_recv_transaction`, so that the status -13 of a timeout, over several
packets, is read back as 243.

Left out: texts and close reasons, terminal modes and read-only sessions,
`STREAMING_CLI_MAX_TRANSACTION_BYTES`, invalid opcodes.

### MC modules and proof modules

`MC*` are the instances for TLC; `*Proofs` extend a module with its theorems.

## Runs

| Run | Shows | Bounds |
|---|---|---|
| window | MsgWindow: window respected, stream intact, a waiting sender is answered, the transfer ends | window 6, packets of 1 to 3 bytes, messages up to 24 bytes: four windows, so each acknowledgement is awaited several times |
| errors | errors of Device Cloud and of callbacks, busy allocations and status callbacks, keepalives, connections that break, requests sent again, ids that wrap, termination: the send buffer is accounted for, errors name their session, ids are unique, nobody is forgotten or told twice | two put requests of one packet, a device request of two; two sessions in memory, ids wrap at 2 |
| progress | two put requests and a device request, every callback may be busy and the connection may break: sessions accounted for, nothing freed is used, no packet dropped, `RequestsEnd`, the refinement of PutService | three sessions, window of 3, three packets to the device, two from it |
| freed | finding: an error of Device Cloud deletes a session whose packet is in the send slot; `msg_send_complete` then reads freed memory | as small as the finding allows |
| sm_service | short messages in both directions, lost and reordered, timeouts, failures of memory and network: nothing freed is used, segments come in order, everything is accounted for, requests and stops end | one request each way, two segments each |
| sm_calls | cancel, stop and terminate at any time while open and close fail: nobody forgotten, stop is final, the refinement of ShortService | two requests of the application |
| edp | the connection with every callback busy, failing and aborting and calls at any time: handshake order, network as the state says, ends final, calls end, the device connects | one trouble, one redirect, two calls |
| edp_stopped | finding: a stop that leaves the network open | as small as the finding allows |
| fs | one file session with every command: order of callbacks, files closed, replies true, requests end | a file and a buffer of 3 bytes, puts of one and two packets at four offsets, gets of 0, 1 and 3 bytes, 3 directory entries |
| fs_put | finding: a busy write in a put that truncates | a single put |
| cli | streaming CLI sessions and commands, restarts, losses, requests given up, busy callbacks, no memory: sessions and transactions match, application and service agree, no data lost, nobody stranded | two sessions, one of them with an id, three requests of one or two packets, six transactions, one loss |
| fw | firmware packets in any order: agreement, answers kept, no packet for ever | two targets, four packets, two connections |

Three sessions are enough for a polled session, its neighbour and one that ends
between them; the list operations treat all others as one of these. Ids wrap at
2 or 3 instead of 65534, so that wrapping happens; two or three packets per
message give a first, a middle and a last one. `MaxInbound` and the like bound
the packets under way to the device: the facility looks at one at a time. Two
connections show what the first leaves behind. Deadlock is checked except where a
fault or a termination ends the connector.

Run cli is about safety only: that a busy callback or a transaction's turn comes again
is a matter of the facility below it. What liveness it has is `NobodyStranded`, which
leaves no session without a next step.

Fairness of `MsgWindow` (`MCFairSpec`, run window): `connector_step` runs the send and
the receive half again and again and the user answers when asked for data, hence weak
fairness of each action.

Fairness of `MsgFacility` (`FairSpec`): the application calls
`connector_step` again and again (weak fairness of a step). The network takes and
brings packets again and again and a callback that may continue does so again and
again: strong fairness, because a send step may also find the network busy and a
callback may also be busy. Device Cloud is strongly fair as well, since the bound
on `inbound` lets one conversation take the room of another. `RequestsEnd` does not
hold with an unbounded stream of device requests and a network that takes each
packet at the worst moment: new sessions take the turn in step with the buffer.
Run progress therefore bounds the device requests.

## Proofs

**MsgWindowProofs**, for every window, packet size and `size_t` with
`SizesAssumption` and `TwoPacketsFit`: the type invariant, `WindowRespected`,
`StreamIntact`, `WaitIsAnswered`, and two facts TLC is not asked for:
`OneAckInFlight` and `AckNeverRetreats`. None but the first is inductive. The
invariant `IInv` adds

* `AckInv`: what the receiver acknowledged, an acknowledgement under way and what
  the sender knows of are ordered, and there is at most one of them;
* `RuleInv`: the two rules, as relations between the counters: a sender that
  waits has more than window minus packet under way, one that does not has at
  most that; a receiver that is not about to acknowledge has at most half a
  window unacknowledged;
* `DataInv`: the packets under way cover the stream from what was taken to what
  was sent.

The heart is that two acknowledgements would need more than half a window each
while the first keeps the sender below window minus packet: with two packets in
the window the second cannot become due before the first arrived. Sequences need
the lemmas on `Append`, `Head` and `Tail` at the head of the module. The theorems
are about `Spec`, in which messages are unbounded; the run uses the same actions
with bounded messages.

**MsgFacilityProofs** proves the type invariant, `BufferAccounted`,
`SessionsAccounted`, `IdsUnique` and `ErrorsNameTheirSession`, for any constants.
For the buffer, every action treats it in one of four ways: it keeps it, fills it
(data, acknowledgement, error, keepalive), releases it, or leaves its packet
without a session because that session is freed (`Orphaned`); one lemma per part
of `Next` says which, and the invariant knows the fields of the slot
(`SlotFilled`). For the sessions, every action changes one session, adds one or
deletes one, and a lemma about each of these carries the whole invariant `TypeInv`
(what the list of sessions is built with, `RemoveAt`, `SubSeq` and `Min`, is in
**ListLemmas**, which the proofs about `ShortMessage` and `StreamingCli` use as well):

* `ListInv`: the list holds each session in memory once and the turn is that of
  one of them; `CountInv`: the transaction counts are the cardinalities of the
  sessions of each side;
* `KeyInv`: ids are unique (`msg_find_next_available_id` looks at all sessions), and
  a device request has the id of its conversation;
* `SlotInv`, `PacketInv` and `QueueInv`: types of the slot, of the packets under
  way and of the queue. `Proper` sessions are those whose error names its session.

It also proves what the service promises its users.

* `ToldOnce`, for any constants. `RequestInv` says that a request whose owner was
  told nothing is queued or has exactly one session, whose context says which
  callback is next; a session after its status callback bears no request.
* `NobodyForgotten` when only the application or only the data points service
  sends requests (`OneSource`): the cleanup at termination empties one of the two
  queue entries, so that with both a request is forgotten.
* `ServiceSpec`, the refinement of `PutService`: each action is a step of it or
  leaves it alone. What a sender is told last must be true, so `TalkInv` follows a
  conversation through the packets: what is being sent belongs to the session that
  waits for it (`SlotTalk`), of a response there is one packet at most
  (`PacketTalk`), and where one can still come a session waits for it
  (`ExpectTalk`). It needs
  `~CloudErrors`: Device Cloud that gives up a request and nevertheless answers it
  later answers the next request with that id, and the sender of this one is told
  "complete" (TLC finds that with `CloudErrors` and `MaxId` = 1).
* `NoFault` when Device Cloud gives up nothing (run freed shows the fault if it
  does) and there is memory for the contexts of messages (`ContextMemory`;
  otherwise the failure is reported through the NULL context). `ContextInv` says
  which contexts the callbacks may meet.
* `NothingDropped` when the user cancels no message (`"error" \notin SendAnswers`):
  `msg_process` lets the error of the session it polled overrule the status of the packet
  that is held, and TLC finds the packet released then. The counts alone are not inductive,
  so `FlowInv` says what the packets under way are; between two connections (`ClosedFlow`)
  there are none. On an open stream (`OpenFlow`) they are `Stream`: the held packet, then the
  inbound ones. `CloudFlow`: what Device Cloud sent to a session is what the session took and
  what the stream still carries, and a start is the first of it, with nothing taken before.
  `ClientFlow`: at most one packet ends the conversation of a put request, and its session
  waits for it. `SlotFlow`: what is being sent is the last its session filled.
  `FlowStays`, `FlowTakes`, `FlowAdds`, `FlowOne` and `FlowSends` carry it over what a step
  does to the streams; **ListLemmas** has the lemmas that count the packets of a list
  (`HowMany`, `NoneBefore`).

**ShortMessageProofs** proves the type invariant for any constants;
`SessionsAccounted` when the transport is not started again (`sm_initialize`
forgets the sessions there are, which are then never freed) and a freed session can
be read (`FreedIntact`: `sm_state_machine` reads `session->next` after
`sm_delete_session` may have freed the session; if that memory is gone, the turn is
anywhere); `StopFinal` when, after a stop, no callback fails and nobody starts the
transport again. A step treats the sessions in one of five ways (`Treated`): it
revises some, adds one, removes one, cuts the first ones off the list (a cancel or a
close whose status callbacks were busy from some session on) or forgets them all.
The lemma `TreatedKeeps` carries the list, the counts and the memory over each, and
one lemma per handler says which it is and that the turn stays in the list
(`Proceeds`). `NetInv` and `ControlInv` are the types of the packet buffer, the
datagrams and the user's side; `StopInv` adds that a stopped transport is not marked
as failed and that the open callback never runs in an idle one.

**EdpConnectionProofs** proves the type invariant, for any constants;
`EndIsFinal` when no call overlaps with another thread's callback (`NoOverlap`);
`NetworkMatchesState` when no callback aborts during configuration (`"abort"
\notin ConfigAnswers`); `NoFault` and `HandshakeInOrder` when `Overlaps` is empty.
Each assumption is needed: the constant it excludes gives TLC a counterexample
(see above; a start during a slow close resumes the discovery half way on the
next connection). `EndInv` relates the slot to the active state, `NetworkInv` the
EDP state to the close status, `FaultInv` with `CcInv` and `SlotInv` what is
waiting in the handshake to the state that would send it. For the order of the
handshake, `SentInv` says that what was sent is the beginning of the handshake
with or without provisioning, `PlaceInv` that the state of the connection gives
its length (`Place`), `ReportInv` that the redirect report that waits is the one
for the way this connection was made.

**FileSystemProofs** proves `CallbacksInOrder` and `ClosedWhenDone` for every
file, request and buffer size when the session is `Disciplined` (close not busy
in a session that ends, `session_error` not busy, only puts have several packets,
no long path is listed or read). `HandleInv` says where in a call which handle is
open, `NextInv` and `CallInv` what the next callback may find, `ReadyInv` what
holds between calls.

It also proves `ReplyIsTrue`, for every way of cutting a transfer into packets and
calls, when in addition no callback is busy at one of the moments `cut_write`, `truncate`
and `seek_set` (each of them breaks the property; run fs_put shows one). `DataInv` says what is
in the file and in the response between any two callbacks: `PutData` which bytes of the
payload the file holds, by the state of the context and the `pc` (`Done` counts
them from `bytes_done` or from what is left of the packet), `GetData` which bytes
are in the response and where the file position is, `LsData` which entries are
listed. These hold only while nothing went wrong, so `ErrorInv` says that a failure
is noted in the context and `WorkInv` that a context in which it is noted asks for no
callback that moves data; `SentInv` keeps the result once it is told. The steps need the
invariant of the callbacks, which excludes most combinations of state and `pc`.

**FirmwareProofs** proves the type invariant and `AnswerKept` for any constants,
and `DownloadAgreed` when information about other targets is asked for only
between downloads, abort is never busy and complete never aborts. `AnswerInv`
says that an answer in the slot belongs to the packet that still occupies the
receive buffer unless Device Cloud hurried, `DownloadInv` that facility and
application have the same target in the same stage.

**StreamingCliProofs** proves `SessionsAccounted`, `NobodyStranded` and `AppAgrees` for
any number of sessions, transactions, ids, requests and losses and any callbacks that are
busy, under `Disciplined`: none of the `Troubles` (each of them violates a property, see
above), and a start is one packet (of a longer one the session sends only after the last
packet, which `NobodyStranded` does not describe). No property is inductive: whether a
pointer is good depends on the states of the session and of the transaction at its two
ends, on the callback that is made, on the packet that is looked at and on those to come.
The invariant `Inv` has a part for each of these:

* `PacketInv`: of each transaction, what is under way and what is left to send are its last
  packets, in order (`RestInv`, `OrderInv`, `ComingInv`); a transaction receives exactly
  as long as packets of it are to come (`WaitInv`); a request is sent after those it
  clashes with (`TurnInv`). `HeldInv` says the same of the packet in the receive buffer;
* `LinkInv`: what each pointer means. The transaction a session receives with receives and
  carries it (`RecvOk`), the one it sends with carries it unless a restart has the start
  packet offered again (`SendOk`), a transaction that carries a session is known to it
  (`CtxOk`), a command has one transaction (`ExecOk`), and the state of a session says
  which of the pointers take it further (`StateOk`);
* `StreamInv`: the packets due for a transaction are for the session that it carries, and
  the answer in the error buffer is to be sent or belongs to a command that is not yet
  whole; this and `TurnInv` give the second half of `NobodyStranded`: if that command still
  came, the packet that waits for the buffer would not have been sent;
* `PcInv`: what the callback that is made may rely on; `TrxInv`, `RingInv`, `DownInv`: the
  fields of a transaction, the list, a connection that is lost.

A step touches one session, its transactions and perhaps one more (`Elsewhere`), and
`SessionStep` carries `LinkInv` over it from what is shown about these alone.
`HandledStepKeeps`, `SendingStepKeeps`, `LooseStepKeeps` and `CutStep` specialise it to the
handlers of a packet, to what a session sends, to transactions without a session and to a
session that lets go of its transactions; one lemma per action says which it is.

Only model-checked: liveness (out of the prover's reach), the refinement of
`ShortService` and the other invariants of `ShortMessage` (`NobodyForgotten`,
`DeliveredInOrder`, `NoFault`: they do not hold for every value of the constants, as a
request that expires with some of its segments shows, and none is inductive without what was
said and sent before), `NothingDropped` of `MsgFacility` where the user cancels messages
(it fails there), and `DataKept` of `StreamingCli` (a concatenation over the packets under
way, which needs induction over that list).

## Not modelled

* Data points: only as senders of internal put requests in `MsgFacility`. Their
  own state is a list of requests and generators of text.
* RCI: a parser and a generator coupled by their states; most of the code is the
  format.
* Static buffers: the allocator of `CONNECTOR_NO_MALLOC`, a bitmap.
* Platform ports, samples and tests: read as documentation of the callbacks. They
  are the larger part of the repository, as are the header tables generated from
  configuration files.
* The configuration generator, a Java tool that runs before compilation.

## Plan

1. Data points on top of put requests; liveness of `StreamingCli`, with the order in
   which `MsgFacility` polls.
2. Proofs about what the users of `ShortMessage` are told.
3. `MsgFacility` composed with `EdpConnection` through its `Disconnect`, `Reopen`
   and `Terminate`.
4. Double-buffered RCI sessions, compression, capability exchange as variants of
   `MsgFacility`.
