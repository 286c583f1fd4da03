------------------------------ MODULE MsgWindow ------------------------------
(***************************************************************************)
(* Flow control of one transfer of the messaging facility.                 *)
(*                                                                         *)
(* private/connector_msg.h holds both halves: a session that sends data    *)
(* counts bytes in out_dblock and stops at the window the peer announced;  *)
(* a session that receives counts bytes in in_dblock and acknowledges them *)
(* when more than half of the window it announced is unacknowledged.  Here *)
(* the two halves run against each other over two FIFO channels (the TCP   *)
(* stream).  Towards the device the sending half is Device Cloud, which is *)
(* taken to follow the same rule.                                          *)
(*                                                                         *)
(* A data packet is the interval <<from, to>> of the stream it carries, so *)
(* that loss, duplication and reordering would show.                       *)
(***************************************************************************)
EXTENDS Naturals, Sequences

CONSTANTS
    Window,     \* window_size the receiver announces (MSG_RECV_WINDOW_SIZE)
    PacketSize, \* MSG_MAX_SEND_PACKET_SIZE: the most one packet may carry
    SizeLimit   \* size_t wraps at SizeLimit

\* Positive sizes that fit in a size_t; the window exceeds one packet, which is
\* all that the #if of connector_edp_def.h demands.
ASSUME SizesAssumption ==
    /\ Window \in Nat
    /\ PacketSize \in Nat \ {0}
    /\ SizeLimit \in Nat
    /\ PacketSize < Window
    /\ Window < SizeLimit

\* What the two rules below need from the sizes; connector_edp_def.h does not
\* ensure it.
TwoPacketsFit == 2 * PacketSize <= Window

VARIABLES
    out,      \* the sending half: out_dblock and the state that goes with it
    in,       \* the receiving half: in_dblock
    data,     \* FIFO of data packets
    acks      \* FIFO of ack packets

vars == <<out, in, data, acks>>

\* msg_data_block_t of the sender: total_bytes, ack_count, available_window,
\* MSG_FLAG_ACK_PENDING and MSG_FLAG_LAST_DATA.
OutBlock ==
    [total: Nat, acked: Nat, window: Nat, ackPending: BOOLEAN, last: BOOLEAN]

\* msg_data_block_t of the receiver; "send_ack" is msg_state_send_ack and
\* "done" the end of the request or response.
InBlock ==
    [total: Nat, acked: Nat, state: {"receive", "send_ack", "done"}]

DataPacket == [from: Nat, to: Nat, last: BOOLEAN]
AckPacket  == [count: Nat, window: Nat]

TypeOK ==
    /\ out \in OutBlock
    /\ in \in InBlock
    /\ data \in Seq(DataPacket)
    /\ acks \in Seq(AckPacket)

\* Subtraction of two size_t values.
Minus(a, b) == IF b <= a THEN a - b ELSE (SizeLimit + a) - b

\* Mutant: no room is kept for the next packet.
WindowFullLate(total, acked, window) == Minus(total, acked) > window

\* The sender stops once a further full packet might not fit.
WindowFull(total, acked, window) ==
    Minus(total, acked) > Minus(window, PacketSize)

\* Mutant: only a full window is acknowledged.
AckAtWindow(total, acked) == Minus(total, acked) > Window

\* The receiver acknowledges once more than half the window is unacknowledged.
AckDue(total, acked) == Minus(total, acked) > Window \div 2

\* msg_default_data_block on both sides.
Init ==
    /\ out = [total |-> 0, acked |-> 0, window |-> Window,
              ackPending |-> FALSE, last |-> FALSE]
    /\ in = [total |-> 0, acked |-> 0, state |-> "receive"]
    /\ data = << >>
    /\ acks = << >>

\* msg_get_service_data, msg_process_send_data: the service layer filled len
\* bytes and said whether they are the last.
SendData(len, last) ==
    /\ ~out.ackPending
    /\ ~out.last
    /\ out' = [out EXCEPT
                 !.total = @ + len,
                 !.last = last,
                 !.ackPending =
                     WindowFull(out.total + len, out.acked, out.window)]
    /\ data' = Append(data, [from |-> out.total, to |-> out.total + len,
                             last |-> last])
    /\ UNCHANGED <<in, acks>>

\* Mutant: the packet that makes an acknowledgement due is offered again.
ReceiveDataAgain ==
    /\ data # << >>
    /\ in.state = "receive"
    /\ LET packet == Head(data)
           total  == in.total + (packet.to - packet.from)
       IN  /\ in' = IF packet.last
                    THEN [in EXCEPT !.state = "done"]
                    ELSE [in EXCEPT !.total = total,
                                    !.state = IF AckDue(total, in.acked)
                                              THEN "send_ack" ELSE "receive"]
           /\ data' = IF in'.state = "send_ack" THEN data ELSE Tail(data)
    /\ UNCHANGED <<out, acks>>

\* msg_process_data, msg_pass_service_data: the service layer took the packet.
ReceiveData ==
    /\ data # << >>
    /\ in.state = "receive"
    /\ LET packet == Head(data)
           total  == in.total + (packet.to - packet.from)
       IN  in' = IF packet.last
                 THEN [in EXCEPT !.state = "done"]
                 ELSE [in EXCEPT !.total = total,
                                 !.state = IF AckDue(total, in.acked)
                                           THEN "send_ack" ELSE "receive"]
    /\ data' = Tail(data)
    /\ UNCHANGED <<out, acks>>

\* msg_send_ack.
SendAck ==
    /\ in.state = "send_ack"
    /\ acks' = Append(acks, [count |-> in.total, window |-> Window])
    /\ in' = [in EXCEPT !.acked = in.total, !.state = "receive"]
    /\ UNCHANGED <<out, data>>

\* Mutant: the sender is not let go.
ReceiveAckWaits ==
    /\ acks # << >>
    /\ LET ack == Head(acks)
       IN  out' = [out EXCEPT !.window = ack.window, !.acked = ack.count]
    /\ acks' = Tail(acks)
    /\ UNCHANGED <<in, data>>

\* msg_process_ack.
ReceiveAck ==
    /\ acks # << >>
    /\ LET ack == Head(acks)
       IN  out' = [out EXCEPT
                     !.window = ack.window,
                     !.acked = ack.count,
                     !.ackPending = IF ack.window > 0 THEN FALSE ELSE @]
    /\ acks' = Tail(acks)
    /\ UNCHANGED <<in, data>>

Next ==
    \/ \E len \in 1 .. PacketSize, last \in BOOLEAN : SendData(len, last)
    \/ ReceiveData
    \/ SendAck
    \/ ReceiveAck

Spec == Init /\ [][Next]_vars

-----------------------------------------------------------------------------
\* What the receiver must have room for never exceeds the window it announced:
\* bytes sent and not covered by an acknowledgement it has issued.
WindowRespected == out.total - in.acked <= Window

\* Never two acknowledgements under way: the second could only be due after
\* more than a window of data beyond the first (connector_msg.h, the rule in
\* msg_pass_service_data against the one in msg_process_send_data).
OneAckInFlight == Len(acks) <= 1

\* The packets on the wire are exactly the part of the stream between what the
\* receiver has taken and what the sender has sent, in order.
StreamIntact ==
    \A i \in 1 .. Len(data) :
        /\ data[i].from < data[i].to
        /\ data[i].from = IF i = 1 THEN in.total ELSE data[i - 1].to
        /\ i = Len(data) => data[i].to = out.total

\* The sender waits for an acknowledgement only when one is on its way or
\* will become due: bytes under way plus bytes taken exceed half the window.
WaitIsAnswered ==
    out.ackPending /\ ~out.last
        => \/ acks # << >>
           \/ in.state = "send_ack"
           \/ AckDue(out.total, in.acked)

\* An acknowledgement never takes back what an earlier one granted.
AckNeverRetreats == [][out'.acked >= out.acked]_vars

\* Every transfer ends: window and acknowledgement rule never block each other.
TransferCompletes == <>(in.state = "done")
=============================================================================
