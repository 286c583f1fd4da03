-------------------------- MODULE MsgWindowProofs --------------------------
(***************************************************************************)
(* MsgWindow for every length of stream and every window that holds two    *)
(* packets: the window is respected, the acknowledgement the sender waits  *)
(* for comes, and the stream stays in order.                               *)
(***************************************************************************)
EXTENDS MsgWindow, SequenceTheorems, TLAPS

\* What the sender knows is what the receiver said, up to the ack under way.
AckInv ==
    /\ out.window = Window
    /\ \A i \in 1 .. Len(acks) : acks[i].window = Window
    /\ OneAckInFlight
    /\ out.acked <= in.acked
    /\ in.acked <= in.total
    /\ in.total <= out.total
    /\ acks = << >> => in.acked = out.acked
    /\ acks # << >> => /\ acks[1].count = in.acked
                       /\ in.acked > out.acked + Window \div 2

\* The sender stops in time; the receiver acknowledges in time.
RuleInv ==
    /\ out.total <= out.acked + Window
    /\ ~out.ackPending /\ ~out.last => out.total + PacketSize <= out.acked + Window
    /\ out.ackPending => out.total + PacketSize > out.acked + Window
    /\ in.state = "send_ack" => in.total > in.acked + Window \div 2

\* The packets under way tile the stream between the two counters.
DataInv ==
    /\ StreamIntact
    /\ \A i \in 1 .. Len(data) : data[i].to <= out.total
    /\ \A i \in 1 .. Len(data) : data[i].last => i = Len(data) /\ out.last
    /\ in.state = "done" => data = << >> /\ out.last
    /\ in.state # "done" /\ data = << >> => in.total = out.total

IInv == TwoPacketsFit /\ TypeOK /\ AckInv /\ RuleInv /\ DataInv

-----------------------------------------------------------------------------
\* The code's size_t comparisons are plain arithmetic as long as the counters
\* are in order.
LEMMA MinusExact ==
    ASSUME NEW a \in Nat, NEW b \in Nat, b <= a
    PROVE  Minus(a, b) = a - b
BY DEF Minus

LEMMA HalfWindow ==
    /\ Window \div 2 \in Nat
    /\ 2 * (Window \div 2) <= Window
    /\ Window < 2 * (Window \div 2) + 2
    /\ TwoPacketsFit => PacketSize <= Window \div 2
BY SizesAssumption DEF TwoPacketsFit

LEMMA WindowFullMeans ==
    ASSUME NEW total \in Nat, NEW acked \in Nat, acked <= total
    PROVE  WindowFull(total, acked, Window)
               <=> total + PacketSize > acked + Window
<1>1. Minus(total, acked) = total - acked
  BY MinusExact
<1>2. Minus(Window, PacketSize) = Window - PacketSize
  BY MinusExact, SizesAssumption
<1> QED
  BY <1>1, <1>2, SizesAssumption DEF WindowFull

LEMMA AckDueMeans ==
    ASSUME NEW total \in Nat, NEW acked \in Nat, acked <= total
    PROVE  AckDue(total, acked) <=> total > acked + Window \div 2
<1>1. Minus(total, acked) = total - acked
  BY MinusExact
<1> QED
  BY <1>1, HalfWindow DEF AckDue

LEMMA OutBlockUpdate ==
    ASSUME out \in OutBlock, NEW total \in Nat, NEW last \in BOOLEAN,
           NEW pending \in BOOLEAN
    PROVE  [out EXCEPT !.total = total, !.last = last,
                       !.ackPending = pending] \in OutBlock
BY DEF OutBlock

LEMMA InitIInv == TwoPacketsFit /\ Init => IInv
<1> SUFFICES ASSUME TwoPacketsFit, Init PROVE IInv
  OBVIOUS
<1> USE DEF Init
<1>1. TypeOK
  BY SizesAssumption DEF TypeOK, OutBlock, InBlock
<1>2. AckInv
  BY DEF AckInv, OneAckInFlight
<1>3. RuleInv
  BY HalfWindow, SizesAssumption DEF RuleInv, TwoPacketsFit
<1>4. DataInv
  BY DEF DataInv, StreamIntact
<1> QED
  BY <1>1, <1>2, <1>3, <1>4 DEF IInv

-----------------------------------------------------------------------------
LEMMA SendDataStep ==
    ASSUME IInv, NEW len \in 1 .. PacketSize, NEW last \in BOOLEAN,
           SendData(len, last)
    PROVE  IInv'
<1> DEFINE packet == [from |-> out.total, to |-> out.total + len,
                      last |-> last]
<1>0. /\ out \in OutBlock /\ in \in InBlock
      /\ data \in Seq(DataPacket) /\ acks \in Seq(AckPacket)
      /\ len \in Nat /\ len > 0 /\ len <= PacketSize
      /\ PacketSize \in Nat /\ Window \in Nat
  BY SizesAssumption DEF IInv, TypeOK
<1>1. /\ out'.total = out.total + len
      /\ out'.acked = out.acked
      /\ out'.window = out.window
      /\ out'.last = last
      /\ out'.ackPending =
            WindowFull(out.total + len, out.acked, out.window)
      /\ ~out.ackPending /\ ~out.last
      /\ in' = in /\ acks' = acks
      /\ data' = Append(data, packet)
  BY <1>0 DEF SendData, OutBlock
<1>2. packet \in DataPacket
  BY <1>0 DEF DataPacket, OutBlock
<1>3. TypeOK'
  <2>1. WindowFull(out.total + len, out.acked, out.window) \in BOOLEAN
    BY DEF WindowFull
  <2>2. out' \in OutBlock
    <3>1. out.total + len \in Nat
      BY <1>0 DEF OutBlock
    <3>2. out' = [out EXCEPT !.total = out.total + len, !.last = last,
                     !.ackPending =
                        WindowFull(out.total + len, out.acked, out.window)]
      BY DEF SendData
    <3> QED
      BY <1>0, <2>1, <3>1, <3>2, OutBlockUpdate
  <2>3. data' \in Seq(DataPacket)
    BY <1>0, <1>1, <1>2
  <2> QED
    BY <1>0, <1>1, <2>2, <2>3 DEF TypeOK
<1>4. AckInv'
  BY <1>0, <1>1 DEF IInv, AckInv, OneAckInFlight, OutBlock, InBlock
<1>5. RuleInv'
  <2>1. out'.ackPending
           <=> out.total + len + PacketSize > out.acked + Window
    <3>1. /\ out.total + len \in Nat /\ out.acked \in Nat
          /\ out.acked <= out.total + len
          /\ out.window = Window
      BY <1>0 DEF IInv, AckInv, OutBlock, InBlock
    <3> QED
      BY <1>1, <3>1, WindowFullMeans
  <2> QED
    BY SMTT(30), <1>0, <1>1, <2>1 DEF IInv, RuleInv, OutBlock, InBlock
<1>6. DataInv'
  <2> DEFINE n == Len(data)
  <2>1. /\ n \in Nat
        /\ Len(data') = n + 1
        /\ data'[n + 1] = packet
        /\ \A i \in 1 .. n : data'[i] = data[i] /\ data[i] \in DataPacket
    BY <1>0, <1>1
  <2>2. StreamIntact'
    <3> SUFFICES ASSUME NEW i \in 1 .. (n + 1)
                 PROVE  /\ data'[i].from < data'[i].to
                        /\ data'[i].from =
                              IF i = 1 THEN in.total ELSE data'[i - 1].to
                        /\ i = n + 1 => data'[i].to = out'.total
      BY <1>1, <2>1 DEF StreamIntact
    <3>1. CASE i \in 1 .. n
      <4>1. data'[i] = data[i] /\ (i # 1 => data'[i - 1] = data[i - 1])
        BY <2>1, <3>1
      <4> QED
        BY <2>1, <3>1, <4>1 DEF IInv, DataInv, StreamIntact
    <3>2. CASE i = n + 1
      <4>1. data'[i] = packet /\ (n # 0 => data'[i - 1] = data[n])
        BY <2>1, <3>2
      <4>2. n = 0 => in.total = out.total
        BY <1>0, <1>1 DEF IInv, DataInv
      <4>3. n # 0 => data[n].to = out.total
        BY <2>1 DEF IInv, DataInv, StreamIntact
      <4> QED
        BY <1>0, <1>1, <2>1, <3>2, <4>1, <4>2, <4>3 DEF OutBlock
    <3> QED
      BY <2>1, <3>1, <3>2
  <2>3. \A i \in 1 .. n + 1 : data'[i].to <= out'.total
    BY SMTT(30), <1>0, <1>1, <2>1 DEF IInv, DataInv, OutBlock, DataPacket
  <2>4. \A i \in 1 .. n + 1 :
            data'[i].last => i = n + 1 /\ out'.last
    BY <1>0, <1>1, <2>1 DEF IInv, DataInv
  <2>5. in.state # "done" /\ data' # << >>
    BY <1>0, <1>1, <2>1 DEF IInv, DataInv
  <2> QED
    BY <1>1, <2>1, <2>2, <2>3, <2>4, <2>5 DEF DataInv
<1> QED
  BY <1>3, <1>4, <1>5, <1>6 DEF IInv

LEMMA ReceiveDataStep ==
    ASSUME IInv, ReceiveData
    PROVE  IInv'
<1> DEFINE packet == Head(data)
           total  == in.total + (packet.to - packet.from)
           n      == Len(data)
<1>0. /\ out \in OutBlock /\ in \in InBlock
      /\ data \in Seq(DataPacket) /\ acks \in Seq(AckPacket)
      /\ Window \in Nat
  BY SizesAssumption DEF IInv, TypeOK
<1>1. /\ n \in Nat \ {0}
      /\ packet = data[1] /\ packet \in DataPacket
      /\ data' = Tail(data) /\ data' \in Seq(DataPacket)
      /\ Len(data') = n - 1
      /\ \A i \in 1 .. (n - 1) : data'[i] = data[i + 1]
      /\ \A i \in 1 .. n : data[i] \in DataPacket
      /\ in.state = "receive" /\ out' = out /\ acks' = acks
  BY <1>0 DEF ReceiveData
<1>5. \A i \in 1 .. n :
          /\ data[i].from \in Nat /\ data[i].to \in Nat
          /\ data[i].from < data[i].to /\ data[i].to <= out.total
          /\ data[i].from = IF i = 1 THEN in.total ELSE data[i - 1].to
          /\ i = n => data[i].to = out.total
          /\ data[i].last => i = n /\ out.last
  BY <1>1 DEF IInv, DataInv, StreamIntact, DataPacket
<1>2. /\ packet.from = in.total /\ packet.from < packet.to
      /\ packet.to <= out.total
      /\ total = packet.to /\ total \in Nat
  <2>1. 1 \in 1 .. n
    BY <1>1
  <2>2. /\ packet.from = in.total /\ packet.from < packet.to
        /\ packet.to <= out.total /\ packet.to \in Nat /\ in.total \in Nat
    BY <1>0, <1>1, <1>5, <2>1 DEF InBlock
  <2> QED
    BY <2>2
<1>3. CASE packet.last
  <2>1. n = 1 /\ out.last
    <3>1. 1 \in 1 .. n
      BY <1>1
    <3> QED
      BY <1>1, <1>3, <1>5, <3>1
  <2>2. data' = << >>
    BY <1>0, <1>1, <2>1
  <2>3. /\ in' \in InBlock /\ in'.state = "done"
        /\ in'.total = in.total /\ in'.acked = in.acked
    BY <1>0, <1>3 DEF ReceiveData, InBlock
  <2>4. TypeOK'
    BY <1>0, <1>1, <2>3 DEF TypeOK
  <2>5. AckInv' /\ RuleInv'
    BY <1>0, <1>1, <2>3
    DEF IInv, AckInv, RuleInv, OneAckInFlight, OutBlock, InBlock
  <2>6. DataInv'
    <3>1. Len(data') = 0 /\ 1 .. Len(data') = {}
      BY <1>1, <2>1
    <3> QED
      BY <1>1, <2>1, <2>2, <2>3, <3>1 DEF DataInv, StreamIntact
  <2> QED
    BY <2>4, <2>5, <2>6 DEF IInv
<1>4. CASE ~packet.last
  <2>1. /\ in' \in InBlock
        /\ in'.total = total /\ in'.acked = in.acked
        /\ in'.state = IF AckDue(total, in.acked)
                       THEN "send_ack" ELSE "receive"
    BY <1>0, <1>2, <1>4 DEF ReceiveData, InBlock
  <2>2. in.acked <= total
    BY <1>0, <1>2 DEF IInv, AckInv, InBlock
  <2>3. AckDue(total, in.acked) <=> total > in.acked + Window \div 2
    BY <1>0, <1>2, <2>2, AckDueMeans DEF InBlock
  <2>4. TypeOK'
    BY <1>0, <1>1, <2>1 DEF TypeOK
  <2>5. AckInv'
    BY <1>0, <1>1, <1>2, <2>1, <2>2
    DEF IInv, AckInv, OneAckInFlight, OutBlock, InBlock
  <2>6. RuleInv'
    BY <1>0, <1>1, <2>1, <2>3 DEF IInv, RuleInv
  <2>7. StreamIntact'
    <3> SUFFICES ASSUME NEW i \in 1 .. (n - 1)
                 PROVE  /\ data'[i].from < data'[i].to
                        /\ data'[i].from =
                              IF i = 1 THEN in'.total ELSE data'[i - 1].to
                        /\ i = n - 1 => data'[i].to = out'.total
      BY <1>1 DEF StreamIntact
    <3>1. /\ i + 1 \in 1 .. n /\ data'[i] = data[i + 1]
          /\ i # 1 => data'[i - 1] = data[i]
      BY <1>1
    <3>2. /\ data[i + 1].from < data[i + 1].to
          /\ data[i + 1].from = data[i].to
          /\ i + 1 = n => data[i + 1].to = out.total
      <4>1. i \in Nat /\ i # 0 /\ i + 1 # 1 /\ (i + 1) - 1 = i
        OBVIOUS
      <4> QED
        BY <1>5, <3>1, <4>1
    <3>3. i = 1 => in'.total = data[i].to
      BY <1>1, <1>2, <2>1
    <3>4. i = n - 1 => i + 1 = n
      BY <1>1
    <3> QED
      BY <1>1, <3>1, <3>2, <3>3, <3>4
  <2>8. /\ \A i \in 1 .. n - 1 : data'[i].to <= out'.total
        /\ \A i \in 1 .. n - 1 :
              data'[i].last => i = n - 1 /\ out'.last
    <3> SUFFICES ASSUME NEW i \in 1 .. n - 1
                 PROVE  /\ data'[i].to <= out'.total
                        /\ data'[i].last => i = n - 1 /\ out'.last
      OBVIOUS
    <3>1. i + 1 \in 1 .. n /\ data'[i] = data[i + 1]
      BY <1>1
    <3>2. /\ data[i + 1].to <= out.total
          /\ data[i + 1].last => i + 1 = n /\ out.last
      BY <1>5, <3>1
    <3>3. i + 1 = n => i = n - 1
      BY <1>1
    <3> QED
      BY <1>1, <3>1, <3>2, <3>3
  <2>9. in'.state # "done"
    BY <2>1
  <2>10. ASSUME data' = << >> PROVE in'.total = out'.total
    <3>1. n = 1
      BY SMTT(30), <1>1, <2>10
    <3> QED
      BY <1>1, <1>2, <2>1, <3>1 DEF IInv, DataInv, StreamIntact
  <2> QED
    BY <1>1, <2>4, <2>5, <2>6, <2>7, <2>8, <2>9, <2>10 DEF IInv, DataInv
<1> QED
  BY <1>3, <1>4

LEMMA SendAckStep ==
    ASSUME IInv, SendAck
    PROVE  IInv'
<1> DEFINE ack == [count |-> in.total, window |-> Window]
<1>0. /\ out \in OutBlock /\ in \in InBlock
      /\ data \in Seq(DataPacket) /\ acks \in Seq(AckPacket)
      /\ Window \in Nat
  BY SizesAssumption DEF IInv, TypeOK
<1>1. /\ in' \in InBlock /\ in'.state = "receive"
      /\ in'.acked = in.total /\ in'.total = in.total
      /\ in.state = "send_ack" /\ out' = out /\ data' = data
      /\ acks' = Append(acks, ack) /\ ack \in AckPacket
  BY <1>0 DEF SendAck, InBlock, AckPacket
<1>2. acks = << >>
  BY <1>0, <1>1, HalfWindow
  DEF IInv, AckInv, RuleInv, OutBlock, InBlock
<1>3. /\ acks' \in Seq(AckPacket) /\ Len(acks') = 1 /\ acks'[1] = ack
      /\ acks' # << >>
  BY <1>0, <1>1, <1>2
<1>4. TypeOK'
  BY <1>0, <1>1, <1>3 DEF TypeOK
<1>5. AckInv'
  BY <1>0, <1>1, <1>2, <1>3
  DEF IInv, AckInv, RuleInv, OneAckInFlight, OutBlock, InBlock
<1>6. RuleInv' /\ DataInv'
  BY <1>0, <1>1 DEF IInv, RuleInv, DataInv, StreamIntact
<1> QED
  BY <1>4, <1>5, <1>6 DEF IInv

LEMMA OnlyOne == ASSUME NEW n \in Nat, n # 0, n <= 1 PROVE n = 1
OBVIOUS

LEMMA ReceiveAckStep ==
    ASSUME IInv, ReceiveAck
    PROVE  IInv' /\ out'.acked >= out.acked
<1>0. /\ out \in OutBlock /\ in \in InBlock
      /\ data \in Seq(DataPacket) /\ acks \in Seq(AckPacket)
      /\ Window \in Nat /\ Window > 0 /\ PacketSize \in Nat
  BY SizesAssumption DEF IInv, TypeOK
<1>1. /\ Len(acks) = 1 /\ Head(acks) = acks[1] /\ acks[1] \in AckPacket
      /\ acks' = << >> /\ acks # << >>
  <2>1. acks # << >> /\ acks' = Tail(acks)
    BY DEF ReceiveAck
  <2>2. Len(acks) = 1
    <3>1. Len(acks) \in Nat /\ Len(acks) # 0
      BY <1>0, <2>1, EmptySeq
    <3>2. Len(acks) <= 1
      BY DEF IInv, AckInv, OneAckInFlight
    <3> QED
      BY <3>1, <3>2, OnlyOne, Zenon
  <2>3. acks' \in Seq(AckPacket) /\ Len(acks') = 0
    BY <1>0, <2>1, <2>2
  <2>4. Head(acks) = acks[1] /\ acks[1] \in AckPacket
    BY <1>0, <2>2
  <2>5. acks' = << >>
    BY <2>3
  <2> QED
    BY <2>1, <2>2, <2>4, <2>5
<1>2. /\ acks[1].count = in.acked /\ acks[1].window = Window
      /\ in.acked > out.acked + Window \div 2
  BY <1>0, <1>1 DEF IInv, AckInv
<1>3. /\ out' \in OutBlock
      /\ out'.acked = in.acked /\ out'.window = Window
      /\ out'.ackPending = FALSE
      /\ out'.total = out.total /\ out'.last = out.last
      /\ in' = in /\ data' = data
  BY <1>0, <1>1, <1>2 DEF ReceiveAck, OutBlock, InBlock
<1>4. TypeOK'
  BY <1>0, <1>1, <1>3 DEF TypeOK
<1>5. AckInv'
  BY <1>0, <1>1, <1>3 DEF IInv, AckInv, OneAckInFlight, InBlock
<1>6. RuleInv'
  BY <1>0, <1>2, <1>3, HalfWindow
  DEF IInv, RuleInv, OutBlock, InBlock
<1>7. DataInv'
  BY <1>3 DEF IInv, DataInv, StreamIntact
<1>8. out'.acked >= out.acked
  BY <1>0, <1>2, <1>3, HalfWindow DEF OutBlock, InBlock
<1> QED
  BY <1>4, <1>5, <1>6, <1>7, <1>8 DEF IInv

LEMMA NextIInv ==
    IInv /\ [Next]_vars => IInv' /\ out'.acked >= out.acked
<1> SUFFICES ASSUME IInv, [Next]_vars
             PROVE  IInv' /\ out'.acked >= out.acked
  OBVIOUS
<1>0. out \in OutBlock
  BY DEF IInv, TypeOK
<1>1. ASSUME NEW len \in 1 .. PacketSize, NEW last \in BOOLEAN,
             SendData(len, last)
      PROVE  IInv' /\ out'.acked >= out.acked
  <2>1. IInv'
    BY <1>1, SendDataStep
  <2>2. out'.acked = out.acked
    BY <1>0, <1>1 DEF SendData, OutBlock
  <2> QED
    BY <1>0, <2>1, <2>2 DEF OutBlock
<1>2. CASE ReceiveData
  BY <1>0, <1>2, ReceiveDataStep DEF ReceiveData, OutBlock
<1>3. CASE SendAck
  BY <1>0, <1>3, SendAckStep DEF SendAck, OutBlock
<1>4. CASE ReceiveAck
  BY <1>4, ReceiveAckStep
<1>5. CASE UNCHANGED vars
  BY <1>0, <1>5
  DEF vars, IInv, TypeOK, AckInv, RuleInv, DataInv, OneAckInFlight,
      StreamIntact, OutBlock
<1> QED
  BY <1>1, <1>2, <1>3, <1>4, <1>5 DEF Next

-----------------------------------------------------------------------------
\* The two halves' records and the packets under way keep their types.
THEOREM TypeCorrect == TwoPacketsFit => (Spec => []TypeOK)
<1>1. IInv => TypeOK
  BY DEF IInv
<1> QED
  BY <1>1, InitIInv, NextIInv, PTL DEF Spec

\* msg_process_send_data never sends beyond the window the receiver announced,
\* whatever the window and the packet size, once two packets fit in it.
THEOREM WindowIsRespected == TwoPacketsFit => (Spec => []WindowRespected)
<1>1. IInv => WindowRespected
  BY HalfWindow, SizesAssumption
  DEF IInv, TypeOK, AckInv, RuleInv, WindowRespected, OutBlock, InBlock
<1> QED
  BY <1>1, InitIInv, NextIInv, PTL DEF Spec

\* msg_pass_service_data never has a second acknowledgement due while the
\* first is under way.
THEOREM AtMostOneAck == TwoPacketsFit => (Spec => []OneAckInFlight)
<1>1. IInv => OneAckInFlight
  BY DEF IInv, AckInv
<1> QED
  BY <1>1, InitIInv, NextIInv, PTL DEF Spec

\* What is on the wire is the stream between the two counters, in order.
THEOREM StreamStaysIntact == TwoPacketsFit => (Spec => []StreamIntact)
<1>1. IInv => StreamIntact
  BY DEF IInv, DataInv
<1> QED
  BY <1>1, InitIInv, NextIInv, PTL DEF Spec

\* A sender with MSG_FLAG_ACK_PENDING set is never forgotten: the acknowledgement is
\* on its way, about to be sent, or due once what is under way is taken.
THEOREM WaitingIsAnswered == TwoPacketsFit => (Spec => []WaitIsAnswered)
<1>1. IInv => WaitIsAnswered
  <2> SUFFICES ASSUME IInv, out.ackPending, acks = << >>
               PROVE  AckDue(out.total, in.acked)
    BY DEF WaitIsAnswered
  <2>0. TwoPacketsFit
    BY DEF IInv
  <2>1. /\ out.total \in Nat /\ in.acked \in Nat /\ in.acked <= out.total
        /\ out.total + PacketSize > in.acked + Window
    BY SizesAssumption
    DEF IInv, TypeOK, AckInv, RuleInv, OutBlock, InBlock
  <2> QED
    BY <2>0, <2>1, AckDueMeans, HalfWindow, SizesAssumption
<1> QED
  BY <1>1, InitIInv, NextIInv, PTL DEF Spec

\* msg_process_ack never moves ack_count back.
THEOREM AcksAdvance == TwoPacketsFit => (Spec => AckNeverRetreats)
<1>1. IInv /\ [Next]_vars => [out'.acked >= out.acked]_vars
  BY NextIInv
<1> QED
  BY <1>1, InitIInv, NextIInv, PTL DEF Spec, AckNeverRetreats
=============================================================================
