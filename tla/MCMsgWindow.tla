---------------------------- MODULE MCMsgWindow ----------------------------
(* MsgWindow on a small instance: messages of at most MaxBytes bytes.       *)
EXTENDS MsgWindow

CONSTANT MaxBytes \* bound on the length of a message

\* The user ends the message in time.
Bounded ==
    \E len \in 1 .. PacketSize, last \in BOOLEAN :
        /\ SendData(len, last)
        /\ out.total + len >= MaxBytes => last

MCNext == Bounded \/ ReceiveData \/ SendAck \/ ReceiveAck

MCSpec == Init /\ [][MCNext]_vars

\* connector_step runs both halves again and again, and the user answers when
\* asked for data.
MCFairSpec ==
    /\ MCSpec
    /\ WF_vars(ReceiveData)
    /\ WF_vars(SendAck)
    /\ WF_vars(ReceiveAck)
    /\ WF_vars(Bounded)
=============================================================================
