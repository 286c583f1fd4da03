-------------------------- MODULE StreamingCliProofs --------------------------
(***************************************************************************)
(* For every number of sessions, transactions and requests, as long as     *)
(* nothing is asked that the code mishandles: sessions and transactions    *)
(* agree on each other, no session waits for what cannot come, and the     *)
(* application has open what the service has.                              *)
(*                                                                         *)
(* A session and the transactions that carry it point to each other; what  *)
(* the pointers mean depends on the states of both, on the packet that is  *)
(* looked at, and on the packets that are still to come: the transaction   *)
(* that a session receives with is live because Device Cloud has not sent  *)
(* all of it, and no two requests for one session are under way together.  *)
(* The invariant, Inv, says so: PacketInv and HeldInv are about the        *)
(* packets of each transaction, LinkInv about the pointers, StreamInv      *)
(* about packets and sessions, PcInv about the callback that is made.      *)
(***************************************************************************)
EXTENDS StreamingCli, ListLemmas

\* None of the situations that the code mishandles, and a start is one packet.
Disciplined ==
    /\ Troubles = {}
    /\ \A r \in Requests : r[1] = "start" => r[2] = 1

Words == {"none", "open", "failed", "command", "executed"}
Pcs == {"step", "packet", "handle", "sessions", "poll", "poll_session", "start", "restart",
        "receive", "store", "end_close", "end_error", "end_response", "send", "execute"}
\* The callbacks of a packet that is handled, and those of an answer.
Handling == {"handle", "start", "restart", "receive", "store", "end_close", "end_error"}
Answering == {"send", "execute", "end_response"}

TrxStates == {"free", "receive", "get_data", "wait", "send_error", "delete"}
TrxType == [st : TrxStates, owner : {"none", "cloud", "client"},
            ctx : Handles \cup {None, Gone},
            fresh : BOOLEAN, last : BOOLEAN, reply : BOOLEAN]
CliStates == {"free", "uninitialized", "ack_start", "started", "execute_command"} \cup Ending
CliType == [st : CliStates, id : Ids \cup {None}, recv : Transactions \cup {None},
            send : Transactions \cup {None}, op : Operations \cup {"none"},
            consumed : 0 .. Units]
AppType == [is : Words, got : Seq(Nat)]

\* The ids tell a command; a start is whole, and an error packet is the last one.
Proper(p) == /\ p.op = "exec" => p.id = None
             /\ p.op \in {"start", "data", "close"} => p.id # None
             /\ p.op = "start" => p.first /\ p.last
             /\ p.op = "error" => ~p.first /\ p.last
PacketType == {p \in [t : Transactions, op : Operations \cup {"error"}, id : Ids \cup {None},
                      first : BOOLEAN, last : BOOLEAN, from : Nat] : Proper(p)}

TypeInv ==
    /\ trx \in [Transactions -> TrxType]
    /\ cli \in [Handles -> CliType]
    /\ ring \in Seq(Handles)
    /\ errorBuf \in Transactions \cup {None}
    /\ slot \in Transactions \cup {None, "error"}
    /\ held = << >> \/ \E p \in PacketType : held = <<p>>
    /\ pc \in Pcs
    /\ at \in Transactions \cup {None}
    /\ cur \in Handles \cup {None}
    /\ up \in BOOLEAN
    /\ app \in [Handles -> AppType]
    /\ conv \in [Transactions -> Seq(PacketType)]
    /\ sent \in [Ids -> Nat]
    /\ inbound \in Seq(PacketType)
    /\ fault = FALSE

\* The list has the sessions that exist, within the limit; no two have the same id.
SessionOk(s) ==
    /\ cli[s].st = "free" => cli[s] = NoSession
    /\ Exists(s) => /\ cli[s].op # "none"
                    /\ cli[s].st = "execute_command" <=> cli[s].op = "exec"
                    /\ cli[s].st = "execute_command" <=> cli[s].id = None
RingInv ==
    /\ Once(ring)
    /\ Elements(ring) = {s \in Handles : Exists(s)}
    /\ Len(ring) <= MaxSessions
    /\ \A s \in Handles : SessionOk(s)
    /\ \A s, r \in Handles : Exists(s) /\ Exists(r) /\ cli[s].id = cli[r].id
                                /\ cli[s].id # None => s = r

Held == held # << >>
Receiving(t) == trx[t].st = "receive"
\* The packets of the transaction t that are to come.
Coming(t) == {p \in Elements(inbound) : p.t = t} \cup Elements(conv[t])
Same(p, q) == p.id = q.id /\ (p.op = q.op \/ "error" \in {p.op, q.op})
\* Device Cloud does not send p before it sent all of the transaction of q.
Clash(p, q) == q.id = None \/ (q.id = p.id /\ p.op # "start")

\* What is left to send of each transaction are its last packets, in order.
RestInv ==
    \A t \in Transactions : \A i \in 1 .. Len(conv[t]) :
        /\ conv[t][i].t = t /\ ~conv[t][i].first /\ conv[t][i].op # "error"
        /\ conv[t][i].last <=> i = Len(conv[t])
OrderInv ==
    /\ \A i, j \in 1 .. Len(inbound) :
          i < j /\ inbound[i].t = inbound[j].t => ~inbound[i].last /\ ~inbound[j].first
    /\ \A i \in 1 .. Len(inbound) : conv[inbound[i].t] # << >> => ~inbound[i].last
ComingInv ==
    \A t \in Transactions :
        /\ \A p, q \in Coming(t) : Same(p, q)
        /\ Coming(t) # {} => \E p \in Coming(t) : p.last
\* A transaction is there when its packets come, from the second on, and while they do.
WaitInv ==
    /\ \A i \in 1 .. Len(inbound) : inbound[i].first => ~Live(inbound[i].t)
    /\ \A t \in Transactions :
          Coming(t) # {} => Receiving(t) \/ \E p \in Coming(t) : p.first
    /\ up => \A t \in Transactions : Receiving(t) => Coming(t) # {} \/ (Held /\ T = t)
\* A request leaves when those that clash with it were sent.
TurnInv ==
    \A j \in 1 .. Len(inbound) : \A u \in Transactions :
        /\ inbound[j].first /\ u # inbound[j].t
        /\ \/ \E k \in 1 .. Len(inbound) : /\ j < k /\ inbound[k].t = u
                                           /\ Clash(inbound[j], inbound[k])
           \/ conv[u] # << >> /\ Clash(inbound[j], conv[u][1])
        => \E l \in 1 .. Len(inbound) : j < l /\ inbound[l].t = u /\ inbound[l].first
PacketInv == RestInv /\ OrderInv /\ ComingInv /\ WaitInv /\ TurnInv

\* So does the packet in the receive buffer.
HeldInv == Held =>
    /\ Receiving(T)
    /\ Now.last <=> Coming(T) = {}
    /\ \A q \in Coming(T) : Same(Now, q)
    /\ Now.first /\ Now.op \in {"start", "exec"} => trx[T].reply
    /\ Now.op = "start" /\ pc \notin Handling => trx[T].ctx = None
    /\ Now.first => \A u \in Transactions : \A q \in Coming(u) :
                        u # T /\ Clash(Now, q) => ~Live(u)

\* What the states of a transaction imply.
TrxOk(t) ==
    /\ trx[t].st = "free" => trx[t] = NoTransaction
    /\ Receiving(t) => trx[t].owner = "cloud"
    /\ trx[t].st = "wait" /\ trx[t].last =>
          trx[t].ctx \notin Handles /\ (trx[t].owner = "client" => ~trx[t].reply)
    /\ trx[t].st \in {"delete", "send_error"} => trx[t].ctx = None
    /\ trx[t].ctx = Gone => trx[t].st = "wait" /\ trx[t].last /\ up
TrxInv ==
    /\ \A t \in Transactions : TrxOk(t)
    /\ slot \in Transactions => trx[slot].st = "wait"

\* A connection that is lost.
DownInv == ~up => /\ pc = "step" /\ held = << >> /\ inbound = << >> /\ slot = None
                  /\ \A t \in Transactions : conv[t] = << >>

\* The transaction that a session receives with, and the one that it sends with.  While a
\* start waits to be offered again, the latter is the one of its packet.
Moving(s) == Held /\ cli[s].send = T
RecvOk(s) ==
    cli[s].recv # None =>
        /\ Receiving(cli[s].recv) /\ trx[cli[s].recv].ctx = s
        /\ cli[s].st # "execute_command"
SendOk(s) ==
    cli[s].send # None =>
        \/ /\ trx[cli[s].send].ctx = s
           /\ \/ trx[cli[s].send].st \in {"get_data", "wait"}
              \/ cli[s].st = "execute_command" /\ Receiving(cli[s].send)
        \/ Restarts(s) /\ Moving(s) /\ trx[T].ctx \in {None, s}
\* The session that a transaction carries knows it.
CtxOk(t) ==
    trx[t].ctx \in Handles =>
        /\ Exists(trx[t].ctx)
        /\ \/ Receiving(t) /\ (cli[trx[t].ctx].recv = t
                                \/ cli[trx[t].ctx].st = "execute_command")
           \/ trx[t].st \in {"get_data", "wait"} /\ cli[trx[t].ctx].send = t
\* A command has one transaction.
ExecOk(s) ==
    cli[s].st = "execute_command" =>
        /\ \E t \in Transactions : trx[t].ctx = s
        /\ \A t, u \in Transactions : trx[t].ctx = s /\ trx[u].ctx = s => t = u
        /\ \A t \in Transactions : trx[t].ctx = s => trx[t].owner = "cloud" /\ trx[t].reply
\* What takes each session further, and who answers.
StateOk(s) ==
    /\ cli[s].st \in {"uninitialized", "closing", "pending_error"} =>
          cli[s].send = None \/ Moving(s)
    /\ cli[s].st = "uninitialized" =>
          cli[s].op = "start" /\ (cli[s].recv # None \/ Restarts(s))
    /\ cli[s].st = "closing" =>
          Restarts(s) \/ (cli[s].op = "close" /\ cli[s].recv # None)
    /\ cli[s].st \in {"ack_start", "start_failed", "send_close"} =>
          cli[s].send # None \/ Restarts(s)
    /\ cli[s].st = "ack_start" /\ cli[s].send # None => trx[cli[s].send].owner = "cloud"
LinkInv ==
    /\ \A s \in Handles : RecvOk(s) /\ SendOk(s) /\ ExecOk(s) /\ (up => StateOk(s))
    /\ \A t \in Transactions : CtxOk(t)

\* Where the service is in a round.
PcInv ==
    /\ pc \in Handling \cup {"packet"} => Held
    /\ pc \in Handling => /\ cur \in Handles /\ Exists(cur)
                          /\ pc # "restart" => trx[T].ctx = cur
    /\ pc \in Handling \ {"end_error"} => Now.op # "error"
    /\ pc = "start" => cli[cur].op = "start" /\ cli[cur].st = "uninitialized"
    /\ pc = "restart" =>
          /\ Now.op = "start" /\ Now.id = cli[cur].id /\ trx[T].ctx = None
          /\ cli[cur].op = "start" /\ cli[cur].recv = None /\ cli[cur].send = None
    /\ pc = "receive" => cli[cur].op = "data" /\ cli[cur].st = "started" /\ ~trx[T].reply
    /\ pc = "store" => cli[cur].op = "exec"
    /\ pc = "end_close" => cli[cur].op = "close" /\ Now.last /\ ~trx[T].reply
    /\ pc = "end_error" => Now.op = "error"
    /\ pc = "poll_session" =>
          cur \in Handles /\ cli[cur].st = "started" /\ cli[cur].send = None
    /\ pc \in Answering => /\ at \in Transactions /\ cur \in Handles
                           /\ trx[at].ctx = cur /\ trx[at].st = "get_data"
    /\ pc = "send" => cli[cur].st = "started" /\ ~trx[at].reply
    /\ pc = "execute" => cli[cur].st = "execute_command"
    /\ pc = "end_response" =>
          cli[cur].st \in {"start_failed", "send_close", "execute_command"}

\* The packets of a transaction are for the session that it carries; a command that is
\* given up has its session; the answer that waits in the error buffer is for a command
\* that is not yet whole, or is to be sent.
Due(t) == Coming(t) \cup (IF Held /\ T = t THEN {Now} ELSE {})
StreamOk(t) ==
    /\ Receiving(t) /\ trx[t].ctx \in Handles =>
          \A q \in Due(t) : /\ q.id = cli[trx[t].ctx].id
                            /\ q.op \in {cli[trx[t].ctx].op, "error"}
    /\ \A q \in Due(t) : q.op = "error" /\ q.id = None => trx[t].ctx \in Handles
ErrorOk(t) ==
    /\ trx[t].ctx = None
    /\ \/ trx[t].st = "get_data"
       \/ /\ Receiving(t) /\ trx[t].reply
          /\ \A q \in Due(t) : q.id = None /\ ~q.first
StreamInv ==
    /\ \A t \in Transactions : StreamOk(t)
    /\ up /\ errorBuf # None => ErrorOk(errorBuf)

Inv == /\ TypeInv /\ RingInv /\ PacketInv /\ HeldInv /\ TrxInv /\ DownInv /\ LinkInv
       /\ PcInv /\ StreamInv /\ AppAgrees

-----------------------------------------------------------------------------
\* The packet in the receive buffer is one.
LEMMA HeldPacket ==
    ASSUME TypeInv, Held
    PROVE  Now \in PacketType /\ T \in Transactions /\ held = <<Now>>
<1>1. PICK p \in PacketType : held = <<p>>
  BY DEF TypeInv, Held
<1>2. Now = p
  BY <1>1 DEF Now
<1> QED
  BY <1>1, <1>2 DEF T, PacketType

\* So is whatever is to come of a transaction.
LEMMA ComingPackets ==
    ASSUME TypeInv, NEW t \in Transactions
    PROVE  /\ Coming(t) \subseteq PacketType
           /\ \A i \in 1 .. Len(inbound) : inbound[i] \in PacketType
           /\ \A i \in 1 .. Len(conv[t]) : conv[t][i] \in PacketType
           /\ \A q \in Coming(t) : q.t = t \/ \E i \in 1 .. Len(conv[t]) : q = conv[t][i]
<1>1. \A i \in 1 .. Len(inbound) : inbound[i] \in PacketType
  BY ElementOfSeq DEF TypeInv
<1>2. \A i \in 1 .. Len(conv[t]) : conv[t][i] \in PacketType
  BY ElementOfSeq DEF TypeInv
<1> QED
  BY <1>1, <1>2 DEF Coming, Elements

\* A packet is looked at, and a round goes on, only while the connection is up.
LEMMA StillUp ==
    ASSUME TypeInv, DownInv, pc # "step" \/ Held \/ slot # None
    PROVE  up
  BY DEF TypeInv, DownInv, Held

\* What nothing that is to come knows: the order of the packets, when the packets and the
\* transactions that receive stay, and only transactions without packets come into being.
LEMMA PacketsKept ==
    ASSUME TypeInv, PacketInv, HeldInv,
           UNCHANGED <<conv, inbound, held>>, up' => up,
           \A t \in Transactions : Receiving(t)' <=> Receiving(t),
           \A t \in Transactions : Live(t)' => Live(t) \/ Coming(t) = {},
           Held /\ Now.first /\ Now.op \in {"start", "exec"} /\ trx[T].reply => trx'[T].reply,
           Held /\ Now.op = "start" /\ pc' \notin Handling => trx'[T].ctx = None
    PROVE  PacketInv' /\ HeldInv'
<1>1. (\A t : Coming(t)' = Coming(t)) /\ Held' = Held /\ Now' = Now /\ T' = T
  BY DEF Coming, Held, Now, T
<1>2. RestInv' /\ OrderInv' /\ ComingInv' /\ TurnInv'
  BY <1>1 DEF PacketInv, RestInv, OrderInv, ComingInv, TurnInv
<1>3. \A i \in 1 .. Len(inbound) :
         inbound[i].t \in Transactions /\ inbound[i] \in Coming(inbound[i].t)
  <2>1. \A i \in 1 .. Len(inbound) : inbound[i] \in PacketType
    BY ElementOfSeq DEF TypeInv
  <2> QED
    BY <2>1 DEF PacketType, Coming, Elements
<1>4. WaitInv'
  BY <1>1, <1>3 DEF PacketInv, WaitInv
<1>5. HeldInv'
  <2> SUFFICES ASSUME Held PROVE HeldInv'
    BY <1>1 DEF HeldInv
  <2>1. T \in Transactions
    BY HeldPacket
  <2>2. Now.first => \A u \in Transactions : \A q \in Coming(u) :
           u # T /\ Clash(Now, q) => ~Live(u)'
    BY DEF HeldInv
  <2> QED
    BY <1>1, <2>1, <2>2 DEF HeldInv
<1> QED
  BY <1>2, <1>4, <1>5 DEF PacketInv

\* The packet in the receive buffer is taken; its transaction still receives unless that
\* was the last one.
LEMMA PacketTaken ==
    ASSUME TypeInv, PacketInv, HeldInv, Held,
           UNCHANGED <<conv, inbound>>, held' = << >>, up' => up,
           \A t \in Transactions : t # T => (Receiving(t)' <=> Receiving(t)),
           trx'[T].st = "receive" <=> ~Now.last,
           \A t \in Transactions : Live(t)' => Live(t) \/ Coming(t) = {}
    PROVE  PacketInv' /\ HeldInv'
<1>1. (\A t : Coming(t)' = Coming(t)) /\ ~Held'
  BY DEF Coming, Held
<1>2. RestInv' /\ OrderInv' /\ ComingInv' /\ TurnInv'
  BY <1>1 DEF PacketInv, RestInv, OrderInv, ComingInv, TurnInv
<1>3. \A i \in 1 .. Len(inbound) :
         inbound[i].t \in Transactions /\ inbound[i] \in Coming(inbound[i].t)
  <2>1. \A i \in 1 .. Len(inbound) : inbound[i] \in PacketType
    BY ElementOfSeq DEF TypeInv
  <2> QED
    BY <2>1 DEF PacketType, Coming, Elements
<1>4. WaitInv'
  <2>1. \A i \in 1 .. Len(inbound) : inbound[i].first => ~Live(inbound[i].t)'
    BY <1>3 DEF PacketInv, WaitInv
  <2>2. \A t \in Transactions :
           Coming(t) # {} => Receiving(t)' \/ \E p \in Coming(t) : p.first
    BY DEF PacketInv, WaitInv, HeldInv, Receiving
  <2>3. up' => \A t \in Transactions : Receiving(t)' => Coming(t) # {}
    BY DEF PacketInv, WaitInv, HeldInv, Receiving
  <2> QED
    BY <1>1, <2>1, <2>2, <2>3 DEF WaitInv
<1>5. HeldInv'
  BY <1>1 DEF HeldInv
<1> QED
  BY <1>2, <1>4, <1>5 DEF PacketInv

-----------------------------------------------------------------------------
\* A function of 1 .. n is a list.
LEMMA FunctionIsList ==
    ASSUME NEW S, NEW n \in Nat \ {0}, NEW f \in [1 .. n -> S]
    PROVE  f \in Seq(S) /\ Len(f) = n /\ f # << >>
<1>1. f \in Seq(S) /\ Len(f) = n
  OBVIOUS
<1> QED
  BY <1>1, EmptySeq

\* The elements of a list that gets one more.
LEMMA AppendedElements ==
    ASSUME NEW S, NEW seq \in Seq(S), NEW x \in S
    PROVE  /\ Append(seq, x) \in Seq(S) /\ Len(Append(seq, x)) = Len(seq) + 1
           /\ \A i \in 1 .. Len(seq) : Append(seq, x)[i] = seq[i]
           /\ Append(seq, x)[Len(seq) + 1] = x
           /\ Elements(Append(seq, x)) = Elements(seq) \cup {x}
<1>1. /\ Append(seq, x) \in Seq(S) /\ Len(Append(seq, x)) = Len(seq) + 1
      /\ \A i \in 1 .. Len(seq) : Append(seq, x)[i] = seq[i]
      /\ Append(seq, x)[Len(seq) + 1] = x
  BY AppendProperties
<1>2. Len(seq) \in Nat
  BY LenProperties
<1>3. Elements(Append(seq, x)) = Elements(seq) \cup {x}
  <2>1. \A i \in 1 .. Len(seq) + 1 : i \in 1 .. Len(seq) \/ i = Len(seq) + 1
    BY <1>2
  <2>2. 1 .. Len(seq) \subseteq 1 .. Len(seq) + 1 /\ Len(seq) + 1 \in 1 .. Len(seq) + 1
    BY <1>2
  <2> QED
    BY <1>1, <2>1, <2>2 DEF Elements
<1> QED
  BY <1>1, <1>3

\* The elements of a list that loses its first.
LEMMA TailElements ==
    ASSUME NEW S, NEW seq \in Seq(S), seq # << >>
    PROVE  /\ Len(seq) \in Nat \ {0} /\ Head(seq) = seq[1] /\ Head(seq) \in S
           /\ Tail(seq) \in Seq(S) /\ Len(Tail(seq)) = Len(seq) - 1
           /\ \A i \in 1 .. Len(seq) - 1 : Tail(seq)[i] = seq[i + 1]
           /\ Elements(seq) = {Head(seq)} \cup Elements(Tail(seq))
           /\ Tail(seq) = << >> <=> Len(seq) = 1
<1>1. /\ Len(seq) \in Nat \ {0} /\ Head(seq) = seq[1] /\ Head(seq) \in S
      /\ Tail(seq) \in Seq(S) /\ Len(Tail(seq)) = Len(seq) - 1
      /\ \A i \in 1 .. Len(seq) - 1 : Tail(seq)[i] = seq[i + 1]
  BY HeadTailProperties, LenProperties, EmptySeq, ElementOfSeq
<1>2. Elements(seq) = {Head(seq)} \cup Elements(Tail(seq))
  <2>1. \A i \in 1 .. Len(seq) : i = 1 \/ (i - 1 \in 1 .. Len(seq) - 1 /\ (i - 1) + 1 = i)
    BY <1>1
  <2>2. \A i \in 1 .. Len(seq) - 1 : i + 1 \in 1 .. Len(seq)
    BY <1>1
  <2>3. \A i \in 1 .. Len(seq) : i = 1 \/ seq[i] = Tail(seq)[i - 1]
    BY <1>1, <2>1
  <2> QED
    BY <1>1, <2>1, <2>2, <2>3 DEF Elements
<1>3. Tail(seq) = << >> <=> Len(seq) = 1
  BY <1>1, EmptySeq
<1> QED
  BY <1>1, <1>2, <1>3

\* What Device Cloud does is seen by the packets alone.
LEMMA CloudKeeps ==
    ASSUME Inv, up,
           UNCHANGED <<trx, cli, ring, errorBuf, slot, held, pc, callVars, connVars, app, fault>>,
           conv' \in [Transactions -> Seq(PacketType)], sent' \in [Ids -> Nat],
           inbound' \in Seq(PacketType),
           PacketInv', HeldInv', StreamInv'
    PROVE  Inv'
<1> USE DEF callVars, connVars
<1>1. TypeInv'
  BY DEF Inv, TypeInv
<1>2. RingInv'
  BY DEF Inv, RingInv, SessionOk, Exists
<1>3. TrxInv' /\ DownInv'
  BY DEF Inv, TrxInv, TrxOk, Receiving, DownInv
<1>4. Held' = Held /\ Now' = Now /\ T' = T
  BY DEF Held, Now, T
<1>5. LinkInv'
  BY <1>4 DEF Inv, LinkInv, RecvOk, SendOk, CtxOk, ExecOk, StateOk, Receiving, Exists, Moving,
              Restarts
<1>6. PcInv'
  BY <1>4 DEF Inv, PcInv, Exists
<1>7. AppAgrees'
  BY DEF Inv, AppAgrees
<1> QED
  BY <1>1, <1>2, <1>3, <1>5, <1>6, <1>7 DEF Inv

\* Device Cloud sends the packet p of the transaction t, of which rest is left: the first
\* packet of a request that clashes with none, or one of a request that it is sending.
LEMMA CloudSends ==
    ASSUME Inv, up, NEW t \in Transactions, NEW p \in PacketType, NEW rest \in Seq(PacketType),
           UNCHANGED <<trx, cli, ring, errorBuf, slot, held, pc, callVars, connVars, app, fault>>,
           inbound' = Append(inbound, p), conv' = [conv EXCEPT ![t] = rest],
           sent' \in [Ids -> Nat],
           p.t = t, p.last <=> rest = << >>, p.op = "error" => rest = << >>,
           \A i \in 1 .. Len(rest) :
              /\ rest[i].t = t /\ ~rest[i].first /\ rest[i].op # "error"
              /\ rest[i].last <=> i = Len(rest)
              /\ Same(p, rest[i]),
           \* it begins a request
           p.first => /\ TransactionFree(t)
                      /\ \A u \in Transactions \ {t} :
                            conv[u] # << >> => ~Clash(p, conv[u][1]),
           \* or goes on with one
           ~p.first => /\ conv[t] # << >> /\ conv[t][1].id = p.id
                       /\ p.op \in {conv[t][1].op, "error"}
                       /\ Elements(rest) \subseteq Elements(conv[t])
                       /\ p.op = "error" /\ p.id = None => trx[t].ctx \in Handles
    PROVE  Inv'
<1> DEFINE n == Len(inbound)
<1>1. /\ conv \in [Transactions -> Seq(PacketType)] /\ inbound \in Seq(PacketType)
      /\ n \in Nat /\ Len(rest) \in Nat /\ conv[t] \in Seq(PacketType)
  BY LenProperties DEF Inv, TypeInv
<1>2. /\ inbound' \in Seq(PacketType) /\ Len(inbound') = n + 1
      /\ \A i \in 1 .. n : inbound'[i] = inbound[i]
      /\ inbound'[n + 1] = p
      /\ Elements(inbound') = Elements(inbound) \cup {p}
  BY <1>1, AppendedElements
<1>3. /\ conv' \in [Transactions -> Seq(PacketType)] /\ conv'[t] = rest
      /\ \A u \in Transactions \ {t} : conv'[u] = conv[u]
  BY <1>1
<1>4. \A i \in 1 .. n + 1 : i \in 1 .. n \/ i = n + 1
  BY <1>1
<1>5. 1 .. n \subseteq 1 .. n + 1 /\ \A i \in 1 .. n : ~(n + 1 < i) /\ i < n + 1
  BY <1>1
<1>6. \A i \in 1 .. n : inbound[i] \in PacketType /\ inbound[i].t \in Transactions
  <2>1. \A i \in 1 .. n : inbound[i] \in PacketType
    BY <1>1, ElementOfSeq
  <2> QED
    BY <2>1 DEF PacketType
<1>7. n + 1 \in 1 .. n + 1 /\ ~(n + 1 < n + 1)
  BY <1>1
<1> HIDE DEF n
<1>8. Held' = Held /\ Now' = Now /\ T' = T
  BY DEF Held, Now, T
\* What of the transaction was under way before.
<1>9. conv[t] # << >> => 1 \in 1 .. Len(conv[t]) /\ conv[t][1] \in Coming(t)
  <2>1. conv[t] # << >> => 1 \in 1 .. Len(conv[t])
    BY <1>1, EmptySeq
  <2> QED
    BY <2>1 DEF Coming, Elements
<1>10. p.first => /\ \A i \in 1 .. n : inbound[i].t # t
                  /\ ~Live(t) /\ conv[t] = << >> /\ Coming(t) = {} /\ t # errorBuf
  <2>1. DOMAIN inbound = 1 .. n
    BY <1>1, LenProperties DEF n
  <2>2. conv[t] = << >> => Elements(conv[t]) = {}
    BY EmptySeq DEF Elements
  <2>3. p.first => /\ \A i \in 1 .. n : inbound[i].t # t
                   /\ ~Live(t) /\ conv[t] = << >> /\ t # errorBuf
    BY <2>1 DEF TransactionFree
  <2>4. p.first => \A q \in Elements(inbound) : q.t # t
    BY <2>3 DEF Elements, n
  <2> QED
    BY <2>2, <2>3, <2>4 DEF Coming
<1>11. \A q \in Coming(t) : q.id = p.id /\ (p.op = q.op \/ "error" \in {p.op, q.op})
  <2>1. ~p.first => \A q \in Coming(t) : Same(conv[t][1], q)
    BY <1>9 DEF Inv, PacketInv, ComingInv
  <2>2. ~p.first => conv[t][1].op # "error"
    BY <1>9 DEF Inv, PacketInv, RestInv
  <2> QED
    BY <1>10, <2>1, <2>2 DEF Same
<1>12. /\ Coming(t)' = {q \in Elements(inbound) : q.t = t} \cup {p} \cup Elements(rest)
       /\ \A u \in Transactions \ {t} : Coming(u)' = Coming(u)
  BY <1>2, <1>3 DEF Coming
<1>13. Coming(t)' \subseteq Coming(t) \cup {p} \cup Elements(rest)
  BY <1>12 DEF Coming
<1>14. \A q \in Elements(rest) : Same(p, q) /\ ~q.first /\ q.op # "error" /\ p.op # "error"
  BY <1>1 DEF Elements
<1>15. RestInv'
  BY <1>3 DEF Inv, PacketInv, RestInv
<1>16. ~p.first => \A i \in 1 .. n : inbound[i].t = t => ~inbound[i].last
  BY DEF Inv, PacketInv, OrderInv, n
<1>17. OrderInv'
  <2>1. ASSUME NEW i \in 1 .. n + 1, NEW j \in 1 .. n + 1, i < j, inbound'[i].t = inbound'[j].t
        PROVE  ~inbound'[i].last /\ ~inbound'[j].first
    <3>1. i \in 1 .. n
      BY <1>4, <1>5, <1>7, <2>1
    <3>2. CASE j \in 1 .. n
      BY <1>2, <2>1, <3>1, <3>2 DEF Inv, PacketInv, OrderInv, n
    <3>3. CASE j = n + 1
      BY <1>2, <1>10, <1>16, <2>1, <3>1, <3>3
    <3> QED
      BY <1>4, <3>2, <3>3
  <2>2. ASSUME NEW i \in 1 .. n + 1, conv'[inbound'[i].t] # << >> PROVE ~inbound'[i].last
    <3>1. CASE i \in 1 .. n
      <4>1. inbound'[i] = inbound[i] /\ inbound[i].t \in Transactions
        BY <1>2, <1>6, <3>1
      <4>2. CASE inbound[i].t = t
        BY <1>10, <1>16, <3>1, <4>1, <4>2
      <4>3. CASE inbound[i].t # t
        BY <1>3, <2>2, <3>1, <4>1, <4>3 DEF Inv, PacketInv, OrderInv, n
      <4> QED
        BY <4>2, <4>3
    <3>2. CASE i = n + 1
      BY <1>2, <1>3, <2>2, <3>2
    <3> QED
      BY <1>4, <3>1, <3>2
  <2> QED
    BY <1>2, <2>1, <2>2 DEF OrderInv
<1>18. ComingInv'
  <2>1. ASSUME NEW q \in Coming(t)', NEW r \in Coming(t)' PROVE Same(q, r)
    <3>1. q \in Coming(t) /\ r \in Coming(t) => Same(q, r)
      BY DEF Inv, PacketInv, ComingInv
    <3>2. p.op = "error" => Elements(rest) = {}
      BY <1>14
    <3>3. Same(p, q) /\ Same(p, r)
      BY <1>11, <1>13, <1>14 DEF Same
    <3>4. CASE q \in Elements(rest) \/ r \in Elements(rest)
      BY <1>14, <3>3, <3>4 DEF Same
    <3>5. CASE q = p \/ r = p
      BY <3>3, <3>5 DEF Same
    <3> QED
      BY <1>13, <3>1, <3>4, <3>5
  <2>2. \E q \in Coming(t)' : q.last
    <3>1. CASE rest = << >>
      BY <1>12, <3>1
    <3>2. CASE rest # << >>
      <4>1. Len(rest) \in 1 .. Len(rest)
        BY <1>1, <3>2, EmptySeq
      <4>2. rest[Len(rest)] \in Elements(rest) /\ rest[Len(rest)].last
        BY <4>1 DEF Elements
      <4> QED
        BY <1>12, <4>2
    <3> QED
      BY <3>1, <3>2
  <2>3. ASSUME NEW u \in Transactions \ {t}
        PROVE  /\ \A q, r \in Coming(u)' : Same(q, r)
               /\ Coming(u)' # {} => \E q \in Coming(u)' : q.last
    BY <1>12 DEF Inv, PacketInv, ComingInv
  <2> QED
    BY <2>1, <2>2, <2>3 DEF ComingInv
<1>19. WaitInv'
  <2>1. \A i \in 1 .. n + 1 : inbound'[i].first => trx'[inbound'[i].t].st = "free"
    BY <1>2, <1>4, <1>10 DEF Inv, PacketInv, WaitInv, n, Live
  <2>2. \A u \in Transactions :
           Coming(u)' # {} => Receiving(u)' \/ \E q \in Coming(u)' : q.first
    <3>1. ASSUME ~p.first, NEW q \in Coming(t), q.first PROVE q \in Coming(t)'
      BY <1>12, <3>1 DEF Inv, PacketInv, RestInv, Coming, Elements
    <3>2. Receiving(t)' \/ \E q \in Coming(t)' : q.first
      BY <1>9, <1>12, <3>1 DEF Inv, PacketInv, WaitInv, Receiving
    <3> QED
      BY <1>12, <3>2 DEF Inv, PacketInv, WaitInv, Receiving
  <2>3. \A u \in Transactions : Receiving(u)' => Coming(u)' # {} \/ (Held' /\ T' = u)
    BY <1>8, <1>12 DEF Inv, PacketInv, WaitInv, Receiving
  <2> QED
    BY <1>2, <2>1, <2>2, <2>3 DEF WaitInv, Live
<1>20. TurnInv'
  <2> SUFFICES ASSUME NEW j \in 1 .. n + 1, NEW u \in Transactions,
                      inbound'[j].first, u # inbound'[j].t,
                      \/ \E k \in 1 .. n + 1 : /\ j < k /\ inbound'[k].t = u
                                               /\ Clash(inbound'[j], inbound'[k])
                      \/ conv'[u] # << >> /\ Clash(inbound'[j], conv'[u][1])
               PROVE  \E l \in 1 .. n + 1 : j < l /\ inbound'[l].t = u /\ inbound'[l].first
    BY <1>2 DEF TurnInv
  <2>1. CASE p.first /\ u = t
    BY <1>2, <1>4, <1>5, <1>7, <2>1
  <2>2. CASE p.first /\ u # t
    <3>1. conv'[u] = conv[u]
      BY <1>3, <2>2
    <3>2. j \in 1 .. n /\ inbound'[j] = inbound[j]
      BY <1>2, <1>4, <1>5, <1>7, <2>2, <3>1
    <3>3. \/ \E k \in 1 .. n : j < k /\ inbound[k].t = u /\ Clash(inbound[j], inbound[k])
          \/ conv[u] # << >> /\ Clash(inbound[j], conv[u][1])
      BY <1>2, <1>4, <2>2, <3>1, <3>2, ZenonT(60)
    <3>4. \E l \in 1 .. n : j < l /\ inbound[l].t = u /\ inbound[l].first
      BY <3>2, <3>3 DEF Inv, PacketInv, TurnInv, n
    <3> QED
      BY <1>2, <1>5, <3>4
  <2>3. CASE ~p.first
    <3>1. j \in 1 .. n /\ inbound'[j] = inbound[j]
      BY <1>2, <1>4, <2>3
    <3>2. \/ \E k \in 1 .. n : j < k /\ inbound[k].t = u /\ Clash(inbound[j], inbound[k])
          \/ conv[u] # << >> /\ Clash(inbound[j], conv[u][1])
      <4>1. ASSUME NEW k \in 1 .. n + 1, j < k, inbound'[k].t = u, Clash(inbound[j], inbound'[k])
            PROVE  \/ \E i \in 1 .. n : /\ j < i /\ inbound[i].t = u
                                       /\ Clash(inbound[j], inbound[i])
                   \/ conv[u] # << >> /\ Clash(inbound[j], conv[u][1])
        <5>1. CASE k = n + 1
          BY <1>2, <2>3, <4>1, <5>1 DEF Clash
        <5> QED
          BY <1>2, <1>4, <4>1, <5>1
      <4>2. ASSUME conv'[u] # << >>, Clash(inbound[j], conv'[u][1])
            PROVE  conv[u] # << >> /\ Clash(inbound[j], conv[u][1])
        <5>1. CASE u = t
          <6>1. 1 \in 1 .. Len(rest) /\ rest[1] \in Elements(rest)
            BY <1>1, <1>3, <4>2, <5>1, EmptySeq DEF Elements
          <6>2. rest[1].id = conv[t][1].id
            BY <1>14, <2>3, <6>1 DEF Same
          <6> QED
            BY <1>3, <2>3, <4>2, <5>1, <6>2 DEF Clash
        <5> QED
          BY <1>3, <4>2, <5>1
      <4> QED
        BY <3>1, <4>1, <4>2
    <3>3. \E l \in 1 .. n : j < l /\ inbound[l].t = u /\ inbound[l].first
      BY <3>1, <3>2 DEF Inv, PacketInv, TurnInv, n
    <3> QED
      BY <1>2, <1>5, <3>3
  <2> QED
    BY <2>1, <2>2, <2>3
<1>21. HeldInv'
  <2> SUFFICES ASSUME Held PROVE HeldInv'
    BY <1>8 DEF HeldInv
  <2>1. T \in Transactions /\ Receiving(T) /\ Live(T)
    BY HeldPacket DEF Inv, HeldInv, Receiving, Live
  <2>2. Coming(T)' = Coming(T) \/ (T = t /\ ~p.first)
    BY <1>8, <1>10, <1>12, <2>1
  <2>3. Now.last <=> Coming(T)' = {}
    BY <1>8, <1>9, <1>12, <2>2 DEF Inv, HeldInv
  <2>4. \A q \in Coming(T)' : Same(Now, q)
    <3>1. \A q \in Coming(T) : Same(Now, q)
      BY DEF Inv, HeldInv
    <3>2. CASE T = t /\ ~p.first
      <4>1. Same(Now, conv[t][1]) /\ conv[t][1].op # "error"
        BY <1>9, <3>1, <3>2 DEF Inv, PacketInv, RestInv
      <4>2. Same(Now, p)
        BY <3>2, <4>1 DEF Same
      <4>3. Elements(rest) \subseteq Coming(t)
        BY <3>2 DEF Coming
      <4> QED
        BY <1>8, <1>13, <3>1, <3>2, <4>2, <4>3
    <3> QED
      BY <2>2, <3>1, <3>2
  <2>5. ASSUME Now.first, NEW u \in Transactions, NEW q \in Coming(u)', u # T, Clash(Now, q)
        PROVE  ~Live(u)
    <3>1. CASE u = t /\ p.first
      BY <1>10, <3>1
    <3>2. CASE u = t /\ ~p.first
      <4>1. q.id = p.id
        BY <1>11, <1>13, <1>14, <2>5, <3>2 DEF Same
      <4>2. Clash(Now, conv[t][1]) /\ conv[t][1] \in Coming(t)
        BY <1>9, <2>5, <3>2, <4>1 DEF Clash
      <4> QED
        BY <2>5, <3>2, <4>2 DEF Inv, HeldInv
    <3>3. CASE u # t
      BY <1>12, <2>5, <3>3 DEF Inv, HeldInv
    <3> QED
      BY <3>1, <3>2, <3>3
  <2>6. /\ Receiving(T)' /\ \A u \in Transactions : Live(u)' = Live(u)
        /\ trx' = trx /\ pc' = pc
    BY <1>8, <2>1 DEF Receiving, Live
  <2> QED
    BY <1>8, <2>1, <2>3, <2>4, <2>5, <2>6 DEF Inv, HeldInv
<1>22. StreamInv'
  <2>1. \A u \in Transactions \ {t} : Due(u)' = Due(u)
    BY <1>8, <1>12 DEF Due
  <2>2. Due(t)' \subseteq Due(t) \cup {p} \cup Elements(rest)
    BY <1>8, <1>13 DEF Due
  <2>3. ~p.first => Due(t)' \subseteq Due(t) \cup {p} /\ conv[t][1] \in Due(t)
    BY <1>9, <2>2 DEF Due, Coming
  <2>4. StreamOk(t)'
    <3>1. CASE p.first
      <4>1. /\ trx[t].st = "free" /\ p.op # "error" /\ ~(Held /\ T = t)
        BY <1>10, <3>1 DEF Live, Inv, HeldInv, Receiving, PacketType, Proper
      <4>2. Due(t) = {}
        BY <1>10, <3>1, <4>1 DEF Due
      <4>3. \A q \in Due(t)' : q.op # "error"
        BY <1>14, <2>2, <4>1, <4>2
      <4> QED
        BY <4>1, <4>3 DEF StreamOk, Receiving
    <3>2. CASE ~p.first
      <4>1. StreamOk(t)
        BY DEF Inv, StreamInv
      <4> QED
        BY <2>3, <3>2, <4>1 DEF StreamOk, Receiving
    <3> QED
      BY <3>1, <3>2
  <2>5. \A u \in Transactions : StreamOk(u)'
    BY <2>1, <2>4 DEF Inv, StreamInv, StreamOk, Receiving
  <2>6. up' /\ errorBuf' # None => ErrorOk(errorBuf)'
    <3> SUFFICES ASSUME errorBuf # None PROVE ErrorOk(errorBuf)'
      OBVIOUS
    <3>1. ErrorOk(errorBuf) /\ errorBuf \in Transactions
      BY DEF Inv, StreamInv, TypeInv
    <3>2. CASE errorBuf # t
      <4>1. Due(errorBuf)' = Due(errorBuf)
        BY <2>1, <3>1, <3>2
      <4> QED
        BY <3>1, <4>1 DEF ErrorOk, Receiving
    <3>3. CASE errorBuf = t
      <4>1. ~p.first
        BY <1>10, <3>3
      <4>2. Due(errorBuf)' \subseteq Due(errorBuf) \cup {p} /\ conv[t][1] \in Due(errorBuf)
        BY <2>3, <3>3, <4>1
      <4> QED
        BY <3>1, <3>3, <4>1, <4>2 DEF ErrorOk, Receiving
    <3> QED
      BY <3>2, <3>3
  <2> QED
    BY <2>5, <2>6 DEF StreamInv
<1> QED
  BY <1>2, <1>3, <1>15, <1>17, <1>18, <1>19, <1>20, <1>21, <1>22, CloudKeeps DEF PacketInv

\* A transaction handle that is to spare.
LEMMA SpareTransaction ==
    /\ MaySpare => NewTransaction \in Transactions /\ TransactionFree(NewTransaction)
    /\ Spare > Reserve => MaySpare
<1>1. MaySpare => NewTransaction \in Transactions /\ TransactionFree(NewTransaction)
  BY DEF MaySpare, NewTransaction
<1>2. Cardinality(Handles) \in Nat /\ Cardinality({}) = 0
  BY FS_CardinalityType, FS_EmptySet, ConstantsAssumption
<1>3. ~MaySpare => {t \in Transactions : TransactionFree(t)} = {}
  BY DEF MaySpare
<1>4. ~MaySpare => Spare = 0
  BY <1>2, <1>3 DEF Spare
<1>5. ~(0 > Reserve)
  BY <1>2 DEF Reserve
<1> QED
  BY <1>1, <1>4, <1>5

\* A packet of a request.
LEMMA RequestPacket ==
    ASSUME NEW t \in Transactions, NEW op \in Operations, NEW id \in Ids \cup {None},
           NEW first \in BOOLEAN, NEW last \in BOOLEAN, NEW from \in Nat,
           op = "exec" <=> id = None, op = "start" => first /\ last
    PROVE  Packet(t, op, id, first, last, from) \in PacketType
  BY DEF PacketType, Packet, Proper, Operations

\* Each step of Device Cloud.
LEMMA CloudContinueKeeps ==
    ASSUME Disciplined, Inv, NEW t \in Transactions, CloudContinue(t)
    PROVE  Inv'
<1> DEFINE c == conv[t]
           p == Head(c)
           rest == Tail(c)
<1>1. /\ up /\ c # << >>
      /\ UNCHANGED <<trx, cli, ring, errorBuf, slot, held, pc, callVars, connVars, app, fault>>
      /\ inbound' = Append(inbound, p) /\ conv' = [conv EXCEPT ![t] = rest]
  BY DEF CloudContinue
<1>0. sent' = IF p.op = "data" /\ p.from = sent[p.id]
              THEN [sent EXCEPT ![p.id] = @ + Units] ELSE sent
  BY DEF CloudContinue
<1>2. c \in Seq(PacketType) /\ sent \in [Ids -> Nat] /\ Units \in Nat
  BY ConstantsAssumption DEF Inv, TypeInv
<1>3. /\ Len(c) \in Nat \ {0} /\ p = c[1] /\ p \in PacketType
      /\ rest \in Seq(PacketType) /\ Len(rest) = Len(c) - 1
      /\ \A i \in 1 .. Len(c) - 1 : rest[i] = c[i + 1]
      /\ Elements(c) = {p} \cup Elements(rest)
      /\ rest = << >> <=> Len(c) = 1
  BY <1>1, <1>2, TailElements
<1> HIDE DEF c, p, rest
<1>4. \A i \in 1 .. Len(c) : /\ c[i].t = t /\ ~c[i].first /\ c[i].op # "error"
                             /\ c[i].last <=> i = Len(c)
  BY DEF Inv, PacketInv, RestInv, c
<1>5. p.t = t /\ ~p.first /\ p.op # "error" /\ (p.last <=> rest = << >>)
  BY <1>3, <1>4
<1>6. ASSUME NEW i \in 1 .. Len(rest)
      PROVE  /\ rest[i].t = t /\ ~rest[i].first /\ rest[i].op # "error"
             /\ rest[i].last <=> i = Len(rest)
             /\ Same(p, rest[i])
  <2>1. i \in 1 .. Len(c) - 1 /\ i + 1 \in 1 .. Len(c) /\ (i + 1 = Len(c) <=> i = Len(rest))
    BY <1>3
  <2>2. rest[i] = c[i + 1]
    BY <1>3, <2>1
  <2>3. rest[i] \in Coming(t) /\ p \in Coming(t)
    BY <1>3, <2>1, <2>2 DEF Coming, Elements, c
  <2>4. Same(p, rest[i])
    BY <2>3 DEF Inv, PacketInv, ComingInv
  <2> QED
    BY <1>4, <2>1, <2>2, <2>4
<1>7. sent' \in [Ids -> Nat]
  <2>1. p.op = "data" => p.id \in Ids
    BY <1>3 DEF PacketType, Proper
  <2> QED
    BY <1>0, <1>2, <2>1
<1>8. /\ conv[t] # << >> /\ conv[t][1].id = p.id
      /\ p.op \in {conv[t][1].op, "error"}
      /\ Elements(rest) \subseteq Elements(conv[t])
      /\ p.op = "error" /\ p.id = None => trx[t].ctx \in Handles
  BY <1>1, <1>3, <1>5 DEF c
<1>9. p \in PacketType /\ rest \in Seq(PacketType) /\ (p.op = "error" => rest = << >>)
  BY <1>3, <1>5
<1> QED
  BY <1>1, <1>5, <1>6, <1>7, <1>8, <1>9, CloudSends

\* An error packet takes the place of what is left of a request.
LEMMA CloudGivesUpKeeps ==
    ASSUME Disciplined, Inv, NEW t \in Transactions, CloudGivesUp(t)
    PROVE  Inv'
<1> DEFINE h == Head(conv[t])
           p == Packet(t, "error", h.id, FALSE, TRUE, 0)
<1>1. /\ up /\ conv[t] # << >>
      /\ UNCHANGED <<trx, cli, ring, errorBuf, slot, held, pc, callVars, connVars, app, fault>>
      /\ inbound' = Append(inbound, p) /\ conv' = [conv EXCEPT ![t] = << >>]
      /\ sent' = sent
      /\ h.op = "exec" => trx[t].ctx # None
  BY DEF CloudGivesUp, Disciplined
<1>2. conv[t] \in Seq(PacketType) /\ sent \in [Ids -> Nat]
  BY DEF Inv, TypeInv
<1>3. h = conv[t][1] /\ h \in PacketType /\ 1 \in 1 .. Len(conv[t])
  BY <1>1, <1>2, TailElements
<1>4. h.id \in Ids \cup {None} /\ h.op \in Operations \cup {"error"} /\ Proper(h)
  BY <1>3 DEF PacketType
<1>5. p \in PacketType
  BY <1>4 DEF PacketType, Packet, Proper
<1>6. /\ p.t = t /\ ~p.first /\ p.last /\ p.op = "error" /\ p.id = h.id
  BY DEF Packet
<1>7. h.op # "error" /\ ~h.first
  BY <1>3 DEF Inv, PacketInv, RestInv
<1>8. p.id = None => trx[t].ctx \in Handles
  <2>1. p.id = None => trx[t].ctx # None
    BY <1>1, <1>4, <1>6, <1>7 DEF Proper, Operations
  <2>2. h \in Coming(t)
    BY <1>3 DEF Coming, Elements
  <2>3. \A q \in Coming(t) : q.first => ~Live(t)
    BY <1>7 DEF Inv, PacketInv, WaitInv, RestInv, Coming, Elements
  <2>4. Receiving(t) \/ trx[t].st = "free"
    BY <2>2, <2>3 DEF Inv, PacketInv, WaitInv, Live
  <2>5. TrxOk(t) /\ trx[t] \in TrxType
    BY DEF Inv, TrxInv, TypeInv
  <2>6. trx[t].ctx \in {None} \cup Handles
    BY <2>4, <2>5 DEF TrxOk, TrxType, Receiving, NoTransaction
  <2> QED
    BY <2>1, <2>6
<1>9. << >> \in Seq(PacketType) /\ Len(<< >>) = 0 /\ Elements(<< >>) = {}
  BY EmptySeq DEF Elements
<1>10. \A i \in 1 .. Len(<< >>) : FALSE
  BY <1>9
<1> HIDE DEF h, p
<1> QED
  BY <1>1, <1>2, <1>3, <1>5, <1>6, <1>8, <1>9, <1>10, CloudSends

\* A new request is for a transaction without packets; none that it clashes with is under way.
LEMMA CloudRequestKeeps ==
    ASSUME Disciplined, Inv, CloudRequest
    PROVE  Inv'
<1> DEFINE t == NewTransaction
           From(op, id) == IF op = "data" THEN sent[id] ELSE 0
           Pack(op, n, id) ==
              [i \in 1 .. n |-> Packet(t, op, IF op = "exec" THEN None ELSE id, i = 1, i = n,
                                       From(op, id) + Units * (i - 1))]
<1>1. PICK r \in Requests, id \in Ids :
         /\ r[1] \in {"data", "close"} => \A u \in Transactions : ~Open(u, id)
         /\ inbound' = Append(inbound, Head(Pack(r[1], r[2], id)))
         /\ conv' = [conv EXCEPT ![t] = Tail(Pack(r[1], r[2], id))]
         /\ sent' = CASE r[1] = "start" -> [sent EXCEPT ![id] = 0]
                      [] r[1] = "data"  -> [sent EXCEPT ![id] = @ + Units]
                      [] OTHER          -> sent
  BY DEF CloudRequest, Disciplined
<1> DEFINE op == r[1]
           n == r[2]
           c == Pack(op, n, id)
           p == Head(c)
           rest == Tail(c)
<1>2. /\ up
      /\ UNCHANGED <<trx, cli, ring, errorBuf, slot, held, pc, callVars, connVars, app, fault>>
      /\ \A u \in Transactions : conv[u] # << >> => Head(conv[u]).op # "exec"
      /\ t \in Transactions /\ TransactionFree(t)
  BY SpareTransaction DEF CloudRequest, Disciplined
<1>3. op \in Operations /\ n \in Nat \ {0} /\ (op = "start" => n = 1)
  BY ConstantsAssumption DEF Disciplined
<1>4. Units \in Nat /\ sent \in [Ids -> Nat] /\ From(op, id) \in Nat
  BY ConstantsAssumption DEF Inv, TypeInv
<1>5. ASSUME NEW i \in 1 .. n PROVE c[i] \in PacketType
  <2> DEFINE k == From(op, id) + Units * (i - 1)
             first == i = 1
             last == i = n
             own == IF op = "exec" THEN None ELSE id
  <2>1. k \in Nat
    BY <1>3, <1>4
  <2>2. op # "error" /\ id # None /\ None \notin Ids
    BY <1>3, ConstantsAssumption DEF Operations
  <2>3. c[i] = Packet(t, op, own, first, last, k)
    OBVIOUS
  <2>4. own \in Ids \cup {None} /\ (op = "exec" <=> own = None)
    BY <2>2
  <2>5. (op = "start" => first /\ last) /\ first \in BOOLEAN /\ last \in BOOLEAN
    BY <1>3
  <2> HIDE DEF k, own, c, first, last
  <2> QED
    BY <1>2, <1>3, <2>1, <2>3, <2>4, <2>5, RequestPacket, ZenonT(60)
<1>6. c \in Seq(PacketType) /\ Len(c) = n /\ c # << >>
  <2>1. c \in [1 .. n -> PacketType]
    BY <1>5
  <2> HIDE DEF c, n
  <2> QED
    BY <1>3, <2>1, FunctionIsList
<1>7. \A i \in 1 .. n :
         /\ c[i].t = t /\ c[i].op = op /\ c[i].id = IF op = "exec" THEN None ELSE id
         /\ c[i].first <=> i = 1
         /\ c[i].last <=> i = n
  BY DEF Packet
<1> HIDE DEF c
<1>8. /\ p = c[1] /\ p \in PacketType
      /\ rest \in Seq(PacketType) /\ Len(rest) = n - 1
      /\ \A i \in 1 .. n - 1 : rest[i] = c[i + 1]
      /\ rest = << >> <=> n = 1
  BY <1>6, TailElements
<1> HIDE DEF p, rest, n, op
<1>9. p.t = t /\ p.first /\ (p.last <=> rest = << >>) /\ p.op = op /\ op # "error"
      /\ p.id = IF op = "exec" THEN None ELSE id
  BY <1>3, <1>7, <1>8 DEF Operations
<1>10. ASSUME NEW i \in 1 .. Len(rest)
       PROVE  /\ rest[i].t = t /\ ~rest[i].first /\ rest[i].op # "error"
              /\ rest[i].last <=> i = Len(rest)
              /\ Same(p, rest[i])
  <2>1. i \in 1 .. n - 1 /\ i + 1 \in 1 .. n /\ (i + 1 = n <=> i = Len(rest)) /\ i + 1 # 1
    BY <1>3, <1>8
  <2> QED
    BY <1>7, <1>8, <1>9, <2>1 DEF Same
<1>11. sent' \in [Ids -> Nat]
  BY <1>1, <1>4 DEF op
<1>12. ASSUME NEW u \in Transactions \ {t}, conv[u] # << >> PROVE ~Clash(p, conv[u][1])
  <2>1. /\ 1 \in 1 .. Len(conv[u]) /\ Head(conv[u]) = conv[u][1]
        /\ conv[u][1] \in PacketType
    <3>1. conv[u] \in Seq(PacketType)
      BY DEF Inv, TypeInv
    <3> QED
      BY <1>12, <3>1, TailElements
  <2>2. conv[u][1].op \notin {"exec", "error"}
    BY <1>2, <1>12, <2>1 DEF Inv, PacketInv, RestInv
  <2>3. conv[u][1].id # None
    BY <2>1, <2>2 DEF PacketType, Proper, Operations
  <2>4. CASE op \in {"data", "close"}
    BY <1>1, <1>9, <1>12, <2>1, <2>3, <2>4 DEF Open, Clash, op
  <2>5. CASE op \in {"start", "exec"}
    BY <1>9, <2>3, <2>5 DEF Clash
  <2> QED
    BY <1>3, <2>4, <2>5 DEF Operations
<1>13. /\ inbound' = Append(inbound, p) /\ conv' = [conv EXCEPT ![t] = rest]
  BY <1>1 DEF p, rest, c, op, n
<1> HIDE DEF t
<1> QED
  BY <1>2, <1>8, <1>9, <1>10, <1>11, <1>12, <1>13, CloudSends, ZenonT(60)

-----------------------------------------------------------------------------
\* A packet arrives; the first one of a request creates its transaction.
LEMMA ReceivePacketKeeps ==
    ASSUME Disciplined, Inv, ReceivePacket
    PROVE  Inv'
<1> DEFINE n == Len(inbound)
<1>1. /\ up /\ held = << >> /\ inbound # << >> /\ pc = "step"
      /\ UNCHANGED <<cli, ring, errorBuf, slot, callVars, connVars, app, conv, sent, fault>>
      /\ inbound' = Tail(inbound) /\ pc' = "packet"
  BY DEF ReceivePacket
<1>2. /\ conv \in [Transactions -> Seq(PacketType)] /\ inbound \in Seq(PacketType)
  BY DEF Inv, TypeInv
<1>0. Head(inbound) = inbound[1] /\ Head(inbound) \in PacketType
  BY <1>1, <1>2, TailElements
<1>28. PICK p \in PacketType : p = Head(inbound) /\ p = inbound[1]
  BY <1>0
<1>29. PICK t \in Transactions : t = p.t
  BY DEF PacketType
<1>3. /\ n \in Nat \ {0} /\ p = inbound[1] /\ t = p.t
      /\ inbound' \in Seq(PacketType) /\ Len(inbound') = n - 1
      /\ \A i \in 1 .. n - 1 : inbound'[i] = inbound[i + 1]
      /\ Elements(inbound) = {p} \cup Elements(inbound')
  BY <1>1, <1>2, <1>28, <1>29, TailElements
<1>4. /\ held' = <<p>>
      /\ trx' = IF p.first THEN [trx EXCEPT ![t] = CloudTransaction] ELSE trx
  BY <1>28, <1>29 DEF ReceivePacket
<1>5. ~Held /\ Held' /\ Now' = p /\ T' = t
  BY <1>1, <1>3, <1>4 DEF Held, Now, T
<1>6. t \in Transactions /\ Proper(p)
  BY DEF PacketType
<1>7. 1 \in 1 .. n /\ \A i \in 1 .. n - 1 : i + 1 \in 1 .. n /\ 1 < i + 1
  BY <1>3
<1>8. \A i \in 1 .. n : i = 1 \/ (i - 1 \in 1 .. n - 1 /\ inbound'[i - 1] = inbound[i] /\ 1 < i)
  <2>1. \A i \in 1 .. n : i = 1 \/ (i - 1 \in 1 .. n - 1 /\ (i - 1) + 1 = i /\ 1 < i)
    BY <1>3
  <2> QED
    BY <1>3, <2>1
<1> HIDE DEF n
\* What is to come of the transactions.
<1>9. /\ Coming(t) = {p} \cup Coming(t)'
      /\ \A u \in Transactions \ {t} : Coming(u)' = Coming(u)
  BY <1>1, <1>3, <1>6 DEF Coming
<1>10. /\ p.last => Coming(t)' = {}
       /\ \A q \in Coming(t)' : ~q.first
  <2>1. \A i \in 1 .. n - 1 : inbound'[i].t = t => ~p.last /\ ~inbound'[i].first
    BY <1>3, <1>7 DEF Inv, PacketInv, OrderInv, n
  <2>2. conv[t] # << >> => ~p.last
    BY <1>3, <1>7 DEF Inv, PacketInv, OrderInv, n
  <2>3. \A i \in 1 .. Len(conv[t]) : ~conv[t][i].first
    BY <1>6 DEF Inv, PacketInv, RestInv
  <2>4. p.last => Elements(conv[t]) = {}
    BY <2>2, EmptySeq DEF Elements
  <2>5. \A q \in Elements(inbound') : q.t = t => ~p.last /\ ~q.first
    BY <1>3, <2>1 DEF Elements
  <2> QED
    BY <1>1, <2>3, <2>4, <2>5 DEF Coming, Elements
<1>11. /\ \A q, r \in Coming(t) : Same(q, r)
       /\ \E q \in Coming(t) : q.last
  BY <1>6, <1>9 DEF Inv, PacketInv, ComingInv
<1>12. p.last <=> Coming(t)' = {}
  BY <1>9, <1>10, <1>11
\* The transaction.
<1>13. p.first => ~Live(t)
  BY <1>3, <1>7 DEF Inv, PacketInv, WaitInv, n
<1>14. ~p.first => Receiving(t)
  BY <1>6, <1>9, <1>10 DEF Inv, PacketInv, WaitInv
<1>15. /\ trx' \in [Transactions -> TrxType] /\ trx'[t].st = "receive"
       /\ \A u \in Transactions \ {t} : trx'[u] = trx[u]
       /\ trx'[t].owner = "cloud"
       /\ p.first => trx'[t] = CloudTransaction /\ trx'[t].ctx = None /\ trx'[t].reply
       /\ ~p.first => trx'[t] = trx[t]
  <2>1. /\ CloudTransaction \in TrxType /\ CloudTransaction.ctx = None
        /\ CloudTransaction.st = "receive" /\ CloudTransaction.owner = "cloud"
        /\ CloudTransaction.reply
    BY DEF CloudTransaction, NoTransaction, TrxType, TrxStates
  <2>2. trx \in [Transactions -> TrxType] /\ (Receiving(t) => trx[t].owner = "cloud")
    BY <1>6 DEF Inv, TypeInv, TrxInv, TrxOk
  <2>3. CASE p.first
    BY <1>4, <1>6, <2>1, <2>2, <2>3
  <2>4. CASE ~p.first
    BY <1>4, <1>14, <2>2, <2>4 DEF Receiving
  <2> QED
    BY <2>3, <2>4
<1>16. p.first => trx[t] = NoTransaction
  BY <1>6, <1>13 DEF Live, Inv, TrxInv, TrxOk
<1>17. trx[t].ctx = trx'[t].ctx
  BY <1>15, <1>16 DEF NoTransaction
<1>18. TypeInv'
  BY <1>1, <1>2, <1>3, <1>4, <1>15 DEF Inv, TypeInv, callVars, connVars, Pcs
<1>19. RingInv'
  BY <1>1 DEF Inv, RingInv, SessionOk, Exists
<1>20. PacketInv'
  <2>1. RestInv' /\ OrderInv'
    <3>1. ASSUME NEW i \in 1 .. n - 1, NEW j \in 1 .. n - 1, i < j,
                 inbound'[i].t = inbound'[j].t
          PROVE  ~inbound'[i].last /\ ~inbound'[j].first
      <4>1. i + 1 \in 1 .. n /\ j + 1 \in 1 .. n /\ i + 1 < j + 1
        BY <1>3, <1>7, <3>1
      <4> QED
        BY <1>3, <3>1, <4>1 DEF Inv, PacketInv, OrderInv, n
    <3>2. ASSUME NEW i \in 1 .. n - 1, conv[inbound'[i].t] # << >> PROVE ~inbound'[i].last
      BY <1>3, <1>7, <3>2 DEF Inv, PacketInv, OrderInv, n
    <3>3. RestInv'
      BY <1>1 DEF Inv, PacketInv, RestInv
    <3> QED
      BY <1>1, <1>3, <3>1, <3>2, <3>3 DEF OrderInv
  <2>2. ComingInv'
    <3>1. Coming(t)' # {} => \E q \in Coming(t)' : q.last
      BY <1>9, <1>11, <1>12
    <3> QED
      BY <1>9, <1>11, <3>1 DEF Inv, PacketInv, ComingInv
  <2>3. WaitInv'
    <3>1. ASSUME NEW i \in 1 .. n - 1, inbound'[i].first
          PROVE  trx'[inbound'[i].t].st = "free"
      <4>1. inbound'[i] \in PacketType /\ inbound'[i] \in Elements(inbound')
        BY <1>3, ElementOfSeq DEF Elements
      <4>2. inbound'[i].t # t
        BY <1>10, <3>1, <4>1 DEF Coming
      <4>3. inbound'[i].t \in Transactions
        BY <4>1 DEF PacketType
      <4> QED
        BY <1>3, <1>7, <1>15, <3>1, <4>2, <4>3 DEF Inv, PacketInv, WaitInv, n, Live
    <3>2. \A u \in Transactions :
             Coming(u)' # {} => Receiving(u)' \/ \E q \in Coming(u)' : q.first
      BY <1>9, <1>15 DEF Inv, PacketInv, WaitInv, Receiving
    <3>3. \A u \in Transactions : Receiving(u)' => Coming(u)' # {} \/ (Held' /\ T' = u)
      BY <1>1, <1>5, <1>9, <1>15 DEF Inv, PacketInv, WaitInv, Receiving
    <3> QED
      BY <1>3, <3>1, <3>2, <3>3 DEF WaitInv, Live
  <2>4. TurnInv'
    <3> SUFFICES ASSUME NEW j \in 1 .. n - 1, NEW u \in Transactions,
                        inbound'[j].first, u # inbound'[j].t,
                        \/ \E k \in 1 .. n - 1 : /\ j < k /\ inbound'[k].t = u
                                                 /\ Clash(inbound'[j], inbound'[k])
                        \/ conv[u] # << >> /\ Clash(inbound'[j], conv[u][1])
                 PROVE  \E l \in 1 .. n - 1 : j < l /\ inbound'[l].t = u /\ inbound'[l].first
      BY <1>1, <1>3, SMTT(30) DEF TurnInv
    <3>1. j + 1 \in 1 .. n /\ inbound'[j] = inbound[j + 1]
      BY <1>3, <1>7
    <3>2. \A k \in 1 .. n - 1 : j < k => j + 1 < k + 1
      BY <1>3
    <3>3. \/ \E k \in 1 .. n : /\ j + 1 < k /\ inbound[k].t = u
                               /\ Clash(inbound[j + 1], inbound[k])
          \/ conv[u] # << >> /\ Clash(inbound[j + 1], conv[u][1])
      BY <1>3, <1>7, <3>1, <3>2
    <3>4. PICK l \in 1 .. n : j + 1 < l /\ inbound[l].t = u /\ inbound[l].first
      BY <3>1, <3>3 DEF Inv, PacketInv, TurnInv, n
    <3>5. l - 1 \in 1 .. n - 1 /\ j < l - 1 /\ inbound'[l - 1] = inbound[l]
      BY <1>3, <1>8, <3>4
    <3> QED
      BY <3>4, <3>5
  <2> QED
    BY <2>1, <2>2, <2>3, <2>4 DEF PacketInv
<1>21. HeldInv'
  <2>1. ASSUME p.first, NEW u \in Transactions, NEW q \in Coming(u)', u # t, Clash(p, q)
        PROVE  ~Live(u)'
    <3>1. q \in Coming(u)
      BY <1>9, <2>1
    <3>2. \/ \E k \in 1 .. n : 1 < k /\ inbound[k].t = u /\ Clash(p, inbound[k])
          \/ conv[u] # << >> /\ Clash(p, conv[u][1])
      <4>1. CASE \E k \in 1 .. n : q = inbound[k] /\ q.t = u
        BY <1>3, <1>8, <1>9, <2>1, <4>1
      <4>2. CASE \E k \in 1 .. Len(conv[u]) : q = conv[u][k]
        <5>1. conv[u] # << >> /\ 1 \in 1 .. Len(conv[u])
          <6>1. conv[u] \in Seq(PacketType) /\ Len(conv[u]) # 0
            BY <1>2, <4>2
          <6> QED
            BY <6>1, LenProperties, EmptySeq
        <5>2. conv[u][1] \in Coming(u)
          BY <5>1 DEF Coming, Elements
        <5>3. conv[u][1].id = q.id
          BY <3>1, <5>2 DEF Inv, PacketInv, ComingInv, Same
        <5> QED
          BY <2>1, <5>1, <5>3 DEF Clash
      <4> QED
        BY <3>1, <4>1, <4>2 DEF Coming, Elements, n
    <3>3. \E l \in 1 .. n : 1 < l /\ inbound[l].t = u /\ inbound[l].first
      BY <1>3, <1>7, <2>1, <3>2 DEF Inv, PacketInv, TurnInv, n
    <3>4. ~Live(u)
      BY <3>3 DEF Inv, PacketInv, WaitInv, n
    <3> QED
      BY <1>15, <2>1, <3>4 DEF Live
  <2>2. \A q \in Coming(t)' : Same(p, q)
    BY <1>9, <1>11
  <2>3. p.op = "start" => p.first
    BY <1>6 DEF Proper
  <2> QED
    BY <1>5, <1>12, <1>15, <2>1, <2>2, <2>3 DEF HeldInv, Receiving
<1>22. TrxInv' /\ DownInv'
  <2>1. slot \in Transactions => slot # t \/ ~p.first
    BY <1>13 DEF Inv, TrxInv, Live
  <2>2. TrxOk(t)'
    <3>1. CASE p.first
      <4>1. None # Gone
        BY ConstantsAssumption
      <4> QED
        BY <1>15, <3>1, <4>1 DEF TrxOk, CloudTransaction, NoTransaction, Receiving
    <3>2. CASE ~p.first
      BY <1>1, <1>6, <1>15, <3>2 DEF Inv, TrxInv, TrxOk, Receiving, connVars
    <3> QED
      BY <3>1, <3>2
  <2>3. \A u \in Transactions \ {t} : TrxOk(u)'
    BY <1>1, <1>15 DEF Inv, TrxInv, TrxOk, Receiving, connVars
  <2>4. up'
    BY <1>1 DEF connVars
  <2> QED
    BY <1>1, <1>15, <2>1, <2>2, <2>3, <2>4 DEF Inv, TrxInv, DownInv
<1>23. LinkInv'
  <2>1. \A u \in Transactions :
           /\ trx'[u].ctx = trx[u].ctx
           /\ trx'[u] = trx[u] \/ (u = t /\ p.first)
    BY <1>15, <1>17
  <2>2. p.first => trx[t].ctx = None /\ trx[t].st = "free"
    BY <1>16 DEF NoTransaction
  <2>3. \A s \in Handles : ~Restarts(s) /\ ~Moving(s)
    BY <1>5 DEF Restarts, Moving, Held
  <2>4. None \notin Handles
    BY ConstantsAssumption
  <2>5. up' /\ cli' = cli
    BY <1>1 DEF connVars
  <2>6. ASSUME NEW s \in Handles PROVE RecvOk(s)' /\ SendOk(s)' /\ ExecOk(s)' /\ StateOk(s)'
    <3>1. RecvOk(s) /\ SendOk(s) /\ ExecOk(s) /\ StateOk(s)
      BY <1>1 DEF Inv, LinkInv
    <3>2. cli[s].recv \in Transactions \cup {None} /\ cli[s].send \in Transactions \cup {None}
      BY DEF Inv, TypeInv, CliType
    <3>3. RecvOk(s)'
      BY <2>1, <2>2, <2>5, <3>1, <3>2 DEF RecvOk, Receiving
    <3>4. SendOk(s)'
      BY <2>1, <2>2, <2>3, <2>4, <2>5, <3>1, <3>2 DEF SendOk, Receiving
    <3>5. ExecOk(s)'
      BY <2>1, <2>2, <2>4, <2>5, <3>1 DEF ExecOk
    <3>6. StateOk(s)'
      BY <2>1, <2>2, <2>3, <2>4, <2>5, <3>1, <3>2, <3>4 DEF StateOk, SendOk
    <3> QED
      BY <3>3, <3>4, <3>5, <3>6
  <2>7. \A u \in Transactions : CtxOk(u)'
    BY <2>1, <2>2, <2>4, <2>5 DEF Inv, LinkInv, CtxOk, Receiving, Exists
  <2> QED
    BY <2>6, <2>7 DEF LinkInv
<1>24. PcInv'
  BY <1>1, <1>5 DEF PcInv, Handling, Answering
<1>25. StreamInv'
  <2>1. \A u \in Transactions : Due(u)' = Due(u)
    BY <1>5, <1>9 DEF Due
  <2>2. StreamOk(t)'
    <3>1. CASE p.first
      <4>1. None \notin Handles /\ ~Receiving(t) /\ trx[t].ctx = None
        BY <1>16, <3>1, ConstantsAssumption DEF NoTransaction, Receiving
      <4>2. StreamOk(t)
        BY <1>6 DEF Inv, StreamInv
      <4> QED
        BY <1>15, <1>17, <2>1, <1>6, <4>1, <4>2 DEF StreamOk
    <3>2. CASE ~p.first
      BY <1>1, <1>6, <1>15, <2>1, <3>2 DEF Inv, StreamInv, StreamOk, Receiving
    <3> QED
      BY <3>1, <3>2
  <2>3. \A u \in Transactions \ {t} : StreamOk(u)'
    BY <1>1, <1>15, <2>1 DEF Inv, StreamInv, StreamOk, Receiving
  <2>4. errorBuf # None => ErrorOk(errorBuf) /\ errorBuf \in Transactions
    BY <1>1 DEF Inv, StreamInv, TypeInv
  <2>5. errorBuf # None => trx'[errorBuf] = trx[errorBuf] /\ Due(errorBuf)' = Due(errorBuf)
    <3>1. errorBuf # None => Live(errorBuf)
      BY <2>4 DEF ErrorOk, Live, Receiving
    <3> QED
      BY <1>1, <1>13, <1>15, <2>1, <2>4, <3>1
  <2>6. errorBuf' = errorBuf
    BY <1>1
  <2>7. errorBuf # None => ErrorOk(errorBuf)'
    BY <2>4, <2>5, <2>6 DEF ErrorOk, Receiving
  <2> QED
    BY <2>2, <2>3, <2>6, <2>7 DEF StreamInv
<1>26. AppAgrees'
  BY <1>1 DEF Inv, AppAgrees, callVars
<1> QED
  BY <1>18, <1>19, <1>20, <1>21, <1>22, <1>23, <1>24, <1>25, <1>26 DEF Inv

-----------------------------------------------------------------------------
\* A step is about one session, s0, or none, and the transactions W: the others keep what
\* they have.  A start for another session is not under way, or its packet is left alone.
Elsewhere(s0, W) ==
    /\ up' = up /\ UNCHANGED <<inbound, conv>> /\ held' \in {held, << >>}
    /\ \A s \in Handles \ {s0} : cli'[s] = cli[s]
    /\ \A t \in Transactions \ W : trx'[t] = trx[t]
    /\ \A t \in W : trx[t].ctx \notin Handles \ {s0} /\ trx'[t].ctx \notin Handles \ {s0}
    /\ \A s \in Handles \ {s0} :
          Restarts(s) => held' = held /\ (T \in W => trx[T].ctx # None)
SessionLinks(s) == RecvOk(s) /\ SendOk(s) /\ ExecOk(s) /\ (up => StateOk(s))

\* What is known of a session stays when neither it nor its transactions take part in a step.
LEMMA SessionElsewhere ==
    ASSUME Inv, NEW s0 \in Handles \cup {None}, NEW W \in SUBSET Transactions,
           Elsewhere(s0, W), NEW s \in Handles, s # s0
    PROVE  SessionLinks(s)'
<1>1. /\ cli'[s] = cli[s] /\ cli[s] \in CliType /\ SessionLinks(s) /\ SessionOk(s)
      /\ up' = up /\ None \notin Handles /\ None \notin Ids
  BY ConstantsAssumption DEF Inv, TypeInv, Elsewhere, SessionLinks, LinkInv, RingInv
<1>2. \A t \in Transactions : trx[t].ctx = s => trx'[t] = trx[t] /\ t \notin W
  BY DEF Elsewhere
<1>3. \A t \in Transactions : trx'[t].ctx = s => trx'[t] = trx[t]
  BY DEF Elsewhere
<1>4. Held /\ held' = held => Held' /\ Now' = Now /\ T' = T
  BY DEF Held, Now, T
<1>5. ASSUME Restarts(s)
      PROVE  Held /\ Held' /\ Now' = Now /\ T' = T /\ T \in Transactions /\ trx'[T] = trx[T]
  <2>1. Held /\ held' = held
    BY <1>5 DEF Restarts, Held, Elsewhere
  <2>2. Now \in PacketType /\ T \in Transactions
    BY <2>1, HeldPacket DEF Inv
  <2>3. Receiving(T) /\ TrxOk(T) /\ StreamOk(T) /\ CtxOk(T) /\ Now \in Due(T)
    BY <2>1, <2>2 DEF Inv, HeldInv, TrxInv, StreamInv, LinkInv, Due
  <2>4. cli[s].id # None /\ Exists(s)
    BY <1>1, <1>5, <2>2 DEF Restarts, PacketType, Proper, SessionOk, NoSession, Exists
  <2>5. ASSUME T \in W PROVE FALSE
    <3>1. trx[T].ctx = s0 /\ s0 \in Handles
      <4>1. trx[T].ctx \notin Handles \ {s0} /\ trx[T].ctx # None
        BY <1>1, <1>5, <2>5 DEF Elsewhere
      <4>2. trx[T].ctx # Gone /\ trx[T] \in TrxType
        BY <2>2, <2>3 DEF TrxOk, Receiving, Inv, TypeInv
      <4> QED
        BY <4>1, <4>2 DEF TrxType
    <3>2. Exists(s0) /\ cli[s0].id = cli[s].id
      BY <1>5, <2>3, <3>1 DEF StreamOk, CtxOk, Restarts
    <3> QED
      BY <2>4, <3>1, <3>2 DEF Inv, RingInv
  <2> QED
    BY <1>4, <2>1, <2>2, <2>5 DEF Elsewhere
<1>6. Restarts(s) => Restarts(s)' /\ Moving(s)' = Moving(s)
  BY <1>1, <1>5 DEF Restarts, Moving, Held
<1>7. RecvOk(s)'
  BY <1>1, <1>2 DEF SessionLinks, RecvOk, Receiving, CliType
<1>8. SendOk(s)'
  BY <1>1, <1>2, <1>5, <1>6 DEF SessionLinks, SendOk, Receiving, CliType
<1>9. ExecOk(s)'
  BY <1>1, <1>2, <1>3 DEF SessionLinks, ExecOk
<1>10. up => StateOk(s)'
  <2>1. ASSUME cli[s].send # None, ~Restarts(s)
        PROVE  ~Moving(s) \/ cli[s].st = "execute_command"
    BY <1>1, <2>1 DEF SessionLinks, SendOk, Moving, Inv, HeldInv, Receiving
  <2>2. cli[s].send # None =>
           trx'[cli[s].send].owner = trx[cli[s].send].owner \/ cli[s].st # "ack_start"
           \/ Restarts(s)
    BY <1>1, <1>2 DEF SessionLinks, SendOk, CliType
  <2>3. Restarts(s) => (cli[s].send # None /\ trx[cli[s].send].ctx # s => cli[s].send = T)
    BY <1>1 DEF SessionLinks, SendOk, Moving
  <2>4. cli[s].send # None => trx'[cli[s].send].owner = trx[cli[s].send].owner
    BY <1>1, <1>2, <1>5, <2>3 DEF SessionLinks, SendOk, CliType
  <2> QED
    BY <1>1, <1>6, <2>1, <2>4 DEF SessionLinks, StateOk
<1> QED
  BY <1>1, <1>7, <1>8, <1>9, <1>10 DEF SessionLinks

\* What the step must establish itself: the links of its session and of its transactions,
\* what the send buffer holds, and the transaction in the error buffer.
LEMMA SessionStep ==
    ASSUME Inv, NEW s0 \in Handles \cup {None}, NEW W \in SUBSET Transactions,
           Elsewhere(s0, W),
           s0 \in Handles => SessionLinks(s0)',
           \A t \in Transactions :
              t \in W \/ (s0 \in Handles /\ trx[t].ctx = s0) => CtxOk(t)' /\ StreamOk(t)',
           \A t \in W : TrxOk(t)',
           slot' \in Transactions => trx'[slot'].st = "wait",
           \/ errorBuf' = errorBuf /\ errorBuf \notin W
           \/ errorBuf' = None
           \/ ErrorOk(errorBuf)'
           \/ ~up
    PROVE  LinkInv' /\ TrxInv' /\ StreamInv'
<1>1. up' = up /\ \A t \in Transactions \ W : trx'[t] = trx[t]
  BY DEF Elsewhere
<1>2. ASSUME NEW t \in Transactions PROVE Due(t)' \subseteq Due(t)
  <2>1. Coming(t)' = Coming(t)
    BY DEF Elsewhere, Coming
  <2>2. held' = held => Held' = Held /\ Now' = Now /\ T' = T
    BY DEF Held, Now, T
  <2>3. held' = << >> => ~Held'
    BY DEF Held
  <2> QED
    BY <2>1, <2>2, <2>3 DEF Elsewhere, Due
<1>3. \A t \in Transactions : TrxOk(t)'
  BY <1>1 DEF Inv, TrxInv, TrxOk, Receiving
<1>4. ASSUME NEW t \in Transactions \ W, ~(s0 \in Handles /\ trx[t].ctx = s0)
      PROVE  CtxOk(t)' /\ StreamOk(t)'
  <2>1. CtxOk(t) /\ StreamOk(t) /\ trx'[t] = trx[t]
    BY <1>1 DEF Inv, LinkInv, StreamInv
  <2>2. trx[t].ctx \in Handles => cli'[trx[t].ctx] = cli[trx[t].ctx]
    BY <1>4 DEF Elsewhere
  <2> QED
    BY <1>2, <2>1, <2>2 DEF CtxOk, StreamOk, Receiving, Exists
<1>5. \A s \in Handles : SessionLinks(s)'
  BY SessionElsewhere
<1>6. LinkInv'
  <2>1. \A t \in Transactions : CtxOk(t)'
    BY <1>4
  <2> QED
    BY <1>5, <2>1 DEF SessionLinks, LinkInv
<1>7. errorBuf' # None /\ up' => ErrorOk(errorBuf)'
  <2> SUFFICES ASSUME errorBuf' = errorBuf, errorBuf \notin W, errorBuf # None, up
               PROVE  ErrorOk(errorBuf)'
    BY <1>1
  <2>1. errorBuf \in Transactions /\ ErrorOk(errorBuf) /\ trx'[errorBuf] = trx[errorBuf]
    BY <1>1 DEF Inv, TypeInv, StreamInv
  <2>2. Due(errorBuf)' \subseteq Due(errorBuf)
    BY <1>2, <2>1
  <2> QED
    BY <2>1, <2>2 DEF ErrorOk, Receiving
<1>8. StreamInv'
  BY <1>4, <1>7 DEF StreamInv
<1> QED
  BY <1>3, <1>6, <1>8 DEF TrxInv

-----------------------------------------------------------------------------
\* The list of sessions: a session that changes keeps its place and its id, or the first
\* one becomes the last.
LEMMA RotatedOnce ==
    ASSUME ring \in Seq(Handles), Once(ring)
    PROVE  /\ Rotated \in Seq(Handles) /\ Once(Rotated)
           /\ Len(Rotated) = Len(ring) /\ Elements(Rotated) = Elements(ring)
<1>1. CASE ring = << >>
  BY <1>1 DEF Rotated
<1>2. CASE ring # << >>
  <2> DEFINE n == Len(ring)
             h == Head(ring)
             t == Tail(ring)
             a == Append(t, h)
  <2>1. /\ n \in Nat \ {0} /\ h = ring[1] /\ h \in Handles
        /\ t \in Seq(Handles) /\ Len(t) = n - 1
        /\ \A i \in 1 .. n - 1 : t[i] = ring[i + 1]
        /\ Elements(ring) = {h} \cup Elements(t)
    BY <1>2, TailElements
  <2> HIDE DEF t, h
  <2>2. /\ a \in Seq(Handles) /\ Len(a) = (n - 1) + 1
        /\ \A i \in 1 .. n - 1 : a[i] = t[i]
        /\ a[(n - 1) + 1] = h
        /\ Elements(a) = Elements(t) \cup {h}
    BY <2>1, AppendedElements
  <2>3. \A i \in 1 .. n - 1 : a[i] = ring[i + 1] /\ i + 1 \in 1 .. n /\ i + 1 # 1
    BY <2>1, <2>2
  <2>4. Len(a) = n /\ a[n] = ring[1] /\ 1 \in 1 .. n
    BY <2>1, <2>2
  <2>5. \A i \in 1 .. n : i \in 1 .. n - 1 \/ i = n
    BY <2>1
  <2> HIDE DEF a, n
  <2>6. ASSUME NEW i \in 1 .. n, NEW j \in 1 .. n, a[i] = a[j] PROVE i = j
    <3>1. CASE i \in 1 .. n - 1 /\ j \in 1 .. n - 1
      <4>1. i + 1 = j + 1
        BY <2>3, <2>6, <3>1 DEF Once, n
      <4> QED
        BY <2>1, <3>1, <4>1
    <3>2. CASE i \in 1 .. n - 1 /\ j = n
      BY <2>3, <2>4, <2>6, <3>2 DEF Once, n
    <3>3. CASE i = n /\ j \in 1 .. n - 1
      BY <2>3, <2>4, <2>6, <3>3 DEF Once, n
    <3> QED
      BY <2>5, <3>1, <3>2, <3>3
  <2>7. Rotated = a
    BY <1>2 DEF Rotated, a, t, h
  <2> QED
    BY <2>1, <2>2, <2>4, <2>6, <2>7 DEF Once, n
<1> QED
  BY <1>1, <1>2

\* The list keeps its sessions when it is rotated and none of them ends.
LEMMA RingKept ==
    ASSUME Inv, NEW s0 \in Handles \cup {None}, ring' \in {ring, Rotated},
           \A s \in Handles \ {s0} : cli'[s] = cli[s],
           s0 \in Handles => /\ Exists(s0) /\ SessionOk(s0)'
                             /\ cli'[s0].id = cli[s0].id /\ cli'[s0].st # "free"
    PROVE  RingInv' /\ ring' \in Seq(Handles)
<1>1. /\ ring \in Seq(Handles) /\ Once(ring) /\ Len(ring) <= MaxSessions
      /\ Elements(ring) = {s \in Handles : Exists(s)}
      /\ \A s \in Handles : SessionOk(s)
      /\ \A s, r \in Handles : Exists(s) /\ Exists(r) /\ cli[s].id = cli[r].id
                                  /\ cli[s].id # None => s = r
  BY DEF Inv, TypeInv, RingInv
<1>2. /\ ring' \in Seq(Handles) /\ Once(ring')
      /\ Len(ring') <= MaxSessions /\ Elements(ring') = Elements(ring)
  <2>1. CASE ring' = ring
    BY <1>1, <2>1
  <2>2. CASE ring' = Rotated
    BY <1>1, <2>2, RotatedOnce
  <2> QED
    BY <2>1, <2>2
<1>3. \A s \in Handles : (Exists(s)' <=> Exists(s)) /\ cli'[s].id = cli[s].id /\ SessionOk(s)'
  BY <1>1 DEF Exists, SessionOk
<1>4. Once(ring)' /\ Elements(ring)' = {s \in Handles : Exists(s)'}
  BY <1>1, <1>2, <1>3 DEF Once, Elements
<1> QED
  BY <1>1, <1>2, <1>3, <1>4 DEF RingInv

\* A session that exists is in the list; one that is removed leaves it.
LEMMA SessionListed ==
    ASSUME Inv, NEW s \in Handles, Exists(s)
    PROVE  Position(s) \in 1 .. Len(ring) /\ ring[Position(s)] = s
<1>1. DOMAIN ring = 1 .. Len(ring)
  BY LenProperties DEF Inv, TypeInv
<1>2. \E i \in 1 .. Len(ring) : ring[i] = s
  BY DEF Inv, RingInv, Elements
<1> QED
  BY <1>1, <1>2 DEF Position

\* A session that is freed leaves the list; the others stay.
LEMMA SessionFreed ==
    ASSUME Inv, NEW s \in Handles, Exists(s), Free(s)
    PROVE  /\ RingInv' /\ ring' \in Seq(Handles) /\ cli' \in [Handles -> CliType]
           /\ cli'[s] = NoSession /\ \A r \in Handles \ {s} : cli'[r] = cli[r]
<1>1. /\ ring \in Seq(Handles) /\ Once(ring) /\ Len(ring) \in Nat /\ cli \in [Handles -> CliType]
      /\ Elements(ring) = {r \in Handles : Exists(r)} /\ Len(ring) <= MaxSessions
      /\ MaxSessions \in Nat
  BY LenProperties, ConstantsAssumption DEF Inv, TypeInv, RingInv
<1>2. ring' = RemoveAt(ring, Position(s)) /\ Position(s) \in 1 .. Len(ring)
      /\ ring[Position(s)] = s
  BY SessionListed DEF Free
<1>3. /\ ring' \in Seq(Handles) /\ Len(ring') = Len(ring) - 1
      /\ Once(ring') /\ Elements(ring') = Elements(ring) \ {s}
  BY <1>1, <1>2, RemoveAtIs, RemovedOnce
<1>4. NoSession \in CliType /\ NoSession.st = "free"
  BY ConstantsAssumption DEF NoSession, CliType, CliStates
<1>5. /\ cli' \in [Handles -> CliType]
      /\ cli'[s] = NoSession /\ \A r \in Handles \ {s} : cli'[r] = cli[r]
  BY <1>1, <1>4 DEF Free
<1>6. \A r \in Handles : (Exists(r)' <=> r # s /\ Exists(r)) /\ SessionOk(r)'
  BY <1>4, <1>5 DEF Exists, SessionOk, Inv, RingInv
<1>7. Elements(ring') = {r \in Handles : Exists(r)'}
  BY <1>1, <1>3, <1>6
<1>8. Len(ring') <= MaxSessions
  BY <1>1, <1>3
<1>9. \A p, q \in Handles : Exists(p)' /\ Exists(q)' /\ cli'[p].id = cli'[q].id
                               /\ cli'[p].id # None => p = q
  BY <1>5, <1>6 DEF Inv, RingInv
<1> QED
  BY <1>3, <1>5, <1>6, <1>7, <1>8, <1>9 DEF RingInv, Once, Elements

\* The session that is found for an id has it, and if none is found no session has.
LEMMA FindIs ==
    ASSUME Inv, NEW id \in Ids
    PROVE  \/ /\ Find(id) = None /\ \A s \in Handles : Exists(s) => cli[s].id # id
           \/ Find(id) \in Handles /\ Exists(Find(id)) /\ cli[Find(id)].id = id
<1> DEFINE found == {i \in DOMAIN ring : cli[ring[i]].id = id}
<1>1. /\ DOMAIN ring = 1 .. Len(ring) /\ Len(ring) \in Nat
      /\ Elements(ring) = {s \in Handles : Exists(s)}
  BY LenProperties DEF Inv, TypeInv, RingInv
<1>2. \A i \in 1 .. Len(ring) : ring[i] \in Handles /\ Exists(ring[i])
  BY <1>1 DEF Elements
<1>3. CASE found = {}
  <2>1. \A i \in 1 .. Len(ring) : cli[ring[i]].id # id
    BY <1>1, <1>3
  <2>2. \A s \in Handles : Exists(s) => \E i \in 1 .. Len(ring) : ring[i] = s
    BY <1>1 DEF Elements
  <2> QED
    BY <1>3, <2>1, <2>2 DEF Find
<1>4. CASE found # {}
  <2>1. found \in SUBSET Nat /\ IsFiniteSet(found)
    <3>1. IsFiniteSet(1 .. Len(ring))
      BY <1>1, FS_Interval
    <3> QED
      BY <1>1, <3>1, FS_Subset
  <2>2. Min(found) \in found
    BY <1>4, <2>1, MinOf
  <2>3. Find(id) = ring[Min(found)]
    BY <1>4 DEF Find
  <2> QED
    BY <1>1, <1>2, <2>2, <2>3
<1> QED
  BY <1>3, <1>4

\* The session that is polled exists.
LEMMA CandidateIs ==
    ASSUME Inv
    PROVE  Candidate = None \/ (Candidate \in Handles /\ Exists(Candidate) /\ ToPoll(Candidate))
<1> DEFINE found == {i \in DOMAIN ring : ToPoll(ring[i])}
<1>1. /\ DOMAIN ring = 1 .. Len(ring) /\ Len(ring) \in Nat
      /\ Elements(ring) = {s \in Handles : Exists(s)}
  BY LenProperties DEF Inv, TypeInv, RingInv
<1>2. \A i \in 1 .. Len(ring) : ring[i] \in Handles /\ Exists(ring[i])
  BY <1>1 DEF Elements
<1>3. CASE found = {}
  BY <1>3 DEF Candidate
<1>4. CASE found # {}
  <2>1. found \in SUBSET Nat /\ IsFiniteSet(found)
    <3>1. IsFiniteSet(1 .. Len(ring))
      BY <1>1, FS_Interval
    <3> QED
      BY <1>1, <3>1, FS_Subset
  <2>2. Min(found) \in found
    BY <1>4, <2>1, MinOf
  <2>3. Candidate = ring[Min(found)]
    BY <1>4 DEF Candidate
  <2> QED
    BY <1>1, <1>2, <2>2, <2>3
<1> QED
  BY <1>3, <1>4

\* What the application has, session by session.
AppOk(s) ==
    app[s].is =
        CASE cli[s].st \in {"free", "uninitialized"} -> "none"
          [] cli[s].st = "execute_command" -> IF pc = "end_response" /\ cur = s THEN "executed"
                                              ELSE "command"
          [] cli[s].st = "start_failed" -> "failed"
          [] OTHER -> IF app[s].is = "failed" THEN "failed" ELSE "open"

\* The application agrees still when the session of a step agrees.
LEMMA AppKept ==
    ASSUME Inv, NEW s0 \in Handles \cup {None},
           \A s \in Handles \ {s0} : cli'[s] = cli[s] /\ app'[s] = app[s],
           pc = "end_response" => cur = s0, pc' = "end_response" => cur' = s0,
           s0 \in Handles => AppOk(s0)'
    PROVE  AppAgrees'
<1>1. \A s \in Handles : AppOk(s)
  BY DEF Inv, AppAgrees, AppOk
<1>2. ASSUME NEW s \in Handles, s # s0 PROVE AppOk(s)'
  <2>1. cli'[s] = cli[s] /\ app'[s] = app[s] /\ AppOk(s)
    BY <1>1, <1>2
  <2>2. ~(pc = "end_response" /\ cur = s) /\ ~(pc' = "end_response" /\ cur' = s)
    BY <1>2
  <2> QED
    BY <2>1, <2>2 DEF AppOk
<1>3. \A s \in Handles : AppOk(s)'
  BY <1>2
<1> QED
  BY <1>3 DEF AppAgrees, AppOk

\* Pointers that are cleared, and a packet that is taken.
LEMMA DetachIs ==
    ASSUME NEW table \in [Transactions -> TrxType], NEW ptrs
    PROVE  /\ Detach(table, ptrs) \in [Transactions -> TrxType]
           /\ \A t \in Transactions :
                /\ Detach(table, ptrs)[t].st = table[t].st
                /\ Detach(table, ptrs)[t].owner = table[t].owner
                /\ Detach(table, ptrs)[t].reply = table[t].reply
                /\ Detach(table, ptrs)[t].last = table[t].last
                /\ t \notin ptrs => Detach(table, ptrs)[t] = table[t]
                /\ table[t].st = "free" => Detach(table, ptrs)[t] = table[t]
                /\ t \in ptrs /\ table[t].st # "free" => Detach(table, ptrs)[t].ctx = None
  BY DEF Detach, TrxType

\* What the packet leaves behind when it is taken.
LEMMA WorkingIs ==
    ASSUME TypeInv, Held, NEW table \in [Transactions -> TrxType], Working(table)
    PROVE  /\ held' = << >> /\ pc' = "sessions" /\ cur' = None /\ at' = at
           /\ trx' \in [Transactions -> TrxType] /\ T \in Transactions
           /\ \A t \in Transactions \ {T} : trx'[t] = table[t]
           /\ trx'[T].ctx = table[T].ctx /\ trx'[T].owner = table[T].owner
           /\ trx'[T].reply = table[T].reply /\ trx'[T].last = table[T].last
           /\ ~Now.last => trx'[T] = table[T]
           /\ Now.last => trx'[T].st = IF table[T].reply THEN "get_data" ELSE "delete"
<1>1. T \in Transactions /\ table[T] \in TrxType
  BY HeldPacket
<1>2. Taken(table[T]) \in TrxType
  BY <1>1 DEF Taken, TrxType, TrxStates
<1>3. /\ Taken(table[T]).ctx = table[T].ctx /\ Taken(table[T]).owner = table[T].owner
      /\ Taken(table[T]).reply = table[T].reply /\ Taken(table[T]).last = table[T].last
      /\ ~Now.last => Taken(table[T]) = table[T]
      /\ Now.last => Taken(table[T]).st = IF table[T].reply THEN "get_data" ELSE "delete"
  BY <1>1 DEF Taken, TrxType
<1>4. trx' \in [Transactions -> TrxType] /\ trx'[T] = Taken(table[T])
      /\ \A t \in Transactions \ {T} : trx'[t] = table[t]
  BY <1>1, <1>2 DEF Working
<1> QED
  BY <1>1, <1>3, <1>4 DEF Working


-----------------------------------------------------------------------------
\* A step of a round: what has to be shown of it, for its session s0 and transactions W.
LEMMA StepKeeps ==
    ASSUME Inv, up, NEW s0 \in Handles \cup {None}, NEW W \in SUBSET Transactions,
           Elsewhere(s0, W),
           TypeInv', RingInv', PacketInv', HeldInv', PcInv', AppAgrees',
           s0 \in Handles => SessionLinks(s0)',
           \A t \in Transactions :
              t \in W \/ (s0 \in Handles /\ trx[t].ctx = s0) => CtxOk(t)' /\ StreamOk(t)',
           \A t \in W : TrxOk(t)',
           slot' \in Transactions => trx'[slot'].st = "wait",
           \/ errorBuf' = errorBuf /\ errorBuf \notin W
           \/ errorBuf' = None
           \/ ErrorOk(errorBuf)'
    PROVE  Inv'
<1>1. DownInv'
  BY DEF DownInv, Elsewhere
<1>2. LinkInv' /\ TrxInv' /\ StreamInv'
  BY SessionStep
<1> QED
  BY <1>1, <1>2 DEF Inv

\* A step in which sessions and transactions stay as they are.
LEMMA StillKeeps ==
    ASSUME Inv, up, UNCHANGED <<trx, cli, errorBuf, slot, held, connVars, cloudVars>>,
           fault' = FALSE, ring' \in {ring, Rotated}, app' \in [Handles -> AppType],
           pc' \in Pcs, at' \in Transactions \cup {None}, cur' \in Handles \cup {None},
           Held /\ Now.op = "start" /\ pc' \notin Handling => trx[T].ctx = None,
           PcInv', AppAgrees'
    PROVE  Inv'
<1>1. /\ UNCHANGED <<trx, cli, errorBuf, slot, held, conv, sent, inbound>> /\ up' = up
      /\ None \notin Handles
  BY ConstantsAssumption DEF connVars, cloudVars
<1>2. RingInv' /\ ring' \in Seq(Handles)
  BY <1>1, RingKept
<1>3. PacketInv' /\ HeldInv'
  <2>1. \A t \in Transactions : (Receiving(t)' <=> Receiving(t)) /\ (Live(t)' => Live(t))
    BY <1>1 DEF Receiving, Live
  <2>2. /\ Held /\ Now.first /\ Now.op \in {"start", "exec"} /\ trx[T].reply => trx'[T].reply
        /\ Held /\ Now.op = "start" /\ pc' \notin Handling => trx'[T].ctx = None
    BY <1>1
  <2>3. TypeInv /\ PacketInv /\ HeldInv
    BY DEF Inv
  <2> QED
    BY <1>1, <2>1, <2>2, <2>3, PacketsKept
<1>4. Elsewhere(None, {})
  BY <1>1 DEF Elsewhere
<1>5. slot' \in Transactions => trx'[slot'].st = "wait"
  BY <1>1 DEF Inv, TrxInv
<1>6. TypeInv'
  BY <1>1, <1>2 DEF Inv, TypeInv
<1>7. /\ {} \in SUBSET Transactions /\ \A t \in {} : TrxOk(t)'
      /\ None \in Handles => SessionLinks(None)'
      /\ \A t \in Transactions :
            t \in {} \/ (None \in Handles /\ trx[t].ctx = None) => CtxOk(t)' /\ StreamOk(t)'
      /\ errorBuf' = errorBuf /\ errorBuf \notin {}
  BY <1>1
<1> QED
  BY <1>2, <1>3, <1>4, <1>5, <1>6, <1>7, StepKeeps

\* A step that only says where the round is, or which session is first.
LEMMA QuietKeeps ==
    ASSUME Inv, up, UNCHANGED <<trx, cli, errorBuf, slot, held, connVars, app, cloudVars>>,
           fault' = FALSE, ring' \in {ring, Rotated},
           pc' \in Pcs, at' \in Transactions \cup {None}, cur' \in Handles \cup {None},
           Held /\ Now.op = "start" /\ pc' \notin Handling => trx[T].ctx = None,
           pc = "end_response" => cli[cur].st # "execute_command",
           pc' = "end_response" => cli[cur'].st # "execute_command",
           PcInv'
    PROVE  Inv'
<1>1. UNCHANGED <<trx, cli, app>> /\ app' \in [Handles -> AppType]
  BY DEF Inv, TypeInv
<1>2. AppAgrees'
  <2>1. \A s \in Handles : AppOk(s)
    BY DEF Inv, AppAgrees, AppOk
  <2>2. \A s \in Handles : AppOk(s)'
    BY <1>1, <2>1 DEF AppOk
  <2> QED
    BY <2>2 DEF AppAgrees, AppOk
<1> QED
  BY <1>1, <1>2, StillKeeps

\* What a transaction whose packet is looked at, or that is asked to answer, carries.
LEMMA CarriedSession ==
    ASSUME Inv, NEW t \in Transactions, trx[t].ctx # None,
           trx[t].st \in {"receive", "get_data"}
    PROVE  /\ trx[t].ctx \in Handles /\ Exists(trx[t].ctx) /\ CtxOk(t)
           /\ trx[t].st = "get_data" => cli[trx[t].ctx].send = t
<1>1. trx[t] \in TrxType /\ TrxOk(t) /\ CtxOk(t)
  BY DEF Inv, TypeInv, TrxInv, LinkInv
<1>2. trx[t].ctx \in Handles
  BY <1>1 DEF TrxOk, TrxType
<1> QED
  BY <1>1, <1>2 DEF CtxOk, Receiving

-----------------------------------------------------------------------------
\* A round begins.
LEMMA BeginRoundKeeps ==
    ASSUME Disciplined, Inv, BeginRound
    PROVE  Inv'
<1>1. /\ pc = "step" /\ up
      /\ UNCHANGED <<trx, cli, errorBuf, slot, held, connVars, app, cloudVars>>
      /\ ring' = ring /\ at' = at /\ cur' = cur /\ fault' = FALSE
      /\ pc' = IF Held THEN "packet" ELSE "sessions"
  BY DEF BeginRound, callVars, Inv, TypeInv, Held
<1>2. PcInv'
  BY <1>1 DEF PcInv, Handling, Answering, Held
<1>3. Held /\ Now.op = "start" => trx[T].ctx = None
  BY <1>1 DEF Inv, HeldInv, Handling
<1>4. /\ pc' \in Pcs /\ at' \in Transactions \cup {None} /\ cur' \in Handles \cup {None}
      /\ pc # "end_response" /\ pc' # "end_response"
  BY <1>1 DEF Inv, TypeInv, Pcs
<1> QED
  BY <1>1, <1>2, <1>3, <1>4, QuietKeeps

\* The packet is for the session that its transaction carries.
LEMMA ContinueRequestKeeps ==
    ASSUME Disciplined, Inv, ContinueRequest
    PROVE  Inv'
<1>1. /\ pc = "packet" /\ Now.op # "error" /\ trx[T].ctx # None
      /\ UNCHANGED <<trx, cli, errorBuf, slot, held, connVars, app, cloudVars>>
      /\ ring' = ring /\ at' = at /\ cur' = trx[T].ctx /\ fault' = FALSE
      /\ pc' = "handle"
  BY DEF ContinueRequest, Looks, Handle, Inv, TypeInv
<1>2. Held /\ T \in Transactions /\ Receiving(T)
  BY <1>1, HeldPacket DEF Inv, PcInv, HeldInv
<1>3. trx[T].ctx \in Handles /\ Exists(trx[T].ctx)
  BY <1>1, <1>2, CarriedSession DEF Receiving
<1>4. Held' /\ Now' = Now /\ T' = T /\ trx' = trx /\ cli' = cli
  BY <1>1, <1>2 DEF Held, Now, T
<1>5. PcInv'
  BY <1>1, <1>2, <1>3, <1>4 DEF PcInv, Handling, Answering, Exists
<1>6. up
  BY <1>2, StillUp DEF Inv
<1>7. /\ pc' \in Pcs /\ at' \in Transactions \cup {None} /\ cur' \in Handles \cup {None}
      /\ pc # "end_response" /\ pc' # "end_response" /\ pc' \in Handling
  BY <1>1, <1>3 DEF Inv, TypeInv, Pcs, Handling
<1> QED
  BY <1>1, <1>5, <1>6, <1>7, QuietKeeps

\* The callback for the end of a session is busy.
LEMMA EndBusyKeeps ==
    ASSUME Disciplined, Inv, EndBusy
    PROVE  Inv'
<1>1. /\ pc \in {"end_close", "end_error"}
      /\ UNCHANGED <<trx, cli, errorBuf, slot, held, connVars, app, cloudVars>>
      /\ ring' = ring /\ at' = at /\ cur' = None /\ fault' = FALSE /\ pc' = "sessions"
  BY DEF EndBusy, Pending, Inv, TypeInv
<1>2. Held /\ T \in Transactions /\ Receiving(T) /\ StreamOk(T) /\ Now \in Due(T)
  BY <1>1, HeldPacket DEF Inv, PcInv, HeldInv, StreamInv, Due, Handling
<1>3. Now.op # "start"
  <2>1. CASE pc = "end_error"
    BY <2>1 DEF Inv, PcInv
  <2>2. CASE pc = "end_close"
    <3>1. trx[T].ctx = cur /\ cur \in Handles /\ cli[cur].op = "close"
      BY <2>2 DEF Inv, PcInv, Handling
    <3> QED
      BY <1>2, <3>1 DEF StreamOk
  <2> QED
    BY <1>1, <2>1, <2>2
<1>4. PcInv'
  BY <1>1 DEF PcInv, Handling, Answering
<1>5. up
  BY <1>2, StillUp DEF Inv
<1>6. /\ pc' \in Pcs /\ at' \in Transactions \cup {None} /\ cur' \in Handles \cup {None}
      /\ pc # "end_response" /\ pc' # "end_response"
  BY <1>1 DEF Inv, TypeInv, Pcs
<1> QED
  BY <1>1, <1>3, <1>4, <1>5, <1>6, QuietKeeps

\* A step outside of the handlers leaves a start that waits as it is.
LEMMA StartWaits ==
    ASSUME Inv, pc \notin Handling
    PROVE  Held /\ Now.op = "start" => trx[T].ctx = None
  BY DEF Inv, HeldInv

\* No session is to be polled.
LEMMA PollNoSessionKeeps ==
    ASSUME Disciplined, Inv, PollNoSession
    PROVE  Inv'
<1>1. /\ pc = "sessions"
      /\ UNCHANGED <<trx, cli, errorBuf, slot, held, connVars, app, cloudVars>>
      /\ ring' = Rotated /\ at' = at /\ cur' = None /\ fault' = FALSE /\ pc' = "poll"
  BY DEF PollNoSession, NextSession, Inv, TypeInv
<1>2. PcInv'
  BY <1>1 DEF PcInv, Handling, Answering
<1>3. Held /\ Now.op = "start" => trx[T].ctx = None
  BY <1>1, StartWaits DEF Handling
<1>4. up
  BY <1>1, StillUp DEF Inv
<1>5. /\ pc' \in Pcs /\ at' \in Transactions \cup {None} /\ cur' \in Handles \cup {None}
      /\ pc # "end_response" /\ pc' # "end_response"
  BY <1>1 DEF Inv, TypeInv, Pcs
<1> QED
  BY <1>1, <1>2, <1>3, <1>4, <1>5, QuietKeeps

\* A started session is to be asked whether it has something to send.
LEMMA PollStartedKeeps ==
    ASSUME Disciplined, Inv, PollStarted
    PROVE  Inv'
<1>1. /\ pc = "sessions" /\ Candidate # None /\ cli[Candidate].st = "started"
      /\ UNCHANGED <<trx, cli, errorBuf, slot, held, connVars, app, cloudVars>>
      /\ ring' = ring /\ at' = at /\ cur' = Candidate /\ fault' = FALSE /\ pc' = "poll_session"
  BY DEF PollStarted, Inv, TypeInv
<1>2. Candidate \in Handles /\ cli[Candidate].send = None
  BY <1>1, CandidateIs DEF ToPoll
<1>3. PcInv'
  BY <1>1, <1>2 DEF PcInv, Handling, Answering
<1>4. Held /\ Now.op = "start" => trx[T].ctx = None
  BY <1>1, StartWaits DEF Handling
<1>5. up
  BY <1>1, StillUp DEF Inv
<1>6. /\ pc' \in Pcs /\ at' \in Transactions \cup {None} /\ cur' \in Handles \cup {None}
      /\ pc # "end_response" /\ pc' # "end_response"
  BY <1>1, <1>2 DEF Inv, TypeInv, Pcs
<1> QED
  BY <1>1, <1>3, <1>4, <1>5, <1>6, QuietKeeps

\* The round ends.
LEMMA EndRoundKeeps ==
    ASSUME Inv, EndRound, pc \notin Handling, pc # "step",
           pc = "end_response" => cli[cur].st # "execute_command",
           UNCHANGED <<trx, cli, errorBuf, slot, held, connVars, app, cloudVars>>,
           ring' = ring, fault' = FALSE
    PROVE  Inv'
<1>1. pc' = "step" /\ at' = None /\ cur' = None
  BY DEF EndRound
<1>2. PcInv'
  BY <1>1 DEF PcInv, Handling, Answering
<1>3. Held /\ Now.op = "start" => trx[T].ctx = None
  BY StartWaits
<1>4. up
  BY StillUp DEF Inv
<1>5. /\ pc' \in Pcs /\ at' \in Transactions \cup {None} /\ cur' \in Handles \cup {None}
      /\ pc' # "end_response"
  BY <1>1 DEF Pcs
<1> QED
  BY <1>2, <1>3, <1>4, <1>5, QuietKeeps

\* The transaction that is polled has nothing to do.
LEMMA PollNothingKeeps ==
    ASSUME Disciplined, Inv, PollNothing
    PROVE  Inv'
<1>1. /\ EndRound /\ pc \notin Handling /\ pc # "step" /\ pc # "end_response"
      /\ UNCHANGED <<trx, cli, errorBuf, slot, held, connVars, app, cloudVars>>
      /\ ring' = ring /\ fault' = FALSE
  BY DEF PollNothing, Handling, Inv, TypeInv
<1> QED
  BY <1>1, EndRoundKeeps

\* The callback for the end of a session that an answer carries is busy.
LEMMA EndResponseBusyKeeps ==
    ASSUME Disciplined, Inv, EndResponseBusy
    PROVE  Inv'
<1>1. /\ EndRound /\ pc \notin Handling /\ pc # "step" /\ cli[cur].st # "execute_command"
      /\ UNCHANGED <<trx, cli, errorBuf, slot, held, connVars, app, cloudVars>>
      /\ ring' = ring /\ fault' = FALSE
  BY DEF EndResponseBusy, Handling, Inv, TypeInv, Disciplined
<1> QED
  BY <1>1, EndRoundKeeps

\* What is known of a transaction that is asked for an answer of its session.
LEMMA AskedSession ==
    ASSUME Inv, NEW t \in Transactions, NEW states, Carries(t, states)
    PROVE  /\ pc = "poll" /\ up /\ slot = None
           /\ trx[t].st = "get_data" /\ trx[t].ctx \in Handles /\ cli[trx[t].ctx].send = t
           /\ cli[trx[t].ctx].st \in states /\ ~Moving(trx[t].ctx)
<1>1. /\ pc = "poll" /\ trx[t].st = "get_data" /\ slot = None /\ trx[t].ctx # None
      /\ cli[trx[t].ctx].st \in states
  BY DEF Carries, Asked
<1>2. trx[t].ctx \in Handles /\ cli[trx[t].ctx].send = t
  BY <1>1, CarriedSession
<1>3. ~Moving(trx[t].ctx)
  BY <1>1, <1>2 DEF Moving, Inv, HeldInv, Receiving
<1>4. up
  BY <1>1, StillUp DEF Inv
<1> QED
  BY <1>1, <1>2, <1>3, <1>4

\* The session of a command is asked for the result.
LEMMA AskForResultKeeps ==
    ASSUME Disciplined, Inv, NEW t \in Transactions, AskForResult(t)
    PROVE  Inv'
<1>1. /\ pc = "poll" /\ up /\ trx[t].st = "get_data"
      /\ trx[t].ctx \in Handles /\ cli[trx[t].ctx].send = t
      /\ cli[trx[t].ctx].st = "execute_command"
  BY AskedSession DEF AskForResult
<1>2. /\ pc' = "execute" /\ at' = t /\ cur' = trx[t].ctx /\ fault' = FALSE
      /\ UNCHANGED <<trx, cli, errorBuf, slot, held, connVars, app, cloudVars>> /\ ring' = ring
  BY <1>1 DEF AskForResult, NowCalls, CheckSend, Inv, TypeInv
<1>3. PcInv'
  BY <1>1, <1>2 DEF PcInv, Handling, Answering
<1>4. Held /\ Now.op = "start" => trx[T].ctx = None
  BY <1>1, StartWaits DEF Handling
<1>5. /\ pc' \in Pcs /\ at' \in Transactions \cup {None} /\ cur' \in Handles \cup {None}
      /\ pc # "end_response" /\ pc' # "end_response"
  BY <1>1, <1>2 DEF Pcs
<1> QED
  BY <1>1, <1>2, <1>3, <1>4, <1>5, QuietKeeps

\* The session is closed: its last packet is asked for, and no assertion fails.
LEMMA AnswerEndKeeps ==
    ASSUME Disciplined, Inv, NEW t \in Transactions, AnswerEnd(t)
    PROVE  Inv'
<1>1. /\ pc = "poll" /\ up /\ trx[t].st = "get_data"
      /\ trx[t].ctx \in Handles /\ cli[trx[t].ctx].send = t /\ ~Moving(trx[t].ctx)
      /\ cli[trx[t].ctx].st \in
            {"start_failed", "send_close", "uninitialized", "closing", "pending_error"}
  BY AskedSession DEF AnswerEnd
<1>2. cli[trx[t].ctx].st \in {"start_failed", "send_close"}
  <2>1. StateOk(trx[t].ctx) /\ t # None
    BY <1>1, ConstantsAssumption DEF Inv, LinkInv
  <2> QED
    BY <1>1, <2>1 DEF StateOk
<1>3. /\ pc' = "end_response" /\ at' = t /\ cur' = trx[t].ctx /\ fault' = FALSE
      /\ UNCHANGED <<trx, cli, errorBuf, slot, held, connVars, app, cloudVars>> /\ ring' = ring
  BY <1>1, <1>2 DEF AnswerEnd, NowCalls, Inv, TypeInv
<1>4. PcInv'
  BY <1>1, <1>2, <1>3 DEF PcInv, Handling, Answering
<1>5. Held /\ Now.op = "start" => trx[T].ctx = None
  BY <1>1, StartWaits DEF Handling
<1>6. /\ pc' \in Pcs /\ at' \in Transactions \cup {None} /\ cur' \in Handles \cup {None}
      /\ pc # "end_response" /\ cli[cur'].st # "execute_command"
  BY <1>1, <1>2, <1>3 DEF Pcs
<1> QED
  BY <1>1, <1>3, <1>4, <1>5, <1>6, QuietKeeps

-----------------------------------------------------------------------------
\* A step about the transactions W, which carry no session.
LEMMA LooseStepKeeps ==
    ASSUME Inv, up, NEW W \in SUBSET Transactions,
           UNCHANGED <<cli, ring, app, conv, sent, inbound, connVars>>, fault' = FALSE,
           held' \in {held, << >>}, trx' \in [Transactions -> TrxType],
           errorBuf' \in Transactions \cup {None}, slot' \in Transactions \cup {None, "error"},
           pc' \in {"sessions", "step"}, pc # "end_response",
           at' \in Transactions \cup {None}, cur' \in Handles \cup {None},
           \A t \in Transactions \ W : trx'[t] = trx[t],
           \A t \in W : trx[t].ctx \notin Handles /\ trx'[t].ctx \notin Handles,
           \A s \in Handles : Restarts(s) => held' = held /\ T \notin W,
           PacketInv', HeldInv',
           \A t \in W : TrxOk(t)',
           slot' \in Transactions => trx'[slot'].st = "wait",
           \/ errorBuf' = errorBuf /\ errorBuf \notin W
           \/ errorBuf' = None
           \/ ErrorOk(errorBuf)'
    PROVE  Inv'
<1>1. None \notin Handles /\ up' = up
  BY ConstantsAssumption DEF connVars
<1>2. Elsewhere(None, W)
  BY <1>1 DEF Elsewhere
<1>3. TypeInv'
  <2>1. held' = << >> \/ \E p \in PacketType : held' = <<p>>
    BY DEF Inv, TypeInv
  <2>2. pc' \in Pcs
    BY DEF Pcs
  <2> QED
    BY <1>1, <2>1, <2>2 DEF Inv, TypeInv
<1>4. RingInv'
  BY <1>1, RingKept
<1>5. PcInv'
  BY DEF PcInv, Handling, Answering
<1>6. AppAgrees'
  BY <1>1, AppKept
<1>7. ASSUME NEW t \in W PROVE CtxOk(t)' /\ StreamOk(t)'
  <2>1. t \in Transactions /\ StreamOk(t) /\ trx[t].ctx \notin Handles
        /\ trx'[t].ctx \notin Handles
    BY DEF Inv, StreamInv
  <2>2. held' = held => Held' = Held /\ Now' = Now /\ T' = T
    BY DEF Held, Now, T
  <2>3. Due(t)' \subseteq Due(t)
    BY <2>2 DEF Due, Coming, Held
  <2> QED
    BY <2>1, <2>3 DEF CtxOk, StreamOk
<1>8. /\ None \in Handles => SessionLinks(None)'
      /\ \A t \in Transactions :
            t \in W \/ (None \in Handles /\ trx[t].ctx = None) => CtxOk(t)' /\ StreamOk(t)'
  BY <1>1, <1>7
<1> QED
  BY <1>2, <1>3, <1>4, <1>5, <1>6, <1>8, StepKeeps

\* No restart is under way when the packet is not a start, or is for no session.
LEMMA NoRestart ==
    ASSUME Inv, ~Held \/ Now.op # "start" \/ Known = None
    PROVE  \A s \in Handles : ~Restarts(s)
<1> SUFFICES ASSUME NEW s \in Handles, Held, Now.op = "start", Now.id = cli[s].id,
                    Known = None
             PROVE  FALSE
  BY DEF Restarts, Held
<1>1. Now \in PacketType /\ None \notin Ids
  BY HeldPacket, ConstantsAssumption DEF Inv
<1>2. Now.id \in Ids
  BY <1>1 DEF PacketType, Proper
<1>3. Find(Now.id) = None
  BY DEF Known
<1>4. \A r \in Handles : Exists(r) => cli[r].id # Now.id
  <2>1. \A id \in Ids : Find(id) = None => \A r \in Handles : Exists(r) => cli[r].id # id
    <3> TAKE id \in Ids
    <3>1. None \notin Handles
      BY ConstantsAssumption
    <3> QED
      BY <3>1, FindIs
  <2> QED
    BY <1>2, <1>3, <2>1
<1>5. SessionOk(s)
  BY DEF Inv, RingInv
<1> QED
  BY <1>1, <1>2, <1>4, <1>5 DEF SessionOk, Exists, NoSession

\* What is known when a packet is looked at.
LEMMA LookedAt ==
    ASSUME Inv, pc = "packet"
    PROVE  /\ Held /\ up /\ Now \in PacketType /\ T \in Transactions
           /\ Receiving(T) /\ TrxOk(T) /\ CtxOk(T) /\ StreamOk(T) /\ trx[T] \in TrxType
           /\ trx[T].owner = "cloud" /\ Now \in Due(T) /\ Coming(T) \subseteq Due(T)
           /\ \A q \in Coming(T) : ~q.first
<1>1. Held /\ up /\ Now \in PacketType /\ T \in Transactions /\ Receiving(T)
  BY StillUp, HeldPacket DEF Inv, PcInv, HeldInv
<1>2. /\ TrxOk(T) /\ CtxOk(T) /\ StreamOk(T) /\ trx[T] \in TrxType
      /\ Now \in Due(T) /\ Coming(T) \subseteq Due(T)
  BY <1>1 DEF Inv, TrxInv, LinkInv, StreamInv, TypeInv, Due
<1>3. \A q \in Coming(T) : ~q.first
  BY <1>1 DEF Inv, PacketInv, RestInv, WaitInv, Coming, Elements, Live, Receiving
<1> QED
  BY <1>1, <1>2, <1>3 DEF TrxOk

\* A packet that is taken without a session: its transaction, which carries none, and
\* those of W, which are new.
LEMMA LooselyTaken ==
    ASSUME Inv, Held, Receiving(T), trx[T].ctx = None, pc # "end_response",
           \A s \in Handles : ~Restarts(s),
           NEW table \in [Transactions -> TrxType], Working(table),
           NEW W \in SUBSET Transactions, T \notin W,
           \A t \in Transactions \ (W \cup {T}) : table[t] = trx[t],
           \A t \in W : /\ ~Live(t) /\ trx[t].ctx = None /\ Coming(t) = {}
                        /\ table[t] = OwnTransaction(None) /\ slot # t,
           table[T] = trx[T] \/ table[T] = [trx[T] EXCEPT !.reply = FALSE],
           UNCHANGED <<cli, ring, slot, app, conv, sent, inbound, connVars>>, fault' = FALSE,
           errorBuf' \in Transactions \cup {None},
           \/ errorBuf' = errorBuf /\ errorBuf \notin W \cup {T}
           \/ errorBuf' = None
           \/ ErrorOk(errorBuf)'
    PROVE  Inv'
<1>1. /\ held' = << >> /\ pc' = "sessions" /\ cur' = None /\ at' = at
      /\ trx' \in [Transactions -> TrxType] /\ T \in Transactions
      /\ \A t \in Transactions \ {T} : trx'[t] = table[t]
      /\ trx'[T].ctx = table[T].ctx /\ trx'[T].owner = table[T].owner
      /\ ~Now.last => trx'[T] = table[T]
      /\ Now.last => trx'[T].st \in {"get_data", "delete"}
  <2>1. TypeInv
    BY DEF Inv
  <2> QED
    BY <2>1, WorkingIs
<1>2. /\ TrxOk(T) /\ trx[T] \in TrxType /\ trx[T].st = "receive" /\ trx[T].owner = "cloud"
      /\ None \notin Handles /\ None # Gone /\ up
  BY <1>1, ConstantsAssumption, StillUp DEF Inv, TrxInv, TypeInv, TrxOk, Receiving
<1>3. PICK u \in Transactions : u = T
  BY <1>1
<1>4. /\ trx'[u].ctx = None /\ trx'[u].owner = "cloud"
      /\ trx'[u].st = "receive" <=> ~Now.last
      /\ trx'[u].st \in {"receive", "get_data", "delete"}
  BY <1>1, <1>2, <1>3 DEF TrxType
<1>5. \A t \in W : /\ trx'[t].ctx = None /\ trx'[t].st = "get_data" /\ trx'[t].owner = "client"
                   /\ TrxOk(t)'
  <2>1. ASSUME NEW t \in W PROVE trx'[t] = OwnTransaction(None)
    BY <1>1, <2>1
  <2>2. /\ OwnTransaction(None).ctx = None /\ OwnTransaction(None).st = "get_data"
        /\ OwnTransaction(None).owner = "client"
    BY DEF OwnTransaction, NoTransaction
  <2> QED
    BY <1>2, <2>1, <2>2 DEF TrxOk, Receiving
<1>6. PacketInv' /\ HeldInv'
  <2>1. \A t \in Transactions : t # T => (Receiving(t)' <=> Receiving(t))
    BY <1>1, <1>5 DEF Receiving, Live
  <2>2. \A t \in Transactions : Live(t)' => Live(t) \/ Coming(t) = {}
    BY <1>1, <1>2 DEF Live
  <2>3. TypeInv /\ PacketInv /\ HeldInv /\ up' = up
    BY DEF Inv, connVars
  <2>4. trx'[T].st = "receive" <=> ~Now.last
    BY <1>3, <1>4
  <2> QED
    BY <1>1, <2>1, <2>2, <2>3, <2>4, PacketTaken
<1>7. TrxOk(u)'
  BY <1>2, <1>4 DEF TrxOk, Receiving
<1>8. slot' \in Transactions => trx'[slot'].st = "wait"
  BY <1>1, <1>2 DEF Inv, TrxInv
<1> DEFINE V == W \cup {u}
<1>9. /\ V \in SUBSET Transactions /\ \A t \in Transactions \ V : trx'[t] = trx[t]
      /\ \A t \in V : TrxOk(t)' /\ trx[t].ctx \notin Handles /\ trx'[t].ctx \notin Handles
      /\ errorBuf' = errorBuf /\ errorBuf \notin W \cup {T} => errorBuf \notin V
  BY <1>1, <1>2, <1>3, <1>4, <1>5, <1>7
<1>10. /\ slot' \in Transactions \cup {None, "error"} /\ pc' \in {"sessions", "step"}
       /\ at' \in Transactions \cup {None} /\ cur' \in Handles \cup {None}
       /\ held' \in {held, << >>}
  BY <1>1 DEF Inv, TypeInv
<1> HIDE DEF V
<1> QED
  BY <1>1, <1>2, <1>6, <1>8, <1>9, <1>10, LooseStepKeeps

-----------------------------------------------------------------------------
\* The error buffer goes on to be answered when a packet of its transaction is taken.
LEMMA ErrorBufferKept ==
    ASSUME Inv, Held, ErrorOk(T) \/ (trx[T].ctx = None /\ trx[T].reply /\ Receiving(T)
                                     /\ \A q \in Coming(T) : q.id = None /\ ~q.first),
           Receiving(T), held' = << >>, UNCHANGED <<conv, inbound>>, errorBuf' = T,
           trx'[T].ctx = None, trx'[T].reply = trx[T].reply,
           ~Now.last => trx'[T] = trx[T],
           Now.last => trx'[T].st = IF trx[T].reply THEN "get_data" ELSE "delete"
    PROVE  ErrorOk(errorBuf)'
<1>1. PICK u \in Transactions : u = T
  BY HeldPacket DEF Inv
<1>2. Due(u)' = Coming(u)
  BY DEF Due, Coming, Held
<1>3. trx[u].reply /\ \A q \in Coming(u) : q.id = None /\ ~q.first
  BY <1>1 DEF ErrorOk, Due, Receiving
<1>4. \/ trx'[u].st = "get_data"
      \/ trx'[u].st = "receive" /\ trx'[u].reply
  BY <1>1, <1>3 DEF Receiving
<1> QED
  BY <1>1, <1>2, <1>3, <1>4 DEF ErrorOk, Receiving

\* The rest of a request whose session is gone.
LEMMA DiscardRestKeeps ==
    ASSUME Disciplined, Inv, DiscardRest
    PROVE  Inv'
<1>1. /\ pc = "packet" /\ trx[T].ctx = None /\ ~Now.first /\ Working(trx) /\ fault' = FALSE
      /\ UNCHANGED <<cli, ring, errorBuf, slot, app, conv, sent, inbound, connVars>>
  BY DEF DiscardRest, Looks, cloudVars, Inv, TypeInv
<1>2. Held /\ Receiving(T) /\ Now \in PacketType /\ T \in Transactions
  BY <1>1, LookedAt
<1>3. \A s \in Handles : ~Restarts(s)
  BY <1>1, <1>2, NoRestart DEF PacketType, Proper
<1>4. trx \in [Transactions -> TrxType] /\ errorBuf \in Transactions \cup {None} /\ TypeInv /\ up
  BY <1>2, StillUp DEF Inv, TypeInv
<1>5. errorBuf # T \/ ErrorOk(errorBuf)'
  <2> SUFFICES ASSUME errorBuf = T PROVE ErrorOk(errorBuf)'
    OBVIOUS
  <2>1. ErrorOk(T)
    <3>1. None \notin Transactions
      BY ConstantsAssumption
    <3> QED
      BY <1>2, <1>4, <3>1 DEF Inv, StreamInv
  <2>2. /\ held' = << >> /\ trx'[T].ctx = trx[T].ctx /\ trx'[T].reply = trx[T].reply
        /\ ~Now.last => trx'[T] = trx[T]
        /\ Now.last => trx'[T].st = IF trx[T].reply THEN "get_data" ELSE "delete"
    BY <1>1, <1>2, <1>4, WorkingIs
  <2> QED
    BY <1>1, <1>2, <2>1, <2>2, ErrorBufferKept
<1>6. /\ {} \in SUBSET Transactions /\ pc # "end_response" /\ T \notin {}
      /\ \A t \in Transactions \ ({} \cup {T}) : trx[t] = trx[t]
      /\ \A t \in {} : /\ ~Live(t) /\ trx[t].ctx = None /\ Coming(t) = {}
                       /\ trx[t] = OwnTransaction(None) /\ slot # t
      /\ errorBuf' \in Transactions \cup {None}
      /\ errorBuf # T => errorBuf \notin {} \cup {T}
  BY <1>1, <1>4
<1> QED
  BY <1>1, <1>2, <1>3, <1>4, <1>5, <1>6, LooselyTaken

\* A first packet is not the one of the transaction in the error buffer.
LEMMA FirstIsNotInErrorBuffer ==
    ASSUME Inv, pc = "packet", Now.first
    PROVE  errorBuf # T
<1>1. up /\ Receiving(T) /\ Now \in Due(T) /\ T \in Transactions /\ None \notin Transactions
  BY LookedAt, ConstantsAssumption
<1> QED
  BY <1>1 DEF Inv, StreamInv, ErrorOk, Receiving

\* A close for a session that does not exist needs no answer.
LEMMA UnknownCloseKeeps ==
    ASSUME Disciplined, Inv, UnknownClose
    PROVE  Inv'
<1>1. /\ pc = "packet" /\ trx[T].ctx = None /\ Now.first /\ Known = None
      /\ Working(NoReply(trx)) /\ fault' = FALSE
      /\ UNCHANGED <<cli, ring, errorBuf, slot, app, conv, sent, inbound, connVars>>
  BY DEF UnknownClose, Starts, Looks, cloudVars, Inv, TypeInv
<1>2. Held /\ Receiving(T) /\ T \in Transactions
  BY <1>1, LookedAt
<1>3. (\A s \in Handles : ~Restarts(s)) /\ errorBuf # T
  BY <1>1, NoRestart, FirstIsNotInErrorBuffer
<1>4. /\ trx \in [Transactions -> TrxType] /\ errorBuf \in Transactions \cup {None}
      /\ NoReply(trx) \in [Transactions -> TrxType]
      /\ NoReply(trx)[T] = [trx[T] EXCEPT !.reply = FALSE]
      /\ \A t \in Transactions \ {T} : NoReply(trx)[t] = trx[t]
  BY <1>2, ZenonT(60) DEF Inv, TypeInv, NoReply, TrxType
<1>5. /\ {} \in SUBSET Transactions /\ pc # "end_response" /\ T \notin {}
      /\ \A t \in Transactions \ ({} \cup {T}) : NoReply(trx)[t] = trx[t]
      /\ \A t \in {} : /\ ~Live(t) /\ trx[t].ctx = None /\ Coming(t) = {}
                       /\ NoReply(trx)[t] = OwnTransaction(None) /\ slot # t
      /\ errorBuf' \in Transactions \cup {None}
      /\ errorBuf' = errorBuf /\ errorBuf \notin {} \cup {T}
  BY <1>1, <1>3, <1>4
<1> QED
  BY <1>1, <1>2, <1>3, <1>4, <1>5, LooselyTaken

\* A packet that waits for the error buffer.
LEMMA PendingKeeps ==
    ASSUME Inv, pc = "packet", trx[T].ctx = None, Pending, fault' = FALSE,
           UNCHANGED <<trx, cli, ring, errorBuf, slot, app, cloudVars, connVars>>
    PROVE  Inv'
<1>1. pc' = "sessions" /\ held' = held /\ at' = at /\ cur' = None /\ up
  BY LookedAt DEF Pending
<1>2. PcInv'
  BY <1>1 DEF PcInv, Handling, Answering
<1>3. /\ pc' \in Pcs /\ at' \in Transactions \cup {None} /\ cur' \in Handles \cup {None}
      /\ pc # "end_response" /\ pc' # "end_response"
  BY <1>1 DEF Inv, TypeInv, Pcs
<1> QED
  BY <1>1, <1>2, <1>3, QuietKeeps

\* Data for a session that does not exist: the close that answers it is the transaction in
\* the error buffer.
LEMMA UnknownDataKeeps ==
    ASSUME Disciplined, Inv, UnknownData
    PROVE  Inv'
<1>1. /\ pc = "packet" /\ trx[T].ctx = None /\ Now.first /\ Known = None /\ fault' = FALSE
      /\ UNCHANGED <<cli, ring, slot, app, cloudVars, connVars>>
      /\ UNCHANGED <<cli, ring, slot, app, conv, sent, inbound, connVars>>
  BY DEF UnknownData, Starts, Looks, cloudVars, Inv, TypeInv
<1>2. Held /\ Receiving(T) /\ T \in Transactions /\ trx[T] \in TrxType
  BY <1>1, LookedAt
<1>3. (\A s \in Handles : ~Restarts(s)) /\ errorBuf # T
  BY <1>1, NoRestart, FirstIsNotInErrorBuffer
<1>4. trx \in [Transactions -> TrxType] /\ errorBuf \in Transactions \cup {None}
  BY DEF Inv, TypeInv
<1>5. CASE Pending /\ UNCHANGED <<trx, errorBuf>>
  BY <1>1, <1>5, PendingKeeps
<1>6. CASE Working(trx) /\ errorBuf' = errorBuf
  <2>1. /\ {} \in SUBSET Transactions /\ pc # "end_response" /\ T \notin {}
        /\ \A t \in Transactions \ ({} \cup {T}) : trx[t] = trx[t]
        /\ \A t \in {} : /\ ~Live(t) /\ trx[t].ctx = None /\ Coming(t) = {}
                         /\ trx[t] = OwnTransaction(None) /\ slot # t
        /\ errorBuf' \in Transactions \cup {None}
        /\ errorBuf' = errorBuf /\ errorBuf \notin {} \cup {T}
    BY <1>1, <1>3, <1>4, <1>6
  <2> QED
    BY <1>1, <1>2, <1>3, <1>4, <1>6, <2>1, LooselyTaken
<1>7. CASE /\ MayOpen /\ errorBuf' = NewTransaction
           /\ Working(NoReply([trx EXCEPT ![NewTransaction] = OwnTransaction(None)]))
  <2>1. PICK n \in Transactions : n = NewTransaction /\ TransactionFree(n)
    BY <1>7, SpareTransaction DEF MayOpen
  <2>2. /\ ~Live(n) /\ trx[n].ctx = None /\ Coming(n) = {} /\ slot # n /\ n # T
    <3>1. ~Live(n) /\ slot # n /\ n # T /\ conv[n] = << >>
          /\ \A i \in DOMAIN inbound : inbound[i].t # n
      BY <1>2, <2>1 DEF TransactionFree, Live, Receiving
    <3>2. DOMAIN inbound = 1 .. Len(inbound)
      BY LenProperties DEF Inv, TypeInv
    <3>3. trx[n] = NoTransaction
      BY <3>1 DEF Live, Inv, TrxInv, TrxOk
    <3>4. trx[n].ctx = None
      BY <3>3 DEF NoTransaction
    <3>5. Coming(n) = {}
      BY <3>1, <3>2, EmptySeq DEF Coming, Elements
    <3> QED
      BY <3>1, <3>4, <3>5
  <2> DEFINE table == NoReply([trx EXCEPT ![n] = OwnTransaction(None)])
  <2>3. /\ OwnTransaction(None) \in TrxType /\ OwnTransaction(None).ctx = None
        /\ OwnTransaction(None).st = "get_data"
    BY DEF OwnTransaction, NoTransaction, TrxType, TrxStates
  <2>4. /\ table \in [Transactions -> TrxType] /\ table[n] = OwnTransaction(None)
        /\ table[T] = [trx[T] EXCEPT !.reply = FALSE]
        /\ \A t \in Transactions \ {n, T} : table[t] = trx[t]
    <3>1. [trx[T] EXCEPT !.reply = FALSE] \in TrxType
      BY <1>2 DEF TrxType
    <3> QED
      BY <1>2, <1>4, <2>2, <2>3, <3>1 DEF NoReply
  <2>5. Working(table) /\ errorBuf' = n
    BY <1>7, <2>1
  <2> HIDE DEF table
  <2>6. ErrorOk(errorBuf)'
    <3>1. trx'[n] = OwnTransaction(None)
      <4>1. \A t \in Transactions \ {T} : trx'[t] = table[t]
        <5>1. TypeInv
          BY DEF Inv
        <5> QED
          BY <1>2, <2>4, <2>5, <5>1, WorkingIs
      <4> QED
        BY <2>2, <2>4, <4>1
    <3> QED
      BY <2>3, <2>5, <3>1 DEF ErrorOk
  <2>7. /\ {n} \in SUBSET Transactions /\ pc # "end_response" /\ T \notin {n}
        /\ \A t \in Transactions \ ({n} \cup {T}) : table[t] = trx[t]
        /\ \A t \in {n} : /\ ~Live(t) /\ trx[t].ctx = None /\ Coming(t) = {}
                          /\ table[t] = OwnTransaction(None) /\ slot # t
        /\ errorBuf' \in Transactions \cup {None}
    BY <1>1, <2>2, <2>4, <2>5
  <2> QED
    BY <1>1, <1>2, <1>3, <2>4, <2>5, <2>6, <2>7, LooselyTaken, ZenonT(60)
<1> QED
  BY <1>5, <1>6, <1>7 DEF UnknownData

\* No session is created: the request itself is answered.
LEMMA RefuseKeeps ==
    ASSUME Disciplined, Inv, Refuse
    PROVE  Inv'
<1>1. /\ pc = "packet" /\ trx[T].ctx = None /\ Now.first /\ Known = None /\ fault' = FALSE
      /\ Now.op \in {"start", "exec"}
      /\ UNCHANGED <<cli, ring, slot, app, cloudVars, connVars>>
      /\ UNCHANGED <<cli, ring, slot, app, conv, sent, inbound, connVars>>
  BY DEF Refuse, Starts, Looks, cloudVars, Inv, TypeInv
<1>2. /\ Held /\ Receiving(T) /\ T \in Transactions /\ trx[T] \in TrxType
      /\ Now \in PacketType /\ \A q \in Coming(T) : ~q.first
  BY <1>1, LookedAt
<1>3. \A s \in Handles : ~Restarts(s)
  BY <1>1, NoRestart
<1>4. trx \in [Transactions -> TrxType]
  BY DEF Inv, TypeInv
<1>5. CASE Pending /\ UNCHANGED <<trx, errorBuf>>
  BY <1>1, <1>5, PendingKeeps
<1>6. CASE Working(trx) /\ errorBuf' = T
  <2>1. trx[T].reply /\ \A q \in Coming(T) : q.id = None
    <3>1. /\ trx[T].reply /\ \A q \in Coming(T) : Same(Now, q)
          /\ Now.last <=> Coming(T) = {}
      BY <1>1, <1>2 DEF Inv, HeldInv
    <3> QED
      BY <1>1, <1>2, <3>1 DEF Same, PacketType, Proper
  <2>2. /\ held' = << >> /\ trx'[T].ctx = trx[T].ctx /\ trx'[T].reply = trx[T].reply
        /\ ~Now.last => trx'[T] = trx[T]
        /\ Now.last => trx'[T].st = IF trx[T].reply THEN "get_data" ELSE "delete"
    <3>1. TypeInv
      BY DEF Inv
    <3> QED
      BY <1>2, <1>4, <1>6, <3>1, WorkingIs
  <2>3. ErrorOk(errorBuf)'
    BY <1>1, <1>2, <1>6, <2>1, <2>2, ErrorBufferKept
  <2>4. /\ {} \in SUBSET Transactions /\ pc # "end_response" /\ T \notin {}
        /\ \A t \in Transactions \ ({} \cup {T}) : trx[t] = trx[t]
        /\ \A t \in {} : /\ ~Live(t) /\ trx[t].ctx = None /\ Coming(t) = {}
                         /\ trx[t] = OwnTransaction(None) /\ slot # t
        /\ errorBuf' \in Transactions \cup {None}
    BY <1>1, <1>2, <1>6
  <2> QED
    BY <1>1, <1>2, <1>3, <1>4, <1>6, <2>3, <2>4, LooselyTaken
<1> QED
  BY <1>5, <1>6 DEF Refuse

-----------------------------------------------------------------------------
\* The poll of a transaction that carries no session.
LEMMA LooselyPolled ==
    ASSUME Inv, pc = "poll", EndRound, NEW t \in Transactions, NEW v \in TrxType,
           trx[t].st \notin {"receive", "free"}, trx[t].ctx = None,
           trx' = [trx EXCEPT ![t] = v], v.ctx = None, v.st # "receive",
           v.st = "free" => v = NoTransaction,
           v.st = "wait" /\ v.last /\ v.owner = "client" => ~v.reply,
           UNCHANGED <<cli, ring, held, app, conv, sent, inbound, connVars>>, fault' = FALSE,
           errorBuf' \in Transactions \cup {None}, slot' \in Transactions \cup {None, "error"},
           slot' \in Transactions => trx'[slot'].st = "wait",
           (errorBuf' = errorBuf /\ errorBuf # t) \/ errorBuf' = None
    PROVE  Inv'
<1>1. /\ pc' = "step" /\ at' = None /\ cur' = None /\ up /\ up' = up
      /\ None \notin Handles /\ None # Gone
  BY StillUp, ConstantsAssumption DEF EndRound, Inv, connVars
<1>2. /\ trx' \in [Transactions -> TrxType] /\ trx'[t] = v
      /\ \A u \in Transactions \ {t} : trx'[u] = trx[u]
  BY DEF Inv, TypeInv
<1>3. Held => T \in Transactions \ {t} /\ trx'[T] = trx[T]
  <2>1. Held => T \in Transactions /\ Receiving(T)
    BY HeldPacket DEF Inv, HeldInv
  <2> QED
    BY <1>2, <2>1 DEF Receiving
<1>4. PacketInv' /\ HeldInv'
  <2>1. \A u \in Transactions : (Receiving(u)' <=> Receiving(u)) /\ (Live(u)' => Live(u))
    BY <1>2 DEF Receiving, Live
  <2>2. Held /\ Now.op = "start" => trx[T].ctx = None
    BY StartWaits DEF Handling
  <2>3. TypeInv /\ PacketInv /\ HeldInv
    BY DEF Inv
  <2>4. Held /\ Now.first /\ Now.op \in {"start", "exec"} /\ trx[T].reply => trx'[T].reply
    BY <1>3
  <2>5. Held /\ Now.op = "start" /\ pc' \notin Handling => trx'[T].ctx = None
    BY <1>3, <2>2
  <2> QED
    BY <1>1, <2>1, <2>3, <2>4, <2>5, PacketsKept
<1>5. TrxOk(t)'
  BY <1>1, <1>2 DEF TrxOk, Receiving
<1>6. \A s \in Handles : Restarts(s) => held' = held /\ T \notin {t}
  BY <1>3 DEF Restarts, Held
<1>7. /\ {t} \in SUBSET Transactions
      /\ \A u \in {t} : /\ trx[u].ctx \notin Handles /\ trx'[u].ctx \notin Handles
                        /\ TrxOk(u)'
  BY <1>1, <1>2, <1>5
<1>8. /\ pc' \in {"sessions", "step"} /\ pc # "end_response" /\ held' \in {held, << >>}
      /\ at' \in Transactions \cup {None} /\ cur' \in Handles \cup {None}
      /\ (errorBuf' = errorBuf /\ errorBuf \notin {t}) \/ errorBuf' = None
  BY <1>1
<1> QED
  BY <1>1, <1>2, <1>4, <1>6, <1>7, <1>8, LooseStepKeeps

\* A transaction that is over is not the one in the error buffer, nor in the send buffer.
LEMMA OverIsElsewhere ==
    ASSUME Inv, up, NEW t \in Transactions, trx[t].st \in {"delete", "send_error"}
    PROVE  errorBuf # t /\ slot # t /\ trx[t].ctx = None
<1>1. None \notin Transactions
  BY ConstantsAssumption
<1> QED
  BY <1>1 DEF Inv, StreamInv, ErrorOk, Receiving, TrxInv, TrxOk

\* No transaction is one that is free.
LEMMA NoTransactionIs ==
    /\ NoTransaction \in TrxType /\ NoTransaction.st = "free" /\ NoTransaction.ctx = None
    /\ NoTransaction.owner = "none"
  BY DEF NoTransaction, TrxType, TrxStates

\* An error packet is sent.
LEMMA PollSendErrorKeeps ==
    ASSUME Disciplined, Inv, NEW t \in Transactions, PollSendError(t)
    PROVE  Inv'
<1>1. /\ pc = "poll" /\ trx[t].st = "send_error" /\ EndRound /\ slot' = "error"
      /\ trx' = [trx EXCEPT ![t] = NoTransaction] /\ fault' = FALSE
      /\ UNCHANGED <<cli, ring, held, app, conv, sent, inbound, connVars>>
      /\ errorBuf' = errorBuf
  BY DEF PollSendError, cloudVars, Inv, TypeInv
<1>2. errorBuf # t /\ trx[t].ctx = None
  BY <1>1, StillUp, OverIsElsewhere DEF Inv
<1>3. slot' \notin Transactions /\ slot' \in Transactions \cup {None, "error"}
  BY <1>1, ConstantsAssumption
<1>4. errorBuf' \in Transactions \cup {None}
  BY <1>1 DEF Inv, TypeInv
<1> QED
  BY <1>1, <1>2, <1>3, <1>4, NoTransactionIs, LooselyPolled

\* A transaction is deleted.
LEMMA PollDeleteKeeps ==
    ASSUME Disciplined, Inv, NEW t \in Transactions, PollDelete(t)
    PROVE  Inv'
<1>1. /\ pc = "poll" /\ trx[t].st = "delete" /\ EndRound /\ slot' = slot
      /\ trx' = [trx EXCEPT ![t] = NoTransaction] /\ fault' = FALSE
      /\ UNCHANGED <<cli, ring, held, app, conv, sent, inbound, connVars>>
      /\ errorBuf' = errorBuf
  BY DEF PollDelete, cloudVars, Inv, TypeInv
<1>2. errorBuf # t /\ slot # t /\ trx[t].ctx = None
  BY <1>1, StillUp, OverIsElsewhere DEF Inv
<1>3. /\ slot' \in Transactions => trx'[slot'].st = "wait"
      /\ slot' \in Transactions \cup {None, "error"}
  BY <1>1, <1>2 DEF Inv, TypeInv, TrxInv
<1>4. errorBuf' \in Transactions \cup {None}
  BY <1>1 DEF Inv, TypeInv
<1> QED
  BY <1>1, <1>2, <1>3, <1>4, NoTransactionIs, LooselyPolled

\* A transaction whose session is gone is cancelled.
LEMMA CancelTransactionKeeps ==
    ASSUME Disciplined, Inv, NEW t \in Transactions, CancelTransaction(t)
    PROVE  Inv'
<1> DEFINE v == [trx[t] EXCEPT !.st = IF @ = "get_data" /\ trx[t].owner = "client"
                                                        /\ trx[t].fresh
                                      THEN "delete" ELSE "send_error"]
<1>1. /\ pc = "poll" /\ trx[t].st = "get_data" /\ slot = None /\ trx[t].ctx = None
      /\ errorBuf # t /\ EndRound /\ slot' = slot /\ fault' = FALSE
      /\ UNCHANGED <<cli, ring, held, app, conv, sent, inbound, connVars>>
      /\ errorBuf' = errorBuf
  BY DEF CancelTransaction, Asked, cloudVars, Inv, TypeInv
<1>2. trx \in [Transactions -> TrxType] /\ trx[t] \in TrxType
  BY DEF Inv, TypeInv
<1>3. trx' = [trx EXCEPT ![t] = v]
  BY <1>2 DEF CancelTransaction
<1>4. v \in TrxType /\ v.ctx = None /\ v.st \in {"delete", "send_error"}
  BY <1>1, <1>2 DEF TrxType, TrxStates
<1> HIDE DEF v
<1>5. slot' \notin Transactions /\ slot' \in Transactions \cup {None, "error"}
      /\ errorBuf' \in Transactions \cup {None}
  BY <1>1, ConstantsAssumption DEF Inv, TypeInv
<1> QED
  BY <1>1, <1>3, <1>4, <1>5, LooselyPolled

\* The transaction in the error buffer is answered.
LEMMA AnswerErrorKeeps ==
    ASSUME Disciplined, Inv, NEW t \in Transactions, AnswerError(t)
    PROVE  Inv'
<1> DEFINE r == trx[t].reply /\ trx[t].owner = "cloud"
           v == [trx[t] EXCEPT !.reply = r, !.st = "wait", !.fresh = FALSE, !.last = TRUE]
<1>1. /\ pc = "poll" /\ trx[t].st = "get_data" /\ trx[t].ctx = None
      /\ EndRound /\ slot' = t /\ fault' = FALSE
      /\ UNCHANGED <<cli, ring, held, app, conv, sent, inbound, connVars>>
      /\ errorBuf' = None
  BY DEF AnswerError, Asked, Send, cloudVars, Inv, TypeInv
<1>2. trx \in [Transactions -> TrxType] /\ trx[t] \in TrxType
  BY DEF Inv, TypeInv
<1>3. trx' = [trx EXCEPT ![t] = v]
  <2>1. trx' = [[trx EXCEPT ![t].reply = r] EXCEPT ![t].st = "wait", ![t].fresh = FALSE,
                                                    ![t].last = TRUE]
    BY <1>2 DEF AnswerError, Send
  <2> HIDE DEF r
  <2> QED
    BY <1>2, <2>1
<1>4. r \in BOOLEAN /\ (trx[t].owner = "client" => ~r)
  BY <1>2 DEF TrxType
<1> HIDE DEF r
<1>5. v \in TrxType /\ v.ctx = None /\ v.st = "wait" /\ (v.owner = "client" => ~v.reply)
  BY <1>1, <1>2, <1>4 DEF TrxType, TrxStates
<1>6. trx'[t] = v
  BY <1>2, <1>3
<1> HIDE DEF v
<1>7. slot' \in Transactions \cup {None, "error"} /\ errorBuf' \in Transactions \cup {None}
  BY <1>1
<1>8. slot' \in Transactions => trx'[slot'].st = "wait"
  BY <1>1, <1>5, <1>6
<1> QED
  BY <1>1, <1>3, <1>5, <1>7, <1>8, LooselyPolled

-----------------------------------------------------------------------------
\* Nothing is due for a transaction that sends.
LEMMA NothingDue ==
    ASSUME Inv, NEW t \in Transactions, Live(t), ~Receiving(t)
    PROVE  Coming(t) = {} /\ Due(t) = {}
<1>1. \A i \in 1 .. Len(inbound) : inbound[i].first => ~Live(inbound[i].t)
  BY DEF Inv, PacketInv, WaitInv
<1>2. \A i \in 1 .. Len(conv[t]) : ~conv[t][i].first
  BY DEF Inv, PacketInv, RestInv
<1>3. Coming(t) # {} => \E p \in Coming(t) : p.first
  BY DEF Inv, PacketInv, WaitInv
<1>4. Coming(t) = {}
  BY <1>1, <1>2, <1>3 DEF Coming, Elements
<1>5. ~(Held /\ T = t)
  BY DEF Inv, HeldInv
<1> QED
  BY <1>4, <1>5 DEF Due

\* What the transaction t and the session s that sends with it may become.
Sending(t, s, v, c) ==
    /\ v.owner = trx[t].owner /\ v.st \in {"get_data", "wait"}
    /\ v.ctx = s => c.send = t /\ (v.st = "wait" => ~v.last)
    /\ v.ctx # s => v.ctx = None /\ c.send = None
                    /\ (v.st = "wait" /\ v.last /\ v.owner = "client" => ~v.reply)
    /\ c.id = cli[s].id /\ c.op = cli[s].op /\ c.recv = cli[s].recv
    /\ \/ c.st = cli[s].st /\ (c.send = t \/ c.st = "started")
       \/ cli[s].st = "ack_start" /\ c.st = "started"
    /\ c.st = "execute_command" => v.reply = trx[t].reply

\* A step about the transaction t that the session s sends with.
LEMMA SendingStepKeeps ==
    ASSUME Inv, up, pc \notin Handling, pc' \notin Handling,
           NEW t \in Transactions, NEW s \in Handles, NEW v \in TrxType, NEW c \in CliType,
           trx[t].ctx = s, trx[t].st \in {"get_data", "wait"},
           trx' = [trx EXCEPT ![t] = v], cli' = [cli EXCEPT ![s] = c], Sending(t, s, v, c),
           UNCHANGED <<ring, errorBuf, held, app, conv, sent, inbound, connVars>>,
           fault' = FALSE, slot' \in Transactions \cup {None},
           slot' \in Transactions => trx'[slot'].st = "wait",
           pc' \in Pcs, pc # "end_response", pc' # "end_response",
           at' \in Transactions \cup {None}, cur' \in Handles \cup {None}, PcInv'
    PROVE  Inv'
<1>0. /\ v.owner = trx[t].owner /\ v.st \in {"get_data", "wait"}
      /\ v.ctx = s => c.send = t /\ (v.st = "wait" => ~v.last)
      /\ v.ctx # s => v.ctx = None /\ c.send = None
                      /\ (v.st = "wait" /\ v.last /\ v.owner = "client" => ~v.reply)
      /\ c.id = cli[s].id /\ c.op = cli[s].op /\ c.recv = cli[s].recv
      /\ \/ c.st = cli[s].st /\ (c.send = t \/ c.st = "started")
         \/ cli[s].st = "ack_start" /\ c.st = "started"
      /\ c.st = "execute_command" => v.reply = trx[t].reply
  BY DEF Sending
<1> USE <1>0
<1>1. /\ Exists(s) /\ cli[s].send = t /\ None \notin Handles /\ None # Gone /\ t # None
      /\ Gone \notin Handles /\ up' = up
  BY CarriedSession, ConstantsAssumption DEF Inv, LinkInv, CtxOk, Receiving, connVars
<1>2. /\ trx' \in [Transactions -> TrxType] /\ trx'[t] = v
      /\ \A u \in Transactions \ {t} : trx'[u] = trx[u]
      /\ cli' \in [Handles -> CliType] /\ cli'[s] = c
      /\ \A r \in Handles \ {s} : cli'[r] = cli[r]
  BY DEF Inv, TypeInv
<1>3. Held => T \in Transactions \ {t} /\ trx'[T] = trx[T]
  <2>1. Held => T \in Transactions /\ Receiving(T)
    BY HeldPacket DEF Inv, HeldInv
  <2> QED
    BY <1>2, <2>1 DEF Receiving
<1>4. PacketInv' /\ HeldInv'
  <2>1. \A u \in Transactions : (Receiving(u)' <=> Receiving(u)) /\ (Live(u)' => Live(u))
    BY <1>2 DEF Receiving, Live
  <2>2. Held /\ Now.op = "start" => trx[T].ctx = None
    BY StartWaits
  <2>3. TypeInv /\ PacketInv /\ HeldInv
    BY DEF Inv
  <2>4. Held /\ Now.first /\ Now.op \in {"start", "exec"} /\ trx[T].reply => trx'[T].reply
    BY <1>3
  <2>5. Held /\ Now.op = "start" /\ pc' \notin Handling => trx'[T].ctx = None
    BY <1>3, <2>2
  <2> QED
    BY <1>1, <2>1, <2>3, <2>4, <2>5, PacketsKept
<1>5. /\ TrxOk(t)' /\ CtxOk(t)' /\ StreamOk(t)'
  <2>1. Due(t)' = {}
    <3>1. Due(t) = {}
      BY NothingDue DEF Live, Receiving
    <3> QED
      BY <3>1 DEF Due, Coming, Held, Now, T
  <2>2. TrxOk(t)'
    BY <1>1, <1>2 DEF TrxOk, Receiving
  <2>3. CtxOk(t)'
    BY <1>1, <1>2 DEF CtxOk, Receiving, Exists
  <2>4. StreamOk(t)'
    BY <2>1 DEF StreamOk
  <2> QED
    BY <2>2, <2>3, <2>4
<1>6. ASSUME NEW u \in Transactions, trx[u].ctx = s, u # t
      PROVE  CtxOk(u)' /\ StreamOk(u)'
  <2>1. CtxOk(u) /\ StreamOk(u) /\ trx'[u] = trx[u]
    BY <1>2, <1>6 DEF Inv, LinkInv, StreamInv
  <2>2. Due(u)' = Due(u)
    BY DEF Due, Coming, Held, Now, T
  <2>3. c.st = "execute_command" <=> cli[s].st = "execute_command"
    BY <1>1
  <2>4. c.st # "free"
    BY <1>1 DEF Exists
  <2> QED
    BY <1>1, <1>2, <1>6, <2>1, <2>2, <2>3, <2>4 DEF CtxOk, StreamOk, Receiving, Exists
<1>7. SessionLinks(s)'
  <2>1. RecvOk(s) /\ SendOk(s) /\ ExecOk(s) /\ StateOk(s) /\ cli[s] \in CliType
    BY DEF Inv, LinkInv, TypeInv
  <2>2. Restarts(s)' <=> Restarts(s)
    BY <1>2 DEF Restarts, Now
  <2>3. ~Moving(s) /\ ~Moving(s)'
    <3>1. c.send \in {t, None} /\ None \notin Transactions
      BY ConstantsAssumption
    <3>2. Held' = Held /\ T' = T
      BY DEF Held, T, Now
    <3> QED
      BY <1>1, <1>2, <1>3, <3>1, <3>2 DEF Moving
  <2>4. cli[s].recv # None => cli[s].recv \in Transactions \ {t}
    BY <2>1 DEF RecvOk, Receiving, CliType
  <2>5. RecvOk(s)'
    BY <1>1, <1>2, <2>1, <2>4 DEF RecvOk, Receiving
  <2>6. SendOk(s)'
    BY <1>2 DEF SendOk
  <2>7. ExecOk(s)'
    <3> SUFFICES ASSUME c.st = "execute_command" PROVE ExecOk(s)'
      BY <1>2 DEF ExecOk
    <3>1. cli[s].st = "execute_command" /\ c.send = t /\ v.ctx = s
      BY <1>1
    <3> QED
      BY <1>2, <2>1, <3>1 DEF ExecOk
  <2>8. StateOk(s)'
    BY <1>1, <1>2, <2>1, <2>2, <2>3 DEF StateOk
  <2> QED
    BY <2>5, <2>6, <2>7, <2>8 DEF SessionLinks
<1>8. RingInv'
  <2>1. SessionOk(s)'
    <3>1. SessionOk(s)
      BY DEF Inv, RingInv
    <3> QED
      BY <1>1, <1>2, <3>1 DEF SessionOk, Exists
  <2>2. cli'[s].id = cli[s].id /\ cli'[s].st # "free"
    BY <1>1, <1>2 DEF Exists
  <2> QED
    BY <1>1, <1>2, <2>1, <2>2, RingKept
<1>9. AppAgrees'
  <2>1. AppOk(s)
    BY DEF Inv, AppAgrees, AppOk
  <2>2. AppOk(s)'
    BY <1>2, <2>1 DEF AppOk
  <2> QED
    BY <1>2, <2>2, AppKept
<1>10. TypeInv'
  BY <1>1, <1>2 DEF Inv, TypeInv
<1>11. Elsewhere(s, {t})
  BY <1>1, <1>2, <1>3 DEF Elsewhere, Restarts, Held
<1>12. errorBuf' = errorBuf /\ errorBuf \notin {t}
  BY <1>1 DEF Inv, StreamInv, ErrorOk
<1>13. \A u \in Transactions : u \in {t} \/ (s \in Handles /\ trx[u].ctx = s)
                                  => CtxOk(u)' /\ StreamOk(u)'
  BY <1>5, <1>6
<1>14. {t} \in SUBSET Transactions /\ \A u \in {t} : TrxOk(u)'
  BY <1>5
<1> QED
  BY <1>4, <1>7, <1>8, <1>9, <1>10, <1>11, <1>12, <1>13, <1>14, StepKeeps

\* A packet has left, and may be followed by more.
LEMMA SendCompleteKeeps ==
    ASSUME Disciplined, Inv, SendComplete
    PROVE  Inv'
<1>1. /\ pc = "step" /\ pc' = "step" /\ up /\ slot # None /\ slot' = None
      /\ at' = at /\ cur' = cur /\ errorBuf' = errorBuf /\ fault' = FALSE
      /\ UNCHANGED <<cli, ring, held, app, conv, sent, inbound, connVars>>
  BY DEF SendComplete, callVars, cloudVars, Inv, TypeInv
<1>2. /\ pc \notin Handling /\ pc' \notin Handling /\ pc' \in Pcs
      /\ pc # "end_response" /\ pc' # "end_response" /\ pc' \in {"sessions", "step"}
      /\ at' \in Transactions \cup {None} /\ cur' \in Handles \cup {None}
      /\ errorBuf' \in Transactions \cup {None}
      /\ slot' \in Transactions \cup {None, "error"} /\ slot' \notin Transactions
      /\ slot' \in Transactions \cup {None}
  BY <1>1, ConstantsAssumption DEF Inv, TypeInv, Handling, Pcs
<1>3. trx \in [Transactions -> TrxType] /\ cli \in [Handles -> CliType]
  BY DEF Inv, TypeInv
<1>4. PcInv'
  BY <1>1 DEF PcInv, Handling, Answering
<1>5. CASE slot = "error"
  <2>1. trx' = trx
    BY <1>5 DEF SendComplete
  <2>2. Held /\ Now.op = "start" /\ pc' \notin Handling => trx[T].ctx = None
    BY <1>2, StartWaits
  <2>3. PacketInv' /\ HeldInv'
    <3>1. \A u \in Transactions : (Receiving(u)' <=> Receiving(u)) /\ (Live(u)' => Live(u))
      BY <2>1 DEF Receiving, Live
    <3>2. TypeInv /\ PacketInv /\ HeldInv /\ up' = up
      BY <1>1 DEF Inv, connVars
    <3> QED
      BY <1>1, <2>1, <2>2, <3>1, <3>2, PacketsKept
  <2>4. /\ {} \in SUBSET Transactions /\ \A t \in {} : TrxOk(t)'
        /\ \A t \in {} : trx[t].ctx \notin Handles /\ trx'[t].ctx \notin Handles
        /\ \A s \in Handles : Restarts(s) => held' = held /\ T \notin {}
        /\ \A t \in Transactions \ {} : trx'[t] = trx[t]
        /\ errorBuf' = errorBuf /\ errorBuf \notin {}
        /\ trx' \in [Transactions -> TrxType] /\ held' \in {held, << >>}
    BY <1>1, <1>3, <2>1
  <2> QED
    BY <1>1, <1>2, <1>4, <2>3, <2>4, LooseStepKeeps
<1>6. CASE slot # "error"
  <2>1. PICK t \in Transactions : t = slot
    BY <1>1, <1>6 DEF Inv, TypeInv
  <2>2. /\ trx[t].st = "wait" /\ TrxOk(t) /\ trx[t] \in TrxType
        /\ trx' = [trx EXCEPT ![t] =
                       IF ~@.last THEN [@ EXCEPT !.st = "get_data"]
                       ELSE IF @.owner = "client" /\ @.reply THEN [@ EXCEPT !.st = "receive"]
                       ELSE NoTransaction]
    BY <1>3, <1>6, <2>1 DEF SendComplete, Inv, TrxInv
  <2>3. CASE trx[t].ctx \in Handles
    <3> DEFINE v == [trx[t] EXCEPT !.st = "get_data"]
    <3>1. PICK s \in Handles : s = trx[t].ctx
      BY <2>3
    <3>2. ~trx[t].last
      BY <2>2, <2>3 DEF TrxOk
    <3>3. trx' = [trx EXCEPT ![t] = v]
      BY <1>3, <2>2, <3>2
    <3>4. /\ v \in TrxType /\ v.owner = trx[t].owner /\ v.st = "get_data" /\ v.ctx = s
          /\ v.reply = trx[t].reply
      BY <2>2, <3>1 DEF TrxType, TrxStates
    <3>5. cli[s].send = t
      BY <2>2, <3>1 DEF Inv, LinkInv, CtxOk, Receiving
    <3>6. cli' = [cli EXCEPT ![s] = cli[s]] /\ cli[s] \in CliType
      BY <1>1, <1>3
    <3> HIDE DEF v
    <3>7. Sending(t, s, v, cli[s])
      BY <3>1, <3>4, <3>5 DEF Sending
    <3> QED
      BY <1>1, <1>2, <1>4, <2>2, <3>1, <3>3, <3>4, <3>6, <3>7, SendingStepKeeps, ZenonT(60)
  <2>4. CASE trx[t].ctx \notin Handles
    <3>1. /\ trx' \in [Transactions -> TrxType] /\ trx'[t].ctx = None
          /\ trx'[t] = NoTransaction \/ trx'[t].st = "get_data"
          /\ \A u \in Transactions \ {t} : trx'[u] = trx[u]
      <4>1. CASE ~trx[t].last
        <5>1. /\ [trx[t] EXCEPT !.st = "get_data"] \in TrxType
              /\ [trx[t] EXCEPT !.st = "get_data"].st = "get_data"
              /\ [trx[t] EXCEPT !.st = "get_data"].ctx = trx[t].ctx
          BY <2>2 DEF TrxType, TrxStates
        <5>2. trx[t].ctx = None
          BY <2>2, <2>4, <4>1 DEF TrxOk, TrxType
        <5>3. trx' = [trx EXCEPT ![t] = [trx[t] EXCEPT !.st = "get_data"]]
          BY <1>3, <2>2, <4>1
        <5> QED
          BY <1>3, <5>1, <5>2, <5>3
      <4>2. CASE trx[t].last
        <5>1. trx' = [trx EXCEPT ![t] = NoTransaction]
          BY <1>3, <2>2, <4>2 DEF TrxOk
        <5> QED
          BY <1>3, <5>1, NoTransactionIs
      <4> QED
        BY <2>2, <4>1, <4>2 DEF TrxType
    <3>2. trx'[t].st \in {"free", "get_data"} /\ None \notin Handles /\ None # Gone
      BY <3>1, NoTransactionIs, ConstantsAssumption
    <3>3. Held => T \in Transactions \ {t} /\ trx'[T] = trx[T]
      <4>1. Held => T \in Transactions /\ Receiving(T)
        BY HeldPacket DEF Inv, HeldInv
      <4> QED
        BY <2>2, <3>1, <4>1 DEF Receiving
    <3>4. PacketInv' /\ HeldInv'
      <4>1. \A u \in Transactions : (Receiving(u)' <=> Receiving(u)) /\ (Live(u)' => Live(u))
        BY <2>2, <3>1, <3>2 DEF Receiving, Live
      <4>2. TypeInv /\ PacketInv /\ HeldInv /\ up' = up
        BY <1>1 DEF Inv, connVars
      <4>3. Held /\ Now.op = "start" => trx[T].ctx = None
        BY <1>2, StartWaits
      <4>4. Held /\ Now.first /\ Now.op \in {"start", "exec"} /\ trx[T].reply => trx'[T].reply
        BY <3>3
      <4>5. Held /\ Now.op = "start" /\ pc' \notin Handling => trx'[T].ctx = None
        BY <3>3, <4>3
      <4> QED
        BY <1>1, <4>1, <4>2, <4>4, <4>5, PacketsKept
    <3>5. TrxOk(t)'
      BY <3>1, <3>2 DEF TrxOk, Receiving
    <3>6. /\ {t} \in SUBSET Transactions /\ \A u \in {t} : TrxOk(u)'
          /\ \A u \in {t} : trx[u].ctx \notin Handles /\ trx'[u].ctx \notin Handles
          /\ \A s \in Handles : Restarts(s) => held' = held /\ T \notin {t}
          /\ held' \in {held, << >>}
      BY <1>1, <2>4, <3>1, <3>2, <3>3, <3>5 DEF Restarts, Held
    <3>7. errorBuf' = errorBuf /\ errorBuf \notin {t}
      BY <1>1, <2>2, ConstantsAssumption DEF Inv, StreamInv, ErrorOk, Receiving
    <3> QED
      BY <1>1, <1>2, <1>4, <3>1, <3>4, <3>6, <3>7, LooseStepKeeps
  <2> QED
    BY <2>3, <2>4
<1> QED
  BY <1>5, <1>6

\* The session that is started is asked for data.
LEMMA AskForDataKeeps ==
    ASSUME Disciplined, Inv, NEW t \in Transactions, AskForData(t)
    PROVE  Inv'
<1>1. /\ pc = "poll" /\ up /\ trx[t].st = "get_data"
      /\ trx[t].ctx \in Handles /\ cli[trx[t].ctx].send = t
      /\ cli[trx[t].ctx].st = "started" /\ slot = None
  BY AskedSession DEF AskForData
<1>2. PICK s \in Handles : s = trx[t].ctx
  BY <1>1
<1> DEFINE v == [trx[t] EXCEPT !.reply = FALSE]
<1>3. /\ pc' = "send" /\ at' = t /\ cur' = s /\ fault' = FALSE /\ slot' = slot
      /\ UNCHANGED <<cli, ring, errorBuf, held, app, conv, sent, inbound, connVars>>
  BY <1>1, <1>2 DEF AskForData, NowCalls, CheckSend, cloudVars, Inv, TypeInv
<1>4. trx[t] \in TrxType /\ cli[s] \in CliType /\ cli' = [cli EXCEPT ![s] = cli[s]]
      /\ trx \in [Transactions -> TrxType]
  BY <1>3 DEF Inv, TypeInv
<1>5. /\ v \in TrxType /\ v.owner = trx[t].owner /\ v.st = "get_data" /\ v.ctx = s /\ ~v.reply
      /\ trx' = [trx EXCEPT ![t] = v]
  BY <1>1, <1>2, <1>4 DEF AskForData, TrxType
<1>6. trx'[t] = v
  BY <1>4, <1>5
<1> HIDE DEF v
<1>7. PcInv'
  BY <1>1, <1>2, <1>3, <1>5, <1>6 DEF PcInv, Handling, Answering
<1>8. /\ pc \notin Handling /\ pc' \notin Handling /\ pc' \in Pcs
      /\ pc # "end_response" /\ pc' # "end_response"
      /\ at' \in Transactions \cup {None} /\ cur' \in Handles \cup {None}
      /\ slot' \in Transactions \cup {None} /\ slot' \notin Transactions
  BY <1>1, <1>2, <1>3, ConstantsAssumption DEF Handling, Pcs
<1>9. Sending(t, s, v, cli[s])
  BY <1>1, <1>2, <1>5 DEF Sending
<1> QED
  BY <1>1, <1>2, <1>3, <1>4, <1>5, <1>7, <1>8, <1>9, SendingStepKeeps

\* The transaction t sends a packet: last says whether it is the last one.
LEMMA SendIs ==
    ASSUME NEW t \in Transactions, NEW table \in [Transactions -> TrxType],
           NEW last \in BOOLEAN, Send(table, t, last),
           \A u \in Transactions \ {t} : table[u] = trx[u], trx \in [Transactions -> TrxType]
    PROVE  \E v \in TrxType :
              /\ trx' = [trx EXCEPT ![t] = v] /\ trx'[t] = v
              /\ v.st = "wait" /\ v.last = last /\ v.ctx = table[t].ctx
              /\ v.owner = table[t].owner /\ v.reply = table[t].reply
              /\ slot' = t /\ pc' = "step" /\ at' = None /\ cur' = None
<1> DEFINE v == [table[t] EXCEPT !.st = "wait", !.fresh = FALSE, !.last = last]
<1>1. /\ v \in TrxType /\ v.st = "wait" /\ v.last = last /\ v.ctx = table[t].ctx
      /\ v.owner = table[t].owner /\ v.reply = table[t].reply
  <2>1. PICK x \in TrxType : x = table[t]
    OBVIOUS
  <2>2. [x EXCEPT !.st = "wait", !.fresh = FALSE, !.last = last] \in TrxType
    BY DEF TrxType, TrxStates
  <2> QED
    BY <2>1, <2>2 DEF TrxType
<1>2. trx' = [table EXCEPT ![t] = v]
  BY DEF Send
<1> HIDE DEF v
<1>3. trx' = [trx EXCEPT ![t] = v] /\ trx'[t] = v
  BY <1>2
<1> QED
  BY <1>1, <1>3 DEF Send, EndRound

-----------------------------------------------------------------------------
\* The start is acknowledged: its transaction is one of Device Cloud.
LEMMA AnswerStartKeeps ==
    ASSUME Disciplined, Inv, NEW t \in Transactions, AnswerStart(t)
    PROVE  Inv'
<1>1. /\ pc = "poll" /\ up /\ trx[t].st = "get_data" /\ trx[t].ctx \in Handles
      /\ cli[trx[t].ctx].send = t /\ cli[trx[t].ctx].st = "ack_start"
  BY AskedSession DEF AnswerStart
<1>2. PICK s \in Handles : s = trx[t].ctx
  BY <1>1
<1>3. trx \in [Transactions -> TrxType] /\ cli \in [Handles -> CliType] /\ trx[t] \in TrxType
      /\ cli[s] \in CliType /\ None \notin Transactions /\ None \notin Handles
  BY ConstantsAssumption DEF Inv, TypeInv
<1>4. /\ fault' = FALSE
      /\ UNCHANGED <<ring, errorBuf, held, app, conv, sent, inbound, connVars>>
  BY <1>1 DEF AnswerStart, CheckSend, Inv, TypeInv
<1> DEFINE c == [cli[s] EXCEPT !.st = "started", !.send = None]
           loose == [trx[t] EXCEPT !.ctx = None]
           table == [trx EXCEPT ![t] = loose]
<1>5. cli' = [cli EXCEPT ![s] = c] /\ Send(table, t, TRUE)
  BY <1>2, <1>3 DEF AnswerStart
<1>6. /\ c \in CliType /\ c.st = "started" /\ c.send = None /\ c.id = cli[s].id
      /\ c.op = cli[s].op /\ c.recv = cli[s].recv
  BY <1>3 DEF CliType, CliStates
<1>7. /\ loose \in TrxType /\ loose.ctx = None /\ loose.owner = "cloud"
  <2>1. StateOk(s)
    BY <1>1 DEF Inv, LinkInv
  <2>2. trx[t].owner = "cloud"
    BY <1>1, <1>2, <1>3, <2>1 DEF StateOk
  <2> QED
    BY <1>3, <2>2 DEF TrxType
<1> HIDE DEF c, loose
<1>8. /\ table \in [Transactions -> TrxType] /\ table[t] = loose
      /\ \A u \in Transactions \ {t} : table[u] = trx[u]
  BY <1>3, <1>7
<1> HIDE DEF table
<1>9. PICK v \in TrxType : /\ trx' = [trx EXCEPT ![t] = v] /\ trx'[t] = v
                           /\ v.st = "wait" /\ v.ctx = None /\ v.owner = "cloud"
                           /\ slot' = t /\ pc' = "step" /\ at' = None /\ cur' = None
  <2>1. TRUE \in BOOLEAN
    OBVIOUS
  <2>2. PICK v \in TrxType : /\ trx' = [trx EXCEPT ![t] = v] /\ trx'[t] = v
                             /\ v.st = "wait" /\ v.last = TRUE /\ v.ctx = table[t].ctx
                             /\ v.owner = table[t].owner /\ v.reply = table[t].reply
                             /\ slot' = t /\ pc' = "step" /\ at' = None /\ cur' = None
    BY <1>3, <1>5, <1>8, <2>1, SendIs
  <2> QED
    BY <1>7, <1>8, <2>2
<1>10. Sending(t, s, v, c)
  <2>1. v.owner = trx[t].owner
    <3>1. StateOk(s)
      BY <1>1 DEF Inv, LinkInv
    <3> QED
      BY <1>1, <1>2, <1>3, <1>9, <3>1 DEF StateOk
  <2> QED
    BY <1>1, <1>2, <1>3, <1>6, <1>9, <2>1 DEF Sending
<1>11. PcInv'
  BY <1>9 DEF PcInv, Handling, Answering
<1>12. /\ pc \notin Handling /\ pc' \notin Handling /\ pc' \in Pcs
       /\ pc # "end_response" /\ pc' # "end_response"
       /\ at' \in Transactions \cup {None} /\ cur' \in Handles \cup {None}
       /\ slot' \in Transactions \cup {None}
       /\ slot' \in Transactions => trx'[slot'].st = "wait"
  BY <1>1, <1>9 DEF Handling, Pcs
<1> QED
  BY <1>1, <1>2, <1>4, <1>5, <1>6, <1>9, <1>10, <1>11, <1>12, SendingStepKeeps

\* What is known when the answer of a callback for a packet to send comes.
LEMMA AnsweringSession ==
    ASSUME Inv, pc \in Answering
    PROVE  /\ up /\ at \in Transactions /\ cur \in Handles /\ trx[at].ctx = cur
           /\ trx[at].st = "get_data" /\ cli[cur].send = at /\ Exists(cur)
           /\ trx \in [Transactions -> TrxType] /\ cli \in [Handles -> CliType]
           /\ app \in [Handles -> AppType]
           /\ trx[at] \in TrxType /\ cli[cur] \in CliType /\ None \notin Handles
           /\ at # None /\ pc \notin Handling /\ pc # "step"
<1>1. /\ at \in Transactions /\ cur \in Handles /\ trx[at].ctx = cur
      /\ trx[at].st = "get_data" /\ None \notin Handles /\ at # None
  BY ConstantsAssumption DEF Inv, PcInv
<1>2. cli[cur].send = at /\ Exists(cur)
  BY <1>1, CarriedSession
<1>3. pc \notin Handling /\ pc # "step"
  BY DEF Answering, Handling
<1>4. up
  BY <1>3, StillUp DEF Inv
<1> QED
  BY <1>1, <1>2, <1>3, <1>4 DEF Inv, TypeInv

\* A packet that does not end what the session sends with its transaction.
LEMMA PacketSentKeeps ==
    ASSUME Inv, pc \in {"send", "execute"}, Send(trx, at, FALSE), fault' = FALSE,
           UNCHANGED <<cli, ring, errorBuf, held, app, conv, sent, inbound, connVars>>
    PROVE  Inv'
<1>1. /\ up /\ at \in Transactions /\ cur \in Handles /\ trx[at].ctx = cur
      /\ trx[at].st = "get_data" /\ cli[cur].send = at
      /\ trx \in [Transactions -> TrxType] /\ cli \in [Handles -> CliType]
      /\ cli[cur] \in CliType /\ pc \notin Handling
  BY AnsweringSession DEF Answering
<1>2. PICK t \in Transactions, s \in Handles : t = at /\ s = cur
  BY <1>1
<1>3. PICK v \in TrxType : /\ trx' = [trx EXCEPT ![t] = v] /\ trx'[t] = v
                           /\ v.st = "wait" /\ v.last = FALSE /\ v.ctx = trx[t].ctx
                           /\ v.owner = trx[t].owner /\ v.reply = trx[t].reply
                           /\ slot' = t /\ pc' = "step" /\ at' = None /\ cur' = None
  <2>1. FALSE \in BOOLEAN /\ Send(trx, t, FALSE) /\ \A u \in Transactions \ {t} : trx[u] = trx[u]
    BY <1>2
  <2> QED
    BY <1>1, <2>1, SendIs
<1>4. Sending(t, s, v, cli[s])
  BY <1>1, <1>2, <1>3 DEF Sending
<1>5. PcInv'
  BY <1>3 DEF PcInv, Handling, Answering
<1>6. /\ pc \notin Handling /\ pc' \notin Handling /\ pc' \in Pcs
      /\ pc # "end_response" /\ pc' # "end_response"
      /\ at' \in Transactions \cup {None} /\ cur' \in Handles \cup {None}
      /\ slot' \in Transactions \cup {None}
      /\ slot' \in Transactions => trx'[slot'].st = "wait"
      /\ cli' = [cli EXCEPT ![s] = cli[s]] /\ cli[s] \in CliType
  BY <1>1, <1>2, <1>3 DEF Handling, Pcs
<1> QED
  BY <1>1, <1>2, <1>3, <1>4, <1>5, <1>6, SendingStepKeeps

\* What the session has to send, the last of it, or nothing yet.
LEMMA SessionSendKeeps ==
    ASSUME Disciplined, Inv, SessionSend
    PROVE  Inv'
<1>1. /\ up /\ at \in Transactions /\ cur \in Handles /\ trx[at].ctx = cur
      /\ trx[at].st = "get_data" /\ cli[cur].send = at
      /\ trx \in [Transactions -> TrxType] /\ cli \in [Handles -> CliType]
      /\ trx[at] \in TrxType /\ cli[cur] \in CliType /\ None \notin Handles
      /\ pc \notin Handling /\ pc # "step"
  BY AnsweringSession DEF SessionSend, Answering
<1>2. /\ pc = "send" /\ fault' = FALSE
      /\ UNCHANGED <<ring, errorBuf, held, app, conv, sent, inbound, connVars, cloudVars>>
  BY DEF SessionSend, cloudVars, Inv, TypeInv
<1>3. CASE Send(trx, at, FALSE) /\ UNCHANGED cli
  BY <1>2, <1>3, PacketSentKeeps
<1>4. CASE EndRound /\ UNCHANGED <<trx, cli, slot>>
  BY <1>1, <1>2, <1>4, EndRoundKeeps
<1>5. CASE /\ Send([trx EXCEPT ![at].ctx = None], at, TRUE)
           /\ cli' = [cli EXCEPT ![cur].send = None]
  <2>1. PICK t \in Transactions, s \in Handles : t = at /\ s = cur
    BY <1>1
  <2> DEFINE c == [cli[s] EXCEPT !.send = None]
             loose == [trx[t] EXCEPT !.ctx = None]
             table == [trx EXCEPT ![t] = loose]
  <2>2. cli' = [cli EXCEPT ![s] = c] /\ Send(table, t, TRUE)
    BY <1>1, <1>5, <2>1
  <2>3. /\ c \in CliType /\ c.st = cli[s].st /\ c.send = None /\ c.id = cli[s].id
        /\ c.op = cli[s].op /\ c.recv = cli[s].recv
    BY <1>1, <2>1 DEF CliType
  <2>4. /\ loose \in TrxType /\ loose.ctx = None /\ loose.owner = trx[t].owner
        /\ loose.reply = trx[t].reply
    BY <1>1, <2>1 DEF TrxType
  <2> HIDE DEF c, loose
  <2>5. /\ table \in [Transactions -> TrxType] /\ table[t] = loose
        /\ \A u \in Transactions \ {t} : table[u] = trx[u]
    BY <1>1, <2>4
  <2> HIDE DEF table
  <2>6. PICK v \in TrxType : /\ trx' = [trx EXCEPT ![t] = v] /\ trx'[t] = v
                             /\ v.st = "wait" /\ v.ctx = None /\ v.owner = trx[t].owner
                             /\ v.reply = trx[t].reply
                             /\ slot' = t /\ pc' = "step" /\ at' = None /\ cur' = None
    <3>1. TRUE \in BOOLEAN
      OBVIOUS
    <3>2. PICK v \in TrxType : /\ trx' = [trx EXCEPT ![t] = v] /\ trx'[t] = v
                               /\ v.st = "wait" /\ v.last = TRUE /\ v.ctx = table[t].ctx
                               /\ v.owner = table[t].owner /\ v.reply = table[t].reply
                               /\ slot' = t /\ pc' = "step" /\ at' = None /\ cur' = None
      BY <1>1, <2>2, <2>5, <3>1, SendIs
    <3> QED
      BY <2>4, <2>5, <3>2
  <2>7. ~trx[t].reply /\ cli[s].st = "started"
    BY <1>2, <2>1 DEF Inv, PcInv
  <2>8. Sending(t, s, v, c)
    BY <1>1, <2>1, <2>3, <2>6, <2>7 DEF Sending
  <2>9. PcInv'
    BY <2>6 DEF PcInv, Handling, Answering
  <2>10. /\ pc' \notin Handling /\ pc' \in Pcs /\ pc # "end_response" /\ pc' # "end_response"
         /\ at' \in Transactions \cup {None} /\ cur' \in Handles \cup {None}
         /\ slot' \in Transactions \cup {None}
         /\ slot' \in Transactions => trx'[slot'].st = "wait"
    BY <1>2, <2>6 DEF Handling, Pcs
  <2> QED
    BY <1>1, <1>2, <2>1, <2>2, <2>3, <2>6, <2>8, <2>9, <2>10, SendingStepKeeps
<1> QED
  BY <1>3, <1>4, <1>5 DEF SessionSend

\* The result of a command, all of it, or nothing yet.
LEMMA SessionExecuteKeeps ==
    ASSUME Disciplined, Inv, SessionExecute
    PROVE  Inv'
<1>1. /\ up /\ at \in Transactions /\ cur \in Handles /\ trx[at].ctx = cur
      /\ trx[at].st = "get_data" /\ app \in [Handles -> AppType]
      /\ pc \notin Handling /\ pc # "step" /\ None \notin Handles
  BY AnsweringSession DEF SessionExecute, Answering
<1>2. /\ pc = "execute" /\ fault' = FALSE
      /\ UNCHANGED <<cli, ring, errorBuf, held, conv, sent, inbound, connVars, cloudVars>>
  BY DEF SessionExecute, cloudVars, Inv, TypeInv
<1>3. CASE Send(trx, at, FALSE) /\ UNCHANGED app
  BY <1>2, <1>3, PacketSentKeeps
<1>4. CASE EndRound /\ UNCHANGED <<trx, slot, app>>
  BY <1>1, <1>2, <1>4, EndRoundKeeps
<1>5. CASE /\ pc' = "end_response" /\ UNCHANGED <<trx, slot, callVars>>
           /\ app' = [app EXCEPT ![cur].is = "executed"]
  <2>1. PICK s \in Handles : s = cur
    BY <1>1
  <2>2. at' = at /\ cur' = s /\ cli[s].st = "execute_command" /\ trx' = trx /\ cli' = cli
    BY <1>2, <1>5, <2>1 DEF callVars, Inv, PcInv
  <2>3. /\ app' \in [Handles -> AppType] /\ app'[s].is = "executed"
        /\ \A r \in Handles \ {s} : app'[r] = app[r]
    BY <1>1, <1>5, <2>1 DEF AppType, Words
  <2>4. AppAgrees'
    <3>1. AppOk(s)'
      BY <1>5, <2>2, <2>3 DEF AppOk
    <3>2. \A r \in Handles \ {s} : cli'[r] = cli[r] /\ app'[r] = app[r]
      BY <2>2, <2>3
    <3> QED
      BY <1>2, <2>2, <3>1, <3>2, AppKept
  <2>5. PcInv'
    BY <1>1, <1>5, <2>1, <2>2 DEF PcInv, Handling, Answering
  <2>6. Held /\ Now.op = "start" => trx[T].ctx = None
    BY <1>1, StartWaits
  <2>7. pc' \in Pcs /\ at' \in Transactions \cup {None} /\ cur' \in Handles \cup {None}
    BY <1>1, <1>5, <2>2 DEF Pcs
  <2> QED
    BY <1>1, <1>2, <1>5, <2>3, <2>4, <2>5, <2>6, <2>7, StillKeeps
<1> QED
  BY <1>3, <1>4, <1>5 DEF SessionExecute

-----------------------------------------------------------------------------
\* A transaction that is free is not used anywhere.
LEMMA FreshTransaction ==
    ASSUME Inv, NEW n \in Transactions, TransactionFree(n)
    PROVE  /\ ~Live(n) /\ trx[n].ctx = None /\ slot # n /\ errorBuf # n
           /\ Coming(n) = {} /\ Due(n) = {} /\ (Held => T # n)
<1>1. ~Live(n) /\ slot # n /\ errorBuf # n /\ conv[n] = << >>
      /\ \A i \in DOMAIN inbound : inbound[i].t # n
  BY DEF TransactionFree
<1>2. DOMAIN inbound = 1 .. Len(inbound)
  BY LenProperties DEF Inv, TypeInv
<1>3. trx[n] = NoTransaction
  BY <1>1 DEF Live, Inv, TrxInv, TrxOk
<1>4. Coming(n) = {}
  BY <1>1, <1>2, EmptySeq DEF Coming, Elements
<1>5. Held => T # n
  BY <1>1 DEF Inv, HeldInv, Live, Receiving
<1> QED
  BY <1>1, <1>3, <1>4, <1>5, NoTransactionIs DEF Due

\* A session that is polled sends with a new transaction.
LEMMA OpenTransactionKeeps ==
    ASSUME Inv, pc \in {"sessions", "poll_session"}, NEW s \in Handles,
           \/ cli[s].st = "started" /\ cli[s].send = None
           \/ cli[s].st = "pending_error",
           NEW st \in {"started", "send_close"}, OpenTransaction(s, st),
           UNCHANGED <<errorBuf, slot, held, at, connVars, app, cloudVars>>, fault' = FALSE
    PROVE  Inv'
<1>1. /\ up /\ pc \notin Handling /\ None \notin Handles /\ None # Gone /\ s # None
      /\ None \notin Transactions
  BY StillUp, ConstantsAssumption DEF Handling, Inv
<1>2. /\ UNCHANGED <<errorBuf, slot, held, at, app, conv, sent, inbound>> /\ up' = up
      /\ Held' = Held /\ Now' = Now /\ T' = T
  BY DEF connVars, cloudVars, Held, Now, T
<1>3. Held /\ Now.op = "start" => trx[T].ctx = None
  BY <1>1, StartWaits
<1>4. CASE ~MayOpen
  <2>1. /\ pc' = "step" /\ cur' = None /\ ring' = ring /\ UNCHANGED <<trx, cli>>
    BY <1>4 DEF OpenTransaction, StopRound
  <2>2. PcInv'
    BY <2>1 DEF PcInv, Handling, Answering
  <2>3. /\ pc' \in Pcs /\ at' \in Transactions \cup {None} /\ cur' \in Handles \cup {None}
        /\ pc # "end_response" /\ pc' # "end_response" /\ ring' \in {ring, Rotated}
    BY <1>2, <2>1 DEF Pcs, Inv, TypeInv
  <2> QED
    BY <1>1, <1>2, <1>3, <2>1, <2>2, <2>3, QuietKeeps
<1>5. CASE MayOpen
  <2>1. PICK n \in Transactions : n = NewTransaction /\ TransactionFree(n)
    BY <1>5, SpareTransaction DEF MayOpen
  <2>2. /\ ~Live(n) /\ trx[n].ctx = None /\ slot # n /\ errorBuf # n
        /\ Coming(n) = {} /\ Due(n) = {} /\ (Held => T # n)
    BY <2>1, FreshTransaction
  <2> DEFINE c == [cli[s] EXCEPT !.send = n, !.st = st]
             v == OwnTransaction(s)
  <2>3. /\ trx \in [Transactions -> TrxType] /\ cli \in [Handles -> CliType]
        /\ cli[s] \in CliType
    BY DEF Inv, TypeInv
  <2>4. /\ trx' = [trx EXCEPT ![n] = v] /\ cli' = [cli EXCEPT ![s] = c]
        /\ pc' = "poll" /\ cur' = None /\ ring' = Rotated
    BY <1>5, <2>1, <2>3 DEF OpenTransaction, NextSession
  <2>5. /\ v \in TrxType /\ v.st = "get_data" /\ v.ctx = s /\ v.owner = "client"
    BY DEF OwnTransaction, NoTransaction, TrxType, TrxStates
  <2>6. /\ c \in CliType /\ c.st = st /\ c.send = n /\ c.id = cli[s].id
        /\ c.op = cli[s].op /\ c.recv = cli[s].recv
    BY <2>3 DEF CliType, CliStates, Ending
  <2> HIDE DEF c, v
  <2>7. /\ trx' \in [Transactions -> TrxType] /\ trx'[n] = v
        /\ \A u \in Transactions \ {n} : trx'[u] = trx[u]
        /\ cli' \in [Handles -> CliType] /\ cli'[s] = c
        /\ \A r \in Handles \ {s} : cli'[r] = cli[r]
    BY <2>3, <2>4, <2>5, <2>6
  <2>8. /\ RecvOk(s) /\ SendOk(s) /\ StateOk(s) /\ SessionOk(s)
    BY <1>1 DEF Inv, LinkInv, RingInv
  <2>9. cli[s].send = None \/ Moving(s)
    BY <2>8 DEF StateOk
  <2>10. PacketInv' /\ HeldInv'
    <3>1. \A u \in Transactions : (Receiving(u)' <=> Receiving(u))
                                  /\ (Live(u)' => Live(u) \/ Coming(u) = {})
      BY <2>2, <2>5, <2>7 DEF Receiving, Live
    <3>2. TypeInv /\ PacketInv /\ HeldInv
      BY DEF Inv
    <3>3. Held => T \in Transactions /\ trx'[T] = trx[T]
      BY <2>2, <2>7, HeldPacket DEF Inv
    <3>4. /\ Held /\ Now.first /\ Now.op \in {"start", "exec"} /\ trx[T].reply => trx'[T].reply
          /\ Held /\ Now.op = "start" /\ pc' \notin Handling => trx'[T].ctx = None
      BY <1>3, <3>3
    <3> QED
      BY <1>2, <3>1, <3>2, <3>4, PacketsKept
  <2>11. /\ TrxOk(n)' /\ CtxOk(n)' /\ StreamOk(n)'
    <3>1. Due(n)' = {}
      BY <1>2, <2>2 DEF Due, Coming
    <3>2. c.st # "free"
      BY <2>6
    <3> QED
      BY <1>1, <2>5, <2>6, <2>7, <3>1, <3>2, ConstantsAssumption
         DEF TrxOk, CtxOk, StreamOk, Receiving, Exists
  <2>12. ASSUME NEW u \in Transactions, trx[u].ctx = s, u # n
         PROVE  CtxOk(u)' /\ StreamOk(u)'
    <3>1. CtxOk(u) /\ StreamOk(u) /\ trx'[u] = trx[u]
      BY <2>7, <2>12 DEF Inv, LinkInv, StreamInv
    <3>2. Due(u)' = Due(u)
      BY <1>2 DEF Due, Coming
    <3>3. Receiving(u) /\ cli[s].recv = u
      <4>1. cli[s].send = u => Receiving(u)
        BY <1>1, <2>9 DEF Moving, Inv, HeldInv
      <4> QED
        BY <2>12, <3>1, <4>1 DEF CtxOk, Receiving
    <3> QED
      BY <2>6, <2>7, <2>12, <3>1, <3>2, <3>3 DEF CtxOk, StreamOk, Receiving, Exists
  <2>13. SessionLinks(s)'
    <3>1. cli[s].recv # None => cli[s].recv \in Transactions \ {n}
      BY <2>2, <2>3, <2>8 DEF RecvOk, Receiving, Live, CliType
    <3>2. RecvOk(s)'
      BY <2>6, <2>7, <2>8, <3>1 DEF RecvOk, Receiving
    <3>3. SendOk(s)'
      BY <2>5, <2>6, <2>7 DEF SendOk
    <3>4. ExecOk(s)' /\ StateOk(s)'
      BY <1>1, <2>6, <2>7 DEF ExecOk, StateOk
    <3> QED
      BY <3>2, <3>3, <3>4 DEF SessionLinks
  <2>14. RingInv' /\ ring' \in Seq(Handles)
    <3>1. SessionOk(s)'
      BY <2>6, <2>7, <2>8 DEF SessionOk, Exists
    <3>2. cli'[s].id = cli[s].id /\ cli'[s].st # "free" /\ Exists(s)
      BY <2>6, <2>7 DEF Exists
    <3>3. ring' \in {ring, Rotated}
      BY <2>4
    <3> QED
      BY <2>7, <3>1, <3>2, <3>3, RingKept
  <2>15. AppAgrees'
    <3>1. AppOk(s)
      BY DEF Inv, AppAgrees, AppOk
    <3>2. AppOk(s)'
      BY <1>2, <2>6, <2>7, <3>1 DEF AppOk
    <3>3. /\ \A r \in Handles \ {s} : cli'[r] = cli[r] /\ app'[r] = app[r]
          /\ pc # "end_response" /\ pc' # "end_response"
      BY <1>2, <2>4, <2>7
    <3> QED
      BY <3>2, <3>3, AppKept
  <2>16. TypeInv'
    <3>1. pc' \in Pcs /\ cur' = None
      BY <2>4 DEF Pcs
    <3> QED
      BY <1>2, <2>7, <2>14, <3>1 DEF Inv, TypeInv
  <2>17. PcInv'
    BY <2>4 DEF PcInv, Handling, Answering
  <2>18. Elsewhere(s, {n})
    <3>1. trx'[n].ctx = s
      BY <2>5, <2>7
    <3> QED
      BY <1>1, <1>2, <2>2, <2>7, <3>1 DEF Elsewhere, Restarts, Held
  <2>19. errorBuf' = errorBuf /\ errorBuf \notin {n} /\ {n} \in SUBSET Transactions
         /\ \A u \in {n} : TrxOk(u)'
    BY <1>2, <2>2, <2>11
  <2>20. \A u \in Transactions : u \in {n} \/ (s \in Handles /\ trx[u].ctx = s)
                                    => CtxOk(u)' /\ StreamOk(u)'
    BY <2>11, <2>12
  <2>21. slot' \in Transactions => trx'[slot'].st = "wait"
    BY <1>2, <2>2, <2>7 DEF Inv, TrxInv
  <2> QED
    BY <1>1, <2>10, <2>13, <2>14, <2>15, <2>16, <2>17, <2>18, <2>19, <2>20, <2>21, StepKeeps
<1> QED
  BY <1>4, <1>5

\* An error closes the session.
LEMMA PollErrorKeeps ==
    ASSUME Disciplined, Inv, PollError
    PROVE  Inv'
<1>1. /\ pc = "sessions" /\ Candidate # None /\ cli[Candidate].st = "pending_error"
      /\ UNCHANGED <<errorBuf, slot, held, at, connVars, app, cloudVars>> /\ fault' = FALSE
      /\ OpenTransaction(Candidate, "send_close")
  BY DEF PollError, Disciplined, Inv, TypeInv
<1>2. Candidate \in Handles
  BY <1>1, CandidateIs
<1> QED
  BY <1>1, <1>2, OpenTransactionKeeps

\* The session has nothing to send, something, or is done.
LEMMA SessionPollKeeps ==
    ASSUME Disciplined, Inv, SessionPoll
    PROVE  Inv'
<1>1. /\ pc = "poll_session" /\ fault' = FALSE
      /\ UNCHANGED <<errorBuf, slot, held, at, connVars, app, cloudVars>>
  BY DEF SessionPoll, Inv, TypeInv
<1>2. /\ cur \in Handles /\ cli[cur].st = "started" /\ cli[cur].send = None
      /\ up /\ pc \notin Handling /\ cli \in [Handles -> CliType]
  BY <1>1, StillUp DEF Inv, PcInv, Handling, TypeInv
<1>3. CASE \E st \in {"started", "send_close"} : OpenTransaction(cur, st)
  BY <1>1, <1>2, <1>3, OpenTransactionKeeps
<1>4. CASE /\ UNCHANGED <<trx, cli>> /\ ring' \in {ring, Rotated} /\ cur' = None
           /\ pc' \in {"poll", "step"}
  <2>1. PcInv'
    BY <1>4 DEF PcInv, Handling, Answering
  <2>2. Held /\ Now.op = "start" => trx[T].ctx = None
    BY <1>2, StartWaits
  <2>3. /\ pc' \in Pcs /\ at' \in Transactions \cup {None} /\ cur' \in Handles \cup {None}
        /\ pc # "end_response" /\ pc' # "end_response"
    BY <1>1, <1>4 DEF Pcs, Inv, TypeInv
  <2> QED
    BY <1>1, <1>2, <1>4, <2>1, <2>2, <2>3, QuietKeeps
<1>5. CASE NoBlock(cur, "started")
  <2>1. cli' = cli
    <3>1. [cli[cur] EXCEPT !.st = "started"] = cli[cur]
      BY <1>2 DEF CliType
    <3>2. cli' = [cli EXCEPT ![cur] = cli[cur]]
      BY <1>2, <1>5, <3>1 DEF NoBlock
    <3> QED
      BY <1>2, <3>2
  <2> QED
    BY <1>4, <1>5, <2>1 DEF NoBlock, NextSession
<1> QED
  BY <1>3, <1>4, <1>5 DEF SessionPoll, NextSession, StopRound

-----------------------------------------------------------------------------
\* No session is one that is free.
LEMMA NoSessionIs ==
    /\ NoSession \in CliType /\ NoSession.st = "free" /\ NoSession.recv = None
    /\ NoSession.send = None
<1>1. 0 \in 0 .. Units
  BY ConstantsAssumption
<1> QED
  BY <1>1 DEF NoSession, CliType, CliStates

\* The packets due for the transaction of the packet in the receive buffer are like it.
LEMMA DueAlike ==
    ASSUME Inv, Held, Now.op # "error"
    PROVE  \A q \in Due(T) : q.id = Now.id /\ q.op \in {Now.op, "error"}
  BY DEF Inv, HeldInv, Due, Same

\* The packet belongs to no other session.
LEMMA OnlyRestart ==
    ASSUME Inv, Held, NEW s \in Handles, Exists(s), Now.op = "start" => Now.id = cli[s].id
    PROVE  \A r \in Handles \ {s} : ~Restarts(r)
<1> SUFFICES ASSUME NEW r \in Handles \ {s}, Now.op = "start", Now.id = cli[r].id
             PROVE  FALSE
  BY DEF Restarts
<1>1. cli[r].id = cli[s].id /\ cli[r].id # None
  BY HeldPacket DEF Inv, PacketType, Proper
<1>2. Exists(r)
  BY <1>1 DEF Inv, RingInv, SessionOk, Exists, NoSession
<1> QED
  BY <1>1, <1>2 DEF Inv, RingInv

\* A request for which there is no session starts one.
LEMMA CreateKeeps ==
    ASSUME Disciplined, Inv, Create
    PROVE  Inv'
<1>1. /\ pc = "packet" /\ trx[T].ctx = None /\ Now.first /\ Known = None /\ fault' = FALSE
      /\ Now.op \in {"start", "exec"} /\ ~Full
      /\ UNCHANGED <<errorBuf, slot, conv, sent, inbound, connVars>>
  BY DEF Create, Starts, Looks, cloudVars, Inv, TypeInv
<1>2. PICK s \in Handles :
         /\ ~Exists(s) /\ ring' = Append(ring, s)
         /\ IF Now.op = "start"
            THEN cli' = [cli EXCEPT ![s] = [NoSession EXCEPT
                     !.st = "uninitialized", !.id = Now.id, !.op = "start", !.recv = T]]
            ELSE cli' = [cli EXCEPT ![s] = [NoSession EXCEPT
                     !.st = "execute_command", !.id = None, !.op = "exec"]]
         /\ app' = IF Now.op = "exec" THEN [app EXCEPT ![s].is = "command"] ELSE app
         /\ trx' = [trx EXCEPT ![T].ctx = s]
         /\ Handle(s)
  BY DEF Create, Disciplined
<1>3. /\ Held /\ up /\ Now \in PacketType /\ T \in Transactions
      /\ trx[T].st = "receive" /\ TrxOk(T) /\ trx[T] \in TrxType
      /\ trx[T].owner = "cloud" /\ Proper(Now)
      /\ None \notin Handles /\ None # Gone /\ None \notin Transactions /\ s # Gone
  BY <1>1, LookedAt, ConstantsAssumption DEF PacketType, Receiving
<1>4. PICK t \in Transactions : t = T
  BY <1>3
<1>5. /\ pc' = "handle" /\ cur' = s /\ at' = at /\ held' = held
      /\ Held' /\ Now' = Now /\ T' = t /\ up' = up
  BY <1>1, <1>2, <1>3, <1>4 DEF Handle, Held, Now, T, connVars
<1>6. /\ trx \in [Transactions -> TrxType] /\ cli \in [Handles -> CliType]
      /\ app \in [Handles -> AppType] /\ ring \in Seq(Handles)
  BY DEF Inv, TypeInv
<1>7. /\ trx' \in [Transactions -> TrxType] /\ trx'[t].ctx = s /\ trx'[t].st = "receive"
      /\ trx'[t].owner = "cloud" /\ trx'[t].reply = trx[t].reply
      /\ \A u \in Transactions \ {t} : trx'[u] = trx[u]
  BY <1>2, <1>3, <1>4, <1>6 DEF TrxType
<1> DEFINE c == cli'[s]
<1>8. /\ cli' \in [Handles -> CliType] /\ \A r \in Handles \ {s} : cli'[r] = cli[r]
      /\ c.id = Now.id /\ c.op = Now.op /\ c.send = None
      /\ Now.op = "start" => c.st = "uninitialized" /\ c.recv = t
      /\ Now.op = "exec" => c.st = "execute_command" /\ c.recv = None
  <2>1. CASE Now.op = "start"
    <3> DEFINE d == [NoSession EXCEPT !.st = "uninitialized", !.id = Now.id, !.op = "start",
                                      !.recv = t]
    <3>1. /\ d \in CliType /\ d.st = "uninitialized" /\ d.id = Now.id /\ d.op = "start"
          /\ d.recv = t /\ d.send = None
      BY <1>3, NoSessionIs DEF CliType, CliStates, PacketType, Operations
    <3>2. cli' = [cli EXCEPT ![s] = d]
      BY <1>2, <1>4, <2>1
    <3> HIDE DEF d
    <3> QED
      BY <1>6, <2>1, <3>1, <3>2
  <2>2. CASE Now.op = "exec"
    <3> DEFINE d == [NoSession EXCEPT !.st = "execute_command", !.id = None, !.op = "exec"]
    <3>1. /\ d \in CliType /\ d.st = "execute_command" /\ d.id = None /\ d.op = "exec"
          /\ d.recv = None /\ d.send = None
      BY NoSessionIs DEF CliType, CliStates, Operations
    <3>2. cli' = [cli EXCEPT ![s] = d]
      BY <1>2, <2>2
    <3>3. Now.id = None
      BY <1>3, <2>2 DEF Proper
    <3> HIDE DEF d
    <3> QED
      BY <1>6, <2>2, <3>1, <3>2, <3>3
  <2> QED
    BY <1>1, <2>1, <2>2
<1> HIDE DEF c
<1>9. /\ c.st \in {"uninitialized", "execute_command"} /\ c.st # "free"
      /\ c.st = "execute_command" <=> Now.op = "exec"
  BY <1>1, <1>8
<1>10. \A r \in Handles : ~Restarts(r)
  BY <1>1, NoRestart
<1>11. \A u \in Transactions : trx[u].ctx # s
  BY <1>2 DEF Inv, LinkInv, CtxOk
<1>12. PacketInv' /\ HeldInv'
  <2>1. \A u \in Transactions : (Receiving(u)' <=> Receiving(u)) /\ (Live(u)' => Live(u))
    BY <1>3, <1>4, <1>7 DEF Receiving, Live
  <2>2. /\ Held /\ Now.first /\ Now.op \in {"start", "exec"} /\ trx[T].reply => trx'[T].reply
        /\ Held /\ Now.op = "start" /\ pc' \notin Handling => trx'[T].ctx = None
    BY <1>4, <1>5, <1>7 DEF Handling
  <2>3. TypeInv /\ PacketInv /\ HeldInv
    BY DEF Inv
  <2> QED
    BY <1>1, <1>5, <2>1, <2>2, <2>3, PacketsKept
<1>13. TrxOk(t)' /\ CtxOk(t)' /\ StreamOk(t)'
  <2>1. Due(t)' = Due(t)
    BY <1>1, <1>4, <1>5 DEF Due, Coming, Held
  <2>2. \A q \in Due(t) : q.id = Now.id /\ q.op \in {Now.op, "error"}
    BY <1>1, <1>3, <1>4, DueAlike
  <2>3. TrxOk(t)'
    BY <1>3, <1>7 DEF TrxOk, Receiving
  <2>4. CtxOk(t)'
    BY <1>1, <1>7, <1>8, <1>9 DEF CtxOk, Receiving, Exists, c
  <2>5. StreamOk(t)'
    BY <1>7, <1>8, <2>1, <2>2 DEF StreamOk, c
  <2> QED
    BY <2>3, <2>4, <2>5
<1>14. SessionLinks(s)'
  <2>1. RecvOk(s)'
    BY <1>1, <1>3, <1>7, <1>8, <1>9 DEF RecvOk, Receiving, c
  <2>2. SendOk(s)'
    BY <1>8 DEF SendOk, c
  <2>3. ExecOk(s)'
    <3>1. Now.op = "exec" => trx[t].reply
      BY <1>1, <1>3, <1>4 DEF Inv, HeldInv
    <3> QED
      BY <1>4, <1>7, <1>9, <1>11, <3>1 DEF ExecOk, c
  <2>4. StateOk(s)'
    BY <1>1, <1>3, <1>4, <1>8, <1>9 DEF StateOk, c
  <2> QED
    BY <2>1, <2>2, <2>3, <2>4 DEF SessionLinks
<1>15. RingInv' /\ ring' \in Seq(Handles)
  <2>1. /\ Once(ring) /\ Elements(ring) = {r \in Handles : Exists(r)}
        /\ Len(ring) \in Nat /\ MaxSessions \in Nat
    BY <1>6, LenProperties, ConstantsAssumption DEF Inv, RingInv
  <2>2. Len(ring) < MaxSessions
    <3>1. Cardinality({r \in Handles : Exists(r)}) = Len(ring)
      BY <1>6, <2>1, LengthCounts
    <3> QED
      BY <1>1, <2>1, <3>1 DEF Full
  <2>3. /\ ring' \in Seq(Handles) /\ Len(ring') = Len(ring) + 1
        /\ \A i \in 1 .. Len(ring) : ring'[i] = ring[i]
        /\ ring'[Len(ring) + 1] = s
        /\ Elements(ring') = Elements(ring) \cup {s}
    BY <1>2, <1>6, AppendedElements
  <2>4. s \notin Elements(ring)
    BY <1>2, <2>1
  <2>5. Once(ring')
    <3>1. \A i \in 1 .. Len(ring) + 1 : i \in 1 .. Len(ring) \/ i = Len(ring) + 1
      BY <2>1
    <3>2. \A i \in 1 .. Len(ring) : ring[i] # s
      BY <2>4 DEF Elements
    <3> QED
      BY <2>1, <2>3, <3>1, <3>2 DEF Once
  <2>6. \A r \in Handles : Exists(r)' <=> Exists(r) \/ r = s
    BY <1>8, <1>9 DEF Exists, c
  <2>7. Elements(ring') = {r \in Handles : Exists(r)'}
    BY <2>1, <2>3, <2>6
  <2>8. \A r \in Handles : SessionOk(r)'
    <3>1. SessionOk(s)'
      BY <1>1, <1>3, <1>8, <1>9 DEF SessionOk, Exists, c, Proper
    <3> QED
      BY <1>8, <3>1 DEF SessionOk, Exists, Inv, RingInv
  <2>9. \A p, r \in Handles : Exists(p)' /\ Exists(r)' /\ cli'[p].id = cli'[r].id
                                 /\ cli'[p].id # None => p = r
    <3>1. ASSUME NEW r \in Handles, Exists(r), Now.id # None PROVE cli[r].id # Now.id
      <4>1. Now.id \in Ids /\ Find(Now.id) = None
        BY <1>1, <1>3, <3>1 DEF Known, PacketType, Proper
      <4>2. \A id \in Ids : Find(id) = None => \A p \in Handles : Exists(p) => cli[p].id # id
        <5> TAKE id \in Ids
        <5> QED
          BY <1>3, FindIs
      <4> QED
        BY <3>1, <4>1, <4>2
    <3> QED
      BY <1>8, <2>6, <3>1 DEF Inv, RingInv, c
  <2>10. Len(ring') <= MaxSessions
    BY <2>1, <2>2, <2>3
  <2> QED
    BY <2>3, <2>5, <2>7, <2>8, <2>9, <2>10 DEF RingInv, Once, Elements
<1>16. /\ app' \in [Handles -> AppType] /\ \A r \in Handles \ {s} : app'[r] = app[r]
       /\ Now.op = "exec" => app'[s].is = "command"
       /\ Now.op = "start" => app'[s].is = "none"
  <2>1. app[s].is = "none"
    BY <1>2 DEF Inv, AppAgrees, Exists
  <2> QED
    BY <1>1, <1>2, <1>6, <2>1 DEF AppType, Words
<1>17. AppAgrees'
  <2>1. AppOk(s)'
    BY <1>1, <1>5, <1>8, <1>16 DEF AppOk, c
  <2> QED
    BY <1>1, <1>5, <1>8, <1>16, <2>1, AppKept
<1>18. TypeInv'
  <2>1. pc' \in Pcs /\ at' \in Transactions \cup {None} /\ cur' \in Handles \cup {None}
    BY <1>5 DEF Pcs, Inv, TypeInv
  <2>2. app' \in [Handles -> AppType]
    BY <1>16
  <2> QED
    BY <1>1, <1>5, <1>7, <1>8, <1>15, <2>1, <2>2 DEF Inv, TypeInv
<1>19. PcInv'
  BY <1>1, <1>5, <1>7, <1>8, <1>9 DEF PcInv, Handling, Answering, Exists, c
<1>20. Elsewhere(s, {t})
  BY <1>1, <1>3, <1>4, <1>5, <1>7, <1>8, <1>10 DEF Elsewhere
<1>21. errorBuf' = errorBuf /\ errorBuf \notin {t}
  BY <1>1, <1>4, FirstIsNotInErrorBuffer
<1>22. /\ {t} \in SUBSET Transactions /\ \A u \in {t} : TrxOk(u)'
       /\ \A u \in Transactions : u \in {t} \/ (s \in Handles /\ trx[u].ctx = s)
                                     => CtxOk(u)' /\ StreamOk(u)'
  BY <1>11, <1>13
<1>23. slot' \in Transactions => trx'[slot'].st = "wait"
  BY <1>1, <1>3, <1>4, <1>7 DEF Inv, TrxInv
<1> QED
  BY <1>3, <1>12, <1>14, <1>15, <1>17, <1>18, <1>19, <1>20, <1>21, <1>22, <1>23, StepKeeps

-----------------------------------------------------------------------------
\* The transactions that carry a session are the ones that it points to.
Carriers(s) == {u \in Transactions : trx[u].ctx = s}

\* The transactions that a session points to are those that carry it.
LEMMA PointersAre ==
    ASSUME Inv, NEW s \in Handles, cli[s].st # "execute_command",
           cli[s].send # None => trx[cli[s].send].ctx = s
    PROVE  /\ Pointers(s) \ {None} = Carriers(s) /\ ~Dangles(Pointers(s))
           /\ \A u \in Transactions : u \in Pointers(s) <=> u \in Carriers(s)
<1>1. /\ cli[s] \in CliType /\ None \notin Transactions /\ None \notin Handles
      /\ RecvOk(s) /\ \A u \in Transactions : CtxOk(u) /\ TrxOk(u)
  BY ConstantsAssumption DEF Inv, TypeInv, LinkInv, TrxInv
<1>2. /\ cli[s].recv \in Transactions \cup {None} /\ cli[s].send \in Transactions \cup {None}
      /\ cli[s].recv # None => trx[cli[s].recv].ctx = s
  BY <1>1 DEF CliType, RecvOk
<1>3. \A u \in Carriers(s) : u \in Pointers(s) /\ Live(u)
  <2>1. \A u \in Carriers(s) : u \in Pointers(s)
    BY <1>1 DEF CtxOk, Carriers, Pointers
  <2>2. \A u \in Carriers(s) : Live(u)
    BY <1>1, NoTransactionIs DEF TrxOk, Carriers, Live
  <2> QED
    BY <2>1, <2>2
<1>4. \A u \in Pointers(s) \ {None} : u \in Carriers(s)
  BY <1>2 DEF Pointers, Carriers
<1>5. \A u \in Carriers(s) : u \in Transactions /\ u # None
  BY <1>1 DEF Carriers
<1> QED
  BY <1>1, <1>3, <1>4, <1>5 DEF Dangles

\* A transaction whose pointer is cleared.
LEMMA CutTransaction ==
    ASSUME Inv, NEW u \in Transactions, trx[u].ctx \in Handles,
           trx'[u].ctx = None, trx'[u].st = trx[u].st, trx'[u].owner = trx[u].owner,
           trx'[u].last = trx[u].last
    PROVE  TrxOk(u)'
<1>1. TrxOk(u) /\ None \notin Handles /\ None # Gone
  BY ConstantsAssumption DEF Inv, TrxInv
<1> QED
  BY <1>1, NoTransactionIs DEF TrxOk, Receiving

\* A step in which the session s loses its transactions, or is removed.
LEMMA CutStep ==
    ASSUME Inv, NEW s \in Handles, Exists(s),
           up' = up, UNCHANGED <<inbound, conv, errorBuf>>, held' \in {held, << >>},
           \A r \in Handles \ {s} : cli'[r] = cli[r],
           \A u \in Transactions \ Carriers(s) : trx'[u] = trx[u],
           \A u \in Carriers(s) : trx'[u].ctx \notin Handles /\ TrxOk(u)',
           \A r \in Handles \ {s} : Restarts(r) => held' = held,
           SessionLinks(s)',
           cli[s].id = None => \A u \in Carriers(s) : Due(u)' = {},
           slot' \in Transactions => trx'[slot'].st = "wait"
    PROVE  LinkInv' /\ TrxInv' /\ StreamInv'
<1>1. /\ None \notin Handles /\ Carriers(s) \in SUBSET Transactions
      /\ s \in Handles \cup {None}
      /\ \A u \in Carriers(s) : u \in Transactions /\ trx[u].ctx = s /\ TrxOk(u)'
  BY ConstantsAssumption DEF Carriers
<1>2. Elsewhere(s, Carriers(s))
  BY <1>1 DEF Elsewhere
<1>3. ASSUME NEW u \in Carriers(s) PROVE CtxOk(u)' /\ StreamOk(u)'
  <2>1. CtxOk(u)'
    BY DEF CtxOk
  <2>2. StreamOk(u) /\ u \in Transactions /\ trx[u].ctx = s
    BY <1>1 DEF Inv, StreamInv
  <2>3. Due(u)' \subseteq Due(u)
    <3>1. held' = held => Held' = Held /\ Now' = Now /\ T' = T
      BY DEF Held, Now, T
    <3> QED
      BY <3>1 DEF Due, Coming, Held
  <2>4. \A q \in Due(u)' : Receiving(u) /\ q.id = cli[s].id
    <3>1. Live(u)
      BY <1>1, <2>2, NoTransactionIs DEF Inv, TrxInv, TrxOk, Live
    <3>2. ~Receiving(u) => Due(u) = {}
      BY <2>2, <3>1, NothingDue
    <3> QED
      BY <2>2, <2>3, <3>2 DEF StreamOk
  <2>5. \A q \in Due(u)' : q.id # None
    BY <2>4
  <2> QED
    BY <2>1, <2>5 DEF StreamOk
<1>4. \A u \in Transactions : u \in Carriers(s) \/ (s \in Handles /\ trx[u].ctx = s)
                                 => CtxOk(u)' /\ StreamOk(u)'
  BY <1>3 DEF Carriers
<1>5. \/ errorBuf' = errorBuf /\ errorBuf \notin Carriers(s)
      \/ errorBuf' = None
      \/ ~up
  BY <1>1 DEF Inv, StreamInv, ErrorOk, Carriers
<1> QED
  BY <1>1, <1>2, <1>4, <1>5, SessionStep

-----------------------------------------------------------------------------
\* What is known of a packet in the handler of its session.
LEMMA HandledPacket ==
    ASSUME Inv, pc \in Handling \ {"restart", "end_error"}
    PROVE  /\ Held /\ up /\ Now \in PacketType /\ T \in Transactions /\ held = <<Now>>
           /\ cur \in Handles /\ Exists(cur) /\ trx[T].ctx = cur
           /\ trx[T].st = "receive" /\ trx[T].owner = "cloud" /\ trx[T] \in TrxType
           /\ cli[cur] \in CliType /\ Now.op = cli[cur].op /\ Now.id = cli[cur].id
           /\ Now.op # "error" /\ None \notin Transactions /\ None \notin Handles
           /\ cli[cur].st = "execute_command" <=> Now.op = "exec"
           /\ Now.op = "exec" => cli[cur].recv = None /\ cli[cur].send \in {None, T}
           /\ Now.op # "exec" => cli[cur].recv = T
           /\ Now.op \notin {"start", "exec"} => cli[cur].send # T
           /\ \A r \in Handles \ {cur} : ~Restarts(r)
           /\ pc # "step" /\ pc # "packet" /\ pc # "end_response"
<1>1. /\ Held /\ Now \in PacketType /\ T \in Transactions /\ held = <<Now>>
      /\ cur \in Handles /\ Exists(cur) /\ trx[T].ctx = cur /\ Receiving(T) /\ Now.op # "error"
  BY HeldPacket DEF Inv, PcInv, HeldInv
<1>2. /\ up /\ None \notin Transactions /\ None \notin Handles
      /\ pc # "step" /\ pc # "packet" /\ pc # "end_response"
  BY <1>1, StillUp, ConstantsAssumption DEF Inv, Handling
<1>3. /\ TrxOk(T) /\ CtxOk(T) /\ StreamOk(T) /\ Now \in Due(T) /\ trx[T] \in TrxType
      /\ cli[cur] \in CliType /\ RecvOk(cur) /\ SendOk(cur) /\ ExecOk(cur) /\ SessionOk(cur)
  BY <1>1 DEF Inv, TrxInv, LinkInv, StreamInv, Due, TypeInv, RingInv
<1>4. Now.id = cli[cur].id /\ Now.op = cli[cur].op
  BY <1>1, <1>3 DEF StreamOk
<1>5. trx[T].st = "receive" /\ trx[T].owner = "cloud"
  BY <1>1, <1>3 DEF TrxOk, Receiving
<1>6. cli[cur].st = "execute_command" <=> Now.op = "exec"
  BY <1>1, <1>3, <1>4 DEF SessionOk
<1>7. Now.op = "exec" => cli[cur].recv = None
  BY <1>3, <1>6 DEF RecvOk
<1>8. Now.op = "exec" => cli[cur].send \in {None, T}
  <2> SUFFICES ASSUME Now.op = "exec", cli[cur].send # None PROVE cli[cur].send = T
    OBVIOUS
  <2>1. cli[cur].send \in Transactions
    BY <1>3 DEF CliType
  <2>2. trx[cli[cur].send].ctx = cur
    BY <1>3 DEF SendOk, Restarts
  <2> QED
    BY <1>1, <1>3, <1>6, <2>1, <2>2 DEF ExecOk
<1>9. Now.op # "exec" => cli[cur].recv = T
  BY <1>1, <1>3, <1>5, <1>6 DEF CtxOk
<1>10. Now.op \notin {"start", "exec"} => cli[cur].send # T
  BY <1>2, <1>1, <1>3, <1>5, <1>6 DEF SendOk, Restarts
<1>11. \A r \in Handles \ {cur} : ~Restarts(r)
  BY <1>1, <1>4, OnlyRestart
<1> QED
  BY <1>1, <1>2, <1>3, <1>4, <1>5, <1>6, <1>7, <1>8, <1>9, <1>10, <1>11

\* What the transaction t of the packet and its session s may become.
Handled(t, s, v, c) ==
    /\ v.owner = "cloud" /\ v.st \in {"receive", "get_data", "delete"}
    /\ v.ctx # None =>
          /\ v.ctx = s
          /\ \/ v.st = "receive" /\ (c.recv = t \/ c.st = "execute_command")
             \/ v.st = "get_data" /\ c.send = t
    /\ v.st = "delete" => v.ctx = None
    /\ c.id = cli[s].id /\ c.op = cli[s].op /\ c.st # "free"
    /\ c.st = "execute_command" <=> cli[s].st = "execute_command"
    /\ c.st = "execute_command" => v.ctx = s /\ v.reply
    /\ c.recv # None => /\ c.recv = t /\ v.st = "receive" /\ v.ctx = s
                        /\ c.st # "execute_command"
    /\ c.send # None =>
          \/ /\ c.send = t /\ v.ctx = s
             /\ v.st = "get_data" \/ (c.st = "execute_command" /\ v.st = "receive")
          \/ c.send = cli[s].send /\ c.send # t
\* And the transaction that the session sends with.
SendsOn(t, s, c) ==
    \/ /\ \A u \in Transactions \ {t} : trx'[u] = trx[u]
       /\ c.send = cli[s].send \/ cli[s].send \in {None, t}
    \/ /\ c.send = None
       /\ \A u \in Transactions \ {t} : u # cli[s].send => trx'[u] = trx[u]
       /\ \A u \in Transactions \ {t} : u = cli[s].send =>
             /\ trx'[u].ctx = None /\ trx'[u].st = trx[u].st /\ trx'[u].owner = trx[u].owner
             /\ trx'[u].last = trx[u].last

\* A step of a handler about the packet of its session: it stays, or it is taken.
LEMMA HandledStepKeeps ==
    ASSUME Inv, pc \in Handling \ {"restart", "end_error"},
           NEW t \in Transactions, NEW s \in Handles, t = T, s = cur,
           NEW v \in TrxType, NEW c \in CliType, Handled(t, s, v, c), SendsOn(t, s, c),
           trx' \in [Transactions -> TrxType], trx'[t] = v, cli' = [cli EXCEPT ![s] = c],
           UNCHANGED <<ring, errorBuf, slot, conv, sent, inbound, connVars>>, fault' = FALSE,
           \/ /\ held' = held /\ v.st = "receive"
              /\ Now.op = "start" => pc' \in Handling
              /\ Now.first /\ Now.op \in {"start", "exec"} /\ trx[t].reply => v.reply
           \/ /\ held' = << >> /\ (v.st = "receive" <=> ~Now.last),
           app' \in [Handles -> AppType], \A r \in Handles \ {s} : app'[r] = app[r], AppOk(s)',
           StateOk(s)', pc' \in Pcs, pc' # "end_response",
           at' \in Transactions \cup {None}, cur' \in Handles \cup {None}, PcInv'
    PROVE  Inv'
<1>1. /\ Held /\ up /\ Now \in PacketType /\ held = <<Now>>
      /\ Exists(s) /\ trx[t].ctx = s
      /\ trx[t].st = "receive" /\ trx[t].owner = "cloud" /\ trx[t] \in TrxType
      /\ cli[s] \in CliType /\ Now.op = cli[s].op /\ Now.id = cli[s].id
      /\ Now.op # "error" /\ None \notin Transactions /\ None \notin Handles
      /\ cli[s].st = "execute_command" <=> Now.op = "exec"
      /\ Now.op = "exec" => cli[s].recv = None /\ cli[s].send \in {None, t}
      /\ Now.op # "exec" => cli[s].recv = t
      /\ \A r \in Handles \ {s} : ~Restarts(r)
      /\ pc # "step" /\ pc # "end_response"
  BY HandledPacket
<1>2. /\ v.owner = "cloud" /\ v.st \in {"receive", "get_data", "delete"}
      /\ v.ctx \in {None, s}
      /\ v.ctx # None =>
            \/ v.st = "receive" /\ (c.recv = t \/ c.st = "execute_command")
            \/ v.st = "get_data" /\ c.send = t
      /\ v.st = "delete" => v.ctx = None
      /\ c.id = cli[s].id /\ c.op = cli[s].op /\ c.st # "free"
      /\ c.st = "execute_command" <=> cli[s].st = "execute_command"
      /\ c.st = "execute_command" => v.ctx = s /\ v.reply
      /\ c.recv # None => /\ c.recv = t /\ v.st = "receive" /\ v.ctx = s
                          /\ c.st # "execute_command"
      /\ c.send # None =>
            \/ /\ c.send = t /\ v.ctx = s
               /\ v.st = "get_data" \/ (c.st = "execute_command" /\ v.st = "receive")
            \/ c.send = cli[s].send /\ c.send # t
  BY DEF Handled
<1>3. /\ trx \in [Transactions -> TrxType] /\ cli \in [Handles -> CliType]
      /\ cli' \in [Handles -> CliType] /\ cli'[s] = c
      /\ \A r \in Handles \ {s} : cli'[r] = cli[r]
      /\ up' = up /\ conv' = conv /\ inbound' = inbound /\ None # Gone /\ t # None /\ s # None
  BY <1>1, ConstantsAssumption DEF Inv, TypeInv, connVars
<1>4. ASSUME NEW u \in Transactions \ {t}, trx[u].ctx = s
      PROVE  /\ cli[s].send = u /\ trx[u].st \in {"get_data", "wait"}
             /\ cli[s].st # "execute_command" /\ Due(u) = {} /\ Due(u)' = {}
  <2>1. CtxOk(u) /\ ExecOk(s) /\ RecvOk(s)
    BY DEF Inv, LinkInv
  <2>2. cli[s].st # "execute_command"
    BY <1>1, <1>4, <2>1 DEF ExecOk
  <2>3. cli[s].recv = t
    BY <1>1, <2>2
  <2>4. cli[s].send = u /\ trx[u].st \in {"get_data", "wait"}
    BY <1>4, <2>1, <2>2, <2>3 DEF CtxOk
  <2>5. Due(u) = {} /\ Coming(u) = {}
    BY <2>4, NothingDue DEF Live, Receiving
  <2>6. Coming(u)' = {}
    BY <1>3, <2>5 DEF Coming
  <2>7. held' = held => T' = T
    BY DEF T, Now
  <2>8. Due(u)' = {}
    BY <1>4, <2>6, <2>7 DEF Due, Held
  <2> QED
    BY <2>2, <2>4, <2>5, <2>8
<1>5. ASSUME NEW u \in Transactions \ {t}
      PROVE  \/ trx'[u] = trx[u] /\ (trx[u].ctx = s => c.send = u)
             \/ /\ trx[u].ctx = s /\ trx'[u].ctx = None /\ trx'[u].st = trx[u].st
                /\ trx'[u].owner = trx[u].owner /\ trx'[u].last = trx[u].last
             \/ trx[u].ctx # s /\ trx'[u] = trx[u]
  <2>1. CASE /\ \A x \in Transactions \ {t} : trx'[x] = trx[x]
             /\ c.send = cli[s].send \/ cli[s].send \in {None, t}
    BY <1>1, <1>3, <1>4, <2>1
  <2>2. CASE /\ c.send = None
             /\ \A x \in Transactions \ {t} : x # cli[s].send => trx'[x] = trx[x]
             /\ \A x \in Transactions \ {t} : x = cli[s].send =>
                   /\ trx'[x].ctx = None /\ trx'[x].st = trx[x].st
                   /\ trx'[x].owner = trx[x].owner /\ trx'[x].last = trx[x].last
    <3>1. CASE u # cli[s].send
      BY <1>4, <2>2, <3>1
    <3>2. CASE u = cli[s].send
      <4>1. SendOk(s)
        BY DEF Inv, LinkInv
      <4>2. trx[u].ctx = s
        BY <1>1, <1>3, <3>2, <4>1 DEF SendOk, Moving
      <4> QED
        BY <2>2, <3>2, <4>2
    <3> QED
      BY <3>1, <3>2
  <2> QED
    BY <2>1, <2>2 DEF SendsOn
<1> DEFINE W == Carriers(s)
<1>6. /\ W \in SUBSET Transactions /\ t \in W /\ \A u \in W : trx[u].ctx = s
      /\ \A u \in Transactions \ W : trx'[u] = trx[u] /\ u # t
      /\ \A u \in W : trx'[u].ctx \in {None, s}
  BY <1>1, <1>2, <1>3, <1>5 DEF Carriers
<1>7. PacketInv' /\ HeldInv'
  <2>1. \A u \in Transactions \ {t} : (Receiving(u)' <=> Receiving(u))
                                      /\ (Live(u)' <=> Live(u))
    BY <1>5 DEF Receiving, Live
  <2>2. TypeInv /\ PacketInv /\ HeldInv /\ Live(t)
    BY <1>1 DEF Inv, Live
  <2>3. \A u \in Transactions : Live(u)' => Live(u)
    BY <2>1, <2>2
  <2>4. CASE /\ held' = held /\ v.st = "receive"
             /\ Now.op = "start" => pc' \in Handling
             /\ Now.first /\ Now.op \in {"start", "exec"} /\ trx[t].reply => v.reply
    <3>1. \A u \in Transactions : Receiving(u)' <=> Receiving(u)
      BY <1>1, <2>1, <2>4 DEF Receiving
    <3>2. /\ Held /\ Now.first /\ Now.op \in {"start", "exec"} /\ trx[T].reply => trx'[T].reply
          /\ Held /\ Now.op = "start" /\ pc' \notin Handling => trx'[T].ctx = None
      BY <2>4
    <3> QED
      BY <1>3, <2>2, <2>3, <2>4, <3>1, <3>2, PacketsKept
  <2>5. CASE held' = << >> /\ (v.st = "receive" <=> ~Now.last)
    <3>1. /\ \A u \in Transactions : u # T => (Receiving(u)' <=> Receiving(u))
          /\ trx'[T].st = "receive" <=> ~Now.last
      BY <2>1, <2>5
    <3> QED
      BY <1>1, <1>3, <2>2, <2>3, <2>5, <3>1, PacketTaken
  <2> QED
    BY <2>4, <2>5
<1>8. held' \in {held, << >>}
  OBVIOUS
<1>9. Elsewhere(s, W)
  BY <1>1, <1>3, <1>6, <1>8 DEF Elsewhere
<1>10. TypeInv'
  BY <1>3, <1>8 DEF Inv, TypeInv
<1>11. RingInv'
  <2>1. SessionOk(s)'
    <3>1. SessionOk(s)
      BY DEF Inv, RingInv
    <3> QED
      BY <1>1, <1>2, <1>3, <3>1 DEF SessionOk, Exists
  <2>2. cli'[s].id = cli[s].id /\ cli'[s].st # "free" /\ s \in Handles \cup {None}
        /\ ring' \in {ring, Rotated}
    BY <1>2, <1>3
  <2> QED
    BY <1>1, <1>3, <2>1, <2>2, RingKept
<1>12. AppAgrees'
  BY <1>1, <1>3, AppKept
<1>13. SessionLinks(s)'
  <2>1. RecvOk(s)'
    BY <1>2, <1>3 DEF RecvOk, Receiving
  <2>2. SendOk(s)'
    <3>1. CASE c.send = None
      BY <1>3, <3>1 DEF SendOk
    <3>2. CASE c.send = t /\ v.ctx = s
               /\ (v.st = "get_data" \/ (c.st = "execute_command" /\ v.st = "receive"))
      BY <1>3, <3>2 DEF SendOk, Receiving
    <3>3. CASE c.send # None /\ c.send = cli[s].send /\ c.send # t
      <4>1. PICK u \in Transactions \ {t} : u = c.send
        BY <1>1, <3>3 DEF CliType
      <4>2. SendOk(s)
        BY DEF Inv, LinkInv
      <4>3. trx[u].ctx = s
        BY <3>3, <4>1, <4>2 DEF SendOk, Moving
      <4>4. trx'[u] = trx[u] /\ trx[u].st \in {"get_data", "wait"}
        BY <1>4, <3>3, <4>1, <4>3 DEF SendsOn
      <4> QED
        BY <1>3, <4>1, <4>3, <4>4 DEF SendOk
    <3> QED
      BY <1>2, <3>1, <3>2, <3>3
  <2>3. ExecOk(s)'
    <3> SUFFICES ASSUME c.st = "execute_command" PROVE ExecOk(s)'
      BY <1>3 DEF ExecOk
    <3>1. \A u \in Transactions \ {t} : trx'[u].ctx # s
      BY <1>2, <1>3, <1>4, <1>5
    <3> QED
      BY <1>2, <1>3, <3>1 DEF ExecOk
  <2> QED
    BY <2>1, <2>2, <2>3 DEF SessionLinks
<1>14. ASSUME NEW u \in W PROVE CtxOk(u)' /\ StreamOk(u)' /\ TrxOk(u)'
  <2>1. CASE u = t
    <3>1. Due(t)' \subseteq Due(t)
      <4>1. held' = held => Held' = Held /\ Now' = Now /\ T' = T
        BY DEF Held, Now, T
      <4>2. Coming(t)' = Coming(t)
        BY <1>3 DEF Coming
      <4> QED
        BY <4>1, <4>2 DEF Due, Held
    <3>2. StreamOk(t) /\ SessionOk(s)
      BY DEF Inv, StreamInv, RingInv
    <3>3. \A q \in Due(t) : q.id = cli[s].id /\ q.op \in {cli[s].op, "error"}
      BY <1>1, <3>2 DEF StreamOk, Receiving
    <3>4. StreamOk(t)'
      BY <1>1, <1>2, <1>3, <3>1, <3>2, <3>3 DEF StreamOk, SessionOk
    <3>5. CtxOk(t)'
      BY <1>1, <1>2, <1>3 DEF CtxOk, Receiving, Exists
    <3>6. TrxOk(t)'
      BY <1>2, <1>3, ConstantsAssumption DEF TrxOk, Receiving
    <3> QED
      BY <2>1, <3>4, <3>5, <3>6
  <2>2. CASE u # t
    <3>1. /\ u \in Transactions /\ trx[u].ctx = s /\ CtxOk(u) /\ TrxOk(u)
          /\ Due(u)' = {} /\ cli[s].send = u /\ trx[u].st \in {"get_data", "wait"}
      BY <1>4, <1>6, <2>2 DEF Inv, LinkInv, TrxInv
    <3>2. StreamOk(u)'
      BY <3>1 DEF StreamOk
    <3>3. CASE trx'[u] = trx[u] /\ c.send = u
      BY <1>2, <1>3, <3>1, <3>2, <3>3 DEF CtxOk, TrxOk, Receiving, Exists
    <3>4. CASE /\ trx'[u].ctx = None /\ trx'[u].st = trx[u].st
               /\ trx'[u].owner = trx[u].owner /\ trx'[u].last = trx[u].last
      <4>1. CtxOk(u)'
        BY <1>1, <3>4 DEF CtxOk
      <4>2. TrxOk(u)'
        BY <3>1, <3>4, CutTransaction
      <4> QED
        BY <3>2, <4>1, <4>2
    <3> QED
      BY <1>3, <1>5, <2>2, <3>1, <3>3, <3>4
  <2> QED
    BY <2>1, <2>2
<1>15. errorBuf' = errorBuf /\ errorBuf \notin W
  BY <1>1, <1>3, <1>6 DEF Inv, StreamInv, ErrorOk
<1>16. slot' \in Transactions => trx'[slot'].st = "wait"
  BY <1>1, <1>5 DEF Inv, TrxInv
<1>17. /\ \A u \in Transactions : u \in W \/ (s \in Handles /\ trx[u].ctx = s)
                                     => CtxOk(u)' /\ StreamOk(u)'
       /\ \A u \in W : TrxOk(u)'
       /\ s \in Handles \cup {None}
  BY <1>14 DEF Carriers
<1> HIDE DEF W
<1> QED
  BY <1>1, <1>6, <1>7, <1>9, <1>10, <1>11, <1>12, <1>13, <1>15, <1>16, <1>17, StepKeeps

\* What the answer of a handler, for which the session becomes d, makes of the two.
Answered(t, s, d, reply, v, c) ==
    /\ Handled(t, s, v, c) /\ SendsOn(t, s, c)
    /\ trx' \in [Transactions -> TrxType] /\ trx'[t] = v
    /\ cli' = [cli EXCEPT ![s] = c] /\ cli'[s] = c
    /\ \A u \in Transactions \ {t} : trx'[u] = trx[u]
    /\ c.st = d.st /\ c.op = d.op /\ (~Now.last => c.recv = cli[s].recv)
    /\ c.send = IF Now.last /\ reply THEN t ELSE cli[s].send
    /\ \/ held' = held /\ v.st = "receive" /\ v.reply = reply /\ Pending
       \/ held' = << >> /\ (v.st = "receive" <=> ~Now.last)
    /\ pc' = "sessions" /\ cur' = None /\ at' = at

\* The answer of a handler: the last packet of a request that needs a reply hands its
\* transaction over to send, and one that needs none lets it go.
LEMMA AnsweredIs ==
    ASSUME Inv, pc \in Handling \ {"restart", "end_error"},
           NEW t \in Transactions, NEW s \in Handles, t = T, s = cur,
           NEW table \in [Transactions -> TrxType], NEW d \in CliType,
           \A u \in Transactions \ {t} : table[u] = trx[u],
           table[t].ctx = s, table[t].st = "receive", table[t].owner = "cloud",
           table[t].reply <=> Now.op \in {"start", "exec"},
           Now.op = "start" => Now.last /\ cli[s].send \in {None, t},
           d.id = cli[s].id, d.op = cli[s].op, d.recv = cli[s].recv, d.send = cli[s].send,
           d.st # "free", d.st = "execute_command" <=> cli[s].st = "execute_command",
           cli' = [cli EXCEPT ![s] = AfterCli(d, table)],
           \/ Working(AfterTrx(table))
           \/ Pending /\ trx' = AfterTrx(table) /\ Now.op # "start"
    PROVE  \E v \in TrxType, c \in CliType : Answered(t, s, d, table[t].reply, v, c)
<1>1. /\ Held /\ cli[s] \in CliType /\ Now.op = cli[s].op
      /\ None \notin Transactions /\ None \notin Handles
      /\ cli[s].st = "execute_command" <=> Now.op = "exec"
      /\ Now.op = "exec" => cli[s].recv = None /\ cli[s].send \in {None, t}
      /\ Now.op # "exec" => cli[s].recv = t
      /\ Now.op \notin {"start", "exec"} => cli[s].send # t
      /\ Now \in PacketType /\ Now.last \in BOOLEAN
  BY HandledPacket DEF PacketType
<1>2. PICK w \in TrxType : w = table[t]
  OBVIOUS
<1>3. PICK r \in BOOLEAN : r <=> w.reply
  BY DEF TrxType
<1> DEFINE after == IF Now.last /\ ~w.reply THEN [w EXCEPT !.ctx = None] ELSE w
           done == AfterTrx(table)
<1>4. /\ after \in TrxType /\ after.owner = "cloud" /\ after.st = "receive"
      /\ after.ctx = IF Now.last /\ ~w.reply THEN None ELSE s
      /\ after.reply = w.reply
  BY <1>2 DEF TrxType
<1>5. /\ done \in [Transactions -> TrxType] /\ done[t] = after
      /\ \A u \in Transactions \ {t} : done[u] = trx[u]
  BY <1>2, <1>4 DEF AfterTrx
<1> HIDE DEF after, done
<1>6. PICK c \in CliType :
         /\ c = AfterCli(d, table) /\ c.st = d.st /\ c.op = d.op /\ c.id = d.id
         /\ c.recv = IF Now.last THEN None ELSE d.recv
         /\ c.send = IF Now.last /\ w.reply THEN t ELSE d.send
  <2>1. AfterCli(d, table) = IF ~Now.last THEN d
                             ELSE [d EXCEPT !.recv = None, !.send = IF w.reply THEN t ELSE @]
    BY <1>2 DEF AfterCli
  <2>2. CASE Now.last
    <3> DEFINE x == [d EXCEPT !.recv = None, !.send = IF w.reply THEN t ELSE @]
    <3>1. /\ x \in CliType /\ x.st = d.st /\ x.op = d.op /\ x.id = d.id
          /\ x.recv = None /\ x.send = IF w.reply THEN t ELSE d.send
      BY DEF CliType
    <3>2. x = AfterCli(d, table)
      BY <2>1, <2>2
    <3> HIDE DEF x
    <3> QED
      BY <2>2, <3>1, <3>2
  <2>3. CASE ~Now.last
    BY <2>1, <2>3
  <2> QED
    BY <2>2, <2>3
<1>7. PICK v \in TrxType :
         /\ trx' \in [Transactions -> TrxType] /\ trx'[t] = v
         /\ \A u \in Transactions \ {t} : trx'[u] = trx[u]
         /\ v.owner = "cloud" /\ v.ctx = after.ctx /\ v.reply = w.reply
         /\ pc' = "sessions" /\ cur' = None /\ at' = at
         /\ \/ held' = held /\ v.st = "receive" /\ Pending /\ Now.op # "start"
            \/ /\ held' = << >> /\ (v.st = "receive" <=> ~Now.last)
               /\ Now.last => v.st = IF w.reply THEN "get_data" ELSE "delete"
  <2>1. CASE Working(done)
    <3>1. /\ held' = << >> /\ pc' = "sessions" /\ cur' = None /\ at' = at
          /\ trx' \in [Transactions -> TrxType]
          /\ \A u \in Transactions \ {T} : trx'[u] = done[u]
          /\ trx'[T].ctx = done[T].ctx /\ trx'[T].owner = done[T].owner
          /\ trx'[T].reply = done[T].reply
          /\ ~Now.last => trx'[T] = done[T]
          /\ Now.last => trx'[T].st = IF done[T].reply THEN "get_data" ELSE "delete"
      <4>1. TypeInv
        BY DEF Inv
      <4> QED
        BY <1>1, <1>5, <2>1, <4>1, WorkingIs
    <3> QED
      BY <1>1, <1>4, <1>5, <3>1
  <2>2. CASE Pending /\ trx' = done /\ Now.op # "start"
    BY <1>4, <1>5, <2>2 DEF Pending
  <2> QED
    BY <2>1, <2>2 DEF done
<1>8. w.reply <=> Now.op \in {"start", "exec"}
  BY <1>2
<1>9. c.send # None =>
         \/ /\ c.send = t /\ v.ctx = s
            /\ v.st = "get_data" \/ (c.st = "execute_command" /\ v.st = "receive")
         \/ c.send = cli[s].send /\ c.send # t
  BY <1>1, <1>4, <1>6, <1>7, <1>8
<1>10. v.ctx # None =>
          /\ v.ctx = s
          /\ \/ v.st = "receive" /\ (c.recv = t \/ c.st = "execute_command")
             \/ v.st = "get_data" /\ c.send = t
  BY <1>1, <1>4, <1>6, <1>7, <1>8
<1>11. Handled(t, s, v, c)
  <2>1. v.st \in {"receive", "get_data", "delete"} /\ (v.st = "delete" => v.ctx = None)
    BY <1>4, <1>7
  <2>2. c.st = "execute_command" => v.ctx = s /\ v.reply
    BY <1>1, <1>4, <1>6, <1>7, <1>8
  <2>3. c.recv # None => /\ c.recv = t /\ v.st = "receive" /\ v.ctx = s
                         /\ c.st # "execute_command"
    BY <1>1, <1>4, <1>6, <1>7
  <2> QED
    BY <1>6, <1>7, <1>9, <1>10, <2>1, <2>2, <2>3 DEF Handled
<1>12. SendsOn(t, s, c)
  BY <1>1, <1>6, <1>7, <1>8 DEF SendsOn
<1>13. cli' = [cli EXCEPT ![s] = c] /\ cli'[s] = c
  BY <1>6 DEF Inv, TypeInv
<1> QED
  BY <1>2, <1>6, <1>7, <1>11, <1>12, <1>13, ZenonT(60) DEF Answered

\* A session that is not started again goes on as it was, with the transaction that it
\* sends with.
LEMMA StateStays ==
    ASSUME Inv, pc \in Handling \ {"restart", "end_error"}, Now.op \notin {"start", "exec"},
           NEW s \in Handles, s = cur, NEW c, cli'[s] = c,
           c.st = cli[s].st, c.op = cli[s].op,
           c.send = cli[s].send, Now.op = "close" => c.recv # None,
           \A u \in Transactions \ {T} : trx'[u].owner = trx[u].owner
    PROVE  StateOk(s)'
<1>1. /\ cli[s] \in CliType /\ Now.op = cli[s].op /\ up
      /\ cli[s].send # T /\ cli[s].op \notin {"start", "exec"}
  BY HandledPacket
<1>2. ~Restarts(s) /\ ~Moving(s) /\ StateOk(s)
  BY <1>1 DEF Restarts, Moving, Inv, LinkInv
<1>3. /\ c.st \in {"uninitialized", "closing", "pending_error"} => c.send = None
      /\ c.st # "uninitialized"
      /\ c.st = "closing" => c.op = "close" /\ c.recv # None
      /\ c.st \in {"ack_start", "start_failed", "send_close"} => c.send # None
      /\ c.st = "ack_start" /\ c.send # None => trx'[c.send].owner = "cloud"
  BY <1>1, <1>2 DEF StateOk, CliType
<1> QED
  BY <1>3 DEF StateOk

-----------------------------------------------------------------------------
\* A session that is started again loses its transactions first.
LEMMA RestartBegins ==
    ASSUME Inv, pc = "handle", cli[cur].op = "start", cli[cur].st # "uninitialized",
           pc' = "restart", UNCHANGED <<callVars, held>>, fault' = FALSE,
           trx' = Detach(trx, Pointers(cur)),
           cli' = [cli EXCEPT ![cur] = [cli[cur] EXCEPT !.recv = None, !.send = None]],
           UNCHANGED <<ring, errorBuf, slot, app, conv, sent, inbound, connVars>>
    PROVE  Inv'
<1>1. /\ Held /\ up /\ Now \in PacketType /\ T \in Transactions
      /\ cur \in Handles /\ Exists(cur) /\ trx[T].ctx = cur
      /\ trx[T].st = "receive" /\ cli[cur] \in CliType
      /\ Now.op = cli[cur].op /\ Now.id = cli[cur].id
      /\ None \notin Transactions /\ None \notin Handles
      /\ cli[cur].st # "execute_command" /\ cli[cur].recv = T
      /\ \A r \in Handles \ {cur} : ~Restarts(r)
  BY HandledPacket DEF Handling
<1>2. PICK s \in Handles : s = cur
  BY <1>1
<1> DEFINE c == [cli[s] EXCEPT !.recv = None, !.send = None]
<1>3. /\ c \in CliType /\ c.st = cli[s].st /\ c.op = "start" /\ c.id = cli[s].id
      /\ c.recv = None /\ c.send = None
  BY <1>1, <1>2 DEF CliType
<1>4. cli' = [cli EXCEPT ![s] = c]
  BY <1>2
<1> HIDE DEF c
<1>5. /\ trx \in [Transactions -> TrxType] /\ cli \in [Handles -> CliType]
      /\ cli' \in [Handles -> CliType] /\ cli'[s] = c
      /\ \A r \in Handles \ {s} : cli'[r] = cli[r]
      /\ up' = up /\ held' = held /\ Held' /\ Now' = Now /\ T' = T /\ cur' = cur /\ at' = at
      /\ UNCHANGED <<ring, errorBuf, slot, app, conv, sent, inbound>>
  BY <1>1, <1>3, <1>4 DEF Inv, TypeInv, connVars, callVars, Held, Now, T
<1>6. /\ Pointers(s) \ {None} = Carriers(s)
      /\ \A u \in Transactions : u \in Pointers(s) <=> u \in Carriers(s)
  <2>1. cli[s].send # None => trx[cli[s].send].ctx = s
    BY <1>1, <1>2 DEF Inv, LinkInv, SendOk, Moving
  <2> QED
    BY <1>1, <1>2, <2>1, PointersAre
<1>7. /\ trx' \in [Transactions -> TrxType]
      /\ \A u \in Transactions :
            /\ trx'[u].st = trx[u].st /\ trx'[u].owner = trx[u].owner
            /\ trx'[u].reply = trx[u].reply /\ trx'[u].last = trx[u].last
            /\ u \notin Carriers(s) => trx'[u] = trx[u]
            /\ u \in Carriers(s) => trx'[u].ctx = None
  <2>1. \A u \in Carriers(s) : Live(u)
    BY <1>2, <1>1, NoTransactionIs DEF Carriers, Live, Inv, TrxInv, TrxOk
  <2> QED
    BY <1>2, <1>5, <1>6, <2>1, DetachIs DEF Live
<1>8. ASSUME NEW u \in Carriers(s) PROVE trx'[u].ctx \notin Handles /\ TrxOk(u)'
  <2>1. u \in Transactions /\ trx[u].ctx \in Handles
    BY DEF Carriers
  <2>2. trx'[u].ctx = None /\ trx'[u].st = trx[u].st /\ trx'[u].owner = trx[u].owner
        /\ trx'[u].last = trx[u].last
    BY <1>7, <2>1
  <2> QED
    BY <1>1, <2>1, <2>2, CutTransaction
<1>9. SessionLinks(s)'
  <2>1. Restarts(s)'
    BY <1>1, <1>2, <1>3, <1>5 DEF Restarts, Held
  <2>2. c.st # "execute_command" /\ c.st # "uninitialized"
    BY <1>1, <1>2, <1>3
  <2> QED
    BY <1>3, <1>5, <2>1, <2>2 DEF SessionLinks, RecvOk, SendOk, ExecOk, StateOk
<1>10. LinkInv' /\ TrxInv' /\ StreamInv'
  <2>1. cli[s].id # None
    BY <1>1, <1>2 DEF Inv, RingInv, SessionOk
  <2>2. slot' \in Transactions => trx'[slot'].st = "wait"
    BY <1>5, <1>7 DEF Inv, TrxInv
  <2>3. \A u \in Transactions \ Carriers(s) : trx'[u] = trx[u]
    BY <1>7
  <2>4. /\ Exists(s) /\ held' \in {held, << >>} /\ UNCHANGED <<inbound, conv, errorBuf>>
        /\ \A r \in Handles \ {s} : Restarts(r) => held' = held
    BY <1>1, <1>2, <1>5
  <2> QED
    BY <1>5, <1>8, <1>9, <2>1, <2>2, <2>3, <2>4, CutStep
<1>11. PacketInv' /\ HeldInv'
  <2>1. /\ \A u \in Transactions : Receiving(u)' <=> Receiving(u)
        /\ \A u \in Transactions : Live(u)' => Live(u) \/ Coming(u) = {}
    BY <1>7 DEF Receiving, Live
  <2>2. /\ Held /\ Now.first /\ Now.op \in {"start", "exec"} /\ trx[T].reply => trx'[T].reply
        /\ Held /\ Now.op = "start" /\ pc' \notin Handling => trx'[T].ctx = None
    BY <1>1, <1>7 DEF Handling
  <2>3. TypeInv /\ PacketInv /\ HeldInv
    BY DEF Inv
  <2> QED
    BY <1>5, <2>1, <2>2, <2>3, PacketsKept
<1>12. RingInv'
  <2>1. SessionOk(s)'
    BY <1>1, <1>2, <1>3, <1>5 DEF SessionOk, Exists, Inv, RingInv
  <2>2. /\ Exists(s) /\ cli'[s].id = cli[s].id /\ cli'[s].st # "free"
        /\ ring' \in {ring, Rotated} /\ s \in Handles \cup {None}
    BY <1>1, <1>2, <1>3, <1>5 DEF Exists
  <2> QED
    BY <1>5, <2>1, <2>2, RingKept
<1>13. AppAgrees'
  <2>1. AppOk(s)
    BY DEF Inv, AppAgrees, AppOk
  <2>2. AppOk(s)'
    BY <1>1, <1>2, <1>3, <1>5, <2>1 DEF AppOk
  <2> QED
    BY <1>5, <2>2, AppKept
<1>14. TypeInv'
  <2>1. pc' \in Pcs
    BY DEF Pcs
  <2> QED
    BY <1>5, <1>7, <2>1 DEF Inv, TypeInv
<1>15. PcInv'
  <2>1. T \in Carriers(s)
    BY <1>1, <1>2 DEF Carriers
  <2>2. trx'[T].ctx = None
    BY <1>1, <1>7, <2>1
  <2>3. c.st # "free"
    BY <1>1, <1>2, <1>3 DEF Exists
  <2> QED
    BY <1>1, <1>2, <1>3, <1>5, <2>2, <2>3 DEF PcInv, Handling, Answering, Exists
<1>16. DownInv'
  BY <1>1, <1>5 DEF DownInv
<1> QED
  BY <1>10, <1>11, <1>12, <1>13, <1>14, <1>15, <1>16 DEF Inv

\* The transaction after its reply was called off.
LEMMA NoReplyIs ==
    ASSUME NEW table \in [Transactions -> TrxType], T \in Transactions
    PROVE  /\ NoReply(table) \in [Transactions -> TrxType]
           /\ \A u \in Transactions \ {T} : NoReply(table)[u] = table[u]
           /\ NoReply(table)[T].ctx = table[T].ctx /\ NoReply(table)[T].st = table[T].st
           /\ NoReply(table)[T].owner = table[T].owner /\ ~NoReply(table)[T].reply
<1>1. /\ [table[T] EXCEPT !.reply = FALSE] \in TrxType
      /\ [table[T] EXCEPT !.reply = FALSE].ctx = table[T].ctx
      /\ [table[T] EXCEPT !.reply = FALSE].st = table[T].st
      /\ [table[T] EXCEPT !.reply = FALSE].owner = table[T].owner
      /\ ~[table[T] EXCEPT !.reply = FALSE].reply
  BY DEF TrxType
<1> QED
  BY <1>1 DEF NoReply

\* Data for a session that is started: its application is asked to take it.
LEMMA DataOffered ==
    ASSUME Inv, pc = "handle", cli[cur].op = "data", cli[cur].st = "started",
           Call("receive"), trx' = NoReply(trx), fault' = FALSE,
           cli' = [cli EXCEPT ![cur] = [cli[cur] EXCEPT !.consumed = Consumed(cli[cur])]],
           UNCHANGED <<ring, errorBuf, slot, app, conv, sent, inbound, connVars>>
    PROVE  Inv'
<1>1. /\ Held /\ T \in Transactions
      /\ cur \in Handles /\ Exists(cur) /\ trx[T].ctx = cur
      /\ trx[T].st = "receive" /\ trx[T].owner = "cloud"
      /\ cli[cur] \in CliType /\ Now.op = "data" /\ cli[cur].recv = T /\ cli[cur].send # T
  BY HandledPacket DEF Handling
<1>2. PICK s \in Handles, t \in Transactions : s = cur /\ t = T
  BY <1>1
<1> DEFINE c == [cli[s] EXCEPT !.consumed = Consumed(cli[s])]
<1>3. /\ c \in CliType /\ c.st = "started" /\ c.op = "data" /\ c.id = cli[s].id
      /\ c.recv = t /\ c.send = cli[s].send
  <2>1. Consumed(cli[s]) \in 0 .. Units
    <3>1. cli[s].consumed \in 0 .. Units /\ 1 \in 0 .. Units
      BY <1>1, <1>2, ConstantsAssumption DEF CliType
    <3> QED
      BY <3>1 DEF Consumed
  <2> QED
    BY <1>1, <1>2, <2>1 DEF CliType
<1>4. cli' = [cli EXCEPT ![s] = c]
  BY <1>2
<1> HIDE DEF c
<1>5. /\ trx \in [Transactions -> TrxType] /\ cli \in [Handles -> CliType] /\ cli'[s] = c
      /\ pc' = "receive" /\ cur' = s /\ at' = at /\ held' = held /\ app' = app
      /\ Held' /\ Now' = Now /\ T' = t /\ app \in [Handles -> AppType]
      /\ at \in Transactions \cup {None}
  BY <1>1, <1>2, <1>3, <1>4 DEF Inv, TypeInv, Call, callVars, Held, Now, T
<1>6. PICK v \in TrxType :
         /\ trx' \in [Transactions -> TrxType] /\ trx'[t] = v
         /\ \A u \in Transactions \ {t} : trx'[u] = trx[u]
         /\ v.ctx = s /\ v.st = "receive" /\ v.owner = "cloud" /\ ~v.reply
  BY <1>1, <1>2, <1>5, NoReplyIs
<1>7. Handled(t, s, v, c)
  BY <1>1, <1>2, <1>3, <1>6 DEF Handled
<1>8. SendsOn(t, s, c)
  BY <1>3, <1>6 DEF SendsOn
<1>9. AppOk(s)'
  <2>1. AppOk(s)
    BY DEF Inv, AppAgrees, AppOk
  <2> QED
    BY <1>2, <1>3, <1>5, <2>1 DEF AppOk
<1>10. StateOk(s)'
  BY <1>3, <1>5 DEF StateOk
<1>11. PcInv'
  BY <1>1, <1>3, <1>5, <1>6 DEF PcInv, Handling, Answering, Exists
<1>12. /\ held' = held /\ v.st = "receive"
       /\ Now.op = "start" => pc' \in Handling
       /\ Now.first /\ Now.op \in {"start", "exec"} /\ trx[t].reply => v.reply
  BY <1>1, <1>5, <1>6
<1>13. /\ pc \in Handling \ {"restart", "end_error"} /\ pc' \in Pcs /\ pc' # "end_response"
       /\ at' \in Transactions \cup {None} /\ cur' \in Handles \cup {None}
       /\ app' \in [Handles -> AppType] /\ \A r \in Handles \ {s} : app'[r] = app[r]
  BY <1>5 DEF Handling, Pcs
<1> QED
  BY <1>2, <1>3, <1>4, <1>6, <1>7, <1>8, <1>9, <1>10, <1>11, <1>12, <1>13, HandledStepKeeps

\* Data for a session that is no longer started is taken, and left.
LEMMA DataLeft ==
    ASSUME Inv, pc = "handle", cli[cur].op = "data", cli[cur].st # "started",
           Working(AfterTrx(NoReply(trx))), fault' = FALSE,
           cli' = [cli EXCEPT ![cur] = AfterCli(cli[cur], NoReply(trx))],
           UNCHANGED <<ring, errorBuf, slot, app, conv, sent, inbound, connVars>>
    PROVE  Inv'
<1>1. /\ T \in Transactions /\ cur \in Handles /\ Exists(cur) /\ trx[T].ctx = cur
      /\ trx[T].st = "receive" /\ trx[T].owner = "cloud"
      /\ cli[cur] \in CliType /\ Now.op = "data"
      /\ pc \in Handling \ {"restart", "end_error"}
  BY HandledPacket DEF Handling
<1>2. PICK s \in Handles, t \in Transactions : s = cur /\ t = T
  BY <1>1
<1>3. trx \in [Transactions -> TrxType] /\ app \in [Handles -> AppType]
      /\ at \in Transactions \cup {None} /\ app' = app
  BY DEF Inv, TypeInv
<1>4. PICK table \in [Transactions -> TrxType] :
         /\ table = NoReply(trx) /\ \A u \in Transactions \ {t} : table[u] = trx[u]
         /\ table[t].ctx = s /\ table[t].st = "receive" /\ table[t].owner = "cloud"
         /\ ~table[t].reply
  BY <1>1, <1>2, <1>3, NoReplyIs
<1>5. PICK d \in CliType : d = cli[s]
  BY <1>1, <1>2
<1>6. PICK v \in TrxType, c \in CliType : Answered(t, s, d, FALSE, v, c)
  <2>1. /\ table[t].reply <=> Now.op \in {"start", "exec"}
        /\ Now.op = "start" => Now.last /\ cli[s].send \in {None, t}
        /\ d.id = cli[s].id /\ d.op = cli[s].op /\ d.recv = cli[s].recv
        /\ d.send = cli[s].send /\ d.st # "free"
        /\ d.st = "execute_command" <=> cli[s].st = "execute_command"
        /\ cli' = [cli EXCEPT ![s] = AfterCli(d, table)]
        /\ \/ Working(AfterTrx(table))
           \/ Pending /\ trx' = AfterTrx(table) /\ Now.op # "start"
    BY <1>1, <1>2, <1>4, <1>5 DEF Exists
  <2>2. \E v \in TrxType, c \in CliType : Answered(t, s, d, table[t].reply, v, c)
    BY <1>1, <1>2, <1>4, <2>1, AnsweredIs
  <2>3. table[t].reply = FALSE
    BY <1>4 DEF TrxType
  <2> QED
    BY <2>2, <2>3
<1>7. /\ Handled(t, s, v, c) /\ SendsOn(t, s, c)
      /\ trx' \in [Transactions -> TrxType] /\ trx'[t] = v
      /\ cli' = [cli EXCEPT ![s] = c] /\ cli'[s] = c
      /\ \A u \in Transactions \ {t} : trx'[u] = trx[u]
      /\ c.st = d.st /\ c.op = d.op /\ c.send = cli[s].send
      /\ \/ held' = held /\ v.st = "receive"
         \/ held' = << >> /\ (v.st = "receive" <=> ~Now.last)
      /\ pc' = "sessions" /\ cur' = None /\ at' = at
  BY <1>6 DEF Answered
<1>8. AppOk(s)'
  <2>1. AppOk(s)
    BY DEF Inv, AppAgrees, AppOk
  <2> QED
    BY <1>2, <1>3, <1>5, <1>7, <2>1 DEF AppOk
<1>9. StateOk(s)'
  <2>1. /\ Now.op \notin {"start", "exec"} /\ c.st = cli[s].st /\ c.op = cli[s].op
        /\ c.send = cli[s].send /\ Now.op # "close"
        /\ \A u \in Transactions \ {T} : trx'[u].owner = trx[u].owner
    BY <1>1, <1>2, <1>4, <1>5, <1>7
  <2> QED
    BY <1>1, <1>2, <1>7, <2>1, StateStays
<1>10. PcInv'
  BY <1>7 DEF PcInv, Handling, Answering
<1>11. \/ /\ held' = held /\ v.st = "receive"
          /\ Now.op = "start" => pc' \in Handling
          /\ Now.first /\ Now.op \in {"start", "exec"} /\ trx[t].reply => v.reply
       \/ held' = << >> /\ (v.st = "receive" <=> ~Now.last)
  BY <1>1, <1>7
<1>12. /\ pc' \in Pcs /\ pc' # "end_response"
       /\ at' \in Transactions \cup {None} /\ cur' \in Handles \cup {None}
       /\ app' \in [Handles -> AppType] /\ \A r \in Handles \ {s} : app'[r] = app[r]
  BY <1>3, <1>7 DEF Pcs
<1> QED
  BY <1>1, <1>2, <1>7, <1>8, <1>9, <1>10, <1>11, <1>12, HandledStepKeeps

\* A close: with its first packet the session forgets the transaction that it sends with,
\* after its last one the application is asked to end it.
LEMMA CloseHandled ==
    ASSUME Inv, pc = "handle", cli[cur].op = "close", fault' = FALSE,
           NEW table,
           table = IF Now.first THEN Detach(trx, {cli[cur].send}) ELSE trx,
           cli' = [cli EXCEPT ![cur] = IF Now.first
                                       THEN [cli[cur] EXCEPT !.consumed = 0, !.st = "closing",
                                                             !.send = None]
                                       ELSE cli[cur]],
           IF Now.last THEN Call("end_close") /\ trx' = NoReply(table) ELSE Working(table),
           UNCHANGED <<ring, errorBuf, slot, app, conv, sent, inbound, connVars>>
    PROVE  Inv'
<1>1. /\ Held /\ T \in Transactions /\ up
      /\ cur \in Handles /\ Exists(cur) /\ trx[T].ctx = cur
      /\ trx[T].st = "receive" /\ trx[T].owner = "cloud"
      /\ cli[cur] \in CliType /\ Now.op = "close" /\ cli[cur].recv = T /\ cli[cur].send # T
      /\ pc \in Handling \ {"restart", "end_error"} /\ None \notin Transactions
      /\ cli[cur].st # "execute_command" /\ Now.last \in BOOLEAN
  BY HandledPacket DEF Handling, PacketType
<1>2. PICK s \in Handles, t \in Transactions : s = cur /\ t = T
  BY <1>1
<1>3. /\ trx \in [Transactions -> TrxType] /\ cli \in [Handles -> CliType]
      /\ app \in [Handles -> AppType] /\ app' = app /\ at \in Transactions \cup {None}
  BY DEF Inv, TypeInv
<1>4. PICK c \in CliType :
         /\ cli' = [cli EXCEPT ![s] = c] /\ cli'[s] = c
         /\ c.op = "close" /\ c.id = cli[s].id /\ c.recv = t
         /\ Now.first => c.st = "closing" /\ c.send = None
         /\ ~Now.first => c.st = cli[s].st /\ c.send = cli[s].send
  <2>1. CASE Now.first
    <3> DEFINE x == [cli[s] EXCEPT !.consumed = 0, !.st = "closing", !.send = None]
    <3>1. /\ x \in CliType /\ x.op = "close" /\ x.id = cli[s].id /\ x.recv = t
          /\ x.st = "closing" /\ x.send = None
      <4>1. 0 \in 0 .. Units
        BY ConstantsAssumption
      <4> QED
        BY <1>1, <1>2, <4>1 DEF CliType, CliStates, Ending
    <3>2. cli' = [cli EXCEPT ![s] = x]
      BY <1>2, <2>1
    <3> HIDE DEF x
    <3> QED
      BY <1>3, <2>1, <3>1, <3>2
  <2>2. CASE ~Now.first
    <3>1. cli' = [cli EXCEPT ![s] = cli[s]]
      BY <1>2, <2>2
    <3> QED
      BY <1>1, <1>2, <1>3, <2>2, <3>1
  <2> QED
    BY <2>1, <2>2
<1>5. /\ table \in [Transactions -> TrxType] /\ table[t] = trx[t]
      /\ \A u \in Transactions : ~Now.first \/ u # cli[s].send => table[u] = trx[u]
      /\ \A u \in Transactions : Now.first /\ u = cli[s].send =>
            /\ table[u].ctx = None /\ table[u].st = trx[u].st
            /\ table[u].owner = trx[u].owner /\ table[u].last = trx[u].last
  <2>1. CASE Now.first
    <3>1. table = Detach(trx, {cli[s].send})
      BY <1>2, <2>1
    <3>2. ASSUME NEW u \in Transactions, u = cli[s].send PROVE trx[u].st # "free"
      <4>1. trx[u].st \in {"get_data", "wait"}
        BY <1>1, <1>2, <3>2 DEF Inv, LinkInv, SendOk, Restarts
      <4> QED
        BY <4>1
    <3> QED
      BY <1>1, <1>2, <1>3, <2>1, <3>1, <3>2, DetachIs
  <2>2. CASE ~Now.first
    BY <1>3, <2>2
  <2> QED
    BY <2>1, <2>2
<1>6. PICK v \in TrxType :
         /\ trx' \in [Transactions -> TrxType] /\ trx'[t] = v
         /\ \A u \in Transactions \ {t} : trx'[u] = table[u]
         /\ v.ctx = s /\ v.st = "receive" /\ v.owner = "cloud"
         /\ Now.last => ~v.reply /\ pc' = "end_close" /\ cur' = s /\ at' = at /\ held' = held
         /\ ~Now.last => pc' = "sessions" /\ cur' = None /\ at' = at /\ held' = << >>
  <2>1. CASE Now.last
    <3>1. trx' = NoReply(table) /\ pc' = "end_close" /\ cur' = s /\ at' = at /\ held' = held
      BY <1>2, <2>1 DEF Call, callVars
    <3>2. /\ trx' \in [Transactions -> TrxType]
          /\ \A u \in Transactions \ {t} : trx'[u] = table[u]
          /\ trx'[t].ctx = table[t].ctx /\ trx'[t].st = table[t].st
          /\ trx'[t].owner = table[t].owner /\ ~trx'[t].reply
      BY <1>1, <1>2, <1>5, <3>1, NoReplyIs
    <3>3. PICK w \in TrxType : w = trx'[t]
      BY <3>2
    <3>4. w.ctx = s /\ w.st = "receive" /\ w.owner = "cloud" /\ ~w.reply
      <4>1. table[t] = trx[t]
        BY <1>5
      <4>2. trx[t].ctx = s /\ trx[t].st = "receive" /\ trx[t].owner = "cloud"
        BY <1>1, <1>2
      <4>3. /\ trx'[t].ctx = table[t].ctx /\ trx'[t].st = table[t].st
            /\ trx'[t].owner = table[t].owner /\ ~trx'[t].reply
        BY <3>2
      <4> QED
        BY <3>3, <4>1, <4>2, <4>3
    <3>5. /\ trx' \in [Transactions -> TrxType] /\ trx'[t] = w
          /\ \A u \in Transactions \ {t} : trx'[u] = table[u]
      BY <1>2, <3>2, <3>3
    <3> QED
      BY <2>1, <3>1, <3>4, <3>5
  <2>2. CASE ~Now.last
    <3>1. Working(table) /\ TypeInv
      BY <2>2 DEF Inv
    <3> QED
      BY <1>1, <1>2, <1>5, <2>2, <3>1, WorkingIs, ZenonT(60)
  <2> QED
    BY <2>1, <2>2
<1>7. Handled(t, s, v, c)
  <2>1. c.st \notin {"free", "execute_command"}
    BY <1>1, <1>2, <1>4 DEF Exists
  <2> QED
    BY <1>1, <1>2, <1>4, <1>6, <2>1 DEF Handled
<1>8. SendsOn(t, s, c)
  <2>1. CASE Now.first
    <3>1. c.send = None
      BY <1>4, <2>1
    <3>2. \A u \in Transactions \ {t} : u # cli[s].send => trx'[u] = trx[u]
      BY <1>5, <1>6
    <3>3. ASSUME NEW u \in Transactions \ {t}, u = cli[s].send
          PROVE  /\ trx'[u].ctx = None /\ trx'[u].st = trx[u].st
                 /\ trx'[u].owner = trx[u].owner /\ trx'[u].last = trx[u].last
      <4>1. trx'[u] = table[u]
        BY <1>6
      <4>2. /\ table[u].ctx = None /\ table[u].st = trx[u].st
            /\ table[u].owner = trx[u].owner /\ table[u].last = trx[u].last
        BY <1>5, <2>1, <3>3
      <4> QED
        BY <4>1, <4>2
    <3> QED
      BY <3>1, <3>2, <3>3 DEF SendsOn
  <2>2. CASE ~Now.first
    BY <1>4, <1>5, <1>6, <2>2 DEF SendsOn
  <2> QED
    BY <2>1, <2>2
<1>9. StateOk(s)'
  <2>1. CASE Now.first
    <3>1. c.st = "closing" /\ c.send = None /\ c.op = "close" /\ c.recv # None
      BY <1>1, <1>2, <1>4, <2>1
    <3> QED
      BY <1>4, <3>1 DEF StateOk
  <2>2. CASE ~Now.first
    <3>1. /\ Now.op \notin {"start", "exec"} /\ c.st = cli[s].st /\ c.op = cli[s].op
          /\ c.send = cli[s].send /\ (Now.op = "close" => c.recv # None)
          /\ \A u \in Transactions \ {T} : trx'[u].owner = trx[u].owner
      BY <1>1, <1>2, <1>4, <1>5, <1>6, <2>2
    <3> QED
      BY <1>1, <1>2, <1>4, <3>1, StateStays
  <2> QED
    BY <2>1, <2>2
<1>10. AppOk(s)'
  <2>1. AppOk(s)
    BY DEF Inv, AppAgrees, AppOk
  <2>2. cli[s].st \notin {"free", "uninitialized", "execute_command"}
    BY <1>1, <1>2 DEF Inv, LinkInv, StateOk, Exists
  <2>3. pc' # "end_response"
    BY <1>6
  <2> QED
    BY <1>3, <1>4, <2>1, <2>2, <2>3 DEF AppOk
<1>11. PcInv'
  <2>1. CASE Now.last
    <3>1. /\ Held' /\ Now' = Now /\ T' = t /\ c.st # "free"
          /\ pc' = "end_close" /\ cur' = s
      BY <1>1, <1>2, <1>6, <1>7, <2>1 DEF Held, Now, T, Handled
    <3> QED
      BY <1>1, <1>4, <1>6, <2>1, <3>1 DEF PcInv, Handling, Answering, Exists
  <2>2. CASE ~Now.last
    BY <1>6, <2>2 DEF PcInv, Handling, Answering
  <2> QED
    BY <2>1, <2>2
<1>12. \/ /\ held' = held /\ v.st = "receive"
          /\ Now.op = "start" => pc' \in Handling
          /\ Now.first /\ Now.op \in {"start", "exec"} /\ trx[t].reply => v.reply
       \/ held' = << >> /\ (v.st = "receive" <=> ~Now.last)
  BY <1>1, <1>6
<1>13. /\ pc' \in Pcs /\ pc' # "end_response"
       /\ at' \in Transactions \cup {None} /\ cur' \in Handles \cup {None}
       /\ app' \in [Handles -> AppType] /\ \A r \in Handles \ {s} : app'[r] = app[r]
  BY <1>1, <1>3, <1>6 DEF Pcs
<1> QED
  BY <1>1, <1>2, <1>4, <1>6, <1>7, <1>8, <1>9, <1>10, <1>11, <1>12, <1>13, HandledStepKeeps

\* The handler of a session.
LEMMA HandleReceiveKeeps ==
    ASSUME Disciplined, Inv, HandleReceive
    PROVE  Inv'
<1> DEFINE c == cli[cur]
<1>1. /\ pc = "handle" /\ UNCHANGED <<ring, errorBuf, slot, app, conv, sent, inbound, connVars>>
      /\ UNCHANGED cloudVars
  BY DEF HandleReceive, cloudVars
<1>2. /\ T \in Transactions /\ cur \in Handles /\ Exists(cur) /\ trx[T].ctx = cur
      /\ c \in CliType /\ up /\ Held /\ Now.op = c.op
      /\ c.st = "execute_command" <=> c.op = "exec"
      /\ c.op # "exec" => c.recv = T
      /\ None \notin Transactions
  BY <1>1, HandledPacket DEF Handling
<1>3. SendOk(cur) /\ RecvOk(cur) /\ Receiving(T)
  BY <1>1, <1>2 DEF Inv, LinkInv, HeldInv
<1>4. c.op = "start" => ~Dangles(Pointers(cur))
  <2>1. c.send # None => trx[c.send].ctx = cur
    BY <1>2, <1>3 DEF SendOk, Moving
  <2> QED
    BY <1>2, <2>1, PointersAre
<1>5. c.send # None => Live(c.send)
  BY <1>2, <1>3 DEF SendOk, Moving, Live, Receiving
<1>6. fault' = FALSE
  <2>1. ~Dangles({c.send})
    BY <1>5 DEF Dangles
  <2> QED
    BY <1>2, <1>4, <2>1 DEF HandleReceive, Inv, TypeInv
<1>7. CASE c.op = "start" /\ c.st # "uninitialized"
  <2>1. /\ pc' = "restart" /\ UNCHANGED <<callVars, held>>
        /\ trx' = Detach(trx, Pointers(cur))
        /\ cli' = [cli EXCEPT ![cur] = [cli[cur] EXCEPT !.recv = None, !.send = None]]
    BY <1>7 DEF HandleReceive, Call
  <2> QED
    BY <1>1, <1>6, <1>7, <2>1, RestartBegins
<1>8. CASE c.op = "data" /\ c.st = "started"
  <2>1. /\ Call("receive") /\ trx' = NoReply(trx)
        /\ cli' = [cli EXCEPT ![cur] = [cli[cur] EXCEPT !.consumed = Consumed(cli[cur])]]
    BY <1>8 DEF HandleReceive
  <2> QED
    BY <1>1, <1>6, <1>8, <2>1, DataOffered
<1>9. CASE c.op = "data" /\ c.st # "started"
  <2>1. /\ Working(AfterTrx(NoReply(trx)))
        /\ cli' = [cli EXCEPT ![cur] = AfterCli(cli[cur], NoReply(trx))]
    BY <1>9 DEF HandleReceive
  <2> QED
    BY <1>1, <1>6, <1>9, <2>1, DataLeft
<1>10. CASE c.op = "close"
  <2> DEFINE table == IF Now.first THEN Detach(trx, {c.send}) ELSE trx
  <2>1. /\ cli' = [cli EXCEPT ![cur] = IF Now.first
                                       THEN [cli[cur] EXCEPT !.consumed = 0, !.st = "closing",
                                                             !.send = None]
                                       ELSE cli[cur]]
        /\ IF Now.last THEN Call("end_close") /\ trx' = NoReply(table) ELSE Working(table)
    BY <1>10 DEF HandleReceive
  <2> QED
    BY <1>1, <1>6, <1>10, <2>1, CloseHandled
<1>11. CASE \/ c.op = "start" /\ c.st = "uninitialized"
            \/ c.op = "exec"
  <2>1. /\ pc' = (IF c.op = "exec" THEN "store" ELSE "start")
        /\ UNCHANGED <<trx, cli, held, callVars>>
    BY <1>11 DEF HandleReceive, Call
  <2>2. Held' /\ Now' = Now /\ T' = T /\ trx' = trx /\ cli' = cli /\ at' = at /\ cur' = cur
    BY <1>2, <2>1 DEF Held, Now, T, callVars
  <2>3. Now.op # "error"
    BY <1>1 DEF Inv, PcInv, Handling
  <2>4. PcInv'
    BY <1>2, <1>11, <2>1, <2>2, <2>3 DEF PcInv, Handling, Answering, Exists
  <2>5. /\ pc' \in Pcs /\ at' \in Transactions \cup {None} /\ cur' \in Handles \cup {None}
        /\ pc # "end_response" /\ pc' # "end_response" /\ pc' \in Handling
    BY <1>1, <2>1, <2>2 DEF Inv, TypeInv, Pcs, Handling
  <2> QED
    BY <1>1, <1>2, <1>6, <2>1, <2>4, <2>5, QuietKeeps
<1>12. c.op \in Operations
  <2>1. SessionOk(cur)
    BY <1>2 DEF Inv, RingInv
  <2> QED
    BY <1>2, <2>1 DEF CliType, SessionOk
<1> QED
  BY <1>7, <1>8, <1>9, <1>10, <1>11, <1>12 DEF Operations

\* The application starts a session, or cannot: the transaction of the start is to answer.
LEMMA SessionStartKeeps ==
    ASSUME Disciplined, Inv, SessionStart
    PROVE  Inv'
<1>1. /\ Held /\ T \in Transactions /\ cur \in Handles /\ Exists(cur) /\ trx[T].ctx = cur
      /\ trx[T].st = "receive" /\ trx[T].owner = "cloud"
      /\ cli[cur] \in CliType /\ cli[cur].recv = T
      /\ Now.op = "start" /\ Now.last /\ Now.first /\ trx[T].reply
      /\ cli[cur].st = "uninitialized" /\ cli[cur].send \in {None, T}
      /\ pc \in Handling \ {"restart", "end_error"} /\ pc = "start"
  <2>1. pc = "start" /\ pc \in Handling \ {"restart", "end_error"}
    BY DEF SessionStart, Handling
  <2>2. /\ Held /\ up /\ Now \in PacketType /\ T \in Transactions
        /\ cur \in Handles /\ Exists(cur) /\ trx[T].ctx = cur
        /\ trx[T].st = "receive" /\ trx[T].owner = "cloud"
        /\ cli[cur] \in CliType /\ Now.op = cli[cur].op
        /\ Now.op # "exec" => cli[cur].recv = T
    BY <2>1, HandledPacket
  <2>3. cli[cur].op = "start" /\ cli[cur].st = "uninitialized"
    BY <2>1 DEF Inv, PcInv
  <2>4. Now.first /\ Now.last
    BY <2>2, <2>3 DEF PacketType, Proper
  <2>5. trx[T].reply
    BY <2>2, <2>3, <2>4 DEF Inv, HeldInv
  <2>6. cli[cur].send \in {None, T}
    BY <2>2, <2>3 DEF Inv, LinkInv, StateOk, Moving
  <2> QED
    BY <2>1, <2>2, <2>3, <2>4, <2>5, <2>6
<1>2. PICK s \in Handles, t \in Transactions : s = cur /\ t = T
  BY <1>1
<1>3. trx \in [Transactions -> TrxType] /\ app \in [Handles -> AppType]
      /\ at \in Transactions \cup {None} /\ fault' = FALSE
      /\ UNCHANGED <<ring, errorBuf, slot, conv, sent, inbound, connVars>>
  BY DEF Inv, TypeInv, SessionStart, cloudVars
<1>4. PICK d \in CliType :
         /\ d.st \in {"ack_start", "start_failed"} /\ d.id = cli[s].id /\ d.op = cli[s].op
         /\ d.recv = cli[s].recv /\ d.send = cli[s].send
         /\ cli' = [cli EXCEPT ![s] = AfterCli(d, trx)] /\ Working(AfterTrx(trx))
         /\ app' = IF d.st = "ack_start" THEN [app EXCEPT ![s].is = "open"]
                                         ELSE [app EXCEPT ![s].is = "failed"]
  <2>1. PICK a \in {"ok", "error"} :
           /\ Answer([cli[cur] EXCEPT !.st = CASE a = "ok"    -> "ack_start"
                                               [] a = "error" -> "start_failed"
                                               [] a = "busy"  -> @], trx, a = "busy")
           /\ app' = CASE a = "ok"    -> [app EXCEPT ![cur].is = "open"]
                       [] a = "error" -> [app EXCEPT ![cur].is = "failed"]
                       [] a = "busy"  -> app
    BY DEF SessionStart, MayBeBusy, Disciplined
  <2> DEFINE st == IF a = "ok" THEN "ack_start" ELSE "start_failed"
             x == [cli[s] EXCEPT !.st = st]
  <2>2. /\ x \in CliType /\ x.st = st /\ x.id = cli[s].id /\ x.op = cli[s].op
        /\ x.recv = cli[s].recv /\ x.send = cli[s].send
    BY <1>1, <1>2 DEF CliType, CliStates, Ending
  <2>3. Answer(x, trx, FALSE)
    BY <1>2, <2>1
  <2>4. app' = IF x.st = "ack_start" THEN [app EXCEPT ![s].is = "open"]
                                     ELSE [app EXCEPT ![s].is = "failed"]
    BY <1>2, <2>1, <2>2
  <2>5. x.st \in {"ack_start", "start_failed"}
    BY <2>2
  <2> HIDE DEF x, st
  <2>6. cli' = [cli EXCEPT ![s] = AfterCli(x, trx)] /\ Working(AfterTrx(trx))
    BY <1>2, <2>3 DEF Answer
  <2> QED
    BY <2>2, <2>4, <2>5, <2>6
<1>5. PICK v \in TrxType, c \in CliType : Answered(t, s, d, TRUE, v, c)
  <2>1. /\ trx[t].reply <=> Now.op \in {"start", "exec"}
        /\ Now.op = "start" => Now.last /\ cli[s].send \in {None, t}
        /\ d.st # "free" /\ d.st = "execute_command" <=> cli[s].st = "execute_command"
        /\ \/ Working(AfterTrx(trx))
           \/ Pending /\ trx' = AfterTrx(trx) /\ Now.op # "start"
        /\ trx[t].ctx = s /\ trx[t].st = "receive" /\ trx[t].owner = "cloud"
        /\ \A u \in Transactions \ {t} : trx[u] = trx[u]
    BY <1>1, <1>2, <1>4
  <2>2. \E v \in TrxType, c \in CliType : Answered(t, s, d, trx[t].reply, v, c)
    BY <1>1, <1>2, <1>3, <1>4, <2>1, AnsweredIs
  <2>3. trx[t].reply = TRUE
    BY <1>1, <1>2, <1>3 DEF TrxType
  <2> QED
    BY <2>2, <2>3
<1>6. /\ Handled(t, s, v, c) /\ SendsOn(t, s, c)
      /\ trx' \in [Transactions -> TrxType] /\ trx'[t] = v
      /\ cli' = [cli EXCEPT ![s] = c] /\ cli'[s] = c
      /\ c.st = d.st /\ c.op = d.op /\ c.send = t /\ v.owner = "cloud"
      /\ held' = << >> \/ (held' = held /\ Pending /\ v.st = "receive")
      /\ pc' = "sessions" /\ cur' = None /\ at' = at
  BY <1>1, <1>5 DEF Answered, Handled
<1>7. held' = << >> /\ (v.st = "receive" <=> ~Now.last)
  <2>1. held' = << >> /\ held # << >>
    BY <1>1, <1>4 DEF Working, Held
  <2> QED
    BY <1>5, <2>1 DEF Answered
<1>8. /\ app' \in [Handles -> AppType] /\ \A r \in Handles \ {s} : app'[r] = app[r]
      /\ app'[s].is = IF d.st = "ack_start" THEN "open" ELSE "failed"
  BY <1>3, <1>4 DEF AppType, Words
<1>9. AppOk(s)'
  BY <1>4, <1>6, <1>8 DEF AppOk
<1>10. StateOk(s)'
  <2>1. None \notin Transactions
    BY ConstantsAssumption
  <2> QED
    BY <1>4, <1>6, <2>1 DEF StateOk
<1>11. PcInv'
  BY <1>6 DEF PcInv, Handling, Answering
<1>12. /\ pc' \in Pcs /\ pc' # "end_response"
       /\ at' \in Transactions \cup {None} /\ cur' \in Handles \cup {None}
  BY <1>3, <1>6 DEF Pcs
<1> QED
  BY <1>1, <1>2, <1>3, <1>6, <1>7, <1>8, <1>9, <1>10, <1>11, <1>12, HandledStepKeeps

\* What is left of a packet, from where the last callback stopped, and a part of it.
LEMMA PartOfPacket ==
    ASSUME NEW p \in PacketType, NEW from \in 0 .. Units, NEW left,
           left = SubSeq(Cells(p), from + 1, Len(Cells(p))),
           NEW n \in 0 .. Len(left), NEW got \in Seq(Nat)
    PROVE  /\ Len(Cells(p)) \in Nat /\ Len(left) = Len(Cells(p)) - from
           /\ n # Len(left) => from + n \in 0 .. Units
           /\ got \o SubSeq(left, 1, n) \in Seq(Nat)
<1>1. Units \in Nat /\ p.from \in Nat
  BY ConstantsAssumption DEF PacketType
<1> DEFINE header == IF p.first THEN <<HeaderCell>> ELSE << >>
           body == [i \in 1 .. Units |-> p.from + i]
<1>2. header \in Seq(Nat) /\ Len(header) \in {0, 1}
  <2>1. HeaderCell \in Nat
    BY DEF HeaderCell
  <2>2. <<HeaderCell>> \in Seq(Nat) /\ Len(<<HeaderCell>>) = 1
    BY <2>1
  <2> QED
    BY <2>2
<1>3. body \in Seq(Nat) /\ Len(body) = Units
  <2>1. \A i \in 1 .. Units : p.from + i \in Nat
    BY <1>1
  <2> QED
    BY <1>1, <2>1
<1> HIDE DEF header, body
<1>4. Cells(p) \in Seq(Nat) /\ Len(Cells(p)) \in {Units, Units + 1}
  <2>1. header \o body \in Seq(Nat) /\ Len(header \o body) = Len(header) + Len(body)
    BY <1>2, <1>3, ConcatProperties
  <2>2. Cells(p) = header \o body
    BY DEF Cells, header, body
  <2>3. PICK h \in {0, 1} : h = Len(header)
    BY <1>2
  <2>4. Len(Cells(p)) = h + Units /\ Cells(p) \in Seq(Nat)
    BY <1>3, <2>1, <2>2, <2>3
  <2> QED
    BY <1>1, <2>4
<1>5. PICK len \in Nat : len = Len(Cells(p)) /\ len \in {Units, Units + 1}
  BY <1>1, <1>4
<1>6. \A i \in from + 1 .. len : Cells(p)[i] \in Nat
  <2>1. Cells(p) \in [1 .. len -> Nat]
    BY <1>4, <1>5, LenProperties
  <2>2. \A i \in from + 1 .. len : i \in 1 .. len
    BY <1>1, <1>5
  <2> QED
    BY <2>1, <2>2
<1>7. left \in Seq(Nat) /\ Len(left) = len - from
  <2>1. from + 1 \in Int /\ len \in Int /\ from \in Nat /\ from <= len
    BY <1>1, <1>5
  <2>2. /\ left \in Seq(Nat)
        /\ Len(left) = IF from + 1 <= len THEN len - (from + 1) + 1 ELSE 0
    BY <1>5, <1>6, <2>1, SubSeqProperties
  <2> QED
    BY <2>1, <2>2
<1>8. SubSeq(left, 1, n) \in Seq(Nat)
  <2>1. \A i \in 1 .. n : left[i] \in Nat
    <3>1. left \in [1 .. Len(left) -> Nat] /\ Len(left) \in Nat
      BY <1>7, LenProperties
    <3>2. \A i \in 1 .. n : i \in 1 .. Len(left)
      BY <3>1
    <3> QED
      BY <3>1, <3>2
  <2>2. 1 \in Int /\ n \in Int
    BY <1>7, LenProperties
  <2> QED
    BY <2>1, <2>2, SubSeqProperties
<1>9. got \o SubSeq(left, 1, n) \in Seq(Nat)
  BY <1>8, ConcatProperties
<1>10. n # Len(left) => from + n \in 0 .. Units
  BY <1>1, <1>5, <1>7
<1> QED
  BY <1>5, <1>7, <1>9, <1>10

\* A session was given some of a packet: what it receives with, and sends with, is as the
\* end of the packet says.
LEMMA GivenKeeps ==
    ASSUME Inv, pc \in {"receive", "store"}, NEW d \in CliType, NEW pending \in BOOLEAN,
           d.st = cli[cur].st, d.id = cli[cur].id, d.op = cli[cur].op,
           d.recv = cli[cur].recv, d.send = cli[cur].send,
           Answer(d, trx, pending), fault' = FALSE,
           NEW got \in Seq(Nat), app' = [app EXCEPT ![cur].got = got],
           UNCHANGED <<ring, errorBuf, slot, conv, sent, inbound, connVars>>
    PROVE  Inv'
<1>1. /\ T \in Transactions /\ cur \in Handles /\ Exists(cur) /\ trx[T].ctx = cur
      /\ trx[T].st = "receive" /\ trx[T].owner = "cloud"
      /\ cli[cur] \in CliType /\ Now.op = cli[cur].op /\ None \notin Transactions
      /\ cli[cur].st = "execute_command" <=> Now.op = "exec"
      /\ pc \in Handling \ {"restart", "end_error"}
  BY HandledPacket DEF Handling
<1>2. /\ trx[T].reply <=> Now.op \in {"start", "exec"}
      /\ Now.op # "start" /\ cli[cur].st \in {"started", "execute_command"}
  <2>1. CASE pc = "receive"
    BY <1>1, <2>1 DEF Inv, PcInv
  <2>2. CASE pc = "store"
    BY <1>1, <2>2 DEF Inv, PcInv, LinkInv, ExecOk
  <2> QED
    BY <2>1, <2>2
<1>3. PICK s \in Handles, t \in Transactions : s = cur /\ t = T
  BY <1>1
<1>4. /\ trx \in [Transactions -> TrxType] /\ app \in [Handles -> AppType]
      /\ at \in Transactions \cup {None}
  BY DEF Inv, TypeInv
<1>5. PICK reply \in BOOLEAN : reply = trx[t].reply
  BY <1>4 DEF TrxType
<1>6. PICK v \in TrxType, c \in CliType : Answered(t, s, d, reply, v, c)
  <2>1. /\ trx[t].reply <=> Now.op \in {"start", "exec"}
        /\ Now.op = "start" => Now.last /\ cli[s].send \in {None, t}
        /\ d.id = cli[s].id /\ d.op = cli[s].op /\ d.recv = cli[s].recv
        /\ d.send = cli[s].send /\ d.st # "free"
        /\ d.st = "execute_command" <=> cli[s].st = "execute_command"
        /\ cli' = [cli EXCEPT ![s] = AfterCli(d, trx)]
        /\ \/ Working(AfterTrx(trx))
           \/ Pending /\ trx' = AfterTrx(trx) /\ Now.op # "start"
        /\ trx[t].ctx = s /\ trx[t].st = "receive" /\ trx[t].owner = "cloud"
        /\ \A u \in Transactions \ {t} : trx[u] = trx[u]
    BY <1>1, <1>2, <1>3 DEF Answer
  <2>2. \E v \in TrxType, c \in CliType : Answered(t, s, d, trx[t].reply, v, c)
    BY <1>1, <1>3, <1>4, <2>1, AnsweredIs
  <2> QED
    BY <1>5, <2>2
<1>7. /\ Handled(t, s, v, c) /\ SendsOn(t, s, c)
      /\ trx' \in [Transactions -> TrxType] /\ trx'[t] = v
      /\ cli' = [cli EXCEPT ![s] = c] /\ cli'[s] = c /\ c.st = d.st
      /\ \/ held' = held /\ v.st = "receive" /\ v.reply = reply
         \/ held' = << >> /\ (v.st = "receive" <=> ~Now.last)
      /\ pc' = "sessions" /\ cur' = None /\ at' = at
  BY <1>6 DEF Answered
<1>8. /\ app' \in [Handles -> AppType] /\ \A r \in Handles \ {s} : app'[r] = app[r]
      /\ app'[s].is = app[s].is
  BY <1>3, <1>4 DEF AppType
<1>9. AppOk(s)'
  <2>1. AppOk(s)
    BY DEF Inv, AppAgrees, AppOk
  <2>2. c.st = cli[s].st /\ pc # "end_response"
    BY <1>3, <1>7
  <2> QED
    BY <1>7, <1>8, <2>1, <2>2 DEF AppOk
<1>10. StateOk(s)'
  BY <1>2, <1>3, <1>7 DEF StateOk
<1>11. PcInv'
  BY <1>7 DEF PcInv, Handling, Answering
<1>12. \/ /\ held' = held /\ v.st = "receive"
          /\ Now.op = "start" => pc' \in Handling
          /\ Now.first /\ Now.op \in {"start", "exec"} /\ trx[t].reply => v.reply
       \/ held' = << >> /\ (v.st = "receive" <=> ~Now.last)
  BY <1>2, <1>5, <1>7
<1>13. /\ pc' \in Pcs /\ pc' # "end_response"
       /\ at' \in Transactions \cup {None} /\ cur' \in Handles \cup {None}
  BY <1>4, <1>7 DEF Pcs
<1> QED
  BY <1>1, <1>3, <1>7, <1>8, <1>9, <1>10, <1>11, <1>12, <1>13, HandledStepKeeps

\* The application is given data, as much as it takes.
LEMMA SessionReceiveKeeps ==
    ASSUME Disciplined, Inv, SessionReceive
    PROVE  Inv'
<1>1. /\ pc = "receive" /\ fault' = FALSE
      /\ UNCHANGED <<ring, errorBuf, slot, conv, sent, inbound, connVars>>
  BY DEF SessionReceive, cloudVars, Inv, TypeInv
<1>2. Now \in PacketType /\ cur \in Handles /\ cli[cur] \in CliType
  BY <1>1, HandledPacket DEF Handling
<1>3. app[cur].got \in Seq(Nat)
  BY <1>2 DEF Inv, TypeInv, AppType
<1> DEFINE left == SubSeq(Cells(Now), cli[cur].consumed + 1, Len(Cells(Now)))
<1>4. PICK n \in 0 .. Len(left) :
         /\ Answer(Used(n), trx, cli[cur].consumed + n # Len(Cells(Now)))
         /\ app' = [app EXCEPT ![cur].got = @ \o SubSeq(left, 1, n)]
  BY DEF SessionReceive
<1>5. PICK from \in 0 .. Units : from = cli[cur].consumed
  BY <1>2 DEF CliType
<1>6. /\ Len(Cells(Now)) \in Nat /\ Len(left) = Len(Cells(Now)) - from
      /\ n # Len(left) => from + n \in 0 .. Units
      /\ app[cur].got \o SubSeq(left, 1, n) \in Seq(Nat)
  <2>1. left = SubSeq(Cells(Now), from + 1, Len(Cells(Now)))
    BY <1>5
  <2> HIDE DEF left
  <2> QED
    BY <1>2, <1>3, <2>1, PartOfPacket
<1>7. PICK got \in Seq(Nat) : got = app[cur].got \o SubSeq(left, 1, n)
  BY <1>6
<1>8. app' = [app EXCEPT ![cur].got = got]
  BY <1>4, <1>7
<1> HIDE DEF left
<1>9. PICK used \in 0 .. Units : used = IF from + n = Len(Cells(Now)) THEN 0 ELSE from + n
  <2>1. 0 \in 0 .. Units /\ n \in Nat /\ from \in Nat
    BY <1>6, ConstantsAssumption
  <2>2. from + n # Len(Cells(Now)) => from + n \in 0 .. Units
    BY <1>6, <2>1
  <2> QED
    BY <2>1, <2>2
<1> DEFINE x == [cli[cur] EXCEPT !.consumed = used]
<1>10. /\ x \in CliType /\ x.st = cli[cur].st /\ x.id = cli[cur].id /\ x.op = cli[cur].op
       /\ x.recv = cli[cur].recv /\ x.send = cli[cur].send
  BY <1>2 DEF CliType
<1>11. Used(n) = x
  BY <1>5, <1>9 DEF Used
<1> HIDE DEF x
<1>12. PICK pending \in BOOLEAN : Answer(x, trx, pending)
  BY <1>4, <1>11
<1> QED
  BY <1>1, <1>8, <1>10, <1>12, GivenKeeps

\* A command is stored.
LEMMA SessionStoreKeeps ==
    ASSUME Disciplined, Inv, SessionStore
    PROVE  Inv'
<1>1. /\ pc = "store" /\ fault' = FALSE
      /\ UNCHANGED <<ring, errorBuf, slot, conv, sent, inbound, connVars>>
  BY DEF SessionStore, cloudVars, Inv, TypeInv
<1>2. Now \in PacketType /\ cur \in Handles /\ cli[cur] \in CliType
  BY <1>1, HandledPacket DEF Handling
<1>3. app[cur].got \in Seq(Nat)
  BY <1>2 DEF Inv, TypeInv, AppType
<1> DEFINE start == IF Now.first THEN 1 ELSE cli[cur].consumed
           left == SubSeq(Cells(Now), start + 1, Len(Cells(Now)))
           used(n) == [cli[cur] EXCEPT !.consumed = IF n = Len(left) THEN 0 ELSE start + n]
<1>4. PICK n \in 0 .. Len(left), busy \in BOOLEAN :
         /\ Answer(used(n), trx, n # Len(left) /\ ~busy)
         /\ app' = [app EXCEPT ![cur].got = @ \o SubSeq(left, 1, n)]
  BY DEF SessionStore
<1>5. PICK from \in 0 .. Units : from = start
  <2>1. 1 \in 0 .. Units /\ cli[cur].consumed \in 0 .. Units
    BY <1>2, ConstantsAssumption DEF CliType
  <2> QED
    BY <2>1
<1>6. /\ Len(Cells(Now)) \in Nat /\ Len(left) = Len(Cells(Now)) - from
      /\ n # Len(left) => from + n \in 0 .. Units
      /\ app[cur].got \o SubSeq(left, 1, n) \in Seq(Nat)
  <2>1. left = SubSeq(Cells(Now), from + 1, Len(Cells(Now)))
    BY <1>5
  <2> HIDE DEF left
  <2> QED
    BY <1>2, <1>3, <2>1, PartOfPacket
<1>7. PICK got \in Seq(Nat) : got = app[cur].got \o SubSeq(left, 1, n)
  BY <1>6
<1>8. app' = [app EXCEPT ![cur].got = got]
  BY <1>4, <1>7
<1>9. PICK m \in 0 .. Units : m = IF n = Len(left) THEN 0 ELSE from + n
  <2>1. 0 \in 0 .. Units
    BY ConstantsAssumption
  <2> QED
    BY <1>6, <2>1
<1> DEFINE x == [cli[cur] EXCEPT !.consumed = m]
<1>10. /\ x \in CliType /\ x.st = cli[cur].st /\ x.id = cli[cur].id /\ x.op = cli[cur].op
       /\ x.recv = cli[cur].recv /\ x.send = cli[cur].send
  BY <1>2 DEF CliType
<1>11. used(n) = x
  BY <1>5, <1>9
<1> HIDE DEF x, used, left, start
<1>12. PICK pending \in BOOLEAN : Answer(x, trx, pending)
  BY <1>4, <1>11
<1> QED
  BY <1>1, <1>8, <1>10, <1>12, GivenKeeps

\* A session was ended, or not yet, and waits for its start to be offered again.
LEMMA SessionRestartKeeps ==
    ASSUME Disciplined, Inv, SessionRestart
    PROVE  Inv'
<1>1. /\ pc = "restart" /\ fault' = FALSE /\ up' = up
      /\ UNCHANGED <<ring, errorBuf, slot, conv, sent, inbound>>
  BY DEF SessionRestart, cloudVars, connVars, Inv, TypeInv
<1>2. /\ Held /\ up /\ Now \in PacketType /\ T \in Transactions
      /\ cur \in Handles /\ Exists(cur) /\ cli[cur] \in CliType
      /\ Now.op = "start" /\ Now.id = cli[cur].id /\ trx[T].ctx = None
      /\ cli[cur].op = "start" /\ cli[cur].recv = None /\ cli[cur].send = None
      /\ None \notin Handles /\ None \notin Transactions
  BY <1>1, HeldPacket, StillUp, ConstantsAssumption DEF Inv, PcInv, Handling, TypeInv
<1>3. PICK s \in Handles, t \in Transactions : s = cur /\ t = T
  BY <1>2
<1>4. /\ trx \in [Transactions -> TrxType] /\ cli \in [Handles -> CliType]
      /\ app \in [Handles -> AppType] /\ at \in Transactions \cup {None}
      /\ SessionOk(s) /\ TrxOk(t) /\ AppOk(s) /\ StateOk(s)
      /\ \A u \in Transactions : CtxOk(u)
  BY <1>2, <1>3 DEF Inv, TypeInv, RingInv, TrxInv, LinkInv, AppAgrees, AppOk
<1>5. Now.first /\ Now.last /\ trx[t].reply /\ trx[t].st = "receive" /\ trx[t].owner = "cloud"
  BY <1>2, <1>3, <1>4 DEF PacketType, Proper, Inv, HeldInv, TrxOk, Receiving
<1>6. cli[s].st # "execute_command" /\ cli[s].st # "free" /\ cli[s].id # None
  BY <1>2, <1>3, <1>4 DEF SessionOk, Exists
<1>7. PICK d \in CliType :
         /\ d.id = cli[s].id /\ d.op = "start" /\ Answer(d, trx, TRUE)
         /\ \/ d.st = "uninitialized" /\ EndsInApp(s)
            \/ d.st = cli[s].st /\ app' = app
  <2>1. PICK a \in {"done", "busy"} :
           /\ Answer(IF a = "done" THEN [cli[cur] EXCEPT !.consumed = 0, !.st = "uninitialized"]
                                   ELSE cli[cur], trx, TRUE)
           /\ IF a = "done" THEN EndsInApp(cur) ELSE UNCHANGED app
    BY DEF SessionRestart
  <2> DEFINE x == [cli[s] EXCEPT !.consumed = 0, !.st = "uninitialized"]
  <2>2. x \in CliType /\ x.id = cli[s].id /\ x.op = "start" /\ x.st = "uninitialized"
    <3>1. 0 \in 0 .. Units
      BY ConstantsAssumption
    <3> QED
      BY <1>2, <1>3, <3>1 DEF CliType, CliStates
  <2>3. CASE a = "done"
    <3>1. Answer(x, trx, TRUE) /\ EndsInApp(s)
      BY <1>3, <2>1, <2>3
    <3> HIDE DEF x
    <3> QED
      BY <2>2, <3>1
  <2>4. CASE a = "busy"
    <3>1. Answer(cli[s], trx, TRUE) /\ app' = app
      BY <1>3, <2>1, <2>4
    <3> QED
      BY <1>2, <1>3, <3>1
  <2> QED
    BY <2>1, <2>3, <2>4
<1>8. PICK c \in CliType :
         /\ cli' = [cli EXCEPT ![s] = c] /\ c.id = cli[s].id /\ c.op = "start"
         /\ c.recv = None /\ c.send = t /\ c.st = d.st
  <2> DEFINE x == [d EXCEPT !.recv = None, !.send = t]
  <2>1. /\ x \in CliType /\ x.id = d.id /\ x.op = d.op /\ x.recv = None /\ x.send = t
        /\ x.st = d.st
    BY DEF CliType
  <2>2. cli' = [cli EXCEPT ![s] = x]
    BY <1>3, <1>5, <1>7 DEF Answer, AfterCli
  <2> HIDE DEF x
  <2> QED
    BY <1>7, <2>1, <2>2
<1>9. /\ trx' = trx /\ pc' = "sessions" /\ held' = held /\ at' = at /\ cur' = None
      /\ Held' /\ Now' = Now /\ T' = t
  BY <1>2, <1>3, <1>5, <1>7 DEF Answer, AfterTrx, Pending, Held, Now, T
<1>10. /\ cli' \in [Handles -> CliType] /\ cli'[s] = c
       /\ \A r \in Handles \ {s} : cli'[r] = cli[r]
       /\ c.st \in {"uninitialized", cli[s].st}
       /\ c.st # "execute_command" /\ c.st # "free" /\ c.id = Now.id
  BY <1>2, <1>3, <1>4, <1>6, <1>7, <1>8
<1>11. PacketInv' /\ HeldInv'
  <2>1. TypeInv /\ PacketInv /\ HeldInv /\ UNCHANGED <<conv, inbound, held>>
    BY <1>1, <1>9 DEF Inv
  <2>2. /\ \A u \in Transactions : Receiving(u)' <=> Receiving(u)
        /\ \A u \in Transactions : Live(u)' => Live(u) \/ Coming(u) = {}
        /\ Held /\ Now.first /\ Now.op \in {"start", "exec"} /\ trx[T].reply => trx'[T].reply
        /\ Held /\ Now.op = "start" /\ pc' \notin Handling => trx'[T].ctx = None
    BY <1>2, <1>9 DEF Receiving, Live
  <2> QED
    BY <1>1, <2>1, <2>2, PacketsKept
<1>12. SessionLinks(s)'
  <2>1. Restarts(s)' /\ Moving(s)'
    BY <1>2, <1>8, <1>9, <1>10 DEF Restarts, Moving, Held
  <2>2. RecvOk(s)' /\ ExecOk(s)'
    BY <1>8, <1>10 DEF RecvOk, ExecOk
  <2>3. SendOk(s)'
    BY <1>2, <1>3, <1>9, <2>1 DEF SendOk
  <2>4. StateOk(s)'
    BY <1>3, <1>5, <1>8, <1>9, <1>10, <2>1 DEF StateOk
  <2> QED
    BY <2>2, <2>3, <2>4 DEF SessionLinks
<1>13. \A u \in Transactions : trx[u].ctx # s
  BY <1>2, <1>3, <1>4, <1>6 DEF CtxOk
<1>14. RingInv'
  <2>1. SessionOk(s)'
    BY <1>4, <1>6, <1>8, <1>10 DEF SessionOk, Exists
  <2>2. /\ Exists(s) /\ cli'[s].id = cli[s].id /\ cli'[s].st # "free"
        /\ ring' \in {ring, Rotated} /\ s \in Handles \cup {None}
    BY <1>1, <1>2, <1>3, <1>8, <1>10
  <2> QED
    BY <1>10, <2>1, <2>2, RingKept
<1>15. /\ app' \in [Handles -> AppType] /\ \A r \in Handles \ {s} : app'[r] = app[r]
       /\ \/ c.st = "uninitialized" /\ app'[s].is = "none"
          \/ c.st = cli[s].st /\ app'[s] = app[s]
  <2>1. Unknown \in AppType /\ Unknown.is = "none"
    BY DEF Unknown, AppType, Words
  <2> QED
    BY <1>4, <1>7, <1>8, <2>1 DEF EndsInApp
<1>16. AppAgrees'
  <2>1. AppOk(s)'
    BY <1>1, <1>4, <1>6, <1>9, <1>10, <1>15 DEF AppOk
  <2>2. (pc = "end_response" => cur = s) /\ (pc' = "end_response" => cur' = s)
    BY <1>1, <1>9
  <2> QED
    BY <1>10, <1>15, <2>1, <2>2, AppKept
<1>17. TypeInv'
  <2>1. pc' \in Pcs /\ cur' \in Handles \cup {None}
    BY <1>9 DEF Pcs
  <2> QED
    BY <1>1, <1>9, <1>10, <1>15, <2>1 DEF Inv, TypeInv
<1>18. PcInv'
  BY <1>9 DEF PcInv, Handling, Answering
<1>19. Elsewhere(s, {})
  BY <1>1, <1>9, <1>10 DEF Elsewhere
<1>20. /\ {} \in SUBSET Transactions /\ errorBuf' = errorBuf /\ errorBuf \notin {}
       /\ slot' \in Transactions => trx'[slot'].st = "wait"
       /\ \A u \in {} : TrxOk(u)'
       /\ \A u \in Transactions : u \in {} \/ (s \in Handles /\ trx[u].ctx = s)
                                     => CtxOk(u)' /\ StreamOk(u)'
  BY <1>1, <1>9, <1>13 DEF Inv, TrxInv
<1> QED
  BY <1>2, <1>11, <1>12, <1>14, <1>16, <1>17, <1>18, <1>19, <1>20, StepKeeps

\* The session that a first packet is for: data, and a close, find no other request under
\* way, because Device Cloud sends the next one when it sent all of the last one.
LEMMA KnownSession ==
    ASSUME Inv, Starts, Known # None
    PROVE  /\ Known \in Handles /\ Exists(Known) /\ cli[Known].id = Now.id /\ Now.id # None
           /\ Now.op \in {"start", "data", "close"} /\ cli[Known].st # "execute_command"
           /\ Now.op \in {"data", "close"} => cli[Known].recv = None
           /\ cli[Known].recv # T
           /\ cli[Known].recv # None =>
                 /\ Receiving(cli[Known].recv) /\ trx[cli[Known].recv].ctx = Known
           /\ errorBuf # T
<1>1. /\ pc = "packet" /\ Now.op # "error" /\ Now.first /\ trx[T].ctx = None
  BY DEF Starts, Looks
<1>2. /\ Held /\ up /\ Now \in PacketType /\ T \in Transactions
      /\ None \notin Handles /\ None \notin Transactions
  BY <1>1, LookedAt, ConstantsAssumption
<1>3. /\ Now.op \in {"start", "data", "close"} /\ Now.id \in Ids /\ Now.id # None
      /\ Known = Find(Now.id)
  BY <1>1, <1>2 DEF Known, PacketType, Proper, Operations
<1>4. Known \in Handles /\ Exists(Known) /\ cli[Known].id = Now.id
  <2>1. \A id \in Ids : \/ Find(id) = None
                        \/ Find(id) \in Handles /\ Exists(Find(id)) /\ cli[Find(id)].id = id
    <3> TAKE id \in Ids
    <3> QED
      BY FindIs
  <2> QED
    BY <1>3, <2>1
<1>5. PICK s \in Handles : s = Known
  BY <1>4
<1>6. /\ SessionOk(s) /\ RecvOk(s) /\ cli[s] \in CliType
  BY DEF Inv, RingInv, LinkInv, TypeInv
<1>7. cli[s].st # "execute_command"
  BY <1>3, <1>4, <1>5, <1>6 DEF SessionOk
<1>8. cli[s].recv # None => Receiving(cli[s].recv) /\ trx[cli[s].recv].ctx = s
  BY <1>6 DEF RecvOk
<1>9. cli[s].recv # T
  BY <1>1, <1>2, <1>8
<1>10. Now.op \in {"data", "close"} => cli[s].recv = None
  <2> SUFFICES ASSUME Now.op \in {"data", "close"}, cli[s].recv # None PROVE FALSE
    OBVIOUS
  <2>1. PICK u \in Transactions : u = cli[s].recv
    BY <1>6 DEF CliType
  <2>2. Receiving(u) /\ trx[u].ctx = s /\ u # T
    BY <1>8, <1>9, <2>1
  <2>3. Coming(u) # {}
    BY <1>2, <2>2 DEF Inv, PacketInv, WaitInv
  <2>4. PICK q \in Coming(u) : TRUE
    BY <2>3
  <2>5. q.id = Now.id
    BY <1>4, <1>5, <2>2 DEF Inv, StreamInv, StreamOk, Due
  <2>6. Clash(Now, q)
    BY <2>5 DEF Clash
  <2>7. ~Live(u)
    BY <1>1, <1>2, <2>2, <2>6 DEF Inv, HeldInv
  <2> QED
    BY <2>2, <2>7 DEF Live, Receiving
<1>11. errorBuf # T
  BY <1>1, FirstIsNotInErrorBuffer
<1> QED
  BY <1>3, <1>4, <1>5, <1>7, <1>8, <1>9, <1>10, <1>11

\* What the transaction t of a request and the session s become, and the transaction was
\* that the session received with.
TakesOver(t, s, was, c) ==
    /\ c.recv = t /\ c.op = Now.op
    /\ c.st = cli[s].st /\ c.id = cli[s].id /\ c.send = cli[s].send
    /\ trx'[t].ctx = s /\ trx'[t].st = trx[t].st
    /\ trx'[t].owner = trx[t].owner /\ trx'[t].reply = trx[t].reply
    /\ \A u \in Transactions \ {t} : u # was => trx'[u] = trx[u]
    /\ \A u \in Transactions \ {t} : u = was =>
          /\ trx'[u].ctx = None /\ trx'[u].st = trx[u].st
          /\ trx'[u].owner = trx[u].owner /\ trx'[u].last = trx[u].last

\* A request for an existing session takes the place of one that was not complete.
LEMMA RequestTakesOver ==
    ASSUME Inv, Starts, Known # None, fault' = FALSE,
           NEW s \in Handles, NEW t \in Transactions, s = Known, t = T,
           NEW was \in Transactions \cup {None}, was = cli[s].recv,
           Now.op = "data" => cli[s].st = "started",
           NEW c \in CliType, cli' = [cli EXCEPT ![s] = c], TakesOver(t, s, was, c),
           trx' \in [Transactions -> TrxType], Handle(s),
           UNCHANGED <<ring, errorBuf, slot, app, conv, sent, inbound, connVars>>
    PROVE  Inv'
<1> USE DEF TakesOver
<1>1. /\ pc = "packet" /\ Now.op # "error" /\ Now.first /\ trx[T].ctx = None
  BY DEF Starts, Looks
<1>2. /\ Held /\ up /\ Now \in PacketType /\ T \in Transactions
      /\ trx[T].st = "receive" /\ trx[T] \in TrxType /\ TrxOk(T)
      /\ trx[T].owner = "cloud" /\ None \notin Handles /\ None \notin Transactions
  BY <1>1, LookedAt, ConstantsAssumption DEF Receiving
<1>3. /\ Exists(s) /\ cli[s].id = Now.id /\ Now.id # None
      /\ Now.op \in {"start", "data", "close"} /\ cli[s].st # "execute_command"
      /\ Now.op \in {"data", "close"} => was = None
      /\ was # t
      /\ was # None => trx[was].st = "receive" /\ trx[was].ctx = s
      /\ errorBuf # t
  BY KnownSession DEF Receiving
<1>4. /\ trx \in [Transactions -> TrxType] /\ cli \in [Handles -> CliType]
      /\ app \in [Handles -> AppType] /\ at \in Transactions \cup {None} /\ cli[s] \in CliType
  BY DEF Inv, TypeInv
<1>5. /\ pc' = "handle" /\ cur' = s /\ at' = at /\ held' = held
      /\ Held' /\ Now' = Now /\ T' = t /\ up' = up
  BY <1>2 DEF Handle, Held, Now, T, connVars
<1>6. /\ cli' \in [Handles -> CliType] /\ cli'[s] = c
      /\ \A r \in Handles \ {s} : cli'[r] = cli[r]
  BY <1>4
<1>7. trx'[t].st = "receive" /\ trx'[t].owner = "cloud"
  BY <1>2
<1> DEFINE W == {t} \cup ({was} \ {None})
<1>8. /\ W \in SUBSET Transactions
      /\ \A u \in Transactions : u \in W <=> u = t \/ u = was
      /\ \A u \in Transactions \ W : trx'[u] = trx[u]
      /\ \A u \in Transactions : trx'[u].st = trx[u].st
  BY <1>2, <1>7
<1> HIDE DEF W
<1>9. \A r \in Handles \ {s} : ~Restarts(r)
  BY <1>2, <1>3, OnlyRestart
<1>10. PacketInv' /\ HeldInv'
  <2>1. /\ \A u \in Transactions : Receiving(u)' <=> Receiving(u)
        /\ \A u \in Transactions : Live(u)' => Live(u) \/ Coming(u) = {}
    BY <1>8 DEF Receiving, Live
  <2>2. /\ Held /\ Now.first /\ Now.op \in {"start", "exec"} /\ trx[T].reply => trx'[T].reply
        /\ Held /\ Now.op = "start" /\ pc' \notin Handling => trx'[T].ctx = None
    BY <1>5, <1>7 DEF Handling
  <2>3. TypeInv /\ PacketInv /\ HeldInv /\ UNCHANGED <<conv, inbound, held>>
    BY <1>5 DEF Inv
  <2> QED
    BY <1>5, <2>1, <2>2, <2>3, PacketsKept
<1>11. ASSUME NEW u \in Transactions, u # t, u # was, trx[u].ctx = s
       PROVE  /\ trx[u].st \in {"get_data", "wait"} /\ cli[s].send = u /\ Due(u) = {}
  <2>1. CtxOk(u)
    BY DEF Inv, LinkInv
  <2>2. trx[u].st \in {"get_data", "wait"} /\ cli[s].send = u
    BY <1>3, <1>11, <2>1 DEF CtxOk
  <2> QED
    BY <2>2, NothingDue DEF Live, Receiving
<1>12. \A u \in Transactions : Due(u)' = Due(u)
  BY <1>5 DEF Due, Coming, Held
<1>13. TrxOk(t)' /\ CtxOk(t)' /\ StreamOk(t)'
  <2>1. \A q \in Due(t) : q.id = Now.id /\ q.op \in {Now.op, "error"}
    BY <1>1, <1>2, DueAlike
  <2>2. TrxOk(t)'
    BY <1>2, <1>7, ConstantsAssumption DEF TrxOk, Receiving
  <2>3. CtxOk(t)'
    BY <1>3, <1>6, <1>7 DEF CtxOk, Receiving, Exists
  <2>4. StreamOk(t)'
    BY <1>3, <1>6, <1>7, <1>12, <2>1 DEF StreamOk
  <2> QED
    BY <2>2, <2>3, <2>4
<1>14. ASSUME NEW u \in Transactions, u = was PROVE TrxOk(u)' /\ CtxOk(u)' /\ StreamOk(u)'
  <2>1. /\ trx[u].ctx = s /\ Receiving(u) /\ trx'[u].ctx = None /\ trx'[u].st = trx[u].st
        /\ trx'[u].owner = trx[u].owner /\ trx'[u].last = trx[u].last
    BY <1>2, <1>3, <1>7, <1>14 DEF Receiving
  <2>2. TrxOk(u)'
    BY <2>1, CutTransaction
  <2>3. CtxOk(u)'
    BY <1>2, <2>1 DEF CtxOk
  <2>4. \A q \in Due(u) : q.id # None
    BY <1>3, <2>1 DEF Inv, StreamInv, StreamOk
  <2>5. StreamOk(u)'
    BY <1>2, <1>12, <2>1, <2>4 DEF StreamOk
  <2> QED
    BY <2>2, <2>3, <2>5
<1>15. ASSUME NEW u \in Transactions, u # t, u # was, trx[u].ctx = s
       PROVE  CtxOk(u)' /\ StreamOk(u)'
  <2>1. trx'[u] = trx[u] /\ trx[u].st \in {"get_data", "wait"} /\ cli[s].send = u
        /\ Due(u)' = {}
    BY <1>7, <1>11, <1>12, <1>15
  <2>2. CtxOk(u)'
    BY <1>3, <1>6, <1>15, <2>1 DEF CtxOk, Exists
  <2>3. StreamOk(u)'
    BY <2>1 DEF StreamOk
  <2> QED
    BY <2>2, <2>3
<1>16. (Restarts(s)' <=> Restarts(s)) /\ (Moving(s)' <=> Moving(s))
  BY <1>5, <1>6 DEF Restarts, Moving, Held
<1>17. SessionLinks(s)'
  <2>1. RecvOk(s)'
    BY <1>3, <1>6, <1>7 DEF RecvOk, Receiving
  <2>2. SendOk(s)'
    <3> SUFFICES ASSUME c.send # None PROVE SendOk(s)'
      BY <1>6 DEF SendOk
    <3>1. PICK u \in Transactions : u = c.send
      BY DEF CliType
    <3>2. SendOk(s)
      BY DEF Inv, LinkInv
    <3>3. CASE trx[u].ctx = s /\ trx[u].st \in {"get_data", "wait"}
      <4>1. trx'[u] = trx[u]
        BY <1>2, <1>3, <1>7, <3>3
      <4> QED
        BY <1>6, <3>1, <3>3, <4>1 DEF SendOk
    <3>4. CASE Restarts(s) /\ Moving(s)
      BY <1>5, <1>6, <1>7, <1>16, <3>4 DEF SendOk
    <3> QED
      BY <1>3, <3>1, <3>2, <3>3, <3>4 DEF SendOk
  <2>3. ExecOk(s)'
    BY <1>3, <1>6 DEF ExecOk
  <2>4. StateOk(s)'
    <3>1. StateOk(s)
      BY <1>2 DEF Inv, LinkInv
    <3>2. c.recv # None /\ (Restarts(s) <=> Now.op = "start")
      BY <1>2, <1>3 DEF Restarts, Held
    <3>3. c.st = "uninitialized" => c.op = "start"
      <4> SUFFICES ASSUME c.st = "uninitialized", Now.op # "start" PROVE FALSE
        OBVIOUS
      <4>1. Now.op = "close" /\ was = None
        BY <1>3
      <4> QED
        BY <3>1, <3>2, <4>1 DEF StateOk
    <3>4. c.st = "closing" => Restarts(s) \/ c.op = "close"
      BY <1>3, <3>2
    <3>5. c.st = "ack_start" /\ c.send # None => trx'[c.send].owner = "cloud"
      <4> SUFFICES ASSUME c.st = "ack_start", c.send # None
                   PROVE  trx'[c.send].owner = "cloud"
        OBVIOUS
      <4>1. PICK u \in Transactions : u = c.send
        BY DEF CliType
      <4>2. trx[u].owner = "cloud"
        BY <3>1, <4>1 DEF StateOk
      <4> QED
        BY <1>7, <4>1, <4>2
    <3> QED
      BY <1>6, <1>16, <3>1, <3>2, <3>3, <3>4, <3>5 DEF StateOk
  <2> QED
    BY <2>1, <2>2, <2>3, <2>4 DEF SessionLinks
<1>18. RingInv'
  <2>1. SessionOk(s)'
    BY <1>3, <1>6 DEF SessionOk, Exists, Inv, RingInv
  <2>2. /\ Exists(s) /\ cli'[s].id = cli[s].id /\ cli'[s].st # "free"
        /\ ring' \in {ring, Rotated} /\ s \in Handles \cup {None}
    BY <1>3, <1>6 DEF Exists
  <2> QED
    BY <1>6, <2>1, <2>2, RingKept
<1>19. AppAgrees'
  <2>1. AppOk(s)
    BY DEF Inv, AppAgrees, AppOk
  <2>2. AppOk(s)'
    BY <1>3, <1>5, <1>6, <2>1 DEF AppOk
  <2>3. \A r \in Handles \ {s} : cli'[r] = cli[r] /\ app'[r] = app[r]
    BY <1>6
  <2>4. (pc = "end_response" => cur = s) /\ (pc' = "end_response" => cur' = s)
    BY <1>1, <1>5
  <2> QED
    BY <2>2, <2>3, <2>4, AppKept
<1>20. TypeInv'
  <2>1. pc' \in Pcs
    BY <1>5 DEF Pcs
  <2> QED
    BY <1>5, <1>6, <1>7, <2>1 DEF Inv, TypeInv
<1>21. PcInv'
  BY <1>1, <1>3, <1>5, <1>6, <1>7 DEF PcInv, Handling, Answering, Exists
<1>22. Elsewhere(s, W)
  <2>1. /\ up' = up /\ UNCHANGED <<inbound, conv>> /\ held' \in {held, << >>}
    BY <1>5
  <2>2. \A u \in W : trx[u].ctx \notin Handles \ {s} /\ trx'[u].ctx \notin Handles \ {s}
    BY <1>1, <1>2, <1>3, <1>7, <1>8
  <2> QED
    BY <1>6, <1>8, <1>9, <2>1, <2>2 DEF Elsewhere
<1>23. errorBuf' = errorBuf /\ errorBuf \notin W
  <2>1. ASSUME errorBuf \in W PROVE FALSE
    <3>1. errorBuf # None /\ trx[errorBuf].ctx = None /\ errorBuf = was
      BY <1>2, <1>3, <1>8, <2>1 DEF Inv, StreamInv, ErrorOk
    <3> QED
      BY <1>2, <1>3, <3>1
  <2> QED
    BY <2>1
<1>24. /\ slot' \in Transactions => trx'[slot'].st = "wait"
       /\ \A u \in W : TrxOk(u)'
       /\ \A u \in Transactions : u \in W \/ (s \in Handles /\ trx[u].ctx = s)
                                     => CtxOk(u)' /\ StreamOk(u)'
  <2>1. slot' \in Transactions => trx'[slot'].st = "wait"
    BY <1>8 DEF Inv, TrxInv
  <2>2. \A u \in W : TrxOk(u)'
    BY <1>8, <1>13, <1>14
  <2>3. \A u \in Transactions : u \in W \/ (s \in Handles /\ trx[u].ctx = s)
                                   => CtxOk(u)' /\ StreamOk(u)'
    BY <1>8, <1>13, <1>14, <1>15
  <2> QED
    BY <2>1, <2>2, <2>3
<1> QED
  BY <1>2, <1>8, <1>10, <1>17, <1>18, <1>19, <1>20, <1>21, <1>22, <1>23, <1>24, StepKeeps

\* A first packet for a session that exists.
LEMMA ForSessionKeeps ==
    ASSUME Disciplined, Inv, ForSession
    PROVE  Inv'
<1>1. /\ Starts /\ Known # None /\ pc = "packet" /\ Now.op # "error" /\ Now.first
      /\ trx[T].ctx = None
      /\ UNCHANGED <<ring, errorBuf, slot, app, conv, sent, inbound, connVars>>
  BY DEF ForSession, Starts, Looks, cloudVars
<1>2. /\ Held /\ up /\ Now \in PacketType /\ T \in Transactions
      /\ trx[T].st = "receive" /\ trx[T] \in TrxType
      /\ None \notin Handles /\ None \notin Transactions
  BY <1>1, LookedAt, ConstantsAssumption DEF Receiving
<1>3. PICK s \in Handles, t \in Transactions : s = Known /\ t = T
  BY <1>1, <1>2, KnownSession
<1>4. PICK was \in Transactions \cup {None} : was = cli[s].recv
  BY DEF Inv, TypeInv, CliType
<1>5. /\ Now.op \in {"start", "data", "close"}
      /\ Now.op \in {"data", "close"} => was = None
      /\ was # t
      /\ was # None => trx[was].st = "receive" /\ trx[was].ctx = s
      /\ errorBuf # t
  BY <1>1, <1>3, <1>4, KnownSession DEF Receiving
<1>6. /\ trx \in [Transactions -> TrxType] /\ cli \in [Handles -> CliType] /\ cli[s] \in CliType
      /\ errorBuf \in Transactions \cup {None}
  BY DEF Inv, TypeInv
<1>7. fault' = FALSE
  <2>1. ~Dangles({was})
    BY <1>2, <1>5 DEF Dangles, Live
  <2> QED
    BY <1>3, <1>4, <2>1 DEF ForSession, Inv, TypeInv
<1>8. PICK table \in [Transactions -> TrxType] :
         /\ table = Detach(trx, {was}) /\ table[t] = trx[t]
         /\ \A u \in Transactions : u # was => table[u] = trx[u]
         /\ \A u \in Transactions : u = was =>
               /\ table[u].ctx = None /\ table[u].st = trx[u].st
               /\ table[u].owner = trx[u].owner /\ table[u].last = trx[u].last
  <2>1. \A u \in Transactions : u = was => trx[u].st # "free"
    BY <1>2, <1>5
  <2>2. PICK table \in [Transactions -> TrxType] : table = Detach(trx, {was})
    BY <1>6, DetachIs
  <2>3. \A u \in Transactions :
           /\ table[u].st = trx[u].st /\ table[u].owner = trx[u].owner
           /\ table[u].last = trx[u].last
           /\ u # was => table[u] = trx[u]
           /\ u = was /\ trx[u].st # "free" => table[u].ctx = None
    BY <1>6, <2>2, DetachIs
  <2>4. table[t] = trx[t]
    BY <1>5, <2>3
  <2> QED
    BY <2>1, <2>2, <2>3, <2>4
<1>9. CASE Now.op = "data" /\ cli[s].st # "started"
  <2>1. was = None
    BY <1>5, <1>9
  <2>2. cli' = cli /\ Working(table)
    BY <1>3, <1>4, <1>8, <1>9, <2>1 DEF ForSession
  <2>3. \A r \in Handles : ~Restarts(r)
    BY <1>9 DEF Restarts
  <2>4. /\ {} \in SUBSET Transactions /\ T \notin {} /\ pc # "end_response"
        /\ \A u \in Transactions \ ({} \cup {T}) : table[u] = trx[u]
        /\ table[T] = trx[T] \/ table[T] = [trx[T] EXCEPT !.reply = FALSE]
        /\ \A u \in {} : /\ ~Live(u) /\ trx[u].ctx = None /\ Coming(u) = {}
                         /\ table[u] = OwnTransaction(None) /\ slot # u
        /\ Receiving(T)
    BY <1>1, <1>2, <1>3, <1>8, <2>1 DEF Receiving
  <2>5. /\ errorBuf' \in Transactions \cup {None}
        /\ errorBuf' = errorBuf /\ errorBuf \notin {} \cup {T}
    BY <1>1, <1>3, <1>5, <1>6
  <2>6. UNCHANGED <<cli, ring, slot, app, conv, sent, inbound, connVars>>
    BY <1>1, <2>2
  <2> HIDE DEF Working, Held
  <2> QED
    BY <1>1, <1>2, <1>7, <2>2, <2>3, <2>4, <2>5, <2>6, LooselyTaken
<1>10. CASE Now.op = "data" => cli[s].st = "started"
  <2>1. /\ cli' = [cli EXCEPT ![s].recv = t, ![s].op = Now.op]
        /\ trx' = [table EXCEPT ![t].ctx = s]
        /\ Handle(s)
    BY <1>3, <1>4, <1>5, <1>8, <1>10 DEF ForSession
  <2> DEFINE c == [cli[s] EXCEPT !.recv = t, !.op = Now.op]
  <2>2. /\ c \in CliType /\ c.recv = t /\ c.op = Now.op
        /\ c.st = cli[s].st /\ c.id = cli[s].id /\ c.send = cli[s].send
    BY <1>5, <1>6 DEF CliType, Operations
  <2>3. cli' = [cli EXCEPT ![s] = c]
    BY <1>6, <2>1
  <2> HIDE DEF c
  <2>4. PICK w \in TrxType : w = trx[t]
    BY <1>6
  <2> DEFINE v == [w EXCEPT !.ctx = s]
  <2>5. v \in TrxType /\ v.ctx = s /\ v.st = w.st /\ v.owner = w.owner /\ v.reply = w.reply
    BY DEF TrxType
  <2>6. trx' = [table EXCEPT ![t] = v]
    BY <1>8, <2>1, <2>4
  <2> HIDE DEF v
  <2>7. /\ trx' \in [Transactions -> TrxType] /\ trx'[t] = v
        /\ \A u \in Transactions \ {t} : trx'[u] = table[u]
    BY <2>5, <2>6
  <2>8. /\ trx'[t].ctx = s /\ trx'[t].st = trx[t].st
        /\ trx'[t].owner = trx[t].owner /\ trx'[t].reply = trx[t].reply
    BY <2>4, <2>5, <2>7
  <2>9. \A u \in Transactions \ {t} : u # was => trx'[u] = trx[u]
    BY <1>8, <2>7
  <2>10. \A u \in Transactions \ {t} : u = was =>
            /\ trx'[u].ctx = None /\ trx'[u].st = trx[u].st
            /\ trx'[u].owner = trx[u].owner /\ trx'[u].last = trx[u].last
    <3> TAKE u \in Transactions \ {t}
    <3> HAVE u = was
    <3>1. trx'[u] = table[u]
      BY <2>7
    <3>2. /\ table[u].ctx = None /\ table[u].st = trx[u].st
          /\ table[u].owner = trx[u].owner /\ table[u].last = trx[u].last
      BY <1>8
    <3> QED
      BY <3>1, <3>2
  <2>11. PICK d \in CliType :
            /\ cli' = [cli EXCEPT ![s] = d] /\ d.recv = t /\ d.op = Now.op
            /\ d.st = cli[s].st /\ d.id = cli[s].id /\ d.send = cli[s].send
    BY <2>2, <2>3
  <2>12. Handle(s) /\ trx' \in [Transactions -> TrxType]
    BY <2>1, <2>7
  <2>13. TakesOver(t, s, was, d)
    BY <2>8, <2>9, <2>10, <2>11 DEF TakesOver
  <2> QED
    BY <1>1, <1>3, <1>4, <1>7, <1>10, <2>11, <2>12, <2>13, RequestTakesOver
<1> QED
  BY <1>9, <1>10

\* A started session whose transaction t ends with an error loses its transactions, and is
\* to be closed.
LEMMA SessionInformed ==
    ASSUME Inv, NEW s \in Handles, NEW t \in Transactions, trx[t].ctx = s,
           cli[s].st = "started", \A r \in Handles : ~Restarts(r),
           InformStarted(s, t),
           up' = up, UNCHANGED <<ring, errorBuf, slot, app, conv, inbound>>,
           held' \in {held, << >>}, slot # t, pc # "end_response", pc' # "end_response"
    PROVE  /\ LinkInv' /\ TrxInv' /\ StreamInv' /\ RingInv' /\ AppAgrees' /\ fault' = FALSE
           /\ trx' \in [Transactions -> TrxType] /\ cli' \in [Handles -> CliType]
           /\ trx'[t] = NoTransaction
           /\ \A u \in Transactions \ {t} : trx'[u].st = trx[u].st
           /\ \A u \in Transactions : trx[u].ctx = None => u # t /\ trx'[u] = trx[u]
<1>1. /\ trx \in [Transactions -> TrxType] /\ cli \in [Handles -> CliType] /\ fault = FALSE
      /\ cli[s] \in CliType /\ SendOk(s) /\ SessionOk(s) /\ AppOk(s)
      /\ None \notin Handles /\ None \notin Transactions /\ s # Gone
  BY ConstantsAssumption DEF Inv, TypeInv, LinkInv, RingInv, AppAgrees, AppOk
<1>2. /\ ~Dangles(Pointers(s))
      /\ \A u \in Transactions : u \in Pointers(s) <=> u \in Carriers(s)
  <2>1. cli[s].send # None => trx[cli[s].send].ctx = s
    BY <1>1 DEF SendOk
  <2> QED
    BY <2>1, PointersAre
<1>3. fault' = FALSE
  BY <1>1, <1>2 DEF InformStarted
<1>4. PICK table \in [Transactions -> TrxType] :
         /\ table = Detach(trx, Pointers(s))
         /\ \A u \in Transactions :
              /\ table[u].st = trx[u].st /\ table[u].owner = trx[u].owner
              /\ table[u].last = trx[u].last
              /\ u \notin Carriers(s) => table[u] = trx[u]
              /\ u \in Carriers(s) => table[u].ctx = None
  <2>1. \A u \in Carriers(s) : trx[u].st # "free"
    BY <1>1, NoTransactionIs DEF Carriers, Inv, TrxInv, TrxOk
  <2> QED
    BY <1>1, <1>2, <2>1, DetachIs
<1>5. PICK none \in TrxType : /\ none = NoTransaction /\ none.st = "free" /\ none.ctx = None
                              /\ none.owner = "none"
  BY NoTransactionIs
<1>6. trx' = [table EXCEPT ![t] = none]
  BY <1>4, <1>5 DEF InformStarted
<1>7. /\ trx' \in [Transactions -> TrxType] /\ trx'[t] = none
      /\ \A u \in Transactions \ {t} : trx'[u] = table[u]
  BY <1>6
<1>8. PICK c \in CliType :
         /\ cli' = [cli EXCEPT ![s] = c] /\ c.recv = None /\ c.send = None
         /\ c.st = "pending_error" /\ c.id = cli[s].id /\ c.op = cli[s].op
  <2> DEFINE x == [cli[s] EXCEPT !.recv = None, !.send = None, !.st = "pending_error"]
  <2>1. /\ x \in CliType /\ x.recv = None /\ x.send = None
        /\ x.st = "pending_error" /\ x.id = cli[s].id /\ x.op = cli[s].op
    BY <1>1 DEF CliType, CliStates, Ending
  <2>2. cli' = [cli EXCEPT ![s] = x]
    BY <1>1 DEF InformStarted
  <2> HIDE DEF x
  <2> QED
    BY <2>1, <2>2
<1>9. /\ cli' \in [Handles -> CliType] /\ cli'[s] = c
      /\ \A r \in Handles \ {s} : cli'[r] = cli[r]
  BY <1>1, <1>8
<1>10. Exists(s) /\ cli[s].id # None /\ cli[s].op \notin {"none", "exec"}
  BY <1>1 DEF Exists, SessionOk
<1>11. SessionLinks(s)'
  BY <1>8, <1>9 DEF SessionLinks, RecvOk, SendOk, ExecOk, StateOk
<1>12. ASSUME NEW u \in Carriers(s) PROVE trx'[u].ctx \notin Handles /\ TrxOk(u)'
  <2>1. CASE u = t
    BY <1>1, <1>5, <1>7, <2>1, ConstantsAssumption DEF TrxOk, Receiving
  <2>2. CASE u # t
    <3>1. u \in Transactions /\ trx[u].ctx = s
      BY DEF Carriers
    <3>2. trx'[u].ctx = None /\ trx'[u].st = trx[u].st /\ trx'[u].owner = trx[u].owner
          /\ trx'[u].last = trx[u].last
      BY <1>4, <1>7, <2>2, <3>1
    <3> QED
      BY <1>1, <3>1, <3>2, CutTransaction
  <2> QED
    BY <2>1, <2>2
<1>13. LinkInv' /\ TrxInv' /\ StreamInv'
  <2>1. \A u \in Transactions \ Carriers(s) : trx'[u] = trx[u]
    BY <1>4, <1>7 DEF Carriers
  <2>2. slot' \in Transactions => trx'[slot'].st = "wait"
    <3> SUFFICES ASSUME slot \in Transactions PROVE trx'[slot].st = "wait"
      OBVIOUS
    <3>1. trx'[slot].st = trx[slot].st
      BY <1>4, <1>7
    <3> QED
      BY <3>1 DEF Inv, TrxInv
  <2>3. /\ UNCHANGED <<inbound, conv, errorBuf>>
        /\ \A r \in Handles \ {s} : Restarts(r) => held' = held
        /\ cli[s].id = None => \A u \in Carriers(s) : Due(u)' = {}
    BY <1>10
  <2> QED
    BY <1>9, <1>10, <1>11, <1>12, <2>1, <2>2, <2>3, CutStep
<1>14. RingInv'
  <2>1. SessionOk(s)'
    BY <1>1, <1>8, <1>9, <1>10 DEF SessionOk, Exists
  <2>2. /\ cli'[s].id = cli[s].id /\ cli'[s].st # "free"
        /\ ring' \in {ring, Rotated} /\ s \in Handles \cup {None}
    BY <1>8, <1>9
  <2> QED
    BY <1>9, <1>10, <2>1, <2>2, RingKept
<1>15. AppAgrees'
  <2>1. AppOk(s)'
    BY <1>1, <1>8, <1>9 DEF AppOk
  <2>2. \A r \in Handles \ {s} : cli'[r] = cli[r] /\ app'[r] = app[r]
    BY <1>9
  <2> QED
    BY <2>1, <2>2, AppKept
<1>16. /\ \A u \in Transactions \ {t} : trx'[u].st = trx[u].st
       /\ \A u \in Transactions : trx[u].ctx = None => u # t /\ trx'[u] = trx[u]
  <2>1. \A u \in Transactions \ {t} : trx'[u].st = trx[u].st
    BY <1>4, <1>7
  <2>2. ASSUME NEW u \in Transactions, trx[u].ctx = None PROVE u # t /\ trx'[u] = trx[u]
    <3>1. u # t /\ u \notin Carriers(s)
      BY <1>1, <2>2 DEF Carriers
    <3> QED
      BY <1>4, <1>7, <3>1
  <2> QED
    BY <2>1, <2>2
<1> QED
  BY <1>3, <1>5, <1>7, <1>9, <1>13, <1>14, <1>15, <1>16

\* The error of a request that Device Cloud gave up.
LEMMA ProcessErrorKeeps ==
    ASSUME Disciplined, Inv, ProcessError
    PROVE  Inv'
<1>1. /\ pc = "packet" /\ Now.op = "error"
      /\ UNCHANGED <<ring, errorBuf, slot, app, conv, sent, inbound, connVars>>
      /\ UNCHANGED cloudVars
  BY DEF ProcessError, cloudVars
<1>2. /\ Held /\ up /\ Now \in PacketType /\ T \in Transactions
      /\ trx[T].st = "receive" /\ Receiving(T) /\ StreamOk(T) /\ trx[T] \in TrxType
      /\ Now \in Due(T) /\ None \notin Handles /\ None \notin Transactions
      /\ Now.last /\ up' = up
  BY <1>1, LookedAt, ConstantsAssumption DEF Receiving, PacketType, Proper, connVars
<1>3. PICK t \in Transactions : t = T
  BY <1>2
<1>4. /\ trx \in [Transactions -> TrxType] /\ cli \in [Handles -> CliType] /\ fault = FALSE
      /\ errorBuf \in Transactions \cup {None} /\ slot \in Transactions \cup {None, "error"}
      /\ at \in Transactions \cup {None} /\ cur \in Handles \cup {None}
      /\ slot \in Transactions => trx[slot].st = "wait"
  BY DEF Inv, TypeInv, TrxInv
<1>5. slot # t /\ \A r \in Handles : ~Restarts(r)
  BY <1>1, <1>2, <1>3, <1>4 DEF Restarts
<1>6. CASE trx[T].ctx # None /\ cli[trx[T].ctx].st # "started"
  <2>1. pc' = "end_error" /\ cur' = trx[T].ctx /\ UNCHANGED <<trx, cli, held, at, fault>>
    BY <1>6 DEF ProcessError
  <2>2. cur' \in Handles /\ Exists(cur')
    BY <1>2, <1>6, <2>1, CarriedSession
  <2>3. Held' /\ Now' = Now /\ T' = T /\ trx' = trx /\ cli' = cli
    BY <1>2, <2>1 DEF Held, Now, T
  <2>4. PcInv'
    BY <1>1, <2>1, <2>2, <2>3 DEF PcInv, Handling, Answering, Exists
  <2>5. /\ pc' \in Pcs /\ at' \in Transactions \cup {None} /\ cur' \in Handles \cup {None}
        /\ pc # "end_response" /\ pc' # "end_response" /\ fault' = FALSE
        /\ ring' \in {ring, Rotated}
    BY <1>1, <1>4, <2>1, <2>2 DEF Pcs
  <2>6. Held /\ Now.op = "start" /\ pc' \notin Handling => trx[T].ctx = None
    BY <1>1
  <2> QED
    BY <1>1, <1>2, <2>1, <2>4, <2>5, <2>6, QuietKeeps
<1>7. CASE trx[T].ctx = None
  <2>1. /\ trx' = [trx EXCEPT ![T] = NoTransaction] /\ cli' = cli /\ fault' = FALSE
        /\ held' = << >> /\ pc' = "sessions" /\ at' = at /\ cur' = cur
    BY <1>4, <1>7 DEF ProcessError, callVars
  <2>2. PICK none \in TrxType : /\ none = NoTransaction /\ none.st = "free"
                                /\ none.ctx = None /\ none.owner = "none"
    BY NoTransactionIs
  <2>3. /\ trx' \in [Transactions -> TrxType] /\ trx'[t] = none
        /\ \A u \in Transactions \ {t} : trx'[u] = trx[u]
    BY <1>3, <1>4, <2>1, <2>2
  <2>4. PacketInv' /\ HeldInv'
    <3>1. /\ \A u \in Transactions : u # T => (Receiving(u)' <=> Receiving(u))
          /\ trx'[T].st = "receive" <=> ~Now.last
          /\ \A u \in Transactions : Live(u)' => Live(u) \/ Coming(u) = {}
      BY <1>2, <1>3, <2>2, <2>3 DEF Receiving, Live
    <3>2. TypeInv /\ PacketInv /\ HeldInv
      BY DEF Inv
    <3> QED
      BY <1>1, <1>2, <2>1, <3>1, <3>2, PacketTaken
  <2>5. TrxOk(t)'
    BY <2>2, <2>3, ConstantsAssumption DEF TrxOk, Receiving
  <2>6. errorBuf # t
    <3>1. Now.id # None
      BY <1>1, <1>2, <1>7 DEF StreamOk
    <3> QED
      BY <1>2, <1>3, <3>1 DEF Inv, StreamInv, ErrorOk, Receiving
  <2>7. /\ {t} \in SUBSET Transactions /\ \A u \in Transactions \ {t} : trx'[u] = trx[u]
        /\ \A u \in {t} : trx[u].ctx \notin Handles /\ trx'[u].ctx \notin Handles
        /\ \A u \in {t} : TrxOk(u)'
        /\ \A r \in Handles : Restarts(r) => held' = held /\ T \notin {t}
    BY <1>2, <1>3, <1>5, <1>7, <2>2, <2>3, <2>5
  <2>8. slot' \in Transactions => trx'[slot'].st = "wait"
    BY <1>1, <1>4, <1>5, <2>3
  <2>9. /\ errorBuf' = errorBuf /\ errorBuf \notin {t} /\ held' \in {held, << >>}
        /\ errorBuf' \in Transactions \cup {None} /\ slot' \in Transactions \cup {None, "error"}
        /\ pc' \in {"sessions", "step"} /\ pc # "end_response"
        /\ at' \in Transactions \cup {None} /\ cur' \in Handles \cup {None}
    BY <1>1, <1>4, <2>1, <2>6
  <2>10. UNCHANGED <<cli, ring, app, conv, sent, inbound, connVars>> /\ fault' = FALSE
    BY <1>1, <2>1
  <2> QED
    BY <1>2, <2>3, <2>4, <2>7, <2>8, <2>9, <2>10, LooseStepKeeps
<1>8. CASE trx[T].ctx # None /\ cli[trx[T].ctx].st = "started"
  <2>1. PICK s \in Handles : s = trx[T].ctx
    BY <1>2, <1>8, CarriedSession
  <2>2. /\ InformStarted(s, t)
        /\ held' = << >> /\ pc' = "sessions" /\ at' = at /\ cur' = cur
    BY <1>3, <1>8, <2>1 DEF ProcessError, callVars
  <2>3. /\ trx[t].ctx = s /\ cli[s].st = "started" /\ held' \in {held, << >>}
        /\ pc # "end_response" /\ pc' # "end_response"
        /\ UNCHANGED <<ring, errorBuf, slot, app, conv, inbound>>
    BY <1>1, <1>3, <1>8, <2>1, <2>2
  <2>4. /\ LinkInv' /\ TrxInv' /\ StreamInv' /\ RingInv' /\ AppAgrees' /\ fault' = FALSE
        /\ trx' \in [Transactions -> TrxType] /\ cli' \in [Handles -> CliType]
        /\ trx'[t] = NoTransaction
        /\ \A u \in Transactions \ {t} : trx'[u].st = trx[u].st
    BY <1>2, <1>5, <2>2, <2>3, SessionInformed
  <2>5. PacketInv' /\ HeldInv'
    <3>1. /\ \A u \in Transactions : u # T => (Receiving(u)' <=> Receiving(u))
          /\ trx'[T].st = "receive" <=> ~Now.last
          /\ \A u \in Transactions : Live(u)' => Live(u) \/ Coming(u) = {}
      BY <1>2, <1>3, <2>4, NoTransactionIs DEF Receiving, Live
    <3>2. TypeInv /\ PacketInv /\ HeldInv
      BY DEF Inv
    <3> QED
      BY <1>1, <1>2, <2>2, <3>1, <3>2, PacketTaken
  <2>6. TypeInv'
    <3>1. pc' \in Pcs
      BY <2>2 DEF Pcs
    <3> QED
      BY <1>1, <1>2, <1>4, <2>2, <2>4, <3>1 DEF Inv, TypeInv
  <2>7. PcInv' /\ DownInv'
    BY <1>2, <2>2 DEF PcInv, Handling, Answering, DownInv
  <2> QED
    BY <2>4, <2>5, <2>6, <2>7 DEF Inv
<1> QED
  BY <1>6, <1>7, <1>8

-----------------------------------------------------------------------------
\* The transactions of a session that is removed: they lose it, but for the one of a
\* command, which keeps a pointer to what was freed.
LEMMA RemovedIs ==
    ASSUME Inv, NEW s \in Handles, s = cur, Exists(s),
           cli[s].st # "execute_command" /\ cli[s].send # None => trx[cli[s].send].ctx = s
    PROVE  /\ ~Dangles(PointersToClear(cur))
           /\ Removed \in [Transactions -> TrxType]
           /\ \A u \in Transactions :
                /\ Removed[u].st = trx[u].st /\ Removed[u].owner = trx[u].owner
                /\ Removed[u].last = trx[u].last /\ Removed[u].reply = trx[u].reply
                /\ u \notin Carriers(s) => Removed[u] = trx[u]
                /\ u \in Carriers(s) =>
                      Removed[u].ctx = IF cli[s].st = "execute_command" THEN Gone ELSE None
<1>1. /\ trx \in [Transactions -> TrxType] /\ s # None
      /\ \A u \in Carriers(s) : trx[u].st # "free"
  <2>1. None \notin Handles
    BY ConstantsAssumption
  <2> QED
    BY <2>1, NoTransactionIs DEF Carriers, Inv, TypeInv, TrxInv, TrxOk
<1>2. CASE cli[s].st # "execute_command"
  <2>1. /\ ~Dangles(Pointers(s)) /\ \A u \in Transactions : u \in Pointers(s) <=> u \in Carriers(s)
    BY <1>2, PointersAre
  <2>2. PointersToClear(cur) = Pointers(s) /\ Removed = Detach(trx, Pointers(s))
    BY <1>2 DEF PointersToClear, Removed
  <2> QED
    BY <1>1, <1>2, <2>1, <2>2, DetachIs
<1>3. CASE cli[s].st = "execute_command"
  <2>1. Removed = [u \in Transactions |-> IF trx[u].ctx = s THEN [trx[u] EXCEPT !.ctx = Gone]
                                                            ELSE trx[u]]
    BY <1>3 DEF Removed
  <2>2. ASSUME NEW u \in Transactions
        PROVE  /\ [trx[u] EXCEPT !.ctx = Gone] \in TrxType
               /\ [trx[u] EXCEPT !.ctx = Gone].st = trx[u].st
               /\ [trx[u] EXCEPT !.ctx = Gone].owner = trx[u].owner
               /\ [trx[u] EXCEPT !.ctx = Gone].last = trx[u].last
               /\ [trx[u] EXCEPT !.ctx = Gone].reply = trx[u].reply
               /\ [trx[u] EXCEPT !.ctx = Gone].ctx = Gone
               /\ trx[u] \in TrxType /\ (u \in Carriers(s) <=> trx[u].ctx = s)
    BY <1>1 DEF TrxType, Carriers
  <2>3. ~Dangles(PointersToClear(cur))
    BY <1>3 DEF PointersToClear, Dangles
  <2> QED
    BY <1>1, <1>3, <2>1, <2>2, <2>3
<1> QED
  BY <1>2, <1>3

\* A session is removed.
LEMMA SessionRemoved ==
    ASSUME Inv, NEW s \in Handles, Exists(s), Free(s), EndsInApp(s),
           up' = up, UNCHANGED <<inbound, conv, errorBuf>>, held' \in {held, << >>},
           \A u \in Transactions \ Carriers(s) : trx'[u] = trx[u],
           \A u \in Carriers(s) : trx'[u].ctx \notin Handles /\ TrxOk(u)',
           \A r \in Handles \ {s} : Restarts(r) => held' = held,
           cli[s].id = None => \A u \in Carriers(s) : Due(u)' = {},
           slot' \in Transactions => trx'[slot'].st = "wait",
           pc = "end_response" => cur = s, pc' # "end_response"
    PROVE  /\ LinkInv' /\ TrxInv' /\ StreamInv' /\ RingInv' /\ AppAgrees'
           /\ ring' \in Seq(Handles) /\ cli' \in [Handles -> CliType]
           /\ app' \in [Handles -> AppType]
<1>1. /\ RingInv' /\ ring' \in Seq(Handles) /\ cli' \in [Handles -> CliType]
      /\ cli'[s] = NoSession /\ \A r \in Handles \ {s} : cli'[r] = cli[r]
  BY SessionFreed
<1>2. /\ cli'[s].st = "free" /\ cli'[s].recv = None /\ cli'[s].send = None
  BY <1>1, NoSessionIs
<1>3. SessionLinks(s)'
  BY <1>2 DEF SessionLinks, RecvOk, SendOk, ExecOk, StateOk
<1>4. LinkInv' /\ TrxInv' /\ StreamInv'
  BY <1>1, <1>3, CutStep
<1>5. /\ app' \in [Handles -> AppType] /\ app'[s].is = "none"
      /\ \A r \in Handles \ {s} : app'[r] = app[r]
  <2>1. Unknown \in AppType /\ Unknown.is = "none"
    BY DEF Unknown, AppType, Words
  <2>2. app \in [Handles -> AppType] /\ app' = [app EXCEPT ![s] = Unknown]
    BY DEF Inv, TypeInv, EndsInApp
  <2> QED
    BY <2>1, <2>2
<1>6. AppAgrees'
  <2>1. AppOk(s)'
    BY <1>2, <1>5 DEF AppOk
  <2>2. \A r \in Handles \ {s} : cli'[r] = cli[r] /\ app'[r] = app[r]
    BY <1>1, <1>5
  <2> QED
    BY <2>1, <2>2, AppKept
<1> QED
  BY <1>1, <1>4, <1>5, <1>6

\* Device Cloud closed the session, and the application ended it.
LEMMA EndAfterCloseKeeps ==
    ASSUME Disciplined, Inv, EndAfterClose
    PROVE  Inv'
<1>1. /\ pc = "end_close" /\ Free(cur) /\ EndsInApp(cur) /\ Working(Removed)
      /\ UNCHANGED <<errorBuf, slot, conv, sent, inbound>> /\ up' = up
      /\ fault' = (fault \/ Dangles(PointersToClear(cur)))
  BY DEF EndAfterClose, CloseSession, EndsInApp, connVars
<1>2. /\ Held /\ up /\ Now \in PacketType /\ T \in Transactions
      /\ cur \in Handles /\ Exists(cur) /\ trx[T].ctx = cur /\ trx[T].st = "receive"
      /\ Now.op = "close" /\ Now.last /\ ~trx[T].reply /\ cli[cur].st # "execute_command"
      /\ None \notin Transactions /\ None \notin Handles
      /\ \A r \in Handles \ {cur} : ~Restarts(r)
  BY <1>1, HandledPacket DEF Handling, Inv, PcInv
<1>3. PICK s \in Handles, t \in Transactions : s = cur /\ t = T
  BY <1>2
<1>4. /\ cli[s].id # None
      /\ cli[s].send # None => trx[cli[s].send].ctx = s
      /\ fault = FALSE /\ at \in Transactions \cup {None} /\ TypeInv
      /\ slot \in Transactions => trx[slot].st = "wait"
  BY <1>2, <1>3 DEF Inv, RingInv, SessionOk, LinkInv, SendOk, Restarts, TypeInv, TrxInv
<1>5. PICK table \in [Transactions -> TrxType] :
         /\ table = Removed /\ ~Dangles(PointersToClear(cur))
         /\ \A u \in Transactions :
              /\ table[u].st = trx[u].st /\ table[u].owner = trx[u].owner
              /\ table[u].last = trx[u].last /\ table[u].reply = trx[u].reply
              /\ u \notin Carriers(s) => table[u] = trx[u]
              /\ u \in Carriers(s) => table[u].ctx = None
  <2>1. cli[s].st # "execute_command" /\ Exists(s)
    BY <1>2, <1>3
  <2> QED
    BY <1>3, <1>4, <2>1, RemovedIs
<1>6. t \in Carriers(s)
  BY <1>2, <1>3 DEF Carriers
<1>7. /\ held' = << >> /\ pc' = "sessions" /\ cur' = None /\ at' = at
      /\ trx' \in [Transactions -> TrxType]
      /\ \A u \in Transactions \ {t} : trx'[u] = table[u]
      /\ trx'[t].ctx = None /\ trx'[t].st = "delete"
  <2>1. Working(table) /\ Held
    BY <1>1, <1>2, <1>5
  <2>2. /\ held' = << >> /\ pc' = "sessions" /\ cur' = None /\ at' = at
        /\ trx' \in [Transactions -> TrxType]
        /\ \A u \in Transactions \ {T} : trx'[u] = table[u]
        /\ trx'[T].ctx = table[T].ctx
        /\ Now.last => trx'[T].st = IF table[T].reply THEN "get_data" ELSE "delete"
    BY <1>4, <2>1, WorkingIs
  <2>3. table[t].ctx = None /\ ~table[t].reply
    BY <1>2, <1>3, <1>5, <1>6
  <2> QED
    BY <1>2, <1>3, <2>2, <2>3
<1>8. fault' = FALSE
  BY <1>1, <1>4, <1>5
<1>9. \A u \in Carriers(s) : trx'[u].ctx \notin Handles /\ TrxOk(u)'
  <2> TAKE u \in Carriers(s)
  <2>1. CASE u = t
    BY <1>2, <1>7, <2>1, ConstantsAssumption DEF TrxOk, Receiving
  <2>2. CASE u # t
    <3>1. u \in Transactions /\ trx[u].ctx = s
      BY DEF Carriers
    <3>2. trx'[u].ctx = None /\ trx'[u].st = trx[u].st /\ trx'[u].owner = trx[u].owner
          /\ trx'[u].last = trx[u].last
      BY <1>5, <1>7, <2>2, <3>1
    <3> QED
      BY <1>2, <3>1, <3>2, CutTransaction
  <2> QED
    BY <2>1, <2>2
<1>10. slot' \in Transactions => trx'[slot'].st = "wait"
  BY <1>1, <1>2, <1>3, <1>4, <1>5, <1>7
<1>11. /\ LinkInv' /\ TrxInv' /\ StreamInv' /\ RingInv' /\ AppAgrees'
       /\ ring' \in Seq(Handles) /\ cli' \in [Handles -> CliType]
       /\ app' \in [Handles -> AppType]
  <2>1. \A u \in Transactions \ Carriers(s) : trx'[u] = trx[u]
    BY <1>5, <1>6, <1>7
  <2>2. /\ Exists(s) /\ Free(s) /\ EndsInApp(s) /\ up' = up
        /\ UNCHANGED <<inbound, conv, errorBuf>> /\ held' \in {held, << >>}
        /\ \A r \in Handles \ {s} : Restarts(r) => held' = held
        /\ cli[s].id = None => \A u \in Carriers(s) : Due(u)' = {}
        /\ pc = "end_response" => cur = s
        /\ pc' # "end_response"
    BY <1>1, <1>2, <1>3, <1>4, <1>7
  <2> QED
    BY <1>9, <1>10, <2>1, <2>2, SessionRemoved
<1>12. PacketInv' /\ HeldInv'
  <2>1. /\ \A u \in Transactions : u # T => (Receiving(u)' <=> Receiving(u))
        /\ trx'[T].st = "receive" <=> ~Now.last
        /\ \A u \in Transactions : Live(u)' => Live(u) \/ Coming(u) = {}
    BY <1>2, <1>3, <1>5, <1>7 DEF Receiving, Live
  <2>2. TypeInv /\ PacketInv /\ HeldInv
    BY DEF Inv
  <2> QED
    BY <1>1, <1>2, <1>7, <2>1, <2>2, PacketTaken
<1>13. TypeInv'
  <2>1. pc' \in Pcs
    BY <1>7 DEF Pcs
  <2> QED
    BY <1>1, <1>4, <1>7, <1>8, <1>11, <2>1 DEF TypeInv
<1>14. PcInv' /\ DownInv'
  BY <1>1, <1>2, <1>7 DEF PcInv, Handling, Answering, DownInv
<1> QED
  BY <1>11, <1>12, <1>13, <1>14 DEF Inv

\* Device Cloud gave up, and the application ended the session.
LEMMA EndAfterErrorKeeps ==
    ASSUME Disciplined, Inv, EndAfterError
    PROVE  Inv'
<1>1. /\ pc = "end_error" /\ Free(cur) /\ EndsInApp(cur)
      /\ trx' = [Removed EXCEPT ![T] = NoTransaction]
      /\ held' = << >> /\ pc' = "sessions" /\ cur' = None /\ at' = at
      /\ UNCHANGED <<errorBuf, slot, conv, sent, inbound>> /\ up' = up
      /\ fault' = (fault \/ Dangles(PointersToClear(cur)))
  BY DEF EndAfterError, CloseSession, EndsInApp, connVars
<1>2. /\ Held /\ up /\ Now \in PacketType /\ T \in Transactions
      /\ cur \in Handles /\ Exists(cur) /\ trx[T].ctx = cur /\ trx[T].st = "receive"
      /\ Now.op = "error" /\ Now.last /\ None \notin Transactions /\ None \notin Handles
      /\ Coming(T) = {}
  <2>1. /\ Held /\ cur \in Handles /\ Exists(cur) /\ trx[T].ctx = cur /\ Now.op = "error"
    BY <1>1 DEF Inv, PcInv, Handling
  <2>2. Now \in PacketType /\ T \in Transactions /\ up
    BY <2>1, HeldPacket, StillUp DEF Inv
  <2>3. Now.last
    BY <2>1, <2>2 DEF PacketType, Proper
  <2> QED
    BY <2>1, <2>2, <2>3, ConstantsAssumption DEF Inv, HeldInv, Receiving
<1>3. PICK s \in Handles, t \in Transactions : s = cur /\ t = T
  BY <1>2
<1>4. /\ SessionOk(s) /\ SendOk(s) /\ ExecOk(s) /\ TypeInv
      /\ fault = FALSE /\ at \in Transactions \cup {None}
      /\ slot \in Transactions => trx[slot].st = "wait"
      /\ \A r \in Handles : ~Restarts(r)
  BY <1>2 DEF Inv, RingInv, LinkInv, TypeInv, TrxInv, Restarts
<1>5. PICK table \in [Transactions -> TrxType] :
         /\ table = Removed /\ ~Dangles(PointersToClear(cur))
         /\ \A u \in Transactions :
              /\ table[u].st = trx[u].st /\ table[u].owner = trx[u].owner
              /\ table[u].last = trx[u].last /\ table[u].reply = trx[u].reply
              /\ u \notin Carriers(s) => table[u] = trx[u]
              /\ u \in Carriers(s) =>
                    table[u].ctx = IF cli[s].st = "execute_command" THEN Gone ELSE None
  <2>1. /\ Exists(s)
        /\ cli[s].st # "execute_command" /\ cli[s].send # None => trx[cli[s].send].ctx = s
    BY <1>2, <1>3, <1>4 DEF SendOk
  <2> QED
    BY <1>3, <2>1, RemovedIs
<1>6. /\ t \in Carriers(s)
      /\ cli[s].st = "execute_command" => \A u \in Carriers(s) : u = t
  BY <1>2, <1>3, <1>4 DEF Carriers, ExecOk
<1>7. PICK none \in TrxType : /\ none = NoTransaction /\ none.st = "free"
                              /\ none.ctx = None /\ none.owner = "none"
  BY NoTransactionIs
<1>8. /\ trx' \in [Transactions -> TrxType] /\ trx'[t] = none
      /\ \A u \in Transactions \ {t} : trx'[u] = table[u]
  <2>1. trx' = [table EXCEPT ![t] = none]
    BY <1>1, <1>3, <1>5, <1>7
  <2> QED
    BY <2>1
<1>9. fault' = FALSE
  BY <1>1, <1>4, <1>5
<1>10. \A u \in Carriers(s) : trx'[u].ctx \notin Handles /\ TrxOk(u)'
  <2> TAKE u \in Carriers(s)
  <2>1. CASE u = t
    BY <1>2, <1>7, <1>8, <2>1, ConstantsAssumption DEF TrxOk, Receiving
  <2>2. CASE u # t
    <3>1. u \in Transactions /\ trx[u].ctx = s
      BY DEF Carriers
    <3>2. trx'[u].ctx = None /\ trx'[u].st = trx[u].st /\ trx'[u].owner = trx[u].owner
          /\ trx'[u].last = trx[u].last
      BY <1>5, <1>6, <1>8, <2>2, <3>1
    <3> QED
      BY <1>2, <3>1, <3>2, CutTransaction
  <2> QED
    BY <2>1, <2>2
<1>11. slot' \in Transactions => trx'[slot'].st = "wait"
  BY <1>1, <1>2, <1>3, <1>4, <1>5, <1>8
<1>12. cli[s].id = None => \A u \in Carriers(s) : Due(u)' = {}
  <2>1. cli[s].id = None => cli[s].st = "execute_command"
    BY <1>2, <1>3, <1>4 DEF SessionOk
  <2>2. Due(t)' = {}
    BY <1>1, <1>2, <1>3 DEF Due, Coming, Held
  <2> QED
    BY <1>6, <2>1, <2>2
<1>13. /\ LinkInv' /\ TrxInv' /\ StreamInv' /\ RingInv' /\ AppAgrees'
       /\ ring' \in Seq(Handles) /\ cli' \in [Handles -> CliType]
       /\ app' \in [Handles -> AppType]
  <2>1. \A u \in Transactions \ Carriers(s) : trx'[u] = trx[u]
    BY <1>5, <1>6, <1>8
  <2>2. /\ Exists(s) /\ Free(s) /\ EndsInApp(s) /\ up' = up
        /\ UNCHANGED <<inbound, conv, errorBuf>> /\ held' \in {held, << >>}
        /\ \A r \in Handles \ {s} : Restarts(r) => held' = held
        /\ pc = "end_response" => cur = s
        /\ pc' # "end_response"
    BY <1>1, <1>2, <1>3, <1>4
  <2> QED
    BY <1>10, <1>11, <1>12, <2>1, <2>2, SessionRemoved
<1>14. PacketInv' /\ HeldInv'
  <2>1. /\ \A u \in Transactions : u # T => (Receiving(u)' <=> Receiving(u))
        /\ trx'[T].st = "receive" <=> ~Now.last
        /\ \A u \in Transactions : Live(u)' => Live(u) \/ Coming(u) = {}
    BY <1>2, <1>3, <1>5, <1>7, <1>8 DEF Receiving, Live
  <2>2. TypeInv /\ PacketInv /\ HeldInv
    BY DEF Inv
  <2> QED
    BY <1>1, <1>2, <2>1, <2>2, PacketTaken
<1>15. TypeInv'
  <2>1. pc' \in Pcs
    BY <1>1 DEF Pcs
  <2> QED
    BY <1>1, <1>4, <1>8, <1>9, <1>13, <2>1 DEF TypeInv
<1>16. PcInv' /\ DownInv'
  BY <1>1, <1>2 DEF PcInv, Handling, Answering, DownInv
<1> QED
  BY <1>13, <1>14, <1>15, <1>16 DEF Inv

\* The session is removed, and the last packet of its transaction leaves.
LEMMA EndWithResponseKeeps ==
    ASSUME Disciplined, Inv, EndWithResponse
    PROVE  Inv'
<1> DEFINE answer == [Removed EXCEPT ![at].reply = (@ /\ trx[at].owner = "cloud")]
<1>1. /\ pc = "end_response" /\ Free(cur) /\ EndsInApp(cur) /\ Send(answer, at, TRUE)
      /\ UNCHANGED <<errorBuf, held, conv, sent, inbound>> /\ up' = up
      /\ fault' = (fault \/ Dangles(PointersToClear(cur)))
  BY DEF EndWithResponse, CloseSession, EndsInApp, connVars
<1>2. /\ up /\ at \in Transactions /\ cur \in Handles /\ trx[at].ctx = cur
      /\ trx[at].st = "get_data" /\ cli[cur].send = at /\ Exists(cur)
      /\ None \notin Handles /\ None \notin Transactions /\ None # Gone /\ Gone \notin Handles
  BY <1>1, AnsweringSession, ConstantsAssumption DEF Answering
<1>3. PICK s \in Handles, t \in Transactions : s = cur /\ t = at
  BY <1>2
<1>4. /\ SessionOk(s) /\ ExecOk(s) /\ TypeInv /\ fault = FALSE
      /\ trx \in [Transactions -> TrxType]
  BY DEF Inv, RingInv, LinkInv, TypeInv
<1>5. PICK table \in [Transactions -> TrxType] :
         /\ table = Removed /\ ~Dangles(PointersToClear(cur))
         /\ \A u \in Transactions :
              /\ table[u].st = trx[u].st /\ table[u].owner = trx[u].owner
              /\ table[u].last = trx[u].last /\ table[u].reply = trx[u].reply
              /\ u \notin Carriers(s) => table[u] = trx[u]
              /\ u \in Carriers(s) =>
                    table[u].ctx = IF cli[s].st = "execute_command" THEN Gone ELSE None
  <2>1. /\ Exists(s)
        /\ cli[s].st # "execute_command" /\ cli[s].send # None => trx[cli[s].send].ctx = s
    BY <1>2, <1>3
  <2> QED
    BY <1>3, <2>1, RemovedIs
<1>6. /\ t \in Carriers(s)
      /\ cli[s].st = "execute_command" => \A u \in Carriers(s) : u = t
  BY <1>2, <1>3, <1>4 DEF Carriers, ExecOk
<1>7. PICK v \in TrxType :
         /\ trx' \in [Transactions -> TrxType] /\ trx'[t] = v
         /\ \A u \in Transactions \ {t} : trx'[u] = table[u]
         /\ v.st = "wait" /\ v.last /\ v.ctx = table[t].ctx
         /\ v.owner = "client" => ~v.reply
         /\ slot' = t /\ pc' = "step" /\ at' = None /\ cur' = None
  <2>1. PICK w \in TrxType : w = table[t]
    OBVIOUS
  <2>2. PICK x \in TrxType : x = [w EXCEPT !.reply = (w.reply /\ trx[t].owner = "cloud")]
    <3>1. (w.reply /\ trx[t].owner = "cloud") \in BOOLEAN
      OBVIOUS
    <3> QED
      BY <3>1 DEF TrxType
  <2>3. answer = [table EXCEPT ![t] = x]
    BY <1>3, <1>5, <2>1, <2>2
  <2>4. x.owner = w.owner /\ x.ctx = w.ctx /\ (x.owner = "client" => ~x.reply)
    <3>1. w.owner = trx[t].owner
      BY <1>5, <2>1
    <3>2. x.owner = w.owner /\ x.ctx = w.ctx
      BY <2>2 DEF TrxType
    <3>3. x.reply = (w.reply /\ trx[t].owner = "cloud")
      BY <2>2 DEF TrxType
    <3>4. x.owner = "client" => trx[t].owner # "cloud"
      BY <3>1, <3>2
    <3> QED
      BY <3>2, <3>3, <3>4
  <2> HIDE DEF answer
  <2>5. /\ trx' = [answer EXCEPT ![t].st = "wait", ![t].fresh = FALSE, ![t].last = TRUE]
        /\ slot' = t /\ pc' = "step" /\ at' = None /\ cur' = None
    BY <1>1, <1>3 DEF Send, EndRound
  <2> DEFINE y == [x EXCEPT !.st = "wait", !.fresh = FALSE, !.last = TRUE]
  <2>6. /\ y \in TrxType /\ y.st = "wait" /\ y.last /\ y.ctx = x.ctx /\ y.owner = x.owner
        /\ y.reply = x.reply
    BY DEF TrxType, TrxStates
  <2>7. trx' = [table EXCEPT ![t] = y]
    BY <2>3, <2>5
  <2> HIDE DEF y
  <2>8. /\ trx' \in [Transactions -> TrxType] /\ trx'[t] = y
        /\ \A u \in Transactions \ {t} : trx'[u] = table[u]
    BY <2>6, <2>7
  <2>9. y.ctx = table[t].ctx /\ (y.owner = "client" => ~y.reply)
    BY <2>1, <2>4, <2>6
  <2> QED
    BY <2>5, <2>6, <2>8, <2>9
<1> HIDE DEF answer
<1>8. fault' = FALSE
  BY <1>1, <1>4, <1>5
<1>9. \A u \in Carriers(s) : trx'[u].ctx \notin Handles /\ TrxOk(u)'
  <2> TAKE u \in Carriers(s)
  <2>1. CASE u = t
    <3>1. v.ctx \in {None, Gone} /\ up'
      BY <1>1, <1>2, <1>5, <1>6, <1>7
    <3> QED
      BY <1>2, <1>7, <2>1, <3>1 DEF TrxOk, Receiving
  <2>2. CASE u # t
    <3>1. u \in Transactions /\ trx[u].ctx = s
      BY DEF Carriers
    <3>2. trx'[u].ctx = None /\ trx'[u].st = trx[u].st /\ trx'[u].owner = trx[u].owner
          /\ trx'[u].last = trx[u].last
      BY <1>5, <1>6, <1>7, <2>2, <3>1
    <3> QED
      BY <1>2, <3>1, <3>2, CutTransaction
  <2> QED
    BY <2>1, <2>2
<1>10. cli[s].id = None => \A u \in Carriers(s) : Due(u)' = {}
  <2>1. cli[s].id = None => cli[s].st = "execute_command"
    BY <1>2, <1>3, <1>4 DEF SessionOk
  <2>2. Due(t) = {}
    BY <1>2, <1>3, NothingDue DEF Live, Receiving
  <2>3. Due(t)' = {}
    BY <1>1, <2>2 DEF Due, Coming, Held, Now, T
  <2> QED
    BY <1>6, <2>1, <2>3
<1>11. /\ LinkInv' /\ TrxInv' /\ StreamInv' /\ RingInv' /\ AppAgrees'
       /\ ring' \in Seq(Handles) /\ cli' \in [Handles -> CliType]
       /\ app' \in [Handles -> AppType]
  <2>1. \A u \in Transactions \ Carriers(s) : trx'[u] = trx[u]
    BY <1>5, <1>6, <1>7
  <2>2. /\ Exists(s) /\ Free(s) /\ EndsInApp(s) /\ up' = up
        /\ UNCHANGED <<inbound, conv, errorBuf>> /\ held' \in {held, << >>}
        /\ \A r \in Handles \ {s} : Restarts(r) => held' = held
        /\ slot' \in Transactions => trx'[slot'].st = "wait"
        /\ pc = "end_response" => cur = s
        /\ pc' # "end_response"
    BY <1>1, <1>2, <1>3, <1>7
  <2> QED
    BY <1>9, <1>10, <2>1, <2>2, SessionRemoved
<1>12. PacketInv' /\ HeldInv'
  <2>1. \A u \in Transactions : (Receiving(u)' <=> Receiving(u)) /\ (Live(u)' => Live(u))
    BY <1>2, <1>3, <1>5, <1>7 DEF Receiving, Live
  <2>2. Held => T \in Transactions /\ T # t
    BY <1>2, <1>3, HeldPacket DEF Inv, HeldInv, Receiving
  <2>3. Held /\ Now.first /\ Now.op \in {"start", "exec"} /\ trx[T].reply => trx'[T].reply
    BY <1>5, <1>7, <2>2
  <2>4. Held /\ Now.op = "start" /\ pc' \notin Handling => trx'[T].ctx = None
    <3> SUFFICES ASSUME Held, Now.op = "start" PROVE trx'[T].ctx = None
      OBVIOUS
    <3>1. trx[T].ctx = None
      BY <1>1, StartWaits DEF Handling
    <3>2. T \notin Carriers(s)
      BY <1>2, <3>1 DEF Carriers
    <3> QED
      BY <1>5, <1>7, <2>2, <3>1, <3>2
  <2>5. TypeInv /\ PacketInv /\ HeldInv
    BY DEF Inv
  <2> QED
    BY <1>1, <2>1, <2>3, <2>4, <2>5, PacketsKept
<1>13. TypeInv'
  <2>1. pc' \in Pcs
    BY <1>7 DEF Pcs
  <2> QED
    BY <1>1, <1>4, <1>7, <1>8, <1>11, <2>1 DEF TypeInv
<1>14. PcInv' /\ DownInv'
  BY <1>1, <1>2, <1>7 DEF PcInv, Handling, Answering, DownInv
<1> QED
  BY <1>11, <1>12, <1>13, <1>14 DEF Inv

-----------------------------------------------------------------------------
\* What is left on its way is gone when the connection is lost; the sessions and their
\* transactions stay as they are until they are cleaned up.
LEMMA LoseKeeps ==
    ASSUME Disciplined, Inv, Lose
    PROVE  Inv'
<1>1. /\ pc = "step" /\ up
      /\ \A t \in Transactions : trx[t].ctx # Gone
      /\ \A s \in Handles : \A t \in Pointers(s) \ {None} : trx[t].ctx = s
      /\ up' = FALSE /\ slot' = None /\ held' = << >> /\ inbound' = << >>
      /\ conv' = [t \in Transactions |-> << >>] /\ sent' = [id \in Ids |-> 0]
      /\ UNCHANGED <<trx, cli, ring, errorBuf, pc, at, cur, app, fault>>
  BY DEF Disciplined, Lose, callVars
<1>2. None \notin Transactions /\ None \notin Handles
  BY ConstantsAssumption
<1>3. /\ ~Held' /\ inbound' \in Seq(PacketType) /\ Len(inbound') = 0
      /\ \A t \in Transactions : conv'[t] = << >> /\ Len(conv'[t]) = 0
      /\ conv' \in [Transactions -> Seq(PacketType)] /\ sent' \in [Ids -> Nat]
  BY <1>1 DEF Held
<1>4. \A t \in Transactions : Coming(t)' = {} /\ Due(t)' = {}
  BY <1>3 DEF Coming, Due, Elements
<1>5. TypeInv'
  BY <1>1, <1>3 DEF Inv, TypeInv
<1>6. RingInv' /\ AppAgrees'
  BY <1>1 DEF Inv, RingInv, SessionOk, Exists, AppAgrees
<1>7. PacketInv' /\ HeldInv'
  BY <1>1, <1>3, <1>4 DEF PacketInv, RestInv, OrderInv, ComingInv, WaitInv, TurnInv, HeldInv
<1>8. TrxInv' /\ DownInv'
  <2>1. \A t \in Transactions : TrxOk(t)'
    BY <1>1 DEF Inv, TrxInv, TrxOk, Receiving
  <2> QED
    BY <1>1, <1>2, <1>3, <2>1 DEF TrxInv, DownInv
<1>9. \A s \in Handles : SendOk(s)'
  <2> TAKE s \in Handles
  <2> SUFFICES ASSUME cli[s].send # None
               PROVE  /\ trx[cli[s].send].ctx = s
                      /\ \/ trx[cli[s].send].st \in {"get_data", "wait"}
                         \/ cli[s].st = "execute_command" /\ Receiving(cli[s].send)
    BY <1>1 DEF SendOk, Receiving
  <2>1. trx[cli[s].send].ctx = s
    BY <1>1 DEF Pointers
  <2>2. ~(Restarts(s) /\ Moving(s))
    <3> SUFFICES ASSUME Restarts(s), Moving(s) PROVE FALSE
      OBVIOUS
    <3>1. Held /\ Now.op = "start" /\ pc \notin Handling
      BY <1>1 DEF Restarts, Moving, Handling
    <3>2. trx[T].ctx = None
      BY <3>1 DEF Inv, HeldInv
    <3> QED
      BY <1>2, <2>1, <3>2 DEF Moving
  <2> QED
    BY <2>1, <2>2 DEF Inv, LinkInv, SendOk
<1>10. LinkInv'
  <2>1. \A s \in Handles : RecvOk(s)' /\ ExecOk(s)'
    BY <1>1 DEF Inv, LinkInv, RecvOk, ExecOk, Receiving
  <2>2. \A t \in Transactions : CtxOk(t)'
    BY <1>1 DEF Inv, LinkInv, CtxOk, Receiving, Exists
  <2> QED
    BY <1>1, <1>9, <2>1, <2>2 DEF LinkInv
<1>11. PcInv'
  BY <1>1 DEF PcInv, Handling, Answering
<1>12. StreamInv'
  BY <1>1, <1>4 DEF StreamInv, StreamOk
<1> QED
  BY <1>5, <1>6, <1>7, <1>8, <1>10, <1>11, <1>12 DEF Inv

\* While a connection that is lost is cleaned up no packet is under way.
LEMMA CleanupKeeps ==
    ASSUME Inv, ~up, up' = FALSE,
           UNCHANGED <<errorBuf, slot, held, pc, callVars, conv, sent, inbound>>,
           trx' \in [Transactions -> TrxType], cli' \in [Handles -> CliType],
           ring' \in Seq(Handles), app' \in [Handles -> AppType], fault' = FALSE,
           LinkInv', TrxInv', StreamInv', RingInv', AppAgrees'
    PROVE  Inv'
<1>1. /\ pc = "step" /\ held = << >> /\ inbound = << >> /\ slot = None
      /\ \A t \in Transactions : conv[t] = << >>
  BY DEF Inv, DownInv
<1>2. /\ ~Held' /\ Len(inbound') = 0 /\ \A t \in Transactions : Len(conv'[t]) = 0
      /\ \A t \in Transactions : conv'[t] = << >>
  BY <1>1 DEF Held
<1>3. \A t \in Transactions : Coming(t)' = {}
  BY <1>2 DEF Coming, Elements
<1>4. PacketInv' /\ HeldInv'
  BY <1>2, <1>3 DEF PacketInv, RestInv, OrderInv, ComingInv, WaitInv, TurnInv, HeldInv
<1>5. TypeInv'
  BY DEF Inv, TypeInv, callVars
<1>6. PcInv' /\ DownInv'
  BY <1>1 DEF PcInv, DownInv, Handling, Answering
<1> QED
  BY <1>4, <1>5, <1>6 DEF Inv

\* Nothing is due, no session restarts, and no transaction has a session that was freed.
LEMMA CleanedUp ==
    ASSUME Inv, ~up
    PROVE  /\ pc = "step" /\ slot = None /\ ~Held
           /\ \A t \in Transactions : Due(t) = {} /\ trx[t].ctx \in Handles \cup {None}
           /\ \A s \in Handles : ~Restarts(s) /\ ~Moving(s)
           /\ \A s \in Handles : cli[s].send # None => trx[cli[s].send].ctx = s
           /\ trx \in [Transactions -> TrxType] /\ cli \in [Handles -> CliType]
           /\ ring \in Seq(Handles) /\ app \in [Handles -> AppType] /\ fault = FALSE
<1>1. /\ pc = "step" /\ slot = None /\ ~Held /\ Len(inbound) = 0
      /\ \A t \in Transactions : Len(conv[t]) = 0
  BY DEF Inv, DownInv, Held
<1>2. \A t \in Transactions : Due(t) = {}
  BY <1>1 DEF Due, Coming, Elements
<1>3. \A s \in Handles : ~Restarts(s) /\ ~Moving(s)
  BY <1>1 DEF Restarts, Moving, Held
<1>4. /\ trx \in [Transactions -> TrxType] /\ cli \in [Handles -> CliType]
      /\ ring \in Seq(Handles) /\ app \in [Handles -> AppType] /\ fault = FALSE
  BY DEF Inv, TypeInv
<1>5. \A t \in Transactions : trx[t].ctx \in Handles \cup {None}
  <2> TAKE t \in Transactions
  <2>1. trx[t].ctx \in Handles \cup {None, Gone}
    BY <1>4 DEF TrxType
  <2>2. trx[t].ctx # Gone
    BY DEF Inv, TrxInv, TrxOk
  <2> QED
    BY <2>1, <2>2
<1>6. \A s \in Handles : cli[s].send # None => trx[cli[s].send].ctx = s
  BY <1>3 DEF Inv, LinkInv, SendOk
<1> QED
  BY <1>1, <1>2, <1>3, <1>4, <1>5, <1>6

\* A transaction whose session is started, or that has none, leaves the others as they are;
\* every other session is removed with the transaction that it has.
LEMMA CleanupTransactionKeeps ==
    ASSUME Disciplined, Inv, NEW t \in Transactions, CleanupTransaction(t)
    PROVE  Inv'
<1>1. /\ ~up /\ Live(t) /\ up' = FALSE /\ up' = up
      /\ UNCHANGED <<errorBuf, slot, held, pc, callVars, conv, sent, inbound>>
      /\ None \notin Handles /\ None \notin Transactions
  BY ConstantsAssumption DEF CleanupTransaction, connVars, cloudVars, Inv, TypeInv
<1>2. /\ pc = "step" /\ slot = None /\ ~Held
      /\ \A u \in Transactions : Due(u) = {} /\ trx[u].ctx \in Handles \cup {None}
      /\ \A s \in Handles : ~Restarts(s) /\ ~Moving(s)
      /\ \A s \in Handles : cli[s].send # None => trx[cli[s].send].ctx = s
      /\ trx \in [Transactions -> TrxType] /\ cli \in [Handles -> CliType]
      /\ ring \in Seq(Handles) /\ app \in [Handles -> AppType] /\ fault = FALSE
  BY <1>1, CleanedUp
<1>3. /\ ~Held' /\ \A u \in Transactions : Due(u)' = {}
      /\ slot' \in Transactions => trx'[slot'].st = "wait"
  <2>1. \A u \in Transactions : Coming(u) = {} /\ Coming(u)' = Coming(u)
    BY <1>1, <1>2 DEF Due, Coming
  <2> QED
    BY <1>1, <1>2, <2>1 DEF Held, Due
<1>4. PICK none \in TrxType : /\ none = NoTransaction /\ none.st = "free"
                              /\ none.ctx = None /\ none.owner = "none"
  BY NoTransactionIs
<1>5. CASE trx[t].ctx = None \/ trx[t].st \in {"delete", "send_error"}
  <2>1. /\ trx' = [trx EXCEPT ![t] = none] /\ UNCHANGED <<cli, ring, app, fault>>
        /\ trx[t].ctx = None
    <3>1. trx[t].ctx = None /\ None # Gone
      BY <1>5, ConstantsAssumption DEF Inv, TrxInv, TrxOk
    <3> QED
      BY <1>1, <1>4, <3>1 DEF CleanupTransaction
  <2>2. /\ trx' \in [Transactions -> TrxType] /\ trx'[t] = none
        /\ \A u \in Transactions \ {t} : trx'[u] = trx[u]
    BY <1>2, <1>4, <2>1
  <2>3. TrxOk(t)' /\ CtxOk(t)' /\ StreamOk(t)'
    BY <1>1, <1>3, <1>4, <2>2, ConstantsAssumption
    DEF TrxOk, CtxOk, StreamOk, Receiving
  <2>4. Elsewhere(None, {t})
    BY <1>1, <1>2, <1>4, <2>1, <2>2 DEF Elsewhere
  <2>5. LinkInv' /\ TrxInv' /\ StreamInv'
    <3>1. /\ {t} \in SUBSET Transactions /\ None \in Handles \cup {None}
          /\ None \in Handles => SessionLinks(None)'
          /\ \A u \in Transactions :
                u \in {t} \/ (None \in Handles /\ trx[u].ctx = None) => CtxOk(u)' /\ StreamOk(u)'
          /\ \A u \in {t} : TrxOk(u)'
      BY <1>1, <2>3
    <3> QED
      BY <1>1, <1>3, <2>4, <3>1, SessionStep
  <2>6. RingInv' /\ AppAgrees'
    BY <1>1, <2>1 DEF Inv, RingInv, SessionOk, Exists, AppAgrees, callVars
  <2> QED
    BY <1>1, <1>2, <2>1, <2>2, <2>5, <2>6, CleanupKeeps
<1>6. CASE trx[t].ctx \in Handles /\ trx[t].st \notin {"delete", "send_error"}
  <2>1. PICK s \in Handles : s = trx[t].ctx
    BY <1>6
  <2>2. s # None /\ s # Gone /\ Exists(s) /\ t \in Carriers(s) /\ t # None
    BY <1>1, <2>1, ConstantsAssumption DEF Inv, LinkInv, CtxOk, Carriers
  <2>3. CASE cli[s].st = "started"
    <3>1. InformStarted(s, t) /\ UNCHANGED <<ring, app>>
      BY <1>6, <2>1, <2>2, <2>3 DEF CleanupTransaction
    <3>2. /\ LinkInv' /\ TrxInv' /\ StreamInv' /\ RingInv' /\ AppAgrees' /\ fault' = FALSE
          /\ trx' \in [Transactions -> TrxType] /\ cli' \in [Handles -> CliType]
      <4>1. /\ trx[t].ctx = s /\ \A r \in Handles : ~Restarts(r)
            /\ UNCHANGED <<ring, errorBuf, slot, app, conv, inbound>>
            /\ held' \in {held, << >>} /\ slot # t
            /\ pc # "end_response" /\ pc' # "end_response"
        BY <1>1, <1>2, <2>1, <2>2, <3>1
      <4> QED
        BY <1>1, <2>3, <3>1, <4>1, SessionInformed
    <3> QED
      BY <1>1, <1>2, <3>1, <3>2, CleanupKeeps
  <2>4. CASE cli[s].st # "started"
    <3>1. /\ trx' = [Detach(trx, PointersToClear(s)) EXCEPT ![t] = NoTransaction]
          /\ fault' = (fault \/ Dangles(PointersToClear(s)))
          /\ Free(s) /\ EndsInApp(s)
      BY <1>6, <2>1, <2>2, <2>4 DEF CleanupTransaction, MayStay, Disciplined
    <3>2. PICK table \in [Transactions -> TrxType] :
             /\ table = Detach(trx, PointersToClear(s)) /\ ~Dangles(PointersToClear(s))
             /\ \A u \in Transactions :
                  /\ table[u].st = trx[u].st /\ table[u].owner = trx[u].owner
                  /\ table[u].last = trx[u].last
                  /\ u \notin Carriers(s) => table[u] = trx[u]
                  /\ u \in Carriers(s) /\ u # t => table[u].ctx = None
      <4>1. CASE cli[s].st = "execute_command"
        <5>1. PointersToClear(s) = {} /\ \A u \in Carriers(s) : u = t
          BY <2>2, <4>1 DEF PointersToClear, Inv, LinkInv, ExecOk, Carriers
        <5>2. ~Dangles({})
          BY DEF Dangles
        <5>3. /\ Detach(trx, {}) \in [Transactions -> TrxType]
              /\ \A u \in Transactions : Detach(trx, {})[u] = trx[u]
          BY <1>2, DetachIs
        <5> QED
          BY <5>1, <5>2, <5>3
      <4>2. CASE cli[s].st # "execute_command"
        <5>1. /\ PointersToClear(s) = Pointers(s) /\ ~Dangles(Pointers(s))
              /\ \A u \in Transactions : u \in Pointers(s) <=> u \in Carriers(s)
          BY <1>2, <4>2, PointersAre DEF PointersToClear
        <5>2. PICK ptrs : ptrs = Pointers(s)
          OBVIOUS
        <5>3. /\ Detach(trx, ptrs) \in [Transactions -> TrxType]
              /\ \A u \in Transactions :
                   /\ Detach(trx, ptrs)[u].st = trx[u].st
                   /\ Detach(trx, ptrs)[u].owner = trx[u].owner
                   /\ Detach(trx, ptrs)[u].last = trx[u].last
                   /\ u \notin ptrs => Detach(trx, ptrs)[u] = trx[u]
                   /\ u \in ptrs /\ trx[u].st # "free" => Detach(trx, ptrs)[u].ctx = None
          BY <1>2, DetachIs
        <5>4. \A u \in Carriers(s) : trx[u].st # "free"
          BY <1>1 DEF Carriers, Inv, LinkInv, CtxOk, Receiving
        <5> QED
          BY <5>1, <5>2, <5>3, <5>4
      <4> QED
        BY <4>1, <4>2
    <3>3. /\ trx' \in [Transactions -> TrxType] /\ trx'[t] = none
          /\ \A u \in Transactions \ {t} : trx'[u] = table[u]
      <4>1. trx' = [table EXCEPT ![t] = none]
        BY <1>4, <3>1, <3>2
      <4> QED
        BY <4>1
    <3>4. fault' = FALSE
      BY <1>2, <3>1, <3>2
    <3>5. \A u \in Carriers(s) : trx'[u].ctx \notin Handles /\ TrxOk(u)'
      <4> TAKE u \in Carriers(s)
      <4>1. CASE u = t
        BY <1>1, <1>4, <3>3, <4>1, ConstantsAssumption DEF TrxOk, Receiving
      <4>2. CASE u # t
        <5>1. u \in Transactions /\ trx[u].ctx = s
          BY DEF Carriers
        <5>2. trx'[u].ctx = None /\ trx'[u].st = trx[u].st /\ trx'[u].owner = trx[u].owner
              /\ trx'[u].last = trx[u].last
          BY <3>2, <3>3, <4>2, <5>1
        <5> QED
          BY <1>1, <5>1, <5>2, CutTransaction
      <4> QED
        BY <4>1, <4>2
    <3>6. /\ LinkInv' /\ TrxInv' /\ StreamInv' /\ RingInv' /\ AppAgrees'
          /\ ring' \in Seq(Handles) /\ cli' \in [Handles -> CliType]
          /\ app' \in [Handles -> AppType]
      <4>1. \A u \in Transactions \ Carriers(s) : trx'[u] = trx[u]
        BY <2>2, <3>2, <3>3
      <4>2. /\ UNCHANGED <<inbound, conv, errorBuf>> /\ held' \in {held, << >>}
            /\ \A r \in Handles \ {s} : Restarts(r) => held' = held
            /\ cli[s].id = None => \A u \in Carriers(s) : Due(u)' = {}
            /\ pc = "end_response" => cur = s
            /\ pc' # "end_response"
        BY <1>1, <1>2, <1>3 DEF Carriers
      <4> QED
        BY <1>1, <1>3, <2>2, <3>1, <3>5, <4>1, <4>2, SessionRemoved
    <3> QED
      BY <1>1, <3>3, <3>4, <3>6, CleanupKeeps
  <2> QED
    BY <2>3, <2>4
<1> QED
  BY <1>2, <1>5, <1>6

\* A session that is left has no transaction any more.
LEMMA CleanupSessionKeeps ==
    ASSUME Disciplined, Inv, CleanupSession
    PROVE  Inv'
<1>1. /\ ~up /\ up' = FALSE /\ up' = up /\ ring # << >>
      /\ \A t \in Transactions : trx[t].st = "free"
      /\ Free(Head(ring)) /\ EndsInApp(Head(ring))
      /\ fault' = (fault \/ Dangles(PointersToClear(Head(ring))))
      /\ trx' = trx
      /\ UNCHANGED <<errorBuf, slot, held, pc, callVars, conv, sent, inbound>>
      /\ None \notin Handles /\ None \notin Transactions
  BY ConstantsAssumption
  DEF CleanupSession, connVars, cloudVars, Inv, TypeInv, Live
<1>2. /\ pc = "step" /\ slot = None /\ ~Held
      /\ \A s \in Handles : ~Restarts(s)
      /\ \A s \in Handles : cli[s].send # None => trx[cli[s].send].ctx = s
      /\ trx \in [Transactions -> TrxType] /\ cli \in [Handles -> CliType]
      /\ ring \in Seq(Handles) /\ fault = FALSE
  BY <1>1, CleanedUp
<1>3. PICK s \in Handles : s = Head(ring) /\ Exists(s)
  <2>1. Len(ring) \in Nat \ {0} /\ Head(ring) = ring[1] /\ Head(ring) \in Handles
    BY <1>1, <1>2, TailElements
  <2>2. Head(ring) \in Elements(ring)
    BY <2>1 DEF Elements
  <2> QED
    BY <2>1, <2>2 DEF Inv, RingInv
<1>4. Carriers(s) = {}
  BY <1>1 DEF Carriers, Inv, LinkInv, CtxOk, Receiving
<1>5. fault' = FALSE
  <2>1. CASE cli[s].st = "execute_command"
    BY <1>1, <1>2, <1>3, <2>1 DEF PointersToClear, Dangles
  <2>2. CASE cli[s].st # "execute_command"
    BY <1>1, <1>2, <1>3, <2>2, PointersAre DEF PointersToClear
  <2> QED
    BY <2>1, <2>2
<1>6. /\ LinkInv' /\ TrxInv' /\ StreamInv' /\ RingInv' /\ AppAgrees'
      /\ ring' \in Seq(Handles) /\ cli' \in [Handles -> CliType]
      /\ app' \in [Handles -> AppType]
  <2>1. /\ UNCHANGED <<inbound, conv, errorBuf>> /\ held' \in {held, << >>}
        /\ \A u \in Transactions \ Carriers(s) : trx'[u] = trx[u]
        /\ \A u \in Carriers(s) : trx'[u].ctx \notin Handles /\ TrxOk(u)'
        /\ \A r \in Handles \ {s} : Restarts(r) => held' = held
        /\ cli[s].id = None => \A u \in Carriers(s) : Due(u)' = {}
        /\ slot' \in Transactions => trx'[slot'].st = "wait"
        /\ pc = "end_response" => cur = s
        /\ pc' # "end_response"
    BY <1>1, <1>2, <1>4
  <2>2. Free(s) /\ EndsInApp(s)
    BY <1>1, <1>3
  <2> QED
    BY <1>1, <1>3, <2>1, <2>2, SessionRemoved
<1> QED
  BY <1>1, <1>2, <1>5, <1>6, CleanupKeeps

\* The service begins anew when nothing is left.
LEMMA ReopenKeeps ==
    ASSUME Disciplined, Inv, Reopen
    PROVE  Inv'
<1>1. /\ ~up /\ up' = TRUE /\ ring = << >>
      /\ \A t \in Transactions : trx[t].st = "free" /\ trx[t] = NoTransaction
      /\ errorBuf' = None /\ cli' = [s \in Handles |-> NoSession]
      /\ UNCHANGED <<trx, ring, slot, held, pc, at, cur, app, conv, sent, inbound, fault>>
      /\ None \notin Handles /\ None \notin Transactions
  BY ConstantsAssumption
  DEF Reopen, callVars, cloudVars, Live, Inv, TrxInv, TrxOk
<1>2. /\ pc = "step" /\ slot = None /\ ~Held
      /\ \A t \in Transactions : Due(t) = {}
      /\ cli \in [Handles -> CliType]
  BY <1>1, CleanedUp
<1>3. /\ held = << >> /\ Len(inbound) = 0
      /\ \A t \in Transactions : conv[t] = << >> /\ Len(conv[t]) = 0
  BY <1>1 DEF Inv, DownInv
<1>4. cli' = cli
  <2>1. \A s \in Handles : cli[s].st = "free"
    BY <1>1 DEF Inv, RingInv, Elements, Exists
  <2>2. \A s \in Handles : cli[s] = NoSession
    BY <2>1 DEF Inv, RingInv, SessionOk
  <2> QED
    BY <1>1, <1>2, <2>2
<1>5. /\ \A s \in Handles : /\ cli[s].st = "free" /\ cli[s].recv = None
                            /\ cli[s].send = None
      /\ \A t \in Transactions : trx[t].ctx = None
  BY <1>1, <1>4, NoSessionIs, NoTransactionIs
<1>6. /\ ~Held' /\ \A t \in Transactions : Coming(t)' = {} /\ Due(t)' = {}
  BY <1>1, <1>2, <1>3 DEF Held, Coming, Due, Elements
<1>7. TypeInv'
  BY <1>1, <1>4 DEF Inv, TypeInv
<1>8. RingInv' /\ AppAgrees'
  BY <1>1, <1>4 DEF Inv, RingInv, SessionOk, Exists, AppAgrees
<1>9. PacketInv' /\ HeldInv'
  BY <1>1, <1>3, <1>6
  DEF PacketInv, RestInv, OrderInv, ComingInv, WaitInv, TurnInv, HeldInv, Receiving
<1>10. TrxInv' /\ DownInv'
  BY <1>1, <1>2, <1>5, ConstantsAssumption DEF TrxInv, TrxOk, DownInv, Receiving
<1>11. LinkInv'
  BY <1>1, <1>4, <1>5 DEF LinkInv, RecvOk, SendOk, ExecOk, StateOk, CtxOk
<1>12. PcInv' /\ StreamInv'
  BY <1>1, <1>2, <1>6 DEF PcInv, Handling, Answering, StreamInv, StreamOk
<1> QED
  BY <1>7, <1>8, <1>9, <1>10, <1>11, <1>12 DEF Inv

-----------------------------------------------------------------------------
\* At the start there is nothing.
LEMMA InitHolds == Init => Inv
<1> SUFFICES ASSUME Init PROVE Inv
  OBVIOUS
<1>1. /\ trx = [t \in Transactions |-> NoTransaction] /\ cli = [s \in Handles |-> NoSession]
      /\ ring = << >> /\ errorBuf = None /\ slot = None /\ held = << >>
      /\ pc = "step" /\ at = None /\ cur = None /\ up = TRUE
      /\ app = [s \in Handles |-> Unknown]
      /\ conv = [t \in Transactions |-> << >>] /\ sent = [id \in Ids |-> 0]
      /\ inbound = << >> /\ fault = FALSE
      /\ None \notin Transactions /\ None \notin Handles
  BY ConstantsAssumption DEF Init
<1>2. /\ \A s \in Handles : /\ cli[s] = NoSession /\ cli[s].st = "free"
                            /\ cli[s].recv = None /\ cli[s].send = None
      /\ \A t \in Transactions : /\ trx[t] = NoTransaction /\ trx[t].st = "free"
                                 /\ trx[t].ctx = None
      /\ trx \in [Transactions -> TrxType] /\ cli \in [Handles -> CliType]
  BY <1>1, NoSessionIs, NoTransactionIs
<1>3. Unknown \in AppType /\ Unknown.is = "none"
  BY DEF Unknown, AppType, Words
<1>4. /\ Len(inbound) = 0 /\ Len(ring) = 0 /\ ~Held
      /\ \A t \in Transactions : conv[t] = << >> /\ Len(conv[t]) = 0
  BY <1>1 DEF Held
<1>5. \A t \in Transactions : Coming(t) = {} /\ Due(t) = {}
  BY <1>4 DEF Coming, Due, Elements
<1>6. TypeInv
  <2>1. /\ ring \in Seq(Handles) /\ inbound \in Seq(PacketType)
        /\ conv \in [Transactions -> Seq(PacketType)] /\ sent \in [Ids -> Nat]
        /\ app \in [Handles -> AppType] /\ pc \in Pcs /\ up \in BOOLEAN
    BY <1>1, <1>3 DEF Pcs
  <2> QED
    BY <1>1, <1>2, <2>1 DEF TypeInv
<1>7. RingInv
  <2>1. Once(ring) /\ Elements(ring) = {} /\ Len(ring) <= MaxSessions
    BY <1>4, ConstantsAssumption DEF Once, Elements
  <2> QED
    BY <1>2, <2>1 DEF RingInv, SessionOk, Exists
<1>8. PacketInv /\ HeldInv
  BY <1>2, <1>4, <1>5
  DEF PacketInv, RestInv, OrderInv, ComingInv, WaitInv, TurnInv, HeldInv, Receiving
<1>9. TrxInv /\ DownInv
  BY <1>1, <1>2, ConstantsAssumption DEF TrxInv, TrxOk, DownInv, Receiving
<1>10. LinkInv
  BY <1>1, <1>2 DEF LinkInv, RecvOk, SendOk, ExecOk, StateOk, CtxOk
<1>11. PcInv /\ StreamInv
  BY <1>1, <1>5 DEF PcInv, Handling, Answering, StreamInv, StreamOk
<1>12. AppAgrees
  BY <1>1, <1>2, <1>3 DEF AppAgrees
<1> QED
  BY <1>6, <1>7, <1>8, <1>9, <1>10, <1>11, <1>12 DEF Inv

\* Where nothing happens the invariant stays.
LEMMA StutterKeeps ==
    ASSUME Inv, UNCHANGED vars
    PROVE  Inv'
<1>1. UNCHANGED <<trx, cli, ring, errorBuf, slot, held, pc, at, cur, up, app, conv, sent,
                  inbound, fault>>
  BY DEF vars, callVars, connVars, cloudVars
<1>2. Held' = Held /\ Now' = Now /\ T' = T
  BY <1>1 DEF Held, Now, T
<1>3. \A t \in Transactions : Coming(t)' = Coming(t) /\ Due(t)' = Due(t)
  BY <1>1, <1>2 DEF Coming, Due
<1>4. TypeInv'
  BY <1>1 DEF Inv, TypeInv
<1>5. RingInv' /\ AppAgrees'
  BY <1>1 DEF Inv, RingInv, SessionOk, Exists, AppAgrees
<1>6. RestInv' /\ OrderInv' /\ TurnInv'
  BY <1>1 DEF Inv, PacketInv, RestInv, OrderInv, TurnInv
<1>7. ComingInv' /\ WaitInv'
  BY <1>1, <1>2, <1>3 DEF Inv, PacketInv, ComingInv, WaitInv, Receiving, Live
<1>8. HeldInv'
  <2> SUFFICES ASSUME Held PROVE HeldInv'
    BY <1>2 DEF HeldInv
  <2>1. T \in Transactions
    BY HeldPacket DEF Inv
  <2> QED
    BY <1>1, <1>2, <1>3, <2>1 DEF Inv, HeldInv, Receiving, Live
<1>9. TrxInv' /\ DownInv'
  BY <1>1 DEF Inv, TrxInv, TrxOk, DownInv, Receiving
<1>10. LinkInv'
  BY <1>1, <1>2 DEF Inv, LinkInv, RecvOk, SendOk, CtxOk, ExecOk, StateOk, Receiving, Exists,
                    Moving, Restarts
<1>11. PcInv'
  BY <1>1, <1>2 DEF Inv, PcInv, Exists
<1>12. StreamInv'
  <2>1. errorBuf \in Transactions \cup {None}
    BY DEF Inv, TypeInv
  <2> QED
    BY <1>1, <1>3, <2>1 DEF Inv, StreamInv, StreamOk, ErrorOk, Receiving
<1> QED
  BY <1>4, <1>5, <1>6, <1>7, <1>8, <1>9, <1>10, <1>11, <1>12 DEF Inv, PacketInv

\* Each part of a step keeps the invariant: what is done with a packet, ...
LEMMA PacketsKeep ==
    ASSUME Disciplined, Inv, Packets
    PROVE  Inv'
  BY ContinueRequestKeeps, DiscardRestKeeps, UnknownDataKeeps, UnknownCloseKeeps, RefuseKeeps,
     CreateKeeps, ForSessionKeeps, ProcessErrorKeeps, HandleReceiveKeeps, SessionStartKeeps,
     SessionRestartKeeps, SessionReceiveKeeps, SessionStoreKeeps, EndAfterCloseKeeps,
     EndAfterErrorKeeps, EndBusyKeeps
  DEF Packets

\* ... what the polls do, ...
LEMMA PollsKeep ==
    ASSUME Disciplined, Inv, Polls
    PROVE  Inv'
<1>1. ASSUME NEW t \in Transactions, Polled(t)
      PROVE  Inv'
  BY <1>1, PollSendErrorKeeps, PollDeleteKeeps, AnswerErrorKeeps, CancelTransactionKeeps,
     AnswerStartKeeps, AskForDataKeeps, AskForResultKeeps, AnswerEndKeeps
  DEF Polled
<1> QED
  BY <1>1, PollNoSessionKeeps, PollErrorKeeps, PollStartedKeeps, SessionPollKeeps,
     PollNothingKeeps, SessionSendKeeps, SessionExecuteKeeps, EndWithResponseKeeps,
     EndResponseBusyKeeps
  DEF Polls

\* ... and all steps together.
LEMMA NextKeeps ==
    ASSUME Disciplined, Inv, [Next]_vars
    PROVE  Inv'
<1>1. CASE Cloud
  BY <1>1, CloudRequestKeeps, CloudContinueKeeps, CloudGivesUpKeeps DEF Cloud
<1>2. CASE BeginRound \/ ReceivePacket \/ SendComplete
  BY <1>2, BeginRoundKeeps, ReceivePacketKeeps, SendCompleteKeeps
<1>3. CASE Packets \/ Polls
  BY <1>3, PacketsKeep, PollsKeep
<1>4. CASE Lose \/ Cleanup
  BY <1>4, LoseKeeps, CleanupTransactionKeeps, CleanupSessionKeeps, ReopenKeeps DEF Cleanup
<1>5. CASE UNCHANGED vars
  BY <1>5, StutterKeeps
<1> QED
  BY <1>1, <1>2, <1>3, <1>4, <1>5 DEF Next

\* The invariant says that sessions and transactions agree, ...
LEMMA Accounted == Inv => SessionsAccounted
<1> SUFFICES ASSUME Inv PROVE SessionsAccounted
  OBVIOUS
<1>1. /\ TypeInv /\ RingInv /\ HeldInv /\ LinkInv /\ StreamInv /\ fault = FALSE
      /\ None \notin Handles /\ None \notin Transactions
  BY ConstantsAssumption DEF Inv, TypeInv
<1>2. ToSet(ring) = Elements(ring) /\ Elements(ring) \subseteq Handles
  <2>1. DOMAIN ring = 1 .. Len(ring)
    BY <1>1, LenProperties DEF TypeInv
  <2>2. Elements(ring) \subseteq Handles
    BY <1>1 DEF RingInv
  <2> QED
    BY <2>1, <2>2 DEF ToSet, Elements
<1>3. TypeOK
  <2>1. \A s \in Handles : cli[s] \in CliType
    BY <1>1 DEF TypeInv
  <2> QED
    BY <1>1, <1>2, <2>1 DEF TypeOK, TypeInv, TrxType, TrxStates, CliType, CliStates
<1>4. \A s \in Handles : \A t \in Pointers(s) \ {None} :
         Live(t) /\ (trx[t].ctx = s \/ Moves(t))
  <2> TAKE s \in Handles
  <2> TAKE t \in Pointers(s) \ {None}
  <2>1. CASE t = cli[s].recv
    BY <1>1, <2>1 DEF LinkInv, RecvOk, Receiving, Live
  <2>2. CASE t = cli[s].send
    BY <1>1, <2>2 DEF LinkInv, SendOk, HeldInv, Moving, Moves, Held, Receiving, Live
  <2> QED
    BY <2>1, <2>2 DEF Pointers
<1>5. \A t \in Transactions :
         trx[t].ctx \in Handles => \/ t \in Pointers(trx[t].ctx)
                                  \/ cli[trx[t].ctx].st = "execute_command"
  BY <1>1 DEF LinkInv, CtxOk, Pointers
<1>6. errorBuf # None /\ up => Live(errorBuf) /\ trx[errorBuf].ctx = None
  BY <1>1 DEF StreamInv, ErrorOk, Receiving, Live
<1>7. LinksMatch
  <2>1. Len(ring) = Cardinality(ToSet(ring)) /\ Len(ring) <= MaxSessions
    BY <1>1, <1>2, LengthCounts DEF TypeInv, RingInv
  <2>2. ToSet(ring) = {s \in Handles : Exists(s)}
    BY <1>1, <1>2 DEF RingInv
  <2> QED
    BY <1>4, <1>5, <1>6, <2>1, <2>2 DEF LinksMatch
<1> QED
  BY <1>1, <1>3, <1>7 DEF SessionsAccounted

\* ... and that no session is stranded.
LEMMA Unstranded == Inv => NobodyStranded
<1> SUFFICES ASSUME Inv PROVE NobodyStranded
  OBVIOUS
<1>1. /\ TypeInv /\ PacketInv /\ HeldInv /\ LinkInv /\ StreamInv /\ DownInv
      /\ None \notin Handles /\ None \notin Transactions
  BY ConstantsAssumption DEF Inv
<1>2. up => \A s \in Handles : Restarts(s) \/ TakenFurther(s)
  BY <1>1 DEF LinkInv, StateOk, ExecOk, TakenFurther
<1>3. WaitsForBuffer => trx[errorBuf].st # "receive"
  <2> SUFFICES ASSUME WaitsForBuffer, Receiving(errorBuf) PROVE FALSE
    BY DEF Receiving
  <2>1. Held /\ Now.first /\ errorBuf \in Transactions /\ errorBuf # T /\ errorBuf # None
    BY <1>1 DEF WaitsForBuffer, Held, TypeInv
  <2>2. up
    BY <1>1, <2>1, StillUp
  <2>3. PICK u \in Transactions : u = errorBuf
    BY <2>1
  <2>4. \A q \in Due(u) : q.id = None
    BY <1>1, <2>1, <2>2, <2>3 DEF StreamInv, ErrorOk, Receiving
  <2>5. PICK q \in Coming(u) : TRUE
    BY <1>1, <2>1, <2>2, <2>3 DEF PacketInv, WaitInv
  <2>6. Clash(Now, q)
    BY <2>4, <2>5 DEF Due, Clash
  <2>7. ~Live(u)
    BY <1>1, <2>1, <2>3, <2>5, <2>6 DEF HeldInv
  <2> QED
    BY <2>3, <2>7 DEF Receiving, Live
<1> QED
  BY <1>2, <1>3 DEF NobodyStranded

\* So the invariant holds.
LEMMA Invariance ==
    ASSUME Disciplined
    PROVE  Spec => []Inv
<1>1. Init => Inv
  BY InitHolds
<1>2. Inv /\ [Next]_vars => Inv'
  BY NextKeeps
<1> QED
  BY <1>1, <1>2, PTL DEF Spec

\* Whatever Device Cloud asks, whichever callbacks are busy and whenever the connection is
\* lost: the list has the sessions that exist, every pointer between a session and a
\* transaction is answered by one, and no assertion of the service fails.
THEOREM SessionsAreAccounted ==
    ASSUME Disciplined
    PROVE  Spec => []SessionsAccounted
<1>1. Spec => []Inv
  BY Invariance
<1>2. Inv => SessionsAccounted
  BY Accounted
<1> QED
  BY <1>1, <1>2, PTL

\* A session that is neither started nor to be polled has a transaction that takes it
\* further, and the answer in the error buffer does not wait for packets that wait for it.
THEOREM NobodyIsStranded ==
    ASSUME Disciplined
    PROVE  Spec => []NobodyStranded
<1>1. Spec => []Inv
  BY Invariance
<1>2. Inv => NobodyStranded
  BY Unstranded
<1> QED
  BY <1>1, <1>2, PTL

\* The application has open exactly the sessions that the service has started, and is
\* asked to end each of them once.
THEOREM ApplicationAgrees ==
    ASSUME Disciplined
    PROVE  Spec => []AppAgrees
<1>1. Spec => []Inv
  BY Invariance
<1>2. Inv => AppAgrees
  BY DEF Inv
<1> QED
  BY <1>1, <1>2, PTL

=============================================================================
