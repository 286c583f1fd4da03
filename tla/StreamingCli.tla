---------------------------- MODULE StreamingCli ----------------------------
(***************************************************************************)
(* The streaming CLI service: Device Cloud starts command line sessions,   *)
(* sends them data, closes them and executes single commands, each in a    *)
(* transaction (msg_session_t) of its own; the device opens transactions   *)
(* for what a session prints and to close it.  A CLI session and the       *)
(* transactions that carry it point to each other.                         *)
(*                                                                         *)
(* pc is the position in a round of connector_edp_step: "step" between two *)
(* rounds (packets leave and Device Cloud acts), "packet" when the received*)
(* packet is looked at, "handle" in the handler of its operation,          *)
(* "sessions" in the poll of the CLI sessions and "poll" in the poll of one*)
(* transaction; the other values name the callback that is made, with its  *)
(* transaction at and its CLI session cur.                                 *)
(*                                                                         *)
(* Windows, acknowledgements and the list of the transactions are those of *)
(* MsgFacility; here any transaction may be polled.                        *)
(***************************************************************************)
EXTENDS Naturals, Sequences, FiniteSets, SequencesExt, FiniteSetsExt

CONSTANTS
    Ids,          \* session ids that Device Cloud uses
    Transactions, \* handles for transactions
    Handles,      \* handles for CLI sessions
    None,         \* NULL
    Started,      \* a session id that Device Cloud may send data to
    Gone,         \* a pointer to a CLI session that was freed
    MaxSessions,  \* CONNECTOR_STREAMING_CLI_MAX_SESSIONS
    MaxOwn,       \* max_transactions of Device Cloud
    Requests,     \* what Device Cloud asks for: <<operation, number of packets>>
    Units,        \* units of data in a packet; its header is one more
    MaxRequests,  \* bound on the requests of Device Cloud
    MaxInbound,   \* bound on the packets under way to the device
    MaxLosses,    \* bound on the connections lost
    Busy,         \* the callbacks that may be busy
    Refuses,      \* there may be no memory for a CLI session
    CloudErrors,  \* Device Cloud may give up a request
    Troubles      \* the situations, otherwise left out, that the code mishandles

Operations == {"start", "data", "close", "exec"}
Callbacks  == {"start", "restart", "receive", "store", "end_close", "end_error",
               "end_response", "send", "execute", "poll"}

ASSUME ConstantsAssumption ==
    /\ {None, Started, Gone} \cap (Transactions \cup Handles \cup Ids) = {}
    /\ None \notin {Started, Gone} /\ "error" \notin Transactions \cup {None}
    /\ IsFiniteSet(Transactions) /\ IsFiniteSet(Handles)
    /\ MaxSessions \in Nat \ {0} /\ MaxOwn \in Nat \ {0}
    /\ Requests \subseteq (Operations \X (Nat \ {0}))
    /\ Units \in Nat \ {0}
    /\ MaxRequests \in Nat /\ MaxInbound \in Nat \ {0} /\ MaxLosses \in Nat
    /\ Busy \subseteq Callbacks
    /\ {Refuses, CloudErrors} \subseteq BOOLEAN
    /\ Troubles \subseteq {"busy_start", "busy_lost", "busy_execute", "partial_last",
                            "store", "overlap", "exec_id", "exec_sent", "restart_lost",
                            "error_answered", "no_block", "two_refused"}

VARIABLES
    trx,      \* [Transactions -> msg_session_t]
    cli,      \* [Handles -> streaming_cli_session_t]
    ring,     \* streaming_cli_sessions, the first one at the head
    errorBuf, \* streaming_cli_error_buffer.transaction
    slot,     \* what the send buffer holds: None, a transaction, "error"
    held,     \* the packet in the receive buffer, if any
    pc, at, cur,
    up,       \* the connection is up, not being cleaned up
    losses,   \* connections lost so far
    app,      \* the application: what each handle is to it, and the data it received
    conv,     \* Device Cloud: the requests it has not sent all of,
    sent,     \*   units of data sent to each session id,
    open,     \*   for each session id whether it is started: None, Started, or the
              \*   transaction that asks for it,
    made,     \*   requests so far
    inbound,  \* the packets under way to the device
    fault     \* an assertion failed, or memory that was freed is used

cloudVars == <<conv, sent, open, made, inbound>>
connVars  == <<up, losses>>
callVars  == <<at, cur>>
vars == <<trx, cli, ring, errorBuf, slot, held, pc, callVars, connVars, app, cloudVars,
          fault>>

-----------------------------------------------------------------------------
NoTransaction == [st |-> "free", owner |-> "none", ctx |-> None, fresh |-> FALSE,
                  last |-> FALSE, reply |-> FALSE]
\* fresh is MsgIsStart of what the device sends, reply is MsgReplyExpected.
CloudTransaction == [NoTransaction EXCEPT !.st = "receive", !.owner = "cloud", !.reply = TRUE]
OwnTransaction(s) == [NoTransaction EXCEPT !.st = "get_data", !.owner = "client",
                                           !.ctx = s, !.fresh = TRUE, !.reply = TRUE]

NoSession == [st |-> "free", id |-> None, recv |-> None, send |-> None, op |-> "none",
              consumed |-> 0]

Live(t) == trx[t].st # "free"
Exists(s) == cli[s].st # "free"
Ending == {"start_failed", "closing", "pending_error", "send_close"}

Unknown == [is |-> "none", got |-> << >>]

\* service_context = NULL in the transactions that ptrs point to.
Detach(table, ptrs) ==
    [t \in Transactions |-> IF t \in ptrs /\ table[t].st # "free"
                            THEN [table[t] EXCEPT !.ctx = None] ELSE table[t]]
Pointers(s) == {cli[s].recv, cli[s].send}
Dangles(ptrs) == \E t \in ptrs \ {None} : ~Live(t)

Position(s) == CHOOSE i \in DOMAIN ring : ring[i] = s
Free(s) == cli' = [cli EXCEPT ![s] = NoSession] /\ ring' = RemoveAt(ring, Position(s))

\* streaming_cli_service_remove_session leaves the pointers of a command alone.
PointersToClear(s) == IF cli[s].st = "execute_command" THEN {} ELSE Pointers(s)

EndsInApp(s) == app' = [app EXCEPT ![s] = Unknown]

-----------------------------------------------------------------------------
\* Packets of Device Cloud.  from is the number of units sent before this packet.
Packet(t, op, id, first, last, from) ==
    [t |-> t, op |-> op, id |-> id, first |-> first, last |-> last, from |-> from]
HeaderCell == 0
Cells(p) == (IF p.first THEN <<HeaderCell>> ELSE << >>) \o [i \in 1 .. Units |-> p.from + i]

TransactionFree(t) ==
    /\ ~Live(t) /\ conv[t] = << >>
    /\ \A i \in DOMAIN inbound : inbound[i].t # t
    /\ t \notin {slot, errorBuf}

\* Handles are interchangeable: a new transaction gets one that is free.
MaySpare == \E t \in Transactions : TransactionFree(t)
NewTransaction == CHOOSE t \in Transactions : TransactionFree(t)

\* Handles that are kept for the transactions of the device.
Reserve == Cardinality(Handles) + 2
Spare == Cardinality({t \in Transactions : TransactionFree(t)})

Open(t, id) == conv[t] # << >> /\ Head(conv[t]).id = id

\* A new request.  One session id has one request of data, or to close, at a time, and
\* none begins before a command was sent whole.
CloudRequest ==
    /\ pc = "step" /\ up /\ made < MaxRequests /\ Len(inbound) < MaxInbound
    /\ Spare > Reserve
    /\ "two_refused" \in Troubles
       \/ \A u \in Transactions : conv[u] # << >> => Head(conv[u]).op # "exec"
    /\ \E r \in Requests, id \in Ids :
        LET t == NewTransaction
            op == r[1]
            from == IF op = "data" THEN sent[id] ELSE 0
            packets == [i \in 1 .. r[2] |->
                           Packet(t, op, IF op = "exec" THEN None ELSE id, i = 1, i = r[2],
                                  from + Units * (i - 1))]
        IN /\ op \in {"data", "close"} =>
                "overlap" \in Troubles \/ \A u \in Transactions : ~Open(u, id)
           /\ op = "data" => open[id] = Started
           /\ inbound' = Append(inbound, Head(packets))
           /\ conv' = [conv EXCEPT ![t] = Tail(packets)]
           /\ sent' = CASE op = "start" -> [sent EXCEPT ![id] = 0]
                        [] op = "data"  -> [sent EXCEPT ![id] = @ + Units]
                        [] OTHER        -> sent
           /\ open' = CASE op = "start" -> [open EXCEPT ![id] = t]
                        [] op = "close" -> [open EXCEPT ![id] = None]
                        [] OTHER        -> open
    /\ made' = made + 1
    /\ UNCHANGED <<trx, cli, ring, errorBuf, slot, held, pc, callVars, connVars, app, fault>>

\* The next packet of a request.  It counts if the session was not started again meanwhile.
CloudContinue(t) ==
    /\ pc = "step" /\ up /\ Len(inbound) < MaxInbound
    /\ conv[t] # << >>
    /\ LET p == Head(conv[t])
       IN /\ inbound' = Append(inbound, p)
          /\ conv' = [conv EXCEPT ![t] = Tail(@)]
          /\ sent' = IF p.op = "data" /\ p.from = sent[p.id]
                     THEN [sent EXCEPT ![p.id] = @ + Units] ELSE sent
    /\ UNCHANGED <<trx, cli, ring, errorBuf, slot, held, pc, callVars, connVars, app, open,
                   made, fault>>

\* It gives the request up.
CloudGivesUp(t) ==
    /\ pc = "step" /\ up /\ CloudErrors /\ Len(inbound) < MaxInbound
    /\ conv[t] # << >>
    /\ LET p == Head(conv[t])
       IN /\ p.op = "exec" => "error_answered" \in Troubles \/ trx[t].ctx # None
          /\ inbound' = Append(inbound, Packet(t, "error", p.id, FALSE, TRUE, 0))
          /\ open' = IF p.op = "exec" THEN open ELSE [open EXCEPT ![p.id] = None]
    /\ conv' = [conv EXCEPT ![t] = << >>]
    /\ UNCHANGED <<trx, cli, ring, errorBuf, slot, held, pc, callVars, connVars, app, sent,
                   made, fault>>

-----------------------------------------------------------------------------
\* The round: what leaves, what arrives.

BeginRound ==
    /\ pc = "step" /\ up
    /\ pc' = IF held = << >> THEN "sessions" ELSE "packet"
    /\ UNCHANGED <<trx, cli, ring, errorBuf, slot, held, callVars, connVars, app, cloudVars,
                   fault>>

\* A round with a new packet; the first one of a request creates its transaction.
ReceivePacket ==
    /\ pc = "step" /\ up /\ held = << >> /\ inbound # << >>
    /\ LET p == Head(inbound)
       IN /\ held' = <<p>>
          /\ trx' = IF p.first THEN [trx EXCEPT ![p.t] = CloudTransaction] ELSE trx
    /\ inbound' = Tail(inbound)
    /\ pc' = "packet"
    /\ UNCHANGED <<cli, ring, errorBuf, slot, callVars, connVars, app, conv, sent, open, made,
                   fault>>

\* msg_send_complete.
SendComplete ==
    /\ pc = "step" /\ up /\ slot # None
    /\ slot' = None
    /\ trx' = IF slot = "error" THEN trx
              ELSE [trx EXCEPT ![slot] =
                       IF ~@.last THEN [@ EXCEPT !.st = "get_data"]
                       ELSE IF @.owner = "client" /\ @.reply THEN [@ EXCEPT !.st = "receive"]
                       ELSE NoTransaction]
    /\ UNCHANGED <<cli, ring, errorBuf, held, pc, callVars, connVars, app, cloudVars, fault>>

-----------------------------------------------------------------------------
\* The packet in the receive buffer: streaming_cli_service_request_callback.

Now == Head(held)
T == Now.t

\* The handler is pending: the packet stays.
Pending == pc' = "sessions" /\ UNCHANGED <<held, at>> /\ cur' = None

\* The packet is taken (msg_pass_service_data); table is trx after the handler.
Taken(t) == IF ~Now.last THEN t
            ELSE IF t.reply THEN [t EXCEPT !.st = "get_data", !.fresh = TRUE]
            ELSE [t EXCEPT !.st = "delete"]
Working(table) ==
    /\ trx' = [table EXCEPT ![T] = Taken(@)]
    /\ held' = << >> /\ pc' = "sessions"
    /\ cur' = None /\ UNCHANGED at

NoReply(table) == [table EXCEPT ![T].reply = FALSE]

\* The handler goes on with the CLI session s.
Handle(s) == pc' = "handle" /\ cur' = s /\ UNCHANGED <<at, held>>

\* streaming_cli_service_find_session.  The id of an execute session is what the
\* memory held.
Find(id) == LET found == {i \in DOMAIN ring : cli[ring[i]].id = id}
            IN IF found = {} THEN None ELSE ring[Min(found)]

Looks == pc = "packet" /\ Now.op # "error"
Starts == Looks /\ Now.first /\ trx[T].ctx = None
Known == IF Now.op = "exec" THEN None ELSE Find(Now.id)

\* A later packet, or one that was offered before.
ContinueRequest ==
    /\ Looks /\ trx[T].ctx # None
    /\ Handle(trx[T].ctx)
    /\ UNCHANGED <<trx, cli, ring, errorBuf, slot, connVars, app, cloudVars, fault>>

\* Its session is gone.
DiscardRest ==
    /\ Looks /\ trx[T].ctx = None /\ ~Now.first
    /\ Working(trx)
    /\ UNCHANGED <<cli, ring, errorBuf, slot, connVars, app, cloudVars, fault>>

Own == {t \in Transactions : trx[t].owner = "client"}
MayOpen == Cardinality(Own) < MaxOwn /\ MaySpare

\* Data for a session that does not exist is answered with a close of that session; if
\* there is no memory for the close, its own transaction is left to be cancelled.
UnknownData ==
    /\ Starts /\ Known = None /\ Now.op = "data"
    /\ IF errorBuf # None \/ ~MayOpen
       THEN Pending /\ UNCHANGED <<trx, errorBuf>>
       ELSE \/ /\ errorBuf' = NewTransaction
               /\ Working(NoReply([trx EXCEPT ![NewTransaction] = OwnTransaction(None)]))
            \/ Refuses /\ Working(trx) /\ UNCHANGED errorBuf
    /\ UNCHANGED <<cli, ring, slot, connVars, app, cloudVars, fault>>

UnknownClose ==
    /\ Starts /\ Known = None /\ Now.op = "close"
    /\ Working(NoReply(trx))
    /\ UNCHANGED <<cli, ring, errorBuf, slot, connVars, app, cloudVars, fault>>

\* streaming_cli_service_create_new_session.
Full == Cardinality({s \in Handles : Exists(s)}) >= MaxSessions

Refuse ==
    /\ Starts /\ Known = None /\ Now.op \in {"start", "exec"}
    /\ Full \/ Refuses
    /\ IF errorBuf # None
       THEN Pending /\ UNCHANGED <<trx, errorBuf>>
       ELSE errorBuf' = T /\ Working(trx)
    /\ UNCHANGED <<cli, ring, slot, connVars, app, cloudVars, fault>>

Create ==
    /\ Starts /\ Known = None /\ Now.op \in {"start", "exec"}
    /\ ~Full
    /\ \E s \in Handles :
        /\ ~Exists(s)
        /\ ring' = Append(ring, s)
        /\ IF Now.op = "start"
           THEN cli' = [cli EXCEPT ![s] = [NoSession EXCEPT
                    !.st = "uninitialized", !.id = Now.id, !.op = "start", !.recv = T]]
           ELSE \E id \in {None} \cup (IF "exec_id" \in Troubles THEN Ids ELSE {}) :
                cli' = [cli EXCEPT ![s] = [NoSession EXCEPT
                    !.st = "execute_command", !.id = id, !.op = "exec"]]
        /\ app' = IF Now.op = "exec" THEN [app EXCEPT ![s].is = "command"] ELSE app
        /\ trx' = [trx EXCEPT ![T].ctx = s]
        /\ Handle(s)
    /\ UNCHANGED <<errorBuf, slot, connVars, cloudVars, fault>>

\* A request for an existing session takes the place of one that was not complete;
\* only data must come in order, and only while the session is started.
ForSession ==
    /\ Starts /\ Known # None
    /\ LET s == Known
           was == cli[s].recv
           table == Detach(trx, {was})
       IN /\ fault' = (fault \/ Dangles({was}))
          /\ CASE was # None /\ Now.op = "data" ->
                    cli' = [cli EXCEPT ![s].st = "pending_error"] /\ Working(table)
               [] Now.op = "data" /\ was = None /\ cli[s].st # "started" ->
                    UNCHANGED cli /\ Working(table)
               [] OTHER ->
                    /\ cli' = [cli EXCEPT ![s].recv = T, ![s].op = Now.op]
                    /\ trx' = [table EXCEPT ![T].ctx = s]
                    /\ Handle(s)
    /\ UNCHANGED <<ring, errorBuf, slot, connVars, app, cloudVars>>

\* msg_service_type_error of a started session, whose transaction t is then deleted.
InformStarted(s, t) ==
    /\ trx' = [Detach(trx, Pointers(s)) EXCEPT ![t] = NoTransaction]
    /\ cli' = [cli EXCEPT ![s].recv = None, ![s].send = None, ![s].st = "pending_error"]
    /\ fault' = (fault \/ Dangles(Pointers(s)))

\* msg_process_error, for a request that Device Cloud gave up.
ProcessError ==
    /\ pc = "packet" /\ Now.op = "error"
    /\ LET s == trx[T].ctx
       IN IF s # None /\ cli[s].st # "started"
          THEN pc' = "end_error" /\ cur' = s /\ UNCHANGED <<trx, cli, held, at, fault>>
          ELSE /\ IF s = None
                  THEN trx' = [trx EXCEPT ![T] = NoTransaction] /\ UNCHANGED <<cli, fault>>
                  ELSE InformStarted(s, T)
               /\ held' = << >> /\ pc' = "sessions" /\ UNCHANGED callVars
    /\ UNCHANGED <<ring, errorBuf, slot, connVars, app, cloudVars>>

-----------------------------------------------------------------------------
\* streaming_cli_service_handle_receive_transaction.

\* Its end, after the last packet, whatever the callback answered.
AfterCli(c, table) ==
    IF ~Now.last THEN c
    ELSE [c EXCEPT !.recv = None, !.send = IF table[T].reply THEN T ELSE @]
AfterTrx(table) == IF Now.last /\ ~table[T].reply THEN [table EXCEPT ![T].ctx = None] ELSE table

\* The callback cb is made for the CLI session cur.
Call(cb) == pc' = cb /\ UNCHANGED <<callVars, held>>

\* The first packet has a header, which is not data.
Consumed(c) == IF Now.first /\ c.consumed = 0 THEN 1 ELSE c.consumed

HandleReceive ==
    /\ pc = "handle"
    /\ LET c == cli[cur]
           become(d) == cli' = [cli EXCEPT ![cur] = d]
       IN /\ fault' = \/ fault
                      \/ c.op # "exec" /\ c.recv # T
                      \/ c.op = "start" /\ c.st # "uninitialized" /\ Dangles(Pointers(cur))
                      \/ c.op = "close" /\ Now.first /\ Dangles({c.send})
          /\ CASE c.op = "start" /\ c.st = "uninitialized" ->
                    Call("start") /\ UNCHANGED <<trx, cli>>
               [] c.op = "start" /\ c.st # "uninitialized" ->
                    /\ Call("restart")
                    /\ trx' = Detach(trx, Pointers(cur))
                    /\ become([c EXCEPT !.recv = None, !.send = None])
               [] c.op = "data" /\ c.st = "started" ->
                    /\ Call("receive")
                    /\ trx' = NoReply(trx)
                    /\ become([c EXCEPT !.consumed = Consumed(c)])
               [] c.op = "data" /\ c.st # "started" ->
                    /\ Working(AfterTrx(NoReply(trx)))
                    /\ become(AfterCli(c, NoReply(trx)))
               [] c.op = "close" ->
                    LET table == IF Now.first THEN Detach(trx, {c.send}) ELSE trx
                    IN /\ become(IF Now.first THEN [c EXCEPT !.consumed = 0, !.st = "closing",
                                                             !.send = None] ELSE c)
                       /\ IF Now.last THEN Call("end_close") /\ trx' = NoReply(table)
                                      ELSE Working(table)
               [] c.op = "exec" ->
                    Call("store") /\ UNCHANGED <<trx, cli>>
    /\ UNCHANGED <<ring, errorBuf, slot, connVars, app, cloudVars>>

\* The callbacks.  Answers that the code is not prepared for are left out.
MayBeBusy(cb) ==
    /\ cb \in Busy
    /\ cb = "start" => "busy_start" \in Troubles
    /\ cb = "store" => "store" \in Troubles

\* The answer to a callback of a packet: the session, the table and whether it is pending.
Answer(c, table, pending) ==
    /\ cli' = [cli EXCEPT ![cur] = AfterCli(c, table)]
    /\ IF pending THEN Pending /\ trx' = AfterTrx(table) ELSE Working(AfterTrx(table))

\* connector_request_id_streaming_cli_session_start.
SessionStart ==
    /\ pc = "start"
    /\ \E a \in {"ok", "error"} \cup {b \in {"busy"} : MayBeBusy("start")} :
        /\ Answer([cli[cur] EXCEPT !.st = CASE a = "ok"    -> "ack_start"
                                            [] a = "error" -> "start_failed"
                                            [] a = "busy"  -> @], trx, a = "busy")
        /\ app' = CASE a = "ok"    -> [app EXCEPT ![cur].is = "open"]
                    [] a = "error" -> [app EXCEPT ![cur].is = "failed"]
                    [] a = "busy"  -> app
    /\ UNCHANGED <<ring, errorBuf, slot, connVars, cloudVars, fault>>

\* A start for a session that exists: it is ended, and the packet starts it again.
\* Mutant: it is not asked again to end when it was busy.
SessionRestartOnce ==
    /\ pc = "restart"
    /\ \E a \in {"done"} \cup {b \in {"busy"} : MayBeBusy("restart")} :
        /\ Answer([cli[cur] EXCEPT !.consumed = 0, !.st = "uninitialized"], trx, TRUE)
        /\ IF a = "done" THEN EndsInApp(cur) ELSE UNCHANGED app
    /\ UNCHANGED <<ring, errorBuf, slot, connVars, cloudVars, fault>>

SessionRestart ==
    /\ pc = "restart"
    /\ \E a \in {"done"} \cup {b \in {"busy"} : MayBeBusy("restart")} :
        /\ Answer(IF a = "done" THEN [cli[cur] EXCEPT !.consumed = 0, !.st = "uninitialized"]
                                ELSE cli[cur], trx, TRUE)
        /\ IF a = "done" THEN EndsInApp(cur) ELSE UNCHANGED app
    /\ UNCHANGED <<ring, errorBuf, slot, connVars, cloudVars, fault>>

\* streaming_cli_service_write_data.
\* Mutant: the count is not reset at the end of a packet.
UsedNotReset(n) == [cli[cur] EXCEPT !.consumed = @ + n]

Used(n) == [cli[cur] EXCEPT !.consumed = IF @ + n = Len(Cells(Now)) THEN 0 ELSE @ + n]
SessionReceive ==
    /\ pc = "receive"
    /\ LET left == SubSeq(Cells(Now), cli[cur].consumed + 1, Len(Cells(Now)))
       IN \E n \in 0 .. Len(left) :
           LET all == cli[cur].consumed + n = Len(Cells(Now))
           IN /\ n = 0 => MayBeBusy("receive")
              /\ all \/ ~Now.last \/ Now.first \/ "partial_last" \in Troubles
              /\ Answer(Used(n), trx, ~all)
              /\ app' = [app EXCEPT ![cur].got = @ \o SubSeq(left, 1, n)]
    /\ UNCHANGED <<ring, errorBuf, slot, connVars, cloudVars, fault>>

\* streaming_cli_service_execute_store_command.  The header of a first packet is skipped
\* each time the packet is offered; busy loses what the callback did not take.
SessionStore ==
    /\ pc = "store"
    /\ LET from == IF Now.first THEN 1 ELSE cli[cur].consumed
           left == SubSeq(Cells(Now), from + 1, Len(Cells(Now)))
           used(n) == [cli[cur] EXCEPT !.consumed = IF n = Len(left) THEN 0 ELSE from + n]
       IN \E n \in 0 .. Len(left), busy \in {FALSE} \cup {b \in {TRUE} : MayBeBusy("store")} :
           /\ busy => n = 0
           /\ n = Len(left) \/ ~Now.first \/ "store" \in Troubles
           /\ Answer(used(n), trx, n # Len(left) /\ ~busy)
           /\ app' = [app EXCEPT ![cur].got = @ \o SubSeq(left, 1, n)]
    /\ UNCHANGED <<ring, errorBuf, slot, connVars, cloudVars, fault>>

\* streaming_cli_service_close_session: the end callback, then the session is removed.
CloseSession(cb) ==
    /\ pc = cb
    /\ app' = [app EXCEPT ![cur] = Unknown]
    /\ fault' = (fault \/ Dangles(PointersToClear(cur)))
    /\ Free(cur)
    /\ UNCHANGED <<errorBuf, connVars, conv, sent, made, inbound>>

\* The transaction of a command keeps its pointer to memory that is freed.
\* Mutant: the pointer to the transaction that sends is not followed.
RemovedReceiving == Detach(trx, {cli[cur].recv})

Removed ==
    IF cli[cur].st # "execute_command" THEN Detach(trx, PointersToClear(cur))
    ELSE [t \in Transactions |-> IF trx[t].ctx = cur THEN [trx[t] EXCEPT !.ctx = Gone]
                                                     ELSE trx[t]]

\* Device Cloud closed the session.
EndAfterClose ==
    /\ CloseSession("end_close")
    /\ Working(Removed)
    /\ UNCHANGED <<slot, open>>

\* Device Cloud gave up.
EndAfterError ==
    /\ CloseSession("end_error")
    /\ trx' = [Removed EXCEPT ![T] = NoTransaction]
    /\ held' = << >> /\ pc' = "sessions" /\ cur' = None
    /\ UNCHANGED <<slot, at, open>>

EndBusy ==
    /\ pc \in {"end_close", "end_error"} /\ MayBeBusy(pc)
    /\ Pending
    /\ UNCHANGED <<trx, cli, ring, errorBuf, slot, connVars, app, cloudVars, fault>>

-----------------------------------------------------------------------------
\* streaming_cli_service_poll_sessions: the first session that is to be polled.

ToPoll(s) == (cli[s].st = "started" /\ cli[s].send = None) \/ cli[s].st = "pending_error"
Candidate == LET found == {i \in DOMAIN ring : ToPoll(ring[i])}
             IN IF found = {} THEN None ELSE ring[Min(found)]
Rotated == IF ring = << >> THEN ring ELSE Append(Tail(ring), Head(ring))

\* Idle or working: the next session is first the next time, and a transaction is polled.
NextSession == ring' = Rotated /\ pc' = "poll" /\ cur' = None
\* Pending: nothing else is polled in this round.
StopRound == pc' = "step" /\ cur' = None /\ UNCHANGED ring

PollNoSession ==
    /\ pc = "sessions" /\ Candidate = None
    /\ NextSession
    /\ UNCHANGED <<trx, cli, errorBuf, slot, held, at, connVars, app, cloudVars, fault>>

\* streaming_cli_service_create_transaction, in which s becomes st.  When there is no
\* memory for its data block the transaction is deleted again.
OpenTransaction(s, st) ==
    IF MayOpen
    THEN /\ trx' = [trx EXCEPT ![NewTransaction] = OwnTransaction(s)]
         /\ cli' = [cli EXCEPT ![s].send = NewTransaction, ![s].st = st]
         /\ NextSession
    ELSE StopRound /\ UNCHANGED <<trx, cli>>
NoBlock(s, st) ==
    /\ Refuses /\ MayOpen
    /\ cli' = [cli EXCEPT ![s].st = st] /\ NextSession /\ UNCHANGED trx

\* An error closes the session.
PollError ==
    /\ pc = "sessions" /\ Candidate # None /\ cli[Candidate].st = "pending_error"
    /\ \/ OpenTransaction(Candidate, "send_close")
       \/ "no_block" \in Troubles /\ NoBlock(Candidate, "send_close")
    /\ UNCHANGED <<errorBuf, slot, held, at, connVars, app, cloudVars, fault>>

PollStarted ==
    /\ pc = "sessions" /\ Candidate # None /\ cli[Candidate].st = "started"
    /\ pc' = "poll_session" /\ cur' = Candidate
    /\ UNCHANGED <<trx, cli, ring, errorBuf, slot, held, at, connVars, app, cloudVars, fault>>

\* connector_request_id_streaming_cli_poll.
\* Mutant: the session waits for a transaction that was not created.
SessionPollUnchecked ==
    /\ pc = "poll_session"
    /\ \/ NextSession /\ UNCHANGED <<trx, cli>>
       \/ OpenTransaction(cur, "started")
       \/ OpenTransaction(cur, "send_close")
       \/ NoBlock(cur, "send_close")
       \/ MayBeBusy("poll") /\ StopRound /\ UNCHANGED <<trx, cli>>
    /\ UNCHANGED <<errorBuf, slot, held, at, connVars, app, cloudVars, fault>>

SessionPoll ==
    /\ pc = "poll_session"
    /\ \/ NextSession /\ UNCHANGED <<trx, cli>>                        \* idle
       \/ OpenTransaction(cur, "started")                              \* readable
       \/ OpenTransaction(cur, "send_close")                           \* done
       \/ NoBlock(cur, "started")
       \/ MayBeBusy("poll") /\ StopRound /\ UNCHANGED <<trx, cli>>
    /\ UNCHANGED <<errorBuf, slot, held, at, connVars, app, cloudVars, fault>>

-----------------------------------------------------------------------------
\* The poll of a transaction: msg_process_pending.

EndRound == pc' = "step" /\ at' = None /\ cur' = None

PollNothing ==
    /\ pc = "poll"
    /\ EndRound
    /\ UNCHANGED <<trx, cli, ring, errorBuf, slot, held, connVars, app, cloudVars, fault>>

\* An error packet ends the transaction (msg_send_error).
PollSendError(t) ==
    /\ pc = "poll" /\ trx[t].st = "send_error" /\ slot = None
    /\ slot' = "error"
    /\ trx' = [trx EXCEPT ![t] = NoTransaction]
    /\ EndRound
    /\ UNCHANGED <<cli, ring, errorBuf, held, connVars, app, cloudVars, fault>>

PollDelete(t) ==
    /\ pc = "poll" /\ trx[t].st = "delete"
    /\ trx' = [trx EXCEPT ![t] = NoTransaction]
    /\ EndRound
    /\ UNCHANGED <<cli, ring, errorBuf, slot, held, connVars, app, cloudVars, fault>>

\* streaming_cli_service_response_callback.
Asked(t) == pc = "poll" /\ trx[t].st = "get_data" /\ slot = None

\* The packet goes out (msg_process_send_data).
Send(table, t, last) ==
    /\ trx' = [table EXCEPT ![t].st = "wait", ![t].fresh = FALSE, ![t].last = last]
    /\ slot' = t
    /\ EndRound

\* The answer of the error buffer.
AnswerError(t) ==
    /\ Asked(t) /\ trx[t].ctx = None /\ errorBuf = t
    /\ errorBuf' = None
    /\ Send([trx EXCEPT ![t].reply = (@ /\ trx[t].owner = "cloud")], t, TRUE)
    /\ UNCHANGED <<cli, ring, held, connVars, app, cloudVars, fault>>

\* The session is gone (msg_set_error).
CancelTransaction(t) ==
    /\ Asked(t) /\ trx[t].ctx = None /\ errorBuf # t
    /\ trx' = [trx EXCEPT ![t].st = IF @ = "get_data" /\ trx[t].owner = "client" /\ trx[t].fresh
                                    THEN "delete" ELSE "send_error"]
    /\ EndRound
    /\ UNCHANGED <<cli, ring, errorBuf, slot, held, connVars, app, cloudVars, fault>>

\* The session that the transaction carries.
Carries(t, states) == Asked(t) /\ trx[t].ctx # None /\ cli[trx[t].ctx].st \in states
CheckSend(t) == fault' = (fault \/ cli[trx[t].ctx].send # t)
NowCalls(cb, t) == pc' = cb /\ at' = t /\ cur' = trx[t].ctx

\* The start is acknowledged: streaming_cli_service_handle_start_response.
AnswerStart(t) ==
    /\ Carries(t, {"ack_start"})
    /\ LET s == trx[t].ctx
       IN /\ cli' = [cli EXCEPT ![s].st = "started", ![s].send = None]
          /\ open' = [open EXCEPT ![cli[s].id] = IF @ = t THEN Started ELSE @]
    /\ Send([trx EXCEPT ![t].ctx = None], t, TRUE)
    /\ CheckSend(t)
    /\ UNCHANGED <<ring, errorBuf, held, connVars, app, conv, sent, made, inbound>>

AskForData(t) ==
    /\ Carries(t, {"started"})
    /\ NowCalls("send", t)
    /\ trx' = [trx EXCEPT ![t].reply = FALSE]
    /\ CheckSend(t)
    /\ UNCHANGED <<cli, ring, errorBuf, slot, held, connVars, app, cloudVars>>

AskForResult(t) ==
    /\ Carries(t, {"execute_command"})
    /\ NowCalls("execute", t)
    /\ CheckSend(t)
    /\ UNCHANGED <<trx, cli, ring, errorBuf, slot, held, connVars, app, cloudVars>>

\* The start failed, or the session is closed (streaming_cli_service_send_close).
AnswerEnd(t) ==
    /\ Carries(t, {"start_failed", "send_close", "uninitialized", "closing", "pending_error"})
    /\ NowCalls("end_response", t)
    /\ fault' = \/ fault
                \/ cli[trx[t].ctx].send # t
                \/ cli[trx[t].ctx].st \notin {"start_failed", "send_close"}
    /\ UNCHANGED <<trx, cli, ring, errorBuf, slot, held, connVars, app, cloudVars>>

\* connector_request_id_streaming_cli_send.
SessionSend ==
    /\ pc = "send"
    /\ \/ /\ Send(trx, at, FALSE)
          /\ UNCHANGED cli
       \/ /\ Send([trx EXCEPT ![at].ctx = None], at, TRUE)
          /\ cli' = [cli EXCEPT ![cur].send = None]
       \/ MayBeBusy("send") /\ EndRound /\ UNCHANGED <<trx, cli, slot>>
    /\ UNCHANGED <<ring, errorBuf, held, connVars, app, cloudVars, fault>>

\* connector_request_id_streaming_cli_sessionless_execute.
SessionExecute ==
    /\ pc = "execute"
    /\ \/ Send(trx, at, FALSE) /\ UNCHANGED app
       \/ /\ pc' = "end_response" /\ UNCHANGED <<trx, slot, callVars>>
          /\ app' = [app EXCEPT ![cur].is = "executed"]
       \/ MayBeBusy("execute") /\ EndRound /\ UNCHANGED <<trx, slot, app>>
    /\ UNCHANGED <<cli, ring, errorBuf, held, connVars, cloudVars, fault>>

\* The last packet leaves when the session is removed.
EndWithResponse ==
    /\ CloseSession("end_response")
    /\ Send([Removed EXCEPT ![at].reply = (@ /\ trx[at].owner = "cloud")], at, TRUE)
    /\ open' = IF cli[cur].st = "send_close" THEN [open EXCEPT ![cli[cur].id] = None]
               ELSE open
    /\ UNCHANGED held

\* The callback for the result of a command would be repeated.
EndResponseBusy ==
    /\ pc = "end_response" /\ MayBeBusy(pc)
    /\ cli[cur].st = "execute_command" => "busy_execute" \in Troubles
    /\ EndRound
    /\ UNCHANGED <<trx, cli, ring, errorBuf, slot, held, connVars, app, cloudVars, fault>>

-----------------------------------------------------------------------------
\* The end of a connection (connector_facility_streaming_cli_service_cleanup).

\* Packets under way, received or in the send buffer are lost.
Lose ==
    /\ pc = "step" /\ up /\ losses < MaxLosses
    /\ \A t \in Transactions : trx[t].ctx = Gone => "exec_sent" \in Troubles
    /\ \A s \in Handles : \A t \in Pointers(s) \ {None} :
          trx[t].ctx # s => "restart_lost" \in Troubles
    /\ up' = FALSE /\ losses' = losses + 1
    /\ slot' = None /\ held' = << >> /\ inbound' = << >>
    /\ conv' = [t \in Transactions |-> << >>]
    /\ open' = [id \in Ids |-> None] /\ sent' = [id \in Ids |-> 0]
    /\ UNCHANGED <<trx, cli, ring, errorBuf, pc, callVars, app, made, fault>>

\* The callback is made once; its answer is not looked at.
MayStay == {FALSE} \cup {b \in {TRUE} : "busy_lost" \in Troubles}

\* msg_cleanup_all_sessions: a transaction.
CleanupTransaction(t) ==
    /\ ~up /\ Live(t)
    /\ LET s == trx[t].ctx
       IN CASE s = None \/ trx[t].st \in {"delete", "send_error"} ->
                 trx' = [trx EXCEPT ![t] = NoTransaction] /\ UNCHANGED <<cli, ring, app, fault>>
            [] s = Gone -> fault' = TRUE /\ UNCHANGED <<trx, cli, ring, app>>
            [] s \in Handles /\ trx[t].st \notin {"delete", "send_error"}
                 /\ cli[s].st = "started" ->
                 InformStarted(s, t) /\ UNCHANGED <<ring, app>>
            [] OTHER -> \E stays \in MayStay :
                 /\ trx' = [Detach(trx, IF stays THEN {} ELSE PointersToClear(s))
                               EXCEPT ![t] = NoTransaction]
                 /\ fault' = (fault \/ (~stays /\ Dangles(PointersToClear(s))))
                 /\ IF stays THEN UNCHANGED <<cli, ring, app>> ELSE Free(s) /\ EndsInApp(s)
    /\ UNCHANGED <<errorBuf, slot, held, pc, callVars, connVars, cloudVars>>

\* Then the first CLI session.
CleanupSession ==
    /\ ~up /\ \A t \in Transactions : ~Live(t)
    /\ ring # << >>
    /\ LET s == Head(ring)
       IN Free(s) /\ EndsInApp(s) /\ fault' = (fault \/ Dangles(PointersToClear(s)))
    /\ UNCHANGED <<trx, errorBuf, slot, held, pc, callVars, connVars, cloudVars>>

\* connector_facility_streaming_cli_service_init.
Reopen ==
    /\ ~up /\ ring = << >> /\ \A t \in Transactions : ~Live(t)
    /\ up' = TRUE
    /\ errorBuf' = None /\ cli' = [s \in Handles |-> NoSession]
    /\ UNCHANGED <<trx, ring, slot, held, pc, callVars, losses, app, cloudVars, fault>>

-----------------------------------------------------------------------------
Init ==
    /\ trx = [t \in Transactions |-> NoTransaction]
    /\ cli = [s \in Handles |-> NoSession]
    /\ ring = << >> /\ errorBuf = None /\ slot = None /\ held = << >>
    /\ pc = "step" /\ at = None /\ cur = None /\ up = TRUE /\ losses = 0
    /\ app = [s \in Handles |-> Unknown]
    /\ conv = [t \in Transactions |-> << >>]
    /\ sent = [id \in Ids |-> 0] /\ open = [id \in Ids |-> None]
    /\ made = 0 /\ inbound = << >>
    /\ fault = FALSE

Cloud == CloudRequest \/ \E t \in Transactions : CloudContinue(t) \/ CloudGivesUp(t)

Packets ==
    \/ ContinueRequest \/ DiscardRest \/ UnknownData \/ UnknownClose \/ Refuse \/ Create
    \/ ForSession \/ ProcessError \/ HandleReceive
    \/ SessionStart \/ SessionRestart \/ SessionReceive \/ SessionStore
    \/ EndAfterClose \/ EndAfterError \/ EndBusy

Polled(t) ==
    \/ PollSendError(t) \/ PollDelete(t) \/ AnswerError(t) \/ CancelTransaction(t)
    \/ AnswerStart(t) \/ AskForData(t) \/ AskForResult(t) \/ AnswerEnd(t)

Polls ==
    \/ PollNoSession \/ PollError \/ PollStarted \/ SessionPoll
    \/ PollNothing
    \/ \E t \in Transactions : Polled(t)
    \/ SessionSend \/ SessionExecute \/ EndWithResponse \/ EndResponseBusy

Cleanup == (\E t \in Transactions : CleanupTransaction(t)) \/ CleanupSession \/ Reopen

Next ==
    \/ Cloud
    \/ BeginRound \/ ReceivePacket \/ SendComplete
    \/ Packets \/ Polls
    \/ Lose \/ Cleanup

Spec == Init /\ [][Next]_vars

-----------------------------------------------------------------------------
TypeOK ==
    /\ trx \in [Transactions -> [st : {"free", "receive", "get_data", "wait", "send_error",
                                       "delete"},
                                 owner : {"none", "cloud", "client"},
                                 ctx : Handles \cup {None, Gone},
                                 fresh : BOOLEAN, last : BOOLEAN, reply : BOOLEAN]]
    /\ \A s \in Handles :
        /\ cli[s].st \in {"free", "uninitialized", "ack_start", "started", "execute_command"}
                            \cup Ending
        /\ {cli[s].recv, cli[s].send} \subseteq Transactions \cup {None}
        /\ cli[s].consumed \in 0 .. Units
    /\ ToSet(ring) \subseteq Handles
    /\ {errorBuf, slot, at} \subseteq Transactions \cup {None, "error"}

\* The list has exactly the sessions that exist, once each and within the limit; a
\* session and its transactions point to each other, and the error buffer to a live one.
\* While a handler runs, or a restart waits for its packet to be offered again, the
\* transaction of that packet is on its way from one pointer to the other.
Moves(t) == held # << >> /\ T = t
LinksMatch ==
    /\ ToSet(ring) = {s \in Handles : Exists(s)} /\ Len(ring) = Cardinality(ToSet(ring))
    /\ Len(ring) <= MaxSessions
    /\ \A s \in Handles : \A t \in Pointers(s) \ {None} :
          Live(t) /\ (trx[t].ctx = s \/ Moves(t))
    /\ \A t \in Transactions :
          trx[t].ctx \in Handles => \/ t \in Pointers(trx[t].ctx)
                                   \/ Moves(t)
                                   \/ cli[trx[t].ctx].st = "execute_command"
    /\ errorBuf # None /\ up => Live(errorBuf) /\ trx[errorBuf].ctx = None

\* No assertion of the service fails, no freed memory is used, and sessions and
\* transactions agree on each other.
SessionsAccounted == TypeOK /\ ~fault /\ LinksMatch

\* No session waits for what cannot come: one that is neither started nor to be polled has
\* a transaction that takes it further, and a packet that waits for the error buffer does
\* not keep Device Cloud from the packets that empty it.
WaitsForBuffer == held # << >> /\ Now.op \notin {"close", "error"} /\ Now.first
                  /\ trx[T].ctx = None /\ Known = None /\ errorBuf \notin {None, T}
Restarts(s) == held # << >> /\ Now.op = "start" /\ Now.id = cli[s].id
TakenFurther(s) ==
    /\ cli[s].st \in {"ack_start", "start_failed", "send_close"} => cli[s].send # None
    /\ cli[s].st \in {"uninitialized", "closing"} => cli[s].recv # None
    /\ cli[s].st = "execute_command" => \E t \in Transactions : trx[t].ctx = s
NobodyStranded ==
    /\ up => \A s \in Handles : Restarts(s) \/ TakenFurther(s)
    /\ WaitsForBuffer => trx[errorBuf].st # "receive"

\* The application has open exactly what the service has: what it started, even without
\* success, it is asked to end, once, and between the two it is asked for nothing else.
AppAgrees ==
    \A s \in Handles : app[s].is =
        CASE cli[s].st \in {"free", "uninitialized"} -> "none"
          [] cli[s].st = "execute_command" -> IF pc = "end_response" /\ cur = s THEN "executed"
                                              ELSE "command"
          [] cli[s].st = "start_failed" -> "failed"
          [] OTHER -> IF app[s].is = "failed" THEN "failed" ELSE "open"

\* The data of a session that both sides believe started: what the application took,
\* followed by what is under way to it, is what Device Cloud sent.  A command is stored
\* without a gap.
UnderWay(s) ==
    LET rest(p) == SubSeq(Cells(p), 1 + (IF p.first THEN 1 ELSE 0), Len(Cells(p)))
        heldRest(p) == IF cli[s].consumed = 0 THEN rest(p)
                       ELSE SubSeq(Cells(p), 1 + cli[s].consumed, Len(Cells(p)))
        cut(t) == Live(t) /\ trx[t].ctx = None /\ ~(Moves(t) /\ Now.first)
        counts(p) == p.op = "data" /\ p.id = cli[s].id /\ ~cut(p.t)
    IN (IF held # << >> /\ counts(Now) THEN heldRest(Now) ELSE << >>)
       \o FlattenSeq([i \in DOMAIN inbound |-> IF counts(inbound[i]) THEN rest(inbound[i])
                                               ELSE << >>])
DataKept ==
    \A s \in Handles :
        /\ cli[s].st = "started" /\ open[cli[s].id] = Started =>
              app[s].got \o UnderWay(s) = [i \in 1 .. sent[cli[s].id] |-> i]
        /\ cli[s].st = "execute_command" =>
              app[s].got = [i \in 1 .. Len(app[s].got) |-> i]

=============================================================================
