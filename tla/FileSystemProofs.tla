--------------------------- MODULE FileSystemProofs ---------------------------
(***************************************************************************)
(* For every request, file, directory and packet: the callbacks come in    *)
(* order, what was opened is closed, and the replies are true.             *)
(*                                                                         *)
(* The first invariant, Inv, ties the handle of the application to the     *)
(* state of the context, and the state of the context to the next callback *)
(* and to the phase of the session: a call that is repeated after a busy   *)
(* callback finds the context in a state from which it asks for the right  *)
(* callback.                                                               *)
(*                                                                         *)
(* The second, DataInv, says what the file of the application and the      *)
(* response hold at every moment: how much of the payload is in the file   *)
(* (PutData), how much of the file (GetData) or of the directory (LsData)  *)
(* is in the response, in each state of the context, as long as nothing    *)
(* went wrong; that what went wrong is noted in the context (ErrorInv) and *)
(* stops the work (WorkInv); and that what was told is true (SentInv).     *)
(* Its steps need the first one.                                           *)
(***************************************************************************)
EXTENDS FileSystem, TLAPS, SequenceTheorems

\* The close callback is not busy in a session that is cancelled or cleaned up, as it would
\* not be called again, nor is the one of the session's error, as its documentation says.
\* Only a put has more than one packet.  A path that is too long is noted as no error:
\* no file is opened, and the response is made of a file that is not open.
Disciplined ==
    /\ {"close_cancelled", "close_lost"} \cap Retries = {}
    /\ "session_error" \notin Busy
    /\ \A r \in Requests : r.op # "put" => Len(r.cuts) = 1
    /\ \A r \in Requests : r.op \in {"get", "ls"} => r.path # "long"

\* The states of fs_context_t; those with an open file that is not being closed; and the
\* callbacks and the label between which data moves.
States == {"none", "stat", "open", "lseek1", "lseek", "readdir", "stat_dir_entry",
           "closing", "closed"}
Opened == {"open", "lseek1", "lseek", "readdir", "stat_dir_entry"}
Moving == {"seek_end", "seek_set", "read", "write", "truncate", "transfer"}

\* A context is a record with these fields, whatever is changed in it.
IsContext(c) ==
    /\ DOMAIN c = {"state", "errnum", "internal", "aborted", "truncate", "done", "told",
                   "offset", "length"}
    /\ c = [f \in DOMAIN c |-> c[f]]
    /\ c.state \in States

\* The request, the context and the number of the packet.
Fields ==
    /\ req \in Requests
    /\ IsContext(ctx)
    /\ part \in Nat \ {0}

\* The handle is open exactly in these states, and of the request's kind.
HandleInv ==
    /\ handle # "none" <=> ctx.state \in Opened \cup {"closing"}
    /\ handle = "file" => req.op \in {"put", "get"}
    /\ handle = "dir" => req.op = "ls"
    /\ handle \in {"none", "file", "dir"}

\* What the next callback or label needs.
NextInv ==
    /\ pc \in {"open", "opendir"} => ctx.state \in {"none", "stat"}
    /\ pc = "open" => req.op \in {"put", "get"} /\ req.path = "ok"
    /\ pc = "stat" => req.op = "ls" /\ ctx.state = "none"
    /\ pc = "opendir" => req.op = "ls"
    /\ pc = "remove" => req.op = "rm"
    /\ pc \in Moving => /\ ctx.state \in Opened /\ req.op \in {"put", "get"}
                        /\ call = IF req.op = "put" THEN "have" ELSE "need"
    /\ pc \in {"readdir", "stat_entry"} => ctx.state \in Opened /\ req.op = "ls"
    /\ pc \in {"hash", "entry"} => ctx.state \in Opened \cup {"stat"} /\ req.op = "ls"
    /\ pc \in {"stat", "open", "opendir", "remove"} => call = "have"
    /\ pc \in {"readdir", "stat_entry", "hash", "entry"} => call = "need"
    /\ pc = "close" => ctx.state = "closing"
    /\ ctx.state = "closing" => pc \in {"close", "idle", "session_error"}
    /\ pc = "finish" /\ ctx.state \in Opened =>
          call = "have" /\ ~cancel /\ req.op \in {"get", "ls"}
    /\ pc \in {"report", "get_error"} =>
          call = "need" /\ ctx.state \notin Opened \cup {"closing"}

\* Where the messaging layer is with the session.
CallInv ==
    /\ phase \in {"sent", "error", "freed", "aborted"} =>
          pc \in {"idle", "close", "finish", "session_error"}
    /\ phase \in {"sent", "error", "freed"} =>
          pc = "idle" /\ ctx.state \notin Opened \cup {"closing"}
    /\ pc # "idle" =>
          /\ call \in {"have", "need", "error", "cleanup"}
          /\ call = "have" => phase = "request"
          /\ call = "need" => phase = "response"
          /\ call \in {"error", "cleanup"} => cancel
    /\ cancel => pc \in {"idle", "close", "finish", "session_error"}
    /\ pc = "session_error" => call \in {"error", "cleanup"}
    /\ ctx.errnum = "canceled" => IF pc = "idle" THEN phase \notin {"request", "response"}
                                                 ELSE cancel
    /\ req.op # "put" => part = 1

\* What a repeated request, and the response, find.
ReadyInv ==
    /\ phase = "request" /\ pc # "finish" /\ req.op # "put" => ctx.state \in {"none", "stat"}
    /\ req.op = "rm" => ctx.state = "none"
    /\ req.op \in {"put", "get"} => ctx.state # "stat"
    /\ req.op = "put" /\ req.path # "ok" => ctx.state = "none"
    /\ phase = "response" /\ req.op = "put" => ctx.state \notin Opened \cup {"closing"}
    /\ phase = "response" /\ req.op \in {"get", "ls"} =>
          Failed(ctx) \/ ctx.state # "none"
    /\ pc = "finish" /\ call = "have" /\ req.op \in {"get", "ls"} =>
          Failed(ctx) \/ ctx.aborted \/ ctx.state # "none"

Inv == Fields /\ HandleInv /\ NextInv /\ CallInv /\ ReadyInv

\* What was stored and what will be stored is one payload, however it is cut.
LEMMA ConcatBytes ==
  ASSUME NEW x \in Seq(Int), NEW y \in Seq(Int), NEW z \in Seq(Int)
  PROVE  (x \o y) \o z = x \o (y \o z)
  BY ConcatAssociative, SMTT(60)

-----------------------------------------------------------------------------
\* The ranks of the states, as sets.
LEMMA Ranks ==
    ASSUME NEW c, c.state \in States
    PROVE  /\ Before(c, "stat") <=> c.state = "none"
           /\ Before(c, "open") <=> c.state \in {"none", "stat"}
           /\ Before(c, "closing") <=> c.state \notin {"closing", "closed"}
           /\ Before(c, "lseek1") <=> c.state \in {"none", "stat", "open"}
           /\ Before(c, "lseek") <=> c.state \in {"none", "stat", "open", "lseek1"}
           /\ IsOpen(c) <=> c.state \in Opened \cup {"closing"}
  BY DEF States, Opened, Before, IsOpen, Rank

\* Close goes on to the callback when something is open, else the call is over.
LEMMA Closes ==
    ASSUME NEW c, IsContext(c), Close(c)
    PROVE  /\ IsContext(ctx') /\ ctx'.errnum = c.errnum /\ ctx'.aborted = c.aborted
           /\ \/ /\ c.state \in Opened \cup {"closing"}
                 /\ pc' = "close" /\ ctx'.state = "closing"
              \/ /\ c.state \notin Opened \cup {"closing"}
                 /\ pc' = "finish" /\ ctx'.state = c.state
  BY Ranks DEF Close, Goto, IsContext, States

\* The position is set, or data moves.
LEMMA Positions ==
    ASSUME NEW c, NEW b, IsContext(c), c.state \in Opened, Position(c, b)
    PROVE  /\ IsContext(ctx') /\ ctx'.errnum = c.errnum /\ ctx'.aborted = c.aborted
           /\ pc' \in {"seek_end", "transfer"} /\ ctx'.state \in Opened
  BY Ranks DEF Position, Goto, IsContext, States, Opened

\* The context keeps its shape, and what the invariant reads of it.
Same(c, d) ==
    /\ IsContext(d)
    /\ d.state = c.state /\ d.errnum = c.errnum /\ d.aborted = c.aborted

\* After an internal error the context is failed, unless the path was too long.
LEMMA InternalErrors ==
    ASSUME NEW c, IsContext(c), NEW e
    PROVE  /\ IsContext(InternalError(c, e))
           /\ InternalError(c, e).state = c.state
           /\ InternalError(c, e).aborted = c.aborted
           /\ InternalError(c, e).errnum = IF e = "path_too_long" THEN "none" ELSE e
  BY DEF InternalError, IsContext

\* What a request that comes for the first time, or again, does to the session.
LEMMA HaveFacts ==
    ASSUME NEW op, HaveData(op)
    PROVE  /\ req.op = op /\ phase = "request" /\ pc = "idle"
           /\ call' = "have" /\ ~cancel'
           /\ UNCHANGED <<req, phase, part, handle>>
  BY DEF HaveData, Starts, appVars

\* And what the demand for a packet of the response does.
LEMMA NeedFacts ==
    ASSUME NeedData
    PROVE  /\ phase = "response" /\ pc = "idle"
           /\ call' = "need" /\ ~cancel'
           /\ UNCHANGED <<req, phase, part, handle>>
  BY DEF NeedData, Starts, appVars

\* The put is offered the next packet, or the same one again.
LEMMA PutRequestStep ==
    ASSUME Disciplined, Inv, PutRequest
    PROVE  Inv'
<1>1. /\ req.op = "put" /\ phase = "request" /\ pc = "idle"
      /\ call' = "have" /\ ~cancel'
      /\ UNCHANGED <<req, phase, part, handle>>
  BY HaveFacts DEF PutRequest
<1> DEFINE c == IF part > 1 THEN ctx
                ELSE [ctx EXCEPT !.truncate = @ \/ req.truncate, !.offset = req.offset]
<1>2. IsContext(ctx) /\ ctx.errnum # "canceled"
  BY <1>1 DEF Inv, Fields, CallInv
<1>3. Same(ctx, c)
  BY <1>2 DEF Same, IsContext
<1>4. /\ IsContext(ctx') /\ ctx'.errnum # "canceled"
      /\ \/ /\ ctx.state \in Opened \cup {"closing"}
            /\ pc' = "close" /\ ctx'.state = "closing"
         \/ /\ ctx.state \notin Opened \cup {"closing"}
            /\ pc' = "finish" /\ ctx'.state = ctx.state
         \/ /\ req.path = "ok" /\ ctx.state \in {"none", "stat"}
            /\ pc' = "open" /\ ctx'.state = ctx.state
         \/ ctx.state \in Opened /\ pc' \in {"seek_end", "transfer"} /\ ctx'.state \in Opened
  <2>1. CASE Failed(ctx) \/ ~Before(ctx, "closing")
    BY <1>2, <2>1, Closes DEF PutRequest
  <2>2. CASE ~(Failed(ctx) \/ ~Before(ctx, "closing"))
    <3>1. ctx.state \notin {"closing", "closed"}
      BY <1>2, <2>2, Ranks DEF IsContext
    <3>2. CASE part = 1 /\ req.path # "ok"
      <4>1. Goto("finish", BadPath(ctx)) /\ ctx.state = "none"
        BY <1>1, <2>2, <3>2 DEF PutRequest, Inv, ReadyInv
      <4> QED
        BY <1>2, <4>1, InternalErrors DEF Goto, BadPath, Opened
    <3>3. CASE part = 1 /\ req.path = "ok" /\ Before(ctx, "open")
      <4>1. Goto("open", c) /\ ctx.state \in {"none", "stat"}
        BY <1>2, <2>2, <3>3, Ranks DEF PutRequest, IsOpen, IsContext
      <4> QED
        BY <1>2, <1>3, <3>3, <4>1 DEF Goto, Same
    <3>4. CASE part = 1 /\ req.path = "ok" /\ ~Before(ctx, "open") /\ IsOpen(ctx)
      <4>1. Position(c, buf) /\ ctx.state \in Opened
        BY <1>2, <2>2, <3>1, <3>4, Ranks DEF PutRequest, IsContext
      <4> QED
        BY <1>2, <1>3, <4>1, Positions DEF Same
    <3>5. CASE part > 1 /\ IsOpen(ctx)
      <4>1. Goto("transfer", c) /\ ctx.state \in Opened
        BY <1>2, <2>2, <3>1, <3>5, Ranks DEF PutRequest, IsContext
      <4> QED
        BY <1>2, <1>3, <4>1 DEF Goto, Same
    <3>6. CASE /\ ~(part = 1 /\ req.path # "ok")
               /\ ~(part = 1 /\ req.path = "ok" /\ Before(ctx, "open"))
               /\ ~(part = 1 /\ req.path = "ok" /\ IsOpen(ctx))
               /\ ~(part > 1 /\ IsOpen(ctx))
      <4>1. Goto("finish", ctx)
        BY <2>2, <3>6 DEF PutRequest
      <4>2. ctx.state \notin Opened \cup {"closing"}
        BY <1>2, <3>1, <3>6, Ranks DEF IsContext, Inv, Fields
      <4> QED
        BY <1>2, <4>1, <4>2 DEF Goto
    <3> QED
      BY <3>2, <3>3, <3>4, <3>5, <3>6
  <2> QED
    BY <2>1, <2>2
<1> QED
  BY <1>1, <1>4 DEF Inv, Fields, HandleInv, NextInv, CallInv, ReadyInv, Moving, Opened

\* The request of another kind opens, removes or asks for the status of the file.
LEMMA RequestStep ==
    ASSUME Disciplined, Inv, GetRequest \/ RmRequest \/ LsRequest
    PROVE  Inv'
<1>1. /\ req.op \in {"get", "rm", "ls"} /\ phase = "request" /\ pc = "idle"
      /\ call' = "have" /\ ~cancel'
      /\ UNCHANGED <<req, phase, part, handle>>
  BY HaveFacts DEF GetRequest, RmRequest, LsRequest
<1>2. IsContext(ctx) /\ ctx.errnum # "canceled" /\ ctx.state \in {"none", "stat"}
  BY <1>1 DEF Inv, Fields, CallInv, ReadyInv
<1>3. req.path \in {"ok", "bad", "long"} /\ (req.op \in {"get", "ls"} => req.path # "long")
  BY ConstantsAssumption DEF Inv, Fields, Request, Disciplined
<1>4. /\ IsContext(ctx') /\ ctx'.state = ctx.state /\ ctx'.errnum # "canceled"
      /\ \/ /\ pc' = "finish"
            /\ req.op \in {"get", "ls"} => Failed(ctx')
         \/ req.path = "ok" /\ pc' = "open" /\ req.op = "get"
         \/ pc' = "remove" /\ req.op = "rm"
         \/ pc' = "stat" /\ req.op = "ls" /\ ctx.state = "none"
         \/ pc' = "opendir" /\ req.op = "ls"
  <2>1. CASE req.path # "ok"
    <3>1. Goto("finish", BadPath(ctx))
      BY <1>1, <2>1, HaveFacts DEF GetRequest, RmRequest, LsRequest
    <3> QED
      BY <1>2, <1>3, <2>1, <3>1, InternalErrors DEF Goto, BadPath, Failed
  <2>2. CASE req.path = "ok" /\ req.op = "get"
    <3>1. Goto("open", [ctx EXCEPT !.offset = req.offset, !.length = req.length])
      BY <2>2, HaveFacts DEF GetRequest, RmRequest, LsRequest
    <3> QED
      BY <1>2, <2>2, <3>1 DEF Goto, IsContext
  <2>3. CASE req.path = "ok" /\ req.op = "rm"
    <3>1. Goto("remove", ctx)
      BY <2>3, HaveFacts DEF GetRequest, RmRequest, LsRequest
    <3> QED
      BY <1>2, <2>3, <3>1 DEF Goto
  <2>4. CASE req.path = "ok" /\ req.op = "ls"
    <3>1. Goto(IF ctx.state = "none" THEN "stat" ELSE "opendir", ctx)
      BY <1>2, <2>4, HaveFacts, Ranks DEF GetRequest, RmRequest, LsRequest, IsContext
    <3> QED
      BY <1>2, <2>4, <3>1 DEF Goto
  <2> QED
    BY <1>1, <2>1, <2>2, <2>3, <2>4
<1> QED
  BY <1>1, <1>2, <1>4
  DEF Inv, Fields, HandleInv, NextInv, CallInv, ReadyInv, Moving, Opened

\* A packet of the response is asked for.
LEMMA ResponseStep ==
    ASSUME Disciplined, Inv, NoDataResponse \/ GetResponse \/ LsResponse
    PROVE  Inv'
<1>1. /\ phase = "response" /\ pc = "idle" /\ call' = "need" /\ ~cancel'
      /\ UNCHANGED <<req, phase, part, handle>>
  BY NeedFacts DEF NoDataResponse, GetResponse, LsResponse
<1>2. IsContext(ctx) /\ ctx.errnum # "canceled" /\ ctx.state \in States
  BY <1>1 DEF Inv, Fields, CallInv, IsContext
<1>3. CASE NoDataResponse
  <2>1. /\ ctx' = ctx /\ req.op \in {"put", "rm"}
        /\ pc' \in {"finish", "report", "get_error"}
    BY <1>3 DEF NoDataResponse, Report, Goto
  <2>2. ctx.state \notin Opened \cup {"closing"}
    BY <1>1, <2>1 DEF Inv, ReadyInv, Opened
  <2> QED
    BY <1>1, <1>2, <2>1, <2>2
    DEF Inv, Fields, HandleInv, NextInv, CallInv, ReadyInv, Moving, Opened, Failed
<1>4. CASE GetResponse
  <2>1. /\ req.op = "get" /\ IsContext(ctx') /\ ctx'.errnum = ctx.errnum
        /\ \/ /\ ctx.state \in Opened \cup {"closing"}
              /\ pc' = "close" /\ ctx'.state = "closing"
           \/ /\ ctx.state \notin Opened \cup {"closing"}
              /\ pc' = "finish" /\ ctx'.state = ctx.state
           \/ ctx.state \in Opened /\ pc' \in {"seek_end", "transfer"} /\ ctx'.state \in Opened
    <3>1. CASE Failed(ctx) \/ ~Before(ctx, "closing")
      BY <1>2, <1>4, <3>1, Closes DEF GetResponse
    <3>2. CASE ~(Failed(ctx) \/ ~Before(ctx, "closing"))
      <4>1. ctx.state \in Opened /\ req.op = "get"
        BY <1>1, <1>2, <1>4, <3>2, Ranks DEF Inv, ReadyInv, GetResponse, States, Opened
      <4>2. Goto("transfer", ctx) \/ \E b : Position(ctx, b)
        BY <1>4, <3>2 DEF GetResponse
      <4> QED
        BY <1>2, <4>1, <4>2, Positions DEF Goto
    <3> QED
      BY <3>1, <3>2
  <2> QED
    BY <1>1, <1>2, <2>1
    DEF Inv, Fields, HandleInv, NextInv, CallInv, ReadyInv, Moving, Opened, Failed
<1>5. CASE LsResponse
  <2>1. /\ req.op = "ls" /\ IsContext(ctx') /\ ctx'.errnum = ctx.errnum
        /\ \/ /\ ctx.state \in Opened \cup {"closing"}
              /\ pc' = "close" /\ ctx'.state = "closing"
           \/ /\ ctx.state \notin Opened \cup {"closing"}
              /\ pc' = "finish" /\ ctx'.state = ctx.state
           \/ ctx' = ctx /\ ctx.state \in Opened \cup {"stat"} /\ pc' \in {"hash", "entry"}
           \/ ctx' = ctx /\ ctx.state \in Opened /\ pc' \in {"stat_entry", "readdir"}
    <3>1. CASE Failed(ctx) \/ ~Before(ctx, "closing")
      BY <1>2, <1>5, <3>1, Closes DEF LsResponse
    <3>2. CASE ~(Failed(ctx) \/ ~Before(ctx, "closing"))
      <4>1. ctx.state \in Opened \cup {"stat"} /\ req.op = "ls"
        BY <1>1, <1>2, <1>5, <3>2, Ranks DEF Inv, ReadyInv, LsResponse, States, Opened
      <4>2. /\ ctx' = ctx
            /\ \/ ctx.state \in {"stat", "stat_dir_entry"} /\ pc' \in {"hash", "entry"}
               \/ ctx.state # "stat" /\ pc' \in {"stat_entry", "readdir"}
        BY <1>5, <3>2, <4>1 DEF LsResponse, Goto, Opened
      <4> QED
        BY <1>2, <4>1, <4>2 DEF Opened
    <3> QED
      BY <3>1, <3>2
  <2> QED
    BY <1>1, <1>2, <2>1
    DEF Inv, Fields, HandleInv, NextInv, CallInv, ReadyInv, Moving, Opened, Failed
<1> QED
  BY <1>3, <1>4, <1>5

\* Device Cloud or the connection ends the session.
LEMMA EndStep ==
    ASSUME Disciplined, Inv, CloudError \/ Lose
    PROVE  Inv'
<1>1. PICK reason \in {"error", "cleanup"} : Inform(reason)
  BY DEF CloudError, Lose
<1>2. /\ pc = "idle" /\ call' \in {"error", "cleanup"} /\ cancel'
      /\ UNCHANGED <<req, phase, part, handle>>
  BY <1>1 DEF Inform, Starts, appVars
<1>3. phase \in {"request", "response", "aborted"}
  BY DEF CloudError, Lose, HasSession
<1>4. IsContext(ctx) /\ IsContext(ctx') /\ ctx'.errnum = ctx.errnum
      /\ \/ /\ ctx.state \in Opened \cup {"closing"}
            /\ pc' = "close" /\ ctx'.state = "closing"
         \/ /\ ctx.state \notin Opened \cup {"closing"}
            /\ pc' = "finish" /\ ctx'.state = ctx.state
         \/ ctx' = ctx /\ pc' = "session_error"
  BY <1>1, Closes DEF Inform, Goto, Inv, Fields
<1> QED
  BY <1>2, <1>3, <1>4
  DEF Inv, Fields, HandleInv, NextInv, CallInv, ReadyInv, Moving, Opened, Failed

\* A callback is busy.
LEMMA BusyStep ==
    ASSUME Disciplined, Inv, NEW cb \in Callbacks, IsBusy(cb)
    PROVE  Inv'
<1>1. /\ pc = cb /\ MayBeBusy(cb) /\ pc' = "idle"
      /\ UNCHANGED <<req, call, cancel, part, handle>>
      /\ phase' # phase => call = "cleanup"
  BY DEF IsBusy, Send, ReturnPending, appVars
<1>2. Same(ctx, ctx')
  BY DEF IsBusy, Same, IsContext, Inv, Fields
<1>3. pc \notin {"idle", "finish", "session_error"}
  BY <1>1, ConstantsAssumption DEF Callbacks, FileCallbacks, MayBeBusy, Disciplined
<1>4. ~(pc = "close" /\ (call = "cleanup" \/ ctx.errnum = "canceled"))
  BY <1>1 DEF MayBeBusy, Disciplined
<1>5. call # "cleanup" /\ ctx.errnum # "canceled"
  BY <1>3, <1>4 DEF Inv, CallInv
<1> QED
  BY <1>1, <1>2, <1>3, <1>5
  DEF Inv, Fields, HandleInv, NextInv, CallInv, ReadyInv, Moving, Opened, Failed, Same

\* A callback fails.
LEMMA FailStep ==
    ASSUME Disciplined, Inv, NEW cb \in Callbacks, Fails(cb)
    PROVE  Inv'
<1>1. /\ pc = cb /\ cb \in Callbacks \ {"get_error", "session_error"}
      /\ UNCHANGED <<req, phase, part, call>>
      /\ handle' = IF cb = "close" THEN "none" ELSE handle
  BY DEF Fails, msgVars
<1>2. PICK a \in Errors :
        /\ cancel' = (cancel \/ a = "unrecognized")
        /\ IF cb \in {"open", "close"}
           THEN Goto("finish", [Answered(ctx, a) EXCEPT !.state = "closed"])
           ELSE Close(Answered(ctx, a))
  BY DEF Fails
<1>3. a \in {"error", "unset", "unrecognized", "abort"}
  BY <1>2, ConstantsAssumption
<1> DEFINE c == Answered(ctx, a)
<1>4. IsContext(ctx) /\ IsContext(c) /\ c.state = ctx.state
  BY <1>3 DEF Answered, InternalError, IsContext, Inv, Fields
<1>5. /\ Failed(c) \/ c.aborted
      /\ Failed(ctx) => Failed(c)
      /\ ctx.aborted => c.aborted
      /\ c.errnum = "canceled" => ctx.errnum = "canceled" \/ a = "unrecognized"
  BY <1>3, <1>4 DEF Answered, InternalError, IsContext, Failed
<1>6. /\ IsContext(ctx') /\ ctx'.errnum = c.errnum /\ ctx'.aborted = c.aborted
      /\ \/ cb \in {"open", "close"} /\ pc' = "finish" /\ ctx'.state = "closed"
         \/ /\ cb \notin {"open", "close"} /\ ctx.state \in Opened \cup {"closing"}
            /\ pc' = "close" /\ ctx'.state = "closing"
         \/ /\ cb \notin {"open", "close"} /\ ctx.state \notin Opened \cup {"closing"}
            /\ pc' = "finish" /\ ctx'.state = ctx.state
  <2>1. CASE cb \in {"open", "close"}
    BY <1>2, <1>4, <2>1 DEF Goto, IsContext, States
  <2>2. CASE cb \notin {"open", "close"}
    BY <1>2, <1>4, <2>2, Closes
  <2> QED
    BY <2>1, <2>2
<1>7. cancel' \in BOOLEAN /\ (ctx.errnum = "canceled" => cancel) /\ (cancel => cb = "close")
      /\ (ctx'.errnum = "canceled" => cancel') /\ (cancel => cancel')
  BY <1>1, <1>2, <1>5, <1>6 DEF Inv, CallInv, Callbacks, FileCallbacks
<1>8. pc # "idle" /\ pc # "finish" /\ pc # "session_error" /\ pc # "transfer" /\ pc # "entry"
  BY <1>1 DEF Callbacks, FileCallbacks
<1> QED
  BY <1>1, <1>4, <1>5, <1>6, <1>7, <1>8
  DEF Inv, Fields, HandleInv, NextInv, CallInv, ReadyInv, Moving, Opened, Failed

\* The file is open: its position comes next, or the response is asked for.
LEMMA OpenDoneStep ==
    ASSUME Disciplined, Inv, OpenDone
    PROVE  Inv'
<1>1. pc = "open" /\ handle' = "file" /\ UNCHANGED <<msgVars, cancel>>
  BY DEF OpenDone, Does, Stays
<1> DEFINE c == [ctx EXCEPT !.state = "open",
                            !.truncate = @ /\ ~(ctx.truncate /\ ctx.offset = 0)]
<1>2. IsContext(c) /\ c.state = "open" /\ c.errnum = ctx.errnum /\ c.aborted = ctx.aborted
  BY DEF Inv, Fields, IsContext, States
<1>3. /\ IsContext(ctx') /\ ctx'.errnum = ctx.errnum
      /\ \/ req.op = "put" /\ pc' \in {"seek_end", "transfer"} /\ ctx'.state \in Opened
         \/ req.op # "put" /\ pc' = "finish" /\ ctx'.state = "open"
  <2>1. CASE req.op = "put" /\ Position(c, buf)
    BY <1>2, <2>1, Positions DEF Opened
  <2>2. CASE req.op # "put" /\ Goto("finish", c)
    BY <1>2, <2>2 DEF Goto
  <2> QED
    BY <2>1, <2>2 DEF OpenDone
<1> QED
  BY <1>1, <1>3
  DEF Inv, Fields, HandleInv, NextInv, CallInv, ReadyInv, Moving, Opened, msgVars, Failed

\* The position is set, data moves or the end is cut: the file stays open, or closes.
LEMMA MoveStep ==
    ASSUME Disciplined, Inv,
           SeekEndDone \/ SeekSetDone \/ WriteDone \/ ReadDone \/ TruncateDone
    PROVE  Inv'
<1>1. /\ pc \in Moving /\ UNCHANGED <<msgVars, cancel, handle>>
      /\ \/ Goto("transfer", [ctx EXCEPT !.state = "lseek"]) \/ Goto("transfer", ctx)
         \/ Goto("seek_set", [ctx EXCEPT !.state = "lseek1"])
         \/ Close(ctx) \/ Close(InternalError(ctx, "invalid_offset"))
         \/ \E n : \/ Goto("transfer", [ctx EXCEPT !.done = @ + n])
                   \/ Close([ctx EXCEPT !.done = @ + n])
  BY DEF SeekEndDone, SeekSetDone, WriteDone, ReadDone, TruncateDone, Does, Stays, Moving
<1>2. IsContext(ctx) /\ ctx.state \in Opened /\ ctx.errnum # "canceled"
  BY <1>1 DEF Inv, Fields, NextInv, CallInv, Moving
<1>3. /\ IsContext(ctx') /\ ctx'.errnum # "canceled"
      /\ Failed(ctx) => Failed(ctx')
      /\ \/ pc' \in {"transfer", "seek_set"} /\ ctx'.state \in Opened
         \/ pc' = "close" /\ ctx'.state = "closing"
  <2>1. CASE \/ Goto("transfer", [ctx EXCEPT !.state = "lseek"]) \/ Goto("transfer", ctx)
             \/ Goto("seek_set", [ctx EXCEPT !.state = "lseek1"])
    BY <1>2, <2>1 DEF Goto, IsContext, States, Opened, Failed
  <2>2. CASE Close(ctx) \/ Close(InternalError(ctx, "invalid_offset"))
    BY <1>2, <2>2, Closes, InternalErrors DEF Failed
  <2>3. ASSUME NEW n,
               \/ Goto("transfer", [ctx EXCEPT !.done = @ + n])
               \/ Close([ctx EXCEPT !.done = @ + n])
        PROVE  /\ IsContext(ctx') /\ ctx'.errnum # "canceled"
               /\ Failed(ctx) => Failed(ctx')
               /\ \/ pc' \in {"transfer", "seek_set"} /\ ctx'.state \in Opened
                  \/ pc' = "close" /\ ctx'.state = "closing"
    <3>1. Same(ctx, [ctx EXCEPT !.done = @ + n])
      BY <1>2 DEF Same, IsContext
    <3> QED
      BY <1>2, <2>3, <3>1, Closes DEF Same, Goto, Failed
  <2> QED
    BY <1>1, <2>1, <2>2, <2>3
<1> QED
  BY <1>1, <1>2, <1>3
  DEF Inv, Fields, HandleInv, NextInv, CallInv, ReadyInv, Moving, Opened, msgVars, Failed

\* The end of a packet.
LEMMA TransferStep ==
    ASSUME Disciplined, Inv, Transfer
    PROVE  Inv'
<1>1. pc = "transfer" /\ UNCHANGED <<cancel, handle>>
  BY DEF Transfer, appVars
<1>2. /\ IsContext(ctx) /\ ctx.state \in Opened /\ ctx.errnum # "canceled" /\ ~cancel
      /\ call = IF req.op = "put" THEN "have" ELSE "need"
      /\ req.op \in {"put", "get"}
  BY <1>1 DEF Inv, Fields, NextInv, CallInv, Moving
<1>3. CASE left > 0 /\ Stays /\ Goto(IF req.op = "put" THEN "write" ELSE "read", ctx)
  BY <1>1, <1>2, <1>3
  DEF Inv, Fields, HandleInv, NextInv, CallInv, ReadyInv, Moving, Opened, Stays, msgVars,
      Goto, Failed
<1>4. CASE req.op = "put" /\ ~(left > 0)
  <2> DEFINE c == [ctx EXCEPT !.done = 0, !.offset = @ + Written]
  <2>1. Same(ctx, c)
    BY <1>2 DEF Same, IsContext
  <2>2. CASE ~LastPart /\ ReturnWorking /\ ctx' = c
    <3>1. /\ pc' = "idle" /\ UNCHANGED <<req, call, phase>> /\ part' = part + 1
      BY <1>2, <1>4, <2>2 DEF ReturnWorking
    <3> QED
      BY <1>1, <1>2, <1>4, <2>1, <2>2, <3>1
      DEF Inv, Fields, HandleInv, NextInv, CallInv, ReadyInv, Moving, Opened, Same, Failed
  <2>3. CASE Stays /\ Goto("truncate", c)
    BY <1>1, <1>2, <1>4, <2>1, <2>3
    DEF Inv, Fields, HandleInv, NextInv, CallInv, ReadyInv, Moving, Opened, Same, Failed,
        Stays, msgVars, Goto
  <2>4. CASE Stays /\ Close(c)
    <3>1. pc' = "close" /\ ctx'.state = "closing" /\ IsContext(ctx') /\ ctx'.errnum = ctx.errnum
      BY <1>2, <2>1, <2>4, Closes DEF Same
    <3> QED
      BY <1>1, <1>2, <1>4, <2>4, <3>1
      DEF Inv, Fields, HandleInv, NextInv, CallInv, ReadyInv, Moving, Opened, Failed,
          Stays, msgVars
  <2> QED
    BY <1>4, <2>2, <2>3, <2>4 DEF Transfer
<1>5. CASE req.op = "get" /\ ~(left > 0)
  <2>1. CASE Stays /\ Close(ctx)
    <3>1. pc' = "close" /\ ctx'.state = "closing" /\ IsContext(ctx') /\ ctx'.errnum = ctx.errnum
      BY <1>2, <2>1, Closes
    <3> QED
      BY <1>1, <1>2, <1>5, <2>1, <3>1
      DEF Inv, Fields, HandleInv, NextInv, CallInv, ReadyInv, Moving, Opened, Failed,
          Stays, msgVars
  <2>2. CASE Send(buf, "more") /\ ctx' = ctx
    BY <1>1, <1>2, <1>5, <2>2
    DEF Inv, Fields, HandleInv, NextInv, CallInv, ReadyInv, Moving, Opened, Failed, Send
  <2> QED
    BY <1>5, <2>1, <2>2 DEF Transfer
<1> QED
  BY <1>2, <1>3, <1>4, <1>5 DEF Transfer

\* The callbacks that close or remove the file, tell its status or go through a directory.
LEMMA OtherCallbackStep ==
    ASSUME Disciplined, Inv,
           CloseDone \/ RemoveDone \/ StatDone \/ OpenDirDone \/ StatEntryDone \/ HashDone
    PROVE  Inv'
<1>1. UNCHANGED <<msgVars, cancel>>
  BY
  DEF CloseDone, RemoveDone, StatDone, OpenDirDone, StatEntryDone, HashDone, Does, Stays
<1>2. IsContext(ctx)
  BY DEF Inv, Fields
<1>3. CASE CloseDone
  <2>1. /\ pc = "close" /\ pc' = "finish" /\ handle' = "none"
        /\ IsContext(ctx') /\ ctx'.state = "closed" /\ ctx'.errnum = ctx.errnum
    BY <1>2, <1>3 DEF CloseDone, Does, Goto, IsContext, States
  <2> QED
    BY <1>1, <1>2, <2>1
    DEF Inv, Fields, HandleInv, NextInv, CallInv, ReadyInv, Moving, Opened, msgVars,
        Failed
<1>4. CASE RemoveDone
  <2>1. pc = "remove" /\ pc' = "finish" /\ UNCHANGED <<handle, ctx>>
    BY <1>4 DEF RemoveDone, Does, Goto
  <2> QED
    BY <1>1, <1>2, <2>1
    DEF Inv, Fields, HandleInv, NextInv, CallInv, ReadyInv, Moving, Opened, msgVars,
        Failed
<1>5. CASE StatDone
  <2>1. /\ pc = "stat" /\ pc' \in {"opendir", "finish"} /\ handle' = handle
        /\ IsContext(ctx') /\ ctx'.state = "stat" /\ ctx'.errnum = ctx.errnum
    BY <1>2, <1>5 DEF StatDone, Does, Goto, IsContext, States, appVars
  <2> QED
    BY <1>1, <1>2, <2>1
    DEF Inv, Fields, HandleInv, NextInv, CallInv, ReadyInv, Moving, Opened, msgVars,
        Failed
<1>6. CASE OpenDirDone
  <2>1. /\ pc = "opendir" /\ pc' = "finish" /\ handle' = "dir"
        /\ IsContext(ctx') /\ ctx'.state = "open" /\ ctx'.errnum = ctx.errnum
    BY <1>2, <1>6 DEF OpenDirDone, Does, Goto, IsContext, States
  <2> QED
    BY <1>1, <1>2, <2>1
    DEF Inv, Fields, HandleInv, NextInv, CallInv, ReadyInv, Moving, Opened, msgVars,
        Failed
<1>7. CASE StatEntryDone
  <2>1. /\ pc = "stat_entry" /\ pc' \in {"hash", "entry"} /\ handle' = handle
        /\ IsContext(ctx') /\ ctx'.state = "stat_dir_entry" /\ ctx'.errnum = ctx.errnum
    BY <1>2, <1>7 DEF StatEntryDone, Does, Goto, IsContext, States, appVars
  <2> QED
    BY <1>1, <1>2, <2>1
    DEF Inv, Fields, HandleInv, NextInv, CallInv, ReadyInv, Moving, Opened, msgVars,
        Failed
<1>8. CASE HashDone
  <2>1. pc = "hash" /\ pc' = "entry" /\ UNCHANGED <<handle, ctx>>
    BY <1>8 DEF HashDone, Does, Goto, appVars
  <2> QED
    BY <1>1, <1>2, <2>1
    DEF Inv, Fields, HandleInv, NextInv, CallInv, ReadyInv, Moving, Opened, msgVars,
        Failed
<1> QED
  BY <1>3, <1>4, <1>5, <1>6, <1>7, <1>8

\* The next entry of the directory, or its end.
LEMMA ReadDirStep ==
    ASSUME Disciplined, Inv, ReadDirDone
    PROVE  Inv'
<1>1. /\ pc = "readdir" /\ UNCHANGED <<msgVars, cancel, handle>>
      /\ \/ Close(ctx) \/ Goto("readdir", ctx)
         \/ Goto("stat_entry", [ctx EXCEPT !.state = "readdir"])
  BY DEF ReadDirDone, Does, Stays
<1>2. IsContext(ctx) /\ ctx.state \in Opened
  BY <1>1 DEF Inv, Fields, NextInv
<1>3. /\ IsContext(ctx') /\ ctx'.errnum = ctx.errnum
      /\ \/ pc' = "close" /\ ctx'.state = "closing"
         \/ pc' \in {"readdir", "stat_entry"} /\ ctx'.state \in Opened
  <2>1. CASE Close(ctx)
    BY <1>2, <2>1, Closes
  <2>2. CASE \/ Goto("readdir", ctx)
             \/ Goto("stat_entry", [ctx EXCEPT !.state = "readdir"])
    BY <1>2, <2>2 DEF Goto, IsContext, States, Opened
  <2> QED
    BY <1>1, <2>1, <2>2
<1> QED
  BY <1>1, <1>2, <1>3
  DEF Inv, Fields, HandleInv, NextInv, CallInv, ReadyInv, Moving, Opened, msgVars, Failed

\* An entry goes out.
LEMMA EntryStep ==
    ASSUME Disciplined, Inv, Entry
    PROVE  Inv'
<1>1. /\ pc = "entry" /\ pc' = "idle" /\ UNCHANGED <<cancel, handle, req, part, call>>
      /\ IF ctx.state = "stat" THEN phase' = "sent" /\ ctx' = ctx
         ELSE phase' = phase /\ ctx' = [ctx EXCEPT !.state = "open"]
  BY DEF Entry, Does, Send, appVars
<1>2. IsContext(ctx)
  BY DEF Inv, Fields
<1>3. /\ IsContext(ctx') /\ ctx'.errnum = ctx.errnum
      /\ \/ ctx.state = "stat" /\ ctx'.state = "stat" /\ phase' = "sent"
         \/ ctx.state # "stat" /\ ctx'.state = "open" /\ phase' = phase
  BY <1>1, <1>2 DEF IsContext, States
<1> QED
  BY <1>1, <1>3
  DEF Inv, Fields, HandleInv, NextInv, CallInv, ReadyInv, Moving, Opened, Failed

\* The call returns.
LEMMA FinishStep ==
    ASSUME Disciplined, Inv, Finish
    PROVE  Inv'
<1>1. pc = "finish" /\ ctx' = ctx /\ UNCHANGED <<cancel, handle, req, call>>
  BY DEF Finish, Does, appVars, Return, ReturnAbort, ReturnWorking, Send, Stays, msgVars,
         Report, Goto
<1>2. CASE call # "need" \/ ctx.aborted \/ cancel
  <2>1. CASE ctx.aborted
    <3>1. pc' = "idle" /\ part' = part /\ phase' = IF call = "cleanup" THEN "freed" ELSE "aborted"
      BY <1>2, <2>1 DEF Finish, Return, ReturnAbort
    <3> QED
      BY <1>1, <2>1, <3>1
      DEF Inv, Fields, HandleInv, NextInv, CallInv, ReadyInv, Moving, Opened, Failed
  <2>2. CASE ~ctx.aborted
    <3>1. ReturnWorking
      BY <1>2, <2>2 DEF Finish, Return
    <3>2. CASE call \in {"error", "cleanup"}
      <4>1. pc' = "idle" /\ part' = part /\ phase' = "freed"
        BY <3>1, <3>2 DEF ReturnWorking
      <4> QED
        BY <1>1, <3>2, <4>1
        DEF Inv, Fields, HandleInv, NextInv, CallInv, ReadyInv, Moving, Opened, Failed
    <3>3. CASE call \in {"have", "need"} /\ cancel
      <4>1. pc' = "idle" /\ part' \in {part, part + 1} /\ phase' = "error"
                /\ (part' # part => ~LastPart)
        BY <3>1, <3>3 DEF ReturnWorking
      <4>2. req.op # "put" => part' = part
        BY <4>1 DEF LastPart, Inv, Fields, CallInv, Disciplined
      <4> QED
        BY <1>1, <3>3, <4>1, <4>2
        DEF Inv, Fields, HandleInv, NextInv, CallInv, ReadyInv, Moving, Opened, Failed
    <3>4. CASE call = "have" /\ ~cancel /\ LastPart
      <4>1. pc' = "idle" /\ part' = part /\ phase' = "response"
        BY <3>1, <3>4 DEF ReturnWorking
      <4> QED
        BY <1>1, <2>2, <3>4, <4>1
        DEF Inv, Fields, HandleInv, NextInv, CallInv, ReadyInv, Moving, Opened, Failed
    <3>5. CASE call = "have" /\ ~cancel /\ ~LastPart
      <4>1. pc' = "idle" /\ part' = part + 1 /\ phase' = phase
        BY <3>1, <3>5 DEF ReturnWorking
      <4>2. req.op = "put"
        BY <3>5 DEF LastPart, Inv, Fields, CallInv, Disciplined
      <4> QED
        BY <1>1, <3>5, <4>1, <4>2
        DEF Inv, Fields, HandleInv, NextInv, CallInv, ReadyInv, Moving, Opened, Failed
    <3> QED
      BY <1>1, <1>2, <2>2, <3>2, <3>3, <3>4, <3>5 DEF Inv, CallInv
  <2> QED
    BY <2>1, <2>2
<1>3. CASE ~(call # "need" \/ ctx.aborted \/ cancel) /\ ~Failed(ctx)
  <2>1. pc' = "idle" /\ part' = part /\ phase' = "sent"
    BY <1>3 DEF Finish, Send
  <2> QED
    BY <1>1, <1>3, <2>1
    DEF Inv, Fields, HandleInv, NextInv, CallInv, ReadyInv, Moving, Opened, Failed
<1>4. CASE ~(call # "need" \/ ctx.aborted \/ cancel) /\ Failed(ctx)
  <2>1. pc' \in {"report", "get_error"} /\ UNCHANGED <<part, phase>>
    BY <1>4 DEF Finish, Stays, msgVars, Report, Goto
  <2> QED
    BY <1>1, <1>4, <2>1
    DEF Inv, Fields, HandleInv, NextInv, CallInv, ReadyInv, Moving, Opened, Failed
<1> QED
  BY <1>2, <1>3, <1>4

\* The error goes to Device Cloud; the application is told of the end.
LEMMA ReportStep ==
    ASSUME Disciplined, Inv, InternalReport \/ GetError \/ SessionError
    PROVE  Inv'
<1>1. CASE InternalReport \/ GetError
  <2>1. /\ pc \in {"report", "get_error"} /\ pc' = "idle"
        /\ phase' \in {"sent", "error", "aborted", "freed"}
        /\ UNCHANGED <<req, part, call, cancel, handle, ctx>>
    BY <1>1 DEF InternalReport, GetError, Does, ErrorResponse, Send, ReturnAbort, appVars
  <2> QED
    BY <2>1 DEF Inv, Fields, HandleInv, NextInv, CallInv, ReadyInv, Moving, Opened, Failed
<1>2. CASE SessionError
  <2>1. PICK aborts : Close([ctx EXCEPT !.told = TRUE, !.aborted = @ \/ aborts])
    BY <1>2 DEF SessionError
  <2> DEFINE c == [ctx EXCEPT !.told = TRUE, !.aborted = @ \/ aborts]
  <2>2. pc = "session_error" /\ UNCHANGED <<msgVars, cancel, handle>>
    BY <1>2 DEF SessionError, Does, Stays, appVars
  <2>3. IsContext(c) /\ c.state = ctx.state /\ c.errnum = ctx.errnum
    BY DEF Inv, Fields, IsContext
  <2>4. /\ IsContext(ctx') /\ ctx'.errnum = ctx.errnum
        /\ \/ /\ ctx.state \in Opened \cup {"closing"}
              /\ pc' = "close" /\ ctx'.state = "closing"
           \/ /\ ctx.state \notin Opened \cup {"closing"}
              /\ pc' = "finish" /\ ctx'.state = ctx.state
    BY <2>1, <2>3, Closes
  <2> QED
    BY <2>2, <2>4
    DEF Inv, Fields, HandleInv, NextInv, CallInv, ReadyInv, Moving, Opened, msgVars,
        Failed
<1> QED
  BY <1>1, <1>2

-----------------------------------------------------------------------------
\* The invariant holds at first, and every step keeps it.
LEMMA InvInit ==
    ASSUME Disciplined, Init
    PROVE  Inv
<1>1. IsContext(ctx) /\ ctx.state = "none" /\ ctx.errnum = "none"
  BY DEF Init, FreshContexts, IsContext, States
<1> QED
  BY <1>1
  DEF Init, Inv, Fields, HandleInv, NextInv, CallInv, ReadyInv, Moving, Opened, Failed

\* Every step keeps the invariant of the callbacks: one step lemma per handler.
LEMMA InvStep ==
    ASSUME Disciplined, Inv, [Next]_vars
    PROVE  Inv'
<1>1. CASE UNCHANGED vars
  BY <1>1
  DEF vars, msgVars, appVars, Inv, Fields, HandleInv, NextInv, CallInv, ReadyInv, Moving,
      Opened, Failed
<1>2. CASE Next
  BY <1>2, PutRequestStep, RequestStep, ResponseStep, EndStep, BusyStep, FailStep,
     OpenDoneStep, MoveStep, TransferStep, OtherCallbackStep, ReadDirStep, EntryStep,
     FinishStep, ReportStep
  DEF Next, Have, Need, Between, Callback
<1> QED
  BY <1>1, <1>2

\* The application is asked for nothing on a handle that it does not have open, opens
\* once, and a cancelled session is not reported in a response, however the calls are
\* repeated after busy callbacks.
THEOREM CallbacksComeInOrder ==
    ASSUME Disciplined
    PROVE  Spec => []CallbacksInOrder
<1>1. Init => Inv
  BY InvInit
<1>2. Inv /\ [Next]_vars => Inv'
  BY InvStep
<1>3. Inv => CallbacksInOrder
  BY
  DEF CallbacksInOrder, Inv, Fields, HandleInv, NextInv, CallInv, ReadyInv, Moving, Opened
<1> QED
  BY <1>1, <1>2, <1>3, PTL DEF Spec

\* What was opened is closed when the session is over, whether by its response, an error
\* packet, an error of Device Cloud or the end of the connection.
THEOREM FilesAreClosed ==
    ASSUME Disciplined
    PROVE  Spec => []ClosedWhenDone
<1>1. Init => Inv
  BY InvInit
<1>2. Inv /\ [Next]_vars => Inv'
  BY InvStep
<1>3. Inv => ClosedWhenDone
  BY
  DEF ClosedWhenDone, Inv, Fields, HandleInv, NextInv, CallInv, ReadyInv, Moving, Opened
<1> QED
  BY <1>1, <1>2, <1>3, PTL DEF Spec
-----------------------------------------------------------------------------
\* The replies are true.  The awkward moments are left out: after a write or a truncation of
\* a put that is cut, or the seek, is busy, the call that is repeated does not go on where it
\* was.  (The run of the put that is cut shows one of them.)
Steady == Retries = {}

\* The session has gone wrong for no reason yet.
Clean == ~failed /\ ~ctx.told /\ ~ctx.aborted /\ ~Failed(ctx) /\ ~ctx.internal
\* The callbacks and labels that come only as long as it has not.
Working == Moving \cup {"open", "opendir", "stat", "remove", "readdir", "stat_entry", "hash",
                        "entry"}
Live == phase \in {"request", "response"}
\* A reason to tell Device Cloud of an error.
Reason == failed \/ req.path # "ok" \/ req.offset > OldSize

Flags == /\ failed \in BOOLEAN /\ ctx.told \in BOOLEAN /\ ctx.aborted \in BOOLEAN
         /\ ctx.internal \in BOOLEAN /\ ctx.truncate \in BOOLEAN

\* What has gone wrong is noted in the context.
ErrorInv ==
    /\ failed => Failed(ctx)
    /\ Failed(ctx) \/ ctx.internal => Reason
    /\ ctx.internal /\ ~Failed(ctx) => req.path = "long"
    /\ pc \in {"report", "get_error"} => Failed(ctx) \/ ctx.internal

\* Who goes on when something has gone wrong.
WorkInv ==
    /\ pc \in Working => Clean
    /\ pc = "idle" /\ Live /\ (ctx.told \/ ctx.aborted) => ctx.state \in {"closing", "closed"}
    /\ \/ pc \in {"report", "get_error"} /\ (ctx.told \/ ctx.aborted)
       \/ pc = "finish" /\ call \in {"have", "need"} /\ ctx.told
       => ctx.state \in {"closing", "closed"}
    /\ phase = "request" /\ req.op # "put" /\ pc # "finish" => Clean
    /\ pc = "finish" /\ call \in {"error", "cleanup"} => ctx.told
    /\ pc = "close" /\ call \in {"error", "cleanup"} => ctx.told
    /\ pc = "finish" /\ call = "need" /\ req.op \in {"put", "rm"} => ~ctx.internal
    /\ Clean /\ req.path # "ok" => phase = "request" /\ part = 1 /\ pc \in {"idle", "session_error"}

\* The response so far.
Sofar == IF pc # "idle" /\ call = "need" THEN out \o buf ELSE out

RmInv ==
    req.op = "rm" /\ Clean /\ (phase = "response" \/ pc = "finish") => file = << >>

\* A get.  The response s holds n bytes of the file from the offset on.
Slices(s, offset, n) ==
    /\ s \in Seq(Int) /\ Len(s) = n + 1 /\ s[1] = 0
    /\ \A i \in 1 .. n : s[i + 1] = -(offset + i)
Sought == req.offset + ctx.done
GetData ==
    /\ file = Old /\ ~ctx.truncate /\ ctx.done \in Nat
    /\ phase = "request" => out = << >>
    /\ pc = "open" \/ ctx.state # "none" => ctx.offset = req.offset /\ ctx.length = req.length
    /\ ctx.state \in {"none", "open", "lseek1", "lseek", "closing", "closed"}
    /\ ctx.state \in {"none", "open", "lseek1"} => ctx.done = 0
    /\ ctx.state = "open" => pos = 0 /\ out = << >>
    /\ ctx.state = "lseek1" => pc = "seek_set" /\ req.offset <= OldSize
    /\ pc = "seek_set" => ctx.state = "lseek1"
    /\ pc = "seek_end" => ctx.state = "open" /\ buf = <<0>> /\ out = << >>
    /\ pc = "seek_set" => buf = <<0>> /\ out = << >>
    /\ ctx.state = "lseek" => pos = Sought
    /\ ctx.state \in {"lseek", "closing", "closed"} =>
          ctx.done <= req.length /\ Sought <= OldSize
    /\ ctx.state \in {"closing", "closed"} =>
          /\ ctx.done = req.length \/ Sought = OldSize
          /\ Sofar # << >>
    /\ pc \in {"transfer", "read"} =>
          ctx.state = "lseek" /\ left \in Nat /\ ctx.done + left <= req.length
    /\ pc = "read" => left > 0
    /\ pc \notin {"write", "truncate"}
    /\ IF Sofar = << >> THEN ctx.done = 0 ELSE Slices(Sofar, req.offset, ctx.done)
    /\ out \in Seq(Int) /\ (pc # "idle" /\ call = "need" => buf \in Seq(Int))
    /\ pc # "idle" /\ call = "need" => Sofar # << >>
GetInv == req.op = "get" /\ Clean /\ Live => GetData

\* A listing.
Seen == IF ctx.state \in {"readdir", "stat_dir_entry"} THEN cursor - 1 ELSE cursor
LsData ==
    /\ out \in Seq(Int)
    /\ cursor \in 0 .. Len(Entries)
    /\ ctx.state \in {"none", "stat", "open", "readdir", "stat_dir_entry", "closing", "closed"}
    /\ phase = "request" => out = << >>
    /\ ~req.dir => ctx.state \in {"none", "stat"} /\ out = << >>
    /\ ~req.dir /\ ctx.state = "stat" => phase = "response" \/ pc = "finish"
    /\ pc = "opendir" => req.dir
    /\ req.dir /\ phase = "response" => ctx.state \notin {"none", "stat"}
    /\ req.dir /\ phase = "request" /\ ctx.state \notin {"none", "stat"} =>
          cursor = 0 /\ ctx.state = "open"
    /\ pc = "finish" /\ call = "have" /\ req.dir => ctx.state = "open"
    /\ pc = "finish" /\ call = "need" => ctx.state = "closed"
    /\ pc = "readdir" => ctx.state = "open"
    /\ pc = "stat_entry" => ctx.state = "readdir"
    /\ pc \in {"hash", "entry"} => ctx.state \in {"stat", "stat_dir_entry"}
    /\ ctx.state \in {"readdir", "stat_dir_entry"} =>
          cursor \in 1 .. Len(Entries) /\ Entries[cursor] # "dot"
    /\ ctx.state \in {"closing", "closed"} => cursor = Len(Entries) /\ Sofar # << >>
    /\ req.dir /\ ctx.state \notin {"none", "stat"} =>
          IF Sofar = << >> THEN \A e \in 1 .. Seen : Entries[e] = "dot" ELSE Lists(Sofar, Seen)
    /\ pc # "idle" /\ call = "need" =>
          /\ Sofar # << >> /\ buf \in Seq(Int)
          /\ pc \in {"readdir", "stat_entry", "hash", "entry"} =>
                buf = IF Fresh THEN <<0>> ELSE << >>
LsInv == req.op = "ls" /\ Clean /\ Live => LsData

\* A put.  This much of the payload is written.
End == req.cuts[part]
Done == CASE pc \in {"transfer", "write"} -> End - left
          [] pc = "truncate" \/ ctx.state \in {"closing", "closed"} -> End
          [] OTHER -> PayloadBefore(part) + ctx.done
\* The file was cut when it was opened.
Emptied == req.truncate /\ req.offset = 0 /\ ctx.state # "none"
Bigger(m, n) == IF m < n THEN n ELSE m
\* The file f holds n bytes of the payload from the offset o on; cut is whether it ends there.
Holds(f, o, n, cut) ==
    /\ Len(f) = IF cut THEN o + n ELSE Bigger(OldSize, o + n)
    /\ \A i \in 1 .. Len(f) : f[i] = IF o < i /\ i <= o + n THEN i - o ELSE -i
PutData ==
    /\ file \in Seq(Int) /\ part \in DOMAIN req.cuts
    /\ ctx.state \in {"none", "open", "lseek1", "lseek", "closing", "closed"}
    /\ ctx.done \in Nat /\ ctx.done <= Packet
    /\ ctx.state \in {"none", "open", "lseek1"} => part = 1 /\ ctx.done = 0
    /\ ctx.truncate => req.truncate
    /\ req.truncate /\ ctx.state \notin {"none", "closing", "closed"} /\ req.offset # 0 =>
          ctx.truncate
    /\ pc = "open" => ctx.truncate = req.truncate /\ ctx.state = "none"
    /\ pc \in {"open", "seek_end", "seek_set"} => part = 1 /\ ctx.offset = req.offset
    /\ pc = "seek_end" => ctx.state = "open" /\ req.offset # 0
    /\ pc = "seek_set" => ctx.state = "lseek1"
    /\ ctx.state = "open" => pos = 0
    /\ ctx.state = "lseek1" => pc = "seek_set" /\ req.offset <= OldSize
    /\ ctx.state = "lseek" => pos = req.offset + Done /\ req.offset <= OldSize
    /\ pc \in {"transfer", "write", "truncate"} => ctx.state = "lseek"
    /\ pc \in {"transfer", "write"} => left \in Nat /\ ctx.done + left <= Packet
    /\ pc = "write" => left > 0
    /\ pc # "read"
    /\ pc = "truncate" => LastPart /\ req.truncate /\ ctx.offset = req.offset + End
    /\ req.truncate /\ part = 1 => ctx.done = 0
    /\ req.truncate /\ pc \in {"transfer", "write"} =>
          ctx.offset = req.offset + PayloadBefore(part) + ctx.done
    /\ req.truncate /\ part > 1 /\ ctx.state = "lseek" /\ pc # "truncate" =>
          ctx.offset = req.offset + PayloadBefore(part) + ctx.done
    /\ ctx.state \in {"none", "open", "lseek1"} => file = IF Emptied THEN << >> ELSE Old
    /\ ctx.state = "lseek" => Holds(file, req.offset, Done, Emptied)
    /\ ctx.state \in {"closing", "closed"} =>
          LastPart /\ req.offset <= OldSize /\ Holds(file, req.offset, End, req.truncate)
    /\ pc \in {"close", "truncate"} => LastPart
    /\ pc = "finish" \/ phase = "response" => ctx.state = "closed"
PutInv == req.op = "put" /\ req.path = "ok" /\ Clean /\ Live => PutData

\* What was told is true.
SentInv ==
    /\ reply # "none" => phase = "sent"
    /\ reply = "success" /\ ~ctx.told => ~failed /\ Outcome
    /\ reply = "error" => Reason
    /\ reply \in {"none", "success", "error"}

DataInv == Flags /\ ErrorInv /\ WorkInv /\ RmInv /\ GetInv /\ LsInv /\ PutInv /\ SentInv

-----------------------------------------------------------------------------
\* What the requests may hold.
LEMMA RequestFacts ==
    ASSUME NEW r \in Requests
    PROVE  /\ r.op \in {"put", "get", "ls", "rm"} /\ r.path \in {"ok", "bad", "long"}
           /\ r.offset \in Nat /\ r.length \in Nat
           /\ r.truncate \in BOOLEAN /\ r.dir \in BOOLEAN /\ r.hash \in BOOLEAN
           /\ r.cuts \in Seq(Nat) /\ r.cuts # << >>
           /\ \A p, q \in DOMAIN r.cuts : p < q => r.cuts[p] <= r.cuts[q]
  BY ConstantsAssumption DEF Request

\* Two contexts that differ in their states only.
Kept(c, d) ==
    /\ d.errnum = c.errnum /\ d.internal = c.internal /\ d.aborted = c.aborted
    /\ d.told = c.told /\ d.truncate = c.truncate /\ d.done = c.done
    /\ d.offset = c.offset /\ d.length = c.length

\* Close and Position change the state only.
LEMMA ClosesKeep ==
    ASSUME NEW c, IsContext(c), Close(c)
    PROVE  Kept(c, ctx')
  BY DEF Close, Goto, IsContext, Kept

\* Asking for a position in the file leaves what went wrong as it is.
LEMMA PositionsKeep ==
    ASSUME NEW c, NEW b, IsContext(c), Position(c, b)
    PROVE  Kept(c, ctx')
  BY DEF Position, Goto, IsContext, Kept

\* What the first and the second half of the invariant say of a step.
Base == Flags /\ ErrorInv /\ WorkInv
Further == (Clean' => Clean) /\ (Live' => Live)

\* A packet of a put that arrives: no error is noted but for a path that is too long, and a
\* put that has failed does not go on.
LEMMA PutRequestBase ==
    ASSUME Disciplined, Inv, Base, PutRequest
    PROVE  Base' /\ Further
<1>1. /\ req.op = "put" /\ phase = "request" /\ pc = "idle"
      /\ call' = "have" /\ ~cancel'
      /\ UNCHANGED <<req, phase, part, handle, failed>>
  BY HaveFacts DEF PutRequest, HaveData, Starts
<1> DEFINE c == IF part > 1 THEN ctx
                ELSE [ctx EXCEPT !.truncate = @ \/ req.truncate, !.offset = req.offset]
<1>2. IsContext(ctx) /\ req \in Requests
  BY DEF Inv, Fields
<1>3. /\ IsContext(c) /\ c.state = ctx.state /\ c.errnum = ctx.errnum
      /\ c.internal = ctx.internal /\ c.aborted = ctx.aborted /\ c.told = ctx.told
      /\ c.truncate \in BOOLEAN
  BY <1>2, RequestFacts DEF IsContext, Base, Flags
<1>4. \/ /\ Failed(ctx) \/ ctx.state \in {"closing", "closed"}
         /\ Kept(ctx, ctx') /\ pc' \in {"close", "finish"}
         /\ ctx.state \in {"closing", "closed"} => ctx'.state \in {"closing", "closed"}
      \/ /\ req.path # "ok" /\ ~Failed(ctx) /\ pc' = "finish"
         /\ ctx.state \notin {"closing", "closed"}
         /\ ctx'.internal /\ ctx'.told = ctx.told /\ ctx'.aborted = ctx.aborted
         /\ ctx'.truncate = ctx.truncate /\ (~Failed(ctx') => req.path = "long")
      \/ /\ ~Failed(ctx) /\ ctx.state \notin {"closing", "closed"}
         /\ Kept(c, ctx') /\ pc' \in {"open", "seek_end", "transfer"}
         /\ (req.path = "ok" \/ (part > 1 /\ ctx.state \in Opened))
      \/ /\ ~Failed(ctx) /\ ctx.state \notin {"closing", "closed"}
         /\ ctx' = ctx /\ pc' = "finish"
         /\ ~(part = 1 /\ req.path # "ok")
  <2>1. CASE Failed(ctx) \/ ~Before(ctx, "closing")
    <3>1. Close(ctx) /\ (Failed(ctx) \/ ctx.state \in {"closing", "closed"})
      BY <1>2, <2>1, Ranks DEF PutRequest, IsContext
    <3> QED
      BY <1>2, <3>1, Closes, ClosesKeep
  <2>2. CASE ~(Failed(ctx) \/ ~Before(ctx, "closing"))
    <3>1. ctx.state \notin {"closing", "closed"}
      BY <1>2, <2>2, Ranks DEF IsContext
    <3>2. CASE part = 1 /\ req.path # "ok"
      <4>1. Goto("finish", BadPath(ctx)) /\ req.path \in {"bad", "long"}
        BY <1>2, <2>2, <3>2, RequestFacts DEF PutRequest
      <4> QED
        BY <1>2, <2>2, <3>1, <3>2, <4>1 DEF Goto, BadPath, InternalError, IsContext, Failed
    <3>3. CASE part = 1 /\ req.path = "ok" /\ Before(ctx, "open")
      <4>1. Goto("open", c)
        BY <1>2, <2>2, <3>3, Ranks DEF PutRequest, IsOpen, IsContext
      <4> QED
        BY <2>2, <3>1, <3>3, <4>1 DEF Goto, Kept
    <3>4. CASE part = 1 /\ req.path = "ok" /\ ~Before(ctx, "open") /\ IsOpen(ctx)
      <4>1. Position(c, buf) /\ c.state \in Opened
        BY <1>2, <1>3, <2>2, <3>1, <3>4, Ranks DEF PutRequest, IsContext
      <4> QED
        BY <1>3, <2>2, <3>1, <3>4, <4>1, Positions, PositionsKeep
    <3>5. CASE part > 1 /\ IsOpen(ctx)
      <4>1. Goto("transfer", c) /\ ctx.state \in Opened
        BY <1>2, <2>2, <3>1, <3>5, Ranks DEF PutRequest, IsContext
      <4> QED
        BY <2>2, <3>1, <3>5, <4>1 DEF Goto, Kept
    <3>6. CASE /\ ~(part = 1 /\ req.path # "ok")
               /\ ~(part = 1 /\ req.path = "ok" /\ Before(ctx, "open"))
               /\ ~(part = 1 /\ req.path = "ok" /\ IsOpen(ctx))
               /\ ~(part > 1 /\ IsOpen(ctx))
      <4>1. Goto("finish", ctx)
        BY <2>2, <3>6 DEF PutRequest
      <4> QED
        BY <2>2, <3>1, <3>6, <4>1 DEF Goto
    <3> QED
      BY <3>2, <3>3, <3>4, <3>5, <3>6
  <2> QED
    BY <2>1, <2>2
<1>5. Clean' => Clean
  BY <1>1, <1>3, <1>4 DEF Clean, Kept, Failed
<1>6. pc' \in Working => Clean
  BY <1>1, <1>4 DEF Base, ErrorInv, WorkInv, Clean, Live, Working, Moving, Inv, ReadyInv, Opened
<1>7. Flags' /\ ErrorInv'
  BY <1>1, <1>3, <1>4
  DEF Base, Flags, ErrorInv, Reason, Kept, Failed, WorkInv, Clean
<1>8. WorkInv'
  <2>1. pc' \in Working => Clean'
    BY <1>1, <1>3, <1>4, <1>6 DEF Clean, Kept, Failed, Working, Moving
  <2>2. Clean' /\ req.path # "ok" => FALSE
    <3> SUFFICES ASSUME Clean', req.path # "ok" PROVE FALSE
      OBVIOUS
    <3>1. part = 1 /\ ctx.state = "none"
      BY <1>1, <1>5 DEF Base, WorkInv, Inv, ReadyInv
    <3> QED
      BY <1>1, <1>3, <1>4, <1>5, <3>1 DEF Clean, Kept, Failed
  <2>3. ctx'.told => ctx'.state \in {"closing", "closed"}
    <3>1. ctx.told => ctx.state \in {"closing", "closed"}
      BY <1>1 DEF Base, WorkInv, Live
    <3> QED
      BY <1>3, <1>4, <3>1 DEF Kept
  <2> QED
    BY <1>1, <1>4, <2>1, <2>2, <2>3 DEF WorkInv, Live
<1> QED
  BY <1>1, <1>5, <1>7, <1>8 DEF Base, Further, Live

\* The request of a get, a remove or a listing: the same.
LEMMA RequestBase ==
    ASSUME Disciplined, Inv, Base, GetRequest \/ RmRequest \/ LsRequest
    PROVE  Base' /\ Further
<1>1. /\ req.op \in {"get", "rm", "ls"} /\ phase = "request" /\ pc = "idle"
      /\ call' = "have" /\ ~cancel'
      /\ UNCHANGED <<req, phase, part, handle, failed>>
  BY HaveFacts DEF GetRequest, RmRequest, LsRequest, HaveData, Starts
<1>2. IsContext(ctx) /\ req \in Requests /\ Clean
  BY <1>1 DEF Inv, Fields, Base, WorkInv
<1>3. \/ /\ req.path # "ok" /\ pc' = "finish"
         /\ ctx'.internal /\ ctx'.told = ctx.told /\ ctx'.aborted = ctx.aborted
         /\ ctx'.truncate = ctx.truncate /\ (~Failed(ctx') => req.path = "long")
      \/ /\ req.path = "ok" /\ pc' \in {"open", "remove", "stat", "opendir"}
         /\ ctx'.told = ctx.told /\ ctx'.aborted = ctx.aborted
         /\ ctx'.internal = ctx.internal
         /\ ctx'.truncate = ctx.truncate /\ ctx'.errnum = ctx.errnum
  <2>1. CASE req.path # "ok"
    <3>1. Goto("finish", BadPath(ctx)) /\ req.path \in {"bad", "long"}
      BY <1>1, <1>2, <2>1, RequestFacts DEF GetRequest, RmRequest, LsRequest
    <3> QED
      BY <1>2, <2>1, <3>1 DEF Goto, BadPath, InternalError, IsContext, Failed
  <2>2. CASE req.path = "ok"
    <3>1. \/ Goto("open", [ctx EXCEPT !.offset = req.offset, !.length = req.length])
          \/ \E l \in {"remove", "stat", "opendir"} : Goto(l, ctx)
      BY <2>2 DEF GetRequest, RmRequest, LsRequest
    <3> QED
      BY <1>2, <2>2, <3>1 DEF Goto, IsContext
  <2> QED
    BY <2>1, <2>2
<1> QED
  BY <1>1, <1>2, <1>3
  DEF Base, Flags, ErrorInv, WorkInv, Further, Live, Reason, Clean, Failed, Working, Moving

\* A response that is asked for: only a session in order goes on working; any other reports.
LEMMA ResponseBase ==
    ASSUME Disciplined, Inv, Base, NoDataResponse \/ GetResponse \/ LsResponse
    PROVE  Base' /\ Further
<1>1. /\ phase = "response" /\ pc = "idle" /\ call' = "need" /\ ~cancel'
      /\ UNCHANGED <<req, phase, part, handle, failed>>
  BY NeedFacts DEF NoDataResponse, GetResponse, LsResponse, NeedData, Starts
<1>2. IsContext(ctx) /\ req \in Requests
  BY DEF Inv, Fields
<1>3. CASE NoDataResponse
  <2>1. /\ ctx' = ctx /\ req.op \in {"put", "rm"}
        /\ \/ pc' = "finish" /\ ~Failed(ctx) /\ ~ctx.internal
           \/ pc' \in {"report", "get_error"} /\ (Failed(ctx) \/ ctx.internal)
    BY <1>3 DEF NoDataResponse, Report, Goto
  <2> QED
    BY <1>1, <2>1
    DEF Base, Flags, ErrorInv, WorkInv, Further, Live, Reason, Clean, Failed, Working, Moving
<1>4. CASE GetResponse \/ LsResponse
  <2>1. req.op \in {"get", "ls"} /\ req.path # "long"
    BY <1>2, <1>4 DEF GetResponse, LsResponse, Disciplined
  <2>2. /\ Kept(ctx, ctx')
        /\ \/ pc' \in {"close", "finish"}
           \/ ~Failed(ctx) /\ ctx.state \notin {"closing", "closed"}
    <3>1. CASE Failed(ctx) \/ ~Before(ctx, "closing")
      BY <1>2, <1>4, <3>1, Closes, ClosesKeep DEF GetResponse, LsResponse
    <3>2. CASE ~(Failed(ctx) \/ ~Before(ctx, "closing"))
      <4>1. ~Failed(ctx) /\ ctx.state \notin {"closing", "closed"}
        BY <1>2, <3>2, Ranks DEF IsContext
      <4>2. (\E b : Position(ctx, b)) \/ ctx' = ctx
        BY <1>4, <3>2 DEF GetResponse, LsResponse, Goto
      <4> QED
        BY <1>2, <4>1, <4>2, PositionsKeep DEF Kept
    <3> QED
      BY <3>1, <3>2
  <2>3. pc' \notin {"report", "get_error", "idle", "session_error"}
    <3>1. CASE Failed(ctx) \/ ~Before(ctx, "closing")
      BY <1>2, <1>4, <3>1, Closes DEF GetResponse, LsResponse
    <3>2. CASE ~(Failed(ctx) \/ ~Before(ctx, "closing"))
      <4>1. \/ \E b : Position(ctx, b)
            \/ \E l \in {"transfer", "hash", "entry", "stat_entry", "readdir"} : Goto(l, ctx)
        BY <1>4, <3>2 DEF GetResponse, LsResponse
      <4> QED
        BY <4>1 DEF Goto, Position
    <3> QED
      BY <3>1, <3>2
  <2>4. Clean' <=> Clean
    BY <1>1, <2>2 DEF Kept, Clean, Failed
  <2>5. pc' \in Working => Clean
    BY <1>1, <2>1, <2>2 DEF Base, ErrorInv, WorkInv, Clean, Live, Working, Moving
  <2>6. ~(Clean /\ req.path # "ok")
    BY <1>1 DEF Base, WorkInv
  <2>7. ctx'.told => ctx'.state \in {"closing", "closed"}
    <3>1. ctx'.told => ctx.told
      BY <2>2 DEF Kept
    <3>2. ctx.told => ctx.state \in {"closing", "closed"}
      BY <1>1 DEF Base, WorkInv, Live
    <3>3. ~Before(ctx, "closing") => ctx'.state \in {"closing", "closed"}
      BY <1>2, <1>4, Closes, Ranks DEF GetResponse, LsResponse, IsContext
    <3> QED
      BY <1>2, <3>1, <3>2, <3>3, Ranks DEF IsContext
  <2> QED
    BY <1>1, <2>1, <2>2, <2>3, <2>4, <2>5, <2>6, <2>7
    DEF Base, Flags, ErrorInv, WorkInv, Further, Live, Reason, Kept, Failed
<1> QED
  BY <1>3, <1>4

\* Device Cloud or the connection ends the session: nothing goes wrong for that.
LEMMA EndBase ==
    ASSUME Disciplined, Inv, Base, CloudError \/ Lose
    PROVE  Base' /\ Further /\ (Clean' => pc' = "session_error" /\ ctx' = ctx)
<1>1. PICK reason \in {"error", "cleanup"} : Inform(reason)
  BY DEF CloudError, Lose
<1>2. /\ pc = "idle" /\ call' \in {"error", "cleanup"} /\ cancel'
      /\ UNCHANGED <<req, phase, part, handle, failed>>
  BY <1>1 DEF Inform, Starts, appVars
<1>3. phase \in {"request", "response", "aborted"}
  BY DEF CloudError, Lose, HasSession
<1>4. /\ IsContext(ctx) /\ Kept(ctx, ctx')
      /\ \/ ctx.told /\ pc' \in {"close", "finish"}
         \/ ctx' = ctx /\ pc' = "session_error"
  BY <1>1, Closes, ClosesKeep DEF Inform, Goto, Inv, Fields, Kept
<1> QED
  BY <1>2, <1>3, <1>4
  DEF Base, Flags, ErrorInv, WorkInv, Further, Live, Reason, Clean, Failed, Working, Moving,
      Kept, Inv, ReadyInv

\* A callback that is busy leaves the context as it is, but for the count of a write.
LEMMA BusyBase ==
    ASSUME Disciplined, Inv, Base, NEW cb \in Callbacks, IsBusy(cb)
    PROVE  Base' /\ Further
<1>1. /\ pc = cb /\ MayBeBusy(cb) /\ pc' = "idle"
      /\ UNCHANGED <<req, call, cancel, part, handle, failed>>
      /\ phase' # phase => call = "cleanup"
      /\ phase' \in {phase, "freed"}
  BY DEF IsBusy, Send, ReturnPending, appVars
<1>2. IsContext(ctx) /\ Same(ctx, ctx') /\ ctx'.told = ctx.told /\ ctx'.internal = ctx.internal
      /\ ctx'.truncate = ctx.truncate
  BY DEF IsBusy, Same, IsContext, Inv, Fields
<1>3. pc \notin {"idle", "finish", "session_error", "transfer", "entry", "report"}
  BY <1>1, ConstantsAssumption DEF Callbacks, FileCallbacks, MayBeBusy, Disciplined
<1>4. pc \in Working \/ pc \in {"close", "get_error"}
  BY <1>1, <1>3 DEF Callbacks, FileCallbacks, Working, Moving
<1>5. pc = "close" => ctx.state = "closing"
  BY DEF Inv, NextInv
<1>6. pc = "get_error" /\ (ctx.told \/ ctx.aborted) => ctx.state \in {"closing", "closed"}
  BY DEF Base, WorkInv
<1> QED
  BY <1>1, <1>2, <1>3, <1>4, <1>5, <1>6
  DEF Base, Flags, ErrorInv, WorkInv, Further, Live, Reason, Clean, Failed, Same, Working, Moving

\* A callback that fails leaves a mark.
LEMMA FailBase ==
    ASSUME Disciplined, Inv, Base, NEW cb \in Callbacks, Fails(cb)
    PROVE  Base' /\ Further /\ ~Clean'
<1>1. /\ pc = cb /\ cb \in Callbacks \ {"get_error", "session_error"}
      /\ UNCHANGED <<req, phase, part, call>>
  BY DEF Fails, msgVars
<1>2. PICK a \in Errors :
        /\ failed' = (failed \/ a # "abort")
        /\ IF cb \in {"open", "close"}
           THEN Goto("finish", [Answered(ctx, a) EXCEPT !.state = "closed"])
           ELSE Close(Answered(ctx, a))
  BY DEF Fails
<1>3. a \in {"error", "unset", "unrecognized", "abort"}
  BY <1>2, ConstantsAssumption
<1> DEFINE c == Answered(ctx, a)
<1>4. IsContext(ctx) /\ IsContext(c) /\ c.state = ctx.state
  BY <1>3 DEF Answered, InternalError, IsContext, Inv, Fields
<1>5. /\ a # "abort" => Failed(c)
      /\ a = "abort" => c.aborted
      /\ Failed(ctx) => Failed(c)
      /\ c.told = ctx.told /\ c.truncate = ctx.truncate
      /\ c.internal \in BOOLEAN /\ c.aborted \in BOOLEAN
      /\ c.internal => ctx.internal \/ Failed(c)
      /\ ctx.aborted => c.aborted
  BY <1>3, <1>4 DEF Answered, InternalError, IsContext, Failed, Base, Flags
<1>6. Kept(c, ctx') /\ pc' \in {"finish", "close"}
  <2>1. CASE cb \in {"open", "close"}
    BY <1>2, <1>4, <2>1 DEF Goto, IsContext, Kept
  <2>2. CASE cb \notin {"open", "close"}
    BY <1>2, <1>4, <2>2, Closes, ClosesKeep
  <2> QED
    BY <2>1, <2>2
<1>7. /\ failed \in BOOLEAN /\ failed' \in BOOLEAN
      /\ failed => failed'
      /\ a = "abort" => failed' = failed
      /\ a # "abort" => failed'
  BY <1>2 DEF Base, Flags
<1>8. pc = "close" \/ (pc \in Working /\ Clean)
  BY <1>1 DEF Callbacks, FileCallbacks, Working, Moving, Base, WorkInv
<1>9. ~Clean'
  BY <1>5, <1>6, <1>7 DEF Clean, Kept, Failed
<1>10. Flags' /\ ErrorInv'
  <2>1. Flags'
    BY <1>5, <1>6, <1>7 DEF Base, Flags, Kept
  <2>2. failed' => Failed(ctx')
    BY <1>5, <1>6, <1>7 DEF Base, Flags, ErrorInv, Kept, Failed
  <2>3. Failed(ctx') => Failed(ctx) \/ a # "abort"
    BY <1>3, <1>6 DEF Answered, Kept, Failed
  <2>4. ctx'.internal => ctx.internal \/ Failed(ctx')
    BY <1>5, <1>6 DEF Kept, Failed
  <2>5. Failed(ctx) => Failed(ctx')
    BY <1>5, <1>6 DEF Kept, Failed
  <2> QED
    BY <1>1, <1>6, <1>7, <2>1, <2>2, <2>3, <2>4, <2>5 DEF Base, ErrorInv, Reason
<1>11. pc \in Working => call \in {"have", "need"} /\ ~ctx.internal
  BY <1>8 DEF Inv, NextInv, Working, Moving, Clean
<1>12. call = "need" /\ pc = "close" => req.op \notin {"put", "rm"}
  BY DEF Inv, NextInv, CallInv, ReadyInv, Opened
<1>13. call = "need" /\ pc \in Working => req.op \notin {"put", "rm"}
  BY DEF Inv, NextInv, Working, Moving
<1>14. phase = "request" /\ req.op # "put" /\ pc' = "close" => FALSE
  BY <1>1, <1>2, <1>4, Closes DEF Inv, ReadyInv, NextInv, Goto, Opened, Callbacks, FileCallbacks
<1>16. pc' = "finish" /\ ctx'.told => ctx'.state = "closed"
  BY <1>1, <1>2, <1>4, <1>5, <1>6, <1>8 DEF Goto, Clean, IsContext, Kept
<1>15. WorkInv'
  BY <1>16, <1>1, <1>5, <1>6, <1>8, <1>9, <1>11, <1>12, <1>13, <1>14
  DEF Base, WorkInv, Kept, Working, Moving
<1> QED
  BY <1>1, <1>9, <1>10, <1>15 DEF Base, Further, Live

\* The callbacks of a file that succeed, and the label between them.
LEMMA MoveBase ==
    ASSUME Disciplined, Inv, Base, GetInv, PutInv,
           OpenDone \/ SeekEndDone \/ SeekSetDone \/ WriteDone \/ ReadDone \/ TruncateDone
    PROVE  Base' /\ Further
<1>1. /\ pc \in Moving \cup {"open"} /\ UNCHANGED <<msgVars, cancel, failed>>
  BY DEF OpenDone, SeekEndDone, SeekSetDone, WriteDone, ReadDone, TruncateDone, Does, Stays,
         Moving
<1>2. IsContext(ctx) /\ Clean /\ call \in {"have", "need"}
  BY <1>1 DEF Inv, Fields, NextInv, Base, WorkInv, Working, Moving
<1> DEFINE Outcomes == /\ IsContext(ctx')
                       /\ ctx'.told = ctx.told /\ ctx'.aborted = ctx.aborted
                       /\ ctx'.truncate \in BOOLEAN /\ ctx'.internal \in BOOLEAN
                       /\ \/ Clean' /\ pc' \in Working \cup {"close"}
                          \/ Clean' /\ pc' = "finish" /\ pc = "open" /\ req.path = "ok"
                          \/ /\ pc' = "close"
                             /\ Failed(ctx') /\ ctx'.internal = TRUE /\ Reason
<1>3. ASSUME OpenDone
     PROVE  Outcomes
  <2> DEFINE c == [ctx EXCEPT !.state = "open",
                              !.truncate = @ /\ ~(ctx.truncate /\ ctx.offset = 0)]
  <2>1. IsContext(c) /\ c.state = "open" /\ Kept([ctx EXCEPT !.truncate = c.truncate], c)
        /\ c.truncate \in BOOLEAN
    BY <1>2 DEF IsContext, States, Kept, Base, Flags
  <2>2. pc = "open" /\ req.path = "ok"
    BY <1>3 DEF OpenDone, Does, Inv, NextInv
  <2>3. Position(c, buf) \/ Goto("finish", c)
    BY <1>3 DEF OpenDone
  <2>4. Kept(c, ctx') /\ IsContext(ctx')
        /\ (pc' \in {"seek_end", "transfer"} \/ pc' = "finish")
    BY <2>1, <2>3, Positions, PositionsKeep DEF Goto, Kept, Opened
  <2>5. Clean'
    BY <1>1, <1>2, <2>1, <2>4 DEF Clean, Kept, Failed, IsContext
  <2>6. /\ ctx'.told = ctx.told /\ ctx'.aborted = ctx.aborted /\ ctx'.truncate \in BOOLEAN
        /\ ctx'.internal \in BOOLEAN
    BY <1>2, <2>1, <2>4 DEF Kept, IsContext, Base, Flags
  <2> QED
    BY <1>2, <2>2, <2>4, <2>5, <2>6 DEF Working, Moving
<1>4. ASSUME SeekEndDone
     PROVE  Outcomes
  <2>1. \/ Len(file) < ctx.offset /\ Close(InternalError(ctx, "invalid_offset"))
        \/ Goto("seek_set", [ctx EXCEPT !.state = "lseek1"])
    BY <1>4 DEF SeekEndDone
  <2>2. ASSUME Goto("seek_set", [ctx EXCEPT !.state = "lseek1"])
        PROVE  Outcomes
    BY <1>1, <1>2, <2>2
    DEF Goto, IsContext, States, Clean, Failed, Working, Moving, Base, Flags
  <2>3. ASSUME Len(file) < ctx.offset /\ Close(InternalError(ctx, "invalid_offset"))
        PROVE  Outcomes
    <3> DEFINE c == InternalError(ctx, "invalid_offset")
    <3>1. /\ IsContext(c) /\ c.state = ctx.state /\ c.told = ctx.told /\ c.internal = TRUE
          /\ c.aborted = ctx.aborted /\ c.truncate = ctx.truncate /\ Failed(c)
      BY <1>2 DEF InternalError, IsContext, Failed
    <3>2. ctx.state \in Opened /\ req.op \in {"put", "get"}
      BY <1>4 DEF SeekEndDone, Does, Inv, NextInv, Moving
    <3>3. Kept(c, ctx') /\ IsContext(ctx') /\ pc' = "close"
      BY <2>3, <3>1, <3>2, Closes, ClosesKeep
    <3>4. Reason
      <4>1. ctx.offset = req.offset /\ (file = Old \/ (file = << >> /\ req.offset = 0))
        <5>1. pc = "seek_end" /\ Live /\ req.path = "ok"
          BY <1>2, <1>4 DEF SeekEndDone, Does, Inv, CallInv, Live, Base, WorkInv
        <5> QED
          BY <1>2, <3>2, <5>1 DEF GetInv, PutInv, GetData, PutData, Emptied
      <4>2. Len(file) \in Nat /\ req.offset \in Nat /\ (file = Old => Len(file) = OldSize)
        BY <4>1, RequestFacts, ConstantsAssumption DEF Old, Inv, Fields
      <4> QED
        BY <2>3, <4>1, <4>2, ConstantsAssumption DEF Reason
    <3> QED
      BY <3>1, <3>3, <3>4 DEF Kept, Failed, Base, Flags
  <2> QED
    BY <2>1, <2>2, <2>3
<1>5. ASSUME SeekSetDone \/ WriteDone \/ ReadDone \/ TruncateDone
     PROVE  Outcomes
  <2>1. ctx.state \in Opened
    BY <1>5 DEF SeekSetDone, WriteDone, ReadDone, TruncateDone, Does, Inv, NextInv, Moving
  <2>2. \/ Goto("transfer", [ctx EXCEPT !.state = "lseek"]) \/ Goto("transfer", ctx)
        \/ Close(ctx)
        \/ \E n : \/ Goto("transfer", [ctx EXCEPT !.done = @ + n])
                  \/ Close([ctx EXCEPT !.done = @ + n])
    BY <1>5 DEF SeekSetDone, WriteDone, ReadDone, TruncateDone
  <2>3. ASSUME \/ Goto("transfer", [ctx EXCEPT !.state = "lseek"]) \/ Goto("transfer", ctx)
        PROVE  Outcomes
    BY <1>1, <1>2, <2>3
    DEF Goto, IsContext, States, Clean, Failed, Working, Moving, Base, Flags
  <2>4. ASSUME Close(ctx)
        PROVE  Outcomes
    <3>1. Kept(ctx, ctx') /\ IsContext(ctx') /\ pc' = "close"
      BY <1>2, <2>1, <2>4, Closes, ClosesKeep
    <3> QED
      BY <1>1, <1>2, <3>1 DEF Kept, Clean, Failed, Base, Flags
  <2>5. ASSUME NEW n, \/ Goto("transfer", [ctx EXCEPT !.done = @ + n])
                      \/ Close([ctx EXCEPT !.done = @ + n])
        PROVE  Outcomes
    <3> DEFINE c == [ctx EXCEPT !.done = @ + n]
    <3>1. /\ IsContext(c) /\ c.state = ctx.state /\ c.told = ctx.told
          /\ c.internal = ctx.internal /\ c.errnum = ctx.errnum
          /\ c.aborted = ctx.aborted /\ c.truncate = ctx.truncate
      BY <1>2 DEF IsContext
    <3>2. Kept(c, ctx') /\ IsContext(ctx') /\ pc' \in {"close", "transfer"}
      BY <2>1, <2>5, <3>1, Closes, ClosesKeep DEF Goto, Kept
    <3> QED
      BY <1>1, <1>2, <3>1, <3>2 DEF Kept, Clean, Failed, Base, Flags, Working, Moving
  <2> QED
    BY <2>2, <2>3, <2>4, <2>5
<1>6. Outcomes
  BY <1>3, <1>4, <1>5
<1>7. ~(Clean /\ req.path # "ok")
  BY <1>1 DEF Base, WorkInv, Moving
<1>8. pc # "open" => ~(phase = "request" /\ req.op # "put")
  BY <1>1 DEF Inv, NextInv, CallInv, Moving
<1>9. pc = "open" => call = "have" /\ pc' # "close"
  <2>1. pc = "open" => OpenDone
    BY DEF SeekEndDone, SeekSetDone, WriteDone, ReadDone, TruncateDone, Does
  <2>2. OpenDone => pc' # "close"
    BY DEF OpenDone, Position, Goto
  <2> QED
    BY <2>1, <2>2 DEF Inv, NextInv
<1>10. Flags' /\ ErrorInv'
  <2>1. UNCHANGED <<failed, req>>
    BY <1>1 DEF msgVars
  <2>2. ~failed' /\ Flags'
    BY <1>2, <1>6, <2>1 DEF Base, Flags, Clean
  <2>3. /\ Failed(ctx') \/ ctx'.internal => Reason
        /\ ctx'.internal => Failed(ctx')
        /\ pc' \notin {"report", "get_error"}
    BY <1>2, <1>6, <2>1 DEF Base, Flags, Clean, Working, Moving
  <2> QED
    BY <2>1, <2>2, <2>3 DEF ErrorInv, Reason, Failed
<1>11. WorkInv'
  BY <1>1, <1>2, <1>6, <1>7, <1>8, <1>9
  DEF Base, WorkInv, Clean, Failed, msgVars, Working, Moving
<1> QED
  BY <1>1, <1>2, <1>10, <1>11 DEF Base, Further, Live, msgVars

\* The end of a packet.
LEMMA TransferBase ==
    ASSUME Disciplined, Inv, Base, Transfer
    PROVE  Base' /\ Further
<1>1. pc = "transfer" /\ UNCHANGED <<cancel, handle, failed>>
  BY DEF Transfer, appVars
<1>2. /\ IsContext(ctx) /\ Clean /\ ctx.state \in Opened
      /\ req.op \in {"put", "get"}
      /\ call = IF req.op = "put" THEN "have" ELSE "need"
      /\ phase = IF req.op = "put" THEN "request" ELSE "response"
      /\ ~cancel
  BY <1>1 DEF Inv, Fields, NextInv, CallInv, Moving, Base, WorkInv, Working
<1> DEFINE c == [ctx EXCEPT !.done = 0, !.offset = @ + Written]
<1>3. /\ IsContext(c) /\ c.state = ctx.state /\ c.told = ctx.told
      /\ c.internal = ctx.internal /\ c.errnum = ctx.errnum
      /\ c.aborted = ctx.aborted /\ c.truncate = ctx.truncate
  BY <1>2 DEF IsContext
<1>4. /\ ctx'.told = ctx.told /\ ctx'.internal = ctx.internal /\ ctx'.errnum = ctx.errnum
      /\ ctx'.aborted = ctx.aborted /\ ctx'.truncate = ctx.truncate
      /\ pc' \in {"write", "read", "idle", "truncate", "close"}
      /\ UNCHANGED <<req, phase, call>>
  <2>1. CASE Stays /\ Goto(IF req.op = "put" THEN "write" ELSE "read", ctx)
    BY <2>1 DEF Stays, msgVars, Goto
  <2>2. CASE ReturnWorking /\ ctx' = c /\ ~LastPart /\ req.op = "put"
    BY <1>2, <1>3, <2>2 DEF ReturnWorking
  <2>3. CASE Stays /\ Goto("truncate", c)
    BY <1>3, <2>3 DEF Stays, msgVars, Goto
  <2>4. ASSUME NEW d \in {c, ctx}, Stays, Close(d)
        PROVE  <1>4!1 /\ <1>4!2 /\ <1>4!3 /\ <1>4!4
    BY <1>2, <1>3, <2>4, Closes, ClosesKeep DEF Kept, Stays, msgVars
  <2>5. CASE Send(buf, "more") /\ ctx' = ctx
    BY <2>5 DEF Send
  <2> QED
    BY <2>1, <2>2, <2>3, <2>4, <2>5 DEF Transfer
<1>5. ~(Clean /\ req.path # "ok")
  BY <1>1 DEF Base, WorkInv
<1> QED
  BY <1>1, <1>2, <1>4, <1>5
  DEF Base, Flags, ErrorInv, WorkInv, Further, Live, Reason, Clean, Failed, Working, Moving

\* The callbacks that close or remove the file, tell its status or go through a directory.
LEMMA OtherCallbackBase ==
    ASSUME Disciplined, Inv, Base,
           \/ CloseDone \/ RemoveDone \/ StatDone \/ OpenDirDone \/ ReadDirDone
           \/ StatEntryDone \/ HashDone
    PROVE  Base' /\ Further
<1>1. UNCHANGED <<req, phase, call, part, failed>> /\ IsContext(ctx)
  BY DEF CloseDone, RemoveDone, StatDone, OpenDirDone, ReadDirDone, StatEntryDone, HashDone,
         Does, Stays, msgVars, Inv, Fields
<1>2. CASE CloseDone
  <2>1. pc = "close" /\ pc' = "finish" /\ Kept(ctx, ctx') /\ ctx'.state = "closed"
    BY <1>1, <1>2 DEF CloseDone, Does, Goto, IsContext, Kept
  <2>2. call = "need" => req.op \notin {"put", "rm"}
    BY <2>1 DEF Inv, NextInv, CallInv, ReadyInv, Opened
  <2> QED
    BY <1>1, <2>1, <2>2
    DEF Base, Flags, ErrorInv, WorkInv, Further, Live, Reason, Clean, Failed, Kept, Working,
        Moving
<1>3. ASSUME \/ RemoveDone \/ StatDone \/ OpenDirDone \/ ReadDirDone
             \/ StatEntryDone \/ HashDone
      PROVE  Base' /\ Further
  <2>1. /\ pc \in {"remove", "stat", "opendir", "readdir", "stat_entry", "hash"}
        /\ IF pc = "remove" THEN pc' = "finish"
           ELSE pc' \in {"readdir", "stat_entry", "hash", "entry", "opendir", "close"} \cup
                  (IF pc \in {"stat", "opendir"} THEN {"finish"} ELSE {})
        /\ pc' = "close" => pc = "readdir"
        /\ Kept(ctx, ctx')
    <3>1. CASE RemoveDone \/ HashDone
      BY <3>1 DEF RemoveDone, HashDone, Does, Goto, Kept
    <3>2. CASE StatDone \/ OpenDirDone \/ StatEntryDone
      BY <1>1, <3>2 DEF StatDone, OpenDirDone, StatEntryDone, Does, Goto, Kept, IsContext
    <3>3. CASE ReadDirDone
      <4>1. pc = "readdir" /\ ctx.state \in Opened
        BY <3>3 DEF ReadDirDone, Does, Inv, NextInv
      <4>2. \/ Close(ctx) \/ Goto("readdir", ctx)
            \/ Goto("stat_entry", [ctx EXCEPT !.state = "readdir"])
        BY <3>3 DEF ReadDirDone
      <4>3. CASE Close(ctx)
        BY <1>1, <4>1, <4>3, Closes, ClosesKeep
      <4>4. CASE \/ Goto("readdir", ctx)
                 \/ Goto("stat_entry", [ctx EXCEPT !.state = "readdir"])
        BY <1>1, <4>1, <4>4 DEF Goto, Kept, IsContext
      <4> QED
        BY <4>2, <4>3, <4>4
    <3> QED
      BY <1>3, <3>1, <3>2, <3>3
  <2>2. Clean /\ Clean' /\ pc \in Working
    BY <1>1, <2>1 DEF Base, WorkInv, Working, Clean, Kept, Failed
  <2>3. /\ pc \in {"remove", "stat", "opendir"} => call = "have"
        /\ pc \in {"readdir", "stat_entry", "hash"} => call = "need"
        /\ pc # "idle"
    BY <2>1 DEF Inv, NextInv
  <2>4. call = "need" => phase = "response"
    BY <2>3 DEF Inv, CallInv
  <2>5. ~(Clean /\ req.path # "ok")
    BY <2>1 DEF Base, WorkInv
  <2> QED
    BY <1>1, <2>1, <2>2, <2>3, <2>4, <2>5
    DEF Base, Flags, ErrorInv, WorkInv, Further, Live, Reason, Clean, Failed, Kept, Working,
        Moving
<1> QED
  BY <1>2, <1>3

\* An entry goes out, the call returns, or the error does.
LEMMA EntryBase ==
    ASSUME Disciplined, Inv, Base, Entry
    PROVE  Base' /\ Further
<1>1. /\ pc = "entry" /\ pc' = "idle" /\ UNCHANGED <<cancel, handle, req, part, call, failed>>
      /\ phase' \in {phase, "sent"}
      /\ ctx' = ctx \/ ctx' = [ctx EXCEPT !.state = "open"]
  BY DEF Entry, Does, Send, appVars
<1>2. Clean /\ call = "need" /\ phase = "response" /\ IsContext(ctx)
  BY <1>1 DEF Inv, Fields, NextInv, CallInv, Base, WorkInv, Working
<1>3. Kept(ctx, ctx')
  BY <1>1, <1>2 DEF Kept, IsContext
<1>4. ~(Clean /\ req.path # "ok")
  BY <1>1 DEF Base, WorkInv
<1> QED
  BY <1>1, <1>2, <1>3, <1>4
  DEF Base, Flags, ErrorInv, WorkInv, Further, Live, Reason, Clean, Failed, Kept, Working,
      Moving

\* The end of a call keeps what is known of errors: it changes neither context nor request.
LEMMA FinishBase ==
    ASSUME Disciplined, Inv, Base, Finish
    PROVE  Base' /\ Further
<1>1. pc = "finish" /\ ctx' = ctx /\ UNCHANGED <<cancel, handle, req, call, failed>>
  BY DEF Finish, Does, appVars, Return, ReturnAbort, ReturnWorking, Send, Stays, msgVars,
         Report, Goto
<1>2. call \in {"have", "need", "error", "cleanup"}
  BY <1>1 DEF Inv, CallInv
<1>3. \/ /\ pc' = "idle"
         /\ \/ phase' \notin {"request", "response"}
            \/ /\ ~ctx.aborted /\ call = "have"
               /\ IF LastPart THEN phase' = "response" ELSE phase' = phase
            \/ /\ ~ctx.aborted /\ call = "need" /\ phase' = phase /\ cancel
      \/ /\ pc' \in {"report", "get_error"} /\ ~ctx.aborted /\ call = "need" /\ Failed(ctx)
         /\ phase' = phase
  <2>1. CASE call # "need" \/ ctx.aborted \/ cancel
    <3>1. Return(ctx)
      BY <2>1 DEF Finish
    <3> QED
      BY <1>2, <2>1, <3>1 DEF Return, ReturnAbort, ReturnWorking
  <2>2. CASE ~(call # "need" \/ ctx.aborted \/ cancel) /\ ~Failed(ctx)
    BY <2>2 DEF Finish, Send
  <2>3. CASE ~(call # "need" \/ ctx.aborted \/ cancel) /\ Failed(ctx)
    BY <2>3 DEF Finish, Stays, msgVars, Report, Goto
  <2> QED
    BY <2>1, <2>2, <2>3
<1>4. ~(Clean /\ req.path # "ok")
  BY <1>1 DEF Base, WorkInv
<1>5. /\ call = "have" => phase = "request"
      /\ call = "need" => phase = "response"
      /\ req.op # "put" /\ call = "have" => LastPart
  BY <1>1 DEF Inv, Fields, CallInv, LastPart, Disciplined
<1>6. ctx.told /\ call \in {"have", "need"} => ctx.state \in {"closing", "closed"}
  BY <1>1 DEF Base, WorkInv
<1>7. Clean' = Clean /\ (Live' => Live)
  BY <1>1, <1>3, <1>5 DEF Clean, Failed, Live
<1> QED
  BY <1>1, <1>2, <1>3, <1>4, <1>5, <1>6, <1>7
  DEF Base, Flags, ErrorInv, WorkInv, Further, Live, Reason, Failed, Working, Moving

\* An error report is made only when there is something to report, and leaves the session
\* over, or the context told.
LEMMA ReportBase ==
    ASSUME Disciplined, Inv, Base, InternalReport \/ GetError \/ SessionError
    PROVE  Base' /\ Further /\ (Clean' => ~Live' /\ pc' = "idle")
<1>1. CASE InternalReport \/ GetError
  <2>1. /\ pc \in {"report", "get_error"} /\ pc' = "idle"
        /\ phase' \in {"sent", "error", "aborted", "freed"}
        /\ UNCHANGED <<req, part, call, cancel, handle, ctx, failed>>
    BY <1>1 DEF InternalReport, GetError, Does, ErrorResponse, Send, ReturnAbort, appVars
  <2>2. ~(Clean /\ req.path # "ok")
    BY <2>1 DEF Base, WorkInv
  <2> QED
    BY <2>1, <2>2
    DEF Base, Flags, ErrorInv, WorkInv, Further, Live, Reason, Clean, Failed, Working, Moving
<1>2. CASE SessionError
  <2>1. PICK aborts \in {FALSE, "abort" \in Errors} :
           Close([ctx EXCEPT !.told = TRUE, !.aborted = @ \/ aborts])
    BY <1>2 DEF SessionError
  <2> DEFINE c == [ctx EXCEPT !.told = TRUE, !.aborted = @ \/ aborts]
  <2>2. pc = "session_error" /\ UNCHANGED <<req, phase, call, part, cancel, handle, failed>>
        /\ call \in {"error", "cleanup"}
    BY <1>2 DEF SessionError, Does, Stays, appVars, msgVars, Inv, CallInv
  <2>3. /\ IsContext(c) /\ c.state = ctx.state /\ c.errnum = ctx.errnum /\ c.told = TRUE
        /\ c.internal = ctx.internal /\ c.truncate = ctx.truncate /\ c.aborted \in BOOLEAN
    BY DEF Inv, Fields, IsContext, Base, Flags
  <2>4. IsContext(ctx') /\ Kept(c, ctx') /\ pc' \in {"close", "finish"}
        /\ (pc' = "close" => ctx.state \in Opened \cup {"closing"})
    BY <2>1, <2>3, Closes, ClosesKeep
  <2>5. pc' = "close" => ~(phase = "request" /\ req.op # "put")
    BY <2>2, <2>4 DEF Inv, ReadyInv, Opened
  <2> QED
    BY <2>2, <2>3, <2>4, <2>5
    DEF Base, Flags, ErrorInv, WorkInv, Further, Live, Reason, Clean, Failed, Kept, Working,
        Moving
<1> QED
  BY <1>1, <1>2

-----------------------------------------------------------------------------
\* The file and its slices are sequences of integers.
LEMMA OldFile ==
    /\ Old \in Seq(Int) /\ Len(Old) = OldSize /\ OldSize \in Nat
    /\ \A i \in 1 .. OldSize : Old[i] = -i
  BY ConstantsAssumption DEF Old

\* What is read next is added to a slice.
LEMMA SlicesAppend ==
    ASSUME NEW s, NEW o \in Nat, NEW d \in Nat, Slices(s, o, d),
           NEW t \in Seq(Int), \A i \in 1 .. Len(t) : t[i] = -(o + d + i)
    PROVE  Slices(s \o t, o, d + Len(t))
<1> DEFINE n == Len(t)
<1>1. n \in Nat /\ s \in Seq(Int) /\ Len(s) = d + 1 /\ s[1] = 0
      /\ \A i \in 1 .. d : s[i + 1] = -(o + i)
  BY DEF Slices
<1>2. /\ s \o t \in Seq(Int) /\ Len(s \o t) = d + 1 + n
      /\ \A i \in 1 .. d + 1 + n : (s \o t)[i] = IF i <= d + 1 THEN s[i] ELSE t[i - (d + 1)]
  <2>1. /\ s \o t \in Seq(Int) /\ Len(s \o t) = Len(s) + Len(t)
        /\ \A i \in 1 .. Len(s) + Len(t) :
              (s \o t)[i] = IF i <= Len(s) THEN s[i] ELSE t[i - Len(s)]
    BY <1>1, ConcatProperties
  <2> QED
    BY <1>1, <2>1
<1>3. (s \o t)[1] = 0
  BY <1>1, <1>2
<1>4. ASSUME NEW i \in 1 .. d + n
      PROVE  (s \o t)[i + 1] = -(o + i)
  <2>1. CASE i <= d
    BY <1>1, <1>2, <2>1
  <2>2. CASE ~(i <= d)
    <3>1. i - d \in 1 .. n /\ (s \o t)[i + 1] = t[i - d]
      <4>1. i + 1 \in 1 .. d + 1 + n /\ ~(i + 1 <= d + 1) /\ (i + 1) - (d + 1) = i - d
        BY <1>1, <2>2
      <4> QED
        BY <1>1, <1>2, <2>2, <4>1
    <3>2. t[i - d] = -(o + d + (i - d))
      BY <3>1
    <3> QED
      BY <1>1, <3>1, <3>2
  <2> QED
    BY <2>1, <2>2
<1>5. Len(s \o t) = (d + n) + 1
  BY <1>1, <1>2
<1> QED
  BY <1>2, <1>3, <1>4, <1>5 DEF Slices

\* A slice is what Device Cloud asked for.
LEMMA SliceIs ==
    ASSUME NEW s, NEW o \in Nat, NEW n \in Nat, Slices(s, o, n), o + n <= OldSize
    PROVE  s = <<0>> \o SubSeq(Old, o + 1, o + n)
<1> DEFINE t == SubSeq(Old, o + 1, o + n)
<1>1. /\ t \in Seq(Int) /\ Len(t) = n /\ \A i \in 1 .. n : t[i] = -(o + i)
  <2>1. \A i \in o + 1 .. o + n : Old[i] \in Int
    BY OldFile
  <2>2. /\ t \in Seq(Int) /\ Len(t) = IF o + 1 <= o + n THEN (o + n) - (o + 1) + 1 ELSE 0
        /\ \A i \in 1 .. (o + n) - (o + 1) + 1 : t[i] = Old[(o + 1) + i - 1]
    BY <2>1, SubSeqProperties
  <2>3. Len(t) = n
    BY <2>2
  <2>4. ASSUME NEW i \in 1 .. n
        PROVE  t[i] = -(o + i)
    <3>1. i \in 1 .. (o + n) - (o + 1) + 1 /\ (o + 1) + i - 1 = o + i /\ o + i \in 1 .. OldSize
      BY OldFile
    <3> QED
      BY <2>2, <3>1, OldFile
  <2> QED
    BY <2>2, <2>3, <2>4
<1> HIDE DEF t
<1>2. <<0>> \in Seq(Int) /\ Len(<<0>>) = 1 /\ <<0>>[1] = 0
  OBVIOUS
<1>3. /\ <<0>> \o t \in Seq(Int) /\ Len(<<0>> \o t) = 1 + n
      /\ \A i \in 1 .. 1 + n : (<<0>> \o t)[i] = IF i <= 1 THEN <<0>>[i] ELSE t[i - 1]
  BY <1>1, <1>2, ConcatProperties
<1>4. s \in Seq(Int) /\ Len(s) = n + 1 /\ s[1] = 0 /\ \A i \in 1 .. n : s[i + 1] = -(o + i)
  BY DEF Slices
<1>5. ASSUME NEW i \in 1 .. Len(s)
      PROVE  s[i] = (<<0>> \o t)[i]
  <2>1. CASE i = 1
    BY <1>2, <1>3, <1>4, <2>1
  <2>2. CASE i # 1
    <3> DEFINE j == i - 1
    <3>1. j \in 1 .. n /\ i = j + 1
      BY <1>4, <2>2
    <3> HIDE DEF j
    <3>2. s[j + 1] = -(o + j) /\ t[j] = -(o + j)
      BY <1>1, <1>4, <3>1
    <3>3. (<<0>> \o t)[j + 1] = t[j]
      BY <1>3, <3>1
    <3> QED
      BY <3>1, <3>2, <3>3
  <2> QED
    BY <2>1, <2>2
<1>6. s = <<0>> \o t
  <2>1. Len(s) = Len(<<0>> \o t)
    BY <1>3, <1>4
  <2> QED
    BY <1>3, <1>4, <1>5, <2>1, SeqEqual
<1> QED
  BY <1>6 DEF t

\* An entry is added to a listing, or skipped.
LEMMA ListsAppend ==
    ASSUME NEW s \in Seq(Int), NEW n \in Nat, Lists(s, n), Entries[n + 1] # "dot"
    PROVE  Lists(s \o <<n + 1>>, n + 1)
<1> DEFINE t == s \o <<n + 1>>
<1>1. /\ Len(s) \in Nat /\ DOMAIN s = 1 .. Len(s) /\ DOMAIN t = 1 .. Len(s) + 1
      /\ \A i \in 1 .. Len(s) : t[i] = s[i]
      /\ t[Len(s) + 1] = n + 1
  <2>1. <<n + 1>> \in Seq(Int) /\ Len(<<n + 1>>) = 1 /\ <<n + 1>>[1] = n + 1
    OBVIOUS
  <2>2. /\ t \in Seq(Int) /\ Len(t) = Len(s) + 1
        /\ \A i \in 1 .. Len(s) + 1 : t[i] = IF i <= Len(s) THEN s[i] ELSE <<n + 1>>[i - Len(s)]
    BY <2>1, ConcatProperties
  <2> QED
    BY <2>1, <2>2, LenProperties
<1> HIDE DEF t
<1>2. {t[i] : i \in DOMAIN t} = {s[i] : i \in DOMAIN s} \cup {n + 1}
  <2>1. ASSUME NEW i \in DOMAIN t
        PROVE  t[i] \in {s[j] : j \in DOMAIN s} \cup {n + 1}
    BY <1>1, <2>1
  <2>2. ASSUME NEW i \in DOMAIN s
        PROVE  s[i] \in {t[j] : j \in DOMAIN t}
    BY <1>1, <2>2
  <2>3. n + 1 \in {t[j] : j \in DOMAIN t}
    BY <1>1
  <2> QED
    BY <2>1, <2>2, <2>3
<1>3. {s[i] : i \in DOMAIN s} = {0} \cup {e \in 1 .. n : Entries[e] # "dot"}
  BY DEF Lists
<1>4. {e \in 1 .. n + 1 : Entries[e] # "dot"} = {e \in 1 .. n : Entries[e] # "dot"} \cup {n + 1}
  <2>1. 1 .. n + 1 = (1 .. n) \cup {n + 1}
    OBVIOUS
  <2> QED
    BY <2>1
<1>5. \A i \in DOMAIN s : s[i] \in Int /\ s[i] < n + 1
  BY <1>3
<1>6. \A i, j \in DOMAIN s : i < j => s[i] < s[j]
  BY DEF Lists
<1>7. ASSUME NEW i \in DOMAIN t, NEW j \in DOMAIN t, i < j
      PROVE  t[i] < t[j]
  <2>1. i \in 1 .. Len(s) /\ i \in DOMAIN s
    BY <1>1, <1>7
  <2>2. CASE j \in 1 .. Len(s)
    BY <1>1, <1>6, <1>7, <2>1, <2>2
  <2>3. CASE j = Len(s) + 1
    BY <1>1, <1>5, <2>1, <2>3
  <2> QED
    BY <1>1, <2>2, <2>3
<1>8. {t[i] : i \in DOMAIN t} = {0} \cup {e \in 1 .. n + 1 : Entries[e] # "dot"}
  BY <1>2, <1>3, <1>4
<1>9. Lists(t, n + 1)
  BY <1>7, <1>8 DEF Lists
<1> QED
  BY <1>9 DEF t

\* A listing of the first n entries is one of the first n + 1 when the next one is ".".
LEMMA ListsSkip ==
    ASSUME NEW s, NEW n \in Nat, Lists(s, n), Entries[n + 1] = "dot"
    PROVE  Lists(s, n + 1)
<1>1. {e \in 1 .. n + 1 : Entries[e] # "dot"} = {e \in 1 .. n : Entries[e] # "dot"}
  <2>1. 1 .. n + 1 = (1 .. n) \cup {n + 1}
    OBVIOUS
  <2> QED
    BY <2>1
<1> QED
  BY <1>1 DEF Lists

\* A listing that has begun lists nothing yet.
LEMMA ListsNothing ==
    ASSUME NEW n \in Nat, \A e \in 1 .. n : Entries[e] = "dot"
    PROVE  Lists(<<0>>, n)
<1>1. DOMAIN <<0>> = {1} /\ <<0>>[1] = 0
  OBVIOUS
<1>2. {<<0>>[i] : i \in DOMAIN <<0>>} = {0}
  BY <1>1
<1> QED
  BY <1>1, <1>2 DEF Lists

\* And the other way round, when it goes no further.
LEMMA ListsZero ==
    ASSUME NEW n \in Nat
    PROVE  Lists(<<0>>, n) => \A e \in 1 .. n : Entries[e] = "dot"
<1>1. DOMAIN <<0>> = {1} /\ <<0>>[1] = 0
  OBVIOUS
<1>2. {<<0>>[i] : i \in DOMAIN <<0>>} = {0}
  BY <1>1
<1>3. Lists(<<0>>, n) => {0} = {0} \cup {e \in 1 .. n : Entries[e] # "dot"}
  BY <1>2 DEF Lists
<1> QED
  BY <1>3

-----------------------------------------------------------------------------
\* The request stays what it is.
LEMMA RequestStays ==
    ASSUME Next
    PROVE  req' = req
  BY DEF Next, Have, Need, Between, Callback, PutRequest, GetRequest, RmRequest, LsRequest,
         HaveData, NoDataResponse, GetResponse, LsResponse, NeedData, Starts, CloudError, Lose,
         Inform, Transfer, Entry, Finish, Return, ReturnAbort, ReturnWorking, ReturnPending,
         Send, Stays, msgVars, InternalReport, GetError, ErrorResponse, SessionError, OpenDone,
         SeekEndDone, SeekSetDone, WriteDone, ReadDone, TruncateDone, CloseDone, RemoveDone,
         StatDone, OpenDirDone, ReadDirDone, StatEntryDone, HashDone, Fails, IsBusy

\* A removal: the file is gone when the response is asked for.
LEMMA RmStep ==
    ASSUME Disciplined, Inv, Inv', Base, Base', Further, RmInv, Next
    PROVE  RmInv'
<1> SUFFICES ASSUME req'.op = "rm", Clean', phase' = "response" \/ pc' = "finish"
             PROVE  file' = << >>
  BY DEF RmInv
<1>1. Clean
  BY DEF Further
<1>2. ctx.state = "none" => pc \notin Moving \cup {"close", "readdir", "stat_entry", "hash"}
  BY DEF Inv, NextInv, Opened
<1>3. req' = req
  BY RequestStays
<1>4. ctx.state = "none" /\ req.op = "rm"
  BY <1>3 DEF Inv, ReadyInv
<1>5. CASE Have
  <2>1. RmRequest
    BY <1>4, <1>5, HaveFacts DEF Have, PutRequest, GetRequest, LsRequest
  <2>2. phase' = "request" /\ UNCHANGED req
    BY <2>1, HaveFacts DEF RmRequest
  <2>3. pc' = "remove"
    <3>1. req.path = "ok"
      BY <2>2, <1>1 DEF Base, WorkInv
    <3> QED
      BY <2>1, <3>1 DEF RmRequest, Goto
  <2> QED
    BY <2>2, <2>3
<1>6. CASE Need
  BY <1>1, <1>4, <1>6, NeedFacts
  DEF Need, NoDataResponse, GetResponse, LsResponse, NeedData, Starts, appVars, RmInv
<1>7. CASE CloudError \/ Lose
  <2>1. pc' = "session_error" /\ UNCHANGED <<phase, file>>
    BY <1>7, EndBase DEF CloudError, Lose, Inform, Starts, appVars
  <2> QED
    BY <1>1, <1>4, <2>1 DEF RmInv
<1>8. CASE Between
  <2>1. CASE Transfer \/ Entry
    BY <1>2, <1>4, <2>1 DEF Transfer, Entry, Does, Inv, NextInv, Moving
  <2>2. CASE Finish \/ InternalReport
    <3>1. file' = file /\ (pc = "finish" \/ pc = "report")
      BY <2>2 DEF Finish, InternalReport, Does, appVars
    <3>2. pc = "report" => phase = "response"
      BY DEF Inv, NextInv, CallInv
    <3> QED
      BY <1>1, <1>4, <3>1, <3>2 DEF RmInv
  <2> QED
    BY <1>8, <2>1, <2>2 DEF Between
<1>9. ASSUME NEW cb \in Callbacks, IsBusy(cb)
      PROVE  file' = << >>
  BY <1>1, <1>4, <1>9 DEF IsBusy, Send, ReturnPending, appVars, RmInv
<1>10. CASE Callback
  <2>1. CASE RemoveDone
    BY <2>1 DEF RemoveDone
  <2>2. CASE GetError \/ SessionError
    BY <2>2, ReportBase DEF Live
  <2>3. CASE \E cb \in Callbacks : Fails(cb)
    BY <2>3, FailBase
  <2>4. CASE OpenDone \/ StatDone \/ OpenDirDone
    BY <1>4, <2>4 DEF OpenDone, StatDone, OpenDirDone, Does, Inv, NextInv
  <2> QED
    BY <1>2, <1>4, <1>10, <2>1, <2>2, <2>3, <2>4
    DEF Callback, SeekEndDone, SeekSetDone, WriteDone, ReadDone, TruncateDone, CloseDone,
        ReadDirDone, StatEntryDone, HashDone, Does, Moving
<1> QED
  BY <1>5, <1>6, <1>7, <1>8, <1>9, <1>10 DEF Next

-----------------------------------------------------------------------------
\* A get that goes well.
GetNow == /\ Disciplined /\ Steady /\ Inv /\ Base /\ req.op = "get" /\ Clean /\ Live /\ GetData
          /\ Inv' /\ Base' /\ Further /\ Clean' /\ Live'

\* What a get needs to know of its numbers.
LEMMA GetTypes ==
    ASSUME GetNow
    PROVE  /\ req \in Requests /\ IsContext(ctx)
           /\ req.offset \in Nat /\ req.length \in Nat /\ ctx.done \in Nat
           /\ BufferSize \in Nat \ {0} /\ OldSize \in Nat /\ Len(Old) = OldSize
           /\ Sought \in Nat
  BY RequestFacts, ConstantsAssumption, OldFile
  DEF GetNow, GetData, Inv, Fields, Base, WorkInv, Sought

\* The header of a get sets offset and length before the file is opened.
LEMMA GetRequestStep ==
    ASSUME GetNow, GetRequest
    PROVE  GetData'
<1>1. /\ phase = "request" /\ pc = "idle" /\ call' = "have" /\ phase' = phase
      /\ UNCHANGED <<req, out, file, pos, buf>>
  BY HaveFacts DEF GetRequest, HaveData, Starts, appVars
<1>2. ctx.state = "none" /\ IsContext(ctx)
  BY <1>1 DEF GetNow, Inv, Fields, ReadyInv
<1>3. pc' = "open" /\ ctx' = [ctx EXCEPT !.offset = req.offset, !.length = req.length]
  <2>1. req.path = "ok"
    BY <1>1 DEF GetNow, Base, WorkInv, GetRequest, Goto
  <2> QED
    BY <2>1 DEF GetRequest, Goto
<1>4. /\ ctx'.state = "none" /\ ctx'.done = ctx.done /\ ctx'.truncate = ctx.truncate
      /\ ctx'.offset = req.offset /\ ctx'.length = req.length
  BY <1>2, <1>3 DEF IsContext
<1>5. out = << >> /\ Sofar = out /\ Sofar' = out
  BY <1>1, <1>3 DEF Sofar, GetNow, GetData
<1> QED
  BY <1>1, <1>2, <1>3, <1>4, <1>5 DEF GetNow, GetData

\* A response of a get begins where the last one ended.
LEMMA GetResponseStep ==
    ASSUME GetNow, GetResponse
    PROVE  GetData'
<1>1. /\ phase = "response" /\ pc = "idle" /\ call' = "need" /\ phase' = phase
      /\ UNCHANGED <<req, out, file, pos>>
  BY NeedFacts DEF GetResponse, NeedData, Starts, appVars
<1>2. IsContext(ctx) /\ ctx.state # "none" /\ ctx.state # "lseek1" /\ ~Failed(ctx)
  BY <1>1 DEF GetNow, Inv, Fields, ReadyInv, GetData, Clean
<1>3. Sofar = out
  BY <1>1 DEF Sofar
<1>4. CASE ~Before(ctx, "closing")
  <2>1. ctx.state \in {"closing", "closed"} /\ Close(ctx) /\ buf' = << >>
    BY <1>2, <1>4, Ranks DEF GetResponse, IsContext
  <2>2. /\ Kept(ctx, ctx') /\ ctx'.state \in {"closing", "closed"} /\ pc' \in {"close", "finish"}
    BY <1>2, <2>1, Closes, ClosesKeep
  <2>3. Sofar' = out
    <3>1. out \in Seq(Int) /\ Sofar' = out \o << >>
      BY <1>1, <2>1, <2>2 DEF Sofar, GetNow, GetData
    <3> QED
      BY <3>1, ConcatEmptySeq
  <2>4. << >> \in Seq(Int)
    OBVIOUS
  <2> QED
    BY <1>1, <1>2, <1>3, <2>1, <2>2, <2>3, <2>4 DEF GetNow, GetData, Kept, Sought
<1>5. CASE Before(ctx, "closing")
  <2>1. ctx.state \in {"open", "lseek"}
    BY <1>2, <1>5, Ranks DEF IsContext, GetNow, GetData
  <2>2. buf' = (IF out = << >> THEN <<0>> ELSE << >>) /\ buf' \in Seq(Int)
    <3>1. buf' = IF out = << >> THEN <<0>> ELSE << >>
      BY <1>2, <1>5 DEF GetResponse, Fresh
    <3>2. <<0>> \in Seq(Int) /\ << >> \in Seq(Int)
      OBVIOUS
    <3> QED
      BY <3>1, <3>2
  <2>3. \/ Position(ctx, buf') /\ Fresh
        \/ Goto("transfer", ctx) /\ left' = LeftOf(ctx, buf') /\ ~Fresh
    BY <1>2, <1>5 DEF GetResponse
  <2>4. \/ /\ pc' = "seek_end" /\ ctx' = ctx /\ ctx.state = "open" /\ Fresh
        \/ /\ pc' = "transfer" /\ Kept(ctx, ctx') /\ ctx'.state = "lseek"
           /\ left' = LeftOf(ctx', buf')
           /\ ctx.state = "open" => req.offset = 0
    <3>1. ctx.offset = req.offset
      BY <1>2 DEF GetNow, GetData
    <3>2. CASE Position(ctx, buf') /\ Fresh
      <4>1. CASE ctx.state = "open" /\ ctx.offset # 0
        BY <1>2, <3>2, <4>1, Ranks DEF Position, Goto, IsContext
      <4>2. CASE ctx.state = "open" /\ ctx.offset = 0
        <5>1. /\ pc' = "transfer" /\ ctx' = [ctx EXCEPT !.state = "lseek"]
              /\ left' = LeftOf(ctx, buf')
          BY <1>2, <3>2, <4>2, Ranks DEF Position, Goto, IsContext
        <5>2. Kept(ctx, ctx') /\ ctx'.state = "lseek"
          BY <1>2, <5>1 DEF Kept, IsContext
        <5>3. LeftOf(ctx', buf') = LeftOf(ctx, buf')
          BY <5>2 DEF LeftOf, Kept
        <5> QED
          BY <3>1, <4>2, <5>1, <5>2, <5>3
      <4>3. CASE ctx.state = "lseek"
        BY <1>2, <3>2, <4>3, Ranks DEF Position, Goto, IsContext, Kept
      <4> QED
        BY <2>1, <4>1, <4>2, <4>3
    <3>3. CASE Goto("transfer", ctx) /\ left' = LeftOf(ctx, buf') /\ ~Fresh
      <4>1. ctx.state = "lseek"
        BY <2>1, <3>3 DEF GetNow, GetData, Fresh
      <4> QED
        BY <3>3, <4>1 DEF Goto, Kept
    <3> QED
      BY <2>3, <3>2, <3>3
  <2>5. Sofar' # << >> /\ Slices(Sofar', req.offset, ctx.done)
    <3>1. Sofar' = out \o buf'
      BY <1>1, <2>4 DEF Sofar
    <3>2. CASE out = << >>
      <4>1. out \o buf' = <<0>>
        BY <2>2, <3>2, ConcatEmptySeq
      <4>2. ctx.done = 0
        BY <1>3, <3>2 DEF GetNow, GetData
      <4> QED
        BY <3>1, <4>1, <4>2 DEF Slices
    <3>3. CASE out # << >>
      <4>1. out \o buf' = out
        BY <2>2, <3>3, ConcatEmptySeq DEF GetNow, GetData
      <4> QED
        BY <1>3, <3>1, <3>3, <4>1 DEF GetNow, GetData
    <3> QED
      BY <3>2, <3>3
  <2>6. CASE pc' = "seek_end"
    BY <1>1, <1>2, <2>2, <2>4, <2>5, <2>6 DEF GetNow, GetData, Fresh
  <2>7. CASE pc' = "transfer"
    <3>1. /\ Kept(ctx, ctx') /\ ctx'.state = "lseek" /\ left' = LeftOf(ctx', buf')
          /\ ctx.state = "open" => req.offset = 0
      BY <2>4, <2>7
    <3>2. /\ pos = Sought /\ ctx.done <= req.length /\ Sought <= OldSize
          /\ ctx'.length = req.length /\ ctx'.offset = req.offset /\ ctx'.done = ctx.done
      BY <1>2, <2>1, <3>1, GetTypes DEF GetNow, GetData, Kept, Sought
    <3>3. left' \in Nat /\ ctx.done + left' <= req.length
      <4>1. Len(buf') \in {0, 1}
        BY <2>2
      <4>2. left' = Smaller(BufferSize - Len(buf'), req.length - ctx.done)
        BY <1>1, <3>1, <3>2 DEF LeftOf, GetNow
      <4>3. BufferSize - Len(buf') \in Nat /\ req.length - ctx.done \in Nat
        <5>1. BufferSize \in Nat /\ BufferSize >= 1 /\ req.length \in Nat /\ ctx.done \in Nat
          BY GetTypes
        <5>2. ctx.done <= req.length
          BY <3>2
        <5> DEFINE k == Len(buf')
                   l == req.length
                   d == ctx.done
        <5>3. k \in {0, 1} /\ l \in Nat /\ d \in Nat /\ d <= l
          BY <4>1, <5>1, <5>2
        <5> HIDE DEF k, l, d
        <5>4. BufferSize - k \in Nat /\ l - d \in Nat
          BY <5>1, <5>3
        <5> QED
          BY <5>4 DEF k, l, d
      <4> QED
        BY <3>2, <4>2, <4>3, GetTypes DEF Smaller
    <3>4. Sought' = Sought
      BY <1>1, <3>2 DEF Sought
    <3> QED
      BY <1>1, <1>2, <2>2, <2>5, <2>7, <3>1, <3>2, <3>3, <3>4 DEF GetNow, GetData, Kept
  <2> QED
    BY <2>4, <2>6, <2>7
<1> QED
  BY <1>4, <1>5

\* The file is open, and its position set.
LEMMA GetOpenStep ==
    ASSUME GetNow, OpenDone
    PROVE  GetData'
<1>1. /\ pc = "open" /\ pc' = "finish" /\ pos' = 0 /\ call = "have" /\ phase = "request"
      /\ UNCHANGED <<req, phase, call, out, buf>>
      /\ ctx' = [ctx EXCEPT !.state = "open", !.truncate = @ /\ ~(ctx.truncate /\ ctx.offset = 0)]
      /\ file' = IF ctx.truncate /\ ctx.offset = 0 THEN << >> ELSE file
  BY DEF OpenDone, Does, Stays, msgVars, Goto, GetNow, Inv, NextInv, CallInv
<1>2. IsContext(ctx) /\ ~ctx.truncate /\ ctx.state \in {"none", "stat"}
  BY <1>1 DEF GetNow, Inv, Fields, NextInv, GetData
<1>3. /\ ctx'.state = "open" /\ ~ctx'.truncate /\ ctx'.done = ctx.done
      /\ ctx'.offset = ctx.offset /\ ctx'.length = ctx.length /\ file' = file
  BY <1>1, <1>2 DEF IsContext
<1>4. Sofar' = out /\ Sofar = out
  BY <1>1 DEF Sofar
<1> QED
  BY <1>1, <1>2, <1>3, <1>4 DEF GetNow, GetData

\* Seeking the end and the offset of a get: nothing is sent yet, and the offset lies in the
\* file when reading begins.
LEMMA GetSeekStep ==
    ASSUME GetNow, SeekEndDone \/ SeekSetDone
    PROVE  GetData'
<1>1. /\ pc \in {"seek_end", "seek_set"}
      /\ UNCHANGED <<req, phase, call, out, buf, file>>
  BY DEF SeekEndDone, SeekSetDone, Does, Stays, msgVars
<1>2. /\ IsContext(ctx) /\ file = Old /\ ctx.offset = req.offset /\ ctx.length = req.length
      /\ ctx.done = 0 /\ call = "need" /\ phase = "response" /\ buf = <<0>> /\ out = << >>
  BY <1>1 DEF GetNow, GetData, Inv, Fields, NextInv, CallInv, Moving, Opened
<1>3. pc' # "idle" => Sofar' = Sofar
  BY <1>1 DEF Sofar
<1>4. CASE SeekEndDone
  <2>1. /\ pc' = "seek_set" /\ ctx' = [ctx EXCEPT !.state = "lseek1"] /\ ~(Len(file) < ctx.offset)
    <3>1. CASE Len(file) < ctx.offset
      <4> DEFINE c == InternalError(ctx, "invalid_offset")
      <4>1. Close(c) /\ IsContext(c) /\ Failed(c)
        BY <1>2, <1>4, <3>1 DEF SeekEndDone, InternalError, IsContext, Failed
      <4>2. Failed(ctx')
        BY <4>1, Closes DEF Failed
      <4> QED
        BY <4>2 DEF GetNow, Clean
    <3> QED
      BY <1>4, <3>1 DEF SeekEndDone, Goto
  <2>2. Kept(ctx, ctx') /\ ctx'.state = "lseek1"
    BY <1>2, <2>1 DEF IsContext, Kept
  <2>3. req.offset <= OldSize
    BY <1>2, <2>1, GetTypes
  <2> QED
    BY <1>1, <1>2, <1>3, <2>1, <2>2, <2>3 DEF GetNow, GetData, Kept
<1>5. CASE SeekSetDone
  <2>1. /\ pc' = "transfer" /\ ctx' = [ctx EXCEPT !.state = "lseek"] /\ pos' = ctx.offset
        /\ left' = LeftOf(ctx, buf) /\ ctx.state = "lseek1" /\ req.offset <= OldSize
    BY <1>5 DEF SeekSetDone, Does, Goto, GetNow, GetData
  <2>2. Kept(ctx, ctx') /\ ctx'.state = "lseek"
    BY <1>2, <2>1 DEF IsContext, Kept
  <2>3. left' \in Nat /\ 0 + left' <= req.length
    <3>1. left' = Smaller(BufferSize - 1, req.length - 0)
      BY <1>2, <2>1 DEF LeftOf, GetNow
    <3>2. BufferSize - 1 \in Nat /\ req.length \in Nat
      BY GetTypes
    <3> QED
      BY <3>1, <3>2 DEF Smaller
  <2>4. Sought' = req.offset /\ pos' = req.offset
    BY <1>1, <1>2, <2>1, <2>2, GetTypes DEF Sought, Kept
  <2> QED
    BY <1>1, <1>2, <1>3, <2>1, <2>2, <2>3, <2>4, GetTypes DEF GetNow, GetData, Kept
<1> QED
  BY <1>4, <1>5

\* A packet is filled.
LEMMA GetTransferStep ==
    ASSUME GetNow, Transfer
    PROVE  GetData'
<1>1. /\ pc = "transfer" /\ req.op = "get" /\ UNCHANGED <<left, buf, file, pos>>
      /\ IsContext(ctx) /\ ctx.state = "lseek" /\ call = "need" /\ phase = "response"
  BY DEF Transfer, appVars, GetNow, GetData, Inv, Fields, NextInv, CallInv, Moving
<1>2. Sofar = out \o buf
  BY <1>1 DEF Sofar
<1>3. CASE left > 0 /\ Stays /\ Goto("read", ctx)
  <2>1. pc' = "read" /\ ctx' = ctx /\ UNCHANGED <<req, phase, call, out>>
    BY <1>3 DEF Stays, msgVars, Goto
  <2>2. Sofar' = Sofar
    BY <1>1, <2>1 DEF Sofar
  <2> QED
    BY <1>1, <1>3, <2>1, <2>2 DEF GetNow, GetData, Sought
<1>4. CASE ctx.done = ctx.length /\ Stays /\ Close(ctx)
  <2>1. /\ Kept(ctx, ctx') /\ pc' = "close" /\ ctx'.state = "closing"
        /\ UNCHANGED <<req, phase, call, out>>
    BY <1>1, <1>4, Closes, ClosesKeep DEF Stays, msgVars, Opened
  <2>2. Sofar' = Sofar
    BY <1>1, <2>1 DEF Sofar
  <2> QED
    BY <1>1, <1>4, <2>1, <2>2 DEF GetNow, GetData, Kept, Sought
<1>5. CASE Send(buf, "more") /\ ctx' = ctx
  <2>1. pc' = "idle" /\ out' = out \o buf /\ UNCHANGED <<req, phase, call>>
    BY <1>5 DEF Send
  <2>2. Sofar' = Sofar
    BY <1>1, <1>2, <2>1 DEF Sofar
  <2>3. out' \in Seq(Int) /\ Sofar # << >>
    BY <1>1, <1>2, <2>1 DEF GetNow, GetData, Slices
  <2> QED
    BY <1>1, <1>5, <2>1, <2>2, <2>3 DEF GetNow, GetData, Sought
<1> QED
  BY <1>1, <1>3, <1>4, <1>5 DEF Transfer

\* Data is read, or the file has ended.
LEMMA GetReadStep ==
    ASSUME GetNow, ReadDone
    PROVE  GetData'
<1>1. /\ pc = "read" /\ UNCHANGED <<req, phase, call, out, file>>
      /\ IsContext(ctx) /\ ctx.state = "lseek" /\ call = "need" /\ phase = "response"
      /\ file = Old /\ pos = Sought /\ Sought <= OldSize /\ ctx.done <= req.length
      /\ ctx.done + left <= req.length /\ left \in Nat
      /\ ctx.offset = req.offset /\ ctx.length = req.length
      /\ out \in Seq(Int) /\ buf \in Seq(Int) /\ Sofar # << >>
      /\ Slices(Sofar, req.offset, ctx.done)
  BY DEF ReadDone, Does, Stays, msgVars, GetNow, GetData, Inv, Fields, NextInv, CallInv, Moving
<1>2. PICK n \in 0 .. Smaller(left, Len(file) - pos) :
        /\ n = 0 <=> pos >= Len(file)
        /\ buf' = buf \o SubSeq(file, pos + 1, pos + n)
        /\ pos' = pos + n /\ left' = left - n
        /\ LET c == [ctx EXCEPT !.done = @ + n]
           IN IF n = 0 THEN Close(c) ELSE Goto("transfer", c)
  BY DEF ReadDone
<1> DEFINE c == [ctx EXCEPT !.done = @ + n]
           t == SubSeq(file, pos + 1, pos + n)
<1>3. n \in Nat /\ n <= left /\ pos + n <= OldSize
  <2> DEFINE p == pos
             m == Len(file)
             l == left
             k == n
  <2>1. p \in Nat /\ m = OldSize /\ OldSize \in Nat /\ p <= m /\ l \in Nat
    BY <1>1, GetTypes
  <2>2. k \in 0 .. Smaller(l, m - p)
    BY <1>2
  <2> HIDE DEF p, m, l, k
  <2>3. m - p \in Nat
    BY <2>1
  <2>4. Smaller(l, m - p) <= l /\ Smaller(l, m - p) <= m - p /\ Smaller(l, m - p) \in Nat
    BY <2>1, <2>3 DEF Smaller
  <2>5. k \in Nat /\ k <= l /\ p + k <= OldSize
    BY <2>1, <2>2, <2>4
  <2> QED
    BY <2>5 DEF p, l, k
<1>4. /\ t \in Seq(Int) /\ Len(t) = n /\ \A i \in 1 .. Len(t) : t[i] = -(req.offset + ctx.done + i)
  <2>1. pos \in Nat /\ pos = req.offset + ctx.done /\ pos + 1 \in Int /\ pos + n \in Int
    BY SMTT(30), <1>1, <1>3, GetTypes DEF Sought
  <2>2. \A i \in pos + 1 .. pos + n : file[i] \in Int
    BY <1>1, <1>3, <2>1, OldFile
  <2>3. /\ t \in Seq(Int) /\ Len(t) = IF pos + 1 <= pos + n THEN (pos + n) - (pos + 1) + 1 ELSE 0
        /\ \A i \in 1 .. (pos + n) - (pos + 1) + 1 : t[i] = file[(pos + 1) + i - 1]
    BY SMTT(30), <2>1, <2>2, SubSeqProperties
  <2>4. Len(t) = n
    BY <1>3, <2>1, <2>3
  <2>5. ASSUME NEW i \in 1 .. n
        PROVE  t[i] = -(req.offset + ctx.done + i)
    <3>1. /\ i \in 1 .. (pos + n) - (pos + 1) + 1 /\ (pos + 1) + i - 1 = pos + i
          /\ pos + i \in 1 .. OldSize
      <4> DEFINE p == pos
      <4>1. p \in Nat /\ OldSize \in Nat /\ n \in Nat /\ p + n <= OldSize
        BY <1>3, <2>1, GetTypes
      <4> HIDE DEF p
      <4>2. /\ i \in 1 .. (p + n) - (p + 1) + 1 /\ (p + 1) + i - 1 = p + i
            /\ p + i \in 1 .. OldSize
        BY <4>1
      <4> QED
        BY <4>2 DEF p
    <3>2. t[i] = file[pos + i]
      BY <2>3, <3>1
    <3>3. Old[pos + i] = -(pos + i)
      BY <3>1, OldFile
    <3> QED
      BY <1>1, <2>1, <3>2, <3>3
  <2> QED
    BY <2>3, <2>4, <2>5
<1>5. /\ IsContext(c) /\ c.state = "lseek" /\ c.done = ctx.done + n
      /\ c.offset = req.offset /\ c.length = req.length /\ c.truncate = ctx.truncate
  BY <1>1 DEF IsContext
<1> HIDE DEF c, t
<1>6. Kept(c, ctx')
      /\ \/ n = 0 /\ pc' = "close" /\ ctx'.state = "closing"
         \/ n # 0 /\ pc' = "transfer" /\ ctx'.state = "lseek"
  <2>1. IF n = 0 THEN Close(c) ELSE Goto("transfer", c)
    BY <1>2 DEF c
  <2> QED
    BY <1>5, <2>1, Closes, ClosesKeep DEF Goto, Kept, Opened
<1>7. buf' \in Seq(Int) /\ Sofar' = Sofar \o t
  <2>1. buf' = buf \o t
    BY <1>2 DEF t
  <2>2. Sofar' = out \o buf' /\ Sofar = out \o buf
    BY <1>1, <1>6 DEF Sofar
  <2>3. buf \o t \in Seq(Int)
    BY <1>1, <1>4, ConcatProperties
  <2>4. out \o (buf \o t) = (out \o buf) \o t
    <3>1. out \in Seq(Int) /\ buf \in Seq(Int) /\ t \in Seq(Int)
      BY <1>1, <1>4
    <3> QED
      BY <3>1, ConcatBytes
  <2> QED
    BY <2>1, <2>2, <2>3, <2>4
<1>8. Slices(Sofar', req.offset, ctx.done + n) /\ Sofar' # << >>
  <2>1. Slices(Sofar', req.offset, ctx.done + n)
    BY <1>1, <1>4, <1>7, SlicesAppend, GetTypes
  <2> QED
    BY <1>3, <2>1, GetTypes DEF Slices
<1>9. /\ ctx'.done = ctx.done + n /\ ctx'.done \in Nat /\ ctx'.done <= req.length
      /\ Sought' = Sought + n /\ Sought' <= OldSize /\ pos' = Sought'
      /\ left' \in Nat /\ ctx'.done + left' <= req.length
      /\ n = 0 => Sought' = OldSize
  <2>1. ctx'.done = ctx.done + n /\ Sought' = req.offset + (ctx.done + n)
    BY <1>1, <1>5, <1>6 DEF Kept, Sought
  <2>2. Sought = req.offset + ctx.done /\ Len(file) = OldSize
    BY <1>1, GetTypes DEF Sought
  <2> DEFINE o == req.offset
             d == ctx.done
             l == left
             m == req.length
             p == pos
  <2>3. /\ o \in Nat /\ d \in Nat /\ l \in Nat /\ m \in Nat /\ OldSize \in Nat
        /\ d + l <= m /\ n \in Nat /\ n <= l /\ p = o + d /\ p + n <= OldSize
        /\ n = 0 => p >= OldSize
    BY <1>1, <1>2, <1>3, <2>2, GetTypes
  <2>4. left' = l - n /\ pos' = p + n
    BY <1>2
  <2> HIDE DEF o, d, l, m, p
  <2>5. /\ d + n \in Nat /\ d + n <= m /\ o + (d + n) = (o + d) + n /\ o + (d + n) <= OldSize
        /\ p + n = o + (d + n) /\ l - n \in Nat /\ d + n + (l - n) <= m
        /\ n = 0 => o + (d + n) = OldSize
    BY <2>3
  <2> QED
    BY <2>1, <2>2, <2>4, <2>5 DEF o, d, m
<1> QED
  BY <1>1, <1>5, <1>6, <1>7, <1>8, <1>9 DEF GetNow, GetData, Kept

\* A callback is busy: what was read goes out, or the response is begun again.
LEMMA GetBusyStep ==
    ASSUME GetNow, NEW cb \in Callbacks, IsBusy(cb)
    PROVE  GetData'
<1>1. /\ pc = cb /\ pc' = "idle" /\ UNCHANGED <<req, call, left, buf, file, pos>>
      /\ IsContext(ctx) /\ cb \in Busy
  BY DEF IsBusy, ReturnPending, Send, appVars, MayBeBusy, GetNow, Inv, Fields
<1>2. cb \in {"open", "seek_end", "read", "close"}
  <2>1. cb \notin {"write", "truncate", "seek_set"}
    BY <1>1 DEF GetNow, GetData, IsBusy, MayBeBusy, Steady
  <2>2. cb \notin {"get_error", "session_error"}
    BY <1>1 DEF GetNow, Base, ErrorInv, Clean, Disciplined
  <2>3. cb \notin {"opendir", "stat", "stat_entry", "hash", "readdir", "remove"}
    BY <1>1 DEF GetNow, Inv, NextInv
  <2> QED
    BY <2>1, <2>2, <2>3 DEF Callbacks, FileCallbacks
<1>3. ctx' = ctx
  BY <1>2 DEF IsBusy
<1>4. ctx.state # "lseek1"
  BY <1>1, <1>2 DEF GetNow, GetData
<1>5. call = (IF cb = "open" THEN "have" ELSE "need")
  <2>1. CASE cb = "close"
    <3>1. ctx.state = "closing" /\ call \in {"have", "need"}
      BY <1>1, <2>1 DEF GetNow, Inv, NextInv, CallInv, Base, WorkInv, Clean
    <3>2. call = "have" => phase = "request"
      BY <1>1, <2>1 DEF GetNow, Inv, CallInv
    <3> QED
      BY <1>1, <2>1, <3>1, <3>2 DEF GetNow, Inv, ReadyInv
  <2>2. CASE cb # "close"
    BY <1>1, <1>2, <2>2 DEF GetNow, Inv, NextInv, Moving
  <2> QED
    BY <2>1, <2>2
<1>6. phase = (IF cb = "open" THEN "request" ELSE "response") /\ phase' = phase
  BY <1>1, <1>2, <1>5 DEF GetNow, Inv, CallInv, IsBusy, ReturnPending, Send
<1>7. /\ out' \in Seq(Int)
      /\ IF out' = << >> THEN ctx.done = 0 ELSE Slices(out', req.offset, ctx.done)
      /\ phase = "request" => out' = << >>
      /\ ctx.state = "open" => out' = << >>
      /\ ctx.state \in {"closing", "closed"} => out' # << >>
  <2>1. CASE cb = "open"
    <3>1. out' = out /\ Sofar = out
      BY <1>5, <2>1 DEF IsBusy, ReturnPending, Sofar
    <3>2. ctx.state \in {"none", "stat"}
      BY <1>1, <2>1 DEF GetNow, Inv, NextInv
    <3> QED
      BY <3>1, <3>2 DEF GetNow, GetData
  <2>2. CASE cb # "open"
    <3>1. /\ Sofar = out \o buf /\ Sofar # << >> /\ out \in Seq(Int) /\ buf \in Seq(Int)
          /\ Slices(Sofar, req.offset, ctx.done)
      BY <1>1, <1>2, <1>5, <2>2 DEF GetNow, GetData, Sofar
    <3>2. CASE out' = out \o buf
      <4>1. ctx.state # "open" \/ cb = "seek_end"
        BY <1>1, <1>2, <2>2 DEF GetNow, GetData, Inv, NextInv
      <4>2. CASE ctx.state # "open"
        BY <1>6, <2>2, <3>1, <3>2, <4>2 DEF Slices
      <4>3. CASE cb = "seek_end"
        <5>1. out' = out /\ out = << >> /\ ctx.done = 0 /\ ctx.state = "open"
          BY <1>1, <4>3 DEF IsBusy, ReturnPending, GetNow, GetData
        <5> QED
          BY <1>6, <2>2, <5>1
      <4> QED
        BY <4>1, <4>2, <4>3
    <3>3. CASE out' = out /\ cb = "seek_end"
      BY <1>1, <1>6, <3>3 DEF GetNow, GetData
    <3>4. CASE out' = out /\ cb \in {"read", "close"} /\ buf = << >>
      <4>1. Sofar = out
        BY <3>1, <3>4, ConcatEmptySeq
      <4>2. ctx.state # "open"
        BY <1>1, <3>4 DEF GetNow, GetData, Inv, NextInv
      <4> QED
        BY <1>6, <3>1, <3>4, <4>1, <4>2
    <3>5. CASE out' = out /\ cb = "read" /\ buf # << >>
      <4>1. ~(Len(buf) > (IF Fresh THEN 1 ELSE 0)) \/ out' = out \o buf
        BY <3>5 DEF IsBusy, Send
      <4>2. CASE out' = out \o buf
        BY <3>2, <4>2
      <4>3. CASE ~(Len(buf) > (IF Fresh THEN 1 ELSE 0))
        <5>1. Len(buf) \in Nat /\ Len(buf) # 0
          BY <3>1, <3>5
        <5>2. out = << >> /\ Len(buf) = 1
          <6> DEFINE k == Len(buf)
          <6>1. k \in Nat /\ k # 0 /\ ~(k > (IF Fresh THEN 1 ELSE 0))
            BY <4>3, <5>1
          <6> HIDE DEF k
          <6>2. Fresh /\ k = 1
            BY <6>1
          <6> QED
            BY <6>2 DEF k, Fresh
        <5>3. Sofar = buf
          BY <3>1, <5>2, ConcatEmptySeq
        <5>4. ctx.done = 0
          <6> DEFINE d == ctx.done
          <6>1. d \in Nat /\ 1 = d + 1
            BY <3>1, <5>2, <5>3, GetTypes DEF Slices
          <6> HIDE DEF d
          <6>2. d = 0
            BY <6>1
          <6> QED
            BY <6>2 DEF d
        <5>5. ctx.state = "lseek"
          BY <1>1, <3>5 DEF GetNow, GetData
        <5> QED
          BY <3>1, <3>5, <5>2, <5>4, <5>5
      <4> QED
        BY <4>1, <4>2, <4>3
    <3>6. CASE out' = out /\ cb = "close" /\ buf # << >>
      <4>1. out' = out \o buf
        BY <1>5, <3>6 DEF IsBusy, Send, GetNow, Clean
      <4> QED
        BY <3>2, <4>1
    <3>7. out' = out \/ out' = out \o buf
      BY DEF IsBusy, Send, ReturnPending
    <3> QED
      BY <1>2, <2>2, <3>2, <3>3, <3>4, <3>5, <3>6, <3>7
  <2> QED
    BY <2>1, <2>2
<1>8. Sofar' = out' /\ Sought' = Sought
  BY <1>1, <1>3 DEF Sofar, Sought
<1> QED
  BY <1>1, <1>3, <1>4, <1>5, <1>6, <1>7, <1>8 DEF GetNow, GetData

\* The file is closed, and the call returns.
LEMMA GetEndStep ==
    ASSUME GetNow, CloseDone \/ Finish \/ CloudError \/ Lose
    PROVE  GetData'
<1>1. IsContext(ctx)
  BY DEF GetNow, Inv, Fields
<1>2. CASE CloseDone
  <2>1. /\ pc = "close" /\ pc' = "finish" /\ UNCHANGED <<req, phase, call, out, buf, file, pos>>
        /\ ctx.state = "closing" /\ Kept(ctx, ctx') /\ ctx'.state = "closed"
    BY <1>1, <1>2
    DEF CloseDone, Does, Stays, msgVars, Goto, GetNow, Inv, NextInv, Kept, IsContext
  <2>2. Sofar' = Sofar
    BY <2>1 DEF Sofar
  <2> QED
    BY <2>1, <2>2 DEF GetNow, GetData, Kept, Sought
<1>3. CASE Finish
  <2>1. /\ pc = "finish" /\ ctx' = ctx /\ call = "have" /\ pc' = "idle"
        /\ UNCHANGED <<req, call, out, buf, file, pos>>
    <3>1. call \in {"have", "need"}
      BY <1>3 DEF Finish, Does, GetNow, Inv, CallInv, Base, WorkInv, Clean
    <3>2. CASE call = "need"
      <4>1. phase' \notin {"request", "response"}
        <5>1. CASE ~cancel
          BY <1>3, <3>2, <5>1 DEF Finish, Send, GetNow, Clean
        <5>2. CASE cancel
          BY <1>3, <3>2, <5>2 DEF Finish, Return, ReturnWorking, GetNow, Clean
        <5> QED
          BY <5>1, <5>2
      <4> QED
        BY <4>1 DEF GetNow, Live
    <3>3. CASE call = "have"
      BY <1>3, <3>3 DEF Finish, Does, Return, ReturnWorking, appVars, GetNow, Clean
    <3> QED
      BY <3>1, <3>2, <3>3
  <2>2. Sofar' = Sofar /\ out = << >>
    BY <2>1 DEF Sofar, GetNow, Inv, CallInv, GetData
  <2>3. ctx.state # "lseek1"
    BY <2>1 DEF GetNow, GetData
  <2> QED
    BY <2>1, <2>2, <2>3 DEF GetNow, GetData, Sought
<1>4. CASE CloudError \/ Lose
  <2>1. /\ pc' = "session_error" /\ ctx' = ctx /\ pc = "idle" /\ call' \in {"error", "cleanup"}
        /\ UNCHANGED <<req, phase, out, buf, file, pos>>
    BY <1>4, EndBase DEF GetNow, CloudError, Lose, Inform, Starts, appVars
  <2>2. Sofar' = Sofar
    BY <2>1 DEF Sofar
  <2> QED
    BY <2>1, <2>2 DEF GetNow, GetData, Sought
<1> QED
  BY <1>2, <1>3, <1>4

\* Every step of a get.
LEMMA GetStep ==
    ASSUME Disciplined, Steady, Inv, Inv', Base, Base', Further, GetInv, Next
    PROVE  GetInv'
<1> SUFFICES ASSUME req'.op = "get", Clean', Live'
             PROVE  GetData'
  BY DEF GetInv
<1>1. GetNow
  BY RequestStays DEF GetNow, Further, GetInv
<1>2. CASE Have
  BY <1>1, <1>2, GetRequestStep, HaveFacts DEF GetNow, Have, PutRequest, RmRequest, LsRequest
<1>3. CASE Need
  BY <1>1, <1>3, GetResponseStep DEF GetNow, Need, NoDataResponse, LsResponse
<1>4. CASE Between
  <2>1. ~Entry
    BY <1>1 DEF Entry, Does, GetNow, Inv, NextInv
  <2>2. ~InternalReport
    BY <1>1, ReportBase DEF GetNow
  <2> QED
    BY <1>1, <1>4, <2>1, <2>2, GetTransferStep, GetEndStep DEF Between
<1>5. CASE Callback
  <2>1. ~(RemoveDone \/ StatDone \/ OpenDirDone \/ ReadDirDone \/ StatEntryDone \/ HashDone)
    BY <1>1
    DEF RemoveDone, StatDone, OpenDirDone, ReadDirDone, StatEntryDone, HashDone, Does, GetNow,
        Inv, NextInv
  <2>2. ~(WriteDone \/ TruncateDone)
    BY <1>1 DEF WriteDone, TruncateDone, Does, GetNow, GetData
  <2>3. ~(GetError \/ SessionError)
    BY <1>1, ReportBase DEF GetNow
  <2>4. ~ \E cb \in Callbacks : Fails(cb)
    BY <1>1, FailBase DEF GetNow
  <2> QED
    BY <1>1, <1>5, <2>1, <2>2, <2>3, <2>4, GetOpenStep, GetSeekStep, GetReadStep, GetEndStep
    DEF Callback
<1> QED
  BY <1>1, <1>2, <1>3, <1>4, <1>5, GetBusyStep, GetEndStep DEF Next

-----------------------------------------------------------------------------
\* A listing that goes well.
LsNow == /\ Disciplined /\ Steady /\ Inv /\ Base /\ req.op = "ls" /\ Clean /\ Live /\ LsData
         /\ Inv' /\ Base' /\ Further /\ Clean' /\ Live'

\* The numbers and the records that the steps of a listing deal with.
LEMMA LsTypes ==
    ASSUME LsNow
    PROVE  /\ req \in Requests /\ IsContext(ctx) /\ req.dir \in BOOLEAN
           /\ Len(Entries) \in Nat /\ cursor \in Nat /\ Seen \in Nat
  BY RequestFacts, ConstantsAssumption DEF LsNow, LsData, Inv, Fields, Seen

\* The request of a listing stats its path, or opens it when that is a directory.
LEMMA LsRequestStep ==
    ASSUME LsNow, LsRequest
    PROVE  LsData'
<1>1. /\ phase = "request" /\ pc = "idle" /\ call' = "have" /\ phase' = phase
      /\ UNCHANGED <<req, out, cursor>>
  BY HaveFacts DEF LsRequest, HaveData, Starts, appVars
<1>2. ctx.state \in {"none", "stat"} /\ IsContext(ctx) /\ req.path = "ok"
  BY <1>1 DEF LsNow, Inv, Fields, ReadyInv, Base, WorkInv, LsRequest, Goto
<1>3. ctx' = ctx /\ pc' = IF ctx.state = "none" THEN "stat" ELSE "opendir"
  BY <1>2, Ranks DEF LsRequest, Goto, IsContext
<1>4. out = << >> /\ Sofar = out /\ Sofar' = out /\ Seen' = Seen
  BY <1>1, <1>3 DEF Sofar, Seen, LsNow, LsData
<1> QED
  BY <1>1, <1>2, <1>3, <1>4 DEF LsNow, LsData

\* A response of a listing goes on with the next entry, unless all were listed.
LEMMA LsResponseStep ==
    ASSUME LsNow, LsResponse
    PROVE  LsData'
<1>1. /\ phase = "response" /\ pc = "idle" /\ call' = "need" /\ phase' = phase
      /\ UNCHANGED <<req, out, cursor>>
  BY NeedFacts DEF LsResponse, NeedData, Starts, appVars
<1>2. /\ IsContext(ctx) /\ ctx.state # "none" /\ ~Failed(ctx) /\ out \in Seq(Int)
      /\ Sofar = out
  BY <1>1 DEF LsNow, Inv, Fields, ReadyInv, LsData, Clean, Sofar
<1>3. CASE ~Before(ctx, "closing")
  <2>1. ctx.state \in {"closing", "closed"} /\ Close(ctx) /\ buf' = << >>
    BY <1>2, <1>3, Ranks DEF LsResponse, IsContext
  <2>2. /\ ctx'.state \in {"closing", "closed"} /\ pc' \in {"close", "finish"}
        /\ pc' = "finish" => ctx'.state = "closed"
    BY <1>2, <2>1, Closes DEF Opened
  <2>3. Sofar' = out
    <3>1. Sofar' = out \o << >>
      BY <1>1, <2>1, <2>2 DEF Sofar
    <3> QED
      BY <1>2, <3>1, ConcatEmptySeq
  <2>4. Seen' = cursor /\ Seen = cursor
    BY <1>1, <2>1, <2>2 DEF Seen
  <2> QED
    BY <1>1, <1>2, <2>1, <2>2, <2>3, <2>4 DEF LsNow, LsData
<1>4. CASE Before(ctx, "closing")
  <2>1. ctx.state \in {"stat", "open", "readdir", "stat_dir_entry"}
    BY <1>2, <1>4, Ranks DEF IsContext, LsNow, LsData
  <2>2. buf' = IF out = << >> THEN <<0>> ELSE << >>
    BY <1>2, <1>4 DEF LsResponse, Fresh
  <2>3. /\ ctx' = ctx
        /\ \/ ctx.state \in {"stat", "stat_dir_entry"} /\ pc' \in {"hash", "entry"}
           \/ ctx.state = "readdir" /\ pc' = "stat_entry"
           \/ ctx.state = "open" /\ pc' = "readdir"
    BY <1>2, <1>4, <2>1 DEF LsResponse, Goto
  <2>4. Sofar' = (IF out = << >> THEN <<0>> ELSE out) /\ Seen' = Seen
    <3>1. Sofar' = out \o buf'
      BY <1>1, <2>3 DEF Sofar
    <3>2. <<0>> \in Seq(Int)
      OBVIOUS
    <3>3. Sofar' = IF out = << >> THEN <<0>> ELSE out
      BY <1>2, <2>2, <3>1, <3>2, ConcatEmptySeq
    <3> QED
      BY <1>1, <2>3, <3>3 DEF Seen
  <2>5. Sofar' # << >>
    <3>1. <<0>> # << >>
      OBVIOUS
    <3> QED
      BY <2>4, <3>1
  <2>6. req.dir /\ ctx.state \notin {"none", "stat"} => Lists(Sofar', Seen)
    <3>1. CASE out = << >>
      BY <1>2, <2>4, <3>1, ListsNothing, LsTypes DEF LsNow, LsData
    <3>2. CASE out # << >>
      BY <1>2, <2>4, <3>2 DEF LsNow, LsData
    <3> QED
      BY <3>1, <3>2
  <2> QED
    BY <1>1, <1>2, <2>1, <2>2, <2>3, <2>4, <2>5, <2>6 DEF LsNow, LsData, Fresh
<1> QED
  BY <1>3, <1>4

\* The status is known, the directory open.
LEMMA LsOpenStep ==
    ASSUME LsNow, StatDone \/ OpenDirDone
    PROVE  LsData'
<1>1. /\ pc \in {"stat", "opendir"} /\ UNCHANGED <<req, phase, call, out>>
      /\ call = "have" /\ phase = "request" /\ IsContext(ctx) /\ ctx.state \in {"none", "stat"}
  BY DEF StatDone, OpenDirDone, Does, Stays, msgVars, LsNow, Inv, Fields, NextInv, CallInv
<1>2. Sofar = out /\ Sofar' = out /\ out = << >>
  BY <1>1 DEF Sofar, LsNow, LsData
<1>3. CASE StatDone
  <2>1. /\ pc' = (IF req.dir THEN "opendir" ELSE "finish") /\ ctx'.state = "stat"
        /\ cursor' = cursor
    BY <1>1, <1>3 DEF StatDone, Goto, IsContext, appVars
  <2> QED
    BY <1>1, <1>2, <2>1, LsTypes DEF LsNow, LsData
<1>4. CASE OpenDirDone
  <2>1. pc = "opendir" /\ pc' = "finish" /\ ctx'.state = "open" /\ cursor' = 0 /\ req.dir
    BY <1>1, <1>4 DEF OpenDirDone, Does, Goto, IsContext, LsNow, LsData
  <2>2. Seen' = 0
    BY <2>1 DEF Seen
  <2> QED
    BY <1>1, <1>2, <2>1, <2>2, LsTypes DEF LsNow, LsData
<1> QED
  BY <1>3, <1>4

\* The next entry, its status and its hash.
LEMMA LsReadStep ==
    ASSUME LsNow, ReadDirDone
    PROVE  LsData'
<1>1. /\ pc = "readdir" /\ UNCHANGED <<req, phase, call, out, buf>>
      /\ call = "need" /\ phase = "response" /\ IsContext(ctx) /\ ctx.state = "open"
      /\ req.dir /\ Seen = cursor /\ Sofar # << >> /\ Lists(Sofar, cursor)
      /\ cursor \in 0 .. Len(Entries)
  BY LsTypes
  DEF ReadDirDone, Does, Stays, msgVars, LsNow, LsData, Inv, Fields, NextInv, CallInv, Seen
<1>2. CASE cursor = Len(Entries)
  <2>1. Close(ctx) /\ cursor' = cursor
    BY <1>2 DEF ReadDirDone
  <2>2. pc' = "close" /\ ctx'.state = "closing"
    BY <1>1, <2>1, Closes DEF Opened
  <2>3. Sofar' = Sofar /\ Seen' = cursor
    BY <1>1, <2>1, <2>2 DEF Sofar, Seen
  <2> QED
    BY <1>1, <1>2, <2>1, <2>2, <2>3 DEF LsNow, LsData
<1>3. CASE cursor # Len(Entries)
  <2>1. /\ cursor' = cursor + 1 /\ cursor' \in 1 .. Len(Entries)
        /\ IF Entries[cursor + 1] = "dot" THEN pc' = "readdir" /\ ctx'.state = "open"
           ELSE pc' = "stat_entry" /\ ctx'.state = "readdir"
    <3>1. cursor' = cursor + 1
      BY <1>3 DEF ReadDirDone
    <3>2. cursor + 1 \in 1 .. Len(Entries)
      BY <1>1, <1>3, LsTypes
    <3>3. IF Entries[cursor'] = "dot" THEN Goto("readdir", ctx)
          ELSE Goto("stat_entry", [ctx EXCEPT !.state = "readdir"])
      BY <1>3 DEF ReadDirDone
    <3> QED
      BY <1>1, <3>1, <3>2, <3>3 DEF Goto, IsContext
  <2>2. Sofar' = Sofar
    BY <1>1, <2>1 DEF Sofar
  <2>3. CASE Entries[cursor + 1] = "dot"
    <3>1. Lists(Sofar, cursor + 1) /\ Seen' = cursor + 1
      BY <1>1, <2>1, <2>3, ListsSkip, LsTypes DEF Seen
    <3> QED
      BY <1>1, <2>1, <2>2, <2>3, <3>1, LsTypes DEF LsNow, LsData, Fresh
  <2>4. CASE Entries[cursor + 1] # "dot"
    <3>1. Seen' = cursor
      <4>1. Seen' = cursor' - 1
        BY <2>1, <2>4 DEF Seen
      <4> QED
        BY <2>1, <4>1, LsTypes
    <3> QED
      BY <1>1, <2>1, <2>2, <2>4, <3>1, LsTypes DEF LsNow, LsData, Fresh
  <2> QED
    BY <2>3, <2>4
<1> QED
  BY <1>2, <1>3

\* The callbacks for one entry, its status and its hash, do not add it to the response yet.
LEMMA LsEntryStep ==
    ASSUME LsNow, StatEntryDone \/ HashDone
    PROVE  LsData'
<1>1. /\ pc \in {"stat_entry", "hash"} /\ UNCHANGED <<req, phase, call, out, buf, cursor>>
      /\ IsContext(ctx)
  BY DEF StatEntryDone, HashDone, Does, Stays, msgVars, appVars, LsNow, Inv, Fields
<1>2. CASE StatEntryDone
  <2>1. /\ pc = "stat_entry" /\ pc' \in {"hash", "entry"} /\ ctx'.state = "stat_dir_entry"
        /\ ctx.state = "readdir"
    BY <1>1, <1>2 DEF StatEntryDone, Does, Goto, IsContext, LsNow, LsData
  <2>2. Sofar' = Sofar /\ Seen' = Seen
    BY <1>1, <2>1 DEF Sofar, Seen
  <2> QED
    BY <1>1, <2>1, <2>2 DEF LsNow, LsData, Fresh
<1>3. CASE HashDone
  <2>1. pc = "hash" /\ pc' = "entry" /\ ctx' = ctx
    BY <1>3 DEF HashDone, Does, Goto
  <2>2. Sofar' = Sofar /\ Seen' = Seen
    BY <1>1, <2>1 DEF Sofar, Seen
  <2> QED
    BY <1>1, <2>1, <2>2 DEF LsNow, LsData, Fresh
<1> QED
  BY <1>2, <1>3

\* The entry goes out.
LEMMA LsSendStep ==
    ASSUME LsNow, Entry
    PROVE  LsData'
<1>1. /\ pc = "entry" /\ pc' = "idle" /\ UNCHANGED <<req, call, cursor>> /\ IsContext(ctx)
      /\ call = "need" /\ phase = "response"
  BY DEF Entry, Does, Send, appVars, LsNow, Inv, Fields, NextInv, CallInv
<1>2. ctx.state # "stat"
  BY DEF Entry, Send, LsNow, Live
<1>3. /\ ctx'.state = "open" /\ out' = out \o (buf \o <<cursor>>) /\ phase' = phase
  BY <1>1, <1>2 DEF Entry, Send, IsContext
<1>4. /\ ctx.state = "stat_dir_entry" /\ req.dir /\ cursor \in 1 .. Len(Entries)
      /\ Entries[cursor] # "dot" /\ Seen = cursor - 1
      /\ Sofar = out \o buf /\ Sofar # << >> /\ Lists(Sofar, cursor - 1)
      /\ out \in Seq(Int) /\ buf \in Seq(Int)
  <2>1. <<0>> \in Seq(Int) /\ << >> \in Seq(Int)
    OBVIOUS
  <2> QED
    BY <1>1, <1>2, <2>1, LsTypes DEF LsNow, LsData, Seen, Sofar
<1>5. out' = Sofar \o <<cursor>> /\ Sofar \in Seq(Int)
  <2>1. <<cursor>> \in Seq(Int)
    BY LsTypes
  <2> QED
    BY SMTT(30), <1>3, <1>4, <2>1, ConcatBytes, ConcatProperties
<1>6. Lists(out', cursor)
  <2> DEFINE n == cursor - 1
  <2>1. n \in Nat /\ n + 1 = cursor
    BY <1>4, LsTypes
  <2>2. Lists(Sofar, n) /\ Entries[n + 1] # "dot"
    BY <1>4, <2>1
  <2> HIDE DEF n
  <2>3. Lists(Sofar \o <<n + 1>>, n + 1)
    BY <1>5, <2>1, <2>2, ListsAppend
  <2> QED
    BY <1>5, <2>1, <2>3
<1>7. out' \in Seq(Int) /\ out' # << >>
  <2>1. <<cursor>> \in Seq(Int) /\ Len(<<cursor>>) = 1
    BY LsTypes
  <2>2. /\ out' \in Seq(Int) /\ Len(out') = Len(Sofar) + Len(<<cursor>>)
        /\ Len(Sofar) \in Nat
    BY <1>5, <2>1, ConcatProperties
  <2>3. Len(out') # 0
    BY <2>1, <2>2
  <2> QED
    BY <2>2, <2>3
<1>8. Sofar' = out' /\ Seen' = cursor
  BY <1>1, <1>3 DEF Sofar, Seen
<1> QED
  BY <1>1, <1>3, <1>4, <1>6, <1>7, <1>8, LsTypes DEF LsNow, LsData

\* A callback is busy: what was read goes out, or the response is begun again.
LEMMA LsBusyStep ==
    ASSUME LsNow, NEW cb \in Callbacks, IsBusy(cb)
    PROVE  LsData'
<1>1. /\ pc = cb /\ pc' = "idle" /\ UNCHANGED <<req, call, left, buf, cursor>>
      /\ IsContext(ctx) /\ cb \in Busy
  BY DEF IsBusy, ReturnPending, Send, appVars, MayBeBusy, LsNow, Inv, Fields
<1>2. cb \in {"stat", "opendir", "readdir", "stat_entry", "hash", "close"}
  <2>1. cb \notin {"get_error", "session_error"}
    BY <1>1 DEF LsNow, Base, ErrorInv, Clean, Disciplined
  <2>2. cb \notin {"open", "seek_end", "seek_set", "read", "write", "truncate", "remove"}
    BY <1>1 DEF LsNow, Inv, NextInv, Moving
  <2> QED
    BY <2>1, <2>2 DEF Callbacks, FileCallbacks
<1>3. ctx' = ctx
  BY <1>2 DEF IsBusy
<1>4. CASE cb \in {"stat", "opendir"}
  <2>1. call = "have" /\ phase = "request" /\ ctx.state \in {"none", "stat"}
    BY <1>1, <1>4 DEF LsNow, Inv, NextInv, CallInv
  <2>2. out' = out /\ phase' = phase
    BY <1>4, <2>1 DEF IsBusy, ReturnPending
  <2> QED
    BY <1>1, <1>3, <1>4, <2>1, <2>2, LsTypes DEF LsNow, LsData
<1>5. CASE cb \notin {"stat", "opendir"}
  <2>1. call = "need" /\ phase = "response"
    <3>1. CASE cb = "close"
      <4>1. ctx.state = "closing" /\ call \in {"have", "need"}
        BY <1>1, <3>1 DEF LsNow, Inv, NextInv, CallInv, Base, WorkInv, Clean
      <4>2. call = "have" => phase = "request"
        BY <1>1, <3>1 DEF LsNow, Inv, CallInv
      <4>3. call = "need" => phase = "response"
        BY <1>1, <3>1 DEF LsNow, Inv, CallInv
      <4> QED
        BY <1>1, <3>1, <4>1, <4>2, <4>3 DEF LsNow, Inv, ReadyInv
    <3>2. CASE cb # "close"
      BY <1>1, <1>2, <1>5, <3>2 DEF LsNow, Inv, NextInv, CallInv
    <3> QED
      BY <3>1, <3>2
  <2>2. phase' = phase
    BY <1>2, <1>5, <2>1 DEF IsBusy, ReturnPending, Send
  <2>3. /\ Sofar = out \o buf /\ Sofar # << >> /\ out \in Seq(Int)
        /\ req.dir /\ ctx.state \notin {"none", "stat"} => Lists(Sofar, Seen)
        /\ Seen \in Nat
    BY <1>1, <1>2, <1>5, <2>1, LsTypes DEF LsNow, LsData, Sofar
  <2>4. Sofar' = out' /\ Seen' = Seen
    BY <1>1, <1>3 DEF Sofar, Seen
  <2>5. /\ out' \in Seq(Int)
        /\ ctx.state \in {"closing", "closed"} => out' # << >>
        /\ ~req.dir => out' = << >>
        /\ req.dir /\ ctx.state \notin {"none", "stat"} =>
              IF out' = << >> THEN \A e \in 1 .. Seen : Entries[e] = "dot" ELSE Lists(out', Seen)
    <3>1. CASE cb \in {"readdir", "stat_entry", "hash"}
      <4>1. out' = out
        BY <3>1 DEF IsBusy, ReturnPending
      <4>2. ctx.state \notin {"closing", "closed"}
        BY <1>1, <3>1 DEF LsNow, LsData
      <4>3. CASE out = << >>
        <5>1. buf = <<0>>
          BY <1>1, <2>1, <3>1, <4>3 DEF LsNow, LsData, Fresh
        <5>2. <<0>> \in Seq(Int)
          OBVIOUS
        <5>3. Sofar = <<0>>
          BY <2>3, <4>3, <5>1, <5>2, ConcatEmptySeq
        <5> QED
          BY <2>3, <4>1, <4>2, <4>3, <5>3, ListsZero
      <4>4. CASE out # << >>
        <5>1. buf = << >>
          BY <1>1, <2>1, <3>1, <4>4 DEF LsNow, LsData, Fresh
        <5>2. Sofar = out
          BY <2>3, <5>1, ConcatEmptySeq
        <5> QED
          BY <2>3, <4>1, <4>2, <4>4, <5>2 DEF LsNow, LsData
      <4> QED
        BY <4>3, <4>4
    <3>2. CASE cb = "close"
      <4>1. ctx.state = "closing"
        BY <1>1, <3>2 DEF LsNow, Inv, NextInv
      <4>2. req.dir
        BY <4>1 DEF LsNow, LsData
      <4>3. out' = Sofar
        <5>1. CASE buf # << >>
          BY <2>1, <2>3, <3>2, <5>1 DEF IsBusy, Send, LsNow, Clean
        <5>2. CASE buf = << >>
          <6>1. out' = out
            BY <3>2, <5>2 DEF IsBusy, ReturnPending
          <6>2. Sofar = out
            BY <2>3, <5>2, ConcatEmptySeq
          <6> QED
            BY <6>1, <6>2
        <5> QED
          BY <5>1, <5>2
      <4>4. out' \in Seq(Int)
        <5>1. buf \in Seq(Int)
          BY <1>1, <2>1, <3>2 DEF LsNow, LsData
        <5> QED
          BY <2>3, <4>3, <5>1, ConcatProperties
      <4> QED
        BY <2>3, <4>1, <4>2, <4>3, <4>4
    <3> QED
      BY <1>2, <1>5, <3>1, <3>2
  <2> QED
    BY <1>1, <1>3, <2>1, <2>2, <2>4, <2>5, LsTypes DEF LsNow, LsData
<1> QED
  BY <1>4, <1>5

\* The directory is closed, and the call returns.
LEMMA LsEndStep ==
    ASSUME LsNow, CloseDone \/ Finish \/ CloudError \/ Lose
    PROVE  LsData'
<1>1. IsContext(ctx)
  BY DEF LsNow, Inv, Fields
<1>2. CASE CloseDone
  <2>1. /\ pc = "close" /\ pc' = "finish" /\ UNCHANGED <<req, phase, call, out, buf, cursor>>
        /\ ctx.state = "closing" /\ ctx'.state = "closed"
    BY <1>1, <1>2 DEF CloseDone, Does, Stays, msgVars, Goto, LsNow, Inv, NextInv, IsContext
  <2>2. Sofar' = Sofar /\ Seen' = Seen
    BY <2>1 DEF Sofar, Seen
  <2>3. call # "have"
    BY <2>1 DEF LsNow, Inv, CallInv, ReadyInv
  <2> QED
    BY <2>1, <2>2, <2>3 DEF LsNow, LsData
<1>3. CASE Finish
  <2>1. /\ pc = "finish" /\ ctx' = ctx /\ call = "have" /\ pc' = "idle"
        /\ UNCHANGED <<req, call, out, buf, cursor>>
    <3>1. call \in {"have", "need"}
      BY <1>3 DEF Finish, Does, LsNow, Inv, CallInv, Base, WorkInv, Clean
    <3>2. CASE call = "need"
      <4>1. phase' \notin {"request", "response"}
        <5>1. CASE ~cancel
          BY <1>3, <3>2, <5>1 DEF Finish, Send, LsNow, Clean
        <5>2. CASE cancel
          BY <1>3, <3>2, <5>2 DEF Finish, Return, ReturnWorking, LsNow, Clean
        <5> QED
          BY <5>1, <5>2
      <4> QED
        BY <4>1 DEF LsNow, Live
    <3>3. CASE call = "have"
      BY <1>3, <3>3 DEF Finish, Does, Return, ReturnWorking, appVars, LsNow, Clean
    <3> QED
      BY <3>1, <3>2, <3>3
  <2>2. Sofar' = Sofar /\ out = << >> /\ Seen' = Seen /\ phase = "request"
    BY <2>1 DEF Sofar, Seen, LsNow, Inv, CallInv, LsData
  <2>3. /\ req.dir => ctx.state = "open"
        /\ ~req.dir => ctx.state = "stat"
    BY <2>1 DEF LsNow, LsData, Inv, ReadyInv, Clean
  <2>4. phase' \in {"request", "response"}
    BY DEF LsNow, Live
  <2>5. phase' = "response"
    <3>1. Return(ctx) /\ ~ctx.aborted /\ ~cancel
      <4>1. ~cancel
        BY <1>3, <2>1, <2>4 DEF Finish, Return, ReturnWorking, LsNow, Clean
      <4> QED
        BY <1>3, <2>1, <4>1 DEF Finish, LsNow, Clean
    <3>2. LastPart
      BY <2>2 DEF LsNow, LastPart, Inv, CallInv, Fields, Disciplined
    <3> QED
      BY <2>1, <3>1, <3>2 DEF Return, ReturnWorking
  <2> QED
    BY <2>1, <2>2, <2>3, <2>5 DEF LsNow, LsData
<1>4. CASE CloudError \/ Lose
  <2>1. /\ pc' = "session_error" /\ ctx' = ctx /\ pc = "idle" /\ call' \in {"error", "cleanup"}
        /\ UNCHANGED <<req, phase, out, buf, cursor>>
    BY <1>4, EndBase DEF LsNow, CloudError, Lose, Inform, Starts, appVars
  <2>2. Sofar' = Sofar /\ Seen' = Seen
    BY <2>1 DEF Sofar, Seen
  <2> QED
    BY <2>1, <2>2 DEF LsNow, LsData
<1> QED
  BY <1>2, <1>3, <1>4

\* Every step of a listing.
LEMMA LsStep ==
    ASSUME Disciplined, Steady, Inv, Inv', Base, Base', Further, LsInv, Next
    PROVE  LsInv'
<1> SUFFICES ASSUME req'.op = "ls", Clean', Live'
             PROVE  LsData'
  BY DEF LsInv
<1>1. LsNow
  BY RequestStays DEF LsNow, Further, LsInv
<1>2. CASE Have
  BY <1>1, <1>2, LsRequestStep, HaveFacts DEF LsNow, Have, PutRequest, RmRequest, GetRequest
<1>3. CASE Need
  BY <1>1, <1>3, LsResponseStep DEF LsNow, Need, NoDataResponse, GetResponse
<1>4. CASE Between
  <2>1. ~Transfer
    BY <1>1 DEF Transfer, LsNow, Inv, NextInv, Moving
  <2>2. ~InternalReport
    BY <1>1, ReportBase DEF LsNow
  <2> QED
    BY <1>1, <1>4, <2>1, <2>2, LsSendStep, LsEndStep DEF Between
<1>5. CASE Callback
  <2>1. ~(RemoveDone \/ OpenDone \/ SeekEndDone \/ SeekSetDone \/ WriteDone \/ ReadDone
          \/ TruncateDone)
    BY <1>1
    DEF RemoveDone, OpenDone, SeekEndDone, SeekSetDone, WriteDone, ReadDone, TruncateDone, Does,
        LsNow, Inv, NextInv, Moving
  <2>2. ~(GetError \/ SessionError)
    BY <1>1, ReportBase DEF LsNow
  <2>3. ~ \E cb \in Callbacks : Fails(cb)
    BY <1>1, FailBase DEF LsNow
  <2> QED
    BY <1>1, <1>5, <2>1, <2>2, <2>3, LsOpenStep, LsReadStep, LsEntryStep, LsEndStep
    DEF Callback
<1> QED
  BY <1>1, <1>2, <1>3, <1>4, <1>5, LsBusyStep, LsEndStep DEF Next

-----------------------------------------------------------------------------
\* A file to which nothing is written yet.
LEMMA HoldsNothing ==
    ASSUME NEW o \in Nat, o <= OldSize, NEW cut \in BOOLEAN, cut => o = 0
    PROVE  Holds(IF cut THEN << >> ELSE Old, o, 0, cut)
<1>1. CASE cut
  <2>1. Len(<< >>) = 0
    OBVIOUS
  <2> QED
    BY <1>1, <2>1 DEF Holds
<1>2. CASE ~cut
  BY <1>2, OldFile DEF Holds, Bigger
<1> QED
  BY <1>1, <1>2

\* The file f after the next k bytes of the payload are written at the position p.
Patched(f, o, p, k) == [i \in 1 .. IF p + k > Len(f) THEN p + k ELSE Len(f) |->
                          IF i \in p + 1 .. p + k THEN -o + i ELSE f[i]]

\* The next k bytes of the payload are written where the last ones end.
LEMMA HoldsMore ==
    ASSUME NEW f \in Seq(Int), NEW o \in Nat, NEW n \in Nat, NEW cut \in BOOLEAN,
           Holds(f, o, n, cut), NEW k \in Nat \ {0}
    PROVE  /\ Patched(f, o, o + n, k) \in Seq(Int)
           /\ Holds(Patched(f, o, o + n, k), o, n + k, cut)
<1> DEFINE p == o + n
           g == [i \in 1 .. IF p + k > Len(f) THEN p + k ELSE Len(f) |->
                   IF i \in p + 1 .. p + k THEN -o + i ELSE f[i]]
<1> DEFINE m == Len(f)
           w == IF p + k > m THEN p + k ELSE m
<1>1. /\ m \in Nat /\ \A i \in 1 .. m : f[i] = IF o < i /\ i <= o + n THEN i - o ELSE -i
      /\ m = IF cut THEN o + n ELSE Bigger(OldSize, o + n)
  BY DEF Holds
<1>2. w \in Nat /\ w = (IF cut THEN o + (n + k) ELSE Bigger(OldSize, o + (n + k))) /\ m >= p
  BY <1>1, OldFile DEF Bigger
<1>3. ASSUME NEW i \in 1 .. w
      PROVE  /\ g[i] = IF o < i /\ i <= o + (n + k) THEN i - o ELSE -i
             /\ g[i] \in Int
  <2>1. g[i] = IF i \in p + 1 .. p + k THEN -o + i ELSE f[i]
    OBVIOUS
  <2>2. CASE i \in p + 1 .. p + k
    BY <2>1, <2>2
  <2>3. CASE i \notin p + 1 .. p + k
    <3>1. i \in 1 .. m
      BY <1>1, <1>2, <2>3
    <3>2. f[i] = IF o < i /\ i <= o + n THEN i - o ELSE -i
      BY <1>1, <3>1
    <3> HIDE DEF m, w
    <3> QED
      BY <2>1, <2>3, <3>1, <3>2
  <2> QED
    BY <2>2, <2>3
<1>4. g \in Seq(Int) /\ Len(g) = w
  <2>1. g \in [1 .. w -> Int]
    BY <1>3
  <2>2. DOMAIN g = 1 .. w
    OBVIOUS
  <2> HIDE DEF w
  <2>3. g \in Seq(Int)
    BY <1>2, <2>1
  <2>4. Len(g) \in Nat /\ DOMAIN g = 1 .. Len(g)
    BY <2>3, LenProperties
  <2> HIDE DEF g
  <2>5. Len(g) = w
    BY <1>2, <2>2, <2>4
  <2> QED
    BY <2>3, <2>5
<1> HIDE DEF w
<1>5. g = Patched(f, o, o + n, k)
  BY DEF Patched
<1> HIDE DEF g
<1>6. Holds(g, o, n + k, cut)
  BY <1>2, <1>3, <1>4 DEF Holds
<1> QED
  BY <1>4, <1>5, <1>6

\* The file is cut where the payload ends.
LEMMA HoldsCut ==
    ASSUME NEW f \in Seq(Int), NEW o \in Nat, NEW n \in Nat, NEW cut \in BOOLEAN,
           Holds(f, o, n, cut)
    PROVE  SubSeq(f, 1, o + n) \in Seq(Int) /\ Holds(SubSeq(f, 1, o + n), o, n, TRUE)
<1> DEFINE m == o + n
           t == SubSeq(f, 1, m)
<1>1. m \in Nat /\ Len(f) \in Nat /\ m <= Len(f)
  BY OldFile DEF Holds, Bigger
<1>2. \A i \in 1 .. m : f[i] \in Int
  BY <1>1
<1>3. /\ t \in Seq(Int) /\ Len(t) = IF 1 <= m THEN m - 1 + 1 ELSE 0
      /\ \A i \in 1 .. m - 1 + 1 : t[i] = f[1 + i - 1]
  BY <1>1, <1>2, SubSeqProperties
<1>4. Len(t) = m /\ \A i \in 1 .. m : t[i] = f[i]
  <2> HIDE DEF t
  <2>1. Len(t) = m
    BY <1>1, <1>3
  <2>2. ASSUME NEW i \in 1 .. m
        PROVE  t[i] = f[i]
    <3>1. i \in 1 .. m - 1 + 1 /\ 1 + i - 1 = i
      BY <1>1
    <3> QED
      BY <1>3, <3>1
  <2> QED
    BY <2>1, <2>2
<1>5. \A i \in 1 .. Len(f) : f[i] = IF o < i /\ i <= m THEN i - o ELSE -i
  BY DEF Holds
<1> HIDE DEF t
<1>6. \A i \in 1 .. m : t[i] = IF o < i /\ i <= m THEN i - o ELSE -i
  BY SMTT(30), <1>1, <1>4, <1>5
<1>7. Holds(t, o, n, TRUE)
  BY <1>4, <1>6 DEF Holds
<1> QED
  BY <1>3, <1>7 DEF t

\* A slice of the old file.
LEMMA OldSlice ==
    ASSUME NEW a \in Nat, NEW b \in Nat, a <= b, b <= OldSize
    PROVE  /\ SubSeq(Old, a + 1, b) \in Seq(Int) /\ Len(SubSeq(Old, a + 1, b)) = b - a
           /\ \A i \in 1 .. b - a : SubSeq(Old, a + 1, b)[i] = -(a + i)
<1> DEFINE t == SubSeq(Old, a + 1, b)
<1>1. \A i \in a + 1 .. b : Old[i] \in Int
  BY OldFile
<1>2. /\ t \in Seq(Int) /\ Len(t) = IF a + 1 <= b THEN b - (a + 1) + 1 ELSE 0
      /\ \A i \in 1 .. b - (a + 1) + 1 : t[i] = Old[(a + 1) + i - 1]
  BY <1>1, SubSeqProperties
<1> HIDE DEF t
<1>3. Len(t) = b - a
  BY <1>2
<1>4. ASSUME NEW i \in 1 .. b - a
      PROVE  t[i] = -(a + i)
  <2>1. i \in 1 .. b - (a + 1) + 1 /\ (a + 1) + i - 1 = a + i /\ a + i \in 1 .. OldSize
    BY OldFile
  <2> QED
    BY <1>2, <2>1, OldFile
<1> QED
  BY <1>2, <1>3, <1>4 DEF t

\* n bytes that are put.
Bytes(n) == [i \in 1 .. n |-> i]

\* A file that holds the whole payload is what Device Cloud asked for.
LEMMA HoldsFinal ==
    ASSUME NEW f \in Seq(Int), NEW o \in Nat, NEW n \in Nat, NEW cut \in BOOLEAN, o <= OldSize,
           Holds(f, o, n, cut)
    PROVE  f = SubSeq(Old, 1, o) \o Bytes(n)
               \o (IF cut THEN << >> ELSE SubSeq(Old, o + n + 1, OldSize))
<1> DEFINE a == SubSeq(Old, 1, o)
           b == Bytes(n)
           c == IF cut THEN << >> ELSE SubSeq(Old, o + n + 1, OldSize)
           w == IF cut THEN o + n ELSE Bigger(OldSize, o + n)
<1>1. a \in Seq(Int) /\ Len(a) = o /\ \A i \in 1 .. o : a[i] = -i
  <2>1. /\ SubSeq(Old, 0 + 1, o) \in Seq(Int) /\ Len(SubSeq(Old, 0 + 1, o)) = o - 0
        /\ \A i \in 1 .. o - 0 : SubSeq(Old, 0 + 1, o)[i] = -(0 + i)
    <3>1. 0 \in Nat /\ 0 <= o
      OBVIOUS
    <3> QED
      BY ONLY <3>1, o \in Nat, o <= OldSize, OldSlice
  <2>2. 0 + 1 = 1 /\ o - 0 = o /\ \A i \in 1 .. o : 0 + i = i
    OBVIOUS
  <2> QED
    BY <2>1, <2>2
<1>2. b \in Seq(Int) /\ Len(b) = n /\ \A i \in 1 .. n : b[i] = i
  BY DEF Bytes
<1>3. /\ c \in Seq(Int) /\ w \in Nat /\ Len(c) = w - (o + n) /\ w >= o + n
      /\ \A i \in 1 .. w - (o + n) : c[i] = -(o + n + i)
  <2> DEFINE p == o + n
  <2>1. p \in Nat /\ OldSize \in Nat
    BY OldFile
  <2>2. CASE cut
    BY <2>1, <2>2
  <2>3. CASE ~cut /\ p <= OldSize
    <3>1. /\ SubSeq(Old, p + 1, OldSize) \in Seq(Int)
          /\ Len(SubSeq(Old, p + 1, OldSize)) = OldSize - p
          /\ \A i \in 1 .. OldSize - p : SubSeq(Old, p + 1, OldSize)[i] = -(p + i)
      <4>1. OldSize <= OldSize
        BY <2>1
      <4> HIDE DEF p
      <4> QED
        BY ONLY <2>1, <2>3, <4>1, OldSlice
    <3>2. w = OldSize /\ c = SubSeq(Old, p + 1, OldSize)
      BY <2>1, <2>3 DEF Bigger
    <3> QED
      BY <2>1, <2>3, <3>1, <3>2
  <2>4. CASE ~cut /\ p > OldSize
    <3>1. SubSeq(Old, p + 1, OldSize) = << >>
      BY <2>1, <2>4, SubSeqEmpty
    <3>2. w = p
      BY <2>1, <2>4 DEF Bigger
    <3> QED
      BY <2>1, <2>4, <3>1, <3>2
  <2> QED
    BY <2>1, <2>2, <2>3, <2>4
<1> HIDE DEF a, b, c, w
<1> DEFINE ab == a \o b
<1>4. /\ ab \in Seq(Int) /\ Len(ab) = o + n
      /\ \A i \in 1 .. o + n : ab[i] = IF i <= o THEN a[i] ELSE b[i - o]
  <2>1. /\ a \o b \in Seq(Int) /\ Len(a \o b) = Len(a) + Len(b)
        /\ \A i \in 1 .. Len(a) + Len(b) :
              (a \o b)[i] = IF i <= Len(a) THEN a[i] ELSE b[i - Len(a)]
    BY <1>1, <1>2, ConcatProperties
  <2> QED
    BY <1>1, <1>2, <2>1
<1> HIDE DEF ab
<1> DEFINE abc == ab \o c
<1>5. /\ abc \in Seq(Int) /\ Len(abc) = w
      /\ \A i \in 1 .. w : abc[i] = IF i <= o + n THEN ab[i] ELSE c[i - (o + n)]
  <2>1. /\ ab \o c \in Seq(Int) /\ Len(ab \o c) = Len(ab) + Len(c)
        /\ \A i \in 1 .. Len(ab) + Len(c) :
              (ab \o c)[i] = IF i <= Len(ab) THEN ab[i] ELSE c[i - Len(ab)]
    BY <1>3, <1>4, ConcatProperties
  <2>2. Len(ab) = o + n /\ Len(c) = w - (o + n) /\ (o + n) + (w - (o + n)) = w
    BY <1>3, <1>4
  <2> QED
    BY <2>1, <2>2
<1> HIDE DEF abc
<1>6. Len(f) = w /\ \A i \in 1 .. w : f[i] = IF o < i /\ i <= o + n THEN i - o ELSE -i
  BY DEF Holds, w
<1>7. ASSUME NEW i \in 1 .. w
      PROVE  f[i] = abc[i]
  <2>1. CASE i <= o
    <3>1. abc[i] = a[i] /\ a[i] = -i /\ f[i] = -i
      BY <1>1, <1>3, <1>4, <1>5, <1>6, <2>1
    <3> QED
      BY <3>1
  <2>2. CASE o < i /\ i <= o + n
    <3>1. i - o \in 1 .. n /\ i \in 1 .. o + n
      BY <1>3, <2>2
    <3>2. abc[i] = b[i - o] /\ b[i - o] = i - o
      BY <1>2, <1>4, <1>5, <2>2, <3>1
    <3> QED
      BY <1>6, <2>2, <3>2
  <2>3. CASE o + n < i
    <3>1. i - (o + n) \in 1 .. w - (o + n) /\ o + n + (i - (o + n)) = i
      BY <1>3, <2>3
    <3>2. abc[i] = c[i - (o + n)] /\ c[i - (o + n)] = -i
      BY <1>3, <1>5, <2>3, <3>1
    <3>3. ~(i <= o + n)
      BY <1>3, <2>3
    <3> QED
      BY <1>6, <3>2, <3>3
  <2> QED
    BY <1>3, <2>1, <2>2, <2>3
<1>8. f = abc
  BY <1>5, <1>6, <1>7, SeqEqual
<1> QED
  BY <1>8 DEF abc, ab, a, b, c

-----------------------------------------------------------------------------
\* A put that goes well.
PutNow == /\ Disciplined /\ Steady /\ Inv /\ Base /\ req.op = "put" /\ req.path = "ok"
          /\ Clean /\ Live /\ PutData
          /\ Inv' /\ Base' /\ Further /\ Clean' /\ Live' /\ req' = req

\* What a put needs to know of its numbers.
LEMMA PutTypes ==
    ASSUME PutNow
    PROVE  /\ IsContext(ctx) /\ req.truncate \in BOOLEAN /\ Emptied \in BOOLEAN
           /\ ctx.truncate \in BOOLEAN
           /\ req.offset \in Nat /\ OldSize \in Nat /\ ctx.done \in Nat /\ part \in Nat \ {0}
           /\ End \in Nat /\ PayloadBefore(part) \in Nat /\ PayloadBefore(part) <= End
           /\ Packet = End - PayloadBefore(part) /\ Packet \in Nat
           /\ part = 1 => PayloadBefore(part) = 0
<1>1. /\ req \in Requests /\ IsContext(ctx) /\ part \in Nat \ {0} /\ part \in DOMAIN req.cuts
      /\ ctx.done \in Nat /\ ctx.truncate \in BOOLEAN
  BY DEF PutNow, Inv, Fields, PutData, Base, Flags
<1>2. /\ req.cuts \in Seq(Nat) /\ req.offset \in Nat /\ req.truncate \in BOOLEAN
      /\ \A p, q \in DOMAIN req.cuts : p < q => req.cuts[p] <= req.cuts[q]
  BY <1>1, RequestFacts
<1>3. DOMAIN req.cuts = 1 .. Len(req.cuts) /\ Len(req.cuts) \in Nat
  BY <1>2, LenProperties
<1>4. End \in Nat
  BY <1>1, <1>2 DEF End
<1>5. PayloadBefore(part) \in Nat /\ PayloadBefore(part) <= End
  <2>1. CASE part = 1
    BY <1>4, <2>1 DEF PayloadBefore
  <2>2. CASE part # 1
    <3>1. part - 1 \in DOMAIN req.cuts /\ part - 1 < part
      BY <1>1, <1>3, <2>2
    <3>2. req.cuts[part - 1] \in Nat /\ req.cuts[part - 1] <= req.cuts[part]
      BY <1>1, <1>2, <3>1
    <3> QED
      BY <2>2, <3>2 DEF PayloadBefore, End
  <2> QED
    BY <2>1, <2>2
<1> QED
  BY <1>1, <1>2, <1>4, <1>5, ConstantsAssumption DEF Emptied, Packet, End, PayloadBefore

\* Nothing is written yet: the position is the offset, and data moves.
LEMMA PutBegins ==
    ASSUME PutNow, part = 1, UNCHANGED part, pc' = "transfer", ctx'.state = "lseek",
           ctx'.done = 0, ctx'.truncate => req.truncate,
           req.truncate /\ req.offset # 0 => ctx'.truncate, ctx'.offset = req.offset,
           left' = Packet, pos' = req.offset, req.offset <= OldSize,
           file' = IF Emptied' THEN << >> ELSE Old
    PROVE  PutData'
<1>1. End' = End /\ PayloadBefore(part)' = PayloadBefore(part) /\ Packet' = Packet /\ req' = req
  BY DEF PutNow, End, PayloadBefore, Packet
<1>2. /\ End \in Nat /\ PayloadBefore(part) = 0 /\ Packet = End - 0 /\ Packet \in Nat
      /\ req.offset \in Nat
  BY PutTypes
<1>3. Done' = 0
  <2>1. Done' = End - Packet
    BY <1>1 DEF Done
  <2> QED
    BY <1>2, <2>1
<1>4. pos' = req.offset + Done' /\ ctx'.offset = req.offset + PayloadBefore(part) + ctx'.done
  BY <1>2, <1>3
<1>5. Holds(file', req.offset, Done', Emptied') /\ file' \in Seq(Int)
  <2>1. Emptied' \in BOOLEAN /\ (Emptied' => req.offset = 0)
    BY <1>1, PutTypes DEF Emptied
  <2>2. << >> \in Seq(Int)
    OBVIOUS
  <2> QED
    BY <1>2, <1>3, <2>1, <2>2, HoldsNothing, OldFile
<1>6. left' \in Nat /\ ctx'.done + left' <= Packet /\ ctx'.done <= Packet /\ ctx'.done \in Nat
  BY <1>2
<1>7. phase' = "request"
  BY DEF PutNow, Inv, NextInv, CallInv, Moving
<1>8. part \in DOMAIN req.cuts
  BY DEF PutNow, PutData
<1> QED
  BY <1>1, <1>4, <1>5, <1>6, <1>7, <1>8 DEF PutData

\* The packet is offered, for the first time or again.
LEMMA PutOffered ==
    ASSUME PutNow, PutRequest
    PROVE  PutData'
<1>1. /\ phase = "request" /\ pc = "idle" /\ UNCHANGED <<req, part, phase, file, pos>>
  BY HaveFacts DEF PutRequest, HaveData, Starts, appVars
<1> DEFINE c == IF part > 1 THEN ctx
                ELSE [ctx EXCEPT !.truncate = @ \/ req.truncate, !.offset = req.offset]
<1>2. IsContext(ctx) /\ ~Failed(ctx) /\ ctx.state # "stat" /\ ctx.state # "lseek1"
  BY <1>1 DEF PutNow, Clean, Inv, Fields, ReadyInv, PutData
<1>3. /\ IsContext(c) /\ c.state = ctx.state /\ c.done = ctx.done
      /\ part = 1 => /\ c.truncate = (ctx.truncate \/ req.truncate)
                     /\ c.offset = req.offset
      /\ part > 1 => c = ctx
  <2>1. ctx.truncate \in BOOLEAN /\ req.truncate \in BOOLEAN
    BY PutTypes
  <2>2. CASE part > 1
    BY <1>2, <2>2, PutTypes
  <2>3. CASE ~(part > 1)
    BY <1>2, <2>1, <2>3 DEF IsContext
  <2> QED
    BY <2>2, <2>3
<1>4. End' = End /\ PayloadBefore(part)' = PayloadBefore(part) /\ Packet' = Packet
  BY <1>1 DEF End, PayloadBefore, Packet
<1>5. part = 1 \/ part > 1
  BY PutTypes
<1> HIDE DEF c
<1>6. CASE ~Before(ctx, "closing")
  <2>1. ctx.state \in {"closing", "closed"} /\ Close(ctx)
    BY <1>2, <1>6, Ranks DEF PutRequest, IsContext
  <2>2. /\ Kept(ctx, ctx') /\ pc' \in {"close", "finish"}
        /\ ctx'.state = ctx.state /\ (pc' = "finish" => ctx'.state = "closed")
    BY <1>2, <2>1, Closes, ClosesKeep DEF Opened
  <2>3. Emptied' = Emptied
    BY <1>1, <2>2 DEF Emptied
  <2> QED
    BY <1>1, <1>4, <2>1, <2>2, <2>3 DEF PutNow, PutData, LastPart, Kept
<1>7. CASE ctx.state = "none"
  <2>1. Goto("open", c) /\ part = 1
    <3>1. /\ part = 1 /\ req.path = "ok" /\ Before(ctx, "open") /\ Before(ctx, "closing")
          /\ ~IsOpen(ctx)
      BY <1>2, <1>7, Ranks DEF IsContext, PutNow, PutData, Opened
    <3> QED
      BY <1>2, <3>1 DEF PutRequest, c
  <2>2. ctx' = c /\ pc' = "open"
    BY <2>1 DEF Goto
  <2>3. Emptied' = Emptied
    BY <1>1, <1>3, <2>2 DEF Emptied
  <2>4. (c.truncate = req.truncate) /\ ctx.done = 0
    BY <1>3, <1>7, <2>1, PutTypes DEF PutNow, PutData
  <2> QED
    BY <1>1, <1>3, <1>4, <1>7, <2>1, <2>2, <2>3, <2>4 DEF PutNow, PutData
<1>8. CASE ctx.state = "open"
  <2>1. Position(c, buf) /\ part = 1 /\ ctx.done = 0 /\ pos = 0
    <3>1. /\ part = 1 /\ req.path = "ok" /\ ~Before(ctx, "open") /\ Before(ctx, "closing")
          /\ IsOpen(ctx)
      BY <1>2, <1>8, Ranks DEF IsContext, PutNow, PutData, Opened
    <3> QED
      BY <1>2, <1>8, <3>1 DEF PutRequest, c, PutNow, PutData
  <2>2. /\ c.truncate => req.truncate
        /\ req.truncate => c.truncate
    BY <1>3, <2>1, PutTypes DEF PutNow, PutData
  <2>3. CASE req.offset # 0
    <3>1. ctx' = c /\ pc' = "seek_end"
      BY <1>3, <1>8, <2>1, <2>3, Ranks DEF Position, Goto, IsContext
    <3>2. Emptied' = Emptied
      BY <1>1, <1>3, <3>1 DEF Emptied
    <3> QED
      BY <1>1, <1>3, <1>4, <1>8, <2>1, <2>2, <2>3, <3>1, <3>2 DEF PutNow, PutData
  <2>4. CASE req.offset = 0
    <3>1. pc' = "transfer" /\ ctx' = [c EXCEPT !.state = "lseek"] /\ left' = LeftOf(c, buf)
      BY <1>3, <1>8, <2>1, <2>4, Ranks DEF Position, Goto, IsContext
    <3>2. Kept(c, ctx') /\ ctx'.state = "lseek"
      BY <1>3, <3>1 DEF IsContext, Kept
    <3>3. left' = Packet
      BY <1>3, <2>1, <3>1, PutTypes DEF LeftOf, PutNow
    <3>4. Emptied' = Emptied
      BY <1>1, <1>8, <3>2 DEF Emptied
    <3>5. file' = IF Emptied' THEN << >> ELSE Old
      BY <1>1, <1>8, <3>4 DEF PutNow, PutData
    <3>6. req.offset <= OldSize
      BY <2>4, PutTypes
    <3> QED
      BY <1>1, <1>3, <2>1, <2>2, <2>4, <3>1, <3>2, <3>3, <3>5, <3>6, PutBegins DEF Kept
  <2> QED
    BY <2>3, <2>4
<1>9. CASE ctx.state = "lseek"
  <2>1. pc' = "transfer" /\ ctx' = c /\ left' = LeftOf(c, buf)
    <3>0. /\ req.path = "ok" /\ ~Before(ctx, "open") /\ Before(ctx, "closing")
          /\ IsOpen(ctx)
      BY <1>2, <1>9, Ranks DEF IsContext, PutNow, Opened
    <3>1. CASE part = 1
      <4>1. Position(c, buf)
        BY <1>2, <3>0, <3>1 DEF PutRequest, c
      <4> QED
        BY <1>3, <1>9, <4>1, Ranks DEF Position, Goto, IsContext
    <3>2. CASE part > 1
      <4>1. Goto("transfer", c) /\ left' = LeftOf(c, buf)
        BY <1>2, <3>0, <3>2 DEF PutRequest, c
      <4> QED
        BY <4>1 DEF Goto
    <3> QED
      BY <1>5, <3>1, <3>2
  <2>2. left' = Packet - ctx.done /\ ctx.done <= Packet
    BY <1>3, <2>1 DEF LeftOf, PutNow, PutData
  <2>3. /\ Done' = Done /\ left' \in Nat /\ ctx.done + left' <= Packet
    <3>1. Done' = End - left' /\ Done = PayloadBefore(part) + ctx.done
      BY <1>1, <1>3, <1>4, <1>9, <2>1 DEF Done
    <3> DEFINE e == End
               d == ctx.done
               b == PayloadBefore(part)
               k == Packet
    <3>2. e \in Nat /\ d \in Nat /\ b \in Nat /\ k = e - b /\ k \in Nat /\ d <= k
      BY <2>2, PutTypes
    <3> HIDE DEF e, d, b, k
    <3>3. e - (k - d) = b + d /\ k - d \in Nat /\ d + (k - d) <= k
      BY <3>2
    <3> QED
      BY <2>2, <3>1, <3>3 DEF e, d, b, k
  <2>4. Emptied' = Emptied
    BY <1>1, <1>3, <2>1 DEF Emptied
  <2>5. /\ c.truncate => req.truncate
        /\ req.truncate /\ req.offset # 0 => c.truncate
        /\ req.truncate /\ part = 1 => ctx.done = 0
        /\ req.truncate => c.offset = req.offset + PayloadBefore(part) + ctx.done
    <3>1. CASE part = 1
      <4>1. c.truncate = (ctx.truncate \/ req.truncate) /\ c.offset = req.offset
            /\ PayloadBefore(part) = 0 /\ req.offset \in Nat
        BY <1>3, <3>1, PutTypes
      <4>2. /\ ctx.truncate => req.truncate
            /\ req.truncate => ctx.done = 0
        BY <3>1 DEF PutNow, PutData
      <4>3. req.offset = req.offset + 0 + 0
        BY <4>1
      <4> QED
        BY <4>1, <4>2, <4>3
    <3>2. CASE part > 1
      BY <1>1, <1>3, <1>9, <3>2 DEF PutNow, PutData
    <3> QED
      BY <1>5, <3>1, <3>2
  <2>6. phase' = "request"
    BY <1>1
  <2> QED
    BY <1>1, <1>3, <1>4, <1>9, <2>1, <2>2, <2>3, <2>4, <2>5, <2>6 DEF PutNow, PutData
<1>10. ctx.state \in {"none", "open", "lseek"} \/ ~Before(ctx, "closing")
  BY <1>2, Ranks DEF IsContext, PutNow, PutData
<1> QED
  BY <1>6, <1>7, <1>8, <1>9, <1>10

\* The response is asked for when everything is written and closed.
LEMMA PutResponseStep ==
    ASSUME PutNow, NoDataResponse
    PROVE  PutData'
<1>1. /\ phase = "response" /\ pc = "idle" /\ phase' = phase
      /\ UNCHANGED <<req, part, file, pos>>
  BY NeedFacts DEF NoDataResponse, NeedData, Starts, appVars
<1>2. ctx' = ctx /\ pc' = "finish"
  BY DEF NoDataResponse, Goto, PutNow, Clean
<1>3. ctx.state = "closed" /\ PutData
  BY <1>1 DEF PutNow, PutData
<1>4. /\ End' = End /\ PayloadBefore(part)' = PayloadBefore(part) /\ Packet' = Packet
      /\ Emptied' = Emptied /\ LastPart' = LastPart
  BY <1>1, <1>2 DEF End, PayloadBefore, Packet, Emptied, LastPart
<1> QED
  BY <1>1, <1>2, <1>3, <1>4 DEF PutData

\* The file is open, and cut when the put begins at its start.
LEMMA PutOpenStep ==
    ASSUME PutNow, OpenDone
    PROVE  PutData'
<1>1. /\ pc = "open" /\ pos' = 0 /\ phase = "request" /\ UNCHANGED <<req, part, phase>>
      /\ ctx.state = "none" /\ part = 1 /\ ctx.offset = req.offset /\ ctx.done = 0
      /\ ctx.truncate = req.truncate /\ IsContext(ctx) /\ file = Old
  BY DEF OpenDone, Does, Stays, msgVars, PutNow, PutData, Inv, Fields, NextInv, CallInv, Emptied
<1> DEFINE truncates == ctx.truncate /\ ctx.offset = 0
           c == [ctx EXCEPT !.state = "open", !.truncate = @ /\ ~truncates]
<1>2. file' = (IF truncates THEN << >> ELSE file) /\ Position(c, buf)
  BY DEF OpenDone, PutNow
<1>3. /\ IsContext(c) /\ c.state = "open" /\ c.done = 0 /\ c.offset = req.offset
      /\ c.truncate = (req.truncate /\ req.offset # 0)
  <2>1. ctx.truncate \in BOOLEAN
    BY PutTypes
  <2> QED
    BY <1>1, <2>1 DEF IsContext, States
<1>4. ctx'.state # "none" => file' = IF Emptied' THEN << >> ELSE Old
  BY <1>1, <1>2 DEF Emptied
<1>5. End' = End /\ PayloadBefore(part)' = PayloadBefore(part) /\ Packet' = Packet
  BY <1>1 DEF End, PayloadBefore, Packet
<1> HIDE DEF c, truncates
<1>6. CASE req.offset # 0
  <2>1. ctx' = c /\ pc' = "seek_end"
    BY <1>2, <1>3, <1>6, Ranks DEF Position, Goto, IsContext
  <2>2. file' \in Seq(Int)
    <3>1. << >> \in Seq(Int)
      OBVIOUS
    <3> QED
      BY <1>1, <1>2, <3>1, OldFile
  <2>3. part \in DOMAIN req.cuts /\ Packet \in Nat /\ 0 <= Packet
    BY PutTypes DEF PutNow, PutData
  <2>4. /\ c.truncate => req.truncate
        /\ req.truncate => c.truncate
    BY <1>3, <1>6, PutTypes
  <2>5. file' = IF Emptied' THEN << >> ELSE Old
    BY <1>3, <1>4, <2>1
  <2> QED
    BY <1>1, <1>3, <1>5, <1>6, <2>1, <2>2, <2>3, <2>4, <2>5 DEF PutData
<1>7. CASE req.offset = 0
  <2>1. pc' = "transfer" /\ ctx' = [c EXCEPT !.state = "lseek"] /\ left' = LeftOf(c, buf)
    BY <1>2, <1>3, <1>7, Ranks DEF Position, Goto, IsContext
  <2>2. Kept(c, ctx') /\ ctx'.state = "lseek"
    BY <1>3, <2>1 DEF IsContext, Kept
  <2>3. left' = Packet
    BY <1>3, <2>1, PutTypes DEF LeftOf, PutNow
  <2>4. req.offset <= OldSize
    BY <1>7, PutTypes
  <2> QED
    BY <1>1, <1>3, <1>4, <1>7, <2>1, <2>2, <2>3, <2>4, PutBegins DEF Kept
<1> QED
  BY <1>6, <1>7

\* The position is set.
LEMMA PutSeekStep ==
    ASSUME PutNow, SeekEndDone \/ SeekSetDone
    PROVE  PutData'
<1>1. /\ pc \in {"seek_end", "seek_set"} /\ phase = "request"
      /\ UNCHANGED <<req, part, phase, file>>
      /\ part = 1 /\ ctx.offset = req.offset /\ IsContext(ctx)
      /\ ctx.state = IF pc = "seek_end" THEN "open" ELSE "lseek1"
      /\ ctx.done = 0 /\ file = IF Emptied THEN << >> ELSE Old
  BY DEF SeekEndDone, SeekSetDone, Does, Stays, msgVars, PutNow, PutData, Inv, Fields, NextInv,
         CallInv, Moving
<1>2. End' = End /\ PayloadBefore(part)' = PayloadBefore(part) /\ Packet' = Packet
  BY <1>1 DEF End, PayloadBefore, Packet
<1>3. CASE SeekEndDone
  <2>1. pc' = "seek_set" /\ ctx' = [ctx EXCEPT !.state = "lseek1"] /\ ~(Len(file) < ctx.offset)
    <3>1. CASE Len(file) < ctx.offset
      <4> DEFINE c == InternalError(ctx, "invalid_offset")
      <4>1. Close(c) /\ IsContext(c) /\ Failed(c)
        BY <1>1, <1>3, <3>1 DEF SeekEndDone, InternalError, IsContext, Failed
      <4>2. Failed(ctx')
        BY <4>1, Closes DEF Failed
      <4> QED
        BY <4>2 DEF PutNow, Clean
    <3> QED
      BY <1>3, <3>1 DEF SeekEndDone, Goto
  <2>2. Kept(ctx, ctx') /\ ctx'.state = "lseek1"
    BY <1>1, <2>1 DEF IsContext, Kept
  <2>3. pc = "seek_end" /\ req.offset # 0
    BY <1>3 DEF SeekEndDone, Does, PutNow, PutData
  <2>4. req.offset <= OldSize
    <3>1. Len(file) = OldSize
      BY <1>1, <2>3, OldFile DEF Emptied
    <3> QED
      BY <1>1, <2>1, <3>1, PutTypes
  <2>5. Emptied' = Emptied
    BY <1>1, <2>2, <2>3 DEF Emptied
  <2> QED
    BY <1>1, <1>2, <2>1, <2>2, <2>3, <2>4, <2>5, PutTypes DEF PutNow, PutData, Kept
<1>4. CASE SeekSetDone
  <2>1. /\ pc = "seek_set" /\ pc' = "transfer" /\ ctx' = [ctx EXCEPT !.state = "lseek"]
        /\ pos' = ctx.offset /\ left' = LeftOf(ctx, buf)
    BY <1>4 DEF SeekSetDone, Does, Goto
  <2>2. Kept(ctx, ctx') /\ ctx'.state = "lseek"
    BY <1>1, <2>1 DEF IsContext, Kept
  <2>3. left' = Packet
    BY <1>1, <2>1, PutTypes DEF LeftOf, PutNow
  <2>4. Emptied' = Emptied
    BY <1>1, <2>1, <2>2 DEF Emptied
  <2>5. /\ req.offset <= OldSize
        /\ ctx.truncate => req.truncate
        /\ req.truncate /\ req.offset # 0 => ctx.truncate
    BY <1>1, <2>1 DEF PutNow, PutData
  <2> QED
    BY <1>1, <2>1, <2>2, <2>3, <2>4, <2>5, PutBegins DEF Kept
<1> QED
  BY <1>3, <1>4

\* The packet is written, and perhaps it was the last one.
LEMMA PutTransferStep ==
    ASSUME PutNow, Transfer
    PROVE  PutData'
<1>1. /\ pc = "transfer" /\ UNCHANGED <<left, file, pos>> /\ IsContext(ctx)
      /\ ctx.state = "lseek" /\ call = "have" /\ phase = "request" /\ ~cancel
      /\ left \in Nat /\ Done = End - left
  BY DEF Transfer, appVars, PutNow, PutData, Inv, Fields, NextInv, CallInv, Moving, Done
<1>2. /\ Holds(file, req.offset, Done, Emptied) /\ pos = req.offset + Done
      /\ req.offset <= OldSize
      /\ req.truncate => ctx.offset = req.offset + PayloadBefore(part) + ctx.done
      /\ ctx.truncate => req.truncate
      /\ req.truncate /\ req.offset # 0 => ctx.truncate
  BY <1>1 DEF PutNow, PutData
<1> DEFINE c == [ctx EXCEPT !.done = 0, !.offset = @ + Written]
<1>3. CASE left > 0
  <2>1. ctx' = ctx /\ pc' = "write" /\ UNCHANGED <<req, part, phase>>
    BY <1>1, <1>3 DEF Transfer, Stays, msgVars, Goto, PutNow
  <2>2. /\ End' = End /\ PayloadBefore(part)' = PayloadBefore(part) /\ Packet' = Packet
        /\ Emptied' = Emptied
    BY <2>1 DEF End, PayloadBefore, Packet, Emptied
  <2>3. Done' = Done
    BY <1>1, <2>1, <2>2 DEF Done
  <2> QED
    BY <1>1, <1>3, <2>1, <2>2, <2>3 DEF PutNow, PutData
<1>4. ASSUME left = 0
      PROVE  /\ IsContext(c) /\ c.done = 0 /\ c.state = "lseek" /\ c.truncate = ctx.truncate
             /\ req.truncate => c.offset = req.offset + End
             /\ Done = End
  <2>1. IsContext(c) /\ c.done = 0 /\ c.state = "lseek" /\ c.truncate = ctx.truncate
        /\ c.offset = ctx.offset + Written
    BY <1>1 DEF IsContext
  <2>2. Written = Packet - ctx.done - 0
    BY <1>4 DEF Written
  <2> DEFINE e == End
             d == ctx.done
             b == PayloadBefore(part)
             k == Packet
             o == req.offset
  <2>3. e \in Nat /\ d \in Nat /\ b \in Nat /\ k = e - b /\ k \in Nat /\ o \in Nat
    BY PutTypes
  <2> HIDE DEF e, d, b, k, o
  <2>4. o + b + d + (k - d - 0) = o + e /\ e - 0 = e
    BY <2>3
  <2>5. req.truncate => c.offset = o + b + d + (k - d - 0)
    BY <1>2, <2>1, <2>2 DEF o, b, d, k
  <2>6. req.truncate => c.offset = req.offset + End
    BY <2>4, <2>5 DEF o, e
  <2>7. Done = End
    BY <1>1, <1>4, <2>4 DEF e
  <2> QED
    BY <2>1, <2>6, <2>7
<1>5. left # 0 => left > 0
  BY <1>1
<1> HIDE DEF c
<1>6. CASE left = 0 /\ ~LastPart
  <2>1. ReturnWorking /\ ctx' = c
    BY <1>6 DEF Transfer, PutNow, c
  <2>2. pc' = "idle" /\ part' = part + 1 /\ phase' = phase /\ req' = req
    BY <1>1, <1>6, <2>1 DEF ReturnWorking, LastPart
  <2>3. /\ PayloadBefore(part)' = End /\ End' = req.cuts[part + 1]
    BY <2>2, PutTypes DEF PayloadBefore, End
  <2>4. part' \in DOMAIN req.cuts /\ End' \in Nat /\ End <= End'
    <3>1. req \in Requests /\ part \in DOMAIN req.cuts
      BY DEF PutNow, Inv, Fields, PutData
    <3>2. /\ req.cuts \in Seq(Nat)
          /\ \A p, q \in DOMAIN req.cuts : p < q => req.cuts[p] <= req.cuts[q]
      BY <3>1, RequestFacts
    <3>3. DOMAIN req.cuts = 1 .. Len(req.cuts) /\ Len(req.cuts) \in Nat
      BY <3>2, LenProperties
    <3>4. part + 1 \in DOMAIN req.cuts /\ part < part + 1
      BY <1>6, <3>1, <3>3 DEF LastPart
    <3> QED
      BY <2>2, <2>3, <3>1, <3>2, <3>4 DEF End
  <2>5. Packet' \in Nat /\ 0 <= Packet'
    <3>1. Packet' = End' - End
      BY <2>3 DEF Packet, End
    <3> DEFINE e == End
               f == End'
    <3>2. e \in Nat /\ f \in Nat /\ e <= f
      BY <2>4, PutTypes
    <3> HIDE DEF e, f
    <3>3. f - e \in Nat /\ 0 <= f - e
      BY <3>2
    <3> QED
      BY <3>1, <3>3 DEF e, f
  <2>6. Done' = Done /\ Emptied' = Emptied
    <3>1. Done' = End + 0
      BY <1>4, <1>6, <2>1, <2>2, <2>3 DEF Done
    <3> QED
      BY <1>1, <1>4, <1>6, <2>1, <2>2, <3>1, PutTypes DEF Emptied
  <2>7. req.truncate => ctx'.offset = req.offset + PayloadBefore(part)' + 0
    BY <1>4, <1>6, <2>1, <2>3, PutTypes
  <2>8. part' # 1
    BY <2>2, PutTypes
  <2>9. file \in Seq(Int)
    BY DEF PutNow, PutData
  <2> QED
    BY <1>1, <1>2, <1>4, <1>6, <2>1, <2>2, <2>3, <2>4, <2>5, <2>6, <2>7, <2>8, <2>9 DEF PutData
<1>7. ASSUME left = 0, LastPart
      PROVE  /\ UNCHANGED <<req, part, phase>> /\ End' = End /\ LastPart'
             /\ PayloadBefore(part)' = PayloadBefore(part) /\ Packet' = Packet
             /\ 0 <= Packet /\ Packet \in Nat
  <2>1. UNCHANGED <<req, part, phase>>
    BY <1>7 DEF Transfer, Stays, msgVars, PutNow
  <2> QED
    BY <1>7, <2>1, PutTypes DEF End, LastPart, PayloadBefore, Packet
<1>8. CASE left = 0 /\ LastPart /\ ctx.truncate
  <2>1. ctx' = c /\ pc' = "truncate"
    BY <1>8 DEF Transfer, Goto, PutNow, c
  <2>2. Done' = Done /\ Emptied' = Emptied
    BY <1>1, <1>4, <1>7, <1>8, <2>1 DEF Done, Emptied
  <2>3. file \in Seq(Int) /\ part \in DOMAIN req.cuts /\ (req.truncate /\ part = 1 => ctx'.done = 0)
    BY <1>4, <1>8, <2>1 DEF PutNow, PutData
  <2> QED
    BY <1>1, <1>2, <1>4, <1>7, <1>8, <2>1, <2>2, <2>3 DEF PutData
<1>9. CASE left = 0 /\ LastPart /\ ~ctx.truncate
  <2>1. Close(c)
    BY <1>9 DEF Transfer, PutNow, c
  <2>2. pc' = "close" /\ ctx'.state = "closing" /\ Kept(c, ctx')
    BY <1>4, <1>9, <2>1, Closes, ClosesKeep DEF Opened
  <2>3. Emptied = req.truncate
    BY <1>1, <1>2, <1>9, PutTypes DEF Emptied
  <2>4. Holds(file, req.offset, End, req.truncate)
    BY <1>2, <1>4, <1>9, <2>3
  <2>5. file \in Seq(Int) /\ part \in DOMAIN req.cuts
    BY DEF PutNow, PutData
  <2> QED
    BY <1>1, <1>2, <1>4, <1>7, <1>9, <2>2, <2>4, <2>5 DEF PutData, Kept
<1> QED
  BY <1>3, <1>5, <1>6, <1>8, <1>9

\* Some of the packet is written.
LEMMA PutWriteStep ==
    ASSUME PutNow, WriteDone
    PROVE  PutData'
<1>1. /\ pc = "write" /\ pc' = "transfer" /\ ctx' = ctx /\ UNCHANGED <<req, part, phase>>
      /\ ctx.state = "lseek" /\ phase = "request" /\ left \in Nat /\ Done = End - left
      /\ file \in Seq(Int) /\ Holds(file, req.offset, Done, Emptied)
      /\ pos = req.offset + Done /\ ctx.done + left <= Packet
  BY DEF WriteDone, Does, Goto, Stays, msgVars, PutNow, PutData, Inv, NextInv, CallInv, Moving,
         Done
<1>2. PICK n \in 1 .. left :
        /\ file' = [i \in 1 .. IF pos + n > Len(file) THEN pos + n ELSE Len(file) |->
                        IF i \in pos + 1 .. pos + n THEN End - left - pos + i ELSE file[i]]
        /\ pos' = pos + n /\ left' = left - n
  BY DEF WriteDone, End
<1>3. /\ End' = End /\ PayloadBefore(part)' = PayloadBefore(part) /\ Packet' = Packet
      /\ Emptied' = Emptied
  BY <1>1 DEF End, PayloadBefore, Packet, Emptied
<1> DEFINE e == End
           d == ctx.done
           b == PayloadBefore(part)
           k == Packet
           o == req.offset
           l == left
           p == pos
           q == Done
<1>4. /\ e \in Nat /\ d \in Nat /\ b \in Nat /\ k = e - b /\ k \in Nat /\ o \in Nat /\ l \in Nat
      /\ q = e - l /\ p = o + q /\ d + l <= k /\ n \in 1 .. l
  BY <1>1, <1>2, PutTypes
<1>5. Done' = e - (l - n)
  BY <1>1, <1>2, <1>3 DEF Done
<1>6. file' = [i \in 1 .. IF p + n > Len(file) THEN p + n ELSE Len(file) |->
                   IF i \in p + 1 .. p + n THEN e - l - p + i ELSE file[i]]
  BY <1>2
<1>7. Holds(file, o, q, Emptied)
  BY <1>1
<1>8. pos' = p + n /\ left' = l - n
  BY <1>2
<1>9. ctx.done = d /\ Packet = k /\ req.offset = o
  OBVIOUS
<1> HIDE DEF e, d, b, k, o, l, p, q
<1>10. /\ n \in Nat \ {0} /\ q \in Nat /\ p \in Nat /\ e - l - p = -o
       /\ e - (l - n) = q + n /\ p + n = o + (q + n) /\ l - n \in Nat /\ d + (l - n) <= k
  BY <1>4
<1>11. file' = [i \in 1 .. IF p + n > Len(file) THEN p + n ELSE Len(file) |->
                   IF i \in p + 1 .. p + n THEN -o + i ELSE file[i]]
  BY <1>6, <1>10
<1>12. file' \in Seq(Int) /\ Holds(file', o, q + n, Emptied)
  <2>1. file \in Seq(Int) /\ o \in Nat /\ q \in Nat /\ n \in Nat \ {0} /\ p \in Nat /\ p = o + q
    BY <1>1, <1>4, <1>10
  <2>2. Emptied \in BOOLEAN
    BY PutTypes
  <2> DEFINE g == file'
             c == Emptied
             f == file
  <2>3. /\ f \in Seq(Int) /\ c \in BOOLEAN /\ Holds(f, o, q, c)
        /\ g = Patched(f, o, o + q, n)
    BY <1>7, <1>11, <2>1, <2>2 DEF Patched
  <2> HIDE DEF f, g, c
  <2>4. g \in Seq(Int) /\ Holds(g, o, q + n, c)
    BY <2>1, <2>3, HoldsMore
  <2> QED
    BY <2>4 DEF g, c
<1>13. Done' = q + n
  BY <1>5, <1>10
<1>14. Holds(file', req.offset, Done', Emptied) /\ pos' = req.offset + Done'
  BY <1>8, <1>9, <1>10, <1>12, <1>13
<1>15. left' \in Nat /\ ctx.done + left' <= Packet
  BY <1>8, <1>9, <1>10
<1> HIDE DEF Emptied, Done
<1> QED
  BY <1>1, <1>3, <1>12, <1>14, <1>15 DEF PutNow, PutData

\* The file is cut where the payload ends.
LEMMA PutTruncateStep ==
    ASSUME PutNow, TruncateDone
    PROVE  PutData'
<1>1. /\ pc = "truncate" /\ UNCHANGED <<req, part, phase>> /\ IsContext(ctx)
      /\ ctx.state = "lseek" /\ phase = "request" /\ Done = End /\ LastPart /\ req.truncate
      /\ file \in Seq(Int) /\ Holds(file, req.offset, Done, Emptied)
      /\ ctx.offset = req.offset + End /\ req.offset <= OldSize
      /\ file' = SubSeq(file, 1, ctx.offset) /\ Close(ctx)
  BY DEF TruncateDone, Does, Stays, msgVars, PutNow, PutData, Inv, Fields, NextInv, CallInv,
         Moving, Done
<1>2. pc' = "close" /\ ctx'.state = "closing" /\ Kept(ctx, ctx')
  BY <1>1, Closes, ClosesKeep DEF Opened
<1>3. /\ End' = End /\ PayloadBefore(part)' = PayloadBefore(part) /\ Packet' = Packet
      /\ LastPart'
  BY <1>1 DEF End, PayloadBefore, Packet, LastPart
<1>4. file' \in Seq(Int) /\ Holds(file', req.offset, End, TRUE)
  BY <1>1, HoldsCut, PutTypes
<1> QED
  BY <1>1, <1>2, <1>3, <1>4 DEF PutNow, PutData, Kept

\* A callback is busy: a write has counted what it wrote, any other call is made again.
LEMMA PutBusyStep ==
    ASSUME PutNow, NEW cb \in Callbacks, IsBusy(cb)
    PROVE  PutData'
<1>1. /\ pc = cb /\ pc' = "idle" /\ UNCHANGED <<req, part, file, pos>>
      /\ IsContext(ctx) /\ MayBeBusy(cb)
  BY DEF IsBusy, ReturnPending, Send, appVars, PutNow, Inv, Fields
<1>2. cb \in {"open", "seek_end", "write", "close"}
  <2>1. cb \notin {"truncate", "seek_set"}
    BY <1>1 DEF MayBeBusy, PutNow, Steady
  <2>2. cb \notin {"get_error", "session_error", "read"}
    BY <1>1 DEF PutNow, PutData, Base, ErrorInv, Clean, Disciplined, MayBeBusy
  <2>3. cb \notin {"opendir", "stat", "stat_entry", "hash", "readdir", "remove"}
    BY <1>1 DEF PutNow, Inv, NextInv
  <2> QED
    BY <2>1, <2>2, <2>3 DEF Callbacks, FileCallbacks
<1>3. phase = "request" /\ phase' = "request"
  <2>1. phase # "response"
    <3>1. phase = "response" => ctx.state = "closed"
      BY DEF PutNow, PutData
    <3>2. pc = "close" => ctx.state = "closing"
      BY DEF PutNow, Inv, NextInv
    <3>3. pc \in {"open", "seek_end", "write"} => phase = "request"
      BY DEF PutNow, Inv, NextInv, CallInv, Moving
    <3> QED
      BY <1>1, <1>2, <3>1, <3>2, <3>3
  <2>2. phase = "request" /\ call # "need"
    BY <1>1, <1>2, <2>1 DEF PutNow, Live, Inv, CallInv
  <2>3. phase' \in {phase, "freed"}
    BY <2>2 DEF IsBusy, ReturnPending, Send
  <2> QED
    BY <2>2, <2>3 DEF PutNow, Live
<1>4. /\ End' = End /\ PayloadBefore(part)' = PayloadBefore(part) /\ Packet' = Packet
      /\ LastPart' = LastPart
  BY <1>1 DEF End, PayloadBefore, Packet, LastPart
<1>5. CASE cb # "write"
  <2>1. ctx' = ctx
    BY <1>5 DEF IsBusy
  <2>2. Done' = Done /\ Emptied' = Emptied
    BY <1>1, <1>2, <1>4, <1>5, <2>1 DEF Done, Emptied
  <2>3. ctx.state \notin {"lseek1", "lseek"} \/ cb = "close"
    BY <1>1, <1>2, <1>5 DEF PutNow, PutData, Inv, NextInv
  <2>4. cb = "close" => ctx.state = "closing"
    BY <1>1 DEF PutNow, Inv, NextInv
  <2> QED
    BY <1>1, <1>2, <1>3, <1>4, <1>5, <2>1, <2>2, <2>3, <2>4 DEF PutNow, PutData
<1>6. CASE cb = "write"
  <2>1. /\ ctx' = [ctx EXCEPT !.done = @ + Written, !.offset = @ + Written]
        /\ ctx.state = "lseek" /\ left \in Nat /\ Done = End - left /\ ctx.done + left <= Packet
        /\ req.truncate => ctx.offset = req.offset + PayloadBefore(part) + ctx.done
    BY <1>1, <1>6 DEF IsBusy, PutNow, PutData, Done
  <2>2. /\ ctx'.done = ctx.done + Written /\ ctx'.offset = ctx.offset + Written
        /\ ctx'.state = "lseek" /\ ctx'.truncate = ctx.truncate
    BY <1>1, <2>1 DEF IsContext
  <2>3. Done' = PayloadBefore(part) + ctx'.done /\ Emptied' = Emptied
    BY <1>1, <1>4, <2>1, <2>2 DEF Done, Emptied
  <2>4. Written = Packet - ctx.done - left
    BY DEF Written
  <2>5. req.truncate /\ part = 1 => ~(ctx.done + Written > 0) /\ ctx.done = 0
    BY <1>1, <1>6 DEF MayBeBusy, PutNow, Steady, PutData
  <2> DEFINE e == End
             d == ctx.done
             b == PayloadBefore(part)
             k == Packet
             o == req.offset
             l == left
             w == Written
             dd == ctx'.done
  <2>6. /\ e \in Nat /\ d \in Nat /\ b \in Nat /\ k = e - b /\ k \in Nat /\ o \in Nat /\ l \in Nat
        /\ w = k - d - l /\ d + l <= k /\ dd = d + w
    BY <2>1, <2>2, <2>4, PutTypes
  <2>7. req.truncate /\ part = 1 => ~(d + w > 0)
    BY <2>5
  <2>8. /\ req.truncate => ctx.offset = o + b + d
        /\ ctx'.offset = ctx.offset + w
    BY <2>1, <2>2
  <2>9. /\ ctx'.done = dd /\ Packet = k /\ End - left = e - l
        /\ PayloadBefore(part) = b /\ req.offset = o
    OBVIOUS
  <2> HIDE DEF e, d, b, k, o, l, w, dd
  <2>10. /\ dd \in Nat /\ dd <= k /\ b + dd = e - l /\ (~(d + w > 0) => dd = 0)
         /\ o + b + d + w = o + b + dd
    BY <2>6
  <2>11. /\ ctx'.done \in Nat /\ ctx'.done <= Packet /\ Done' = Done
         /\ req.truncate /\ part = 1 => ctx'.done = 0
         /\ req.truncate => ctx'.offset = req.offset + PayloadBefore(part) + ctx'.done
    <3>1. ctx'.done \in Nat /\ ctx'.done <= Packet /\ Done' = Done
      BY <2>1, <2>3, <2>9, <2>10
    <3>2. req.truncate /\ part = 1 => ctx'.done = 0
      BY <2>7, <2>9, <2>10
    <3>3. req.truncate => ctx'.offset = req.offset + PayloadBefore(part) + ctx'.done
      BY <2>8, <2>9, <2>10
    <3> QED
      BY <3>1, <3>2, <3>3
  <2> QED
    BY <1>1, <1>3, <1>4, <1>6, <2>1, <2>2, <2>3, <2>11 DEF PutNow, PutData
<1> QED
  BY <1>5, <1>6

\* The file is closed, and the call returns.
LEMMA PutEndStep ==
    ASSUME PutNow, CloseDone \/ Finish \/ CloudError \/ Lose
    PROVE  PutData'
<1>1. IsContext(ctx) /\ PutData
  BY DEF PutNow, Inv, Fields
<1>2. CASE CloseDone
  <2>1. /\ pc = "close" /\ pc' = "finish" /\ UNCHANGED <<req, part, phase, file, pos>>
        /\ ctx.state = "closing" /\ Kept(ctx, ctx') /\ ctx'.state = "closed"
    BY <1>1, <1>2
    DEF CloseDone, Does, Stays, msgVars, Goto, PutNow, Inv, NextInv, Kept, IsContext
  <2>2. /\ End' = End /\ PayloadBefore(part)' = PayloadBefore(part) /\ Packet' = Packet
        /\ LastPart' = LastPart
    BY <2>1 DEF End, PayloadBefore, Packet, LastPart
  <2> QED
    BY <1>1, <2>1, <2>2 DEF PutData, Kept
<1>3. CASE Finish
  <2>1. /\ pc = "finish" /\ ctx' = ctx /\ ctx.state = "closed" /\ LastPart /\ pc' = "idle"
        /\ UNCHANGED <<req, part, file, pos>>
    <3>1. pc = "finish" /\ call \in {"have", "need"}
      BY <1>3 DEF Finish, Does, PutNow, Inv, CallInv, Base, WorkInv, Clean
    <3>2. ctx' = ctx /\ pc' = "idle" /\ UNCHANGED <<file, pos>>
      BY <1>3 DEF Finish, Return, ReturnAbort, ReturnWorking, Send, appVars, PutNow, Clean
    <3>3. ctx.state = "closed" /\ LastPart
      BY <1>1, <3>1 DEF PutData
    <3>4. part' = part
      BY <1>3, <3>3
      DEF Finish, Return, ReturnAbort, ReturnWorking, Send, Stays, msgVars, Report, Goto
    <3> QED
      BY <3>1, <3>2, <3>3, <3>4 DEF PutNow
  <2>2. /\ End' = End /\ PayloadBefore(part)' = PayloadBefore(part) /\ Packet' = Packet
        /\ LastPart' = LastPart
    BY <2>1 DEF End, PayloadBefore, Packet, LastPart
  <2> QED
    BY <1>1, <2>1, <2>2 DEF PutData
<1>4. CASE CloudError \/ Lose
  <2>1. /\ pc' = "session_error" /\ ctx' = ctx /\ pc = "idle"
        /\ UNCHANGED <<req, part, phase, file, pos>>
    BY <1>4, EndBase DEF PutNow, CloudError, Lose, Inform, Starts, appVars
  <2>2. /\ End' = End /\ PayloadBefore(part)' = PayloadBefore(part) /\ Packet' = Packet
        /\ LastPart' = LastPart /\ Emptied' = Emptied
    BY <2>1 DEF End, PayloadBefore, Packet, LastPart, Emptied
  <2>3. Done' = Done
    BY <2>1, <2>2 DEF Done
  <2> QED
    BY <1>1, <2>1, <2>2, <2>3 DEF PutData
<1> QED
  BY <1>2, <1>3, <1>4

\* Every step of a put.
LEMMA PutStep ==
    ASSUME Disciplined, Steady, Inv, Inv', Base, Base', Further, PutInv, Next
    PROVE  PutInv'
<1> SUFFICES ASSUME req'.op = "put", req'.path = "ok", Clean', Live'
             PROVE  PutData'
  BY DEF PutInv
<1>1. PutNow
  BY RequestStays DEF PutNow, Further, PutInv
<1>2. CASE Have
  BY <1>1, <1>2, PutOffered, HaveFacts DEF PutNow, Have, GetRequest, RmRequest, LsRequest
<1>3. CASE Need
  BY <1>1, <1>3, PutResponseStep DEF PutNow, Need, GetResponse, LsResponse
<1>4. CASE Between
  <2>1. ~Entry
    BY <1>1 DEF Entry, Does, PutNow, Inv, NextInv
  <2>2. ~InternalReport
    BY <1>1, ReportBase DEF PutNow
  <2> QED
    BY <1>1, <1>4, <2>1, <2>2, PutTransferStep, PutEndStep DEF Between
<1>5. CASE Callback
  <2>1. ~(RemoveDone \/ StatDone \/ OpenDirDone \/ ReadDirDone \/ StatEntryDone \/ HashDone)
    BY <1>1
    DEF RemoveDone, StatDone, OpenDirDone, ReadDirDone, StatEntryDone, HashDone, Does, PutNow,
        Inv, NextInv
  <2>2. ~ReadDone
    BY <1>1 DEF ReadDone, Does, PutNow, PutData
  <2>3. ~(GetError \/ SessionError)
    BY <1>1, ReportBase DEF PutNow
  <2>4. ~ \E cb \in Callbacks : Fails(cb)
    BY <1>1, FailBase DEF PutNow
  <2> QED
    BY <1>1, <1>5, <2>1, <2>2, <2>3, <2>4, PutOpenStep, PutSeekStep, PutWriteStep,
       PutTruncateStep, PutEndStep
    DEF Callback
<1> QED
  BY <1>1, <1>2, <1>3, <1>4, <1>5, PutBusyStep, PutEndStep DEF Next

-----------------------------------------------------------------------------
\* Nothing happens once the response was sent.
LEMMA SentIsLast ==
    ASSUME Inv, phase = "sent"
    PROVE  ~Next
<1>1. pc = "idle"
  BY DEF Inv, CallInv
<1>2. ~Have /\ ~Need
  BY DEF Have, Need, PutRequest, GetRequest, RmRequest, LsRequest, HaveData, NoDataResponse,
         GetResponse, LsResponse, NeedData
<1>3. ~Between
  BY <1>1 DEF Between, Transfer, Entry, Finish, InternalReport, Does
<1>4. ~Callback /\ ~ \E cb \in Callbacks : IsBusy(cb)
  BY <1>1
  DEF Callback, OpenDone, SeekEndDone, SeekSetDone, WriteDone, ReadDone, TruncateDone, CloseDone,
      RemoveDone, StatDone, OpenDirDone, ReadDirDone, StatEntryDone, HashDone, GetError,
      SessionError, Fails, IsBusy, Does, Callbacks, FileCallbacks
<1>5. ~CloudError /\ ~Lose
  BY DEF CloudError, Lose, HasSession
<1> QED
  BY <1>2, <1>3, <1>4, <1>5 DEF Next

\* Most steps send no last packet.
LEMMA QuietStep ==
    ASSUME Next, ~Entry, ~Finish, ~InternalReport, ~GetError
    PROVE  reply' = reply
<1>1. CASE Have \/ Need \/ CloudError \/ Lose
  BY <1>1
  DEF Have, Need, PutRequest, GetRequest, RmRequest, LsRequest, HaveData, NoDataResponse,
      GetResponse, LsResponse, NeedData, CloudError, Lose, Inform, Starts
<1>2. CASE Between
  BY <1>2 DEF Between, Transfer, Stays, msgVars, ReturnWorking, Send
<1>3. CASE Callback
  BY <1>3
  DEF Callback, OpenDone, SeekEndDone, SeekSetDone, WriteDone, ReadDone, TruncateDone, CloseDone,
      RemoveDone, StatDone, OpenDirDone, ReadDirDone, StatEntryDone, HashDone, SessionError,
      Fails, Stays, msgVars
<1>4. CASE \E cb \in Callbacks : IsBusy(cb)
  BY <1>4 DEF IsBusy, Send, ReturnPending
<1> QED
  BY <1>1, <1>2, <1>3, <1>4 DEF Next

\* The last packet of a put, a removal, a get or a listing of a directory.
LEMMA FinishSays ==
    ASSUME Disciplined, Inv, Base, RmInv, GetInv, LsInv, PutInv,
           pc = "finish", call = "need", ~cancel, ~ctx.told, ~ctx.aborted, ~Failed(ctx),
           UNCHANGED <<req, file>>, out' = out \o buf
    PROVE  ~failed /\ Outcome'
<1>1. /\ phase = "response" /\ req \in Requests /\ IsContext(ctx) /\ ~failed
      /\ ctx.state \notin Opened \cup {"closing"} /\ ctx.internal \in BOOLEAN
  BY DEF Inv, Fields, CallInv, NextInv, Base, ErrorInv, Flags
<1>2. Clean
  <2>1. CASE req.op \in {"put", "rm"}
    BY <1>1, <2>1 DEF Base, WorkInv, Clean
  <2>2. CASE req.op \in {"get", "ls"}
    BY <1>1, <2>2 DEF Base, ErrorInv, Clean, Disciplined
  <2> QED
    BY <1>1, <2>1, <2>2, RequestFacts
<1>3. Live /\ req.path = "ok"
  BY <1>1, <1>2 DEF Base, WorkInv, Live
<1>4. CASE req.op = "put"
  <2>1. PutData /\ ctx.state = "closed"
    BY <1>1, <1>2, <1>3, <1>4 DEF PutInv, PutData
  <2>2. /\ LastPart /\ req.offset <= OldSize /\ Holds(file, req.offset, End, req.truncate)
        /\ file \in Seq(Int) /\ part \in DOMAIN req.cuts
    BY <2>1 DEF PutData
  <2>3. /\ req.offset \in Nat /\ req.truncate \in BOOLEAN /\ End \in Nat
        /\ Len(Payload) = End /\ Payload = Bytes(End)
    <3>1. req.cuts \in Seq(Nat) /\ req.offset \in Nat /\ req.truncate \in BOOLEAN
      BY <1>1, RequestFacts
    <3>2. End \in Nat /\ End = req.cuts[Len(req.cuts)]
      BY <2>2, <3>1 DEF End, LastPart
    <3>3. Payload = [i \in 1 .. End |-> i]
      BY <3>2 DEF Payload
    <3> HIDE DEF End
    <3> QED
      BY <3>1, <3>2, <3>3 DEF Bytes
  <2> DEFINE o == req.offset
             n == End
             b == Payload
             f == file
             cut == req.truncate
  <2>4. /\ o \in Nat /\ n \in Nat /\ cut \in BOOLEAN /\ o <= OldSize /\ f \in Seq(Int)
        /\ Holds(f, o, n, cut) /\ b = Bytes(n) /\ Len(b) = n
    BY <2>2, <2>3
  <2> HIDE DEF o, n, b, f, cut
  <2>5. f = SubSeq(Old, 1, o) \o b
            \o (IF cut THEN << >> ELSE SubSeq(Old, o + Len(b) + 1, OldSize))
    <3>1. f = SubSeq(Old, 1, o) \o Bytes(n)
              \o (IF cut THEN << >> ELSE SubSeq(Old, o + n + 1, OldSize))
      BY <2>4, HoldsFinal
    <3> QED
      BY <2>4, <3>1
  <2>6. Payload' = Payload
    BY DEF Payload
  <2> QED
    BY <1>1, <1>4, <2>5, <2>6 DEF Outcome, o, n, b, f, cut
<1>5. CASE req.op = "get"
  <2>1. GetData
    BY <1>2, <1>3, <1>5 DEF GetInv
  <2>2. ctx.state = "closed"
    BY <1>1, <1>5, <2>1 DEF GetData, Inv, ReadyInv, Opened
  <2>3. /\ Sofar = out \o buf /\ Slices(Sofar, req.offset, ctx.done)
        /\ ctx.done <= req.length /\ Sought <= OldSize /\ Sought = req.offset + ctx.done
        /\ ctx.done = req.length \/ Sought = OldSize
        /\ ctx.done \in Nat
    BY <2>1, <2>2 DEF GetData, Sofar, Sought
  <2> DEFINE o == req.offset
             d == ctx.done
             l == req.length
  <2>4. /\ o \in Nat /\ d \in Nat /\ l \in Nat /\ d <= l /\ o + d <= OldSize
        /\ d = l \/ o + d = OldSize
        /\ OldSize \in Nat
    BY <1>1, <2>3, RequestFacts, ConstantsAssumption
  <2>5. Slices(Sofar, o, d)
    BY <2>3
  <2> HIDE DEF o, d, l
  <2>6. Smaller(o + l, OldSize) = o + d
    BY <2>4 DEF Smaller
  <2>7. Sofar = <<0>> \o SubSeq(Old, o + 1, o + d)
    BY <2>4, <2>5, SliceIs
  <2>8. out' = <<0>> \o SubSeq(Old, o + 1, Smaller(o + l, OldSize))
    BY <2>3, <2>6, <2>7
  <2> QED
    BY <1>1, <1>5, <2>8 DEF Outcome, o, l
<1>6. CASE req.op = "ls"
  <2>1. LsData
    BY <1>2, <1>3, <1>6 DEF LsInv
  <2>2. ctx.state = "closed" /\ req.dir /\ cursor = Len(Entries) /\ Sofar # << >>
    BY <1>1, <2>1, RequestFacts DEF LsData
  <2>3. Seen = cursor /\ Sofar = out \o buf
    BY <2>2 DEF Seen, Sofar
  <2>4. Lists(Sofar, Seen)
    BY <2>1, <2>2 DEF LsData
  <2>5. Lists(out', Len(Entries))
    BY <2>2, <2>3, <2>4
  <2> QED
    BY <1>1, <1>6, <2>2, <2>5 DEF Outcome
<1>7. CASE req.op = "rm"
  <2>1. file = << >>
    BY <1>1, <1>2, <1>7 DEF RmInv
  <2> QED
    BY <1>1, <1>7, <2>1 DEF Outcome
<1> QED
  BY <1>1, <1>4, <1>5, <1>6, <1>7, RequestFacts

\* The status, or the hash, of a single file.
LEMMA EntrySays ==
    ASSUME Disciplined, Inv, Base, LsInv, pc = "entry", ctx.state = "stat",
           req' = req
    PROVE  ~failed /\ (out' = out \o (buf \o <<1>>) => Outcome')
<1>1. /\ req.op = "ls" /\ Clean /\ Live /\ call = "need" /\ phase = "response"
      /\ req \in Requests
  BY DEF Inv, Fields, NextInv, CallInv, Base, WorkInv, Working, Live
<1>2. LsData
  BY <1>1 DEF LsInv
<1>3. ~req.dir /\ out = << >> /\ buf = <<0>>
  BY <1>1, <1>2, RequestFacts DEF LsData, Fresh
<1>4. out' = out \o (buf \o <<1>>) => out' = <<0, 1>>
  <2>1. <<0>> \o <<1>> = <<0, 1>> /\ <<0, 1>> \in Seq(Int)
    <3>1. /\ <<0>> \in Seq(Int) /\ Len(<<0>>) = 1 /\ <<0>>[1] = 0
          /\ <<1>> \in Seq(Int) /\ Len(<<1>>) = 1 /\ <<1>>[1] = 1
      OBVIOUS
    <3>2. <<0, 1>> \in Seq(Int) /\ Len(<<0, 1>>) = 2 /\ <<0, 1>>[1] = 0 /\ <<0, 1>>[2] = 1
      OBVIOUS
    <3> DEFINE s == <<0>>
               t == <<1>>
               u == <<0, 1>>
    <3> HIDE DEF s, t, u
    <3>3. /\ s \o t \in Seq(Int) /\ Len(s \o t) = 1 + 1
          /\ \A i \in 1 .. 1 + 1 : (s \o t)[i] = IF i <= 1 THEN s[i] ELSE t[i - 1]
      <4>1. s \in Seq(Int) /\ Len(s) = 1 /\ t \in Seq(Int) /\ Len(t) = 1
        BY <3>1 DEF s, t
      <4>2. /\ s \o t \in Seq(Int) /\ Len(s \o t) = Len(s) + Len(t)
            /\ \A i \in 1 .. Len(s) + Len(t) :
                  (s \o t)[i] = IF i <= Len(s) THEN s[i] ELSE t[i - Len(s)]
        BY <4>1, ConcatProperties
      <4> QED
        BY <4>1, <4>2
    <3>4. s[1] = 0 /\ t[1] = 1 /\ u \in Seq(Int) /\ Len(u) = 2 /\ u[1] = 0 /\ u[2] = 1
      BY <3>1, <3>2 DEF s, t, u
    <3>5. Len(s \o t) = Len(u) /\ \A i \in 1 .. Len(s \o t) : (s \o t)[i] = u[i]
      BY <3>3, <3>4
    <3>6. s \o t = u
      BY <3>3, <3>4, <3>5, SeqEqual
    <3> QED
      BY <3>2, <3>6 DEF s, t, u
  <2>2. out \o (buf \o <<1>>) = << >> \o <<0, 1>>
    BY <1>3, <2>1
  <2> QED
    BY <2>1, <2>2, ConcatEmptySeq
<1> QED
  BY <1>1, <1>3, <1>4 DEF Outcome, Clean

\* Every step keeps the replies true.
LEMMA SentStep ==
    ASSUME Disciplined, Inv, Base, RmInv, GetInv, LsInv, PutInv, SentInv, Next
    PROVE  SentInv'
<1>1. phase # "sent" /\ reply = "none"
  BY SentIsLast DEF SentInv
<1>2. CASE reply' = reply
  BY <1>1, <1>2 DEF SentInv
<1>3. CASE Entry
  <2>1. CASE ctx.state = "stat"
    <3>1. /\ pc = "entry" /\ ctx' = ctx /\ failed' = failed /\ reply' = "success"
          /\ phase' = "sent" /\ req' = req /\ out' = out \o (buf \o <<1>>)
      BY <1>3, <2>1 DEF Entry, Does, Send
    <3> QED
      BY <2>1, <3>1, EntrySays DEF SentInv
  <2>2. CASE ctx.state # "stat"
    BY <1>2, <1>3, <2>2 DEF Entry, Send
  <2> QED
    BY <2>1, <2>2
<1>4. CASE Finish
  <2>1. CASE call = "need" /\ ~ctx.aborted /\ ~cancel /\ ~Failed(ctx)
    <3>1. /\ pc = "finish" /\ ctx' = ctx /\ failed' = failed /\ reply' = "success"
          /\ phase' = "sent" /\ UNCHANGED <<req, file>> /\ out' = out \o buf
      BY <1>4, <2>1 DEF Finish, Does, Send, appVars
    <3>2. ~ctx.told => ~failed /\ Outcome'
      BY <2>1, <3>1, FinishSays
    <3> QED
      BY <3>1, <3>2 DEF SentInv
  <2>2. CASE ~(call = "need" /\ ~ctx.aborted /\ ~cancel /\ ~Failed(ctx))
    <3>1. reply' = reply
      BY <1>4, <2>2 DEF Finish, Return, ReturnAbort, ReturnWorking, Stays, msgVars
    <3> QED
      BY <1>2, <3>1
  <2> QED
    BY <2>1, <2>2
<1>5. CASE InternalReport \/ GetError
  <2>1. pc \in {"report", "get_error"} /\ UNCHANGED <<ctx, failed, req>>
        /\ \/ reply' = reply
           \/ reply' = "error" /\ phase' = "sent"
    BY <1>5 DEF InternalReport, GetError, Does, ErrorResponse, Send, ReturnAbort
  <2>2. Reason
    BY <2>1 DEF Base, ErrorInv
  <2>3. Reason'
    BY <2>1, <2>2 DEF Reason
  <2> QED
    BY <1>2, <2>1, <2>3 DEF SentInv
<1> QED
  BY <1>2, <1>3, <1>4, <1>5, QuietStep

-----------------------------------------------------------------------------
\* What goes wrong is noted, on every step.
LEMMA BaseStep ==
    ASSUME Disciplined, Inv, Base, GetInv, PutInv, Next
    PROVE  Base' /\ Further
<1>1. CASE Have \/ Need
  BY <1>1, PutRequestBase, RequestBase, ResponseBase DEF Have, Need
<1>2. CASE Between
  BY <1>2, TransferBase, EntryBase, FinishBase, ReportBase DEF Between
<1>3. CASE Callback
  BY <1>3, MoveBase, OtherCallbackBase, ReportBase, FailBase DEF Callback
<1>4. CASE \E cb \in Callbacks : IsBusy(cb)
  BY <1>4, BusyBase
<1>5. CASE CloudError \/ Lose
  BY <1>5, EndBase
<1> QED
  BY <1>1, <1>2, <1>3, <1>4, <1>5 DEF Next

\* At the start nothing is written, read or listed.
LEMMA DataInit ==
    ASSUME Disciplined, Init
    PROVE  DataInv
<1>1. /\ ctx.state = "none" /\ ctx.errnum = "none" /\ ctx.internal = FALSE
      /\ ctx.aborted = FALSE /\ ctx.truncate = FALSE /\ ctx.done = 0 /\ ctx.told = FALSE
  BY DEF Init, FreshContexts
<1>2. req \in Requests /\ pc = "idle" /\ phase = "request" /\ part = 1 /\ file = Old
      /\ out = << >> /\ reply = "none" /\ failed = FALSE /\ cursor = 0
  BY DEF Init
<1>3. Flags /\ ErrorInv /\ RmInv /\ SentInv
  BY <1>1, <1>2 DEF Flags, ErrorInv, RmInv, SentInv, Failed
<1>8. WorkInv
  BY <1>1, <1>2 DEF WorkInv, Failed, Clean, Working, Moving, Live
<1>4. << >> \in Seq(Int) /\ Sofar = << >>
  BY <1>2 DEF Sofar
<1>5. GetInv
  BY <1>1, <1>2, <1>4 DEF GetInv, GetData
<1>6. LsInv
  <2>1. Len(Entries) \in Nat
    BY ConstantsAssumption
  <2> QED
    BY <1>1, <1>2, <1>4, <2>1 DEF LsInv, LsData
<1>7. PutInv
  <2>1. req.cuts \in Seq(Nat) /\ req.cuts # << >>
    BY <1>2, RequestFacts
  <2>2. 1 \in DOMAIN req.cuts /\ req.cuts[1] \in Nat
    BY <2>1, EmptySeq, LenProperties
  <2>3. 0 <= Packet
    BY <1>2, <2>2 DEF Packet, PayloadBefore
  <2> QED
    BY <1>1, <1>2, <2>2, <2>3, OldFile DEF PutInv, PutData, Emptied
<1> QED
  BY <1>3, <1>5, <1>6, <1>7, <1>8 DEF DataInv

\* Every step keeps the data invariant: errors first, then each kind of request.
LEMMA DataStep ==
    ASSUME Disciplined, Steady, Inv, Inv', DataInv, [Next]_vars
    PROVE  DataInv'
<1>1. CASE Next
  <2>1. Base /\ RmInv /\ GetInv /\ LsInv /\ PutInv /\ SentInv
    BY DEF DataInv, Base
  <2>2. Base' /\ Further
    BY <1>1, <2>1, BaseStep
  <2>3. RmInv' /\ GetInv' /\ LsInv' /\ PutInv' /\ SentInv'
    BY <1>1, <2>1, <2>2, RmStep, GetStep, LsStep, PutStep, SentStep
  <2> QED
    BY <2>2, <2>3 DEF DataInv, Base
<1>2. CASE UNCHANGED vars
  <2>1. Flags' /\ ErrorInv' /\ WorkInv' /\ RmInv'
    BY <1>2
    DEF vars, msgVars, appVars, DataInv, Flags, ErrorInv, WorkInv, RmInv, Failed, Reason, Clean,
        Live, Working, Moving
  <2>5. SentInv'
    <3>1. Outcome' = Outcome /\ Reason' = Reason
      BY <1>2 DEF vars, msgVars, appVars, Outcome, Payload, Reason
    <3> QED
      BY <1>2, <3>1 DEF vars, msgVars, DataInv, SentInv
  <2>2. GetInv'
    BY <1>2
    DEF vars, msgVars, appVars, DataInv, GetInv, GetData, Clean, Live, Failed, Sofar, Sought
  <2>3. LsInv'
    BY <1>2
    DEF vars, msgVars, appVars, DataInv, LsInv, LsData, Clean, Live, Failed, Sofar, Seen, Fresh
  <2>4. PutInv'
    <3>1. /\ UNCHANGED <<req, ctx, pc, phase, part, left, pos, file, failed>>
          /\ End' = End /\ Done' = Done /\ Emptied' = Emptied /\ Packet' = Packet
          /\ PayloadBefore(part)' = PayloadBefore(part) /\ LastPart' = LastPart
      BY <1>2 DEF vars, msgVars, appVars, End, Done, Emptied, Packet, PayloadBefore, LastPart
    <3> QED
      BY <3>1 DEF DataInv, PutInv, PutData, Clean, Live, Failed
  <2> QED
    BY <2>1, <2>2, <2>3, <2>4, <2>5 DEF DataInv
<1> QED
  BY <1>1, <1>2

\* Device Cloud is told of success exactly when there was success: whatever is put, got,
\* listed or removed, however it is cut into packets, and whichever callbacks are busy or
\* fail, the whole of it was transferred; and an error is told only for a reason.
THEOREM RepliesAreTrue ==
    ASSUME Disciplined, Steady
    PROVE  Spec => []ReplyIsTrue
<1>1. Init => Inv /\ DataInv
  BY InvInit, DataInit
<1>2. Inv /\ DataInv /\ [Next]_vars => (Inv /\ DataInv)'
  BY InvStep, DataStep
<1>3. DataInv => ReplyIsTrue
  BY DEF DataInv, SentInv, ReplyIsTrue, Reason
<1> QED
  BY <1>1, <1>2, <1>3, PTL DEF Spec
=============================================================================
