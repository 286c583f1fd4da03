----------------------------- MODULE FileSystem -----------------------------
(***************************************************************************)
(* The file system service: one session of Device Cloud, which puts, gets, *)
(* lists or removes a file through the callbacks of the application.       *)
(*                                                                         *)
(* The messaging layer calls the service with a packet of the request      *)
(* (Offer), for a packet of the response (Poll), when Device Cloud ends    *)
(* the session (CloudError) and when the connection is lost (Lose).  A call*)
(* runs from callback to callback: pc is the next callback, or the next    *)
(* label between two of them.  A busy callback ends the call, which        *)
(* the messaging layer makes again, with the same packet.                  *)
(*                                                                         *)
(* The file holds numbers: -i for its i-th byte of old, i for the i-th byte*)
(* that a put sends.  0 is the opcode at the head of a response.           *)
(***************************************************************************)
EXTENDS Integers, Sequences

CONSTANTS
    Requests,   \* what Device Cloud asks for, one of them
    OldSize,    \* the length of the file
    Entries,    \* the entries of the directory: "dot", "dir" or "file"
    BufferSize, \* what a packet of the response holds
    Errors,     \* how callbacks fail: "error", "unset", "unrecognized", "abort"
    Busy,       \* the callbacks that may be busy
    Retries,    \* the awkward moments at which they may be
    CloudErrors,\* Device Cloud may end the session
    Loses       \* the connection may be lost

FileCallbacks == {"seek_end", "seek_set", "read", "write", "truncate", "readdir",
                  "close"}
Callbacks == FileCallbacks
    \cup {"open", "opendir", "stat", "stat_entry", "hash", "remove",
          "get_error", "session_error"}

\* offset and truncate are of a put, offset and length of a get; cuts tells where the
\* packets of a put end in its payload; dir and hash are of a listing.
Request == [op : {"put", "get", "ls", "rm"}, path : {"ok", "bad", "long"},
            offset : Nat, length : Nat, truncate : BOOLEAN, cuts : Seq(Nat),
            dir : BOOLEAN, hash : BOOLEAN]

ASSUME ConstantsAssumption ==
    /\ Requests \subseteq Request
    /\ \A r \in Requests : /\ r.cuts # << >>
                          /\ \A p, q \in DOMAIN r.cuts : p < q => r.cuts[p] <= r.cuts[q]
    /\ OldSize \in Nat
    /\ Entries \in Seq({"dot", "dir", "file"})
    /\ BufferSize \in Nat \ {0}
    /\ Errors \subseteq {"error", "unset", "unrecognized", "abort"}
    /\ Busy \subseteq Callbacks
    /\ Retries \subseteq {"cut_write", "truncate", "seek_set", "close_cancelled",
                           "close_lost"}
    /\ {CloudErrors, Loses} \subseteq BOOLEAN

VARIABLES
    req,     \* the request
    phase,   \* where the messaging layer is with the session
    part,    \* the packet of the request that comes next
    inbox,   \* the packet that stays in the receive buffer: "none", "data", "error"
    call,    \* what the messaging layer calls the service for
    pc,      \* the next callback or label of that call
    cancel,  \* service_type is msg_service_type_error
    left,    \* bytes_to_write, bytes_to_read
    buf,     \* what the packet of the response holds so far
    ctx,     \* fs_context_t
    file,    \* the application: the file,
    pos,     \*   its position,
    handle,  \*   what is open,
    cursor,  \*   the entries of the directory that were read
    out,     \* history: the response sent so far
    reply,   \* history: how it ended
    failed   \* history: a callback failed

appVars == <<file, pos, handle, cursor>>
msgVars == <<req, phase, part, inbox, call, out, reply>>
vars == <<msgVars, pc, cancel, left, buf, ctx, appVars, failed>>

Old == [i \in 1 .. OldSize |-> -i]
Fresh == out = << >>                        \* MsgIsStart of the response
LastPart == part = Len(req.cuts)
PayloadBefore(p) == IF p = 1 THEN 0 ELSE req.cuts[p - 1]
Packet == req.cuts[part] - PayloadBefore(part)   \* the length of the packet
Smaller(m, n) == IF m < n THEN m ELSE n

-----------------------------------------------------------------------------
\* fs_context_t.

Rank == [none |-> 0, stat |-> 1, open |-> 2, lseek1 |-> 3, lseek |-> 4, readdir |-> 5,
         stat_dir_entry |-> 6, closing |-> 7, closed |-> 8]
Before(c, state) == Rank[c.state] < Rank[state]
IsOpen(c) == ~Before(c, "open") /\ Before(c, "closed")
Failed(c) == c.errnum # "none"

\* offset and length are what the memory held.
FreshContexts == [state : {"none"}, errnum : {"none"}, internal : {FALSE},
                 aborted : {FALSE}, truncate : {FALSE}, done : {0}, told : {FALSE},
                 offset : {0, 1}, length : {1}]

\* fs_error_path_too_long is 0, as CONNECTOR_FILESYSTEM_ERRNUM_NONE is, in a union.
InternalError(c, e) == [c EXCEPT !.internal = TRUE,
                                 !.errnum = IF e = "path_too_long" THEN "none" ELSE e]

-----------------------------------------------------------------------------
\* What the messaging layer does with the outcome of a call.

\* Busy: it makes the same call again.
ReturnPending ==
    /\ pc' = "idle"
    /\ phase' = IF call = "cleanup" THEN "freed" ELSE phase
    /\ inbox' = CASE call = "have"  -> "data"
                  [] call = "error" -> "error"
                  [] OTHER          -> inbox
    /\ UNCHANGED <<req, part, call, out, reply>>

\* The connector is aborted.
ReturnAbort ==
    /\ pc' = "idle"
    /\ phase' = IF call = "cleanup" THEN "freed" ELSE "aborted"
    /\ UNCHANGED <<req, part, inbox, call, out, reply>>

\* The packet is taken; the session goes on, or to an error packet.
ReturnWorking ==
    /\ pc' = "idle"
    /\ phase' = CASE call \in {"error", "cleanup"} -> "freed"
                  [] call \in {"have", "need"} /\ cancel -> "error"
                  [] call = "have" /\ ~cancel /\ LastPart -> "response"
                  [] OTHER -> phase
    /\ part' = IF call = "have" /\ ~LastPart THEN part + 1 ELSE part
    /\ inbox' = IF call \in {"have", "error"} THEN "none" ELSE inbox
    /\ UNCHANGED <<req, call, out, reply>>

Return(c) == IF c.aborted THEN ReturnAbort ELSE ReturnWorking

\* A packet of the response goes out, the last one unless how is "more".
Send(data, how) ==
    /\ pc' = "idle"
    /\ out' = out \o data
    /\ reply' = IF how = "more" THEN reply ELSE how
    /\ phase' = IF how = "more" THEN phase ELSE "sent"
    /\ UNCHANGED <<req, part, inbox, call>>

\* A callback or a label comes next.
Goto(label, c) == pc' = label /\ ctx' = c

\* Mutant: what is not open is closed too.
CloseAnyway(c) == Goto("close", [c EXCEPT !.state = "closing"])

\* call_file_close_user, as far as the callback.
Close(c) == IF IsOpen(c) THEN Goto("close", [c EXCEPT !.state = "closing"])
                         ELSE Goto("finish", c)

-----------------------------------------------------------------------------
Init ==
    /\ req \in Requests
    /\ ctx \in FreshContexts
    /\ phase = "request" /\ part = 1 /\ inbox = "none"
    /\ call = "none" /\ pc = "idle" /\ cancel = FALSE
    /\ left = 0 /\ buf = << >>
    /\ file = Old /\ pos = 0 /\ handle = "none" /\ cursor = 0
    /\ out = << >> /\ reply = "none" /\ failed = FALSE

-----------------------------------------------------------------------------
\* The messaging layer calls the service.

Starts(reason) ==
    /\ pc = "idle"
    /\ call' = reason
    /\ cancel' = (reason \in {"error", "cleanup"})
    /\ UNCHANGED <<req, phase, part, inbox, out, reply, appVars, failed>>

\* What is left to write of the packet, or to read for the packet b.
LeftOf(c, b) == IF req.op = "put"
                THEN Packet - c.done
                ELSE Smaller(BufferSize - Len(b), c.length - c.done)

\* The file is open: the position is set, once, and data moves.
Position(c, b) ==
    IF Before(c, "lseek1") /\ c.offset # 0
    THEN Goto("seek_end", c) /\ left' = 0
    ELSE /\ Goto("transfer", IF Before(c, "lseek") THEN [c EXCEPT !.state = "lseek"] ELSE c)
         /\ left' = LeftOf(c, b)

BadPath(c) == InternalError(c, IF req.path = "bad" THEN "format" ELSE "path_too_long")

HaveData(op) ==
    /\ req.op = op
    /\ phase = "request" /\ inbox \in {"none", "data"}
    /\ Starts("have")
    /\ UNCHANGED buf

\* The header of the first packet is read again each time it is offered.
PutRequest ==
    /\ HaveData("put")
    /\ LET c == IF part > 1 THEN ctx
                ELSE [ctx EXCEPT !.truncate = @ \/ req.truncate, !.offset = req.offset]
       IN IF Failed(ctx) \/ ~Before(ctx, "closing") THEN Close(ctx) /\ left' = left
          ELSE CASE part = 1 /\ req.path # "ok" -> Goto("finish", BadPath(ctx)) /\ left' = left
                 [] part = 1 /\ req.path = "ok" /\ Before(ctx, "open") ->
                        Goto("open", c) /\ left' = left
                 [] part = 1 /\ req.path = "ok" /\ IsOpen(ctx) -> Position(c, buf)
                 [] part > 1 /\ IsOpen(ctx) -> Goto("transfer", c) /\ left' = LeftOf(c, buf)
                 [] OTHER -> Goto("finish", ctx) /\ left' = left

GetRequest ==
    /\ HaveData("get")
    /\ IF req.path # "ok"
       THEN Goto("finish", BadPath(ctx))
       ELSE Goto("open", [ctx EXCEPT !.offset = req.offset, !.length = req.length])
    /\ left' = left

RmRequest ==
    /\ HaveData("rm")
    /\ IF req.path # "ok" THEN Goto("finish", BadPath(ctx)) ELSE Goto("remove", ctx)
    /\ left' = left

LsRequest ==
    /\ HaveData("ls")
    /\ IF req.path # "ok" THEN Goto("finish", BadPath(ctx))
       ELSE Goto(IF Before(ctx, "stat") THEN "stat" ELSE "opendir", ctx)
    /\ left' = left

NeedData == phase = "response" /\ Starts("need")

Report(c) == Goto(IF c.internal THEN "report" ELSE "get_error", c)

\* The response of a put or a removal has no data.
NoDataResponse ==
    /\ req.op \in {"put", "rm"} /\ NeedData
    /\ IF Failed(ctx) \/ ctx.internal
       THEN Report(ctx) /\ buf' = << >>
       ELSE Goto("finish", ctx) /\ buf' = <<0>>
    /\ left' = left

GetResponse ==
    /\ req.op = "get" /\ NeedData
    /\ IF Failed(ctx) \/ ~Before(ctx, "closing")
       THEN Close(ctx) /\ buf' = << >> /\ left' = left
       ELSE /\ buf' = IF Fresh THEN <<0>> ELSE << >>
            /\ IF Fresh THEN Position(ctx, buf')
                        ELSE Goto("transfer", ctx) /\ left' = LeftOf(ctx, buf')

\* A single file is hashed; an entry that was read waits for its status or its hash.
LsResponse ==
    /\ req.op = "ls" /\ NeedData
    /\ IF Failed(ctx) \/ ~Before(ctx, "closing")
       THEN Close(ctx) /\ buf' = << >>
       ELSE /\ buf' = IF Fresh THEN <<0>> ELSE << >>
            /\ Goto(CASE ctx.state = "stat"           -> IF req.hash THEN "hash" ELSE "entry"
                      [] ctx.state = "readdir"        -> "stat_entry"
                      [] ctx.state = "stat_dir_entry" -> "hash"
                      [] OTHER                        -> "readdir", ctx)
    /\ left' = left

\* The session ends with an error: the application is told, once, and the file closed.
Inform(reason) ==
    /\ Starts(reason)
    /\ IF ctx.told THEN Close(ctx) ELSE Goto("session_error", ctx)
    /\ UNCHANGED <<left, buf>>

HasSession == phase = "response" \/ (phase = "request" /\ (part > 1 \/ inbox = "data"))
\* msg_process_error.  A packet that stays in the receive buffer keeps it out.
CloudError ==
    /\ HasSession
    /\ inbox = "error" \/ (inbox = "none" /\ CloudErrors)
    /\ Inform("error")
\* msg_cleanup_all_sessions.
Lose ==
    /\ phase = "aborted" \/ (HasSession /\ Loses)
    /\ Inform("cleanup")

-----------------------------------------------------------------------------
\* The callbacks: fs_call_user.

\* The context after the answer a.
Answered(c, a) ==
    CASE a = "error" /\ ~Failed(c) -> [c EXCEPT !.errnum = "user"]
      [] a = "unset" /\ ~Failed(c) -> InternalError(c, "generic")
      [] a = "unrecognized"        -> InternalError(c, "canceled")
      [] a = "abort"               -> [c EXCEPT !.aborted = TRUE]
      [] OTHER                     -> c

Written == Packet - ctx.done - left

MayBeBusy(cb) ==
    /\ cb \in Busy
    /\ (cb = "write" /\ part = 1 /\ req.truncate /\ ctx.done + Written > 0)
            => "cut_write" \in Retries
    /\ cb = "truncate" => "truncate" \in Retries
    /\ cb = "seek_set" => "seek_set" \in Retries
    /\ (cb = "close" /\ ctx.errnum = "canceled") => "close_cancelled" \in Retries
    /\ (cb = "close" /\ call = "cleanup") => "close_lost" \in Retries

\* Mutant: what was written before the busy answer is not noted.
WriteForgotten(cb) ==
    /\ pc = cb /\ MayBeBusy(cb)
    /\ IF \/ cb = "read" /\ Len(buf) > (IF Fresh THEN 1 ELSE 0)
          \/ cb = "close" /\ call = "need" /\ buf # << >> /\ ~ctx.aborted /\ ~Failed(ctx)
       THEN Send(buf, "more")
       ELSE ReturnPending
    /\ UNCHANGED <<cancel, left, buf, ctx, appVars, failed>>

\* Busy.  Data that was read goes out, other calls are made again.
IsBusy(cb) ==
    /\ pc = cb /\ MayBeBusy(cb)
    /\ IF \/ cb = "read" /\ Len(buf) > (IF Fresh THEN 1 ELSE 0)
          \/ cb = "close" /\ call = "need" /\ buf # << >> /\ ~ctx.aborted /\ ~Failed(ctx)
       THEN Send(buf, "more")
       ELSE ReturnPending
    /\ ctx' = IF cb = "write" THEN [ctx EXCEPT !.done = @ + Written, !.offset = @ + Written]
                              ELSE ctx
    /\ UNCHANGED <<cancel, left, buf, appVars, failed>>

\* It fails, and what is open is closed.
Fails(cb) ==
    /\ pc = cb /\ cb \in Callbacks \ {"get_error", "session_error"}
    /\ \E a \in Errors :
        /\ failed' = (failed \/ a # "abort")
        /\ cancel' = (cancel \/ a = "unrecognized")
        /\ LET c == Answered(ctx, a)
           IN IF cb \in {"open", "close"} THEN Goto("finish", [c EXCEPT !.state = "closed"])
                                          ELSE Close(c)
    /\ handle' = IF cb = "close" THEN "none" ELSE handle
    /\ UNCHANGED <<msgVars, left, buf, file, pos, cursor>>

\* It succeeds.
Does(cb) == pc = cb /\ UNCHANGED <<cancel, failed>>
Stays == UNCHANGED msgVars

OpenDone ==
    /\ Does("open") /\ Stays
    /\ handle' = "file" /\ pos' = 0
    /\ LET truncates == ctx.truncate /\ ctx.offset = 0
           c == [ctx EXCEPT !.state = "open", !.truncate = @ /\ ~truncates]
       IN /\ file' = IF truncates THEN << >> ELSE file
          /\ IF req.op = "put" THEN Position(c, buf) ELSE Goto("finish", c) /\ left' = left
    /\ UNCHANGED <<buf, cursor>>

SeekEndDone ==
    /\ Does("seek_end") /\ Stays
    /\ pos' = Len(file)
    /\ IF Len(file) < ctx.offset THEN Close(InternalError(ctx, "invalid_offset"))
                                 ELSE Goto("seek_set", [ctx EXCEPT !.state = "lseek1"])
    /\ UNCHANGED <<left, buf, file, handle, cursor>>

SeekSetDone ==
    /\ Does("seek_set") /\ Stays
    /\ pos' = ctx.offset
    /\ Goto("transfer", [ctx EXCEPT !.state = "lseek"])
    /\ left' = LeftOf(ctx, buf)
    /\ UNCHANGED <<buf, file, handle, cursor>>

\* The end of a packet: the loops of process_file_put_request, process_file_get_response.
Transfer ==
    /\ pc = "transfer"
    /\ \/ left > 0 /\ Stays /\ Goto(IF req.op = "put" THEN "write" ELSE "read", ctx)
       \/ /\ left = 0 /\ req.op = "put"
          /\ LET c == [ctx EXCEPT !.done = 0, !.offset = @ + Written]
             IN IF ~LastPart THEN ReturnWorking /\ ctx' = c
                ELSE Stays /\ IF ctx.truncate THEN Goto("truncate", c) ELSE Close(c)
       \/ /\ left = 0 /\ req.op = "get"
          /\ IF ctx.done = ctx.length THEN Stays /\ Close(ctx)
                                      ELSE Send(buf, "more") /\ ctx' = ctx
    /\ UNCHANGED <<cancel, left, buf, appVars, failed>>

WriteDone ==
    /\ Does("write") /\ Stays
    /\ \E n \in 1 .. left :
        LET from == req.cuts[part] - left - pos
        IN /\ file' = [i \in 1 .. IF pos + n > Len(file) THEN pos + n ELSE Len(file) |->
                        IF i \in pos + 1 .. pos + n THEN from + i ELSE file[i]]
           /\ pos' = pos + n /\ left' = left - n
    /\ Goto("transfer", ctx)
    /\ UNCHANGED <<buf, handle, cursor>>

\* Mutant: the end of the file is not the end of the response.
ReadsOn ==
    /\ Does("read") /\ Stays
    /\ \E n \in 0 .. Smaller(left, Len(file) - pos) :
        /\ n = 0 <=> pos >= Len(file)
        /\ buf' = buf \o SubSeq(file, pos + 1, pos + n)
        /\ pos' = pos + n /\ left' = left - n
        /\ Goto("transfer", [ctx EXCEPT !.done = @ + n])
    /\ UNCHANGED <<file, handle, cursor>>

\* At the end of the file read answers with no data.
ReadDone ==
    /\ Does("read") /\ Stays
    /\ \E n \in 0 .. Smaller(left, Len(file) - pos) :
        /\ n = 0 <=> pos >= Len(file)
        /\ buf' = buf \o SubSeq(file, pos + 1, pos + n)
        /\ pos' = pos + n /\ left' = left - n
        /\ LET c == [ctx EXCEPT !.done = @ + n]
           IN IF n = 0 THEN Close(c) ELSE Goto("transfer", c)
    /\ UNCHANGED <<file, handle, cursor>>

TruncateDone ==
    /\ Does("truncate") /\ Stays
    /\ file' = SubSeq(file, 1, ctx.offset)
    /\ Close(ctx)
    /\ UNCHANGED <<left, buf, pos, handle, cursor>>

CloseDone ==
    /\ Does("close") /\ Stays
    /\ handle' = "none"
    /\ Goto("finish", [ctx EXCEPT !.state = "closed"])
    /\ UNCHANGED <<left, buf, file, pos, cursor>>

RemoveDone ==
    /\ Does("remove") /\ Stays
    /\ file' = << >>
    /\ Goto("finish", ctx)
    /\ UNCHANGED <<left, buf, pos, handle, cursor>>

StatDone ==
    /\ Does("stat") /\ Stays
    /\ Goto(IF req.dir THEN "opendir" ELSE "finish", [ctx EXCEPT !.state = "stat"])
    /\ UNCHANGED <<left, buf, appVars>>

OpenDirDone ==
    /\ Does("opendir") /\ Stays
    /\ handle' = "dir" /\ cursor' = 0
    /\ Goto("finish", [ctx EXCEPT !.state = "open"])
    /\ UNCHANGED <<left, buf, file, pos>>

\* The next entry, but not ".", or the end of the directory.
ReadDirDone ==
    /\ Does("readdir") /\ Stays
    /\ IF cursor = Len(Entries) THEN Close(ctx) /\ cursor' = cursor
       ELSE /\ cursor' = cursor + 1
            /\ IF Entries[cursor'] = "dot" THEN Goto("readdir", ctx)
               ELSE Goto("stat_entry", [ctx EXCEPT !.state = "readdir"])
    /\ UNCHANGED <<left, buf, file, pos, handle>>

StatEntryDone ==
    /\ Does("stat_entry") /\ Stays
    /\ Goto(IF req.hash /\ Entries[cursor] = "file" THEN "hash" ELSE "entry",
            [ctx EXCEPT !.state = "stat_dir_entry"])
    /\ UNCHANGED <<left, buf, appVars>>

HashDone ==
    /\ Does("hash") /\ Stays
    /\ Goto("entry", ctx)
    /\ UNCHANGED <<left, buf, appVars>>

\* A packet holds one entry; a single file is the last.
Entry ==
    /\ Does("entry")
    /\ IF ctx.state = "stat" THEN Send(buf \o <<1>>, "success") /\ ctx' = ctx
       ELSE Send(buf \o <<cursor>>, "more") /\ ctx' = [ctx EXCEPT !.state = "open"]
    /\ UNCHANGED <<left, buf, appVars>>

\* What follows a close: process_get_close, and the end of every other call.
Finish ==
    /\ Does("finish")
    /\ CASE call # "need" \/ ctx.aborted \/ cancel -> Return(ctx) /\ ctx' = ctx
         [] call = "need" /\ ~ctx.aborted /\ ~cancel /\ ~Failed(ctx) ->
                Send(buf, "success") /\ ctx' = ctx
         [] OTHER -> Stays /\ Report(ctx)
    /\ UNCHANGED <<left, buf, appVars>>

\* format_file_error_msg.  Too late for an error response, the session is cancelled.
ErrorResponse ==
    IF Fresh THEN Send(<< >>, "error")
    ELSE pc' = "idle" /\ phase' = "error" /\ UNCHANGED <<req, part, inbox, call, out, reply>>

InternalReport ==
    /\ Does("report") /\ ErrorResponse
    /\ UNCHANGED <<left, buf, ctx, appVars>>

GetError ==
    /\ Does("get_error")
    /\ ErrorResponse \/ ("abort" \in Errors /\ ReturnAbort)
    /\ UNCHANGED <<left, buf, ctx, appVars>>

\* Mutant: a callback that aborts leaves the file open.
SessionErrorAborts ==
    /\ Does("session_error") /\ Stays
    /\ \E aborts \in {FALSE, "abort" \in Errors} :
        LET c == [ctx EXCEPT !.told = TRUE, !.aborted = @ \/ aborts]
        IN IF aborts THEN Goto("finish", c) ELSE Close(c)
    /\ UNCHANGED <<left, buf, appVars>>

SessionError ==
    /\ Does("session_error") /\ Stays
    /\ \E aborts \in {FALSE, "abort" \in Errors} :
        Close([ctx EXCEPT !.told = TRUE, !.aborted = @ \/ aborts])
    /\ UNCHANGED <<left, buf, appVars>>

-----------------------------------------------------------------------------
Callback == \/ OpenDone \/ SeekEndDone \/ SeekSetDone \/ WriteDone \/ ReadDone
            \/ TruncateDone \/ CloseDone \/ RemoveDone \/ StatDone \/ OpenDirDone
            \/ ReadDirDone \/ StatEntryDone \/ HashDone \/ GetError \/ SessionError
            \/ \E cb \in Callbacks : Fails(cb)
Have == PutRequest \/ GetRequest \/ RmRequest \/ LsRequest
Need == NoDataResponse \/ GetResponse \/ LsResponse
Between == Transfer \/ Entry \/ Finish \/ InternalReport

Next ==
    \/ Have \/ Need \/ Between \/ Callback
    \/ \E cb \in Callbacks : IsBusy(cb)
    \/ CloudError \/ Lose

Spec == Init /\ [][Next]_vars

\* Device Cloud sends the whole request, the messaging layer asks for the response and
\* repeats an error that stays in the receive buffer, an aborted connection is cleaned
\* up, and no callback is busy for ever.
Fairness ==
    /\ WF_vars(Have) /\ WF_vars(Need)
    /\ WF_vars(inbox = "error" /\ CloudError)
    /\ WF_vars(phase = "aborted" /\ Lose)
    /\ WF_vars(Between)
    /\ WF_vars(Callback \/ \E cb \in Callbacks : IsBusy(cb))
    /\ SF_vars(Callback)
FairSpec == Spec /\ Fairness

-----------------------------------------------------------------------------
TypeOK ==
    /\ req \in Requests
    /\ phase \in {"request", "response", "sent", "error", "aborted", "freed"}
    /\ part \in DOMAIN req.cuts
    /\ inbox \in {"none", "data", "error"}
    /\ call \in {"none", "have", "need", "error", "cleanup"}
    /\ pc \in Callbacks \cup {"idle", "transfer", "entry", "finish", "report"}
    /\ cancel \in BOOLEAN /\ failed \in BOOLEAN
    /\ left \in Nat /\ pos \in Nat /\ cursor \in 0 .. Len(Entries)
    /\ buf \in Seq(Int) /\ out \in Seq(Int) /\ file \in Seq(Int)
    /\ handle \in {"none", "file", "dir"}
    /\ reply \in {"none", "success", "error"}
    /\ ctx \in [state : DOMAIN Rank, internal : BOOLEAN, aborted : BOOLEAN,
                errnum : {"none", "user", "generic", "format", "invalid_offset", "canceled"},
                truncate : BOOLEAN, done : Nat, told : BOOLEAN, offset : Nat, length : Nat]

\* The application sees its callbacks in order, whatever was busy or failed before: it
\* opens once, is asked for nothing on a handle that it does not have open, and no
\* cancelled session has to be reported in a response (the assertion of
\* fs_get_internal_error_data).
CallbacksInOrder ==
    /\ pc \in {"open", "opendir"} => handle = "none"
    /\ pc \in {"seek_end", "seek_set", "read", "write", "truncate"} => handle = "file"
    /\ pc = "readdir" => handle = "dir"
    /\ pc = "close" => handle # "none"
    /\ pc = "report" => ctx.errnum # "canceled"

\* What was opened is closed when the service is not called again for the session:
\* the response was sent, an error packet takes its place, or the session is deleted.
ClosedWhenDone == phase \in {"sent", "error", "freed"} => handle = "none"

\* What the file, the response and the listing have to be.
Payload == [i \in 1 .. req.cuts[Len(req.cuts)] |-> i]
\* The response s lists, in their order, the first n entries but ".".
Lists(s, n) ==
    /\ {s[i] : i \in DOMAIN s} = {0} \cup {e \in 1 .. n : Entries[e] # "dot"}
    /\ \A i, j \in DOMAIN s : i < j => s[i] < s[j]
Outcome ==
    CASE req.op = "put" ->
            file = SubSeq(Old, 1, req.offset) \o Payload
                   \o (IF req.truncate THEN << >>
                       ELSE SubSeq(Old, req.offset + Len(Payload) + 1, OldSize))
      [] req.op = "get" ->
            out = <<0>> \o SubSeq(Old, req.offset + 1,
                                  Smaller(req.offset + req.length, OldSize))
      [] req.op = "ls" -> IF req.dir THEN Lists(out, Len(Entries)) ELSE out = <<0, 1>>
      [] req.op = "rm" -> file = << >>

\* Device Cloud is told of success exactly when there was success: no callback failed
\* and the whole file, slice or listing was transferred, however it was cut into packets
\* and whatever was busy; and an error is told only when a callback failed or the
\* request was wrong.  (Device Cloud does not listen once it ended the session.)
ReplyIsTrue ==
    /\ (reply = "success" /\ ~ctx.told) => (~failed /\ Outcome)
    /\ reply = "error" => failed \/ req.path # "ok" \/ req.offset > OldSize

\* Every request of Device Cloud is answered or its session ends.
RequestEnds == <>[](phase \in {"sent", "error", "freed"})

=============================================================================
