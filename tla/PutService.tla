----------------------------- MODULE PutService -----------------------------
(***************************************************************************)
(* What the data service promises the sender of a put request, whatever    *)
(* happens to sessions, buffers and connections: a request that was        *)
(* accepted ends once, with one status, and it ends as "complete" only     *)
(* when Device Cloud has all of it.                                        *)
(***************************************************************************)
CONSTANT Requests

VARIABLES
    status,    \* what the sender was told last
    delivered  \* Device Cloud has all of the request

vars == <<status, delivered>>

Ends == {"complete", "cancel", "error"}

Init ==
    /\ status = [req \in Requests |-> "unsent"]
    /\ delivered = [req \in Requests |-> FALSE]

\* connector_initiate_action takes the request.
Submit(req) ==
    /\ status[req] # "waiting"
    /\ status'[req] = "waiting"
    /\ ~delivered'[req]

\* Device Cloud gets the last packet, or forgets the message with the
\* connection.
Progress(req) ==
    /\ status[req] = "waiting"
    /\ status'[req] = "waiting"

\* The send_status callback.
Finish(req) ==
    /\ status[req] = "waiting"
    /\ status'[req] \in Ends
    /\ status'[req] = "complete" => delivered[req]
    /\ ~delivered'[req]

Stay(req) == status'[req] = status[req] /\ delivered'[req] = delivered[req]

\* The end of a connection concerns many requests at once.
Next ==
    \A req \in Requests :
        Submit(req) \/ Progress(req) \/ Finish(req) \/ Stay(req)

Spec == Init /\ [][Next]_vars
=============================================================================
