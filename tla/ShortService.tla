---------------------------- MODULE ShortService ----------------------------
(***************************************************************************)
(* What short messaging promises the sender of a request over a network    *)
(* that loses datagrams: the request ends once; before that its sender may *)
(* be told once what Device Cloud answered; and nobody is told an answer   *)
(* that Device Cloud did not give.                                         *)
(***************************************************************************)
CONSTANT Requests

VARIABLES
    status,   \* what the sender was told last
    answered  \* Device Cloud answered the request

vars == <<status, answered>>

Init ==
    /\ status = [req \in Requests |-> "unsent"]
    /\ answered = [req \in Requests |-> FALSE]

\* connector_initiate_action takes the request.
Submit(req) ==
    /\ status[req] = "unsent"
    /\ status'[req] = "waiting"
    /\ ~answered'[req]

\* Device Cloud answers; the sender may have given up by then.
CloudAnswers(req) ==
    /\ status[req] # "unsent"
    /\ answered'[req]
    /\ status'[req] = status[req]

\* The send_response callback.
Respond(req) ==
    /\ status[req] = "waiting"
    /\ answered[req] /\ answered'[req]
    /\ status'[req] \in {"answered", "ended"}

\* The status callback; only the answer to a ping is a success.
Finish(req) ==
    /\ status[req] \in {"waiting", "answered"}
    /\ status'[req] \in {"ended", "success"}
    /\ status'[req] = "success" => answered[req]
    /\ answered'[req] = answered[req]

Stay(req) == status'[req] = status[req] /\ answered'[req] = answered[req]

\* The end of a connection concerns many requests at once.
Next ==
    \A req \in Requests :
        Submit(req) \/ CloudAnswers(req) \/ Respond(req) \/ Finish(req) \/ Stay(req)

Spec == Init /\ [][Next]_vars
=============================================================================
