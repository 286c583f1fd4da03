--------------------------- MODULE MCMsgFacility ---------------------------
(* MsgFacility on small instances.                                          *)
EXTENDS MsgFacility

\* One transaction of each owner, or two of the client.
OneEach   == [owner \in Owners |-> 1]
TwoClient == [owner \in Owners |-> IF owner = "client" THEN 2 ELSE 1]
=============================================================================
