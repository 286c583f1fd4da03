--------------------------- MODULE MCShortMessage ---------------------------
(***************************************************************************)
(* Instances of ShortMessage for TLC: one or two requests of the user, one *)
(* or two of Device Cloud, with one or two segments.                       *)
(***************************************************************************)
EXTENDS ShortMessage

CONSTANTS put, ping

\* Every message in one datagram, and in two.
OneSegment == [t \in Talks |-> 1]
TwoSegments == [t \in Talks |-> IF t \in Pings THEN 1 ELSE 2]
=============================================================================
