-------------------------- MODULE MCEdpConnection --------------------------
(* EdpConnection on small instances: the answers and calls are in the cfg. *)
EXTENDS EdpConnection

=============================================================================
