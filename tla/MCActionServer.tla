-------------------------- MODULE MCActionServer --------------------------
(* The action plugin's server with three requests, for TLC. *)
EXTENDS ActionServer

CONSTANTS q1, q2, q3

MCId == {q1, q2, q3}
=============================================================================
