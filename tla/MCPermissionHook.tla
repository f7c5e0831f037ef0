-------------------------- MODULE MCPermissionHook --------------------------
(* Every request is of the same call, so that the terminal close has rivals. *)
EXTENDS PermissionHook, TLC

CONSTANTS q1, q2

MCCall == [r \in Requests |-> "call"]
=============================================================================
