-------------------------- MODULE MCClaudeDispatch --------------------------
(***************************************************************************)
(* Small instances of ClaudeDispatch: one or two messages to one target. *)
(* Messages are interchangeable until they are accepted, so the safety     *)
(* runs use their symmetry.                                                *)
(***************************************************************************)
EXTENDS ClaudeDispatch, TLC

MsgSymmetry == Permutations(Msgs)
=============================================================================
