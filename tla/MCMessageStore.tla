--------------------------- MODULE MCMessageStore ---------------------------
(***************************************************************************)
(* A small instance of MessageStore: an original between two Claude Agents *)
(* and two rival replies to it, and either a Codex inbox message that may  *)
(* be held for a resume or operator input.  The store is one record too    *)
(* small for the four, and a caller's clock reading may be older than its  *)
(* turn at the lock.                                                       *)
(***************************************************************************)
EXTENDS MessageStore

CONSTANTS A, B, X       \* two Claude Agents and a Codex one

On(agent, gen) == [agent |-> agent, pane |-> "pane", gen |-> gen, inc |-> "c1"]
MCRoutes == {On(A, 1), On(B, 1), On(X, 1), On(X, 2)}

Draft(ref, conv, replyTo, source, target, ttl) ==
    [ref |-> ref, conv |-> conv, replyTo |-> replyTo, operator |-> FALSE,
     source |-> source, target |-> target, payload |-> "text", ttl |-> ttl]

MCDrafts ==
    {Draft(1, 1, NoRef, On(A, 1), On(B, 1), 2),
     Draft(2, 1, 1, On(B, 1), On(A, 1), 1),
     Draft(3, 1, 1, On(B, 1), On(A, 1), 1),
     Draft(4, 4, NoRef, On(A, 1), On(X, 1), 1),
     [Draft(4, 4, NoRef, NoRoute, On(B, 1), 1) EXCEPT !.operator = TRUE]}

MCOutcomes ==
    {[kind |-> "deliver", reason |-> "other", unknown |-> FALSE],
     [kind |-> "hold", reason |-> "other", unknown |-> FALSE],
     [kind |-> "fail", reason |-> "prewrite-zero", unknown |-> FALSE],
     [kind |-> "fail", reason |-> "other", unknown |-> TRUE]}
=============================================================================
