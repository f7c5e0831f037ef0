---------------------------- MODULE AgentDelivery ----------------------------
(***************************************************************************)
(* The helper-private delivery of internal/core/agentdelivery: what the    *)
(* helper that owns the provider pipe knows about one message.  A handoff  *)
(* opens the interval in which bytes may cross the pipe; every way out of  *)
(* it other than a full write with its receipt is ambiguous, unless the    *)
(* failure proves that no byte was written.                                *)
(***************************************************************************)

(* State.Terminal. *)
PrivateTerminal == {"delivered", "refused", "expired", "stale", "failed"}
PrivateDelivery ==
    [state : {"none", "queued", "held", "handoff"} \cup PrivateTerminal, ambiguous : BOOLEAN]

(* The zero Delivery: a message the helper has never seen. *)
Unseen == [state |-> "none", ambiguous |-> FALSE]

(* The terminal states an event reaches outside a handoff and inside one. *)
BeforeHandoff ==
    [refuse |-> "refused", expire |-> "expired", stale |-> "stale", fail |-> "failed"]

Settled(state, ambiguous) == [state |-> state, ambiguous |-> ambiguous]

(* Reduce(current, event).  receipt stands for FullFrameWritten with        *)
(* HelperReceipt on the event that answers this handoff, known for          *)
(* OutcomeKnown.  Every event the code ignores returns d.                   *)
PrivateReduce(d, kind, receipt, known) ==
    CASE d.state = "none" ->
            IF kind = "queue" THEN Settled("queued", FALSE) ELSE d
      [] d.state \in {"queued", "held"} ->
            (CASE kind = "hold" /\ d.state = "queued" -> Settled("held", FALSE)
               [] kind = "begin-handoff" -> Settled("handoff", FALSE)
               [] kind \in DOMAIN BeforeHandoff -> Settled(BeforeHandoff[kind], FALSE)
               [] OTHER -> d)
      [] d.state = "handoff" ->
            (CASE kind = "deliver" /\ receipt -> Settled("delivered", FALSE)
               [] kind \in {"expire", "stale"} -> Settled("failed", TRUE)
               [] kind = "fail" -> Settled("failed", ~known)
               [] OTHER -> d)
      [] OTHER -> d
=============================================================================
