--------------------------- MODULE MessageReceipt ---------------------------
(***************************************************************************)
(* The public coordination message of internal/core/agentmessage: routes,  *)
(* envelopes and the terminal-once receipt lifecycle.  Refs are numbered   *)
(* because the code orders them (an equal acceptance time is decided by    *)
(* the ref); payloads, panes, activation generations and conversations are *)
(* opaque values that are only ever compared.                              *)
(***************************************************************************)
EXTENDS Naturals

CONSTANTS
    Refs,       \* message refs
    Agents,     \* Agent UIDs
    Claude,     \* the Agents whose provider is claude; the others are codex
    Routes,     \* routes, records with fields agent, pane, gen and inc
    Payloads,   \* message bodies
    NoRef,      \* the empty ReplyTo
    NoRoute,    \* the zero Route of operator input
    MaxTTL      \* longest life of an envelope (24h)

ASSUME RefsAssumption == Refs \subseteq Nat /\ NoRef \notin Refs
ASSUME RoutesAssumption ==
    /\ Claude \subseteq Agents
    /\ NoRoute \notin Routes
    /\ \A r \in Routes : r.agent \in Agents
ASSUME MaxTTLAssumption == MaxTTL \in Nat

(* State.Terminal: the five states no event leaves. *)
Terminal == {"delivered", "refused", "expired", "stale", "failed"}
States == {"accepted", "held"} \cup Terminal

(* The delivery reasons the code itself branches on; every other wording is *)
(* "other".  The two zero-write classes are the closed lists of             *)
(* KnownZeroReply: a refused frame, and a failure before any provider byte. *)
Reasons == {"none", "target-awaiting-resume", "frame-unsupported",
            "prewrite-zero", "other"}

Envelope ==
    [ref : Refs, conv : Refs, replyTo : Refs \cup {NoRef}, operator : BOOLEAN,
     source : Routes \cup {NoRoute}, target : Routes, payload : Payloads,
     acceptedAt : Nat, deadline : Nat]

Delivery ==
    [state : States, reason : Reasons, unknown : BOOLEAN, terminalAt : Nat]

(* The zero Delivery, before the accept event. *)
ZeroDelivery ==
    [state |-> "new", reason |-> "none", unknown |-> FALSE, terminalAt |-> 0]

(* Envelope.Validate with validateShape and validateLifetime.  The source   *)
(* of an Agent message is a route; operator input has none, targets Claude  *)
(* and is never a reply.                                                    *)
Validate(e) ==
    /\ e.acceptedAt < e.deadline
    /\ e.deadline - e.acceptedAt <= MaxTTL
    /\ IF e.operator
       THEN e.source = NoRoute /\ e.replyTo = NoRef /\ e.target.agent \in Claude
       ELSE e.source \in Routes

(* Envelope.SameRetry: every caller-controlled field and the original TTL. *)
SameRetry(e, c) ==
    /\ e.ref = c.ref /\ e.conv = c.conv /\ e.replyTo = c.replyTo
    /\ e.operator = c.operator /\ e.source = c.source
    /\ e.target = c.target /\ e.payload = c.payload
    /\ e.deadline - e.acceptedAt = c.deadline - c.acceptedAt

(* ReplyRoutes: back from the original's target Agent to its source Agent,  *)
(* in the same two provider conversations.  Pane and generation may differ. *)
ReplyRoutes(original, reply) ==
    /\ reply.source.agent = original.target.agent
    /\ reply.target.agent = original.source.agent
    /\ reply.source.inc = original.target.inc
    /\ reply.target.inc = original.source.inc

(* ValidateReply. *)
ValidateReply(original, reply) ==
    /\ ~original.operator
    /\ Validate(reply)
    /\ reply.replyTo = original.ref
    /\ reply.conv = original.conv
    /\ reply.ref # original.ref
    /\ ReplyRoutes(original, reply)

(* The terminal state each terminal event kind leads to. *)
OutcomeOf ==
    [deliver |-> "delivered", refuse |-> "refused", expire |-> "expired",
     stale |-> "stale", fail |-> "failed"]

EventKinds == {"accept", "hold"} \cup DOMAIN OutcomeOf

Event ==
    [kind : EventKinds, ref : Refs, conv : Refs, target : Routes,
     reason : Reasons, unknown : BOOLEAN, at : Nat]

(* The refusals at the head of Reduce: a foreign event, one observed before *)
(* the acceptance, or a receipt that is already terminal.                   *)
Admissible(d, e, ev) ==
    /\ Validate(e)
    /\ ev.ref = e.ref /\ ev.conv = e.conv /\ ev.target = e.target
    /\ ev.at >= e.acceptedAt
    /\ d.state \notin Terminal

(* Mutant: the last outcome wins, a terminal receipt included. *)
ReduceLastWins(d, e, ev) ==
    CASE ev.kind = "accept" -> [ZeroDelivery EXCEPT !.state = "accepted"]
      [] ev.kind = "hold" -> [d EXCEPT !.state = "held", !.reason = ev.reason]
      [] OTHER -> [state |-> OutcomeOf[ev.kind], reason |-> ev.reason,
                   unknown |-> ev.kind = "fail" /\ ev.unknown, terminalAt |-> ev.at]

(* Reduce(current, envelope, event).  An event that is not admissible or    *)
(* out of order returns the delivery unchanged, which is how its second Go  *)
(* result is read here.                                                     *)
Reduce(d, e, ev) ==
    CASE ~Admissible(d, e, ev) -> d
      [] Admissible(d, e, ev) /\ ev.kind = "accept" ->
            IF d.state = "new" THEN [ZeroDelivery EXCEPT !.state = "accepted"] ELSE d
      [] Admissible(d, e, ev) /\ ev.kind = "hold" ->
            IF d.state = "accepted"
            THEN [d EXCEPT !.state = "held", !.reason = ev.reason] ELSE d
      [] Admissible(d, e, ev) /\ ev.kind \in DOMAIN OutcomeOf ->
            IF d.state \in {"accepted", "held"}
            THEN [state |-> OutcomeOf[ev.kind], reason |-> ev.reason,
                  unknown |-> ev.kind = "fail" /\ ev.unknown, terminalAt |-> ev.at]
            ELSE d
=============================================================================
