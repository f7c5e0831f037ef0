---------------------------- MODULE BrokerStream ----------------------------
(***************************************************************************)
(* The stream from a binding in the broker's host process to the           *)
(* RemoteBinding of a client: the session's pump, the socket, and what the  *)
(* client believes.  One client holds one session at a time; wire is the    *)
(* session's outbound queue and the socket together.                       *)
(***************************************************************************)
EXTENDS CodexBroker

CONSTANT WireCap    \* frames on their way to the client (sessionBacklog)

ASSUME StreamAssumption == WireCap \in Nat \ {0}

VARIABLES
    held,       \* session.bindings
    pump,       \* the pump of each binding
    wire,       \* frames on their way
    remote      \* the client's binding of each thread

streamVars == <<held, pump, wire, remote>>
vars == <<brokerVars, streamVars>>

NoEvent == [snap |-> FALSE, v |-> 0, conn |-> 0]
Frames == [thread : Threads, bind : Binds, kind : {"event", "suspended", "revoked"},
           event : Events \cup {NoEvent}]
(* of is the broker's binding behind a remote one, v the version its        *)
(* consumer has reached, and mixed is history: a frame of an earlier        *)
(* binding of the thread was taken for this one's.                         *)
Remote == [registered : BOOLEAN, asking : BOOLEAN, of : {0} \cup Binds, open : BOOLEAN,
           conn : {0} \cup Conns, v : Versions, revoked : BOOLEAN, mixed : BOOLEAN]
NoRemote == [registered |-> FALSE, asking |-> FALSE, of |-> 0, open |-> FALSE,
             conn |-> 0, v |-> 0, revoked |-> FALSE, mixed |-> FALSE]

(* Types of session, wire and client, and the bounds of every queue on an   *)
(* event's way: the broker's, the notification channel and the wire.        *)
TypeOK ==
    /\ BrokerTypeOK
    /\ transfer = [t \in Threads |-> NoTransfer]
    /\ held \in [Threads -> {0} \cup Binds]
    /\ pump \in [Binds -> {"none", "running", "gone"}]
    /\ wire \in Seq(Frames) /\ Len(wire) <= WireCap + 1
    /\ remote \in [Threads -> Remote]

Init ==
    /\ BrokerInit
    /\ held = [t \in Threads |-> 0]
    /\ pump = [b \in Binds |-> "none"]
    /\ wire = <<>>
    /\ remote = [t \in Threads |-> NoRemote]

-----------------------------------------------------------------------------
(* Conn.Bind and handleBind. *)

AskBind(t) ==
    /\ ~remote[t].registered /\ ~remote[t].asking
    /\ remote' = [remote EXCEPT ![t] = [NoRemote EXCEPT !.registered = TRUE, !.asking = TRUE]]
    /\ UNCHANGED <<brokerVars, held, pump, wire>>

HandleBind(t) ==
    /\ remote[t].asking
    /\ held[t] = 0
    /\ Bind(t)
    /\ held' = [held EXCEPT ![t] = bindEpoch + 1]
    /\ pump' = [pump EXCEPT ![bindEpoch + 1] = "running"]
    /\ remote' = [remote EXCEPT ![t].asking = FALSE, ![t].of = bindEpoch + 1]
    /\ UNCHANGED wire

(* The session ends with its Conn: every binding it holds is released, its  *)
(* pumps run out, and the client revokes what it had.                      *)
ClientGone ==
    /\ \E t \in Threads : remote[t] # NoRemote
    /\ bd' = [b \in Binds |->
          LET rec == IF bd[b].thread \in Threads /\ held[bd[b].thread] = b
                     THEN Revoked(bd[b]) ELSE bd[b]
          IN  IF pump[b] = "running" THEN [rec EXCEPT !.queue = <<>>, !.suspends = FALSE] ELSE rec]
    /\ bound' = [t \in Threads |-> IF held[t] = bound[t] THEN 0 ELSE bound[t]]
    /\ wake' = (wake \/ \E t \in Threads : held[t] # 0)
    /\ held' = [t \in Threads |-> 0]
    /\ pump' = [b \in Binds |-> IF pump[b] = "running" THEN "gone" ELSE pump[b]]
    /\ wire' = <<>>
    /\ remote' = [t \in Threads |-> NoRemote]
    /\ UNCHANGED <<supVars, bindEpoch, link, notifs, emitted, oversize, sub, op, transfer>>

(* handleBind refuses, and a client that is refused closes its Conn. *)
BindRefused(t) ==
    /\ remote[t].asking
    /\ closing \/ bound[t] # 0 \/ held[t] # 0
    /\ ClientGone

(* RemoteBinding.Close and handleUnbind.  The pump runs on until the queue  *)
(* is empty.                                                               *)
Unbind(t) ==
    LET b == remote[t].of
    IN  /\ remote[t].registered /\ b # 0
        /\ IF held[t] = b /\ ~bd[b].revoked THEN CloseBinding(b) ELSE UNCHANGED brokerVars
        /\ held' = [held EXCEPT ![t] = IF @ = b THEN 0 ELSE @]
        /\ remote' = [remote EXCEPT ![t] = NoRemote]
        /\ UNCHANGED <<pump, wire>>

-----------------------------------------------------------------------------
(* pump and forwardEvent. *)

Frame(b, kind, event) == [thread |-> bd[b].thread, bind |-> b, kind |-> kind, event |-> event]

(* Mutant: a pending suspension does not go before the snapshot. *)
ForwardAsItComes(b) ==
    /\ bd' = [bd EXCEPT ![b].queue = Tail(@)]
    /\ wire' = Append(wire, Frame(b, "event", Head(bd[b].queue)))

(* forwardEvent: a pending suspension goes before the snapshot. *)
Forward(b) ==
    LET event == Head(bd[b].queue)
        first == event.snap /\ bd[b].suspends
    IN  /\ bd' = [bd EXCEPT ![b].queue = Tail(@), ![b].suspends = @ /\ ~first]
        /\ wire' = wire \o (IF first THEN <<Frame(b, "suspended", NoEvent)>> ELSE <<>>)
                        \o <<Frame(b, "event", event)>>

PumpEvent(b) ==
    /\ pump[b] = "running" /\ bd[b].queue # <<>> /\ Len(wire) < WireCap
    /\ Forward(b)
    /\ UNCHANGED <<supVars, bindEpoch, wake, link, bound, notifs, emitted, oversize, sub, op, transfer,
                   held, pump, remote>>

PumpSuspend(b) ==
    /\ pump[b] = "running" /\ bd[b].suspends /\ Len(wire) < WireCap
    /\ bd' = [bd EXCEPT ![b].suspends = FALSE]
    /\ wire' = Append(wire, Frame(b, "suspended", NoEvent))
    /\ UNCHANGED <<supVars, bindEpoch, wake, link, bound, notifs, emitted, oversize, sub, op, transfer,
                   held, pump, remote>>

(* The stream is closed and drained: the revocation, then forget. *)
PumpEnds(b) ==
    LET t == bd[b].thread
    IN  /\ pump[b] = "running" /\ bd[b].revoked /\ bd[b].queue = <<>> /\ Len(wire) < WireCap
        /\ pump' = [pump EXCEPT ![b] = "gone"]
        /\ wire' = Append(wire, Frame(b, "revoked", NoEvent))
        /\ held' = [held EXCEPT ![t] = IF @ = b THEN 0 ELSE @]
        /\ bd' = [bd EXCEPT ![b].suspends = FALSE]
        /\ UNCHANGED <<supVars, bindEpoch, wake, link, bound, notifs, emitted, oversize, sub, op, transfer, remote>>

-----------------------------------------------------------------------------
(* The client: dispatch, deliver, suspend and revoke.  A frame names its    *)
(* thread, not the binding it came from.                                   *)

Delivered(r, f) ==
    [r EXCEPT !.conn = f.event.conn, !.open = @ \/ f.event.snap, !.v = f.event.v]

Dispatched(r, f) ==
    CASE f.kind = "event" -> IF r.revoked THEN r ELSE Delivered(r, f)
      [] f.kind = "suspended" -> [r EXCEPT !.open = FALSE]
      [] f.kind = "revoked" -> [NoRemote EXCEPT !.asking = r.asking]

Dispatch ==
    /\ wire # <<>>
    /\ wire' = Tail(wire)
    /\ LET f == Head(wire)
           r == remote[f.thread]
           next == [Dispatched(r, f) EXCEPT !.mixed = @ \/ f.bind # r.of]
       IN  remote' = IF r.registered THEN [remote EXCEPT ![f.thread] = next] ELSE remote
    /\ UNCHANGED <<brokerVars, held, pump>>

(* The consumer has fallen behind and its own queue is full. *)
Overflow ==
    /\ wire # <<>> /\ Head(wire).kind = "event"
    /\ LET t == Head(wire).thread
       IN  /\ remote[t].registered /\ ~remote[t].revoked
           /\ remote' = [remote EXCEPT ![t].revoked = TRUE, ![t].open = FALSE, ![t].v = 0, ![t].conn = 0]
    /\ wire' = Tail(wire)
    /\ UNCHANGED <<brokerVars, held, pump>>

-----------------------------------------------------------------------------
ClientStep(t) == AskBind(t) \/ HandleBind(t) \/ BindRefused(t) \/ Unbind(t)

PumpStep(b) == PumpEvent(b) \/ PumpSuspend(b) \/ PumpEnds(b)

Next ==
    \/ BrokerStep /\ UNCHANGED streamVars
    \/ \E t \in Threads : ClientStep(t)
    \/ \E b \in Binds : PumpStep(b)
    \/ Dispatch \/ Overflow \/ ClientGone

Spec == Init /\ [][Next]_vars

-----------------------------------------------------------------------------
(* Nothing of binding b is on its way to the client. *)
Settled(b) ==
    /\ pump[b] = "running" /\ bd[b].queue = <<>> /\ ~bd[b].suspends
    /\ wire = <<>> /\ notifs = <<>>

(* The authority the broker grants reaches the client: once nothing is on    *)
(* its way, a binding that is open at the broker is open at the client, with *)
(* the current connection's fence, however suspensions and snapshots, which  *)
(* have a channel each, were interleaved (forwardEvent).                    *)
AuthorityArrives ==
    \A t \in Threads :
        LET r == remote[t]
        IN  r.registered /\ ~r.revoked /\ ~r.mixed /\ r.of # 0 /\ Settled(r.of) /\ bd[r.of].stage = "open"
            => r.open /\ r.conn = conn

(* Of the events past v, up to w, every one is among lost. *)
Covers(lost, v, w) == \A x \in v + 1 .. w : x \in lost

(* Such a client also knows everything the thread reported but what was     *)
(* dropped for its size, however events fell between the subscription, the  *)
(* snapshot and the merge, across reconnects and overflows (startBarriers:  *)
(* "the only gap-free order").                                             *)
CaughtUp ==
    \A t \in Threads :
        LET r == remote[t]
        IN  r.open /\ ~r.mixed /\ Settled(r.of) /\ bd[r.of].stage = "open" /\ link[conn] = "up"
            => Covers(oversize[t], r.v, emitted[t])

(* The order a client is handed has no gap but the one a dropped            *)
(* notification leaves: a live event follows the snapshot of its own        *)
(* connection, and every event between what the client knows and it was     *)
(* dropped for its size (Binding, closeBarrierLocked).                     *)
NoGap ==
    \A t \in Threads :
        LET r == remote[t]
            f == Head(wire)
        IN  /\ wire # <<>> /\ f.thread = t /\ f.kind = "event" /\ ~f.event.snap
            /\ r.registered /\ ~r.revoked /\ ~r.mixed /\ f.bind = r.of
            => f.event.conn = r.conn /\ Covers(oversize[t], r.v, f.event.v - 1)

(* A client is told of every disconnect its binding survived: with nothing  *)
(* on its way, the authority it holds is one the broker still grants        *)
(* (Suspensions, forwardEvent).                                            *)
AuthorityIsCurrent ==
    \A t \in Threads :
        LET r == remote[t]
        IN  r.open /\ ~r.mixed /\ Settled(r.of) => bd[r.of].stage = "open" /\ r.conn = conn
=============================================================================
