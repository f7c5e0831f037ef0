----------------------------- MODULE CodexBroker -----------------------------
(***************************************************************************)
(* The Codex broker: one supervisor goroutine owns the connection to the   *)
(* shared app-server, many bindings are served over it.                    *)
(*                                                                         *)
(* Every action is one critical section of Broker.mu, one step of the      *)
(* supervisor, or one step of the endpoint.  What a thread reports is      *)
(* abstracted to a version: its n-th event carries n, and a snapshot       *)
(* carries how many there have been.  A binding is named by its epoch and  *)
(* a connection by its own, so that a pair of the two is a Fence.          *)
(***************************************************************************)
EXTENDS Integers, Sequences

CONSTANTS
    Threads,
    Ops,            \* control requests, each submitted at most once
    Peers,          \* kernel identities of the endpoint process
    Tokens,         \* transfer receipts; NewTransferReceipt never repeats one
    Backlog,        \* Config.Backlog: events a binding may hold
    EventLimit,     \* notifications the client may hold
    MaxConns,       \* bound: connections opened
    MaxBinds,       \* bound: bindings created
    MaxEvents,      \* bound: events of a thread
    MayClose,       \* bound: whether the broker may be closed
    MayGarble       \* bound: whether the endpoint may send an unreadable frame

ASSUME BrokerAssumption ==
    /\ Backlog \in Nat \ {0} /\ EventLimit \in Nat \ {0}
    /\ MaxConns \in Nat /\ MaxBinds \in Nat /\ MaxEvents \in Nat
    /\ Peers # {} /\ MayClose \in BOOLEAN /\ MayGarble \in BOOLEAN
    /\ "none" \notin Threads /\ "none" \notin Tokens

VARIABLES
    conn,       \* the epoch of Broker.conn, 0 for nil
    connEpoch, bindEpoch,
    sup,        \* where the supervisor stands
    wake,       \* the one-slot wake channel
    closing,
    link,       \* each connection's client: up, or the error it failed with
    peer,       \* the process witnessed behind each connection
    bound,      \* Broker.bindings
    bd,         \* every binding ever made
    notifs,     \* the client's notification channel
    emitted,    \* how many events each thread has had
    oversize,   \* which events of each thread are over the client's frame bound
    sub,        \* the threads the latest connection is subscribed to
    op,         \* the control requests
    transfer    \* Broker.transfers

supVars == <<conn, connEpoch, sup, closing, peer>>
brokerVars == <<conn, connEpoch, bindEpoch, sup, wake, closing, link, peer, bound, bd,
                notifs, emitted, oversize, sub, op, transfer>>

Conns == 1 .. MaxConns
Binds == 1 .. MaxBinds
Versions == 0 .. MaxEvents
NoThread == "none"
NoTransfer == [token |-> "none"]
Events == [snap : BOOLEAN, v : Versions, conn : Conns]
Binding == [thread : Threads \cup {NoThread}, stage : {"idle", "buffering", "open"},
            conn : {0} \cup Conns, barrier : {"none", "resume", "read", "answered"},
            snap : Versions, buf : Seq(Versions), queue : Seq(Events),
            suspends : BOOLEAN, revoked : BOOLEAN]
Outcomes == {"none", "sent", "applied", "refused", "indeterminate"}
Fates == {"unknown", "took", "rejected"}     \* what became of a request at the endpoint
(* Broker.transfers: the reservation of a thread that changes hands. *)
Transfer == [token : Tokens, bind : Binds, conn : Conns, peer : Peers,
             draining : BOOLEAN, retired : BOOLEAN, attempted : BOOLEAN,
             busy : {"no", "unsubscribing", "awaiting", "resuming"}, orphaned : BOOLEAN,
             target : {"none", "planned", "active"}, init : BOOLEAN, ready : BOOLEAN,
             native : {0} \cup Binds]
Op == [bind : {0} \cup Binds, conn : {0} \cup Conns, fate : Fates, outcome : Outcomes]

BrokerTypeOK ==
    /\ conn \in {0} \cup Conns
    /\ connEpoch \in {0} \cup Conns
    /\ bindEpoch \in {0} \cup Binds
    /\ sup \in {"idle", "opening", "serving", "revoked", "closed", "exited"}
    /\ wake \in BOOLEAN
    /\ closing \in BOOLEAN
    /\ link \in [Conns -> {"up", "disconnected", "protocol"}]
    /\ peer \in [Conns -> Peers]
    /\ bound \in [Threads -> {0} \cup Binds]
    /\ bd \in [Binds -> Binding]
    /\ \A b \in Binds : Len(bd[b].queue) <= Backlog /\ Len(bd[b].buf) <= Backlog
    /\ notifs \in Seq([thread : Threads, v : Versions])
    /\ Len(notifs) <= EventLimit
    /\ emitted \in [Threads -> Versions]
    /\ oversize \in [Threads -> SUBSET Versions]
    /\ sub \subseteq Threads
    /\ op \in [Ops -> Op]
    /\ transfer \in [Threads -> Transfer \cup {NoTransfer}]

Fresh(t) == [thread |-> t, stage |-> "idle", conn |-> 0, barrier |-> "none", snap |-> 0,
             buf |-> <<>>, queue |-> <<>>, suspends |-> FALSE, revoked |-> FALSE]

BrokerInit ==
    /\ conn = 0 /\ connEpoch = 0 /\ bindEpoch = 0
    /\ sup = "idle" /\ wake = FALSE /\ closing = FALSE
    /\ link = [c \in Conns |-> "up"]
    /\ peer \in [Conns -> Peers]
    /\ bound = [t \in Threads |-> 0]
    /\ bd = [b \in Binds |-> Fresh(NoThread)]
    /\ notifs = <<>>
    /\ emitted = [t \in Threads |-> 0]
    /\ oversize \in [Threads -> SUBSET (Versions \ {0})]
    /\ sub = {}
    /\ op = [o \in Ops |-> [bind |-> 0, conn |-> 0, fate |-> "unknown", outcome |-> "none"]]
    /\ transfer = [t \in Threads |-> NoTransfer]

-----------------------------------------------------------------------------
(* Derived state. *)

(* inflight # 0: the binding's barrier or one of its requests is not over. *)
Busy(b) ==
    \/ bd[b].barrier # "none"
    \/ \E o \in Ops : op[o].bind = b /\ op[o].outcome = "sent"

Transferring(t) == transfer[t] # NoTransfer

(* nativeBindingAllowedLocked, when c is the current connection. *)
NativeAllowed(b, c) ==
    LET t == transfer[bd[b].thread]
    IN  t # NoTransfer /\ t.native = b /\ ~t.orphaned /\ t.conn = c /\ t.target # "none"

(* authorityLocked, for the fence of connection c and binding b itself. *)
Authority(b, c) ==
    /\ bd[b].thread \in Threads
    /\ Transferring(bd[b].thread) => NativeAllowed(b, conn)
    /\ ~bd[b].revoked /\ ~closing
    /\ bd[b].stage = "open" /\ bd[b].conn = conn /\ conn = c /\ c # 0

Wanted ==
    /\ ~closing
    /\ \/ \E t \in Threads : bound[t] # 0
       \/ \E t \in Threads : Transferring(t)

(* The bindings startBarriers would start on connection c. *)
Eligible(c) ==
    {b \in Binds : /\ bd[b].thread \in Threads /\ bound[bd[b].thread] = b
                   /\ bd[b].stage = "idle"
                   /\ Transferring(bd[b].thread) => NativeAllowed(b, c)}

-----------------------------------------------------------------------------
(* Binding records. *)

(* revokeLocked: the queue is closed, and what it holds can still be read. *)
Revoked(rec) == [rec EXCEPT !.revoked = TRUE, !.stage = "idle", !.conn = 0, !.buf = <<>>]

(* suspendLocked, with notifySuspendedLocked. *)
Suspended(rec) ==
    IF rec.revoked THEN rec
    ELSE [rec EXCEPT !.stage = "idle", !.conn = 0, !.buf = <<>>, !.suspends = TRUE]

(* Mutant: the queue takes one event more than its bound. *)
EmitOneMore(rec, events) ==
    LET room == Backlog + 1 - Len(rec.queue)
    IN  IF rec.revoked THEN rec
        ELSE IF Len(events) <= room THEN [rec EXCEPT !.queue = @ \o events]
        ELSE Revoked([rec EXCEPT !.queue = @ \o SubSeq(events, 1, room)])

(* Mutant: an event that finds the queue full is dropped. *)
EmitDrops(rec, events) ==
    LET room == Backlog - Len(rec.queue)
    IN  IF rec.revoked THEN rec
        ELSE IF Len(events) <= room THEN [rec EXCEPT !.queue = @ \o events]
        ELSE [rec EXCEPT !.queue = @ \o SubSeq(events, 1, room)]

(* emitLocked, for one event or for several in a row: what fits is queued,  *)
(* and the first one that does not revokes the binding.                    *)
Emit(rec, events) ==
    LET room == Backlog - Len(rec.queue)
    IN  IF rec.revoked THEN rec
        ELSE IF Len(events) <= room THEN [rec EXCEPT !.queue = @ \o events]
        ELSE Revoked([rec EXCEPT !.queue = @ \o SubSeq(events, 1, room)])

Live(v, c) == [snap |-> FALSE, v |-> v, conn |-> c]

(* Mutant: events are not held while the snapshot is read. *)
AcceptOpenOnly(rec, v, c) == IF rec.stage = "open" THEN Emit(rec, <<Live(v, c)>>) ELSE rec

(* acceptLocked *)
Accept(rec, v, c) ==
    CASE rec.stage = "buffering" ->
            IF Len(rec.buf) < Backlog THEN [rec EXCEPT !.buf = Append(@, v)] ELSE Revoked(rec)
      [] rec.stage = "open" -> Emit(rec, <<Live(v, c)>>)
      [] OTHER -> rec

(* closeBarrierLocked: the snapshot, then what was buffered. *)
CloseBarrier(rec, snap, c) ==
    LET opened == [rec EXCEPT !.stage = "open", !.conn = c, !.buf = <<>>]
        live == [i \in 1 .. Len(rec.buf) |-> Live(rec.buf[i], c)]
    IN  Emit(opened, <<[snap |-> TRUE, v |-> snap, conn |-> c]>> \o live)

(* Mutant: an involuntary revocation does not wake the supervisor. *)
InstallSilently(b, rec) ==
    /\ bd' = [bd EXCEPT ![b] = rec]
    /\ bound' = [t \in Threads |-> IF rec.revoked /\ bound[t] = b THEN 0 ELSE bound[t]]
    /\ UNCHANGED wake

(* The new record of a binding; one that was revoked leaves the routing and *)
(* wakes the supervisor (revokeBindingLocked).                             *)
Install(b, rec) ==
    /\ bd' = [bd EXCEPT ![b] = rec]
    /\ bound' = [t \in Threads |-> IF rec.revoked /\ bound[t] = b THEN 0 ELSE bound[t]]
    /\ wake' = (wake \/ (rec.revoked /\ ~bd[b].revoked))

(* admittedDone: the last operation of a binding that is being transferred  *)
(* ends its drain.                                                         *)
AdmittedDone(b) ==
    transfer' = [t \in Threads |->
        IF Transferring(t) /\ transfer[t].bind = b /\ transfer[t].draining
           /\ bd'[b].barrier = "none"
           /\ \A o \in Ops : ~(op'[o].bind = b /\ op'[o].outcome = "sent")
        THEN [transfer[t] EXCEPT !.draining = FALSE] ELSE transfer[t]]

-----------------------------------------------------------------------------
(* Bind, Binding.Close and Broker.Close. *)

(* bindWithGrant past its checks on transfers. *)
Attach(t) ==
    /\ ~closing
    /\ bound[t] = 0
    /\ bindEpoch < MaxBinds
    /\ bindEpoch' = bindEpoch + 1
    /\ bd' = [bd EXCEPT ![bindEpoch + 1] = Fresh(t)]
    /\ bound' = [bound EXCEPT ![t] = bindEpoch + 1]
    /\ wake' = TRUE
    /\ UNCHANGED <<supVars, link, notifs, emitted, oversize, sub, op>>

Bind(t) ==
    /\ ~Transferring(t)
    /\ Attach(t)
    /\ UNCHANGED transfer

CloseBinding(b) ==
    /\ bd[b].thread \in Threads /\ ~bd[b].revoked
    /\ Install(b, Revoked(bd[b]))
    /\ UNCHANGED <<supVars, bindEpoch, link, notifs, emitted, oversize, sub, op, transfer>>

CloseBroker ==
    /\ MayClose /\ ~closing
    /\ closing' = TRUE
    /\ UNCHANGED <<conn, connEpoch, sup, peer, bindEpoch, wake, link, bound, bd, notifs,
                   emitted, oversize, sub, op, transfer>>

-----------------------------------------------------------------------------
(* supervise and serve. *)

Started(c) ==
    bd' = [b \in Binds |->
        IF b \in Eligible(c) THEN [bd[b] EXCEPT !.stage = "buffering", !.conn = c, !.barrier = "resume"]
        ELSE bd[b]]

(* Nothing is bound: a wake only makes supervise look again. *)
Sleep ==
    /\ sup = "idle" /\ ~closing /\ ~Wanted
    /\ wake /\ wake' = FALSE
    /\ UNCHANGED <<supVars, bindEpoch, link, bound, bd, notifs, emitted, oversize, sub, op, transfer>>

StartOpen ==
    /\ sup = "idle" /\ ~closing /\ Wanted
    /\ connEpoch < MaxConns
    /\ sup' = "opening"
    /\ UNCHANGED <<conn, connEpoch, closing, peer, bindEpoch, wake, link, bound, bd, notifs,
                   emitted, oversize, sub, op, transfer>>

(* The opener fails; the back-off ends in another look. *)
OpenFails ==
    /\ sup = "opening"
    /\ sup' = "idle"
    /\ UNCHANGED <<conn, connEpoch, closing, peer, bindEpoch, wake, link, bound, bd, notifs,
                   emitted, oversize, sub, op, transfer>>

(* open and the first startBarriers. *)
Open ==
    /\ sup = "opening"
    /\ sup' = "serving"
    /\ connEpoch' = connEpoch + 1
    /\ conn' = connEpoch + 1
    /\ notifs' = <<>>
    /\ sub' = {}
    /\ Started(connEpoch + 1)
    /\ UNCHANGED <<closing, peer, bindEpoch, wake, link, bound, emitted, oversize, op, transfer>>

(* routeNotification *)
Route ==
    /\ sup = "serving" /\ notifs # <<>>
    /\ notifs' = Tail(notifs)
    /\ LET b == bound[Head(notifs).thread]
       IN  IF b = 0 THEN UNCHANGED <<bd, bound, wake>>
           ELSE Install(b, Accept(bd[b], Head(notifs).v, conn))
    /\ UNCHANGED <<supVars, bindEpoch, link, emitted, oversize, sub, op, transfer>>

(* A wake while something is bound. *)
Wakes ==
    /\ sup = "serving" /\ wake /\ Wanted
    /\ wake' = FALSE
    /\ Started(conn)
    /\ UNCHANGED <<supVars, bindEpoch, link, bound, notifs, emitted, oversize, sub, op, transfer>>

(* serve leaves its loop, because nothing is left to serve, the broker      *)
(* closes or the client has failed and its channel is drained, and revokes  *)
(* its connection.                                                         *)
Revoke ==
    /\ sup = "serving"
    /\ \/ wake /\ ~Wanted /\ wake' = FALSE
       \/ closing /\ UNCHANGED wake
       \/ link[conn] # "up" /\ notifs = <<>> /\ UNCHANGED wake
    /\ sup' = "revoked"
    /\ conn' = 0
    /\ bd' = [b \in Binds |->
          IF bd[b].thread \in Threads /\ bound[bd[b].thread] = b THEN Suspended(bd[b]) ELSE bd[b]]
    /\ notifs' = <<>>
    /\ UNCHANGED <<connEpoch, closing, peer, bindEpoch, link, bound, emitted, oversize, sub, op, transfer>>

(* endpoint.Close *)
CloseEndpoint ==
    /\ sup = "revoked"
    /\ sup' = "closed"
    /\ link' = [link EXCEPT ![connEpoch] = IF @ = "up" THEN "disconnected" ELSE @]
    /\ UNCHANGED <<conn, connEpoch, closing, peer, bindEpoch, wake, bound, bd, notifs,
                   emitted, oversize, sub, op, transfer>>

(* conn.barriers.Wait, after which the next connection may open. *)
Retired ==
    /\ sup = "closed"
    /\ \A b \in Binds : bd[b].barrier = "none"
    /\ sup' = "idle"
    /\ UNCHANGED <<conn, connEpoch, closing, peer, bindEpoch, wake, link, bound, bd, notifs,
                   emitted, oversize, sub, op, transfer>>

(* shutdown *)
Shutdown ==
    /\ sup = "idle" /\ closing
    /\ sup' = "exited"
    /\ bd' = [b \in Binds |->
          IF bd[b].thread \in Threads /\ bound[bd[b].thread] = b THEN Revoked(bd[b]) ELSE bd[b]]
    /\ bound' = [t \in Threads |-> 0]
    /\ wake' = (wake \/ \E t \in Threads : bound[t] # 0)
    /\ UNCHANGED <<conn, connEpoch, closing, peer, bindEpoch, link, notifs, emitted, oversize, sub, op, transfer>>

-----------------------------------------------------------------------------
(* runBarrier.  A barrier of the connection that was revoked last may still *)
(* be in flight, none of an earlier one is.                                *)

Upstream == connEpoch # 0 /\ link[connEpoch] = "up"

(* BootstrapThread, its thread/resume: the connection is subscribed. *)
Resumed(b) ==
    /\ bd[b].barrier = "resume" /\ Upstream
    /\ bd' = [bd EXCEPT ![b].barrier = "read"]
    /\ sub' = sub \cup {bd[b].thread}
    /\ UNCHANGED <<supVars, bindEpoch, wake, link, bound, notifs, emitted, oversize, op, transfer>>

(* BootstrapThread, its thread/read. *)
Snapshot(b) ==
    /\ bd[b].barrier = "read" /\ Upstream
    /\ bd' = [bd EXCEPT ![b].barrier = "answered", ![b].snap = emitted[bd[b].thread]]
    /\ UNCHANGED <<supVars, bindEpoch, wake, link, bound, notifs, emitted, oversize, sub, op, transfer>>

(* The rest of runBarrier, under the lock, and admittedDone.  The answer to *)
(* a stale barrier is dropped whatever it is.  A disconnect or the broker's *)
(* own cancellation leaves the binding to the next connection; every other  *)
(* error, an answer dropped for its size and a client that failed over a    *)
(* malformed frame included, revokes it.                                   *)
BarrierEnds(b) ==
    LET rec == [bd[b] EXCEPT !.barrier = "none", !.snap = 0]
        stale == conn = 0 \/ rec.revoked
        disconnected == link[connEpoch] = "disconnected"
    IN  /\ bd[b].barrier # "none"
        /\ \/ stale /\ Install(b, rec)
           \/ /\ ~stale /\ bd[b].barrier # "answered" /\ (disconnected \/ closing)
              /\ Install(b, [rec EXCEPT !.stage = "idle", !.conn = 0])
           \/ /\ ~stale /\ bd[b].barrier # "answered" /\ ~disconnected
              /\ Install(b, Revoked(rec))
           \/ ~stale /\ bd[b].barrier = "answered" /\ Install(b, CloseBarrier(rec, bd[b].snap, conn))
        /\ AdmittedDone(b)
        /\ UNCHANGED <<supVars, bindEpoch, link, notifs, emitted, oversize, sub, op>>

-----------------------------------------------------------------------------
(* The endpoint: external. *)

LinkFails ==
    /\ Upstream
    /\ \E err \in {"disconnected"} \cup (IF MayGarble THEN {"protocol"} ELSE {}) :
          link' = [link EXCEPT ![connEpoch] = err]
    /\ UNCHANGED <<supVars, bindEpoch, wake, bound, bd, notifs, emitted, oversize, sub, op, transfer>>

(* A thread moves on.  Only a subscribed connection is told, a frame over   *)
(* the bound is dropped unread with the connection left up (readLoop), and  *)
(* a client whose notification channel is full fails (routeFrame).  That    *)
(* the requests that wait when a frame is dropped may end with it           *)
(* (dropOversizedAnswer) is in Lost and BarrierEnds.                       *)
ThreadEvent(t) ==
    LET told == Upstream /\ t \in sub /\ emitted[t] + 1 \notin oversize[t]
        fits == Len(notifs) < EventLimit
    IN  /\ emitted[t] < MaxEvents
        /\ emitted' = [emitted EXCEPT ![t] = @ + 1]
        /\ notifs' = IF told /\ fits /\ sup = "serving"
                     THEN Append(notifs, [thread |-> t, v |-> emitted[t] + 1]) ELSE notifs
        /\ link' = IF told /\ ~fits THEN [link EXCEPT ![connEpoch] = "protocol"] ELSE link
        /\ UNCHANGED <<supVars, bindEpoch, wake, bound, bd, oversize, sub, op, transfer>>

-----------------------------------------------------------------------------
(* Binding.Submit. *)

(* Mutant: a transfer does not stop the source's requests. *)
SubmitDuringTransfer(o, b) ==
    /\ op[o].outcome = "none"
    /\ ~bd[b].revoked /\ ~closing /\ bd[b].stage = "open" /\ bd[b].conn = conn /\ conn # 0
    /\ op' = [op EXCEPT ![o] = [bind |-> b, conn |-> conn, fate |-> "unknown", outcome |-> "sent"]]
    /\ UNCHANGED <<supVars, bindEpoch, wake, link, bound, bd, notifs, emitted, oversize, sub, transfer>>

(* Submit with the fence it takes; with any other it changes nothing. *)
Submit(o, b) ==
    /\ op[o].outcome = "none"
    /\ Authority(b, conn)
    /\ ~Transferring(bd[b].thread)
    /\ op' = [op EXCEPT ![o] = [bind |-> b, conn |-> conn, fate |-> "unknown", outcome |-> "sent"]]
    /\ UNCHANGED <<supVars, bindEpoch, wake, link, bound, bd, notifs, emitted, oversize, sub, transfer>>

(* The endpoint acts on a request it received, perhaps long after the       *)
(* broker stopped waiting for the answer.                                  *)
Takes(o) ==
    /\ op[o].outcome \in {"sent", "indeterminate", "refused"} /\ op[o].fate = "unknown"
    /\ op' = [op EXCEPT ![o].fate = "took"]
    /\ UNCHANGED <<supVars, bindEpoch, wake, link, bound, bd, notifs, emitted, oversize, sub, transfer>>

(* Mutant: an answer dropped for its size counts as the endpoint's refusal. *)
ClassifyOversized(c, err) ==
    IF err = "disconnected" \/ conn # c THEN "indeterminate" ELSE "refused"

(* classify *)
Classify(c, err) ==
    IF err \in {"disconnected", "too large"} \/ conn # c THEN "indeterminate" ELSE "refused"

Finish(o, fate, outcome) ==
    /\ op' = [op EXCEPT ![o].fate = fate, ![o].outcome = outcome]
    /\ UNCHANGED bd
    /\ AdmittedDone(op[o].bind)
    /\ UNCHANGED <<supVars, bindEpoch, wake, link, bound, notifs, emitted, oversize, sub>>

Applied(o) ==
    /\ op[o].outcome = "sent" /\ op[o].fate = "took"
    /\ link[op[o].conn] = "up"
    /\ Finish(o, "took", "applied")

(* The endpoint answers with an error, which means that it did not act. *)
Rejected(o) ==
    /\ op[o].outcome = "sent" /\ op[o].fate = "unknown"
    /\ link[op[o].conn] = "up"
    /\ Finish(o, "rejected", Classify(op[o].conn, "rejected"))

(* The answer is lost: dropped for its size, or with the client. *)
Lost(o) ==
    LET c == op[o].conn
        err == IF link[c] = "up" THEN "too large" ELSE link[c]
    IN  /\ op[o].outcome = "sent"
        /\ Finish(o, op[o].fate, Classify(c, err))

-----------------------------------------------------------------------------
SupervisorStep ==
    \/ Sleep \/ StartOpen \/ OpenFails \/ Open \/ Route \/ Wakes
    \/ Revoke \/ CloseEndpoint \/ Retired \/ Shutdown

BarrierStep(b) == Resumed(b) \/ Snapshot(b) \/ BarrierEnds(b)

EndpointStep == LinkFails \/ \E t \in Threads : ThreadEvent(t)

OpStep(o) == (\E b \in Binds : Submit(o, b)) \/ Takes(o) \/ Applied(o) \/ Rejected(o) \/ Lost(o)

BrokerStep ==
    \/ CloseBroker
    \/ SupervisorStep
    \/ \E b \in Binds : BarrierStep(b)
    \/ EndpointStep
    \/ \E o \in Ops : OpStep(o)

-----------------------------------------------------------------------------
(* While a connection is served the supervisor never sleeps on work: when   *)
(* nothing is left to serve, or a binding needs its barrier, a wake is      *)
(* pending, whichever of bind, close, overflow, snapshot refusal, hand-off  *)
(* or abort brought it about (revokeBindingLocked, signal).                *)
SupervisorIsTold ==
    sup = "serving" /\ (~Wanted \/ Eligible(conn) # {}) =>
        wake \/ closing \/ link[conn] # "up"

(* A request reported as refused had no effect (ledger.go), across answers  *)
(* lost with the connection, dropped for their size, or overtaken by its    *)
(* replacement.  The exception is a client that failed with ErrProtocol     *)
(* while its connection was still the current one, over a frame it could    *)
(* not read or a notification its backlog had no room for (routeFrame):     *)
(* classify takes ErrProtocol for the endpoint's own answer.               *)
RefusedTookNoEffect ==
    \A o \in Ops : op[o].outcome = "refused" /\ op[o].fate = "took" => link[op[o].conn] = "protocol"
=============================================================================
