-------------------------- MODULE CodexBrokerProofs --------------------------
(***************************************************************************)
(* What every step of the broker keeps, for every number of threads,       *)
(* requests, connections and bindings and every size of the queues.  The   *)
(* modules that put the broker to use, BrokerTransfer and BrokerStream,    *)
(* build their invariants on BrokerInv.                                    *)
(***************************************************************************)
EXTENDS CodexBroker, TLAPS, SequenceTheorems

(* A binding record that fits its bounds. *)
Bounded(rec) == rec \in Binding /\ Len(rec.queue) <= Backlog /\ Len(rec.buf) <= Backlog

(* The routing and the records agree: a thread is bound to the one binding  *)
(* of it that is not revoked, and only a binding that was made has a        *)
(* barrier.                                                                *)
Routed ==
    \A b \in Binds :
        /\ bd[b].thread \in Threads <=> b <= bindEpoch
        /\ bd[b].barrier # "none" => b <= bindEpoch
        /\ \A t \in Threads : bound[t] = b <=> bd[b].thread = t /\ ~bd[b].revoked

(* The current connection is the last one opened, and is served. *)
Connected ==
    /\ conn # 0 <=> sup = "serving"
    /\ conn # 0 => conn = connEpoch
    /\ sup = "opening" => connEpoch < MaxConns
    /\ sup \in {"serving", "revoked", "closed"} => connEpoch # 0

(* A request that was sent names a binding and a connection. *)
Sent ==
    \A o \in Ops : op[o].outcome # "none" => op[o].bind \in 1 .. bindEpoch /\ op[o].conn \in Conns

(* A refusal is the endpoint's own, or the client failed over a frame. *)
Refusals ==
    \A o \in Ops :
        op[o].outcome = "refused" /\ op[o].fate # "rejected" => link[op[o].conn] = "protocol"

(* A wake that came while the connection was being opened is not lost. *)
ToldEarly == sup = "opening" /\ ~Wanted => wake \/ closing

BrokerInv ==
    /\ BrokerTypeOK /\ Routed /\ Connected /\ Sent /\ Refusals
    /\ ToldEarly /\ SupervisorIsTold

-----------------------------------------------------------------------------
(* Binding records. *)

(* How the broker's helpers change a record: only its stage, connection,    *)
(* buffer and queue, and a revoked one not at all.                         *)
Moves(old, new) ==
    /\ Bounded(new)
    /\ new.thread = old.thread /\ new.barrier = old.barrier
    /\ old.revoked => new.revoked

(* An empty buffer is one that fits. *)
LEMMA EmptyBuffer == <<>> \in Seq(Versions) /\ Len(<<>>) = 0 /\ 0 <= Backlog
  BY BrokerAssumption

(* A thread that has reported nothing has a version. *)
LEMMA NoVersion == 0 \in Versions
  BY BrokerAssumption DEF Versions

(* revokeLocked: the record keeps its thread, its barrier and its bounds. *)
LEMMA RevokedMoves ==
    ASSUME NEW rec, Bounded(rec)
    PROVE  Moves(rec, Revoked(rec)) /\ Revoked(rec).revoked
  BY EmptyBuffer DEF Bounded, Binding, Revoked, Moves

(* suspendLocked: the same, and it revokes nothing. *)
LEMMA SuspendedMoves ==
    ASSUME NEW rec, Bounded(rec)
    PROVE  Moves(rec, Suspended(rec)) /\ (Suspended(rec).revoked <=> rec.revoked)
  BY EmptyBuffer DEF Bounded, Binding, Suspended, Moves

(* emitLocked never lets a queue outgrow its bound. *)
LEMMA EmitMoves ==
    ASSUME NEW rec, Bounded(rec), NEW events \in Seq(Events)
    PROVE  /\ Moves(rec, Emit(rec, events))
           /\ Emit(rec, events).revoked \/ Emit(rec, events).stage = rec.stage
  <1>. DEFINE room == Backlog - Len(rec.queue)
              cut == SubSeq(events, 1, room)
  <1>1. rec.queue \in Seq(Events) /\ Len(rec.queue) \in Nat /\ room \in Nat /\ Len(events) \in Nat
    BY BrokerAssumption DEF Bounded, Binding
  <1>2. CASE rec.revoked
    BY <1>2 DEF Emit, Moves, Bounded
  <1>3. CASE ~rec.revoked /\ Len(events) <= room
    <2>1. rec.queue \o events \in Seq(Events)
          /\ Len(rec.queue \o events) = Len(rec.queue) + Len(events)
      BY <1>1, ConcatProperties
    <2>2. Len(rec.queue \o events) <= Backlog
      BY <1>1, <1>3, <2>1, BrokerAssumption
    <2>3. Emit(rec, events) = [rec EXCEPT !.queue = rec.queue \o events]
      BY <1>3 DEF Emit
    <2>. QED BY <2>1, <2>2, <2>3 DEF Bounded, Binding, Moves
  <1>4. CASE ~rec.revoked /\ ~(Len(events) <= room)
    <2>1. cut \in Seq(Events) /\ Len(cut) = room
      BY <1>1, <1>4, SubSeqProperties
    <2>. HIDE DEF cut
    <2>2. rec.queue \o cut \in Seq(Events) /\ Len(rec.queue \o cut) = Backlog
      <3>1. rec.queue \o cut \in Seq(Events)
            /\ Len(rec.queue \o cut) = Len(rec.queue) + Len(cut)
        BY <1>1, <2>1, ConcatProperties
      <3>. QED BY <1>1, <2>1, <3>1, BrokerAssumption
    <2>. DEFINE filled == [rec EXCEPT !.queue = rec.queue \o cut]
    <2>3. Bounded(filled) /\ filled.thread = rec.thread /\ filled.barrier = rec.barrier
      <3>1. Len(rec.queue \o cut) <= Backlog
        BY <2>2, BrokerAssumption
      <3>. QED BY <2>2, <3>1 DEF Bounded, Binding
    <2>4. Emit(rec, events) = Revoked(filled)
      BY <1>4 DEF Emit, cut
    <2>. HIDE DEF filled
    <2>. QED BY <2>3, <2>4, RevokedMoves DEF Moves
  <1>. QED BY <1>2, <1>3, <1>4

(* acceptLocked *)
LEMMA AcceptMoves ==
    ASSUME NEW rec, Bounded(rec), NEW v \in Versions, NEW c \in Conns
    PROVE  /\ Moves(rec, Accept(rec, v, c))
           /\ Accept(rec, v, c).revoked \/ Accept(rec, v, c).stage = rec.stage
  <1>1. CASE rec.stage = "buffering"
    <2>1. CASE Len(rec.buf) < Backlog
      <3>1. Append(rec.buf, v) \in Seq(Versions) /\ Len(Append(rec.buf, v)) = Len(rec.buf) + 1
        BY AppendProperties DEF Bounded, Binding
      <3>2. Len(Append(rec.buf, v)) <= Backlog
        BY <2>1, <3>1, BrokerAssumption DEF Bounded, Binding
      <3>3. Accept(rec, v, c) = [rec EXCEPT !.buf = Append(rec.buf, v)]
        BY <1>1, <2>1 DEF Accept
      <3>. QED BY <3>1, <3>2, <3>3 DEF Bounded, Binding, Moves
    <2>2. CASE ~(Len(rec.buf) < Backlog)
      BY <1>1, <2>2, RevokedMoves DEF Accept
    <2>. QED BY <2>1, <2>2
  <1>2. CASE rec.stage = "open"
    <2>1. <<Live(v, c)>> \in Seq(Events)
      BY DEF Live, Events
    <2>. QED BY <1>2, <2>1, EmitMoves DEF Accept
  <1>3. CASE rec.stage \notin {"buffering", "open"}
    BY <1>3 DEF Accept, Moves, Bounded
  <1>. QED BY <1>1, <1>2, <1>3

(* closeBarrierLocked *)
LEMMA CloseBarrierMoves ==
    ASSUME NEW rec, Bounded(rec), NEW snap \in Versions, NEW c \in Conns
    PROVE  /\ Moves(rec, CloseBarrier(rec, snap, c))
           /\ CloseBarrier(rec, snap, c).revoked \/ CloseBarrier(rec, snap, c).stage = "open"
  <1>. DEFINE opened == [rec EXCEPT !.stage = "open", !.conn = c, !.buf = <<>>]
              live == [i \in 1 .. Len(rec.buf) |-> Live(rec.buf[i], c)]
              first == <<[snap |-> TRUE, v |-> snap, conn |-> c]>>
  <1>1. Bounded(opened) /\ opened.thread = rec.thread /\ opened.barrier = rec.barrier
        /\ opened.revoked = rec.revoked /\ opened.stage = "open"
    BY EmptyBuffer DEF Bounded, Binding
  <1>2. live \in Seq(Events)
    <2>1. Len(rec.buf) \in Nat /\ \A i \in 1 .. Len(rec.buf) : rec.buf[i] \in Versions
      BY DEF Bounded, Binding
    <2>2. \A i \in 1 .. Len(rec.buf) : Live(rec.buf[i], c) \in Events
      BY <2>1 DEF Live, Events
    <2>. QED BY <2>1, <2>2, IsASeq
  <1>3. first \in Seq(Events)
    BY DEF Events
  <1>4. first \o live \in Seq(Events)
    BY <1>2, <1>3, ConcatProperties
  <1>5. CloseBarrier(rec, snap, c) = Emit(opened, first \o live)
    BY DEF CloseBarrier
  <1>. HIDE DEF opened, live, first
  <1>. QED BY <1>1, <1>4, <1>5, EmitMoves DEF Moves

-----------------------------------------------------------------------------
(* The records together, and the part of a step that is about them. *)

RecordsOK == bd \in [Binds -> Binding] /\ \A b \in Binds : Bounded(bd[b])

(* What the type invariant says of the binding records. *)
LEMMA TypeRecords == BrokerTypeOK => RecordsOK
  BY DEF BrokerTypeOK, RecordsOK, Bounded

(* One record is replaced, and a binding that is revoked leaves the routing *)
(* and wakes the supervisor.                                               *)
LEMMA InstallKeeps ==
    ASSUME BrokerTypeOK, Routed, NEW b \in Binds, NEW rec, Bounded(rec),
           rec.thread = bd[b].thread, bd[b].revoked => rec.revoked, Install(b, rec),
           rec.barrier # "none" => bd[b].barrier # "none", bindEpoch' = bindEpoch
    PROVE  /\ RecordsOK' /\ Routed'
           /\ bound' \in [Threads -> {0} \cup Binds] /\ wake' \in BOOLEAN
           /\ wake => wake'
           /\ rec.revoked /\ ~bd[b].revoked => wake'
           /\ bd'[b] = rec /\ \A x \in Binds \ {b} : bd'[x] = bd[x]
           /\ \A t \in Threads : bound'[t] # bound[t] => bound[t] = b /\ bound'[t] = 0 /\ wake'
  <1>1. bd' = [bd EXCEPT ![b] = rec] /\ bd \in [Binds -> Binding]
    BY DEF Install, BrokerTypeOK
  <1>2. bd'[b] = rec /\ \A x \in Binds \ {b} : bd'[x] = bd[x]
    BY <1>1
  <1>3. RecordsOK'
    <2>1. bd' \in [Binds -> Binding]
      BY <1>1 DEF Bounded
    <2>2. \A x \in Binds : Bounded(bd[x])
      BY TypeRecords DEF RecordsOK
    <2>. QED BY <1>2, <2>1, <2>2 DEF RecordsOK, Bounded
  <1>4. \A t \in Threads : bound'[t] = IF rec.revoked /\ bound[t] = b THEN 0 ELSE bound[t]
    BY DEF Install
  <1>5. bound' \in [Threads -> {0} \cup Binds]
    BY DEF Install, BrokerTypeOK
  <1>6. 0 \notin Binds
    BY DEF Binds
  <1>7. Routed'
    <2>. SUFFICES ASSUME NEW x \in Binds
                  PROVE  /\ bd'[x].thread \in Threads <=> x <= bindEpoch
                         /\ bd'[x].barrier # "none" => x <= bindEpoch
                         /\ \A t \in Threads : bound'[t] = x <=> bd'[x].thread = t /\ ~bd'[x].revoked
      BY DEF Routed
    <2>1. CASE x = b
      BY <1>2, <1>4, <1>6, <2>1 DEF Routed
    <2>2. CASE x # b
      BY <1>2, <1>4, <1>6, <2>2 DEF Routed
    <2>. QED BY <2>1, <2>2
  <1>8. /\ wake' \in BOOLEAN
        /\ wake => wake'
        /\ rec.revoked /\ ~bd[b].revoked => wake'
    BY DEF Install
  <1>9. \A t \in Threads : bound'[t] # bound[t] => bound[t] = b /\ bound'[t] = 0 /\ wake'
    BY <1>4, <1>8 DEF Routed
  <1>. QED BY <1>2, <1>3, <1>5, <1>7, <1>8, <1>9

(* admittedDone: a transfer changes only in that its drain ends, and then   *)
(* nothing of the binding is in flight.                                    *)
Drains(t) ==
    \/ transfer'[t] = transfer[t]
    \/ /\ Transferring(t) /\ transfer[t].draining
       /\ transfer'[t] = [transfer[t] EXCEPT !.draining = FALSE]
       /\ ~Busy(transfer[t].bind)'

(* A transfer whose drain ends keeps its receipt, bindings and progress. *)
LEMMA DrainsKeeps ==
    ASSUME BrokerTypeOK, NEW t \in Threads, Drains(t)
    PROVE  /\ transfer'[t] \in Transfer \cup {NoTransfer}
           /\ Transferring(t)' <=> Transferring(t)
           /\ Transferring(t) =>
                /\ transfer'[t].token = transfer[t].token
                /\ transfer'[t].bind = transfer[t].bind
                /\ transfer'[t].native = transfer[t].native
                /\ transfer'[t].orphaned = transfer[t].orphaned
                /\ transfer'[t].conn = transfer[t].conn
                /\ transfer'[t].target = transfer[t].target
                /\ transfer'[t].attempted = transfer[t].attempted
                /\ transfer'[t].retired = transfer[t].retired
                /\ transfer'[t].busy = transfer[t].busy
  <1>1. CASE transfer'[t] = transfer[t]
    BY <1>1 DEF BrokerTypeOK, Transferring
  <1>2. CASE Transferring(t) /\ transfer'[t] = [transfer[t] EXCEPT !.draining = FALSE]
    <2>1. transfer[t] \in Transfer
      BY <1>2 DEF BrokerTypeOK, Transferring
    <2>2. transfer'[t] \in Transfer /\ transfer'[t].token # "none"
      BY <1>2, <2>1, BrokerAssumption DEF Transfer
    <2>3. NoTransfer.token = "none"
      BY DEF NoTransfer
    <2>4. transfer'[t] # NoTransfer
      BY <2>2, <2>3
    <2>. QED BY <1>2, <2>1, <2>2, <2>4 DEF Transferring, Transfer
  <1>. QED BY <1>1, <1>2 DEF Drains

(* admittedDone does nothing to a transfer but end its drain. *)
LEMMA AdmittedDrains ==
    ASSUME BrokerTypeOK, NEW b \in Binds, AdmittedDone(b)
    PROVE  /\ transfer' \in [Threads -> Transfer \cup {NoTransfer}]
           /\ \A t \in Threads : Drains(t)
  <1>1. \A t \in Threads : Drains(t)
    BY DEF AdmittedDone, Drains, Busy, BrokerTypeOK
  <1>2. transfer' = [t \in Threads |-> transfer'[t]]
    BY DEF AdmittedDone
  <1>3. \A t \in Threads : transfer'[t] \in Transfer \cup {NoTransfer}
    BY <1>1, DrainsKeeps
  <1>. QED BY <1>1, <1>2, <1>3

-----------------------------------------------------------------------------
(* What a step of the broker promises a transfer: bindings keep their       *)
(* thread, revocation is final, nothing is started on a binding that is     *)
(* revoked or whose thread is being transferred away from it, and a drain   *)
(* ends when nothing is in flight.                                         *)
Guarantee ==
    /\ \A b \in 1 .. bindEpoch :
          /\ bd'[b].thread = bd[b].thread
          /\ bd[b].revoked => bd'[b].revoked
          /\ Busy(b)' => \/ Busy(b)
                        \/ /\ ~bd[b].revoked
                           /\ Transferring(bd[b].thread) => transfer[bd[b].thread].native = b
    /\ \A o \in Ops :
          op[o].outcome = "none" /\ op'[o].outcome = "sent" =>
              /\ ~bd[op'[o].bind].revoked
              /\ ~Transferring(bd[op'[o].bind].thread)
    /\ \A t \in Threads : Drains(t)

(* A step that starts and revokes nothing. *)
LEMMA QuietGuarantee ==
    ASSUME UNCHANGED <<bd, op, transfer>>
    PROVE  Guarantee
  BY DEF Guarantee, Drains, Busy

(* A step outside the supervisor: work it leaves behind wakes it. *)
LEMMA ToldKept ==
    ASSUME Connected, ToldEarly, SupervisorIsTold,
           conn' = conn, sup' = sup, wake => wake', closing => closing',
           conn # 0 /\ link[conn] # "up" => link'[conn] # "up",
           ~Wanted' => ~Wanted \/ wake' \/ closing',
           \A b \in Eligible(conn)' : \/ b \in Eligible(conn) \/ wake' \/ closing'
                                      \/ link'[conn] # "up"
    PROVE  ToldEarly' /\ SupervisorIsTold'
  BY DEF ToldEarly, SupervisorIsTold, Connected

-----------------------------------------------------------------------------
(* The supervisor. *)

(* supervise takes a wake and finds nothing bound. *)
LEMMA SleepKeeps ==
    ASSUME BrokerInv, Sleep
    PROVE  BrokerInv' /\ Guarantee
  <1>1. BrokerTypeOK' /\ Routed' /\ Connected' /\ Sent' /\ Refusals'
    BY DEF BrokerInv, Sleep, supVars, BrokerTypeOK, Routed, Connected, Sent, Refusals
  <1>2. ToldEarly' /\ SupervisorIsTold'
    BY DEF BrokerInv, Sleep, supVars, ToldEarly, SupervisorIsTold, Connected
  <1>3. Guarantee
    BY QuietGuarantee DEF Sleep
  <1>. QED BY <1>1, <1>2, <1>3 DEF BrokerInv

(* supervise goes to open a connection because a thread is bound. *)
LEMMA StartOpenKeeps ==
    ASSUME BrokerInv, StartOpen
    PROVE  BrokerInv' /\ Guarantee
  <1>1. BrokerTypeOK' /\ Routed' /\ Sent' /\ Refusals'
    BY DEF BrokerInv, StartOpen, BrokerTypeOK, Routed, Sent, Refusals
  <1>2. Connected'
    BY DEF BrokerInv, StartOpen, Connected, BrokerTypeOK
  <1>3. ToldEarly' /\ SupervisorIsTold'
    BY DEF StartOpen, ToldEarly, SupervisorIsTold, Wanted, Transferring
  <1>4. Guarantee
    BY QuietGuarantee DEF StartOpen
  <1>. QED BY <1>1, <1>2, <1>3, <1>4 DEF BrokerInv

(* The opener fails and supervise looks again. *)
LEMMA OpenFailsKeeps ==
    ASSUME BrokerInv, OpenFails
    PROVE  BrokerInv' /\ Guarantee
  <1>1. BrokerTypeOK' /\ Routed' /\ Sent' /\ Refusals'
    BY DEF BrokerInv, OpenFails, BrokerTypeOK, Routed, Sent, Refusals
  <1>2. Connected'
    BY DEF BrokerInv, OpenFails, Connected, BrokerTypeOK
  <1>3. ToldEarly' /\ SupervisorIsTold'
    BY DEF OpenFails, ToldEarly, SupervisorIsTold
  <1>4. Guarantee
    BY QuietGuarantee DEF OpenFails
  <1>. QED BY <1>1, <1>2, <1>3, <1>4 DEF BrokerInv

(* startBarriers: the eligible bindings leave the idle stage, and no other. *)
LEMMA StartedKeeps ==
    ASSUME BrokerTypeOK, Routed, NEW c \in Conns, Started(c), UNCHANGED <<bound, bindEpoch, transfer>>
    PROVE  /\ RecordsOK' /\ Routed' /\ Eligible(c)' = {}
           /\ \A b \in Binds : /\ bd'[b].thread = bd[b].thread /\ bd'[b].revoked = bd[b].revoked
                               /\ bd'[b].barrier # "none" =>
                                     \/ bd[b].barrier # "none"
                                     \/ /\ ~bd[b].revoked
                                        /\ Transferring(bd[b].thread) =>
                                              transfer[bd[b].thread].native = b
  <1>1. \A b \in Binds : bd'[b] = IF b \in Eligible(c)
           THEN [bd[b] EXCEPT !.stage = "buffering", !.conn = c, !.barrier = "resume"] ELSE bd[b]
    BY DEF Started
  <1>2. bd' = [b \in Binds |-> bd'[b]]
    BY DEF Started
  <1>3. \A b \in Binds : Bounded(bd[b])
    BY TypeRecords DEF RecordsOK
  <1>4. \A b \in Binds : /\ Bounded(bd'[b])
                         /\ bd'[b].thread = bd[b].thread /\ bd'[b].revoked = bd[b].revoked
                         /\ b \in Eligible(c) => bd'[b].stage = "buffering"
    <2>. SUFFICES ASSUME NEW b \in Binds
                  PROVE  /\ Bounded(bd'[b])
                         /\ bd'[b].thread = bd[b].thread /\ bd'[b].revoked = bd[b].revoked
                         /\ b \in Eligible(c) => bd'[b].stage = "buffering"
      OBVIOUS
    <2>1. CASE b \in Eligible(c)
      <3>1. bd'[b] = [bd[b] EXCEPT !.stage = "buffering", !.conn = c, !.barrier = "resume"]
        BY <1>1, <2>1
      <3>2. Bounded(bd[b])
        BY <1>3
      <3>. QED BY <3>1, <3>2 DEF Bounded, Binding
    <2>2. CASE b \notin Eligible(c)
      BY <1>1, <1>3, <2>2
    <2>. QED BY <2>1, <2>2
  <1>5. RecordsOK'
    BY <1>2, <1>4 DEF RecordsOK, Bounded
  <1>6. Routed'
    <2>1. \A b \in Binds : bd'[b].barrier # "none" => bd[b].barrier # "none" \/ b \in Eligible(c)
      BY <1>1
    <2>2. \A b \in Binds : bd'[b].barrier # "none" => b <= bindEpoch
      BY <2>1 DEF Eligible, Routed
    <2>. QED BY <1>4, <2>2 DEF Routed
  <1>7. Eligible(c)' = {}
    <2>. SUFFICES ASSUME NEW b \in Binds, b \in Eligible(c)'
                  PROVE  FALSE
      BY DEF Eligible
    <2>1. CASE b \in Eligible(c)
      BY <1>4, <2>1 DEF Eligible
    <2>2. CASE b \notin Eligible(c)
      BY <1>1, <2>2 DEF Eligible, Transferring, NativeAllowed
    <2>. QED BY <2>1, <2>2
  <1>8. \A b \in Binds : bd'[b].barrier # "none" =>
           \/ bd[b].barrier # "none"
           \/ /\ ~bd[b].revoked
              /\ Transferring(bd[b].thread) => transfer[bd[b].thread].native = b
    BY <1>1 DEF Eligible, Routed, NativeAllowed
  <1>. QED BY <1>4, <1>5, <1>6, <1>7, <1>8

(* A step of barriers keeps the guarantee. *)
LEMMA StartedGuarantee ==
    ASSUME BrokerTypeOK, Routed, NEW c \in Conns, Started(c),
           UNCHANGED <<bound, bindEpoch, transfer, op>>
    PROVE  Guarantee
  <1>1. \A b \in Binds : /\ bd'[b].thread = bd[b].thread /\ bd'[b].revoked = bd[b].revoked
                         /\ bd'[b].barrier # "none" =>
                               \/ bd[b].barrier # "none"
                               \/ /\ ~bd[b].revoked
                                  /\ Transferring(bd[b].thread) =>
                                        transfer[bd[b].thread].native = b
    BY StartedKeeps
  <1>2. 1 .. bindEpoch \subseteq Binds
    BY BrokerAssumption DEF BrokerTypeOK, Binds
  <1>. QED BY <1>1, <1>2 DEF Guarantee, Drains, Busy

(* The new connection is current, and every eligible binding gets its       *)
(* barrier.                                                                 *)
LEMMA OpenKeeps ==
    ASSUME BrokerInv, Open
    PROVE  BrokerInv' /\ Guarantee
  <1>1. PICK c \in Conns : c = connEpoch + 1 /\ c # 0
    BY BrokerAssumption DEF BrokerInv, Open, Connected, BrokerTypeOK, Conns
  <1>2. Started(c) /\ conn' = c /\ connEpoch' = c
    BY <1>1 DEF Open
  <1>3. RecordsOK' /\ Routed' /\ Eligible(c)' = {}
    BY <1>2, StartedKeeps DEF BrokerInv, Open
  <1>4. BrokerTypeOK'
    BY <1>2, <1>3, BrokerAssumption DEF BrokerInv, BrokerTypeOK, Open, RecordsOK, Bounded
  <1>5. Connected'
    BY <1>1, <1>2 DEF Open, Connected
  <1>6. Sent' /\ Refusals'
    BY DEF BrokerInv, Open, Sent, Refusals
  <1>7. ToldEarly' /\ SupervisorIsTold'
    <2>1. Wanted' <=> Wanted
      BY DEF Open, Wanted, Transferring
    <2>2. Eligible(conn)' = {}
      BY <1>2, <1>3
    <2>. QED BY <2>1, <2>2 DEF BrokerInv, Open, ToldEarly, SupervisorIsTold
  <1>8. Guarantee
    BY <1>2, StartedGuarantee DEF BrokerInv, Open
  <1>. QED BY <1>3, <1>4, <1>5, <1>6, <1>7, <1>8 DEF BrokerInv

(* serve takes a wake and starts the barriers that are missing. *)
LEMMA WakesKeeps ==
    ASSUME BrokerInv, Wakes
    PROVE  BrokerInv' /\ Guarantee
  <1>1. conn \in Conns
    BY DEF BrokerInv, Wakes, Connected, BrokerTypeOK
  <1>2. RecordsOK' /\ Routed' /\ Eligible(conn)' = {}
    <2>1. RecordsOK' /\ Routed' /\ \A c \in Conns : Started(c) => Eligible(c)' = {}
      BY <1>1, StartedKeeps DEF BrokerInv, Wakes
    <2>. QED BY <1>1, <2>1 DEF Wakes, supVars
  <1>3. BrokerTypeOK'
    BY <1>2 DEF BrokerInv, BrokerTypeOK, Wakes, supVars, RecordsOK, Bounded
  <1>4. Connected' /\ Sent' /\ Refusals'
    BY DEF BrokerInv, Wakes, supVars, Connected, Sent, Refusals
  <1>5. ToldEarly' /\ SupervisorIsTold'
    <2>1. Wanted'
      BY DEF Wakes, supVars, Wanted, Transferring
    <2>. QED BY <1>2, <2>1 DEF ToldEarly, SupervisorIsTold
  <1>6. Guarantee
    BY <1>1, StartedGuarantee DEF BrokerInv, Wakes
  <1>. QED BY <1>2, <1>3, <1>4, <1>5, <1>6 DEF BrokerInv

-----------------------------------------------------------------------------
(* Steps on one binding. *)

(* One record changes, none is started, and one that becomes idle without   *)
(* being revoked is left to the next connection.                           *)
LEMMA InstallStep ==
    ASSUME BrokerInv, NEW b \in Binds, NEW rec, Bounded(rec),
           rec.thread = bd[b].thread, bd[b].revoked => rec.revoked,
           rec.barrier # "none" => bd[b].barrier # "none",
           rec.revoked \/ rec.stage \in {bd[b].stage, "open"} \/ closing \/ link[conn] # "up",
           Install(b, rec), \A t \in Threads : Drains(t),
           UNCHANGED <<conn, sup, closing, bindEpoch, link, op>>
    PROVE  /\ RecordsOK' /\ Routed'
           /\ bound' \in [Threads -> {0} \cup Binds] /\ wake' \in BOOLEAN
           /\ ToldEarly' /\ SupervisorIsTold' /\ Guarantee
  <1>1. /\ RecordsOK' /\ Routed'
        /\ bound' \in [Threads -> {0} \cup Binds] /\ wake' \in BOOLEAN
        /\ wake => wake'
        /\ bd'[b] = rec /\ \A x \in Binds \ {b} : bd'[x] = bd[x]
        /\ \A t \in Threads : bound'[t] # bound[t] => bound[t] = b /\ bound'[t] = 0 /\ wake'
    BY InstallKeeps DEF BrokerInv
  <1>2. \A t \in Threads :
           /\ Transferring(t)' <=> Transferring(t)
           /\ Transferring(t) =>
                /\ transfer'[t].native = transfer[t].native
                /\ transfer'[t].orphaned = transfer[t].orphaned
                /\ transfer'[t].conn = transfer[t].conn
                /\ transfer'[t].target = transfer[t].target
    BY DrainsKeeps DEF BrokerInv
  <1>3. ~Wanted' => ~Wanted \/ wake'
    BY <1>1, <1>2 DEF Wanted
  <1>4. ASSUME NEW x \in Eligible(conn)'
        PROVE  x \in Eligible(conn) \/ wake' \/ closing' \/ link'[conn] # "up"
    <2>1. x \in Binds /\ bd'[x].thread = bd[x].thread /\ bd[x].thread \in Threads
      BY <1>1, <1>4 DEF Eligible
    <2>2. /\ bound'[bd[x].thread] = x /\ bd'[x].stage = "idle" /\ x # 0
          /\ Transferring(bd[x].thread) => NativeAllowed(x, conn)'
      BY <1>2, <1>4, <2>1 DEF Eligible, Binds
    <2>3. bound[bd[x].thread] = x
      BY <1>1, <2>1, <2>2
    <2>4. Transferring(bd[x].thread) => NativeAllowed(x, conn)
      BY <1>2, <2>1, <2>2 DEF NativeAllowed, Transferring
    <2>5. ~bd'[x].revoked
      BY <1>1, <2>1, <2>2 DEF Routed
    <2>. QED BY <1>1, <2>1, <2>2, <2>3, <2>4, <2>5 DEF Eligible
  <1>5. ToldEarly' /\ SupervisorIsTold'
    BY <1>1, <1>3, <1>4, ToldKept DEF BrokerInv
  <1>6. 1 .. bindEpoch \subseteq Binds
    BY BrokerAssumption DEF BrokerInv, BrokerTypeOK, Binds
  <1>7. Guarantee
    BY <1>1, <1>6 DEF Guarantee, Busy
  <1>. QED BY <1>1, <1>5, <1>7

(* Binding.Close takes the binding out of the routing and wakes the         *)
(* supervisor.                                                              *)
LEMMA CloseBindingKeeps ==
    ASSUME BrokerInv, NEW b \in Binds, CloseBinding(b)
    PROVE  BrokerInv' /\ Guarantee
  <1>1. Bounded(bd[b])
    BY TypeRecords DEF BrokerInv, RecordsOK
  <1>2. Moves(bd[b], Revoked(bd[b])) /\ Revoked(bd[b]).revoked
    BY <1>1, RevokedMoves
  <1>3. /\ RecordsOK' /\ Routed'
        /\ bound' \in [Threads -> {0} \cup Binds] /\ wake' \in BOOLEAN
        /\ ToldEarly' /\ SupervisorIsTold' /\ Guarantee
    BY <1>2, InstallStep DEF CloseBinding, supVars, Moves, Drains
  <1>4. BrokerTypeOK'
    BY <1>3 DEF BrokerInv, BrokerTypeOK, CloseBinding, supVars, RecordsOK, Bounded
  <1>5. Connected' /\ Sent' /\ Refusals'
    BY DEF BrokerInv, CloseBinding, supVars, Connected, Sent, Refusals
  <1>. QED BY <1>3, <1>4, <1>5 DEF BrokerInv

(* routeNotification hands one notification to the binding of its thread. *)
LEMMA RouteKeeps ==
    ASSUME BrokerInv, Route
    PROVE  BrokerInv' /\ Guarantee
  <1>. DEFINE n == Head(notifs)
              b == bound[n.thread]
  <1>1. notifs \in Seq([thread : Threads, v : Versions]) /\ notifs # <<>>
    BY DEF BrokerInv, BrokerTypeOK, Route
  <1>2. /\ n.thread \in Threads /\ n.v \in Versions
        /\ notifs' \in Seq([thread : Threads, v : Versions]) /\ Len(notifs') <= EventLimit
    <2>. DEFINE N == [thread : Threads, v : Versions]
    <2>1. n \in N /\ Tail(notifs) \in Seq(N) /\ Len(Tail(notifs)) = Len(notifs) - 1
      BY <1>1, HeadTailProperties
    <2>2. Len(notifs) \in Nat /\ Len(notifs) <= EventLimit /\ notifs' = Tail(notifs)
      BY DEF BrokerInv, BrokerTypeOK, Route
    <2>3. Len(notifs') <= EventLimit
      BY <2>1, <2>2, BrokerAssumption
    <2>. QED BY <2>1, <2>2, <2>3
  <1>3. conn \in Conns
    BY DEF BrokerInv, Route, Connected, BrokerTypeOK
  <1>4. /\ RecordsOK' /\ Routed'
        /\ bound' \in [Threads -> {0} \cup Binds] /\ wake' \in BOOLEAN
        /\ ToldEarly' /\ SupervisorIsTold' /\ Guarantee
    <2>1. CASE b = 0
      <3>1. UNCHANGED <<bd, bound, wake, bindEpoch, conn, sup, closing, link, op, transfer>>
        BY <2>1 DEF Route, supVars
      <3>2. Wanted' = Wanted /\ Eligible(conn)' = Eligible(conn)
        BY <3>1 DEF Wanted, Transferring, Eligible, NativeAllowed
      <3>3. ToldEarly' /\ SupervisorIsTold'
        BY <3>1, <3>2 DEF BrokerInv, ToldEarly, SupervisorIsTold
      <3>4. RecordsOK
        BY TypeRecords DEF BrokerInv
      <3>. QED BY <3>1, <3>3, <3>4, QuietGuarantee
               DEF BrokerInv, BrokerTypeOK, RecordsOK, Routed
    <2>2. CASE b # 0
      <3>1. b \in Binds
        BY <1>2, <2>2 DEF BrokerInv, BrokerTypeOK
      <3>2. Bounded(bd[b])
        BY <3>1, TypeRecords DEF BrokerInv, RecordsOK
      <3>. DEFINE rec == Accept(bd[b], n.v, conn)
      <3>3. Moves(bd[b], rec) /\ (rec.revoked \/ rec.stage = bd[b].stage)
        BY <1>2, <1>3, <3>2, AcceptMoves
      <3>4. Install(b, rec)
        BY <2>2 DEF Route
      <3>5. UNCHANGED <<conn, sup, closing, bindEpoch, link, op>> /\ \A t \in Threads : Drains(t)
        BY DEF Route, supVars, Drains
      <3>. HIDE DEF rec, b, n
      <3>. QED BY <3>1, <3>3, <3>4, <3>5, InstallStep DEF Moves
    <2>. QED BY <2>1, <2>2
  <1>5. BrokerTypeOK'
    <2>. HIDE DEF n, b
    <2>. QED BY <1>2, <1>4 DEF BrokerInv, BrokerTypeOK, Route, supVars, RecordsOK, Bounded
  <1>6. Connected' /\ Sent' /\ Refusals'
    BY DEF BrokerInv, Route, supVars, Connected, Sent, Refusals
  <1>. QED BY <1>4, <1>5, <1>6 DEF BrokerInv

(* runBarrier ends: stale, left to the next connection, revoked or open. *)
LEMMA BarrierEndsKeeps ==
    ASSUME BrokerInv, NEW b \in Binds, BarrierEnds(b)
    PROVE  BrokerInv' /\ Guarantee
  <1>. DEFINE rec == [bd[b] EXCEPT !.barrier = "none", !.snap = 0]
              left == [rec EXCEPT !.stage = "idle", !.conn = 0]
              merged == CloseBarrier(rec, bd[b].snap, conn)
  <1>1. Bounded(bd[b])
    BY TypeRecords DEF BrokerInv, RecordsOK
  <1>2. /\ Bounded(rec) /\ rec.thread = bd[b].thread /\ rec.barrier = "none"
        /\ rec.revoked = bd[b].revoked /\ rec.stage = bd[b].stage
    BY <1>1, NoVersion DEF Bounded, Binding
  <1>3. /\ Bounded(left) /\ left.thread = bd[b].thread /\ left.barrier = "none"
        /\ left.revoked = bd[b].revoked
    BY <1>1, NoVersion DEF Bounded, Binding
  <1>4. /\ UNCHANGED <<conn, sup, closing, bindEpoch, link, op>>
        /\ transfer' \in [Threads -> Transfer \cup {NoTransfer}]
        /\ \A t \in Threads : Drains(t)
    BY AdmittedDrains DEF BrokerInv, BarrierEnds, supVars
  <1>5. /\ RecordsOK' /\ Routed'
        /\ bound' \in [Threads -> {0} \cup Binds] /\ wake' \in BOOLEAN
        /\ ToldEarly' /\ SupervisorIsTold' /\ Guarantee
    <2>1. CASE Install(b, rec)
      <3>. HIDE DEF rec
      <3>. QED BY <1>2, <1>4, <2>1, InstallStep
    <2>2. CASE conn # 0 /\ (link[connEpoch] = "disconnected" \/ closing) /\ Install(b, left)
      <3>1. closing \/ link[conn] # "up"
        BY <2>2 DEF BrokerInv, Connected
      <3>. HIDE DEF left, rec
      <3>. QED BY <1>3, <1>4, <2>2, <3>1, InstallStep
    <2>3. CASE Install(b, Revoked(rec))
      <3>. HIDE DEF rec
      <3>1. Moves(rec, Revoked(rec)) /\ Revoked(rec).revoked
        BY <1>2, RevokedMoves
      <3>. QED BY <1>2, <1>4, <2>3, <3>1, InstallStep DEF Moves
    <2>4. CASE conn # 0 /\ Install(b, merged)
      <3>1. conn \in Conns
        BY <2>4 DEF BrokerInv, BrokerTypeOK
      <3>2. bd[b].snap \in Versions
        BY <1>1 DEF Bounded, Binding
      <3>. HIDE DEF rec
      <3>3. Moves(rec, merged) /\ (merged.revoked \/ merged.stage = "open")
        BY <1>2, <3>1, <3>2, CloseBarrierMoves
      <3>. HIDE DEF merged
      <3>. QED BY <1>2, <1>4, <2>4, <3>3, InstallStep DEF Moves
    <2>. QED BY <2>1, <2>2, <2>3, <2>4 DEF BarrierEnds
  <1>6. BrokerTypeOK'
    <2>1. UNCHANGED <<connEpoch, peer, notifs, emitted, oversize, sub>>
      BY DEF BarrierEnds, supVars
    <2>. HIDE DEF rec, left, merged
    <2>. QED BY <1>4, <1>5, <2>1 DEF BrokerInv, BrokerTypeOK, RecordsOK, Bounded
  <1>7. Connected' /\ Sent' /\ Refusals'
    BY DEF BrokerInv, BarrierEnds, supVars, Connected, Sent, Refusals
  <1>. QED BY <1>5, <1>6, <1>7 DEF BrokerInv

-----------------------------------------------------------------------------
(* The end of a connection. *)

(* serve leaves its loop: no connection is current, every binding is        *)
(* suspended.                                                               *)
LEMMA RevokeKeeps ==
    ASSUME BrokerInv, Revoke
    PROVE  BrokerInv' /\ Guarantee
  <1>1. \A b \in Binds : Bounded(bd[b])
    BY TypeRecords DEF BrokerInv, RecordsOK
  <1>2. \A b \in Binds : bd'[b] =
           IF bd[b].thread \in Threads /\ bound[bd[b].thread] = b THEN Suspended(bd[b]) ELSE bd[b]
    BY DEF Revoke
  <1>3. \A b \in Binds : Moves(bd[b], bd'[b]) /\ (bd'[b].revoked <=> bd[b].revoked)
    BY <1>1, <1>2, SuspendedMoves DEF Moves
  <1>4. RecordsOK'
    <2>1. bd' = [b \in Binds |-> bd'[b]]
      BY DEF Revoke
    <2>. QED BY <1>3, <2>1 DEF RecordsOK, Moves, Bounded
  <1>5. notifs' = <<>> /\ wake' \in BOOLEAN
    BY DEF Revoke, BrokerInv, BrokerTypeOK
  <1>6. BrokerTypeOK'
    BY <1>4, <1>5, BrokerAssumption DEF BrokerInv, BrokerTypeOK, Revoke, RecordsOK, Bounded
  <1>7. Routed'
    BY <1>3 DEF BrokerInv, Revoke, Routed, Moves
  <1>8. Connected' /\ Sent' /\ Refusals' /\ ToldEarly' /\ SupervisorIsTold'
    BY DEF BrokerInv, Revoke, Connected, Sent, Refusals, ToldEarly, SupervisorIsTold
  <1>9. Guarantee
    <2>1. 1 .. bindEpoch \subseteq Binds
      BY BrokerAssumption DEF BrokerInv, BrokerTypeOK, Binds
    <2>2. \A b \in 1 .. bindEpoch :
             /\ bd'[b].thread = bd[b].thread /\ (bd[b].revoked => bd'[b].revoked)
             /\ bd'[b].barrier = bd[b].barrier
      BY <1>3, <2>1 DEF Moves
    <2>3. UNCHANGED <<op, transfer>>
      BY DEF Revoke
    <2>. QED BY <2>2, <2>3 DEF Guarantee, Drains, Busy
  <1>. QED BY <1>6, <1>7, <1>8, <1>9 DEF BrokerInv

(* endpoint.Close fails the client of the revoked connection. *)
LEMMA CloseEndpointKeeps ==
    ASSUME BrokerInv, CloseEndpoint
    PROVE  BrokerInv' /\ Guarantee
  <1>1. link' \in [Conns -> {"up", "disconnected", "protocol"}]
        /\ \A c \in Conns : link[c] # "up" => link'[c] = link[c]
    BY DEF BrokerInv, CloseEndpoint, BrokerTypeOK
  <1>2. BrokerTypeOK' /\ Routed' /\ Sent'
    BY <1>1 DEF BrokerInv, CloseEndpoint, BrokerTypeOK, Routed, Sent
  <1>3. Refusals'
    BY <1>1 DEF BrokerInv, CloseEndpoint, Sent, Refusals
  <1>4. Connected' /\ ToldEarly' /\ SupervisorIsTold'
    BY DEF BrokerInv, CloseEndpoint, Connected, ToldEarly, SupervisorIsTold
  <1>5. Guarantee
    BY QuietGuarantee DEF CloseEndpoint
  <1>. QED BY <1>2, <1>3, <1>4, <1>5 DEF BrokerInv

(* The barriers of the revoked connection are over. *)
LEMMA RetiredKeeps ==
    ASSUME BrokerInv, Retired
    PROVE  BrokerInv' /\ Guarantee
  <1>1. BrokerTypeOK' /\ Routed' /\ Sent' /\ Refusals'
    BY DEF BrokerInv, Retired, BrokerTypeOK, Routed, Sent, Refusals
  <1>2. Connected' /\ ToldEarly' /\ SupervisorIsTold'
    BY DEF BrokerInv, Retired, Connected, ToldEarly, SupervisorIsTold
  <1>3. Guarantee
    BY QuietGuarantee DEF Retired
  <1>. QED BY <1>1, <1>2, <1>3 DEF BrokerInv

(* shutdown revokes every binding that is left. *)
LEMMA ShutdownKeeps ==
    ASSUME BrokerInv, Shutdown
    PROVE  BrokerInv' /\ Guarantee
  <1>1. \A b \in Binds : Bounded(bd[b])
    BY TypeRecords DEF BrokerInv, RecordsOK
  <1>2. \A b \in Binds : bd'[b] =
           IF bd[b].thread \in Threads /\ bound[bd[b].thread] = b THEN Revoked(bd[b]) ELSE bd[b]
    BY DEF Shutdown
  <1>3. \A b \in Binds : /\ Moves(bd[b], bd'[b])
                         /\ bd[b].thread \in Threads => bd'[b].revoked
    BY <1>1, <1>2, RevokedMoves DEF Moves, BrokerInv, Routed
  <1>4. RecordsOK'
    <2>1. bd' = [b \in Binds |-> bd'[b]]
      BY DEF Shutdown
    <2>. QED BY <1>3, <2>1 DEF RecordsOK, Moves, Bounded
  <1>5. BrokerTypeOK'
    BY <1>4 DEF BrokerInv, BrokerTypeOK, Shutdown, RecordsOK, Bounded
  <1>6. Routed'
    BY <1>3 DEF BrokerInv, Shutdown, Routed, Moves, Binds
  <1>7. Connected' /\ Sent' /\ Refusals' /\ ToldEarly' /\ SupervisorIsTold'
    BY DEF BrokerInv, Shutdown, Connected, Sent, Refusals, ToldEarly, SupervisorIsTold
  <1>8. Guarantee
    <2>1. 1 .. bindEpoch \subseteq Binds
      BY BrokerAssumption DEF BrokerInv, BrokerTypeOK, Binds
    <2>2. \A b \in 1 .. bindEpoch :
             /\ bd'[b].thread = bd[b].thread /\ (bd[b].revoked => bd'[b].revoked)
             /\ bd'[b].barrier = bd[b].barrier
      BY <1>3, <2>1 DEF Moves
    <2>3. UNCHANGED <<op, transfer>>
      BY DEF Shutdown
    <2>. QED BY <2>2, <2>3 DEF Guarantee, Drains, Busy
  <1>. QED BY <1>5, <1>6, <1>7, <1>8 DEF BrokerInv

-----------------------------------------------------------------------------
(* Barriers in flight. *)

(* A barrier comes further, or the consumer reads: a record changes that    *)
(* keeps its thread and stage.                                             *)
LEMMA BarrierMoves ==
    ASSUME BrokerInv, NEW b \in Binds, NEW rec, Bounded(rec), bd' = [bd EXCEPT ![b] = rec],
           rec.barrier # "none" => bd[b].barrier # "none",
           rec.thread = bd[b].thread, rec.revoked = bd[b].revoked, rec.stage = bd[b].stage,
           UNCHANGED <<conn, connEpoch, sup, closing, peer, bindEpoch, wake, link, bound, notifs,
                       emitted, oversize, op, transfer>>,
           sub' \subseteq Threads
    PROVE  BrokerInv' /\ Guarantee
  <1>1. bd'[b] = rec /\ \A x \in Binds \ {b} : bd'[x] = bd[x]
    BY DEF BrokerInv, BrokerTypeOK
  <1>2. RecordsOK'
    <2>1. bd' \in [Binds -> Binding]
      BY DEF Bounded, BrokerInv, BrokerTypeOK
    <2>2. \A x \in Binds : Bounded(bd[x])
      BY TypeRecords DEF BrokerInv, RecordsOK
    <2>. QED BY <1>1, <2>1, <2>2 DEF RecordsOK, Bounded
  <1>3. BrokerTypeOK'
    BY <1>2 DEF BrokerInv, BrokerTypeOK, RecordsOK, Bounded
  <1>4. \A x \in Binds : bd'[x].thread = bd[x].thread /\ bd'[x].revoked = bd[x].revoked
                         /\ bd'[x].stage = bd[x].stage
    BY <1>1
  <1>5. Routed' /\ Connected' /\ Sent' /\ Refusals'
    BY <1>1, <1>4 DEF BrokerInv, Routed, Connected, Sent, Refusals
  <1>6. Wanted' = Wanted /\ Eligible(conn)' = Eligible(conn)
    BY <1>4 DEF Wanted, Transferring, Eligible, NativeAllowed
  <1>7. ToldEarly' /\ SupervisorIsTold'
    BY <1>6 DEF BrokerInv, ToldEarly, SupervisorIsTold
  <1>8. Guarantee
    <2>1. 1 .. bindEpoch \subseteq Binds
      BY BrokerAssumption DEF BrokerInv, BrokerTypeOK, Binds
    <2>. QED BY <1>1, <1>4, <2>1 DEF Guarantee, Drains, Busy
  <1>. QED BY <1>3, <1>5, <1>7, <1>8 DEF BrokerInv

(* BootstrapThread's resume subscribes the connection. *)
LEMMA ResumedKeeps ==
    ASSUME BrokerInv, NEW b \in Binds, Resumed(b)
    PROVE  BrokerInv' /\ Guarantee
  <1>. DEFINE rec == [bd[b] EXCEPT !.barrier = "read"]
  <1>1. Bounded(bd[b]) /\ bd \in [Binds -> Binding]
    BY TypeRecords DEF BrokerInv, RecordsOK
  <1>2. /\ Bounded(rec) /\ rec.thread = bd[b].thread /\ rec.revoked = bd[b].revoked
        /\ rec.stage = bd[b].stage
    BY <1>1 DEF Bounded, Binding
  <1>3. bd' = [bd EXCEPT ![b] = rec] /\ bd[b].barrier # "none"
    BY <1>1 DEF Resumed
  <1>4. sub' \subseteq Threads
    <2>1. bd[b].thread \in Threads
      BY <1>3 DEF BrokerInv, Routed
    <2>2. sub' = sub \cup {bd[b].thread} /\ sub \subseteq Threads
      BY DEF Resumed, BrokerInv, BrokerTypeOK
    <2>. QED BY <2>1, <2>2
  <1>. HIDE DEF rec
  <1>. QED BY <1>2, <1>3, <1>4, BarrierMoves DEF Resumed, supVars

(* BootstrapThread's read takes the snapshot. *)
LEMMA SnapshotKeeps ==
    ASSUME BrokerInv, NEW b \in Binds, Snapshot(b)
    PROVE  BrokerInv' /\ Guarantee
  <1>. DEFINE rec == [bd[b] EXCEPT !.barrier = "answered", !.snap = emitted[bd[b].thread]]
  <1>1. Bounded(bd[b]) /\ bd \in [Binds -> Binding]
    BY TypeRecords DEF BrokerInv, RecordsOK
  <1>2. emitted[bd[b].thread] \in Versions
    <2>1. bd[b].thread \in Threads
      BY DEF BrokerInv, Routed, Snapshot
    <2>. QED BY <2>1 DEF BrokerInv, BrokerTypeOK
  <1>3. /\ Bounded(rec) /\ rec.thread = bd[b].thread /\ rec.revoked = bd[b].revoked
        /\ rec.stage = bd[b].stage
    BY <1>1, <1>2 DEF Bounded, Binding
  <1>4. bd' = [bd EXCEPT ![b] = rec] /\ bd[b].barrier # "none"
    BY <1>1 DEF Snapshot
  <1>. HIDE DEF rec
  <1>. QED BY <1>3, <1>4, BarrierMoves DEF Snapshot, supVars, BrokerInv, BrokerTypeOK

-----------------------------------------------------------------------------
(* The endpoint, and the broker's end. *)

(* Broker.Close only says that the broker is closing. *)
LEMMA CloseBrokerKeeps ==
    ASSUME BrokerInv, CloseBroker
    PROVE  BrokerInv' /\ Guarantee
  <1>1. BrokerTypeOK' /\ Routed' /\ Connected' /\ Sent' /\ Refusals'
    BY DEF BrokerInv, CloseBroker, BrokerTypeOK, Routed, Connected, Sent, Refusals
  <1>2. ToldEarly' /\ SupervisorIsTold'
    BY DEF CloseBroker, ToldEarly, SupervisorIsTold
  <1>3. Guarantee
    BY QuietGuarantee DEF CloseBroker
  <1>. QED BY <1>1, <1>2, <1>3 DEF BrokerInv

(* The client of a connection fails once, and stays failed. *)
LEMMA LinkMoves ==
    ASSUME BrokerInv, link' \in [Conns -> {"up", "disconnected", "protocol"}],
           \A c \in Conns : link[c] # "up" => link'[c] = link[c],
           notifs' \in Seq([thread : Threads, v : Versions]), Len(notifs') <= EventLimit,
           emitted' \in [Threads -> Versions], oversize' \in [Threads -> SUBSET Versions],
           UNCHANGED <<conn, connEpoch, sup, closing, peer, bindEpoch, wake, bound, bd, sub, op,
                       transfer>>
    PROVE  BrokerInv' /\ Guarantee
  <1>1. BrokerTypeOK' /\ Routed' /\ Connected' /\ Sent'
    BY DEF BrokerInv, BrokerTypeOK, Routed, Connected, Sent
  <1>2. Refusals'
    BY DEF BrokerInv, Sent, Refusals
  <1>3. Wanted' = Wanted /\ Eligible(conn)' = Eligible(conn)
    BY DEF Wanted, Transferring, Eligible, NativeAllowed
  <1>4. conn # 0 => conn \in Conns
    BY DEF BrokerInv, BrokerTypeOK
  <1>5. ToldEarly' /\ SupervisorIsTold'
    BY <1>3, <1>4 DEF BrokerInv, ToldEarly, SupervisorIsTold, Connected
  <1>6. Guarantee
    BY QuietGuarantee
  <1>. QED BY <1>1, <1>2, <1>5, <1>6 DEF BrokerInv

(* The client of the latest connection fails. *)
LEMMA LinkFailsKeeps ==
    ASSUME BrokerInv, LinkFails
    PROVE  BrokerInv' /\ Guarantee
  <1>1. PICK err \in {"disconnected", "protocol"} : link' = [link EXCEPT ![connEpoch] = err]
    BY DEF LinkFails
  <1>2. link[connEpoch] = "up" /\ connEpoch # 0
    BY DEF LinkFails, Upstream
  <1>3. /\ link' \in [Conns -> {"up", "disconnected", "protocol"}]
        /\ \A c \in Conns : link[c] # "up" => link'[c] = link[c]
    BY <1>1, <1>2 DEF BrokerInv, BrokerTypeOK
  <1>4. /\ notifs' \in Seq([thread : Threads, v : Versions]) /\ Len(notifs') <= EventLimit
        /\ emitted' \in [Threads -> Versions] /\ oversize' \in [Threads -> SUBSET Versions]
    BY DEF BrokerInv, BrokerTypeOK, LinkFails
  <1>. QED BY <1>3, <1>4, LinkMoves DEF LinkFails, supVars

(* A thread moves on; a full notification channel fails the client. *)
LEMMA ThreadEventKeeps ==
    ASSUME BrokerInv, NEW t \in Threads, ThreadEvent(t)
    PROVE  BrokerInv' /\ Guarantee
  <1>. DEFINE N == [thread : Threads, v : Versions]
              n == [thread |-> t, v |-> emitted[t] + 1]
  <1>1. emitted[t] + 1 \in Versions
    BY BrokerAssumption DEF BrokerInv, BrokerTypeOK, ThreadEvent, Versions
  <1>2. emitted' \in [Threads -> Versions] /\ oversize' \in [Threads -> SUBSET Versions]
    BY <1>1 DEF BrokerInv, BrokerTypeOK, ThreadEvent
  <1>3. /\ link' \in [Conns -> {"up", "disconnected", "protocol"}]
        /\ \A c \in Conns : link[c] # "up" => link'[c] = link[c]
    BY DEF BrokerInv, BrokerTypeOK, ThreadEvent, Upstream
  <1>4. notifs' \in Seq(N) /\ Len(notifs') <= EventLimit
    <2>1. notifs \in Seq(N) /\ Len(notifs) \in Nat /\ Len(notifs) <= EventLimit /\ n \in N
      BY <1>1 DEF BrokerInv, BrokerTypeOK
    <2>2. Append(notifs, n) \in Seq(N) /\ Len(Append(notifs, n)) = Len(notifs) + 1
      BY <2>1, AppendProperties
    <2>3. notifs' = notifs \/ (Len(notifs) < EventLimit /\ notifs' = Append(notifs, n))
      BY DEF ThreadEvent
    <2>. HIDE DEF N, n
    <2>. QED BY <2>1, <2>2, <2>3, BrokerAssumption
  <1>. QED BY <1>2, <1>3, <1>4, LinkMoves DEF ThreadEvent, supVars

-----------------------------------------------------------------------------
(* Requests. *)

(* A request moves on: nothing but requests and drains changes. *)
LEMMA OpMoves ==
    ASSUME BrokerInv, NEW o \in Ops, NEW rec \in Op, op' = [op EXCEPT ![o] = rec],
           rec.outcome # "none" => rec.bind \in 1 .. bindEpoch /\ rec.conn \in Conns,
           rec.outcome = "refused" /\ rec.fate # "rejected" => link[rec.conn] = "protocol",
           rec.outcome = "sent" =>
              /\ ~bd[rec.bind].revoked \/ (op[o].outcome = "sent" /\ op[o].bind = rec.bind)
              /\ ~Transferring(bd[rec.bind].thread)
                    \/ (op[o].outcome = "sent" /\ op[o].bind = rec.bind),
           \A t \in Threads : Drains(t),
           transfer' \in [Threads -> Transfer \cup {NoTransfer}],
           UNCHANGED <<conn, connEpoch, sup, closing, peer, bindEpoch, wake, link, bound, bd,
                       notifs, emitted, oversize, sub>>
    PROVE  BrokerInv' /\ Guarantee
  <1>1. op' \in [Ops -> Op] /\ op'[o] = rec /\ \A x \in Ops \ {o} : op'[x] = op[x]
    BY DEF BrokerInv, BrokerTypeOK
  <1>2. BrokerTypeOK' /\ Routed' /\ Connected'
    BY <1>1 DEF BrokerInv, BrokerTypeOK, Routed, Connected
  <1>3. Sent' /\ Refusals'
    BY <1>1 DEF BrokerInv, Sent, Refusals
  <1>4. \A t \in Threads :
           /\ Transferring(t)' <=> Transferring(t)
           /\ Transferring(t) =>
                /\ transfer'[t].native = transfer[t].native
                /\ transfer'[t].orphaned = transfer[t].orphaned
                /\ transfer'[t].conn = transfer[t].conn
                /\ transfer'[t].target = transfer[t].target
    BY DrainsKeeps DEF BrokerInv
  <1>5. Wanted' <=> Wanted
    BY <1>4 DEF Wanted
  <1>6. Eligible(conn)' = Eligible(conn)
    BY <1>4 DEF Eligible, NativeAllowed, Transferring
  <1>7. ToldEarly' /\ SupervisorIsTold'
    BY <1>5, <1>6 DEF BrokerInv, ToldEarly, SupervisorIsTold
  <1>8. Guarantee
    BY <1>1 DEF Guarantee, Busy
  <1>. QED BY <1>2, <1>3, <1>7, <1>8 DEF BrokerInv

(* Submit admits a request only of a binding with authority, and none of a  *)
(* thread in transfer.                                                      *)
LEMMA SubmitKeeps ==
    ASSUME BrokerInv, NEW o \in Ops, NEW b \in Binds, Submit(o, b)
    PROVE  BrokerInv' /\ Guarantee
  <1>. DEFINE rec == [bind |-> b, conn |-> conn, fate |-> "unknown", outcome |-> "sent"]
  <1>1. /\ conn \in Conns /\ ~bd[b].revoked /\ ~Transferring(bd[b].thread)
        /\ bd[b].thread \in Threads
    BY DEF Submit, Authority, BrokerInv, BrokerTypeOK
  <1>2. b \in 1 .. bindEpoch
    BY <1>1, BrokerAssumption DEF BrokerInv, Routed, BrokerTypeOK, Binds
  <1>3. rec \in Op
    BY <1>1 DEF Op, Fates, Outcomes
  <1>4. transfer' = transfer /\ transfer \in [Threads -> Transfer \cup {NoTransfer}]
    BY DEF Submit, BrokerInv, BrokerTypeOK
  <1>. QED BY <1>1, <1>2, <1>3, <1>4, OpMoves DEF Submit, supVars, Drains

(* The endpoint acts on a request late: one reported as refused by then     *)
(* lost its answer to a client that failed over a frame.                   *)
LEMMA TakesKeeps ==
    ASSUME BrokerInv, NEW o \in Ops, Takes(o)
    PROVE  BrokerInv' /\ Guarantee
  <1>. DEFINE rec == [op[o] EXCEPT !.fate = "took"]
  <1>1. op[o] \in Op /\ op \in [Ops -> Op]
    BY DEF BrokerInv, BrokerTypeOK
  <1>2. /\ rec \in Op /\ rec.outcome = op[o].outcome /\ rec.bind = op[o].bind
        /\ rec.conn = op[o].conn /\ rec.fate = "took"
    BY <1>1 DEF Op, Fates
  <1>3. op' = [op EXCEPT ![o] = rec] /\ op[o].outcome # "none" /\ op[o].fate = "unknown"
    BY <1>1 DEF Takes
  <1>4. /\ op[o].bind \in 1 .. bindEpoch /\ op[o].conn \in Conns
        /\ op[o].outcome = "refused" => link[op[o].conn] = "protocol"
    BY <1>3 DEF BrokerInv, Sent, Refusals
  <1>5. /\ transfer' \in [Threads -> Transfer \cup {NoTransfer}]
        /\ \A t \in Threads : Drains(t)
    BY DEF Takes, BrokerInv, BrokerTypeOK, Drains
  <1>6. /\ rec.outcome # "none" => rec.bind \in 1 .. bindEpoch /\ rec.conn \in Conns
        /\ rec.outcome = "refused" /\ rec.fate # "rejected" => link[rec.conn] = "protocol"
        /\ rec.outcome = "sent" => op[o].outcome = "sent" /\ op[o].bind = rec.bind
    BY <1>2, <1>4
  <1>. HIDE DEF rec
  <1>. QED BY <1>2, <1>3, <1>5, <1>6, OpMoves DEF Takes, supVars

(* An answer, or its loss: a refusal that is not the endpoint's own comes   *)
(* from a client that failed over a frame (classify).                      *)
LEMMA FinishKeeps ==
    ASSUME BrokerInv, NEW o \in Ops, op[o].outcome = "sent",
           NEW fate \in Fates, NEW outcome \in Outcomes \ {"none", "sent"},
           outcome = "refused" /\ fate # "rejected" => link[op[o].conn] = "protocol",
           Finish(o, fate, outcome)
    PROVE  BrokerInv' /\ Guarantee
  <1>. DEFINE rec == [op[o] EXCEPT !.fate = fate, !.outcome = outcome]
  <1>1. op[o] \in Op /\ op \in [Ops -> Op]
    BY DEF BrokerInv, BrokerTypeOK
  <1>2. /\ rec \in Op /\ rec.outcome = outcome /\ rec.bind = op[o].bind
        /\ rec.conn = op[o].conn /\ rec.fate = fate
    BY <1>1 DEF Op
  <1>3. op' = [op EXCEPT ![o] = rec]
    BY <1>1 DEF Finish
  <1>4. op[o].bind \in 1 .. bindEpoch /\ op[o].conn \in Conns
    BY DEF BrokerInv, Sent
  <1>5. op[o].bind \in Binds
    BY <1>4, BrokerAssumption DEF BrokerInv, BrokerTypeOK, Binds
  <1>6. /\ transfer' \in [Threads -> Transfer \cup {NoTransfer}]
        /\ \A t \in Threads : Drains(t)
    BY <1>5, AdmittedDrains DEF BrokerInv, Finish
  <1>. HIDE DEF rec
  <1>. QED BY <1>2, <1>3, <1>4, <1>6, OpMoves DEF Finish, supVars

(* A request is answered, or its answer is lost (classify). *)
LEMMA AnswerKeeps ==
    ASSUME BrokerInv, NEW o \in Ops, Applied(o) \/ Rejected(o) \/ Lost(o)
    PROVE  BrokerInv' /\ Guarantee
  <1>1. op[o] \in Op /\ op[o].conn \in Conns /\ op[o].outcome = "sent"
    BY DEF BrokerInv, BrokerTypeOK, Sent, Applied, Rejected, Lost
  <1>2. CASE Applied(o)
    BY <1>1, <1>2, FinishKeeps DEF Applied, Fates, Outcomes
  <1>3. CASE Rejected(o)
    <2>1. Classify(op[o].conn, "rejected") \in Outcomes \ {"none", "sent"}
      BY DEF Classify, Outcomes
    <2>. QED BY <1>1, <1>3, <2>1, FinishKeeps DEF Rejected, Fates
  <1>4. CASE Lost(o)
    <2>. DEFINE err == IF link[op[o].conn] = "up" THEN "too large" ELSE link[op[o].conn]
                outcome == Classify(op[o].conn, err)
    <2>1. outcome \in Outcomes \ {"none", "sent"}
      BY DEF Classify, Outcomes
    <2>2. outcome = "refused" => link[op[o].conn] = "protocol"
      BY <1>1 DEF Classify, BrokerInv, BrokerTypeOK
    <2>3. op[o].fate \in Fates
      BY <1>1 DEF Op
    <2>4. Finish(o, op[o].fate, outcome)
      BY <1>4 DEF Lost
    <2>. HIDE DEF outcome
    <2>. QED BY <1>1, <2>1, <2>2, <2>3, <2>4, FinishKeeps
  <1>. QED BY <1>2, <1>3, <1>4

-----------------------------------------------------------------------------
(* A binding is made for a thread that has none: its epoch is new, and the  *)
(* supervisor is told of it.  Bind and the hand-off to the new owner both   *)
(* do this.                                                                *)
LEMMA AttachKeeps ==
    ASSUME BrokerInv, NEW t \in Threads, Attach(t),
           transfer' \in [Threads -> Transfer \cup {NoTransfer}]
    PROVE  /\ BrokerInv'
           /\ bindEpoch' = bindEpoch + 1 /\ bindEpoch' \in Binds
           /\ bd'[bindEpoch'] = Fresh(t)
           /\ \A b \in 1 .. bindEpoch : bd'[b] = bd[b]
  <1>. DEFINE n == bindEpoch + 1
  <1>1. n \in Binds /\ bindEpoch \in Nat /\ n = bindEpoch + 1 /\ 0 \notin Binds
        /\ Binds \subseteq Nat
    BY BrokerAssumption DEF BrokerInv, BrokerTypeOK, Attach, Binds
  <1>2. bd \in [Binds -> Binding] /\ bd' = [bd EXCEPT ![n] = Fresh(t)] /\ bindEpoch' = n
    BY DEF BrokerInv, BrokerTypeOK, Attach
  <1>3. bound \in [Threads -> {0} \cup Binds] /\ bound' = [bound EXCEPT ![t] = n] /\ bound[t] = 0
    BY DEF BrokerInv, BrokerTypeOK, Attach
  <1>. HIDE DEF n
  <1>4. bd'[n] = Fresh(t) /\ \A b \in Binds \ {n} : bd'[b] = bd[b]
    BY <1>1, <1>2
  <1>5. bound'[t] = n /\ \A u \in Threads \ {t} : bound'[u] = bound[u]
    BY <1>3
  <1>6. Bounded(Fresh(t)) /\ Fresh(t).thread = t /\ ~Fresh(t).revoked /\ Fresh(t).barrier = "none"
    <2>1. Fresh(t) \in Binding
      BY EmptyBuffer, NoVersion, EmptySeq DEF Fresh, Binding
    <2>. QED BY <2>1, EmptyBuffer DEF Bounded, Fresh
  <1>7. RecordsOK'
    <2>1. bd' \in [Binds -> Binding]
      BY <1>1, <1>2, <1>6 DEF Bounded
    <2>2. \A x \in Binds : Bounded(bd[x])
      BY TypeRecords DEF BrokerInv, RecordsOK
    <2>. QED BY <1>4, <1>6, <2>1, <2>2 DEF RecordsOK, Bounded
  <1>8. BrokerTypeOK'
    <2>1. bound' \in [Threads -> {0} \cup Binds] /\ bindEpoch' \in {0} \cup Binds
      BY <1>1, <1>2, <1>3
    <2>. QED BY <1>7, <2>1 DEF BrokerInv, BrokerTypeOK, Attach, supVars, RecordsOK, Bounded
  <1>9. Routed'
    <2>. SUFFICES ASSUME NEW x \in Binds
                  PROVE  /\ bd'[x].thread \in Threads <=> x <= n
                         /\ bd'[x].barrier # "none" => x <= n
                         /\ \A u \in Threads : bound'[u] = x <=> bd'[x].thread = u /\ ~bd'[x].revoked
      BY <1>2 DEF Routed
    <2>1. /\ bd[x].thread \in Threads <=> x <= bindEpoch
          /\ bd[x].barrier # "none" => x <= bindEpoch
          /\ \A u \in Threads : bound[u] = x <=> bd[x].thread = u /\ ~bd[x].revoked
      BY DEF BrokerInv, Routed
    <2>2. CASE x = n
      <3>1. x <= n /\ ~(x <= bindEpoch)
        BY <1>1, <2>2
      <3>2. \A u \in Threads : bound[u] # x
        BY <2>1, <3>1
      <3>. QED BY <1>4, <1>5, <1>6, <2>2, <3>1, <3>2
    <2>3. CASE x # n
      <3>1. x <= n <=> x <= bindEpoch
        BY <1>1, <2>3
      <3>2. bound[t] # x
        BY <1>1, <1>3
      <3>. QED BY <1>4, <1>5, <2>1, <2>3, <3>1, <3>2
    <2>. QED BY <2>2, <2>3
  <1>10. Connected' /\ Refusals' /\ ToldEarly' /\ SupervisorIsTold'
    BY DEF BrokerInv, Attach, supVars, Connected, Refusals, ToldEarly, SupervisorIsTold
  <1>11. Sent'
    BY <1>1, <1>2 DEF BrokerInv, Attach, Sent
  <1>12. \A b \in 1 .. bindEpoch : bd'[b] = bd[b]
    <2>1. \A b \in 1 .. bindEpoch : b \in Binds \ {n}
      BY <1>1, BrokerAssumption DEF Binds
    <2>. QED BY <1>4, <2>1
  <1>. QED BY <1>1, <1>2, <1>4, <1>8, <1>9, <1>10, <1>11, <1>12 DEF BrokerInv

(* Every step of the broker keeps the invariant and its promise. *)
LEMMA BrokerStepKeeps ==
    ASSUME BrokerInv, BrokerStep
    PROVE  BrokerInv' /\ Guarantee
  <1>1. CASE CloseBroker
    BY <1>1, CloseBrokerKeeps
  <1>2. CASE SupervisorStep
    BY <1>2, SleepKeeps, StartOpenKeeps, OpenFailsKeeps, OpenKeeps, RouteKeeps, WakesKeeps,
       RevokeKeeps, CloseEndpointKeeps, RetiredKeeps, ShutdownKeeps DEF SupervisorStep
  <1>3. CASE \E b \in Binds : BarrierStep(b)
    BY <1>3, ResumedKeeps, SnapshotKeeps, BarrierEndsKeeps DEF BarrierStep
  <1>4. CASE EndpointStep
    BY <1>4, LinkFailsKeeps, ThreadEventKeeps DEF EndpointStep
  <1>5. CASE \E o \in Ops : OpStep(o)
    BY <1>5, SubmitKeeps, TakesKeeps, AnswerKeeps DEF OpStep
  <1>. QED BY <1>1, <1>2, <1>3, <1>4, <1>5 DEF BrokerStep

(* The broker starts within its invariant. *)
LEMMA BrokerInitOK == BrokerInit => BrokerInv
  <1>. SUFFICES ASSUME BrokerInit PROVE BrokerInv
    OBVIOUS
  <1>1. Bounded(Fresh(NoThread)) /\ Fresh(NoThread).thread = "none"
        /\ Fresh(NoThread).barrier = "none"
    <2>1. Fresh(NoThread) \in Binding
      BY EmptyBuffer, NoVersion, EmptySeq DEF Fresh, Binding
    <2>. QED BY <2>1, EmptyBuffer DEF Bounded, Fresh, NoThread
  <1>2. RecordsOK
    BY <1>1 DEF BrokerInit, RecordsOK, Bounded
  <1>3. op \in [Ops -> Op] /\ \A o \in Ops : op[o].outcome = "none"
    BY DEF BrokerInit, Op, Fates, Outcomes
  <1>4. notifs \in Seq([thread : Threads, v : Versions]) /\ Len(notifs) <= EventLimit
    BY BrokerAssumption, EmptySeq DEF BrokerInit
  <1>5. BrokerTypeOK
    BY <1>2, <1>3, <1>4, NoVersion DEF BrokerInit, BrokerTypeOK, RecordsOK, Bounded
  <1>6. Routed
    BY <1>1, BrokerAssumption DEF BrokerInit, Routed, Binds
  <1>7. Connected /\ Sent /\ Refusals /\ ToldEarly /\ SupervisorIsTold
    BY <1>3 DEF BrokerInit, Connected, Sent, Refusals, ToldEarly, SupervisorIsTold
  <1>. QED BY <1>5, <1>6, <1>7 DEF BrokerInv
=============================================================================
