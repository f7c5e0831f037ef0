-------------------------- MODULE BrokerStreamProofs --------------------------
(***************************************************************************)
(* The stream from a thread to its client has no gap but the events that   *)
(* are over the frame bound, whichever they are, for every number of        *)
(* threads, connections and bindings and every size of queues and channels.*)
(* The invariant follows an event from the notification channel through    *)
(* the buffer or the queue of its binding and over the wire: Pipeline is   *)
(* the broker's part of that way, Gapless and Granted the client's.        *)
(***************************************************************************)
EXTENDS BrokerStream, CodexBrokerProofs

-----------------------------------------------------------------------------
(* What the broker has of a thread. *)

(* Entry i of the notification channel is the first one of t behind n. *)
NextOf(t, n, i) ==
    /\ i \in n + 1 .. Len(notifs) /\ notifs[i].thread = t
    /\ \A j \in n + 1 .. i - 1 : notifs[j].thread # t

(* Whoever has version v of t and is handed what is behind entry n of the   *)
(* channel misses nothing but what is dropped for its size: only such       *)
(* events are between v and the next entry of t, and, if there is none and  *)
(* the client is up, between v and the current version.                     *)
ReachFrom(t, n, v) ==
    /\ \A i \in 1 .. Len(notifs) : NextOf(t, n, i) => Covers(oversize[t], v, notifs[i].v - 1)
    /\ Upstream /\ (\A i \in n + 1 .. Len(notifs) : notifs[i].thread # t) =>
          Covers(oversize[t], v, emitted[t])
Reach(t, v) == ReachFrom(t, 0, v)

(* The channel has no gap, and holds nothing but what was subscribed to. *)
Channel ==
    /\ conn = 0 => notifs = <<>>
    /\ \A i \in 1 .. Len(notifs) :
          /\ notifs[i].thread \in sub
          /\ notifs[i].v <= emitted[notifs[i].thread]
          /\ ReachFrom(notifs[i].thread, i, notifs[i].v)

(* A live event that goes on from version v of connection c, with only      *)
(* events of lost between the two.                                          *)
Follows(lost, e, v, c) == e.conn = c /\ Covers(lost, v, e.v - 1)

(* Stage, barrier and buffer of a binding agree.  A buffer outlives its     *)
(* barrier only where no barrier of the connection can end well any more.   *)
Staged(rec) ==
    /\ rec.stage # "idle" => ~rec.revoked /\ conn # 0 /\ rec.conn = conn
    /\ rec.stage # "buffering" /\ rec.buf # <<>> => ~rec.revoked /\ conn # 0 /\ rec.stage = "idle"
                                                     /\ (~Upstream \/ closing)
    /\ sup \in {"idle", "opening", "exited"} => rec.barrier = "none"
    /\ conn # 0 /\ ~rec.revoked => (rec.barrier # "none" <=> rec.stage = "buffering")

(* A barrier that can still end well. *)
Sound(rec) == rec.stage = "buffering" /\ (Upstream \/ rec.barrier \in {"read", "answered"})

(* What is buffered goes on from the snapshot, and the channel from there. *)
Buffered(rec) ==
    Sound(rec) =>
        /\ rec.barrier # "resume" \/ rec.buf # <<>> => rec.thread \in sub
        /\ \A i \in 1 .. Len(rec.buf) : rec.buf[i] <= emitted[rec.thread]
        /\ \A i \in 2 .. Len(rec.buf) : Covers(oversize[rec.thread], rec.buf[i - 1], rec.buf[i] - 1)
        /\ rec.buf # <<>> => Reach(rec.thread, rec.buf[Len(rec.buf)])
        /\ rec.barrier = "answered" =>
              IF rec.buf = <<>> THEN Reach(rec.thread, rec.snap)
              ELSE Covers(oversize[rec.thread], rec.snap, rec.buf[1] - 1)

(* A queue has no gap, and the channel goes on from its last event. *)
Queued(rec) ==
    /\ \A i \in 2 .. Len(rec.queue) :
          ~rec.queue[i].snap => 
              Follows(oversize[rec.thread], rec.queue[i], rec.queue[i - 1].v, rec.queue[i - 1].conn)
    /\ rec.stage = "open" => rec.thread \in sub
    /\ rec.stage = "open" /\ rec.queue # <<>> =>
          LET last == rec.queue[Len(rec.queue)]
          IN  last.conn = conn /\ Reach(rec.thread, last.v)

(* The binding's part of the way. *)
Piped(b) == Staged(bd[b]) /\ Buffered(bd[b]) /\ Queued(bd[b])

Pipeline == Channel /\ \A b \in 1 .. bindEpoch : Piped(b)

-----------------------------------------------------------------------------
(* What is on its way to the client. *)

EventOf(b, i) == wire[i].bind = b /\ wire[i].kind = "event"

(* A client of binding b that has taken the first n frames knows version v  *)
(* of connection c.                                                         *)
Knows(t, n, v, c) ==
    LET b == remote[t].of
    IN  \/ \E i \in 1 .. n : /\ EventOf(b, i) /\ wire[i].event.v = v /\ wire[i].event.conn = c
                             /\ \A j \in i + 1 .. n : ~EventOf(b, j)
        \/ /\ \A j \in 1 .. n : ~EventOf(b, j)
           /\ v = remote[t].v /\ c = remote[t].conn

(* Frames and remote bindings name bindings that were made for their thread. *)
Named ==
    /\ \A t \in Threads :
          LET r == remote[t]
          IN  /\ r.of # 0 => r.of \in 1 .. bindEpoch /\ bd[r.of].thread = t
              /\ r.open => r.registered /\ ~r.revoked /\ (r.mixed \/ r.of # 0)
    /\ \A i \in 1 .. Len(wire) :
          wire[i].bind \in 1 .. bindEpoch /\ bd[wire[i].bind].thread = wire[i].thread
    /\ \A b \in Binds : pump[b] = "running" => b <= bindEpoch

Clean(r) == r.registered /\ ~r.revoked /\ ~r.mixed /\ r.of # 0

(* Wire, queue and channel go on from what the client knows. *)
Gapless(t) ==
    LET b == remote[t].of
    IN  /\ \A n \in 1 .. Len(wire) :
              EventOf(b, n) /\ ~wire[n].event.snap =>
                  \A v \in Versions, c \in {0} \cup Conns : Knows(t, n - 1, v, c) =>
                      Follows(oversize[t], wire[n].event, v, c)
        /\ bd[b].queue # <<>> /\ ~bd[b].queue[1].snap =>
              \A v \in Versions, c \in {0} \cup Conns : Knows(t, Len(wire), v, c) =>
                      Follows(oversize[t], bd[b].queue[1], v, c)
        /\ bd[b].stage = "open" /\ bd[b].queue = <<>> =>
              \A v \in Versions, c \in {0} \cup Conns : Knows(t, Len(wire), v, c) => c = conn /\ Reach(t, v)

SuspendOf(b, i) == wire[i].bind = b /\ wire[i].kind = "suspended"

(* Authority the broker grants is on its way: its snapshot is queued, or it *)
(* is behind every suspension.                                             *)
Granted(t) ==
    LET b == remote[t].of
    IN  bd[b].stage = "open" =>
           \/ \E i \in 1 .. Len(bd[b].queue) : bd[b].queue[i].snap
           \/ /\ ~bd[b].suspends
              /\ \/ \E i \in 1 .. Len(wire) : /\ EventOf(b, i) /\ wire[i].event.snap
                                              /\ \A j \in i + 1 .. Len(wire) : ~SuspendOf(b, j)
                 \/ remote[t].open /\ \A j \in 1 .. Len(wire) : ~SuspendOf(b, j)

StreamInv ==
    /\ TypeOK /\ BrokerInv /\ Pipeline /\ Named
    /\ \A t \in Threads : Clean(remote[t]) => Gapless(t) /\ Granted(t)

-----------------------------------------------------------------------------
(* The notification channel. *)

Notifications == [thread : Threads, v : Versions]

(* The numbers and sequences of a state that has its types. *)
LEMMA Numbers ==
    ASSUME BrokerTypeOK
    PROVE  /\ notifs \in Seq(Notifications) /\ Len(notifs) \in Nat
           /\ \A i \in 1 .. Len(notifs) : notifs[i].thread \in Threads /\ notifs[i].v \in Nat
           /\ \A i \in 1 .. Len(notifs) : notifs[i].v \in Versions
           /\ \A t \in Threads : emitted[t] \in Nat
           /\ Versions \subseteq Nat /\ bindEpoch \in Nat /\ connEpoch \in Nat
           /\ 1 .. bindEpoch \subseteq Binds
  <1>1. Versions \subseteq Nat
    BY BrokerAssumption DEF Versions
  <1>2. notifs \in Seq(Notifications) /\ Len(notifs) \in Nat
    BY DEF BrokerTypeOK, Notifications
  <1>3. \A i \in 1 .. Len(notifs) : notifs[i] \in Notifications
    BY <1>2, ElementOfSeq
  <1>4. \A t \in Threads : emitted[t] \in Nat
    BY <1>1 DEF BrokerTypeOK
  <1>5. bindEpoch \in Nat /\ connEpoch \in Nat /\ 1 .. bindEpoch \subseteq Binds
    BY BrokerAssumption DEF BrokerTypeOK, Binds, Conns
  <1>6. \A i \in 1 .. Len(notifs) : notifs[i].thread \in Threads /\ notifs[i].v \in Versions
    BY <1>3 DEF Notifications
  <1>. QED BY <1>1, <1>2, <1>4, <1>5, <1>6

(* One more event is dropped. *)
LEMMA OneMoreLost ==
    ASSUME NEW lost, NEW v \in Nat, NEW w \in Int, Covers(lost, v, w), w + 1 \in lost
    PROVE  Covers(lost, v, w + 1)
  BY DEF Covers

(* A channel nobody wrote to or read from, and a client that did not come   *)
(* back.                                                                    *)
LEMMA ReachKept ==
    ASSUME notifs' = notifs, emitted' = emitted, oversize' = oversize, Upstream' => Upstream
    PROVE  \A t \in Threads, n \in Nat, v \in Versions : ReachFrom(t, n, v) => ReachFrom(t, n, v)'
  BY DEF ReachFrom, NextOf

(* The first entry is read: what is reached behind it is reached now, and   *)
(* other threads do not notice.                                            *)
LEMMA ReachTail ==
    ASSUME BrokerTypeOK, notifs # <<>>, notifs' = Tail(notifs), emitted' = emitted, oversize' = oversize,
           Upstream' => Upstream
    PROVE  /\ Len(notifs') = Len(notifs) - 1
           /\ \A i \in 1 .. Len(notifs') : notifs'[i] = notifs[i + 1]
           /\ \A t \in Threads, n \in Nat, v \in Versions :
                 ReachFrom(t, n + 1, v) => ReachFrom(t, n, v)'
           /\ \A t \in Threads, v \in Versions :
                 t # notifs[1].thread /\ Reach(t, v) => Reach(t, v)'
           /\ \A v \in Versions : Reach(notifs[1].thread, v) => 
                 Covers(oversize[notifs[1].thread], v, notifs[1].v - 1)
  <1>1. notifs \in Seq(Notifications) /\ Len(notifs) \in Nat /\ Len(notifs) # 0
    BY Numbers, EmptySeq DEF Notifications
  <1>2. Len(notifs') = Len(notifs) - 1 /\ \A i \in 1 .. Len(notifs') : notifs'[i] = notifs[i + 1]
    BY <1>1, HeadTailProperties
  <1>3. ASSUME NEW t \in Threads, NEW n \in Nat, NEW v \in Versions, ReachFrom(t, n + 1, v)
        PROVE  ReachFrom(t, n, v)'
    <2>1. ASSUME NEW i \in 1 .. Len(notifs'), NextOf(t, n, i)'
          PROVE  Covers(oversize[t], v, notifs'[i].v - 1)
      <3>1. i + 1 \in n + 2 .. Len(notifs) /\ notifs[i + 1].thread = t
        BY <1>1, <1>2, <2>1 DEF NextOf
      <3>2. ASSUME NEW j \in n + 2 .. i PROVE notifs[j].thread # t
        <4>1. j - 1 \in n + 1 .. i - 1 /\ j - 1 \in 1 .. Len(notifs')
          BY <1>1, <1>2, <3>1
        <4>2. notifs'[j - 1].thread # t
          BY <2>1, <4>1 DEF NextOf
        <4>. QED BY <1>2, <4>1, <4>2
      <3>3. NextOf(t, n + 1, i + 1) /\ i + 1 \in 1 .. Len(notifs)
        BY <1>1, <3>1, <3>2 DEF NextOf
      <3>. QED BY <1>2, <1>3, <3>3 DEF ReachFrom
    <2>2. ASSUME Upstream', \A i \in n + 1 .. Len(notifs') : notifs'[i].thread # t
          PROVE  Covers(oversize[t], v, emitted'[t])
      <3>1. ASSUME NEW i \in n + 2 .. Len(notifs) PROVE notifs[i].thread # t
        <4>1. i - 1 \in n + 1 .. Len(notifs') /\ i - 1 \in 1 .. Len(notifs') /\ (i - 1) + 1 = i
          BY <1>1, <1>2
        <4>2. notifs'[i - 1].thread # t /\ notifs'[i - 1] = notifs[i]
          BY <1>2, <2>2, <4>1
        <4>. QED BY <4>2
      <3>. QED BY <1>3, <2>2, <3>1 DEF ReachFrom
    <2>. QED BY <2>1, <2>2 DEF ReachFrom
  <1>4. ASSUME NEW t \in Threads, NEW v \in Versions, t # notifs[1].thread, Reach(t, v)
        PROVE  Reach(t, v)'
    <2>1. \A i \in 1 .. Len(notifs) : NextOf(t, 1, i) => NextOf(t, 0, i)
      BY <1>1, <1>4 DEF NextOf
    <2>2. (\A i \in 2 .. Len(notifs) : notifs[i].thread # t) =>
             \A i \in 1 .. Len(notifs) : notifs[i].thread # t
      BY <1>1, <1>4
    <2>3. ReachFrom(t, 1, v)
      BY <1>4, <2>1, <2>2 DEF Reach, ReachFrom
    <2>. QED BY <1>3, <2>3 DEF Reach
  <1>5. ASSUME NEW v \in Versions, Reach(notifs[1].thread, v)
        PROVE  Covers(oversize[notifs[1].thread], v, notifs[1].v - 1)
    <2>1. NextOf(notifs[1].thread, 0, 1) /\ 1 \in 1 .. Len(notifs)
      BY <1>1 DEF NextOf
    <2>. QED BY <1>5, <2>1 DEF Reach, ReachFrom
  <1>. QED BY <1>2, <1>3, <1>4, <1>5

(* A thread moves on: it is told of while its client is up, and other       *)
(* threads do not notice.                                                  *)
LEMMA ReachEvent ==
    ASSUME BrokerTypeOK, conn # 0, Connected, NEW t \in Threads, ThreadEvent(t)
    PROVE  /\ Upstream' => Upstream
           /\ \A u \in Threads, n \in 0 .. Len(notifs), v \in Versions :
                 u # t \/ u \in sub => (ReachFrom(u, n, v) => ReachFrom(u, n, v)')
           /\ \/ notifs' = notifs
              \/ /\ t \in sub /\ Len(notifs') = Len(notifs) + 1
                 /\ \A i \in 1 .. Len(notifs) : notifs'[i] = notifs[i]
                 /\ notifs'[Len(notifs')] = [thread |-> t, v |-> emitted'[t]]
                 /\ \A n \in Nat, v \in Versions :
                       n = Len(notifs') /\ v = emitted'[t] => ReachFrom(t, n, v)'
  <1>. DEFINE new == [thread |-> t, v |-> emitted[t] + 1]
  <1>1. notifs \in Seq(Notifications) /\ Len(notifs) \in Nat /\ emitted[t] \in Nat
    BY Numbers
  <1>2. emitted'[t] = emitted[t] + 1 /\ \A u \in Threads \ {t} : emitted'[u] = emitted[u]
    BY DEF ThreadEvent, BrokerTypeOK
  <1>3. (Upstream' => Upstream) /\ oversize' = oversize
    BY DEF ThreadEvent, Upstream, supVars, BrokerTypeOK
  <1>4. CASE notifs' = Append(notifs, new) /\ t \in sub
    <2>1. /\ Len(notifs') = Len(notifs) + 1
          /\ \A i \in 1 .. Len(notifs) : notifs'[i] = notifs[i]
          /\ notifs'[Len(notifs')] = new
      <3>1. new \in Notifications
        BY <1>1, BrokerAssumption DEF ThreadEvent, Notifications, Versions
      <3>. HIDE DEF new
      <3>. QED BY <1>1, <1>4, <3>1, AppendProperties
    <2>2. \A n \in Nat, v \in Versions :
             n = Len(notifs') /\ v = emitted'[t] => ReachFrom(t, n, v)'
      <3>1. \A v \in Versions : v = emitted'[t] => Covers(oversize[t], v, emitted'[t])
        BY <1>1, <1>2, Numbers DEF Covers
      <3>. QED BY <1>1, <1>2, <1>3, <2>1, <3>1 DEF ReachFrom, NextOf
    <2>3. ASSUME NEW u \in Threads, NEW n \in 0 .. Len(notifs), NEW v \in Versions,
                 ReachFrom(u, n, v)
          PROVE  ReachFrom(u, n, v)'
      <3>1. ASSUME NEW i \in 1 .. Len(notifs'), NextOf(u, n, i)'
            PROVE  Covers(oversize[u], v, notifs'[i].v - 1)
        <4>1. CASE i \in 1 .. Len(notifs)
          <5>1. NextOf(u, n, i)
            BY <1>1, <2>1, <3>1, <4>1 DEF NextOf
          <5>. QED BY <2>1, <2>3, <4>1, <5>1 DEF ReachFrom
        <4>2. CASE i = Len(notifs')
          <5>1. u = t
            BY <2>1, <3>1, <4>2 DEF NextOf
          <5>2. \A j \in n + 1 .. Len(notifs) : notifs[j].thread # t
            BY <1>1, <2>1, <3>1, <4>2, <5>1 DEF NextOf
          <5>3. Upstream
            BY <1>1, <2>1 DEF ThreadEvent
          <5>4. Covers(oversize[t], v, emitted[t])
            BY <2>3, <5>1, <5>2, <5>3 DEF ReachFrom
          <5>5. notifs'[i].v - 1 = emitted[t]
            BY <1>1, <2>1, <4>2
          <5>. QED BY <5>1, <5>4, <5>5
        <4>. QED BY <1>1, <2>1, <4>1, <4>2
      <3>2. ASSUME Upstream', \A i \in n + 1 .. Len(notifs') : notifs'[i].thread # u
            PROVE  Covers(oversize[u], v, emitted'[u])
        <4>1. u # t
          BY <1>1, <2>1, <3>2
        <4>2. \A i \in n + 1 .. Len(notifs) : notifs[i].thread # u
          BY <1>1, <2>1, <3>2
        <4>. QED BY <1>2, <1>3, <2>3, <3>2, <4>1, <4>2 DEF ReachFrom
      <3>. QED BY <1>3, <3>1, <3>2 DEF ReachFrom
    <2>. QED BY <1>2, <1>3, <1>4, <2>1, <2>2, <2>3
  <1>5. CASE notifs' = notifs
    <2>1. t \in sub /\ Upstream' => emitted[t] + 1 \in oversize[t]
      <3>. DEFINE told == Upstream /\ t \in sub /\ emitted[t] + 1 \notin oversize[t]
      <3>1. told /\ Len(notifs) < EventLimit => Len(notifs') = Len(notifs) + 1
        <4>1. new \in Notifications
          BY <1>1, BrokerAssumption DEF ThreadEvent, Notifications, Versions
        <4>2. Len(Append(notifs, new)) = Len(notifs) + 1
          BY <1>1, <4>1, AppendProperties
        <4>. QED BY <4>2 DEF ThreadEvent, Connected
      <3>2. ~(told /\ Len(notifs) < EventLimit)
        BY <1>1, <1>5, <3>1
      <3>3. told => link' = [link EXCEPT ![connEpoch] = "protocol"]
        BY <3>2 DEF ThreadEvent
      <3>4. told => ~Upstream'
        BY <1>3, <3>3 DEF Upstream, ThreadEvent, supVars, BrokerTypeOK
      <3>. QED BY <1>3, <3>4
    <2>2. \A v \in Versions : /\ t \in sub /\ Upstream' /\ Covers(oversize[t], v, emitted[t])
                              => Covers(oversize[t], v, emitted'[t])
      BY <1>1, <1>2, <2>1, OneMoreLost, Numbers
    <2>3. ASSUME NEW u \in Threads, NEW n \in 0 .. Len(notifs), NEW v \in Versions,
                 u # t \/ u \in sub, ReachFrom(u, n, v)
          PROVE  ReachFrom(u, n, v)'
      <3>1. \A i \in 1 .. Len(notifs) : NextOf(u, n, i)' <=> NextOf(u, n, i)
        BY <1>5 DEF NextOf
      <3>2. ASSUME Upstream', \A i \in n + 1 .. Len(notifs) : notifs[i].thread # u
            PROVE  Covers(oversize[u], v, emitted'[u])
        <4>1. Covers(oversize[u], v, emitted[u])
          BY <1>3, <2>3, <3>2 DEF ReachFrom
        <4>. QED BY <1>2, <2>2, <2>3, <3>2, <4>1
      <3>. QED BY <1>3, <1>5, <2>3, <3>1, <3>2 DEF ReachFrom
    <2>. QED BY <1>3, <1>5, <2>3
  <1>. QED BY <1>4, <1>5 DEF ThreadEvent


-----------------------------------------------------------------------------
(* Binding records. *)

(* What a step of the broker does to a queue, as the pump sees it: it only  *)
(* appends, a live event only to an open binding and without a gap, and a   *)
(* binding that opens brings its snapshot.                                 *)
Offers(b) ==
    LET old == bd[b]
        new == bd'[b]
    IN  /\ new.thread = old.thread /\ oversize' = oversize
        /\ Len(old.queue) <= Len(new.queue)
        /\ \A i \in 1 .. Len(old.queue) : new.queue[i] = old.queue[i]
        /\ old.queue = <<>> /\ new.queue # <<>> /\ ~new.queue[1].snap =>
              old.stage = "open" /\ \A v \in Versions :
                                       Reach(old.thread, v) => Follows(oversize[old.thread], new.queue[1], v, conn)
        /\ new.stage = "open" =>
              \/ /\ old.stage = "open" /\ conn' = conn /\ new.suspends = old.suspends
                 /\ \/ new.queue # <<>>
                    \/ \A t \in Threads, v \in Versions :
                          t = old.thread /\ Reach(t, v) => Reach(t, v)'
              \/ \E i \in 1 .. Len(new.queue) : new.queue[i].snap

(* The parts of a record that has its types. *)
LEMMA RecordFacts ==
    ASSUME NEW rec, Bounded(rec)
    PROVE  /\ rec.buf \in Seq(Versions) /\ Len(rec.buf) \in Nat
           /\ \A i \in 1 .. Len(rec.buf) : rec.buf[i] \in Versions /\ rec.buf[i] \in Nat
           /\ rec.buf = <<>> <=> Len(rec.buf) = 0
           /\ rec.queue \in Seq(Events) /\ Len(rec.queue) \in Nat
           /\ \A i \in 1 .. Len(rec.queue) :
                 /\ rec.queue[i] \in Events /\ rec.queue[i].v \in Versions /\ rec.queue[i].v \in Nat
                 /\ rec.queue[i].conn \in Conns /\ rec.queue[i].snap \in BOOLEAN
           /\ rec.queue = <<>> <=> Len(rec.queue) = 0
           /\ rec.snap \in Versions /\ rec.snap \in Nat
           /\ rec.stage \in {"idle", "buffering", "open"}
           /\ rec.barrier \in {"none", "resume", "read", "answered"}
           /\ rec.revoked \in BOOLEAN /\ rec.suspends \in BOOLEAN
  <1>1. Versions \subseteq Nat
    BY BrokerAssumption DEF Versions
  <1>2. /\ rec.buf \in Seq(Versions) /\ rec.queue \in Seq(Events) /\ rec.snap \in Versions
        /\ rec.stage \in {"idle", "buffering", "open"}
        /\ rec.barrier \in {"none", "resume", "read", "answered"}
        /\ rec.revoked \in BOOLEAN /\ rec.suspends \in BOOLEAN
    BY DEF Bounded, Binding
  <1>3. /\ \A i \in 1 .. Len(rec.buf) : rec.buf[i] \in Versions
        /\ \A i \in 1 .. Len(rec.queue) : rec.queue[i] \in Events
    BY <1>2, ElementOfSeq
  <1>4. /\ Len(rec.buf) \in Nat /\ Len(rec.queue) \in Nat
        /\ rec.buf = <<>> <=> Len(rec.buf) = 0
        /\ rec.queue = <<>> <=> Len(rec.queue) = 0
    BY <1>2, EmptySeq
  <1>5. \A e \in Events : e.v \in Versions /\ e.conn \in Conns /\ e.snap \in BOOLEAN
    BY DEF Events
  <1>. QED BY <1>1, <1>2, <1>3, <1>4, <1>5

(* A record that is left alone stays where it is on the way, if the step    *)
(* takes nothing from the channel that its thread has not been given.       *)
LEMMA Untouched ==
    ASSUME BrokerTypeOK, oversize' = oversize, NEW b \in Binds, Piped(b), bd'[b] = bd[b], bd[b].thread \in Threads,
           conn' = conn, sub \subseteq sub', Upstream' => Upstream, closing => closing',
           emitted[bd[b].thread] \in Nat, emitted'[bd[b].thread] \in Nat,
           emitted[bd[b].thread] <= emitted'[bd[b].thread],
           \A t \in Threads, v \in Versions :
              t = bd[b].thread /\ t \in sub /\ Reach(t, v) => Reach(t, v)',
           sup' \in {"idle", "opening", "exited"} => bd[b].barrier = "none"
    PROVE  Piped(b)' /\ Offers(b)
  <1>1. PICK rec : rec = bd[b]
    OBVIOUS
  <1>2. PICK t \in Threads : t = rec.thread
    BY <1>1
  <1>3. bd[b] = rec /\ bd'[b] = rec /\ rec.thread = t /\ Bounded(rec)
    BY <1>1, <1>2, TypeRecords DEF RecordsOK
  <1>4. \A v \in Versions : t \in sub /\ Reach(t, v) => Reach(t, v)'
    BY <1>3
  <1>5. Staged(rec) /\ Buffered(rec) /\ Queued(rec)
    BY <1>3 DEF Piped
  <1>6. Staged(rec)'
    BY <1>3, <1>5 DEF Staged
  <1>7. Buffered(rec)'
    <2>. SUFFICES ASSUME Sound(rec)' PROVE Buffered(rec)'
      BY DEF Buffered
    <2>1. Sound(rec)
      BY DEF Sound
    <2>2. \A i \in 1 .. Len(rec.buf) : rec.buf[i] <= emitted'[t]
      BY <1>3, <1>5, <2>1, RecordFacts DEF Buffered
    <2>3. rec.buf # <<>> => Reach(t, rec.buf[Len(rec.buf)])'
      <3>1. rec.buf # <<>> => Len(rec.buf) \in 1 .. Len(rec.buf)
        BY <1>3, RecordFacts
      <3>2. rec.buf # <<>> => rec.buf[Len(rec.buf)] \in Versions
        BY <1>3, <3>1, RecordFacts
      <3>. QED BY <1>3, <1>4, <1>5, <2>1, <3>2 DEF Buffered
    <2>4. rec.barrier = "answered" =>
             IF rec.buf = <<>> THEN Reach(t, rec.snap)' 
             ELSE Covers(oversize[t], rec.snap, rec.buf[1] - 1)
      <3>1. rec.snap \in Versions
        BY <1>3, RecordFacts
      <3>. QED BY <1>3, <1>4, <1>5, <2>1, <3>1 DEF Buffered
    <2>5. rec.barrier # "resume" \/ rec.buf # <<>> => t \in sub'
      BY <1>3, <1>5, <2>1 DEF Buffered
    <2>6. \A i \in 2 .. Len(rec.buf) : Covers(oversize[t], rec.buf[i - 1], rec.buf[i] - 1)
      BY <1>3, <1>5, <2>1 DEF Buffered
    <2>. QED BY <1>3, <2>2, <2>3, <2>4, <2>5, <2>6 DEF Buffered
  <1>8. Queued(rec)'
    <2>1. rec.stage = "open" /\ rec.queue # <<>> =>
             rec.queue[Len(rec.queue)].v \in Versions
      BY <1>3, RecordFacts
    <2>2. rec.stage = "open" /\ rec.queue # <<>> =>
             Reach(t, rec.queue[Len(rec.queue)].v)'
      BY <1>3, <1>4, <1>5, <2>1 DEF Queued
    <2>. QED BY <1>3, <1>5, <2>2 DEF Queued, Follows
  <1>9. Piped(b)'
    BY <1>3, <1>6, <1>7, <1>8 DEF Piped
  <1>10. Offers(b)
    BY <1>3, <1>4, <1>5, RecordFacts DEF Offers, Queued
  <1>. QED BY <1>9, <1>10


(* A binding that is idle after the step and whose queue was left alone. *)
LEMMA Shelved ==
    ASSUME BrokerTypeOK, oversize' = oversize, NEW b \in Binds, Piped(b), bd'[b].stage = "idle",
           bd'[b].queue = bd[b].queue, bd'[b].thread = bd[b].thread, Staged(bd[b])'
    PROVE  Piped(b)' /\ Offers(b)
  <1>1. Bounded(bd[b])
    BY TypeRecords DEF RecordsOK
  <1>2. Buffered(bd[b])' /\ Queued(bd[b])'
    BY DEF Piped, Buffered, Sound, Queued, Follows
  <1>3. Offers(b)
    BY <1>1, RecordFacts DEF Offers
  <1>. QED BY <1>2, <1>3 DEF Piped

(* The channel as it was, or empty. *)
LEMMA ChannelKept ==
    ASSUME BrokerTypeOK, Channel, notifs' \in {notifs, <<>>}, conn' = 0 => conn = 0 \/ notifs' = <<>>,
           emitted' = emitted, oversize' = oversize,
           notifs' = <<>> \/ (sub \subseteq sub' /\ (Upstream' => Upstream))
    PROVE  Channel'
  <1>1. CASE notifs' = <<>>
    BY <1>1 DEF Channel
  <1>2. CASE notifs' = notifs /\ sub \subseteq sub' /\ (Upstream' => Upstream)
    <2>1. \A i \in 1 .. Len(notifs) : i \in Nat /\ notifs[i].thread \in Threads /\ notifs[i].v \in Versions
      BY Numbers
    <2>2. \A i \in 1 .. Len(notifs) :
             ReachFrom(notifs[i].thread, i, notifs[i].v)'
      <3>. SUFFICES ASSUME NEW i \in 1 .. Len(notifs)
                    PROVE  ReachFrom(notifs[i].thread, i, notifs[i].v)'
        OBVIOUS
      <3>1. PICK t \in Threads, v \in Versions : t = notifs[i].thread /\ v = notifs[i].v
        BY <2>1
      <3>2. ReachFrom(t, i, v)'
        BY <1>2, <2>1, <3>1, ReachKept DEF Channel
      <3>. QED BY <1>2, <3>1, <3>2
    <2>. QED BY <1>2, <2>2 DEF Channel
  <1>. QED BY <1>1, <1>2

(* No binding is added, and every queue is treated as Offers says. *)
Supplies == bindEpoch' = bindEpoch /\ \A b \in 1 .. bindEpoch : Offers(b)

(* The threads of the bindings that were made. *)
LEMMA Bindings ==
    ASSUME BrokerInv
    PROVE  /\ 1 .. bindEpoch \subseteq Binds
           /\ \A b \in 1 .. bindEpoch : bd[b].thread \in Threads /\ Bounded(bd[b])
           /\ \A b \in Binds : bd[b].barrier # "none" => b \in 1 .. bindEpoch
           /\ \A b \in Binds : bd[b].thread \in Threads => b \in 1 .. bindEpoch
  <1>1. 1 .. bindEpoch \subseteq Binds /\ bindEpoch \in Nat
    BY Numbers DEF BrokerInv
  <1>2. \A b \in 1 .. bindEpoch : bd[b].thread \in Threads
    BY <1>1 DEF BrokerInv, Routed
  <1>3. \A b \in Binds : b <= bindEpoch => b \in 1 .. bindEpoch
    BY <1>1, BrokerAssumption DEF Binds
  <1>4. \A b \in Binds : Bounded(bd[b])
    BY TypeRecords DEF BrokerInv, RecordsOK
  <1>. QED BY <1>1, <1>2, <1>3, <1>4 DEF BrokerInv, Routed

(* Every record but one is left alone, and so is the channel. *)
LEMMA OthersUntouched ==
    ASSUME BrokerInv, Pipeline, NEW S \in SUBSET Binds, \A b \in Binds \ S : bd'[b] = bd[b],
           conn' = conn, notifs' = notifs, emitted' = emitted, oversize' = oversize, sub \subseteq sub',
           Upstream' => Upstream, closing => closing',
           sup' \in {"idle", "opening", "exited"} => \A b \in Binds \ S : bd[b].barrier = "none"
    PROVE  Channel' /\ \A b \in 1 .. bindEpoch : b \notin S => Piped(b)' /\ Offers(b)
  <1>1. Channel'
    BY ChannelKept DEF BrokerInv, Pipeline
  <1>2. \A t \in Threads, v \in Versions : Reach(t, v) => Reach(t, v)'
    BY ReachKept DEF Reach
  <1>3. ASSUME NEW b \in 1 .. bindEpoch, b \notin S PROVE Piped(b)' /\ Offers(b)
    <2>1. b \in Binds /\ bd[b].thread \in Threads /\ bd'[b] = bd[b]
      BY <1>3, Bindings
    <2>2. emitted[bd[b].thread] \in Nat /\ emitted[bd[b].thread] <= emitted'[bd[b].thread]
      BY <2>1, Numbers DEF BrokerInv
    <2>3. Piped(b) /\ BrokerTypeOK
      BY <1>3 DEF Pipeline, BrokerInv
    <2>. QED BY <1>2, <1>3, <2>1, <2>2, <2>3, Untouched
  <1>. QED BY <1>1, <1>3

(* Steps of the supervisor, the endpoint and requests that move neither a   *)
(* binding nor an event.                                                   *)
LEMMA QuietPipeline ==
    ASSUME BrokerInv, Pipeline, UNCHANGED <<bd, bindEpoch, conn, notifs, emitted, oversize, sub>>,
           Upstream' => Upstream, closing => closing',
           sup' \in {"idle", "opening", "exited"} => \A b \in Binds : bd[b].barrier = "none"
    PROVE  Pipeline' /\ Supplies
  <1>0. PICK S \in SUBSET Binds : S = {}
    OBVIOUS
  <1>1. Channel' /\ \A b \in 1 .. bindEpoch : b \notin S => Piped(b)' /\ Offers(b)
    BY OthersUntouched
  <1>. QED BY <1>0, <1>1 DEF Pipeline, Supplies

(* No barrier is in flight when no connection is served or being retired. *)
LEMMA NoBarriers ==
    ASSUME BrokerInv, Pipeline, sup \in {"idle", "opening", "exited"}
    PROVE  \A b \in Binds : bd[b].barrier = "none"
  BY Bindings DEF Pipeline, Piped, Staged

(* Sleep, StartOpen, OpenFails, Retired, CloseEndpoint, CloseBroker,        *)
(* LinkFails and the requests.                                             *)
LEMMA QuietSteps ==
    ASSUME BrokerInv, Pipeline,
           \/ Sleep \/ StartOpen \/ OpenFails \/ Retired \/ CloseEndpoint \/ CloseBroker \/ LinkFails
           \/ \E o \in Ops : OpStep(o)
    PROVE  Pipeline' /\ Supplies
  <1>1. CASE Sleep \/ StartOpen \/ OpenFails
    BY <1>1, NoBarriers, QuietPipeline DEF Sleep, StartOpen, OpenFails, supVars, Upstream
  <1>2. CASE Retired
    BY <1>2, QuietPipeline DEF Retired, Upstream
  <1>3. CASE CloseEndpoint
    BY <1>3, QuietPipeline DEF CloseEndpoint, Upstream, BrokerInv, BrokerTypeOK
  <1>4. CASE CloseBroker
    BY <1>4, NoBarriers, QuietPipeline DEF CloseBroker, Upstream
  <1>5. CASE LinkFails
    <2>1. Upstream' => Upstream
      BY <1>5 DEF LinkFails
    <2>. QED BY <1>5, <2>1, NoBarriers, QuietPipeline DEF LinkFails, supVars
  <1>6. CASE \E o \in Ops : OpStep(o)
    <2>1. UNCHANGED <<supVars, bd, bindEpoch, notifs, emitted, oversize, sub, link>>
      BY <1>6 DEF OpStep, Submit, Takes, Applied, Rejected, Lost, Finish
    <2>. QED BY <2>1, NoBarriers, QuietPipeline DEF supVars, Upstream
  <1>. QED BY <1>1, <1>2, <1>3, <1>4, <1>5, <1>6


(* A thread moves on. *)
LEMMA ThreadEventPipes ==
    ASSUME BrokerInv, Pipeline, NEW t \in Threads, ThreadEvent(t)
    PROVE  Pipeline' /\ Supplies
  <1>1. /\ UNCHANGED <<conn, connEpoch, sup, closing, bindEpoch, bd, sub, oversize>>
        /\ emitted'[t] = emitted[t] + 1 /\ \A u \in Threads \ {t} : emitted'[u] = emitted[u]
    BY DEF ThreadEvent, supVars, BrokerInv, BrokerTypeOK
  <1>2. \A u \in Threads : emitted[u] \in Nat /\ emitted'[u] \in Nat /\ emitted[u] <= emitted'[u]
    BY <1>1, Numbers DEF BrokerInv
  <1>3. CASE conn # 0
    <2>1. /\ Upstream' => Upstream
          /\ \A u \in Threads, n \in 0 .. Len(notifs), v \in Versions :
                u # t \/ u \in sub => (ReachFrom(u, n, v) => ReachFrom(u, n, v)')
          /\ \/ notifs' = notifs
             \/ /\ t \in sub /\ Len(notifs') = Len(notifs) + 1
                /\ \A i \in 1 .. Len(notifs) : notifs'[i] = notifs[i]
                /\ notifs'[Len(notifs')] = [thread |-> t, v |-> emitted'[t]]
                /\ \A n \in Nat, v \in Versions :
                      n = Len(notifs') /\ v = emitted'[t] => ReachFrom(t, n, v)'
      BY <1>3, ReachEvent DEF BrokerInv
    <2>2. /\ Len(notifs) \in Nat
          /\ \A i \in 1 .. Len(notifs) : /\ notifs[i].thread \in Threads /\ notifs[i].v \in Versions
                                         /\ notifs[i].v \in Nat
      BY Numbers DEF BrokerInv
    <2>3. ASSUME NEW i \in 1 .. Len(notifs), notifs'[i] = notifs[i]
          PROVE  /\ notifs'[i].thread \in sub' /\ notifs'[i].v <= emitted'[notifs'[i].thread]
                 /\ ReachFrom(notifs[i].thread, i, notifs[i].v)'
      <3>1. PICK u \in Threads, v \in Versions : u = notifs[i].thread /\ v = notifs[i].v
        BY <2>2
      <3>2. u \in sub /\ v <= emitted[u] /\ ReachFrom(u, i, v) /\ v \in Nat
        BY <2>2, <3>1 DEF Pipeline, Channel
      <3>3. ReachFrom(u, i, v)' /\ v <= emitted'[u]
        BY <1>2, <2>1, <2>2, <3>2
      <3>. QED BY <1>1, <2>3, <3>1, <3>2, <3>3
    <2>4. Channel'
      <3>1. CASE notifs' = notifs
        BY <1>1, <1>3, <2>3, <3>1 DEF Channel
      <3>2. CASE notifs' # notifs
        <4>1. emitted'[t] \in Versions
          BY BrokerAssumption, <1>1 DEF ThreadEvent, Versions, BrokerInv, BrokerTypeOK
        <4>2. PICK n \in Nat, v \in Versions : n = Len(notifs') /\ v = emitted'[t]
          BY <2>1, <2>2, <3>2, <4>1
        <4>3. ReachFrom(t, n, v)' /\ notifs'[n].thread = t /\ notifs'[n].v = v /\ n = Len(notifs) + 1
          BY <2>1, <3>2, <4>2
        <4>4. ASSUME NEW i \in 1 .. n
              PROVE  /\ notifs'[i].thread \in sub' /\ notifs'[i].v <= emitted'[notifs'[i].thread]
                     /\ ReachFrom(notifs[i].thread, i, notifs[i].v)'
          <5>1. CASE i = n
            <6>1. t \in sub' /\ v <= emitted'[t]
              BY <1>1, <1>2, <2>1, <3>2, <4>2
            <6>. QED BY <4>3, <5>1, <6>1
          <5>2. CASE i # n
            <6>1. i \in 1 .. Len(notifs)
              BY <2>2, <4>3, <5>2
            <6>. QED BY <2>1, <2>3, <3>2, <6>1
          <5>. QED BY <5>1, <5>2
        <4>. QED BY <1>1, <1>3, <4>2, <4>4 DEF Channel
      <3>. QED BY <3>1, <3>2
    <2>5. \A b \in 1 .. bindEpoch : Piped(b)' /\ Offers(b)
      <3>. SUFFICES ASSUME NEW b \in 1 .. bindEpoch PROVE Piped(b)' /\ Offers(b)
        OBVIOUS
      <3>1. b \in Binds /\ bd[b].thread \in Threads /\ bd'[b] = bd[b]
        BY <1>1, Bindings
      <3>2. Piped(b) /\ BrokerTypeOK
        BY DEF Pipeline, BrokerInv
      <3>3. \A u \in Threads, v \in Versions :
               u = bd[b].thread /\ u \in sub /\ Reach(u, v) => Reach(u, v)'
        BY <2>1, <2>2 DEF Reach
      <3>4. sup' \in {"idle", "opening", "exited"} => bd[b].barrier = "none"
        BY <1>1, <3>1, NoBarriers
      <3>. QED BY <1>1, <1>2, <2>1, <3>1, <3>2, <3>3, <3>4, Untouched
    <2>. QED BY <1>1, <2>4, <2>5 DEF Pipeline, Supplies
  <1>4. CASE conn = 0
    <2>1. notifs' = <<>> /\ notifs = <<>>
      BY <1>4 DEF ThreadEvent, BrokerInv, Connected, Pipeline, Channel
    <2>2. Channel'
      BY <2>1 DEF Channel
    <2>3. \A b \in 1 .. bindEpoch : Piped(b)' /\ Offers(b)
      <3>. SUFFICES ASSUME NEW b \in 1 .. bindEpoch PROVE Piped(b)' /\ Offers(b)
        OBVIOUS
      <3>1. b \in Binds /\ bd'[b] = bd[b] /\ Bounded(bd[b])
        BY <1>1, Bindings
      <3>2. Piped(b) /\ BrokerTypeOK
        BY DEF Pipeline, BrokerInv
      <3>3. bd[b].stage = "idle" /\ Staged(bd[b])'
        BY <1>1, <1>4, <3>1, <3>2 DEF Piped, Staged
      <3>. QED BY <1>1, <3>1, <3>2, <3>3, Shelved
    <2>. QED BY <1>1, <2>2, <2>3 DEF Pipeline, Supplies
  <1>. QED BY <1>3, <1>4

(* A binding's barrier starts on connection c with nothing buffered, unless *)
(* the client of the connection has failed.                                *)
LEMMA StartPipes ==
    ASSUME BrokerTypeOK, oversize' = oversize, NEW b \in Binds, NEW c \in Conns, Piped(b), ~bd[b].revoked,
           bd'[b] = [bd[b] EXCEPT !.stage = "buffering", !.conn = c, !.barrier = "resume"],
           conn' = c, c # 0, sup' = "serving", Upstream' => bd[b].buf = <<>>
    PROVE  Piped(b)' /\ Offers(b)
  <1>1. Bounded(bd[b])
    BY TypeRecords DEF RecordsOK
  <1>2. /\ bd'[b].stage = "buffering" /\ bd'[b].conn = c /\ bd'[b].barrier = "resume"
        /\ bd'[b].queue = bd[b].queue /\ bd'[b].buf = bd[b].buf /\ bd'[b].thread = bd[b].thread
        /\ bd'[b].revoked = bd[b].revoked
    BY <1>1 DEF Bounded, Binding
  <1>3. Staged(bd[b])'
    BY <1>2 DEF Staged
  <1>4. Buffered(bd[b])'
    <2>1. Sound(bd[b])' => bd'[b].buf = <<>> /\ Len(bd'[b].buf) = 0
      BY <1>1, <1>2, RecordFacts DEF Sound
    <2>. QED BY <1>2, <2>1 DEF Buffered
  <1>5. Queued(bd[b])'
    BY <1>2 DEF Piped, Queued, Follows
  <1>6. Offers(b)
    BY <1>1, <1>2, RecordFacts DEF Offers
  <1>. QED BY <1>3, <1>4, <1>5, <1>6 DEF Piped


(* Without transfers, startBarriers leaves out only what is not idle or was *)
(* revoked.                                                                *)
LEMMA NotStarted ==
    ASSUME BrokerInv, \A t \in Threads : ~Transferring(t), NEW c, NEW b \in 1 .. bindEpoch
    PROVE  b \in Eligible(c) <=> (bd[b].stage = "idle" /\ ~bd[b].revoked)
  <1>1. b \in Binds /\ bd[b].thread \in Threads
    BY Bindings
  <1>2. bound[bd[b].thread] = b <=> ~bd[b].revoked
    BY <1>1 DEF BrokerInv, Routed
  <1>. QED BY <1>1, <1>2 DEF Eligible

(* The first barriers of a connection. *)
LEMMA OpenPipes ==
    ASSUME BrokerInv, Pipeline, \A t \in Threads : ~Transferring(t), Open
    PROVE  Pipeline' /\ Supplies
  <1>1. PICK c \in Conns : c = connEpoch + 1 /\ c # 0 /\ conn' = c /\ Started(c)
    BY BrokerAssumption DEF BrokerInv, Open, Connected, BrokerTypeOK, Conns
  <1>2. conn = 0 /\ notifs' = <<>> /\ sup' = "serving" /\ UNCHANGED <<bindEpoch, oversize>>
    BY DEF Open, BrokerInv, Connected
  <1>3. Channel'
    BY <1>2 DEF Channel
  <1>4. ASSUME NEW b \in 1 .. bindEpoch PROVE Piped(b)' /\ Offers(b)
    <2>1. b \in Binds /\ Piped(b) /\ BrokerTypeOK /\ Bounded(bd[b])
      BY Bindings DEF Pipeline, BrokerInv
    <2>2. /\ bd[b].stage = "idle" /\ bd[b].barrier = "none" /\ bd[b].buf = <<>>
      BY <1>2, <2>1 DEF Piped, Staged, Open
    <2>3. CASE b \in Eligible(c)
      <3>1. ~bd[b].revoked
        BY <2>3, NotStarted
      <3>2. bd'[b] = [bd[b] EXCEPT !.stage = "buffering", !.conn = c, !.barrier = "resume"]
        BY <1>1, <2>1, <2>3 DEF Started
      <3>. QED BY <1>1, <1>2, <2>1, <2>2, <3>1, <3>2, StartPipes
    <2>4. CASE b \notin Eligible(c)
      <3>1. bd[b].revoked
        BY <2>2, <2>4, NotStarted
      <3>2. bd'[b] = bd[b]
        BY <1>1, <2>1, <2>4 DEF Started
      <3>3. Staged(bd[b])'
        BY <1>2, <2>2, <3>1, <3>2 DEF Staged
      <3>. QED BY <1>2, <2>1, <2>2, <3>2, <3>3, Shelved
    <2>. QED BY <2>3, <2>4
  <1>. QED BY <1>2, <1>3, <1>4 DEF Pipeline, Supplies

(* The barriers a wake starts. *)
LEMMA WakesPipes ==
    ASSUME BrokerInv, Pipeline, \A t \in Threads : ~Transferring(t), Wakes
    PROVE  Pipeline' /\ Supplies
  <1>1. PICK c \in Conns : c = conn /\ c # 0
    BY DEF BrokerInv, Wakes, Connected, BrokerTypeOK
  <1>2. /\ Started(c) /\ conn' = c /\ sup' = "serving" /\ ~closing
        /\ UNCHANGED <<bindEpoch, notifs, emitted, oversize, sub, connEpoch, link, closing>>
    BY <1>1 DEF Wakes, supVars, Wanted
  <1>3. Eligible(c) \in SUBSET Binds /\ \A b \in Binds \ Eligible(c) : bd'[b] = bd[b]
    BY <1>2 DEF Eligible, Started
  <1>4. Upstream' <=> Upstream
    BY <1>2 DEF Upstream
  <1>5. Channel' /\ \A b \in 1 .. bindEpoch : b \notin Eligible(c) => Piped(b)' /\ Offers(b)
    <2>. DEFINE S == Eligible(c)
    <2>1. S \in SUBSET Binds /\ \A b \in Binds \ S : bd'[b] = bd[b]
      BY <1>3
    <2>. HIDE DEF S
    <2>2. Channel' /\ \A b \in 1 .. bindEpoch : b \notin S => Piped(b)' /\ Offers(b)
      BY <1>1, <1>2, <1>4, <2>1, OthersUntouched
    <2>. QED BY <2>2 DEF S
  <1>6. ASSUME NEW b \in 1 .. bindEpoch, b \in Eligible(c) PROVE Piped(b)' /\ Offers(b)
    <2>1. b \in Binds /\ Piped(b) /\ BrokerTypeOK
      BY Bindings DEF Pipeline, BrokerInv
    <2>2. bd[b].stage = "idle" /\ ~bd[b].revoked
      BY <1>6, NotStarted
    <2>3. Upstream' => bd[b].buf = <<>>
      BY <1>2, <1>4, <2>1, <2>2 DEF Piped, Staged
    <2>4. bd'[b] = [bd[b] EXCEPT !.stage = "buffering", !.conn = c, !.barrier = "resume"]
      BY <1>2, <1>6, <2>1 DEF Started
    <2>. QED BY <1>1, <1>2, <2>1, <2>2, <2>3, <2>4, StartPipes
  <1>. QED BY <1>2, <1>5, <1>6 DEF Pipeline, Supplies

(* The connection is revoked: every binding is idle. *)
LEMMA RevokePipes ==
    ASSUME BrokerInv, Pipeline, Revoke
    PROVE  Pipeline' /\ Supplies
  <1>1. conn' = 0 /\ notifs' = <<>> /\ sup' = "revoked" /\ UNCHANGED <<bindEpoch, oversize>>
    BY DEF Revoke
  <1>2. Channel'
    BY <1>1 DEF Channel
  <1>3. ASSUME NEW b \in 1 .. bindEpoch PROVE Piped(b)' /\ Offers(b)
    <2>1. b \in Binds /\ Piped(b) /\ BrokerTypeOK /\ Bounded(bd[b]) /\ bd[b].thread \in Threads
      BY Bindings DEF Pipeline, BrokerInv
    <2>2. bd'[b] = IF bd[b].revoked THEN bd[b] ELSE Suspended(bd[b])
      BY <2>1 DEF Revoke, BrokerInv, Routed
    <2>3. /\ bd'[b].stage = "idle" /\ bd'[b].buf = <<>>
          /\ bd'[b].queue = bd[b].queue /\ bd'[b].thread = bd[b].thread
      <3>1. CASE bd[b].revoked
        BY <2>1, <2>2, <3>1 DEF Piped, Staged, Bounded, Binding
      <3>2. CASE ~bd[b].revoked
        BY <2>1, <2>2, <3>2 DEF Suspended, Bounded, Binding
      <3>. QED BY <3>1, <3>2
    <2>4. Staged(bd[b])'
      BY <1>1, <2>3 DEF Staged
    <2>. QED BY <1>1, <2>1, <2>3, <2>4, Shelved
  <1>. QED BY <1>1, <1>2, <1>3 DEF Pipeline, Supplies

(* What revoking a record leaves of it. *)
LEMMA RevokedRecord ==
    ASSUME NEW rec \in Binding
    PROVE  /\ Revoked(rec).stage = "idle" /\ Revoked(rec).buf = <<>> /\ Revoked(rec).revoked
           /\ Revoked(rec).queue = rec.queue /\ Revoked(rec).thread = rec.thread
           /\ Revoked(rec).barrier = rec.barrier
  BY DEF Revoked, Binding

(* A binding that is revoked by the step and keeps its queue. *)
LEMMA RevokedPipes ==
    ASSUME BrokerTypeOK, oversize' = oversize, NEW b \in Binds, Piped(b), NEW rec \in Binding, bd'[b] = Revoked(rec),
           rec.queue = bd[b].queue, rec.thread = bd[b].thread,
           sup' \in {"idle", "opening", "exited"} => rec.barrier = "none"
    PROVE  Piped(b)' /\ Offers(b)
  <1>1. /\ bd'[b].stage = "idle" /\ bd'[b].buf = <<>> /\ bd'[b].revoked
        /\ bd'[b].queue = bd[b].queue /\ bd'[b].thread = bd[b].thread
        /\ bd'[b].barrier = rec.barrier
    BY RevokedRecord
  <1>2. Staged(bd[b])'
    BY <1>1 DEF Staged
  <1>. QED BY <1>1, <1>2, Shelved

(* The broker ends. *)
LEMMA ShutdownPipes ==
    ASSUME BrokerInv, Pipeline, Shutdown
    PROVE  Pipeline' /\ Supplies
  <1>1. conn' = 0 /\ conn = 0 /\ notifs' = notifs /\ sup = "idle" /\ UNCHANGED <<bindEpoch, emitted, oversize, sub, connEpoch, link>>
    BY DEF Shutdown, BrokerInv, Connected
  <1>2. Channel'
    BY <1>1 DEF Channel, Pipeline
  <1>3. ASSUME NEW b \in 1 .. bindEpoch PROVE Piped(b)' /\ Offers(b)
    <2>1. b \in Binds /\ Piped(b) /\ BrokerTypeOK /\ bd[b] \in Binding /\ bd[b].thread \in Threads
      BY Bindings DEF Pipeline, BrokerInv, Bounded
    <2>2. bd'[b] = IF bd[b].revoked THEN bd[b] ELSE Revoked(bd[b])
      BY <2>1 DEF Shutdown, BrokerInv, Routed
    <2>3. bd[b].barrier = "none"
      BY <1>1, <2>1, NoBarriers
    <2>4. CASE bd[b].revoked
      <3>1. bd'[b] = bd[b] /\ bd[b].stage = "idle" /\ bd[b].buf = <<>>
        BY <2>1, <2>2, <2>4 DEF Piped, Staged, Binding
      <3>2. Staged(bd[b])'
        BY <2>3, <2>4, <3>1 DEF Staged
      <3>. QED BY <1>1, <2>1, <3>1, <3>2, Shelved
    <2>5. CASE ~bd[b].revoked
      BY <1>1, <2>1, <2>2, <2>3, <2>5, RevokedPipes
    <2>. QED BY <2>4, <2>5
  <1>. QED BY <1>1, <1>2, <1>3 DEF Pipeline, Supplies


(* A step on one binding. *)
LEMMA OneMoves ==
    ASSUME BrokerInv, Pipeline, NEW b \in 1 .. bindEpoch,
           \A x \in Binds \ {b} : bd'[x] = bd[x], sub \subseteq sub',
           UNCHANGED <<conn, connEpoch, sup, closing, bindEpoch, link, notifs, emitted, oversize>>,
           Piped(b)' /\ Offers(b)
    PROVE  Pipeline' /\ Supplies
  <1>1. PICK S \in SUBSET Binds : S = {b}
    BY Bindings
  <1>2. Upstream' => Upstream
    BY DEF Upstream
  <1>3. Channel' /\ \A x \in 1 .. bindEpoch : x \notin S => Piped(x)' /\ Offers(x)
    BY <1>1, <1>2, NoBarriers, OthersUntouched
  <1>. QED BY <1>1, <1>3 DEF Pipeline, Supplies

(* Binding.Close. *)
LEMMA CloseBindingPipes ==
    ASSUME BrokerInv, Pipeline, NEW b \in Binds, CloseBinding(b)
    PROVE  Pipeline' /\ Supplies
  <1>1. b \in 1 .. bindEpoch /\ Piped(b) /\ BrokerTypeOK /\ bd[b] \in Binding
    BY Bindings DEF CloseBinding, Pipeline, BrokerInv, Bounded
  <1>2. bd'[b] = Revoked(bd[b]) /\ \A x \in Binds \ {b} : bd'[x] = bd[x]
    BY DEF CloseBinding, Install, BrokerInv, BrokerTypeOK
  <1>3. UNCHANGED <<conn, connEpoch, sup, closing, bindEpoch, link, notifs, emitted, oversize, sub>>
    BY DEF CloseBinding, supVars
  <1>4. sup' \in {"idle", "opening", "exited"} => bd[b].barrier = "none"
    BY <1>3, NoBarriers
  <1>5. Piped(b)' /\ Offers(b)
    BY <1>1, <1>2, <1>3, <1>4, RevokedPipes
  <1>. QED BY <1>1, <1>2, <1>3, <1>5, OneMoves

(* A binding is made. *)
LEMMA AttachPipes ==
    ASSUME BrokerInv, Pipeline, NEW t \in Threads, Attach(t)
    PROVE  Pipeline' /\ \A b \in 1 .. bindEpoch : Offers(b)
  <1>0. PICK n \in Binds : n = bindEpoch + 1
    BY BrokerAssumption DEF BrokerInv, BrokerTypeOK, Attach, Binds
  <1>1. bindEpoch \in Nat /\ bindEpoch' = n
    BY <1>0, BrokerAssumption DEF BrokerInv, BrokerTypeOK, Attach, Binds
  <1>2. bd'[n] = Fresh(t) /\ \A b \in Binds \ {n} : bd'[b] = bd[b]
    BY <1>0 DEF Attach, BrokerInv, BrokerTypeOK
  <1>3. UNCHANGED <<conn, connEpoch, sup, closing, link, notifs, emitted, oversize, sub>>
    BY DEF Attach, supVars
  <1>4. Upstream' => Upstream
    BY <1>3 DEF Upstream
  <1>5. PICK S \in SUBSET Binds : S = {n}
    BY <1>1
  <1>6. Channel' /\ \A x \in 1 .. bindEpoch : x \notin S => Piped(x)' /\ Offers(x)
    BY <1>2, <1>3, <1>4, <1>5, NoBarriers, OthersUntouched
  <1>7. \A x \in 1 .. bindEpoch : x \notin S
    BY <1>0, <1>1, <1>5
  <1>8. Piped(n)'
    <2>1. /\ Fresh(t).stage = "idle" /\ Fresh(t).buf = <<>> /\ Fresh(t).barrier = "none"
          /\ Len(Fresh(t).queue) = 0
      BY DEF Fresh
    <2>. QED BY <1>2, <2>1 DEF Piped, Staged, Buffered, Sound, Queued
  <1>9. \A x \in 1 .. bindEpoch' : x \in 1 .. bindEpoch \/ x = n
    BY <1>0, <1>1
  <1>10. \A x \in 1 .. bindEpoch' : Piped(x)'
    BY <1>6, <1>7, <1>8, <1>9
  <1>. QED BY <1>6, <1>7, <1>10 DEF Pipeline

(* The connection is subscribed to the thread of a barrier. *)
LEMMA ResumedPipes ==
    ASSUME BrokerInv, Pipeline, NEW b \in Binds, Resumed(b)
    PROVE  Pipeline' /\ Supplies
  <1>1. b \in 1 .. bindEpoch /\ Piped(b) /\ BrokerTypeOK /\ bd[b] \in Binding /\ Upstream
        /\ bd[b].thread \in Threads /\ Bounded(bd[b])
    BY Bindings DEF Resumed, Pipeline, BrokerInv, Bounded
  <1>2. bd'[b] = [bd[b] EXCEPT !.barrier = "read"] /\ \A x \in Binds \ {b} : bd'[x] = bd[x]
    BY DEF Resumed, BrokerInv, BrokerTypeOK
  <1>3. /\ UNCHANGED <<conn, connEpoch, sup, closing, bindEpoch, link, notifs, emitted, oversize>>
        /\ sub \subseteq sub' /\ bd[b].thread \in sub'
    BY DEF Resumed, supVars
  <1>4. sup \notin {"idle", "opening", "exited"} /\ bd[b].barrier = "resume"
    BY NoBarriers DEF Resumed
  <1>5. /\ bd'[b].stage = bd[b].stage /\ bd'[b].queue = bd[b].queue /\ bd'[b].buf = bd[b].buf
        /\ bd'[b].thread = bd[b].thread /\ bd'[b].revoked = bd[b].revoked
        /\ bd'[b].conn = bd[b].conn /\ bd'[b].barrier = "read"
    BY <1>1, <1>2 DEF Binding
  <1>6. Upstream' <=> Upstream
    BY <1>3 DEF Upstream
  <1>7. Staged(bd[b])'
    BY <1>1, <1>3, <1>4, <1>5, <1>6 DEF Piped, Staged
  <1>8. Piped(b)' /\ Offers(b)
    <2>1. CASE bd[b].stage = "idle"
      BY <1>1, <1>3, <1>5, <1>7, <2>1, Shelved
    <2>2. CASE bd[b].stage = "open"
      BY <1>1, <1>4, <2>2 DEF Piped, Staged
    <2>3. CASE bd[b].stage = "buffering"
      <3>1. PICK rec : rec = bd[b]
        OBVIOUS
      <3>2. PICK t \in Threads : t = rec.thread
        BY <1>1, <3>1
      <3>3. Sound(rec) /\ Buffered(rec) /\ Bounded(rec)
        BY <1>1, <2>3, <3>1 DEF Sound, Piped
      <3>4. rec.buf # <<>> => rec.buf[Len(rec.buf)] \in Versions
        BY <3>3, RecordFacts
      <3>5. \A v \in Versions : Reach(t, v) => Reach(t, v)'
        BY <1>3, <1>6, ReachKept DEF Reach
      <3>6. rec.buf # <<>> => Reach(t, rec.buf[Len(rec.buf)])'
        BY <3>2, <3>3, <3>4, <3>5 DEF Buffered
      <3>7. Buffered(bd[b])'
        BY <1>3, <1>5, <3>1, <3>2, <3>3, <3>6 DEF Buffered
      <3>8. Queued(bd[b])'
        BY <1>1, <1>3, <1>5, <2>3 DEF Piped, Queued, Follows
      <3>9. Offers(b)
        BY <1>1, <1>3, <1>5, <2>3, RecordFacts DEF Offers
      <3>. QED BY <1>7, <3>7, <3>8, <3>9 DEF Piped
    <2>. QED BY <1>1, <2>1, <2>2, <2>3, RecordFacts
  <1>. QED BY <1>1, <1>2, <1>3, <1>8, OneMoves

(* The snapshot is taken: what is buffered is not newer, and what is in the *)
(* channel goes on from it.                                                *)
LEMMA SnapshotPipes ==
    ASSUME BrokerInv, Pipeline, NEW b \in Binds, Snapshot(b)
    PROVE  Pipeline' /\ Supplies
  <1>1. b \in 1 .. bindEpoch /\ Piped(b) /\ BrokerTypeOK /\ bd[b] \in Binding /\ Upstream
        /\ bd[b].thread \in Threads /\ Bounded(bd[b])
    BY Bindings DEF Snapshot, Pipeline, BrokerInv, Bounded
  <1>2. /\ bd'[b] = [bd[b] EXCEPT !.barrier = "answered", !.snap = emitted[bd[b].thread]]
        /\ \A x \in Binds \ {b} : bd'[x] = bd[x]
    BY DEF Snapshot, BrokerInv, BrokerTypeOK
  <1>3. UNCHANGED <<conn, connEpoch, sup, closing, bindEpoch, link, notifs, emitted, oversize, sub>>
    BY DEF Snapshot, supVars
  <1>4. sup \notin {"idle", "opening", "exited"} /\ bd[b].barrier = "read"
    BY NoBarriers DEF Snapshot
  <1>5. /\ bd'[b].stage = bd[b].stage /\ bd'[b].queue = bd[b].queue /\ bd'[b].buf = bd[b].buf
        /\ bd'[b].thread = bd[b].thread /\ bd'[b].revoked = bd[b].revoked
        /\ bd'[b].conn = bd[b].conn /\ bd'[b].barrier = "answered"
        /\ bd'[b].snap = emitted[bd[b].thread]
    BY <1>1, <1>2 DEF Binding
  <1>6. Upstream' <=> Upstream
    BY <1>3 DEF Upstream
  <1>7. Staged(bd[b])'
    BY <1>1, <1>3, <1>4, <1>5, <1>6 DEF Piped, Staged
  <1>8. Piped(b)' /\ Offers(b)
    <2>1. CASE bd[b].stage = "idle"
      BY <1>1, <1>3, <1>5, <1>7, <2>1, Shelved
    <2>2. CASE bd[b].stage = "open"
      BY <1>1, <1>4, <2>2 DEF Piped, Staged
    <2>3. CASE bd[b].stage = "buffering"
      <3>1. PICK rec : rec = bd[b]
        OBVIOUS
      <3>2. PICK t \in Threads : t = rec.thread
        BY <1>1, <3>1
      <3>3. Sound(rec) /\ Buffered(rec) /\ Bounded(rec)
        BY <1>1, <2>3, <3>1 DEF Sound, Piped
      <3>4. rec.buf # <<>> => rec.buf[Len(rec.buf)] \in Versions
        BY <3>3, RecordFacts
      <3>5. \A v \in Versions : Reach(t, v) => Reach(t, v)'
        BY <1>3, <1>6, ReachKept DEF Reach
      <3>6. rec.buf # <<>> => Reach(t, rec.buf[Len(rec.buf)])'
        BY <3>2, <3>3, <3>4, <3>5 DEF Buffered
      <3>7. PICK v \in Versions : v = emitted[t]
        BY <1>1 DEF BrokerTypeOK
      <3>8. Reach(t, v)'
        <4>1. \A i \in 1 .. Len(notifs) : notifs[i].v <= emitted[notifs[i].thread]
          BY DEF Pipeline, Channel
        <4>2. v \in Nat /\ \A i \in 1 .. Len(notifs) : notifs[i].v \in Nat
          BY <1>1, Numbers
        <4>3. \A i \in 1 .. Len(notifs) : NextOf(t, 0, i) => Covers(oversize[t], v, notifs[i].v - 1)
          <5>1. \A i \in 1 .. Len(notifs) : NextOf(t, 0, i) => notifs[i].v - 1 <= v
            BY <3>7, <4>1, <4>2 DEF NextOf
          <5>. QED BY <4>2, <5>1 DEF Covers
        <4>4. Covers(oversize[t], v, emitted[t])
          BY <3>7, <4>2 DEF Covers
        <4>. QED BY <3>5, <4>3, <4>4 DEF Reach, ReachFrom
      <3>9. rec.buf # <<>> => Covers(oversize[t], v, rec.buf[1] - 1)
        <4>1. rec.buf # <<>> => rec.buf[1] \in Nat /\ 1 \in 1 .. Len(rec.buf)
          BY <3>3, RecordFacts
        <4>2. rec.buf # <<>> => rec.buf[1] <= emitted[t]
          BY <3>2, <3>3, <4>1 DEF Buffered
        <4>3. v \in Nat
          BY <1>1, Numbers
        <4>. QED BY <3>7, <4>1, <4>2, <4>3 DEF Covers
      <3>10. rec.thread \in sub
        BY <1>4, <3>1, <3>3 DEF Buffered
      <3>11. Buffered(bd[b])'
        BY <1>3, <1>5, <3>1, <3>2, <3>3, <3>6, <3>7, <3>8, <3>9, <3>10 DEF Buffered
      <3>12. Queued(bd[b])'
        BY <1>1, <1>3, <1>5, <2>3 DEF Piped, Queued, Follows
      <3>13. Offers(b)
        BY <1>1, <1>3, <1>5, <2>3, RecordFacts DEF Offers
      <3>. QED BY <1>7, <3>11, <3>12, <3>13 DEF Piped
    <2>. QED BY <1>1, <2>1, <2>2, <2>3, RecordFacts
  <1>. QED BY <1>1, <1>2, <1>3, <1>8, OneMoves


-----------------------------------------------------------------------------
(* Events that reach a queue. *)

(* emitLocked: what fits is appended in order, and the binding is revoked   *)
(* when something does not fit.                                            *)
Emitted(rec, events, new) ==
    /\ Bounded(new)
    /\ new.thread = rec.thread /\ new.barrier = rec.barrier /\ new.suspends = rec.suspends
    /\ Len(new.queue) \in Len(rec.queue) .. Len(rec.queue) + Len(events)
    /\ \A i \in 1 .. Len(rec.queue) : new.queue[i] = rec.queue[i]
    /\ \A i \in Len(rec.queue) + 1 .. Len(new.queue) : new.queue[i] = events[i - Len(rec.queue)]
    /\ new.revoked => new.stage = "idle" /\ new.buf = <<>>
    /\ ~new.revoked => /\ Len(new.queue) = Len(rec.queue) + Len(events)
                       /\ new.stage = rec.stage /\ new.conn = rec.conn /\ new.buf = rec.buf

(* Emit does that. *)
LEMMA EmitQueue ==
    ASSUME NEW rec, Bounded(rec), ~rec.revoked, NEW events \in Seq(Events)
    PROVE  Emitted(rec, events, Emit(rec, events))
  <1>0. PICK new : new = Emit(rec, events)
    OBVIOUS
  <1>. DEFINE room == Backlog - Len(rec.queue)
              cut == SubSeq(events, 1, room)
  <1>1. rec.queue \in Seq(Events) /\ Len(rec.queue) \in Nat /\ room \in Nat /\ Len(events) \in Nat
        /\ rec \in Binding
    BY BrokerAssumption DEF Bounded, Binding
  <1>2. Bounded(new) /\ new.thread = rec.thread /\ new.barrier = rec.barrier
    BY <1>0, EmitMoves DEF Moves
  <1>3. CASE Len(events) <= room
    <2>1. new = [rec EXCEPT !.queue = rec.queue \o events]
      BY <1>0, <1>3 DEF Emit
    <2>2. /\ Len(rec.queue \o events) = Len(rec.queue) + Len(events)
          /\ \A i \in 1 .. Len(rec.queue) : (rec.queue \o events)[i] = rec.queue[i]
          /\ \A i \in Len(rec.queue) + 1 .. Len(rec.queue) + Len(events) :
                (rec.queue \o events)[i] = events[i - Len(rec.queue)]
      BY <1>1, ConcatProperties
    <2>3. /\ new.queue = rec.queue \o events /\ new.suspends = rec.suspends
          /\ new.stage = rec.stage /\ new.conn = rec.conn /\ new.buf = rec.buf /\ ~new.revoked
      BY <1>1, <2>1 DEF Binding
    <2>4. Len(new.queue) \in Len(rec.queue) .. Len(rec.queue) + Len(events)
      BY <1>1, <2>2, <2>3
    <2>. QED BY <1>0, <1>2, <2>2, <2>3, <2>4 DEF Emitted
  <1>4. CASE ~(Len(events) <= room)
    <2>1. /\ cut \in Seq(Events) /\ Len(cut) = room
          /\ \A i \in 1 .. room : cut[i] = events[i]
      BY <1>1, <1>4, SubSeqProperties
    <2>2. new = Revoked([rec EXCEPT !.queue = rec.queue \o cut])
      BY <1>0, <1>4 DEF Emit
    <2>. HIDE DEF cut
    <2>3. /\ Len(rec.queue \o cut) = Len(rec.queue) + room
          /\ \A i \in 1 .. Len(rec.queue) : (rec.queue \o cut)[i] = rec.queue[i]
          /\ \A i \in Len(rec.queue) + 1 .. Len(rec.queue) + room :
                (rec.queue \o cut)[i] = cut[i - Len(rec.queue)]
      BY <1>1, <2>1, ConcatProperties
    <2>4. /\ new.queue = rec.queue \o cut /\ new.suspends = rec.suspends
          /\ new.stage = "idle" /\ new.buf = <<>> /\ new.revoked
      BY <1>1, <2>2 DEF Binding, Revoked
    <2>. HIDE DEF room
    <2>5. \A i \in Len(rec.queue) + 1 .. Len(rec.queue) + room :
             new.queue[i] = events[i - Len(rec.queue)]
      <3>1. \A i \in Len(rec.queue) + 1 .. Len(rec.queue) + room : i - Len(rec.queue) \in 1 .. room
        BY <1>1
      <3>. QED BY <2>1, <2>3, <2>4, <3>1
    <2>6. Len(new.queue) \in Len(rec.queue) .. Len(rec.queue) + Len(events)
      BY <1>1, <1>4, <2>3, <2>4 
    <2>. QED BY <1>0, <1>2, <2>3, <2>4, <2>5, <2>6 DEF Emitted
  <1>. QED BY <1>3, <1>4

(* Events without a gap are appended to a queue without a gap. *)
LEMMA EmitPipes ==
    ASSUME BrokerTypeOK, oversize' = oversize, NEW b \in Binds, Piped(b), NEW t \in Threads, t = bd[b].thread,
           NEW rec, Bounded(rec), ~rec.revoked, rec.queue = bd[b].queue, rec.thread = t,
           rec.suspends = bd[b].suspends, rec.stage = "open", rec.conn = conn, conn # 0,
           rec.buf = <<>>, rec.barrier = "none",
           NEW events \in Seq(Events), events # <<>>, bd'[b] = Emit(rec, events),
           conn' = conn, t \in sub',
           \A i \in 2 .. Len(events) :
              ~events[i].snap => Follows(oversize[t], events[i], events[i - 1].v, events[i - 1].conn),
           \/ events[1].snap
           \/ bd[b].stage = "open" /\ \A v \in Versions : Reach(t, v) => Follows(oversize[t], events[1], v, conn),
           events[Len(events)].conn = conn,
           \A v \in Versions : v = events[Len(events)].v => Reach(t, v)'
    PROVE  Piped(b)' /\ Offers(b)
  <1>. DEFINE old == bd[b]
              new == bd'[b]
              k == Len(rec.queue)
  <1>1. /\ Bounded(new) /\ new.thread = t /\ new.barrier = "none" /\ new.suspends = old.suspends
        /\ Len(new.queue) \in k .. k + Len(events)
        /\ \A i \in 1 .. k : new.queue[i] = old.queue[i]
        /\ \A i \in k + 1 .. Len(new.queue) : new.queue[i] = events[i - k]
        /\ new.revoked => new.stage = "idle" /\ new.buf = <<>>
        /\ ~new.revoked => /\ Len(new.queue) = k + Len(events)
                           /\ new.stage = "open" /\ new.conn = conn /\ new.buf = <<>>
    <2>1. Emitted(rec, events, new)
      BY EmitQueue
    <2>. QED BY <2>1 DEF Emitted
  <1>2. k \in Nat /\ Len(events) \in Nat /\ Len(events) > 0 /\ k = Len(old.queue) /\ Bounded(old)
        /\ rec.queue = old.queue
    <2>1. Bounded(old)
      BY TypeRecords DEF RecordsOK
    <2>. QED BY <2>1, RecordFacts, EmptySeq
  <1>3. Staged(bd[b])'
    BY <1>1 DEF Staged
  <1>4. Buffered(bd[b])'
    BY <1>1 DEF Buffered, Sound
  <1>5. Len(new.queue) \in Nat /\ (new.queue = <<>> <=> Len(new.queue) = 0)
    BY <1>1, RecordFacts
  <1>6. Queued(bd[b])'
    <2>1. ASSUME NEW i \in 2 .. Len(new.queue), ~new.queue[i].snap
          PROVE  Follows(oversize[t], new.queue[i], new.queue[i - 1].v, new.queue[i - 1].conn)
      <3>1. CASE i <= k
        <4>1. i \in 1 .. k /\ i - 1 \in 1 .. k /\ i \in 2 .. k
          BY <1>2, <3>1
        <4>. QED BY <1>1, <1>2, <2>1, <4>1 DEF Piped, Queued
      <3>2. CASE i = k + 1
        <4>1. k \in 1 .. k /\ k # 0 /\ i - 1 = k /\ i \in k + 1 .. Len(new.queue) /\ i - k = 1
          BY <1>2, <3>2
        <4>2. new.queue[i] = events[1] /\ new.queue[i - 1] = old.queue[k]
          BY <1>1, <4>1
        <4>3. old.stage = "open" /\ \A v \in Versions : Reach(t, v) => Follows(oversize[t], events[1], v, conn)
          BY <2>1, <4>2
        <4>4. old.queue # <<>> /\ old.queue[k].v \in Versions
          BY <1>2, <4>1, RecordFacts
        <4>5. old.queue[k].conn = conn /\ Reach(t, old.queue[k].v)
          BY <1>2, <4>3, <4>4 DEF Piped, Queued
        <4>. QED BY <4>2, <4>3, <4>4, <4>5
      <3>3. CASE i > k + 1
        <4>1. /\ i \in k + 1 .. Len(new.queue) /\ i - 1 \in k + 1 .. Len(new.queue)
              /\ i - k \in 2 .. Len(events) /\ (i - 1) - k = (i - k) - 1
          BY <1>1, <1>2, <1>5, <3>3
        <4>2. new.queue[i] = events[i - k] /\ new.queue[i - 1] = events[(i - k) - 1]
          BY <1>1, <4>1
        <4>. QED BY <2>1, <4>1, <4>2
      <3>4. i \in Nat /\ k \in Nat
        BY <1>2, <1>5
      <3>. HIDE DEF k, new
      <3>. QED BY <3>1, <3>2, <3>3, <3>4
    <2>2. new.stage = "open" =>
             /\ t \in sub' /\ new.queue[Len(new.queue)].conn = conn
             /\ \A v \in Versions : v = new.queue[Len(new.queue)].v => Reach(t, v)'
      <3>1. ~new.revoked => /\ Len(new.queue) \in k + 1 .. Len(new.queue)
                            /\ Len(new.queue) - k = Len(events)
        BY <1>1, <1>2
      <3>. QED BY <1>1, <3>1
    <2>3. new.stage = "open" => new.queue[Len(new.queue)].v \in Versions
      <3>1. new.stage = "open" => Len(new.queue) \in 1 .. Len(new.queue)
        BY <1>1, <1>2
      <3>. QED BY <1>1, <3>1, RecordFacts
    <2>4. new.stage = "open" => \A v : v = new.queue[Len(new.queue)].v => Reach(t, v)'
      BY <2>2, <2>3
    <2>. QED BY <1>1, <2>1, <2>2, <2>4 DEF Queued, Follows
  <1>7. Offers(b)
    <2>1. new.stage = "open" => Len(new.queue) = k + Len(events)
      BY <1>1
    <2>2. old.queue = <<>> /\ new.queue # <<>> => new.queue[1] = events[1]
      <3>1. old.queue = <<>> => k = 0
        BY <1>2, RecordFacts
      <3>2. new.queue # <<>> /\ k = 0 => 1 \in k + 1 .. Len(new.queue) /\ 1 - k = 1
        BY <1>2, <1>5
      <3>. QED BY <1>1, <3>1, <3>2
    <2>3. new.stage = "open" /\ events[1].snap => \E i \in 1 .. Len(new.queue) : new.queue[i].snap
      <3>1. new.stage = "open" => /\ k + 1 \in 1 .. Len(new.queue)
                                  /\ k + 1 \in k + 1 .. Len(new.queue) /\ (k + 1) - k = 1
        BY <1>2, <2>1
      <3>. QED BY <1>1, <3>1
    <2>4. new.stage = "open" => new.queue # <<>>
      BY <1>2, <1>5, <2>1
    <2>5. k <= Len(new.queue)
      BY <1>1, <1>2, <1>5
    <2>. HIDE DEF k, new
    <2>6. k = Len(bd[b].queue) /\ new = bd'[b]
      BY <1>2 DEF new
    <2>. QED BY <1>1, <1>2, <2>2, <2>3, <2>4, <2>5, <2>6 DEF Offers
  <1>. QED BY <1>3, <1>4, <1>6, <1>7 DEF Piped


(* acceptLocked, while the snapshot is outstanding: the event goes on from  *)
(* what is buffered, or from the snapshot.                                 *)
LEMMA BufferPipes ==
    ASSUME BrokerTypeOK, NEW b \in Binds, Piped(b), NEW t \in Threads, t = bd[b].thread, t \in sub,
           bd[b].stage = "buffering", NEW v \in Versions, v <= emitted[t],
           \A w \in Versions : Reach(t, w) => Covers(oversize[t], w, v - 1), Reach(t, v)',
           bd'[b] = [bd[b] EXCEPT !.buf = Append(bd[b].buf, v)],
           UNCHANGED <<conn, sup, closing, emitted, oversize, sub>>, Upstream' <=> Upstream
    PROVE  Piped(b)' /\ Offers(b)
  <1>1. PICK rec : rec = bd[b]
    OBVIOUS
  <1>2. PICK new : new = bd'[b]
    OBVIOUS
  <1>3. Bounded(rec) /\ Staged(rec) /\ Buffered(rec) /\ Queued(rec) /\ rec.thread = t
    BY <1>1, TypeRecords DEF RecordsOK, Piped
  <1>4. /\ new.buf = Append(rec.buf, v) /\ new.thread = t /\ new.stage = "buffering"
        /\ new.conn = rec.conn /\ new.barrier = rec.barrier /\ new.snap = rec.snap
        /\ new.queue = rec.queue /\ new.revoked = rec.revoked /\ new.suspends = rec.suspends
    BY <1>1, <1>2, <1>3 DEF Bounded, Binding
  <1>. DEFINE k == Len(rec.buf)
  <1>5. /\ k \in Nat /\ Len(new.buf) = k + 1 /\ new.buf[k + 1] = v
        /\ \A i \in 1 .. k : new.buf[i] = rec.buf[i] /\ rec.buf[i] \in Versions
        /\ rec.buf = <<>> <=> k = 0
        /\ rec.snap \in Versions
    <2>1. rec.buf \in Seq(Versions)
      BY <1>3, RecordFacts
    <2>. QED BY <1>3, <1>4, <2>1, RecordFacts, AppendProperties
  <1>. HIDE DEF k
  <1>6. Staged(new)'
    BY <1>1, <1>3, <1>4 DEF Staged
  <1>7. Buffered(new)'
    <2>. SUFFICES ASSUME Sound(new)' PROVE Buffered(new)'
      BY DEF Buffered
    <2>1. Sound(rec)
      BY <1>1, <1>4 DEF Sound
    <2>2. \A i \in 1 .. k + 1 : new.buf[i] <= emitted[t]
      <3>1. \A i \in 1 .. k : rec.buf[i] <= emitted[t]
        BY <1>3, <2>1 DEF Buffered, k
      <3>2. \A i \in 1 .. k + 1 : i \in 1 .. k \/ i = k + 1
        BY <1>5
      <3>. QED BY <1>5, <3>1, <3>2
    <2>3. \A i \in 2 .. k + 1 : Covers(oversize[t], new.buf[i - 1], new.buf[i] - 1)
      <3>. SUFFICES ASSUME NEW i \in 2 .. k + 1 
                    PROVE  Covers(oversize[t], new.buf[i - 1], new.buf[i] - 1)
        OBVIOUS
      <3>1. CASE i = k + 1
        <4>1. k \in 1 .. k /\ i - 1 = k /\ rec.buf # <<>>
          BY <1>5, <3>1
        <4>2. Reach(t, rec.buf[k])
          BY <1>3, <2>1, <4>1 DEF Buffered, k
        <4>3. Covers(oversize[t], rec.buf[k], v - 1)
          BY <1>5, <4>1, <4>2
        <4>. QED BY <1>5, <3>1, <4>1, <4>3
      <3>2. CASE i # k + 1
        <4>1. i \in 1 .. k /\ i - 1 \in 1 .. k /\ i \in 2 .. k
          BY <1>5, <3>2
        <4>2. Covers(oversize[t], rec.buf[i - 1], rec.buf[i] - 1)
          BY <1>3, <2>1, <4>1 DEF Buffered, k
        <4>. QED BY <1>5, <4>1, <4>2
      <3>. QED BY <3>1, <3>2
    <2>4. Reach(t, new.buf[Len(new.buf)])'
      BY <1>5
    <2>5. new.barrier = "answered" => Covers(oversize[t], new.snap, new.buf[1] - 1) /\ new.buf # <<>>
      <3>1. CASE k = 0
        BY <1>3, <1>4, <1>5, <2>1, <3>1 DEF Buffered
      <3>2. CASE k # 0
        <4>1. 1 \in 1 .. k
          BY <1>5, <3>2
        <4>. QED BY <1>3, <1>4, <1>5, <2>1, <3>2, <4>1 DEF Buffered
      <3>. QED BY <3>1, <3>2
    <2>. QED BY <1>4, <1>5, <2>2, <2>3, <2>4, <2>5 DEF Buffered
  <1>8. Queued(new)'
    BY <1>3, <1>4 DEF Queued, Follows
  <1>9. Offers(b)
    BY <1>1, <1>2, <1>3, <1>4, RecordFacts DEF Offers
  <1>. QED BY <1>2, <1>6, <1>7, <1>8, <1>9 DEF Piped

(* routeNotification *)
LEMMA RoutePipes ==
    ASSUME BrokerInv, Pipeline, Route
    PROVE  Pipeline' /\ Supplies
  <1>1. BrokerTypeOK /\ Channel /\ notifs # <<>> /\ notifs' = Tail(notifs)
        /\ UNCHANGED <<conn, connEpoch, sup, closing, bindEpoch, link, emitted, oversize, sub>>
        /\ sup = "serving" /\ conn \in Conns /\ conn # 0
    BY DEF BrokerInv, BrokerTypeOK, Pipeline, Route, supVars, Connected
  <1>2. Upstream' <=> Upstream
    BY <1>1 DEF Upstream
  <1>3. /\ Len(notifs') = Len(notifs) - 1
        /\ \A i \in 1 .. Len(notifs') : notifs'[i] = notifs[i + 1]
        /\ \A t \in Threads, n \in Nat, v \in Versions :
              ReachFrom(t, n + 1, v) => ReachFrom(t, n, v)'
        /\ \A t \in Threads, v \in Versions :
              t # notifs[1].thread /\ Reach(t, v) => Reach(t, v)'
        /\ \A v \in Versions : Reach(notifs[1].thread, v) => 
              Covers(oversize[notifs[1].thread], v, notifs[1].v - 1)
    BY <1>1, <1>2, ReachTail
  <1>4. /\ Len(notifs) \in Nat /\ Len(notifs) # 0
        /\ \A i \in 1 .. Len(notifs) : /\ notifs[i].thread \in Threads /\ notifs[i].v \in Versions
                                       /\ notifs[i].v \in Nat
    BY <1>1, Numbers, EmptySeq DEF Notifications
  <1>5. PICK t \in Threads, v \in Versions :
           /\ t = notifs[1].thread /\ v = notifs[1].v /\ t \in sub /\ v <= emitted[t]
           /\ ReachFrom(t, 1, v)
    <2>1. 1 \in 1 .. Len(notifs)
      BY <1>4
    <2>. QED BY <1>1, <1>4, <2>1 DEF Channel
  <1>6. Reach(t, v)'
    <2>1. ReachFrom(t, 0 + 1, v)
      BY <1>5
    <2>. QED BY <1>3, <2>1 DEF Reach
  <1>7. Channel'
    <2>1. ASSUME NEW i \in 1 .. Len(notifs')
          PROVE  /\ notifs'[i].thread \in sub' /\ notifs'[i].v <= emitted'[notifs'[i].thread]
                 /\ ReachFrom(notifs[i].thread, i, notifs[i].v)'
      <3>1. i + 1 \in 1 .. Len(notifs) /\ i \in Nat
        BY <1>3, <1>4
      <3>2. PICK u \in Threads, w \in Versions : u = notifs[i + 1].thread /\ w = notifs[i + 1].v
        BY <1>4, <3>1
      <3>3. u \in sub /\ w <= emitted[u] /\ ReachFrom(u, i + 1, w)
        BY <1>1, <3>1, <3>2 DEF Channel
      <3>4. ReachFrom(u, i, w)' /\ notifs'[i].thread = u /\ notifs'[i].v = w
        BY <1>3, <3>1, <3>2, <3>3
      <3>. QED BY <1>1, <3>3, <3>4
    <2>. QED BY <1>1, <2>1 DEF Channel
  <1>8. ASSUME NEW x \in 1 .. bindEpoch, bd'[x] = bd[x],
               bd[x].thread # t \/ bd[x].revoked \/ bd[x].stage = "idle"
        PROVE  Piped(x)' /\ Offers(x)
    <2>1. x \in Binds /\ bd[x].thread \in Threads /\ Bounded(bd[x]) /\ Piped(x)
      BY Bindings DEF Pipeline
    <2>2. CASE bd[x].thread # t
      <3>1. emitted[bd[x].thread] \in Nat
        BY <1>1, <2>1, Numbers
      <3>2. emitted[bd[x].thread] <= emitted'[bd[x].thread]
        BY <1>1, <3>1
      <3>. QED BY <1>1, <1>2, <1>3, <1>5, <1>8, <2>1, <2>2, <3>1, <3>2, Untouched
    <2>3. CASE bd[x].revoked \/ bd[x].stage = "idle"
      <3>1. bd[x].stage = "idle"
        BY <2>1, <2>3, RecordFacts DEF Piped, Staged
      <3>2. Staged(bd[x])'
        BY <1>1, <1>2, <1>8, <2>1 DEF Piped, Staged
      <3>. QED BY <1>1, <1>8, <2>1, <3>1, <3>2, Shelved
    <2>. QED BY <1>8, <2>2, <2>3
  <1>9. \A x \in 1 .. bindEpoch : bd[x].thread = t /\ bound[t] # x => bd[x].revoked
    BY Bindings DEF BrokerInv, Routed
  <1>10. Head(notifs) = notifs[1]
    BY <1>1
  <1>11. CASE bound[t] = 0
    <2>1. UNCHANGED bd
      BY <1>5, <1>10, <1>11 DEF Route
    <2>2. \A x \in 1 .. bindEpoch : bound[t] # x
      BY <1>11
    <2>3. \A x \in 1 .. bindEpoch : Piped(x)' /\ Offers(x)
      BY <1>8, <1>9, <2>1, <2>2
    <2>. QED BY <1>1, <1>7, <2>3 DEF Pipeline, Supplies
  <1>12. CASE bound[t] # 0
    <2>1. PICK b \in Binds : b = bound[t]
      BY <1>1, <1>12 DEF BrokerTypeOK
    <2>2. /\ bd[b].thread = t /\ ~bd[b].revoked /\ b \in 1 .. bindEpoch
          /\ Piped(b) /\ Bounded(bd[b]) /\ bd[b] \in Binding
      BY <2>1, Bindings DEF BrokerInv, Routed, Pipeline, Bounded
    <2>3. bd'[b] = Accept(bd[b], v, conn) /\ \A x \in Binds \ {b} : bd'[x] = bd[x]
      BY <1>1, <1>5, <1>10, <1>12, <2>1 DEF Route, Install, BrokerTypeOK
    <2>4. \A x \in 1 .. bindEpoch : x # b => Piped(x)' /\ Offers(x)
      <3>1. 1 .. bindEpoch \subseteq Binds
        BY Bindings
      <3>. QED BY <1>8, <1>9, <2>1, <2>3, <3>1
    <2>5. Piped(b)' /\ Offers(b)
      <3>1. CASE bd[b].stage = "idle"
        BY <1>8, <2>2, <2>3, <3>1 DEF Accept
      <3>2. CASE bd[b].stage = "buffering" /\ Len(bd[b].buf) < Backlog
        <4>1. bd'[b] = [bd[b] EXCEPT !.buf = Append(bd[b].buf, v)]
          BY <2>3, <3>2 DEF Accept
        <4>2. \A w \in Versions : Reach(t, w) => Covers(oversize[t], w, v - 1)
          BY <1>3, <1>5
        <4>. QED BY <1>1, <1>2, <1>5, <1>6, <2>2, <3>2, <4>1, <4>2, BufferPipes
      <3>3. CASE bd[b].stage = "buffering" /\ ~(Len(bd[b].buf) < Backlog)
        <4>1. bd'[b] = Revoked(bd[b])
          BY <2>3, <3>3 DEF Accept
        <4>. QED BY <1>1, <2>2, <4>1, RevokedPipes
      <3>4. CASE bd[b].stage = "open"
        <4>. DEFINE events == <<Live(v, conn)>>
        <4>1. bd'[b] = Emit(bd[b], events)
          BY <2>3, <3>4 DEF Accept
        <4>2. /\ events \in Seq(Events) /\ events # <<>> /\ Len(events) = 1
              /\ events[1].v = v /\ events[1].conn = conn
          BY <1>1 DEF Live, Events
        <4>3. \A w \in Versions : Reach(t, w) => Follows(oversize[t], events[1], w, conn)
          BY <1>3, <1>5, <4>2 DEF Follows
        <4>4. /\ bd[b].conn = conn /\ bd[b].buf = <<>> /\ bd[b].barrier = "none"
          BY <1>1, <2>2, <3>4 DEF Piped, Staged
        <4>. HIDE DEF events
        <4>5. \A i \in 2 .. Len(events) :
                 ~events[i].snap => Follows(oversize[t], events[i], events[i - 1].v, events[i - 1].conn)
          BY <4>2
        <4>. QED BY <1>1, <1>5, <1>6, <2>2, <3>4, <4>1, <4>2, <4>3, <4>4, <4>5, EmitPipes
      <3>. QED BY <2>2, <3>1, <3>2, <3>3, <3>4, RecordFacts
    <2>. QED BY <1>1, <1>7, <2>4, <2>5 DEF Pipeline, Supplies
  <1>. QED BY <1>11, <1>12


(* closeBarrierLocked: the snapshot and what was buffered behind it have no *)
(* gap.                                                                    *)
LEMMA MergePipes ==
    ASSUME BrokerInv, Pipeline, NEW b \in 1 .. bindEpoch, bd[b].barrier = "answered", ~bd[b].revoked,
           conn # 0, UNCHANGED <<conn, connEpoch, link, notifs, emitted, oversize, sub>>,
           bd'[b] = CloseBarrier([bd[b] EXCEPT !.barrier = "none", !.snap = 0], bd[b].snap, conn)
    PROVE  Piped(b)' /\ Offers(b)
  <1>1. PICK old : old = bd[b]
    OBVIOUS
  <1>2. PICK t \in Threads : t = old.thread
    BY <1>1, Bindings
  <1>3. b \in Binds /\ Bounded(old) /\ Piped(b) /\ BrokerTypeOK /\ conn \in Conns /\ old \in Binding
    BY <1>1, Bindings DEF BrokerInv, BrokerTypeOK, Pipeline, Bounded
  <1>4. Staged(old) /\ Buffered(old) /\ old.stage = "buffering" /\ Sound(old)
    BY <1>1, <1>3 DEF Piped, Staged, Sound
  <1>. DEFINE rec == [old EXCEPT !.barrier = "none", !.snap = 0]
              opened == [rec EXCEPT !.stage = "open", !.conn = conn, !.buf = <<>>]
              live == [i \in 1 .. Len(rec.buf) |-> Live(rec.buf[i], conn)]
              first == <<[snap |-> TRUE, v |-> old.snap, conn |-> conn]>>
              events == first \o live
              k == Len(old.buf)
  <1>5. /\ Bounded(opened) /\ ~opened.revoked /\ opened.queue = old.queue /\ opened.thread = t
        /\ opened.suspends = old.suspends /\ opened.stage = "open" /\ opened.conn = conn
        /\ opened.buf = <<>> /\ opened.barrier = "none" /\ rec.buf = old.buf
    BY <1>1, <1>2, <1>3, EmptyBuffer, NoVersion DEF Bounded, Binding
  <1>6. bd'[b] = Emit(opened, events)
    BY <1>1 DEF CloseBarrier
  <1>7. /\ k \in Nat /\ old.snap \in Versions /\ old.snap \in Nat /\ (old.buf = <<>> <=> k = 0)
        /\ \A i \in 1 .. k : old.buf[i] \in Versions /\ old.buf[i] \in Nat
    BY <1>3, RecordFacts
  <1>8. live \in Seq(Events) /\ Len(live) = k /\ \A i \in 1 .. k : live[i] = Live(old.buf[i], conn)
    <2>1. \A i \in 1 .. k : Live(old.buf[i], conn) \in Events
      BY <1>3, <1>7 DEF Live, Events
    <2>2. live \in Seq(Events)
      BY <1>5, <1>7, <2>1, IsASeq
    <2>. QED BY <1>5, <1>7, <2>2
  <1>9. /\ first \in Seq(Events) /\ Len(first) = 1
        /\ first[1].snap = TRUE /\ first[1].v = old.snap /\ first[1].conn = conn
    BY <1>3, <1>7 DEF Events
  <1>. HIDE DEF rec, opened, live, first
  <1>10. /\ events \in Seq(Events) /\ Len(events) = k + 1 /\ events[1] = first[1]
         /\ \A i \in 2 .. k + 1 : events[i] = live[i - 1]
    <2>1. first \in Seq(Events) /\ live \in Seq(Events)
      BY <1>8, <1>9
    <2>2. /\ events \in Seq(Events) /\ Len(events) = Len(first) + Len(live)
          /\ \A i \in 1 .. Len(first) : events[i] = first[i]
          /\ \A i \in Len(first) + 1 .. Len(first) + Len(live) : events[i] = live[i - Len(first)]
      BY <2>1, ConcatProperties
    <2>3. Len(first) = 1 /\ Len(live) = k /\ k \in Nat
      BY <1>7, <1>8, <1>9
    <2>. HIDE DEF events, k
    <2>. QED BY <2>2, <2>3
  <1>. HIDE DEF events
  <1>11. \A i \in 2 .. k + 1 : /\ events[i].v = old.buf[i - 1] /\ events[i].conn = conn
                               /\ i - 1 \in 1 .. k
    <2>1. \A i \in 2 .. k + 1 : i - 1 \in 1 .. k
      BY <1>7
    <2>2. \A v : Live(v, conn).v = v /\ Live(v, conn).conn = conn
      BY DEF Live
    <2>. HIDE DEF k
    <2>. QED BY <1>8, <1>10, <2>1, <2>2
  <1>. HIDE DEF k
  <1>12. \A i \in 2 .. k + 1 : Follows(oversize[t], events[i], events[i - 1].v, events[i - 1].conn)
    <2>. SUFFICES ASSUME NEW i \in 2 .. k + 1
                  PROVE  Follows(oversize[t], events[i], events[i - 1].v, events[i - 1].conn)
      OBVIOUS
    <2>1. CASE i = 2
      <3>1. 1 \in 1 .. k /\ k # 0
        BY <1>7, <2>1
      <3>2. Covers(oversize[t], old.snap, old.buf[1] - 1)
        BY <1>1, <1>2, <1>4, <1>7, <3>1 DEF Buffered
      <3>. QED BY <1>9, <1>10, <1>11, <2>1, <3>2 DEF Follows
    <2>2. CASE i # 2
      <3>1. i - 1 \in 2 .. k + 1 /\ i - 1 \in 2 .. k
        BY <1>7, <2>2
      <3>2. Covers(oversize[t], old.buf[(i - 1) - 1], old.buf[i - 1] - 1)
        BY <1>2, <1>4, <3>1 DEF Buffered, k
      <3>. QED BY <1>11, <3>1, <3>2 DEF Follows
    <2>. QED BY <2>1, <2>2
  <1>13. /\ events[Len(events)].conn = conn
         /\ \A v \in Versions : v = events[Len(events)].v => Reach(t, v)'
    <2>1. \A v \in Versions : Reach(t, v) => Reach(t, v)'
      <3>1. Upstream' => Upstream
        BY DEF Upstream
      <3>. QED BY <3>1, ReachKept DEF Reach
    <2>2. CASE k = 0
      <3>1. Reach(t, old.snap)
        BY <1>1, <1>2, <1>4, <1>7, <2>2 DEF Buffered
      <3>2. events[Len(events)] = first[1]
        BY <1>10, <2>2
      <3>. QED BY <1>7, <1>9, <2>1, <3>1, <3>2
    <2>3. CASE k # 0
      <3>1. Reach(t, old.buf[k])
        BY <1>2, <1>4, <1>7, <2>3 DEF Buffered, k
      <3>2. k + 1 \in 2 .. k + 1 /\ (k + 1) - 1 = k /\ Len(events) = k + 1
        BY <1>7, <1>10, <2>3
      <3>3. events[Len(events)].v = old.buf[k] /\ events[Len(events)].conn = conn
        BY <1>11, <3>2
      <3>. QED BY <2>1, <3>1, <3>3
    <2>. QED BY <2>2, <2>3
  <1>14. t \in sub'
    BY <1>1, <1>2, <1>4 DEF Buffered
  <1>15. events # <<>>
    BY <1>7, <1>10, EmptySeq
  <1>16. events[1].snap
    BY <1>9, <1>10
  <1>17. \A i \in 2 .. Len(events) :
            ~events[i].snap => Follows(oversize[t], events[i], events[i - 1].v, events[i - 1].conn)
    BY <1>10, <1>12
  <1>18. opened.queue = bd[b].queue /\ opened.suspends = bd[b].suspends /\ t = bd[b].thread
    BY <1>1, <1>2, <1>5
  <1>. QED BY <1>3, <1>5, <1>6, <1>10, <1>13, <1>14, <1>15, <1>16, <1>17, <1>18, EmitPipes

(* runBarrier ends. *)
LEMMA BarrierEndsPipes ==
    ASSUME BrokerInv, Pipeline, NEW b \in Binds, BarrierEnds(b)
    PROVE  Pipeline' /\ Supplies
  <1>. DEFINE rec == [bd[b] EXCEPT !.barrier = "none", !.snap = 0]
              left == [rec EXCEPT !.stage = "idle", !.conn = 0]
  <1>1. b \in 1 .. bindEpoch /\ Piped(b) /\ BrokerTypeOK /\ Bounded(bd[b]) /\ bd[b] \in Binding
    BY Bindings DEF BarrierEnds, Pipeline, BrokerInv, Bounded
  <1>2. UNCHANGED <<conn, connEpoch, sup, closing, bindEpoch, link, notifs, emitted, oversize, sub>>
    BY DEF BarrierEnds, supVars
  <1>3. \A x \in Binds \ {b} : bd'[x] = bd[x]
    BY <1>1 DEF BarrierEnds, Install, BrokerTypeOK
  <1>4. Upstream' <=> Upstream
    BY <1>2 DEF Upstream
  <1>5. /\ rec \in Binding /\ rec.queue = bd[b].queue /\ rec.thread = bd[b].thread
        /\ rec.barrier = "none" /\ rec.stage = bd[b].stage /\ rec.buf = bd[b].buf
        /\ rec.revoked = bd[b].revoked /\ rec.conn = bd[b].conn
    BY <1>1, NoVersion DEF Binding
  <1>6. /\ left.queue = bd[b].queue /\ left.thread = bd[b].thread /\ left.stage = "idle"
        /\ left.barrier = "none" /\ left.revoked = bd[b].revoked /\ left.buf = bd[b].buf
    BY <1>1 DEF Binding
  <1>7. Piped(b)' /\ Offers(b)
    <2>1. CASE (conn = 0 \/ bd[b].revoked) /\ bd'[b] = rec
      <3>1. bd[b].stage = "idle" /\ bd[b].buf = <<>>
        BY <1>1, <2>1, RecordFacts DEF Piped, Staged
      <3>. HIDE DEF rec
      <3>2. Staged(bd[b])'
        BY <1>2, <1>5, <2>1, <3>1 DEF Staged
      <3>. QED BY <1>1, <1>2, <1>5, <2>1, <3>1, <3>2, Shelved
    <2>2. CASE /\ conn # 0 /\ ~bd[b].revoked /\ (link[connEpoch] = "disconnected" \/ closing)
               /\ bd'[b] = left
      <3>1. ~Upstream \/ closing
        BY <2>2 DEF Upstream
      <3>. HIDE DEF left, rec
      <3>2. Staged(bd[b])'
        BY <1>2, <1>4, <1>6, <2>2, <3>1 DEF Staged
      <3>. QED BY <1>1, <1>2, <1>6, <2>2, <3>2, Shelved
    <2>3. CASE bd'[b] = Revoked(rec)
      <3>. HIDE DEF rec
      <3>. QED BY <1>1, <1>2, <1>5, <2>3, RevokedPipes
    <2>4. CASE /\ conn # 0 /\ ~bd[b].revoked /\ bd[b].barrier = "answered"
               /\ bd'[b] = CloseBarrier(rec, bd[b].snap, conn)
      BY <1>1, <1>2, <2>4, MergePipes
    <2>5. rec.revoked <=> bd[b].revoked
      BY <1>5
    <2>6. \A r : Install(b, r) => bd'[b] = r
      BY <1>1 DEF Install, BrokerTypeOK
    <2>. QED BY <2>1, <2>2, <2>3, <2>4, <2>5, <2>6 DEF BarrierEnds
  <1>. HIDE DEF rec, left
  <1>. QED BY <1>1, <1>2, <1>3, <1>7, OneMoves

(* Every step of the broker keeps the way from a thread to the queues. *)
LEMMA BrokerPipes ==
    ASSUME BrokerInv, Pipeline, \A t \in Threads : ~Transferring(t), BrokerStep
    PROVE  Pipeline' /\ Supplies
  <1>1. CASE SupervisorStep
    BY <1>1, QuietSteps, OpenPipes, RoutePipes, WakesPipes, RevokePipes, ShutdownPipes
       DEF SupervisorStep
  <1>2. CASE \E b \in Binds : BarrierStep(b)
    BY <1>2, ResumedPipes, SnapshotPipes, BarrierEndsPipes DEF BarrierStep
  <1>3. CASE EndpointStep
    BY <1>3, QuietSteps, ThreadEventPipes DEF EndpointStep
  <1>4. CASE CloseBroker \/ \E o \in Ops : OpStep(o)
    BY <1>4, QuietSteps
  <1>. QED BY <1>1, <1>2, <1>3, <1>4 DEF BrokerStep



-----------------------------------------------------------------------------
(* The stream. *)

(* The frames and the remote bindings of a state that has its types. *)
LEMMA StreamTypes ==
    ASSUME TypeOK
    PROVE  /\ wire \in Seq(Frames) /\ Len(wire) \in Nat /\ (wire = <<>> <=> Len(wire) = 0)
           /\ \A i \in 1 .. Len(wire) :
                 /\ wire[i] \in Frames /\ wire[i].thread \in Threads /\ wire[i].bind \in Binds
                 /\ wire[i].kind \in {"event", "suspended", "revoked"}
                 /\ wire[i].event.v \in Versions /\ wire[i].event.conn \in {0} \cup Conns
                 /\ wire[i].event.snap \in BOOLEAN
           /\ \A t \in Threads : /\ remote[t] \in Remote /\ remote[t].v \in Versions
                                 /\ remote[t].conn \in {0} \cup Conns
           /\ Binds \subseteq Nat /\ 0 \notin Binds
           /\ \A t \in Threads : ~Transferring(t)
  <1>1. wire \in Seq(Frames) /\ Len(wire) \in Nat /\ (wire = <<>> <=> Len(wire) = 0)
    BY EmptySeq DEF TypeOK
  <1>2. \A i \in 1 .. Len(wire) : wire[i] \in Frames
    BY <1>1, ElementOfSeq
  <1>3. \A e \in Events \cup {NoEvent} :
           e.v \in Versions /\ e.conn \in {0} \cup Conns /\ e.snap \in BOOLEAN
    <2>1. \A e \in Events : e.v \in Versions /\ e.conn \in Conns /\ e.snap \in BOOLEAN
      BY DEF Events
    <2>2. NoEvent.v = 0 /\ NoEvent.conn = 0 /\ NoEvent.snap = FALSE
      BY DEF NoEvent
    <2>. QED BY <2>1, <2>2, NoVersion
  <1>4. \A f \in Frames : /\ f.thread \in Threads /\ f.bind \in Binds
                          /\ f.kind \in {"event", "suspended", "revoked"}
                          /\ f.event \in Events \cup {NoEvent}
    BY DEF Frames
  <1>5. \A t \in Threads : /\ remote[t] \in Remote /\ remote[t].v \in Versions
                           /\ remote[t].conn \in {0} \cup Conns
    BY DEF TypeOK, Remote
  <1>6. Binds \subseteq Nat /\ 0 \notin Binds
    BY DEF Binds
  <1>7. \A t \in Threads : ~Transferring(t)
    BY DEF TypeOK, Transferring
  <1>. QED BY <1>1, <1>2, <1>3, <1>4, <1>5, <1>6, <1>7

(* A remote binding that nothing was done to, while the broker took a step. *)
LEMMA StreamKept ==
    ASSUME TypeOK, BrokerInv, Named, NEW t \in Threads, Clean(remote[t]), Gapless(t), Granted(t),
           remote'[t] = remote[t], wire' = wire, Offers(remote[t].of)
    PROVE  Gapless(t)' /\ Granted(t)'
  <1>1. PICK b \in 1 .. bindEpoch : b = remote[t].of /\ bd[b].thread = t
    BY DEF Named, Clean
  <1>2. PICK old, new : old = bd[b] /\ new = bd'[b]
    OBVIOUS
  <1>3. Bounded(old)
    BY <1>1, <1>2, Bindings
  <1>4. remote'[t].of = b /\ old.thread = t
    BY <1>1, <1>2
  <1>5. \A n, v, c : Knows(t, n, v, c)' <=> Knows(t, n, v, c)
    BY DEF Knows, EventOf
  <1>6. /\ Len(old.queue) \in Nat /\ (old.queue = <<>> <=> Len(old.queue) = 0)
        /\ Len(old.queue) <= Len(new.queue)
        /\ \A i \in 1 .. Len(old.queue) : new.queue[i] = old.queue[i]
    BY <1>1, <1>2, <1>3, RecordFacts DEF Offers
  <1>7. new.queue = <<>> => old.queue = <<>> /\ Len(new.queue) = 0
    BY <1>6
  <1>8. new.queue # <<>> /\ ~new.queue[1].snap =>
           \A v \in Versions, c \in {0} \cup Conns :
              Knows(t, Len(wire), v, c) => Follows(oversize[t], new.queue[1], v, c)
    <2>1. CASE old.queue # <<>>
      <3>1. 1 \in 1 .. Len(old.queue)
        BY <1>6, <2>1
      <3>2. new.queue[1] = old.queue[1]
        BY <1>6, <3>1
      <3>. QED BY <1>1, <1>2, <2>1, <3>2 DEF Gapless
    <2>2. CASE old.queue = <<>>
      <3>. SUFFICES ASSUME new.queue # <<>>, ~new.queue[1].snap,
                           NEW v \in Versions, NEW c \in {0} \cup Conns, Knows(t, Len(wire), v, c)
                    PROVE  Follows(oversize[t], new.queue[1], v, c)
        OBVIOUS
      <3>1. /\ old.stage = "open"
            /\ \A w \in Versions : Reach(t, w) => Follows(oversize[t], new.queue[1], w, conn)
        BY <1>1, <1>2, <1>4, <2>2 DEF Offers
      <3>2. c = conn /\ Reach(t, v)
        BY <1>1, <1>2, <2>2, <3>1 DEF Gapless
      <3>. QED BY <3>1, <3>2
    <2>. QED BY <2>1, <2>2
  <1>9. new.stage = "open" =>
           \/ \E i \in 1 .. Len(new.queue) : new.queue[i].snap
           \/ /\ old.stage = "open" /\ conn' = conn /\ new.suspends = old.suspends
              /\ new.queue # <<>> \/ \A v \in Versions : Reach(t, v) => Reach(t, v)'
    BY <1>1, <1>2, <1>4 DEF Offers
  <1>10. new.stage = "open" /\ new.queue = <<>> =>
            \A v \in Versions, c \in {0} \cup Conns :
               Knows(t, Len(wire), v, c) => c = conn' /\ Reach(t, v)'
    BY <1>1, <1>2, <1>7, <1>9 DEF Gapless
  <1>11. Gapless(t)'
    <2>1. bd'[b] = new /\ remote'[t].of = b /\ oversize' = oversize
      BY <1>1, <1>2, <1>4 DEF Offers
    <2>2. \A n \in 1 .. Len(wire) : EventOf(b, n) /\ ~wire[n].event.snap =>
             \A v \in Versions, c \in {0} \cup Conns : Knows(t, n - 1, v, c) => Follows(oversize[t], wire[n].event, v, c)
      BY <1>1 DEF Gapless
    <2>. QED BY <1>5, <1>8, <1>10, <2>1, <2>2 DEF Gapless, EventOf, Follows
  <1>12. Granted(t)'
    <2>. SUFFICES ASSUME new.stage = "open", ~\E i \in 1 .. Len(new.queue) : new.queue[i].snap
                  PROVE  Granted(t)'
      BY <1>2, <1>4 DEF Granted
    <2>1. old.stage = "open" /\ new.suspends = old.suspends
      BY <1>9
    <2>2. ~\E i \in 1 .. Len(old.queue) : old.queue[i].snap
      <3>1. \A i \in 1 .. Len(old.queue) : i \in 1 .. Len(new.queue)
        <4>1. Len(new.queue) \in Int \/ ~(Len(new.queue) \in Int)
          OBVIOUS
        <4>. QED BY <1>6
      <3>. QED BY <1>6, <3>1
    <2>3. /\ ~old.suspends
          /\ \/ \E i \in 1 .. Len(wire) : /\ EventOf(b, i) /\ wire[i].event.snap
                                          /\ \A j \in i + 1 .. Len(wire) : ~SuspendOf(b, j)
             \/ remote[t].open /\ \A j \in 1 .. Len(wire) : ~SuspendOf(b, j)
      BY <1>1, <1>2, <2>1, <2>2 DEF Granted
    <2>. QED BY <1>2, <1>4, <2>1, <2>3 DEF Granted, EventOf, SuspendOf
  <1>. QED BY <1>11, <1>12


(* Frames are appended: what was known of the first ones stays, a frame     *)
(* that is no event of the binding changes nothing, and one that is is what *)
(* is known then.                                                          *)
LEMMA KnowsMore ==
    ASSUME TypeOK, NEW t \in Threads, remote'[t] = remote[t], NEW m \in Nat, m = Len(wire'),
           Len(wire) <= m, \A i \in 1 .. Len(wire) : wire'[i] = wire[i],
           NEW b, b = remote[t].of
    PROVE  /\ \A n \in 0 .. Len(wire) : \A v, c : Knows(t, n, v, c)' <=> Knows(t, n, v, c)
           /\ \A n \in Len(wire) .. m : \A v, c :
                 (\A j \in Len(wire) + 1 .. n : ~EventOf(b, j)') =>
                    (Knows(t, n, v, c)' <=> Knows(t, Len(wire), v, c))
           /\ \A n \in 1 .. m : \A v, c :
                 EventOf(b, n)' =>
                    (Knows(t, n, v, c)' => v = wire'[n].event.v /\ c = wire'[n].event.conn)
  <1>1. Len(wire) \in Nat /\ remote'[t].of = b
    BY StreamTypes
  <1>2. \A i \in 1 .. Len(wire) : EventOf(b, i)' <=> EventOf(b, i)
    BY DEF EventOf
  <1>3. ASSUME NEW n \in 0 .. Len(wire), NEW v, NEW c
        PROVE  Knows(t, n, v, c)' <=> Knows(t, n, v, c)
    <2>1. \A i \in 1 .. n : i \in 1 .. Len(wire)
      BY <1>1
    <2>2. \A i \in 1 .. n : \A j \in i + 1 .. n : j \in 1 .. Len(wire)
      BY <1>1
    <2>. QED BY <1>1, <1>2, <2>1, <2>2 DEF Knows
  <1>4. ASSUME NEW n \in Len(wire) .. m, NEW v, NEW c, \A j \in Len(wire) + 1 .. n : ~EventOf(b, j)'
        PROVE  Knows(t, n, v, c)' <=> Knows(t, Len(wire), v, c)
    <2>1. \A i \in 1 .. n : i \in 1 .. Len(wire) \/ ~EventOf(b, i)'
      BY <1>1, <1>4
    <2>2. \A i \in 1 .. Len(wire) : i \in 1 .. n /\ \A j \in i + 1 .. Len(wire) : j \in i + 1 .. n /\ j \in 1 .. Len(wire)
      BY <1>1
    <2>3. \A i \in 1 .. Len(wire) : \A j \in i + 1 .. n : j \in i + 1 .. Len(wire) \/ ~EventOf(b, j)'
      BY <1>1, <1>4
    <2>4. Knows(t, n, v, c)' => Knows(t, Len(wire), v, c)
      BY <1>1, <1>2, <2>1, <2>2 DEF Knows
    <2>5. Knows(t, Len(wire), v, c) => Knows(t, n, v, c)'
      <3>1. ASSUME NEW i \in 1 .. Len(wire), EventOf(b, i), wire[i].event.v = v, wire[i].event.conn = c,
                   \A j \in i + 1 .. Len(wire) : ~EventOf(b, j)
            PROVE  Knows(t, n, v, c)'
        <4>1. \A j \in i + 1 .. n : ~EventOf(b, j)'
          BY <1>2, <2>2, <2>3, <3>1
        <4>2. i \in 1 .. n /\ EventOf(b, i)' /\ wire'[i].event.v = v /\ wire'[i].event.conn = c
          BY <1>2, <2>2, <3>1
        <4>. QED BY <1>1, <4>1, <4>2 DEF Knows
      <3>2. ASSUME \A j \in 1 .. Len(wire) : ~EventOf(b, j), v = remote[t].v, c = remote[t].conn
            PROVE  Knows(t, n, v, c)'
        <4>1. \A j \in 1 .. n : ~EventOf(b, j)'
          BY <1>2, <2>1, <3>2
        <4>. QED BY <1>1, <3>2, <4>1 DEF Knows
      <3>. QED BY <1>1, <3>1, <3>2 DEF Knows
    <2>. QED BY <2>4, <2>5
  <1>5. ASSUME NEW n \in 1 .. m, NEW v, NEW c, EventOf(b, n)', Knows(t, n, v, c)'
        PROVE  v = wire'[n].event.v /\ c = wire'[n].event.conn
    <2>1. n \in 1 .. n
      OBVIOUS
    <2>2. PICK i \in 1 .. n : /\ EventOf(b, i)' /\ wire'[i].event.v = v /\ wire'[i].event.conn = c
                              /\ \A j \in i + 1 .. n : ~EventOf(b, j)'
      BY <1>1, <1>5, <2>1 DEF Knows
    <2>3. i = n
      BY <1>5, <2>2
    <2>. QED BY <2>2, <2>3
  <1>. QED BY <1>3, <1>4, <1>5

(* What taking the first frame does to the remote binding of t, if it may   *)
(* still be relied on.                                                     *)
TakesHead(t) ==
    LET r == remote[t]
        f == wire[1]
    IN  /\ Clean(r) /\ remote'[t].of = r.of
        /\ \/ f.bind # r.of /\ remote'[t] = r
           \/ /\ f.bind = r.of /\ f.kind = "event"
              /\ remote'[t].v = f.event.v /\ remote'[t].conn = f.event.conn
              /\ remote'[t].open <=> (r.open \/ f.event.snap)
           \/ /\ f.bind = r.of /\ f.kind = "suspended"
              /\ remote'[t].v = r.v /\ remote'[t].conn = r.conn

(* The first frame is taken: what is known behind it stays. *)
LEMMA KnowsTail ==
    ASSUME TypeOK, NEW t \in Threads, wire # <<>>, wire' = Tail(wire), TakesHead(t)
    PROVE  /\ Len(wire') = Len(wire) - 1
           /\ \A i \in 1 .. Len(wire') : wire'[i] = wire[i + 1]
           /\ \A n \in 0 .. Len(wire') : \A v, c : Knows(t, n, v, c)' => Knows(t, n + 1, v, c)
  <1>1. wire \in Seq(Frames) /\ Len(wire) \in Nat /\ Len(wire) # 0
    BY StreamTypes
  <1>2. Len(wire') = Len(wire) - 1 /\ \A i \in 1 .. Len(wire') : wire'[i] = wire[i + 1]
    BY <1>1, HeadTailProperties
  <1>3. PICK b : b = remote[t].of /\ remote'[t].of = b
    BY DEF TakesHead
  <1>4. \A i \in 1 .. Len(wire') : EventOf(b, i)' <=> EventOf(b, i + 1)
    BY <1>2 DEF EventOf
  <1>5. ASSUME NEW n \in 0 .. Len(wire'), NEW v, NEW c, Knows(t, n, v, c)'
        PROVE  Knows(t, n + 1, v, c)
    <2>1. CASE \E i \in 1 .. n : /\ EventOf(b, i)' /\ wire'[i].event.v = v /\ wire'[i].event.conn = c
                                 /\ \A j \in i + 1 .. n : ~EventOf(b, j)'
      <3>1. PICK i \in 1 .. n : /\ EventOf(b, i)' /\ wire'[i].event.v = v /\ wire'[i].event.conn = c
                                /\ \A j \in i + 1 .. n : ~EventOf(b, j)'
        BY <2>1
      <3>2. i \in 1 .. Len(wire') /\ i + 1 \in 1 .. n + 1
        BY <1>1, <1>2
      <3>3. EventOf(b, i + 1) /\ wire[i + 1].event.v = v /\ wire[i + 1].event.conn = c
        BY <1>2, <1>4, <3>1, <3>2
      <3>4. ASSUME NEW j \in (i + 1) + 1 .. n + 1 PROVE ~EventOf(b, j)
        <4>1. j - 1 \in i + 1 .. n /\ j - 1 \in 1 .. Len(wire') /\ (j - 1) + 1 = j
          BY <1>1, <1>2
        <4>. QED BY <1>4, <3>1, <4>1
      <3>. QED BY <1>3, <3>2, <3>3, <3>4 DEF Knows
    <2>2. CASE /\ \A j \in 1 .. n : ~EventOf(b, j)'
               /\ v = remote'[t].v /\ c = remote'[t].conn
      <3>1. ASSUME NEW j \in 1 + 1 .. n + 1 PROVE ~EventOf(b, j)
        <4>1. j - 1 \in 1 .. n /\ j - 1 \in 1 .. Len(wire') /\ (j - 1) + 1 = j
          BY <1>1, <1>2
        <4>. QED BY <1>4, <2>2, <4>1
      <3>2. CASE EventOf(b, 1)
        <4>1. v = wire[1].event.v /\ c = wire[1].event.conn
          BY <1>3, <2>2, <3>2 DEF TakesHead, EventOf
        <4>2. 1 \in 1 .. n + 1
          OBVIOUS
        <4>. QED BY <1>3, <3>1, <3>2, <4>1, <4>2 DEF Knows
      <3>3. CASE ~EventOf(b, 1)
        <4>1. v = remote[t].v /\ c = remote[t].conn
          BY <1>3, <2>2, <3>3 DEF TakesHead, EventOf
        <4>2. \A j \in 1 .. n + 1 : j = 1 \/ j \in 1 + 1 .. n + 1
          OBVIOUS
        <4>3. \A j \in 1 .. n + 1 : ~EventOf(b, j)
          BY <3>1, <3>3, <4>2
        <4>. QED BY <1>3, <4>1, <4>3 DEF Knows
      <3>. QED BY <3>2, <3>3
    <2>. QED BY <1>3, <1>5, <2>1, <2>2 DEF Knows
  <1>. QED BY <1>2, <1>5


(* The first frame is taken, and the broker does nothing. *)
LEMMA HeadTaken ==
    ASSUME TypeOK, NEW t \in Threads, Gapless(t), Granted(t), wire # <<>>, wire' = Tail(wire),
           TakesHead(t), UNCHANGED brokerVars
    PROVE  Gapless(t)' /\ Granted(t)'
  <1>1. PICK b : b = remote[t].of /\ remote'[t].of = b
    BY DEF TakesHead
  <1>2. PICK rec : rec = bd[b] /\ bd'[b] = rec
    BY DEF brokerVars
  <1>3. /\ Len(wire') = Len(wire) - 1
        /\ \A i \in 1 .. Len(wire') : wire'[i] = wire[i + 1]
        /\ \A n \in 0 .. Len(wire') : \A v, c : Knows(t, n, v, c)' => Knows(t, n + 1, v, c)
    BY KnowsTail
  <1>4. Len(wire) \in Nat /\ Len(wire) # 0
    BY StreamTypes
  <1>5. Len(wire') \in Nat /\ Len(wire') + 1 = Len(wire)
    BY <1>3, <1>4
  <1>6. \A v, c : Knows(t, Len(wire), v, c)' => Knows(t, Len(wire), v, c)
    <2>1. PICK m \in Nat : m = Len(wire')
      BY <1>5
    <2>2. \A v, c : Knows(t, m, v, c)' => Knows(t, m + 1, v, c)
      BY <1>3, <2>1
    <2>. QED BY <1>5, <2>1, <2>2
  <1>7. ASSUME NEW n \in 1 .. Len(wire'), EventOf(b, n)', ~wire'[n].event.snap,
               NEW v \in Versions, NEW c \in {0} \cup Conns, Knows(t, n - 1, v, c)'
        PROVE  Follows(oversize[t], wire'[n].event, v, c)
    <2>1. n + 1 \in 1 .. Len(wire) /\ n - 1 \in 0 .. Len(wire') /\ (n - 1) + 1 = (n + 1) - 1
      BY <1>5
    <2>2. wire'[n] = wire[n + 1] /\ EventOf(b, n + 1)
      BY <1>3, <1>7 DEF EventOf
    <2>3. Knows(t, (n + 1) - 1, v, c)
      BY <1>3, <1>7, <2>1
    <2>. QED BY <1>1, <1>7, <2>1, <2>2, <2>3 DEF Gapless
  <1>8. \A v \in Versions : Reach(t, v) => Reach(t, v)'
    BY DEF Reach, ReachFrom, NextOf, Upstream, brokerVars
  <1>9. Gapless(t)'
    <2>1. rec.queue # <<>> /\ ~rec.queue[1].snap =>
             \A v \in Versions, c \in {0} \cup Conns :
                Knows(t, Len(wire), v, c)' => Follows(oversize[t], rec.queue[1], v, c)
      BY <1>1, <1>2, <1>6 DEF Gapless
    <2>2. rec.stage = "open" /\ rec.queue = <<>> =>
             \A v \in Versions, c \in {0} \cup Conns :
                Knows(t, Len(wire), v, c)' => c = conn' /\ Reach(t, v)'
      BY <1>1, <1>2, <1>6, <1>8 DEF Gapless, brokerVars
    <2>. QED BY <1>1, <1>2, <1>7, <2>1, <2>2 DEF Gapless, Follows, brokerVars
  <1>10. Granted(t)'
    <2>. SUFFICES ASSUME rec.stage = "open", ~\E i \in 1 .. Len(rec.queue) : rec.queue[i].snap
                  PROVE  Granted(t)'
      BY <1>1, <1>2 DEF Granted
    <2>1. \A i \in 1 .. Len(wire') :
             (EventOf(b, i)' <=> EventOf(b, i + 1)) /\ (SuspendOf(b, i)' <=> SuspendOf(b, i + 1))
      BY <1>3 DEF EventOf, SuspendOf
    <2>2. /\ ~rec.suspends
          /\ \/ \E i \in 1 .. Len(wire) : /\ EventOf(b, i) /\ wire[i].event.snap
                                          /\ \A j \in i + 1 .. Len(wire) : ~SuspendOf(b, j)
             \/ remote[t].open /\ \A j \in 1 .. Len(wire) : ~SuspendOf(b, j)
      BY <1>1, <1>2 DEF Granted
    <2>3. ASSUME NEW i \in 1 .. Len(wire), \A j \in i + 1 .. Len(wire) : ~SuspendOf(b, j)
          PROVE  \A j \in i .. Len(wire') : j \in 1 .. Len(wire') => ~SuspendOf(b, j)'
      <3>. SUFFICES ASSUME NEW j \in i .. Len(wire'), j \in 1 .. Len(wire') PROVE ~SuspendOf(b, j)'
        OBVIOUS
      <3>1. j + 1 \in i + 1 .. Len(wire)
        BY <1>5
      <3>. QED BY <2>1, <2>3, <3>1
    <2>. DEFINE Ahead ==
                  \/ \E i \in 1 .. Len(wire') : /\ EventOf(b, i)' /\ wire'[i].event.snap
                                                /\ \A j \in i + 1 .. Len(wire') : ~SuspendOf(b, j)'
                  \/ remote'[t].open /\ \A j \in 1 .. Len(wire') : ~SuspendOf(b, j)'
    <2>4. Ahead
      <3>1. ASSUME NEW i \in 1 .. Len(wire), EventOf(b, i), wire[i].event.snap,
                   \A j \in i + 1 .. Len(wire) : ~SuspendOf(b, j)
            PROVE  Ahead
        <4>1. \A j \in i .. Len(wire') : j \in 1 .. Len(wire') => ~SuspendOf(b, j)'
          BY <2>3, <3>1
        <4>2. CASE i = 1
          <5>1. remote'[t].open
            BY <1>1, <3>1, <4>2 DEF TakesHead, EventOf
          <5>. QED BY <4>1, <4>2, <5>1
        <4>3. CASE i # 1
          <5>1. i - 1 \in 1 .. Len(wire') /\ (i - 1) + 1 = i
            BY <1>5, <4>3
          <5>2. EventOf(b, i - 1)' /\ wire'[i - 1].event.snap
            BY <1>3, <2>1, <3>1, <5>1
          <5>3. \A j \in (i - 1) + 1 .. Len(wire') : ~SuspendOf(b, j)'
            BY <1>5, <4>1
          <5>. QED BY <5>1, <5>2, <5>3
        <4>. QED BY <4>2, <4>3
      <3>2. ASSUME remote[t].open, \A j \in 1 .. Len(wire) : ~SuspendOf(b, j)
            PROVE  Ahead
        <4>1. ~SuspendOf(b, 1)
          BY <1>4, <3>2
        <4>2. remote'[t].open
          BY <1>1, <3>2, <4>1 DEF TakesHead, SuspendOf
        <4>3. \A j \in 1 .. Len(wire') : j + 1 \in 1 .. Len(wire)
          BY <1>5
        <4>. QED BY <2>1, <3>2, <4>2, <4>3
      <3>. QED BY <2>2, <3>1, <3>2
    <2>. QED BY <1>1, <1>2, <2>2, <2>4 DEF Granted
  <1>. QED BY <1>9, <1>10


-----------------------------------------------------------------------------
(* The pump. *)

(* Frames of binding b are appended to the wire. *)
Sends(b) ==
    /\ wire' \in Seq(Frames) /\ Len(wire) <= Len(wire')
    /\ \A i \in 1 .. Len(wire) : wire'[i] = wire[i]
    /\ \A i \in Len(wire) + 1 .. Len(wire') :
          wire'[i].bind = b /\ wire'[i].thread = bd[b].thread

(* What a remote binding t of b is owed, when the frames that were sent say *)
(* nothing new of b: they are another binding's, or no events.             *)
LEMMA NothingNew ==
    ASSUME TypeOK, NEW t \in Threads, NEW x, Sends(x), NEW b, b = remote[t].of, Gapless(t),
           remote'[t] = remote[t], UNCHANGED <<conn, connEpoch, link, notifs, emitted, oversize>>,
           bd'[b].queue = bd[b].queue, bd'[b].stage = bd[b].stage,
           \A i \in Len(wire) + 1 .. Len(wire') : ~EventOf(b, i)'
    PROVE  Gapless(t)'
  <1>1. Len(wire) \in Nat
    BY StreamTypes
  <1>2. PICK m \in Nat : m = Len(wire') /\ Len(wire) <= m
    BY DEF Sends
  <1>3. /\ \A n \in 0 .. Len(wire) : \A v, c : Knows(t, n, v, c)' <=> Knows(t, n, v, c)
        /\ \A n \in Len(wire) .. m : \A v, c :
              (\A j \in Len(wire) + 1 .. n : ~EventOf(b, j)') =>
                 (Knows(t, n, v, c)' <=> Knows(t, Len(wire), v, c))
    BY <1>2, KnowsMore DEF Sends
  <1>4. \A v, c : Knows(t, Len(wire), v, c)' <=> Knows(t, Len(wire), v, c)
    <2>1. m \in Len(wire) .. m
      BY <1>1, <1>2
    <2>2. \A v, c : Knows(t, m, v, c)' <=> Knows(t, Len(wire), v, c)
      BY <1>2, <1>3, <2>1
    <2>. QED BY <1>2, <2>2
  <1>5. ASSUME NEW n \in 1 .. Len(wire'), EventOf(b, n)', ~wire'[n].event.snap,
               NEW v \in Versions, NEW c \in {0} \cup Conns, Knows(t, n - 1, v, c)'
        PROVE  Follows(oversize[t], wire'[n].event, v, c)
    <2>1. n \in 1 .. Len(wire)
      BY <1>1, <1>2, <1>5
    <2>2. wire'[n] = wire[n] /\ EventOf(b, n)
      BY <1>5, <2>1 DEF EventOf, Sends
    <2>3. n - 1 \in 0 .. Len(wire)
      BY <1>1, <2>1
    <2>4. Knows(t, n - 1, v, c)
      BY <1>3, <1>5, <2>3
    <2>. QED BY <1>5, <2>1, <2>2, <2>4 DEF Gapless
  <1>6. \A v \in Versions : Reach(t, v) => Reach(t, v)'
    BY DEF Reach, ReachFrom, NextOf, Upstream
  <1>7. /\ bd[b].queue # <<>> /\ ~bd[b].queue[1].snap =>
              \A v \in Versions, c \in {0} \cup Conns :
                 Knows(t, Len(wire), v, c)' => Follows(oversize[t], bd[b].queue[1], v, c)
        /\ bd[b].stage = "open" /\ bd[b].queue = <<>> =>
              \A v \in Versions, c \in {0} \cup Conns :
                 Knows(t, Len(wire), v, c)' => c = conn' /\ Reach(t, v)'
    BY <1>4, <1>6 DEF Gapless
  <1>8. remote'[t].of = b
    OBVIOUS
  <1>. QED BY <1>5, <1>7, <1>8 DEF Gapless, Follows

(* Authority is still on its way if no suspension was sent after it. *)
LEMMA StillGranted ==
    ASSUME TypeOK, NEW t \in Threads, NEW x, Sends(x), NEW b, b = remote[t].of, Granted(t),
           remote'[t] = remote[t], bd'[b].stage = bd[b].stage,
           (\E i \in 1 .. Len(bd[b].queue) : bd[b].queue[i].snap) =>
              \/ \E i \in 1 .. Len(bd'[b].queue) : bd'[b].queue[i].snap
              \/ /\ ~bd'[b].suspends
                 /\ \E i \in 1 .. Len(wire') : /\ EventOf(b, i)' /\ wire'[i].event.snap
                                               /\ \A j \in i + 1 .. Len(wire') : ~SuspendOf(b, j)',
           ~bd[b].suspends =>
              ~bd'[b].suspends /\ \A i \in Len(wire) + 1 .. Len(wire') : ~SuspendOf(b, i)'
    PROVE  Granted(t)'
  <1>. SUFFICES ASSUME bd[b].stage = "open", ~\E i \in 1 .. Len(bd'[b].queue) : bd'[b].queue[i].snap,
                       ~\E i \in 1 .. Len(bd[b].queue) : bd[b].queue[i].snap
                PROVE  Granted(t)'
    BY DEF Granted
  <1>1. Len(wire) \in Nat /\ Len(wire') \in Nat /\ Len(wire) <= Len(wire')
    BY StreamTypes DEF Sends
  <1>2. /\ ~bd[b].suspends /\ ~bd'[b].suspends
        /\ \/ \E i \in 1 .. Len(wire) : /\ EventOf(b, i) /\ wire[i].event.snap
                                        /\ \A j \in i + 1 .. Len(wire) : ~SuspendOf(b, j)
           \/ remote[t].open /\ \A j \in 1 .. Len(wire) : ~SuspendOf(b, j)
    BY DEF Granted
  <1>3. /\ \A i \in 1 .. Len(wire) : /\ wire'[i] = wire[i] /\ i \in 1 .. Len(wire')
                                     /\ EventOf(b, i)' <=> EventOf(b, i)
        /\ \A i \in 1 .. Len(wire') : SuspendOf(b, i)' => i \in 1 .. Len(wire) /\ SuspendOf(b, i)
    <2>1. \A i \in 1 .. Len(wire') : i \in 1 .. Len(wire) \/ i \in Len(wire) + 1 .. Len(wire')
      BY <1>1
    <2>2. \A i \in 1 .. Len(wire) : i \in 1 .. Len(wire')
      BY <1>1
    <2>. QED BY <1>2, <2>1, <2>2 DEF Sends, EventOf, SuspendOf
  <1>4. ASSUME NEW i \in 1 .. Len(wire), EventOf(b, i), wire[i].event.snap,
               \A j \in i + 1 .. Len(wire) : ~SuspendOf(b, j)
        PROVE  Granted(t)'
    <2>1. \A j \in i + 1 .. Len(wire') : j \in 1 .. Len(wire) => j \in i + 1 .. Len(wire)
      BY <1>1
    <2>2. \A j \in i + 1 .. Len(wire') : j \in 1 .. Len(wire')
      BY <1>1
    <2>3. \A j \in i + 1 .. Len(wire') : ~SuspendOf(b, j)'
      BY <1>3, <1>4, <2>1, <2>2
    <2>4. EventOf(b, i)' /\ wire'[i].event.snap /\ i \in 1 .. Len(wire')
      BY <1>3, <1>4
    <2>. QED BY <1>2, <2>3, <2>4 DEF Granted
  <1>5. ASSUME remote[t].open, \A j \in 1 .. Len(wire) : ~SuspendOf(b, j)
        PROVE  Granted(t)'
    <2>1. \A j \in 1 .. Len(wire') : ~SuspendOf(b, j)'
      BY <1>3, <1>5
    <2>. QED BY <1>2, <1>5, <2>1 DEF Granted
  <1>. QED BY <1>2, <1>4, <1>5

(* The pump of another binding. *)
LEMMA OtherPump ==
    ASSUME TypeOK, NEW t \in Threads, Gapless(t), Granted(t), NEW x, Sends(x), remote[t].of # x,
           remote'[t] = remote[t], bd'[remote[t].of] = bd[remote[t].of],
           UNCHANGED <<conn, connEpoch, link, notifs, emitted, oversize>>
    PROVE  Gapless(t)' /\ Granted(t)'
  <1>1. PICK b : b = remote[t].of
    OBVIOUS
  <1>2. \A i \in Len(wire) + 1 .. Len(wire') : ~EventOf(b, i)' /\ ~SuspendOf(b, i)'
    BY <1>1 DEF Sends, EventOf, SuspendOf
  <1>3. Gapless(t)'
    BY <1>1, <1>2, NothingNew
  <1>4. Granted(t)'
    BY <1>1, <1>2, StillGranted
  <1>. QED BY <1>3, <1>4


(* A frame of a binding that was made is one. *)
LEMMA FrameFacts ==
    ASSUME BrokerInv, NEW b \in 1 .. bindEpoch, NEW kind \in {"event", "suspended", "revoked"},
           NEW event \in Events \cup {NoEvent}
    PROVE  /\ Frame(b, kind, event) \in Frames
           /\ Frame(b, kind, event).thread = bd[b].thread /\ Frame(b, kind, event).bind = b
           /\ Frame(b, kind, event).kind = kind /\ Frame(b, kind, event).event = event
  BY Bindings DEF Frame, Frames

(* One frame is sent. *)
LEMMA OneSent ==
    ASSUME TypeOK, BrokerInv, NEW b \in 1 .. bindEpoch,
           NEW kind \in {"event", "suspended", "revoked"}, NEW event \in Events \cup {NoEvent},
           wire' = Append(wire, Frame(b, kind, event))
    PROVE  /\ Sends(b) /\ Len(wire') = Len(wire) + 1
           /\ wire'[Len(wire) + 1].kind = kind /\ wire'[Len(wire) + 1].event = event
           /\ wire'[Len(wire) + 1].bind = b
  <1>1. PICK f : f = Frame(b, kind, event)
    OBVIOUS
  <1>2. f \in Frames /\ f.thread = bd[b].thread /\ f.bind = b /\ f.kind = kind /\ f.event = event
    BY <1>1, FrameFacts
  <1>3. wire \in Seq(Frames) /\ Len(wire) \in Nat
    BY StreamTypes
  <1>4. /\ wire' \in Seq(Frames) /\ Len(wire') = Len(wire) + 1
        /\ \A i \in 1 .. Len(wire) : wire'[i] = wire[i]
        /\ wire'[Len(wire) + 1] = f
    BY <1>1, <1>2, <1>3, AppendProperties
  <1>5. \A i \in Len(wire) + 1 .. Len(wire') : i = Len(wire) + 1
    BY <1>3, <1>4
  <1>6. Sends(b)
    BY <1>2, <1>3, <1>4, <1>5 DEF Sends
  <1>. QED BY <1>2, <1>4, <1>6

(* forwardEvent sends the event last, and a suspension before it only where *)
(* one was pending and the event is a snapshot.                            *)
Forwarded(b) ==
    /\ Sends(b) /\ Len(wire') \in Len(wire) + 1 .. Len(wire) + 2
    /\ wire'[Len(wire')].kind = "event" /\ wire'[Len(wire')].event = bd[b].queue[1]
    /\ wire'[Len(wire')].bind = b
    /\ \A i \in Len(wire) + 1 .. Len(wire') - 1 : /\ wire'[i].kind = "suspended"
                                                  /\ bd[b].suspends /\ bd[b].queue[1].snap
    /\ bd'[b].suspends <=> (bd[b].suspends /\ ~bd[b].queue[1].snap)

(* What forwardEvent puts on the wire. *)
LEMMA ForwardSends ==
    ASSUME TypeOK, BrokerInv, NEW b \in 1 .. bindEpoch, bd[b].queue # <<>>, Forward(b)
    PROVE  Forwarded(b)
  <1>1. b \in Binds /\ Bounded(bd[b])
    BY Bindings
  <1>2. PICK e \in Events : e = bd[b].queue[1] /\ e = Head(bd[b].queue) /\ e.snap \in BOOLEAN
    <2>1. Len(bd[b].queue) # 0 /\ 1 \in 1 .. Len(bd[b].queue)
      BY <1>1, RecordFacts
    <2>. QED BY <1>1, <2>1, RecordFacts
  <1>3. wire \in Seq(Frames) /\ Len(wire) \in Nat
    BY StreamTypes
  <1>4. bd'[b].suspends = (bd[b].suspends /\ ~(e.snap /\ bd[b].suspends))
    BY <1>1, <1>2 DEF Forward, BrokerInv, BrokerTypeOK, Bounded, Binding
  <1>5. PICK f : f = Frame(b, "event", e)
    OBVIOUS
  <1>6. PICK s : s = Frame(b, "suspended", NoEvent)
    OBVIOUS
  <1>7. /\ f \in Frames /\ f.thread = bd[b].thread /\ f.bind = b /\ f.kind = "event" /\ f.event = e
        /\ s \in Frames /\ s.thread = bd[b].thread /\ s.bind = b /\ s.kind = "suspended"
    BY <1>5, <1>6, FrameFacts
  <1>8. CASE e.snap /\ bd[b].suspends
    <2>1. wire' = wire \o <<s>> \o <<f>>
      BY <1>2, <1>5, <1>6, <1>8 DEF Forward
    <2>2. PICK w : w = wire \o <<s>>
      OBVIOUS
    <2>3. w = Append(wire, s) /\ wire' = Append(w, f)
      <3>1. w = Append(wire, s) /\ w \in Seq(Frames)
        BY <1>3, <1>7, <2>2, AppendIsConcat, AppendProperties
      <3>2. wire' = w \o <<f>>
        BY <2>1, <2>2
      <3>. QED BY <1>7, <3>1, <3>2, AppendIsConcat
    <2>4. /\ w \in Seq(Frames) /\ Len(w) = Len(wire) + 1 /\ w[Len(wire) + 1] = s
          /\ \A i \in 1 .. Len(wire) : w[i] = wire[i]
      BY <1>3, <1>7, <2>3, AppendProperties
    <2>5. /\ wire' \in Seq(Frames) /\ Len(wire') = Len(w) + 1 /\ wire'[Len(w) + 1] = f
          /\ \A i \in 1 .. Len(w) : wire'[i] = w[i]
      BY <1>7, <2>3, <2>4, AppendProperties
    <2>6. Len(wire') = Len(wire) + 2 /\ wire'[Len(wire')] = f /\ wire'[Len(wire) + 1] = s
      BY <1>3, <2>4, <2>5
    <2>7. \A i \in 1 .. Len(wire) : wire'[i] = wire[i]
      BY <1>3, <2>4, <2>5
    <2>8. \A i \in Len(wire) + 1 .. Len(wire') : i = Len(wire') \/ i = Len(wire) + 1
      BY <1>3, <2>6
    <2>9. \A i \in Len(wire) + 1 .. Len(wire') - 1 : i = Len(wire) + 1
      BY <1>3, <2>6
    <2>10. Sends(b)
      BY <1>3, <1>7, <2>5, <2>6, <2>7, <2>8 DEF Sends
    <2>11. Len(wire') \in Len(wire) + 1 .. Len(wire) + 2
      BY <1>3, <2>6
    <2>. QED BY <1>2, <1>4, <1>7, <1>8, <2>6, <2>9, <2>10, <2>11 DEF Forwarded
  <1>9. CASE ~(e.snap /\ bd[b].suspends)
    <2>1. wire' = wire \o <<>> \o <<f>>
      BY <1>2, <1>5, <1>9 DEF Forward
    <2>2. wire' = Append(wire, f)
      BY <1>3, <1>7, <2>1, AppendIsConcat, ConcatEmptySeq
    <2>3. Sends(b) /\ Len(wire') = Len(wire) + 1 /\ wire'[Len(wire) + 1].kind = "event"
          /\ wire'[Len(wire) + 1].event = e /\ wire'[Len(wire) + 1].bind = b
      BY <1>5, <2>2, OneSent
    <2>4. Len(wire') \in Len(wire) + 1 .. Len(wire) + 2 /\ Len(wire) + 1 .. Len(wire') - 1 = {}
      BY <1>3, <2>3
    <2>. QED BY <1>2, <1>4, <1>9, <2>3, <2>4 DEF Forwarded
  <1>. QED BY <1>8, <1>9


(* Gapless after the step, part by part. *)
LEMMA GaplessNext ==
    ASSUME NEW t \in Threads, NEW b, NEW new, oversize' = oversize, remote'[t].of = b, bd'[b] = new,
           \A n \in 1 .. Len(wire') : EventOf(b, n)' /\ ~wire'[n].event.snap =>
              \A v \in Versions, c \in {0} \cup Conns :
                 Knows(t, n - 1, v, c)' => Follows(oversize[t], wire'[n].event, v, c),
           new.queue # <<>> /\ ~new.queue[1].snap =>
              \A v \in Versions, c \in {0} \cup Conns :
                 Knows(t, Len(wire), v, c)' => Follows(oversize[t], new.queue[1], v, c),
           new.stage = "open" /\ new.queue = <<>> =>
              \A v \in Versions, c \in {0} \cup Conns :
                 Knows(t, Len(wire), v, c)' => c = conn' /\ Reach(t, v)'
    PROVE  Gapless(t)'
  BY DEF Gapless, Follows

(* An event goes from the queue of a client's own binding to the wire. *)
LEMMA OwnForwarded ==
    ASSUME TypeOK, BrokerInv, Pipeline, NEW b \in 1 .. bindEpoch, NEW t \in Threads,
           b = remote[t].of, bd[b].thread = t, Gapless(t), Granted(t), remote'[t] = remote[t],
           bd[b].queue # <<>>, bd'[b].queue = Tail(bd[b].queue), bd'[b].stage = bd[b].stage,
           Forwarded(b), UNCHANGED <<conn, connEpoch, link, notifs, emitted, oversize>>
    PROVE  Gapless(t)' /\ Granted(t)'
  <1>1. PICK q : q = bd[b].queue
    OBVIOUS
  <1>2. /\ q \in Seq(Events) /\ Len(q) \in Nat /\ Len(q) # 0
        /\ \A i \in 1 .. Len(q) : q[i].v \in Versions /\ q[i].conn \in Conns /\ q[i].snap \in BOOLEAN
    BY <1>1, Bindings, RecordFacts
  <1>3. /\ Len(bd'[b].queue) = Len(q) - 1
        /\ \A i \in 1 .. Len(q) - 1 : bd'[b].queue[i] = q[i + 1]
    BY <1>1, <1>2, HeadTailProperties
  <1>4. Len(wire) \in Nat /\ wire \in Seq(Frames)
    BY StreamTypes
  <1>5. PICK m \in Nat : m = Len(wire') /\ m \in Len(wire) + 1 .. Len(wire) + 2
    BY <1>4 DEF Forwarded
  <1>6. /\ \A n \in 0 .. Len(wire) : \A v, c : Knows(t, n, v, c)' <=> Knows(t, n, v, c)
        /\ \A n \in Len(wire) .. m : \A v, c :
              (\A j \in Len(wire) + 1 .. n : ~EventOf(b, j)') =>
                 (Knows(t, n, v, c)' <=> Knows(t, Len(wire), v, c))
        /\ \A n \in 1 .. m : \A v, c :
              EventOf(b, n)' =>
                 (Knows(t, n, v, c)' => v = wire'[n].event.v /\ c = wire'[n].event.conn)
    BY <1>4, <1>5, KnowsMore DEF Forwarded, Sends
  <1>7. EventOf(b, m)' /\ wire'[m].event = q[1] /\ m \in 1 .. m
    BY <1>1, <1>4, <1>5 DEF EventOf, Forwarded
  <1>8. \A v, c : Knows(t, Len(wire), v, c)' => v = q[1].v /\ c = q[1].conn
    <2>1. \A v, c : Knows(t, m, v, c)' => v = q[1].v /\ c = q[1].conn
      BY <1>6, <1>7
    <2>. QED BY <1>5, <2>1
  <1>9. ASSUME NEW n \in 1 .. Len(wire'), EventOf(b, n)', ~wire'[n].event.snap,
               NEW v \in Versions, NEW c \in {0} \cup Conns, Knows(t, n - 1, v, c)'
        PROVE  Follows(oversize[t], wire'[n].event, v, c)
    <2>1. CASE n \in 1 .. Len(wire)
      <3>1. wire'[n] = wire[n] /\ EventOf(b, n)
        BY <1>9, <2>1 DEF EventOf, Sends, Forwarded
      <3>2. n - 1 \in 0 .. Len(wire)
        BY <1>4, <2>1
      <3>3. Knows(t, n - 1, v, c)
        BY <1>6, <1>9, <3>2
      <3>. QED BY <1>9, <2>1, <3>1, <3>3 DEF Gapless
    <2>2. CASE n \in Len(wire) + 1 .. m - 1
      <3>1. wire'[n].kind = "suspended"
        BY <1>5, <2>2 DEF Forwarded
      <3>. QED BY <1>9, <3>1 DEF EventOf
    <2>3. CASE n = m
      <3>1. \A j \in Len(wire) + 1 .. m - 1 : ~EventOf(b, j)'
        BY <1>5 DEF Forwarded, EventOf
      <3>2. m - 1 \in Len(wire) .. m
        BY <1>4, <1>5
      <3>3. Knows(t, Len(wire), v, c)
        BY <1>6, <1>9, <2>3, <3>1, <3>2
      <3>4. q # <<>> /\ ~q[1].snap
        BY <1>1, <1>7, <1>9, <2>3
      <3>. QED BY <1>1, <1>7, <2>3, <3>3, <3>4 DEF Gapless
    <2>. QED BY <1>4, <1>5, <2>1, <2>2, <2>3
  <1>10. Queued(bd[b])
    BY DEF Pipeline, Piped
  <1>11. bd'[b].queue # <<>> /\ ~bd'[b].queue[1].snap => Follows(oversize[t], bd'[b].queue[1], q[1].v, q[1].conn)
    <2>. SUFFICES ASSUME bd'[b].queue # <<>>, ~bd'[b].queue[1].snap
                  PROVE  Follows(oversize[t], bd'[b].queue[1], q[1].v, q[1].conn)
      OBVIOUS
    <2>1. Len(q) # 1
      <3>1. bd'[b].queue \in Seq(Events)
        BY <1>1, <1>2, HeadTailProperties
      <3>. QED BY <1>3, <3>1, EmptySeq
    <2>2. 1 \in 1 .. Len(q) - 1 /\ 2 \in 2 .. Len(q) /\ 2 - 1 = 1 /\ 1 + 1 = 2
      <3>1. PICK k \in Nat : k = Len(q) /\ k # 0 /\ k # 1
        BY <1>2, <2>1
      <3>2. 1 \in 1 .. k - 1 /\ 2 \in 2 .. k
        BY <3>1
      <3>. QED BY <3>1, <3>2
    <2>3. bd'[b].queue[1] = q[2]
      BY <1>3, <2>2
    <2>4. Follows(oversize[t], q[2], q[2 - 1].v, q[2 - 1].conn)
      BY <1>1, <1>10, <2>2, <2>3 DEF Queued
    <2>. QED BY <2>2, <2>3, <2>4
  <1>12. bd[b].stage = "open" /\ bd'[b].queue = <<>> =>
            q[1].conn = conn' /\ \A v \in Versions : v = q[1].v => Reach(t, v)'
    <2>. SUFFICES ASSUME bd[b].stage = "open", bd'[b].queue = <<>>
                  PROVE  q[1].conn = conn' /\ \A v \in Versions : v = q[1].v => Reach(t, v)'
      OBVIOUS
    <2>1. Len(q) = 1
      <3>1. Len(bd'[b].queue) = 0
        OBVIOUS
      <3>. QED BY <1>2, <1>3, <3>1
    <2>2. q[1].conn = conn /\ Reach(t, q[1].v)
      BY <1>1, <1>10, <2>1 DEF Queued
    <2>3. \A v \in Versions : Reach(t, v) => Reach(t, v)'
      BY DEF Reach, ReachFrom, NextOf, Upstream
    <2>. QED BY <2>2, <2>3
  <1>13. Gapless(t)'
    <2>1. PICK new : new = bd'[b]
      OBVIOUS
    <2>2. new.queue # <<>> /\ ~new.queue[1].snap =>
             \A v \in Versions, c \in {0} \cup Conns :
                Knows(t, Len(wire), v, c)' => Follows(oversize[t], new.queue[1], v, c)
      BY <1>8, <1>11, <2>1
    <2>3. new.stage = "open" /\ new.queue = <<>> =>
             \A v \in Versions, c \in {0} \cup Conns :
                Knows(t, Len(wire), v, c)' => c = conn' /\ Reach(t, v)'
      BY <1>8, <1>12, <2>1
    <2>4. remote'[t].of = b /\ bd'[b] = new
      BY <2>1
    <2>5. \A n \in 1 .. Len(wire') : EventOf(b, n)' /\ ~wire'[n].event.snap =>
             \A v \in Versions, c \in {0} \cup Conns :
                Knows(t, n - 1, v, c)' => Follows(oversize[t], wire'[n].event, v, c)
      BY <1>9
    <2>. QED BY <2>2, <2>3, <2>4, <2>5, GaplessNext
  <1>14. Granted(t)'
    <2>1. ASSUME NEW i \in 1 .. Len(q), q[i].snap
          PROVE  \/ \E k \in 1 .. Len(bd'[b].queue) : bd'[b].queue[k].snap
                 \/ /\ ~bd'[b].suspends
                    /\ \E k \in 1 .. Len(wire') : /\ EventOf(b, k)' /\ wire'[k].event.snap
                                                  /\ \A j \in k + 1 .. Len(wire') : ~SuspendOf(b, j)'
      <3>1. CASE i = 1
        <4>1. ~bd'[b].suspends
          BY <1>1, <2>1, <3>1 DEF Forwarded
        <4>2. m \in 1 .. Len(wire') /\ EventOf(b, m)' /\ wire'[m].event.snap
          BY <1>5, <1>7, <2>1, <3>1
        <4>3. \A j \in m + 1 .. Len(wire') : ~SuspendOf(b, j)'
          BY <1>5
        <4>. QED BY <4>1, <4>2, <4>3
      <3>2. CASE i # 1
        <4>1. i - 1 \in 1 .. Len(q) - 1 /\ (i - 1) + 1 = i
          BY <1>2, <3>2
        <4>. QED BY <1>3, <2>1, <4>1
      <3>. QED BY <3>1, <3>2
    <2>2. ~bd[b].suspends =>
             ~bd'[b].suspends /\ \A i \in Len(wire) + 1 .. Len(wire') : ~SuspendOf(b, i)'
      <3>. SUFFICES ASSUME ~bd[b].suspends, NEW i \in Len(wire) + 1 .. Len(wire')
                    PROVE  ~SuspendOf(b, i)'
        BY DEF Forwarded
      <3>1. i = m \/ i \in Len(wire) + 1 .. m - 1
        BY <1>4, <1>5
      <3>2. i = m
        BY <1>5, <3>1 DEF Forwarded
      <3>. QED BY <1>7, <3>2 DEF EventOf, SuspendOf
    <2>. QED BY <1>1, <2>1, <2>2, StillGranted DEF Forwarded
  <1>. QED BY <1>13, <1>14

(* A suspension of a client's own binding is sent. *)
LEMMA OwnSuspended ==
    ASSUME TypeOK, NEW b, NEW t \in Threads, b = remote[t].of, Gapless(t), Granted(t),
           remote'[t] = remote[t], Sends(b), \A i \in Len(wire) + 1 .. Len(wire') : ~EventOf(b, i)',
           bd'[b].queue = bd[b].queue, bd'[b].stage = bd[b].stage,
           bd[b].suspends \/ bd[b].stage # "open",
           UNCHANGED <<conn, connEpoch, link, notifs, emitted, oversize>>
    PROVE  Gapless(t)' /\ Granted(t)'
  <1>1. Gapless(t)'
    BY NothingNew
  <1>2. Granted(t)'
    BY DEF Granted
  <1>. QED BY <1>1, <1>2


(* What is read from a queue leaves the rest of the way as it was. *)
LEMMA ReadPipes ==
    ASSUME BrokerInv, NEW b \in 1 .. bindEpoch, Piped(b), NEW rec, rec = bd[b],
           bd'[b].queue \in {rec.queue, <<>>}
              \/ (rec.queue # <<>> /\ bd'[b].queue = Tail(rec.queue)),
           bd'[b].thread = rec.thread, bd'[b].stage = rec.stage, bd'[b].conn = rec.conn,
           bd'[b].barrier = rec.barrier, bd'[b].snap = rec.snap, bd'[b].buf = rec.buf,
           bd'[b].revoked = rec.revoked,
           UNCHANGED <<conn, connEpoch, sup, closing, link, notifs, emitted, oversize, sub>>
    PROVE  Piped(b)'
  <1>1. Bounded(rec) /\ rec.thread \in Threads
    BY Bindings
  <1>2. Staged(bd[b])'
    BY DEF Piped, Staged, Upstream
  <1>3. PICK t \in Threads : t = rec.thread
    BY <1>1
  <1>4. \A v \in Versions : Reach(t, v) => Reach(t, v)'
    BY DEF Reach, ReachFrom, NextOf, Upstream
  <1>5. Buffered(bd[b])'
    <2>. SUFFICES ASSUME Sound(rec) PROVE Buffered(bd[b])'
      BY DEF Buffered, Sound, Upstream
    <2>1. rec.buf # <<>> => rec.buf[Len(rec.buf)] \in Versions
      BY <1>1, RecordFacts
    <2>2. rec.snap \in Versions
      BY <1>1, RecordFacts
    <2>3. /\ rec.buf # <<>> => Reach(t, rec.buf[Len(rec.buf)])'
          /\ rec.barrier = "answered" =>
                IF rec.buf = <<>> THEN Reach(t, rec.snap)' 
                ELSE Covers(oversize[t], rec.snap, rec.buf[1] - 1)
      BY <1>3, <1>4, <2>1, <2>2 DEF Piped, Buffered
    <2>. QED BY <1>3, <2>3 DEF Piped, Buffered
  <1>6. PICK q, n : q = bd'[b].queue /\ n = Len(q)
    OBVIOUS
  <1>7. /\ \A i \in 2 .. n : ~q[i].snap => Follows(oversize[t], q[i], q[i - 1].v, q[i - 1].conn)
        /\ rec.stage = "open" /\ q # <<>> =>
              q[n].conn = conn /\ q[n].v \in Versions /\ Reach(t, q[n].v)
    <2>1. CASE q = rec.queue
      BY <1>1, <1>3, <1>6, <2>1, RecordFacts DEF Piped, Queued
    <2>2. CASE q = <<>>
      BY <1>6, <2>2
    <2>3. CASE rec.queue # <<>> /\ q = Tail(rec.queue)
      <3>1. PICK old : old = rec.queue
        OBVIOUS
      <3>2. PICK m \in Nat : m = Len(old) /\ m # 0
        BY <1>1, <2>3, <3>1, RecordFacts
      <3>3. old \in Seq(Events) /\ \A i \in 1 .. m : old[i].v \in Versions
        BY <1>1, <3>1, <3>2, RecordFacts
      <3>4. n = m - 1 /\ \A i \in 1 .. m - 1 : q[i] = old[i + 1]
        BY <1>6, <2>3, <3>1, <3>2, <3>3, HeadTailProperties
      <3>5. /\ \A i \in 2 .. m : ~old[i].snap => Follows(oversize[t], old[i], old[i - 1].v, old[i - 1].conn)
            /\ rec.stage = "open" => old[m].conn = conn /\ Reach(t, old[m].v)
        BY <1>3, <2>3, <3>1, <3>2 DEF Piped, Queued
      <3>6. ASSUME NEW i \in 2 .. n, ~q[i].snap
            PROVE  Follows(oversize[t], q[i], q[i - 1].v, q[i - 1].conn)
        <4>1. i \in 1 .. m - 1 /\ i - 1 \in 1 .. m - 1 /\ i + 1 \in 2 .. m /\ (i + 1) - 1 = i
              /\ (i - 1) + 1 = i
          BY <3>2, <3>4
        <4>2. q[i] = old[i + 1] /\ q[i - 1] = old[i]
          BY <3>4, <4>1
        <4>. QED BY <3>5, <3>6, <4>1, <4>2
      <3>7. q # <<>> => q[n] = old[m] /\ old[m].v \in Versions
        <4>1. q \in Seq(Events)
          BY <2>3, <3>1, <3>3, HeadTailProperties
        <4>2. q # <<>> => n # 0
          BY <1>6, <4>1, EmptySeq
        <4>3. n # 0 => n \in 1 .. m - 1 /\ n + 1 = m /\ m \in 1 .. m
          BY <3>2, <3>4
        <4>. QED BY <3>3, <3>4, <4>2, <4>3
      <3>. QED BY <3>5, <3>6, <3>7
    <2>. QED BY <1>6, <2>1, <2>2, <2>3
  <1>8. Queued(bd[b])'
    <2>1. bd'[b].queue = q /\ Len(bd'[b].queue) = n
      BY <1>6
    <2>2. rec.stage = "open" => rec.thread \in sub
      BY DEF Piped, Queued
    <2>3. rec.stage = "open" /\ q # <<>> => q[n].conn = conn /\ Reach(t, q[n].v)'
      BY <1>4, <1>7
    <2>. QED BY <1>3, <1>7, <2>1, <2>2, <2>3 DEF Queued, Follows
  <1>. QED BY <1>2, <1>5, <1>8 DEF Piped

(* What the pump does to the broker: it reads a queue, or takes the pending *)
(* suspension.                                                             *)
LEMMA PumpReads ==
    ASSUME BrokerInv, Pipeline, NEW b \in 1 .. bindEpoch, NEW rec, bd' = [bd EXCEPT ![b] = rec],
           rec \in Binding,
           rec.queue = bd[b].queue \/ (bd[b].queue # <<>> /\ rec.queue = Tail(bd[b].queue)),
           rec.thread = bd[b].thread, rec.stage = bd[b].stage, rec.conn = bd[b].conn,
           rec.barrier = bd[b].barrier, rec.snap = bd[b].snap, rec.buf = bd[b].buf,
           rec.revoked = bd[b].revoked,
           UNCHANGED <<conn, connEpoch, sup, closing, peer, bindEpoch, wake, link, bound, notifs,
                       emitted, oversize, sub, op, transfer>>
    PROVE  BrokerInv' /\ Pipeline'
  <1>1. b \in Binds /\ Bounded(bd[b])
    BY Bindings
  <1>2. Len(rec.queue) <= Backlog
    <2>1. PICK q : q = bd[b].queue
      OBVIOUS
    <2>2. q \in Seq(Events) /\ Len(q) \in Nat /\ Len(q) <= Backlog
      BY <1>1, <2>1, RecordFacts DEF Bounded
    <2>3. q # <<>> => Len(Tail(q)) = Len(q) - 1
      BY <2>2, HeadTailProperties
    <2>4. Len(rec.queue) = Len(q) \/ Len(rec.queue) = Len(q) - 1
      BY <2>1, <2>3
    <2>. QED BY <2>2, <2>4, BrokerAssumption
  <1>3. Bounded(rec)
    BY <1>1, <1>2 DEF Bounded
  <1>4. BrokerInv'
    BY <1>1, <1>3, BarrierMoves DEF BrokerInv, BrokerTypeOK
  <1>5. bd'[b] = rec /\ \A x \in Binds \ {b} : bd'[x] = bd[x]
    BY <1>1 DEF BrokerInv, BrokerTypeOK
  <1>6. Piped(b)'
    <2>1. PICK old : old = bd[b]
      OBVIOUS
    <2>2. Piped(b)
      BY DEF Pipeline
    <2>. QED BY <1>5, <2>1, <2>2, ReadPipes
  <1>7. PICK S \in SUBSET Binds : S = {b}
    BY <1>1
  <1>8. Upstream' => Upstream
    BY DEF Upstream
  <1>9. Channel' /\ \A x \in 1 .. bindEpoch : x \notin S => Piped(x)' /\ Offers(x)
    BY <1>5, <1>7, <1>8, NoBarriers, OthersUntouched
  <1>. QED BY <1>4, <1>6, <1>7, <1>9 DEF Pipeline


(* A pump and its binding: TypeOK and Named of what the pump leaves. *)
LEMMA PumpNamed ==
    ASSUME StreamInv, BrokerInv', NEW b \in 1 .. bindEpoch, Sends(b), Len(wire') <= WireCap + 1,
           bd'[b].thread = bd[b].thread, \A x \in Binds \ {b} : bd'[x] = bd[x],
           UNCHANGED <<bindEpoch, transfer, remote>>,
           held' \in [Threads -> {0} \cup Binds], pump' \in [Binds -> {"none", "running", "gone"}],
           \A x \in Binds : pump'[x] = "running" => pump[x] = "running"
    PROVE  TypeOK' /\ Named'
  <1>1. 1 .. bindEpoch \subseteq Binds /\ Len(wire) \in Nat
    BY StreamTypes, Bindings DEF StreamInv
  <1>2. TypeOK'
    BY DEF StreamInv, TypeOK, BrokerInv, Sends
  <1>3. \A x \in 1 .. bindEpoch : bd'[x].thread = bd[x].thread
    BY <1>1
  <1>4. ASSUME NEW i \in 1 .. Len(wire')
        PROVE  wire'[i].bind \in 1 .. bindEpoch /\ bd'[wire'[i].bind].thread = wire'[i].thread
    <2>1. CASE i \in 1 .. Len(wire)
      BY <1>3, <2>1 DEF StreamInv, Named, Sends
    <2>2. CASE i \in Len(wire) + 1 .. Len(wire')
      BY <1>3, <2>2 DEF Sends
    <2>3. Len(wire') \in Nat
      BY DEF Sends
    <2>. QED BY <1>1, <2>1, <2>2, <2>3
  <1>5. \A t \in Threads : remote[t].of # 0 =>
           remote[t].of \in 1 .. bindEpoch /\ bd'[remote[t].of].thread = t
    BY <1>3 DEF StreamInv, Named
  <1>6. Named'
    BY <1>4, <1>5 DEF StreamInv, Named
  <1>. QED BY <1>2, <1>6

(* The pump forwards an event. *)
LEMMA PumpEventKeeps ==
    ASSUME StreamInv, NEW b \in Binds, PumpEvent(b)
    PROVE  StreamInv'
  <1>1. b \in 1 .. bindEpoch /\ Bounded(bd[b]) /\ bd[b] \in Binding /\ bd[b].thread \in Threads
    <2>1. b \in 1 .. bindEpoch
      BY Numbers DEF StreamInv, Named, PumpEvent, BrokerInv, Binds
    <2>. QED BY <2>1, Bindings DEF StreamInv, Bounded
  <1>2. TypeOK /\ BrokerInv /\ Pipeline /\ Named
    BY DEF StreamInv
  <1>3. Forwarded(b) /\ Forward(b) /\ bd[b].queue # <<>>
    BY <1>1, <1>2, ForwardSends DEF PumpEvent
  <1>4. PICK q : q = bd[b].queue /\ q \in Seq(Events) /\ q # <<>>
    BY <1>1, <1>3, RecordFacts
  <1>5. PICK s \in BOOLEAN : s = (bd[b].suspends /\ ~(Head(bd[b].queue).snap /\ bd[b].suspends))
    OBVIOUS
  <1>. DEFINE rec == [bd[b] EXCEPT !.queue = Tail(q), !.suspends = s]
  <1>6. Tail(q) \in Seq(Events)
    BY <1>4, HeadTailProperties
  <1>7. /\ rec \in Binding /\ rec.queue = Tail(q) /\ rec.thread = bd[b].thread
        /\ rec.stage = bd[b].stage /\ rec.conn = bd[b].conn /\ rec.barrier = bd[b].barrier
        /\ rec.snap = bd[b].snap /\ rec.buf = bd[b].buf /\ rec.revoked = bd[b].revoked
    BY <1>1, <1>6 DEF Binding
  <1>8. bd' = [bd EXCEPT ![b] = rec]
    BY <1>2, <1>3, <1>4, <1>5 DEF Forward, BrokerInv, BrokerTypeOK
  <1>. HIDE DEF rec
  <1>9. bd'[b] = rec /\ \A x \in Binds \ {b} : bd'[x] = bd[x]
    BY <1>2, <1>8 DEF BrokerInv, BrokerTypeOK
  <1>10. UNCHANGED <<conn, connEpoch, sup, closing, peer, bindEpoch, wake, link, bound, notifs,
                     emitted, oversize, sub, op, transfer, held, pump, remote>>
    BY DEF PumpEvent, supVars
  <1>11. BrokerInv' /\ Pipeline'
    BY <1>1, <1>2, <1>4, <1>7, <1>8, <1>10, PumpReads
  <1>12. TypeOK' /\ Named'
    <2>1. Len(wire') <= WireCap + 1
      <3>1. Len(wire) \in Nat /\ Len(wire) < WireCap
        BY <1>2, StreamTypes DEF PumpEvent
      <3>. QED BY <1>3, <3>1, StreamAssumption DEF Forwarded
    <2>2. Sends(b)
      BY <1>3 DEF Forwarded
    <2>3. /\ held' \in [Threads -> {0} \cup Binds] /\ pump' \in [Binds -> {"none", "running", "gone"}]
      BY <1>2, <1>10 DEF TypeOK
    <2>. QED BY <1>1, <1>7, <1>9, <1>10, <1>11, <2>1, <2>2, <2>3, PumpNamed
  <1>13. ASSUME NEW t \in Threads, Clean(remote'[t])
         PROVE  Gapless(t)' /\ Granted(t)'
    <2>1. Clean(remote[t]) /\ remote'[t] = remote[t]
      BY <1>10, <1>13
    <2>2. Gapless(t) /\ Granted(t) /\ remote[t].of \in 1 .. bindEpoch /\ bd[remote[t].of].thread = t
      BY <2>1 DEF StreamInv, Named, Clean
    <2>3. CASE remote[t].of = b
      <3>1. bd'[b].queue = Tail(bd[b].queue) /\ bd'[b].stage = bd[b].stage
        BY <1>4, <1>7, <1>9
      <3>. QED BY <1>1, <1>2, <1>3, <1>10, <2>1, <2>2, <2>3, <3>1, OwnForwarded
    <2>4. CASE remote[t].of # b
      <3>1. bd'[remote[t].of] = bd[remote[t].of]
        BY <1>2, <1>9, <2>2, <2>4, Bindings
      <3>2. Sends(b)
        BY <1>3 DEF Forwarded
      <3>. QED BY <1>2, <1>10, <2>1, <2>2, <2>4, <3>1, <3>2, OtherPump
    <2>. QED BY <2>3, <2>4
  <1>. QED BY <1>11, <1>12, <1>13 DEF StreamInv


(* The pump sends one frame that is no event, and takes the suspension. *)
LEMMA OneSentKeeps ==
    ASSUME StreamInv, NEW b \in 1 .. bindEpoch, NEW kind \in {"suspended", "revoked"},
           Len(wire) < WireCap, wire' = Append(wire, Frame(b, kind, NoEvent)),
           bd' = [bd EXCEPT ![b].suspends = FALSE], bd[b].suspends \/ bd[b].stage # "open",
           held' \in [Threads -> {0} \cup Binds], pump' \in [Binds -> {"none", "running", "gone"}],
           \A x \in Binds : pump'[x] = "running" => pump[x] = "running",
           UNCHANGED <<conn, connEpoch, sup, closing, peer, bindEpoch, wake, link, bound, notifs,
                       emitted, oversize, sub, op, transfer, remote>>
    PROVE  StreamInv'
  <1>1. TypeOK /\ BrokerInv /\ Pipeline /\ Named
    BY DEF StreamInv
  <1>2. b \in Binds /\ bd[b] \in Binding
    BY <1>1, Bindings DEF Bounded
  <1>3. /\ Sends(b) /\ Len(wire') = Len(wire) + 1 /\ wire'[Len(wire) + 1].kind = kind
        /\ wire'[Len(wire) + 1].event = NoEvent
    BY <1>1, OneSent
  <1>. DEFINE rec == [bd[b] EXCEPT !.suspends = FALSE]
  <1>4. /\ rec \in Binding /\ rec.queue = bd[b].queue /\ rec.thread = bd[b].thread
        /\ rec.stage = bd[b].stage /\ rec.conn = bd[b].conn /\ rec.barrier = bd[b].barrier
        /\ rec.snap = bd[b].snap /\ rec.buf = bd[b].buf /\ rec.revoked = bd[b].revoked
    BY <1>2 DEF Binding
  <1>5. bd' = [bd EXCEPT ![b] = rec]
    BY <1>1 DEF BrokerInv, BrokerTypeOK
  <1>. HIDE DEF rec
  <1>6. bd'[b] = rec /\ \A x \in Binds \ {b} : bd'[x] = bd[x]
    BY <1>1, <1>2, <1>5 DEF BrokerInv, BrokerTypeOK
  <1>7. BrokerInv' /\ Pipeline'
    BY <1>1, <1>4, <1>5, PumpReads
  <1>8. Len(wire) \in Nat /\ Len(wire') <= WireCap + 1
    <2>1. Len(wire) \in Nat
      BY <1>1, StreamTypes
    <2>. QED BY <1>3, <2>1, StreamAssumption
  <1>9. TypeOK' /\ Named'
    BY <1>3, <1>4, <1>6, <1>7, <1>8, PumpNamed
  <1>10. ASSUME NEW t \in Threads, Clean(remote'[t])
         PROVE  Gapless(t)' /\ Granted(t)'
    <2>1. Clean(remote[t]) /\ remote'[t] = remote[t]
      BY <1>10
    <2>2. Gapless(t) /\ Granted(t) /\ remote[t].of \in 1 .. bindEpoch
      BY <2>1 DEF StreamInv, Named, Clean
    <2>3. CASE remote[t].of = b
      <3>1. \A i \in Len(wire) + 1 .. Len(wire') : i = Len(wire) + 1
        BY <1>3, <1>8
      <3>2. \A i \in Len(wire) + 1 .. Len(wire') : ~EventOf(b, i)'
        BY <1>3, <3>1 DEF EventOf
      <3>3. bd'[b].queue = bd[b].queue /\ bd'[b].stage = bd[b].stage
        BY <1>4, <1>6
      <3>. QED BY <1>1, <1>3, <2>1, <2>2, <2>3, <3>2, <3>3, OwnSuspended
    <2>4. CASE remote[t].of # b
      <3>1. bd'[remote[t].of] = bd[remote[t].of]
        BY <1>1, <1>6, <2>2, <2>4, Bindings
      <3>. QED BY <1>1, <1>3, <2>1, <2>2, <2>4, <3>1, OtherPump
    <2>. QED BY <2>3, <2>4
  <1>. QED BY <1>7, <1>9, <1>10 DEF StreamInv

(* The pump tells of a suspension. *)
LEMMA PumpSuspendKeeps ==
    ASSUME StreamInv, NEW b \in Binds, PumpSuspend(b)
    PROVE  StreamInv'
  <1>1. b \in 1 .. bindEpoch
    BY Numbers DEF StreamInv, Named, PumpSuspend, BrokerInv, Binds
  <1>2. UNCHANGED <<conn, connEpoch, sup, closing, peer, bindEpoch, wake, link, bound, notifs,
                    emitted, oversize, sub, op, transfer, held, pump, remote>>
    BY DEF PumpSuspend, supVars
  <1>3. held' \in [Threads -> {0} \cup Binds] /\ pump' \in [Binds -> {"none", "running", "gone"}]
    BY <1>2 DEF StreamInv, TypeOK
  <1>. QED BY <1>1, <1>2, <1>3, OneSentKeeps DEF PumpSuspend

(* The pump ends. *)
LEMMA PumpEndsKeeps ==
    ASSUME StreamInv, NEW b \in Binds, PumpEnds(b)
    PROVE  StreamInv'
  <1>1. b \in 1 .. bindEpoch
    BY Numbers DEF StreamInv, Named, PumpEnds, BrokerInv, Binds
  <1>2. bd[b].stage # "open"
    BY <1>1 DEF StreamInv, Pipeline, Piped, Staged, PumpEnds
  <1>3. /\ held' \in [Threads -> {0} \cup Binds] /\ pump' \in [Binds -> {"none", "running", "gone"}]
        /\ \A x \in Binds : pump'[x] = "running" => pump[x] = "running"
    BY DEF StreamInv, TypeOK, PumpEnds
  <1>. QED BY <1>1, <1>2, <1>3, OneSentKeeps DEF PumpEnds, supVars

-----------------------------------------------------------------------------
(* The client. *)

(* A step that leaves the broker alone. *)
LEMMA BrokerStill ==
    ASSUME BrokerInv, Pipeline, UNCHANGED brokerVars
    PROVE  BrokerInv' /\ Pipeline' /\ Supplies
  <1>1. BrokerInv'
    BY DEF brokerVars, BrokerInv, BrokerTypeOK, Routed, Connected, Sent, Refusals, ToldEarly,
           SupervisorIsTold, Wanted, Transferring, Eligible, NativeAllowed
  <1>2. Pipeline' /\ Supplies
    BY NoBarriers, QuietPipeline DEF brokerVars, Upstream
  <1>. QED BY <1>1, <1>2

(* The first frame is taken: the wire and the broker. *)
LEMMA TailKeeps ==
    ASSUME StreamInv, wire # <<>>, wire' = Tail(wire), UNCHANGED <<brokerVars, held, pump>>,
           remote' \in [Threads -> Remote],
           \A t \in Threads :
              /\ remote'[t].of \in {remote[t].of, 0}
              /\ remote'[t].open => /\ remote'[t].registered /\ ~remote'[t].revoked
                                    /\ remote'[t].mixed \/ remote'[t].of # 0
              /\ Clean(remote'[t]) => TakesHead(t)
    PROVE  StreamInv'
  <1>1. TypeOK /\ BrokerInv /\ Pipeline /\ Named
    BY DEF StreamInv
  <1>2. BrokerInv' /\ Pipeline'
    BY <1>1, BrokerStill
  <1>3. wire \in Seq(Frames) /\ Len(wire) \in Nat /\ Len(wire) # 0
    BY <1>1, StreamTypes
  <1>4. /\ wire' \in Seq(Frames) /\ Len(wire') = Len(wire) - 1
        /\ \A i \in 1 .. Len(wire') : wire'[i] = wire[i + 1]
    BY <1>3, HeadTailProperties
  <1>5. TypeOK'
    <2>1. Len(wire') <= WireCap + 1
      BY <1>1, <1>3, <1>4, StreamAssumption DEF TypeOK
    <2>. QED BY <1>1, <1>2, <1>4, <2>1 DEF TypeOK, BrokerInv, brokerVars
  <1>6. Named'
    <2>1. \A i \in 1 .. Len(wire') : i + 1 \in 1 .. Len(wire)
      BY <1>3, <1>4
    <2>2. \A i \in 1 .. Len(wire') :
             wire'[i].bind \in 1 .. bindEpoch /\ bd[wire'[i].bind].thread = wire'[i].thread
      BY <1>1, <1>4, <2>1 DEF Named
    <2>3. \A t \in Threads : remote'[t].of # 0 =>
             remote'[t].of \in 1 .. bindEpoch /\ bd[remote'[t].of].thread = t
      BY <1>1 DEF Named
    <2>4. \A b \in Binds : pump'[b] = "running" => b <= bindEpoch
      BY <1>1 DEF Named
    <2>. QED BY <2>2, <2>3, <2>4 DEF Named, brokerVars
  <1>7. ASSUME NEW t \in Threads, Clean(remote'[t])
        PROVE  Gapless(t)' /\ Granted(t)'
    <2>1. TakesHead(t)
      BY <1>7
    <2>2. Gapless(t) /\ Granted(t)
      BY <2>1 DEF StreamInv, TakesHead
    <2>. QED BY <1>1, <2>1, <2>2, HeadTaken
  <1>. QED BY <1>2, <1>5, <1>6, <1>7 DEF StreamInv


(* dispatch: a frame that names another binding of the thread mixes the     *)
(* streams, one that does not is what the binding was owed.                *)
LEMMA DispatchKeeps ==
    ASSUME StreamInv, Dispatch
    PROVE  StreamInv'
  <1>1. TypeOK /\ BrokerInv /\ Named
    BY DEF StreamInv
  <1>2. wire # <<>> /\ wire \in Seq(Frames) /\ Len(wire) \in Nat /\ 1 \in 1 .. Len(wire)
    BY <1>1, StreamTypes DEF Dispatch
  <1>3. PICK f \in Frames : f = wire[1] /\ f = Head(wire)
    BY <1>1, <1>2, StreamTypes
  <1>4. PICK u \in Threads : u = f.thread
    BY <1>1, <1>2, <1>3, StreamTypes
  <1>5. /\ f.bind \in 1 .. bindEpoch /\ bd[f.bind].thread = u /\ f.bind # 0
        /\ f.kind \in {"event", "suspended", "revoked"}
        /\ f.event.v \in Versions /\ f.event.conn \in {0} \cup Conns /\ f.event.snap \in BOOLEAN
    <2>1. f.bind \in 1 .. bindEpoch /\ bd[f.bind].thread = u
      BY <1>1, <1>2, <1>3, <1>4 DEF Named
    <2>. QED BY <1>1, <1>2, <1>3, <2>1, StreamTypes
  <1>6. PICK r \in Remote : r = remote[u]
    BY <1>1, StreamTypes
  <1>7. PICK d : d = Dispatched(r, f)
    OBVIOUS
  <1>8. /\ d \in Remote /\ d.of \in {r.of, 0}
        /\ d.mixed \in BOOLEAN
        /\ f.kind = "event" /\ ~r.revoked =>
              /\ d.of = r.of /\ d.v = f.event.v /\ d.conn = f.event.conn
              /\ d.open <=> (r.open \/ f.event.snap)
        /\ f.kind = "event" /\ r.revoked => d = r
        /\ f.kind = "suspended" => d.of = r.of /\ d.v = r.v /\ d.conn = r.conn /\ ~d.open
        /\ f.kind = "revoked" => ~d.registered /\ ~d.open
        /\ f.kind # "revoked" => /\ d.registered = r.registered /\ d.revoked = r.revoked
                                 /\ d.mixed = r.mixed /\ d.of = r.of
    <2>1. CASE f.kind = "event" /\ ~r.revoked
      <3>1. d = Delivered(r, f)
        BY <1>7, <2>1 DEF Dispatched
      <3>. QED BY <1>5, <2>1, <3>1 DEF Delivered, Remote
    <2>2. CASE f.kind = "event" /\ r.revoked
      BY <1>7, <2>2 DEF Dispatched, Remote
    <2>3. CASE f.kind = "suspended"
      BY <1>7, <2>3 DEF Dispatched, Remote
    <2>4. CASE f.kind = "revoked"
      BY <1>7, <2>4, NoVersion DEF Dispatched, Remote, NoRemote
    <2>. QED BY <1>5, <2>1, <2>2, <2>3, <2>4
  <1>. DEFINE next == [d EXCEPT !.mixed = d.mixed \/ f.bind # r.of]
  <1>9. /\ next \in Remote /\ next.of = d.of /\ next.v = d.v /\ next.conn = d.conn
        /\ next.open = d.open /\ next.registered = d.registered /\ next.revoked = d.revoked
        /\ next.mixed <=> (d.mixed \/ f.bind # r.of)
    BY <1>8 DEF Remote
  <1>10. /\ wire' = Tail(wire) /\ UNCHANGED <<brokerVars, held, pump>>
         /\ remote' = IF r.registered THEN [remote EXCEPT ![u] = next] ELSE remote
    BY <1>3, <1>4, <1>6, <1>7 DEF Dispatch
  <1>. HIDE DEF next
  <1>11. remote' \in [Threads -> Remote]
    BY <1>1, <1>9, <1>10 DEF TypeOK
  <1>12. /\ \A t \in Threads : t # u => remote'[t] = remote[t]
         /\ r.registered => remote'[u] = next
         /\ ~r.registered => remote'[u] = r
    BY <1>1, <1>6, <1>9, <1>10 DEF TypeOK
  <1>13. ASSUME NEW t \in Threads
         PROVE  /\ remote'[t].of \in {remote[t].of, 0}
                /\ remote'[t].open => /\ remote'[t].registered /\ ~remote'[t].revoked
                                      /\ remote'[t].mixed \/ remote'[t].of # 0
                /\ Clean(remote'[t]) => TakesHead(t)
    <2>1. CASE t # u
      <3>1. remote'[t] = remote[t]
        BY <1>12, <2>1
      <3>2. Clean(remote[t]) => f.bind # remote[t].of
        BY <1>1, <1>5, <2>1 DEF Named, Clean
      <3>. QED BY <1>1, <1>3, <3>1, <3>2 DEF Named, TakesHead
    <2>2. CASE t = u /\ ~r.registered
      <3>1. remote'[t] = remote[t] /\ ~Clean(remote'[t])
        BY <1>6, <1>12, <2>2 DEF Clean
      <3>. QED BY <1>1, <3>1 DEF Named
    <2>3. CASE t = u /\ r.registered
      <3>1. remote'[t] = next /\ remote[t] = r
        BY <1>6, <1>12, <2>3
      <3>2. r.open => r.registered /\ ~r.revoked /\ (r.mixed \/ r.of # 0)
        BY <1>1, <1>6 DEF Named
      <3>3. next.of \in {r.of, 0}
        BY <1>8, <1>9
      <3>4. next.open => next.registered /\ ~next.revoked /\ (next.mixed \/ next.of # 0)
        <4>1. CASE f.kind = "event"
          BY <1>5, <1>8, <1>9, <2>3, <3>2, <4>1
        <4>2. CASE f.kind # "event"
          BY <1>5, <1>8, <1>9, <4>2
        <4>. QED BY <4>1, <4>2
      <3>5. Clean(next) => /\ Clean(r) /\ next.of = r.of /\ f.bind = r.of
                           /\ \/ /\ f.kind = "event" /\ next.v = f.event.v /\ next.conn = f.event.conn
                                 /\ next.open <=> (r.open \/ f.event.snap)
                              \/ f.kind = "suspended" /\ next.v = r.v /\ next.conn = r.conn
        <4>. SUFFICES ASSUME Clean(next)
                      PROVE  /\ Clean(r) /\ next.of = r.of /\ f.bind = r.of
                             /\ \/ /\ f.kind = "event" /\ next.v = f.event.v /\ next.conn = f.event.conn
                                   /\ next.open <=> (r.open \/ f.event.snap)
                                \/ f.kind = "suspended" /\ next.v = r.v /\ next.conn = r.conn
          OBVIOUS
        <4>1. next.registered /\ ~next.revoked /\ ~next.mixed /\ next.of # 0
          BY DEF Clean
        <4>2. f.kind # "revoked"
          BY <1>8, <1>9, <4>1
        <4>3. r.registered /\ ~r.revoked /\ ~r.mixed /\ next.of = r.of /\ f.bind = r.of
          BY <1>8, <1>9, <4>1, <4>2
        <4>4. Clean(r)
          BY <4>1, <4>3 DEF Clean
        <4>. QED BY <1>5, <1>8, <1>9, <4>2, <4>3, <4>4
      <3>6. Clean(next) => TakesHead(t)
        BY <1>3, <3>1, <3>5 DEF TakesHead
      <3>. QED BY <3>1, <3>3, <3>4, <3>6
    <2>. QED BY <2>1, <2>2, <2>3
  <1>. QED BY <1>2, <1>10, <1>11, <1>13, TailKeeps

(* The consumer's queue overflows: its binding is revoked. *)
LEMMA OverflowKeeps ==
    ASSUME StreamInv, Overflow
    PROVE  StreamInv'
  <1>1. TypeOK /\ BrokerInv /\ Named
    BY DEF StreamInv
  <1>2. wire # <<>> /\ wire \in Seq(Frames) /\ Len(wire) \in Nat /\ 1 \in 1 .. Len(wire)
    BY <1>1, StreamTypes DEF Overflow
  <1>3. PICK f \in Frames : f = wire[1] /\ f = Head(wire)
    BY <1>1, <1>2, StreamTypes
  <1>4. PICK u \in Threads : u = f.thread
    BY <1>1, <1>2, <1>3, StreamTypes
  <1>5. f.bind \in 1 .. bindEpoch /\ bd[f.bind].thread = u
    BY <1>1, <1>2, <1>3, <1>4 DEF Named
  <1>6. /\ wire' = Tail(wire) /\ UNCHANGED <<brokerVars, held, pump>>
        /\ remote' = [remote EXCEPT ![u].revoked = TRUE, ![u].open = FALSE, ![u].v = 0, ![u].conn = 0]
    BY <1>3, <1>4 DEF Overflow
  <1>7. /\ remote' \in [Threads -> Remote] /\ \A t \in Threads : t # u => remote'[t] = remote[t]
        /\ remote'[u].of = remote[u].of /\ remote'[u].revoked /\ ~remote'[u].open
    <2>1. PICK r \in Remote : r = remote[u]
      BY <1>1, StreamTypes
    <2>. DEFINE new == [r EXCEPT !.revoked = TRUE, !.open = FALSE, !.v = 0, !.conn = 0]
    <2>2. new \in Remote /\ new.of = r.of /\ new.revoked /\ ~new.open
      BY NoVersion DEF Remote
    <2>3. remote' = [remote EXCEPT ![u] = new]
      BY <1>1, <1>6, <2>1 DEF TypeOK
    <2>. HIDE DEF new
    <2>. QED BY <1>1, <2>1, <2>2, <2>3 DEF TypeOK
  <1>8. ASSUME NEW t \in Threads
        PROVE  /\ remote'[t].of \in {remote[t].of, 0}
               /\ remote'[t].open => /\ remote'[t].registered /\ ~remote'[t].revoked
                                     /\ remote'[t].mixed \/ remote'[t].of # 0
               /\ Clean(remote'[t]) => TakesHead(t)
    <2>1. CASE t # u
      <3>1. remote'[t] = remote[t]
        BY <1>7, <2>1
      <3>2. Clean(remote[t]) => f.bind # remote[t].of
        BY <1>1, <1>5, <2>1 DEF Named, Clean
      <3>. QED BY <1>1, <1>3, <3>1, <3>2 DEF Named, TakesHead
    <2>2. CASE t = u
      BY <1>7, <2>2 DEF Clean
    <2>. QED BY <2>1, <2>2
  <1>. QED BY <1>2, <1>6, <1>7, <1>8, TailKeeps


(* A remote binding is new: nothing of its binding is on the wire yet. *)
Begins(t) ==
    /\ remote'[t].of \in bindEpoch + 1 .. bindEpoch' /\ bd'[remote'[t].of] = Fresh(t)
    /\ remote'[t].open => remote'[t].registered /\ ~remote'[t].revoked

(* A step that sends and takes no frame. *)
LEMMA WireKept ==
    ASSUME StreamInv, BrokerInv', Pipeline', wire' = wire, bindEpoch' \in {bindEpoch, bindEpoch + 1},
           \A b \in 1 .. bindEpoch : Offers(b), transfer' = [t \in Threads |-> NoTransfer],
           held' \in [Threads -> {0} \cup Binds], pump' \in [Binds -> {"none", "running", "gone"}],
           \A b \in Binds : pump'[b] = "running" => pump[b] = "running" \/ b <= bindEpoch',
           remote' \in [Threads -> Remote],
           \A t \in Threads : \/ remote'[t] = remote[t]
                              \/ remote'[t].of = 0 /\ ~remote'[t].open
                              \/ Begins(t)
    PROVE  StreamInv'
  <1>1. TypeOK /\ BrokerInv /\ Named
    BY DEF StreamInv
  <1>2. TypeOK'
    BY <1>1 DEF TypeOK, BrokerInv
  <1>3. bindEpoch \in Nat /\ bindEpoch' \in Nat /\ bindEpoch <= bindEpoch' /\ Binds \subseteq Nat
    BY <1>1, Numbers, StreamTypes DEF BrokerInv
  <1>4. \A b \in 1 .. bindEpoch : b \in 1 .. bindEpoch' /\ bd'[b].thread = bd[b].thread
    BY <1>3 DEF Offers
  <1>5. \A t \in Threads : Begins(t) =>
           /\ remote'[t].of \in 1 .. bindEpoch' /\ bd'[remote'[t].of].thread = t /\ remote'[t].of # 0
           /\ remote'[t].of \notin 1 .. bindEpoch
    <2>1. \A n \in bindEpoch + 1 .. bindEpoch' : n \in 1 .. bindEpoch' /\ n \notin 1 .. bindEpoch /\ n # 0
      BY <1>3
    <2>2. \A t \in Threads : Fresh(t).thread = t
      BY DEF Fresh
    <2>. QED BY <2>1, <2>2 DEF Begins
  <1>6. Named'
    <2>1. ASSUME NEW t \in Threads
          PROVE  /\ remote'[t].of # 0 => remote'[t].of \in 1 .. bindEpoch' /\ bd'[remote'[t].of].thread = t
                 /\ remote'[t].open => /\ remote'[t].registered /\ ~remote'[t].revoked
                                       /\ remote'[t].mixed \/ remote'[t].of # 0
      <3>1. CASE remote'[t] = remote[t]
        BY <1>1, <1>4, <3>1 DEF Named
      <3>2. CASE remote'[t].of = 0 /\ ~remote'[t].open
        BY <3>2
      <3>3. CASE Begins(t)
        BY <1>5, <3>3 DEF Begins
      <3>. QED BY <3>1, <3>2, <3>3
    <2>2. \A i \in 1 .. Len(wire) :
             wire[i].bind \in 1 .. bindEpoch' /\ bd'[wire[i].bind].thread = wire[i].thread
      BY <1>1, <1>4 DEF Named
    <2>3. \A b \in Binds : pump'[b] = "running" => b <= bindEpoch'
      <3>1. \A b \in Binds : pump[b] = "running" => b <= bindEpoch
        BY <1>1 DEF Named
      <3>2. \A b \in Binds : b <= bindEpoch => b <= bindEpoch'
        BY <1>3
      <3>. QED BY <3>1, <3>2
    <2>. QED BY <2>1, <2>2, <2>3 DEF Named
  <1>7. ASSUME NEW t \in Threads, Clean(remote'[t])
        PROVE  Gapless(t)' /\ Granted(t)'
    <2>1. CASE remote'[t] = remote[t]
      <3>1. Clean(remote[t])
        BY <1>7, <2>1
      <3>2. Gapless(t) /\ Granted(t) /\ Offers(remote[t].of)
        BY <1>1, <3>1 DEF StreamInv, Named, Clean
      <3>. QED BY <1>1, <2>1, <3>1, <3>2, StreamKept
    <2>2. CASE remote'[t].of = 0
      BY <1>7, <2>2 DEF Clean
    <2>3. CASE Begins(t)
      <3>1. PICK b, new : b = remote'[t].of /\ new = bd'[b]
        OBVIOUS
      <3>2. new.queue = <<>> /\ new.stage = "idle"
        BY <2>3, <3>1 DEF Begins, Fresh
      <3>3. \A i \in 1 .. Len(wire) : wire[i].bind # b
        BY <1>1, <1>5, <2>3, <3>1 DEF Named
      <3>4. \A n \in 1 .. Len(wire') : ~EventOf(b, n)'
        BY <3>3 DEF EventOf
      <3>5. Gapless(t)'
        BY <3>1, <3>2, <3>4 DEF Gapless
      <3>6. Granted(t)'
        BY <3>1, <3>2 DEF Granted
      <3>. QED BY <3>5, <3>6
    <2>. QED BY <2>1, <2>2, <2>3
  <1>. QED BY <1>2, <1>6, <1>7 DEF StreamInv

(* A step of the broker. *)
LEMMA BrokerKeepsStream ==
    ASSUME StreamInv, BrokerStep, UNCHANGED streamVars
    PROVE  StreamInv'
  <1>1. TypeOK /\ BrokerInv /\ Pipeline /\ \A t \in Threads : ~Transferring(t)
    BY StreamTypes DEF StreamInv
  <1>2. BrokerInv' /\ Guarantee
    BY <1>1, BrokerStepKeeps
  <1>3. Pipeline' /\ Supplies
    BY <1>1, BrokerPipes
  <1>4. transfer' = [t \in Threads |-> NoTransfer]
    <2>1. \A t \in Threads : transfer'[t] = NoTransfer
      BY <1>1, <1>2 DEF Guarantee, Drains, Transferring
    <2>2. transfer' \in [Threads -> Transfer \cup {NoTransfer}]
      BY <1>2 DEF BrokerInv, BrokerTypeOK
    <2>. QED BY <2>1, <2>2
  <1>5. UNCHANGED <<held, pump, wire, remote>>
    BY DEF streamVars
  <1>6. /\ held' \in [Threads -> {0} \cup Binds] /\ pump' \in [Binds -> {"none", "running", "gone"}]
        /\ remote' \in [Threads -> Remote]
    BY <1>1, <1>5 DEF TypeOK
  <1>. QED BY <1>2, <1>3, <1>4, <1>5, <1>6, WireKept DEF Supplies

(* Conn.Bind asks. *)
LEMMA AskBindKeeps ==
    ASSUME StreamInv, NEW t \in Threads, AskBind(t)
    PROVE  StreamInv'
  <1>1. TypeOK /\ BrokerInv /\ Pipeline
    BY DEF StreamInv
  <1>2. UNCHANGED <<brokerVars, held, pump, wire>>
    BY DEF AskBind
  <1>3. BrokerInv' /\ Pipeline' /\ Supplies
    BY <1>1, <1>2, BrokerStill
  <1>. DEFINE new == [NoRemote EXCEPT !.registered = TRUE, !.asking = TRUE]
  <1>4. new \in Remote /\ new.of = 0 /\ ~new.open
    BY NoVersion DEF NoRemote, Remote
  <1>5. remote' = [remote EXCEPT ![t] = new]
    BY DEF AskBind
  <1>. HIDE DEF new
  <1>6. /\ remote' \in [Threads -> Remote] /\ remote'[t] = new
        /\ \A u \in Threads : u # t => remote'[u] = remote[u]
    BY <1>1, <1>4, <1>5 DEF TypeOK
  <1>7. transfer' = [u \in Threads |-> NoTransfer] /\ bindEpoch' = bindEpoch
    BY <1>1, <1>2 DEF TypeOK, brokerVars
  <1>8. held' \in [Threads -> {0} \cup Binds] /\ pump' \in [Binds -> {"none", "running", "gone"}]
    BY <1>1, <1>2 DEF TypeOK
  <1>. QED BY <1>2, <1>3, <1>4, <1>6, <1>7, <1>8, WireKept DEF Supplies


(* handleBind makes a binding. *)
LEMMA HandleBindKeeps ==
    ASSUME StreamInv, NEW t \in Threads, HandleBind(t)
    PROVE  StreamInv'
  <1>1. TypeOK /\ BrokerInv /\ Pipeline /\ Named
    BY DEF StreamInv
  <1>2. Attach(t) /\ transfer' = transfer /\ transfer' = [u \in Threads |-> NoTransfer]
    BY <1>1 DEF HandleBind, Bind, TypeOK
  <1>3. /\ BrokerInv' /\ bindEpoch' = bindEpoch + 1 /\ bindEpoch' \in Binds
        /\ bd'[bindEpoch'] = Fresh(t)
    <2>1. transfer' \in [Threads -> Transfer \cup {NoTransfer}]
      BY <1>1, <1>2 DEF BrokerInv, BrokerTypeOK
    <2>. QED BY <1>1, <1>2, <2>1, AttachKeeps
  <1>4. Pipeline' /\ \A b \in 1 .. bindEpoch : Offers(b)
    BY <1>1, <1>2, AttachPipes
  <1>5. PICK n \in Binds : n = bindEpoch + 1 /\ n = bindEpoch'
    BY <1>3
  <1>6. /\ held' = [held EXCEPT ![t] = n] /\ pump' = [pump EXCEPT ![n] = "running"]
        /\ remote' = [remote EXCEPT ![t].asking = FALSE, ![t].of = n] /\ wire' = wire
    BY <1>5 DEF HandleBind
  <1>7. PICK r \in Remote : r = remote[t]
    BY <1>1, StreamTypes
  <1>. DEFINE new == [r EXCEPT !.asking = FALSE, !.of = n]
  <1>8. /\ new \in Remote /\ new.of = n /\ new.open = r.open /\ new.registered = r.registered
        /\ new.revoked = r.revoked
    BY DEF Remote
  <1>9. remote' = [remote EXCEPT ![t] = new]
    BY <1>1, <1>6, <1>7 DEF TypeOK
  <1>. HIDE DEF new
  <1>10. /\ remote' \in [Threads -> Remote] /\ remote'[t] = new
         /\ \A u \in Threads : u # t => remote'[u] = remote[u]
    BY <1>1, <1>8, <1>9 DEF TypeOK
  <1>11. Begins(t)
    <2>1. n \in bindEpoch + 1 .. bindEpoch'
      BY <1>5, StreamTypes, <1>1
    <2>2. r.open => r.registered /\ ~r.revoked
      BY <1>1, <1>7 DEF Named
    <2>3. bd'[n] = Fresh(t)
      BY <1>3, <1>5
    <2>4. remote'[t].of = n /\ (remote'[t].open => remote'[t].registered /\ ~remote'[t].revoked)
      BY <1>8, <1>10, <2>2
    <2>. QED BY <2>1, <2>3, <2>4 DEF Begins
  <1>12. /\ held' \in [Threads -> {0} \cup Binds] /\ pump' \in [Binds -> {"none", "running", "gone"}]
         /\ \A b \in Binds : pump'[b] = "running" => pump[b] = "running" \/ b <= bindEpoch'
    <2>1. n <= bindEpoch'
      BY <1>1, <1>5, StreamTypes
    <2>2. \A b \in Binds : pump'[b] = "running" => pump[b] = "running" \/ b = n
      BY <1>1, <1>6 DEF TypeOK
    <2>3. held' \in [Threads -> {0} \cup Binds] /\ pump' \in [Binds -> {"none", "running", "gone"}]
      BY <1>1, <1>6 DEF TypeOK
    <2>. QED BY <2>1, <2>2, <2>3
  <1>. QED BY <1>2, <1>3, <1>4, <1>6, <1>10, <1>11, <1>12, WireKept

(* RemoteBinding.Close. *)
LEMMA UnbindKeeps ==
    ASSUME StreamInv, NEW t \in Threads, Unbind(t)
    PROVE  StreamInv'
  <1>1. TypeOK /\ BrokerInv /\ Pipeline /\ Named
    BY DEF StreamInv
  <1>2. PICK b \in Binds : b = remote[t].of
    <2>1. remote[t].of \in 1 .. bindEpoch
      BY <1>1 DEF Unbind, Named
    <2>. QED BY <1>1, <2>1, Bindings
  <1>3. BrokerInv' /\ Pipeline' /\ Supplies /\ transfer' = transfer
    <2>1. CASE CloseBinding(b)
      BY <1>1, <2>1, CloseBindingKeeps, CloseBindingPipes DEF CloseBinding
    <2>2. CASE UNCHANGED brokerVars
      BY <1>1, <2>2, BrokerStill DEF brokerVars
    <2>. QED BY <1>2, <2>1, <2>2 DEF Unbind
  <1>4. NoRemote \in Remote /\ NoRemote.of = 0 /\ ~NoRemote.open
    BY NoVersion DEF NoRemote, Remote
  <1>5. /\ remote' \in [Threads -> Remote] /\ remote'[t] = NoRemote
        /\ \A u \in Threads : u # t => remote'[u] = remote[u]
    BY <1>1, <1>4 DEF TypeOK, Unbind
  <1>6. /\ held' \in [Threads -> {0} \cup Binds] /\ pump' \in [Binds -> {"none", "running", "gone"}]
        /\ pump' = pump /\ wire' = wire
    BY <1>1 DEF TypeOK, Unbind
  <1>7. transfer' = [u \in Threads |-> NoTransfer]
    BY <1>1, <1>3 DEF TypeOK
  <1>. QED BY <1>3, <1>4, <1>5, <1>6, <1>7, WireKept DEF Supplies

(* The session that ends holds the binding. *)
Gone(b) == bd[b].thread \in Threads /\ held[bd[b].thread] = b

(* Its own bindings are revoked, what its pumps had not read is dropped. *)
LEMMA GoneRecord ==
    ASSUME BrokerInv, TypeOK, ClientGone, NEW b \in Binds
    PROVE  /\ Bounded(bd'[b]) /\ bd'[b].thread = bd[b].thread /\ bd'[b].barrier = bd[b].barrier
           /\ bd'[b].snap = bd[b].snap /\ bd'[b].queue \in {bd[b].queue, <<>>}
           /\ bd'[b].revoked <=> (bd[b].revoked \/ Gone(b))
           /\ Gone(b) => bd'[b].stage = "idle" /\ bd'[b].buf = <<>>
           /\ ~Gone(b) => /\ bd'[b].stage = bd[b].stage /\ bd'[b].conn = bd[b].conn
                          /\ bd'[b].buf = bd[b].buf
  <1>1. PICK old : old = bd[b]
    OBVIOUS
  <1>2. Bounded(old) /\ old \in Binding
    BY <1>1, TypeRecords DEF BrokerInv, RecordsOK, Bounded
  <1>3. PICK rec : rec = IF Gone(b) THEN Revoked(old) ELSE old
    OBVIOUS
  <1>4. /\ Bounded(rec) /\ rec.thread = old.thread /\ rec.barrier = old.barrier
        /\ rec.snap = old.snap /\ rec.queue = old.queue
        /\ rec.revoked <=> (old.revoked \/ Gone(b))
        /\ Gone(b) => rec.stage = "idle" /\ rec.buf = <<>>
        /\ ~Gone(b) => rec.stage = old.stage /\ rec.conn = old.conn /\ rec.buf = old.buf
    <2>1. CASE Gone(b)
      <3>1. rec = Revoked(old)
        BY <1>3, <2>1
      <3>2. Bounded(Revoked(old))
        BY <1>2, RevokedMoves DEF Moves
      <3>3. /\ Revoked(old).thread = old.thread /\ Revoked(old).barrier = old.barrier
            /\ Revoked(old).snap = old.snap /\ Revoked(old).queue = old.queue
            /\ Revoked(old).revoked /\ Revoked(old).stage = "idle" /\ Revoked(old).buf = <<>>
        BY <1>2 DEF Revoked, Binding
      <3>. QED BY <2>1, <3>1, <3>2, <3>3
    <2>2. CASE ~Gone(b)
      BY <1>2, <1>3, <2>2 DEF Bounded, Binding
    <2>. QED BY <2>1, <2>2
  <1>5. bd'[b] = IF pump[b] = "running" THEN [rec EXCEPT !.queue = <<>>, !.suspends = FALSE] ELSE rec
    BY <1>1, <1>3 DEF ClientGone, Gone
  <1>6. CASE pump[b] = "running"
    <2>. DEFINE new == [rec EXCEPT !.queue = <<>>, !.suspends = FALSE]
    <2>1. /\ Bounded(new) /\ new.thread = rec.thread /\ new.barrier = rec.barrier
          /\ new.snap = rec.snap /\ new.queue = <<>> /\ new.revoked = rec.revoked
          /\ new.stage = rec.stage /\ new.conn = rec.conn /\ new.buf = rec.buf
      <3>1. <<>> \in Seq(Events)
        BY EmptySeq
      <3>. QED BY <1>4, <3>1, EmptyBuffer DEF Bounded, Binding
    <2>2. bd'[b] = new
      BY <1>5, <1>6
    <2>. HIDE DEF new
    <2>. QED BY <1>1, <1>4, <2>1, <2>2
  <1>7. CASE pump[b] # "running"
    BY <1>1, <1>4, <1>5, <1>7
  <1>. QED BY <1>6, <1>7

(* The session ends: the broker. *)
LEMMA GoneBroker ==
    ASSUME BrokerInv, TypeOK, Pipeline, ClientGone
    PROVE  BrokerInv' /\ Pipeline'
  <1>1. UNCHANGED <<conn, connEpoch, sup, closing, peer, bindEpoch, link, notifs, emitted, oversize, sub, op,
                    transfer>>
    BY DEF ClientGone, supVars
  <1>2. bound \in [Threads -> {0} \cup Binds] /\ 0 \notin Binds
    BY StreamTypes DEF BrokerInv, BrokerTypeOK
  <1>3. /\ bound' \in [Threads -> {0} \cup Binds] /\ wake' \in BOOLEAN /\ (wake => wake')
        /\ \A t \in Threads : bound'[t] = IF held[t] = bound[t] THEN 0 ELSE bound[t]
        /\ \A t \in Threads : held[t] # 0 => wake'
    BY <1>2 DEF ClientGone, BrokerInv, BrokerTypeOK
  <1>4. RecordsOK'
    <2>1. bd' = [b \in Binds |-> bd'[b]]
      BY DEF ClientGone
    <2>2. \A b \in Binds : Bounded(bd'[b])
      BY GoneRecord
    <2>3. bd' \in [Binds -> Binding]
      BY <2>1, <2>2 DEF Bounded
    <2>. QED BY <2>2, <2>3 DEF RecordsOK, Bounded
  <1>5. BrokerTypeOK'
    BY <1>1, <1>3, <1>4 DEF BrokerInv, BrokerTypeOK, RecordsOK, Bounded
  <1>6. Routed'
    <2>. SUFFICES ASSUME NEW b \in Binds
                  PROVE  /\ bd'[b].thread \in Threads <=> b <= bindEpoch
                         /\ bd'[b].barrier # "none" => b <= bindEpoch
                         /\ \A t \in Threads : bound'[t] = b <=> bd'[b].thread = t /\ ~bd'[b].revoked
      BY <1>1 DEF Routed
    <2>1. /\ bd[b].thread \in Threads <=> b <= bindEpoch
          /\ bd[b].barrier # "none" => b <= bindEpoch
          /\ \A t \in Threads : bound[t] = b <=> bd[b].thread = t /\ ~bd[b].revoked
      BY DEF BrokerInv, Routed
    <2>2. /\ bd'[b].thread = bd[b].thread /\ bd'[b].barrier = bd[b].barrier
          /\ bd'[b].revoked <=> (bd[b].revoked \/ Gone(b))
      BY GoneRecord
    <2>3. \A t \in Threads : bound'[t] = b <=> bound[t] = b /\ held[t] # b
      BY <1>2, <1>3
    <2>. QED BY <2>1, <2>2, <2>3 DEF Gone
  <1>7. Connected' /\ Sent' /\ Refusals'
    BY <1>1 DEF BrokerInv, Connected, Sent, Refusals
  <1>8. ToldEarly' /\ SupervisorIsTold'
    <2>1. \A t \in Threads : bound[t] # 0 => bound'[t] # 0 \/ wake'
      BY <1>3
    <2>2. ~Wanted' => ~Wanted \/ wake' \/ closing'
      BY <1>1, <2>1 DEF Wanted, Transferring
    <2>3. \A b \in Eligible(conn)' : b \in Eligible(conn)
      <3>. SUFFICES ASSUME NEW b \in Eligible(conn)' PROVE b \in Eligible(conn)
        OBVIOUS
      <3>1. b \in Binds /\ bd'[b].thread \in Threads /\ bound'[bd'[b].thread] = b /\ bd'[b].stage = "idle"
            /\ (Transferring(bd[b].thread)' => NativeAllowed(b, conn)')
        BY DEF Eligible
      <3>2. bd'[b].thread = bd[b].thread /\ (~Gone(b) => bd'[b].stage = bd[b].stage)
        BY <3>1, GoneRecord
      <3>3. bound[bd[b].thread] = b /\ ~Gone(b)
        BY <1>2, <1>3, <3>1, <3>2 DEF Gone
      <3>4. ~Transferring(bd[b].thread)
        BY <3>1, <3>2, StreamTypes
      <3>. QED BY <3>1, <3>2, <3>3, <3>4 DEF Eligible
    <2>. QED BY <1>1, <1>3, <2>2, <2>3, ToldKept DEF BrokerInv
  <1>9. Pipeline'
    <2>1. Channel'
      BY <1>1, ChannelKept DEF BrokerInv, Pipeline, Upstream
    <2>2. ASSUME NEW b \in 1 .. bindEpoch PROVE Piped(b)'
      <3>1. b \in Binds /\ Piped(b) /\ Bounded(bd[b])
        BY Bindings DEF Pipeline
      <3>2. PICK rec : rec = bd[b]
        OBVIOUS
      <3>3. /\ bd'[b].thread = rec.thread /\ bd'[b].barrier = rec.barrier
            /\ bd'[b].snap = rec.snap /\ bd'[b].queue \in {rec.queue, <<>>}
            /\ bd'[b].revoked <=> (rec.revoked \/ Gone(b))
            /\ Gone(b) => bd'[b].stage = "idle" /\ bd'[b].buf = <<>>
            /\ ~Gone(b) => /\ bd'[b].stage = rec.stage /\ bd'[b].conn = rec.conn
                           /\ bd'[b].buf = rec.buf
        BY <3>1, <3>2, GoneRecord
      <3>4. CASE Gone(b)
        <4>1. Staged(bd[b])'
          BY <1>1, <3>1, <3>2, <3>3, <3>4 DEF Piped, Staged
        <4>2. Buffered(bd[b])'
          BY <3>3, <3>4 DEF Buffered, Sound
        <4>3. Queued(bd[b])'
          <5>1. CASE bd'[b].queue = rec.queue
            BY <1>1, <3>1, <3>2, <3>3, <3>4, <5>1 DEF Piped, Queued, Follows
          <5>2. CASE bd'[b].queue = <<>>
            <6>1. Len(bd'[b].queue) = 0
              BY <5>2
            <6>. QED BY <3>3, <3>4, <6>1 DEF Queued
          <5>. QED BY <3>3, <5>1, <5>2
        <4>. QED BY <4>1, <4>2, <4>3 DEF Piped
      <3>5. CASE ~Gone(b)
        <4>1. bd'[b].revoked = rec.revoked
          <5>1. bd'[b].revoked \in BOOLEAN /\ rec.revoked \in BOOLEAN
            BY <1>4, <3>1, <3>2, RecordFacts DEF RecordsOK, Bounded, Binding
          <5>. QED BY <3>3, <3>5, <5>1
        <4>. QED BY <1>1, <3>1, <3>2, <3>3, <3>5, <4>1, ReadPipes
      <3>. QED BY <3>4, <3>5
    <2>. QED BY <1>1, <2>1, <2>2 DEF Pipeline
  <1>. QED BY <1>5, <1>6, <1>7, <1>8, <1>9 DEF BrokerInv

(* The session ends, and with it everything the client had. *)
LEMMA ClientGoneKeeps ==
    ASSUME StreamInv, ClientGone
    PROVE  StreamInv'
  <1>1. TypeOK /\ BrokerInv /\ Pipeline
    BY DEF StreamInv
  <1>2. BrokerInv' /\ Pipeline'
    BY <1>1, GoneBroker
  <1>3. /\ NoRemote \in Remote /\ NoRemote.of = 0 /\ ~NoRemote.open /\ ~NoRemote.registered
    BY NoVersion DEF NoRemote, Remote
  <1>4. /\ remote' = [t \in Threads |-> NoRemote] /\ wire' = <<>> /\ transfer' = transfer
        /\ held' = [t \in Threads |-> 0]
        /\ pump' = [b \in Binds |-> IF pump[b] = "running" THEN "gone" ELSE pump[b]]
    BY DEF ClientGone
  <1>5. wire' \in Seq(Frames) /\ Len(wire') = 0 /\ 0 <= WireCap + 1
    BY <1>4, StreamAssumption, EmptySeq
  <1>6. pump' \in [Binds -> {"none", "running", "gone"}] /\ \A b \in Binds : pump'[b] # "running"
    BY <1>1, <1>4 DEF TypeOK
  <1>7. TypeOK'
    BY <1>1, <1>2, <1>3, <1>4, <1>5, <1>6 DEF TypeOK, BrokerInv
  <1>8. Named'
    BY <1>3, <1>4, <1>5, <1>6 DEF Named
  <1>9. \A t \in Threads : ~Clean(remote'[t])
    BY <1>3, <1>4 DEF Clean
  <1>. QED BY <1>2, <1>7, <1>8, <1>9 DEF StreamInv


-----------------------------------------------------------------------------
(* The theorems. *)

(* Nothing is bound, sent or known. *)
LEMMA StreamStart == Init => StreamInv
  <1>. SUFFICES ASSUME Init PROVE StreamInv
    OBVIOUS
  <1>1. BrokerInv
    BY BrokerInitOK DEF Init
  <1>2. /\ NoRemote \in Remote /\ NoRemote.of = 0 /\ ~NoRemote.open /\ ~NoRemote.registered
    BY NoVersion DEF NoRemote, Remote
  <1>3. wire \in Seq(Frames) /\ Len(wire) = 0 /\ 0 <= WireCap + 1
    BY StreamAssumption, EmptySeq DEF Init
  <1>4. TypeOK
    BY <1>1, <1>2, <1>3 DEF Init, TypeOK, BrokerInit, BrokerInv
  <1>5. Pipeline
    BY DEF Init, BrokerInit, Pipeline, Channel
  <1>6. Named
    BY <1>2, <1>3 DEF Init, Named
  <1>7. \A t \in Threads : ~Clean(remote[t])
    BY <1>2 DEF Init, Clean
  <1>. QED BY <1>1, <1>4, <1>5, <1>6, <1>7 DEF StreamInv

(* Every step of the broker, the client, the pumps and the wire keeps the   *)
(* invariant.                                                              *)
LEMMA StreamStep ==
    ASSUME StreamInv, [Next]_vars
    PROVE  StreamInv'
  <1>1. CASE BrokerStep /\ UNCHANGED streamVars
    BY <1>1, BrokerKeepsStream
  <1>2. CASE \E t \in Threads : ClientStep(t)
    BY <1>2, AskBindKeeps, HandleBindKeeps, UnbindKeeps, ClientGoneKeeps DEF ClientStep, BindRefused
  <1>3. CASE \E b \in Binds : PumpStep(b)
    BY <1>3, PumpEventKeeps, PumpSuspendKeeps, PumpEndsKeeps DEF PumpStep
  <1>4. CASE Dispatch \/ Overflow \/ ClientGone
    BY <1>4, DispatchKeeps, OverflowKeeps, ClientGoneKeeps
  <1>5. CASE UNCHANGED vars
    <2>1. TypeOK /\ BrokerInv /\ Pipeline
      BY DEF StreamInv
    <2>2. UNCHANGED <<brokerVars, held, pump, wire, remote>>
      BY <1>5 DEF vars, streamVars
    <2>3. BrokerInv' /\ Pipeline' /\ Supplies
      BY <2>1, <2>2, BrokerStill
    <2>4. transfer' = [t \in Threads |-> NoTransfer]
      BY <2>1, <2>2 DEF TypeOK, brokerVars
    <2>5. /\ held' \in [Threads -> {0} \cup Binds] /\ pump' \in [Binds -> {"none", "running", "gone"}]
          /\ remote' \in [Threads -> Remote]
      BY <2>1, <2>2 DEF TypeOK
    <2>. QED BY <2>2, <2>3, <2>4, <2>5, WireKept DEF Supplies
  <1>. QED BY <1>1, <1>2, <1>3, <1>4, <1>5 DEF Next

(* The way of an event from its thread to the client is whole in every      *)
(* reachable state.                                                        *)
THEOREM StreamInvariant == Spec => []StreamInv
  <1>1. Init => StreamInv
    BY StreamStart
  <1>2. StreamInv /\ [Next]_vars => StreamInv'
    BY StreamStep
  <1>. QED BY <1>1, <1>2, PTL DEF Spec

(* Every variable of the broker and of the stream keeps its type: no queue, *)
(* buffer or channel outgrows its bound, and the wire its own by at most    *)
(* the suspension that goes before a snapshot.                             *)
THEOREM StreamTypeCorrect == Spec => []TypeOK
  <1>1. StreamInv => TypeOK
    BY DEF StreamInv
  <1>. QED BY <1>1, StreamInvariant, PTL

(* What a client knows before it takes a frame is what its binding holds. *)
LEMMA KnowsNow ==
    ASSUME TypeOK, NEW t \in Threads
    PROVE  \A n \in {0} : Knows(t, n, remote[t].v, remote[t].conn)
  BY DEF Knows

(* A live event the client is about to take goes on from what it knows, in  *)
(* the connection it knows, but for events that were dropped for their size *)
(* (Binding, closeBarrierLocked, readLoop).                                *)
THEOREM NoGapThm == Spec => []NoGap
  <1>1. StreamInv => NoGap
    <2>. SUFFICES ASSUME StreamInv, NEW t \in Threads, wire # <<>>, Head(wire).thread = t,
                         Head(wire).kind = "event", ~Head(wire).event.snap,
                         remote[t].registered, ~remote[t].revoked, ~remote[t].mixed,
                         Head(wire).bind = remote[t].of
                  PROVE  /\ Head(wire).event.conn = remote[t].conn
                         /\ Covers(oversize[t], remote[t].v, Head(wire).event.v - 1)
      BY DEF NoGap
    <2>1. TypeOK /\ Named
      BY DEF StreamInv
    <2>2. wire \in Seq(Frames) /\ Len(wire) \in Nat /\ Len(wire) # 0 /\ 1 \in 1 .. Len(wire)
      BY <2>1, StreamTypes
    <2>3. wire[1] = Head(wire) /\ wire[1].bind \in Binds /\ 0 \notin Binds
      BY <2>1, <2>2, StreamTypes
    <2>4. Clean(remote[t]) /\ Gapless(t)
      BY <2>3 DEF Clean, StreamInv
    <2>5. PICK v \in Versions, c \in {0} \cup Conns : v = remote[t].v /\ c = remote[t].conn
      BY <2>1, StreamTypes
    <2>6. Knows(t, 1 - 1, v, c)
      <3>1. Knows(t, 0, v, c)
        BY <2>1, <2>5, KnowsNow
      <3>2. 1 - 1 = 0
        OBVIOUS
      <3>. QED BY <3>1, <3>2
    <2>7. EventOf(remote[t].of, 1) /\ ~wire[1].event.snap
      BY <2>3 DEF EventOf
    <2>8. Follows(oversize[t], wire[1].event, v, c)
      BY <2>2, <2>4, <2>6, <2>7 DEF Gapless
    <2>. QED BY <2>3, <2>5, <2>8 DEF Follows
  <1>. QED BY <1>1, StreamInvariant, PTL

(* With nothing on its way, the binding of a client that may be relied on   *)
(* holds what the broker grants it.                                        *)
LEMMA AtRest ==
    ASSUME StreamInv, NEW t \in Threads, Clean(remote[t]), Settled(remote[t].of),
           bd[remote[t].of].stage = "open"
    PROVE  remote[t].open /\ remote[t].conn = conn /\ Reach(t, remote[t].v)
  <1>1. TypeOK /\ Gapless(t) /\ Granted(t)
    BY DEF StreamInv
  <1>2. PICK b : b = remote[t].of
    OBVIOUS
  <1>3. wire = <<>> /\ Len(wire) = 0 /\ bd[b].queue = <<>> /\ Len(bd[b].queue) = 0 /\ ~bd[b].suspends
    BY <1>2 DEF Settled
  <1>4. remote[t].open
    BY <1>1, <1>2, <1>3 DEF Granted
  <1>5. PICK v \in Versions, c \in {0} \cup Conns : v = remote[t].v /\ c = remote[t].conn
    BY <1>1, StreamTypes
  <1>6. Knows(t, Len(wire), v, c)
    BY <1>1, <1>3, <1>5, KnowsNow
  <1>7. c = conn /\ Reach(t, v)
    BY <1>1, <1>2, <1>3, <1>6 DEF Gapless
  <1>. QED BY <1>4, <1>5, <1>7

(* Authority the broker grants reaches the client, with the fence of the    *)
(* current connection (forwardEvent).                                      *)
THEOREM Arrives == Spec => []AuthorityArrives
  <1>1. StreamInv => AuthorityArrives
    BY AtRest DEF AuthorityArrives, Clean
  <1>. QED BY <1>1, StreamInvariant, PTL

(* A client at rest knows everything its thread reported but what was       *)
(* dropped for its size (startBarriers, readLoop).                         *)
THEOREM CaughtUpThm == Spec => []CaughtUp
  <1>1. StreamInv => CaughtUp
    <2>. SUFFICES ASSUME StreamInv, NEW t \in Threads, remote[t].open, ~remote[t].mixed,
                         Settled(remote[t].of), bd[remote[t].of].stage = "open", link[conn] = "up"
                  PROVE  Covers(oversize[t], remote[t].v, emitted[t])
      BY DEF CaughtUp
    <2>1. Clean(remote[t]) /\ remote[t].of \in 1 .. bindEpoch
      BY DEF StreamInv, Named, Clean
    <2>2. Reach(t, remote[t].v)
      BY <2>1, AtRest
    <2>3. Upstream
      BY <2>1 DEF StreamInv, Pipeline, Piped, Staged, BrokerInv, Connected, Upstream
    <2>4. notifs = <<>> /\ Len(notifs) = 0
      BY DEF Settled
    <2>. QED BY <2>2, <2>3, <2>4 DEF Reach, ReachFrom
  <1>. QED BY <1>1, StreamInvariant, PTL

(* The supervisor does not sleep on work while clients come and go          *)
(* (revokeBindingLocked, signal).                                          *)
THEOREM StreamSupervisorTold == Spec => []SupervisorIsTold
  <1>1. StreamInv => SupervisorIsTold
    BY DEF StreamInv, BrokerInv
  <1>. QED BY <1>1, StreamInvariant, PTL
=============================================================================
