------------------------- MODULE BrokerTransferProofs -------------------------
(***************************************************************************)
(* The safety of a transfer, for every number of threads, bindings,        *)
(* connections, requests and receipts.  The broker's own steps enter only  *)
(* through BrokerInv and Guarantee of CodexBrokerProofs.                   *)
(***************************************************************************)
EXTENDS BrokerTransfer, CodexBrokerProofs

(* A binding that is revoked with nothing in flight: it stays so. *)
Out(b) == bd[b].revoked /\ ~Busy(b)

(* What holds of the reservation x of thread t: it names a binding of the   *)
(* thread, its receipt is not on record as one without effect, its source   *)
(* is frozen once the drain is over and out once a target is granted, and   *)
(* the target's own binding is another one.                                *)
Reserves(t, x) ==
    /\ x.bind \in 1 .. bindEpoch /\ bd[x.bind].thread = t
    /\ source[x.token].bind = x.bind
    /\ x.token \notin Range(noEffects)
    /\ x.token \in attempted => x.attempted
    /\ ~x.draining => ~Busy(x.bind)
    /\ x.target # "none" => Out(x.bind)
    /\ x.native # 0 => x.target = "active" /\ x.native # x.bind

Reserved == \A t \in Threads : Transferring(t) => Reserves(t, transfer[t])

(* What is known of a receipt: the source it names was bound; once it was   *)
(* unsubscribed it is revoked or still reserved by that very receipt; once  *)
(* the transfer is complete it is out.                                     *)
Receipts ==
    \A k \in Tokens :
        /\ source[k] = NoSource \/ source[k].bind \in 1 .. bindEpoch
        /\ k \in attempted =>
              /\ source[k].bind \in 1 .. bindEpoch
              /\ \/ bd[source[k].bind].revoked
                 \/ /\ Transferring(ThreadOf(k))
                    /\ transfer[ThreadOf(k)].token = k /\ transfer[ThreadOf(k)].attempted
        /\ k \in Range(completed) => source[k].bind \in 1 .. bindEpoch /\ Out(source[k].bind)

TransferInv == TypeOK /\ BrokerInv /\ Reserved /\ Receipts /\ NoEffectIsTrue

-----------------------------------------------------------------------------
(* Records of transfers and of outcomes. *)

(* A thread in transfer has a reservation with a receipt. *)
LEMMA HeldTransfer ==
    ASSUME BrokerTypeOK, NEW t \in Threads, Transferring(t)
    PROVE  transfer[t] \in Transfer /\ transfer[t].token \in Tokens
  BY DEF BrokerTypeOK, Transferring, Transfer

(* A reservation is not the absence of one. *)
LEMMA TransferIsOne ==
    ASSUME NEW x \in Transfer
    PROVE  x # NoTransfer
  <1>1. x.token # "none" /\ NoTransfer.token = "none"
    BY BrokerAssumption DEF Transfer, NoTransfer
  <1>. QED BY <1>1

(* Remember keeps its bound and adds nothing but the outcome itself. *)
LEMMA RememberOK ==
    ASSUME NEW seq \in Seq(Tokens), Len(seq) <= Remembered, NEW k \in Tokens
    PROVE  /\ Remember(seq, k) \in Seq(Tokens) /\ Len(Remember(seq, k)) <= Remembered
           /\ Range(Remember(seq, k)) \subseteq Range(seq) \cup {k}
  <1>. DEFINE longer == Append(seq, k)
  <1>1. /\ longer \in Seq(Tokens) /\ Len(longer) = Len(seq) + 1 /\ longer # <<>>
        /\ \A i \in 1 .. Len(seq) : longer[i] = seq[i]
        /\ longer[Len(seq) + 1] = k
    BY AppendProperties
  <1>2. Len(seq) \in Nat /\ Remembered \in Nat
    BY TransferAssumption
  <1>. HIDE DEF longer
  <1>3. \A i \in 1 .. Len(longer) : longer[i] \in Range(seq) \cup {k}
    BY <1>1, <1>2 DEF Range
  <1>4. CASE Len(longer) > Remembered
    <2>1. Remember(seq, k) = Tail(longer)
      BY <1>4 DEF Remember, longer
    <2>2. /\ Tail(longer) \in Seq(Tokens) /\ Len(Tail(longer)) = Len(longer) - 1
          /\ \A i \in 1 .. Len(Tail(longer)) : Tail(longer)[i] = longer[i + 1]
      BY <1>1, HeadTailProperties
    <2>3. Len(Tail(longer)) <= Remembered
      BY <1>1, <1>2, <2>2
    <2>4. \A i \in 1 .. Len(Tail(longer)) : Tail(longer)[i] \in Range(seq) \cup {k}
      <3>1. Len(longer) \in Nat
        BY <1>1, <1>2
      <3>. QED BY <1>3, <2>2, <3>1
    <2>. QED BY <2>1, <2>2, <2>3, <2>4, RangeOfSeq DEF Range
  <1>5. CASE ~(Len(longer) > Remembered)
    <2>1. Remember(seq, k) = longer
      BY <1>5 DEF Remember, longer
    <2>2. Len(longer) <= Remembered
      BY <1>1, <1>2, <1>5
    <2>. QED BY <1>1, <1>3, <2>1, <2>2 DEF Range
  <1>. QED BY <1>4, <1>5

(* A "no effect" is remembered within the bound and once for each receipt. *)
LEMMA RememberNoEffectOK ==
    ASSUME noEffects \in Seq(Tokens), Len(noEffects) <= Remembered, IsInjective(noEffects),
           NEW k \in Tokens, RememberNoEffect(k)
    PROVE  /\ noEffects' \in Seq(Tokens) /\ Len(noEffects') <= Remembered
           /\ IsInjective(noEffects')
           /\ Range(noEffects') \subseteq Range(noEffects) \cup {k}
  <1>1. CASE k \in Range(noEffects)
    BY <1>1 DEF RememberNoEffect
  <1>2. CASE k \notin Range(noEffects)
    <2>. DEFINE longer == Append(noEffects, k)
    <2>1. /\ longer \in Seq(Tokens) /\ Len(longer) = Len(noEffects) + 1 /\ longer # <<>>
          /\ \A i \in 1 .. Len(noEffects) : longer[i] = noEffects[i]
          /\ longer[Len(noEffects) + 1] = k
      BY AppendProperties
    <2>2. Len(noEffects) \in Nat /\ \A i \in 1 .. Len(noEffects) : noEffects[i] # k
      BY <1>2 DEF Range
    <2>. HIDE DEF longer
    <2>3. \A i, j \in 1 .. Len(longer) : longer[i] = longer[j] => i = j
      BY <2>1, <2>2 DEF IsInjective
    <2>4. noEffects' = longer \/ noEffects' = Tail(longer)
      BY <1>2 DEF RememberNoEffect, Remember, longer
    <2>5. /\ Tail(longer) \in Seq(Tokens) /\ Len(Tail(longer)) = Len(longer) - 1
          /\ \A i \in 1 .. Len(Tail(longer)) : Tail(longer)[i] = longer[i + 1]
      BY <2>1, HeadTailProperties
    <2>6. \A i, j \in 1 .. Len(Tail(longer)) : Tail(longer)[i] = Tail(longer)[j] => i = j
      BY <2>1, <2>2, <2>3, <2>5
    <2>7. IsInjective(noEffects')
      BY <2>1, <2>3, <2>4, <2>5, <2>6 DEF IsInjective
    <2>. QED BY <1>2, <2>7, RememberOK DEF RememberNoEffect
  <1>. QED BY <1>1, <1>2

-----------------------------------------------------------------------------
(* Steps of the broker itself. *)

(* A reservation is undisturbed by what the broker does: a binding keeps    *)
(* its thread, and nothing starts on the source.                           *)
LEMMA GuaranteeKeeps ==
    ASSUME TransferInv, BrokerInv', Guarantee, bindEpoch <= bindEpoch', UNCHANGED transferVars
    PROVE  TransferInv'
  <1>1. bindEpoch \in Nat /\ bindEpoch' \in Nat
    BY BrokerAssumption DEF TransferInv, BrokerInv, BrokerTypeOK, Binds
  <1>2. \A b \in 1 .. bindEpoch : b \in 1 .. bindEpoch'
    BY <1>1
  <1>3. \A b \in 1 .. bindEpoch : Out(b) => Out(b)'
    BY DEF Guarantee, Out
  <1>4. TypeOK' /\ NoEffectIsTrue'
    BY DEF TransferInv, TypeOK, BrokerInv, transferVars, NoEffectIsTrue
  <1>5. \A t \in Threads :
           /\ Transferring(t)' <=> Transferring(t)
           /\ Transferring(t) =>
                /\ transfer'[t].token = transfer[t].token
                /\ transfer'[t].bind = transfer[t].bind
                /\ transfer'[t].native = transfer[t].native
                /\ transfer'[t].target = transfer[t].target
                /\ transfer'[t].attempted = transfer[t].attempted
                /\ ~transfer'[t].draining => ~transfer[t].draining \/ ~Busy(transfer[t].bind)'
    <2>. SUFFICES ASSUME NEW t \in Threads
                  PROVE  /\ Transferring(t)' <=> Transferring(t)
                         /\ Transferring(t) =>
                              /\ transfer'[t].token = transfer[t].token
                              /\ transfer'[t].bind = transfer[t].bind
                              /\ transfer'[t].native = transfer[t].native
                              /\ transfer'[t].target = transfer[t].target
                              /\ transfer'[t].attempted = transfer[t].attempted
                              /\ ~transfer'[t].draining =>
                                    ~transfer[t].draining \/ ~Busy(transfer[t].bind)'
      OBVIOUS
    <2>1. Drains(t) /\ BrokerTypeOK
      BY DEF Guarantee, TransferInv, BrokerInv
    <2>2. ~transfer'[t].draining => ~transfer[t].draining \/ ~Busy(transfer[t].bind)'
      BY <2>1 DEF Drains
    <2>. QED BY <2>1, <2>2, DrainsKeeps
  <1>6. Reserved'
    <2>. SUFFICES ASSUME NEW t \in Threads, Transferring(t)'
                  PROVE  Reserves(t, transfer[t])'
      BY DEF Reserved
    <2>. DEFINE x == transfer[t]
                y == transfer'[t]
    <2>1. Transferring(t) /\ Reserves(t, x)
      BY <1>5 DEF TransferInv, Reserved
    <2>2. PICK b \in 1 .. bindEpoch : b = x.bind
      BY <2>1 DEF Reserves
    <2>3. /\ y.token = x.token /\ y.bind = b /\ y.native = x.native
          /\ y.target = x.target /\ y.attempted = x.attempted
          /\ ~y.draining => ~x.draining \/ ~Busy(b)'
      BY <1>5, <2>1, <2>2
    <2>4. b \in 1 .. bindEpoch' /\ bd'[b].thread = t
      BY <1>2, <2>1, <2>2 DEF Reserves, Guarantee
    <2>5. ~Busy(b) => ~Busy(b)'
      <3>1. b # x.native /\ bd[b].thread = t
        BY <1>1, <2>1, <2>2 DEF Reserves
      <3>. QED BY <2>1, <3>1 DEF Guarantee
    <2>6. ~y.draining => ~Busy(b)'
      BY <2>1, <2>2, <2>3, <2>5 DEF Reserves
    <2>7. y.target # "none" => Out(b)'
      BY <1>3, <2>1, <2>2, <2>3 DEF Reserves
    <2>8. UNCHANGED <<source, noEffects, attempted>>
      BY DEF transferVars
    <2>. QED BY <2>1, <2>2, <2>3, <2>4, <2>6, <2>7, <2>8 DEF Reserves, Out, Busy
  <1>7. Receipts'
    <2>. SUFFICES ASSUME NEW k \in Tokens
                  PROVE  /\ source[k] = NoSource \/ source[k].bind \in 1 .. bindEpoch'
                         /\ k \in attempted =>
                               /\ source[k].bind \in 1 .. bindEpoch'
                               /\ \/ bd'[source[k].bind].revoked
                                  \/ /\ Transferring(ThreadOf(k))'
                                     /\ transfer'[ThreadOf(k)'].token = k
                                     /\ transfer'[ThreadOf(k)'].attempted
                         /\ k \in Range(completed) =>
                               source[k].bind \in 1 .. bindEpoch' /\ Out(source[k].bind)'
      BY DEF Receipts, transferVars, ThreadOf, Out, Busy, Transferring
    <2>1. PICK b : b = source[k].bind /\ b = source'[k].bind
      BY DEF transferVars
    <2>2. /\ source[k] = NoSource \/ b \in 1 .. bindEpoch
          /\ k \in attempted =>
                /\ b \in 1 .. bindEpoch
                /\ \/ bd[b].revoked
                   \/ /\ Transferring(bd[b].thread)
                      /\ transfer[bd[b].thread].token = k /\ transfer[bd[b].thread].attempted
          /\ k \in Range(completed) => b \in 1 .. bindEpoch /\ Out(b)
      BY <2>1 DEF TransferInv, Receipts, ThreadOf
    <2>3. b \in 1 .. bindEpoch =>
             /\ bd'[b].thread = bd[b].thread /\ bd[b].thread \in Threads
             /\ bd[b].revoked => bd'[b].revoked
      <3>1. b \in 1 .. bindEpoch => bd[b].thread \in Threads
        BY <1>1, BrokerAssumption DEF TransferInv, BrokerInv, BrokerTypeOK, Routed, Binds
      <3>. QED BY <3>1 DEF Guarantee
    <2>4. k \in attempted =>
             /\ b \in 1 .. bindEpoch'
             /\ \/ bd'[b].revoked
                \/ /\ transfer'[bd'[b].thread] # NoTransfer
                   /\ transfer'[bd'[b].thread].token = k /\ transfer'[bd'[b].thread].attempted
      BY <1>2, <1>5, <2>2, <2>3 DEF Transferring
    <2>5. k \in Range(completed) => b \in 1 .. bindEpoch' /\ Out(b)'
      BY <1>2, <1>3, <2>2
    <2>. QED BY <1>2, <2>1, <2>2, <2>4, <2>5 DEF Transferring, ThreadOf, Out, Busy
  <1>. QED BY <1>4, <1>6, <1>7 DEF TransferInv

-----------------------------------------------------------------------------
(* Steps of a transfer that leave the bindings alone. *)

(* A reservation moves on: it keeps its receipt and its source, does not    *)
(* forget that the source was unsubscribed, and gains neither a target nor  *)
(* a binding for one.                                                      *)
Evolves(t) ==
    LET x == transfer[t]
        y == transfer'[t]
    IN  \/ y = x
        \/ /\ Transferring(t) /\ y \in Transfer
           /\ y.token = x.token /\ y.bind = x.bind /\ y.draining = x.draining
           /\ x.attempted => y.attempted
           /\ y.target # "none" => x.target # "none"
           /\ y.native # 0 => /\ y.native = x.native /\ y.target = x.target /\ y.conn = x.conn
                              /\ x.orphaned => y.orphaned

(* A step on one reservation keeps the broker's part of the invariant. *)
LEMMA EvolvesBroker ==
    ASSUME BrokerInv, transfer' \in [Threads -> Transfer \cup {NoTransfer}],
           \A t \in Threads : Evolves(t), sub' \subseteq Threads,
           UNCHANGED <<conn, connEpoch, sup, closing, peer, bindEpoch, wake, link, bound, bd, notifs,
                       emitted, oversize, op>>
    PROVE  BrokerInv' /\ \A t \in Threads : Transferring(t)' <=> Transferring(t)
  <1>1. BrokerTypeOK' /\ Routed' /\ Connected' /\ Sent' /\ Refusals'
    BY DEF BrokerInv, BrokerTypeOK, Routed, Connected, Sent, Refusals
  <1>2. \A t \in Threads : Transferring(t)' <=> Transferring(t)
    BY TransferIsOne DEF Evolves, Transferring
  <1>3. Wanted' <=> Wanted
    BY <1>2 DEF Wanted
  <1>4. Eligible(conn)' \subseteq Eligible(conn)
    <2>. SUFFICES ASSUME NEW b \in Eligible(conn)' PROVE b \in Eligible(conn)
      OBVIOUS
    <2>1. /\ b \in Binds /\ bd[b].thread \in Threads /\ bound[bd[b].thread] = b
          /\ bd[b].stage = "idle" /\ b # 0
          /\ Transferring(bd[b].thread) => NativeAllowed(b, conn)'
      BY <1>2 DEF Eligible, Binds
    <2>2. Transferring(bd[b].thread) => NativeAllowed(b, conn)
      BY <2>1 DEF Evolves, NativeAllowed, Transferring
    <2>. QED BY <2>1, <2>2 DEF Eligible
  <1>5. ToldEarly' /\ SupervisorIsTold'
    BY <1>3, <1>4 DEF BrokerInv, ToldEarly, SupervisorIsTold
  <1>. QED BY <1>1, <1>2, <1>5 DEF BrokerInv

(* A step on one reservation keeps the whole invariant. *)
LEMMA EvolvesKeeps ==
    ASSUME TransferInv, transfer' \in [Threads -> Transfer \cup {NoTransfer}],
           \A t \in Threads : Evolves(t), sub' \subseteq Threads,
           attempted \subseteq attempted', attempted' \subseteq Tokens,
           \A k \in attempted' \ attempted : \E t \in Threads :
              Transferring(t) /\ transfer[t].token = k /\ transfer'[t].attempted,
           UNCHANGED <<conn, connEpoch, sup, closing, peer, bindEpoch, wake, link, bound, bd, notifs,
                       emitted, oversize, op, source, completed, noEffects>>
    PROVE  TransferInv'
  <1>1. BrokerInv' /\ \A t \in Threads : Transferring(t)' <=> Transferring(t)
    BY EvolvesBroker DEF TransferInv
  <1>2. TypeOK'
    BY <1>1 DEF TransferInv, TypeOK, BrokerInv
  <1>3. \A b : (Busy(b)' <=> Busy(b)) /\ (Out(b)' <=> Out(b))
    BY DEF Busy, Out
  <1>4. \A t \in Threads : Transferring(t) => Reserves(t, transfer[t])
    BY DEF TransferInv, Reserved
  <1>5. NoEffectIsTrue'
    BY <1>4 DEF TransferInv, NoEffectIsTrue, Reserves
  <1>6. \A t \in Threads : Transferring(t) =>
           /\ transfer'[t].token = transfer[t].token /\ transfer'[t].bind = transfer[t].bind
           /\ transfer'[t].draining = transfer[t].draining
           /\ transfer[t].attempted => transfer'[t].attempted
           /\ transfer'[t].target # "none" => transfer[t].target # "none"
           /\ transfer'[t].native # 0 => transfer'[t].native = transfer[t].native
                                         /\ transfer'[t].target = transfer[t].target
    BY DEF Evolves
  <1>7. ASSUME NEW k \in attempted', NEW t \in Threads, Transferring(t), transfer[t].token = k
        PROVE  transfer'[t].attempted
    <2>1. CASE k \in attempted
      BY <1>4, <1>6, <1>7, <2>1 DEF Reserves
    <2>2. CASE k \notin attempted
      <3>1. PICK u \in Threads : Transferring(u) /\ transfer[u].token = k /\ transfer'[u].attempted
        BY <2>2
      <3>2. u = t
        BY <1>4, <1>7, <3>1 DEF Reserves
      <3>. QED BY <3>1, <3>2
    <2>. QED BY <2>1, <2>2
  <1>8. Reserved'
    <2>. SUFFICES ASSUME NEW t \in Threads, Transferring(t)'
                  PROVE  Reserves(t, transfer[t])'
      BY DEF Reserved
    <2>1. Transferring(t) /\ Reserves(t, transfer[t])
      BY <1>1, <1>4
    <2>2. PICK b : b = transfer[t].bind /\ b = transfer'[t].bind
      BY <1>6, <2>1
    <2>3. /\ ~transfer'[t].draining => ~Busy(b)'
          /\ transfer'[t].target # "none" => Out(b)'
      BY <1>3, <1>6, <2>1, <2>2 DEF Reserves
    <2>4. transfer'[t].token \in attempted' => transfer'[t].attempted
      BY <1>6, <1>7, <2>1
    <2>. QED BY <1>6, <2>1, <2>2, <2>3, <2>4 DEF Reserves, Out, Busy
  <1>9. Receipts'
    <2>. SUFFICES ASSUME NEW k \in Tokens
                  PROVE  /\ source[k] = NoSource \/ source[k].bind \in 1 .. bindEpoch
                         /\ k \in attempted' =>
                               /\ source[k].bind \in 1 .. bindEpoch
                               /\ \/ bd[source[k].bind].revoked
                                  \/ /\ transfer'[ThreadOf(k)] # NoTransfer
                                     /\ transfer'[ThreadOf(k)].token = k
                                     /\ transfer'[ThreadOf(k)].attempted
                         /\ k \in Range(completed) =>
                               source[k].bind \in 1 .. bindEpoch /\ Out(source[k].bind)
      BY DEF Receipts, Transferring, ThreadOf, Out, Busy
    <2>1. CASE k \in attempted' \ attempted
      <3>1. PICK t \in Threads : Transferring(t) /\ transfer[t].token = k /\ transfer'[t].attempted
        BY <2>1
      <3>2. source[k].bind \in 1 .. bindEpoch /\ ThreadOf(k) = t /\ transfer'[t].token = k
        BY <1>4, <1>6, <3>1 DEF Reserves, ThreadOf
      <3>3. transfer'[t] # NoTransfer
        BY <1>1, <3>1 DEF Transferring
      <3>. QED BY <3>1, <3>2, <3>3 DEF TransferInv, Receipts
    <2>2. CASE k \notin attempted' \ attempted
      <3>1. source[k].bind \in 1 .. bindEpoch => ThreadOf(k) \in Threads
        BY BrokerAssumption
           DEF TransferInv, BrokerInv, BrokerTypeOK, Routed, Binds, ThreadOf
      <3>2. ThreadOf(k) \in Threads /\ Transferring(ThreadOf(k)) =>
               /\ transfer'[ThreadOf(k)] # NoTransfer
               /\ transfer'[ThreadOf(k)].token = transfer[ThreadOf(k)].token
               /\ transfer[ThreadOf(k)].attempted => transfer'[ThreadOf(k)].attempted
        BY <1>1, <1>6 DEF Transferring
      <3>. QED BY <2>2, <3>1, <3>2 DEF TransferInv, Receipts
    <2>. QED BY <2>1, <2>2
  <1>. QED BY <1>1, <1>2, <1>5, <1>8, <1>9 DEF TransferInv

(* One reservation is replaced. *)
LEMMA SetsEvolves ==
    ASSUME BrokerTypeOK, NEW t \in Threads, NEW y \in Transfer, Sets(t, y), Transferring(t),
           y.token = transfer[t].token, y.bind = transfer[t].bind,
           y.draining = transfer[t].draining,
           transfer[t].attempted => y.attempted,
           y.target # "none" => transfer[t].target # "none",
           y.native # 0 => /\ y.native = transfer[t].native /\ y.target = transfer[t].target
                           /\ y.conn = transfer[t].conn /\ (transfer[t].orphaned => y.orphaned)
    PROVE  /\ transfer' \in [Threads -> Transfer \cup {NoTransfer}]
           /\ transfer'[t] = y
           /\ \A u \in Threads : Evolves(u)
  <1>1. /\ transfer' \in [Threads -> Transfer \cup {NoTransfer}]
        /\ transfer'[t] = y /\ \A u \in Threads \ {t} : transfer'[u] = transfer[u]
    BY DEF Sets, BrokerTypeOK
  <1>2. Evolves(t)
    BY <1>1 DEF Evolves
  <1>3. \A u \in Threads \ {t} : Evolves(u)
    BY <1>1 DEF Evolves
  <1>. QED BY <1>1, <1>2, <1>3

(* RetireTransfer: the receipt joins the ones whose source was unsubscribed. *)
LEMMA RetireKeeps ==
    ASSUME TransferInv, NEW t \in Threads, NEW k \in Tokens, Retire(t, k)
    PROVE  TransferInv'
  <1>. DEFINE y == [transfer[t] EXCEPT !.busy = "unsubscribing", !.attempted = TRUE]
  <1>1. BrokerTypeOK /\ Transferring(t) /\ transfer[t].token = k /\ Sets(t, y)
    BY DEF TransferInv, TypeOK, Retire, Held
  <1>2. transfer[t] \in Transfer
    BY <1>1, HeldTransfer
  <1>3. /\ y \in Transfer /\ y.token = transfer[t].token /\ y.bind = transfer[t].bind
        /\ y.draining = transfer[t].draining /\ y.attempted /\ y.target = transfer[t].target
        /\ y.native = transfer[t].native /\ y.conn = transfer[t].conn
        /\ y.orphaned = transfer[t].orphaned
    BY <1>2 DEF Transfer
  <1>. HIDE DEF y
  <1>4. /\ transfer' \in [Threads -> Transfer \cup {NoTransfer}]
        /\ transfer'[t] = y /\ \A u \in Threads : Evolves(u)
    BY <1>1, <1>3, SetsEvolves
  <1>5. attempted' = attempted \cup {k} /\ attempted' \subseteq Tokens /\ sub' \subseteq Threads
    BY DEF Retire, TransferInv, TypeOK, BrokerTypeOK
  <1>6. UNCHANGED <<conn, connEpoch, sup, closing, peer, bindEpoch, wake, link, bound, bd, notifs,
                    emitted, oversize, op, source, completed, noEffects>>
    BY DEF Retire, supVars
  <1>7. \A j \in attempted' \ attempted : \E u \in Threads :
           Transferring(u) /\ transfer[u].token = j /\ transfer'[u].attempted
    BY <1>1, <1>3, <1>4, <1>5
  <1>. QED BY <1>4, <1>5, <1>6, <1>7, EvolvesKeeps

(* The other steps on one reservation record nothing. *)
LEMMA PlainEvolves ==
    ASSUME TransferInv, NEW t \in Threads, NEW y \in Transfer, Sets(t, y), Transferring(t),
           y.token = transfer[t].token, y.bind = transfer[t].bind,
           y.draining = transfer[t].draining,
           y.attempted = transfer[t].attempted,
           y.target # "none" => transfer[t].target # "none",
           y.native # 0 => /\ y.native = transfer[t].native /\ y.target = transfer[t].target
                           /\ y.conn = transfer[t].conn /\ (transfer[t].orphaned => y.orphaned),
           sub' \subseteq Threads,
           UNCHANGED <<supVars, bindEpoch, wake, link, bound, bd, notifs, emitted, oversize, op, transferVars>>
    PROVE  TransferInv'
  <1>1. /\ transfer' \in [Threads -> Transfer \cup {NoTransfer}]
        /\ \A u \in Threads : Evolves(u)
    BY SetsEvolves DEF TransferInv, TypeOK
  <1>2. attempted' = attempted /\ attempted' \subseteq Tokens
    BY DEF transferVars, TransferInv, TypeOK
  <1>. QED BY <1>1, <1>2, EvolvesKeeps DEF supVars, transferVars

(* The endpoint answers or fails a call of the transfer. *)
LEMMA CallKeeps ==
    ASSUME TransferInv, NEW t \in Threads,
           Unsubscribed(t) \/ RetireEnds(t) \/ CallFails(t) \/ ResumeEnds(t)
    PROVE  TransferInv'
  <1>1. Transferring(t) /\ sub \subseteq Threads
    BY DEF Unsubscribed, RetireEnds, CallFails, ResumeEnds, TransferInv, TypeOK, BrokerTypeOK
  <1>2. transfer[t] \in Transfer
    BY <1>1, HeldTransfer DEF TransferInv, TypeOK
  <1>3. CASE Unsubscribed(t)
    <2>. DEFINE y == [transfer[t] EXCEPT !.busy = "awaiting"]
    <2>1. /\ y \in Transfer /\ y.token = transfer[t].token /\ y.bind = transfer[t].bind
          /\ y.draining = transfer[t].draining /\ y.attempted = transfer[t].attempted
          /\ y.target = transfer[t].target /\ y.native = transfer[t].native
          /\ y.conn = transfer[t].conn /\ y.orphaned = transfer[t].orphaned
      BY <1>2 DEF Transfer
    <2>2. Sets(t, y) /\ sub' \subseteq Threads
      BY <1>1, <1>3 DEF Unsubscribed
    <2>. HIDE DEF y
    <2>. QED BY <1>1, <1>3, <2>1, <2>2, PlainEvolves DEF Unsubscribed
  <1>4. CASE RetireEnds(t)
    <2>. DEFINE y == [transfer[t] EXCEPT !.busy = "no", !.retired = TRUE]
    <2>1. /\ y \in Transfer /\ y.token = transfer[t].token /\ y.bind = transfer[t].bind
          /\ y.draining = transfer[t].draining /\ y.attempted = transfer[t].attempted
          /\ y.target = transfer[t].target /\ y.native = transfer[t].native
          /\ y.conn = transfer[t].conn /\ y.orphaned = transfer[t].orphaned
      BY <1>2 DEF Transfer
    <2>2. Sets(t, y) /\ sub' \subseteq Threads
      BY <1>1, <1>4 DEF RetireEnds
    <2>. HIDE DEF y
    <2>. QED BY <1>1, <1>4, <2>1, <2>2, PlainEvolves DEF RetireEnds
  <1>5. CASE CallFails(t)
    <2>. DEFINE y == [transfer[t] EXCEPT !.busy = "no"]
    <2>1. /\ y \in Transfer /\ y.token = transfer[t].token /\ y.bind = transfer[t].bind
          /\ y.draining = transfer[t].draining /\ y.attempted = transfer[t].attempted
          /\ y.target = transfer[t].target /\ y.native = transfer[t].native
          /\ y.conn = transfer[t].conn /\ y.orphaned = transfer[t].orphaned
      BY <1>2 DEF Transfer
    <2>2. Sets(t, y) /\ sub' \subseteq Threads
      BY <1>1, <1>5 DEF CallFails
    <2>. HIDE DEF y
    <2>. QED BY <1>1, <1>5, <2>1, <2>2, PlainEvolves DEF CallFails
  <1>6. CASE ResumeEnds(t)
    <2>. DEFINE y == [transfer[t] EXCEPT !.busy = "no", !.ready = Current(transfer[t])]
    <2>1. /\ y \in Transfer /\ y.token = transfer[t].token /\ y.bind = transfer[t].bind
          /\ y.draining = transfer[t].draining /\ y.attempted = transfer[t].attempted
          /\ y.target = transfer[t].target /\ y.native = transfer[t].native
          /\ y.conn = transfer[t].conn /\ y.orphaned = transfer[t].orphaned
      BY <1>2 DEF Transfer, Current
    <2>2. Sets(t, y) /\ sub' \subseteq Threads
      BY <1>1, <1>6 DEF ResumeEnds
    <2>. HIDE DEF y
    <2>. QED BY <1>1, <1>6, <2>1, <2>2, PlainEvolves DEF ResumeEnds
  <1>. QED BY <1>3, <1>4, <1>5, <1>6

(* The target's steps that admit no binding, and a reclaim: a target that   *)
(* was granted is kept or oversize, never invented.                         *)
LEMMA TargetKeeps ==
    ASSUME TransferInv, NEW t \in Threads, NEW k \in Tokens,
           ResumeNative(t, k) \/ ActivateNative(t, k) \/ Reclaim(t)
    PROVE  TransferInv'
  <1>1. Transferring(t) /\ sub \subseteq Threads /\ sub' = sub
    BY DEF ResumeNative, ActivateNative, Reclaim, Held, TransferInv, TypeOK, BrokerTypeOK
  <1>2. transfer[t] \in Transfer
    BY <1>1, HeldTransfer DEF TransferInv, TypeOK
  <1>3. CASE ResumeNative(t, k)
    <2>. DEFINE y == [transfer[t] EXCEPT !.init = TRUE, !.busy = "resuming"]
    <2>1. /\ y \in Transfer /\ y.token = transfer[t].token /\ y.bind = transfer[t].bind
          /\ y.draining = transfer[t].draining /\ y.attempted = transfer[t].attempted
          /\ y.target = transfer[t].target /\ y.native = transfer[t].native
          /\ y.conn = transfer[t].conn /\ y.orphaned = transfer[t].orphaned
      BY <1>2 DEF Transfer
    <2>2. Sets(t, y)
      BY <1>3 DEF ResumeNative
    <2>. HIDE DEF y
    <2>. QED BY <1>1, <1>3, <2>1, <2>2, PlainEvolves DEF ResumeNative
  <1>4. CASE ActivateNative(t, k)
    <2>. DEFINE y == [transfer[t] EXCEPT !.target = "active"]
    <2>1. transfer[t].target = "planned" /\ transfer[t].native = 0
      BY <1>1, <1>4 DEF ActivateNative, TransferInv, Reserved, Reserves
    <2>2. /\ y \in Transfer /\ y.token = transfer[t].token /\ y.bind = transfer[t].bind
          /\ y.draining = transfer[t].draining /\ y.attempted = transfer[t].attempted
          /\ y.native = 0
      BY <1>2, <2>1 DEF Transfer
    <2>3. Sets(t, y)
      BY <1>4 DEF ActivateNative
    <2>. HIDE DEF y
    <2>. QED BY <1>1, <1>4, <2>1, <2>2, <2>3, PlainEvolves DEF ActivateNative
  <1>5. CASE Reclaim(t)
    <2>. DEFINE y == [transfer[t] EXCEPT !.orphaned = FALSE, !.conn = conn,
                        !.retired = transfer[t].retired /\ transfer[t].conn = conn,
                        !.target = "none", !.init = FALSE, !.ready = FALSE, !.native = 0]
    <2>1. conn \in Conns
      BY <1>5 DEF Reclaim, TransferInv, TypeOK, BrokerTypeOK
    <2>2. /\ y \in Transfer /\ y.token = transfer[t].token /\ y.bind = transfer[t].bind
          /\ y.draining = transfer[t].draining /\ y.attempted = transfer[t].attempted
          /\ y.native = 0 /\ y.target = "none"
      BY <1>2, <2>1 DEF Transfer
    <2>3. Sets(t, y)
      BY <1>5 DEF Reclaim
    <2>. HIDE DEF y
    <2>. QED BY <1>1, <1>5, <2>2, <2>3, PlainEvolves DEF Reclaim
  <1>. QED BY <1>3, <1>4, <1>5

(* abandonTransfers *)
LEMMA DepartKeeps ==
    ASSUME TransferInv, NEW owned \in SUBSET Threads, Depart(owned)
    PROVE  TransferInv'
  <1>1. \A t \in Threads : Evolves(t) /\ transfer'[t] \in Transfer \cup {NoTransfer}
    <2>. SUFFICES ASSUME NEW t \in Threads
                  PROVE  Evolves(t) /\ transfer'[t] \in Transfer \cup {NoTransfer}
      OBVIOUS
    <2>1. CASE t \in owned
      <3>1. Transferring(t) /\ transfer'[t] = [transfer[t] EXCEPT !.orphaned = TRUE]
        BY <2>1 DEF Depart
      <3>2. transfer[t] \in Transfer
        BY <3>1, HeldTransfer DEF TransferInv, TypeOK
      <3>3. transfer'[t] \in Transfer
        BY <3>1, <3>2 DEF Transfer
      <3>. QED BY <3>1, <3>2, <3>3 DEF Evolves, Transfer
    <2>2. CASE t \notin owned
      BY <2>2 DEF Depart, Evolves, TransferInv, TypeOK, BrokerTypeOK
    <2>. QED BY <2>1, <2>2
  <1>2. transfer' \in [Threads -> Transfer \cup {NoTransfer}]
    <2>1. transfer' = [t \in Threads |-> transfer'[t]]
      BY DEF Depart
    <2>. QED BY <1>1, <2>1
  <1>3. attempted' = attempted /\ attempted' \subseteq Tokens /\ sub' \subseteq Threads
    BY DEF Depart, transferVars, TransferInv, TypeOK, BrokerTypeOK
  <1>. QED BY <1>1, <1>2, <1>3, EvolvesKeeps DEF Depart, supVars, transferVars

-----------------------------------------------------------------------------
(* Receipts. *)

(* A receipt whose source still has its authority, on a thread that is not  *)
(* reserved, has not unsubscribed it and reserves nothing.                 *)
LEMMA UnusedReceipt ==
    ASSUME TransferInv, NEW k \in Tokens, SourceHasAuthority(k), ~Transferring(ThreadOf(k))
    PROVE  /\ source[k].bind \in 1 .. bindEpoch /\ source[k].bind \in Binds
           /\ ThreadOf(k) \in Threads /\ ~bd[source[k].bind].revoked
           /\ k \notin attempted
           /\ \A t \in Threads : Transferring(t) => transfer[t].token # k
  <1>1. /\ source[k].bind \in 1 .. bindEpoch /\ ThreadOf(k) \in Threads
        /\ ~bd[source[k].bind].revoked
    BY DEF SourceHasAuthority, Authority, ThreadOf, TransferInv, Receipts
  <1>2. source[k].bind \in Binds
    BY <1>1, BrokerAssumption DEF TransferInv, TypeOK, BrokerTypeOK, Binds
  <1>3. k \notin attempted
    BY <1>1 DEF TransferInv, Receipts
  <1>4. \A t \in Threads : Transferring(t) => transfer[t].token # k
    BY DEF TransferInv, Reserved, Reserves, ThreadOf
  <1>. QED BY <1>1, <1>2, <1>3, <1>4

(* A step that leaves the broker alone keeps what is said of it. *)
LEMMA BrokerUnchanged ==
    ASSUME BrokerInv, UNCHANGED brokerVars
    PROVE  /\ BrokerInv'
           /\ \A b : (Busy(b)' <=> Busy(b)) /\ (Out(b)' <=> Out(b))
           /\ \A t \in Threads : Transferring(t)' <=> Transferring(t)
  <1>1. BrokerTypeOK' /\ Routed' /\ Connected' /\ Sent' /\ Refusals'
    BY DEF brokerVars, BrokerInv, BrokerTypeOK, Routed, Connected, Sent, Refusals
  <1>2. Wanted' = Wanted /\ Eligible(conn)' = Eligible(conn)
    BY DEF brokerVars, Wanted, Transferring, Eligible, NativeAllowed
  <1>3. ToldEarly' /\ SupervisorIsTold'
    BY <1>2 DEF brokerVars, BrokerInv, ToldEarly, SupervisorIsTold
  <1>4. /\ \A b : (Busy(b)' <=> Busy(b)) /\ (Out(b)' <=> Out(b))
        /\ \A t \in Threads : Transferring(t)' <=> Transferring(t)
    BY DEF brokerVars, Busy, Out, Transferring
  <1>. QED BY <1>1, <1>3, <1>4 DEF BrokerInv

(* A receipt that was never used enters the records of its source. *)
LEMMA NewReceiptKeeps ==
    ASSUME TransferInv, NEW k \in Tokens, NEW b \in Binds, NewReceipt(k, b)
    PROVE  TransferInv'
  <1>1. BrokerInv' /\ \A c : (Busy(c)' <=> Busy(c)) /\ (Out(c)' <=> Out(c))
    BY BrokerUnchanged DEF TransferInv, NewReceipt
  <1>2. conn \in Conns /\ bd[b].thread \in Threads
    BY DEF NewReceipt, Authority, TransferInv, TypeOK, BrokerTypeOK
  <1>3. b \in 1 .. bindEpoch
    BY <1>2, BrokerAssumption DEF TransferInv, BrokerInv, BrokerTypeOK, Routed, Binds
  <1>4. /\ source' \in [Tokens -> [bind : {0} \cup Binds, conn : {0} \cup Conns]]
        /\ source'[k] = [bind |-> b, conn |-> conn] /\ \A j \in Tokens \ {k} : source'[j] = source[j]
    BY <1>2 DEF NewReceipt, TransferInv, TypeOK
  <1>5. TypeOK' /\ NoEffectIsTrue'
    BY <1>1, <1>4 DEF NewReceipt, TransferInv, TypeOK, BrokerInv, NoEffectIsTrue
  <1>6. source[k].bind = 0 /\ 0 \notin 1 .. bindEpoch
    BY BrokerAssumption DEF NewReceipt, NoSource, TransferInv, TypeOK, BrokerTypeOK, Binds
  <1>7. k \notin attempted /\ k \notin Range(completed)
        /\ \A t \in Threads : Transferring(t) => transfer[t].token # k
    BY <1>6 DEF TransferInv, Receipts, Reserved, Reserves
  <1>8. Reserved'
    <2>1. \A t \in Threads : Transferring(t) => transfer[t].token \in Tokens
      BY HeldTransfer DEF TransferInv, TypeOK
    <2>. QED BY <1>4, <1>7, <2>1
             DEF TransferInv, Reserved, Reserves, NewReceipt, brokerVars, Transferring, Out, Busy
  <1>9. Receipts'
    <2>1. k \notin attempted' /\ k \notin Range(completed')
      BY <1>7 DEF NewReceipt
    <2>2. \A j \in Tokens \ {k} : ThreadOf(j)' = ThreadOf(j)
      BY <1>4 DEF NewReceipt, brokerVars, ThreadOf
    <2>3. source'[k].bind \in 1 .. bindEpoch
      BY <1>3, <1>4
    <2>. QED BY <1>1, <1>4, <2>1, <2>2, <2>3
             DEF TransferInv, Receipts, NewReceipt, brokerVars, Transferring
  <1>. QED BY <1>1, <1>5, <1>8, <1>9 DEF TransferInv

(* RecordPrepareRefusal *)
LEMMA PrepareRefusedKeeps ==
    ASSUME TransferInv, NEW k \in Tokens, PrepareRefused(k)
    PROVE  TransferInv'
  <1>1. BrokerInv' /\ \A c : (Busy(c)' <=> Busy(c)) /\ (Out(c)' <=> Out(c))
    BY BrokerUnchanged DEF TransferInv, PrepareRefused
  <1>2. k \notin attempted /\ \A t \in Threads : Transferring(t) => transfer[t].token # k
    BY UnusedReceipt DEF PrepareRefused
  <1>3. /\ noEffects' \in Seq(Tokens) /\ Len(noEffects') <= Remembered
        /\ IsInjective(noEffects')
        /\ Range(noEffects') \subseteq Range(noEffects) \cup {k}
    BY RememberNoEffectOK DEF PrepareRefused, TransferInv, TypeOK
  <1>4. TypeOK'
    BY <1>1, <1>3 DEF PrepareRefused, TransferInv, TypeOK, BrokerInv
  <1>5. NoEffectIsTrue'
    BY <1>2, <1>3 DEF PrepareRefused, TransferInv, NoEffectIsTrue
  <1>6. Reserved'
    BY <1>2, <1>3
       DEF TransferInv, Reserved, Reserves, PrepareRefused, brokerVars, Transferring, Out, Busy
  <1>7. Receipts'
    BY DEF TransferInv, Receipts, PrepareRefused, brokerVars, Transferring, ThreadOf, Out, Busy
  <1>. QED BY <1>1, <1>4, <1>5, <1>6, <1>7 DEF TransferInv

(* PrepareTransfer: a new reservation. *)
LEMMA PrepareKeeps ==
    ASSUME TransferInv, NEW k \in Tokens, Prepare(k)
    PROVE  TransferInv'
  <1>. DEFINE t == ThreadOf(k)
              b == source[k].bind
              y == [token |-> k, bind |-> b, conn |-> conn, peer |-> peer[conn],
                    draining |-> Busy(b), retired |-> FALSE, attempted |-> FALSE, busy |-> "no",
                    orphaned |-> FALSE, target |-> "none", init |-> FALSE,
                    ready |-> FALSE, native |-> 0]
  <1>1. /\ b \in 1 .. bindEpoch /\ b \in Binds /\ t \in Threads /\ k \notin attempted
        /\ ~Transferring(t)
    BY UnusedReceipt DEF Prepare
  <1>2. conn \in Conns /\ peer[conn] \in Peers
    BY DEF Prepare, SourceHasAuthority, Authority, TransferInv, TypeOK, BrokerTypeOK
  <1>3. y \in Transfer
    BY <1>1, <1>2 DEF Transfer, Busy
  <1>4. y # NoTransfer
    BY <1>3, TransferIsOne
  <1>5. /\ transfer' \in [Threads -> Transfer \cup {NoTransfer}]
        /\ transfer'[t] = y /\ \A u \in Threads \ {t} : transfer'[u] = transfer[u]
    BY <1>1, <1>3 DEF Prepare, Sets, TransferInv, TypeOK, BrokerTypeOK
  <1>6. /\ y.token = k /\ y.bind = b /\ y.target = "none" /\ y.native = 0
        /\ ~y.draining => ~Busy(b)
    OBVIOUS
  <1>. HIDE DEF y
  <1>7. /\ UNCHANGED <<conn, connEpoch, sup, closing, peer, bindEpoch, link, bound, bd, notifs,
                       emitted, oversize, sub, op>>
        /\ UNCHANGED <<source, completed, noEffects, attempted>> /\ wake' = TRUE
    BY DEF Prepare, supVars, transferVars
  <1>8. BrokerInv'
    <2>1. BrokerTypeOK' /\ Routed' /\ Connected' /\ Sent' /\ Refusals'
      BY <1>5, <1>7 DEF TransferInv, BrokerInv, BrokerTypeOK, Routed, Connected, Sent, Refusals
    <2>. QED BY <1>7, <2>1 DEF BrokerInv, ToldEarly, SupervisorIsTold
  <1>9. TypeOK' /\ NoEffectIsTrue'
    BY <1>7, <1>8 DEF TransferInv, TypeOK, BrokerInv, NoEffectIsTrue
  <1>10. \A c : (Busy(c)' <=> Busy(c)) /\ (Out(c)' <=> Out(c))
    BY <1>7 DEF Busy, Out
  <1>11. Reserved'
    <2>. SUFFICES ASSUME NEW u \in Threads, Transferring(u)'
                  PROVE  Reserves(u, transfer[u])'
      BY DEF Reserved
    <2>1. CASE u = t
      <3>1. k \notin Range(noEffects)
        BY DEF Prepare
      <3>2. bd[b].thread = t
        BY DEF ThreadOf
      <3>. QED BY <1>1, <1>5, <1>6, <1>7, <2>1, <3>1, <3>2 DEF Reserves, Busy
    <2>2. CASE u # t
      BY <1>5, <1>7, <2>2 DEF TransferInv, Reserved, Reserves, Transferring, Out, Busy
    <2>. QED BY <2>1, <2>2
  <1>12. Receipts'
    <2>. SUFFICES ASSUME NEW j \in Tokens
                  PROVE  j \in attempted =>
                               \/ bd[source[j].bind].revoked
                               \/ /\ transfer'[ThreadOf(j)] # NoTransfer
                                  /\ transfer'[ThreadOf(j)].token = j
                                  /\ transfer'[ThreadOf(j)].attempted
      BY <1>7 DEF TransferInv, Receipts, Transferring, ThreadOf, Out, Busy
    <2>1. j \in attempted =>
             /\ ThreadOf(j) \in Threads
             /\ \/ bd[source[j].bind].revoked
                \/ /\ Transferring(ThreadOf(j))
                   /\ transfer[ThreadOf(j)].token = j /\ transfer[ThreadOf(j)].attempted
      <3>1. source[j].bind \in 1 .. bindEpoch => ThreadOf(j) \in Threads
        BY BrokerAssumption
           DEF TransferInv, BrokerInv, BrokerTypeOK, Routed, Binds, ThreadOf
      <3>. QED BY <3>1 DEF TransferInv, Receipts
    <2>. QED BY <1>1, <1>5, <2>1 DEF Transferring
  <1>. QED BY <1>8, <1>9, <1>11, <1>12 DEF TransferInv

-----------------------------------------------------------------------------
(* The end of a transfer. *)

(* A reservation is lifted.  When its source had been unsubscribed the      *)
(* source is revoked with it; the receipt goes on record as without effect  *)
(* only when it had not.                                                   *)
LEMMA LiftKeeps ==
    ASSUME TransferInv, BrokerInv', NEW t \in Threads, Transferring(t), Sets(t, NoTransfer),
           UNCHANGED <<bindEpoch, op, source, attempted>>,
           \A b \in Binds : /\ bd'[b].thread = bd[b].thread /\ bd'[b].barrier = bd[b].barrier
                            /\ bd[b].revoked => bd'[b].revoked,
           transfer[t].attempted => bd'[transfer[t].bind].revoked,
           noEffects' \in Seq(Tokens), Len(noEffects') <= Remembered, IsInjective(noEffects'),
           Range(noEffects') \subseteq
              Range(noEffects) \cup (IF transfer[t].attempted THEN {} ELSE {transfer[t].token}),
           completed' \in Seq(Tokens), Len(completed') <= Remembered,
           Range(completed') \subseteq
              Range(completed) \cup (IF transfer[t].attempted /\ ~Busy(transfer[t].bind)
                                     THEN {transfer[t].token} ELSE {})
    PROVE  TransferInv'
  <1>1. transfer'[t] = NoTransfer /\ \A u \in Threads \ {t} : transfer'[u] = transfer[u]
    BY DEF Sets, TransferInv, TypeOK, BrokerTypeOK
  <1>2. Reserves(t, transfer[t])
    BY DEF TransferInv, Reserved
  <1>3. \A u \in Threads : Transferring(u) /\ transfer[u].token = transfer[t].token => u = t
    BY <1>2 DEF TransferInv, Reserved, Reserves
  <1>4. TypeOK'
    BY DEF TransferInv, TypeOK, BrokerInv
  <1>5. NoEffectIsTrue'
    BY <1>2 DEF TransferInv, NoEffectIsTrue, Reserves
  <1>6. 1 .. bindEpoch \subseteq Binds
    BY BrokerAssumption DEF TransferInv, TypeOK, BrokerTypeOK, Binds
  <1>7. \A b \in 1 .. bindEpoch : (Busy(b)' <=> Busy(b)) /\ (Out(b) => Out(b)')
    BY <1>6 DEF Busy, Out
  <1>8. Reserved'
    <2>. SUFFICES ASSUME NEW u \in Threads, Transferring(u)'
                  PROVE  Reserves(u, transfer[u])'
      BY DEF Reserved
    <2>1. u # t /\ transfer'[u] = transfer[u] /\ Transferring(u)
      BY <1>1 DEF Transferring
    <2>2. Reserves(u, transfer[u])
      BY <2>1 DEF TransferInv, Reserved
    <2>3. PICK b \in 1 .. bindEpoch : b = transfer[u].bind
      BY <2>2 DEF Reserves
    <2>4. /\ bd'[b].thread = u /\ (~transfer[u].draining => ~Busy(b)')
          /\ transfer[u].target # "none" => Out(b)'
      BY <1>6, <1>7, <2>2, <2>3 DEF Reserves
    <2>5. transfer[u].token \notin Range(noEffects')
      BY <1>3, <2>1, <2>2 DEF Reserves
    <2>. QED BY <2>1, <2>2, <2>3, <2>4, <2>5 DEF Reserves, Out, Busy
  <1>9. Receipts'
    <2>. SUFFICES ASSUME NEW k \in Tokens
                  PROVE  /\ source[k] = NoSource \/ source[k].bind \in 1 .. bindEpoch
                         /\ k \in attempted =>
                               /\ source[k].bind \in 1 .. bindEpoch
                               /\ \/ bd'[source[k].bind].revoked
                                  \/ /\ transfer'[ThreadOf(k)'] # NoTransfer
                                     /\ transfer'[ThreadOf(k)'].token = k
                                     /\ transfer'[ThreadOf(k)'].attempted
                         /\ k \in Range(completed') =>
                               source[k].bind \in 1 .. bindEpoch /\ Out(source[k].bind)'
      BY DEF Receipts, Transferring, ThreadOf, Out, Busy
    <2>1. PICK b : b = source[k].bind /\ b = source'[k].bind
      OBVIOUS
    <2>2. /\ source[k] = NoSource \/ b \in 1 .. bindEpoch
          /\ k \in attempted =>
                /\ b \in 1 .. bindEpoch
                /\ \/ bd[b].revoked
                   \/ /\ Transferring(bd[b].thread)
                      /\ transfer[bd[b].thread].token = k /\ transfer[bd[b].thread].attempted
          /\ k \in Range(completed) => b \in 1 .. bindEpoch /\ Out(b)
      BY <2>1 DEF TransferInv, Receipts, ThreadOf
    <2>3. b \in 1 .. bindEpoch =>
             /\ bd'[b].thread = bd[b].thread /\ bd[b].thread \in Threads
             /\ bd[b].revoked => bd'[b].revoked
      BY <1>6 DEF TransferInv, BrokerInv, Routed
    <2>4. k \in attempted =>
             /\ b \in 1 .. bindEpoch
             /\ \/ bd'[b].revoked
                \/ /\ transfer'[bd'[b].thread] # NoTransfer
                   /\ transfer'[bd'[b].thread].token = k /\ transfer'[bd'[b].thread].attempted
      <3>1. CASE bd[b].thread = t
        BY <1>2, <2>1, <2>2, <2>3, <3>1 DEF Reserves
      <3>2. CASE bd[b].thread # t
        BY <1>1, <2>2, <2>3, <3>2 DEF Transferring
      <3>. QED BY <3>1, <3>2
    <2>5. k \in Range(completed') => b \in 1 .. bindEpoch /\ Out(b)'
      <3>1. CASE k \in Range(completed)
        BY <1>7, <2>2, <3>1
      <3>2. CASE k \in Range(completed') \ Range(completed)
        <4>1. transfer[t].attempted /\ ~Busy(transfer[t].bind) /\ k = transfer[t].token
          BY <3>2
        <4>2. b = transfer[t].bind /\ b \in 1 .. bindEpoch
          BY <1>2, <2>1, <4>1 DEF Reserves
        <4>3. ~Busy(b) /\ bd'[b].revoked
          BY <4>1, <4>2
        <4>. QED BY <1>7, <4>2, <4>3 DEF Out
      <3>. QED BY <3>1, <3>2
    <2>. QED BY <2>1, <2>2, <2>4, <2>5 DEF ThreadOf, Out, Busy
  <1>. QED BY <1>4, <1>5, <1>8, <1>9 DEF TransferInv

(* AbortTransfer lifts a reservation that was not attempted, without effect. *)
LEMMA AbortKeeps ==
    ASSUME TransferInv, NEW t \in Threads, NEW k \in Tokens, Abort(t, k)
    PROVE  TransferInv'
  <1>1. Transferring(t) /\ transfer[t].token = k /\ ~transfer[t].attempted
    BY DEF Abort, Held, MayFinish
  <1>2. /\ noEffects' \in Seq(Tokens) /\ Len(noEffects') <= Remembered
        /\ IsInjective(noEffects')
        /\ Range(noEffects') \subseteq Range(noEffects) \cup {k}
    BY <1>1, RememberNoEffectOK DEF Abort, TransferInv, TypeOK
  <1>3. /\ UNCHANGED <<conn, connEpoch, sup, closing, peer, bindEpoch, link, bound, bd, notifs,
                       emitted, oversize, sub, op, source, completed, attempted>>
        /\ wake' = TRUE /\ Sets(t, NoTransfer)
    BY DEF Abort, supVars
  <1>4. BrokerInv'
    <2>1. transfer' \in [Threads -> Transfer \cup {NoTransfer}]
      BY <1>3 DEF Sets, TransferInv, TypeOK, BrokerTypeOK
    <2>2. BrokerTypeOK' /\ Routed' /\ Connected' /\ Sent' /\ Refusals'
      BY <1>3, <2>1 DEF TransferInv, BrokerInv, BrokerTypeOK, Routed, Connected, Sent, Refusals
    <2>. QED BY <1>3, <2>2 DEF BrokerInv, ToldEarly, SupervisorIsTold
  <1>5. completed' \in Seq(Tokens) /\ Len(completed') <= Remembered
    BY <1>3 DEF TransferInv, TypeOK
  <1>. QED BY <1>1, <1>2, <1>3, <1>4, <1>5, LiftKeeps

(* The hand-off revokes a source that was unsubscribed, unless that has     *)
(* happened already.                                                       *)
LEMMA HandoffBroker ==
    ASSUME TransferInv, NEW t \in Threads, NEW k \in Tokens, Handoff(t, k)
    PROVE  /\ BrokerInv'
           /\ \A b \in Binds : /\ bd'[b].thread = bd[b].thread /\ bd'[b].barrier = bd[b].barrier
                               /\ bd[b].revoked => bd'[b].revoked
           /\ transfer[t].attempted => bd'[transfer[t].bind].revoked
  <1>. DEFINE b == transfer[t].bind
  <1>1. /\ UNCHANGED <<conn, connEpoch, sup, closing, peer, bindEpoch, link, notifs,
                       emitted, oversize, sub, op>>
        /\ wake' = TRUE /\ Sets(t, NoTransfer) /\ Transferring(t)
    BY DEF Handoff, Held, supVars
  <1>2. transfer' \in [Threads -> Transfer \cup {NoTransfer}]
    BY <1>1 DEF Sets, TransferInv, TypeOK, BrokerTypeOK
  <1>3. b \in Binds /\ bd[b].thread = t
    BY <1>1, BrokerAssumption
       DEF TransferInv, Reserved, Reserves, TypeOK, BrokerTypeOK, Binds
  <1>4. bound[t] = b <=> ~bd[b].revoked
    BY <1>3 DEF TransferInv, BrokerInv, Routed
  <1>5. BrokerTypeOK /\ Routed /\ RecordsOK
    BY TypeRecords DEF TransferInv, BrokerInv
  <1>6. CASE ~(transfer[t].attempted /\ ~bd[b].revoked)
    <2>1. bd' = bd /\ bound' = bound
      BY <1>4, <1>6 DEF Handoff
    <2>2. BrokerTypeOK' /\ Routed' /\ Connected' /\ Sent' /\ Refusals'
      BY <1>1, <1>2, <2>1 DEF TransferInv, BrokerInv, BrokerTypeOK, Routed, Connected, Sent, Refusals
    <2>3. BrokerInv'
      BY <1>1, <2>2 DEF BrokerInv, ToldEarly, SupervisorIsTold
    <2>. QED BY <1>6, <2>1, <2>3
  <1>7. CASE transfer[t].attempted /\ ~bd[b].revoked
    <2>1. Moves(bd[b], Revoked(bd[b])) /\ Revoked(bd[b]).revoked
      BY <1>3, <1>5, RevokedMoves DEF RecordsOK
    <2>2. Install(b, Revoked(bd[b]))
      <3>1. bd' = [bd EXCEPT ![b] = Revoked(bd[b])]
        BY <1>7 DEF Handoff
      <3>2. bound' = [bound EXCEPT ![t] = 0]
        BY <1>4, <1>7 DEF Handoff
      <3>3. \A u \in Threads : bound[u] = b => u = t
        BY <1>3, <1>5 DEF Routed
      <3>4. bound \in [Threads -> {0} \cup Binds]
        BY <1>5 DEF BrokerTypeOK
      <3>5. bound' = [u \in Threads |-> IF bound[u] = b THEN 0 ELSE bound[u]]
        BY <1>4, <1>7, <3>2, <3>3, <3>4
      <3>. QED BY <1>1, <1>7, <2>1, <3>1, <3>5 DEF Install
    <2>3. /\ RecordsOK' /\ Routed' /\ bound' \in [Threads -> {0} \cup Binds]
          /\ bd'[b] = Revoked(bd[b]) /\ \A x \in Binds \ {b} : bd'[x] = bd[x]
      BY <1>1, <1>3, <1>5, <2>1, <2>2, InstallKeeps DEF Moves
    <2>4. BrokerTypeOK'
      BY <1>1, <1>2, <1>5, <2>3 DEF BrokerTypeOK, RecordsOK, Bounded
    <2>5. Connected' /\ Sent' /\ Refusals'
      BY <1>1 DEF TransferInv, BrokerInv, Connected, Sent, Refusals
    <2>6. BrokerInv'
      BY <1>1, <2>3, <2>4, <2>5 DEF BrokerInv, ToldEarly, SupervisorIsTold
    <2>. QED BY <2>1, <2>3, <2>6 DEF Moves
  <1>. QED BY <1>6, <1>7

(* The hand-off lifts a drained reservation; a source that was unsubscribed *)
(* is out by then.                                                         *)
LEMMA HandoffKeeps ==
    ASSUME TransferInv, NEW t \in Threads, NEW k \in Tokens, Handoff(t, k)
    PROVE  TransferInv'
  <1>1. Transferring(t) /\ transfer[t].token = k /\ ~transfer[t].draining
    BY DEF Handoff, Held, MayFinish
  <1>2. ~Busy(transfer[t].bind)
    BY <1>1 DEF TransferInv, Reserved, Reserves
  <1>3. /\ completed' \in Seq(Tokens) /\ Len(completed') <= Remembered
        /\ Range(completed') \subseteq
              Range(completed) \cup (IF transfer[t].attempted THEN {k} ELSE {})
    BY RememberOK DEF Handoff, TransferInv, TypeOK
  <1>4. /\ noEffects' = noEffects /\ noEffects' \in Seq(Tokens)
        /\ Len(noEffects') <= Remembered /\ IsInjective(noEffects')
    BY DEF Handoff, TransferInv, TypeOK
  <1>5. UNCHANGED <<bindEpoch, op, source, attempted>> /\ Sets(t, NoTransfer)
    BY DEF Handoff
  <1>. QED BY <1>1, <1>2, <1>3, <1>4, <1>5, HandoffBroker, LiftKeeps

-----------------------------------------------------------------------------
(* The native target. *)

(* A reservation gains a target, or the target its binding: by then the     *)
(* source is revoked with nothing in flight.                               *)
LEMMA TargetGained ==
    ASSUME TransferInv, BrokerInv', UNCHANGED transferVars, bindEpoch <= bindEpoch',
           NEW t \in Threads, NEW y \in Transfer, Sets(t, y), Transferring(t),
           y.token = transfer[t].token, y.bind = transfer[t].bind,
           y.draining = transfer[t].draining, y.attempted = transfer[t].attempted,
           \A b \in 1 .. bindEpoch : /\ bd'[b].thread = bd[b].thread
                                     /\ Busy(b)' => Busy(b)
                                     /\ bd[b].revoked => bd'[b].revoked,
           ~Busy(y.bind), bd'[y.bind].revoked,
           y.native # 0 => y.target = "active" /\ y.native # y.bind
    PROVE  TransferInv'
  <1>1. transfer'[t] = y /\ \A u \in Threads \ {t} : transfer'[u] = transfer[u]
    BY DEF Sets, TransferInv, TypeOK, BrokerTypeOK
  <1>2. y # NoTransfer
    BY TransferIsOne
  <1>3. bindEpoch \in Nat /\ bindEpoch' \in Nat
    BY BrokerAssumption DEF TransferInv, BrokerInv, BrokerTypeOK, Binds
  <1>4. \A b \in 1 .. bindEpoch : b \in 1 .. bindEpoch' /\ (Out(b) => Out(b)')
    BY <1>3 DEF Out
  <1>5. UNCHANGED <<source, completed, noEffects, attempted>>
    BY DEF transferVars
  <1>6. TypeOK' /\ NoEffectIsTrue'
    BY <1>5 DEF TransferInv, TypeOK, BrokerInv, NoEffectIsTrue
  <1>7. Reserved'
    <2>. SUFFICES ASSUME NEW u \in Threads, Transferring(u)'
                  PROVE  Reserves(u, transfer[u])'
      BY DEF Reserved
    <2>1. Transferring(u) /\ Reserves(u, transfer[u])
      BY <1>1 DEF TransferInv, Reserved, Transferring
    <2>2. PICK b \in 1 .. bindEpoch : b = transfer[u].bind
      BY <2>1 DEF Reserves
    <2>3. CASE u = t
      <3>1. ~Busy(b)' /\ bd'[b].revoked /\ bd'[b].thread = u
        BY <2>1, <2>2, <2>3 DEF Reserves
      <3>. QED BY <1>1, <1>4, <1>5, <2>1, <2>2, <2>3, <3>1 DEF Reserves, Out, Busy
    <2>4. CASE u # t
      <3>1. /\ bd'[b].thread = u /\ (~transfer[u].draining => ~Busy(b)')
            /\ transfer[u].target # "none" => Out(b)'
        BY <1>4, <2>1, <2>2 DEF Reserves
      <3>2. transfer'[u] = transfer[u]
        BY <1>1, <2>4
      <3>. QED BY <1>4, <1>5, <2>1, <2>2, <3>1, <3>2 DEF Reserves, Out, Busy
    <2>. QED BY <2>3, <2>4
  <1>8. Receipts'
    <2>. SUFFICES ASSUME NEW k \in Tokens
                  PROVE  /\ source[k] = NoSource \/ source[k].bind \in 1 .. bindEpoch'
                         /\ k \in attempted =>
                               /\ source[k].bind \in 1 .. bindEpoch'
                               /\ \/ bd'[source[k].bind].revoked
                                  \/ /\ transfer'[ThreadOf(k)'] # NoTransfer
                                     /\ transfer'[ThreadOf(k)'].token = k
                                     /\ transfer'[ThreadOf(k)'].attempted
                         /\ k \in Range(completed) =>
                               source[k].bind \in 1 .. bindEpoch' /\ Out(source[k].bind)'
      BY <1>5 DEF Receipts, Transferring, ThreadOf, Out, Busy
    <2>1. PICK b : b = source[k].bind /\ b = source'[k].bind
      BY <1>5
    <2>2. /\ source[k] = NoSource \/ b \in 1 .. bindEpoch
          /\ k \in attempted =>
                /\ b \in 1 .. bindEpoch
                /\ \/ bd[b].revoked
                   \/ /\ Transferring(bd[b].thread)
                      /\ transfer[bd[b].thread].token = k /\ transfer[bd[b].thread].attempted
          /\ k \in Range(completed) => b \in 1 .. bindEpoch /\ Out(b)
      BY <2>1 DEF TransferInv, Receipts, ThreadOf
    <2>3. b \in 1 .. bindEpoch =>
             /\ bd'[b].thread = bd[b].thread /\ bd[b].thread \in Threads
             /\ bd[b].revoked => bd'[b].revoked
      <3>1. b \in 1 .. bindEpoch => bd[b].thread \in Threads
        BY <1>3, BrokerAssumption DEF TransferInv, BrokerInv, BrokerTypeOK, Routed, Binds
      <3>. QED BY <3>1
    <2>4. \A u \in Threads : Transferring(u) =>
             /\ transfer'[u] # NoTransfer /\ transfer'[u].token = transfer[u].token
             /\ transfer'[u].attempted = transfer[u].attempted
      BY <1>1, <1>2 DEF Transferring
    <2>5. k \in attempted =>
             /\ b \in 1 .. bindEpoch'
             /\ \/ bd'[b].revoked
                \/ /\ transfer'[bd'[b].thread] # NoTransfer
                   /\ transfer'[bd'[b].thread].token = k /\ transfer'[bd'[b].thread].attempted
      BY <1>4, <2>2, <2>3, <2>4
    <2>6. k \in Range(completed) => b \in 1 .. bindEpoch' /\ Out(b)'
      BY <1>4, <2>2
    <2>. QED BY <1>4, <2>1, <2>2, <2>5, <2>6 DEF ThreadOf, Out, Busy
  <1>. QED BY <1>6, <1>7, <1>8 DEF TransferInv

(* grantNativeTransfer *)
LEMMA GrantNativeKeeps ==
    ASSUME TransferInv, NEW t \in Threads, NEW k \in Tokens, GrantNative(t, k)
    PROVE  TransferInv'
  <1>. DEFINE y == [transfer[t] EXCEPT !.target = "planned"]
  <1>1. /\ Transferring(t) /\ ~transfer[t].draining /\ transfer[t].target = "none" /\ ~closing
        /\ Sets(t, y)
    BY DEF GrantNative, Held, Current
  <1>2. transfer[t] \in Transfer /\ BrokerTypeOK /\ Routed /\ RecordsOK
    BY <1>1, HeldTransfer, TypeRecords DEF TransferInv, BrokerInv
  <1>3. transfer[t].native = 0
    BY <1>1 DEF TransferInv, Reserved, Reserves
  <1>4. /\ y \in Transfer /\ y.token = transfer[t].token /\ y.bind = transfer[t].bind
        /\ y.draining = transfer[t].draining /\ y.attempted = transfer[t].attempted
        /\ y.native = 0
    BY <1>2, <1>3 DEF Transfer
  <1>5. y # NoTransfer
    BY <1>4, TransferIsOne
  <1>. HIDE DEF y
  <1>6. /\ transfer' \in [Threads -> Transfer \cup {NoTransfer}]
        /\ transfer'[t] = y /\ \A u \in Threads \ {t} : transfer'[u] = transfer[u]
    BY <1>1, <1>2, <1>4 DEF Sets, BrokerTypeOK
  <1>7. PICK b \in 1 .. bindEpoch : b = transfer[t].bind
    BY <1>1 DEF TransferInv, Reserved, Reserves
  <1>8. b \in Binds
    BY BrokerAssumption, <1>2 DEF BrokerTypeOK, Binds
  <1>9. /\ UNCHANGED <<conn, connEpoch, sup, closing, peer, bindEpoch, link, notifs, emitted, oversize, sub, op>>
        /\ UNCHANGED transferVars /\ Install(b, Revoked(bd[b]))
    BY <1>7 DEF GrantNative, supVars
  <1>10. Moves(bd[b], Revoked(bd[b])) /\ Revoked(bd[b]).revoked
    BY <1>2, <1>8, RevokedMoves DEF RecordsOK
  <1>11. /\ RecordsOK' /\ Routed' /\ bound' \in [Threads -> {0} \cup Binds] /\ wake' \in BOOLEAN
         /\ wake => wake'
         /\ bd'[b] = Revoked(bd[b]) /\ \A x \in Binds \ {b} : bd'[x] = bd[x]
         /\ \A u \in Threads : bound'[u] # bound[u] => bound[u] = b /\ bound'[u] = 0 /\ wake'
    BY <1>2, <1>8, <1>9, <1>10, InstallKeeps DEF Moves
  <1>12. BrokerTypeOK'
    BY <1>2, <1>6, <1>9, <1>11 DEF BrokerTypeOK, RecordsOK, Bounded
  <1>13. Connected' /\ Sent' /\ Refusals'
    BY <1>9 DEF TransferInv, BrokerInv, Connected, Sent, Refusals
  <1>14. Wanted'
    BY <1>1, <1>5, <1>6, <1>9 DEF Wanted, Transferring
  <1>15. Eligible(conn)' \subseteq Eligible(conn)
    <2>. SUFFICES ASSUME NEW x \in Eligible(conn)' PROVE x \in Eligible(conn)
      OBVIOUS
    <2>1. /\ x \in Binds /\ x # 0 /\ bd'[x].thread \in Threads /\ bound'[bd'[x].thread] = x
          /\ bd'[x].stage = "idle"
          /\ transfer'[bd'[x].thread] # NoTransfer => NativeAllowed(x, conn)'
      BY DEF Eligible, Binds, Transferring
    <2>2. x # b
      BY <1>10, <1>11, <2>1 DEF Routed
    <2>3. bd'[x] = bd[x] /\ bound[bd[x].thread] = x
      BY <1>11, <2>1, <2>2
    <2>4. Transferring(bd[x].thread) => bd[x].thread # t /\ NativeAllowed(x, conn)
      BY <1>4, <1>5, <1>6, <1>9, <2>1, <2>3 DEF NativeAllowed, Transferring
    <2>. QED BY <2>1, <2>3, <2>4 DEF Eligible
  <1>16. ToldEarly' /\ SupervisorIsTold'
    <2>1. ToldEarly /\ SupervisorIsTold
      BY DEF TransferInv, BrokerInv
    <2>. QED BY <1>9, <1>11, <1>14, <1>15, <2>1 DEF ToldEarly, SupervisorIsTold
  <1>17. BrokerInv'
    BY <1>11, <1>12, <1>13, <1>16 DEF BrokerInv
  <1>18. 1 .. bindEpoch \subseteq Binds
    BY BrokerAssumption, <1>2 DEF BrokerTypeOK, Binds
  <1>19. \A c \in 1 .. bindEpoch : /\ bd'[c].thread = bd[c].thread
                                   /\ Busy(c)' => Busy(c)
                                   /\ bd[c].revoked => bd'[c].revoked
    <2>1. \A c \in Binds : /\ bd'[c].thread = bd[c].thread /\ bd'[c].barrier = bd[c].barrier
                           /\ bd[c].revoked => bd'[c].revoked
      BY <1>10, <1>11 DEF Moves
    <2>. QED BY <1>9, <1>18, <2>1 DEF Busy
  <1>20. bd'[y.bind].revoked /\ ~Busy(y.bind)
    BY <1>1, <1>4, <1>7, <1>10, <1>11 DEF TransferInv, Reserved, Reserves
  <1>21. bindEpoch <= bindEpoch'
    BY <1>9, <1>2, BrokerAssumption DEF BrokerTypeOK, Binds
  <1>. QED BY <1>1, <1>4, <1>9, <1>17, <1>19, <1>20, <1>21, TargetGained

(* bindWithGrant *)
LEMMA BindNativeKeeps ==
    ASSUME TransferInv, NEW t \in Threads, BindNative(t)
    PROVE  TransferInv'
  <1>. DEFINE y == [transfer[t] EXCEPT !.native = bindEpoch + 1]
  <1>1. /\ Transferring(t) /\ transfer[t].target = "active" /\ Attach(t) /\ Sets(t, y)
        /\ UNCHANGED transferVars
    BY DEF BindNative
  <1>2. transfer[t] \in Transfer /\ BrokerTypeOK /\ BrokerInv
    BY <1>1, HeldTransfer DEF TransferInv, BrokerInv
  <1>3. bindEpoch + 1 \in Binds /\ bindEpoch \in Nat
    BY <1>1, <1>2, BrokerAssumption DEF Attach, BrokerTypeOK, Binds
  <1>4. /\ y \in Transfer /\ y.token = transfer[t].token /\ y.bind = transfer[t].bind
        /\ y.draining = transfer[t].draining /\ y.attempted = transfer[t].attempted
        /\ y.native = bindEpoch + 1 /\ y.target = "active"
    BY <1>1, <1>2, <1>3 DEF Transfer
  <1>. HIDE DEF y
  <1>5. transfer' \in [Threads -> Transfer \cup {NoTransfer}]
    BY <1>1, <1>2, <1>4 DEF Sets, BrokerTypeOK
  <1>6. /\ BrokerInv' /\ bindEpoch' = bindEpoch + 1
        /\ \A b \in 1 .. bindEpoch : bd'[b] = bd[b]
    BY <1>1, <1>2, <1>5, AttachKeeps
  <1>7. \A c \in 1 .. bindEpoch : /\ bd'[c].thread = bd[c].thread
                                  /\ Busy(c)' => Busy(c)
                                  /\ bd[c].revoked => bd'[c].revoked
    BY <1>1, <1>6 DEF Attach, Busy
  <1>8. PICK b \in 1 .. bindEpoch : b = transfer[t].bind
    BY <1>1 DEF TransferInv, Reserved, Reserves
  <1>9. bd'[y.bind].revoked /\ y.native # y.bind
    <2>1. bd[b].revoked
      BY <1>1, <1>8 DEF TransferInv, Reserved, Reserves, Out
    <2>. QED BY <1>3, <1>4, <1>6, <1>8, <2>1
  <1>10. ~Busy(y.bind)
    BY <1>1, <1>4 DEF TransferInv, Reserved, Reserves, Out
  <1>11. bindEpoch <= bindEpoch'
    BY <1>3, <1>6
  <1>. QED BY <1>1, <1>4, <1>6, <1>7, <1>9, <1>10, <1>11, TargetGained

-----------------------------------------------------------------------------
(* The invariant, and what follows from it. *)

(* No transfer is under way at the start. *)
LEMMA InitOK == Init => TransferInv
  <1>. SUFFICES ASSUME Init PROVE TransferInv
    OBVIOUS
  <1>1. BrokerInv
    BY BrokerInitOK DEF Init
  <1>2. Range(completed) = {} /\ Range(noEffects) = {}
    BY DEF Init, Range
  <1>3. TypeOK
    <2>1. /\ completed \in Seq(Tokens) /\ Len(completed) <= Remembered
          /\ noEffects \in Seq(Tokens) /\ Len(noEffects) <= Remembered
          /\ IsInjective(noEffects)
      BY EmptySeq, TransferAssumption DEF Init, IsInjective
    <2>. QED BY <1>1, <2>1 DEF Init, TypeOK, BrokerInv, NoSource
  <1>4. Reserved
    BY DEF Init, BrokerInit, Reserved, Transferring
  <1>5. Receipts
    BY <1>2 DEF Init, Receipts
  <1>. QED BY <1>1, <1>2, <1>3, <1>4, <1>5 DEF TransferInv, NoEffectIsTrue

(* A step that makes a binding or is the broker's own. *)
LEMMA BrokerKeeps ==
    ASSUME TransferInv, UNCHANGED transferVars,
           \/ BrokerStep
           \/ \E t \in Threads : Bind(t)
           \/ \E b \in Binds : CloseBinding(b)
    PROVE  TransferInv' /\ Guarantee
  <1>1. BrokerInv /\ bindEpoch \in Nat
    BY BrokerAssumption DEF TransferInv, BrokerInv, BrokerTypeOK, Binds
  <1>2. CASE BrokerStep
    <2>1. BrokerInv' /\ Guarantee
      BY <1>1, <1>2, BrokerStepKeeps
    <2>2. bindEpoch' = bindEpoch
      BY <1>2 DEF BrokerStep, CloseBroker, SupervisorStep, Sleep, StartOpen, OpenFails, Open, Route,
            Wakes, Revoke, CloseEndpoint, Retired, Shutdown, BarrierStep, Resumed, Snapshot,
            BarrierEnds, EndpointStep, LinkFails, ThreadEvent, OpStep, Submit, Takes, Applied,
            Rejected, Lost, Finish
    <2>3. bindEpoch <= bindEpoch'
      BY <1>1, <2>2
    <2>. QED BY <2>1, <2>3, GuaranteeKeeps
  <1>3. CASE \E t \in Threads : Bind(t)
    <2>1. PICK t \in Threads : Bind(t)
      BY <1>3
    <2>2. /\ Attach(t) /\ UNCHANGED <<op, transfer>>
          /\ transfer' \in [Threads -> Transfer \cup {NoTransfer}]
      BY <2>1 DEF Bind, Attach, TransferInv, TypeOK, BrokerTypeOK
    <2>3. /\ BrokerInv' /\ bindEpoch' = bindEpoch + 1
          /\ \A b \in 1 .. bindEpoch : bd'[b] = bd[b]
      BY <1>1, <2>2, AttachKeeps
    <2>4. Guarantee
      BY <2>2, <2>3 DEF Guarantee, Drains, Busy
    <2>5. bindEpoch <= bindEpoch'
      BY <1>1, <2>3
    <2>. QED BY <2>3, <2>4, <2>5, GuaranteeKeeps
  <1>4. CASE \E b \in Binds : CloseBinding(b)
    <2>1. BrokerInv' /\ Guarantee
      BY <1>1, <1>4, CloseBindingKeeps
    <2>2. bindEpoch <= bindEpoch'
      BY <1>1, <1>4 DEF CloseBinding
    <2>. QED BY <2>1, <2>2, GuaranteeKeeps
  <1>. QED BY <1>2, <1>3, <1>4

(* Every step of the broker and of a transfer keeps the invariant. *)
LEMMA NextOK == TransferInv /\ [Next]_vars => TransferInv'
  <1>. SUFFICES ASSUME TransferInv, [Next]_vars PROVE TransferInv'
    OBVIOUS
  <1>1. CASE UNCHANGED vars
    <2>1. UNCHANGED <<brokerVars, transferVars>> /\ bindEpoch' = bindEpoch
      BY <1>1 DEF vars, brokerVars
    <2>2. BrokerInv' /\ bindEpoch <= bindEpoch'
      BY <2>1, BrokerUnchanged, BrokerAssumption DEF TransferInv, BrokerInv, BrokerTypeOK, Binds
    <2>3. Guarantee
      BY <2>1, QuietGuarantee DEF brokerVars
    <2>. QED BY <2>1, <2>2, <2>3, GuaranteeKeeps
  <1>2. CASE \/ BrokerStep /\ UNCHANGED transferVars
             \/ \E t \in Threads : Bind(t) /\ UNCHANGED transferVars
             \/ \E b \in Binds : CloseBinding(b) /\ UNCHANGED transferVars
    BY <1>2, BrokerKeeps
  <1>3. CASE \E k \in Tokens : ReceiptStep(k)
    BY <1>3, NewReceiptKeeps, PrepareKeeps, PrepareRefusedKeeps, RetireKeeps, AbortKeeps,
       HandoffKeeps, GrantNativeKeeps, TargetKeeps DEF ReceiptStep
  <1>4. CASE \E t \in Threads : TransferStep(t)
    <2>1. PICK t \in Threads : TransferStep(t)
      BY <1>4
    <2>2. CASE Reclaim(t)
      <3>1. Transferring(t)
        BY <2>2 DEF Reclaim
      <3>2. \E k \in Tokens : TRUE
        BY <3>1, HeldTransfer DEF TransferInv, TypeOK
      <3>. QED BY <2>2, <3>2, TargetKeeps
    <2>3. CASE Unsubscribed(t) \/ RetireEnds(t) \/ CallFails(t) \/ ResumeEnds(t)
      BY <2>3, CallKeeps
    <2>4. CASE BindNative(t)
      BY <2>4, BindNativeKeeps
    <2>. QED BY <2>1, <2>2, <2>3, <2>4 DEF TransferStep
  <1>5. CASE \E owned \in SUBSET Threads \ {{}} : Depart(owned)
    BY <1>5, DepartKeeps
  <1>. QED BY <1>1, <1>2, <1>3, <1>4, <1>5 DEF Next

(* The invariant of the transfer holds in every reachable state. *)
THEOREM TransferInvariant == Spec => []TransferInv
  BY InitOK, NextOK, PTL DEF Spec

(* Types, the bounds of the queues, of the client's channel and of the      *)
(* remembered outcomes included.                                           *)
THEOREM TypeCorrect == Spec => []TypeOK
  <1>1. TransferInv => TypeOK
    BY DEF TransferInv
  <1>. QED BY <1>1, TransferInvariant, PTL

(* Once its drain is over nothing of the source is in flight and nothing    *)
(* gets in (PrepareTransfer).                                              *)
THEOREM Frozen == Spec => []SourceStaysFrozen
  <1>1. TransferInv => SourceStaysFrozen
    BY DEF TransferInv, Reserved, Reserves, SourceStaysFrozen
  <1>. QED BY <1>1, TransferInvariant, PTL

(* A receipt on record as one without effect never unsubscribed its source  *)
(* (PrepareNoEffect).                                                      *)
THEOREM NoEffect == Spec => []NoEffectIsTrue
  <1>1. TransferInv => NoEffectIsTrue
    BY DEF TransferInv
  <1>. QED BY <1>1, TransferInvariant, PTL

(* When a target is granted or a completion is on record, the source is     *)
(* revoked with nothing in flight (grantNativeTransfer, finishTransfer).   *)
THEOREM SourceOut == Spec => []SourceIsOut
  <1>1. TransferInv => SourceIsOut
    <2>. SUFFICES ASSUME TransferInv PROVE SourceIsOut
      OBVIOUS
    <2>1. \A k \in Range(completed) : k \in Tokens
      BY RangeOfSeq DEF TransferInv, TypeOK
    <2>. QED BY <2>1 DEF TransferInv, Reserved, Reserves, Receipts, SourceIsOut, Out
  <1>. QED BY <1>1, TransferInvariant, PTL

(* The supervisor never sleeps on work while it serves a connection         *)
(* (signal, revokeBindingLocked).                                          *)
THEOREM Told == Spec => []SupervisorIsTold
  <1>1. TransferInv => SupervisorIsTold
    BY DEF TransferInv, BrokerInv
  <1>. QED BY <1>1, TransferInvariant, PTL

(* A refused request took no effect, but for a client that failed over a    *)
(* frame it could not read (classify).                                     *)
THEOREM Refused == Spec => []RefusedTookNoEffect
  <1>1. TransferInv => RefusedTookNoEffect
    BY DEF TransferInv, BrokerInv, Refusals, RefusedTookNoEffect
  <1>. QED BY <1>1, TransferInvariant, PTL

(* A source that was unsubscribed never writes to its thread again: a       *)
(* request is sent only by a broker's step, on a binding that is neither    *)
(* revoked nor reserved, and the source is one or the other.               *)
THEOREM NeverWritesAgain == Spec => SourceNeverWritesAgain
  <1>. DEFINE Quiet == \A o \in Ops, k \in attempted :
                          op[o].outcome = "none" /\ op'[o].outcome = "sent" =>
                              op'[o].bind # source[k].bind
  <1>1. TransferInv /\ [Next]_vars => [Quiet]_vars
    <2>. SUFFICES ASSUME TransferInv, Next PROVE Quiet
      OBVIOUS
    <2>1. CASE op' = op
      BY <2>1
    <2>2. CASE UNCHANGED transferVars /\ (BrokerStep \/ (\E t \in Threads : Bind(t))
                                            \/ \E b \in Binds : CloseBinding(b))
      <3>1. Guarantee
        BY <2>2, BrokerKeeps
      <3>2. \A k \in attempted :
               \/ bd[source[k].bind].revoked
               \/ Transferring(bd[source[k].bind].thread)
        BY DEF TransferInv, TypeOK, Receipts, ThreadOf
      <3>. QED BY <3>1, <3>2 DEF Guarantee
    <2>3. CASE \E k \in Tokens : ReceiptStep(k)
      <3>1. op' = op
        BY <2>3 DEF ReceiptStep, NewReceipt, brokerVars, Prepare, PrepareRefused, Retire, Abort,
              Handoff, GrantNative, ResumeNative, ActivateNative
      <3>. QED BY <2>1, <3>1
    <2>4. CASE \E t \in Threads : TransferStep(t)
      <3>1. op' = op
        BY <2>4 DEF TransferStep, Unsubscribed, RetireEnds, CallFails, ResumeEnds, BindNative,
              Attach, Reclaim
      <3>. QED BY <2>1, <3>1
    <2>5. CASE \E owned \in SUBSET Threads \ {{}} : Depart(owned)
      <3>1. op' = op
        BY <2>5 DEF Depart
      <3>. QED BY <2>1, <3>1
    <2>. QED BY <2>2, <2>3, <2>4, <2>5 DEF Next
  <1>. QED BY <1>1, TransferInvariant, PTL DEF Spec, SourceNeverWritesAgain
=============================================================================
