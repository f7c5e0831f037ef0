--------------------------- MODULE BrokerTransfer ---------------------------
(***************************************************************************)
(* The transfer of a thread from the binding that controls it to a new     *)
(* owner, over the broker: prepare freezes and drains the source, retire    *)
(* unsubscribes it and waits until the thread is unloaded, a native target  *)
(* may resume it, finish hands it over and abort gives it back.  The owner *)
(* of a transfer is the session of a coordinator; when it departs the       *)
(* transfer is orphaned, and another session may reclaim it.  Which session *)
(* that is makes no difference: a call of any other one is refused, and a   *)
(* session that departed never calls again.                                *)
(***************************************************************************)
EXTENDS CodexBroker, Functions

CONSTANT
    Remembered      \* how many outcomes of each kind are remembered (64)

ASSUME TransferAssumption == Remembered \in Nat \ {0}

VARIABLES
    source,         \* the fence each receipt names
    completed,      \* completedTransfers, oldest first
    noEffects,      \* prepareNoEffects, oldest first
    attempted       \* history: the receipts whose source was unsubscribed

transferVars == <<source, completed, noEffects, attempted>>
vars == <<brokerVars, transferVars>>

NoSource == [bind |-> 0, conn |-> 0]

(* Types, and the bounds of what is remembered.  A receipt is listed at     *)
(* most once as without effect: prepareNoEffects forgets it when its entry  *)
(* in prepareTerminals is dropped, so a second entry would forget it early. *)
TypeOK ==
    /\ BrokerTypeOK
    /\ source \in [Tokens -> [bind : {0} \cup Binds, conn : {0} \cup Conns]]
    /\ completed \in Seq(Tokens) /\ Len(completed) <= Remembered
    /\ noEffects \in Seq(Tokens) /\ Len(noEffects) <= Remembered /\ IsInjective(noEffects)
    /\ attempted \subseteq Tokens

Init ==
    /\ BrokerInit
    /\ source = [k \in Tokens |-> NoSource]
    /\ completed = <<>> /\ noEffects = <<>>
    /\ attempted = {}

-----------------------------------------------------------------------------
ThreadOf(k) == bd[source[k].bind].thread

(* An outcome is remembered, and the oldest one goes if there are too many. *)
Remember(seq, k) ==
    LET longer == Append(seq, k)
    IN  IF Len(longer) > Remembered THEN Tail(longer) ELSE longer

(* Mutant: a no-effect is listed again each time it is reported. *)
RememberNoEffectAgain(k) == noEffects' = Remember(noEffects, k)

(* rememberPrepareNoEffectLocked: once for each receipt. *)
RememberNoEffect(k) ==
    noEffects' = IF k \in Range(noEffects) THEN noEffects ELSE Remember(noEffects, k)

(* transferCurrentLocked *)
Current(x) == ~closing /\ conn = x.conn /\ ~x.orphaned

(* transferLocked: the transfer of receipt k, which its owner still holds. *)
Held(t, k) == Transferring(t) /\ transfer[t].token = k /\ ~transfer[t].orphaned

Sets(t, x) == transfer' = [transfer EXCEPT ![t] = x]

(* NewTransferReceipt, from the fence the caller was told. *)
NewReceipt(k, b) ==
    /\ source[k] = NoSource
    /\ Authority(b, conn)
    /\ source' = [source EXCEPT ![k] = [bind |-> b, conn |-> conn]]
    /\ UNCHANGED <<brokerVars, completed, noEffects, attempted>>

(* The authority of the receipt's own fence, on the binding that is bound. *)
SourceHasAuthority(k) ==
    /\ source[k] # NoSource
    /\ bound[ThreadOf(k)] = source[k].bind
    /\ Authority(source[k].bind, source[k].conn)

(* Mutant: prepare takes a receipt that was reported to have no effect. *)
PrepareAgain(k) ==
    LET t == ThreadOf(k)
        b == source[k].bind
    IN  /\ SourceHasAuthority(k)
        /\ ~Transferring(t)
        /\ Sets(t, [token |-> k, bind |-> b, conn |-> conn, peer |-> peer[conn],
                    draining |-> Busy(b), retired |-> FALSE, attempted |-> FALSE, busy |-> "no",
                    orphaned |-> FALSE, target |-> "none", init |-> FALSE,
                    ready |-> FALSE, native |-> 0])
        /\ wake' = TRUE
        /\ UNCHANGED <<supVars, bindEpoch, link, bound, bd, notifs, emitted, oversize, sub, op, transferVars>>

(* PrepareTransfer, up to its wait for the drain.  A wait that times out     *)
(* tries an Abort, and one that returns changes nothing.                   *)
Prepare(k) ==
    LET t == ThreadOf(k)
        b == source[k].bind
    IN  /\ k \notin Range(noEffects)
        /\ SourceHasAuthority(k)
        /\ ~Transferring(t)
        /\ Sets(t, [token |-> k, bind |-> b, conn |-> conn, peer |-> peer[conn],
                    draining |-> Busy(b), retired |-> FALSE, attempted |-> FALSE, busy |-> "no",
                    orphaned |-> FALSE, target |-> "none", init |-> FALSE,
                    ready |-> FALSE, native |-> 0])
        /\ wake' = TRUE
        /\ UNCHANGED <<supVars, bindEpoch, link, bound, bd, notifs, emitted, oversize, sub, op, transferVars>>

(* RecordPrepareRefusal, when prepare was refused: the host takes no new    *)
(* work, or PrepareTransfer returned an error.                             *)
PrepareRefused(k) ==
    /\ ~closing
    /\ SourceHasAuthority(k)
    /\ ~Transferring(ThreadOf(k))
    /\ k \notin Range(completed)
    /\ RememberNoEffect(k)
    /\ UNCHANGED <<brokerVars, source, completed, attempted>>

-----------------------------------------------------------------------------
(* RetireTransfer: under the lock, and then on the captured connection. *)

Retire(t, k) ==
    LET x == transfer[t]
    IN  /\ Held(t, k)
        /\ Current(x)
        /\ x.busy = "no" /\ ~x.draining /\ ~Busy(x.bind)
        /\ Sets(t, [x EXCEPT !.busy = "unsubscribing", !.attempted = TRUE])
        /\ attempted' = attempted \cup {k}
        /\ UNCHANGED <<supVars, bindEpoch, wake, link, bound, bd, notifs, emitted, oversize, sub, op,
                       source, completed, noEffects>>

Unsubscribed(t) ==
    LET x == transfer[t]
    IN  /\ Transferring(t) /\ x.busy = "unsubscribing"
        /\ link[x.conn] = "up"
        /\ Sets(t, [x EXCEPT !.busy = "awaiting"])
        /\ sub' = IF x.conn = connEpoch THEN sub \ {t} ELSE sub
        /\ UNCHANGED <<supVars, bindEpoch, wake, link, bound, bd, notifs, emitted, oversize, op, transferVars>>

(* AwaitThreadRetirement saw the thread unloaded, and the guard held. *)
RetireEnds(t) ==
    LET x == transfer[t]
    IN  /\ Transferring(t) /\ x.busy = "awaiting"
        /\ link[x.conn] = "up" /\ Current(x)
        /\ Sets(t, [x EXCEPT !.busy = "no", !.retired = TRUE])
        /\ UNCHANGED <<supVars, bindEpoch, wake, link, bound, bd, notifs, emitted, oversize, sub, op, transferVars>>

(* Any error, the deadline or the guard ends a call to the endpoint. *)
CallFails(t) ==
    /\ Transferring(t) /\ transfer[t].busy # "no"
    /\ Sets(t, [transfer[t] EXCEPT !.busy = "no"])
    /\ UNCHANGED <<supVars, bindEpoch, wake, link, bound, bd, notifs, emitted, oversize, sub, op, transferVars>>

-----------------------------------------------------------------------------
(* finishTransfer *)

(* Mutant: abort is let through after the source was unsubscribed. *)
MayFinishAny(x, handoff) ==
    /\ x.busy = "no" /\ ~x.draining /\ ~x.orphaned
    /\ x.attempted => ~handoff \/ x.retired
    /\ Current(x)

MayFinish(x, handoff) ==
    /\ x.busy = "no" /\ ~x.draining /\ ~x.orphaned
    /\ x.attempted => handoff /\ x.retired
    /\ Current(x)

Abort(t, k) ==
    LET x == transfer[t]
    IN  /\ Held(t, k)
        /\ MayFinish(x, FALSE)
        /\ ~bd[x.bind].revoked /\ bound[t] = x.bind
        /\ Sets(t, NoTransfer)
        /\ IF x.attempted THEN UNCHANGED noEffects ELSE RememberNoEffect(k)
        /\ wake' = TRUE
        /\ UNCHANGED <<supVars, bindEpoch, link, bound, bd, notifs, emitted, oversize, sub, op,
                       source, completed, attempted>>

(* The hand-off.  One that was never attempted only lifts the reservation.  *)
Handoff(t, k) ==
    LET x == transfer[t]
        n == bd[x.native]
    IN  /\ Held(t, k)
        /\ MayFinish(x, TRUE)
        /\ x.attempted /\ x.target # "none" =>
              x.native # 0 /\ ~n.revoked /\ n.stage = "open" /\ n.conn = x.conn
        /\ Sets(t, NoTransfer)
        /\ bd' = IF x.attempted /\ ~bd[x.bind].revoked
                 THEN [bd EXCEPT ![x.bind] = Revoked(@)] ELSE bd
        /\ bound' = IF x.attempted /\ bound[t] = x.bind THEN [bound EXCEPT ![t] = 0] ELSE bound
        /\ completed' = IF x.attempted THEN Remember(completed, k) ELSE completed
        /\ wake' = TRUE
        /\ UNCHANGED <<supVars, bindEpoch, link, notifs, emitted, oversize, sub, op,
                       source, noEffects, attempted>>

-----------------------------------------------------------------------------
(* The native target. *)

(* Mutant: the target is granted while the source stays bound. *)
GrantNativeEarly(t, k) ==
    LET x == transfer[t]
    IN  /\ Held(t, k)
        /\ x.busy = "no" /\ ~x.draining /\ x.retired /\ ~x.orphaned /\ x.target = "none"
        /\ Current(x)
        /\ Sets(t, [x EXCEPT !.target = "planned"])
        /\ UNCHANGED <<supVars, bindEpoch, wake, link, bound, bd, notifs, emitted, oversize, sub, op, transferVars>>

(* grantNativeTransfer: the source is revoked before a target is admitted. *)
GrantNative(t, k) ==
    LET x == transfer[t]
    IN  /\ Held(t, k)
        /\ x.busy = "no" /\ ~x.draining /\ x.retired /\ ~x.orphaned /\ x.target = "none"
        /\ Current(x)
        /\ Install(x.bind, Revoked(bd[x.bind]))
        /\ Sets(t, [x EXCEPT !.target = "planned"])
        /\ UNCHANGED <<supVars, bindEpoch, link, notifs, emitted, oversize, sub, op, transferVars>>

(* resumeNativeTransfer: under the lock, and its answer. *)
ResumeNative(t, k) ==
    LET x == transfer[t]
    IN  /\ Held(t, k)
        /\ Current(x)
        /\ x.target = "planned" /\ ~x.init /\ x.busy = "no" /\ ~x.draining /\ x.retired
        /\ Sets(t, [x EXCEPT !.init = TRUE, !.busy = "resuming"])
        /\ UNCHANGED <<supVars, bindEpoch, wake, link, bound, bd, notifs, emitted, oversize, sub, op, transferVars>>

ResumeEnds(t) ==
    LET x == transfer[t]
    IN  /\ Transferring(t) /\ x.busy = "resuming"
        /\ link[x.conn] = "up"
        /\ sub' = IF x.conn = connEpoch THEN sub \cup {t} ELSE sub
        /\ Sets(t, [x EXCEPT !.busy = "no", !.ready = Current(x)])
        /\ UNCHANGED <<supVars, bindEpoch, wake, link, bound, bd, notifs, emitted, oversize, op, transferVars>>

(* activateNativeTransfer *)
ActivateNative(t, k) ==
    LET x == transfer[t]
    IN  /\ Held(t, k)
        /\ x.target = "planned" /\ x.ready /\ x.busy = "no" /\ ~x.orphaned
        /\ Current(x)
        /\ Sets(t, [x EXCEPT !.target = "active"])
        /\ UNCHANGED <<supVars, bindEpoch, wake, link, bound, bd, notifs, emitted, oversize, sub, op, transferVars>>

(* bindWithGrant with the activated target's grant. *)
BindNative(t) ==
    LET x == transfer[t]
    IN  /\ Transferring(t)
        /\ x.target = "active" /\ x.ready /\ ~x.orphaned /\ x.native = 0 /\ x.conn = conn
        /\ Attach(t)
        /\ Sets(t, [x EXCEPT !.native = bindEpoch + 1])
        /\ UNCHANGED transferVars

-----------------------------------------------------------------------------
(* The coordinator's session ends: abandonTransfers orphans what it owns. *)
Depart(owned) ==
    /\ \A t \in owned : Transferring(t) /\ ~transfer[t].orphaned
    /\ transfer' = [t \in Threads |->
          IF t \in owned THEN [transfer[t] EXCEPT !.orphaned = TRUE] ELSE transfer[t]]
    /\ UNCHANGED <<supVars, bindEpoch, wake, link, bound, bd, notifs, emitted, oversize, sub, op, transferVars>>

(* ReclaimTransfer: only on the process the transfer was prepared with, and *)
(* on another connection to it the retirement has to be seen again.        *)
Reclaim(t) ==
    LET x == transfer[t]
    IN  /\ Transferring(t)
        /\ x.native # 0 => bd[x.native].revoked
        /\ x.orphaned /\ x.busy = "no" /\ ~x.draining /\ ~Busy(x.bind)
        /\ ~closing /\ conn # 0 /\ peer[conn] = x.peer
        /\ Sets(t, [x EXCEPT !.orphaned = FALSE, !.conn = conn,
                             !.retired = @ /\ x.conn = conn, !.target = "none",
                             !.init = FALSE, !.ready = FALSE, !.native = 0])
        /\ UNCHANGED <<supVars, bindEpoch, wake, link, bound, bd, notifs, emitted, oversize, sub, op, transferVars>>

-----------------------------------------------------------------------------
ReceiptStep(k) ==
    \/ \E b \in Binds : NewReceipt(k, b)
    \/ Prepare(k)
    \/ PrepareRefused(k)
    \/ \E t \in Threads :
          \/ Retire(t, k) \/ Abort(t, k) \/ Handoff(t, k)
          \/ GrantNative(t, k) \/ ResumeNative(t, k) \/ ActivateNative(t, k)

TransferStep(t) ==
    \/ Unsubscribed(t) \/ RetireEnds(t) \/ CallFails(t) \/ ResumeEnds(t)
    \/ BindNative(t) \/ Reclaim(t)

Next ==
    \/ BrokerStep /\ UNCHANGED transferVars
    \/ \E t \in Threads : Bind(t) /\ UNCHANGED transferVars
    \/ \E b \in Binds : CloseBinding(b) /\ UNCHANGED transferVars
    \/ \E k \in Tokens : ReceiptStep(k)
    \/ \E t \in Threads : TransferStep(t)
    \/ \E owned \in SUBSET Threads \ {{}} : Depart(owned)

Spec == Init /\ [][Next]_vars

-----------------------------------------------------------------------------
(* Once the drain is over nothing of the source binding is in flight and    *)
(* nothing gets in: no request, and no barrier of a later connection        *)
(* (PrepareTransfer "freezes the existing exact binding").                 *)
SourceStaysFrozen ==
    \A t \in Threads :
        Transferring(t) /\ ~transfer[t].draining => ~Busy(transfer[t].bind)

(* A source that was unsubscribed never writes to its thread again, whether *)
(* the transfer is finished, orphaned, reclaimed or stuck: the thread is    *)
(* never given back to it (finishTransfer).                                *)
SourceNeverWritesAgain ==
    [][\A o \in Ops, k \in attempted :
          op[o].outcome = "none" /\ op'[o].outcome = "sent" => op'[o].bind # source[k].bind]_vars

(* The evidence that a prepare had no effect is true: that receipt never    *)
(* unsubscribed its source, through duplicated, delayed, timed-out and      *)
(* reclaimed prepares (PrepareNoEffect).                                   *)
NoEffectIsTrue == Range(noEffects) \cap attempted = {}

(* A new owner and the source never overlap: when a target has been granted *)
(* or a completion is on record, the source is revoked with nothing in      *)
(* flight.                                                                 *)
SourceIsOut ==
    /\ \A t \in Threads :
          Transferring(t) /\ transfer[t].target # "none" =>
              bd[transfer[t].bind].revoked /\ ~Busy(transfer[t].bind)
    /\ \A k \in Range(completed) : bd[source[k].bind].revoked /\ ~Busy(source[k].bind)
=============================================================================
