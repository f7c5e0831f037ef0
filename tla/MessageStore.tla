---------------------------- MODULE MessageStore ----------------------------
(***************************************************************************)
(* The durable receipt store of internal/integrations/agents/agentmessage: *)
(* one bounded file of immutable envelopes with their receipts, the rule   *)
(* by which an acceptance reclaims old records, and the reply lane.        *)
(*                                                                         *)
(* Every writer holds the store's flock around load, change and rename, so *)
(* one operation is one action.  writeLocked commits in two durable steps, *)
(* the history log before the rename; a crash or an I/O error between the  *)
(* two is the second disjunct of Write.  A refused operation writes        *)
(* nothing and is therefore not a step.                                    *)
(***************************************************************************)
EXTENDS MessageReceipt, Integers, FiniteSets

CONSTANTS
    MaxRecords,     \* maxRecords (256)
    Retention,      \* terminalRetention (24h)
    MaxProtected,   \* maxReplyProtectedPerTarget (64)
    NoRecord,       \* an absent record
    Drafts,         \* the messages callers put: ref, conv, replyTo, operator,
                    \* source, target, payload and ttl
    Outcomes,       \* what callers report: kind, reason and unknown
    MaxLag,         \* bound: how long a caller's clock reading waits for the lock
    MaxTime         \* bound: end of modelled time

ASSUME StoreAssumption ==
    /\ MaxRecords \in Nat \ {0} /\ MaxProtected \in Nat /\ Retention \in Nat
    /\ MaxLag \in Nat /\ MaxTime \in Nat
    /\ IsFiniteSet(Refs)
ASSUME DraftsAssumption ==
    Drafts \subseteq
      [ref : Refs, conv : Refs, replyTo : Refs \cup {NoRef}, operator : BOOLEAN,
       source : Routes \cup {NoRoute}, target : Routes, payload : Payloads, ttl : Nat]
ASSUME OutcomesAssumption ==
    Outcomes \subseteq [kind : {"hold"} \cup DOMAIN OutcomeOf,
                        reason : Reasons, unknown : BOOLEAN]

VARIABLES
    records,    \* the store file: for each ref its record or NoRecord
    history,    \* the reclaim log: refs with the state they left in
    attempts,   \* history variable: for each stored original, the replies
                \* PutReply has committed against it
    now         \* the clock

vars == <<records, history, attempts, now>>

Record == [env : Envelope, delivery : Delivery, handoff : BOOLEAN]

ASSUME NoRecordAssumption == NoRecord \notin Record

Stored(recs) == {r \in Refs : recs[r] # NoRecord}

(* adapterForTarget: the adapter follows the target's provider. *)
IsClaude(rec) == rec.env.target.agent \in Claude

IsTerminal(rec) == rec.delivery.state \in Terminal

(* validRecord: what decodeState demands of the record it finds under r.    *)
(* Zero is a proper time here, so a settled record may carry it.            *)
ValidRecord(r, rec) ==
    /\ rec.env.ref = r
    /\ Validate(rec.env)
    /\ rec.handoff => IsClaude(rec)
    /\ rec.delivery.unknown => rec.delivery.state = "failed"
    /\ ~IsTerminal(rec) => rec.delivery.terminalAt = 0

(* KnownZeroReply: the closed list of outcomes that prove no byte was       *)
(* written to the provider.                                                 *)
KnownZero(rec) ==
    /\ rec.env.replyTo # NoRef
    /\ IsClaude(rec)
    /\ ~rec.delivery.unknown
    /\ \/ rec.delivery.state = "refused" /\ rec.delivery.reason = "frame-unsupported"
       \/ rec.delivery.state = "failed" /\ rec.delivery.reason = "prewrite-zero"

EventFor(rec, kind, reason, unknown, at) ==
    [kind |-> kind, ref |-> rec.env.ref, conv |-> rec.env.conv,
     target |-> rec.env.target, reason |-> reason, unknown |-> unknown, at |-> at]

(* deadlineEvent: past a handoff the outcome is unknown, never expired. *)
DeadlineEvent(rec, at) ==
    IF rec.handoff THEN EventFor(rec, "fail", "other", TRUE, at)
                   ELSE EventFor(rec, "expire", "other", FALSE, at)

Reduced(rec, ev) == [rec EXCEPT !.delivery = Reduce(rec.delivery, rec.env, ev)]

(* The first loop of pruneRecords: overdue records become terminal. *)
Expired(rec) ==
    IF IsTerminal(rec) \/ rec.env.deadline > now
    THEN rec ELSE Reduced(rec, DeadlineEvent(rec, now))

Aged(recs) ==
    [r \in Refs |-> IF recs[r] = NoRecord THEN NoRecord ELSE Expired(recs[r])]

-----------------------------------------------------------------------------
(* Reclaiming. *)

(* A delivered Claude message its receiver may still answer. *)
Answerable(rec) ==
    /\ IsClaude(rec)
    /\ IF rec.env.operator THEN TRUE ELSE rec.env.source.agent # rec.env.target.agent
    /\ rec.env.deadline > now
    /\ rec.delivery.state = "delivered"

(* Newest acceptance first, an equal one by the smaller ref. *)
Precedes(a, b) ==
    \/ a.env.acceptedAt > b.env.acceptedAt
    \/ a.env.acceptedAt = b.env.acceptedAt /\ a.env.ref < b.env.ref

(* replyProtectedRecords. *)
Protected(recs, pinned) ==
    pinned \cup
    {r \in Stored(recs) :
        /\ Answerable(recs[r])
        /\ Cardinality({x \in Stored(recs) :
                          /\ Answerable(recs[x])
                          /\ recs[x].env.target.agent = recs[r].env.target.agent
                          /\ Precedes(recs[x], recs[r])}) < MaxProtected}

(* A set of stored refs that no stored reply edge leaves. *)
ClosedUnderReplies(recs, S) ==
    \A r \in Stored(recs) :
        recs[r].env.replyTo \in Stored(recs) => (r \in S <=> recs[r].env.replyTo \in S)

(* Mutant: reclaiming record by record instead of group by group. *)
GroupAlone(recs, r) == {r}

(* replyRecordGroups: an original with its attempts, transitively. *)
Group(recs, r) ==
    {x \in Stored(recs) :
        \A S \in SUBSET Stored(recs) :
            r \in S /\ ClosedUnderReplies(recs, S) => x \in S}

Groups(recs) == {Group(recs, r) : r \in Stored(recs)}

(* Mutant: a capacity run that forgets the reply protection. *)
RemovableUnprotected(recs, protected, g) == \A r \in g : IsTerminal(recs[r])

Removable(recs, protected, g) ==
    \A r \in g : r \notin protected /\ IsTerminal(recs[r])

PastRetention(recs, g) ==
    \A r \in g : recs[r].delivery.terminalAt + Retention < now

(* The group holds a member accepted before every member of h, or as early. *)
NoYounger(recs, g, h) ==
    \A y \in h : \E x \in g : recs[x].env.acceptedAt <= recs[y].env.acceptedAt

(* Mutant: a capacity test that lets one record too many in. *)
HasRoomOffByOne(recs, S) == Cardinality(Stored(recs) \ S) <= MaxRecords

(* Whether a record may still be appended once the refs in S are gone. *)
HasRoom(recs, S) == Cardinality(Stored(recs) \ S) < MaxRecords

(* One visit of the capacity loop: groups leave oldest first until there is *)
(* room.  Groups of one age are visited in file order, which is left open.  *)
CapacityRun(recs, old, eligible, C) ==
    /\ \A g \in C, h \in eligible \ C : NoYounger(recs, g, h)
    /\ HasRoom(recs, UNION (old \cup C)) \/ C = eligible
    /\ C = {} \/ \E last \in C :
                    /\ \A g \in C : NoYounger(recs, g, last)
                    /\ ~HasRoom(recs, UNION (old \cup (C \ {last})))

(* pruneRecords on already aged records: the sets of refs it may reclaim. *)
Reclaims(recs, pinned) ==
    LET removable == {g \in Groups(recs) : Removable(recs, Protected(recs, pinned), g)}
        old == {g \in removable : PastRetention(recs, g)}
    IN  {UNION (old \cup C) : C \in {C \in SUBSET (removable \ old) :
                                        CapacityRun(recs, old, removable \ old, C)}}

-----------------------------------------------------------------------------
(* Writing. *)

Without(recs, gone) == [r \in Refs |-> IF r \in gone THEN NoRecord ELSE recs[r]]

(* newHistoryRecords. *)
HistoryLines(recs, gone) ==
    {[ref |-> r, state |-> recs[r].delivery.state] : r \in gone}

(* Mutant: the rename before the log append, with a crash between the two. *)
WriteStoreFirst(next, lines, replies) ==
    /\ records' = next
    /\ attempts' = [r \in Refs |-> IF next[r] = NoRecord THEN {} ELSE replies[r]]
    /\ \/ history' = history \cup lines
       \/ UNCHANGED history
    /\ UNCHANGED now

(* writeLocked: the log is durable before the rename commits next. *)
Write(next, lines, replies) ==
    /\ history' = history \cup lines
    /\ \/ /\ records' = next
          /\ attempts' = [r \in Refs |-> IF next[r] = NoRecord THEN {} ELSE replies[r]]
       \/ UNCHANGED <<records, attempts>>
    /\ UNCHANGED now

(* A write that changes one record and reclaims nothing. *)
Update(r, rec) == Write([records EXCEPT ![r] = rec], {}, attempts)

(* An accepted record, held at once when it waits for a resume. *)
NewRecord(env, deferred) ==
    LET fresh == [env |-> env, delivery |-> ZeroDelivery, handoff |-> FALSE]
        accepted == Reduced(fresh, EventFor(fresh, "accept", "none", FALSE, env.acceptedAt))
    IN  IF deferred
        THEN Reduced(accepted, EventFor(accepted, "hold", "target-awaiting-resume",
                                        FALSE, env.acceptedAt))
        ELSE accepted

EnvelopeOf(d, conv, at, deadline) ==
    [ref |-> d.ref, conv |-> conv, replyTo |-> d.replyTo, operator |-> d.operator,
     source |-> d.source, target |-> d.target, payload |-> d.payload,
     acceptedAt |-> at, deadline |-> deadline]

(* Readings of the clock a caller may have taken before it got the lock. *)
Readings == {t \in 0..now : now <= t + MaxLag}

(* putAccepted.  A stored ref is a replay or a conflict and writes nothing. *)
Accept(d, at, deferred) ==
    LET env == EnvelopeOf(d, d.conv, at, at + d.ttl)
        aged == Aged(records)
    IN  /\ records[d.ref] = NoRecord
        /\ Validate(env)
        /\ \E gone \in Reclaims(aged, {}) :
              /\ HasRoom(aged, gone)
              /\ Write([Without(aged, gone) EXCEPT ![d.ref] = NewRecord(env, deferred)],
                       HistoryLines(aged, gone), attempts)

PutAccepted(d, at) == Accept(d, at, FALSE)
PutDeferred(d, at) == Accept(d, at, TRUE)

(* The attempts PutReply finds stored against an original. *)
AttemptsFor(recs, o) == {a \in Stored(recs) : recs[a].env.replyTo = o}

(* Mutant: any failed attempt opens the lane again, its outcome unknown or not. *)
ReplyAllowedAfterFailure(o, env) ==
    /\ ~records[o].env.operator
    /\ records[env.ref] = NoRecord
    /\ \A a \in AttemptsFor(records, o) : records[a].delivery.state = "failed"
    /\ records[o].delivery.state = "delivered"
    /\ records[o].env.deadline > now
    /\ env.deadline > now
    /\ env.deadline <= records[o].env.deadline
    /\ ValidateReply(records[o].env, env)

(* The refusals of PutReply, after the original was found. *)
ReplyAllowed(o, env) ==
    /\ ~records[o].env.operator
    /\ records[env.ref] = NoRecord
    /\ \A a \in AttemptsFor(records, o) : KnownZero(records[a])
    /\ records[o].delivery.state = "delivered"
    /\ records[o].env.deadline > now
    /\ env.deadline > now
    /\ env.deadline <= records[o].env.deadline
    /\ ValidateReply(records[o].env, env)

(* PutReply.  Only a first attempt makes room, and it pins its original. *)
PutReply(d, at, deadline) ==
    /\ d.replyTo \in Stored(records)
    /\ LET o == d.replyTo
           env == EnvelopeOf(d, records[o].env.conv, at, deadline)
           first == AttemptsFor(records, o) = {}
           base == IF first THEN Aged(records) ELSE records
       IN  /\ ReplyAllowed(o, env)
           /\ \E gone \in (IF first THEN Reclaims(base, {o}) ELSE {{}}) :
                 /\ HasRoom(base, gone)
                 /\ Write([Without(base, gone) EXCEPT ![d.ref] = NewRecord(env, FALSE)],
                          HistoryLines(base, gone),
                          [attempts EXCEPT ![o] = @ \cup {d.ref}])

(* The deadlines reply callers ask for: the ttl, or cut to the original's. *)
ReplyDeadlines(d, at) ==
    {at + d.ttl} \cup {records[o].env.deadline : o \in {d.replyTo} \cap Stored(records)}

(* Apply and ApplyMatching: the outcome a caller observed at some reading. *)
Apply(r, o, at) ==
    /\ records[r] # NoRecord
    /\ LET next == Reduced(records[r], EventFor(records[r], o.kind, o.reason, o.unknown, at))
       IN  next # records[r] /\ Update(r, next)

(* Mutant: a handoff on a Codex inbox record, which validRecord refuses. *)
MarkHandoffAny(r) ==
    /\ records[r] # NoRecord
    /\ ~IsTerminal(records[r])
    /\ ~records[r].handoff
    /\ Update(r, [records[r] EXCEPT !.handoff = TRUE])

(* MarkHandoff and MarkHandoffMatching. *)
MarkHandoff(r) ==
    /\ records[r] # NoRecord
    /\ IsClaude(records[r])
    /\ ~IsTerminal(records[r])
    /\ ~records[r].handoff
    /\ Update(r, [records[r] EXCEPT !.handoff = TRUE])

(* Status past the deadline.  The event is computed from a record read      *)
(* under an earlier lock, so its handoff flag may be out of date.           *)
Status(r, at) ==
    /\ records[r] # NoRecord
    /\ records[r].env.deadline <= at
    /\ \E seen \in {records[r], [records[r] EXCEPT !.handoff = FALSE]} :
          LET next == Reduced(records[r], DeadlineEvent(seen, at))
          IN  next # records[r] /\ Update(r, next)

(* Claim: expire the target's overdue records, deliver its oldest waiting.  *)
Claim(target) ==
    LET due == {r \in Stored(records) :
                  ~IsClaude(records[r]) /\ records[r].env.target = target}
        aged == [r \in Refs |-> IF r \in due THEN Expired(records[r]) ELSE records[r]]
        waiting == {r \in due : aged[r].delivery.state \in {"accepted", "held"}}
        oldest == {r \in waiting : \A x \in waiting :
                     aged[r].env.acceptedAt <= aged[x].env.acceptedAt}
    IN  \/ waiting = {} /\ aged # records /\ Write(aged, {}, attempts)
        \/ \E r \in oldest :
              Write([aged EXCEPT ![r] =
                       Reduced(aged[r], EventFor(aged[r], "deliver", "other", FALSE, now))],
                    {}, attempts)

SameButGeneration(old, next) ==
    next.agent = old.agent /\ next.pane = old.pane /\ next.inc = old.inc

(* ReaddressDeferred: only the activation generation of an unsubmitted      *)
(* resume hold may move.                                                    *)
ReaddressDeferred(r, next) ==
    /\ records[r] # NoRecord
    /\ LET old == records[r].env.target
       IN  SameButGeneration(old, next) /\ next # old
    /\ records[r].delivery.state = "held"
    /\ records[r].delivery.reason = "target-awaiting-resume"
    /\ ~records[r].handoff
    /\ records[r].env.deadline > now
    /\ Update(r, [records[r] EXCEPT !.env.target = next])

Tick ==
    /\ now < MaxTime
    /\ now' = now + 1
    /\ UNCHANGED <<records, history, attempts>>

-----------------------------------------------------------------------------
Init ==
    /\ records = [r \in Refs |-> NoRecord]
    /\ history = {}
    /\ attempts = [r \in Refs |-> {}]
    /\ now = 0

(* The send path puts every draft but a Claude Agent's reply, which goes    *)
(* through PutReply; a Codex process may use PutReply too.                  *)
SentDirectly(d) ==
    d.replyTo = NoRef \/ (IF d.operator THEN FALSE ELSE d.source.agent \notin Claude)

Next ==
    \/ \E d \in Drafts, at \in Readings : SentDirectly(d) /\ PutAccepted(d, at)
    \/ \E d \in Drafts, at \in Readings : d.replyTo = NoRef /\ PutDeferred(d, at)
    \/ \E d \in Drafts, at \in Readings : \E deadline \in ReplyDeadlines(d, at) :
          PutReply(d, at, deadline)
    \/ \E r \in Refs, o \in Outcomes, at \in Readings : Apply(r, o, at)
    \/ \E r \in Refs : MarkHandoff(r)
    \/ \E r \in Refs, at \in Readings : Status(r, at)
    \/ \E target \in Routes : Claim(target)
    \/ \E r \in Refs, next \in Routes : ReaddressDeferred(r, next)
    \/ Tick

Spec == Init /\ [][Next]_vars

-----------------------------------------------------------------------------
(* Properties. *)

(* Records, log lines, attempts and the clock have their types, a record is *)
(* stored under its own ref and satisfies validRecord, so a store this      *)
(* program wrote is one decodeState loads again.                            *)
TypeOK ==
    /\ records \in [Refs -> Record \cup {NoRecord}]
    /\ history \subseteq [ref : Refs, state : Terminal]
    /\ attempts \in [Refs -> SUBSET Refs]
    /\ now \in 0..MaxTime
    /\ \A r \in Stored(records) : ValidRecord(r, records[r])

(* The reply lane of PutReply: of all the replies ever committed against an *)
(* original that is still stored, at most one may have reached its target.  *)
(* Every other one is still on disk as evidence of a zero-byte failure.     *)
SingleReply ==
    \A o \in Stored(records) :
        \A a, b \in attempts[o] :
            \/ a = b
            \/ \E z \in {a, b} : z \in Stored(records) /\ KnownZero(records[z])

(* The file never grows past what decodeState accepts: a writer that got    *)
(* one record further would make the whole store unreadable.                *)
WithinCapacity == Cardinality(Stored(records)) <= MaxRecords

Leaving == {r \in Stored(records) : records'[r] = NoRecord}

(* Apply, Status, Claim, MarkHandoff and every prune: while a record stays  *)
(* stored its terminal receipt is final, its handoff mark is never taken    *)
(* back, a settled envelope never changes, and only the target generation   *)
(* of a resume hold without a handoff ever does.                            *)
KeepsReceipts ==
    \A r \in Stored(records) \ Leaving :
        LET old == records[r]
            new == records'[r]
        IN  /\ IsTerminal(old) => new = old
            /\ old.handoff => new.handoff
            /\ \/ new.env = old.env
               \/ /\ ~old.handoff
                  /\ old.delivery.reason = "target-awaiting-resume"
                  /\ new.env = [old.env EXCEPT !.target = new.env.target]
                  /\ SameButGeneration(old.env.target, new.env.target)
ReceiptsAreFinal == [][KeepsReceipts]_vars

(* writeLocked's order, crash included: a record that leaves the store is   *)
(* in the log, under the terminal state it already had or has just expired  *)
(* to.                                                                      *)
LogsLeaving ==
    \A r \in Leaving : \E line \in history' :
        /\ line.ref = r
        /\ IsTerminal(records[r]) => line.state = records[r].delivery.state
ReclaimIsLogged == [][LogsLeaving]_vars

(* pruneRecords: an attempt never leaves without its original, nor the      *)
(* original without its attempts, so no reload forgets a committed reply.   *)
LeavesTogether ==
    \A a \in Stored(records) :
        records[a].env.replyTo \in Stored(records) =>
            (a \in Leaving <=> records[a].env.replyTo \in Leaving)
ReplyGroupsLeaveTogether == [][LeavesTogether]_vars

(* pruneRecords takes a record only when its whole life is over: it is      *)
(* settled or overdue, and unless retention ran out the store was full.  An *)
(* answerable message is never taken while fewer than MaxProtected newer    *)
(* ones wait on the same Agent.                                             *)
ReclaimIsJustified ==
    \A r \in Leaving :
        /\ IsTerminal(records[r]) \/ records[r].env.deadline <= now
        /\ \/ Cardinality(Stored(records)) >= MaxRecords
           \/ IsTerminal(records[r]) /\ records[r].delivery.terminalAt + Retention < now
        /\ Answerable(records[r]) =>
              Cardinality({x \in Stored(records) :
                  /\ Answerable(records[x])
                  /\ records[x].env.target.agent = records[r].env.target.agent
                  /\ records[x].env.acceptedAt >= records[r].env.acceptedAt}) > MaxProtected
NoEarlyReclaim == [][ReclaimIsJustified]_vars
=============================================================================
