------------------------- MODULE MessageStoreProofs -------------------------
(***************************************************************************)
(* For every set of refs, routes and drafts and every capacity, retention  *)
(* and protection bound: the store stays well-formed, receipts are final,  *)
(* reply groups leave together, for a reason and with a line in the log,   *)
(* and an original has at most one reply that may have reached its target. *)
(*                                                                         *)
(* Every operation other than Tick commits one write.  The write is first  *)
(* reduced to four facts about it, whatever the operation: the records     *)
(* that leave form whole reply groups and are accounted for, every other   *)
(* stored record evolves, and a record that enters is well-formed.         *)
(***************************************************************************)
EXTENDS MessageStore, TLAPS, FiniteSetTheorems

(* How a record may change while it stays in the store. *)
Evolves(old, new) ==
    /\ new \in Record
    /\ ValidRecord(old.env.ref, new)
    /\ new.env.replyTo = old.env.replyTo
    /\ IsTerminal(old) => new = old
    /\ old.handoff => new.handoff
    /\ \/ new.env = old.env
       \/ /\ ~old.handoff
          /\ old.delivery.reason = "target-awaiting-resume"
          /\ new.env = [old.env EXCEPT !.target = new.env.target]
          /\ SameButGeneration(old.env.target, new.env.target)

(* The part of it that the delivery alone goes through. *)
Settles(old, new) ==
    /\ new \in Record
    /\ new.env = old.env /\ new.handoff = old.handoff
    /\ new.delivery.unknown => new.delivery.state = "failed"
    /\ ~IsTerminal(new) => new.delivery.terminalAt = 0
    /\ IsTerminal(old) => new = old

(* An event that settles or holds a valid record leaves a valid one. *)
LEMMA SettlesEvolves ==
    ASSUME NEW old \in Record, ValidRecord(old.env.ref, old), NEW new, Settles(old, new)
    PROVE  Evolves(old, new) /\ ValidRecord(new.env.ref, new)
  BY DEF Settles, Evolves, ValidRecord, IsClaude

(* Two events in a row settle a record as one does. *)
LEMMA SettlesTwice ==
    ASSUME NEW old, NEW mid, NEW new, Settles(old, mid), Settles(mid, new)
    PROVE  Settles(old, new)
  BY DEF Settles

(* Reduce: what an event can do to the delivery of a record. *)
LEMMA ReduceDelivery ==
    ASSUME NEW d \in Delivery, d.unknown => d.state = "failed",
           d.state \notin Terminal => d.terminalAt = 0,
           NEW e \in Envelope, NEW ev \in Event
    PROVE  /\ Reduce(d, e, ev) \in Delivery
           /\ Reduce(d, e, ev).state \notin Terminal => Reduce(d, e, ev).terminalAt = 0
           /\ Reduce(d, e, ev).unknown => Reduce(d, e, ev).state = "failed"
           /\ d.state \in Terminal => Reduce(d, e, ev) = d
  <1>. DEFINE settled == [state |-> OutcomeOf[ev.kind], reason |-> ev.reason,
                          unknown |-> ev.kind = "fail" /\ ev.unknown, terminalAt |-> ev.at]
              held == [d EXCEPT !.state = "held", !.reason = ev.reason]
  <1>1. d.state # "new"
    BY DEF Delivery, States, Terminal
  <1>2. \/ Reduce(d, e, ev) = d
        \/ /\ d.state \in {"accepted", "held"}
           /\ \/ ev.kind \in DOMAIN OutcomeOf /\ Reduce(d, e, ev) = settled
              \/ Reduce(d, e, ev) = held
    <2>1. CASE ~Admissible(d, e, ev)
      BY <2>1 DEF Reduce
    <2>2. CASE Admissible(d, e, ev) /\ ev.kind = "accept"
      BY <1>1, <2>2 DEF Reduce, OutcomeOf
    <2>3. CASE Admissible(d, e, ev) /\ ev.kind = "hold"
      BY <2>3 DEF Reduce, OutcomeOf
    <2>4. CASE Admissible(d, e, ev) /\ ev.kind \in DOMAIN OutcomeOf
      <3>1. ev.kind # "accept" /\ ev.kind # "hold"
        BY <2>4 DEF OutcomeOf
      <3>. QED BY <2>4, <3>1 DEF Reduce
    <2>. QED BY <2>1, <2>2, <2>3, <2>4 DEF Event, EventKinds
  <1>3. ASSUME ev.kind \in DOMAIN OutcomeOf
        PROVE  /\ settled \in Delivery /\ settled.state \in Terminal
               /\ settled.unknown => settled.state = "failed"
    <2>1. OutcomeOf[ev.kind] \in Terminal /\ (ev.kind = "fail" => OutcomeOf[ev.kind] = "failed")
      BY <1>3 DEF OutcomeOf, Terminal
    <2>2. (ev.kind = "fail" /\ ev.unknown) \in BOOLEAN /\ ev.reason \in Reasons /\ ev.at \in Nat
      BY DEF Event
    <2>3. settled \in Delivery
      BY <2>1, <2>2 DEF Delivery, States
    <2>. QED BY <2>1, <2>3
  <1>4. d.state \in {"accepted", "held"} => held \in Delivery /\ ~held.unknown /\ held.terminalAt = d.terminalAt
    BY DEF Delivery, Event, States
  <1>5. d.state \in {"accepted", "held"} => d.state \notin Terminal
    BY DEF Terminal
  <1>. QED BY <1>2, <1>3, <1>4, <1>5

(* Apply, Status, Claim and the ageing of pruneRecords: a reduced record    *)
(* keeps its envelope and its handoff.                                      *)
LEMMA ReducedSettles ==
    ASSUME NEW rec \in Record, ValidRecord(rec.env.ref, rec), NEW ev \in Event
    PROVE  Settles(rec, Reduced(rec, ev))
  <1>. DEFINE d == Reduce(rec.delivery, rec.env, ev)
  <1>1. rec.delivery \in Delivery /\ rec.env \in Envelope /\ rec.handoff \in BOOLEAN
    BY DEF Record
  <1>2. d \in Delivery /\ (d.unknown => d.state = "failed")
        /\ (d.state \notin Terminal => d.terminalAt = 0)
        /\ (rec.delivery.state \in Terminal => d = rec.delivery)
    BY <1>1, ReduceDelivery DEF ValidRecord, IsTerminal
  <1>3. Reduced(rec, ev) = [rec EXCEPT !.delivery = d]
    BY DEF Reduced
  <1>4. /\ Reduced(rec, ev) \in Record
        /\ Reduced(rec, ev).env = rec.env
        /\ Reduced(rec, ev).handoff = rec.handoff
        /\ Reduced(rec, ev).delivery = d
        /\ d = rec.delivery => Reduced(rec, ev) = rec
    BY <1>2, <1>3 DEF Record
  <1>. QED BY <1>2, <1>4 DEF Settles, IsTerminal

(* The events built for a stored record are events. *)
LEMMA EventType ==
    ASSUME NEW rec \in Record, NEW kind \in EventKinds, NEW reason \in Reasons,
           NEW unknown \in BOOLEAN, NEW at \in Nat
    PROVE  EventFor(rec, kind, reason, unknown, at) \in Event
  BY DEF EventFor, Event, Record, Envelope

(* So is the deadline event of a record. *)
LEMMA DeadlineEventType ==
    ASSUME NEW rec \in Record, NEW at \in Nat
    PROVE  DeadlineEvent(rec, at) \in Event
  <1>1. "fail" \in EventKinds /\ "expire" \in EventKinds /\ "other" \in Reasons
    BY DEF EventKinds, OutcomeOf, Reasons
  <1>. QED BY <1>1, EventType DEF DeadlineEvent

(* A record that changes nothing settles. *)
LEMMA StaysSettles ==
    ASSUME NEW rec \in Record, ValidRecord(rec.env.ref, rec)
    PROVE  Settles(rec, rec)
  BY DEF Settles, ValidRecord

(* Expired, the first loop of pruneRecords, only settles. *)
LEMMA ExpiredSettles ==
    ASSUME now \in Nat, NEW rec \in Record, ValidRecord(rec.env.ref, rec)
    PROVE  Settles(rec, Expired(rec))
  BY StaysSettles, ReducedSettles, DeadlineEventType DEF Expired

(* What TypeOK says of one stored record. *)
LEMMA StoredRecord ==
    ASSUME TypeOK, NEW r \in Stored(records)
    PROVE  /\ r \in Refs /\ records[r] \in Record
           /\ records[r].env.ref = r /\ ValidRecord(records[r].env.ref, records[r])
  BY DEF TypeOK, Stored, ValidRecord

(* The clock, and a reading of it, is a number. *)
LEMMA ClockType ==
    ASSUME TypeOK
    PROVE  now \in Nat /\ Readings \subseteq Nat
  BY StoreAssumption DEF TypeOK, Readings

(* The records an acceptance starts from, aged but not yet reclaimed. *)
LEMMA AgedEvolves ==
    ASSUME TypeOK
    PROVE  /\ Aged(records) \in [Refs -> Record \cup {NoRecord}]
           /\ Stored(Aged(records)) = Stored(records)
           /\ \A r \in Stored(records) : Evolves(records[r], Aged(records)[r])
  <1>1. now \in Nat
    BY ClockType
  <1>2. ASSUME NEW r \in Stored(records)
        PROVE  Evolves(records[r], Expired(records[r]))
    BY <1>1, StoredRecord, ExpiredSettles, SettlesEvolves
  <1>3. \A r \in Refs : Aged(records)[r] =
           IF records[r] = NoRecord THEN NoRecord ELSE Expired(records[r])
    BY DEF Aged
  <1>4. \A r \in Stored(records) : Expired(records[r]) \in Record
    BY <1>2 DEF Evolves
  <1>5. \A r \in Refs : records[r] # NoRecord <=> Aged(records)[r] # NoRecord
    BY <1>3, <1>4, NoRecordAssumption DEF Stored
  <1>6. Aged(records) \in [Refs -> Record \cup {NoRecord}]
    BY <1>4 DEF Aged, Stored
  <1>. QED BY <1>2, <1>3, <1>5, <1>6 DEF Stored

(* NewRecord is well-formed, has not been handed off and is not settled. *)
LEMMA NewRecordValid ==
    ASSUME NEW env \in Envelope, Validate(env), NEW deferred \in BOOLEAN
    PROVE  /\ NewRecord(env, deferred) \in Record
           /\ NewRecord(env, deferred).env = env
           /\ ValidRecord(env.ref, NewRecord(env, deferred))
  <1>. DEFINE fresh == [env |-> env, delivery |-> ZeroDelivery, handoff |-> FALSE]
              accept == EventFor(fresh, "accept", "none", FALSE, env.acceptedAt)
              accepted == [env |-> env, delivery |-> [ZeroDelivery EXCEPT !.state = "accepted"],
                           handoff |-> FALSE]
              hold == EventFor(accepted, "hold", "target-awaiting-resume", FALSE, env.acceptedAt)
  <1>1. Admissible(fresh.delivery, env, accept)
    BY DEF Admissible, EventFor, ZeroDelivery, Terminal, Envelope
  <1>2. Reduced(fresh, accept) = accepted
    <2>1. accept.kind = "accept" /\ fresh.delivery.state = "new"
      BY DEF EventFor, ZeroDelivery
    <2>2. Reduce(fresh.delivery, env, accept) = [ZeroDelivery EXCEPT !.state = "accepted"]
      BY <1>1, <2>1 DEF Reduce, OutcomeOf
    <2>3. Reduced(fresh, accept) =
             [fresh EXCEPT !.delivery = Reduce(fresh.delivery, fresh.env, accept)]
      BY DEF Reduced
    <2>. HIDE DEF accept
    <2>. QED BY <2>2, <2>3
  <1>3. accepted \in Record /\ ValidRecord(env.ref, accepted)
    BY DEF Record, Delivery, ZeroDelivery, States, Reasons, ValidRecord
  <1>4. hold \in Event
    BY <1>3, EventType DEF EventKinds, Reasons, Envelope
  <1>5. Evolves(accepted, Reduced(accepted, hold)) /\ Reduced(accepted, hold).env = env
    <2>1. Settles(accepted, Reduced(accepted, hold))
      BY <1>3, <1>4, ReducedSettles
    <2>. QED BY <1>3, <2>1, SettlesEvolves DEF Settles
  <1>6. NewRecord(env, deferred) = IF deferred THEN Reduced(accepted, hold) ELSE accepted
    BY <1>2 DEF NewRecord
  <1>7. accepted.env = env
    OBVIOUS
  <1>. HIDE DEF accepted, hold
  <1>. QED BY <1>3, <1>5, <1>6, <1>7 DEF Evolves

-----------------------------------------------------------------------------
(* Reclaiming. *)

(* replyRecordGroups: no stored reply edge leaves a group. *)
LEMMA GroupClosed ==
    ASSUME NEW recs, NEW r
    PROVE  ClosedUnderReplies(recs, Group(recs, r)) /\ Group(recs, r) \subseteq Stored(recs)
  BY DEF ClosedUnderReplies, Group

(* pruneRecords takes whole groups of settled records, and none the caller  *)
(* pinned.                                                                  *)
LEMMA ReclaimsGroups ==
    ASSUME NEW recs, NEW pinned, NEW gone \in Reclaims(recs, pinned)
    PROVE  /\ gone \subseteq Stored(recs)
           /\ gone \cap pinned = {}
           /\ \A r \in gone : IsTerminal(recs[r])
           /\ ClosedUnderReplies(recs, gone)
  <1>. DEFINE removable == {g \in Groups(recs) : Removable(recs, Protected(recs, pinned), g)}
              old == {g \in removable : PastRetention(recs, g)}
  <1>1. PICK C \in SUBSET (removable \ old) : gone = UNION (old \cup C)
    BY DEF Reclaims
  <1>2. PICK G \in SUBSET removable : gone = UNION G
    BY <1>1
  <1>3. \A g \in G : g \subseteq Stored(recs) /\ ClosedUnderReplies(recs, g)
    BY GroupClosed DEF Groups
  <1>4. \A g \in G : \A r \in g : r \notin pinned /\ IsTerminal(recs[r])
    BY DEF Removable, Protected
  <1>5. ClosedUnderReplies(recs, gone)
    BY <1>2, <1>3 DEF ClosedUnderReplies
  <1>. QED BY <1>2, <1>3, <1>4, <1>5

(* Why a record may leave, as ReclaimIsJustified says it of one that does. *)
Justified(r) ==
    /\ IsTerminal(records[r]) \/ records[r].env.deadline <= now
    /\ \/ Cardinality(Stored(records)) >= MaxRecords
       \/ IsTerminal(records[r]) /\ records[r].delivery.terminalAt + Retention < now
    /\ Answerable(records[r]) =>
          Cardinality({x \in Stored(records) :
              /\ Answerable(records[x])
              /\ records[x].env.target.agent = records[r].env.target.agent
              /\ records[x].env.acceptedAt >= records[r].env.acceptedAt}) > MaxProtected

(* The line a record leaves in the log. *)
Logged(r, log) ==
    \E line \in log :
        /\ line.ref = r
        /\ IsTerminal(records[r]) => line.state = records[r].delivery.state

(* Every record in gone may leave, and the log tells of it. *)
Accounts(gone, log) == \A r \in gone : Justified(r) /\ Logged(r, log)

(* Reduce stamps a delivery that it settles with the time of the event. *)
LEMMA SettledAt ==
    ASSUME NEW d \in Delivery, d.state \notin Terminal, NEW e, NEW ev \in Event,
           Reduce(d, e, ev).state \in Terminal
    PROVE  Reduce(d, e, ev).terminalAt = ev.at
  <1>. DEFINE settled == [state |-> OutcomeOf[ev.kind], reason |-> ev.reason,
                          unknown |-> ev.kind = "fail" /\ ev.unknown, terminalAt |-> ev.at]
              held == [d EXCEPT !.state = "held", !.reason = ev.reason]
              accepted == [ZeroDelivery EXCEPT !.state = "accepted"]
  <1>1. Reduce(d, e, ev) \in {d, accepted, settled} \/ (d.state = "accepted" /\ Reduce(d, e, ev) = held)
    <2>1. CASE ~Admissible(d, e, ev)
      BY <2>1 DEF Reduce
    <2>2. CASE Admissible(d, e, ev) /\ ev.kind = "accept"
      BY <2>2 DEF Reduce, OutcomeOf
    <2>3. CASE Admissible(d, e, ev) /\ ev.kind = "hold"
      BY <2>3 DEF Reduce, OutcomeOf
    <2>4. CASE Admissible(d, e, ev) /\ ev.kind \in DOMAIN OutcomeOf
      <3>1. ev.kind # "accept" /\ ev.kind # "hold"
        BY <2>4 DEF OutcomeOf
      <3>. QED BY <2>4, <3>1 DEF Reduce
    <2>. QED BY <2>1, <2>2, <2>3, <2>4 DEF Event, EventKinds
  <1>2. held.state = "held" /\ accepted.state = "accepted" /\ settled.terminalAt = ev.at
    BY DEF Delivery, ZeroDelivery
  <1>. HIDE DEF held, accepted, settled
  <1>. QED BY <1>1, <1>2 DEF Terminal

(* What the ageing of pruneRecords does to one record: a record with time   *)
(* left or a receipt is as it was, and one that it settles it settles now.  *)
LEMMA AgedRecord ==
    ASSUME TypeOK, NEW r \in Stored(records)
    PROVE  /\ Aged(records)[r].env = records[r].env
           /\ IsTerminal(records[r]) \/ records[r].env.deadline > now => Aged(records)[r] = records[r]
           /\ ~IsTerminal(records[r]) /\ IsTerminal(Aged(records)[r]) =>
                 records[r].env.deadline <= now /\ Aged(records)[r].delivery.terminalAt = now
  <1>1. now \in Nat /\ r \in Refs /\ records[r] # NoRecord
    BY ClockType DEF Stored
  <1>2. records[r] \in Record /\ ValidRecord(records[r].env.ref, records[r])
    BY StoredRecord
  <1>3. Aged(records)[r] = Expired(records[r])
    BY <1>1 DEF Aged
  <1>4. Settles(records[r], Expired(records[r]))
    BY <1>1, <1>2, ExpiredSettles
  <1>5. IsTerminal(records[r]) \/ records[r].env.deadline > now => Expired(records[r]) = records[r]
    BY DEF Expired
  <1>6. ASSUME ~IsTerminal(records[r]), IsTerminal(Expired(records[r]))
        PROVE  records[r].env.deadline <= now /\ Expired(records[r]).delivery.terminalAt = now
    <2>. DEFINE ev == DeadlineEvent(records[r], now)
                d == Reduce(records[r].delivery, records[r].env, ev)
    <2>1. ~(records[r].env.deadline > now)
      BY <1>5, <1>6
    <2>2. Expired(records[r]) = [records[r] EXCEPT !.delivery = d]
      BY <1>6, <2>1 DEF Expired, Reduced
    <2>3. Expired(records[r]).delivery = d
      BY <1>2, <2>2 DEF Record
    <2>4. ev \in Event /\ ev.at = now
      BY <1>1, <1>2, DeadlineEventType DEF DeadlineEvent, EventFor
    <2>5. records[r].delivery \in Delivery /\ records[r].env.deadline \in Nat
      BY <1>2 DEF Record, Envelope
    <2>. HIDE DEF ev
    <2>6. d.terminalAt = now
      BY <1>6, <2>3, <2>4, <2>5, SettledAt DEF IsTerminal
    <2>. QED BY <1>1, <2>1, <2>3, <2>5, <2>6
  <1>. QED BY <1>3, <1>4, <1>5, <1>6 DEF Settles

(* The ageing makes no message answerable, and none that is unanswerable. *)
LEMMA AgedAnswerable ==
    ASSUME TypeOK, NEW r \in Stored(records)
    PROVE  /\ Answerable(Aged(records)[r]) <=> Answerable(records[r])
           /\ Answerable(records[r]) => Aged(records)[r] = records[r]
  BY AgedRecord DEF Answerable

(* pruneRecords reclaims outside the retention only when the store is full. *)
LEMMA ReclaimsWhenFull ==
    ASSUME NEW recs, NEW pinned, NEW gone \in Reclaims(recs, pinned), NEW r \in gone
    PROVE  \/ recs[r].delivery.terminalAt + Retention < now
           \/ Cardinality(Stored(recs)) >= MaxRecords
  <1>. DEFINE removable == {g \in Groups(recs) : Removable(recs, Protected(recs, pinned), g)}
              old == {g \in removable : PastRetention(recs, g)}
  <1>1. PICK C \in SUBSET (removable \ old) :
           gone = UNION (old \cup C) /\ CapacityRun(recs, old, removable \ old, C)
    BY DEF Reclaims
  <1>2. PICK g \in old \cup C : r \in g
    BY <1>1
  <1>3. CASE g \in old
    BY <1>2, <1>3 DEF PastRetention
  <1>4. CASE g \in C
    <2>1. PICK S : ~HasRoom(recs, S)
      BY <1>1, <1>4 DEF CapacityRun
    <2>2. Stored(recs) \subseteq Refs /\ Stored(recs) \ S \subseteq Stored(recs)
      BY DEF Stored
    <2>3. IsFiniteSet(Stored(recs))
      BY <2>2, StoreAssumption, FS_Subset
    <2>4. /\ Cardinality(Stored(recs) \ S) <= Cardinality(Stored(recs))
          /\ Cardinality(Stored(recs) \ S) \in Nat /\ Cardinality(Stored(recs)) \in Nat
      BY <2>2, <2>3, FS_Subset, FS_CardinalityType
    <2>. QED BY <2>1, <2>4, StoreAssumption DEF HasRoom
  <1>. QED BY <1>2, <1>3, <1>4

(* replyProtectedRecords: an answerable message that is not protected has   *)
(* MaxProtected others before it, none of them older.                       *)
LEMMA UnprotectedHasNewer ==
    ASSUME TypeOK, NEW r \in Stored(records), Answerable(records[r]),
           NEW pinned, r \notin Protected(Aged(records), pinned)
    PROVE  Cardinality({x \in Stored(records) :
               /\ Answerable(records[x])
               /\ records[x].env.target.agent = records[r].env.target.agent
               /\ records[x].env.acceptedAt >= records[r].env.acceptedAt}) > MaxProtected
  <1>. DEFINE aged == Aged(records)
              before == {x \in Stored(aged) :
                            /\ Answerable(aged[x])
                            /\ aged[x].env.target.agent = aged[r].env.target.agent
                            /\ Precedes(aged[x], aged[r])}
              newer == {x \in Stored(records) :
                            /\ Answerable(records[x])
                            /\ records[x].env.target.agent = records[r].env.target.agent
                            /\ records[x].env.acceptedAt >= records[r].env.acceptedAt}
  <1>1. Stored(aged) = Stored(records)
    BY AgedEvolves
  <1>2. \A x \in Stored(records) :
           /\ Answerable(aged[x]) <=> Answerable(records[x])
           /\ Answerable(records[x]) => aged[x] = records[x]
    BY AgedAnswerable
  <1>3. \A x \in Stored(records) :
           records[x].env.acceptedAt \in Nat /\ records[x].env.ref = x /\ x \in Nat
    BY StoredRecord, RefsAssumption DEF Record, Envelope
  <1>4. ~(Cardinality(before) < MaxProtected)
    BY <1>1, <1>2 DEF Protected
  <1>5. before \cup {r} \in SUBSET newer /\ r \notin before
    BY <1>1, <1>2, <1>3 DEF Precedes
  <1>6. newer \subseteq Refs
    BY DEF Stored
  <1>. HIDE DEF before, newer, aged
  <1>7. IsFiniteSet(newer) /\ IsFiniteSet(before)
    BY <1>5, <1>6, StoreAssumption, FS_Subset
  <1>8. Cardinality(before \cup {r}) = Cardinality(before) + 1
    BY <1>5, <1>7, FS_AddElement
  <1>9. /\ Cardinality(before \cup {r}) <= Cardinality(newer)
        /\ Cardinality(before) \in Nat /\ Cardinality(newer) \in Nat
    BY <1>5, <1>7, FS_Subset, FS_CardinalityType
  <1>10. Cardinality(newer) > MaxProtected
    BY <1>4, <1>8, <1>9, StoreAssumption
  <1>. QED BY <1>10 DEF newer

(* The whole of pruneRecords: what it reclaims may leave and is in the      *)
(* lines it hands to the log.                                               *)
LEMMA ReclaimsAccounted ==
    ASSUME TypeOK, NEW pinned, NEW gone \in Reclaims(Aged(records), pinned)
    PROVE  Accounts(gone, HistoryLines(Aged(records), gone))
  <1>. DEFINE aged == Aged(records)
              lines == HistoryLines(aged, gone)
  <1>. SUFFICES ASSUME NEW r \in gone PROVE Justified(r) /\ Logged(r, lines)
    BY DEF Accounts
  <1>1. Stored(aged) = Stored(records)
    BY AgedEvolves
  <1>2. r \in Stored(records) /\ IsTerminal(aged[r])
    BY <1>1, ReclaimsGroups
  <1>3. /\ IsTerminal(records[r]) \/ records[r].env.deadline > now => aged[r] = records[r]
        /\ ~IsTerminal(records[r]) => records[r].env.deadline <= now
                                      /\ aged[r].delivery.terminalAt = now
    BY <1>2, AgedRecord
  <1>4. \/ aged[r].delivery.terminalAt + Retention < now
        \/ Cardinality(Stored(records)) >= MaxRecords
    BY <1>1, ReclaimsWhenFull
  <1>5. \/ Cardinality(Stored(records)) >= MaxRecords
        \/ IsTerminal(records[r]) /\ records[r].delivery.terminalAt + Retention < now
    BY <1>3, <1>4, ClockType, StoreAssumption
  <1>6. r \notin Protected(aged, pinned)
    BY DEF Reclaims, Removable
  <1>7. Justified(r)
    BY <1>2, <1>3, <1>5, <1>6, UnprotectedHasNewer DEF Justified
  <1>8. [ref |-> r, state |-> aged[r].delivery.state] \in lines
    BY DEF HistoryLines
  <1>9. Logged(r, lines)
    BY <1>3, <1>8 DEF Logged
  <1>. QED BY <1>7, <1>9

-----------------------------------------------------------------------------
(* Writing. *)

(* A change of the store file: gone leaves in whole groups, every other     *)
(* stored record evolves, and what enters is well-formed and has room.      *)
Changes(next, gone) ==
    /\ next \in [Refs -> Record \cup {NoRecord}]
    /\ gone \subseteq Stored(records)
    /\ ClosedUnderReplies(records, gone)
    /\ \A r \in gone : next[r] = NoRecord
    /\ \A r \in Stored(records) \ gone : Evolves(records[r], next[r])
    /\ \A r \in Stored(next) \ Stored(records) : ValidRecord(r, next[r])
    /\ \/ Stored(next) \subseteq Stored(records)
       \/ Cardinality(Stored(next)) <= MaxRecords

Kept(next, replies) == [r \in Refs |-> IF next[r] = NoRecord THEN {} ELSE replies[r]]

(* The reply a commits against o: every earlier attempt proved to be zero. *)
CommitsReply(next, o, a) ==
    /\ o \in Stored(records) /\ a \in Stored(next) \ Stored(records)
    /\ next[a].env.replyTo = o
    /\ \A x \in AttemptsFor(records, o) : KnownZero(records[x])

(* What every operation does to the store and to the reply lane. *)
StoreStep ==
    /\ now' = now
    /\ history' \subseteq [ref : Refs, state : Terminal]
    /\ \/ UNCHANGED <<records, attempts>>
       \/ \E gone \in SUBSET Stored(records) :
             /\ Changes(records', gone)
             /\ Accounts(gone, history')
             /\ \/ attempts' = Kept(records', attempts)
                \/ \E o, a \in Refs :
                      /\ CommitsReply(records', o, a)
                      /\ attempts' = Kept(records', [attempts EXCEPT ![o] = @ \cup {a}])

(* The log only grows. *)
LEMMA LogGrows ==
    ASSUME NEW gone, NEW lines, Accounts(gone, lines)
    PROVE  Accounts(gone, history \cup lines)
  BY DEF Accounts, Logged

(* Nothing that leaves needs no reason. *)
LEMMA NothingLeaves ==
    ASSUME NEW log
    PROVE  Accounts({}, log)
  BY DEF Accounts

(* Write, crash included, with the changes of one operation. *)
LEMMA WriteSteps ==
    ASSUME TypeOK, NEW next, NEW gone, Changes(next, gone),
           NEW lines \in SUBSET [ref : Refs, state : Terminal], Accounts(gone, lines),
           Write(next, lines, attempts)
    PROVE  StoreStep
  <1>1. Accounts(gone, history')
    BY LogGrows DEF Write
  <1>. QED BY <1>1 DEF Write, StoreStep, Kept, Changes, TypeOK

(* One record evolves, nothing leaves. *)
LEMMA UpdateSteps ==
    ASSUME TypeOK, NEW r \in Stored(records), NEW rec, Evolves(records[r], rec),
           Update(r, rec)
    PROVE  StoreStep
  <1>. DEFINE next == [records EXCEPT ![r] = rec]
  <1>1. rec \in Record /\ rec # NoRecord
    BY NoRecordAssumption DEF Evolves
  <1>2. next \in [Refs -> Record \cup {NoRecord}]
    BY <1>1 DEF TypeOK
  <1>3. \A x \in Refs : next[x] = IF x = r THEN rec ELSE records[x]
    BY DEF TypeOK
  <1>4. Stored(next) = Stored(records)
    BY <1>1, <1>3 DEF Stored
  <1>5. \A x \in Stored(records) : Evolves(records[x], next[x])
    <2>1. \A x \in Stored(records) : Evolves(records[x], records[x])
      BY StoredRecord, StaysSettles, SettlesEvolves
    <2>. QED BY <1>3, <2>1 DEF Stored
  <1>6. Changes(next, {})
    BY <1>2, <1>4, <1>5 DEF Changes, ClosedUnderReplies
  <1>7. Write(next, {}, attempts)
    BY DEF Update
  <1>. HIDE DEF next
  <1>. QED BY <1>6, <1>7, WriteSteps, NothingLeaves

(* The tail of putAccepted and PutReply: base is aged, or as it was. *)
LEMMA EntersChanges ==
    ASSUME TypeOK,
           NEW base \in [Refs -> Record \cup {NoRecord}],
           Stored(base) = Stored(records),
           \A r \in Stored(records) : Evolves(records[r], base[r]),
           NEW gone, gone \subseteq Stored(base), ClosedUnderReplies(base, gone),
           \A r \in gone : IsTerminal(base[r]), HasRoom(base, gone),
           NEW ref \in Refs, records[ref] = NoRecord,
           NEW rec \in Record, ValidRecord(ref, rec)
    PROVE  /\ Changes([Without(base, gone) EXCEPT ![ref] = rec], gone)
           /\ HistoryLines(base, gone) \in SUBSET [ref : Refs, state : Terminal]
           /\ [Without(base, gone) EXCEPT ![ref] = rec][ref] = rec
  <1>. DEFINE next == [Without(base, gone) EXCEPT ![ref] = rec]
  <1>1. \A x \in Refs : next[x] = IF x = ref THEN rec ELSE IF x \in gone THEN NoRecord ELSE base[x]
    BY DEF Without
  <1>2. next \in [Refs -> Record \cup {NoRecord}]
    BY DEF Without
  <1>3. ref \notin Stored(records)
    BY DEF Stored
  <1>4. ClosedUnderReplies(records, gone)
    <2>1. \A r \in Stored(records) : base[r].env.replyTo = records[r].env.replyTo
      BY DEF Evolves
    <2>. QED BY <2>1 DEF ClosedUnderReplies
  <1>5. \A r \in gone : next[r] = NoRecord
    BY <1>1, <1>3 DEF Stored
  <1>6. \A r \in Stored(records) \ gone : Evolves(records[r], next[r])
    BY <1>1, <1>3 DEF Stored
  <1>7. \A r \in Stored(next) \ Stored(records) : r = ref /\ next[r] = rec
    BY <1>1 DEF Stored
  <1>8. HistoryLines(base, gone) \in SUBSET [ref : Refs, state : Terminal]
    BY DEF HistoryLines, IsTerminal, Stored
  <1>9. next[ref] = rec
    BY <1>1
  <1>10. Cardinality(Stored(next)) <= MaxRecords
    <2>. DEFINE rest == Stored(base) \ gone
    <2>1. IsFiniteSet(rest) /\ Cardinality(rest) \in Nat
      <3>1. rest \subseteq Refs
        BY DEF Stored
      <3>. QED BY <3>1, StoreAssumption, FS_Subset, FS_CardinalityType
    <2>2. Stored(next) = rest \cup {ref}
      BY <1>1, NoRecordAssumption DEF Stored
    <2>3. ref \notin rest
      BY <1>3
    <2>4. Cardinality(rest) < MaxRecords
      BY DEF HasRoom
    <2>. HIDE DEF rest, next
    <2>5. Cardinality(Stored(next)) = Cardinality(rest) + 1
      BY <2>1, <2>2, <2>3, FS_AddElement
    <2>. QED BY <2>1, <2>4, <2>5, StoreAssumption
  <1>. HIDE DEF next
  <1>11. Changes(next, gone)
    BY <1>2, <1>4, <1>5, <1>6, <1>7, <1>10 DEF Changes
  <1>. QED BY <1>8, <1>9, <1>11 DEF next

-----------------------------------------------------------------------------
(* One lemma per operation. *)

(* An accepted draft is an envelope. *)
LEMMA EnvelopeType ==
    ASSUME NEW d \in Drafts, NEW conv \in Refs, NEW at \in Nat, NEW deadline \in Nat
    PROVE  /\ EnvelopeOf(d, conv, at, deadline) \in Envelope
           /\ EnvelopeOf(d, conv, at, deadline).ref = d.ref
           /\ EnvelopeOf(d, conv, at, deadline).replyTo = d.replyTo
           /\ d.ref \in Refs /\ d.conv \in Refs /\ d.ttl \in Nat
  BY DraftsAssumption DEF EnvelopeOf, Envelope

(* putAccepted: whole groups leave and a valid record enters. *)
LEMMA AcceptSteps ==
    ASSUME TypeOK, NEW d \in Drafts, NEW at \in Readings, NEW deferred \in BOOLEAN,
           Accept(d, at, deferred)
    PROVE  StoreStep
  <1>. DEFINE env == EnvelopeOf(d, d.conv, at, at + d.ttl)
              aged == Aged(records)
              rec == NewRecord(env, deferred)
  <1>1. d.ref \in Refs /\ d.conv \in Refs /\ at \in Nat /\ at + d.ttl \in Nat
    BY ClockType, DraftsAssumption
  <1>2. env \in Envelope /\ env.ref = d.ref /\ Validate(env) /\ records[d.ref] = NoRecord
    BY <1>1, EnvelopeType DEF Accept
  <1>3. rec \in Record /\ ValidRecord(d.ref, rec)
    BY <1>2, NewRecordValid
  <1>4. PICK gone \in Reclaims(aged, {}) :
           /\ HasRoom(aged, gone)
           /\ Write([Without(aged, gone) EXCEPT ![d.ref] = rec], HistoryLines(aged, gone), attempts)
    BY DEF Accept
  <1>5. /\ gone \subseteq Stored(aged) /\ ClosedUnderReplies(aged, gone)
        /\ \A r \in gone : IsTerminal(aged[r])
    BY ReclaimsGroups
  <1>6. /\ aged \in [Refs -> Record \cup {NoRecord}] /\ Stored(aged) = Stored(records)
        /\ \A r \in Stored(records) : Evolves(records[r], aged[r])
    BY AgedEvolves
  <1>7. Accounts(gone, HistoryLines(aged, gone))
    BY ReclaimsAccounted
  <1>. HIDE DEF env, aged, rec
  <1>8. /\ Changes([Without(aged, gone) EXCEPT ![d.ref] = rec], gone)
        /\ HistoryLines(aged, gone) \in SUBSET [ref : Refs, state : Terminal]
    BY <1>1, <1>2, <1>3, <1>4, <1>5, <1>6, EntersChanges
  <1>. QED BY <1>4, <1>7, <1>8, WriteSteps

(* PutReply: the same, and the attempt joins its original's lane. *)
LEMMA PutReplySteps ==
    ASSUME TypeOK, NEW d \in Drafts, NEW at \in Readings, NEW deadline \in ReplyDeadlines(d, at),
           PutReply(d, at, deadline)
    PROVE  StoreStep
  <1>. DEFINE o == d.replyTo
              env == EnvelopeOf(d, records[o].env.conv, at, deadline)
              first == AttemptsFor(records, o) = {}
              base == IF first THEN Aged(records) ELSE records
              rec == NewRecord(env, FALSE)
  <1>1. o \in Stored(records) /\ o \in Refs /\ records[o] \in Record
    BY StoredRecord DEF PutReply
  <1>2. at \in Nat /\ deadline \in Nat /\ records[o].env.conv \in Refs /\ d.ref \in Refs
    <2>1. records[o].env.conv \in Refs
      BY <1>1 DEF Record, Envelope
    <2>2. \A x \in Stored(records) : records[x].env.deadline \in Nat
      BY StoredRecord DEF Record, Envelope
    <2>. QED BY <2>1, <2>2, ClockType, DraftsAssumption DEF ReplyDeadlines
  <1>3. env \in Envelope /\ env.ref = d.ref /\ env.replyTo = o
    BY <1>2, EnvelopeType
  <1>4. ReplyAllowed(o, env)
    BY DEF PutReply
  <1>5. /\ Validate(env) /\ records[d.ref] = NoRecord
        /\ \A x \in AttemptsFor(records, o) : KnownZero(records[x])
    BY <1>3, <1>4 DEF ReplyAllowed, ValidateReply
  <1>6. rec \in Record /\ rec.env = env /\ ValidRecord(d.ref, rec)
    BY <1>3, <1>5, NewRecordValid
  <1>7. PICK gone \in (IF first THEN Reclaims(base, {o}) ELSE {{}}) :
           /\ HasRoom(base, gone)
           /\ Write([Without(base, gone) EXCEPT ![d.ref] = rec], HistoryLines(base, gone),
                    [attempts EXCEPT ![o] = @ \cup {d.ref}])
    BY DEF PutReply
  <1>8. /\ gone \subseteq Stored(base) /\ ClosedUnderReplies(base, gone)
        /\ \A r \in gone : IsTerminal(base[r])
    <2>1. CASE first
      BY <1>7, <2>1, ReclaimsGroups
    <2>2. CASE ~first
      BY <1>7, <2>2 DEF ClosedUnderReplies
    <2>. QED BY <2>1, <2>2
  <1>9. /\ base \in [Refs -> Record \cup {NoRecord}] /\ Stored(base) = Stored(records)
        /\ \A r \in Stored(records) : Evolves(records[r], base[r])
    <2>1. \A x \in Stored(records) : Evolves(records[x], records[x])
      BY StoredRecord, StaysSettles, SettlesEvolves
    <2>. QED BY <2>1, AgedEvolves DEF TypeOK
  <1>10. Accounts(gone, HistoryLines(base, gone))
    <2>1. CASE first
      BY <1>7, <2>1, ReclaimsAccounted
    <2>2. CASE ~first
      BY <1>7, <2>2, NothingLeaves
    <2>. QED BY <2>1, <2>2
  <1>. DEFINE next == [Without(base, gone) EXCEPT ![d.ref] = rec]
  <1>. HIDE DEF env, base, rec, first
  <1>11. /\ Changes(next, gone) /\ next[d.ref] = rec
         /\ HistoryLines(base, gone) \in SUBSET [ref : Refs, state : Terminal]
    BY <1>2, <1>5, <1>6, <1>7, <1>8, <1>9, EntersChanges
  <1>. HIDE DEF next
  <1>12. CommitsReply(next, o, d.ref)
    <2>1. d.ref \in Stored(next) \ Stored(records)
      BY <1>2, <1>5, <1>6, <1>11, NoRecordAssumption DEF Stored
    <2>. QED BY <1>1, <1>3, <1>5, <1>6, <1>11, <2>1 DEF CommitsReply
  <1>13. Write(next, HistoryLines(base, gone), [attempts EXCEPT ![o] = @ \cup {d.ref}])
    BY <1>7 DEF next
  <1>14. Accounts(gone, history')
    BY <1>13, <1>10, LogGrows DEF Write
  <1>15. /\ now' = now /\ history' \subseteq [ref : Refs, state : Terminal]
         /\ \/ UNCHANGED <<records, attempts>>
            \/ records' = next /\ attempts' = Kept(next, [attempts EXCEPT ![o] = @ \cup {d.ref}])
    BY <1>11, <1>13 DEF Write, Kept, TypeOK
  <1>. QED BY <1>1, <1>2, <1>11, <1>12, <1>15, <1>14 DEF StoreStep, Changes

(* Apply changes one record by one event. *)
LEMMA ApplySteps ==
    ASSUME TypeOK, NEW r \in Refs, NEW o \in Outcomes, NEW at \in Readings, Apply(r, o, at)
    PROVE  StoreStep
  <1>. DEFINE ev == EventFor(records[r], o.kind, o.reason, o.unknown, at)
  <1>1. r \in Stored(records)
    BY DEF Apply, Stored
  <1>2. o.kind \in EventKinds /\ o.reason \in Reasons /\ o.unknown \in BOOLEAN /\ at \in Nat
    BY OutcomesAssumption, ClockType DEF EventKinds
  <1>3. ev \in Event
    BY <1>1, <1>2, StoredRecord, EventType
  <1>4. Evolves(records[r], Reduced(records[r], ev))
    BY <1>1, <1>3, StoredRecord, ReducedSettles, SettlesEvolves
  <1>. QED BY <1>1, <1>4, UpdateSteps DEF Apply

(* MarkHandoff sets the mark of a Claude record and nothing else. *)
LEMMA MarkHandoffSteps ==
    ASSUME TypeOK, NEW r \in Refs, MarkHandoff(r)
    PROVE  StoreStep
  <1>1. r \in Stored(records)
    BY DEF MarkHandoff, Stored
  <1>2. Evolves(records[r], [records[r] EXCEPT !.handoff = TRUE])
    <2>. DEFINE rec == [records[r] EXCEPT !.handoff = TRUE]
    <2>1. records[r] \in Record /\ ValidRecord(records[r].env.ref, records[r])
      BY <1>1, StoredRecord
    <2>2. /\ rec \in Record /\ rec.env = records[r].env
          /\ rec.delivery = records[r].delivery /\ rec.handoff
      BY <2>1 DEF Record
    <2>3. IsClaude(records[r]) /\ ~IsTerminal(records[r])
      BY DEF MarkHandoff
    <2>. HIDE DEF rec
    <2>4. Evolves(records[r], rec)
      BY <2>1, <2>2, <2>3 DEF Evolves, ValidRecord, IsClaude
    <2>. QED BY <2>4 DEF rec
  <1>. QED BY <1>1, <1>2, UpdateSteps DEF MarkHandoff

(* Status settles one overdue record. *)
LEMMA StatusSteps ==
    ASSUME TypeOK, NEW r \in Refs, NEW at \in Readings, Status(r, at)
    PROVE  StoreStep
  <1>1. r \in Stored(records) /\ at \in Nat
    BY ClockType DEF Status, Stored
  <1>2. PICK seen \in {records[r], [records[r] EXCEPT !.handoff = FALSE]} :
           Update(r, Reduced(records[r], DeadlineEvent(seen, at)))
    BY DEF Status
  <1>3. seen \in Record
    <2>1. records[r] \in Record
      BY <1>1, StoredRecord
    <2>2. [records[r] EXCEPT !.handoff = FALSE] \in Record
      BY <2>1 DEF Record
    <2>. QED BY <2>1, <2>2
  <1>4. Evolves(records[r], Reduced(records[r], DeadlineEvent(seen, at)))
    BY <1>1, <1>3, StoredRecord, DeadlineEventType, ReducedSettles, SettlesEvolves
  <1>. QED BY <1>1, <1>2, <1>4, UpdateSteps

(* ReaddressDeferred moves the generation of a resume hold. *)
LEMMA ReaddressSteps ==
    ASSUME TypeOK, NEW r \in Refs, NEW next \in Routes, ReaddressDeferred(r, next)
    PROVE  StoreStep
  <1>. DEFINE rec == [records[r] EXCEPT !.env.target = next]
  <1>1. r \in Stored(records)
    BY DEF ReaddressDeferred, Stored
  <1>2. records[r] \in Record /\ ValidRecord(records[r].env.ref, records[r])
    BY <1>1, StoredRecord
  <1>3. /\ rec.env = [records[r].env EXCEPT !.target = next]
        /\ rec.env.target = next /\ rec \in Record
        /\ rec.handoff = records[r].handoff /\ rec.delivery = records[r].delivery
    BY <1>2 DEF Record, Envelope
  <1>4. ValidRecord(records[r].env.ref, rec) /\ rec.env.replyTo = records[r].env.replyTo
    BY <1>2, <1>3 DEF ValidRecord, Validate, ReaddressDeferred, SameButGeneration,
                      IsClaude, IsTerminal, Record, Envelope
  <1>5. ~IsTerminal(records[r]) /\ ~records[r].handoff
    BY DEF ReaddressDeferred, IsTerminal, Terminal
  <1>6. Evolves(records[r], rec)
    BY <1>3, <1>4, <1>5 DEF Evolves, ReaddressDeferred
  <1>. QED BY <1>1, <1>6, UpdateSteps DEF ReaddressDeferred

(* Claim settles overdue records of the target and delivers one. *)
LEMMA ClaimSteps ==
    ASSUME TypeOK, NEW target \in Routes, Claim(target)
    PROVE  StoreStep
  <1>. DEFINE due == {r \in Stored(records) :
                        ~IsClaude(records[r]) /\ records[r].env.target = target}
              aged == [r \in Refs |-> IF r \in due THEN Expired(records[r]) ELSE records[r]]
              claimed(r) == Reduced(aged[r], EventFor(aged[r], "deliver", "other", FALSE, now))
  <1>1. now \in Nat
    BY ClockType
  <1>2. \A r \in Stored(records) : Settles(records[r], aged[r])
    <2>1. \A r \in Stored(records) : Settles(records[r], records[r])
                                     /\ Settles(records[r], Expired(records[r]))
      BY <1>1, StoredRecord, StaysSettles, ExpiredSettles
    <2>. QED BY <2>1 DEF Stored
  <1>3. \A r \in Refs \ Stored(records) : aged[r] = NoRecord
    BY DEF Stored
  <1>4. \A r \in Stored(records) : aged[r] \in Record /\ ValidRecord(aged[r].env.ref, aged[r])
    BY <1>2, StoredRecord, SettlesEvolves DEF Settles
  <1>5. \A r \in Stored(records) : Settles(records[r], claimed(r))
    <2>1. "deliver" \in EventKinds /\ "other" \in Reasons
      BY DEF EventKinds, OutcomeOf, Reasons
    <2>. HIDE DEF aged
    <2>2. \A r \in Stored(records) : Settles(aged[r], claimed(r))
      BY <1>1, <1>4, <2>1, EventType, ReducedSettles
    <2>. HIDE DEF claimed
    <2>. QED BY <1>2, <2>2, SettlesTwice
  <1>6. ASSUME NEW next \in [Refs -> Record \cup {NoRecord}],
               \A r \in Refs \ Stored(records) : next[r] = NoRecord,
               \A r \in Stored(records) : Settles(records[r], next[r]),
               Write(next, {}, attempts)
        PROVE  StoreStep
    <2>1. \A r \in Stored(records) : Evolves(records[r], next[r])
      BY <1>6, StoredRecord, SettlesEvolves
    <2>2. Changes(next, {})
      BY <1>6, <2>1 DEF Changes, ClosedUnderReplies, Stored
    <2>. QED BY <1>6, <2>2, WriteSteps, NothingLeaves
  <1>7. aged \in [Refs -> Record \cup {NoRecord}]
    BY <1>3, <1>4
  <1>8. CASE Write(aged, {}, attempts)
    BY <1>2, <1>3, <1>6, <1>7, <1>8
  <1>9. ASSUME NEW r \in due, Write([aged EXCEPT ![r] = claimed(r)], {}, attempts)
        PROVE  StoreStep
    <2>1. r \in Stored(records) /\ r \in Refs
      BY <1>9 DEF Stored
    <2>2. claimed(r) \in Record
      BY <1>5, <2>1 DEF Settles
    <2>. HIDE DEF aged, claimed, due
    <2>3. [aged EXCEPT ![r] = claimed(r)] \in [Refs -> Record \cup {NoRecord}]
      BY <1>7, <2>2
    <2>4. \A x \in Refs : [aged EXCEPT ![r] = claimed(r)][x] = IF x = r THEN claimed(r) ELSE aged[x]
      BY <1>7, <2>1
    <2>5. \A x \in Refs \ Stored(records) : [aged EXCEPT ![r] = claimed(r)][x] = NoRecord
      BY <1>3, <2>1, <2>4
    <2>6. \A x \in Stored(records) : Settles(records[x], [aged EXCEPT ![r] = claimed(r)][x])
      BY <1>2, <1>5, <2>4 DEF Stored
    <2>. QED BY <1>6, <1>9, <2>3, <2>5, <2>6
  <1>10. \/ Write(aged, {}, attempts)
         \/ \E r \in due : Write([aged EXCEPT ![r] = claimed(r)], {}, attempts)
    BY DEF Claim
  <1>. QED BY <1>8, <1>9, <1>10

(* Every step of the store is a commit, a tick or a stutter. *)
LEMMA NextSteps ==
    ASSUME TypeOK, [Next]_vars
    PROVE  \/ StoreStep
           \/ Tick
           \/ UNCHANGED vars
  <1>1. ASSUME NEW d \in Drafts, NEW at \in Readings, PutAccepted(d, at) \/ PutDeferred(d, at)
        PROVE  StoreStep
    BY <1>1, AcceptSteps DEF PutAccepted, PutDeferred
  <1>. QED BY <1>1, PutReplySteps, ApplySteps, MarkHandoffSteps, StatusSteps, ClaimSteps,
              ReaddressSteps DEF Next

-----------------------------------------------------------------------------
(* The theorems. *)

(* The store file is always one that decodeState loads: every record is     *)
(* valid under its own ref, after any operation and any crash in a write.   *)
THEOREM StoreTypeOK == Spec => []TypeOK
  <1>1. Init => TypeOK
    BY StoreAssumption DEF Init, TypeOK, Stored
  <1>2. TypeOK /\ [Next]_vars => TypeOK'
    <2>. SUFFICES ASSUME TypeOK, [Next]_vars PROVE TypeOK'
      OBVIOUS
    <2>1. CASE UNCHANGED vars
      BY <2>1 DEF vars, TypeOK, Stored
    <2>2. CASE Tick
      BY <2>2, StoreAssumption DEF Tick, TypeOK, Stored
    <2>3. CASE StoreStep
      <3>1. CASE UNCHANGED <<records, attempts>>
        BY <2>3, <3>1 DEF StoreStep, TypeOK, Stored
      <3>2. ASSUME NEW gone \in SUBSET Stored(records), Changes(records', gone)
            PROVE  /\ records' \in [Refs -> Record \cup {NoRecord}]
                   /\ \A r \in Stored(records') : ValidRecord(r, records'[r])
        <4>1. \A r \in Stored(records) \ gone : ValidRecord(r, records'[r])
          BY <3>2, StoredRecord DEF Changes, Evolves
        <4>2. \A r \in Stored(records') : r \notin gone
          BY <3>2 DEF Changes, Stored
        <4>. QED BY <3>2, <4>1, <4>2 DEF Changes
      <3>3. ASSUME attempts' = Kept(records', attempts)
                   \/ \E o, a \in Refs :
                        attempts' = Kept(records', [attempts EXCEPT ![o] = @ \cup {a}])
            PROVE  attempts' \in [Refs -> SUBSET Refs]
        BY <3>3 DEF Kept, TypeOK
      <3>. QED BY <2>3, <3>1, <3>2, <3>3 DEF StoreStep, TypeOK
    <2>. QED BY <2>1, <2>2, <2>3, NextSteps
  <1>. QED BY <1>1, <1>2, PTL DEF Spec

(* The maxRecords bound: no sequence of operations stores a record more     *)
(* than decodeState accepts.                                                *)
THEOREM CapacityKept == Spec => []WithinCapacity
  <1>1. Init => WithinCapacity
    <2>1. Init => Stored(records) = {}
      BY DEF Init, Stored
    <2>. QED BY <2>1, FS_EmptySet, StoreAssumption DEF WithinCapacity
  <1>2. TypeOK /\ WithinCapacity /\ [Next]_vars => WithinCapacity'
    <2>. SUFFICES ASSUME TypeOK, WithinCapacity, [Next]_vars PROVE WithinCapacity'
      OBVIOUS
    <2>1. IsFiniteSet(Stored(records)) /\ Cardinality(Stored(records)) \in Nat
      <3>1. Stored(records) \subseteq Refs
        BY DEF Stored
      <3>. QED BY <3>1, StoreAssumption, FS_Subset, FS_CardinalityType
    <2>2. CASE Stored(records') \subseteq Stored(records)
      <3>1. Cardinality(Stored(records')) \in Nat
            /\ Cardinality(Stored(records')) <= Cardinality(Stored(records))
        BY <2>1, <2>2, FS_Subset, FS_CardinalityType
      <3>. QED BY <2>1, <3>1, StoreAssumption DEF WithinCapacity
    <2>3. CASE Cardinality(Stored(records')) <= MaxRecords
      BY <2>3 DEF WithinCapacity
    <2>4. UNCHANGED records => Stored(records') \subseteq Stored(records)
      BY DEF Stored
    <2>. QED BY <2>2, <2>3, <2>4, NextSteps DEF StoreStep, Changes, Tick, vars
  <1>. QED BY <1>1, <1>2, StoreTypeOK, PTL DEF Spec

(* What leaves in a step is what the write reclaimed. *)
LEMMA LeavingIsGone ==
    ASSUME TypeOK, NEW gone, Changes(records', gone)
    PROVE  Leaving = gone
  BY NoRecordAssumption DEF Changes, Leaving, Evolves, Stored

(* A receipt is terminal once: no operation, late answer or expiry changes  *)
(* a settled record, takes a handoff back or moves an envelope, but for the *)
(* generation of a resume hold.                                             *)
THEOREM ReceiptFinality == Spec => ReceiptsAreFinal
  <1>1. TypeOK /\ [Next]_vars => [KeepsReceipts]_vars
    <2>. SUFFICES ASSUME TypeOK, [Next]_vars PROVE KeepsReceipts \/ UNCHANGED vars
      OBVIOUS
    <2>1. CASE records' = records
      BY <2>1 DEF KeepsReceipts
    <2>2. ASSUME NEW gone \in SUBSET Stored(records), Changes(records', gone)
          PROVE  KeepsReceipts
      <3>1. \A r \in Stored(records) \ Leaving : Evolves(records[r], records'[r])
        BY <2>2, LeavingIsGone DEF Changes
      <3>. QED BY <3>1 DEF KeepsReceipts, Evolves
    <2>. QED BY <2>1, <2>2, NextSteps DEF StoreStep, Tick
  <1>. QED BY <1>1, StoreTypeOK, PTL DEF Spec, ReceiptsAreFinal

(* pruneRecords: an attempt and its original leave in the same write. *)
THEOREM GroupsLeaveTogether == Spec => ReplyGroupsLeaveTogether
  <1>1. TypeOK /\ [Next]_vars => [LeavesTogether]_vars
    <2>. SUFFICES ASSUME TypeOK, [Next]_vars PROVE LeavesTogether \/ UNCHANGED vars
      OBVIOUS
    <2>1. CASE records' = records
      <3>1. Leaving = {}
        BY <2>1 DEF Leaving, Stored
      <3>. QED BY <3>1 DEF LeavesTogether
    <2>2. ASSUME NEW gone \in SUBSET Stored(records), Changes(records', gone)
          PROVE  LeavesTogether
      BY <2>2, LeavingIsGone DEF Changes, LeavesTogether, ClosedUnderReplies
    <2>. QED BY <2>1, <2>2, NextSteps DEF StoreStep, Tick
  <1>. QED BY <1>1, StoreTypeOK, PTL DEF Spec, ReplyGroupsLeaveTogether

(* Every step's leaving records are accounted for. *)
LEMMA LeavingAccounted ==
    ASSUME TypeOK, [Next]_vars
    PROVE  Accounts(Leaving, history')
  <1>1. CASE records' = records
    <2>1. Leaving = {}
      BY <1>1 DEF Leaving, Stored
    <2>. QED BY <2>1, NothingLeaves
  <1>2. ASSUME NEW gone \in SUBSET Stored(records), Changes(records', gone),
               Accounts(gone, history')
        PROVE  Accounts(Leaving, history')
    BY <1>2, LeavingIsGone
  <1>. QED BY <1>1, <1>2, NextSteps DEF StoreStep, Tick, vars

(* writeLocked: whatever a record leaves for, and wherever a writer died    *)
(* before, its line is in the log when it is gone from the store file.      *)
THEOREM ReclaimLogged == Spec => ReclaimIsLogged
  <1>1. TypeOK /\ [Next]_vars => [LogsLeaving]_vars
    BY LeavingAccounted DEF Accounts, Logged, LogsLeaving
  <1>. QED BY <1>1, StoreTypeOK, PTL DEF Spec, ReclaimIsLogged

(* pruneRecords: nothing leaves before its life is over, nor within the     *)
(* retention unless the store is full, nor while it is one of the           *)
(* MaxProtected newest answerable messages of its Agent.                    *)
THEOREM ReclaimJustified == Spec => NoEarlyReclaim
  <1>1. TypeOK /\ [Next]_vars => [ReclaimIsJustified]_vars
    BY LeavingAccounted DEF Accounts, Justified, ReclaimIsJustified
  <1>. QED BY <1>1, StoreTypeOK, PTL DEF Spec, NoEarlyReclaim

-----------------------------------------------------------------------------
(* The reply lane's strengthening: the attempts committed against an        *)
(* original are on disk as long as it is, so PutReply sees all of them.     *)
AttemptsOnDisk ==
    \A o \in Refs : \A a \in attempts[o] :
        o \in Stored(records) /\ a \in Stored(records) /\ records[a].env.replyTo = o

(* PutReply and pruneRecords together: whatever was reclaimed in between, an *)
(* original never gets a second reply unless every earlier one is known to  *)
(* have written nothing.                                                    *)
THEOREM ReplyOnce == Spec => []SingleReply
  <1>. DEFINE Lane == AttemptsOnDisk /\ SingleReply
  <1>1. Init => Lane
    <2>1. Init => \A o \in Refs : attempts[o] = {}
      BY DEF Init
    <2>. QED BY <2>1 DEF AttemptsOnDisk, SingleReply, Stored
  <1>2. TypeOK /\ Lane /\ [Next]_vars => Lane'
    <2>. SUFFICES ASSUME TypeOK, AttemptsOnDisk, SingleReply, [Next]_vars
                  PROVE  AttemptsOnDisk' /\ SingleReply'
      OBVIOUS
    <2>1. CASE UNCHANGED <<records, attempts>>
      BY <2>1 DEF AttemptsOnDisk, SingleReply, Stored
    <2>2. ASSUME NEW gone \in SUBSET Stored(records), Changes(records', gone)
          PROVE  /\ \A o \in Refs : \A a \in attempts[o] : records'[o] # NoRecord =>
                       /\ o \in Stored(records') /\ a \in Stored(records')
                       /\ records'[a].env.replyTo = o
                 /\ \A a \in Stored(records) \ gone :
                       KnownZero(records[a]) => KnownZero(records'[a]) /\ a \in Stored(records')
      <3>1. \A r \in Stored(records) \ gone : records'[r] # NoRecord /\ r \in Stored(records')
                                             /\ records'[r].env.replyTo = records[r].env.replyTo
        BY <2>2, NoRecordAssumption DEF Changes, Evolves, Stored
      <3>2. ASSUME NEW o \in Refs, NEW a \in attempts[o], records'[o] # NoRecord
            PROVE  o \notin gone /\ a \notin gone
        BY <2>2, <3>2 DEF Changes, ClosedUnderReplies, AttemptsOnDisk
      <3>3. \A a \in Stored(records) \ gone : KnownZero(records[a]) => records'[a] = records[a]
        <4>1. \A a \in Stored(records) : KnownZero(records[a]) => IsTerminal(records[a])
          BY DEF KnownZero, IsTerminal, Terminal
        <4>. QED BY <2>2, <4>1 DEF Changes, Evolves
      <3>. QED BY <3>1, <3>2, <3>3 DEF AttemptsOnDisk
    <2>3. ASSUME NEW gone \in SUBSET Stored(records), Changes(records', gone),
                 attempts' = Kept(records', attempts)
          PROVE  AttemptsOnDisk' /\ SingleReply'
      <3>1. \A o \in Refs : attempts'[o] # {} => records'[o] # NoRecord /\ attempts'[o] = attempts[o]
        BY <2>3 DEF Kept
      <3>2. AttemptsOnDisk'
        BY <2>2, <2>3, <3>1 DEF AttemptsOnDisk
      <3>3. SingleReply'
        <4>. SUFFICES ASSUME NEW x \in Stored(records'), NEW a \in attempts'[x],
                             NEW b \in attempts'[x], a # b
                      PROVE  \E z \in {a, b} : z \in Stored(records') /\ KnownZero(records'[z])
          BY DEF SingleReply
        <4>1. x \in Refs /\ records'[x] # NoRecord
          BY DEF Stored
        <4>2. a \in attempts[x] /\ b \in attempts[x]
          BY <3>1, <4>1
        <4>3. \E z \in {a, b} : z \in Stored(records) /\ KnownZero(records[z])
          BY <4>1, <4>2 DEF SingleReply, AttemptsOnDisk
        <4>4. a \notin gone /\ b \notin gone
          BY <2>2, <2>3, <4>1, <4>2 DEF Changes, Stored
        <4>. QED BY <2>2, <2>3, <4>3, <4>4
      <3>. QED BY <3>2, <3>3
    <2>4. ASSUME NEW gone \in SUBSET Stored(records), Changes(records', gone),
                 NEW o \in Refs, NEW n \in Refs, CommitsReply(records', o, n),
                 attempts' = Kept(records', [attempts EXCEPT ![o] = @ \cup {n}])
          PROVE  AttemptsOnDisk' /\ SingleReply'
      <3>1. \A x \in Refs : attempts'[x] # {} =>
               /\ records'[x] # NoRecord
               /\ attempts'[x] = IF x = o THEN attempts[o] \cup {n} ELSE attempts[x]
        BY <2>4 DEF Kept, TypeOK
      <3>2. AttemptsOnDisk'
        <4>. SUFFICES ASSUME NEW x \in Refs, NEW a \in attempts'[x]
                      PROVE  /\ x \in Stored(records') /\ a \in Stored(records')
                             /\ records'[a].env.replyTo = x
          BY DEF AttemptsOnDisk
        <4>1. records'[x] # NoRecord /\ (a \in attempts[x] \/ (x = o /\ a = n))
          BY <3>1
        <4>2. CASE a \in attempts[x]
          BY <2>2, <2>4, <4>1, <4>2
        <4>3. CASE x = o /\ a = n
          BY <2>4, <4>1, <4>3 DEF CommitsReply, Stored
        <4>. QED BY <4>1, <4>2, <4>3
      <3>3. \A a \in attempts[o] : KnownZero(records[a])
        BY <2>4 DEF AttemptsOnDisk, CommitsReply, AttemptsFor
      <3>4. SingleReply'
        <4>. SUFFICES ASSUME NEW x \in Stored(records'), NEW a \in attempts'[x],
                             NEW b \in attempts'[x], a # b
                      PROVE  \E z \in {a, b} : z \in Stored(records') /\ KnownZero(records'[z])
          BY DEF SingleReply
        <4>1. x \in Refs /\ records'[x] # NoRecord
          BY DEF Stored
        <4>2. CASE x # o
          <5>1. a \in attempts[x] /\ b \in attempts[x]
            BY <3>1, <4>1, <4>2
          <5>2. \E z \in {a, b} : z \in Stored(records) /\ KnownZero(records[z])
            BY <4>1, <5>1 DEF SingleReply, AttemptsOnDisk
          <5>3. a \notin gone /\ b \notin gone
            BY <2>2, <2>4, <4>1, <5>1 DEF Changes, Stored
          <5>. QED BY <2>2, <2>4, <5>2, <5>3
        <4>3. CASE x = o
          <5>1. PICK z \in {a, b} : z \in attempts[o]
            BY <3>1, <4>1, <4>3
          <5>2. z \in Stored(records) /\ KnownZero(records[z])
            BY <3>3, <5>1 DEF AttemptsOnDisk
          <5>3. z \notin gone
            BY <2>2, <2>4, <4>1, <4>3, <5>1 DEF Changes, Stored
          <5>. QED BY <2>2, <2>4, <5>2, <5>3
        <4>. QED BY <4>2, <4>3
      <3>. QED BY <3>2, <3>4
    <2>. QED BY <2>1, <2>3, <2>4, NextSteps DEF StoreStep, Tick, vars
  <1>. QED BY <1>1, <1>2, StoreTypeOK, PTL DEF Spec
=============================================================================
