------------------------- MODULE ClaudeDispatchProofs -------------------------
(***************************************************************************)
(* The dispatch of messages to a Claude Agent, for every number of         *)
(* messages and of helpers.  Types hold whatever fails.  That no message   *)
(* is written twice, none is overtaken, no hold is lost and only a status  *)
(* request misreports a written message is proved for a store whose writes *)
(* succeed: the runs DispatchResend and DispatchStaleReceipt show that     *)
(* neither the assumption nor the exception can be dropped.                *)
(***************************************************************************)
EXTENDS ClaudeDispatch, TLAPS, FiniteSetTheorems, WellFoundedInduction

Results == [state : {"held"} \cup PrivateTerminal, ambiguous : BOOLEAN]
Working == {"judge", "submitted", "pause"}

(* The requests a caller has with the helper. *)
InQueue(c, m) == [caller |-> c, msg |-> m] \in queue
Serving(c, m) == job # Nobody /\ job.caller = c /\ job.msg = m
Req(c, m) == InQueue(c, m) \/ Serving(c, m)

Early(m) == send[m] \in {"idle", "waiting", "locked"}
Young(m) == Early(m) \/ send[m] = "submitted"
HeldAns(a) == a # Nobody /\ a.state = "held"

-----------------------------------------------------------------------------
(* What holds whatever fails. *)

(* The helper's memory: the message it is serving is queued or handed off,  *)
(* every other one it has seen is settled.                                 *)
Memory ==
    \A m \in Msgs :
        IF job # Nobody /\ job.msg = m
        THEN hub[m] = [state |-> IF job.step = "written" THEN "handoff" ELSE "queued",
                       ambiguous |-> FALSE]
        ELSE hub[m] = Unseen \/ hub[m].state \in PrivateTerminal

(* The release works on the oldest of the records it has left. *)
RelRecord ==
    [pc : {"off", "list", "end"} \cup Working, cur : Msgs \cup {Nobody},
     todo : SUBSET Msgs, seen : SUBSET Msgs, listed : SUBSET Msgs,
     window : {"unset", "open", "ended"}, handOff : BOOLEAN]
Release ==
    /\ rel \in RelRecord
    /\ IF rel.pc \in Working
       THEN rel.cur \in rel.todo /\ \A x \in rel.todo : order[rel.cur] <= order[x]
       ELSE rel.todo = {}
    /\ rel.todo \subseteq rel.listed
    /\ rel.pc \in {"off", "end"} => rel.listed = {}
    /\ rel.handOff => rel.pc = "end"

(* Nothing happens to a message before it is accepted. *)
Accepted ==
    /\ \A m \in Msgs : /\ send[m] = "idle" <=> order[m] = 0
                       /\ send[m] = "idle" <=> rec[m].state = "none"
    /\ \A m \in late \cup rel.listed : rec[m].state # "none"

PollRecord ==
    [pc : {"idle", "read", "held", "due"}, handoff : BOOLEAN, held : BOOLEAN, misled : BOOLEAN]

TypeInv ==
    /\ TypeOK
    /\ answer \in [Callers -> Results \cup {Nobody}]
    /\ poll \in [Msgs -> PollRecord]
    /\ \A m \in Msgs : poll[m].pc # "idle" => rec[m].state # "none"
    /\ Memory /\ Release /\ Accepted

-----------------------------------------------------------------------------
(* What holds when the store's writes succeed. *)

(* The helper has worked on the message. *)
Touched(m) == hub[m] # Unseen \/ written[m] > 0

(* One message has one request at a time, its sender's or the release's; a  *)
(* message that was touched is asked for by no one again.                  *)
Once(m) ==
    /\ \A c \in Callers : Req(c, m) => c \in {m, Releaser}
    /\ Early(m) => ~Req(m, m)
    /\ Young(m) => /\ rec[m].state # "held" /\ m \notin rel.todo /\ m \notin rel.listed
                   /\ ~Req(Releaser, m)
    /\ Req(m, m) => /\ rec[m].state # "held" /\ m \notin rel.todo /\ ~HeldAns(answer[m])
                    /\ ~Req(Releaser, m)
    /\ Req(Releaser, m) =>
          IF m \in rel.todo
          THEN rel.pc = "submitted" /\ rel.cur = m /\ ~HeldAns(answer[Releaser])
          ELSE rec[m].state \in Final
    /\ Touched(m) =>
          /\ ~Early(m) /\ \A c \in Callers : ~InQueue(c, m)
          /\ rec[m].state = "held" => m \in rel.todo
          /\ m \in rel.todo => rel.pc = "submitted" /\ rel.cur = m /\ ~HeldAns(answer[Releaser])
          /\ send[m] = "submitted" => ~HeldAns(answer[m])
    /\ job # Nobody /\ job.msg = m /\ job.step # "written" => written[m] = 0
    /\ written[m] <= 1

(* An answer waits only for a caller that is waiting for one. *)
Asked ==
    /\ \A m \in Msgs : answer[m] # Nobody => send[m] = "submitted"
    /\ answer[Releaser] # Nobody => rel.pc = "submitted"

(* A held message is the release's to judge, or somebody will see to it. *)
HeldSeen ==
    /\ rel.listed \cap Held \subseteq rel.todo
    /\ rel.pc \in {"off", "end"} =>
          \A m \in Held : launched \/ m \in parked \/ send[m] = "holding" \/ rel.handOff

(* What was held before a message was dispatched is ahead of it. *)
Ahead(m) ==
    /\ \A x \in before[m] : rec[x].state \in Final \cup {"held"}
    /\ m \in rel.listed => before[m] \cap Held \subseteq rel.listed
    /\ Req(m, m) \/ Req(Releaser, m) =>
          \A x \in before[m] : order[x] < order[m] => rec[x].state # "held"

DispatchInv ==
    /\ TypeInv
    /\ \A m \in Msgs : Once(m) /\ Ahead(m)
    /\ HeldSeen /\ Asked

-----------------------------------------------------------------------------
(* What receipts say, however often a status is asked. *)

(* The receipt names a known failure and no status request made it up. *)
Known(m) ==
    /\ rec[m].state \in Final \ {"delivered"} /\ ~rec[m].unknown
    /\ ~(poll[m].misled /\ rec[m].state = "stale")
KnownAns(a) ==
    a # Nobody /\ a.state \in Final \ {"delivered"} /\ (a.state = "refused" \/ ~a.ambiguous)

(* The release has the message before it, to be judged and perhaps pushed. *)
ToJudge(m) == m \in rel.todo /\ ~(rel.pc = "submitted" /\ rel.cur = m)

(* A known failure, on record, as an answer or in the helper's memory, is   *)
(* one of a message that was not written and that nobody is going to write. *)
True(m) ==
    /\ poll[m].pc = "due" => m \in late
    /\ poll[m].pc = "due" /\ ~poll[m].handoff /\ Unsettled(m) => written[m] = 0
    /\ Known(m) => /\ written[m] = 0
                   /\ m \in late \/ (~Early(m) /\ ~Req(m, m) /\ ~Req(Releaser, m) /\ ~ToJudge(m))
    /\ KnownAns(hub[m]) => written[m] = 0
    /\ written[m] > 0 => rec[m].handoff \/ ~Unsettled(m)
    /\ job # Nobody /\ job.msg = m /\ job.step # "queued" => rec[m].handoff \/ ~Unsettled(m)
    /\ send[m] = "submitted" /\ KnownAns(answer[m]) => written[m] = 0 /\ ~Req(m, m)
    /\ rel.pc = "submitted" /\ rel.cur = m /\ KnownAns(answer[Releaser]) =>
          written[m] = 0 /\ ~Req(Releaser, m)

KnownInv == DispatchInv /\ \A m \in Msgs : True(m)

-----------------------------------------------------------------------------
(* The operators the model is built from. *)

(* PrivateReduce on the deliveries a submit goes through. *)
LEMMA Reductions ==
    /\ Queued = [state |-> "queued", ambiguous |-> FALSE]
    /\ PrivateReduce(Queued, "expire", FALSE, FALSE) = Settled("expired", FALSE)
    /\ PrivateReduce(Queued, "refuse", FALSE, FALSE) = Settled("refused", FALSE)
    /\ PrivateReduce(Queued, "fail", FALSE, TRUE) = Settled("failed", FALSE)
    /\ PrivateReduce(Queued, "begin-handoff", FALSE, FALSE) = Settled("handoff", FALSE)
    /\ PrivateReduce(Settled("handoff", FALSE), "fail", FALSE, TRUE) = Settled("failed", FALSE)
    /\ PrivateReduce(Settled("handoff", FALSE), "fail", FALSE, FALSE) = Settled("failed", TRUE)
    /\ PrivateReduce(Settled("handoff", FALSE), "deliver", TRUE, TRUE) = Settled("delivered", FALSE)
  <1>1. Queued = [state |-> "queued", ambiguous |-> FALSE]
    BY DEF Queued, PrivateReduce, Unseen, Settled
  <1>2. /\ PrivateReduce(Queued, "expire", FALSE, FALSE) = Settled("expired", FALSE)
        /\ PrivateReduce(Queued, "refuse", FALSE, FALSE) = Settled("refused", FALSE)
        /\ PrivateReduce(Queued, "fail", FALSE, TRUE) = Settled("failed", FALSE)
        /\ PrivateReduce(Queued, "begin-handoff", FALSE, FALSE) = Settled("handoff", FALSE)
    BY <1>1 DEF PrivateReduce, Settled, BeforeHandoff
  <1>3. /\ PrivateReduce(Settled("handoff", FALSE), "fail", FALSE, TRUE) = Settled("failed", FALSE)
        /\ PrivateReduce(Settled("handoff", FALSE), "fail", FALSE, FALSE) = Settled("failed", TRUE)
        /\ PrivateReduce(Settled("handoff", FALSE), "deliver", TRUE, TRUE)
              = Settled("delivered", FALSE)
    BY DEF PrivateReduce, Settled
  <1>. QED BY <1>1, <1>2, <1>3

Kinds == {"held"} \cup Final

(* Store.Apply with the public reducer, on one receipt. *)
LEMMA AppliedOK ==
    ASSUME NEW r \in Receipt, NEW kind \in Kinds, NEW unknown \in BOOLEAN
    PROVE  /\ Applied(r, kind, unknown) \in Receipt
           /\ Applied(r, kind, unknown).handoff = r.handoff
           /\ r.state \notin {"accepted", "held"} => Applied(r, kind, unknown) = r
           /\ r.state \in {"accepted", "held"} /\ kind # "held" =>
                 /\ Applied(r, kind, unknown).state = kind
                 /\ Applied(r, kind, unknown).unknown <=> kind = "failed" /\ unknown
           /\ kind = "held" /\ r.state = "accepted" => Applied(r, kind, unknown).state = "held"
           /\ kind = "held" /\ r.state = "held" => Applied(r, kind, unknown) = r
  BY DEF Applied, Receipt, Kinds, Final

(* How a settlement changes the store: one receipt, which keeps its handoff *)
(* mark and, once it is final, everything.                                 *)
Settles(m, kind, unknown) ==
    /\ rec' \in [Msgs -> Receipt]
    /\ \A x \in Msgs \ {m} : rec'[x] = rec[x]
    /\ rec'[m].handoff = rec[m].handoff
    /\ rec[m].state \notin {"accepted", "held"} => rec'[m] = rec[m]
    /\ rec[m].state \in {"accepted", "held"} /\ kind # "held" =>
          rec'[m].state = kind /\ (rec'[m].unknown <=> kind = "failed" /\ unknown)
    /\ kind = "held" /\ rec[m].state = "accepted" => rec'[m].state = "held"
    /\ kind = "held" /\ rec[m].state = "held" => rec'[m] = rec[m]

(* Store.Apply is a settlement in that sense. *)
LEMMA SettleOK ==
    ASSUME TypeOK, NEW m \in Msgs, NEW kind \in Kinds, NEW unknown \in BOOLEAN,
           Settle(m, kind, unknown)
    PROVE  Settles(m, kind, unknown)
  <1>1. rec \in [Msgs -> Receipt] /\ rec[m] \in Receipt
    BY DEF TypeOK
  <1>2. rec' = [rec EXCEPT ![m] = Applied(rec[m], kind, unknown)]
    BY DEF Settle
  <1>3. rec'[m] = Applied(rec[m], kind, unknown) /\ \A x \in Msgs \ {m} : rec'[x] = rec[x]
    BY <1>1, <1>2
  <1>4. rec' \in [Msgs -> Receipt]
    BY <1>1, <1>2, AppliedOK
  <1>. QED BY <1>1, <1>3, <1>4, AppliedOK DEF Settles

(* The kind and certainty of the event a private answer becomes. *)
KindOf(a) == IF a.state \in {"expired", "stale", "failed"} /\ a.ambiguous THEN "failed" ELSE a.state
UnknownOf(a) == a.state \in {"expired", "stale", "failed"} /\ a.ambiguous

(* ProjectClaudeDelivery settles the receipt by the event of its answer. *)
LEMMA ProjectOK ==
    ASSUME TypeOK, NEW m \in Msgs, NEW a \in Results, Project(m, a)
    PROVE  /\ KindOf(a) \in Kinds /\ UnknownOf(a) \in BOOLEAN
           /\ Settles(m, KindOf(a), UnknownOf(a))
  <1>1. KindOf(a) \in Kinds /\ UnknownOf(a) \in BOOLEAN
    BY DEF KindOf, UnknownOf, Kinds, Final, Results, PrivateTerminal
  <1>2. Settle(m, KindOf(a), UnknownOf(a))
    BY DEF Project, KindOf, UnknownOf
  <1>. QED BY <1>1, <1>2, SettleOK

(* deadlineEvent settles the receipt by the handoff its reader saw. *)
LEMMA SettleDeadlineOK ==
    ASSUME TypeOK, NEW m \in Msgs, NEW handoff \in BOOLEAN, SettleDeadline(m, handoff)
    PROVE  Settles(m, IF handoff THEN "failed" ELSE "expired", handoff)
  BY SettleOK DEF SettleDeadline, Kinds, Final

(* A nonempty set of accepted messages has an oldest. *)
LEMMA OldestOK ==
    ASSUME TypeOK, NEW S \in SUBSET Msgs, S # {}
    PROVE  Oldest(S) \in S /\ \A x \in S : order[Oldest(S)] <= order[x]
  <1>1. Cardinality(Msgs) \in Nat
    BY DispatchAssumption, FS_CardinalityType
  <1>2. \A x \in S : order[x] \in Nat
    BY <1>1 DEF TypeOK
  <1>. DEFINE T == {order[x] : x \in S}
  <1>3. T \subseteq Nat /\ T # {}
    BY <1>2
  <1>. DEFINE R == {ss \in Nat \X Nat : ss[1] < ss[2]}
  <1>4. IsWellFoundedOn(R, Nat)
    BY NatLessThanWellFounded DEF OpToRel
  <1>5. PICK n \in T : \A y \in T : ~(<<y, n>> \in R)
    <2>. HIDE DEF R, T
    <2>. QED BY <1>3, <1>4, WFMin
  <1>6. \A y \in T : n <= y
    <2>. SUFFICES ASSUME NEW y \in T PROVE n <= y
      OBVIOUS
    <2>1. y \in Nat /\ n \in Nat /\ <<y, n>> \notin R
      BY <1>3, <1>5
    <2>. QED BY <2>1
  <1>7. \E m \in S : \A x \in S : order[m] <= order[x]
    BY <1>6
  <1>. QED BY <1>7 DEF Oldest

-----------------------------------------------------------------------------
(* Types, whatever fails. *)

(* No receipt comes or goes, and none that is final or marked changes back. *)
RecKept ==
    /\ rec' \in [Msgs -> Receipt]
    /\ \A m \in Msgs :
          /\ rec'[m].state = "none" <=> rec[m].state = "none"
          /\ rec[m].state \in Final =>
                rec'[m].state = rec[m].state /\ rec'[m].unknown = rec[m].unknown
          /\ rec[m].state = "held" => rec'[m].state \in Final \cup {"held"}
          /\ rec[m].handoff => rec'[m].handoff

(* A settlement keeps what every step keeps of the receipts. *)
LEMMA SettlesKept ==
    ASSUME TypeOK, NEW m \in Msgs, NEW kind \in Kinds, NEW unknown, Settles(m, kind, unknown)
    PROVE  RecKept
  <1>1. rec[m] \in Receipt
    BY DEF TypeOK
  <1>2. rec'[m].state = "none" <=> rec[m].state = "none"
    BY <1>1 DEF Settles, Kinds, Final, Receipt
  <1>3. rec[m].state \in Final => rec'[m] = rec[m]
    BY DEF Settles, Final
  <1>4. rec[m].state = "held" => rec'[m].state \in Final \cup {"held"}
    BY DEF Settles, Kinds
  <1>. QED BY <1>2, <1>3, <1>4 DEF RecKept, Settles

(* The answers the protocol itself gives. *)
LEMMA Replies ==
    /\ Ambiguous \in Results /\ KnownFailure \in Results /\ Refused \in Results /\ Stale \in Results
    /\ [state |-> "held", ambiguous |-> FALSE] \in Results
    /\ \A a \in PrivateTerminal, b \in BOOLEAN : Settled(a, b) \in Results
    /\ Results \subseteq PrivateDelivery
    /\ Unseen \in PrivateDelivery /\ Queued \in PrivateDelivery
    /\ Settled("handoff", FALSE) \in PrivateDelivery
  BY Reductions DEF Ambiguous, KnownFailure, Refused, Stale, Results, PrivateTerminal, PrivateDelivery,
     Settled, Unseen

(* The sender's own steps, which leave the helper, the readers and the      *)
(* release alone.                                                          *)
LEMMA SenderTypes ==
    ASSUME TypeInv, RecKept, order' = order, late' = late,
           NEW m \in Msgs, send[m] # "idle",
           NEW pc \in {"waiting", "locked", "submitted", "holding", "unlocking", "done"},
           send' = [send EXCEPT ![m] = pc],
           dispatch' \in {dispatch, m, Nobody},
           dispatch' = m <=> pc \in {"locked", "submitted", "holding", "unlocking"},
           dispatch' = dispatch \/ dispatch \in {m, Nobody},
           before' \in [Msgs -> SUBSET Msgs],
           answer' \in [Callers -> Results \cup {Nobody}],
           queue' \subseteq [caller : Callers, msg : Msgs],
           UNCHANGED <<job, hub, helpers, up, written, poll, rel, parked>>, launched' \in BOOLEAN
    PROVE  TypeInv' /\ RecKept
  <1>1. send' \in [Msgs -> {"idle", "waiting", "locked", "submitted", "holding", "unlocking", "done"}]
        /\ send'[m] = pc /\ \A x \in Msgs \ {m} : send'[x] = send[x]
    BY DEF TypeInv, TypeOK
  <1>2. /\ \A x \in Msgs :
              dispatch' = x <=> send'[x] \in {"locked", "submitted", "holding", "unlocking"}
        /\ dispatch' \in Msgs \cup {Nobody}
    <2>1. Nobody \notin Msgs
      BY DispatchAssumption DEF Callers
    <2>. QED BY <1>1, <2>1 DEF TypeInv, TypeOK
  <1>3. answer' \in [Callers -> Answers]
    BY Replies DEF Answers
  <1>4. TypeOK'
    BY <1>1, <1>2, <1>3 DEF TypeInv, TypeOK, RecKept
  <1>5. Memory' /\ Release'
    BY DEF TypeInv, Memory, Release
  <1>6. Accepted'
    <2>1. \A x \in Msgs : /\ send[x] = "idle" <=> order[x] = 0
                          /\ send[x] = "idle" <=> rec[x].state = "none"
      BY DEF TypeInv, Accepted
    <2>2. \A x \in Msgs : send'[x] = "idle" <=> send[x] = "idle"
      BY <1>1
    <2>3. late \cup rel.listed \subseteq Msgs
      BY DEF TypeInv, TypeOK, Release, RelRecord
    <2>4. \A x \in late \cup rel.listed : rec'[x].state # "none"
      BY <2>3 DEF TypeInv, Accepted, RecKept
    <2>5. \A x \in Msgs : /\ send'[x] = "idle" <=> order'[x] = 0
                          /\ send'[x] = "idle" <=> rec'[x].state = "none"
      BY <2>1, <2>2 DEF RecKept
    <2>. QED BY <2>4, <2>5 DEF Accepted
  <1>7. \A x \in Msgs : poll'[x].pc # "idle" => rec'[x].state # "none"
    BY DEF TypeInv, RecKept
  <1>. QED BY <1>4, <1>5, <1>6, <1>7 DEF TypeInv

(* The handling of a submit puts a request or gives an answer. *)
LEMMA SubmitTypes ==
    ASSUME TypeInv, NEW c \in Callers, NEW m \in Msgs, Submit(c, m)
    PROVE  /\ answer' \in [Callers -> Results \cup {Nobody}]
           /\ queue' \subseteq [caller : Callers, msg : Msgs]
  <1>1. CASE queue' = queue \cup {[caller |-> c, msg |-> m]} /\ UNCHANGED answer
    BY <1>1 DEF TypeInv, TypeOK
  <1>2. CASE (\E d \in {KnownFailure, Refused} : answer' = [answer EXCEPT ![c] = d]) /\ UNCHANGED queue
    BY <1>2, Replies DEF TypeInv, TypeOK
  <1>. QED BY <1>1, <1>2 DEF Submit

(* So does a step that leaves the store alone. *)
LEMMA RecUnchanged == ASSUME TypeOK, rec' = rec PROVE RecKept
  BY DEF TypeOK, RecKept

(* Types are kept by every step of a sender. *)
LEMMA SendTypes ==
    ASSUME TypeInv, NEW m \in Msgs, SendStep(m)
    PROVE  TypeInv' /\ RecKept
  <1>. USE DEF sendVars, storeVars, helperVars, relVars
  <1>0. /\ TypeOK /\ answer \in [Callers -> Results \cup {Nobody}]
        /\ queue \subseteq [caller : Callers, msg : Msgs]
        /\ before \in [Msgs -> SUBSET Msgs] /\ launched \in BOOLEAN
        /\ dispatch = m <=> send[m] \in {"locked", "submitted", "holding", "unlocking"}
        /\ Nobody \notin Msgs /\ m \in Callers
    BY DispatchAssumption DEF TypeInv, TypeOK, Callers
  <1>1. CASE Lock(m)
    <2>1. before' \in [Msgs -> SUBSET Msgs]
      BY <1>0, <1>1 DEF Lock, Held
    <2>. QED BY <1>0, <1>1, <2>1, RecUnchanged, SenderTypes DEF Lock
  <1>2. CASE LockTimeout(m)
    <2>1. RecKept
      BY <1>0, <1>2, SettleOK, SettlesKept DEF LockTimeout, Kinds, Final
    <2>. QED BY <1>0, <1>2, <2>1, SenderTypes DEF LockTimeout
  <1>3. CASE Push(m)
    <2>1. /\ answer' \in [Callers -> Results \cup {Nobody}]
          /\ queue' \subseteq [caller : Callers, msg : Msgs]
      BY <1>0, <1>3, SubmitTypes DEF Push
    <2>. QED BY <1>0, <1>3, <2>1, RecUnchanged, SenderTypes DEF Push
  <1>4. CASE Hold(m)
    <2>1. RecKept
      BY <1>0, <1>4, SettleOK, SettlesKept DEF Hold, Kinds
    <2>2. PICK pc \in {"holding", "unlocking"} : send' = [send EXCEPT ![m] = pc]
      BY <1>4 DEF Hold
    <2>. QED BY <1>0, <1>4, <2>1, <2>2, SenderTypes DEF Hold
  <1>5. CASE SubmitTimeout(m)
    <2>1. answer' \in [Callers -> Results \cup {Nobody}]
      BY <1>0, <1>5, Replies DEF SubmitTimeout, GiveUp
    <2>2. send' = [send EXCEPT ![m] = "submitted"]
      BY <1>0, <1>5 DEF SubmitTimeout, TypeOK
    <2>. QED BY <1>0, <1>5, <2>1, <2>2, RecUnchanged, SenderTypes DEF SubmitTimeout
  <1>6. CASE Answered(m)
    <2>1. answer[m] \in Results
      BY <1>0, <1>6 DEF Answered
    <2>2. RecKept
      BY <1>0, <1>6, <2>1, ProjectOK, SettlesKept DEF Answered
    <2>3. PICK pc \in {"holding", "unlocking"} : send' = [send EXCEPT ![m] = pc]
      BY <1>6 DEF Answered
    <2>4. answer' \in [Callers -> Results \cup {Nobody}]
      BY <1>0, <1>6 DEF Answered, Hangup
    <2>. QED BY <1>0, <1>6, <2>2, <2>3, <2>4, SenderTypes DEF Answered
  <1>7. CASE AnswerLost(m)
    <2>1. answer' \in [Callers -> Results \cup {Nobody}]
      BY <1>0, <1>7 DEF AnswerLost, Hangup
    <2>. QED BY <1>0, <1>7, <2>1, RecUnchanged, SenderTypes DEF AnswerLost
  <1>8. CASE SendError(m)
    <2>1. CASE send[m] = "waiting" /\ send' = [send EXCEPT ![m] = "done"]
      BY <1>0, <1>8, <2>1, RecUnchanged, SenderTypes DEF SendError
    <2>2. CASE send[m] = "locked" /\ send' = [send EXCEPT ![m] = "unlocking"]
      BY <1>0, <1>8, <2>2, RecUnchanged, SenderTypes DEF SendError
    <2>. QED BY <1>8, <2>1, <2>2 DEF SendError
  <1>9. CASE Launch(m)
    BY <1>0, <1>9, RecUnchanged, SenderTypes DEF Launch
  <1>10. CASE Finish(m)
    BY <1>0, <1>10, RecUnchanged, SenderTypes DEF Finish
  <1>. QED BY <1>1, <1>2, <1>3, <1>4, <1>5, <1>6, <1>7, <1>8, <1>9, <1>10 DEF SendStep


(* PutAccepted: the new message is the last in the order of acceptance. *)
LEMMA AcceptTypes ==
    ASSUME TypeInv, NEW m \in Msgs, Accept(m)
    PROVE  TypeInv'
  <1>. USE DEF helperVars, relVars
  <1>1. /\ send[m] = "idle" /\ rec[m].state = "none" /\ order[m] = 0
        /\ rec \in [Msgs -> Receipt] /\ order \in [Msgs -> 0..Cardinality(Msgs)]
    BY DEF TypeInv, TypeOK, Accepted, Accept
  <1>. DEFINE S == {x \in Msgs : order[x] > 0}
  <1>2. Cardinality(S) + 1 \in 1..Cardinality(Msgs)
    <2>1. IsFiniteSet(Msgs)
      BY DispatchAssumption
    <2>2. S \cup {m} \subseteq Msgs /\ m \notin S
      BY <1>1
    <2>. HIDE DEF S
    <2>3. IsFiniteSet(S \cup {m}) /\ IsFiniteSet(S) /\ Cardinality(S \cup {m}) <= Cardinality(Msgs)
      BY <2>1, <2>2, FS_Subset
    <2>4. Cardinality(S \cup {m}) = Cardinality(S) + 1
      BY <2>2, <2>3, FS_AddElement
    <2>. QED BY <2>1, <2>3, <2>4, FS_CardinalityType
  <1>3. /\ order' = [order EXCEPT ![m] = Cardinality(S) + 1]
        /\ rec' = [rec EXCEPT ![m].state = "accepted"]
        /\ send' = [send EXCEPT ![m] = "waiting"]
    BY DEF Accept
  <1>. HIDE DEF S
  <1>4. /\ order' \in [Msgs -> 0..Cardinality(Msgs)] /\ order'[m] # 0
        /\ \A x \in Msgs \ {m} : order'[x] = order[x]
    BY <1>1, <1>2, <1>3
  <1>5. /\ rec' \in [Msgs -> Receipt] /\ rec'[m].state = "accepted"
        /\ \A x \in Msgs \ {m} : rec'[x] = rec[x]
    BY <1>1, <1>3 DEF Receipt
  <1>6. /\ send' \in [Msgs -> {"idle", "waiting", "locked", "submitted", "holding", "unlocking",
                               "done"}]
        /\ send'[m] = "waiting" /\ \A x \in Msgs \ {m} : send'[x] = send[x]
    BY <1>3 DEF TypeInv, TypeOK
  <1>7. TypeOK'
    BY <1>1, <1>4, <1>5, <1>6 DEF TypeInv, TypeOK, Accept
  <1>8. Memory'
    BY DEF TypeInv, Memory, Accept
  <1>9. /\ m \notin late /\ m \notin rel.listed /\ m \notin rel.todo
        /\ late \cup rel.listed \subseteq Msgs /\ rel.todo \subseteq Msgs
    BY <1>1 DEF TypeInv, TypeOK, Accepted, Release, RelRecord
  <1>10. Release'
    <2>1. /\ rel' = rel /\ Release
          /\ \A x \in rel.todo : order'[x] = order[x]
      BY <1>4, <1>9 DEF TypeInv, Accept
    <2>. QED BY <2>1 DEF Release
  <1>11. Accepted'
    <2>1. \A x \in Msgs : /\ send'[x] = "idle" <=> order'[x] = 0
                          /\ send'[x] = "idle" <=> rec'[x].state = "none"
      BY <1>4, <1>5, <1>6 DEF TypeInv, Accepted
    <2>2. \A x \in late \cup rel.listed : rec'[x].state # "none"
      BY <1>5, <1>9 DEF TypeInv, Accepted
    <2>. QED BY <2>1, <2>2 DEF Accepted, Accept
  <1>12. \A x \in Msgs : poll'[x].pc # "idle" => rec'[x].state # "none"
    BY <1>5 DEF TypeInv, Accept
  <1>. QED BY <1>7, <1>8, <1>10, <1>11, <1>12 DEF TypeInv, Accept

(* The clock and the status readers. *)
LEMMA ReaderTypes ==
    ASSUME TypeInv, RecKept, order' = order, late \subseteq late',
           late' \subseteq {m \in Msgs : rec[m].state # "none"} \cup late,
           poll' \in [Msgs -> PollRecord],
           \A m \in Msgs : poll'[m].pc # "idle" => rec[m].state # "none",
           UNCHANGED <<send, dispatch, before, queue, job, hub, helpers, up, written, answer,
                       rel, launched, parked>>
    PROVE  TypeInv' /\ RecKept
  <1>1. TypeOK'
    BY DEF TypeInv, TypeOK, RecKept
  <1>2. Memory' /\ Release'
    BY DEF TypeInv, Memory, Release
  <1>3. Accepted'
    <2>1. late' \cup rel.listed \subseteq Msgs
      BY <1>1 DEF TypeInv, TypeOK, Release, RelRecord
    <2>2. \A x \in late' \cup rel.listed : rec'[x].state # "none"
      BY <2>1 DEF TypeInv, Accepted, RecKept
    <2>3. \A x \in Msgs : /\ send'[x] = "idle" <=> order'[x] = 0
                          /\ send'[x] = "idle" <=> rec'[x].state = "none"
      BY DEF TypeInv, Accepted, RecKept
    <2>. QED BY <2>2, <2>3 DEF Accepted
  <1>. QED BY <1>1, <1>2, <1>3 DEF TypeInv, RecKept

(* Types are kept by the clock and by every status reader. *)
LEMMA PollTypes ==
    ASSUME TypeInv, NEW m \in Msgs,
           Pass(m) \/ Prune(m) \/ PollRead(m) \/ PollJudge(m) \/ PollHeld(m) \/ PollLate(m) \/ PollExpire(m)
    PROVE  TypeInv' /\ RecKept
  <1>. USE DEF sendVars, storeVars, helperVars, relVars
  <1>0. /\ TypeOK /\ rec \in [Msgs -> Receipt] /\ late \subseteq Msgs
        /\ poll \in [Msgs -> PollRecord]
        /\ \A x \in Msgs : poll[x].pc # "idle" => rec[x].state # "none"
    BY DEF TypeInv, TypeOK
  <1>1. CASE Pass(m)
    BY <1>0, <1>1, RecUnchanged, ReaderTypes DEF Pass
  <1>i. ASSUME NEW misled \in BOOLEAN, PollIdle(m, misled)
        PROVE  /\ poll' \in [Msgs -> PollRecord]
               /\ \A x \in Msgs : poll'[x].pc # "idle" => rec[x].state # "none"
    BY <1>0, <1>i DEF PollIdle, IdlePoll, PollRecord
  <1>2. CASE PollRead(m) \/ PollHeld(m)
    <2>1. /\ poll' \in [Msgs -> PollRecord]
          /\ \A x \in Msgs : poll'[x].pc # "idle" => rec[x].state # "none"
      BY <1>0, <1>2 DEF PollRead, PollHeld, Receipt, Unsettled, PollRecord
    <2>. QED BY <1>0, <1>2, <2>1, RecUnchanged, ReaderTypes DEF PollRead, PollHeld
  <1>3. CASE PollLate(m)
    <2>1. /\ poll' \in [Msgs -> PollRecord]
          /\ \A x \in Msgs : poll'[x].pc # "idle" => rec[x].state # "none"
      <3>1. CASE m \in late /\ Unsettled(m)
        <4>1. /\ poll' = [poll EXCEPT ![m].pc = "due", ![m].handoff = rec[m].handoff]
              /\ rec[m].handoff \in BOOLEAN /\ rec[m].state # "none"
          BY <1>0, <1>3, <3>1 DEF PollLate, Receipt, Unsettled
        <4>. QED BY <1>0, <4>1 DEF PollRecord
      <3>2. CASE PollIdle(m, FALSE)
        BY <1>i, <3>2
      <3>. QED BY <1>3, <3>1, <3>2 DEF PollLate
    <2>. QED BY <1>0, <1>3, <2>1, RecUnchanged, ReaderTypes DEF PollLate
  <1>6. CASE Prune(m)
    <2>1. RecKept
      <3>1. rec[m].handoff \in BOOLEAN
        BY <1>0 DEF Receipt
      <3>2. PICK kind \in Kinds : Settles(m, kind, rec[m].handoff)
        BY <1>0, <1>6, <3>1, SettleDeadlineOK DEF Prune, Kinds, Final
      <3>. QED BY <1>0, <3>1, <3>2, SettlesKept
    <2>. QED BY <1>0, <1>6, <2>1, ReaderTypes DEF Prune
  <1>4. CASE PollExpire(m)
    <2>1. RecKept
      <3>1. poll[m].handoff \in BOOLEAN
        BY <1>0 DEF PollRecord
      <3>2. PICK kind \in Kinds : Settles(m, kind, poll[m].handoff)
        BY <1>0, <1>4, <3>1, SettleDeadlineOK DEF PollExpire, Kinds, Final
      <3>. QED BY <1>0, <3>2, SettlesKept
    <2>2. /\ poll' \in [Msgs -> PollRecord]
          /\ \A x \in Msgs : poll'[x].pc # "idle" => rec[x].state # "none"
      BY <1>4, <1>i DEF PollExpire
    <2>. QED BY <1>0, <1>4, <2>1, <2>2, ReaderTypes DEF PollExpire
  <1>5. CASE PollJudge(m)
    <2>1. RecKept
      <3>1. CASE Settle(m, "failed", TRUE) \/ Settle(m, "stale", FALSE)
        BY <1>0, <3>1, SettleOK, SettlesKept DEF Kinds, Final
      <3>2. CASE job = Nobody /\ (IF hub[m] = Unseen THEN Project(m, Stale) ELSE Project(m, hub[m]))
        <4>1. hub[m] # Unseen => hub[m] \in Results
          BY <3>2, <1>0 DEF TypeInv, Memory, Results, TypeOK, PrivateDelivery
        <4>. QED BY <1>0, <3>2, <4>1, Replies, ProjectOK, SettlesKept
      <3>3. CASE Project(m, Stale) \/ Project(m, Ambiguous)
        BY <1>0, <3>3, Replies, ProjectOK, SettlesKept
      <3>. QED BY <1>5, <3>1, <3>2, <3>3 DEF PollJudge
    <2>2. /\ poll' \in [Msgs -> PollRecord]
          /\ \A x \in Msgs : poll'[x].pc # "idle" => rec[x].state # "none"
      <3>1. (Unsettled(m) /\ rec'[m].state = "stale") \in BOOLEAN
        OBVIOUS
      <3>. QED BY <1>5, <1>i, <3>1 DEF PollJudge
    <2>. QED BY <1>0, <1>5, <2>1, <2>2, ReaderTypes DEF PollJudge
  <1>. QED BY <1>1, <1>2, <1>3, <1>4, <1>5, <1>6


(* The helper's steps, which leave the senders, readers and releases alone. *)
LEMMA HelperTypes ==
    ASSUME TypeInv, RecKept, Memory',
           answer' \in [Callers -> Results \cup {Nobody}],
           queue' \subseteq [caller : Callers, msg : Msgs], job' \in Jobs \cup {Nobody},
           hub' \in [Msgs -> PrivateDelivery], helpers' \in 0..MaxHelpers, up' \in BOOLEAN,
           written' \in [Msgs -> Nat],
           UNCHANGED <<order, late, send, dispatch, before, poll, rel, launched, parked>>
    PROVE  TypeInv' /\ RecKept
  <1>1. TypeOK'
    <2>1. answer' \in [Callers -> Answers]
      BY Replies DEF Answers
    <2>. QED BY <2>1 DEF TypeInv, TypeOK, RecKept
  <1>2. Release'
    BY DEF TypeInv, Release
  <1>3. Accepted'
    <2>1. late \cup rel.listed \subseteq Msgs
      BY DEF TypeInv, TypeOK, Release, RelRecord
    <2>2. \A x \in late \cup rel.listed : rec'[x].state # "none"
      BY <2>1 DEF TypeInv, Accepted, RecKept
    <2>3. \A x \in Msgs : /\ send'[x] = "idle" <=> order'[x] = 0
                          /\ send'[x] = "idle" <=> rec'[x].state = "none"
      BY DEF TypeInv, Accepted, RecKept
    <2>. QED BY <2>2, <2>3 DEF Accepted
  <1>. QED BY <1>1, <1>2, <1>3 DEF TypeInv, RecKept

(* An answer is one of the results, for a caller. *)
LEMMA AnswerTypes ==
    ASSUME TypeInv, NEW c \in Callers, NEW m \in Msgs, NEW d \in Results, Answer(c, m, d)
    PROVE  answer' \in [Callers -> Results \cup {Nobody}]
  BY DEF TypeInv, Answer

(* A request ends with a settled delivery in the helper's memory. *)
LEMMA EndJobTypes ==
    ASSUME TypeInv, NEW c \in Callers, NEW m \in Msgs, NEW d \in Results,
           d.state \in PrivateTerminal, job = Nobody \/ job.msg = m, EndJob(c, m, d)
    PROVE  /\ answer' \in [Callers -> Results \cup {Nobody}]
           /\ hub' \in [Msgs -> PrivateDelivery] /\ job' = Nobody
           /\ Memory'
  <1>1. /\ answer' \in [Callers -> Results \cup {Nobody}] /\ job' = Nobody
        /\ hub' = [hub EXCEPT ![m] = d]
    BY AnswerTypes DEF EndJob
  <1>2. hub' \in [Msgs -> PrivateDelivery]
    BY <1>1, Replies DEF TypeInv, TypeOK
  <1>3. \A x \in Msgs : hub'[x] = Unseen \/ hub'[x].state \in PrivateTerminal
    BY <1>1 DEF TypeInv, TypeOK, Memory
  <1>. QED BY <1>1, <1>2, <1>3 DEF Memory

(* What the helper knows of the message it is serving. *)
LEMMA JobTypes ==
    ASSUME TypeInv, job # Nobody
    PROVE  /\ job \in Jobs /\ job.msg \in Msgs /\ job.caller \in Callers
           /\ job.step \in {"queued", "marked", "written"}
           /\ hub[job.msg] = IF job.step = "written" THEN Settled("handoff", FALSE) ELSE Queued
  <1>1. job \in Jobs
    BY DEF TypeInv, TypeOK
  <1>2. /\ job.msg \in Msgs /\ job.caller \in Callers
        /\ job.step \in {"queued", "marked", "written"}
    BY <1>1 DEF Jobs
  <1>. QED BY <1>1, <1>2, Reductions DEF TypeInv, Memory, Settled

(* Types are kept by every step of the helper's submitPush. *)
LEMMA ServeTypes ==
    ASSUME TypeInv, HelperStep
    PROVE  TypeInv' /\ RecKept
  <1>. USE DEF sendVars, storeVars, helperVars, relVars
  <1>0. /\ TypeOK /\ answer \in [Callers -> Results \cup {Nobody}] /\ Memory
        /\ queue \subseteq [caller : Callers, msg : Msgs] /\ job \in Jobs \cup {Nobody}
        /\ hub \in [Msgs -> PrivateDelivery] /\ helpers \in 0..MaxHelpers /\ up \in BOOLEAN
        /\ written \in [Msgs -> Nat]
    BY DEF TypeInv, TypeOK
  <1>n. Nobody \notin Jobs
    BY NobodyAssumption
  <1>s. \A a \in PrivateTerminal, b \in BOOLEAN : Settled(a, b).state \in PrivateTerminal
    BY DEF Settled
  <1>1. ASSUME NEW q \in queue, TurnAway(q) \/ Replay(q) \/ Take(q) PROVE TypeInv' /\ RecKept
    <2>0. q.caller \in Callers /\ q.msg \in Msgs
      BY <1>0
    <2>1. CASE TurnAway(q)
      <3>1. PICK d \in {Refused, Stale} : Answer(q.caller, q.msg, d)
        BY <2>1 DEF TurnAway
      <3>2. answer' \in [Callers -> Results \cup {Nobody}]
        BY <2>0, <3>1, Replies, AnswerTypes
      <3>3. Memory'
        BY <1>0, <2>1 DEF Memory, TurnAway
      <3>. QED BY <1>0, <2>1, <3>2, <3>3, RecUnchanged, HelperTypes DEF TurnAway
    <2>2. CASE Replay(q)
      <3>1. hub[q.msg] \in Results
        BY <1>0, <2>0, <2>2 DEF Memory, Replay, PrivateDelivery, Results
      <3>2. answer' \in [Callers -> Results \cup {Nobody}]
        BY <2>0, <2>2, <3>1, AnswerTypes DEF Replay
      <3>3. Memory'
        BY <1>0, <2>2 DEF Memory, Replay
      <3>. QED BY <1>0, <2>2, <3>2, <3>3, RecUnchanged, HelperTypes DEF Replay
    <2>3. CASE Take(q)
      <3>0. job = Nobody
        BY <2>3 DEF Take
      <3>1. CASE \E d \in {Settled("expired", FALSE), Settled("refused", FALSE)} :
                    EndJob(q.caller, q.msg, d)
        <4>1. PICK d \in {Settled("expired", FALSE), Settled("refused", FALSE)} :
                    EndJob(q.caller, q.msg, d)
          BY <3>1
        <4>2. d \in Results /\ d.state \in PrivateTerminal
          BY <1>s, Replies DEF PrivateTerminal
        <4>3. /\ answer' \in [Callers -> Results \cup {Nobody}]
              /\ hub' \in [Msgs -> PrivateDelivery] /\ job' = Nobody /\ Memory'
          BY <2>0, <3>0, <4>1, <4>2, EndJobTypes
        <4>. QED BY <1>0, <2>3, <4>3, RecUnchanged, HelperTypes DEF Take
      <3>2. CASE Answer(q.caller, q.msg, [state |-> "held", ambiguous |-> FALSE])
                 /\ UNCHANGED <<job, hub>>
        <4>1. answer' \in [Callers -> Results \cup {Nobody}]
          BY <2>0, <3>2, Replies, AnswerTypes
        <4>2. Memory'
          BY <1>0, <3>2 DEF Memory
        <4>. QED BY <1>0, <2>3, <3>2, <4>1, <4>2, RecUnchanged, HelperTypes DEF Take
      <3>3. CASE /\ job' = [caller |-> q.caller, msg |-> q.msg, step |-> "queued"]
                 /\ hub' = [hub EXCEPT ![q.msg] = Queued] /\ UNCHANGED answer
        <4>1. job' \in Jobs /\ job'.msg = q.msg /\ job'.step = "queued" /\ job' # Nobody
          BY <1>n, <2>0, <3>3 DEF Jobs
        <4>2. hub' \in [Msgs -> PrivateDelivery]
          BY <1>0, <2>0, <3>3, Replies
        <4>3. Memory'
          BY <1>0, <2>0, <3>0, <3>3, <4>1, Reductions DEF Memory
        <4>. QED BY <1>0, <2>3, <3>3, <4>1, <4>2, <4>3, RecUnchanged, HelperTypes DEF Take
      <3>. QED BY <2>3, <3>1, <3>2, <3>3, Reductions DEF Take
    <2>. QED BY <1>1, <2>1, <2>2, <2>3
  <1>2. CASE Mark
    <2>0. job # Nobody /\ job.step = "queued"
      BY <1>2 DEF Mark
    <2>1. /\ job \in Jobs /\ job.msg \in Msgs /\ job.caller \in Callers /\ hub[job.msg] = Queued
      BY <2>0, JobTypes
    <2>2. CASE /\ rec' = [rec EXCEPT ![job.msg].handoff = @ \/ Unsettled(job.msg)]
               /\ job' = [job EXCEPT !.step = "marked"] /\ UNCHANGED <<hub, answer>>
      <3>1. RecKept
        <4>1. PICK b \in BOOLEAN : /\ rec' = [rec EXCEPT ![job.msg].handoff = b]
                                   /\ rec[job.msg].handoff => b
          BY <1>0, <2>1, <2>2 DEF TypeOK, Receipt, Unsettled
        <4>2. /\ rec' \in [Msgs -> Receipt] /\ rec'[job.msg].handoff = b
              /\ rec'[job.msg].state = rec[job.msg].state
              /\ rec'[job.msg].unknown = rec[job.msg].unknown
              /\ \A x \in Msgs \ {job.msg} : rec'[x] = rec[x]
          <5>1. /\ rec'[job.msg] = [rec[job.msg] EXCEPT !.handoff = b] /\ rec[job.msg] \in Receipt
                /\ \A x \in Msgs \ {job.msg} : rec'[x] = rec[x]
            BY <1>0, <2>1, <4>1 DEF TypeOK
          <5>2. /\ rec'[job.msg] \in Receipt /\ rec'[job.msg].handoff = b
                /\ rec'[job.msg].state = rec[job.msg].state
                /\ rec'[job.msg].unknown = rec[job.msg].unknown
            BY <5>1 DEF Receipt
          <5>3. rec' \in [Msgs -> Receipt]
            BY <1>0, <4>1, <5>1, <5>2 DEF TypeOK
          <5>. QED BY <5>1, <5>2, <5>3
        <4>. QED BY <2>1, <4>1, <4>2 DEF RecKept
      <3>2. job' \in Jobs /\ job'.msg = job.msg /\ job'.step = "marked" /\ job' # Nobody
        BY <1>n, <2>1, <2>2 DEF Jobs
      <3>3. Memory'
        BY <1>0, <2>0, <2>1, <2>2, <3>2 DEF Memory
      <3>. QED BY <1>0, <1>2, <2>2, <3>1, <3>2, <3>3, HelperTypes DEF Mark
    <2>3. CASE EndJob(job.caller, job.msg, PrivateReduce(hub[job.msg], "fail", FALSE, TRUE))
               /\ UNCHANGED rec
      <3>1. /\ answer' \in [Callers -> Results \cup {Nobody}]
            /\ hub' \in [Msgs -> PrivateDelivery] /\ job' = Nobody /\ Memory'
        BY <1>s, <2>1, <2>3, Reductions, Replies, EndJobTypes DEF PrivateTerminal
      <3>. QED BY <1>0, <1>2, <2>3, <3>1, RecUnchanged, HelperTypes DEF Mark
    <2>. QED BY <1>2, <2>2, <2>3 DEF Mark
  <1>3. CASE Post
    <2>0. job # Nobody /\ job.step = "marked"
      BY <1>3 DEF Post
    <2>1. /\ job \in Jobs /\ job.msg \in Msgs /\ job.caller \in Callers /\ hub[job.msg] = Queued
      BY <2>0, JobTypes
    <2>2. written' \in [Msgs -> Nat]
      <3>1. written' = written \/ written' = [written EXCEPT ![job.msg] = @ + 1]
        BY <1>3 DEF Post
      <3>. QED BY <1>0, <2>1, <3>1
    <2>3. CASE \E d \in {Settled("expired", FALSE), Settled("failed", FALSE), Settled("failed", TRUE)} :
                   EndJob(job.caller, job.msg, d)
      <3>1. /\ answer' \in [Callers -> Results \cup {Nobody}]
            /\ hub' \in [Msgs -> PrivateDelivery] /\ job' = Nobody /\ Memory'
        BY <1>s, <2>1, <2>3, Replies, EndJobTypes DEF PrivateTerminal
      <3>. QED BY <1>0, <1>3, <2>2, <3>1, RecUnchanged, HelperTypes DEF Post
    <2>4. CASE /\ hub' = [hub EXCEPT ![job.msg] = Settled("handoff", FALSE)]
               /\ job' = [job EXCEPT !.step = "written"] /\ UNCHANGED answer
      <3>1. job' \in Jobs /\ job'.msg = job.msg /\ job'.step = "written" /\ job' # Nobody
        BY <1>n, <2>1, <2>4 DEF Jobs
      <3>2. hub' \in [Msgs -> PrivateDelivery]
        BY <1>0, <2>1, <2>4, Replies
      <3>3. Memory'
        BY <1>0, <2>0, <2>1, <2>4, <3>1 DEF Memory, Settled
      <3>. QED BY <1>0, <1>3, <2>2, <2>4, <3>1, <3>2, <3>3, RecUnchanged, HelperTypes DEF Post
    <2>. QED BY <1>3, <2>1, <2>3, <2>4, Reductions DEF Post
  <1>4. CASE Deliver
    <2>0. job # Nobody /\ job.step = "written"
      BY <1>4 DEF Deliver
    <2>1. /\ job \in Jobs /\ job.msg \in Msgs /\ job.caller \in Callers
          /\ hub[job.msg] = Settled("handoff", FALSE)
      BY <2>0, JobTypes
    <2>2. RecKept
      BY <1>0, <1>4, <2>1, SettleOK, SettlesKept, RecUnchanged DEF Deliver, Kinds, Final
    <2>3. \E d \in {Settled("delivered", FALSE), Settled("failed", TRUE)} :
                   EndJob(job.caller, job.msg, d)
      BY <1>4, <2>1, Reductions DEF Deliver
    <2>4. /\ answer' \in [Callers -> Results \cup {Nobody}]
          /\ hub' \in [Msgs -> PrivateDelivery] /\ job' = Nobody /\ Memory'
      BY <1>s, <2>1, <2>3, Replies, EndJobTypes DEF PrivateTerminal
    <2>. QED BY <1>0, <1>4, <2>2, <2>4, HelperTypes DEF Deliver
  <1>. QED BY <1>1, <1>2, <1>3, <1>4 DEF HelperStep

(* A helper that goes forgets what it knew, and answers who waits for it. *)
LEMMA GoneTypes ==
    ASSUME TypeInv, NEW requests \in SUBSET [caller : Callers, msg : Msgs],
           NEW result \in [Msgs -> Results], HelperGone(requests, result)
    PROVE  TypeInv' /\ RecKept
  <1>. USE DEF sendVars, storeVars, helperVars, relVars
  <1>0. /\ TypeOK /\ answer \in [Callers -> Results \cup {Nobody}]
        /\ helpers \in 0..MaxHelpers /\ written \in [Msgs -> Nat]
    BY DEF TypeInv, TypeOK
  <1>1. answer' \in [Callers -> Results \cup {Nobody}]
    <2>1. ASSUME NEW c \in Callers, \E q \in requests : q.caller = c /\ Waits(c, q.msg)
          PROVE  result[(CHOOSE q \in requests : q.caller = c /\ Waits(c, q.msg)).msg] \in Results
      <3>. DEFINE r == CHOOSE q \in requests : q.caller = c /\ Waits(c, q.msg)
      <3>1. r \in requests
        BY <2>1
      <3>. QED BY <3>1
    <2>. QED BY <1>0, <2>1 DEF HelperGone
  <1>2. hub' \in [Msgs -> PrivateDelivery] /\ Memory'
    BY Replies DEF HelperGone, Memory
  <1>. QED BY <1>0, <1>1, <1>2, RecUnchanged, HelperTypes DEF HelperGone

(* Types are kept when a helper dies, closes or is replaced. *)
LEMMA HelperLifeTypes ==
    ASSUME TypeInv, HelperCrashes \/ HelperCloses \/ HelperStarts
    PROVE  TypeInv' /\ RecKept
  <1>. USE DEF sendVars, storeVars, helperVars, relVars
  <1>1. CASE HelperCrashes
    <2>. DEFINE requests == queue \cup (IF job = Nobody THEN {}
                                        ELSE {[caller |-> job.caller, msg |-> job.msg]})
    <2>1. requests \in SUBSET [caller : Callers, msg : Msgs]
      <3>1. queue \subseteq [caller : Callers, msg : Msgs]
        BY DEF TypeInv, TypeOK
      <3>2. CASE job = Nobody
        BY <3>1, <3>2
      <3>3. CASE job # Nobody
        <4>1. [caller |-> job.caller, msg |-> job.msg] \in [caller : Callers, msg : Msgs]
          BY <3>3, JobTypes
        <4>. QED BY <3>1, <3>3, <4>1
      <3>. QED BY <3>2, <3>3
    <2>2. [m \in Msgs |-> Ambiguous] \in [Msgs -> Results]
      BY Replies
    <2>. QED BY <1>1, <2>1, <2>2, GoneTypes DEF HelperCrashes
  <1>2. CASE HelperCloses
    <2>1. [m \in Msgs |-> IF hub[m] = Unseen THEN Stale ELSE hub[m]] \in [Msgs -> Results]
      BY <1>2, Replies DEF HelperCloses, TypeInv, TypeOK, Memory, PrivateDelivery, Results
    <2>2. queue \in SUBSET [caller : Callers, msg : Msgs]
      BY DEF TypeInv, TypeOK
    <2>. QED BY <1>2, <2>1, <2>2, GoneTypes DEF HelperCloses
  <1>3. CASE HelperStarts
    <2>1. helpers' \in 0..MaxHelpers
      BY <1>3, DispatchAssumption DEF HelperStarts, TypeInv, TypeOK
    <2>2. Memory'
      BY <1>3 DEF HelperStarts, TypeInv, Memory
    <2>. QED BY <1>3, <2>1, <2>2, RecUnchanged, HelperTypes DEF HelperStarts, TypeInv, TypeOK
  <1>. QED BY <1>1, <1>2, <1>3


(* The steps of the release and of the launches. *)
LEMMA ReleaseTypes ==
    ASSUME TypeInv, RecKept, Release',
           answer' \in [Callers -> Results \cup {Nobody}],
           queue' \subseteq [caller : Callers, msg : Msgs],
           launched' \in BOOLEAN, parked' \subseteq Msgs,
           \A m \in rel'.listed \ rel.listed : rec[m].state # "none",
           UNCHANGED <<order, late, send, dispatch, before, poll, job, hub, helpers, up, written>>
    PROVE  TypeInv' /\ RecKept
  <1>1. TypeOK'
    <2>1. answer' \in [Callers -> Answers]
      BY Replies DEF Answers
    <2>. QED BY <2>1 DEF TypeInv, TypeOK, RecKept
  <1>2. Memory'
    BY DEF TypeInv, Memory
  <1>3. Accepted'
    <2>1. late \cup rel'.listed \subseteq Msgs
      BY DEF TypeInv, TypeOK, Release, RelRecord
    <2>2. \A x \in late \cup rel'.listed : rec'[x].state # "none"
      BY <2>1 DEF TypeInv, Accepted, RecKept
    <2>3. \A x \in Msgs : /\ send'[x] = "idle" <=> order'[x] = 0
                          /\ send'[x] = "idle" <=> rec'[x].state = "none"
      BY DEF TypeInv, Accepted, RecKept
    <2>. QED BY <2>2, <2>3 DEF Accepted
  <1>. QED BY <1>1, <1>2, <1>3 DEF TypeInv, RecKept

(* heldReleaseDone: the record at hand leaves the list. *)
LEMMA NextRecordTypes ==
    ASSUME TypeInv, order' = order, rel.pc \in Working, NextRecord
    PROVE  /\ Release' /\ rel'.listed = rel.listed /\ rel'.todo = rel.todo \ {rel.cur}
           /\ rel'.pc \in {"list", "judge"} /\ rel'.handOff = rel.handOff
  <1>. DEFINE rest == rel.todo \ {rel.cur}
  <1>0. /\ rel \in RelRecord
        /\ rel.todo \subseteq rel.listed /\ ~rel.handOff
        /\ TypeOK /\ rest \in SUBSET Msgs
    BY DEF TypeInv, Release, Working, RelRecord
  <1>1. CASE rest = {}
    <2>1. rel' = [rel EXCEPT !.pc = "list", !.todo = {}, !.seen = {}, !.cur = Nobody]
      BY <1>1 DEF NextRecord
    <2>. QED BY <1>0, <1>1, <2>1 DEF Release, Working, RelRecord
  <1>2. CASE rest # {}
    <2>1. rel' = [rel EXCEPT !.pc = "judge", !.todo = rest, !.cur = Oldest(rest)]
      BY <1>2 DEF NextRecord
    <2>2. Oldest(rest) \in rest /\ \A x \in rest : order[Oldest(rest)] <= order[x]
      BY <1>0, <1>2, OldestOK
    <2>. DEFINE old == Oldest(rest)
    <2>. HIDE DEF rest, old
    <2>3. /\ rel' \in RelRecord
          /\ rel'.cur = old /\ rel'.todo = rest /\ rel'.listed = rel.listed /\ rel'.pc = "judge"
          /\ rel'.handOff = rel.handOff
      BY <1>0, <2>1, <2>2 DEF Working, old, RelRecord
    <2>4. rest \subseteq rel.listed
      BY <1>0 DEF rest
    <2>5. old \in rest /\ \A x \in rest : order[old] <= order[x]
      BY <2>2 DEF old
    <2>6. Release'
      BY <1>0, <2>3, <2>4, <2>5 DEF Release, Working
    <2>. QED BY <2>3, <2>6 DEF rest
  <1>. QED BY <1>1, <1>2

(* A change of the release that leaves its work list alone. *)
SameWork(pc) ==
    /\ rel' \in RelRecord /\ rel'.pc = pc /\ rel'.cur = rel.cur /\ rel'.todo = rel.todo
    /\ rel'.listed = rel.listed /\ rel'.handOff = rel.handOff

(* A release that only moves on keeps the oldest record at hand. *)
LEMMA SameList ==
    ASSUME TypeInv, order' = order, rel.pc \in Working, NEW pc \in Working, SameWork(pc)
    PROVE  Release' /\ rel'.listed = rel.listed
  <1>1. ~rel.handOff
    BY DEF TypeInv, Release, Working
  <1>. QED BY <1>1 DEF TypeInv, Release, Working, SameWork

(* A new place, or the opening of the window, leaves the work list alone. *)
LEMMA NewPc ==
    ASSUME TypeInv, NEW pc \in Working, NEW w \in {"unset", "open", "ended"},
           \/ rel' = [rel EXCEPT !.pc = pc]
           \/ rel' = [rel EXCEPT !.pc = pc, !.window = w]
    PROVE  SameWork(pc)
  BY DEF TypeInv, Release, RelRecord, SameWork

(* A release with no work: it has just begun, is about to unlock or is gone. *)
NoWork(pc, handOff) ==
    /\ rel' \in RelRecord /\ rel'.pc = pc /\ rel'.todo = {} /\ rel'.listed = {}
    /\ rel'.handOff = handOff

(* A release with no work is well formed. *)
LEMMA IdleReleaseTypes ==
    ASSUME NEW pc \in {"off", "list", "end"}, NEW b \in BOOLEAN, b => pc = "end", NoWork(pc, b)
    PROVE  Release' /\ rel'.listed = {}
  BY DEF NoWork, Release, Working

(* Types are kept by every step of the release and of those that launch it. *)
LEMMA RelTypes ==
    ASSUME TypeInv, RelStep \/ LaunchGivesUp \/ HookLaunch \/ WindowEnds
    PROVE  TypeInv' /\ RecKept
  <1>. USE DEF sendVars, storeVars, helperVars, relVars, relOthers
  <1>0. /\ TypeOK /\ answer \in [Callers -> Results \cup {Nobody}]
        /\ queue \subseteq [caller : Callers, msg : Msgs]
        /\ launched \in BOOLEAN /\ parked \subseteq Msgs /\ Release /\ Releaser \in Callers
        /\ rec \in [Msgs -> Receipt]
        /\ rel \in RelRecord
    BY DEF TypeInv, TypeOK, Callers, Release
  <1>c. rel.pc \in Working => rel.cur \in Msgs
    BY <1>0 DEF Release, RelRecord
  <1>w. "judge" \in Working /\ "submitted" \in Working /\ "pause" \in Working
    BY DEF Working
  <1>1. CASE RelStart
    <2>1. NoWork("list", FALSE)
      BY <1>1 DEF RelStart, IdleRelease, NoWork, RelRecord
    <2>2. Release' /\ rel'.listed = {}
      BY <2>1, IdleReleaseTypes
    <2>. QED BY <1>0, <1>1, <2>2, RecUnchanged, ReleaseTypes DEF RelStart
  <1>2. CASE RelList
    <2>. DEFINE fresh == Held \ rel.listed
    <2>0. fresh \in SUBSET Msgs
      BY DEF Held
    <2>1. CASE fresh = {}
      <3>1. NoWork("end", FALSE)
        BY <1>2, <2>1 DEF RelList, IdleRelease, NoWork, RelRecord
      <3>2. Release' /\ rel'.listed = {}
        BY <3>1, IdleReleaseTypes
      <3>. QED BY <1>0, <1>2, <3>2, RecUnchanged, ReleaseTypes DEF RelList
    <2>2. CASE fresh # {}
      <3>. DEFINE seen == {m \in fresh : rec[m].handoff}
                  old == Oldest(fresh)
      <3>1. rel' = [rel EXCEPT !.pc = "judge", !.listed = rel.listed \cup Held, !.todo = fresh,
                           !.cur = old, !.seen = seen]
        BY <1>2, <2>2 DEF RelList
      <3>2. old \in fresh /\ \A x \in fresh : order[old] <= order[x]
        BY <1>0, <2>0, <2>2, OldestOK
      <3>3. seen \in SUBSET Msgs /\ Held \subseteq Msgs /\ fresh \subseteq Held
        BY <2>0 DEF Held
      <3>. HIDE DEF seen, old, fresh
      <3>4. /\ rel' \in RelRecord
            /\ rel'.cur = old /\ rel'.todo = fresh /\ rel'.listed = rel.listed \cup Held
            /\ rel'.pc = "judge" /\ rel'.handOff = rel.handOff
        BY <1>0, <1>w, <2>0, <3>1, <3>2, <3>3 DEF RelRecord
      <3>5. ~rel.handOff /\ order' = order
        BY <1>0, <1>2 DEF Release, RelList
      <3>6. Release'
        BY <1>w, <3>2, <3>3, <3>4, <3>5 DEF Release
      <3>7. \A m \in rel'.listed \ rel.listed : rec[m].state # "none"
        BY <3>4 DEF Held
      <3>. QED BY <1>0, <1>2, <3>6, <3>7, RecUnchanged, ReleaseTypes DEF RelList
    <2>. QED BY <2>1, <2>2
  <1>3. CASE RelJudge
    <2>0. rel.pc \in Working /\ rel.cur \in Msgs /\ rec[rel.cur].handoff \in BOOLEAN
      BY <1>0, <1>3, <1>c, <1>w DEF RelJudge, Receipt
    <2>1. CASE NextRecord /\ UNCHANGED <<answer, queue>>
      <3>1. RecKept
        <4>1. PICK m \in Msgs : m = rel.cur
          BY <2>0
        <4>2. CASE Settle(m, "failed", TRUE) \/ Settle(m, "stale", FALSE)
          BY <1>0, <4>2, SettleOK, SettlesKept DEF Kinds, Final
        <4>3. CASE SettleDeadline(m, rec[m].handoff)
          <5>1. PICK kind \in Kinds : Settles(m, kind, rec[m].handoff)
            BY <1>0, <2>0, <4>1, <4>3, SettleDeadlineOK DEF Kinds, Final
          <5>. QED BY <1>0, <5>1, SettlesKept
        <4>4. CASE UNCHANGED rec
          BY <1>0, <4>4, RecUnchanged
        <4>. QED BY <1>3, <4>1, <4>2, <4>3, <4>4 DEF RelJudge
      <3>2. order' = order
        BY <1>3 DEF RelJudge
      <3>3. Release' /\ rel'.listed = rel.listed
        BY <2>0, <2>1, <3>2, NextRecordTypes
      <3>. QED BY <1>0, <1>3, <2>1, <3>1, <3>3, ReleaseTypes DEF RelJudge
    <2>2. CASE rel' = [rel EXCEPT !.pc = "pause"] /\ UNCHANGED <<rec, answer, queue>>
      <3>1. SameWork("pause") /\ order' = order
        BY <1>3, <1>w, <2>2, NewPc DEF RelJudge
      <3>2. Release' /\ rel'.listed = rel.listed
        BY <1>0, <1>w, <2>0, <3>1, SameList
      <3>. QED BY <1>0, <1>3, <2>2, <3>2, RecUnchanged, ReleaseTypes DEF RelJudge
    <2>3. CASE /\ Submit(Releaser, rel.cur) /\ rel' = [rel EXCEPT !.pc = "submitted"]
               /\ UNCHANGED rec
      <3>1. SameWork("submitted") /\ order' = order
        BY <1>3, <1>w, <2>3, NewPc DEF RelJudge
      <3>2. Release' /\ rel'.listed = rel.listed
        BY <1>0, <1>w, <2>0, <3>1, SameList
      <3>3. /\ answer' \in [Callers -> Results \cup {Nobody}]
            /\ queue' \subseteq [caller : Callers, msg : Msgs]
        BY <1>0, <2>0, <2>3, SubmitTypes
      <3>. QED BY <1>0, <1>3, <2>3, <3>2, <3>3, RecUnchanged, ReleaseTypes DEF RelJudge
    <2>. QED BY <1>3, <2>1, <2>2, <2>3 DEF RelJudge
  <1>4. CASE RelTimeout
    <2>1. answer' \in [Callers -> Results \cup {Nobody}]
      BY <1>0, <1>4, Replies DEF RelTimeout, GiveUp
    <2>2. Release'
      BY <1>0, <1>4 DEF RelTimeout, Release
    <2>. QED BY <1>0, <1>4, <2>1, <2>2, RecUnchanged, ReleaseTypes DEF RelTimeout
  <1>5. CASE RelAnswered
    <2>0. rel.pc \in Working /\ rel.cur \in Msgs /\ answer[Releaser] \in Results
      BY <1>0, <1>5, <1>c, <1>w DEF RelAnswered
    <2>1. RecKept
      BY <1>0, <1>5, <2>0, ProjectOK, SettlesKept DEF RelAnswered
    <2>2. order' = order /\ answer' \in [Callers -> Results \cup {Nobody}]
      BY <1>0, <1>5 DEF RelAnswered, Hangup
    <2>3. CASE rel' = [rel EXCEPT !.pc = "pause"]
      <3>1. SameWork("pause")
        BY <1>w, <2>3, NewPc
      <3>2. Release' /\ rel'.listed = rel.listed
        BY <1>0, <1>w, <2>0, <2>2, <3>1, SameList
      <3>. QED BY <1>0, <1>5, <2>1, <2>2, <3>2, ReleaseTypes DEF RelAnswered
    <2>4. CASE NextRecord
      <3>1. Release' /\ rel'.listed = rel.listed
        BY <2>0, <2>2, <2>4, NextRecordTypes
      <3>. QED BY <1>0, <1>5, <2>1, <2>2, <3>1, ReleaseTypes DEF RelAnswered
    <2>. QED BY <1>5, <2>3, <2>4 DEF RelAnswered
  <1>6. CASE RelAnswerLost
    <2>0. rel.pc \in Working
      BY <1>6, <1>w DEF RelAnswerLost
    <2>1. order' = order /\ answer' \in [Callers -> Results \cup {Nobody}]
      BY <1>0, <1>6 DEF RelAnswerLost, Hangup
    <2>2. SameWork("pause")
      BY <1>6, <1>w, NewPc DEF RelAnswerLost
    <2>3. Release' /\ rel'.listed = rel.listed
      BY <1>0, <1>w, <2>0, <2>1, <2>2, SameList
    <2>. QED BY <1>0, <1>6, <2>1, <2>3, RecUnchanged, ReleaseTypes DEF RelAnswerLost
  <1>7. CASE RelPause
    <2>0. /\ rel.pc \in Working /\ rel.cur \in Msgs /\ rec[rel.cur].handoff \in BOOLEAN
          /\ order' = order
      BY <1>0, <1>7, <1>c, <1>w DEF RelPause, Receipt
    <2>1. CASE SettleDeadline(rel.cur, rec[rel.cur].handoff) /\ NextRecord
      <3>1. PICK kind \in Kinds : Settles(rel.cur, kind, rec[rel.cur].handoff)
        BY <1>0, <2>0, <2>1, SettleDeadlineOK DEF Kinds, Final
      <3>2. RecKept
        BY <1>0, <2>0, <3>1, SettlesKept
      <3>3. Release' /\ rel'.listed = rel.listed
        BY <2>0, <2>1, NextRecordTypes
      <3>. QED BY <1>0, <1>7, <3>2, <3>3, ReleaseTypes DEF RelPause
    <2>2. CASE rel' = [rel EXCEPT !.pc = "judge", !.window = "open"] /\ UNCHANGED rec
      <3>1. SameWork("judge")
        BY <1>w, <2>2, NewPc
      <3>2. Release' /\ rel'.listed = rel.listed
        BY <1>w, <2>0, <3>1, SameList
      <3>. QED BY <1>0, <1>7, <2>2, <3>2, RecUnchanged, ReleaseTypes DEF RelPause
    <2>. QED BY <1>7, <2>1, <2>2 DEF RelPause
  <1>8. CASE RelStop
    <2>. DEFINE b == Held \ rel.listed # {}
    <2>0. b \in BOOLEAN /\ rel' = [IdleRelease EXCEPT !.pc = "end", !.handOff = b]
      BY <1>8 DEF RelStop
    <2>. HIDE DEF b
    <2>1. NoWork("end", b)
      BY <2>0 DEF IdleRelease, NoWork, RelRecord
    <2>2. Release' /\ rel'.listed = {}
      BY <2>0, <2>1, IdleReleaseTypes
    <2>3. parked' \subseteq Msgs
      BY <1>0, <1>8 DEF RelStop, Held
    <2>. QED BY <1>0, <1>8, <2>2, <2>3, RecUnchanged, ReleaseTypes DEF RelStop
  <1>9. CASE RelError
    <2>1. NoWork("end", FALSE)
      BY <1>9 DEF RelError, IdleRelease, NoWork, RelRecord
    <2>2. Release' /\ rel'.listed = {}
      BY <2>1, IdleReleaseTypes
    <2>. QED BY <1>0, <1>9, <2>2, RecUnchanged, ReleaseTypes DEF RelError
  <1>10. CASE RelEnd
    <2>1. NoWork("off", FALSE)
      BY <1>10 DEF RelEnd, IdleRelease, NoWork, RelRecord
    <2>2. Release' /\ rel'.listed = {}
      BY <2>1, IdleReleaseTypes
    <2>. QED BY <1>0, <1>10, <2>2, RecUnchanged, ReleaseTypes DEF RelEnd
  <1>11. CASE LaunchGivesUp \/ HookLaunch
    <2>1. Release'
      BY <1>0, <1>11 DEF LaunchGivesUp, HookLaunch, Release
    <2>. QED BY <1>0, <1>11, <2>1, RecUnchanged, ReleaseTypes DEF LaunchGivesUp, HookLaunch
  <1>12. CASE WindowEnds
    <2>1. Release' /\ rel'.listed = rel.listed
      BY <1>0, <1>12 DEF WindowEnds, Release, Working, RelRecord
    <2>. QED BY <1>0, <1>12, <2>1, RecUnchanged, ReleaseTypes DEF WindowEnds
  <1>. QED BY <1>1, <1>2, <1>3, <1>4, <1>5, <1>6, <1>7, <1>8, <1>9, <1>10, <1>11, <1>12 DEF RelStep

(* Nothing is accepted, asked for or released at the start. *)
LEMMA InitTypes == Init => TypeInv
  <1>. SUFFICES ASSUME Init PROVE TypeInv
    OBVIOUS
  <1>. USE DEF Init
  <1>0. /\ Nobody \notin Msgs /\ IsFiniteSet(Msgs) /\ MaxHelpers \in Nat
    BY DispatchAssumption DEF Callers
  <1>1. Cardinality(Msgs) \in Nat
    BY <1>0, FS_CardinalityType
  <1>2. rec \in [Msgs -> Receipt] /\ order \in [Msgs -> 0..Cardinality(Msgs)]
    BY <1>1 DEF Receipt
  <1>3. helpers \in 0..MaxHelpers /\ up \in BOOLEAN
    <2>1. CASE MaxHelpers > 0
      BY <1>0, <2>1
    <2>2. CASE ~(MaxHelpers > 0)
      <3>1. up \in BOOLEAN
        OBVIOUS
      <3>2. ~up
        BY <2>2
      <3>3. helpers = 0
        BY <3>2
      <3>. QED BY <1>0, <3>1, <3>3
    <2>. QED BY <2>1, <2>2
  <1>4. hub \in [Msgs -> PrivateDelivery] /\ answer \in [Callers -> Answers]
    BY Replies DEF Answers
  <1>5. TypeOK
    BY <1>0, <1>2, <1>3, <1>4 DEF TypeOK
  <1>6. Memory
    BY DEF Memory
  <1>7. Release
    BY DEF Release, IdleRelease, Working, RelRecord
  <1>8. Accepted
    BY DEF Accepted, IdleRelease
  <1>9. /\ poll \in [Msgs -> PollRecord]
        /\ \A m \in Msgs : poll[m].pc = "idle"
    BY DEF IdlePoll, PollRecord
  <1>. QED BY <1>5, <1>6, <1>7, <1>8, <1>9 DEF TypeInv

(* TypeInv is inductive, whatever fails. *)
LEMMA StepTypes == TypeInv /\ [Next]_vars => TypeInv'
  <1>1. ASSUME TypeInv, Next PROVE TypeInv'
    BY <1>1, AcceptTypes, SendTypes, PollTypes, ServeTypes, HelperLifeTypes, RelTypes DEF Next
  <1>2. ASSUME TypeInv, vars' = vars PROVE TypeInv'
    <2>1. TypeOK'
      BY <1>2 DEF TypeInv, TypeOK, vars
    <2>2. Memory' /\ Release'
      BY <1>2 DEF TypeInv, Memory, Release, vars
    <2>3. Accepted'
      BY <1>2 DEF TypeInv, Accepted, vars
    <2>. QED BY <1>2, <2>1, <2>2, <2>3 DEF TypeInv, vars
  <1>. QED BY <1>1, <1>2

(* Receipts, program counters, helper memory and locks have their types,    *)
(* whatever fails: the dispatch lock is held by exactly the sender between  *)
(* its Lock and its Finish.                                                *)
THEOREM TypeCorrect == Spec => []TypeOK
  <1>1. TypeInv => TypeOK
    BY DEF TypeInv
  <1>. QED BY <1>1, InitTypes, StepTypes, PTL DEF Spec


-----------------------------------------------------------------------------
(* One frame, no overtaking, no lost hold: a store whose writes succeed. *)

(* What a step may do with a message without a new request for it, a new    *)
(* hold of it or a new entry of it on the release's list.                   *)
Calm(y) ==
    /\ \A c \in Callers : (Req(c, y)' => Req(c, y)) /\ (InQueue(c, y)' => InQueue(c, y))
    /\ (Early(y)' => Early(y)) /\ (Young(y)' => Young(y))
    /\ send'[y] = "submitted" => send[y] = "submitted"
    /\ HeldAns(answer'[y]) => HeldAns(answer[y])
    /\ rec'[y].state = "held" => rec[y].state = "held"
    /\ rec[y].state \in Final => rec'[y].state \in Final
    /\ y \in rel'.todo =>
          /\ y \in rel.todo
          /\ rel.pc = "submitted" /\ rel.cur = y /\ ~HeldAns(answer[Releaser]) =>
                rel'.pc = "submitted" /\ rel'.cur = y /\ ~HeldAns(answer'[Releaser])
    /\ y \in rel.todo \ rel'.todo /\ (Req(Releaser, y) \/ Touched(y)) => rec'[y].state \in Final
    /\ y \in rel'.listed => y \in rel.listed
    /\ Touched(y)' => Touched(y)
    /\ job' # Nobody /\ job'.msg = y /\ job'.step # "written" => written'[y] = 0
    /\ written'[y] <= 1

(* A message to which a step is calm keeps its one request. *)
LEMMA OnceKeeps ==
    ASSUME NEW y \in Msgs, Once(y), Calm(y)
    PROVE  Once(y)'
  <1>0. y \in Callers /\ Releaser \in Callers /\ "held" \notin Final
    BY DEF Callers, Final
  <1>1. \A c \in Callers : Req(c, y)' => c \in {y, Releaser}
    BY DEF Once, Calm
  <1>2. Early(y)' => ~Req(y, y)'
    BY <1>0 DEF Once, Calm
  <1>3. Young(y)' => /\ rec'[y].state # "held" /\ y \notin rel'.todo /\ y \notin rel'.listed
                     /\ ~Req(Releaser, y)'
    BY <1>0 DEF Once, Calm
  <1>4. Req(y, y)' => /\ rec'[y].state # "held" /\ y \notin rel'.todo /\ ~HeldAns(answer'[y])
                      /\ ~Req(Releaser, y)'
    BY <1>0 DEF Once, Calm
  <1>5. Req(Releaser, y)' =>
          IF y \in rel'.todo
          THEN rel'.pc = "submitted" /\ rel'.cur = y /\ ~HeldAns(answer'[Releaser])
          ELSE rec'[y].state \in Final
    BY <1>0 DEF Once, Calm
  <1>6. Touched(y)' =>
          /\ ~Early(y)' /\ \A c \in Callers : ~InQueue(c, y)'
          /\ rec'[y].state = "held" => y \in rel'.todo
          /\ y \in rel'.todo => rel'.pc = "submitted" /\ rel'.cur = y /\ ~HeldAns(answer'[Releaser])
          /\ send'[y] = "submitted" => ~HeldAns(answer'[y])
    BY <1>0 DEF Once, Calm
  <1>7. /\ job' # Nobody /\ job'.msg = y /\ job'.step # "written" => written'[y] = 0
        /\ written'[y] <= 1
    BY DEF Calm
  <1>. QED BY <1>1, <1>2, <1>3, <1>4, <1>5, <1>6, <1>7 DEF Once

(* No new request for a message, or one that nothing held stands before. *)
LEMMA AheadKeeps ==
    ASSUME DispatchInv, RecKept, order' = order, NEW y \in Msgs, before'[y] = before[y],
           Req(y, y)' \/ Req(Releaser, y)' =>
              \/ Req(y, y) \/ Req(Releaser, y)
              \/ \A x \in before[y] : order[x] < order[y] => rec[x].state # "held",
           y \in rel'.listed => \/ y \in rel.listed /\ rel.listed \subseteq rel'.listed
                                \/ Held \subseteq rel'.listed
    PROVE  Ahead(y)'
  <1>0. /\ before[y] \subseteq Msgs /\ Ahead(y) /\ rec \in [Msgs -> Receipt]
        /\ rec' \in [Msgs -> Receipt]
    BY DEF DispatchInv, TypeInv, TypeOK, RecKept
  <1>1. \A x \in before[y] : /\ rec'[x].state \in Final \cup {"held"}
                             /\ rec'[x].state = "held" => rec[x].state = "held"
    <2>. SUFFICES ASSUME NEW x \in before[y]
                  PROVE  /\ rec'[x].state \in Final \cup {"held"}
                         /\ rec'[x].state = "held" => rec[x].state = "held"
      OBVIOUS
    <2>1. x \in Msgs /\ rec[x].state \in Final \cup {"held"}
      BY <1>0 DEF Ahead
    <2>. QED BY <2>1 DEF RecKept
  <1>2. \A x \in before[y] : x \in Held' => x \in Held
    BY <1>0, <1>1 DEF Held
  <1>3. y \in rel'.listed => before'[y] \cap Held' \subseteq rel'.listed
    BY <1>0, <1>2 DEF Ahead
  <1>4. Req(y, y)' \/ Req(Releaser, y)' =>
          \A x \in before'[y] : order'[x] < order'[y] => rec'[x].state # "held"
    BY <1>0, <1>1 DEF Ahead
  <1>. QED BY <1>1, <1>3, <1>4 DEF Ahead

(* Steps that start no release and end none, and hold a message only where  *)
(* its sender goes on to launch the release.                                *)
LEMMA HeldSeenKeeps ==
    ASSUME DispatchInv, rel' = rel, parked' = parked, launched => launched',
           \A y \in Msgs :
              \/ rec'[y].state = "held" => rec[y].state = "held" /\ send'[y] = send[y]
              \/ send'[y] = "holding" /\ y \notin rel.listed
    PROVE  HeldSeen'
  <1>1. /\ rel.listed \cap Held \subseteq rel.todo /\ rel.listed \subseteq Msgs
        /\ rel.pc \in {"off", "end"} =>
             \A m \in Held : launched \/ m \in parked \/ send[m] = "holding" \/ rel.handOff
    BY DEF DispatchInv, HeldSeen, TypeInv, Release, RelRecord
  <1>2. rel.listed \cap Held' \subseteq rel.todo
    BY <1>1 DEF Held
  <1>3. ASSUME rel.pc \in {"off", "end"}, NEW m \in Held'
        PROVE  launched' \/ m \in parked \/ send'[m] = "holding" \/ rel.handOff
    <2>1. m \in Msgs /\ rec'[m].state = "held"
      BY <1>3 DEF Held
    <2>2. CASE rec[m].state = "held" /\ send'[m] = send[m]
      BY <1>1, <1>3, <2>1, <2>2 DEF Held
    <2>. QED BY <2>1, <2>2
  <1>. QED BY <1>2, <1>3 DEF HeldSeen


(* The conjuncts that make up the invariant, from the parts a step disturbs. *)
LEMMA Together ==
    ASSUME TypeInv', Asked', HeldSeen', \A y \in Msgs : Once(y)' /\ Ahead(y)'
    PROVE  DispatchInv'
  BY DEF DispatchInv

(* A sender's step is calm for every other message. *)
LEMMA SenderCalm ==
    ASSUME DispatchInv, NEW m \in Msgs, NEW y \in Msgs \ {m},
           UNCHANGED <<job, hub, written, rel>>,
           \A c \in Callers : InQueue(c, y)' => InQueue(c, y),
           send'[y] = send[y], answer'[y] = answer[y], answer'[Releaser] = answer[Releaser],
           rec'[y] = rec[y]
    PROVE  Calm(y)
  <1>1. Once(y)
    BY DEF DispatchInv
  <1>2. \A c \in Callers : Req(c, y)' => Req(c, y)
    BY DEF Req, Serving
  <1>3. (Early(y)' <=> Early(y)) /\ (Young(y)' <=> Young(y)) /\ (Touched(y)' <=> Touched(y))
    BY DEF Early, Young, Touched
  <1>. QED BY <1>1, <1>2, <1>3 DEF Calm, Once

(* What the invariant says of a message whose sender has not submitted it. *)
LEMMA Untouched ==
    ASSUME DispatchInv, NEW m \in Msgs, Early(m)
    PROVE  /\ \A c \in Callers : ~Req(c, m) /\ ~InQueue(c, m)
           /\ ~Touched(m) /\ (job # Nobody => job.msg # m)
           /\ rec[m].state # "held" /\ m \notin rel.todo /\ m \notin rel.listed
           /\ answer[m] = Nobody
  <1>0. Once(m) /\ Asked /\ TypeInv
    BY DEF DispatchInv
  <1>1. \A c \in Callers : ~Req(c, m)
    BY <1>0 DEF Once, Young
  <1>2. \A c \in Callers : ~InQueue(c, m)
    BY <1>1 DEF Req
  <1>3. job # Nobody => job.msg # m
    BY <1>0, <1>1, JobTypes DEF Req, Serving
  <1>4. ~Touched(m) /\ rec[m].state # "held" /\ m \notin rel.todo /\ m \notin rel.listed
    BY <1>0 DEF Once, Young
  <1>5. answer[m] = Nobody
    BY <1>0 DEF Asked, Early
  <1>. QED BY <1>1, <1>2, <1>3, <1>4, <1>5

(* A message with no request and no trace of the helper. *)
LEMMA OnceFresh ==
    ASSUME NEW m \in Msgs, \A c \in Callers : ~Req(c, m)', ~Touched(m)',
           Young(m)' => rec'[m].state # "held" /\ m \notin rel'.todo /\ m \notin rel'.listed,
           job' # Nobody => job'.msg # m, written'[m] = 0
    PROVE  Once(m)'
  <1>1. m \in Callers /\ Releaser \in Callers
    BY DEF Callers
  <1>. QED BY <1>1 DEF Once

(* The sender's own message in a step that leaves helper and release alone. *)
LEMMA SenderOnce ==
    ASSUME DispatchInv, NEW m \in Msgs, Early(m), ~Early(m)' \/ rec'[m].state # "held",
           UNCHANGED <<job, hub, written, rel>>, queue' = queue,
           Young(m)' => rec'[m].state # "held"
    PROVE  Once(m)'
  <1>1. /\ \A c \in Callers : ~Req(c, m) /\ ~InQueue(c, m)
        /\ ~Touched(m) /\ (job # Nobody => job.msg # m)
        /\ m \notin rel.todo /\ m \notin rel.listed
    BY Untouched
  <1>2. \A c \in Callers : ~Req(c, m)'
    BY <1>1 DEF Req, InQueue, Serving
  <1>3. ~Touched(m)' /\ written'[m] = 0
    <2>1. written[m] \in Nat
      BY DEF DispatchInv, TypeInv, TypeOK
    <2>. QED BY <1>1, <2>1 DEF Touched
  <1>. QED BY <1>1, <1>2, <1>3, OnceFresh


(* A sender's step, given what it does for its own message. *)
LEMMA SenderInv ==
    ASSUME DispatchInv, TypeInv', RecKept, order' = order, NEW m \in Msgs,
           UNCHANGED <<job, hub, written, rel>>,
           queue' \subseteq queue \cup {[caller |-> m, msg |-> m]},
           \A y \in Msgs \ {m} : /\ send'[y] = send[y] /\ answer'[y] = answer[y]
                                 /\ rec'[y] = rec[y] /\ before'[y] = before[y],
           answer'[Releaser] = answer[Releaser],
           answer'[m] # Nobody => send'[m] = "submitted",
           HeldSeen', Once(m)', Ahead(m)'
    PROVE  DispatchInv'
  <1>1. \A y \in Msgs \ {m} : \A c \in Callers : InQueue(c, y)' => InQueue(c, y)
    BY DEF InQueue
  <1>2. ASSUME NEW y \in Msgs \ {m} PROVE Once(y)' /\ Ahead(y)'
    <2>1. Once(y) /\ Calm(y)
      BY <1>1, SenderCalm DEF DispatchInv
    <2>2. y \in Callers /\ Releaser \in Callers
      BY DEF Callers
    <2>3. Req(y, y)' \/ Req(Releaser, y)' => Req(y, y) \/ Req(Releaser, y)
      BY <2>1, <2>2 DEF Calm
    <2>. QED BY <2>1, <2>3, OnceKeeps, AheadKeeps
  <1>3. Asked'
    BY DEF DispatchInv, Asked
  <1>. QED BY <1>2, <1>3, Together

(* The sender's own message keeps its place when nothing new is asked. *)
LEMMA SenderAhead ==
    ASSUME DispatchInv, RecKept, order' = order, NEW m \in Msgs, UNCHANGED <<job, rel>>,
           queue' = queue, before'[m] = before[m]
    PROVE  Ahead(m)'
  <1>1. Req(m, m)' \/ Req(Releaser, m)' => Req(m, m) \/ Req(Releaser, m)
    BY DEF Req, InQueue, Serving
  <1>. QED BY <1>1, AheadKeeps

(* A sender that has submitted goes on with its message. *)
LEMMA SenderMoves ==
    ASSUME DispatchInv, RecKept, NEW m \in Msgs, UNCHANGED <<job, hub, written, rel>>, queue' = queue,
           ~Early(m)', send'[m] = "submitted" => send[m] = "submitted",
           HeldAns(answer'[m]) => HeldAns(answer[m]), answer'[Releaser] = answer[Releaser],
           rec'[m].state = "held" => rec[m].state = "held"
    PROVE  Once(m)'
  <1>1. Once(m)
    BY DEF DispatchInv
  <1>2. \A c \in Callers : (Req(c, m)' => Req(c, m)) /\ (InQueue(c, m)' => InQueue(c, m))
    BY DEF Req, Serving, InQueue
  <1>3. (Early(m)' => Early(m)) /\ (Young(m)' => Young(m)) /\ (Touched(m)' => Touched(m))
    BY DEF Early, Young, Touched
  <1>4. Calm(m)
    BY <1>1, <1>2, <1>3 DEF Calm, Once, RecKept
  <1>. QED BY <1>1, <1>4, OnceKeeps

(* Every step of a sender keeps the dispatch invariant: it asks only for a  *)
(* message nobody touched.                                                  *)
LEMMA SendKeeps ==
    ASSUME ~StoreMayFail, DispatchInv, NEW m \in Msgs, SendStep(m)
    PROVE  DispatchInv'
  <1>. USE DEF sendVars, storeVars, helperVars, relVars
  <1>0. /\ TypeInv' /\ RecKept /\ TypeInv /\ TypeOK /\ Once(m) /\ Ahead(m) /\ HeldSeen /\ Asked
        /\ m \in Callers /\ m # Releaser /\ Releaser \in Callers
        /\ answer \in [Callers -> Results \cup {Nobody}]
        /\ queue \subseteq [caller : Callers, msg : Msgs]
    BY SendTypes, DispatchAssumption DEF DispatchInv, TypeInv, TypeOK, Callers
  <1>1. /\ order' = order /\ UNCHANGED <<job, hub, written, rel, parked>>
        /\ (launched => launched') /\ answer'[Releaser] = answer[Releaser]
        /\ queue' \subseteq queue \cup {[caller |-> m, msg |-> m]}
    <2>. USE DEF SendStep, Lock, LockTimeout, Push, Hold, SubmitTimeout, Answered, AnswerLost, SendError,
               Launch, Finish
    <2>1. order' = order /\ UNCHANGED <<job, hub, written, rel, parked>>
      OBVIOUS
    <2>2. launched => launched'
      OBVIOUS
    <2>3. answer'[Releaser] = answer[Releaser]
      BY <1>0 DEF Submit, GiveUp, Hangup
    <2>4. queue' \subseteq queue \cup {[caller |-> m, msg |-> m]}
      BY DEF Submit
    <2>. QED BY <2>1, <2>2, <2>3, <2>4
  <1>2. \A y \in Msgs \ {m} : /\ send'[y] = send[y] /\ answer'[y] = answer[y]
                              /\ rec'[y] = rec[y] /\ before'[y] = before[y]
    <2>. SUFFICES ASSUME NEW y \in Msgs \ {m}
                  PROVE  /\ send'[y] = send[y] /\ answer'[y] = answer[y]
                         /\ rec'[y] = rec[y] /\ before'[y] = before[y]
      OBVIOUS
    <2>0. y \in Callers /\ y # m
      BY DEF Callers
    <2>1. send'[y] = send[y]
      BY <1>0, <2>0 DEF SendStep, Lock, LockTimeout, Push, Hold, SubmitTimeout, Answered, AnswerLost,
         SendError, Launch, Finish, TypeOK
    <2>2. answer'[y] = answer[y]
      BY <1>0, <2>0 DEF SendStep, Lock, LockTimeout, Push, Hold, SubmitTimeout, Answered, AnswerLost,
         SendError, Launch, Finish, Submit, GiveUp, Hangup
    <2>3. rec'[y] = rec[y]
      BY <1>0, <2>0 DEF SendStep, Lock, LockTimeout, Push, Hold, SubmitTimeout, Answered, AnswerLost,
         SendError, Launch, Finish, Settle, Project, TypeOK
    <2>4. before'[y] = before[y]
      BY <1>0, <2>0 DEF SendStep, Lock, LockTimeout, Push, Hold, SubmitTimeout, Answered, AnswerLost,
         SendError, Launch, Finish, TypeOK
    <2>. QED BY <2>1, <2>2, <2>3, <2>4
  <1>3. CASE Lock(m)
    <2>0. send[m] = "waiting" /\ send'[m] = "locked" /\ rec' = rec /\ answer' = answer /\ queue' = queue
      BY <1>0, <1>3 DEF Lock, TypeOK
    <2>1. Early(m) /\ Early(m)'
      BY <2>0 DEF Early
    <2>2. /\ rec[m].state # "held" /\ m \notin rel.listed /\ answer[m] = Nobody
          /\ \A c \in Callers : ~Req(c, m)
      BY <2>1, Untouched
    <2>3. Once(m)'
      BY <1>1, <2>0, <2>1, <2>2, SenderOnce
    <2>4. Ahead(m)'
      <3>1. before'[m] = Held /\ Held' = Held
        BY <1>0, <1>3, <2>0 DEF Lock, Held, TypeOK
      <3>2. ~Req(m, m)' /\ ~Req(Releaser, m)'
        BY <1>0, <1>1, <2>0, <2>2 DEF Req, InQueue, Serving
      <3>3. \A x \in Held : rec'[x].state = "held"
        BY <2>0 DEF Held
      <3>. QED BY <1>1, <2>2, <3>1, <3>2, <3>3 DEF Ahead
    <2>5. HeldSeen'
      BY <1>0, <1>1, <1>2, <2>0, <2>2, HeldSeenKeeps
    <2>. QED BY <1>0, <1>1, <1>2, <2>0, <2>2, <2>3, <2>4, <2>5, SenderInv
  <1>4. CASE LockTimeout(m)
    <2>0. /\ send[m] = "waiting" /\ send'[m] = "done" /\ answer' = answer /\ queue' = queue
          /\ before' = before /\ Settle(m, "failed", FALSE)
      BY <1>0, <1>4 DEF LockTimeout, TypeOK
    <2>1. Early(m) /\ ~Early(m)' /\ ~Young(m)'
      BY <2>0 DEF Early, Young
    <2>2. rec[m].state # "held" /\ m \notin rel.listed /\ answer[m] = Nobody
      BY <2>1, Untouched
    <2>3. rec'[m].state # "held"
      BY <1>0, <2>0, <2>2, SettleOK DEF Settles, Kinds, Final, TypeOK, Receipt
    <2>4. Once(m)'
      BY <1>1, <2>0, <2>1, SenderOnce
    <2>5. Ahead(m)'
      BY <1>0, <1>1, <2>0, SenderAhead
    <2>6. HeldSeen'
      BY <1>0, <1>1, <1>2, <2>3, HeldSeenKeeps
    <2>. QED BY <1>0, <1>1, <1>2, <2>0, <2>2, <2>4, <2>5, <2>6, SenderInv
  <1>5. CASE Push(m)
    <2>0. /\ send[m] = "locked" /\ send'[m] = "submitted" /\ rec' = rec /\ before' = before
          /\ ~EarlierHeld(m) /\ Submit(m, m)
      BY <1>0, <1>5 DEF Push, TypeOK
    <2>1. Early(m) /\ ~Early(m)' /\ Young(m)'
      BY <2>0 DEF Early, Young
    <2>2. /\ rec[m].state # "held" /\ m \notin rel.listed /\ answer[m] = Nobody /\ m \notin rel.todo
          /\ \A c \in Callers : ~Req(c, m) /\ ~InQueue(c, m)
          /\ ~Touched(m) /\ (job # Nobody => job.msg # m)
      BY <2>1, Untouched
    <2>3. HeldSeen'
      BY <1>0, <1>1, <1>2, <2>0, <2>2, HeldSeenKeeps
    <2>4. \A c \in Callers : Req(c, m)' => c = m
      BY <1>1, <2>2 DEF Req, InQueue, Serving
    <2>5. ~Touched(m)' /\ written'[m] = 0
      <3>1. written[m] \in Nat
        BY <1>0 DEF TypeOK
      <3>. QED BY <1>1, <2>2, <3>1 DEF Touched
    <2>6. Req(m, m)' => answer'[m] = Nobody
      <3>1. CASE answer' = answer
        BY <2>2, <3>1
      <3>2. CASE queue' = queue
        BY <1>0, <1>1, <2>2, <3>2 DEF Req, InQueue, Serving
      <3>. QED BY <2>0, <3>1, <3>2 DEF Submit
    <2>7. Once(m)'
      BY <1>0, <1>1, <2>0, <2>1, <2>2, <2>4, <2>5, <2>6 DEF Once, HeldAns
    <2>8. Ahead(m)'
      <3>1. \A x \in before[m] : order[x] < order[m] => rec[x].state # "held"
        <4>. SUFFICES ASSUME NEW x \in before[m], order[x] < order[m], rec[x].state = "held"
                      PROVE  FALSE
          OBVIOUS
        <4>1. x \in Msgs /\ order[x] \in 0..Cardinality(Msgs)
          BY <1>0 DEF TypeOK
        <4>2. x # m
          BY <4>1
        <4>. QED BY <2>0, <4>1, <4>2 DEF EarlierHeld, Held
      <3>. QED BY <1>0, <1>1, <2>0, <2>2, <3>1, AheadKeeps
    <2>. QED BY <1>0, <1>1, <1>2, <2>0, <2>3, <2>7, <2>8, SenderInv
  <1>6. CASE Hold(m)
    <2>0. /\ send[m] = "locked" /\ send'[m] \in {"holding", "unlocking"}
          /\ rec'[m].state = "held" => send'[m] = "holding"
          /\ answer' = answer /\ queue' = queue /\ before' = before
      BY <1>0, <1>6 DEF Hold, TypeOK
    <2>1. Early(m) /\ ~Early(m)' /\ ~Young(m)'
      BY <2>0 DEF Early, Young
    <2>2. rec[m].state # "held" /\ m \notin rel.listed /\ answer[m] = Nobody
      BY <2>1, Untouched
    <2>3. Once(m)'
      BY <1>1, <2>0, <2>1, SenderOnce
    <2>4. Ahead(m)'
      BY <1>0, <1>1, <2>0, SenderAhead
    <2>5. HeldSeen'
      BY <1>0, <1>1, <1>2, <2>0, <2>2, HeldSeenKeeps
    <2>. QED BY <1>0, <1>1, <1>2, <2>0, <2>2, <2>3, <2>4, <2>5, SenderInv
  <1>7. CASE SubmitTimeout(m)
    <2>0. /\ send[m] = "submitted" /\ send' = send /\ rec' = rec
          /\ answer'[m] = Ambiguous /\ queue' = queue /\ before' = before
      BY <1>0, <1>7 DEF SubmitTimeout, GiveUp
    <2>1. ~Early(m)' /\ ~HeldAns(answer'[m])
      BY <2>0 DEF Early, HeldAns, Ambiguous
    <2>2. Once(m)'
      BY <1>0, <1>1, <2>0, <2>1, SenderMoves
    <2>3. Ahead(m)'
      BY <1>0, <1>1, <2>0, SenderAhead
    <2>4. HeldSeen'
      BY <1>0, <1>1, <1>2, <2>0, HeldSeenKeeps
    <2>. QED BY <1>0, <1>1, <1>2, <2>0, <2>2, <2>3, <2>4, SenderInv
  <1>8. CASE Answered(m)
    <2>0. /\ send[m] = "submitted" /\ send'[m] \in {"holding", "unlocking"}
          /\ rec'[m].state = "held" => send'[m] = "holding"
          /\ answer[m] \in Results /\ answer[m] # Nobody /\ Project(m, answer[m])
          /\ answer'[m] = Nobody /\ queue' = queue /\ before' = before
      BY <1>0, <1>8 DEF Answered, Hangup, TypeOK
    <2>1. Young(m) /\ ~Early(m)' /\ ~Young(m)'
      BY <2>0 DEF Early, Young
    <2>2. rec[m].state # "held" /\ m \notin rel.listed /\ m \notin rel.todo /\ ~Req(Releaser, m)
      BY <1>0, <2>1 DEF Once
    <2>3. Once(m)'
      <3>1. CASE rec'[m].state # "held"
        BY <1>0, <1>1, <2>0, <2>1, <3>1, SenderMoves DEF HeldAns
      <3>2. CASE rec'[m].state = "held"
        <4>1. HeldAns(answer[m])
          BY <1>0, <2>0, <2>2, <3>2, ProjectOK
             DEF Settles, HeldAns, KindOf, Kinds, Final, TypeOK, Receipt
        <4>2. ~Req(m, m) /\ ~Touched(m)
          BY <1>0, <2>0, <4>1 DEF Once
        <4>3. \A c \in Callers : ~Req(c, m)
          BY <1>0, <2>2, <4>2 DEF Once
        <4>4. \A c \in Callers : ~Req(c, m)'
          BY <1>1, <2>0, <4>3 DEF Req, InQueue, Serving
        <4>5. ~Touched(m)' /\ written'[m] = 0
          <5>1. written[m] \in Nat
            BY <1>0 DEF TypeOK
          <5>. QED BY <1>1, <4>2, <5>1 DEF Touched
        <4>6. job' # Nobody => job'.msg # m
          BY <1>0, <1>1, <4>3, JobTypes DEF Req, Serving
        <4>. QED BY <2>1, <4>4, <4>5, <4>6, OnceFresh
      <3>. QED BY <3>1, <3>2
    <2>4. Ahead(m)'
      BY <1>0, <1>1, <2>0, SenderAhead
    <2>5. HeldSeen'
      BY <1>0, <1>1, <1>2, <2>0, <2>2, HeldSeenKeeps
    <2>. QED BY <1>0, <1>1, <1>2, <2>0, <2>3, <2>4, <2>5, SenderInv
  <1>9. CASE Launch(m) \/ Finish(m)
    <2>0. /\ send[m] \in {"holding", "unlocking"} /\ send'[m] \in {"unlocking", "done"}
          /\ rec' = rec /\ answer' = answer /\ queue' = queue /\ before' = before
      BY <1>0, <1>9 DEF Launch, Finish, TypeOK
    <2>1. ~Early(m)' /\ send[m] # "submitted" /\ send'[m] # "submitted" /\ answer[m] = Nobody
      BY <1>0, <2>0 DEF Early, Asked
    <2>2. Once(m)'
      BY <1>0, <1>1, <2>0, <2>1, SenderMoves
    <2>3. Ahead(m)'
      BY <1>0, <1>1, <2>0, SenderAhead
    <2>4. HeldSeen'
      <3>1. CASE Launch(m)
        <4>1. Held' = Held /\ launched' = (launched \/ Held # {})
          BY <2>0, <3>1 DEF Launch, Held
        <4>. QED BY <1>0, <1>1, <4>1 DEF HeldSeen
      <3>2. CASE Finish(m)
        <4>1. send[m] = "unlocking" /\ Held' = Held /\ launched' = launched
          BY <2>0, <3>2 DEF Finish, Held
        <4>2. \A x \in Held : send[x] = "holding" => send'[x] = "holding"
          BY <1>2, <4>1 DEF Held
        <4>. QED BY <1>0, <1>1, <4>1, <4>2 DEF HeldSeen
      <3>. QED BY <1>9, <3>1, <3>2
    <2>. QED BY <1>0, <1>1, <1>2, <2>0, <2>1, <2>2, <2>3, <2>4, SenderInv
  <1>. QED BY <1>3, <1>4, <1>5, <1>6, <1>7, <1>8, <1>9 DEF SendStep, AnswerLost, SendError


(* PutAccepted: nobody has a request for the message yet. *)
LEMMA AcceptKeeps ==
    ASSUME DispatchInv, NEW m \in Msgs, Accept(m)
    PROVE  DispatchInv'
  <1>. USE DEF helperVars, relVars
  <1>0. /\ TypeInv' /\ TypeInv /\ TypeOK /\ Once(m) /\ HeldSeen /\ Asked
        /\ m \in Callers /\ m # Releaser /\ Releaser \in Callers
    BY AcceptTypes, DispatchAssumption DEF DispatchInv, TypeInv, Callers
  <1>1. /\ send[m] = "idle" /\ send'[m] = "waiting" /\ rec[m].state = "none"
        /\ rec'[m].state = "accepted" /\ answer' = answer /\ queue' = queue /\ before' = before
        /\ UNCHANGED <<job, hub, written, rel, parked, launched>>
        /\ \A y \in Msgs \ {m} : rec'[y] = rec[y] /\ send'[y] = send[y] /\ order'[y] = order[y]
    BY <1>0 DEF Accept, TypeOK, TypeInv, Accepted, Receipt
  <1>2. Early(m) /\ Early(m)'
    BY <1>1 DEF Early
  <1>3. /\ m \notin rel.listed /\ answer[m] = Nobody /\ \A c \in Callers : ~Req(c, m)
    BY <1>2, Untouched
  <1>4. Once(m)'
    BY <1>1, <1>2, SenderOnce
  <1>5. \A y \in Msgs : \A x \in before[y] : x \in Msgs \ {m}
    <2>. SUFFICES ASSUME NEW y \in Msgs, NEW x \in before[y] PROVE x \in Msgs /\ x # m
      OBVIOUS
    <2>1. Ahead(y) /\ before[y] \subseteq Msgs
      BY DEF DispatchInv, TypeInv, TypeOK
    <2>. QED BY <1>1, <2>1 DEF Ahead, Final
  <1>6. Held' = Held
    BY <1>1 DEF Held
  <1>7. ASSUME NEW y \in Msgs PROVE Ahead(y)'
    <2>0. Ahead(y)
      BY DEF DispatchInv
    <2>1. \A c \in Callers : Req(c, y)' => Req(c, y)
      BY <1>1 DEF Req, InQueue, Serving
    <2>2. \A x \in before[y] : rec'[x] = rec[x] /\ order'[x] = order[x]
      BY <1>1, <1>5
    <2>3. y \in Callers
      BY DEF Callers
    <2>4. Req(y, y)' \/ Req(Releaser, y)' => order'[y] = order[y]
      BY <1>0, <1>1, <1>3, <2>1, <2>3
    <2>5. Req(y, y)' \/ Req(Releaser, y)' =>
             \A x \in before'[y] : order'[x] < order'[y] => rec'[x].state # "held"
      BY <1>0, <1>1, <2>0, <2>1, <2>2, <2>3, <2>4 DEF Ahead
    <2>6. /\ \A x \in before'[y] : rec'[x].state \in Final \cup {"held"}
          /\ y \in rel'.listed => before'[y] \cap Held' \subseteq rel'.listed
      BY <1>1, <1>6, <2>0, <2>2 DEF Ahead
    <2>. QED BY <2>5, <2>6 DEF Ahead
  <1>8. ASSUME NEW y \in Msgs \ {m} PROVE Once(y)'
    <2>1. \A c \in Callers : InQueue(c, y)' => InQueue(c, y)
      BY <1>1 DEF InQueue
    <2>. QED BY <1>1, <2>1, SenderCalm, OnceKeeps DEF DispatchInv
  <1>9. HeldSeen'
    BY <1>1, HeldSeenKeeps
  <1>10. Asked'
    BY <1>0, <1>1, <1>3 DEF Asked
  <1>. QED BY <1>0, <1>4, <1>7, <1>8, <1>9, <1>10, Together

(* A step that only settles a receipt, marks it or moves the clock. *)
LEMMA StoreKeeps ==
    ASSUME DispatchInv, TypeInv', RecKept, order' = order,
           UNCHANGED <<send, answer, queue, job, hub, written, before, rel, launched, parked>>,
           \A y \in Msgs : rec'[y].state = "held" => rec[y].state = "held"
    PROVE  DispatchInv'
  <1>1. ASSUME NEW y \in Msgs PROVE Once(y)' /\ Ahead(y)'
    <2>1. Once(y)
      BY DEF DispatchInv
    <2>2. \A c \in Callers : (Req(c, y)' => Req(c, y)) /\ (InQueue(c, y)' => InQueue(c, y))
      BY DEF Req, Serving, InQueue
    <2>3. (Early(y)' <=> Early(y)) /\ (Young(y)' <=> Young(y)) /\ (Touched(y)' <=> Touched(y))
      BY DEF Early, Young, Touched
    <2>4. Calm(y)
      BY <2>1, <2>2, <2>3 DEF Calm, Once, RecKept
    <2>5. y \in Callers /\ Releaser \in Callers
      BY DEF Callers
    <2>6. Ahead(y)'
      BY <2>2, <2>5, AheadKeeps
    <2>. QED BY <2>1, <2>4, <2>6, OnceKeeps
  <1>2. HeldSeen'
    BY HeldSeenKeeps
  <1>3. Asked'
    BY DEF DispatchInv, Asked
  <1>. QED BY <1>1, <1>2, <1>3, Together

(* The clock and the status readers keep it: they only settle receipts. *)
LEMMA PollKeeps ==
    ASSUME DispatchInv, NEW m \in Msgs,
           Pass(m) \/ Prune(m) \/ PollRead(m) \/ PollJudge(m) \/ PollHeld(m) \/ PollLate(m) \/ PollExpire(m)
    PROVE  DispatchInv'
  <1>. USE DEF sendVars, storeVars, helperVars, relVars
  <1>0. TypeInv' /\ RecKept /\ TypeInv /\ TypeOK
    BY PollTypes DEF DispatchInv, TypeInv
  <1>1. /\ order' = order
        /\ UNCHANGED <<send, answer, queue, job, hub, written, before, rel, launched, parked>>
    BY DEF Pass, Prune, PollRead, PollJudge, PollHeld, PollLate, PollExpire
  <1>2. \A y \in Msgs : rec'[y].state = "held" => rec[y].state = "held"
    <2>1. CASE rec' = rec
      BY <2>1
    <2>2. CASE \E kind \in Final, unknown \in BOOLEAN : Settles(m, kind, unknown)
      BY <1>0, <2>2 DEF Settles, Final
    <2>5. CASE Prune(m)
      <3>1. rec[m].handoff \in BOOLEAN
        BY <1>0 DEF TypeOK, Receipt
      <3>. QED BY <1>0, <2>2, <2>5, <3>1, SettleDeadlineOK DEF Prune, Final
    <2>3. CASE PollExpire(m)
      <3>1. poll[m].handoff \in BOOLEAN
        BY <1>0 DEF TypeInv, PollRecord
      <3>. QED BY <1>0, <2>2, <2>3, <3>1, SettleDeadlineOK DEF PollExpire, Final
    <2>4. CASE PollJudge(m)
      <3>1. CASE Settle(m, "failed", TRUE) \/ Settle(m, "stale", FALSE)
        BY <1>0, <2>2, <3>1, SettleOK DEF Kinds, Final
      <3>2. CASE \E a \in Results : a.state \in PrivateTerminal /\ Project(m, a)
        <4>1. PICK a \in Results : a.state \in PrivateTerminal /\ Project(m, a)
          BY <3>2
        <4>2. KindOf(a) \in Final /\ UnknownOf(a) \in BOOLEAN /\ Settles(m, KindOf(a), UnknownOf(a))
          BY <1>0, <4>1, ProjectOK DEF KindOf, PrivateTerminal, Final
        <4>. QED BY <2>2, <4>2
      <3>3. Stale.state \in PrivateTerminal /\ Ambiguous.state \in PrivateTerminal
        BY DEF Stale, Ambiguous, PrivateTerminal
      <3>4. job = Nobody /\ hub[m] # Unseen => hub[m] \in Results /\ hub[m].state \in PrivateTerminal
        BY <1>0 DEF TypeInv, TypeOK, Memory, PrivateDelivery, Results
      <3>. QED BY <2>1, <2>4, <3>1, <3>2, <3>3, <3>4, Replies DEF PollJudge
    <2>. QED BY <2>1, <2>3, <2>4, <2>5 DEF Pass, PollRead, PollHeld, PollLate
  <1>. QED BY <1>0, <1>1, <1>2, StoreKeeps


(* The helper's part in one message, when it neither takes nor holds it. *)
LEMMA HelperCalm ==
    ASSUME DispatchInv, RecKept, NEW y \in Msgs, UNCHANGED <<send, rel>>,
           \A c \in Callers : (Req(c, y)' => Req(c, y)) /\ (InQueue(c, y)' => InQueue(c, y)),
           Touched(y)' => Touched(y),
           HeldAns(answer'[y]) => HeldAns(answer[y]),
           rel.cur = y => (HeldAns(answer'[Releaser]) => HeldAns(answer[Releaser])),
           rec'[y].state = "held" => rec[y].state = "held",
           job' # Nobody /\ job'.msg = y /\ job'.step # "written" => written'[y] = 0,
           written'[y] <= 1
    PROVE  Once(y)'
  <1>1. Once(y)
    BY DEF DispatchInv
  <1>2. (Early(y)' <=> Early(y)) /\ (Young(y)' <=> Young(y))
    BY DEF Early, Young
  <1>3. Calm(y)
    BY <1>1, <1>2 DEF Calm, RecKept
  <1>. QED BY <1>1, <1>3, OnceKeeps

(* A helper's step, given what it does to each message. *)
LEMMA HelperInv ==
    ASSUME DispatchInv, TypeInv', RecKept,
           UNCHANGED <<order, send, before, rel, launched, parked>>,
           \A y \in Msgs : rec'[y].state = "held" => rec[y].state = "held",
           \A y \in Msgs : \A c \in Callers : Req(c, y)' => Req(c, y),
           Asked', \A y \in Msgs : Once(y)'
    PROVE  DispatchInv'
  <1>1. ASSUME NEW y \in Msgs PROVE Ahead(y)'
    <2>1. y \in Callers /\ Releaser \in Callers
      BY DEF Callers
    <2>. QED BY <2>1, AheadKeeps
  <1>2. HeldSeen'
    BY HeldSeenKeeps
  <1>. QED BY <1>1, <1>2, Together

(* An answer changes what one caller sees, if it is still waiting. *)
LEMMA AnswerOK ==
    ASSUME DispatchInv, NEW c \in Callers, NEW m \in Msgs, NEW d \in Results, Answer(c, m, d),
           UNCHANGED <<send, rel>>
    PROVE  /\ Asked'
           /\ \A b \in Callers \ {c} : answer'[b] = answer[b]
           /\ answer'[c] # answer[c] => Waits(c, m) /\ answer'[c] = d
           /\ ~HeldAns(d) => \A b \in Callers : HeldAns(answer'[b]) => HeldAns(answer[b])
  <1>0. answer \in [Callers -> Results \cup {Nobody}] /\ Asked /\ Msgs \subseteq Callers
        /\ Releaser \in Callers /\ Releaser \notin Msgs
    BY DispatchAssumption DEF DispatchInv, TypeInv, Callers
  <1>1. /\ \A b \in Callers \ {c} : answer'[b] = answer[b]
        /\ answer'[c] # answer[c] => Waits(c, m) /\ answer'[c] = d
    BY <1>0 DEF Answer
  <1>2. answer'[c] # Nobody => answer[c] # Nobody \/ Waits(c, m)
    BY <1>1
  <1>3. Waits(c, m) => IF c = Releaser THEN rel.pc = "submitted" ELSE send[c] = "submitted"
    BY DEF Waits
  <1>4. Asked'
    BY <1>0, <1>1, <1>2, <1>3 DEF Asked
  <1>. QED BY <1>1, <1>4

(* A message in the helper's queue was never touched, and nobody else asks  *)
(* for it.                                                                  *)
LEMMA InQueueOK ==
    ASSUME DispatchInv, NEW c \in Callers, NEW m \in Msgs, InQueue(c, m)
    PROVE  /\ c \in {m, Releaser} /\ ~Touched(m) /\ written[m] = 0 /\ hub[m] = Unseen
           /\ ~Early(m) /\ (job # Nobody => job.msg # m)
           /\ \A b \in Callers \ {c} : ~Req(b, m)
           /\ rec[m].state = "held" => m \in rel.todo
           /\ c = m => m \notin rel.todo /\ ~HeldAns(answer[m])
           /\ m \in rel.todo =>
                 /\ c = Releaser /\ rel.pc = "submitted" /\ rel.cur = m
                 /\ ~HeldAns(answer[Releaser])
           /\ m \notin rel.todo => rec[m].state # "held"
           /\ c = Releaser => ~Young(m)
  <1>0. Once(m) /\ Req(c, m) /\ m \in Callers /\ Releaser \in Callers /\ TypeInv
        /\ Releaser \notin Msgs /\ written[m] \in Nat
    BY DispatchAssumption DEF DispatchInv, Req, Callers, TypeInv, TypeOK
  <1>1. c \in {m, Releaser}
    BY <1>0 DEF Once
  <1>2. ~Touched(m)
    BY <1>0 DEF Once
  <1>3. written[m] = 0 /\ hub[m] = Unseen
    BY <1>0, <1>2 DEF Touched
  <1>4. job # Nobody => job.msg # m
    BY <1>0, <1>3, JobTypes, Reductions DEF Unseen, Settled
  <1>5. /\ ~Early(m) /\ \A b \in Callers \ {c} : ~Req(b, m)
        /\ c = Releaser => ~Young(m)
    BY <1>0, <1>1 DEF Once, Young
  <1>6. CASE c = m
    <2>1. rec[m].state # "held" /\ m \notin rel.todo /\ ~HeldAns(answer[m]) /\ c # Releaser
      BY <1>0, <1>6 DEF Once
    <2>. QED BY <1>1, <1>2, <1>3, <1>4, <1>5, <2>1
  <1>7. CASE c = Releaser
    <2>1. IF m \in rel.todo
          THEN rel.pc = "submitted" /\ rel.cur = m /\ ~HeldAns(answer[Releaser])
          ELSE rec[m].state \in Final
      BY <1>0, <1>7 DEF Once
    <2>2. c # m
      BY <1>0, <1>7
    <2>3. "held" \notin Final
      BY DEF Final
    <2>. QED BY <1>1, <1>2, <1>3, <1>4, <1>5, <1>7, <2>1, <2>2, <2>3
  <1>. QED BY <1>1, <1>6, <1>7

(* The helper takes a message from its queue. *)
LEMMA TakeOnce ==
    ASSUME DispatchInv, NEW c \in Callers, NEW m \in Msgs, InQueue(c, m),
           UNCHANGED <<send, rel, rec, written>>,
           \A b \in Callers : ~InQueue(b, m)' /\ (Req(b, m)' => b = c),
           \A b \in Callers : HeldAns(answer'[b]) => HeldAns(answer[b])
    PROVE  Once(m)'
  <1>0. Once(m) /\ m \in Callers /\ Releaser \in Callers /\ Releaser \notin Msgs
    BY DispatchAssumption DEF DispatchInv, Callers
  <1>1. /\ c \in {m, Releaser} /\ written[m] = 0
        /\ ~Early(m)
        /\ rec[m].state = "held" => m \in rel.todo
        /\ c = m => m \notin rel.todo /\ ~HeldAns(answer[m])
        /\ m \in rel.todo =>
              /\ c = Releaser /\ rel.pc = "submitted" /\ rel.cur = m
              /\ ~HeldAns(answer[Releaser])
        /\ c = Releaser => ~Young(m)
    BY InQueueOK
  <1>2. (Early(m)' <=> Early(m)) /\ (Young(m)' <=> Young(m))
    BY DEF Early, Young
  <1>3. Req(c, m)
    BY DEF Req
  <1>4. Req(Releaser, m)' => c = Releaser
    BY <1>0
  <1>5. Req(m, m)' => c = m
    BY <1>0
  <1>6. c = m /\ send[m] = "submitted" => ~HeldAns(answer'[m])
    BY <1>0, <1>1
  <1>7. c = Releaser => send[m] # "submitted"
    BY <1>1 DEF Young
  <1>. QED BY <1>0, <1>1, <1>2, <1>3, <1>4, <1>5, <1>6, <1>7 DEF Once


(* The helper's serving of one request ends or goes on. *)
LEMMA ServingOnce ==
    ASSUME DispatchInv, RecKept, job # Nobody, UNCHANGED <<send, rel, queue>>,
           job' # Nobody => job'.msg = job.msg /\ job'.caller = job.caller,
           \A y \in Msgs \ {job.msg} : hub'[y] = hub[y] /\ written'[y] = written[y],
           \A b \in Callers : HeldAns(answer'[b]) => HeldAns(answer[b]),
           \A y \in Msgs : rec'[y].state = "held" => rec[y].state = "held",
           job' # Nobody /\ job'.step # "written" => written'[job.msg] = 0,
           written'[job.msg] <= 1
    PROVE  /\ \A y \in Msgs : Once(y)'
           /\ \A y \in Msgs : \A c \in Callers : Req(c, y)' => Req(c, y)
  <1>0. /\ TypeInv /\ job.msg \in Msgs /\ Msgs \subseteq Callers /\ Releaser \in Callers
        /\ hub[job.msg] # Unseen
    BY JobTypes, Reductions DEF DispatchInv, Callers, Unseen, Settled
  <1>1. \A y \in Msgs : \A c \in Callers : /\ Req(c, y)' => Req(c, y)
                                           /\ InQueue(c, y)' => InQueue(c, y)
    BY DEF Req, Serving, InQueue
  <1>2. ASSUME NEW y \in Msgs PROVE Once(y)'
    <2>0. Once(y)
      BY DEF DispatchInv
    <2>1. Touched(y)' => Touched(y)
      BY <1>0 DEF Touched
    <2>2. /\ job' # Nobody /\ job'.msg = y /\ job'.step # "written" => written'[y] = 0
          /\ written'[y] <= 1
      BY <2>0 DEF Once
    <2>. QED BY <1>0, <1>1, <2>1, <2>2, HelperCalm
  <1>. QED BY <1>1, <1>2

(* The helper keeps it: it writes only for the request it is serving. *)
LEMMA ServeKeeps ==
    ASSUME ~StoreMayFail, DispatchInv, HelperStep
    PROVE  DispatchInv'
  <1>. USE DEF sendVars, storeVars, helperVars, relVars
  <1>0. /\ TypeInv' /\ RecKept /\ TypeInv /\ TypeOK
        /\ answer \in [Callers -> Results \cup {Nobody}]
        /\ queue \subseteq [caller : Callers, msg : Msgs] /\ Memory
        /\ hub \in [Msgs -> PrivateDelivery] /\ written \in [Msgs -> Nat]
        /\ Msgs \subseteq Callers /\ Releaser \in Callers /\ Releaser \notin Msgs
    BY ServeTypes, DispatchAssumption DEF DispatchInv, TypeInv, TypeOK, Callers
  <1>1. UNCHANGED <<order, send, before, rel, launched, parked>>
    BY DEF HelperStep, TurnAway, Replay, Take, Mark, Post, Deliver
  <1>s. \A a \in PrivateTerminal, b \in BOOLEAN :
          Settled(a, b) \in Results /\ ~HeldAns(Settled(a, b))
    BY Replies DEF Settled, HeldAns, PrivateTerminal
  <1>t. /\ "expired" \in PrivateTerminal /\ "refused" \in PrivateTerminal
        /\ "failed" \in PrivateTerminal /\ "delivered" \in PrivateTerminal
    BY DEF PrivateTerminal
  <1>2. ASSUME NEW q \in queue, TurnAway(q) \/ Replay(q) \/ Take(q) PROVE DispatchInv'
    <2>. DEFINE c == q.caller
                m == q.msg
    <2>0. /\ c \in Callers /\ m \in Msgs /\ q = [caller |-> c, msg |-> m]
          /\ queue' = queue \ {q} /\ rec' = rec /\ written' = written
      BY <1>0, <1>2 DEF TurnAway, Replay, Take
    <2>1. InQueue(c, m)
      BY <2>0 DEF InQueue
    <2>. HIDE DEF c, m
    <2>2. /\ c \in {m, Releaser} /\ ~Touched(m) /\ written[m] = 0 /\ hub[m] = Unseen
          /\ ~Early(m) /\ (job # Nobody => job.msg # m)
          /\ \A b \in Callers \ {c} : ~Req(b, m)
      BY <2>0, <2>1, InQueueOK
    <2>3. \A y \in Msgs, b \in Callers : InQueue(b, y)' => InQueue(b, y) /\ (b # c \/ y # m)
      BY <2>0 DEF InQueue
    <2>4. \A b \in Callers : ~InQueue(b, m)'
      BY <2>0, <2>2, <2>3 DEF Req
    <2>o. ASSUME NEW y \in Msgs PROVE Once(y) /\ written[y] <= 1 /\
                 (job # Nobody /\ job.msg = y /\ job.step # "written" => written[y] = 0)
      BY DEF DispatchInv, Once
    <2>5. CASE TurnAway(q)
      <3>1. PICK d \in {Refused, Stale} : Answer(c, m, d)
        BY <2>5 DEF TurnAway, c, m
      <3>2. d \in Results /\ ~HeldAns(d)
        <4>1. d \in Results
          BY Replies
        <4>2. ~HeldAns(d)
          BY DEF Refused, Stale, HeldAns
        <4>. QED BY <4>1, <4>2
      <3>3. Asked' /\ \A b \in Callers : HeldAns(answer'[b]) => HeldAns(answer[b])
        BY <1>1, <2>0, <3>1, <3>2, AnswerOK
      <3>4. \A y \in Msgs : \A b \in Callers : Req(b, y)' => Req(b, y)
        BY <2>3, <2>5 DEF Req, Serving, TurnAway
      <3>5. ASSUME NEW y \in Msgs PROVE Once(y)'
        <4>1. Touched(y)' => Touched(y)
          BY <2>5 DEF TurnAway, Touched
        <4>2. job' = job
          BY <2>5 DEF TurnAway
        <4>. QED BY <1>0, <1>1, <2>0, <2>3, <2>o, <3>3, <3>4, <4>1, <4>2, HelperCalm
      <3>. QED BY <1>0, <1>1, <2>0, <3>3, <3>4, <3>5, HelperInv
    <2>6. CASE Replay(q)
      BY <2>2, <2>6 DEF Replay, m
    <2>7. CASE Take(q)
      <3>0. job = Nobody /\ \A y \in Msgs, b \in Callers : ~Serving(b, y)
        BY <2>7 DEF Take, Serving
      <3>1. ASSUME NEW y \in Msgs \ {m}, NEW d \in Results \cup {Nobody}, hub'[y] = hub[y],
                   \A b \in Callers \ {c} : answer'[b] = answer[b],
                   answer'[c] # answer[c] => Waits(c, m) /\ answer'[c] = d,
                   job' = Nobody \/ job'.msg = m
            PROVE  Once(y)' /\ \A b \in Callers : Req(b, y)' => Req(b, y)
        <4>1. \A b \in Callers : (Req(b, y)' => Req(b, y)) /\ (InQueue(b, y)' => InQueue(b, y))
          BY <2>3, <3>1 DEF Req, Serving
        <4>2. Touched(y)' => Touched(y)
          BY <2>0, <3>1 DEF Touched
        <4>3. answer'[y] = answer[y]
          BY <1>0, <2>2, <3>1
        <4>4. rel.cur = y => answer'[Releaser] = answer[Releaser]
          BY <1>0, <2>2, <3>1 DEF Waits
        <4>5. job' # Nobody => job'.msg # y
          BY <3>1
        <4>. QED BY <1>0, <1>1, <2>0, <2>o, <4>1, <4>2, <4>3, <4>4, <4>5, HelperCalm
      <3>2. CASE \E d \in {Settled("expired", FALSE), Settled("refused", FALSE)} : EndJob(c, m, d)
        <4>1. PICK d \in {Settled("expired", FALSE), Settled("refused", FALSE)} : EndJob(c, m, d)
          BY <3>2
        <4>2. d \in Results /\ ~HeldAns(d)
          BY <1>s, <1>t
        <4>3. /\ hub' = [hub EXCEPT ![m] = d] /\ job' = Nobody /\ Answer(c, m, d)
          BY <4>1 DEF EndJob
        <4>4. /\ Asked' /\ \A b \in Callers \ {c} : answer'[b] = answer[b]
              /\ answer'[c] # answer[c] => Waits(c, m) /\ answer'[c] = d
              /\ \A b \in Callers : HeldAns(answer'[b]) => HeldAns(answer[b])
          BY <1>1, <2>0, <4>2, <4>3, AnswerOK
        <4>5. \A b \in Callers : ~Req(b, m)'
          BY <2>4, <4>3 DEF Req, Serving
        <4>6. Once(m)'
          BY <1>1, <2>0, <2>1, <2>4, <4>4, <4>5, TakeOnce
        <4>7. \A y \in Msgs \ {m} : hub'[y] = hub[y]
          BY <1>0, <4>3
        <4>8. \A y \in Msgs \ {m} : Once(y)' /\ \A b \in Callers : Req(b, y)' => Req(b, y)
          BY <3>1, <4>2, <4>3, <4>4, <4>7
        <4>. QED BY <1>0, <1>1, <2>0, <4>4, <4>5, <4>6, <4>8, HelperInv
      <3>3. CASE Answer(c, m, [state |-> "held", ambiguous |-> FALSE]) /\ UNCHANGED <<job, hub>>
        <4>. DEFINE d == [state |-> "held", ambiguous |-> FALSE]
        <4>1. d \in Results
          BY Replies
        <4>. HIDE DEF d
        <4>2. /\ Asked' /\ \A b \in Callers \ {c} : answer'[b] = answer[b]
              /\ answer'[c] # answer[c] => Waits(c, m) /\ answer'[c] = d
          BY <1>1, <2>0, <3>3, <4>1, AnswerOK DEF d
        <4>3. \A b \in Callers : ~Req(b, m)'
          BY <2>4, <3>0, <3>3 DEF Req, Serving
        <4>4. ~Touched(m)'
          BY <2>0, <2>2, <3>3 DEF Touched
        <4>5. Young(m)' => rec'[m].state # "held" /\ m \notin rel'.todo /\ m \notin rel'.listed
          <5>1. Young(m)' <=> Young(m)
            BY <1>1 DEF Young, Early
          <5>. QED BY <1>1, <2>0, <2>o, <5>1 DEF Once
        <4>6. Once(m)'
          BY <2>0, <2>2, <3>0, <3>3, <4>3, <4>4, <4>5, OnceFresh
        <4>7. \A y \in Msgs \ {m} : Once(y)' /\ \A b \in Callers : Req(b, y)' => Req(b, y)
          BY <3>0, <3>1, <3>3, <4>1, <4>2
        <4>. QED BY <1>0, <1>1, <2>0, <4>2, <4>3, <4>6, <4>7, HelperInv
      <3>4. CASE /\ job' = [caller |-> c, msg |-> m, step |-> "queued"]
                 /\ hub' = [hub EXCEPT ![m] = Queued] /\ UNCHANGED answer
        <4>1. job'.msg = m /\ job'.caller = c
          BY <3>4
        <4>2. \A b \in Callers : Req(b, m)' => b = c
          BY <2>4, <4>1 DEF Req, Serving
        <4>3. Once(m)'
          BY <1>1, <2>0, <2>1, <2>4, <3>4, <4>2, TakeOnce
        <4>4. Req(c, m)
          BY <2>1 DEF Req
        <4>5. \A y \in Msgs \ {m} : hub'[y] = hub[y]
          BY <1>0, <3>4
        <4>6. \A y \in Msgs \ {m} : Once(y)' /\ \A b \in Callers : Req(b, y)' => Req(b, y)
          BY <3>1, <3>4, <4>1, <4>5
        <4>7. Asked'
          BY <1>1, <3>4 DEF DispatchInv, Asked
        <4>. QED BY <1>0, <1>1, <2>0, <4>2, <4>3, <4>4, <4>6, <4>7, HelperInv
      <3>. QED BY <2>7, <3>2, <3>3, <3>4, Reductions DEF Take, c, m
    <2>. QED BY <1>2, <2>5, <2>6, <2>7
  <1>3. ASSUME job # Nobody, queue' = queue, NEW d \in Results, ~HeldAns(d),
               EndJob(job.caller, job.msg, d),
               \A y \in Msgs \ {job.msg} : written'[y] = written[y], written'[job.msg] <= 1,
               \A y \in Msgs : rec'[y].state = "held" => rec[y].state = "held"
        PROVE  DispatchInv'
    <2>1. job.msg \in Msgs /\ job.caller \in Callers
      BY <1>0, <1>3, JobTypes
    <2>2. /\ hub' = [hub EXCEPT ![job.msg] = d] /\ job' = Nobody /\ Answer(job.caller, job.msg, d)
      BY <1>3 DEF EndJob
    <2>3. /\ Asked' /\ \A b \in Callers : HeldAns(answer'[b]) => HeldAns(answer[b])
      BY <1>1, <1>3, <2>1, <2>2, AnswerOK
    <2>4. \A y \in Msgs \ {job.msg} : hub'[y] = hub[y]
      BY <1>0, <2>2
    <2>5. /\ \A y \in Msgs : Once(y)'
          /\ \A y \in Msgs : \A b \in Callers : Req(b, y)' => Req(b, y)
      BY <1>0, <1>1, <1>3, <2>2, <2>3, <2>4, ServingOnce
    <2>. QED BY <1>0, <1>1, <1>3, <2>3, <2>5, HelperInv
  <1>4. ASSUME job # Nobody, queue' = queue, answer' = answer, NEW step,
               job' = [job EXCEPT !.step = step],
               \A y \in Msgs \ {job.msg} : hub'[y] = hub[y] /\ written'[y] = written[y],
               step # "written" => written'[job.msg] = 0, written'[job.msg] <= 1,
               \A y \in Msgs : rec'[y].state = "held" => rec[y].state = "held"
        PROVE  DispatchInv'
    <2>1. job \in Jobs
      BY <1>0, <1>4, JobTypes
    <2>2. job'.msg = job.msg /\ job'.caller = job.caller /\ job'.step = step
      BY <1>4, <2>1 DEF Jobs
    <2>3. /\ \A y \in Msgs : Once(y)'
          /\ \A y \in Msgs : \A b \in Callers : Req(b, y)' => Req(b, y)
      BY <1>0, <1>1, <1>4, <2>2, ServingOnce
    <2>4. Asked'
      BY <1>1, <1>4 DEF DispatchInv, Asked
    <2>. QED BY <1>0, <1>1, <1>4, <2>3, <2>4, HelperInv
  <1>w. ASSUME job # Nobody
        PROVE  /\ job.msg \in Msgs /\ written[job.msg] <= 1
               /\ job.step # "written" => written[job.msg] = 0
    BY <1>0, <1>w, JobTypes DEF DispatchInv, Once
  <1>5. CASE Mark
    <2>0. job # Nobody /\ job.step = "queued" /\ queue' = queue /\ written' = written
      BY <1>5 DEF Mark
    <2>1. hub[job.msg] = Queued
      BY <1>0, <2>0, JobTypes
    <2>2. CASE /\ rec' = [rec EXCEPT ![job.msg].handoff = @ \/ Unsettled(job.msg)]
               /\ job' = [job EXCEPT !.step = "marked"] /\ UNCHANGED <<hub, answer>>
      <3>1. \A y \in Msgs : rec'[y].state = rec[y].state
        <4>1. rec \in [Msgs -> Receipt]
          BY <1>0 DEF TypeOK
        <4>. QED BY <1>w, <2>0, <2>2, <4>1 DEF Receipt
      <3>. QED BY <1>4, <1>w, <2>0, <2>2, <3>1
    <2>3. CASE EndJob(job.caller, job.msg, PrivateReduce(hub[job.msg], "fail", FALSE, TRUE))
               /\ UNCHANGED rec
      <3>1. EndJob(job.caller, job.msg, Settled("failed", FALSE))
        BY <2>1, <2>3, Reductions
      <3>. QED BY <1>3, <1>s, <1>t, <1>w, <2>0, <2>3, <3>1
    <2>. QED BY <1>5, <2>2, <2>3 DEF Mark
  <1>6. CASE Post
    <2>0. job # Nobody /\ job.step = "marked" /\ queue' = queue /\ rec' = rec
      BY <1>6 DEF Post
    <2>1. hub[job.msg] = Queued
      BY <1>0, <2>0, JobTypes
    <2>2. /\ written' = written \/ written' = [written EXCEPT ![job.msg] = @ + 1]
      BY <1>6 DEF Post
    <2>3. /\ \A y \in Msgs \ {job.msg} : written'[y] = written[y]
          /\ written'[job.msg] <= 1
      BY <1>0, <1>w, <2>0, <2>2
    <2>4. CASE \E d \in {Settled("expired", FALSE), Settled("failed", FALSE), Settled("failed", TRUE)} :
                   EndJob(job.caller, job.msg, d)
      BY <1>3, <1>s, <1>t, <2>0, <2>3, <2>4
    <2>5. CASE /\ hub' = [hub EXCEPT ![job.msg] = Settled("handoff", FALSE)]
               /\ job' = [job EXCEPT !.step = "written"] /\ UNCHANGED answer
      <3>1. \A y \in Msgs \ {job.msg} : hub'[y] = hub[y]
        BY <1>0, <2>5
      <3>. QED BY <1>4, <2>0, <2>3, <2>5, <3>1
    <2>. QED BY <1>6, <2>1, <2>4, <2>5, Reductions DEF Post
  <1>7. CASE Deliver
    <2>0. /\ job # Nobody /\ job.step = "written" /\ queue' = queue /\ written' = written
          /\ Settle(job.msg, "delivered", FALSE)
      BY <1>7 DEF Deliver
    <2>1. hub[job.msg] = Settled("handoff", FALSE)
      BY <1>0, <2>0, JobTypes
    <2>2. \E d \in {Settled("delivered", FALSE), Settled("failed", TRUE)} :
                   EndJob(job.caller, job.msg, d)
      BY <1>7, <2>1, Reductions DEF Deliver
    <2>3. \A y \in Msgs : rec'[y].state = "held" => rec[y].state = "held"
      <3>1. PICK m \in Msgs : m = job.msg
        BY <1>w, <2>0
      <3>2. "delivered" \in Kinds /\ "delivered" # "held"
        BY DEF Kinds, Final
      <3>3. Settles(m, "delivered", FALSE)
        BY <1>0, <2>0, <3>1, <3>2, SettleOK
      <3>. QED BY <3>2, <3>3 DEF Settles
    <2>. QED BY <1>3, <1>s, <1>t, <1>w, <2>0, <2>2, <2>3
  <1>. QED BY <1>2, <1>5, <1>6, <1>7 DEF HelperStep


(* A helper that goes leaves no request behind. *)
LEMMA GoneKeeps ==
    ASSUME DispatchInv, NEW requests \in SUBSET [caller : Callers, msg : Msgs],
           NEW result \in [Msgs -> Results], \A m \in Msgs : ~HeldAns(result[m]),
           HelperGone(requests, result)
    PROVE  DispatchInv'
  <1>. USE DEF sendVars, storeVars, helperVars, relVars
  <1>0. /\ TypeInv' /\ RecKept /\ TypeInv /\ TypeOK /\ Asked
        /\ Msgs \subseteq Callers /\ Releaser \in Callers /\ Releaser \notin Msgs
    BY GoneTypes, DispatchAssumption DEF DispatchInv, TypeInv, Callers
  <1>1. /\ UNCHANGED <<order, send, before, rel, launched, parked, rec, written>>
        /\ queue' = {} /\ job' = Nobody /\ hub' = [m \in Msgs |-> Unseen]
    BY DEF HelperGone
  <1>2. ASSUME NEW c \in Callers
        PROVE  \/ answer'[c] = answer[c]
               \/ ~HeldAns(answer'[c]) /\ \E m \in Msgs : Waits(c, m)
    <2>1. CASE \E q \in requests : q.caller = c /\ Waits(c, q.msg)
      <3>. DEFINE r == CHOOSE q \in requests : q.caller = c /\ Waits(c, q.msg)
      <3>1. r \in requests /\ Waits(c, r.msg)
        BY <2>1
      <3>2. answer'[c] = result[r.msg]
        BY <2>1 DEF HelperGone
      <3>. HIDE DEF r
      <3>3. r.msg \in Msgs
        BY <3>1
      <3>. QED BY <3>1, <3>2, <3>3
    <2>2. CASE ~\E q \in requests : q.caller = c /\ Waits(c, q.msg)
      BY <2>2 DEF HelperGone
    <2>. QED BY <2>1, <2>2
  <1>3. Asked'
    <2>1. ASSUME NEW m \in Msgs, answer'[m] # Nobody PROVE send'[m] = "submitted"
      BY <1>0, <1>1, <1>2, <2>1 DEF Asked, Waits
    <2>2. ASSUME answer'[Releaser] # Nobody PROVE rel'.pc = "submitted"
      BY <1>0, <1>1, <1>2, <2>2 DEF Asked, Waits
    <2>. QED BY <2>1, <2>2 DEF Asked
  <1>4. \A y \in Msgs : \A c \in Callers : ~Req(c, y)' /\ ~InQueue(c, y)'
    BY <1>1 DEF Req, InQueue, Serving
  <1>5. ASSUME NEW y \in Msgs PROVE Once(y)'
    <2>1. Touched(y)' => Touched(y)
      BY <1>1 DEF Touched
    <2>2. written[y] <= 1
      BY DEF DispatchInv, Once
    <2>. QED BY <1>0, <1>1, <1>2, <1>4, <2>1, <2>2, HelperCalm
  <1>. QED BY <1>0, <1>1, <1>3, <1>4, <1>5, HelperInv

(* It survives the helper's death, its closing and its replacement. *)
LEMMA HelperLifeKeeps ==
    ASSUME DispatchInv, HelperCrashes \/ HelperCloses \/ HelperStarts
    PROVE  DispatchInv'
  <1>. USE DEF sendVars, storeVars, helperVars, relVars
  <1>0. TypeInv
    BY DEF DispatchInv
  <1>1. CASE HelperCrashes
    <2>. DEFINE requests == queue \cup (IF job = Nobody THEN {}
                                        ELSE {[caller |-> job.caller, msg |-> job.msg]})
                result == [m \in Msgs |-> Ambiguous]
    <2>1. requests \in SUBSET [caller : Callers, msg : Msgs]
      <3>1. queue \subseteq [caller : Callers, msg : Msgs]
        BY <1>0 DEF TypeInv, TypeOK
      <3>2. CASE job = Nobody
        BY <3>1, <3>2
      <3>3. CASE job # Nobody
        <4>1. [caller |-> job.caller, msg |-> job.msg] \in [caller : Callers, msg : Msgs]
          BY <1>0, <3>3, JobTypes
        <4>. QED BY <3>1, <3>3, <4>1
      <3>. QED BY <3>2, <3>3
    <2>2. result \in [Msgs -> Results]
      BY Replies
    <2>3. \A m \in Msgs : ~HeldAns(result[m])
      BY DEF Ambiguous, HeldAns
    <2>4. HelperGone(requests, result)
      BY <1>1 DEF HelperCrashes
    <2>. HIDE DEF requests, result
    <2>. QED BY <2>1, <2>2, <2>3, <2>4, GoneKeeps
  <1>2. CASE HelperCloses
    <2>. DEFINE result == [m \in Msgs |-> IF hub[m] = Unseen THEN Stale ELSE hub[m]]
    <2>1. /\ result \in [Msgs -> Results]
      BY <1>0, <1>2, Replies DEF HelperCloses, TypeInv, TypeOK, Memory, PrivateDelivery, Results
    <2>2. \A m \in Msgs : ~HeldAns(result[m])
      BY <1>0, <1>2 DEF HelperCloses, TypeInv, Memory, HeldAns, Stale, PrivateTerminal
    <2>3. queue \in SUBSET [caller : Callers, msg : Msgs] /\ HelperGone(queue, result)
      BY <1>0, <1>2 DEF TypeInv, TypeOK, HelperCloses
    <2>. HIDE DEF result
    <2>. QED BY <2>1, <2>2, <2>3, GoneKeeps
  <1>3. CASE HelperStarts
    <2>1. /\ TypeInv' /\ RecKept /\ order' = order /\ rec' = rec
          /\ UNCHANGED <<send, answer, queue, job, hub, written, before, rel, launched, parked>>
      BY <1>0, <1>3, HelperLifeTypes DEF HelperStarts
    <2>. QED BY <2>1, StoreKeeps
  <1>. QED BY <1>1, <1>2, <1>3

(* A step of the release, given what it does to each message. *)
LEMMA ReleaseInv ==
    ASSUME DispatchInv, TypeInv', RecKept, UNCHANGED <<send, before, order>>,
           \A m \in Msgs : answer'[m] = answer[m],
           answer'[Releaser] # Nobody => rel'.pc = "submitted",
           HeldSeen', \A y \in Msgs : Once(y)',
           \A y \in Msgs : Req(y, y)' \/ Req(Releaser, y)' =>
              \/ Req(y, y) \/ Req(Releaser, y)
              \/ \A x \in before[y] : order[x] < order[y] => rec[x].state # "held",
           \/ rel'.listed = rel.listed
           \/ rel'.listed = {}
           \/ Held \subseteq rel'.listed
    PROVE  DispatchInv'
  <1>1. ASSUME NEW y \in Msgs PROVE Ahead(y)'
    BY <1>1, AheadKeeps
  <1>2. Asked'
    BY DEF DispatchInv, Asked
  <1>. QED BY <1>1, <1>2, Together

(* A step of the release without a new request, listing or hold. *)
LEMMA ReleaseCalm ==
    ASSUME DispatchInv, TypeInv', RecKept, UNCHANGED <<send, before, order, job, hub, written, queue>>,
           \A m \in Msgs : answer'[m] = answer[m],
           answer'[Releaser] # Nobody => rel'.pc = "submitted",
           HeldSeen',
           \A y \in Msgs : rec'[y].state = "held" => rec[y].state = "held",
           rel'.listed = rel.listed \/ rel'.listed = {},
           rel'.todo \subseteq rel.todo,
           \A y \in rel.todo \ rel'.todo :
              rel.pc # "submitted" \/ rel.cur # y \/ rec'[y].state \in Final,
           rel.pc = "submitted" /\ rel.cur \in rel'.todo =>
              /\ rel'.pc = "submitted" /\ rel'.cur = rel.cur
              /\ HeldAns(answer'[Releaser]) => HeldAns(answer[Releaser])
    PROVE  DispatchInv'
  <1>1. \A y \in Msgs : \A c \in Callers : /\ Req(c, y)' => Req(c, y)
                                           /\ InQueue(c, y)' => InQueue(c, y)
    BY DEF Req, Serving, InQueue
  <1>2. ASSUME NEW y \in Msgs PROVE Once(y)'
    <2>1. Once(y)
      BY DEF DispatchInv
    <2>2. (Early(y)' <=> Early(y)) /\ (Young(y)' <=> Young(y)) /\ (Touched(y)' <=> Touched(y))
      BY DEF Early, Young, Touched
    <2>3. y \in rel.todo \ rel'.todo /\ (Req(Releaser, y) \/ Touched(y)) => rec'[y].state \in Final
      BY <2>1 DEF Once
    <2>4. Calm(y)
      BY <1>1, <2>1, <2>2, <2>3 DEF Calm, Once, RecKept
    <2>. QED BY <2>1, <2>4, OnceKeeps
  <1>3. Msgs \subseteq Callers /\ Releaser \in Callers
    BY DEF Callers
  <1>. QED BY <1>1, <1>2, <1>3, ReleaseInv

(* heldReleaseDone: the settled record leaves the list. *)
LEMMA NextRecordKeeps ==
    ASSUME DispatchInv, TypeInv', RecKept, UNCHANGED <<send, before, order, job, hub, written, queue>>,
           rel.pc \in Working, NextRecord, rec'[rel.cur].state \in Final,
           \A y \in Msgs \ {rel.cur} : rec'[y] = rec[y],
           \A m \in Msgs : answer'[m] = answer[m], answer'[Releaser] = Nobody
    PROVE  DispatchInv'
  <1>0. TypeInv /\ HeldSeen /\ rel.cur \in Msgs /\ rel.listed \subseteq Msgs /\ "held" \notin Final
    BY DEF DispatchInv, HeldSeen, TypeInv, Release, RelRecord, Final
  <1>1. /\ rel'.listed = rel.listed /\ rel'.todo = rel.todo \ {rel.cur}
        /\ rel'.pc \in {"list", "judge"}
    BY <1>0, NextRecordTypes
  <1>2. \A y \in Msgs : rec'[y].state = "held" => rec[y].state = "held" /\ y # rel.cur
    BY <1>0
  <1>3. HeldSeen'
    <2>1. rel'.listed \cap Held' \subseteq rel'.todo
      BY <1>0, <1>1, <1>2 DEF HeldSeen, Held
    <2>. QED BY <1>1, <2>1 DEF HeldSeen
  <1>. QED BY <1>0, <1>1, <1>2, <1>3, ReleaseCalm


(* A wait of judgeHeldMessage: the work list stays. *)
LEMMA WaitKeeps ==
    ASSUME DispatchInv, TypeInv', rec' = rec, answer' = answer,
           UNCHANGED <<send, before, order, job, hub, written, queue, launched, parked>>,
           NEW pc, SameWork(pc),
           pc = rel.pc \/ (rel.pc \in {"judge", "pause"} /\ pc \in {"judge", "pause"})
    PROVE  DispatchInv'
  <1>0. TypeInv /\ TypeOK /\ HeldSeen /\ Asked
    BY DEF DispatchInv, TypeInv
  <1>1. /\ rel'.pc = pc /\ rel'.cur = rel.cur /\ rel'.todo = rel.todo
        /\ rel'.listed = rel.listed /\ rel'.handOff = rel.handOff
    BY DEF SameWork
  <1>2. HeldSeen'
    <2>1. Held' = Held
      BY DEF Held
    <2>. QED BY <1>0, <1>1, <2>1 DEF HeldSeen
  <1>3. RecKept
    BY <1>0, RecUnchanged
  <1>. QED BY <1>0, <1>1, <1>2, <1>3, ReleaseCalm DEF Asked

(* What a listed record is while the release is not waiting for the helper. *)
LEMMA ListedOK ==
    ASSUME DispatchInv, NEW y \in rel.todo, rel.pc # "submitted"
    PROVE  /\ y \in Msgs /\ \A c \in Callers : ~Req(c, y) /\ ~InQueue(c, y)
           /\ ~Touched(y) /\ ~Young(y) /\ written[y] = 0 /\ (job # Nobody => job.msg # y)
  <1>0. y \in Msgs /\ TypeInv
    BY DEF DispatchInv, TypeInv, Release, RelRecord
  <1>1. Once(y) /\ y \in Callers /\ Releaser \in Callers /\ written[y] \in Nat
    BY <1>0 DEF DispatchInv, Callers, TypeInv, TypeOK
  <1>2. \A c \in Callers : ~Req(c, y)
    BY <1>1 DEF Once
  <1>3. \A c \in Callers : ~InQueue(c, y)
    BY <1>2 DEF Req
  <1>4. ~Touched(y) /\ ~Young(y)
    BY <1>1 DEF Once
  <1>5. written[y] = 0
    BY <1>1, <1>4 DEF Touched
  <1>6. job # Nobody => job.msg # y
    BY <1>0, <1>2, JobTypes DEF Req, Serving
  <1>. QED BY <1>0, <1>2, <1>3, <1>4, <1>5, <1>6

(* The release keeps it: it asks only for a listed record that is untouched *)
(* and the oldest left.                                                     *)
LEMMA RelKeeps ==
    ASSUME ~StoreMayFail, DispatchInv, RelStep \/ LaunchGivesUp \/ HookLaunch \/ WindowEnds
    PROVE  DispatchInv'
  <1>. USE DEF sendVars, storeVars, helperVars, relVars, relOthers
  <1>0. /\ TypeInv' /\ RecKept /\ TypeInv /\ TypeOK /\ Release /\ HeldSeen /\ Asked
        /\ answer \in [Callers -> Results \cup {Nobody}]
        /\ rec \in [Msgs -> Receipt] /\ rel \in RelRecord
        /\ rel.todo \subseteq Msgs /\ rel.listed \subseteq Msgs
        /\ Msgs \subseteq Callers /\ Releaser \in Callers /\ Releaser \notin Msgs
    BY RelTypes, DispatchAssumption DEF DispatchInv, TypeInv, TypeOK, Callers, Release, RelRecord
  <1>1. UNCHANGED <<send, before, order, job, hub, written>>
    BY DEF RelStep, RelStart, RelList, RelJudge, RelTimeout, RelAnswered, RelAnswerLost, RelPause, RelStop,
       RelError, RelEnd, LaunchGivesUp, HookLaunch, WindowEnds
  <1>2. \A m \in Msgs : answer'[m] = answer[m]
    <2>. SUFFICES ASSUME NEW m \in Msgs PROVE answer'[m] = answer[m]
      OBVIOUS
    <2>1. m \in Callers /\ m # Releaser
      BY <1>0
    <2>. QED BY <1>0, <2>1 DEF RelStep, RelStart, RelList, RelJudge, RelTimeout, RelAnswered,
         RelAnswerLost, RelPause, RelStop, RelError, RelEnd, LaunchGivesUp, HookLaunch, WindowEnds,
         Submit, GiveUp, Hangup
  <1>c. rel.pc \in Working => rel.cur \in rel.todo /\ rel.cur \in Msgs
    BY <1>0 DEF Release
  <1>w. "judge" \in Working /\ "submitted" \in Working /\ "pause" \in Working
    BY DEF Working
  <1>f. \A x \in Msgs : rec[x].state \in {"accepted", "held"} \cup Final \/ rec[x].state = "none"
    BY <1>0 DEF Receipt
  <1>l. \A x \in rel.listed : rec[x].state # "none"
    BY <1>0 DEF TypeInv, Accepted
  <1>d. rel.todo \subseteq rel.listed
    BY <1>0 DEF Release
  <1>r. rel \in RelRecord
    BY <1>0
  <1>h. "held" \notin Final
    BY DEF Final
  <1>3. ASSUME rec' = rec, answer' = answer, queue' = queue, rel.pc # "submitted",
               NEW pc \in {"off", "list", "end"}, NEW b \in BOOLEAN, NoWork(pc, b), HeldSeen'
        PROVE  DispatchInv'
    <2>1. rel'.pc = pc /\ rel'.todo = {} /\ rel'.listed = {}
      BY <1>3 DEF NoWork
    <2>. QED BY <1>0, <1>1, <1>2, <1>3, <2>1, ReleaseCalm DEF Asked
  <1>4. CASE RelStart
    <2>1. NoWork("list", FALSE)
      BY <1>4 DEF RelStart, IdleRelease, NoWork, RelRecord
    <2>2. rec' = rec /\ answer' = answer /\ queue' = queue /\ rel.pc = "off"
      BY <1>4 DEF RelStart
    <2>3. HeldSeen'
      BY <2>1 DEF HeldSeen, NoWork
    <2>. QED BY <1>3, <2>1, <2>2, <2>3
  <1>5. CASE RelEnd
    <2>1. NoWork("off", FALSE)
      BY <1>5 DEF RelEnd, IdleRelease, NoWork, RelRecord
    <2>2. /\ rec' = rec /\ answer' = answer /\ queue' = queue /\ rel.pc = "end" /\ parked' = parked
          /\ launched' = (launched \/ rel.handOff)
      BY <1>5 DEF RelEnd
    <2>3. HeldSeen'
      <3>1. Held' = Held
        BY <2>2 DEF Held
      <3>. QED BY <1>0, <1>1, <2>1, <2>2, <3>1 DEF HeldSeen, NoWork
    <2>. QED BY <1>3, <2>1, <2>2, <2>3
  <1>6. CASE RelStop
    <2>. DEFINE b == Held \ rel.listed # {}
    <2>0. /\ b \in BOOLEAN /\ rel' = [IdleRelease EXCEPT !.pc = "end", !.handOff = b]
          /\ rec' = rec /\ answer' = answer /\ queue' = queue /\ rel.pc = "pause"
          /\ parked' = parked \cup (rel.listed \cap Held)
      BY <1>6 DEF RelStop
    <2>1. Held' = Held /\ \A m \in Held : m \in parked' \/ b
      BY <2>0 DEF Held
    <2>. HIDE DEF b
    <2>2. NoWork("end", b)
      BY <2>0 DEF IdleRelease, NoWork, RelRecord
    <2>3. HeldSeen'
      BY <2>1, <2>2 DEF HeldSeen, NoWork
    <2>. QED BY <1>3, <2>0, <2>2, <2>3
  <1>7. CASE LaunchGivesUp \/ HookLaunch
    <2>1. /\ rec' = rec /\ answer' = answer /\ queue' = queue /\ rel' = rel /\ parked' = parked
          /\ rel.pc \in {"list", "judge", "submitted", "pause"} \/ launched'
      BY <1>7 DEF LaunchGivesUp, HookLaunch
    <2>2. HeldSeen'
      <3>1. Held' = Held
        BY <2>1 DEF Held
      <3>. QED BY <1>0, <1>1, <2>1, <3>1 DEF HeldSeen
    <2>. QED BY <1>0, <1>1, <1>2, <2>1, <2>2, ReleaseCalm DEF Asked
  <1>8. CASE WindowEnds
    <2>1. SameWork(rel.pc)
      BY <1>0, <1>8 DEF WindowEnds, SameWork, RelRecord
    <2>2. /\ rec' = rec /\ answer' = answer /\ UNCHANGED <<queue, launched, parked>>
      BY <1>8 DEF WindowEnds
    <2>. QED BY <1>0, <1>1, <2>1, <2>2, WaitKeeps
  <1>9. ASSUME NEW m \in Msgs, m = rel.cur, rel.pc \in Working, NEW kind \in Final, NEW unknown \in BOOLEAN,
               Settles(m, kind, unknown), NextRecord, answer'[Releaser] = Nobody, queue' = queue
        PROVE  DispatchInv'
    <2>1. rec'[m].state \in Final
      <3>1. m \in rel.listed /\ rec[m].state # "none"
        BY <1>9, <1>c, <1>d, <1>l
      <3>. QED BY <1>9, <1>f, <1>h, <3>1 DEF Settles
    <2>2. \A y \in Msgs \ {m} : rec'[y] = rec[y]
      BY <1>9 DEF Settles
    <2>. QED BY <1>0, <1>1, <1>2, <1>9, <2>1, <2>2, NextRecordKeeps
  <1>10. CASE RelPause
    <2>0. /\ rel.pc = "pause" /\ answer' = answer /\ UNCHANGED <<queue, launched, parked>>
          /\ answer[Releaser] = Nobody
      BY <1>0, <1>10 DEF RelPause, Asked
    <2>1. PICK m \in Msgs : m = rel.cur
      BY <1>c, <1>w, <2>0
    <2>2. CASE SettleDeadline(m, rec[m].handoff) /\ NextRecord
      <3>1. rec[m].handoff \in BOOLEAN
        BY <1>0 DEF Receipt
      <3>2. PICK kind \in Final : Settles(m, kind, rec[m].handoff)
        BY <1>0, <2>2, <3>1, SettleDeadlineOK DEF Final
      <3>. QED BY <1>9, <1>w, <2>0, <2>1, <2>2, <3>1, <3>2
    <2>3. CASE rel' = [rel EXCEPT !.pc = "judge", !.window = "open"] /\ UNCHANGED rec
      <3>1. SameWork("judge")
        BY <1>r, <1>w, <2>3 DEF SameWork, RelRecord
      <3>. QED BY <1>0, <1>1, <2>0, <2>3, <3>1, WaitKeeps
    <2>. QED BY <1>10, <2>1, <2>2, <2>3 DEF RelPause
  <1>11. CASE RelTimeout
    <2>1. /\ rec' = rec /\ rel' = rel /\ queue' = queue /\ UNCHANGED <<launched, parked>>
          /\ answer'[Releaser] = Ambiguous /\ rel.pc = "submitted"
      BY <1>0, <1>11 DEF RelTimeout, GiveUp
    <2>2. HeldSeen'
      <3>1. Held' = Held
        BY <2>1 DEF Held
      <3>. QED BY <1>0, <1>1, <2>1, <3>1 DEF HeldSeen
    <2>3. ~HeldAns(answer'[Releaser])
      BY <2>1 DEF HeldAns, Ambiguous
    <2>. QED BY <1>0, <1>1, <1>2, <2>1, <2>2, <2>3, ReleaseCalm
  <1>12. CASE RelList
    <2>. DEFINE fresh == Held \ rel.listed
    <2>0. /\ rel.pc = "list" /\ rec' = rec /\ answer' = answer /\ queue' = queue
          /\ UNCHANGED <<launched, parked>> /\ answer[Releaser] = Nobody /\ rel.todo = {}
      BY <1>0, <1>12 DEF RelList, Asked, Release, Working
    <2>1. Held' = Held /\ Held \cap rel.listed = {}
      BY <1>0, <2>0 DEF Held, HeldSeen
    <2>2. CASE fresh = {}
      <3>1. NoWork("end", FALSE)
        BY <1>12, <2>2 DEF RelList, IdleRelease, NoWork, RelRecord
      <3>2. Held = {}
        BY <2>1, <2>2
      <3>3. HeldSeen'
        BY <2>1, <3>1, <3>2 DEF HeldSeen, NoWork
      <3>. QED BY <1>3, <2>0, <3>1, <3>3
    <2>3. CASE fresh # {}
      <3>1. /\ rel'.pc = "judge" /\ rel'.todo = fresh /\ rel'.listed = rel.listed \cup Held
        <4>1. rel' = [rel EXCEPT !.pc = "judge", !.listed = @ \cup Held, !.todo = fresh,
                           !.cur = Oldest(fresh), !.seen = {m \in fresh : rec[m].handoff}]
          BY <1>12, <2>3 DEF RelList
        <4>. QED BY <1>0, <4>1 DEF RelRecord
      <3>2. HeldSeen'
        BY <2>1, <3>1 DEF HeldSeen
      <3>3. \A y \in Msgs : \A c \in Callers : /\ Req(c, y)' <=> Req(c, y)
                                               /\ InQueue(c, y)' <=> InQueue(c, y)
        BY <1>1, <2>0 DEF Req, Serving, InQueue
      <3>4. ASSUME NEW y \in Msgs PROVE Once(y)'
        <4>1. Once(y) /\ y \in Callers
          BY <1>0 DEF DispatchInv
        <4>2. (Early(y)' <=> Early(y)) /\ (Young(y)' <=> Young(y)) /\ (Touched(y)' <=> Touched(y))
          BY <1>1 DEF Early, Young, Touched
        <4>3. CASE y \in fresh
          <5>1. rec[y].state = "held" /\ y \notin rel.todo
            BY <2>0, <4>3 DEF Held
          <5>2. \A c \in Callers : ~Req(c, y)
            BY <1>0, <1>h, <4>1, <5>1 DEF Once
          <5>3. ~Touched(y) /\ ~Young(y)
            BY <4>1, <5>1 DEF Once
          <5>4. job' # Nobody => job'.msg # y
            BY <1>0, <1>1, <5>2, JobTypes DEF Req, Serving
          <5>5. written'[y] = 0
            <6>1. written[y] \in Nat
              BY <1>0 DEF TypeOK
            <6>. QED BY <1>1, <5>3, <6>1 DEF Touched
          <5>. QED BY <3>3, <4>2, <5>2, <5>3, <5>4, <5>5, OnceFresh
        <4>4. CASE y \notin fresh
          <5>1. y \notin rel'.todo /\ (y \in rel'.listed => y \in rel.listed)
            BY <2>1, <3>1, <4>4
          <5>2. Calm(y)
            BY <1>1, <2>0, <3>3, <4>1, <4>2, <5>1 DEF Calm, Once
          <5>. QED BY <4>1, <5>2, OnceKeeps
        <4>. QED BY <4>3, <4>4
      <3>. QED BY <1>0, <1>1, <1>2, <2>0, <3>1, <3>2, <3>3, <3>4, ReleaseInv
    <2>. QED BY <2>2, <2>3
  <1>13. CASE RelAnswered
    <2>0. /\ rel.pc = "submitted" /\ answer[Releaser] \in Results /\ answer[Releaser] # Nobody
          /\ answer'[Releaser] = Nobody /\ UNCHANGED <<queue, launched, parked>>
      BY <1>0, <1>13 DEF RelAnswered, Hangup
    <2>1. PICK m \in Msgs : m = rel.cur
      BY <1>c, <1>w, <2>0
    <2>. DEFINE a == answer[Releaser]
    <2>2. /\ KindOf(a) \in Kinds /\ UnknownOf(a) \in BOOLEAN
          /\ Settles(m, KindOf(a), UnknownOf(a))
      BY <1>0, <1>13, <2>0, <2>1, ProjectOK DEF RelAnswered
    <2>3. m \in rel.todo /\ rec[m].state # "none"
      BY <1>c, <1>d, <1>l, <1>w, <2>0, <2>1
    <2>4. \A y \in Msgs \ {m} : rec'[y] = rec[y]
      BY <2>2 DEF Settles
    <2>5. CASE rec'[m].state = "held"
      <3>1. SameWork("pause")
        BY <1>13, <1>r, <1>w, <2>1, <2>5 DEF RelAnswered, SameWork, RelRecord
      <3>2. rel'.pc = "pause" /\ rel'.cur = m /\ rel'.todo = rel.todo /\ rel'.listed = rel.listed
        BY <2>1, <3>1 DEF SameWork
      <3>3. HeldAns(a)
        BY <1>f, <1>h, <2>0, <2>2, <2>3, <2>5 DEF Settles, HeldAns, KindOf, Kinds, Final
      <3>4. Once(m) /\ ~Req(Releaser, m) /\ ~Touched(m) /\ ~Req(m, m) /\ ~Young(m)
        BY <2>3, <3>3 DEF DispatchInv, Once
      <3>5. \A c \in Callers : ~Req(c, m)
        BY <3>4 DEF Once
      <3>6. \A y \in Msgs : \A c \in Callers : /\ Req(c, y)' <=> Req(c, y)
                                               /\ InQueue(c, y)' <=> InQueue(c, y)
        BY <1>1, <2>0 DEF Req, Serving, InQueue
      <3>7. Once(m)'
        <4>1. job' # Nobody => job'.msg # m
          BY <1>0, <1>1, <3>5, JobTypes DEF Req, Serving
        <4>2. ~Touched(m)' /\ ~Young(m)'
          BY <1>1, <3>4 DEF Touched, Young, Early
        <4>3. written'[m] = 0
          <5>1. written[m] \in Nat
            BY <1>0 DEF TypeOK
          <5>. QED BY <1>1, <3>4, <5>1 DEF Touched
        <4>. QED BY <3>5, <3>6, <4>1, <4>2, <4>3, OnceFresh
      <3>8. ASSUME NEW y \in Msgs \ {m} PROVE Once(y)'
        <4>1. Once(y) /\ y \in Callers
          BY <1>0 DEF DispatchInv
        <4>2. (Early(y)' <=> Early(y)) /\ (Young(y)' <=> Young(y)) /\ (Touched(y)' <=> Touched(y))
          BY <1>1 DEF Early, Young, Touched
        <4>3. Calm(y)
          BY <1>1, <1>2, <2>1, <2>4, <3>2, <3>6, <4>1, <4>2 DEF Calm, Once
        <4>. QED BY <4>1, <4>3, OnceKeeps
      <3>9. HeldSeen'
        <4>1. rel'.listed \cap Held' \subseteq rel'.todo
          BY <1>0, <2>3, <2>4, <3>2 DEF HeldSeen, Held
        <4>. QED BY <3>2, <4>1 DEF HeldSeen
      <3>. QED BY <1>0, <1>1, <1>2, <2>0, <3>2, <3>6, <3>7, <3>8, <3>9, ReleaseInv
    <2>6. CASE rec'[m].state # "held"
      <3>1. NextRecord
        BY <1>13, <2>1, <2>6 DEF RelAnswered
      <3>2. rec'[m].state \in Final
        BY <1>f, <1>h, <2>2, <2>3, <2>6 DEF Settles, Kinds
      <3>. QED BY <1>0, <1>1, <1>2, <1>w, <2>0, <2>1, <2>4, <3>1, <3>2, NextRecordKeeps
    <2>. QED BY <2>5, <2>6
  <1>14. CASE RelJudge
    <2>0. /\ rel.pc = "judge" /\ UNCHANGED <<launched, parked>> /\ answer[Releaser] = Nobody
      BY <1>0, <1>14 DEF RelJudge, Asked
    <2>1. PICK m \in Msgs : m = rel.cur
      BY <1>c, <1>w, <2>0
    <2>2. m \in rel.todo /\ rel.pc # "submitted"
      BY <1>c, <1>w, <2>0, <2>1
    <2>3. CASE NextRecord /\ UNCHANGED <<answer, queue>> /\
               (Settle(m, "failed", TRUE) \/ Settle(m, "stale", FALSE))
      <3>1. PICK kind \in Final, unknown \in BOOLEAN : Settles(m, kind, unknown)
        BY <1>0, <2>3, SettleOK DEF Kinds, Final
      <3>. QED BY <1>9, <1>w, <2>0, <2>1, <2>3, <3>1
    <2>4. CASE NextRecord /\ UNCHANGED <<answer, queue>> /\ SettleDeadline(m, rec[m].handoff)
      <3>1. rec[m].handoff \in BOOLEAN
        BY <1>0 DEF Receipt
      <3>2. PICK kind \in Final : Settles(m, kind, rec[m].handoff)
        BY <1>0, <2>4, <3>1, SettleDeadlineOK DEF Final
      <3>. QED BY <1>9, <1>w, <2>0, <2>1, <2>4, <3>1, <3>2
    <2>5. CASE rel' = [rel EXCEPT !.pc = "pause"] /\ UNCHANGED <<rec, answer, queue>>
      <3>1. SameWork("pause")
        BY <1>r, <1>w, <2>5 DEF SameWork, RelRecord
      <3>. QED BY <1>0, <1>1, <2>0, <2>5, <3>1, WaitKeeps
    <2>6. CASE Submit(Releaser, m) /\ rel' = [rel EXCEPT !.pc = "submitted"] /\ UNCHANGED rec
      <3>1. SameWork("submitted")
        BY <1>r, <1>w, <2>6 DEF SameWork, RelRecord
      <3>2. /\ rel'.pc = "submitted" /\ rel'.cur = m /\ rel'.todo = rel.todo
            /\ rel'.listed = rel.listed
        BY <2>1, <3>1 DEF SameWork
      <3>3. /\ \A c \in Callers : ~Req(c, m) /\ ~InQueue(c, m)
            /\ ~Touched(m) /\ ~Young(m) /\ written[m] = 0 /\ (job # Nobody => job.msg # m)
        BY <2>2, ListedOK
      <3>4. /\ queue' \subseteq queue \cup {[caller |-> Releaser, msg |-> m]}
            /\ queue' = queue \/ answer' = answer
        BY <2>6 DEF Submit
      <3>5. \A y \in Msgs : \A c \in Callers : InQueue(c, y)' => InQueue(c, y) \/ (c = Releaser /\ y = m)
        BY <3>4 DEF InQueue
      <3>6. \A y \in Msgs : \A c \in Callers : Req(c, y)' => Req(c, y) \/ (c = Releaser /\ y = m)
        BY <1>1, <3>5 DEF Req, Serving
      <3>7. Once(m)'
        <4>1. ~Touched(m)' /\ ~Young(m)' /\ ~Early(m)'
          BY <1>1, <3>3 DEF Touched, Young, Early
        <4>2. \A c \in Callers : Req(c, m)' => c = Releaser
          BY <3>3, <3>6
        <4>3. Req(Releaser, m)' => answer'[Releaser] = Nobody
          <5>1. CASE queue' = queue
            BY <1>0, <1>1, <3>3, <5>1 DEF Req, InQueue, Serving
          <5>2. CASE answer' = answer
            BY <2>0, <5>2
          <5>. QED BY <3>4, <5>1, <5>2
        <4>4. /\ job' # Nobody => job'.msg # m
              /\ written'[m] = 0 /\ m \in rel'.todo /\ m \in Callers /\ m # Releaser
          BY <1>0, <1>1, <2>2, <3>2, <3>3
        <4>5. ~HeldAns(Nobody)
          BY DEF HeldAns
        <4>. QED BY <3>2, <4>1, <4>2, <4>3, <4>4, <4>5 DEF Once
      <3>8. ASSUME NEW y \in Msgs \ {m} PROVE Once(y)'
        <4>1. Once(y) /\ y \in Callers
          BY <1>0 DEF DispatchInv
        <4>2. (Early(y)' <=> Early(y)) /\ (Young(y)' <=> Young(y)) /\ (Touched(y)' <=> Touched(y))
          BY <1>1 DEF Early, Young, Touched
        <4>3. \A c \in Callers : (Req(c, y)' => Req(c, y)) /\ (InQueue(c, y)' => InQueue(c, y))
          BY <3>5, <3>6
        <4>4. Calm(y)
          BY <1>1, <1>2, <2>1, <2>2, <2>6, <3>2, <4>1, <4>2, <4>3 DEF Calm, Once
        <4>. QED BY <4>1, <4>4, OnceKeeps
      <3>9. HeldSeen'
        <4>1. Held' = Held
          BY <2>6 DEF Held
        <4>. QED BY <1>0, <3>2, <4>1 DEF HeldSeen
      <3>10. \A x \in before[m] : order[x] < order[m] => rec[x].state # "held"
        <4>. SUFFICES ASSUME NEW x \in before[m], order[x] < order[m], rec[x].state = "held"
                      PROVE  FALSE
          OBVIOUS
        <4>1. x \in Msgs /\ m \in rel.listed /\ Ahead(m)
          BY <1>0, <1>d, <2>2 DEF TypeOK, DispatchInv
        <4>2. x \in rel.listed /\ x \in Held
          BY <4>1 DEF Ahead, Held
        <4>3. x \in rel.todo
          BY <1>0, <4>2 DEF HeldSeen
        <4>4. order[m] <= order[x]
          BY <1>0, <1>w, <2>0, <2>1, <4>3 DEF Release
        <4>5. order[m] \in Nat /\ order[x] \in Nat
          <5>1. Cardinality(Msgs) \in Nat
            BY DispatchAssumption, FS_CardinalityType
          <5>. QED BY <1>0, <4>1, <5>1 DEF TypeOK
        <4>. QED BY <4>4, <4>5
      <3>11. \A y \in Msgs : Req(y, y)' \/ Req(Releaser, y)' =>
               \/ Req(y, y) \/ Req(Releaser, y)
               \/ \A x \in before[y] : order[x] < order[y] => rec[x].state # "held"
        BY <1>0, <3>6, <3>10
      <3>. QED BY <1>0, <1>1, <1>2, <3>2, <3>7, <3>8, <3>9, <3>11, ReleaseInv
    <2>. QED BY <1>14, <2>1, <2>3, <2>4, <2>5, <2>6 DEF RelJudge
  <1>. QED BY <1>4, <1>5, <1>6, <1>7, <1>8, <1>10, <1>11, <1>12, <1>13, <1>14
       DEF RelStep, RelAnswerLost, RelError


(* The dispatch invariant holds at the start. *)
LEMMA InitKeeps == Init => DispatchInv
  <1>. SUFFICES ASSUME Init PROVE DispatchInv
    OBVIOUS
  <1>0. TypeInv
    BY InitTypes
  <1>1. /\ \A m \in Msgs : send[m] = "idle" /\ hub[m] = Unseen /\ written[m] = 0 /\ before[m] = {}
        /\ \A m \in Msgs : rec[m].state = "none"
        /\ \A c \in Callers : answer[c] = Nobody
        /\ queue = {} /\ job = Nobody /\ rel.todo = {} /\ rel.listed = {}
    BY DEF Init, IdleRelease
  <1>2. Msgs \subseteq Callers /\ Releaser \in Callers
    BY DEF Callers
  <1>3. ASSUME NEW m \in Msgs PROVE Once(m) /\ Ahead(m)
    <2>1. \A c \in Callers : ~Req(c, m)
      BY <1>1 DEF Req, InQueue, Serving
    <2>2. ~Touched(m)
      BY <1>1 DEF Touched
    <2>3. Once(m)
      BY <1>1, <1>2, <2>1, <2>2 DEF Once
    <2>4. Ahead(m)
      BY <1>1, <1>2, <2>1 DEF Ahead
    <2>. QED BY <2>3, <2>4
  <1>4. HeldSeen
    BY <1>1 DEF HeldSeen, Held
  <1>5. Asked
    BY <1>1, <1>2 DEF Asked
  <1>. QED BY <1>0, <1>3, <1>4, <1>5 DEF DispatchInv

(* DispatchInv is inductive when the store's writes succeed. *)
LEMMA StepKeeps ==
    ASSUME ~StoreMayFail, DispatchInv, [Next]_vars
    PROVE  DispatchInv'
  <1>1. CASE Next
    BY <1>1, AcceptKeeps, SendKeeps, PollKeeps, ServeKeeps, HelperLifeKeeps, RelKeeps DEF Next
  <1>2. CASE UNCHANGED vars
    <2>1. TypeInv'
      BY <1>2, StepTypes DEF DispatchInv
    <2>2. RecKept
      BY <1>2, RecUnchanged DEF vars, DispatchInv, TypeInv
    <2>. QED BY <1>2, <2>1, <2>2, StoreKeeps DEF vars
  <1>. QED BY <1>1, <1>2

(* The inductive invariant of the dispatch, for a store whose writes        *)
(* succeed.                                                                *)
THEOREM DispatchInvariant ==
    ASSUME ~StoreMayFail
    PROVE  Spec => []DispatchInv
  <1>1. Init => DispatchInv
    BY InitKeeps
  <1>2. DispatchInv /\ [Next]_vars => DispatchInv'
    BY StepKeeps
  <1>. QED BY <1>1, <1>2, PTL DEF Spec

(* No message is written to the provider twice, whatever times out,         *)
(* whichever helper dies and however often a release judges it.             *)
THEOREM OneFrame ==
    ASSUME ~StoreMayFail
    PROVE  Spec => []AtMostOneFrame
  <1>1. DispatchInv => AtMostOneFrame
    BY DEF DispatchInv, Once, AtMostOneFrame
  <1>. QED BY <1>1, DispatchInvariant, PTL

(* A held message always has a release that runs, is launched or is about   *)
(* to be launched for it, unless one that had listed it used up its window. *)
THEOREM HoldsSeen ==
    ASSUME ~StoreMayFail
    PROVE  Spec => []NoLostHold
  <1>1. DispatchInv => NoLostHold
    <2>. SUFFICES ASSUME DispatchInv, NEW m \in Held
                  PROVE  rel.pc # "off" \/ launched \/ m \in parked \/ send[m] = "holding"
      BY DEF NoLostHold
    <2>1. HeldSeen /\ (rel.handOff => rel.pc = "end")
      BY DEF DispatchInv, TypeInv, Release
    <2>. QED BY <2>1 DEF HeldSeen
  <1>. QED BY <1>1, DispatchInvariant, PTL

(* A frame is written only in a Post, for the request at hand; the request  *)
(* was made when nothing held stood before its message.                     *)
LEMMA NobodyOvertakes ==
    ASSUME DispatchInv, [Next]_vars, NEW m \in Msgs
    PROVE  ~Overtakes(m)
  <1>. SUFFICES ASSUME written'[m] > written[m],
                       NEW x \in before[m], order[x] < order[m], rec[x].state = "held"
                PROVE  FALSE
    BY DEF Overtakes
  <1>0. TypeInv /\ TypeOK /\ Once(m) /\ Ahead(m) /\ written \in [Msgs -> Nat]
    BY DEF DispatchInv, TypeInv, TypeOK
  <1>1. written' # written
    BY <1>0
  <1>2. Post
    BY <1>1 DEF Next, vars, Accept, SendStep, Lock, LockTimeout, Push, Hold, SubmitTimeout, Answered,
       AnswerLost, SendError, Launch, Finish, Pass, Prune, PollRead, PollJudge, PollHeld, PollLate, PollExpire,
       HelperStep, TurnAway, Replay, Take, Mark, Deliver, HelperCrashes, HelperCloses, HelperGone,
       HelperStarts, RelStep, RelStart, RelList, RelJudge, RelTimeout, RelAnswered, RelAnswerLost,
       RelPause, RelStop, RelError, RelEnd, LaunchGivesUp, HookLaunch, WindowEnds,
       sendVars, storeVars, helperVars, relVars, relOthers
  <1>3. job # Nobody /\ (written' = written \/ written' = [written EXCEPT ![job.msg] = @ + 1])
    BY <1>2 DEF Post
  <1>4. job.msg \in Msgs /\ job.caller \in Callers
    BY <1>0, <1>3, JobTypes
  <1>5. job.msg = m
    BY <1>0, <1>1, <1>3, <1>4
  <1>6. Req(job.caller, m)
    BY <1>3, <1>5 DEF Req, Serving
  <1>7. job.caller \in {m, Releaser}
    BY <1>0, <1>4, <1>6 DEF Once
  <1>. QED BY <1>0, <1>6, <1>7 DEF Ahead

(* Dispatch lock, HeldFor and the release's order together: no frame of a   *)
(* message is written while an earlier one, held since before it was        *)
(* dispatched, is still waiting.                                            *)
THEOREM HeldFirst ==
    ASSUME ~StoreMayFail
    PROVE  Spec => NoOvertaking
  <1>1. DispatchInv /\ [Next]_vars => [\A m \in Msgs : ~Overtakes(m)]_vars
    BY NobodyOvertakes
  <1>. QED BY <1>1, DispatchInvariant, PTL DEF Spec, NoOvertaking


-----------------------------------------------------------------------------
(* Known failures are true but for what a status request made up.           *)

(* What a step may do with a message without writing it or asking for it,  *)
(* and with a known failure only where there is no frame to come.           *)
Quiet(y) ==
    /\ poll'[y].pc = "due" => poll'[y] = poll[y]
    /\ y \in late => y \in late'
    /\ written'[y] = written[y]
    /\ rec[y].handoff => rec'[y].handoff
    /\ Unsettled(y)' => Unsettled(y)
    /\ (Early(y)' => Early(y)) /\ (Req(y, y)' => Req(y, y)) /\ (Req(Releaser, y)' => Req(Releaser, y))
    /\ Known(y) /\ ToJudge(y)' => ToJudge(y)
    /\ Known(y)' =>
          \/ Known(y)
          \/ /\ written[y] = 0
             /\ \/ y \in late'
                \/ ~Early(y)' /\ ~Req(y, y)' /\ ~Req(Releaser, y)' /\ ~ToJudge(y)'
    /\ KnownAns(hub'[y]) => KnownAns(hub[y]) \/ written[y] = 0
    /\ job' # Nobody /\ job'.msg = y /\ job'.step # "queued" =>
          job # Nobody /\ job.msg = y /\ job.step # "queued"
    /\ send'[y] = "submitted" /\ KnownAns(answer'[y]) =>
          \/ send[y] = "submitted" /\ KnownAns(answer[y])
          \/ written[y] = 0 /\ ~Req(y, y)'
    /\ rel'.pc = "submitted" /\ rel'.cur = y /\ KnownAns(answer'[Releaser]) =>
          \/ rel.pc = "submitted" /\ rel.cur = y /\ KnownAns(answer[Releaser])
          \/ written[y] = 0 /\ ~Req(Releaser, y)'

(* Such a step keeps known failures true. *)
LEMMA QuietKeeps ==
    ASSUME NEW y \in Msgs, True(y), Quiet(y)
    PROVE  True(y)'
  <1>1. /\ poll'[y].pc = "due" => y \in late'
        /\ poll'[y].pc = "due" /\ ~poll'[y].handoff /\ Unsettled(y)' => written'[y] = 0
    BY DEF True, Quiet
  <1>2. Known(y)' => /\ written'[y] = 0
                     /\ \/ y \in late'
                        \/ ~Early(y)' /\ ~Req(y, y)' /\ ~Req(Releaser, y)' /\ ~ToJudge(y)'
    BY DEF True, Quiet
  <1>h. KnownAns(hub'[y]) => written'[y] = 0
    BY DEF True, Quiet
  <1>3. /\ written'[y] > 0 => rec'[y].handoff \/ ~Unsettled(y)'
        /\ job' # Nobody /\ job'.msg = y /\ job'.step # "queued" =>
              rec'[y].handoff \/ ~Unsettled(y)'
    BY DEF True, Quiet
  <1>4. /\ send'[y] = "submitted" /\ KnownAns(answer'[y]) => written'[y] = 0 /\ ~Req(y, y)'
        /\ rel'.pc = "submitted" /\ rel'.cur = y /\ KnownAns(answer'[Releaser]) =>
              written'[y] = 0 /\ ~Req(Releaser, y)'
    BY DEF True, Quiet
  <1>. QED BY <1>1, <1>2, <1>h, <1>3, <1>4 DEF True

(* A message that a step does not concern. *)
LEMMA Apart ==
    ASSUME NEW y \in Msgs, True(y), UNCHANGED <<job, rel, hub>>, late \subseteq late',
           rec'[y] = rec[y], poll'[y] = poll[y], send'[y] = send[y], written'[y] = written[y],
           answer'[y] = answer[y], answer'[Releaser] = answer[Releaser],
           InQueue(y, y)' => InQueue(y, y), InQueue(Releaser, y)' => InQueue(Releaser, y)
    PROVE  True(y)'
  <1>1. (Req(y, y)' => Req(y, y)) /\ (Req(Releaser, y)' => Req(Releaser, y))
    BY DEF Req, Serving
  <1>2. (Early(y)' <=> Early(y)) /\ (Known(y)' <=> Known(y)) /\ (Unsettled(y)' <=> Unsettled(y))
    BY DEF Early, Known, Unsettled
  <1>3. Quiet(y)
    BY <1>1, <1>2 DEF Quiet, ToJudge
  <1>. QED BY <1>3, QuietKeeps

(* A message nobody has asked for, whose receipt is as the sender left it. *)
LEMMA EarlyTrue ==
    ASSUME KnownInv, NEW m \in Msgs, Early(m), UNCHANGED <<job, rel, hub, written, late>>,
           poll'[m] = poll[m], rec'[m].handoff = rec[m].handoff,
           InQueue(m, m)' => m \notin late /\ answer'[m] = Nobody /\ ~Known(m)',
           ~InQueue(Releaser, m)',
           Known(m)' => m \in late \/ ~Early(m)'
    PROVE  True(m)'
  <1>0. True(m) /\ m \in Callers /\ Releaser \in Callers /\ DispatchInv /\ written[m] \in Nat
    BY DEF KnownInv, Callers, DispatchInv, TypeInv, TypeOK
  <1>1. /\ \A c \in Callers : ~Req(c, m) /\ ~InQueue(c, m)
        /\ ~Touched(m) /\ (job # Nobody => job.msg # m) /\ m \notin rel.todo
    BY <1>0, Untouched
  <1>2. written'[m] = 0
    BY <1>0, <1>1 DEF Touched
  <1>3. ~Req(Releaser, m)' /\ (Req(m, m)' => InQueue(m, m)')
    BY <1>1 DEF Req, Serving
  <1>4. Known(m)' => m \in late' \/ (~Early(m)' /\ ~Req(m, m)' /\ ~Req(Releaser, m)' /\ ~ToJudge(m)')
    BY <1>1, <1>3 DEF ToJudge
  <1>5. KnownAns(answer'[m]) => ~Req(m, m)'
    BY <1>3 DEF KnownAns
  <1>6. ~(written'[m] > 0)
    BY <1>2
  <1>. QED BY <1>0, <1>1, <1>2, <1>3, <1>4, <1>5, <1>6 DEF True


(* A settlement makes a known failure only by an event that is one. *)
LEMMA SettlesKnown ==
    ASSUME TypeOK, NEW m \in Msgs, NEW kind \in Kinds, NEW unknown \in BOOLEAN, Settles(m, kind, unknown),
           poll[m].misled => poll'[m].misled
    PROVE  /\ Known(m)' => \/ Known(m)
                           \/ Unsettled(m) /\ kind \in Final \ {"delivered"} /\ ~(kind = "failed" /\ unknown)
           /\ Unsettled(m)' => Unsettled(m)
           /\ rec'[m].handoff = rec[m].handoff
  <1>0. rec[m] \in Receipt
    BY DEF TypeOK
  <1>1. CASE rec[m].state \notin {"accepted", "held"}
    <2>1. rec'[m] = rec[m]
      BY <1>1 DEF Settles
    <2>. QED BY <2>1 DEF Known, Unsettled
  <1>2. CASE Unsettled(m) /\ kind # "held"
    <2>1. rec'[m].state = kind /\ (rec'[m].unknown <=> kind = "failed" /\ unknown)
          /\ rec'[m].handoff = rec[m].handoff
      BY <1>2 DEF Settles, Unsettled
    <2>. QED BY <1>2, <2>1 DEF Known
  <1>3. CASE Unsettled(m) /\ kind = "held"
    <2>1. rec'[m].state = "held" /\ rec'[m].handoff = rec[m].handoff
      BY <1>3 DEF Settles, Unsettled
    <2>. QED BY <1>3, <2>1 DEF Known, Final
  <1>. QED BY <1>1, <1>2, <1>3 DEF Unsettled

(* An answer becomes a known failure only when it is one. *)
LEMMA ProjectKnown ==
    ASSUME TypeOK, NEW m \in Msgs, NEW a \in Results, Project(m, a),
           poll[m].misled => poll'[m].misled
    PROVE  /\ Known(m)' => Known(m) \/ KnownAns(a)
           /\ Unsettled(m)' => Unsettled(m)
           /\ rec'[m].handoff = rec[m].handoff
  <1>0. a # Nobody
    BY Replies, NobodyAssumption
  <1>1. /\ KindOf(a) \in Kinds /\ UnknownOf(a) \in BOOLEAN
        /\ Settles(m, KindOf(a), UnknownOf(a))
    BY ProjectOK
  <1>2. KindOf(a) \in Final \ {"delivered"} /\ ~(KindOf(a) = "failed" /\ UnknownOf(a)) => KnownAns(a)
    BY <1>0 DEF KindOf, UnknownOf, KnownAns, Final
  <1>. QED BY <1>1, <1>2, SettlesKnown

(* PutAccepted makes no failure known. *)
LEMMA AcceptTrue ==
    ASSUME KnownInv, NEW m \in Msgs, Accept(m)
    PROVE  \A y \in Msgs : True(y)'
  <1>. USE DEF helperVars, relVars
  <1>0. TypeInv /\ TypeOK /\ DispatchInv
    BY DEF KnownInv, DispatchInv, TypeInv
  <1>1. /\ send[m] = "idle" /\ send'[m] = "waiting" /\ rec'[m].state = "accepted"
        /\ rec'[m].handoff = rec[m].handoff
        /\ UNCHANGED <<job, hub, written, rel, late, poll, answer, queue>>
        /\ \A y \in Msgs \ {m} : rec'[y] = rec[y] /\ send'[y] = send[y]
    BY <1>0 DEF Accept, TypeOK, Receipt
  <1>2. \A y \in Msgs : \A c : InQueue(c, y)' <=> InQueue(c, y)
    BY <1>1 DEF InQueue
  <1>3. True(m)'
    <2>1. Early(m)
      BY <1>1 DEF Early
    <2>2. ~InQueue(m, m) /\ ~InQueue(Releaser, m)
      BY <1>0, <2>1, Untouched DEF Callers
    <2>3. ~Known(m)'
      BY <1>1 DEF Known, Final
    <2>. QED BY <1>1, <1>2, <2>1, <2>2, <2>3, EarlyTrue
  <1>4. ASSUME NEW y \in Msgs \ {m} PROVE True(y)'
    BY <1>1, <1>2, Apart DEF KnownInv
  <1>. QED BY <1>3, <1>4

(* A sender records a known failure only of a message it did not ask for,   *)
(* or that was answered so.                                                 *)
LEMMA SendTrue ==
    ASSUME ~StoreMayFail, KnownInv, NEW m \in Msgs, SendStep(m)
    PROVE  \A y \in Msgs : True(y)'
  <1>. USE DEF sendVars, storeVars, helperVars, relVars
  <1>0. /\ RecKept /\ TypeInv /\ TypeOK /\ DispatchInv /\ True(m)
        /\ m \in Callers /\ m # Releaser /\ Releaser \in Callers
        /\ answer \in [Callers -> Results \cup {Nobody}]
    BY SendTypes, DispatchAssumption DEF KnownInv, DispatchInv, TypeInv, Callers
  <1>1. UNCHANGED <<job, hub, written, rel, late, poll>>
    BY DEF SendStep, Lock, LockTimeout, Push, Hold, SubmitTimeout, Answered, AnswerLost, SendError,
       Launch, Finish
  <1>2. /\ answer'[Releaser] = answer[Releaser]
        /\ queue' \subseteq queue \cup {[caller |-> m, msg |-> m]}
    BY <1>0 DEF SendStep, Lock, LockTimeout, Push, Hold, SubmitTimeout, Answered, AnswerLost, SendError,
       Launch, Finish, Submit, GiveUp, Hangup
  <1>3. ASSUME NEW y \in Msgs \ {m} PROVE True(y)'
    <2>0. y \in Callers /\ y # m
      BY DEF Callers
    <2>1. send'[y] = send[y]
      BY <1>0, <2>0 DEF SendStep, Lock, LockTimeout, Push, Hold, SubmitTimeout, Answered, AnswerLost,
         SendError, Launch, Finish, TypeOK
    <2>2. answer'[y] = answer[y]
      BY <1>0, <2>0 DEF SendStep, Lock, LockTimeout, Push, Hold, SubmitTimeout, Answered, AnswerLost,
         SendError, Launch, Finish, Submit, GiveUp, Hangup
    <2>3. rec'[y] = rec[y]
      BY <1>0, <2>0 DEF SendStep, Lock, LockTimeout, Push, Hold, SubmitTimeout, Answered, AnswerLost,
         SendError, Launch, Finish, Settle, Project, TypeOK
    <2>4. \A c \in Callers : InQueue(c, y)' => InQueue(c, y)
      BY <1>2, <2>0 DEF InQueue
    <2>. QED BY <1>0, <1>1, <1>2, <2>0, <2>1, <2>2, <2>3, <2>4, Apart DEF KnownInv
  <1>4. CASE Lock(m) \/ LockTimeout(m) \/ Hold(m)
    <2>1. Early(m)
      BY <1>4 DEF Lock, LockTimeout, Hold, Early
    <2>2. queue' = queue /\ answer' = answer
      BY <1>4 DEF Lock, LockTimeout, Hold
    <2>3. ~InQueue(m, m)' /\ ~InQueue(Releaser, m)'
      <3>1. ~InQueue(m, m) /\ ~InQueue(Releaser, m)
        BY <1>0, <2>1, Untouched
      <3>. QED BY <2>2, <3>1 DEF InQueue
    <2>4. rec'[m].handoff = rec[m].handoff /\ (Known(m)' => m \in late \/ ~Early(m)')
      <3>1. CASE Lock(m)
        <4>1. rec' = rec
          BY <3>1 DEF Lock
        <4>2. Known(m)' => Known(m)
          BY <1>1, <4>1 DEF Known
        <4>. QED BY <1>0, <2>1, <4>1, <4>2 DEF True
      <3>2. CASE LockTimeout(m)
        <4>1. "failed" \in Kinds /\ Settle(m, "failed", FALSE) /\ send'[m] = "done"
          BY <1>0, <3>2 DEF LockTimeout, Kinds, Final, TypeOK
        <4>. QED BY <1>0, <4>1, SettleOK DEF Settles, Early
      <3>3. CASE Hold(m)
        <4>1. "held" \in Kinds /\ Settle(m, "held", FALSE) /\ send'[m] \in {"holding", "unlocking"}
          BY <1>0, <3>3 DEF Hold, Kinds, TypeOK
        <4>. QED BY <1>0, <4>1, SettleOK DEF Settles, Early
      <3>. QED BY <1>4, <3>1, <3>2, <3>3
    <2>. QED BY <1>3, <1>1, <2>1, <2>3, <2>4, EarlyTrue
  <1>5. CASE Push(m)
    <2>0. /\ send[m] = "locked" /\ send'[m] = "submitted" /\ rec' = rec /\ Submit(m, m)
      BY <1>0, <1>5 DEF Push, TypeOK
    <2>1. Early(m) /\ ~Early(m)'
      BY <2>0 DEF Early
    <2>2. ~InQueue(m, m) /\ ~InQueue(Releaser, m) /\ answer[m] = Nobody
      BY <1>0, <2>1, Untouched
    <2>3. ~InQueue(Releaser, m)'
      BY <1>0, <1>2, <2>2 DEF InQueue
    <2>4. Known(m)' => Known(m) /\ m \in late
      <3>1. Known(m)' => Known(m)
        BY <1>1, <2>0 DEF Known
      <3>. QED BY <1>0, <2>1, <3>1 DEF True
    <2>5. InQueue(m, m)' => m \notin late /\ answer'[m] = Nobody
      BY <2>0, <2>2 DEF Submit, InQueue
    <2>. QED BY <1>3, <1>1, <2>0, <2>1, <2>3, <2>4, <2>5, EarlyTrue
  <1>6. CASE SubmitTimeout(m) \/ Answered(m) \/ Launch(m) \/ Finish(m)
    <2>1. queue' = queue /\ send[m] \in {"submitted", "holding", "unlocking"}
      BY <1>6 DEF SubmitTimeout, Answered, Launch, Finish
    <2>2. \A c \in Callers : Req(c, m)' => Req(c, m)
      BY <1>1, <2>1 DEF Req, InQueue, Serving
    <2>3. ~Early(m)'
      BY <1>0, <1>6 DEF SubmitTimeout, Answered, Launch, Finish, Early, TypeOK
    <2>4. CASE SubmitTimeout(m) \/ Launch(m) \/ Finish(m)
      <3>1. rec' = rec
        BY <2>4 DEF SubmitTimeout, Launch, Finish
      <3>2. (Known(m)' <=> Known(m)) /\ (Unsettled(m)' <=> Unsettled(m))
        BY <1>1, <3>1 DEF Known, Unsettled
      <3>3. send'[m] = "submitted" => ~KnownAns(answer'[m])
        BY <1>0, <2>4 DEF SubmitTimeout, Launch, Finish, GiveUp, KnownAns, Ambiguous, TypeOK
      <3>4. Quiet(m)
        BY <1>0, <1>1, <1>2, <2>2, <2>3, <3>1, <3>2, <3>3 DEF Quiet, ToJudge
      <3>. QED BY <1>3, <1>0, <3>4, QuietKeeps
    <2>5. CASE Answered(m)
      <3>1. /\ answer[m] \in Results /\ Project(m, answer[m]) /\ send[m] = "submitted"
            /\ send'[m] # "submitted"
        BY <1>0, <2>5 DEF Answered, TypeOK
      <3>2. /\ Known(m)' => Known(m) \/ KnownAns(answer[m])
            /\ Unsettled(m)' => Unsettled(m)
            /\ rec'[m].handoff = rec[m].handoff
        BY <1>0, <1>1, <3>1, ProjectKnown
      <3>3. m \notin rel.todo /\ ~Req(Releaser, m)
        BY <1>0, <3>1 DEF DispatchInv, Once, Young
      <3>4. KnownAns(answer[m]) => written[m] = 0 /\ ~Req(m, m)
        BY <1>0, <3>1 DEF True
      <3>5. Quiet(m)
        BY <1>0, <1>1, <1>2, <2>2, <2>3, <3>1, <3>2, <3>3, <3>4 DEF Quiet, ToJudge
      <3>. QED BY <1>3, <1>0, <3>5, QuietKeeps
    <2>. QED BY <1>6, <2>4, <2>5
  <1>. QED BY <1>3, <1>4, <1>5, <1>6 DEF SendStep, AnswerLost, SendError

(* The clock and the readers: a deadline fails what was not handed off, and *)
(* a stale receipt is marked as the reader's.                               *)
LEMMA PollTrue ==
    ASSUME KnownInv, NEW m \in Msgs,
           Pass(m) \/ Prune(m) \/ PollRead(m) \/ PollJudge(m) \/ PollHeld(m) \/ PollLate(m) \/ PollExpire(m)
    PROVE  \A y \in Msgs : True(y)'
  <1>. USE DEF sendVars, storeVars, helperVars, relVars
  <1>0. /\ TypeInv /\ TypeOK /\ DispatchInv /\ True(m) /\ Once(m) /\ m \in Callers /\ Releaser \in Callers
        /\ poll \in [Msgs -> PollRecord] /\ poll[m] \in PollRecord
        /\ written[m] \in Nat /\ rec[m] \in Receipt
    BY DEF KnownInv, DispatchInv, TypeInv, TypeOK, Callers
  <1>2. /\ UNCHANGED <<send, answer, queue, job, hub, written, before, rel, launched, parked>>
        /\ late \subseteq late'
    BY DEF Pass, Prune, PollRead, PollJudge, PollHeld, PollLate, PollExpire
  <1>3. \A y \in Msgs : \A c : (InQueue(c, y)' <=> InQueue(c, y)) /\ (Req(c, y)' <=> Req(c, y))
    BY <1>2 DEF InQueue, Req, Serving
  <1>4. ASSUME NEW y \in Msgs \ {m} PROVE True(y)'
    <2>1. rec'[y] = rec[y] /\ poll'[y] = poll[y]
      BY <1>0 DEF Pass, Prune, PollRead, PollJudge, PollHeld, PollLate, PollExpire, PollIdle, Project,
         SettleDeadline, Settle, TypeOK
    <2>. QED BY <1>2, <1>3, <2>1, Apart DEF KnownInv
  <1>5. (Early(m)' <=> Early(m)) /\ (ToJudge(m)' <=> ToJudge(m))
    BY <1>2 DEF Early, ToJudge
  <1>i. ASSUME NEW misled \in BOOLEAN, PollIdle(m, misled)
        PROVE  poll'[m].pc = "idle" /\ (poll'[m].misled <=> poll[m].misled \/ misled)
    BY <1>0, <1>i DEF PollIdle, IdlePoll, PollRecord
  <1>k. rec' = rec /\ poll'[m].misled = poll[m].misled =>
           (Known(m)' <=> Known(m)) /\ (Unsettled(m)' <=> Unsettled(m))
    BY DEF Known, Unsettled
  <1>q. ASSUME poll'[m].pc # "due", rec' = rec, poll'[m].misled = poll[m].misled PROVE True(m)'
    <2>1. Quiet(m)
      BY <1>2, <1>3, <1>5, <1>k, <1>q DEF Quiet
    <2>. QED BY <1>0, <2>1, QuietKeeps
  <1>6. CASE Pass(m)
    <2>1. rec' = rec /\ poll' = poll
      BY <1>6 DEF Pass
    <2>. QED BY <1>4, <1>0, <1>2, <1>3, <2>1, Apart
  <1>11. CASE Prune(m)
    <2>1. /\ SettleDeadline(m, rec[m].handoff) /\ poll' = poll /\ Unsettled(m)
          /\ rec[m].handoff \in BOOLEAN /\ late' = late /\ m \in late
      BY <1>0, <1>11 DEF Prune, Receipt
    <2>. DEFINE kind == IF rec[m].handoff THEN "failed" ELSE "expired"
    <2>2. Settles(m, kind, rec[m].handoff) /\ kind \in Kinds
      BY <1>0, <2>1, SettleDeadlineOK DEF Kinds, Final
    <2>3. /\ Known(m)' => Known(m) \/ ~(kind = "failed" /\ rec[m].handoff)
          /\ Unsettled(m)' => Unsettled(m)
          /\ rec'[m].handoff = rec[m].handoff
      BY <1>0, <2>1, <2>2, SettlesKnown
    <2>4. Known(m)' => Known(m) \/ written[m] = 0
      BY <1>0, <2>1, <2>3 DEF True
    <2>5. Quiet(m)
      BY <1>2, <1>3, <1>5, <2>1, <2>3, <2>4 DEF Quiet
    <2>. QED BY <1>4, <1>0, <2>5, QuietKeeps
  <1>7. CASE PollRead(m) \/ PollHeld(m)
    <2>1. rec' = rec /\ poll'[m].pc # "due" /\ poll'[m].misled = poll[m].misled
      BY <1>0, <1>7 DEF PollRead, PollHeld, PollRecord
    <2>. QED BY <1>4, <1>q, <2>1
  <1>8. CASE PollLate(m)
    <2>0. rec' = rec /\ late' = late
      BY <1>8 DEF PollLate
    <2>1. CASE m \in late /\ Unsettled(m)
      <3>1. /\ poll'[m].pc = "due" /\ poll'[m].handoff = rec[m].handoff
            /\ poll'[m].misled = poll[m].misled
        BY <1>0, <1>8, <2>1 DEF PollLate, PollRecord
      <3>2. ~rec[m].handoff /\ Unsettled(m) => written[m] = 0
        BY <1>0 DEF True
      <3>3. (Known(m)' <=> Known(m)) /\ (Unsettled(m)' <=> Unsettled(m))
        BY <1>k, <2>0, <3>1
      <3>4. True(m)'
        BY <1>0, <1>2, <1>3, <1>5, <2>0, <2>1, <3>1, <3>2, <3>3 DEF True
      <3>. QED BY <1>4, <3>4
    <2>2. CASE ~(m \in late /\ Unsettled(m))
      <3>1. PollIdle(m, FALSE)
        BY <1>8, <2>2 DEF PollLate
      <3>2. poll[m].misled \in BOOLEAN /\ poll'[m].misled \in BOOLEAN
        BY <1>0, <3>1 DEF PollRecord, PollIdle, IdlePoll
      <3>3. poll'[m].pc = "idle" /\ poll'[m].misled = poll[m].misled
        BY <1>i, <3>1, <3>2
      <3>. QED BY <1>4, <1>q, <2>0, <3>3
    <2>. QED BY <2>1, <2>2
  <1>9. CASE PollExpire(m)
    <2>1. /\ poll[m].pc = "due" /\ SettleDeadline(m, poll[m].handoff) /\ poll'[m].pc = "idle"
          /\ poll[m].handoff \in BOOLEAN /\ late' = late /\ m \in late
          /\ poll[m].misled => poll'[m].misled
      BY <1>0, <1>9, <1>i DEF PollExpire, True, PollRecord
    <2>. DEFINE kind == IF poll[m].handoff THEN "failed" ELSE "expired"
    <2>2. Settles(m, kind, poll[m].handoff) /\ kind \in Kinds
      BY <1>0, <2>1, SettleDeadlineOK DEF Kinds, Final
    <2>3. /\ Known(m)' => \/ Known(m)
                          \/ Unsettled(m) /\ ~(kind = "failed" /\ poll[m].handoff)
          /\ Unsettled(m)' => Unsettled(m)
          /\ rec'[m].handoff = rec[m].handoff
      BY <1>0, <2>1, <2>2, SettlesKnown
    <2>4. Known(m)' => Known(m) \/ written[m] = 0
      BY <1>0, <2>1, <2>3 DEF True
    <2>5. Quiet(m)
      BY <1>2, <1>3, <1>5, <2>1, <2>3, <2>4 DEF Quiet
    <2>. QED BY <1>4, <1>0, <2>5, QuietKeeps
  <1>10. CASE PollJudge(m)
    <2>. DEFINE stale == Unsettled(m) /\ rec'[m].state = "stale"
    <2>1. PollIdle(m, stale) /\ stale \in BOOLEAN /\ late' = late
      BY <1>10 DEF PollJudge
    <2>2. /\ poll'[m].pc = "idle" /\ (poll[m].misled => poll'[m].misled)
          /\ stale => ~Known(m)'
      BY <1>i, <2>1 DEF Known
    <2>. HIDE DEF stale
    <2>3. ASSUME NEW kind \in Kinds, NEW unknown \in BOOLEAN, Settles(m, kind, unknown),
                 kind \in Final \ {"delivered", "stale"} /\ ~(kind = "failed" /\ unknown) =>
                    written[m] = 0 /\ ~Early(m) /\ ~Req(m, m) /\ ~Req(Releaser, m) /\ ~ToJudge(m)
          PROVE  True(m)'
      <3>1. /\ Known(m)' => \/ Known(m)
                            \/ /\ Unsettled(m) /\ kind \in Final \ {"delivered"}
                               /\ ~(kind = "failed" /\ unknown)
            /\ Unsettled(m)' => Unsettled(m)
            /\ rec'[m].handoff = rec[m].handoff
        BY <1>0, <2>2, <2>3, SettlesKnown
      <3>2. Unsettled(m) /\ kind = "stale" => ~Known(m)'
        <4>1. Unsettled(m) /\ kind = "stale" => rec'[m].state = "stale"
          BY <2>3 DEF Settles, Unsettled
        <4>. QED BY <2>2, <4>1 DEF stale
      <3>3. Quiet(m)
        BY <1>2, <1>3, <1>5, <2>1, <2>2, <2>3, <3>1, <3>2 DEF Quiet
      <3>. QED BY <1>0, <3>3, QuietKeeps
    <2>4. CASE Settle(m, "failed", TRUE) \/ Settle(m, "stale", FALSE)
      BY <1>0, <1>4, <2>3, <2>4, SettleOK DEF Kinds, Final
    <2>5. CASE Project(m, Stale) \/ Project(m, Ambiguous)
      <3>1. /\ KindOf(Stale) = "stale" /\ KindOf(Ambiguous) = "failed" /\ UnknownOf(Ambiguous)
            /\ UnknownOf(Ambiguous) \in BOOLEAN /\ UnknownOf(Stale) \in BOOLEAN
        BY DEF KindOf, UnknownOf, Stale, Ambiguous
      <3>2. Stale \in Results /\ Ambiguous \in Results
        BY Replies
      <3>3. CASE Project(m, Stale)
        BY <1>0, <1>4, <2>3, <3>1, <3>2, <3>3, ProjectOK
      <3>4. CASE Project(m, Ambiguous)
        BY <1>0, <1>4, <2>3, <3>1, <3>2, <3>4, ProjectOK
      <3>. QED BY <2>5, <3>3, <3>4
    <2>6. CASE job = Nobody /\ hub[m] # Unseen /\ Project(m, hub[m])
      <3>. DEFINE a == hub[m]
      <3>1. a \in Results /\ a # Nobody
        BY <1>0, <2>6, Replies, NobodyAssumption DEF TypeInv, TypeOK, Memory, PrivateDelivery, Results
      <3>2. /\ ~Early(m) /\ \A c \in Callers : ~InQueue(c, m)
            /\ ~ToJudge(m)
        BY <1>0, <2>6 DEF Once, Touched, ToJudge
      <3>3. ~Req(m, m) /\ ~Req(Releaser, m)
        BY <1>0, <2>6, <3>2 DEF Req, Serving
      <3>4. KnownAns(a) => written[m] = 0
        BY <1>0 DEF True
      <3>. HIDE DEF a
      <3>5. /\ KindOf(a) \in Kinds /\ UnknownOf(a) \in BOOLEAN
            /\ Settles(m, KindOf(a), UnknownOf(a))
        BY <1>0, <2>6, <3>1, ProjectOK DEF a
      <3>6. KindOf(a) \in Final \ {"delivered"} /\ ~(KindOf(a) = "failed" /\ UnknownOf(a)) => KnownAns(a)
        BY <3>1 DEF KindOf, UnknownOf, KnownAns, Final
      <3>7. True(m)'
        BY <2>3, <3>2, <3>3, <3>4, <3>5, <3>6
      <3>. QED BY <1>4, <3>7
    <2>. QED BY <1>10, <2>4, <2>5, <2>6 DEF PollJudge
  <1>. QED BY <1>6, <1>7, <1>8, <1>9, <1>10, <1>11


(* The helper answers the caller of one message without writing it: a known *)
(* failure only of one that is not written and no longer asked for.         *)
LEMMA ServeQuiet ==
    ASSUME KnownInv, NEW c \in Callers, NEW m \in Msgs, c \in {m, Releaser},
           UNCHANGED <<send, rel, late, poll>>, NEW y \in Msgs,
           \A b \in Callers \ {c} : answer'[b] = answer[b],
           answer'[c] # answer[c] =>
              Waits(c, m) /\ (KnownAns(answer'[c]) => written[m] = 0 /\ ~Req(c, m)'),
           \A b \in Callers : Req(b, y)' => Req(b, y),
           Known(y)' => Known(y), Unsettled(y)' => Unsettled(y), rec[y].handoff => rec'[y].handoff,
           job' # Nobody /\ job'.msg = y /\ job'.step # "queued" =>
              job # Nobody /\ job.msg = y /\ job.step # "queued",
           written'[y] = written[y],
           KnownAns(hub'[y]) => KnownAns(hub[y]) \/ written[y] = 0
    PROVE  True(y)'
  <1>0. True(y) /\ y \in Callers /\ Releaser \in Callers /\ Releaser \notin Msgs
    BY DispatchAssumption DEF KnownInv, Callers
  <1>1. send[y] = "submitted" /\ KnownAns(answer'[y]) =>
           KnownAns(answer[y]) \/ (written[y] = 0 /\ ~Req(y, y)')
    BY <1>0
  <1>2. rel.pc = "submitted" /\ rel.cur = y /\ KnownAns(answer'[Releaser]) =>
           KnownAns(answer[Releaser]) \/ (written[y] = 0 /\ ~Req(Releaser, y)')
    BY <1>0 DEF Waits
  <1>3. Early(y)' <=> Early(y)
    BY DEF Early
  <1>4. Quiet(y)
    BY <1>0, <1>1, <1>2, <1>3 DEF Quiet, ToJudge
  <1>. QED BY <1>0, <1>4, QuietKeeps

(* The helper writes to the provider: its message is not late, so nobody    *)
(* has given it up as not written.                                          *)
LEMMA WriteTrue ==
    ASSUME KnownInv, job # Nobody, NEW m \in Msgs, m = job.msg, m \notin late, job.step # "queued",
           UNCHANGED <<send, rel, late, poll, rec>>,
           job' # Nobody => job'.msg = m,
           \A b \in Callers : KnownAns(answer'[b]) => answer'[b] = answer[b],
           ~KnownAns(hub'[m])
    PROVE  True(m)'
  <1>0. /\ True(m) /\ Once(m) /\ m \in Callers /\ Releaser \in Callers /\ Releaser \notin Msgs
        /\ TypeInv
    BY DispatchAssumption DEF KnownInv, DispatchInv, Callers
  <1>1. PICK c \in Callers : c = job.caller
    BY <1>0, JobTypes
  <1>2. Req(c, m)
    BY <1>1 DEF Req, Serving
  <1>3. c \in {m, Releaser}
    BY <1>0, <1>2 DEF Once
  <1>4. poll[m].pc # "due"
    BY <1>0 DEF True
  <1>5. ~Known(m)'
    <2>1. ~Known(m)
      BY <1>0, <1>2, <1>3 DEF True
    <2>. QED BY <2>1 DEF Known
  <1>6. rec'[m].handoff \/ ~Unsettled(m)'
    <2>1. rec[m].handoff \/ ~Unsettled(m)
      BY <1>0 DEF True
    <2>. QED BY <2>1 DEF Unsettled
  <1>7. ~(send[m] = "submitted" /\ KnownAns(answer[m]))
    <2>1. c = Releaser => send[m] # "submitted"
      BY <1>0, <1>2 DEF Once, Young
    <2>2. send[m] = "submitted" /\ KnownAns(answer[m]) => ~Req(m, m)
      BY <1>0 DEF True
    <2>. QED BY <1>2, <1>3, <2>1, <2>2
  <1>8. ~(rel.pc = "submitted" /\ rel.cur = m /\ KnownAns(answer[Releaser]))
    <2>1. rel.pc = "submitted" /\ rel.cur = m => m \in rel.todo
      BY <1>0 DEF TypeInv, Release, Working
    <2>2. Req(m, m) => m \notin rel.todo
      BY <1>0 DEF Once
    <2>3. rel.pc = "submitted" /\ rel.cur = m /\ KnownAns(answer[Releaser]) => ~Req(Releaser, m)
      BY <1>0 DEF True
    <2>. QED BY <1>2, <1>3, <2>1, <2>2, <2>3
  <1>. QED BY <1>0, <1>4, <1>5, <1>6, <1>7, <1>8 DEF True

(* The helper answers with a known failure only before it writes. *)
LEMMA ServeTrue ==
    ASSUME ~StoreMayFail, KnownInv, HelperStep
    PROVE  \A y \in Msgs : True(y)'
  <1>. USE DEF sendVars, storeVars, helperVars, relVars
  <1>0. /\ RecKept /\ TypeInv /\ TypeOK /\ DispatchInv
        /\ queue \subseteq [caller : Callers, msg : Msgs]
        /\ rec \in [Msgs -> Receipt] /\ hub \in [Msgs -> PrivateDelivery] /\ written \in [Msgs -> Nat]
        /\ Msgs \subseteq Callers /\ Releaser \in Callers /\ Releaser \notin Msgs
    BY ServeTypes, DispatchAssumption DEF KnownInv, DispatchInv, TypeInv, TypeOK, Callers
  <1>1. UNCHANGED <<order, send, before, rel, launched, parked, late, poll>>
    BY DEF HelperStep, TurnAway, Replay, Take, Mark, Post, Deliver
  <1>s. \A a \in PrivateTerminal, b \in BOOLEAN : Settled(a, b) \in Results
    BY Replies
  <1>t. /\ "expired" \in PrivateTerminal /\ "refused" \in PrivateTerminal
        /\ "failed" \in PrivateTerminal /\ "delivered" \in PrivateTerminal
    BY DEF PrivateTerminal
  <1>k. ~KnownAns(Settled("failed", TRUE)) /\ ~KnownAns(Settled("delivered", FALSE))
    BY DEF KnownAns, Settled, Final
  <1>h. ~KnownAns(Settled("handoff", FALSE)) /\ ~KnownAns(Queued)
    BY Reductions DEF KnownAns, Settled, Final
  <1>r. rec' = rec => \A y \in Msgs : /\ (Known(y)' <=> Known(y)) /\ (Unsettled(y)' <=> Unsettled(y))
                                      /\ (rec[y].handoff => rec'[y].handoff)
    BY <1>1 DEF Known, Unsettled
  <1>2. ASSUME NEW q \in queue, TurnAway(q) \/ Replay(q) \/ Take(q), NEW y \in Msgs PROVE True(y)'
    <2>. DEFINE c == q.caller
                m == q.msg
    <2>0. /\ c \in Callers /\ m \in Msgs /\ q = [caller |-> c, msg |-> m]
          /\ queue' = queue \ {q} /\ rec' = rec /\ written' = written
      BY <1>0, <1>2 DEF TurnAway, Replay, Take
    <2>1. InQueue(c, m) /\ Req(c, m)
      BY <2>0 DEF InQueue, Req
    <2>. HIDE DEF c, m
    <2>2. /\ c \in {m, Releaser} /\ written[m] = 0 /\ hub[m] = Unseen
          /\ (job # Nobody => job.msg # m)
      BY <1>0, <2>0, <2>1, InQueueOK
    <2>3. \A b \in Callers : InQueue(b, y)' => InQueue(b, y)
      BY <2>0 DEF InQueue
    <2>4. ~InQueue(c, m)'
      BY <2>0 DEF InQueue
    <2>5. ASSUME NEW d \in Results, Answer(c, m, d), job' = job \/ job' = Nobody,
                 hub' = hub \/ hub' = [hub EXCEPT ![m] = d]
          PROVE  True(y)'
      <3>1. /\ \A b \in Callers \ {c} : answer'[b] = answer[b]
            /\ answer'[c] # answer[c] => Waits(c, m)
        BY <1>0, <1>1, <2>0, <2>5, AnswerOK
      <3>2. ~Req(c, m)'
        BY <2>2, <2>4, <2>5 DEF Req, Serving
      <3>3. \A b \in Callers : Req(b, y)' => Req(b, y)
        BY <2>3, <2>5 DEF Req, Serving
      <3>4. KnownAns(hub'[y]) => KnownAns(hub[y]) \/ written[y] = 0
        BY <1>0, <2>0, <2>2, <2>5
      <3>. QED BY <1>1, <1>r, <2>0, <2>2, <2>5, <3>1, <3>2, <3>3, <3>4, ServeQuiet
    <2>6. CASE TurnAway(q)
      <3>1. PICK d \in {Refused, Stale} : Answer(c, m, d)
        BY <2>6 DEF TurnAway, c, m
      <3>. QED BY <2>5, <2>6, <3>1, Replies DEF TurnAway
    <2>7. CASE Replay(q)
      BY <2>2, <2>7 DEF Replay, m
    <2>8. CASE Take(q)
      <3>1. CASE \E d \in {Settled("expired", FALSE), Settled("refused", FALSE)} : EndJob(c, m, d)
        BY <1>s, <1>t, <2>5, <3>1 DEF EndJob
      <3>2. CASE Answer(c, m, [state |-> "held", ambiguous |-> FALSE]) /\ UNCHANGED <<job, hub>>
        BY <2>5, <3>2, Replies
      <3>3. CASE /\ job' = [caller |-> c, msg |-> m, step |-> "queued"]
                 /\ hub' = [hub EXCEPT ![m] = Queued] /\ UNCHANGED answer
        <4>1. job'.msg = m /\ job'.caller = c /\ job'.step = "queued"
          BY <3>3
        <4>2. \A b \in Callers : Req(b, y)' => Req(b, y)
          BY <2>1, <2>3, <4>1 DEF Req, Serving
        <4>3. KnownAns(hub'[y]) => KnownAns(hub[y])
          BY <1>0, <1>h, <2>0, <3>3
        <4>. QED BY <1>1, <1>r, <2>0, <2>2, <3>3, <4>1, <4>2, <4>3, ServeQuiet
      <3>. QED BY <2>8, <3>1, <3>2, <3>3, Reductions DEF Take, c, m
    <2>. QED BY <1>2, <2>6, <2>7, <2>8
  <1>3. CASE Mark \/ Post \/ Deliver
    <2>0. job # Nobody /\ queue' = queue
      BY <1>3 DEF Mark, Post, Deliver
    <2>1. PICK m \in Msgs, c \in Callers : m = job.msg /\ c = job.caller
      BY <1>0, <2>0, JobTypes
    <2>2. Req(c, m) /\ Once(m) /\ True(m)
      BY <1>0, <2>0, <2>1 DEF Req, Serving, DispatchInv, KnownInv
    <2>3. c \in {m, Releaser}
      BY <2>2 DEF Once
    <2>4. \A b \in Callers : ~InQueue(b, m)
      <3>1. hub[m] # Unseen
        BY <1>0, <2>0, <2>1, JobTypes, Reductions DEF Unseen, Settled
      <3>. QED BY <2>2, <3>1 DEF Once, Touched
    <2>5. \A y \in Msgs : \A b : InQueue(b, y)' <=> InQueue(b, y)
      BY <2>0 DEF InQueue
    <2>6. ASSUME NEW d \in Results, EndJob(c, m, d), NEW y \in Msgs,
                 KnownAns(d) => written[m] = 0, written'[y] = written[y],
                 Known(y)' => Known(y), Unsettled(y)' => Unsettled(y)
          PROVE  True(y)'
      <3>1. Answer(c, m, d) /\ job' = Nobody /\ hub' = [hub EXCEPT ![m] = d]
        BY <2>6 DEF EndJob
      <3>6. KnownAns(hub'[y]) => KnownAns(hub[y]) \/ written[y] = 0
        BY <1>0, <2>1, <2>6, <3>1
      <3>2. /\ \A b \in Callers \ {c} : answer'[b] = answer[b]
            /\ answer'[c] # answer[c] => Waits(c, m) /\ answer'[c] = d
        BY <1>0, <1>1, <2>6, <3>1, AnswerOK
      <3>3. ~Req(c, m)'
        BY <2>4, <2>5, <3>1 DEF Req, Serving
      <3>4. \A b \in Callers : Req(b, y)' => Req(b, y)
        BY <2>5, <3>1 DEF Req, Serving
      <3>5. rec[y].handoff => rec'[y].handoff
        BY <1>0 DEF RecKept
      <3>. QED BY <1>1, <2>3, <2>6, <3>1, <3>2, <3>3, <3>4, <3>5, <3>6, ServeQuiet
    <2>7. CASE Mark
      <3>0. hub[m] = Queued /\ written' = written /\ job.step = "queued"
        BY <1>0, <2>0, <2>1, <2>7, JobTypes DEF Mark
      <3>1. CASE /\ rec' = [rec EXCEPT ![m].handoff = @ \/ Unsettled(m)]
                 /\ job' = [job EXCEPT !.step = "marked"] /\ UNCHANGED <<hub, answer>>
        <4>1. /\ \A y \in Msgs : rec'[y].state = rec[y].state /\ rec'[y].unknown = rec[y].unknown
              /\ Unsettled(m) => rec'[m].handoff
              /\ \A y \in Msgs : rec[y].handoff => rec'[y].handoff
          BY <1>0, <3>1 DEF Receipt, Unsettled
        <4>2. \A y \in Msgs : (Known(y)' <=> Known(y)) /\ (Unsettled(y)' <=> Unsettled(y))
          BY <1>1, <4>1 DEF Known, Unsettled
        <4>3. job'.msg = m /\ job'.caller = c /\ job' # Nobody
          BY <1>0, <2>0, <2>1, <3>1, JobTypes, NobodyAssumption DEF Jobs
        <4>4. \A y \in Msgs : \A b \in Callers : Req(b, y)' <=> Req(b, y)
          BY <2>0, <2>1, <2>5, <4>3 DEF Req, Serving
        <4>5. True(m)'
          <5>1. (Early(m)' <=> Early(m)) /\ (ToJudge(m)' <=> ToJudge(m))
            BY <1>1 DEF Early, ToJudge
          <5>2. rec'[m].handoff \/ ~Unsettled(m)'
            BY <4>1, <4>2
          <5>. QED BY <1>0, <1>1, <2>2, <3>0, <3>1, <4>1, <4>2, <4>4, <5>1, <5>2 DEF True
        <4>6. ASSUME NEW y \in Msgs \ {m} PROVE True(y)'
          BY <1>0, <1>1, <2>3, <3>0, <3>1, <4>1, <4>2, <4>3, <4>4, ServeQuiet
        <4>. QED BY <4>5, <4>6
      <3>2. CASE EndJob(c, m, PrivateReduce(hub[m], "fail", FALSE, TRUE)) /\ UNCHANGED rec
        <4>1. EndJob(c, m, Settled("failed", FALSE))
          BY <3>0, <3>2, Reductions
        <4>2. written[m] = 0
          BY <2>0, <2>1, <2>2, <3>0 DEF Once
        <4>. QED BY <1>r, <1>s, <1>t, <2>6, <3>0, <3>2, <4>1, <4>2
      <3>. QED BY <2>1, <2>7, <3>1, <3>2 DEF Mark
    <2>8. CASE Post
      <3>0. hub[m] = Queued /\ rec' = rec /\ job.step = "marked"
        BY <1>0, <2>0, <2>1, <2>8, JobTypes DEF Post
      <3>1. written[m] = 0
        BY <2>0, <2>1, <2>2, <3>0 DEF Once
      <3>2. CASE /\ written' = written
                 /\ \E d \in {Settled("expired", FALSE), Settled("failed", FALSE)} : EndJob(c, m, d)
        BY <1>r, <1>s, <1>t, <2>6, <3>0, <3>1, <3>2
      <3>3. CASE m \notin late /\ written' = [written EXCEPT ![m] = @ + 1] /\
                 \/ EndJob(c, m, Settled("failed", TRUE))
                 \/ /\ job' = [job EXCEPT !.step = "written"] /\ UNCHANGED answer
                    /\ hub' = [hub EXCEPT ![m] = Settled("handoff", FALSE)]
        <4>0. \A y \in Msgs \ {m} : written'[y] = written[y]
          BY <1>0, <3>3
        <4>1. CASE EndJob(c, m, Settled("failed", TRUE))
          <5>1. /\ \A b \in Callers : KnownAns(answer'[b]) => answer'[b] = answer[b]
                /\ job' = Nobody /\ ~KnownAns(hub'[m])
            <6>1. /\ Answer(c, m, Settled("failed", TRUE)) /\ job' = Nobody
                  /\ hub'[m] = Settled("failed", TRUE)
              BY <1>0, <4>1 DEF EndJob
            <6>2. Settled("failed", TRUE) \in Results
              BY <1>s, <1>t
            <6>3. /\ \A b \in Callers \ {c} : answer'[b] = answer[b]
                  /\ answer'[c] # answer[c] => answer'[c] = Settled("failed", TRUE)
              BY <1>0, <1>1, <6>1, <6>2, AnswerOK
            <6>. QED BY <1>k, <6>1, <6>3
          <5>2. True(m)'
            BY <1>1, <2>0, <2>1, <3>0, <3>3, <5>1, WriteTrue
          <5>3. \A y \in Msgs \ {m} : True(y)'
            BY <1>k, <1>r, <1>s, <1>t, <2>6, <3>0, <4>0, <4>1
          <5>. QED BY <5>2, <5>3
        <4>2. CASE /\ job' = [job EXCEPT !.step = "written"] /\ UNCHANGED answer
                   /\ hub' = [hub EXCEPT ![m] = Settled("handoff", FALSE)]
          <5>1. job'.msg = m /\ job'.caller = c
            BY <1>0, <2>0, <2>1, <4>2, JobTypes DEF Jobs
          <5>h. ~KnownAns(hub'[m]) /\ \A y \in Msgs \ {m} : hub'[y] = hub[y]
            BY <1>0, <1>h, <4>2
          <5>2. True(m)'
            BY <1>1, <2>0, <2>1, <3>0, <3>3, <4>2, <5>1, <5>h, WriteTrue
          <5>3. \A y \in Msgs : \A b \in Callers : Req(b, y)' => Req(b, y)
            BY <2>0, <2>1, <2>5, <5>1 DEF Req, Serving
          <5>4. ASSUME NEW y \in Msgs \ {m} PROVE True(y)'
            BY <1>1, <1>r, <2>3, <3>0, <4>0, <4>2, <5>1, <5>3, <5>h, ServeQuiet
          <5>. QED BY <5>2, <5>4
        <4>. QED BY <3>3, <4>1, <4>2
      <3>. QED BY <2>1, <2>8, <3>0, <3>2, <3>3, Reductions DEF Post
    <2>9. CASE Deliver
      <3>0. /\ hub[m] = Settled("handoff", FALSE) /\ written' = written
            /\ Settle(m, "delivered", FALSE)
        BY <1>0, <2>0, <2>1, <2>9, JobTypes DEF Deliver
      <3>1. PICK d \in {Settled("delivered", FALSE), Settled("failed", TRUE)} : EndJob(c, m, d)
        BY <2>1, <2>9, <3>0, Reductions DEF Deliver
      <3>2. "delivered" \in Kinds
        BY DEF Kinds, Final
      <3>3. Settles(m, "delivered", FALSE)
        BY <1>0, <3>0, <3>2, SettleOK
      <3>4. \A y \in Msgs : (Known(y)' => Known(y)) /\ (Unsettled(y)' => Unsettled(y))
        <4>1. (Known(m)' => Known(m)) /\ (Unsettled(m)' => Unsettled(m))
          BY <1>0, <1>1, <3>2, <3>3, SettlesKnown
        <4>2. \A y \in Msgs \ {m} : rec'[y] = rec[y]
          BY <3>3 DEF Settles
        <4>. QED BY <1>1, <4>1, <4>2 DEF Known, Unsettled
      <3>. QED BY <1>k, <1>s, <1>t, <2>6, <3>0, <3>1, <3>4
    <2>. QED BY <1>3, <2>7, <2>8, <2>9
  <1>. QED BY <1>2, <1>3 DEF HelperStep


(* The helper is gone: no request is left, and what it answered is a known  *)
(* failure only of a message that was not written.                          *)
LEMMA GoneTrue ==
    ASSUME KnownInv, NEW requests \in SUBSET [caller : Callers, msg : Msgs],
           NEW result \in [Msgs -> Results], HelperGone(requests, result),
           \A q \in requests : /\ q.caller \in {q.msg, Releaser}
                               /\ KnownAns(result[q.msg]) => written[q.msg] = 0,
           NEW y \in Msgs
    PROVE  True(y)'
  <1>. USE DEF sendVars, storeVars, helperVars, relVars
  <1>0. True(y) /\ y \in Callers /\ Releaser \in Callers /\ Releaser \notin Msgs /\ Releaser # y
    BY DispatchAssumption DEF KnownInv, Callers
  <1>1. /\ UNCHANGED <<send, rel, late, poll, rec, written>> /\ queue' = {} /\ job' = Nobody
        /\ hub'[y] = Unseen
    BY DEF HelperGone
  <1>2. \A b \in Callers : ~Req(b, y)'
    BY <1>1 DEF Req, InQueue, Serving
  <1>3. ASSUME NEW c \in Callers, answer'[c] # answer[c]
        PROVE  \E q \in requests : q.caller = c /\ Waits(c, q.msg) /\ answer'[c] = result[q.msg]
    <2>. DEFINE mine(q) == q.caller = c /\ Waits(c, q.msg)
    <2>1. answer'[c] = IF \E q \in requests : mine(q)
                       THEN result[(CHOOSE q \in requests : mine(q)).msg] ELSE answer[c]
      BY DEF HelperGone
    <2>2. \E q \in requests : mine(q)
      BY <1>3, <2>1
    <2>3. PICK q \in requests : mine(q) /\ q = CHOOSE p \in requests : mine(p)
      BY <2>2
    <2>. QED BY <2>1, <2>2, <2>3
  <1>4. send[y] = "submitted" /\ KnownAns(answer'[y]) => KnownAns(answer[y]) \/ written[y] = 0
    <2>1. CASE answer'[y] # answer[y]
      <3>1. PICK q \in requests : q.caller = y /\ answer'[y] = result[q.msg]
        BY <1>0, <1>3, <2>1
      <3>. QED BY <1>0, <3>1
    <2>. QED BY <2>1
  <1>5. rel.pc = "submitted" /\ rel.cur = y /\ KnownAns(answer'[Releaser]) =>
           KnownAns(answer[Releaser]) \/ written[y] = 0
    <2>1. CASE answer'[Releaser] # answer[Releaser]
      <3>1. PICK q \in requests : Waits(Releaser, q.msg) /\ answer'[Releaser] = result[q.msg]
        BY <1>0, <1>3, <2>1
      <3>2. rel.cur = q.msg
        BY <3>1 DEF Waits
      <3>. QED BY <3>1, <3>2
    <2>. QED BY <2>1
  <1>6. /\ (Early(y)' <=> Early(y)) /\ (Known(y)' <=> Known(y)) /\ (Unsettled(y)' <=> Unsettled(y))
    BY <1>1 DEF Early, Known, Unsettled
  <1>h. ~KnownAns(hub'[y])
    BY <1>1 DEF KnownAns, Unseen, Final
  <1>7. Quiet(y)
    BY <1>0, <1>1, <1>2, <1>4, <1>5, <1>6, <1>h DEF Quiet, ToJudge
  <1>. QED BY <1>0, <1>7, QuietKeeps

(* A helper that dies leaves an unknown outcome; one that closes has no     *)
(* request at work, and those that wait were not written.                   *)
LEMMA HelperLifeTrue ==
    ASSUME KnownInv, HelperCrashes \/ HelperCloses \/ HelperStarts, NEW y \in Msgs
    PROVE  True(y)'
  <1>. USE DEF sendVars, storeVars, helperVars, relVars
  <1>0. /\ TypeInv /\ DispatchInv /\ queue \in SUBSET [caller : Callers, msg : Msgs]
        /\ Msgs \subseteq Callers
    BY DEF KnownInv, DispatchInv, TypeInv, TypeOK, Callers
  <1>q. ASSUME NEW q \in queue
        PROVE  q.caller \in {q.msg, Releaser} /\ written[q.msg] = 0
    <2>1. PICK c \in Callers, m \in Msgs : q = [caller |-> c, msg |-> m]
      BY <1>0, <1>q
    <2>2. InQueue(c, m)
      BY <1>q, <2>1 DEF InQueue
    <2>. QED BY <1>0, <2>1, <2>2, InQueueOK
  <1>1. CASE HelperCrashes
    <2>. DEFINE at == IF job = Nobody THEN {} ELSE {[caller |-> job.caller, msg |-> job.msg]}
                result == [m \in Msgs |-> Ambiguous]
    <2>1. \A q \in at : /\ q \in [caller : Callers, msg : Msgs]
                        /\ q.caller \in {q.msg, Releaser}
      <3>1. CASE job = Nobody
        BY <3>1
      <3>2. CASE job # Nobody
        <4>1. PICK m \in Msgs, c \in Callers : m = job.msg /\ c = job.caller
          BY <1>0, <3>2, JobTypes
        <4>2. Req(c, m) /\ Once(m)
          BY <1>0, <3>2, <4>1 DEF Req, Serving, DispatchInv
        <4>. QED BY <3>2, <4>1, <4>2 DEF Once
      <3>. QED BY <3>1, <3>2
    <2>2. result \in [Msgs -> Results]
      BY Replies
    <2>3. \A m \in Msgs : ~KnownAns(result[m])
      BY DEF Ambiguous, KnownAns
    <2>4. HelperGone(queue \cup at, result)
      BY <1>1 DEF HelperCrashes
    <2>. HIDE DEF at, result
    <2>5. queue \cup at \in SUBSET [caller : Callers, msg : Msgs]
      BY <1>0, <2>1
    <2>6. \A q \in queue \cup at : /\ q.caller \in {q.msg, Releaser}
                                   /\ KnownAns(result[q.msg]) => written[q.msg] = 0
      BY <1>q, <2>1, <2>3, <2>5
    <2>. QED BY <2>2, <2>4, <2>5, <2>6, GoneTrue
  <1>2. CASE HelperCloses
    <2>. DEFINE result == [m \in Msgs |-> IF hub[m] = Unseen THEN Stale ELSE hub[m]]
    <2>1. result \in [Msgs -> Results]
      BY <1>0, <1>2, Replies DEF HelperCloses, TypeInv, TypeOK, Memory, PrivateDelivery, Results
    <2>2. HelperGone(queue, result)
      BY <1>2 DEF HelperCloses
    <2>. HIDE DEF result
    <2>. QED BY <1>0, <1>q, <2>1, <2>2, GoneTrue
  <1>3. CASE HelperStarts
    <2>1. UNCHANGED <<rec, late, send, answer, queue, job, hub, written, poll, rel>>
      BY <1>3 DEF HelperStarts
    <2>. QED BY <2>1, Apart DEF KnownInv, InQueue
  <1>. QED BY <1>1, <1>2, <1>3


(* A message whose receipt and requests a step of the release leaves alone. *)
LEMMA RelApart ==
    ASSUME NEW y \in Msgs, True(y), UNCHANGED <<send, job, hub, written, late, poll>>,
           rec'[y] = rec[y], answer'[y] = answer[y],
           InQueue(y, y)' => InQueue(y, y), InQueue(Releaser, y)' => InQueue(Releaser, y),
           Known(y) /\ ToJudge(y)' => ToJudge(y),
           rel'.pc = "submitted" /\ rel'.cur = y /\ KnownAns(answer'[Releaser]) =>
              rel.pc = "submitted" /\ rel.cur = y /\ KnownAns(answer[Releaser])
    PROVE  True(y)'
  <1>1. (Req(y, y)' => Req(y, y)) /\ (Req(Releaser, y)' => Req(Releaser, y))
    BY DEF Req, Serving
  <1>2. (Early(y)' <=> Early(y)) /\ (Known(y)' <=> Known(y)) /\ (Unsettled(y)' <=> Unsettled(y))
    BY DEF Early, Known, Unsettled
  <1>3. Quiet(y)
    BY <1>1, <1>2 DEF Quiet, ToJudge
  <1>. QED BY <1>3, QuietKeeps

(* The release settles its record and goes on: a known failure only of one  *)
(* that is not written and that it does not ask for.                        *)
LEMMA NextRecordTrue ==
    ASSUME KnownInv, UNCHANGED <<send, job, hub, written, late, poll, order, queue>>,
           \A y \in Msgs : answer'[y] = answer[y],
           NEW m \in Msgs, m = rel.cur, rel.pc \in Working, NextRecord,
           NEW kind \in Kinds, NEW unknown \in BOOLEAN, Settles(m, kind, unknown),
           kind \in Final \ {"delivered"} /\ ~(kind = "failed" /\ unknown) =>
              written[m] = 0 /\ ~Req(Releaser, m)
    PROVE  \A y \in Msgs : True(y)'
  <1>0. /\ TypeInv /\ TypeOK /\ Once(m) /\ True(m) /\ m \in rel.todo
    BY DEF KnownInv, DispatchInv, TypeInv, Release
  <1>1. rel'.todo = rel.todo \ {m} /\ rel'.pc \in {"list", "judge"}
    BY <1>0, NextRecordTypes
  <1>2. \A y \in Msgs : \A c \in Callers : /\ Req(c, y)' <=> Req(c, y)
                                           /\ InQueue(c, y)' <=> InQueue(c, y)
    BY DEF Req, Serving, InQueue
  <1>3. Msgs \subseteq Callers /\ Releaser \in Callers
    BY DEF Callers
  <1>4. True(m)'
    <2>1. ~Early(m) /\ ~Req(m, m)
      BY <1>0 DEF Once, Young
    <2>2. ~Early(m)'
      BY <2>1 DEF Early
    <2>3. /\ Known(m)' => Known(m) \/ (written[m] = 0 /\ ~Req(Releaser, m))
          /\ Unsettled(m)' => Unsettled(m)
          /\ rec'[m].handoff = rec[m].handoff
      BY <1>0, SettlesKnown
    <2>4. Quiet(m)
      BY <1>1, <1>2, <1>3, <2>1, <2>2, <2>3 DEF Quiet, ToJudge
    <2>. QED BY <1>0, <2>4, QuietKeeps
  <1>5. ASSUME NEW y \in Msgs \ {m} PROVE True(y)'
    <2>1. True(y) /\ rec'[y] = rec[y]
      BY DEF KnownInv, Settles
    <2>2. ToJudge(y)' => ToJudge(y)
      BY <1>1, y # rel.cur DEF ToJudge
    <2>. QED BY <1>1, <1>2, <1>3, <2>1, <2>2, RelApart
  <1>. QED BY <1>4, <1>5

(* The release settles what it lists only untouched or as the helper        *)
(* answered.                                                                *)
LEMMA RelTrue ==
    ASSUME ~StoreMayFail, KnownInv, RelStep \/ LaunchGivesUp \/ HookLaunch \/ WindowEnds
    PROVE  \A y \in Msgs : True(y)'
  <1>. USE DEF sendVars, storeVars, helperVars, relVars, relOthers
  <1>0. /\ TypeInv /\ TypeOK /\ DispatchInv /\ Release /\ Asked
        /\ answer \in [Callers -> Results \cup {Nobody}]
        /\ rec \in [Msgs -> Receipt] /\ rel \in RelRecord
        /\ Msgs \subseteq Callers /\ Releaser \in Callers /\ Releaser \notin Msgs
    BY DispatchAssumption DEF KnownInv, DispatchInv, TypeInv, TypeOK, Callers, Release
  <1>1. UNCHANGED <<send, job, hub, written, late, poll, order>>
    BY DEF RelStep, RelStart, RelList, RelJudge, RelTimeout, RelAnswered, RelAnswerLost, RelPause, RelStop,
       RelError, RelEnd, LaunchGivesUp, HookLaunch, WindowEnds
  <1>2. \A m \in Msgs : answer'[m] = answer[m]
    <2>. SUFFICES ASSUME NEW m \in Msgs PROVE answer'[m] = answer[m]
      OBVIOUS
    <2>1. m \in Callers /\ m # Releaser
      BY <1>0
    <2>. QED BY <1>0, <2>1 DEF RelStep, RelStart, RelList, RelJudge, RelTimeout, RelAnswered,
         RelAnswerLost, RelPause, RelStop, RelError, RelEnd, LaunchGivesUp, HookLaunch, WindowEnds,
         Submit, GiveUp, Hangup
  <1>c. rel.pc \in Working => rel.cur \in rel.todo /\ rel.cur \in Msgs
    BY <1>0 DEF Release, RelRecord
  <1>w. "judge" \in Working /\ "submitted" \in Working /\ "pause" \in Working
    BY DEF Working
  <1>t. \A y \in Msgs : True(y)
    BY DEF KnownInv
  <1>q. queue' = queue => \A y \in Msgs : \A c : InQueue(c, y)' <=> InQueue(c, y)
    BY DEF InQueue
  <1>3. ASSUME rec' = rec, queue' = queue, rel'.pc # "submitted", NEW y \in Msgs,
               Known(y) /\ y \in rel'.todo => ToJudge(y)
        PROVE  True(y)'
    <2>1. Known(y) /\ ToJudge(y)' => ToJudge(y)
      BY <1>3 DEF ToJudge
    <2>. QED BY <1>1, <1>2, <1>3, <1>q, <1>t, <2>1, RelApart
  <1>4. CASE RelStart \/ RelStop \/ RelEnd
    <2>1. rec' = rec /\ queue' = queue /\ rel'.pc # "submitted" /\ rel'.todo = {}
      <3>1. CASE RelStart
        BY <3>1 DEF RelStart, IdleRelease
      <3>2. CASE RelStop
        <4>. DEFINE b == Held \ rel.listed # {}
        <4>1. rel' = [IdleRelease EXCEPT !.pc = "end", !.handOff = b] /\ rec' = rec /\ queue' = queue
          BY <3>2 DEF RelStop
        <4>. HIDE DEF b
        <4>. QED BY <4>1 DEF IdleRelease
      <3>3. CASE RelEnd
        BY <3>3 DEF RelEnd, IdleRelease
      <3>. QED BY <1>4, <3>1, <3>2, <3>3
    <2>. QED BY <1>3, <2>1
  <1>5. CASE RelList
    <2>. DEFINE fresh == Held \ rel.listed
    <2>1. rec' = rec /\ queue' = queue
      BY <1>5 DEF RelList
    <2>2. CASE fresh = {}
      <3>1. rel'.pc # "submitted" /\ rel'.todo = {}
        BY <1>5, <2>2 DEF RelList, IdleRelease
      <3>. QED BY <1>3, <2>1, <3>1
    <2>3. CASE fresh # {}
      <3>1. rel'.pc = "judge" /\ rel'.todo = fresh
        <4>1. rel' = [rel EXCEPT !.pc = "judge", !.listed = @ \cup Held, !.todo = fresh,
                           !.cur = Oldest(fresh), !.seen = {m \in fresh : rec[m].handoff}]
          BY <1>5, <2>3 DEF RelList
        <4>. QED BY <1>0, <4>1 DEF RelRecord
      <3>2. \A y \in fresh : ~Known(y)
        BY DEF Held, Known, Final
      <3>. QED BY <1>3, <2>1, <3>1, <3>2
    <2>. QED BY <2>2, <2>3
  <1>6. CASE LaunchGivesUp \/ HookLaunch \/ WindowEnds
    <2>1. /\ rec' = rec /\ queue' = queue /\ answer' = answer
          /\ rel'.pc = rel.pc /\ rel'.cur = rel.cur /\ rel'.todo = rel.todo
      BY <1>0, <1>6 DEF LaunchGivesUp, HookLaunch, WindowEnds, RelRecord
    <2>2. \A y \in Msgs : ToJudge(y)' <=> ToJudge(y)
      BY <2>1 DEF ToJudge
    <2>. QED BY <1>1, <1>q, <1>t, <2>1, <2>2, RelApart
  <1>7. CASE RelTimeout
    <2>1. /\ rec' = rec /\ queue' = queue /\ rel' = rel /\ answer'[Releaser] = Ambiguous
      BY <1>0, <1>7 DEF RelTimeout, GiveUp
    <2>2. ~KnownAns(answer'[Releaser])
      BY <2>1 DEF KnownAns, Ambiguous
    <2>3. \A y \in Msgs : ToJudge(y)' <=> ToJudge(y)
      BY <2>1 DEF ToJudge
    <2>. QED BY <1>1, <1>2, <1>q, <1>t, <2>1, <2>2, <2>3, RelApart
  <1>8. ASSUME NEW m \in Msgs, m = rel.cur, rel.pc \in {"judge", "pause"}, NextRecord, queue' = queue,
               NEW kind \in Kinds, NEW unknown \in BOOLEAN, Settles(m, kind, unknown)
        PROVE  \A y \in Msgs : True(y)'
    <2>1. m \in rel.todo /\ rel.pc # "submitted" /\ rel.pc \in Working
      BY <1>8, <1>c, <1>w
    <2>2. written[m] = 0 /\ ~Req(Releaser, m)
      BY <1>0, <2>1, ListedOK
    <2>. QED BY <1>1, <1>2, <1>8, <2>1, <2>2, NextRecordTrue
  <1>9. CASE RelPause
    <2>0. rel.pc = "pause" /\ queue' = queue
      BY <1>9 DEF RelPause
    <2>1. PICK m \in Msgs : m = rel.cur
      BY <1>c, <1>w, <2>0
    <2>2. CASE SettleDeadline(m, rec[m].handoff) /\ NextRecord
      <3>1. rec[m].handoff \in BOOLEAN
        BY <1>0 DEF Receipt
      <3>2. PICK kind \in Kinds : Settles(m, kind, rec[m].handoff)
        BY <1>0, <2>2, <3>1, SettleDeadlineOK DEF Kinds, Final
      <3>. QED BY <1>8, <2>0, <2>1, <2>2, <3>1, <3>2
    <2>3. CASE rel' = [rel EXCEPT !.pc = "judge", !.window = "open"] /\ UNCHANGED rec
      <3>1. rel'.pc = "judge" /\ rel'.todo = rel.todo
        BY <1>0, <2>3 DEF RelRecord
      <3>. QED BY <1>3, <2>0, <2>3, <3>1 DEF ToJudge
    <2>. QED BY <1>9, <2>1, <2>2, <2>3 DEF RelPause
  <1>10. CASE RelAnswered
    <2>0. /\ rel.pc = "submitted" /\ answer[Releaser] \in Results /\ queue' = queue
          /\ answer'[Releaser] = Nobody
      BY <1>0, <1>10 DEF RelAnswered, Hangup
    <2>1. PICK m \in Msgs : m = rel.cur
      BY <1>c, <1>w, <2>0
    <2>. DEFINE a == answer[Releaser]
    <2>2. /\ KindOf(a) \in Kinds /\ UnknownOf(a) \in BOOLEAN
          /\ Settles(m, KindOf(a), UnknownOf(a)) /\ Project(m, a)
      BY <1>0, <1>10, <2>0, <2>1, ProjectOK DEF RelAnswered
    <2>3. KnownAns(a) => written[m] = 0 /\ ~Req(Releaser, m)
      BY <1>t, <2>0, <2>1 DEF True
    <2>4. KindOf(a) \in Final \ {"delivered"} /\ ~(KindOf(a) = "failed" /\ UnknownOf(a)) => KnownAns(a)
      BY <2>0, Replies, NobodyAssumption DEF KindOf, UnknownOf, KnownAns, Final
    <2>5. CASE rec'[m].state = "held"
      <3>1. rel'.pc = "pause" /\ rel'.todo = rel.todo
        BY <1>0, <1>10, <2>1, <2>5 DEF RelAnswered, RelRecord
      <3>2. True(m)'
        <4>1. ~Known(m)'
          BY <2>5 DEF Known, Final
        <4>2. (Unsettled(m)' => Unsettled(m)) /\ rec'[m].handoff = rec[m].handoff
          BY <1>0, <1>1, <2>0, <2>2, ProjectKnown
        <4>3. \A c \in Callers : Req(c, m)' <=> Req(c, m)
          BY <1>1, <1>q, <2>0 DEF Req, Serving
        <4>4. Early(m)' <=> Early(m)
          BY <1>1 DEF Early
        <4>6. ~Known(m)
          <5>1. rec[m].state \notin Final
            BY <1>0, <2>2, <2>5 DEF Settles, Final
          <5>. QED BY <5>1 DEF Known
        <4>5. Quiet(m)
          BY <1>0, <1>1, <1>2, <3>1, <4>1, <4>2, <4>3, <4>4, <4>6 DEF Quiet
        <4>. QED BY <1>t, <4>5, QuietKeeps
      <3>3. ASSUME NEW y \in Msgs \ {m} PROVE True(y)'
        <4>1. rec'[y] = rec[y]
          BY <2>2 DEF Settles
        <4>2. ToJudge(y)' => ToJudge(y)
          BY <2>1, <3>1 DEF ToJudge
        <4>. QED BY <1>1, <1>2, <1>q, <1>t, <2>0, <3>1, <4>1, <4>2, RelApart
      <3>. QED BY <3>2, <3>3
    <2>6. CASE rec'[m].state # "held"
      <3>1. NextRecord
        BY <1>10, <2>1, <2>6 DEF RelAnswered
      <3>. QED BY <1>1, <1>2, <1>w, <2>0, <2>1, <2>2, <2>3, <2>4, <3>1, NextRecordTrue
    <2>. QED BY <2>5, <2>6
  <1>11. CASE RelJudge
    <2>0. rel.pc = "judge" /\ answer[Releaser] = Nobody
      BY <1>0, <1>11 DEF RelJudge, Asked
    <2>1. PICK m \in Msgs : m = rel.cur
      BY <1>c, <1>w, <2>0
    <2>2. m \in rel.todo /\ rel.pc # "submitted"
      BY <1>c, <1>w, <2>0, <2>1
    <2>3. CASE NextRecord /\ UNCHANGED <<answer, queue>> /\
               (Settle(m, "failed", TRUE) \/ Settle(m, "stale", FALSE))
      <3>1. PICK kind \in Kinds, unknown \in BOOLEAN : Settles(m, kind, unknown)
        BY <1>0, <2>3, SettleOK DEF Kinds, Final
      <3>. QED BY <1>8, <2>0, <2>1, <2>3, <3>1
    <2>4. CASE NextRecord /\ UNCHANGED <<answer, queue>> /\ SettleDeadline(m, rec[m].handoff)
      <3>1. rec[m].handoff \in BOOLEAN
        BY <1>0 DEF Receipt
      <3>2. PICK kind \in Kinds : Settles(m, kind, rec[m].handoff)
        BY <1>0, <2>4, <3>1, SettleDeadlineOK DEF Kinds, Final
      <3>. QED BY <1>8, <2>0, <2>1, <2>4, <3>1, <3>2
    <2>5. CASE rel' = [rel EXCEPT !.pc = "pause"] /\ UNCHANGED <<rec, answer, queue>>
      <3>1. rel'.pc = "pause" /\ rel'.todo = rel.todo
        BY <1>0, <2>5 DEF RelRecord
      <3>. QED BY <1>3, <2>0, <2>5, <3>1 DEF ToJudge
    <2>6. CASE /\ Submit(Releaser, m) /\ rel' = [rel EXCEPT !.pc = "submitted"] /\ UNCHANGED rec
               /\ m \notin late
      <3>1. rel'.pc = "submitted" /\ rel'.todo = rel.todo /\ rel'.cur = m
        BY <1>0, <2>1, <2>6 DEF RelRecord
      <3>2. /\ \A c \in Callers : ~Req(c, m) /\ ~InQueue(c, m)
            /\ ~Young(m) /\ written[m] = 0 /\ (job # Nobody => job.msg # m)
        BY <1>0, <2>2, ListedOK
      <3>3. /\ queue' \subseteq queue \cup {[caller |-> Releaser, msg |-> m]}
            /\ queue' = queue \/ answer' = answer
        BY <2>6 DEF Submit
      <3>4. True(m)'
        <4>1. ~Known(m)
          BY <1>t, <2>2, <2>6 DEF True, ToJudge
        <4>2. ~Known(m)'
          BY <1>1, <2>6, <4>1 DEF Known
        <4>3. KnownAns(answer'[Releaser]) => ~Req(Releaser, m)'
          <5>1. CASE queue' = queue
            BY <1>0, <1>1, <3>2, <5>1 DEF Req, InQueue, Serving
          <5>2. CASE answer' = answer
            BY <2>0, <5>2 DEF KnownAns
          <5>. QED BY <3>3, <5>1, <5>2
        <4>h. KnownAns(hub'[m]) => written'[m] = 0
          BY <1>1, <1>t DEF True
        <4>4. poll'[m].pc # "due"
          BY <1>1, <1>t, <2>6 DEF True
        <4>5. send'[m] # "submitted" /\ written'[m] = 0 /\ (job' # Nobody => job'.msg # m)
          BY <1>1, <3>2 DEF Young
        <4>. QED BY <4>2, <4>3, <4>4, <4>5, <4>h DEF True
      <3>5. ASSUME NEW y \in Msgs \ {m} PROVE True(y)'
        <4>1. \A c : InQueue(c, y)' => InQueue(c, y)
          BY <3>3 DEF InQueue
        <4>2. ToJudge(y)' => ToJudge(y)
          BY <2>0, <3>1 DEF ToJudge
        <4>. QED BY <1>1, <1>2, <1>t, <2>6, <3>1, <4>1, <4>2, RelApart
      <3>. QED BY <3>4, <3>5
    <2>. QED BY <1>11, <2>1, <2>3, <2>4, <2>5, <2>6 DEF RelJudge
  <1>. QED BY <1>4, <1>5, <1>6, <1>7, <1>9, <1>10, <1>11 DEF RelStep, RelAnswerLost, RelError

(* No failure is known at the start. *)
LEMMA InitTrue ==
    ASSUME Init
    PROVE  KnownInv
  <1>1. /\ \A m \in Msgs : send[m] = "idle" /\ written[m] = 0 /\ poll[m].pc = "idle"
        /\ \A m \in Msgs : rec[m].state = "none"
        /\ job = Nobody /\ rel.pc = "off" /\ \A m \in Msgs : hub[m] = Unseen
    BY DEF Init, IdleRelease, IdlePoll
  <1>2. \A m \in Msgs : ~Known(m)
    BY <1>1 DEF Known, Final
  <1>3. \A m \in Msgs : True(m)
    BY <1>1, <1>2 DEF True, KnownAns, Unseen, Final
  <1>. QED BY <1>3, InitKeeps DEF KnownInv

(* KnownInv is inductive for a store whose writes succeed. *)
LEMMA StepTrue ==
    ASSUME ~StoreMayFail, KnownInv, [Next]_vars
    PROVE  KnownInv'
  <1>1. DispatchInv'
    BY StepKeeps DEF KnownInv
  <1>2. \A y \in Msgs : True(y)'
    <2>1. CASE Next
      BY <2>1, AcceptTrue, SendTrue, PollTrue, ServeTrue, HelperLifeTrue, RelTrue DEF Next
    <2>2. CASE UNCHANGED vars
      BY <2>2, Apart DEF vars, KnownInv, InQueue
    <2>. QED BY <2>1, <2>2
  <1>. QED BY <1>1, <1>2 DEF KnownInv

(* KnownInv is inductive: behind every known failure that no status request *)
(* made up, on record, on its way as an answer or remembered by the helper, *)
(* stands a message nobody wrote or will write.                             *)
THEOREM KnownInvariant ==
    ASSUME ~StoreMayFail
    PROVE  Spec => []KnownInv
  <1>1. Init => KnownInv
    BY InitTrue
  <1>2. KnownInv /\ [Next]_vars => KnownInv'
    BY StepTrue
  <1>. QED BY <1>1, <1>2, PTL DEF Spec

(* A message that reached the provider is reported as refused, expired,     *)
(* stale or known failed only as stale and only by a status request, never  *)
(* by a sender, a release, a deadline or the death of a helper.             *)
THEOREM KnownTrue ==
    ASSUME ~StoreMayFail
    PROVE  Spec => []OnlyStatusMisleads
  <1>1. KnownInv => OnlyStatusMisleads
    <2>. SUFFICES ASSUME KnownInv, NEW m \in Msgs,
                         rec[m].state \in Final \ {"delivered"}, ~rec[m].unknown, written[m] > 0
                  PROVE  rec[m].state = "stale" /\ poll[m].misled
      BY DEF OnlyStatusMisleads
    <2>1. ~Known(m)
      BY DEF KnownInv, True
    <2>. QED BY <2>1 DEF Known
  <1>. QED BY <1>1, KnownInvariant, PTL
=============================================================================
