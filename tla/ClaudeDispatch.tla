--------------------------- MODULE ClaudeDispatch ---------------------------
(***************************************************************************)
(* The path of a message to one Claude Agent.  Several projmux processes   *)
(* share the receipt store: one sender per message, the detached release   *)
(* of held messages, status readers, and the helper that owns the          *)
(* provider's messaging socket and is the only writer of frames.  Senders  *)
(* are ordered by the target's dispatch lock, releases by its release      *)
(* lock; the helper serves one submit at a time under its mutex.           *)
(*                                                                         *)
(* Every step between two accesses to shared state is an action, so a      *)
(* reader's copy of a record may be out of date when it is used.  The wall *)
(* clock appears as the set of messages past their deadline and as the end *)
(* of a release window; whether the target awaits its operator, and        *)
(* whether its turn is busy, is the environment's choice at each look.     *)
(***************************************************************************)
EXTENDS Naturals, FiniteSets, AgentDelivery

CONSTANTS
    Msgs,           \* messages sent to the one target
    Nobody,         \* no lock holder, no job
    Releaser,       \* the release as a caller of the helper
    MaxHelpers,     \* bound: helper processes started over time
    Mortal,         \* bound: messages whose deadline may pass
    StatusPolled,   \* messages somebody asks the status of, before or after the deadline
    StoreMayFail    \* whether writing a delivery projection may fail

Callers == Msgs \cup {Releaser}
ASSUME DispatchAssumption ==
    /\ Nobody \notin Callers /\ Releaser \notin Msgs
    /\ MaxHelpers \in Nat /\ Mortal \subseteq Msgs /\ StatusPolled \subseteq Msgs
    /\ StoreMayFail \in BOOLEAN
    /\ IsFiniteSet(Msgs)

VARIABLES
    rec,        \* the stored receipts: state, handoff and unknown
    order,      \* acceptance order, 0 before the acceptance
    late,       \* messages whose deadline has passed
    send,       \* program counter of each message's sender
    dispatch,   \* holder of the target's dispatch lock
    answer,     \* what the helper answered each caller
    queue,      \* submits waiting for the helper's mutex
    job,        \* the submit the helper is serving
    hub,        \* the private deliveries of the running helper
    helpers,    \* helpers started so far
    up,         \* whether a helper is running
    poll,       \* status readers: program counter, the copy they read and, as a
                \* history, whether one of them settled the receipt as stale
    rel,        \* the running release
    launched,   \* a release process is waiting for the release lock
    written,    \* history variable: frames written for each message
    before,     \* history variable: messages held when a dispatch began
    parked      \* history variable: messages a release stopped waiting for

vars == <<rec, order, late, send, dispatch, answer, queue, job, hub, helpers,
          up, poll, rel, launched, written, before, parked>>
storeVars == <<rec, order, late>>
sendVars == <<send, dispatch, before>>
helperVars == <<queue, job, hub, helpers, up, written>>
relVars == <<rel, launched, parked>>

Final == {"delivered", "refused", "expired", "stale", "failed"}
Receipt == [state : {"none", "accepted", "held"} \cup Final, handoff : BOOLEAN, unknown : BOOLEAN]
Answers == PrivateDelivery \cup {Nobody}
Jobs == [caller : Callers, msg : Msgs, step : {"queued", "marked", "written"}]

ASSUME NobodyAssumption == Nobody \notin Jobs \cup PrivateDelivery

IdlePoll == [pc |-> "idle", handoff |-> FALSE, held |-> FALSE, misled |-> FALSE]
IdleRelease == [pc |-> "off", cur |-> Nobody, todo |-> {}, seen |-> {}, listed |-> {},
                window |-> "unset", handOff |-> FALSE]

Held == {m \in Msgs : rec[m].state = "held"}
Unsettled(m) == rec[m].state \in {"accepted", "held"}

-----------------------------------------------------------------------------
(* The receipt store. *)

(* Store.Apply with the public reducer: terminal once, hold from accepted. *)
Applied(r, kind, unknown) ==
    IF r.state \notin {"accepted", "held"} \/ (kind = "held" /\ r.state # "accepted")
    THEN r
    ELSE [r EXCEPT !.state = kind, !.unknown = (kind = "failed" /\ unknown)]

Settle(m, kind, unknown) == rec' = [rec EXCEPT ![m] = Applied(@, kind, unknown)]

(* Mutant: a deadline that ignores the handoff. *)
SettleDeadlineExpires(m, handoff) == Settle(m, "expired", FALSE)

(* deadlineEvent, from the handoff flag its reader saw. *)
SettleDeadline(m, handoff) ==
    IF handoff THEN Settle(m, "failed", TRUE) ELSE Settle(m, "expired", FALSE)

(* ProjectClaudeDelivery: the private answer as a public event.  A missing  *)
(* or ambiguous answer is a failure with an unknown outcome.                *)
Project(m, a) ==
    IF a.state \in {"expired", "stale", "failed"} /\ a.ambiguous
    THEN Settle(m, "failed", TRUE)
    ELSE Settle(m, a.state, FALSE)

Ambiguous == [state |-> "failed", ambiguous |-> TRUE]
KnownFailure == [state |-> "failed", ambiguous |-> FALSE]
Refused == [state |-> "refused", ambiguous |-> FALSE]
Stale == [state |-> "stale", ambiguous |-> FALSE]

Pass(m) ==
    /\ m \in Mortal \ late /\ rec[m].state # "none"
    /\ late' = late \cup {m}
    /\ UNCHANGED <<rec, order, answer, poll>>
    /\ UNCHANGED sendVars /\ UNCHANGED helperVars /\ UNCHANGED relVars

(* pruneRecords, in the accept of any message by any process: every late     *)
(* receipt is settled under the lock it was read under.                     *)
Prune(m) ==
    /\ m \in late /\ Unsettled(m)
    /\ SettleDeadline(m, rec[m].handoff)
    /\ UNCHANGED <<order, late, answer, poll>>
    /\ UNCHANGED sendVars /\ UNCHANGED helperVars /\ UNCHANGED relVars

-----------------------------------------------------------------------------
(* A caller's exchange with the helper, shared by senders and the release.  *)

(* ClaudeAdapter.Submit: an envelope that is late or does not fit a frame is *)
(* refused on the spot, and without a helper nothing was dispatched.        *)
Submit(c, m) ==
    \/ /\ up /\ m \notin late
       /\ queue' = queue \cup {[caller |-> c, msg |-> m]}
       /\ UNCHANGED answer
    \/ /\ ~up /\ m \notin late
       /\ answer' = [answer EXCEPT ![c] = KnownFailure]
       /\ UNCHANGED queue
    \/ /\ answer' = [answer EXCEPT ![c] = Refused]
       /\ UNCHANGED queue

(* The caller has read its answer and closes the connection. *)
Hangup(c) == answer' = [answer EXCEPT ![c] = Nobody]

(* The call's own deadline: the helper may still serve the request. *)
GiveUp(c) ==
    /\ answer[c] = Nobody
    /\ answer' = [answer EXCEPT ![c] = Ambiguous]

-----------------------------------------------------------------------------
(* The sender: acceptAndDeliver with DeliverOrHold. *)

(* PutAccepted. *)
Accept(m) ==
    /\ send[m] = "idle"
    /\ rec' = [rec EXCEPT ![m].state = "accepted"]
    /\ order' = [order EXCEPT ![m] = Cardinality({x \in Msgs : order[x] > 0}) + 1]
    /\ send' = [send EXCEPT ![m] = "waiting"]
    /\ UNCHANGED <<late, dispatch, before, answer, poll>>
    /\ UNCHANGED helperVars /\ UNCHANGED relVars

(* LockTargetDispatch. *)
Lock(m) ==
    /\ send[m] = "waiting" /\ dispatch = Nobody
    /\ dispatch' = m
    /\ send' = [send EXCEPT ![m] = "locked"]
    /\ before' = [before EXCEPT ![m] = Held]
    /\ UNCHANGED <<answer, poll>>
    /\ UNCHANGED storeVars /\ UNCHANGED helperVars /\ UNCHANGED relVars

(* The lock stayed busy for its bound, the caller's context ended or the     *)
(* lock file cannot be opened: provider-prewrite-refused.                   *)
LockTimeout(m) ==
    /\ send[m] = "waiting"
    /\ Settle(m, "failed", FALSE)
    /\ send' = [send EXCEPT ![m] = "done"]
    /\ UNCHANGED <<order, late, dispatch, before, answer, poll>>
    /\ UNCHANGED helperVars /\ UNCHANGED relVars

(* HeldFor: whether another message is held that this one must not pass. *)
EarlierHeld(m) == Held \ {m} # {}

(* Mutant: only the target's own dialog holds a message. *)
PushIgnoringHeld(m) ==
    /\ send[m] = "locked"
    /\ send' = [send EXCEPT ![m] = "submitted"]
    /\ Submit(m, m)
    /\ UNCHANGED <<dispatch, before, poll, job, hub, helpers, up, written>>
    /\ UNCHANGED storeVars /\ UNCHANGED relVars

(* Not waiting, nothing held: push.  A listing that fails reads as empty. *)
Push(m) ==
    /\ send[m] = "locked"
    /\ ~EarlierHeld(m) \/ StoreMayFail
    /\ send' = [send EXCEPT ![m] = "submitted"]
    /\ Submit(m, m)
    /\ UNCHANGED <<dispatch, before, poll, job, hub, helpers, up, written>>
    /\ UNCHANGED storeVars /\ UNCHANGED relVars

(* The target awaits its operator, or earlier messages are held: hold.  The *)
(* record may have been settled meanwhile; then there is nothing to hold.   *)
Hold(m) ==
    /\ send[m] = "locked"
    /\ Settle(m, "held", FALSE)
    /\ send' = [send EXCEPT ![m] = IF rec'[m].state = "held" THEN "holding" ELSE "unlocking"]
    /\ UNCHANGED <<order, late, dispatch, before, answer, poll>>
    /\ UNCHANGED helperVars /\ UNCHANGED relVars

SubmitTimeout(m) ==
    /\ send[m] = "submitted"
    /\ GiveUp(m)
    /\ UNCHANGED <<poll>>
    /\ UNCHANGED storeVars /\ UNCHANGED sendVars
    /\ UNCHANGED helperVars /\ UNCHANGED relVars

(* ProjectClaudeSend: a busy target's hold launches the release. *)
Answered(m) ==
    /\ send[m] = "submitted" /\ answer[m] # Nobody
    /\ Project(m, answer[m])
    /\ send' = [send EXCEPT ![m] = IF rec'[m].state = "held" THEN "holding" ELSE "unlocking"]
    /\ UNCHANGED <<order, late, dispatch, before, poll>>
    /\ Hangup(m)
    /\ UNCHANGED helperVars /\ UNCHANGED relVars

(* pushCoordination when the projection cannot be stored: the receipt stays. *)
AnswerLost(m) ==
    /\ StoreMayFail
    /\ send[m] = "submitted" /\ answer[m] # Nobody
    /\ send' = [send EXCEPT ![m] = "unlocking"]
    /\ UNCHANGED <<dispatch, before, poll>>
    /\ Hangup(m)
    /\ UNCHANGED storeVars /\ UNCHANGED helperVars /\ UNCHANGED relVars

(* The failed lock or the hold cannot be recorded: the message stays as it  *)
(* was and the send ends with an error.                                     *)
SendError(m) ==
    /\ StoreMayFail
    /\ \/ send[m] = "waiting" /\ send' = [send EXCEPT ![m] = "done"]
       \/ send[m] = "locked" /\ send' = [send EXCEPT ![m] = "unlocking"]
    /\ UNCHANGED <<dispatch, before, answer, poll>>
    /\ UNCHANGED storeVars /\ UNCHANGED helperVars /\ UNCHANGED relVars

(* releaseIfHeld at the end of a held send. *)
Launch(m) ==
    /\ send[m] = "holding"
    /\ launched' = (launched \/ Held # {})
    /\ send' = [send EXCEPT ![m] = "unlocking"]
    /\ UNCHANGED <<dispatch, before, answer, poll, rel, parked>>
    /\ UNCHANGED storeVars /\ UNCHANGED helperVars

(* Mutant: the lock file is closed but never unlocked. *)
FinishForgetsUnlock(m) ==
    /\ send[m] = "unlocking"
    /\ send' = [send EXCEPT ![m] = "done"]
    /\ UNCHANGED <<dispatch, before, answer, poll>>
    /\ UNCHANGED storeVars /\ UNCHANGED helperVars /\ UNCHANGED relVars

(* Mutant: a held send waits under the lock until its message is released. *)
FinishAfterRelease(m) ==
    /\ send[m] = "unlocking"
    /\ send' = [send EXCEPT ![m] = IF rec[m].state = "held" THEN @ ELSE "done"]
    /\ dispatch' = IF rec[m].state = "held" THEN dispatch ELSE Nobody
    /\ UNCHANGED <<before, answer, poll>>
    /\ UNCHANGED storeVars /\ UNCHANGED helperVars /\ UNCHANGED relVars

(* The deferred unlock. *)
Finish(m) ==
    /\ send[m] = "unlocking"
    /\ send' = [send EXCEPT ![m] = "done"]
    /\ dispatch' = Nobody
    /\ UNCHANGED <<before, answer, poll>>
    /\ UNCHANGED storeVars /\ UNCHANGED helperVars /\ UNCHANGED relVars

SendStep(m) ==
    \/ Lock(m) \/ LockTimeout(m) \/ Push(m) \/ Hold(m) \/ SubmitTimeout(m)
    \/ Answered(m) \/ AnswerLost(m) \/ SendError(m) \/ Launch(m) \/ Finish(m)

-----------------------------------------------------------------------------
(* The helper: submitPush, one request at a time under the hub's mutex.     *)

(* The caller's connection for this message is still open. *)
Waits(c, m) ==
    /\ answer[c] = Nobody
    /\ IF c = Releaser THEN rel.pc = "submitted" /\ rel.cur = m ELSE send[c] = "submitted"

Answer(c, m, d) ==
    answer' = [answer EXCEPT ![c] = IF Waits(c, m) THEN d ELSE @]

(* The request ends with the hub's delivery d of message m. *)
EndJob(c, m, d) ==
    /\ hub' = [hub EXCEPT ![m] = d]
    /\ job' = Nobody
    /\ Answer(c, m, d)

Queued == PrivateReduce(Unseen, "queue", FALSE, FALSE)

(* handle, before the hub: a frame that is late or malformed by now is      *)
(* refused, a helper that has lost its registration is stale.               *)
TurnAway(q) ==
    /\ up /\ q \in queue
    /\ queue' = queue \ {q}
    /\ \E d \in {Refused, Stale} : Answer(q.caller, q.msg, d)
    /\ UNCHANGED <<job, hub, helpers, up, written, poll>>
    /\ UNCHANGED storeVars /\ UNCHANGED sendVars /\ UNCHANGED relVars

(* A message this helper has seen is answered from memory. *)
Replay(q) ==
    /\ up /\ job = Nobody /\ q \in queue /\ hub[q.msg] # Unseen
    /\ queue' = queue \ {q}
    /\ Answer(q.caller, q.msg, hub[q.msg])
    /\ UNCHANGED <<job, hub, helpers, up, written, poll>>
    /\ UNCHANGED storeVars /\ UNCHANGED sendVars /\ UNCHANGED relVars

(* The checks before any durable work: deadline, poster and frame, and a    *)
(* busy turn, whose message the helper forgets so that it may come back.    *)
Take(q) ==
    /\ up /\ job = Nobody /\ q \in queue /\ hub[q.msg] = Unseen
    /\ queue' = queue \ {q}
    /\ \/ /\ q.msg \in late
          /\ EndJob(q.caller, q.msg, PrivateReduce(Queued, "expire", FALSE, FALSE))
       \/ /\ q.msg \notin late
          /\ EndJob(q.caller, q.msg, PrivateReduce(Queued, "refuse", FALSE, FALSE))
       \/ /\ q.msg \notin late
          /\ Answer(q.caller, q.msg, [state |-> "held", ambiguous |-> FALSE])
          /\ UNCHANGED <<job, hub>>
       \/ /\ q.msg \notin late
          /\ job' = [caller |-> q.caller, msg |-> q.msg, step |-> "queued"]
          /\ hub' = [hub EXCEPT ![q.msg] = Queued]
          /\ UNCHANGED answer
    /\ UNCHANGED <<helpers, up, written, poll>>
    /\ UNCHANGED storeVars /\ UNCHANGED sendVars /\ UNCHANGED relVars

(* broker.MarkHandoff, which refuses before any write or stores the mark.   *)
(* MarkHandoffMatching leaves a terminal record alone without an error.     *)
Mark ==
    /\ job # Nobody /\ job.step = "queued"
    /\ \/ /\ rec' = [rec EXCEPT ![job.msg].handoff = @ \/ Unsettled(job.msg)]
          /\ job' = [job EXCEPT !.step = "marked"]
          /\ UNCHANGED <<hub, answer>>
       \/ /\ EndJob(job.caller, job.msg, PrivateReduce(hub[job.msg], "fail", FALSE, TRUE))
          /\ UNCHANGED rec
    /\ UNCHANGED <<order, late, queue, helpers, up, written, poll>>
    /\ UNCHANGED sendVars /\ UNCHANGED relVars

(* The last deadline check and the provider write: nothing, a part or the   *)
(* full frame.                                                              *)
Post ==
    LET m == job.msg
        handoff == PrivateReduce(hub[m], "begin-handoff", FALSE, FALSE)
    IN  /\ job # Nobody /\ job.step = "marked"
        /\ \/ /\ m \in late
              /\ EndJob(job.caller, m, PrivateReduce(hub[m], "expire", FALSE, FALSE))
              /\ UNCHANGED written
           \/ /\ EndJob(job.caller, m, PrivateReduce(handoff, "fail", FALSE, TRUE))
              /\ UNCHANGED written
           \/ /\ EndJob(job.caller, m, PrivateReduce(handoff, "fail", FALSE, FALSE))
              /\ m \notin late /\ written' = [written EXCEPT ![m] = @ + 1]
           \/ /\ m \notin late
              /\ hub' = [hub EXCEPT ![m] = handoff]
              /\ job' = [job EXCEPT !.step = "written"]
              /\ written' = [written EXCEPT ![m] = @ + 1]
              /\ UNCHANGED answer
        /\ UNCHANGED <<queue, helpers, up, poll>>
        /\ UNCHANGED storeVars /\ UNCHANGED sendVars /\ UNCHANGED relVars

(* broker.MarkDelivered, which must find the receipt delivered afterwards. *)
Deliver ==
    LET m == job.msg
        fails == EndJob(job.caller, m, PrivateReduce(hub[m], "fail", FALSE, FALSE))
    IN  /\ job # Nobody /\ job.step = "written"
        /\ \/ /\ Settle(m, "delivered", FALSE)
              /\ IF rec'[m].state = "delivered"
                 THEN EndJob(job.caller, m, PrivateReduce(hub[m], "deliver", TRUE, TRUE))
                 ELSE fails
           \/ StoreMayFail /\ fails /\ UNCHANGED rec
        /\ UNCHANGED <<order, late, queue, helpers, up, written, poll>>
        /\ UNCHANGED sendVars /\ UNCHANGED relVars

(* Every request the ending helper has not answered is answered with the    *)
(* result for its message; its memory is gone.                              *)
HelperGone(requests, result) ==
    /\ up
    /\ up' = FALSE /\ queue' = {} /\ job' = Nobody
    /\ hub' = [m \in Msgs |-> Unseen]
    /\ answer' = [c \in Callers |->
          IF \E q \in requests : q.caller = c /\ Waits(c, q.msg)
          THEN result[(CHOOSE q \in requests : q.caller = c /\ Waits(c, q.msg)).msg]
          ELSE answer[c]]
    /\ UNCHANGED <<helpers, written, poll>>
    /\ UNCHANGED storeVars /\ UNCHANGED sendVars /\ UNCHANGED relVars

(* The helper process dies: the broken exchange may have been dispatched. *)
HelperCrashes ==
    HelperGone(queue \cup (IF job = Nobody THEN {}
                           ELSE {[caller |-> job.caller, msg |-> job.msg]}),
               [m \in Msgs |-> Ambiguous])

(* hub.close waits for the mutex; a new submit that comes after it is stale. *)
HelperCloses ==
    /\ job = Nobody
    /\ HelperGone(queue, [m \in Msgs |->
          IF hub[m] = Unseen THEN Stale ELSE hub[m]])

(* The replacement a next SessionStart registers in the same generation: its *)
(* memory is empty.                                                         *)
HelperStarts ==
    /\ ~up /\ helpers < MaxHelpers
    /\ up' = TRUE /\ helpers' = helpers + 1
    /\ UNCHANGED <<answer, queue, job, hub, written, poll>>
    /\ UNCHANGED storeVars /\ UNCHANGED sendVars /\ UNCHANGED relVars

HelperStep == (\E q \in queue : TurnAway(q) \/ Replay(q) \/ Take(q)) \/ Mark \/ Post \/ Deliver

-----------------------------------------------------------------------------
(* Status readers: Service.Status.  They read the receipt under one lock and *)
(* write under a later one, and the deadline matters to held receipts only. *)

PollIdle(m, misled) ==
    poll' = [poll EXCEPT ![m] = [IdlePoll EXCEPT !.misled = poll[m].misled \/ misled]]

(* Store.Get; a terminal receipt is returned at once. *)
PollRead(m) ==
    /\ m \in StatusPolled /\ poll[m].pc = "idle" /\ Unsettled(m)
    /\ poll' = [poll EXCEPT ![m].pc = "read", ![m].handoff = rec[m].handoff,
                            ![m].held = (rec[m].state = "held")]
    /\ UNCHANGED <<answer>> /\ UNCHANGED storeVars /\ UNCHANGED sendVars
    /\ UNCHANGED helperVars /\ UNCHANGED relVars

(* The route no longer resolves, or the helper is asked about an accepted   *)
(* message, however late: one it has not seen is stale to it, as is every   *)
(* one once it has lost its registration, and a call it does not answer is  *)
(* an unknown outcome.                                                      *)
PollJudge(m) ==
    /\ poll[m].pc = "read"
    /\ \/ /\ ~up
          /\ IF poll[m].handoff THEN Settle(m, "failed", TRUE) ELSE Settle(m, "stale", FALSE)
       \/ /\ up /\ ~poll[m].held /\ job = Nobody
          /\ IF hub[m] = Unseen THEN Project(m, Stale) ELSE Project(m, hub[m])
       \/ up /\ ~poll[m].held /\ Project(m, Stale)
       \/ up /\ ~poll[m].held /\ Project(m, Ambiguous)
    /\ PollIdle(m, Unsettled(m) /\ rec'[m].state = "stale")
    /\ UNCHANGED <<order, late, answer>> /\ UNCHANGED sendVars
    /\ UNCHANGED helperVars /\ UNCHANGED relVars

(* The copy is held and its route resolves: on to Store.Status. *)
PollHeld(m) ==
    /\ poll[m].pc = "read" /\ up /\ poll[m].held
    /\ poll' = [poll EXCEPT ![m].pc = "held"]
    /\ UNCHANGED <<answer>> /\ UNCHANGED storeVars /\ UNCHANGED sendVars
    /\ UNCHANGED helperVars /\ UNCHANGED relVars

(* Store.Status: a Get of its own, which ends it before the deadline ... *)
PollLate(m) ==
    /\ poll[m].pc = "held"
    /\ IF m \in late /\ Unsettled(m)
       THEN poll' = [poll EXCEPT ![m].pc = "due", ![m].handoff = rec[m].handoff]
       ELSE PollIdle(m, FALSE)
    /\ UNCHANGED <<answer>> /\ UNCHANGED storeVars /\ UNCHANGED sendVars
    /\ UNCHANGED helperVars /\ UNCHANGED relVars

(* ... and Apply of the deadline event. *)
PollExpire(m) ==
    /\ poll[m].pc = "due"
    /\ SettleDeadline(m, poll[m].handoff)
    /\ PollIdle(m, FALSE)
    /\ UNCHANGED <<order, late, answer>> /\ UNCHANGED sendVars
    /\ UNCHANGED helperVars /\ UNCHANGED relVars

-----------------------------------------------------------------------------
(* The release: releaseHeldMessages with judgeHeldMessage. *)

Oldest(S) == CHOOSE m \in S : \A x \in S : order[m] <= order[x]

relOthers == <<answer, poll, order, late>>

(* LockTargetRelease. *)
RelStart ==
    /\ rel.pc = "off" /\ launched
    /\ rel' = [IdleRelease EXCEPT !.pc = "list"]
    /\ launched' = FALSE
    /\ UNCHANGED <<rec, parked>> /\ UNCHANGED relOthers
    /\ UNCHANGED sendVars /\ UNCHANGED helperVars

(* A launched release gives up while another keeps the lock, or cannot open *)
(* it.  The one launched last has not waited its bound when the other one   *)
(* is only about to unlock.                                                 *)
LaunchGivesUp ==
    /\ launched
    /\ rel.pc \in {"list", "judge", "submitted", "pause"} \/ StoreMayFail
    /\ launched' = FALSE
    /\ UNCHANGED <<rec, rel, parked>> /\ UNCHANGED relOthers
    /\ UNCHANGED sendVars /\ UNCHANGED helperVars

(* releaseIfHeld from a hook. *)
HookLaunch ==
    /\ Held # {} /\ ~launched
    /\ launched' = TRUE
    /\ UNCHANGED <<rec, rel, parked>> /\ UNCHANGED relOthers
    /\ UNCHANGED sendVars /\ UNCHANGED helperVars

(* HeldFor: take the records not listed before, oldest acceptance first,    *)
(* with the handoff flag they have now.                                     *)
RelList ==
    /\ rel.pc = "list"
    /\ LET fresh == Held \ rel.listed
       IN  rel' = IF fresh = {}
                  THEN [IdleRelease EXCEPT !.pc = "end"]
                  ELSE [rel EXCEPT !.pc = "judge", !.listed = @ \cup Held, !.todo = fresh,
                           !.cur = Oldest(fresh), !.seen = {m \in fresh : rec[m].handoff}]
    /\ UNCHANGED <<rec, launched, parked>> /\ UNCHANGED relOthers
    /\ UNCHANGED sendVars /\ UNCHANGED helperVars

(* heldReleaseDone: go on to the next listed record, or list again. *)
NextRecord ==
    LET rest == rel.todo \ {rel.cur}
    IN  rel' = IF rest = {} THEN [rel EXCEPT !.pc = "list", !.todo = {}, !.seen = {}, !.cur = Nobody]
                            ELSE [rel EXCEPT !.pc = "judge", !.todo = rest, !.cur = Oldest(rest)]

(* releaseHeldMessage on the listed copy of the record. *)
RelJudge ==
    /\ rel.pc = "judge"
    /\ \/ (* the route is stale *)
          /\ ~up
          /\ IF rel.cur \in rel.seen THEN Settle(rel.cur, "failed", TRUE)
                                     ELSE Settle(rel.cur, "stale", FALSE)
          /\ NextRecord /\ UNCHANGED <<answer, queue>>
       \/ (* the copy says a frame may have been written *)
          /\ up /\ rel.cur \in rel.seen
          /\ Settle(rel.cur, "failed", TRUE)
          /\ NextRecord /\ UNCHANGED <<answer, queue>>
       \/ (* the deadline has passed *)
          /\ up /\ rel.cur \notin rel.seen /\ rel.cur \in late
          /\ SettleDeadline(rel.cur, rec[rel.cur].handoff)
          /\ NextRecord /\ UNCHANGED <<answer, queue>>
       \/ (* the target awaits its operator, or cannot be judged *)
          /\ rel' = [rel EXCEPT !.pc = "pause"]
          /\ UNCHANGED <<rec, answer, queue>>
       \/ (* push it *)
          /\ up /\ rel.cur \notin rel.seen /\ rel.cur \notin late
          /\ Submit(Releaser, rel.cur)
          /\ rel' = [rel EXCEPT !.pc = "submitted"]
          /\ UNCHANGED rec
    /\ UNCHANGED <<order, late, poll, job, hub, helpers, up, written, launched, parked>>
    /\ UNCHANGED sendVars

RelTimeout ==
    /\ rel.pc = "submitted"
    /\ GiveUp(Releaser)
    /\ UNCHANGED <<poll>> /\ UNCHANGED storeVars /\ UNCHANGED sendVars
    /\ UNCHANGED helperVars /\ UNCHANGED relVars

(* Mutant: any failure is tried again, not only a proved hold. *)
RelAnsweredRetries ==
    /\ rel.pc = "submitted" /\ answer[Releaser] # Nobody
    /\ IF answer[Releaser].state = "failed"
       THEN rel' = [rel EXCEPT !.pc = "pause"] /\ UNCHANGED rec
       ELSE Project(rel.cur, answer[Releaser]) /\ NextRecord
    /\ UNCHANGED <<launched, parked>> /\ UNCHANGED <<poll, order, late>>
    /\ Hangup(Releaser)
    /\ UNCHANGED sendVars /\ UNCHANGED helperVars

(* pushCoordination: a record that is still held is judged again. *)
RelAnswered ==
    /\ rel.pc = "submitted" /\ answer[Releaser] # Nobody
    /\ Project(rel.cur, answer[Releaser])
    /\ IF rec'[rel.cur].state = "held"
       THEN rel' = [rel EXCEPT !.pc = "pause"]
       ELSE NextRecord
    /\ UNCHANGED <<launched, parked>> /\ UNCHANGED <<poll, order, late>>
    /\ Hangup(Releaser)
    /\ UNCHANGED sendVars /\ UNCHANGED helperVars

(* pushCoordination when the projection cannot be stored: it returns the    *)
(* listed copy, which reads as still held.                                  *)
RelAnswerLost ==
    /\ StoreMayFail
    /\ rel.pc = "submitted" /\ answer[Releaser] # Nobody
    /\ rel' = [rel EXCEPT !.pc = "pause"]
    /\ UNCHANGED <<rec, launched, parked>> /\ UNCHANGED <<poll, order, late>>
    /\ Hangup(Releaser)
    /\ UNCHANGED sendVars /\ UNCHANGED helperVars

(* Mutant: every wait opens a new window. *)
RelPauseReopens ==
    /\ rel.pc = "pause" /\ rel.cur \notin late
    /\ rel' = [rel EXCEPT !.pc = "judge", !.window = "open"]
    /\ UNCHANGED <<rec, launched, parked>> /\ UNCHANGED relOthers
    /\ UNCHANGED sendVars /\ UNCHANGED helperVars

(* The wait of judgeHeldMessage; the first one opens the window. *)
RelPause ==
    /\ rel.pc = "pause"
    /\ \/ /\ rel.cur \in late
          /\ SettleDeadline(rel.cur, rec[rel.cur].handoff)
          /\ NextRecord
       \/ /\ rel.cur \notin late /\ rel.window # "ended"
          /\ rel' = [rel EXCEPT !.pc = "judge", !.window = "open"]
          /\ UNCHANGED rec
    /\ UNCHANGED <<launched, parked>> /\ UNCHANGED relOthers
    /\ UNCHANGED sendVars /\ UNCHANGED helperVars

(* Time passes until the window's end. *)
WindowEnds ==
    /\ rel.window = "open"
    /\ rel' = [rel EXCEPT !.window = "ended"]
    /\ UNCHANGED <<rec, launched, parked>> /\ UNCHANGED relOthers
    /\ UNCHANGED sendVars /\ UNCHANGED helperVars

(* Mutant: a window that ends without looking for records it never listed.  *)
RelStopBlind ==
    /\ rel.pc = "pause" /\ rel.cur \notin late /\ rel.window = "ended"
    /\ rel' = [IdleRelease EXCEPT !.pc = "end"]
    /\ parked' = parked \cup (rel.listed \cap Held)
    /\ UNCHANGED <<rec, launched>> /\ UNCHANGED relOthers
    /\ UNCHANGED sendVars /\ UNCHANGED helperVars

(* heldReleaseStop with heldSinceListed. *)
RelStop ==
    /\ rel.pc = "pause" /\ rel.cur \notin late /\ rel.window = "ended"
    /\ rel' = [IdleRelease EXCEPT !.pc = "end", !.handOff = (Held \ rel.listed # {})]
    /\ parked' = parked \cup (rel.listed \cap Held)
    /\ UNCHANGED <<rec, launched>> /\ UNCHANGED relOthers
    /\ UNCHANGED sendVars /\ UNCHANGED helperVars

(* A listing or a receipt that cannot be read or written ends the release,   *)
(* without a look for records it never listed.                              *)
RelError ==
    /\ StoreMayFail
    /\ rel.pc \in {"list", "judge"} \/ (rel.pc = "pause" /\ rel.cur \in late)
    /\ rel' = [IdleRelease EXCEPT !.pc = "end"]
    /\ UNCHANGED <<rec, launched, parked>> /\ UNCHANGED relOthers
    /\ UNCHANGED sendVars /\ UNCHANGED helperVars

(* The deferred unlock, and after it the hand-off launch. *)
RelEnd ==
    /\ rel.pc = "end"
    /\ rel' = IdleRelease
    /\ launched' = (launched \/ rel.handOff)
    /\ UNCHANGED <<rec, parked>> /\ UNCHANGED relOthers
    /\ UNCHANGED sendVars /\ UNCHANGED helperVars

RelStep ==
    \/ RelStart \/ RelList \/ RelJudge \/ RelTimeout \/ RelAnswered \/ RelAnswerLost
    \/ RelPause \/ RelStop \/ RelError \/ RelEnd

-----------------------------------------------------------------------------
Init ==
    /\ rec = [m \in Msgs |-> [state |-> "none", handoff |-> FALSE, unknown |-> FALSE]]
    /\ order = [m \in Msgs |-> 0] /\ late = {}
    /\ send = [m \in Msgs |-> "idle"] /\ dispatch = Nobody
    /\ answer = [c \in Callers |-> Nobody]
    /\ queue = {} /\ job = Nobody /\ hub = [m \in Msgs |-> Unseen]
    /\ up = (MaxHelpers > 0) /\ helpers = (IF up THEN 1 ELSE 0)
    /\ poll = [m \in Msgs |-> IdlePoll]
    /\ rel = IdleRelease /\ launched = FALSE
    /\ written = [m \in Msgs |-> 0]
    /\ before = [m \in Msgs |-> {}] /\ parked = {}

Next ==
    \/ \E m \in Msgs :
          \/ Accept(m) \/ SendStep(m) \/ Pass(m) \/ Prune(m)
          \/ PollRead(m) \/ PollJudge(m) \/ PollHeld(m) \/ PollLate(m) \/ PollExpire(m)
    \/ HelperStep \/ HelperCrashes \/ HelperCloses \/ HelperStarts
    \/ RelStep \/ LaunchGivesUp \/ HookLaunch \/ WindowEnds

Spec == Init /\ [][Next]_vars

(* Every sender and release that was started keeps running: their waits are *)
(* bounded (the lock wait, the call's deadline, the release window), so     *)
(* each of their steps that stays possible is taken.  Nothing is assumed of *)
(* the helper.                                                              *)
FairSpec ==
    /\ Spec
    /\ \A m \in Msgs : WF_vars(SendStep(m))
    /\ WF_vars(RelStep) /\ WF_vars(WindowEnds)

-----------------------------------------------------------------------------
(* Properties. *)

(* Receipts, program counters and helper state have their types, and the    *)
(* dispatch lock is held by exactly the sender that is between Lock and     *)
(* Finish.                                                                  *)
TypeOK ==
    /\ rec \in [Msgs -> Receipt]
    /\ order \in [Msgs -> 0..Cardinality(Msgs)] /\ late \subseteq Msgs
    /\ send \in [Msgs -> {"idle", "waiting", "locked", "submitted", "holding",
                          "unlocking", "done"}]
    /\ \A m \in Msgs :
          dispatch = m <=> send[m] \in {"locked", "submitted", "holding", "unlocking"}
    /\ dispatch \in Msgs \cup {Nobody}
    /\ answer \in [Callers -> Answers]
    /\ queue \subseteq [caller : Callers, msg : Msgs] /\ job \in Jobs \cup {Nobody}
    /\ hub \in [Msgs -> PrivateDelivery] /\ helpers \in 0..MaxHelpers /\ up \in BOOLEAN
    /\ written \in [Msgs -> Nat] /\ before \in [Msgs -> SUBSET Msgs]
    /\ launched \in BOOLEAN /\ parked \subseteq Msgs

(* No resend: one message is written to the provider at most once, whatever *)
(* times out, whichever helper dies and however often a release judges it.  *)
AtMostOneFrame == \A m \in Msgs : written[m] <= 1

(* A receipt that names a known failure is true: a message reported as      *)
(* refused, expired, stale or failed, and not as an unknown outcome, never  *)
(* reached the provider.                                                    *)
KnownFailureIsTrue ==
    \A m \in Msgs :
        rec[m].state \in Final \ {"delivered"} /\ ~rec[m].unknown => written[m] = 0

(* Which receipts may lie: a message that reached the provider is reported  *)
(* as a known failure only as stale, and only by a status request that      *)
(* found its route gone with an old copy, or asked a helper that does not   *)
(* know the message.  No sender, release, deadline or death of a helper     *)
(* settles a written message as refused, expired, stale or known failed.    *)
OnlyStatusMisleads ==
    \A m \in Msgs :
        rec[m].state \in Final \ {"delivered"} /\ ~rec[m].unknown /\ written[m] > 0
            => rec[m].state = "stale" /\ poll[m].misled

(* Writing a frame while an earlier message, held since before this one was *)
(* dispatched, is still waiting.                                            *)
Overtakes(m) ==
    /\ written'[m] > written[m]
    /\ \E x \in before[m] : order[x] < order[m] /\ rec[x].state = "held"

(* Dispatch lock, HeldFor and the release's order together: a later message *)
(* never overtakes an earlier one that is held.                             *)
NoOvertaking == [][\A m \in Msgs : ~Overtakes(m)]_vars

(* No lost hold: a held message has a release that will judge it, running,  *)
(* launched or about to be launched, unless a release that had listed it    *)
(* used up its window and left it for the next hook.                        *)
NoLostHold ==
    \A m \in Held :
        rel.pc # "off" \/ launched \/ m \in parked \/ send[m] = "holding"

(* Every send ends with its lock released, though the helper may hang or    *)
(* die, another send may keep the lock and a release may be running.        *)
SendsFinish == \A m \in Msgs : send[m] = "waiting" ~> send[m] = "done"

(* A release gives its lock back, although each record it lists may be      *)
(* judged again and again and new messages are held meanwhile.              *)
ReleaseEnds == (rel.pc # "off") ~> (rel.pc = "off")
=============================================================================
