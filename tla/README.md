# projmux: a TLA+ model of how Agents are coordinated

projmux runs coding Agents (Claude, Codex) in tmux panes, lets them send each
other messages, lets an operator answer their permission requests from outside
the pane, and moves a Codex thread from one controller to another. Nearly
everything is done by short-lived processes (commands, hooks, helpers) that
agree through files, file locks and sockets; only the Codex broker is a
long-running process. This project models that coordination, checks it with TLC
and proves the safety properties with TLAPS. It covers three subsystems:

* **messages**: how one is accepted, stored, held, delivered, answered, settled
  and finally reclaimed;
* **approvals**: how a permission request of Claude Code is raised, answered,
  expired or closed, and what the provider and the audit log are told;
* **the Codex broker**: how many bindings share one connection to the app-server,
  how a client follows a thread across reconnects, and how a thread changes hands.

Paths below are relative to `src/internal`; `agents` stands for
`integrations/agents`.

## 1. The system

### Parts modelled

| part | state | operations | code |
|---|---|---|---|
| receipts | envelope (immutable), delivery (`accepted`, `held`, five terminal states, reason, outcome unknown) | `Validate`, `ValidateReply`, `SameRetry`, `Reduce` | `core/agentmessage/message.go` |
| message store | one JSON file of at most 256 records, replaced by rename under a flock | `PutAccepted`, `PutDeferred`, `PutReply`, `Apply`, `MarkHandoff`, `Status`, `Claim`, `ReaddressDeferred`, prune | `agents/agentmessage/store.go`, `deferred.go`, `held.go` |
| history log | `history.jsonl` and one rotated generation | append and rotate before the store's rename; `ReadArchive` without a lock | `history.go`, `read.go` (same directory) |
| private delivery | the helper's own view of one message | `Reduce` | `core/agentdelivery/reducer.go` |
| Claude dispatch | dispatch lock and release lock per target, the helper's map of messages, the running release | `acceptAndDeliver`, `DeliverOrHold`, `submitPush`, `Service.Status`, `releaseHeldMessages` | `services/agentmessages/*.go`, `app/agent_message_hold.go`, `app/claude_push_hub.go`, `app/claude_coordination.go` |
| approval store | one JSON file of requests under a flock, an append-only audit log | `Create`, `Answer`, `Settle`, `Close`, `CloseAnsweredInTerminal`, prune, audit append | `agents/agentapproval/store.go`, `audit.go` |
| permission hook | one process per request, with a deadline timer, a poll ticker and a signal context | `run`, `wait`, the PostToolUse ingest | `app/claude_permission_hook.go`, `claude_permission_ingest.go` |
| broker | the connection, the bindings with queue and barrier buffer, the supervisor, control requests | `Bind`, `Close`, `supervise`, `serve`, `runBarrier`, `Submit`, `classify` | `agents/codexbroker/broker.go`, `binding.go`, `ledger.go`; `agents/codexappserver/client.go`, `bootstrap.go` |
| transfer | the reservation of a thread, outcomes remembered | `PrepareTransfer`, `RetireTransfer`, `finishTransfer`, `ReclaimTransfer`, the native target's four steps | `agents/codexbroker/transfer.go`, `transfer_native.go`, `transfer_ipc.go`; `codexappserver/thread_retirement.go` |
| session stream | the session's bindings and pumps, the socket, the client's binding | `handleBind`, `handleUnbind`, `pump`, `forwardEvent`, `dispatch`, `deliver`, `suspend`, `revoke` | `agents/codexbroker/session.go`, `client.go` |

### How they interact

*Messages.* A sender stores an accepted record, takes the target's dispatch lock,
and then either holds the message (the target waits for its operator, or earlier
messages are held) or submits it to the helper over a socket. The helper is the
process that owns the provider's pipe. Under its mutex it reserves the turn,
persists the handoff mark in the store, writes the frame, and records the
delivery; then it answers. The sender projects the answer on the receipt. A held
message is pushed later by a detached *release* process, which takes the release
lock, lists the held records and judges each one. Anyone may ask for the status
of a message, which may itself settle the receipt. A Codex Agent has no helper:
it claims its messages from the store.

*Approvals.* Claude Code starts a hook for a permission request and shows its own
prompt at the same time. The hook records the request and polls it. An operator
answers it with another process, which appends and syncs an audit line before it
replaces the record. A "No" in the terminal signals the hook; a "Yes" does not,
and the ingest of the finished tool call closes the one waiting record that
matches. Whatever the hook saw unlocked it confirms under the lock before it
prints a decision.

*Broker.* One supervisor opens a connection while anything is bound or being
transferred. On it, each binding is resumed and snapshotted while live events are
buffered, and the buffer is merged behind the snapshot. A transfer freezes the
binding of a thread, drains what it had admitted, unsubscribes it, and hands the
thread over or gives it back. A client in another process sees a binding through
a session, whose pump forwards events and suspensions, two channels, over one
socket.

### What is hard

* Five kinds of process write one receipt; the first terminal event must win
  and must be true. A caller gives up on a helper that still serves the request;
  the helper dies with its memory and is replaced by one that remembers nothing.
* Each reader works with a copy it read under an earlier lock.
* A store at its capacity must reclaim something, but not the record that shows
  a reply was already sent, nor one the receiver may still answer.
* A crash can fall between the append to a log and the rename of a store, and
  inside the append.
* An answer, an expiry, a cancellation and a terminal answer race for one
  request, and the log must not contradict what the provider was told.
* Events fall between a subscription and a snapshot; queues overflow; the notice
  that a connection was lost and the snapshot of the next one travel apart.
* A coordinator departs in the middle of a transfer, on a connection that may be
  replaced, while the endpoint still acts on requests nobody waits for.

`PROJECT.json` lists these as hazards, each at its line with the properties
that cover it.

### Parts not modelled

Listed in `PROJECT.json` with the reason. Those with protocols of their own
(questions, process host, registry, Codex generations, controller, notifications,
deferred input) are in the plan below. tmux calls, rendering, configuration
files, provider-log parsing and the command line, which are the bulk of the
repository's lines, are left out for good: their behaviour is that of an external
program or of a pure conversion, and they keep no state of their own that
several processes share.

## 2. Modules

| module | content |
|---|---|
| `MessageReceipt` | envelopes, validation, reply routes, the public reducer; no variables |
| `MessageStore` | the message store; extends `MessageReceipt` |
| `MessageStoreProofs` | seven theorems about it |
| `HistoryLog` | the three files behind a reclaim, the writer's steps, the reader |
| `HistoryLogProofs` | three theorems about it |
| `AgentDelivery` | the helper's private reducer; no variables |
| `ClaudeDispatch` | sender, helper, release, status readers; extends `AgentDelivery` |
| `ClaudeDispatchProofs` | five theorems about it |
| `OneDecision` | the abstract promise of an approval: raised once, ended once, told truly |
| `ApprovalStore` | the request file and the audit log |
| `PermissionHook` | the hooks, Claude Code's prompt and the ingest, over the store; extends `ApprovalStore`; its refinement mapping to `OneDecision` |
| `PermissionHookProofs` | four theorems about it, the refinement among them |
| `CodexBroker` | supervisor, bindings, barriers, control requests, the endpoint |
| `CodexBrokerProofs` | what every step of the broker keeps and promises; lemmas for the next two proof modules |
| `BrokerTransfer` | the transfer of a thread; extends `CodexBroker` |
| `BrokerTransferProofs` | seven theorems about it |
| `BrokerStream` | session, socket and client; extends `CodexBroker` |
| `BrokerStreamProofs` | six theorems about it |
| `MCMessageStore`, `MCHistoryLog`, `MCClaudeDispatch`, `MCPermissionHook`, `MCBrokerTransfer`, `MCBrokerStream` | instances for TLC |

**MessageStore.** `records` maps a ref to its record, or to `NoRecord`.
The code holds the flock from load to rename, so one operation is one action. A
caller's clock reading and the handoff flag a `Status` judged by may be older
than the lock (`Readings`, the `seen` of `Status`). `Reclaims` gives the sets of
refs `pruneRecords` may take: it ages overdue records, protects the newest
answerable ones of each target, joins replies to their originals, takes groups
past retention, and then the oldest groups until there is room. Groups of equal
age are visited in file order, which the model leaves open. `Write` is
`writeLocked`: the log lines first, then the rename, with the crash in between
as its second disjunct. A refused operation writes nothing, so it is no step;
the refusals are the guards. `attempts` is a history variable: the replies
committed against each original while it is stored.

**HistoryLog.** It opens `Write` up into its steps. A log generation is the set of
refs whose line decodes, its size, and whether its last line is cut. A line appended
behind a cut one becomes part of the same undecodable line (`Extended`).
`Refs` are record incarnations: a ref accepted again after its reclaim is
another member. `stored`, `retired` and `glued` are history variables.

**ClaudeDispatch.** One action per stretch of code between two accesses to
shared state. `send[m]` and `rel.pc` are program counters; `rel.seen` is the
handoff flag of the copy a release listed. `late` is the set of messages past their
deadline. Whether the target is busy, waits for its operator or fails a
prewrite check is the environment's choice at each look. `written` counts
frames, a partial one included. Receipts are reduced to state, handoff and
outcome-unknown; their full form and their persistence are `MessageStore`'s
subject. A status reader takes a copy of the record (`PollRead`). With an accepted
copy it asks the helper, before the deadline and after it alike, and settles the
receipt with the answer (`PollJudge`); only a held copy whose route resolves goes on
to `Store.Status`, which reads again and may apply the deadline event (`PollHeld`,
`PollLate`, `PollExpire`). `poll[m].misled` is a history flag: a status request has
settled the receipt as stale. `Prune` is the expiry that the accept of any message,
by any process, applies to every late record. Two constants gate behaviour so that
runs can separate causes: `StatusPolled` (the messages somebody asks the status
of, at any time) and `StoreMayFail` (a store write or listing outside the helper's
handoff mark may fail).

**ApprovalStore.** A record is its state, its deadline and when it settled. A
locked operation is one action, except `Answer`: `answering` is the process that
has appended its line and holds the lock, and may commit, fail or die. `said` is
the last line of each request that decodes, the one `docs/hooks.md` tells an
operator to go by; `cut` says the log ends in half a line. A failed append has
written nothing, a part or all of it. A transition's line is best effort, so a
crash between its rename and its line is a failed append. `fate` (the last state
committed for a request, kept when its record is dropped) and `glued` (requests
that lost a line behind a cut one) are history variables.

**PermissionHook.** `hook[r]` is the program counter of the process: `Poll` is the
unlocked read, `Settle` and `Close` are the locked calls. `DeadlineTimer` fires once
(`fired`), and may do so one tick before the store's clock. `blind` are the hooks
whose reads fail at present, and `ReadsTurn` starts or ends such a spell, or never
ends it; `ReadFails` is the failing tick past the give-up time, which ends the wait. `claude[r]` is who answered Claude Code's own
prompt first, `ingest[r]` the ingest of the tool call. `Promise` maps the state to
`OneDecision`: the outcome of a request is its `fate`, what the provider was told
is what the hook printed. A request that is dropped, or whose hook dies, keeps its
outcome; the abstract specification has no failures at all.

**CodexBroker.** Each action is one critical section of `Broker.mu`, one step of
the supervisor goroutine or one of the endpoint. What a thread reports is a
version number, and a snapshot carries the current one, so that a missed event
shows as a gap. `oversize[t]` are the events of a thread that are over the client's
frame limit, any set of them, fixed in the initial state: `readLoop` drops such a
notification and leaves the connection up. `bd` keeps every binding ever made, `bound` the routing. `link` is
the client of each connection, up or failed, with the error the pending requests
then get. `barrier` is how far a bootstrap has come; its answer and its
`admittedDone` are one step. A request `op` has a `fate` at the endpoint and an
`outcome` at the broker, which need not agree. An answer dropped for its size
fails every waiting request in the code; in the model each of them may fail so
on its own, which includes that case.

**BrokerTransfer.** `transfer[t]` is the reservation of a thread, `busy` names the
call it has out to the endpoint. `PrepareTransfer`'s wait for the drain is not a
state: when it times out it does what `Abort` does, and when it returns nothing
changes. A coordinator is its session. Which session owns a transfer makes no
difference to the model, because a call of any other session is refused and one
that departed never calls again; `orphaned` says that the owner departed.
`attempted` is a history variable. Of the outcomes remembered, a completion is
appended whenever one is recorded (`Remember`), a "no effect" once for its token
(`RememberNoEffect`).

**BrokerStream.** One client with one session at a time. `wire` is the outbound
queue and the socket, `remote[t]` what the client believes of its binding. A frame
names its thread only; `mixed` records that a frame of an earlier binding was
taken for this one's.

## 3. Runs

All runs set `CHECK_DEADLOCK FALSE`: the system is passive, and a state in which
everything is settled and a bound is used up is a proper end.

| run | shows |
|---|---|
| `store` | Messages between two Claude Agents and a Codex Agent, rival replies, operator input and a resume hold, in a store of three. The file stays valid (`TypeOK`), the reply lane single (`SingleReply`), the file never outgrows what `decodeState` loads (`WithinCapacity`), what leaves is in the log (`ReclaimIsLogged`), leaves with its group (`ReplyGroupsLeaveTogether`) and is due (`NoEarlyReclaim`), and a terminal receipt, a handoff mark and an envelope never change, but for the generation of a resume hold (`ReceiptsAreFinal`). |
| `history_reader` | Writers that are cut short or die anywhere, and a lock-free reader: a record is lost only as the first one appended behind a cut line (`LostOnlyBehindACut`), and the reader misses nothing retained from its start to its end (`ReaderMissesNothing`). |
| `dispatch_once` | A message, two helpers in turn and the release: at most one frame (`AtMostOneFrame`), and a written message is reported as a known failure only as stale, and only by a status request (`OnlyStatusMisleads`). |
| `dispatch_order` | Two sends and a release: no held message without a release to come (`NoLostHold`), none overtaken by a later one (`NoOvertaking`). |
| `dispatch_liveness` | With a hung, dying or absent helper and a failing store, the send and the release end (`SendsFinish`, `ReleaseEnds`). |
| `approvals` | Two requests of one call in a store of one record, every fault allowed: `OneDecision` is implemented (`KeepsPromise`), the log never under-reports a decision (`NeverUnderReports`), a hook without a fault leaves nothing to be settled (`LeavesNothingWaiting`). |
| `approvals_live` | Every hook ends, also one whose reads fail for good after its timer has fired (`HookEnds`), and an accepted answer is printed unless the hook was canceled, broken, or lost its record to a full store (`AnswerIsHeard`). |
| `broker_transfer` | One thread, a source with a request in flight, two connections, coordinators that depart and others that reclaim: nothing enters behind the drain (`SourceStaysFrozen`), an unsubscribed source never writes again (`SourceNeverWritesAgain`) and is out before a target is in (`SourceIsOut`), "no effect" is true (`NoEffectIsTrue`), a refused request had none (`RefusedTookNoEffect`), and the supervisor is always told (`SupervisorIsTold`). |
| `broker_stream` | One client, a socket that may be full, two connections, two bindings: authority reaches the client (`AuthorityArrives`), it is caught up (`CaughtUp`), and what it is handed has no gap (`NoGap`), in both cases but for the events that were over the frame limit. |

Three runs end in a violation; each is a place where the code departs from what
a comment says of it (quoted in `PROJECT.json`, `findings`):

* `dispatch_stale_receipt`: a status request that reaches the helper before the
  submit is answered `stale`; the receipt is settled as a known failure, and the
  submit then writes the frame. The other order is as bad: a replacement helper that
  is asked about a message its predecessor wrote has never seen it, and says the same.
* `dispatch_resend`: "automatic resend is never allowed". A release
  whose projection cannot be stored judges its old copy again; a replacement
  helper, with an empty memory, writes the frame a second time.
* `broker_suspend`: `forwardEvent` puts a pending suspension before any snapshot,
  the snapshot of the lost connection included if it is still queued. The client
  is then suspended first and opened afterwards, and keeps the lost connection's
  authority until a reconnect. A request made with it is still refused by the
  broker, so this delays a client; it does not let it write.

### Bounds

| bound | value | why it is enough |
|---|---|---|
| records in the message store | 3 of 4 refs | one too few for the drafts, so every full-store path is taken; a group has up to three members |
| `MaxProtected` | 1 | two answerable messages of one target compete for it |
| `Retention`, `MaxTTL`, `MaxTime`, `MaxLag` | 1, 2, 2, 1 | a record can be delivered, expire and pass retention; a reading may predate a tick; equalities at each boundary occur |
| history refs, `MaxLines` | 4, 1 | two rotations happen, so a generation is dropped; batches of one and of several |
| messages | 1, or 2 for the order | ordering needs two; all else concerns one message |
| `MaxHelpers` | 1 or 2 | one replacement is the least that loses the helper's memory |
| `StatusPolled` | the message, or none for the order | the status path only settles receipts; whom it misleads is a question about one message |
| requests, `MaxRecords` of approvals | 2, 1 | a second request drops the settled first one, or is refused while it waits; two waiting records of one call do not coexist here, and that case is left to the theorem `HookImplementsPromise` |
| `Window`, `GiveUp`, `Retention`, `MaxTime` of approvals | 1, 0, 0, 2 | a request is answered before, at and after its deadline; a settled one passes retention and the hook its give-up time |
| `MaxLogFaults` | 1, or 0 for liveness | one failed append is enough to cut a line and glue the next one to it |
| `Prompted`, `Mortal` | one request each | the terminal answer of one request meets the waiting record of the other, and one hook dies while the other lives |
| connections, bindings | 2, 2 | a reconnect and a rebind; a barrier of the lost connection meets the next one |
| `Backlog`, `EventLimit`, `MaxEvents` | 2, 1, 2 | snapshot and event fill a queue, an event more overflows it; the client's channel overflows. The transfer has no events (0), so a revocation by overflow is met in the stream run only |
| `oversize` | every set of versions | one event or both may be dropped, before, between and behind the ones that arrive |
| `WireCap` | 1 | the pump blocks with both its channels ready |
| tokens, `Remembered` | 1, 2 | a prepare is repeated after its outcome was recorded; coordinators depart and others reclaim without a bound. Eviction of a remembered outcome is not met; `NoEffectIsTrue` speaks of remembered tokens only, and is proved for any number of them |
| `MayClose`, `MayGarble` | true for the transfer, false for the stream | the stream's clients lose their connection in two other ways; a broker that closes has nothing left to stream |
| `Peers` | 1 | the refusal to reclaim on another endpoint process only removes behaviour |

`MsgSymmetry` and `RefSymmetry` are used in safety runs only. The refs of `MessageStore` are numbers, because the code orders
them, and have no symmetry.

### Fairness

`ClaudeDispatch!FairSpec` assumes weak fairness of each sender's steps, of the
release's steps and of the end of the release window. The code justifies it: every
wait of these processes has a bound (the lock wait of `LockTargetDispatch`, the IPC
deadline, the release window), so a process that is not killed goes on. Nothing
is assumed of the helper, which may hang or die at any point, and the
deadline of a message need not pass. The run has one message: a rival holder of the
dispatch lock appears in it only as the lock wait that ends unsuccessfully
(`LockTimeout`).

`PermissionHook!FairSpec` assumes that the clock ticks, that an answering process
which holds the lock commits, fails or dies, and that a hook takes its next step:
its wait has a ticker and a timer, its lock waits are bounded and end in
`RecordFails`, `SettleFails` or `CloseFails`. Nothing is assumed of the operator,
of Claude Code or of the ingest, and a store that may fail may do so forever: reads
may fail from some point on, or on and off, and a failing tick before the give-up
time changes nothing and is no step. Since the timer fires once, what ends the wait
of a hook that cannot read is the give-up of `claude_permission_hook.go:346-349`
alone, and `HookEnds` fails without it.

The broker modules are checked for safety only; `SupervisorIsTold` is the safety
form of the progress the code's `signal` is for: the supervisor never sleeps on
work.

## 4. Proofs

Proved by TLAPS for every value of the constants that meets the assumptions
named in the modules (positive capacities and windows, natural bounds, finite
`Refs` and `Requests`, well-typed drafts and outcomes, names for "nobody" and
"none" that name nothing else; TLC evaluates the same assumptions in the runs).

`MessageStoreProofs`:

* `StoreTypeOK`: `TypeOK`, which includes `validRecord` for every stored record.
* `CapacityKept`: `WithinCapacity`.
* `ReceiptFinality`: `ReceiptsAreFinal`.
* `GroupsLeaveTogether`: `ReplyGroupsLeaveTogether`.
* `ReplyOnce`: `SingleReply`.
* `ReclaimLogged`: `ReclaimIsLogged`. `ReclaimJustified`: `NoEarlyReclaim`.

The argument: two relations on records, `Settles` (an event changes the
delivery alone, and nothing once it is terminal) and `Evolves` (what may happen
to a record that stays). One lemma per operation shows that its write, whether
it commits or crashes, lets whole reply groups leave that are accounted for, lets
every other record evolve and adds only a valid record; `NextSteps` collects them. The
theorems follow from that shape. `SingleReply` is not inductive: it says nothing
of a committed attempt that is no longer stored. The strengthening
`AttemptsOnDisk` adds that every attempt ever committed against a stored original
is itself stored, which is what `ReplyGroupsLeaveTogether` preserves; so
the attempts `PutReply` looks at are all there ever were, and each one
before the new one is a settled zero-byte failure, which is final.
`Accounts` says of the records that leave why they may and that the log has their
lines. It rests on what ageing does to a record (`AgedRecord`: a record with a
receipt or with time left is as it was, and one that is settled is settled now, so
retention cannot have run out), on the capacity loop stopping at the first room
(`ReclaimsWhenFull`) and on counting the messages a protected one would have
before it (`UnprotectedHasNewer`).

`HistoryLogProofs`:

* `LogTypeOK`: `TypeOK`.
* `NothingElseLost`: `LostOnlyBehindACut`. Strengthening `WriterInv`: a writer about
  to rename has its whole batch in the log, but for a record behind a cut line.
* `ReaderComplete`: `ReaderMissesNothing`. Strengthening `ReaderInv`: what the
  reader has missed can only be where it has yet to look, because a record
  moves only from the store to the current log and on to the older one.

`PermissionHookProofs`:

* `HookTypes`: `TypeOK`.
* `LogIsHonest`: `NeverUnderReports`.
* `NothingLeftWaiting`: `LeavesNothingWaiting`.
* `HookImplementsPromise`: `KeepsPromise`, the refinement of `OneDecision`.

None of the last three is inductive alone. The invariant `Inv` adds `Agree` (a
record in the file is in the state last committed for it, and a request that was
last left waiting is still in the file), `Fresh` (a request whose hook has not
recorded it has no fate), `Dated` (a deadline is at least a window from time zero),
`Held` (the answering process holds the lock over a record that is waiting, and
its line is the last one of that request) and `Carried` (a settled hook holds the
fate of its request, and no hook has printed before it is done). The store's operations share one lemma: `Replace` commits a
change to the named request and lets others only expire (`ReplaceCommits`),
and an append touches the lines of one request (`AppendTouchesOne`). `CommitKeeps`
combines the two; a lemma per operation instantiates it. Steps that leave the
store alone are handled by `HookMoves` and `QuietMove`. The refinement then
needs only that a commit is an abstract `Commit` or a stutter (`CommitRefines`),
and that the decision a hook prints is the fate, which is `Carried`.

`ClaudeDispatchProofs`:

* `TypeCorrect`: `TypeOK`, whatever store operation fails. Strengthening `TypeInv`:
  the helper remembers the message it serves as queued or handed off and every
  other one it saw as settled (`Memory`), the release works on the oldest record
  it has left (`Release`), and nothing happens to a message before it is accepted.
* `OneFrame`: `AtMostOneFrame`, `HoldsSeen`: `NoLostHold`, and `HeldFirst`:
  `NoOvertaking`, for a store whose writes succeed (`~StoreMayFail`).
* `KnownTrue`: `OnlyStatusMisleads`, under the same assumption, with any message
  asked about at any time.

The assumption cannot be dropped: `dispatch_resend` violates `AtMostOneFrame` when a
projection cannot be stored. That every known failure is true (`KnownFailureIsTrue`)
is no theorem, because the code does not keep it: a status request that overtakes
the submit, one that asks a replacement helper about a message its predecessor wrote,
before the deadline or after it, and one whose old copy shows no handoff and whose
route is gone, each settle a written message as stale. `KnownTrue` says that these
are the only cases: whatever else times out, dies or comes in another order, no
sender, release or deadline reports a written message as a known failure.

The invariant `DispatchInv` behind the first three is about who may still write
a message. `Once`: a message has one request at a time, its sender's or the
release's; one the helper has worked on is asked for by no one again, since it is
off the release's list or is the very record the release waits for; and what is
being served is not yet written. `Ahead`: what was held before a message was
dispatched is settled or held, comes before it on the release's list, and is
no longer held once the message is requested. `HeldSeen`: a held message is on the list
of a release that works, or somebody will look at it. `KnownInv` adds `True`: a
known failure, on record (unless a status request put it there), as an answer under
way or in the helper's memory, is one of a message that was not written and that
nobody will write, because its deadline is past or nobody asks for it and the release
has it no longer to judge (`ToJudge`); a written message has its handoff mark or a
settled receipt, so a deadline event judged from it, a status reader's included,
reports an unknown outcome. A step is proved for the message it names and, by one frame condition per
group of actions (`Calm` and its relatives), for all the others.

`CodexBrokerProofs` and `BrokerTransferProofs`:

* `TypeCorrect`: `TypeOK`, the bounds of every queue included, and that a receipt is
  remembered at most once as without effect.
* `Frozen`: `SourceStaysFrozen`. `SourceOut`: `SourceIsOut`.
  `NoEffect`: `NoEffectIsTrue`. `NeverWritesAgain`: `SourceNeverWritesAgain`.
* `Told`: `SupervisorIsTold`. `Refused`: `RefusedTookNoEffect`.

The broker alone has `BrokerInv`: routing and records agree (`Routed`), the current
connection is the last one and is served (`Connected`), a request that was sent names
a binding and a connection (`Sent`), a refusal that is not the endpoint's own comes
from a client that failed with a protocol error (`Refusals`), and a wake that came while the
connection was being opened is not lost (`ToldEarly`). Every step of the broker
also gives the `Guarantee` a transfer relies on: revocation is final, nothing is
started on a binding that is revoked or whose thread is being transferred away
from it, and a drain ends only when nothing is in flight. `TransferInv` then adds
`Reserved` (the reservation of a thread names a binding of it that is drained
unless it is draining, and is out once there is a target) and `Receipts` (a
source that was unsubscribed is revoked, or still reserved by that very receipt;
the source of a completed transfer is out). The broker's steps preserve both through
`Guarantee`, the transfer's own actions one by one.

`BrokerStreamProofs`:

* `StreamInvariant`: `StreamInv`, from which the others follow.
* `StreamTypeCorrect`: `TypeOK`. `StreamSupervisorTold`: `SupervisorIsTold`.
* `NoGapThm`: `NoGap`. `CaughtUpThm`: `CaughtUp`. `Arrives`: `AuthorityArrives`.

`NoGap` looks only at the head of the wire, so it is far from inductive: the
invariant has to follow an event along its whole way. `Pipeline` is the broker's
part: the notification channel has no gap (`Channel`), and for every binding its
stage, barrier and buffer agree (`Staged`), the buffer goes on from the snapshot
(`Buffered`) and the queue has no gap and is followed by the channel (`Queued`).
`Reach` says what "followed" means: between a version and the next entry for the
thread there are only dropped events (`Covers` of `oversize`), and if there is no
entry then only dropped events have come since. Which events are dropped is left
open, so the theorems hold for every choice. The
client's part is said of a `Clean` remote binding, one that is registered, not revoked
and was handed no frames of a predecessor: wire, queue and channel go on from what the
client `Knows` after the frames it has yet to take (`Gapless`), and authority that
the broker grants has its snapshot in the queue, or on the wire or at the client
behind every suspension (`Granted`). The broker's steps reach the client's part only
through what they supply to it (`Supplies`, `Offers`: a queue only grows at its
end, a live event is queued only on an open binding and leaves nothing out,
opening queues a snapshot); the pump and the dispatch move one frame from one place
to the next (`KnowsMore`, `KnowsTail`). TLC checked the invariant on four small
instances before the proof was begun. `BrokerInv` is the broker's
invariant above, so what is proved of the broker is used by both of its extensions.

Only model-checked: liveness (out of TLAPS's reach). Every invariant and action
property of the passing runs is a theorem.

## 5. Limits, and what the models taught about the code

Messages:

* A sender does not die in `ClaudeDispatch`. A sender that dies between its hold
  and its launch leaves the message to the next provider hook, which nothing
  guarantees.
* `NoOvertaking` and `NoLostHold` are checked while the store can be read. A listing
  that fails counts as empty, so a push may pass a held message, and a release that
  cannot read stops without looking for records it never listed.
* `history.go` says a crash leaves a record "never in neither" place. An append cut
  short leaves half a line without a newline, and the next append continues it;
  `LostOnlyBehindACut` states the exact extent of that loss.
* `claude_push_hub.go` says that the persisted handoff precedes the provider write. If
  the sender's call has timed out, its receipt is already terminal,
  `MarkHandoffMatching` returns without an error and without a mark, and the frame
  is written. `AtMostOneFrame` and `OnlyStatusMisleads` hold nevertheless.
* A status request asks the helper about an accepted message however late it is
  (`service.go:146-148`), and a helper that does not know the message calls it stale.
  So a receipt may name a known failure although the frame was written;
  `OnlyStatusMisleads` states the extent of that.
* `validProvider` admits a third provider, `antigravity`, but no adapter serves it, so
  `PutAccepted` refuses it as a target. The model's Agents are Claude and Codex. A message
  from an Agent of the third kind and a reply to it, for which `adapterForTarget`
  names Claude's adapter and `validRecord` would refuse it, are not covered.
* A delivery carries copies of the envelope's references and acceptance time in the
  file, which `validRecord` compares; the model has the envelope's only. Time starts at
  zero in the model, so the check that a settled record has a time is not stated.
* The lock is assumed to exclude; the socket is assumed to carry one request and
  one answer. Payload limits and identifier syntax are abstracted to sets of valid
  values.

Approvals:

* The ingest knows a call by its session, tool and input. When two identical calls
  wait and one record is gone, the ingest of the other call may close the
  one that still waits; the code documents the single-match rule and no more.
* A line appended behind a cut one is lost, so `NeverUnderReports` excepts a
  request that lost a line so (`glued`).
* A settled record may be dropped from a full store before its hook has polled it;
  the hook then prints nothing. `AnswerIsHeard` names that exception.
* Answers to Codex approvals only append lines here; the request is kept by the
  app-server.
* The audit log is rotated at its size limit and the older generation is dropped
  (`audit.go:132-135`). The model's log is not bounded: `NeverUnderReports` is about
  what was written, and a line may later be rotated away.

Broker:

* `ledger.go` says a refused request "did not take effect". `classify` also calls a
  request refused when the client failed with a protocol error while its connection
  was still the current one: over a frame it could not read, or because the backlog
  of notifications was full (`client.go:513-515`). `RefusedTookNoEffect` excepts both.
* `binding.go:41-43` says that dropping an overflow would hand the consumer "a gapped
  order it has no way to detect". A notification over the frame limit is dropped all
  the same by `readLoop` (`codexappserver/client.go:413-415`), the connection stays up
  and the binding numbers what follows consecutively, so this gap is not detected.
  `CaughtUp` and `NoGap` except the dropped events and no others.
* Events that the snapshot already contains are delivered again behind it, since the
  barrier's buffer is merged whole; `NoGap` speaks of gaps only.
* Frames name their thread. After a client closes a binding and binds the thread
  again on the same connection, frames of the old binding may reach the new one;
  the stream properties except such a binding (`mixed`).
* `Prepare` drains the one binding its receipt names. A hand-off that was never
  attempted only lifts the reservation. A reclaim on the same connection keeps the
  retirement although a native target may have resumed the thread since.
* A frame over the limit that arrives while snapshots are being read revokes every
  binding in its barrier, not only the one it answered.
* A session that refuses a bind is closed by its client; the two are one step.
* Approval leases, lifecycle snapshots, the host's idle exit and discovery are left
  out.

## 6. Plan

Done: receipts, message store, history log, private delivery, Claude dispatch,
approvals with their hook and refinement, the broker with transfer and stream,
and the theorems above. Next, in this order:

1. Proofs: that `MessageStore`'s `Write` is implemented by `HistoryLog`'s steps, so
   that the two theorems about the log and the store compose.
2. `QuestionStore`: the approvals' shape with `BeginDirect` and `FinishDirect`,
   as another implementation of `OneDecision`.
3. `ClaudeDispatch` against an abstract at-most-once channel, by refinement; sender
   death.
4. `ProcessHost`: turn reservation and supervisor restart, replacing the
   environment's busy/free choice in `ClaudeDispatch`; deferred input and resume.
5. `codexgeneration` and the controller around `BrokerTransfer`; approval leases of
   the broker.
6. `MetadataRegistry`: revisioned updates and recovery; `NotifyStore`.
