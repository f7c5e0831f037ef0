--------------------------- MODULE PermissionHook ---------------------------
(***************************************************************************)
(* One hook process per permission request, the operator who answers it in *)
(* projmux or in Claude Code's own prompt, and the ingest that follows the *)
(* tool call, all over one approval store.                                 *)
(***************************************************************************)
EXTENDS ApprovalStore

CONSTANTS
    GiveUp,     \* claudePermissionGiveUp, in ticks
    Prompted,   \* bound: requests the operator may also answer in the terminal
    Mortal      \* bound: requests whose hook may be signalled, panic or die

ASSUME HookAssumption ==
    GiveUp \in Nat /\ Prompted \subseteq Requests /\ Mortal \subseteq Requests

VARIABLES
    hook,       \* where each hook process stands
    got,        \* the settled state its wait returned
    printed,    \* the decision it printed
    canceled,   \* its context was canceled by a signal
    fired,      \* the hooks whose deadline timer has fired
    blind,      \* the hooks whose reads of the store fail at present
    faulted,    \* history: a store error, a panic or SIGKILL ended its work
    claude,     \* who answered Claude Code's prompt first
    ingest      \* the PostToolUse ingest of the call

waitVars == <<fired, blind>>
hookVars == <<hook, got, printed, canceled, faulted, waitVars>>
claudeVars == <<claude, ingest>>
vars == <<storeVars, hookVars, claudeVars>>

Live == {"creating", "waiting", "settling", "canceling", "closing", "settled"}

(* Types of the store and of the hooks.  In particular what wait returns is *)
(* a settled state, although its timer may fire before the store's clock.   *)
TypeOK ==
    /\ StoreTypeOK
    /\ hook \in [Requests -> Live \cup {"idle", "done"}]
    /\ got \in [Requests -> Terminal \cup {"none"}]
    /\ printed \in [Requests -> Decided \cup {"none"}]
    /\ canceled \in [Requests -> BOOLEAN]
    /\ faulted \in [Requests -> BOOLEAN]
    /\ fired \subseteq Requests /\ blind \subseteq Requests
    /\ claude \in [Requests -> {"asking", "yes", "no"} \cup Decided]
    /\ ingest \in [Requests -> {"none", "due", "matched", "done"}]

Init ==
    /\ StoreInit
    /\ hook = [r \in Requests |-> "idle"]
    /\ got = [r \in Requests |-> "none"]
    /\ printed = [r \in Requests |-> "none"]
    /\ canceled = [r \in Requests |-> FALSE]
    /\ faulted = [r \in Requests |-> FALSE]
    /\ fired = {} /\ blind = {}
    /\ claude = [r \in Requests |-> "asking"]
    /\ ingest = [r \in Requests |-> "none"]

-----------------------------------------------------------------------------
(* The hook: run and wait. *)

(* Leaving wait stops its timer and its ticker. *)
Enters(r, to) ==
    /\ hook' = [hook EXCEPT ![r] = to]
    /\ IF to \in {"waiting", "settling"} THEN UNCHANGED waitVars
       ELSE fired' = fired \ {r} /\ blind' = blind \ {r}

Goes(r, from, to) == hook[r] = from /\ Enters(r, to)

PastGiveUp(r) == now > deadline[r] + GiveUp

(* run up to Create: the deadline is set from the clock read here. *)
Start(r) ==
    /\ Goes(r, "idle", "creating")
    /\ now + Window + GiveUp < MaxTime
    /\ deadline' = [deadline EXCEPT ![r] = now + Window]
    /\ UNCHANGED <<now, state, updated, answering, said, cut, logFaults,
                   fate, glued,
                   got, printed, canceled, faulted, claudeVars>>

(* Create waits for the lock a fraction of the window at most. *)
Record(r) ==
    /\ Goes(r, "creating", "waiting")
    /\ now < deadline[r]
    /\ Create(r, deadline[r] - Window)
    /\ UNCHANGED <<got, printed, canceled, faulted, claudeVars>>

(* Create fails: the lock stayed busy, the store is full of waiting records, *)
(* or the file cannot be written.  The hook prints nothing.                 *)
RecordFails(r) ==
    /\ Goes(r, "creating", "done")
    /\ \/ MayFail
       \/ ~Unlocked \/ now >= deadline[r]
       \/ Cardinality({x \in Requests :
             Effective(state, x, deadline[r] - Window) = "waiting"}) >= MaxRecords
    /\ UNCHANGED <<storeVars, got, printed, canceled, faulted, claudeVars>>

(* The file becomes unreadable to a hook that waits, or readable again. *)
ReadsTurn(r) ==
    /\ MayFail /\ hook[r] = "waiting"
    /\ blind' = IF r \in blind THEN blind \ {r} ELSE blind \cup {r}
    /\ UNCHANGED <<storeVars, hook, got, printed, canceled, faulted, fired, claudeVars>>

(* A tick of wait: the unlocked Get, and what it does with the record. *)
Poll(r) ==
    LET seen == Effective(state, r, now)
    IN  /\ Goes(r, "waiting", IF seen \in {"absent", "closed"} THEN "closing" ELSE "settling")
        /\ r \notin blind /\ seen # "waiting"
        /\ UNCHANGED <<storeVars, got, printed, canceled, faulted, claudeVars>>

(* The deadline timer: it fires once, and maybe a hair before the store's   *)
(* clock gets there.                                                        *)
DeadlineTimer(r) ==
    /\ hook[r] = "waiting" /\ r \notin fired
    /\ now + 1 >= deadline[r]
    /\ hook' = [hook EXCEPT ![r] = "settling"]
    /\ fired' = fired \cup {r}
    /\ UNCHANGED <<storeVars, got, printed, canceled, faulted, blind, claudeVars>>

(* Mutant: a store that cannot be read is tried again, however late. *)
ReadFailsForever(r) ==
    /\ r \in blind
    /\ Goes(r, "waiting", "waiting")
    /\ UNCHANGED <<storeVars, got, printed, canceled, faulted, claudeVars>>

(* A tick whose read fails ends the wait past the give-up time; before it   *)
(* nothing changes and the next tick reads again.                          *)
ReadFails(r) ==
    /\ r \in blind
    /\ Goes(r, "waiting", "closing")
    /\ PastGiveUp(r)
    /\ faulted' = [faulted EXCEPT ![r] = TRUE]
    /\ UNCHANGED <<storeVars, got, printed, canceled, claudeVars>>

(* Mutant: a timer that fired early counts as settled. *)
SettleTrustsTimer(r) ==
    /\ hook[r] = "settling"
    /\ Unlocked
    /\ state[r] # "absent"
    /\ Enters(r, "settled")
    /\ got' = [got EXCEPT ![r] = state[r]]
    /\ UNCHANGED <<storeVars, printed, canceled, faulted, claudeVars>>

(* Settle: only a record read back under the lock counts as settled. *)
Settle(r) ==
    /\ hook[r] = "settling"
    /\ Unlocked
    /\ \/ /\ Transition(r, FALSE)
          /\ Enters(r, "settled")
          /\ got' = [got EXCEPT ![r] = "expired"]
       \/ /\ ~Moves(r, FALSE)
          /\ \/ /\ state[r] = "absent"
                /\ Enters(r, "closing")
                /\ UNCHANGED got
             \/ /\ state[r] = "waiting"
                /\ Enters(r, "waiting")
                /\ UNCHANGED got
             \/ /\ state[r] \in Terminal
                /\ Enters(r, "settled")
                /\ got' = [got EXCEPT ![r] = state[r]]
          /\ UNCHANGED storeVars
    /\ UNCHANGED <<printed, canceled, faulted, claudeVars>>

(* Settle fails: the lock is busy or the file cannot be read or written. *)
SettleFails(r) ==
    /\ MayFail \/ ~Unlocked
    /\ Goes(r, "settling", IF PastGiveUp(r) THEN "closing" ELSE "waiting")
    /\ faulted' = [faulted EXCEPT ![r] = @ \/ PastGiveUp(r)]
    /\ UNCHANGED <<storeVars, got, printed, canceled, claudeVars>>

(* Mutant: a canceled hook exits without closing its record. *)
CanceledForgets(r) ==
    /\ canceled[r]
    /\ Goes(r, "waiting", "done")
    /\ UNCHANGED <<storeVars, got, printed, canceled, faulted, claudeVars>>

(* ctx.Done in wait. *)
Canceled(r) ==
    /\ canceled[r]
    /\ Goes(r, "waiting", "canceling")
    /\ UNCHANGED <<storeVars, got, printed, canceled, faulted, claudeVars>>

AfterClose(r) == IF hook[r] = "canceling" THEN "closing" ELSE "done"

(* Close: wait closes a canceled record, and run closes whatever record is  *)
(* still waiting when wait reports none settled.                           *)
Close(r) ==
    /\ hook[r] \in {"canceling", "closing"}
    /\ Unlocked
    /\ \/ Transition(r, TRUE)
       \/ ~Moves(r, TRUE) /\ UNCHANGED storeVars
    /\ Enters(r, AfterClose(r))
    /\ UNCHANGED <<got, printed, canceled, faulted, claudeVars>>

(* Close fails and its error is dropped. *)
CloseFails(r) ==
    /\ MayFail \/ ~Unlocked
    /\ hook[r] \in {"canceling", "closing"}
    /\ Enters(r, AfterClose(r))
    /\ faulted' = [faulted EXCEPT ![r] = TRUE]
    /\ UNCHANGED <<storeVars, got, printed, canceled, claudeVars>>

(* Mutant: a denied request ends in silence. *)
DecideAllowOnly(r) ==
    /\ Goes(r, "settled", "done")
    /\ printed' = IF ~canceled[r] /\ got[r] = "allowed" THEN [printed EXCEPT ![r] = got[r]] ELSE printed
    /\ got' = [got EXCEPT ![r] = "none"]
    /\ UNCHANGED <<storeVars, canceled, faulted, claudeVars>>

(* run after wait: a canceled hook prints nothing, and so does one whose    *)
(* record expired or closed.  Claude Code takes a decision only while its   *)
(* own prompt is open, and an allowed call then runs.                      *)
Decide(r) ==
    LET decides == ~canceled[r] /\ got[r] \in Decided
        taken == decides /\ claude[r] = "asking"
    IN  /\ Goes(r, "settled", "done")
        /\ printed' = IF decides THEN [printed EXCEPT ![r] = got[r]] ELSE printed
        /\ claude' = IF taken THEN [claude EXCEPT ![r] = got[r]] ELSE claude
        /\ ingest' = IF taken /\ got[r] = "allowed" THEN [ingest EXCEPT ![r] = "due"] ELSE ingest
        /\ got' = [got EXCEPT ![r] = "none"]
        /\ UNCHANGED <<storeVars, canceled, faulted>>

(* A panic past Create gives the request back. *)
Panics(r) ==
    /\ r \in Mortal
    /\ hook[r] \in {"waiting", "settling", "settled"}
    /\ Enters(r, "closing")
    /\ faulted' = [faulted EXCEPT ![r] = TRUE]
    /\ UNCHANGED <<storeVars, got, printed, canceled, claudeVars>>

(* SIGKILL, or the machine goes down under the hook. *)
Killed(r) ==
    /\ r \in Mortal
    /\ hook[r] \in Live
    /\ Enters(r, "done")
    /\ faulted' = [faulted EXCEPT ![r] = TRUE]
    /\ UNCHANGED <<storeVars, got, printed, canceled, claudeVars>>

-----------------------------------------------------------------------------
(* Claude Code's own prompt, and the ingest of the tool call. *)

(* "No" answers the prompt and cancels the hook; the hook timeout and the   *)
(* other signals cancel it alone.                                          *)
Cancel(r) ==
    /\ r \in Mortal
    /\ hook[r] \in Live
    /\ ~canceled[r]
    /\ canceled' = [canceled EXCEPT ![r] = TRUE]
    /\ claude' \in {claude, IF claude[r] = "asking" THEN [claude EXCEPT ![r] = "no"] ELSE claude}
    /\ UNCHANGED <<storeVars, hook, got, printed, faulted, waitVars, ingest>>

(* "Yes" runs the call and tells the hook nothing. *)
TerminalYes(r) ==
    /\ r \in Prompted
    /\ hook[r] # "idle"
    /\ claude[r] = "asking"
    /\ claude' = [claude EXCEPT ![r] = "yes"]
    /\ ingest' = [ingest EXCEPT ![r] = "due"]
    /\ UNCHANGED <<storeVars, hookVars>>

(* CloseAnsweredInTerminal's unlocked look, once the call has run. *)
PostToolUse(r) ==
    /\ ingest[r] = "due"
    /\ ingest' = [ingest EXCEPT ![r] =
          IF Cardinality(Matching(Call[r])) = 1 THEN "matched" ELSE "done"]
    /\ UNCHANGED <<storeVars, hookVars, claude>>

(* Its judgement under the lock, or a failure, which is swallowed. *)
PostClose(r) ==
    /\ ingest[r] = "matched"
    /\ ingest' = [ingest EXCEPT ![r] = "done"]
    /\ \/ CloseAnsweredInTerminal(Call[r])
       \/ /\ MayFail \/ ~Unlocked \/ Cardinality(Matching(Call[r])) # 1
          /\ UNCHANGED storeVars
    /\ UNCHANGED <<hookVars, claude>>

-----------------------------------------------------------------------------
HookStep(r) ==
    \/ Record(r) \/ RecordFails(r)
    \/ Poll(r) \/ ReadFails(r) \/ DeadlineTimer(r)
    \/ Settle(r) \/ SettleFails(r)
    \/ Canceled(r) \/ Close(r) \/ CloseFails(r)
    \/ Decide(r)

HookFault(r) == Panics(r) \/ Killed(r)

ClaudeStep(r) == Cancel(r) \/ TerminalYes(r) \/ PostToolUse(r) \/ PostClose(r)

Next ==
    \/ \E r \in Requests : Start(r) \/ HookStep(r) \/ HookFault(r) \/ ReadsTurn(r) \/ ClaudeStep(r)
    \/ Answer /\ UNCHANGED <<hookVars, claudeVars>>
    \/ Tick /\ UNCHANGED <<hookVars, claudeVars>>

Spec == Init /\ [][Next]_vars

(* The clock runs and the scheduler runs every process: a hook takes its    *)
(* next step, and an Answer that holds the lock ends.  Nothing is assumed   *)
(* of the store: reads may fail for good or every other time, and a tick    *)
(* whose read fails before the give-up time is no step at all.             *)
FairSpec ==
    /\ Spec
    /\ WF_vars(Tick /\ UNCHANGED <<hookVars, claudeVars>>)
    /\ WF_vars((AnswerCommit \/ AnswerNotCommitted \/ AnswerDies) /\ UNCHANGED <<hookVars, claudeVars>>)
    /\ \A r \in Requests : WF_vars(HookStep(r))

-----------------------------------------------------------------------------
(* The abstract specification: how each request ended, even when its record *)
(* has been dropped, and what Claude Code was told.                        *)
Promise == INSTANCE OneDecision WITH
    outcome <- [r \in Requests |-> IF fate[r] = "absent" THEN "none" ELSE fate[r]],
    told <- printed

(* The store and the hooks keep the one-decision promise: a request ends    *)
(* once, whichever of answer, expiry, cancellation and terminal close comes *)
(* first, and a hook prints only the decision its request ended with.      *)
KeepsPromise == Promise!ODSpec

(* The log may over-report an answer, never under-report one: the last      *)
(* decodable line of a request that ended allowed or denied says so, across *)
(* answers that died between line and record, answers whose record write    *)
(* failed, and rival answers.  Only a line appended behind one that was cut *)
(* short can be missing (Answer and appendAuditLocked).                    *)
NeverUnderReports ==
    \A r \in Requests : fate[r] \in Decided => said[r] = fate[r] \/ r \in glued

(* A hook that ended without a fault leaves nothing behind that a later     *)
(* answer could still settle: its record is settled or its window is over.  *)
LeavesNothingWaiting ==
    \A r \in Requests :
        hook[r] = "done" /\ ~faulted[r] => fate[r] # "waiting" \/ now >= deadline[r]

(* Every hook ends, though its reads may fail from some tick on, its one    *)
(* timer may fire too early to settle anything, and the store may stay      *)
(* locked or full: past the give-up time every tick ends the wait.          *)
HookEnds == \A r \in Requests : hook[r] \in Live ~> hook[r] = "done"

(* An answer the store accepted while the hook lived is printed, unless the *)
(* hook was canceled or broken or a full store dropped the record first.    *)
AnswerIsHeard ==
    \A r \in Requests :
        state[r] \in Decided /\ hook[r] \in Live ~>
            \/ printed[r] # "none"
            \/ canceled[r] \/ faulted[r] \/ state[r] = "absent"
=============================================================================
