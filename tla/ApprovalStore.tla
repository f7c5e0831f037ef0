--------------------------- MODULE ApprovalStore ---------------------------
(***************************************************************************)
(* The permission request store: one file of records replaced by rename    *)
(* under a flock, and the append-only audit log beside it.                 *)
(*                                                                         *)
(* A record is its state, its deadline and the time it settled.  Each      *)
(* locked operation is one action, because nobody else reads the log and   *)
(* the file changes only at the rename; Answer is two, because it appends  *)
(* and syncs its line before the rename and may die in between.  The log   *)
(* keeps, for each request, the last line that decodes, which is the line  *)
(* docs/hooks.md tells an operator to read.  A line cut short has no       *)
(* newline, so the next one is glued to it and does not decode, unless the *)
(* log was rotated in between.                                             *)
(***************************************************************************)
EXTENDS Integers, FiniteSets

CONSTANTS
    Requests,       \* request ids; NewID never repeats one
    Call,           \* the session, tool and canonical input of each request
    MaxRecords,     \* maxRecords
    Retention,      \* terminalRetention, in ticks
    Window,         \* the answer window, in ticks
    MaxTime,        \* bound of the clock
    MayFail,        \* whether reads and writes of the file may fail
    MaxLogFaults    \* bound: how many appends to the log may fail

ASSUME StoreAssumption ==
    /\ IsFiniteSet(Requests)
    /\ MaxRecords \in Nat \ {0} /\ Retention \in Nat
    /\ Window \in Nat \ {0} /\ MaxTime \in Nat
    /\ MayFail \in BOOLEAN /\ MaxLogFaults \in Nat

VARIABLES
    now,
    state, deadline, updated,   \* the records of the file
    answering,                  \* the Answer that holds the lock
    said,                       \* the last decodable line of each request
    cut,                        \* the log ends in a line cut short
    logFaults,                  \* how many appends have failed
    fate,                       \* history: the last state committed for each
    glued                       \* history: requests that lost a line to a cut

storeVars == <<now, state, deadline, updated, answering, said, cut, logFaults, fate, glued>>

Decided == {"allowed", "denied"}
Terminal == Decided \cup {"expired", "closed"}
States == Terminal \cup {"absent", "waiting"}
Lines == Terminal \cup {"none", "requested", "uncommitted"}
Time == 0 .. MaxTime
NoAnswer == [req |-> "none"]
Pending == [req : Requests, verdict : Decided, at : Time]

StoreTypeOK ==
    /\ now \in Time
    /\ state \in [Requests -> States]
    /\ deadline \in [Requests -> 0 .. MaxTime + Window]
    /\ updated \in [Requests -> 0 .. MaxTime + Window]
    /\ answering \in Pending \cup {NoAnswer}
    /\ said \in [Requests -> Lines]
    /\ cut \in BOOLEAN
    /\ logFaults \in 0 .. MaxLogFaults
    /\ fate \in [Requests -> States]
    /\ glued \subseteq Requests

StoreInit ==
    /\ now = 0
    /\ state = [r \in Requests |-> "absent"]
    /\ deadline = [r \in Requests |-> 0]
    /\ updated = [r \in Requests |-> 0]
    /\ answering = NoAnswer
    /\ said = [r \in Requests |-> "none"]
    /\ cut = FALSE
    /\ logFaults = 0
    /\ fate = [r \in Requests |-> "absent"]
    /\ glued = {}

-----------------------------------------------------------------------------
(* The audit log. *)

(* appendAuditLocked.  A failed append may have written nothing, a part of  *)
(* the line, or all of it before the sync failed.  A refused line tells     *)
(* nothing about how the request ended.                                    *)
Appends(r, line, ok) ==
    /\ logFaults' = IF ok THEN logFaults ELSE logFaults + 1
    /\ logFaults' <= MaxLogFaults
    /\ \/ /\ \E whole \in {TRUE, ~cut} :
                /\ said' = IF whole /\ line # "refused" THEN [said EXCEPT ![r] = line] ELSE said
                /\ glued' = IF whole \/ line = "refused" THEN glued ELSE glued \cup {r}
          /\ cut' = FALSE
       \/ /\ ~ok
          /\ cut' \in {cut, TRUE}
          /\ UNCHANGED <<said, glued>>

(* auditLocked: best effort, whatever becomes of the line. *)
Audits(r, line) == \E ok \in BOOLEAN : Appends(r, line, ok)

-----------------------------------------------------------------------------
(* The record file. *)

Unlocked == answering = NoAnswer

(* Record.Effective *)
Effective(st, r, at) ==
    IF st[r] = "waiting" /\ at >= deadline[r] THEN "expired" ELSE st[r]

SettledAt(st, up, r, at) ==
    IF st[r] = "waiting" /\ at >= deadline[r] THEN deadline[r] ELSE up[r]

(* pruneRecords: materialise every expiry, drop what settled longer than    *)
(* the retention ago, then the oldest settled records until incoming more   *)
(* fit.  Records that settled at the same instant may go in either order.   *)
Prunes(st, up, at, incoming, keep) ==
    LET eff == [r \in Requests |-> Effective(st, r, at)]
        settled == [r \in Requests |-> SettledAt(st, up, r, at)]
        fresh == {r \in Requests : /\ eff[r] # "absent"
                                   /\ eff[r] \in Terminal => settled[r] >= at - Retention}
        dropped == fresh \ keep
    IN  /\ keep \subseteq fresh
        /\ Cardinality(keep) + incoming <= MaxRecords
        /\ dropped # {} => Cardinality(keep) + incoming = MaxRecords
        /\ \A d \in dropped : eff[d] \in Terminal
        /\ \A d \in dropped, k \in keep : eff[k] \in Terminal => settled[d] <= settled[k]

(* writeLocked: the pruned records and the incoming ones replace the file. *)
Replace(st, up, at, new) ==
    \E keep \in SUBSET Requests :
        /\ Prunes(st, up, at, Cardinality(new), keep)
        /\ state' = [r \in Requests |->
              IF r \in new THEN "waiting"
              ELSE IF r \in keep THEN Effective(st, r, at) ELSE "absent"]
        /\ updated' = [r \in Requests |->
              IF r \in new THEN at
              ELSE IF r \in keep THEN SettledAt(st, up, r, at) ELSE 0]
        /\ fate' = [r \in Requests |->
              IF r \in new THEN "waiting"
              ELSE IF st[r] # "absent" THEN Effective(st, r, at) ELSE fate[r]]

(* Create, with the clock its caller read before it took the lock. *)
Create(r, at) ==
    /\ Unlocked
    /\ state[r] = "absent"
    /\ Replace(state, updated, at, {r})
    /\ Audits(r, "requested")
    /\ UNCHANGED <<now, deadline, answering>>

(* Mutant: Close does not ask whether the record has settled already. *)
MovesSettled(r, closing) == state[r] # "absent" /\ (closing \/ now >= deadline[r])

(* transition: a waiting record past its deadline expires, and one that is *)
(* being closed is closed.  Any other record stays as it is.               *)
Moves(r, closing) == state[r] = "waiting" /\ (closing \/ now >= deadline[r])

Transition(r, closing) ==
    LET target == IF now >= deadline[r] THEN "expired" ELSE "closed"
        at == IF now >= deadline[r] THEN deadline[r] ELSE now
    IN  /\ Unlocked
        /\ Moves(r, closing)
        /\ Replace([state EXCEPT ![r] = target], [updated EXCEPT ![r] = at], now, {})
        /\ Audits(r, target)
        /\ UNCHANGED <<now, deadline, answering>>

(* matchWaiting *)
Matching(call) ==
    {r \in Requests : Effective(state, r, now) = "waiting" /\ Call[r] = call}

(* CloseAnsweredInTerminal, under the lock: only a single match is closed. *)
CloseAnsweredInTerminal(call) ==
    /\ Unlocked
    /\ \E r \in Requests :
          /\ Matching(call) = {r}
          /\ Replace([state EXCEPT ![r] = "closed"], [updated EXCEPT ![r] = now], now, {})
          /\ Audits(r, "closed")
    /\ UNCHANGED <<now, deadline, answering>>

(* Mutant: the line of an answer is best effort too. *)
AnswerLineBestEffort(r, verdict) ==
    /\ Unlocked
    /\ Effective(state, r, now) = "waiting"
    /\ Audits(r, verdict)
    /\ answering' = [req |-> r, verdict |-> verdict, at |-> now]
    /\ UNCHANGED <<now, state, deadline, updated, fate>>

(* Answer, up to its line: the deadline is judged under the lock, and an    *)
(* answer whose line is not on disk stops here.                            *)
AnswerLine(r, verdict) ==
    /\ Unlocked
    /\ Effective(state, r, now) = "waiting"
    /\ \/ /\ Appends(r, verdict, TRUE)
          /\ answering' = [req |-> r, verdict |-> verdict, at |-> now]
       \/ /\ Appends(r, verdict, FALSE)
          /\ UNCHANGED answering
    /\ UNCHANGED <<now, state, deadline, updated, fate>>

(* Answer, the record write. *)
AnswerCommit ==
    /\ ~Unlocked
    /\ LET r == answering.req
       IN  Replace([state EXCEPT ![r] = answering.verdict],
                   [updated EXCEPT ![r] = answering.at], answering.at, {})
    /\ answering' = NoAnswer
    /\ UNCHANGED <<now, deadline, said, cut, logFaults, glued>>

(* Answer, when the record could not be written: the uncommitted line. *)
AnswerNotCommitted ==
    /\ MayFail /\ ~Unlocked
    /\ Audits(answering.req, "uncommitted")
    /\ answering' = NoAnswer
    /\ UNCHANGED <<now, state, deadline, updated, fate>>

(* The answering process dies, and the kernel gives its lock back. *)
AnswerDies ==
    /\ ~Unlocked
    /\ answering' = NoAnswer
    /\ UNCHANGED <<now, state, deadline, updated, said, cut, logFaults, fate, glued>>

(* Answer, when the record is missing or settled: only a refused line. *)
AnswerRefused(r) ==
    /\ Unlocked
    /\ Effective(state, r, now) # "waiting"
    /\ Audits(r, "refused")
    /\ UNCHANGED <<now, state, deadline, updated, answering, fate>>

Answer ==
    \/ \E r \in Requests, verdict \in Decided : AnswerLine(r, verdict)
    \/ AnswerCommit
    \/ AnswerNotCommitted
    \/ AnswerDies
    \/ \E r \in Requests : AnswerRefused(r)

Tick ==
    /\ now < MaxTime
    /\ now' = now + 1
    /\ UNCHANGED <<state, deadline, updated, answering, said, cut, logFaults, fate, glued>>
=============================================================================
