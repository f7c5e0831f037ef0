------------------------ MODULE PermissionHookProofs ------------------------
(***************************************************************************)
(* For every set of requests, every size of the store and every window:    *)
(* the log never under-reports an answer, a hook that ended without a      *)
(* fault leaves nothing an answer could still settle, and the store and    *)
(* its hooks implement OneDecision.                                        *)
(*                                                                         *)
(* None of these is inductive alone.  A record that has been dropped keeps *)
(* its fate, so the invariant ties fate to the records that are left       *)
(* (Agree), says that a request has none before Create (Fresh), that the   *)
(* Answer that holds the lock found its record waiting and left its line   *)
(* (Held), and that a settled hook holds the fate of its request and has   *)
(* printed nothing yet (Carried).                                          *)
(***************************************************************************)
EXTENDS PermissionHook, TLAPS

Reported(r, verdict) == said[r] = verdict \/ r \in glued

Agree ==
    \A r \in Requests :
        /\ state[r] # "absent" => fate[r] = state[r]
        /\ fate[r] = "waiting" => state[r] = "waiting"

Fresh == \A r \in Requests : hook[r] \in {"idle", "creating"} => fate[r] = "absent"

Dated == \A r \in Requests : hook[r] # "idle" => deadline[r] >= Window

Held ==
    ~Unlocked => /\ state[answering.req] = "waiting"
                 /\ Reported(answering.req, answering.verdict)

Carried ==
    \A r \in Requests :
        /\ hook[r] = "settled" => got[r] = fate[r] /\ got[r] \in Terminal
        /\ hook[r] # "done" => printed[r] = "none"

Inv ==
    /\ TypeOK /\ Agree /\ Fresh /\ Dated /\ Held /\ Carried
    /\ NeverUnderReports /\ LeavesNothingWaiting

-----------------------------------------------------------------------------
(* Commits of the store. *)

(* A commit raises or settles one request r and lets others only expire. *)
Committed(r, last) ==
    /\ state' \in [Requests -> States]
    /\ updated' \in [Requests -> 0 .. MaxTime + Window]
    /\ fate' \in [Requests -> States]
    /\ Agree'
    /\ fate'[r] = last
    /\ \A x \in Requests \ {r} :
          fate'[x] # fate[x] => fate[x] = "waiting" /\ fate'[x] = "expired"

(* writeLocked with one request changed, or with one more: what the prune   *)
(* leaves agrees with the fate of every request.                           *)
LEMMA ReplaceCommits ==
    ASSUME StoreTypeOK, Agree, NEW r \in Requests, NEW st \in [Requests -> States],
           NEW up \in [Requests -> 0 .. MaxTime + Window], NEW at \in Time,
           NEW new \in SUBSET {r}, Replace(st, up, at, new),
           \A x \in Requests \ {r} : st[x] = state[x],
           new = {} => st[r] \in Terminal
    PROVE  Committed(r, IF new = {} THEN st[r] ELSE "waiting")
  <1>1. PICK keep \in SUBSET Requests :
           /\ Prunes(st, up, at, Cardinality(new), keep)
           /\ state' = [x \in Requests |->
                 IF x \in new THEN "waiting"
                 ELSE IF x \in keep THEN Effective(st, x, at) ELSE "absent"]
           /\ updated' = [x \in Requests |->
                 IF x \in new THEN at
                 ELSE IF x \in keep THEN SettledAt(st, up, x, at) ELSE 0]
           /\ fate' = [x \in Requests |->
                 IF x \in new THEN "waiting"
                 ELSE IF st[x] # "absent" THEN Effective(st, x, at) ELSE fate[x]]
    BY DEF Replace
  <1>2. \A x \in Requests :
           /\ Effective(st, x, at) \in States
           /\ Effective(st, x, at) # st[x] => st[x] = "waiting" /\ Effective(st, x, at) = "expired"
           /\ Effective(st, x, at) = "waiting" => st[x] = "waiting"
           /\ SettledAt(st, up, x, at) \in 0 .. MaxTime + Window
    BY StoreAssumption DEF Effective, SettledAt, StoreTypeOK, States, Terminal, Decided
  <1>3. \A x \in Requests :
           /\ x \in keep => Effective(st, x, at) # "absent"
           /\ Effective(st, x, at) = "waiting" => x \in keep
    <2>. SUFFICES ASSUME NEW x \in Requests
                  PROVE  /\ x \in keep => Effective(st, x, at) # "absent"
                         /\ Effective(st, x, at) = "waiting" => x \in keep
      OBVIOUS
    <2>. DEFINE eff == [y \in Requests |-> Effective(st, y, at)]
                settled == [y \in Requests |-> SettledAt(st, up, y, at)]
                kept == {y \in Requests : /\ eff[y] # "absent"
                                          /\ eff[y] \in Terminal => settled[y] >= at - Retention}
    <2>1. keep \subseteq kept /\ \A d \in kept \ keep : eff[d] \in Terminal
      BY <1>1 DEF Prunes
    <2>2. eff[x] = Effective(st, x, at)
      OBVIOUS
    <2>3. "waiting" \notin Terminal /\ "waiting" # "absent"
      BY DEF Terminal, Decided
    <2>. HIDE DEF eff, settled
    <2>. QED BY <2>1, <2>2, <2>3
  <1>4. /\ state' \in [Requests -> States]
        /\ updated' \in [Requests -> 0 .. MaxTime + Window]
        /\ fate' \in [Requests -> States]
    <2>1. "waiting" \in States /\ "absent" \in States
      BY DEF States
    <2>2. at \in 0 .. MaxTime + Window /\ 0 \in 0 .. MaxTime + Window
      BY StoreAssumption DEF Time
    <2>. QED BY <1>1, <1>2, <2>1, <2>2 DEF StoreTypeOK
  <1>5. Agree'
    <2>. SUFFICES ASSUME NEW x \in Requests
                  PROVE  /\ state'[x] # "absent" => fate'[x] = state'[x]
                         /\ fate'[x] = "waiting" => state'[x] = "waiting"
      BY DEF Agree
    <2>1. CASE x \in new
      BY <1>1, <2>1
    <2>2. CASE x \notin new /\ st[x] # "absent"
      BY <1>1, <1>2, <1>3, <2>2
    <2>3. CASE x \notin new /\ st[x] = "absent"
      <3>1. x # r \/ new = {}
        BY <2>3
      <3>2. x # r
        BY <2>3 DEF Terminal, Decided
      <3>3. state[x] = "absent" /\ fate[x] # "waiting"
        BY <2>3, <3>2 DEF Agree
      <3>. QED BY <1>1, <1>2, <1>3, <2>3, <3>3
    <2>. QED BY <2>1, <2>2, <2>3
  <1>6. fate'[r] = IF new = {} THEN st[r] ELSE "waiting"
    <2>1. CASE new = {}
      <3>1. st[r] # "absent" /\ st[r] # "waiting"
        BY <2>1 DEF Terminal, Decided
      <3>. QED BY <1>1, <1>2, <2>1, <3>1
    <2>2. CASE new # {}
      BY <1>1, <2>2
    <2>. QED BY <2>1, <2>2
  <1>7. ASSUME NEW x \in Requests \ {r}, fate'[x] # fate[x]
        PROVE  fate[x] = "waiting" /\ fate'[x] = "expired"
    BY <1>1, <1>2, <1>7 DEF Agree
  <1>. QED BY <1>4, <1>5, <1>6, <1>7 DEF Committed

(* The part of the invariant that is about the store alone. *)
StoreInv == StoreTypeOK /\ Agree /\ Held /\ NeverUnderReports

(* A settled request stays as it is, and a request of S is not raised. *)
FateKept(S) ==
    /\ \A x \in Requests : fate[x] \in Terminal => fate'[x] = fate[x]
    /\ \A x \in S : /\ fate[x] = "absent" => fate'[x] = "absent"
                    /\ fate'[x] = "waiting" => fate[x] = "waiting"

(* A line concerns one request, and a request loses a line only to a cut.   *)
LEMMA AppendTouchesOne ==
    ASSUME StoreTypeOK, NEW r \in Requests, NEW line \in Lines \cup {"refused"},
           NEW ok \in BOOLEAN, Appends(r, line, ok)
    PROVE  /\ said' \in [Requests -> Lines]
           /\ cut' \in BOOLEAN
           /\ logFaults' \in 0 .. MaxLogFaults
           /\ glued' \subseteq Requests /\ glued \subseteq glued'
           /\ \A x \in Requests \ {r} : said'[x] = said[x]
           /\ line = "refused" => said' = said
           /\ ok /\ line # "refused" => said'[r] = line \/ r \in glued'
  <1>1. logFaults' \in 0 .. MaxLogFaults
    BY StoreAssumption DEF Appends, StoreTypeOK
  <1>2. CASE /\ \E whole \in {TRUE, ~cut} :
                /\ said' = IF whole /\ line # "refused" THEN [said EXCEPT ![r] = line] ELSE said
                /\ glued' = IF whole \/ line = "refused" THEN glued ELSE glued \cup {r}
             /\ cut' = FALSE
    <2>1. PICK whole \in BOOLEAN :
                /\ said' = IF whole /\ line # "refused" THEN [said EXCEPT ![r] = line] ELSE said
                /\ glued' = IF whole \/ line = "refused" THEN glued ELSE glued \cup {r}
      BY <1>2
    <2>. QED BY <1>1, <1>2, <2>1 DEF StoreTypeOK
  <1>3. CASE /\ ~ok
             /\ cut' \in {cut, TRUE}
             /\ UNCHANGED <<said, glued>>
    BY <1>1, <1>3 DEF StoreTypeOK
  <1>. QED BY <1>2, <1>3 DEF Appends

(* A commit that records, expires or closes r keeps the store's part, and   *)
(* leaves every other settled or unknown request as it was.                *)
LEMMA CommitKeeps ==
    ASSUME StoreInv, NEW r \in Requests, NEW last \in States \ Decided, Committed(r, last),
           fate[r] \in {"absent", "waiting"},
           NEW line \in Lines, Audits(r, line), Unlocked,
           UNCHANGED <<now, deadline, answering>>
    PROVE  /\ StoreInv'
           /\ FateKept(Requests \ {r})
  <1>. USE DEF StoreInv
  <1>1. PICK ok \in BOOLEAN : Appends(r, line, ok)
    BY DEF Audits
  <1>2. /\ said' \in [Requests -> Lines]
        /\ cut' \in BOOLEAN
        /\ logFaults' \in 0 .. MaxLogFaults
        /\ glued' \subseteq Requests /\ glued \subseteq glued'
        /\ \A x \in Requests \ {r} : said'[x] = said[x]
    BY <1>1, AppendTouchesOne
  <1>3. StoreTypeOK'
    BY <1>2 DEF StoreTypeOK, Committed
  <1>4. Held'
    BY DEF Held, Unlocked
  <1>5. \A x \in Requests : fate[x] \in Terminal => fate'[x] = fate[x]
    BY DEF Committed, Terminal, Decided
  <1>6. NeverUnderReports'
    <2>. SUFFICES ASSUME NEW x \in Requests, fate'[x] \in Decided
                  PROVE  said'[x] = fate'[x] \/ x \in glued'
      BY DEF NeverUnderReports
    <2>1. x # r
      BY DEF Committed
    <2>2. fate'[x] = fate[x]
      BY <2>1 DEF Committed, Decided
    <2>. QED BY <1>2, <2>1, <2>2 DEF NeverUnderReports
  <1>7. FateKept(Requests \ {r})
    BY <1>5 DEF Committed, FateKept
  <1>. QED BY <1>3, <1>4, <1>6, <1>7 DEF Committed

(* Create, an expiry or close of transition, and the ingest's close. *)
LEMMA CreateKeeps ==
    ASSUME StoreInv, NEW r \in Requests, Fresh, hook[r] = "creating",
           NEW at \in Time, Create(r, at)
    PROVE  /\ StoreInv' /\ Committed(r, "waiting")
           /\ FateKept(Requests \ {r})
  <1>1. Committed(r, "waiting")
    <2>1. Committed(r, IF {r} = {} THEN state[r] ELSE "waiting")
      BY ReplaceCommits DEF Create, StoreInv, StoreTypeOK
    <2>. QED BY <2>1
  <1>2. fate[r] = "absent"
    BY DEF Fresh
  <1>3. "waiting" \in States \ Decided /\ "requested" \in Lines
    BY DEF States, Decided, Lines
  <1>. QED BY <1>1, <1>2, <1>3, CommitKeeps DEF Create

(* A request that is waiting is settled as expired or closed, in one commit. *)
LEMMA SettlingKeeps ==
    ASSUME StoreInv, NEW r \in Requests, NEW last \in {"expired", "closed"}, NEW at \in 0 .. MaxTime + Window,
           state[r] = "waiting", Unlocked,
           Replace([state EXCEPT ![r] = last], [updated EXCEPT ![r] = at], now, {}),
           Audits(r, last), UNCHANGED <<now, deadline, answering>>
    PROVE  /\ StoreInv' /\ Committed(r, last)
           /\ FateKept(Requests \ {r})
  <1>. DEFINE st == [state EXCEPT ![r] = last]
              up == [updated EXCEPT ![r] = at]
  <1>1. /\ st \in [Requests -> States] /\ st[r] = last /\ last \in Terminal
        /\ \A x \in Requests \ {r} : st[x] = state[x]
        /\ up \in [Requests -> 0 .. MaxTime + Window]
        /\ now \in Time
    BY DEF StoreInv, StoreTypeOK, States, Terminal
  <1>2. Committed(r, last)
    <2>. HIDE DEF st, up
    <2>1. Replace(st, up, now, {})
      BY DEF st, up
    <2>2. Committed(r, IF {} = {} THEN st[r] ELSE "waiting")
      BY <1>1, <2>1, ReplaceCommits DEF StoreInv
    <2>. QED BY <1>1, <2>2
  <1>3. fate[r] = "waiting"
    BY DEF StoreInv, Agree
  <1>4. last \in States \ Decided /\ last \in Lines
    BY DEF States, Decided, Lines, Terminal
  <1>. QED BY <1>2, <1>3, <1>4, CommitKeeps

(* A sweep and a closing settle one request at a time, and only a closing   *)
(* closes one.                                                             *)
LEMMA TransitionKeeps ==
    ASSUME StoreInv, NEW r \in Requests, NEW closing \in BOOLEAN, Transition(r, closing)
    PROVE  /\ StoreInv'
           /\ \E last \in {"expired", "closed"} :
                /\ Committed(r, last)
                /\ ~closing => last = "expired"
           /\ FateKept(Requests \ {r})
           /\ UNCHANGED <<now, deadline>>
  <1>. DEFINE last == IF now >= deadline[r] THEN "expired" ELSE "closed"
              at == IF now >= deadline[r] THEN deadline[r] ELSE now
  <1>1. /\ Unlocked /\ Moves(r, closing)
        /\ Replace([state EXCEPT ![r] = last], [updated EXCEPT ![r] = at], now, {})
        /\ Audits(r, last)
        /\ UNCHANGED <<now, deadline, answering>>
    BY DEF Transition
  <1>2. state[r] = "waiting" /\ (~closing => last = "expired")
    BY <1>1 DEF Moves
  <1>3. at \in 0 .. MaxTime + Window
    BY StoreAssumption DEF StoreInv, StoreTypeOK, Time
  <1>4. last \in {"expired", "closed"}
    OBVIOUS
  <1>. HIDE DEF last, at
  <1>. QED BY <1>1, <1>2, <1>3, <1>4, SettlingKeeps

(* CloseAnsweredInTerminal settles the single record that matches. *)
LEMMA TerminalCloseKeeps ==
    ASSUME StoreInv, NEW call, CloseAnsweredInTerminal(call)
    PROVE  /\ StoreInv'
           /\ \E r \in Requests : Committed(r, "closed") /\ fate[r] = "waiting"
           /\ FateKept(Requests)
           /\ UNCHANGED <<now, deadline>>
  <1>1. PICK r \in Requests :
           /\ Matching(call) = {r}
           /\ Replace([state EXCEPT ![r] = "closed"], [updated EXCEPT ![r] = now], now, {})
           /\ Audits(r, "closed")
    BY DEF CloseAnsweredInTerminal
  <1>2. state[r] = "waiting"
    BY <1>1 DEF Matching, Effective
  <1>3. now \in 0 .. MaxTime + Window
    BY StoreAssumption DEF StoreInv, StoreTypeOK, Time
  <1>4. StoreInv' /\ Committed(r, "closed") /\ FateKept(Requests \ {r})
    BY <1>1, <1>2, <1>3, SettlingKeeps DEF CloseAnsweredInTerminal
  <1>5. fate[r] = "waiting"
    BY <1>2 DEF StoreInv, Agree
  <1>6. FateKept(Requests)
    BY <1>4, <1>5 DEF FateKept
  <1>. QED BY <1>1, <1>4, <1>5, <1>6 DEF CloseAnsweredInTerminal

(* An Answer keeps the store's part at each of its steps: the line comes    *)
(* first, the lock is held until the record is written, and whoever fails   *)
(* to write it leaves a record that is still waiting.                      *)
LEMMA AnswerKeeps ==
    ASSUME StoreInv, Answer
    PROVE  /\ StoreInv'
           /\ \/ UNCHANGED fate
              \/ \E r \in Requests, v \in Decided : Committed(r, v) /\ fate[r] = "waiting"
           /\ FateKept(Requests)
           /\ UNCHANGED <<now, deadline>>
  <1>. USE DEF StoreInv
  <1>1. ASSUME NEW r \in Requests, NEW v \in Decided, AnswerLine(r, v)
        PROVE  StoreInv' /\ UNCHANGED fate
    <2>1. PICK ok \in BOOLEAN : Appends(r, v, ok) /\ (~ok => answering' = answering)
                                 /\ (ok => answering' = [req |-> r, verdict |-> v, at |-> now])
      BY <1>1 DEF AnswerLine
    <2>2. v \in Lines \cup {"refused"} /\ v # "refused"
      BY DEF Lines, Terminal, Decided
    <2>3. state[r] = "waiting" /\ fate[r] = "waiting" /\ Unlocked
      BY <1>1 DEF AnswerLine, Effective, Agree
    <2>4. /\ said' \in [Requests -> Lines]
          /\ cut' \in BOOLEAN
          /\ logFaults' \in 0 .. MaxLogFaults
          /\ glued' \subseteq Requests /\ glued \subseteq glued'
          /\ \A x \in Requests \ {r} : said'[x] = said[x]
          /\ ok => said'[r] = v \/ r \in glued'
      BY <2>1, <2>2, AppendTouchesOne
    <2>5. answering' \in Pending \cup {NoAnswer}
      BY <2>1 DEF StoreTypeOK, Pending
    <2>6. StoreTypeOK'
      BY <1>1, <2>4, <2>5 DEF AnswerLine, StoreTypeOK
    <2>7. Agree' /\ UNCHANGED fate
      BY <1>1 DEF AnswerLine, Agree
    <2>8. Held'
      BY <1>1, <2>1, <2>3, <2>4 DEF AnswerLine, Held, Reported, Unlocked
    <2>9. NeverUnderReports'
      BY <2>3, <2>4, <2>7 DEF NeverUnderReports, Decided
    <2>. QED BY <2>6, <2>7, <2>8, <2>9
  <1>2. ASSUME AnswerCommit
        PROVE  /\ StoreInv' /\ FateKept(Requests)
               /\ \E r \in Requests, v \in Decided : Committed(r, v) /\ fate[r] = "waiting"
    <2>. DEFINE r == answering.req
                st == [state EXCEPT ![r] = answering.verdict]
                up == [updated EXCEPT ![r] = answering.at]
    <2>1. answering \in Pending
      BY <1>2 DEF AnswerCommit, StoreTypeOK, Unlocked
    <2>2. /\ r \in Requests /\ answering.verdict \in Decided /\ answering.at \in Time
          /\ st \in [Requests -> States] /\ st[r] = answering.verdict /\ st[r] \in Terminal
          /\ \A x \in Requests \ {r} : st[x] = state[x]
          /\ up \in [Requests -> 0 .. MaxTime + Window]
      BY <2>1, StoreAssumption DEF Pending, StoreTypeOK, States, Terminal, Time
    <2>3. state[r] = "waiting" /\ fate[r] = "waiting" /\ Reported(r, answering.verdict)
      BY <1>2, <2>2 DEF AnswerCommit, Held, Agree
    <2>4. Replace(st, up, answering.at, {})
      BY <1>2 DEF AnswerCommit
    <2>5. Committed(r, answering.verdict)
      <3>. HIDE DEF st, up, r
      <3>1. Committed(r, IF {} = {} THEN st[r] ELSE "waiting")
        BY <2>2, <2>4, ReplaceCommits
      <3>. QED BY <2>2, <3>1
    <2>6. answering' = NoAnswer /\ UNCHANGED <<now, deadline, said, cut, logFaults, glued>>
      BY <1>2 DEF AnswerCommit
    <2>. HIDE DEF st, up, r
    <2>7. StoreTypeOK' /\ Agree' /\ Held'
      BY <2>5, <2>6 DEF StoreTypeOK, Committed, Held, Unlocked
    <2>8. FateKept(Requests)
      BY <2>2, <2>3, <2>5 DEF FateKept, Committed, Terminal, Decided
    <2>9. NeverUnderReports'
      <3>. SUFFICES ASSUME NEW x \in Requests, fate'[x] \in Decided
                    PROVE  said'[x] = fate'[x] \/ x \in glued'
        BY DEF NeverUnderReports
      <3>1. CASE x = r
        BY <2>3, <2>5, <2>6, <3>1 DEF Committed, Reported
      <3>2. CASE x # r
        <4>1. fate'[x] = fate[x]
          BY <2>5, <3>2 DEF Committed, Decided
        <4>. QED BY <2>6, <4>1 DEF NeverUnderReports
      <3>. QED BY <3>1, <3>2
    <2>. QED BY <2>2, <2>3, <2>5, <2>7, <2>8, <2>9
  <1>3. ASSUME AnswerNotCommitted PROVE StoreInv' /\ UNCHANGED fate
    <2>1. answering \in Pending
      BY <1>3 DEF AnswerNotCommitted, StoreTypeOK, Unlocked
    <2>2. PICK ok \in BOOLEAN : Appends(answering.req, "uncommitted", ok)
      BY <1>3 DEF AnswerNotCommitted, Audits
    <2>3. answering.req \in Requests /\ "uncommitted" \in Lines
      BY <2>1 DEF Pending, Lines
    <2>4. fate[answering.req] = "waiting"
      BY <1>3, <2>3 DEF AnswerNotCommitted, Held, Agree
    <2>5. /\ said' \in [Requests -> Lines]
          /\ cut' \in BOOLEAN
          /\ logFaults' \in 0 .. MaxLogFaults
          /\ glued' \subseteq Requests /\ glued \subseteq glued'
          /\ \A x \in Requests \ {answering.req} : said'[x] = said[x]
      BY <2>2, <2>3, AppendTouchesOne
    <2>6. StoreTypeOK' /\ Agree' /\ Held'
      BY <1>3, <2>5 DEF AnswerNotCommitted, StoreTypeOK, Agree, Held, Unlocked
    <2>7. NeverUnderReports'
      BY <1>3, <2>4, <2>5 DEF AnswerNotCommitted, NeverUnderReports, Decided
    <2>. QED BY <1>3, <2>6, <2>7 DEF AnswerNotCommitted
  <1>4. ASSUME AnswerDies PROVE StoreInv' /\ UNCHANGED fate
    BY <1>4 DEF AnswerDies, StoreTypeOK, Agree, Held, Unlocked, NeverUnderReports
  <1>5. ASSUME NEW r \in Requests, AnswerRefused(r) PROVE StoreInv' /\ UNCHANGED fate
    <2>1. PICK ok \in BOOLEAN : Appends(r, "refused", ok)
      BY <1>5 DEF AnswerRefused, Audits
    <2>2. /\ said' \in [Requests -> Lines]
          /\ cut' \in BOOLEAN
          /\ logFaults' \in 0 .. MaxLogFaults
          /\ glued' \subseteq Requests /\ glued \subseteq glued'
          /\ said' = said
      BY <2>1, AppendTouchesOne
    <2>3. StoreTypeOK' /\ Agree' /\ Held' /\ NeverUnderReports'
      BY <1>5, <2>2 DEF AnswerRefused, StoreTypeOK, Agree, Held, Reported, Unlocked, NeverUnderReports
    <2>. QED BY <1>5, <2>3 DEF AnswerRefused
  <1>6. UNCHANGED <<now, deadline>>
    BY DEF Answer, AnswerLine, AnswerCommit, AnswerNotCommitted, AnswerDies, AnswerRefused
  <1>7. UNCHANGED fate => FateKept(Requests)
    BY DEF FateKept
  <1>. QED BY <1>1, <1>2, <1>3, <1>4, <1>5, <1>6, <1>7 DEF Answer

-----------------------------------------------------------------------------
(* Steps of the hooks. *)

HookTypeOK ==
    /\ hook \in [Requests -> Live \cup {"idle", "done"}]
    /\ got \in [Requests -> Terminal \cup {"none"}]
    /\ printed \in [Requests -> Decided \cup {"none"}]
    /\ canceled \in [Requests -> BOOLEAN]
    /\ faulted \in [Requests -> BOOLEAN]
    /\ fired \subseteq Requests /\ blind \subseteq Requests
    /\ claude \in [Requests -> {"asking", "yes", "no"} \cup Decided]
    /\ ingest \in [Requests -> {"none", "due", "matched", "done"}]

(* The rest of the invariant, which the hooks share with the store. *)
HookInv == Fresh /\ Dated /\ Carried /\ LeavesNothingWaiting

(* The invariant is the store's and the hooks' together. *)
LEMMA InvParts == Inv <=> StoreInv /\ HookTypeOK /\ HookInv
  BY DEF Inv, StoreInv, HookTypeOK, HookInv, TypeOK

(* A step of nobody's hook: the clock, an answer, the ingest. *)
LEMMA HooksStay ==
    ASSUME Inv, FateKept(Requests), UNCHANGED <<deadline, hook, got, printed, faulted>>,
           now' \in Int, now' >= now
    PROVE  HookInv'
  <1>1. Fresh' /\ Dated' /\ Carried'
    BY DEF Inv, Fresh, Dated, Carried, FateKept
  <1>2. LeavesNothingWaiting'
    <2>. SUFFICES ASSUME NEW r \in Requests, hook'[r] = "done", ~faulted'[r], fate'[r] = "waiting"
                  PROVE  now' >= deadline'[r]
      BY DEF LeavesNothingWaiting
    <2>1. hook[r] = "done" /\ ~faulted[r] /\ fate[r] = "waiting"
      BY DEF FateKept
    <2>2. now >= deadline[r] /\ now \in Int /\ deadline[r] \in Int
      BY <2>1, StoreAssumption DEF Inv, LeavesNothingWaiting, TypeOK, StoreTypeOK, Time
    <2>. QED BY <2>2
  <1>. QED BY <1>1, <1>2 DEF HookInv

(* The hook of r moves on past its start. *)
LEMMA HookMoves ==
    ASSUME Inv, NEW r \in Requests, NEW to \in (Live \cup {"done"}) \ {"creating"},
           hook[r] \notin {"idle", "done"}, hook' = [hook EXCEPT ![r] = to],
           FateKept(Requests \ {r}), UNCHANGED <<now, deadline>>,
           \A x \in Requests \ {r} :
              got'[x] = got[x] /\ printed'[x] = printed[x] /\ faulted'[x] = faulted[x],
           to = "settled" => got'[r] = fate'[r] /\ got'[r] \in Terminal,
           to # "done" => printed'[r] = printed[r],
           to = "done" => faulted'[r] \/ fate'[r] # "waiting"
    PROVE  HookInv'
  <1>1. hook \in [Requests -> Live \cup {"idle", "done"}]
    BY DEF Inv, TypeOK
  <1>2. Fresh'
    BY <1>1 DEF Inv, Fresh, FateKept, Live
  <1>3. Dated'
    BY <1>1 DEF Inv, Dated
  <1>4. Carried'
    BY <1>1 DEF Inv, Carried, FateKept
  <1>5. LeavesNothingWaiting'
    BY <1>1 DEF Inv, LeavesNothingWaiting, FateKept
  <1>. QED BY <1>2, <1>3, <1>4, <1>5 DEF HookInv

(* The same for a move that leaves the store as it is. *)
LEMMA QuietMove ==
    ASSUME Inv, NEW r \in Requests, NEW to \in (Live \cup {"done"}) \ {"creating"},
           hook[r] \notin {"idle", "done"}, hook' = [hook EXCEPT ![r] = to],
           UNCHANGED <<storeVars, printed>>,
           \A x \in Requests \ {r} : got'[x] = got[x] /\ faulted'[x] = faulted[x],
           to = "settled" => got'[r] = fate[r] /\ got'[r] \in Terminal,
           to = "done" => faulted'[r] \/ fate[r] # "waiting",
           HookTypeOK'
    PROVE  Inv'
  <1>1. StoreInv
    BY InvParts
  <1>2. StoreInv'
    BY <1>1 DEF storeVars, StoreInv, StoreTypeOK, Agree, Held, Reported, Unlocked, NeverUnderReports
  <1>3. UNCHANGED <<fate, now, deadline>> /\ FateKept(Requests \ {r})
    BY DEF storeVars, FateKept
  <1>4. HookInv'
    BY <1>3, HookMoves
  <1>5. (StoreInv /\ HookTypeOK /\ HookInv)'
    BY <1>2, <1>4
  <1>. QED BY <1>5 DEF Inv, StoreInv, HookTypeOK, HookInv, TypeOK

(* Every step of the hooks but Start, and what their faults do. *)
LEMMA HookStepKeeps ==
    ASSUME Inv, NEW r \in Requests, HookStep(r) \/ HookFault(r)
    PROVE  Inv'
  <1>. USE DEF Goes, Enters, waitVars
  <1>a. StoreInv /\ HookTypeOK /\ HookInv
    BY InvParts
  <1>b. \A to \in {"waiting", "settling", "canceling", "closing", "settled", "done"} :
           to \in (Live \cup {"done"}) \ {"creating"}
    BY DEF Live
  <1>c. r \in Requests /\ hook \in [Requests -> Live \cup {"idle", "done"}]
        /\ faulted \in [Requests -> BOOLEAN]
    BY <1>a DEF HookTypeOK
  <1>d. StoreInv' /\ HookTypeOK' /\ HookInv' => Inv'
    BY DEF Inv, StoreInv, HookTypeOK, HookInv, TypeOK
  <1>1. CASE Record(r)
    <2>1. deadline[r] - Window \in Time
      BY <1>1, <1>a, StoreAssumption DEF Record, HookInv, Dated, StoreInv, StoreTypeOK, Time
    <2>2. StoreInv' /\ Committed(r, "waiting") /\ FateKept(Requests \ {r})
      BY <1>1, <1>a, <2>1, CreateKeeps DEF Record, HookInv
    <2>3. UNCHANGED <<now, deadline>>
      BY <1>1 DEF Record, Create
    <2>4. HookInv'
      BY <1>1, <1>b, <1>c, <2>2, <2>3, HookMoves DEF Record
    <2>5. HookTypeOK'
      BY <1>1, <1>a DEF Record, HookTypeOK, Live, claudeVars
    <2>. QED BY <1>d, <2>2, <2>4, <2>5
  <1>2. CASE RecordFails(r)
    <2>1. HookTypeOK'
      BY <1>2, <1>a DEF RecordFails, HookTypeOK, claudeVars
    <2>2. fate[r] # "waiting"
      BY <1>2, <1>a DEF RecordFails, HookInv, Fresh
    <2>. QED BY <1>2, <1>b, <2>1, <2>2, QuietMove DEF RecordFails
  <1>3. CASE Poll(r)
    <2>1. HookTypeOK'
      BY <1>3, <1>a DEF Poll, HookTypeOK, Live, claudeVars
    <2>2. PICK to \in {"closing", "settling"} : hook' = [hook EXCEPT ![r] = to]
      BY <1>3 DEF Poll
    <2>. QED BY <1>3, <1>b, <2>1, <2>2, QuietMove DEF Poll
  <1>4. CASE DeadlineTimer(r)
    <2>1. HookTypeOK'
      BY <1>4, <1>a DEF DeadlineTimer, HookTypeOK, Live, claudeVars
    <2>. QED BY <1>4, <1>b, <2>1, QuietMove DEF DeadlineTimer
  <1>5. CASE Settle(r)
    <2>1. CASE /\ Transition(r, FALSE)
               /\ hook' = [hook EXCEPT ![r] = "settled"]
               /\ got' = [got EXCEPT ![r] = "expired"]
      <3>1. /\ StoreInv' /\ Committed(r, "expired") /\ FateKept(Requests \ {r})
            /\ UNCHANGED <<now, deadline>>
        BY <1>a, <2>1, TransitionKeeps
      <3>2. got'[r] = fate'[r] /\ got'[r] \in Terminal
        BY <1>a, <2>1, <3>1 DEF Committed, HookTypeOK, Terminal
      <3>3. HookInv'
        BY <1>5, <1>a, <1>b, <2>1, <3>1, <3>2, HookMoves DEF Settle, HookTypeOK
      <3>4. HookTypeOK'
        BY <1>5, <1>a, <2>1 DEF Settle, HookTypeOK, Live, Terminal, claudeVars
      <3>. QED BY <1>d, <3>1, <3>3, <3>4
    <2>2. CASE ~Moves(r, FALSE) /\ UNCHANGED storeVars
      <3>1. CASE state[r] = "absent" /\ hook' = [hook EXCEPT ![r] = "closing"] /\ UNCHANGED got
        <4>1. HookTypeOK'
          BY <1>5, <1>a, <3>1 DEF Settle, HookTypeOK, Live, claudeVars
        <4>. QED BY <1>5, <1>b, <2>2, <3>1, <4>1, QuietMove DEF Settle
      <3>2. CASE state[r] = "waiting" /\ hook' = [hook EXCEPT ![r] = "waiting"] /\ UNCHANGED got
        <4>1. HookTypeOK'
          BY <1>5, <1>a, <3>2 DEF Settle, HookTypeOK, Live, claudeVars
        <4>. QED BY <1>5, <1>b, <2>2, <3>2, <4>1, QuietMove DEF Settle
      <3>3. CASE /\ state[r] \in Terminal /\ hook' = [hook EXCEPT ![r] = "settled"]
                 /\ got' = [got EXCEPT ![r] = state[r]]
        <4>1. HookTypeOK'
          BY <1>5, <1>a, <3>3 DEF Settle, HookTypeOK, Live, claudeVars
        <4>2. got'[r] = fate[r] /\ got'[r] \in Terminal
          BY <1>a, <3>3 DEF HookTypeOK, StoreInv, Agree, Terminal, Decided
        <4>3. \A x \in Requests \ {r} : got'[x] = got[x]
          BY <1>a, <3>3 DEF HookTypeOK
        <4>. QED BY <1>5, <1>b, <2>2, <3>3, <4>1, <4>2, <4>3, QuietMove DEF Settle
      <3>. QED BY <1>5, <2>1, <2>2, <3>1, <3>2, <3>3 DEF Settle, Transition
    <2>. QED BY <1>5, <2>1, <2>2 DEF Settle
  <1>6. CASE SettleFails(r)
    <2>1. HookTypeOK'
      BY <1>6, <1>a DEF SettleFails, HookTypeOK, Live, claudeVars
    <2>2. PICK to \in {"closing", "waiting"} : hook' = [hook EXCEPT ![r] = to]
      BY <1>6 DEF SettleFails
    <2>3. \A x \in Requests \ {r} : faulted'[x] = faulted[x]
      BY <1>6, <1>c DEF SettleFails
    <2>. QED BY <1>6, <1>b, <2>1, <2>2, <2>3, QuietMove DEF SettleFails
  <1>7. CASE Canceled(r)
    <2>1. HookTypeOK'
      BY <1>7, <1>a DEF Canceled, HookTypeOK, Live, claudeVars
    <2>. QED BY <1>7, <1>b, <2>1, QuietMove DEF Canceled
  <1>8. CASE Close(r)
    <2>1. HookTypeOK'
      BY <1>8, <1>a DEF Close, AfterClose, HookTypeOK, Live, claudeVars
    <2>2. PICK to \in {"closing", "done"} : hook' = [hook EXCEPT ![r] = to]
      BY <1>8 DEF Close, AfterClose
    <2>3. CASE Transition(r, TRUE)
      <3>1. /\ StoreInv' /\ FateKept(Requests \ {r}) /\ UNCHANGED <<now, deadline>>
            /\ \E last \in {"expired", "closed"} : Committed(r, last)
        BY <1>a, <2>3, TransitionKeeps
      <3>2. fate'[r] # "waiting"
        BY <3>1 DEF Committed
      <3>3. HookInv'
        BY <1>8, <1>b, <2>2, <3>1, <3>2, HookMoves DEF Close
      <3>. QED BY <1>d, <2>1, <3>1, <3>3
    <2>4. CASE ~Moves(r, TRUE) /\ UNCHANGED storeVars
      <3>1. fate[r] # "waiting"
        BY <1>a, <2>4 DEF Moves, StoreInv, Agree
      <3>. QED BY <1>8, <1>b, <2>1, <2>2, <2>4, <3>1, QuietMove DEF Close
    <2>. QED BY <1>8, <2>3, <2>4 DEF Close
  <1>9. CASE CloseFails(r)
    <2>1. HookTypeOK'
      BY <1>9, <1>a DEF CloseFails, AfterClose, HookTypeOK, Live, claudeVars
    <2>2. PICK to \in {"closing", "done"} : hook' = [hook EXCEPT ![r] = to]
      BY <1>9 DEF CloseFails, AfterClose
    <2>3. faulted'[r] /\ \A x \in Requests \ {r} : faulted'[x] = faulted[x]
      BY <1>9, <1>c DEF CloseFails
    <2>. QED BY <1>9, <1>b, <2>1, <2>2, <2>3, QuietMove DEF CloseFails
  <1>10. CASE Decide(r)
    <2>1. hook[r] = "settled" /\ got[r] = fate[r] /\ got[r] \in Terminal
      BY <1>10, <1>a DEF Decide, HookInv, Carried
    <2>2. HookTypeOK'
      BY <1>10, <1>a DEF Decide, HookTypeOK, Decided
    <2>3. StoreInv'
      BY <1>10, <1>a DEF Decide, storeVars, StoreInv, StoreTypeOK, Agree, Held, Reported, Unlocked,
                         NeverUnderReports
    <2>4. /\ UNCHANGED <<fate, now, deadline>> /\ FateKept(Requests \ {r})
          /\ fate'[r] # "waiting"
      BY <1>10, <2>1 DEF Decide, storeVars, FateKept, Terminal, Decided
    <2>5. \A x \in Requests \ {r} :
             got'[x] = got[x] /\ printed'[x] = printed[x] /\ faulted'[x] = faulted[x]
      BY <1>10, <1>a DEF Decide, HookTypeOK
    <2>6. HookInv'
      BY <1>10, <1>b, <2>1, <2>4, <2>5, HookMoves DEF Decide
    <2>. QED BY <1>d, <2>2, <2>3, <2>6
  <1>11. CASE ReadFails(r)
    <2>1. HookTypeOK'
      BY <1>11, <1>a DEF ReadFails, HookTypeOK, Live, claudeVars
    <2>2. \A x \in Requests \ {r} : faulted'[x] = faulted[x]
      BY <1>11, <1>c DEF ReadFails
    <2>. QED BY <1>11, <1>b, <2>1, <2>2, QuietMove DEF ReadFails
  <1>12. CASE Panics(r)
    <2>1. HookTypeOK'
      BY <1>12, <1>a DEF Panics, HookTypeOK, Live, claudeVars
    <2>2. \A x \in Requests \ {r} : faulted'[x] = faulted[x]
      BY <1>12, <1>c DEF Panics
    <2>. QED BY <1>12, <1>b, <2>1, <2>2, QuietMove DEF Panics
  <1>13. CASE Killed(r)
    <2>1. HookTypeOK'
      BY <1>13, <1>a DEF Killed, HookTypeOK, claudeVars
    <2>2. faulted'[r] /\ \A x \in Requests \ {r} : faulted'[x] = faulted[x]
      BY <1>13, <1>c DEF Killed
    <2>3. hook[r] \notin {"idle", "done"}
      BY <1>13 DEF Killed, Live
    <2>. QED BY <1>13, <1>b, <2>1, <2>2, <2>3, QuietMove DEF Killed
  <1>. QED BY <1>1, <1>2, <1>3, <1>4, <1>5, <1>6, <1>7, <1>8, <1>9, <1>10, <1>11, <1>12, <1>13
           DEF HookStep, HookFault

(* The operator at Claude Code's own prompt, and the ingest of the call. *)
LEMMA ClaudeStepKeeps ==
    ASSUME Inv, NEW r \in Requests, ClaudeStep(r)
    PROVE  Inv'
  <1>a. StoreInv /\ HookTypeOK /\ HookInv
    BY InvParts
  <1>b. StoreInv' /\ HookTypeOK' /\ HookInv' => Inv'
    BY DEF Inv, StoreInv, HookTypeOK, HookInv, TypeOK
  <1>c. now \in Int /\ now >= now
    BY <1>a DEF StoreInv, StoreTypeOK, Time
  <1>d. ASSUME UNCHANGED storeVars
        PROVE  StoreInv' /\ FateKept(Requests) /\ UNCHANGED <<now, deadline>>
    BY <1>a, <1>d DEF storeVars, StoreInv, StoreTypeOK, Agree, Held, Reported, Unlocked,
                      NeverUnderReports, FateKept
  <1>1. CASE Cancel(r)
    <2>1. HookTypeOK'
      BY <1>1, <1>a DEF Cancel, HookTypeOK, waitVars
    <2>2. HookInv'
      BY <1>1, <1>c, <1>d, HooksStay DEF Cancel
    <2>. QED BY <1>1, <1>b, <1>d, <2>1, <2>2 DEF Cancel
  <1>2. CASE TerminalYes(r)
    <2>1. HookTypeOK'
      BY <1>2, <1>a DEF TerminalYes, HookTypeOK, hookVars, waitVars
    <2>2. HookInv'
      BY <1>2, <1>c, <1>d, HooksStay DEF TerminalYes, hookVars
    <2>. QED BY <1>2, <1>b, <1>d, <2>1, <2>2 DEF TerminalYes
  <1>3. CASE PostToolUse(r)
    <2>1. HookTypeOK'
      BY <1>3, <1>a DEF PostToolUse, HookTypeOK, hookVars, waitVars
    <2>2. HookInv'
      BY <1>3, <1>c, <1>d, HooksStay DEF PostToolUse, hookVars
    <2>. QED BY <1>3, <1>b, <1>d, <2>1, <2>2 DEF PostToolUse
  <1>4. CASE PostClose(r)
    <2>1. HookTypeOK'
      BY <1>4, <1>a DEF PostClose, HookTypeOK, hookVars, waitVars
    <2>2. StoreInv' /\ FateKept(Requests) /\ UNCHANGED <<now, deadline>>
      BY <1>4, <1>a, <1>d, TerminalCloseKeeps DEF PostClose
    <2>3. HookInv'
      BY <1>4, <1>c, <2>2, HooksStay DEF PostClose, hookVars
    <2>. QED BY <1>b, <2>1, <2>2, <2>3
  <1>. QED BY <1>1, <1>2, <1>3, <1>4 DEF ClaudeStep

(* The reads of a waiting hook begin to fail, or succeed again. *)
LEMMA TurnKeeps ==
    ASSUME Inv, NEW r \in Requests, ReadsTurn(r)
    PROVE  Inv'
  <1>a. StoreInv /\ HookTypeOK /\ HookInv
    BY InvParts
  <1>b. StoreInv' /\ HookTypeOK' /\ HookInv' => Inv'
    BY DEF Inv, StoreInv, HookTypeOK, HookInv, TypeOK
  <1>c. now \in Int /\ now >= now
    BY <1>a DEF StoreInv, StoreTypeOK, Time
  <1>1. StoreInv' /\ FateKept(Requests) /\ UNCHANGED <<now, deadline>>
    BY <1>a DEF ReadsTurn, storeVars, StoreInv, StoreTypeOK, Agree, Held, Reported, Unlocked,
                NeverUnderReports, FateKept
  <1>2. HookTypeOK'
    BY <1>a DEF ReadsTurn, HookTypeOK, claudeVars
  <1>3. HookInv'
    BY <1>c, <1>1, HooksStay DEF ReadsTurn
  <1>. QED BY <1>b, <1>1, <1>2, <1>3

(* A hook starts: its window begins now, and it has no record yet. *)
LEMMA StartKeeps ==
    ASSUME Inv, NEW r \in Requests, Start(r)
    PROVE  Inv'
  <1>1. now + Window \in 0 .. MaxTime + Window /\ now + Window >= Window
    BY StoreAssumption DEF Inv, TypeOK, StoreTypeOK, Time
  <1>2. TypeOK'
    BY <1>1 DEF Inv, TypeOK, StoreTypeOK, Start, Goes, Enters, waitVars, Live, claudeVars
  <1>3. Agree' /\ Held' /\ NeverUnderReports'
    BY DEF Inv, Start, Agree, Held, Reported, Unlocked, NeverUnderReports
  <1>4. Fresh' /\ Dated' /\ Carried'
    BY <1>1 DEF Inv, TypeOK, StoreTypeOK, Start, Goes, Enters, Fresh, Dated, Carried
  <1>5. LeavesNothingWaiting'
    BY DEF Inv, TypeOK, StoreTypeOK, Start, Goes, Enters, LeavesNothingWaiting
  <1>. QED BY <1>2, <1>3, <1>4, <1>5 DEF Inv

(* The inductive invariant. *)
LEMMA InvIsInvariant == Spec => []Inv
  <1>1. Init => Inv
    <2>. SUFFICES ASSUME Init PROVE Inv
      OBVIOUS
    <2>1. TypeOK
      <3>1. StoreTypeOK
        <4>1. /\ 0 \in Time /\ 0 \in 0 .. MaxTime + Window /\ 0 \in 0 .. MaxLogFaults
              /\ "absent" \in States /\ "none" \in Lines
          BY StoreAssumption DEF Time, States, Lines
        <4>. QED BY <4>1 DEF Init, StoreInit, StoreTypeOK
      <3>2. HookTypeOK
        BY DEF Init, HookTypeOK
      <3>. QED BY <3>1, <3>2 DEF TypeOK, HookTypeOK
    <2>2. Agree /\ Fresh /\ Dated /\ Held /\ Carried /\ NeverUnderReports /\ LeavesNothingWaiting
      BY DEF Init, StoreInit, Agree, Fresh, Dated, Held, Unlocked, Carried, NeverUnderReports,
             LeavesNothingWaiting, Decided
    <2>. QED BY <2>1, <2>2 DEF Inv
  <1>2. Inv /\ [Next]_vars => Inv'
    <2>. SUFFICES ASSUME Inv, [Next]_vars PROVE Inv'
      OBVIOUS
    <2>1. ASSUME NEW r \in Requests, Start(r) \/ HookStep(r) \/ HookFault(r) \/ ReadsTurn(r) \/ ClaudeStep(r)
          PROVE  Inv'
      BY <2>1, StartKeeps, HookStepKeeps, TurnKeeps, ClaudeStepKeeps
    <2>a. StoreInv /\ HookTypeOK /\ now \in Int /\ now >= now
      BY InvParts DEF StoreInv, StoreTypeOK, Time
    <2>b. StoreInv' /\ HookTypeOK' /\ HookInv' => Inv'
      BY DEF Inv, StoreInv, HookTypeOK, HookInv, TypeOK
    <2>2. CASE Answer /\ UNCHANGED <<hookVars, claudeVars>>
      <3>1. StoreInv' /\ FateKept(Requests) /\ UNCHANGED <<now, deadline>>
        BY <2>a, <2>2, AnswerKeeps
      <3>2. HookInv'
        BY <2>a, <2>2, <3>1, HooksStay DEF hookVars
      <3>3. HookTypeOK'
        BY <2>a, <2>2 DEF HookTypeOK, hookVars, waitVars, claudeVars
      <3>. QED BY <2>b, <3>1, <3>2, <3>3
    <2>3. CASE Tick /\ UNCHANGED <<hookVars, claudeVars>>
      <3>1. now' \in Int /\ now' >= now /\ now' \in Time
        BY <2>a, <2>3, StoreAssumption DEF Tick, StoreInv, StoreTypeOK, Time
      <3>2. StoreInv' /\ FateKept(Requests) /\ UNCHANGED deadline
        BY <2>a, <2>3, <3>1 DEF Tick, StoreInv, StoreTypeOK, Agree, Held, Reported, Unlocked,
                                NeverUnderReports, FateKept
      <3>3. HookInv'
        BY <2>3, <3>1, <3>2, HooksStay DEF hookVars
      <3>4. HookTypeOK'
        BY <2>a, <2>3 DEF HookTypeOK, hookVars, waitVars, claudeVars
      <3>. QED BY <2>b, <3>2, <3>3, <3>4
    <2>4. CASE UNCHANGED vars
      <3>1. StoreInv' /\ FateKept(Requests) /\ UNCHANGED <<now, deadline>>
        BY <2>a, <2>4 DEF vars, storeVars, StoreInv, StoreTypeOK, Agree, Held, Reported, Unlocked,
                          NeverUnderReports, FateKept
      <3>2. HookInv'
        BY <2>a, <2>4, <3>1, HooksStay DEF vars, hookVars
      <3>3. HookTypeOK'
        BY <2>a, <2>4 DEF HookTypeOK, vars, hookVars, waitVars, claudeVars
      <3>. QED BY <2>b, <3>1, <3>2, <3>3
    <2>. QED BY <2>1, <2>2, <2>3, <2>4 DEF Next
  <1>. QED BY <1>1, <1>2, PTL DEF Spec

(* TypeOK holds in every reachable state. *)
THEOREM HookTypes == Spec => []TypeOK
  <1>1. Inv => TypeOK
    BY DEF Inv
  <1>. QED BY <1>1, InvIsInvariant, PTL

(* The log never under-reports an answer that took effect (Answer). *)
THEOREM LogIsHonest == Spec => []NeverUnderReports
  <1>1. Inv => NeverUnderReports
    BY DEF Inv
  <1>. QED BY <1>1, InvIsInvariant, PTL

(* A hook that ended without a fault leaves no record an answer could still *)
(* settle (wait and run of the permission hook).                           *)
THEOREM NothingLeftWaiting == Spec => []LeavesNothingWaiting
  <1>1. Inv => LeavesNothingWaiting
    BY DEF Inv
  <1>. QED BY <1>1, InvIsInvariant, PTL

-----------------------------------------------------------------------------
(* The refinement. *)

(* A commit that raises or settles r is a Commit of OneDecision. *)
LEMMA CommitRefines ==
    ASSUME Inv, NEW r \in Requests, NEW last \in States, Committed(r, last),
           \/ fate[r] = "absent" /\ last = "waiting"
           \/ fate[r] = "waiting" /\ last \in Terminal,
           UNCHANGED printed
    PROVE  Promise!Commit
  <1>. DEFINE out(f) == [x \in Requests |-> IF f[x] = "absent" THEN "none" ELSE f[x]]
  <1>1. out(fate') \in [Requests -> Promise!Outcomes]
    BY DEF Committed, Promise!Outcomes, States, Terminal, Decided
  <1>2. \A x \in Requests \ {r} :
           out(fate')[x] # out(fate)[x] => out(fate)[x] = "waiting" /\ out(fate')[x] = "expired"
    BY DEF Committed
  <1>3. out(fate')[r] # out(fate)[r] =>
           \/ out(fate)[r] = "none" /\ out(fate')[r] = "waiting"
           \/ out(fate)[r] = "waiting" /\ out(fate')[r] # "none"
    BY DEF Committed, Terminal, Decided
  <1>. QED BY <1>1, <1>2, <1>3 DEF Promise!Commit

(* The store and its hooks implement OneDecision: a request ends once, and  *)
(* Claude Code is told only the decision its request ended with.           *)
THEOREM HookImplementsPromise == Spec => KeepsPromise
  <1>1. Init => Promise!ODInit
    BY DEF Init, StoreInit, Promise!ODInit
  <1>2. Inv /\ [Next]_vars => [Promise!ODNext]_(Promise!odVars)
    <2>. SUFFICES ASSUME Inv, [Next]_vars PROVE [Promise!ODNext]_(Promise!odVars)
      OBVIOUS
    <2>a. StoreInv /\ HookTypeOK /\ HookInv
      BY InvParts
    <2>b. ASSUME UNCHANGED <<fate, printed>> PROVE UNCHANGED Promise!odVars
      BY <2>b DEF Promise!odVars
    <2>c. Terminal \subseteq States /\ Decided \subseteq Terminal /\ "waiting" \in States
          /\ "expired" \in Terminal /\ "closed" \in Terminal
      BY DEF States, Terminal
    <2>1. ASSUME NEW r \in Requests, Record(r) PROVE Promise!ODNext
      <3>1. deadline[r] - Window \in Time
        BY <2>1, <2>a, StoreAssumption DEF Record, Goes, HookInv, Dated, StoreInv, StoreTypeOK, Time
      <3>2. Committed(r, "waiting") /\ fate[r] = "absent"
        BY <2>1, <2>a, <3>1, CreateKeeps DEF Record, Goes, HookInv, Fresh
      <3>. QED BY <2>1, <2>c, <3>2, CommitRefines DEF Record, Promise!ODNext
    <2>2. ASSUME NEW r \in Requests, NEW closing \in BOOLEAN, Transition(r, closing), UNCHANGED printed
          PROVE  Promise!ODNext
      <3>1. PICK last \in {"expired", "closed"} : Committed(r, last)
        BY <2>2, <2>a, TransitionKeeps
      <3>2. fate[r] = "waiting"
        BY <2>2, <2>a DEF Transition, Moves, StoreInv, Agree
      <3>. QED BY <2>2, <2>c, <3>1, <3>2, CommitRefines DEF Promise!ODNext
    <2>3. ASSUME NEW r \in Requests, Decide(r) PROVE Promise!ODNext \/ UNCHANGED Promise!odVars
      <3>1. got[r] = fate[r] /\ printed[r] = "none"
        BY <2>3, <2>a DEF Decide, Goes, HookInv, Carried
      <3>2. CASE ~canceled[r] /\ got[r] \in Decided
        <4>1. printed' = [printed EXCEPT ![r] = fate[r]] /\ UNCHANGED fate
          BY <2>3, <3>1, <3>2 DEF Decide, storeVars
        <4>2. Promise!Tell
          BY <3>1, <3>2, <4>1 DEF Promise!Tell, Promise!Decisions, Decided
        <4>. QED BY <4>2 DEF Promise!ODNext
      <3>3. CASE ~(~canceled[r] /\ got[r] \in Decided)
        BY <2>3, <2>b, <3>3 DEF Decide, storeVars
      <3>. QED BY <3>2, <3>3
    <2>4. ASSUME NEW r \in Requests, PostClose(r) PROVE Promise!ODNext \/ UNCHANGED Promise!odVars
      <3>1. CASE CloseAnsweredInTerminal(Call[r])
        <4>1. PICK x \in Requests : Committed(x, "closed") /\ fate[x] = "waiting"
          BY <2>a, <3>1, TerminalCloseKeeps
        <4>. QED BY <2>4, <2>c, <4>1, CommitRefines DEF PostClose, hookVars, Promise!ODNext
      <3>2. CASE UNCHANGED storeVars
        BY <2>4, <2>b, <3>2 DEF PostClose, storeVars, hookVars
      <3>. QED BY <2>4, <3>1, <3>2 DEF PostClose
    <2>5. CASE Answer /\ UNCHANGED <<hookVars, claudeVars>>
      <3>1. CASE UNCHANGED fate
        BY <2>5, <2>b, <3>1 DEF hookVars
      <3>2. CASE \E r \in Requests, v \in Decided : Committed(r, v) /\ fate[r] = "waiting"
        BY <2>5, <2>c, <3>2, CommitRefines DEF hookVars, Promise!ODNext
      <3>. QED BY <2>5, <2>a, <3>1, <3>2, AnswerKeeps
    <2>6. ASSUME NEW r \in Requests, HookStep(r) PROVE Promise!ODNext \/ UNCHANGED Promise!odVars
      <3>1. CASE Settle(r)
        BY <2>2, <2>b, <3>1 DEF Settle, storeVars
      <3>2. CASE Close(r)
        BY <2>2, <2>b, <3>2 DEF Close, storeVars
      <3>3. CASE RecordFails(r) \/ Poll(r) \/ DeadlineTimer(r) \/ SettleFails(r) \/ Canceled(r)
                 \/ CloseFails(r) \/ ReadFails(r)
        BY <2>b, <3>3 DEF RecordFails, Poll, ReadFails, DeadlineTimer, SettleFails, Canceled, CloseFails, storeVars
      <3>. QED BY <2>1, <2>3, <2>6, <3>1, <3>2, <3>3 DEF HookStep
    <2>7. ASSUME NEW r \in Requests, Start(r) \/ HookFault(r) \/ ReadsTurn(r) \/ ClaudeStep(r)
          PROVE  Promise!ODNext \/ UNCHANGED Promise!odVars
      <3>1. CASE ClaudeStep(r)
        BY <2>4, <2>b, <3>1 DEF ClaudeStep, Cancel, TerminalYes, PostToolUse, storeVars, hookVars
      <3>2. CASE Start(r) \/ HookFault(r) \/ ReadsTurn(r)
        BY <2>b, <3>2 DEF Start, HookFault, ReadsTurn, Panics, Killed, storeVars
      <3>. QED BY <2>7, <3>1, <3>2
    <2>8. CASE (Tick /\ UNCHANGED <<hookVars, claudeVars>>) \/ UNCHANGED vars
      BY <2>8, <2>b DEF Tick, vars, storeVars, hookVars
    <2>. QED BY <2>5, <2>6, <2>7, <2>8 DEF Next
  <1>. QED BY <1>1, <1>2, InvIsInvariant, PTL DEF Spec, KeepsPromise, Promise!ODSpec
=============================================================================
