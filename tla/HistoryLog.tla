----------------------------- MODULE HistoryLog -----------------------------
(***************************************************************************)
(* The files behind a reclaim: the store, replaced by rename, and the two  *)
(* generations of the history log.  One writer at a time holds the store's *)
(* flock and may die between any two steps; ReadArchive takes no lock and  *)
(* reads the three files one after the other.                              *)
(*                                                                         *)
(* A log generation is the set of refs whose line decodes, the number of   *)
(* lines it grew by, and whether its last line was cut short.  decodeHistory *)
(* splits at newlines, so a line appended behind a cut one is part of the  *)
(* same undecodable line.                                                  *)
(***************************************************************************)
EXTENDS Naturals, FiniteSets

CONSTANTS
    Refs,       \* records: one acceptance of a message ref each, so a ref that
                \* is accepted again after its reclaim is another member
    MaxLines    \* maxHistoryBytes, in lines

ASSUME LogAssumption ==
    MaxLines \in Nat \ {0} /\ IsFiniteSet(Refs)

VARIABLES
    store,      \* the refs in the store file
    cur,        \* history.jsonl
    old,        \* history.jsonl.1
    write,      \* the writer: step, the new ref and the refs it reclaims
    reader,     \* a lock-free reader: step and what it has found
    stored,     \* history variable: refs ever committed to the store
    retired,    \* history variable: refs a rotation dropped with the old log
    glued       \* history variable: refs reclaimed behind a line cut short

vars == <<store, cur, old, write, reader, stored, retired, glued>>

NoLog == [lines |-> {}, size |-> 0, torn |-> FALSE]
IdleWrite == [step |-> "idle", new |-> {}, batch |-> {}]
IdleReader == [step |-> "idle", found |-> {}, start |-> {}]

(* Everything ReadArchive could find if nothing moved. *)
Retained == store \cup cur.lines \cup old.lines

-----------------------------------------------------------------------------
(* The writer, under the store's flock. *)

(* putAccepted decided to accept one ref and to reclaim a batch. *)
Begin(new, batch) ==
    /\ write.step = "idle"
    /\ new \notin stored
    /\ write' = [step |-> "rotate", new |-> {new}, batch |-> batch]
    /\ UNCHANGED <<store, cur, old, reader, stored, retired, glued>>

(* Mutant: the store is renamed first and the log appended after it. *)
RotateAfterRename ==
    /\ write.step = "rotate"
    /\ store' = (store \ write.batch) \cup write.new
    /\ stored' = stored \cup write.new
    /\ write' = [write EXCEPT !.step = IF write.batch = {} THEN "rename" ELSE "append"]
    /\ UNCHANGED <<cur, old, reader, retired, glued>>

(* rotateHistory: the current log replaces the retained one when the batch  *)
(* would not fit.  An empty batch touches no log.                           *)
Rotate ==
    /\ write.step = "rotate"
    /\ write' = [write EXCEPT !.step = IF write.batch = {} THEN "rename" ELSE "append"]
    /\ IF /\ write.batch # {} /\ cur # NoLog
          /\ cur.size + Cardinality(write.batch) > MaxLines
       THEN /\ old' = cur /\ cur' = NoLog
            /\ retired' = retired \cup old.lines
       ELSE UNCHANGED <<cur, old, retired>>
    /\ UNCHANGED <<store, reader, stored, glued>>

(* What a log holds once the lines of S were appended, first being the      *)
(* first of them: behind a cut line the first new one does not decode.      *)
Extended(log, S, first, torn) ==
    [lines |-> log.lines \cup (IF log.torn THEN S \ {first} ELSE S),
     size |-> log.size + Cardinality(S), torn |-> torn]

(* Mutant: the lines are taken from the state about to be written, so the   *)
(* record being accepted is logged before it is stored.                     *)
AppendNew ==
    /\ write.step = "append"
    /\ \E first \in write.batch :
          /\ cur' = Extended(cur, write.batch \cup write.new, first, FALSE)
          /\ glued' = IF cur.torn THEN glued \cup {first} ELSE glued
    /\ write' = [write EXCEPT !.step = "rename"]
    /\ UNCHANGED <<store, old, reader, stored, retired>>

(* appendHistoryLocked: all lines, flushed to disk. *)
Append ==
    /\ write.step = "append"
    /\ \E first \in write.batch :
          /\ cur' = Extended(cur, write.batch, first, FALSE)
          /\ glued' = IF cur.torn THEN glued \cup {first} ELSE glued
    /\ write' = [write EXCEPT !.step = "rename"]
    /\ UNCHANGED <<store, old, reader, stored, retired>>

(* The append ends early, by a crash or an error: some whole lines and the  *)
(* beginning of the next one.  The store is not renamed.                    *)
TornAppend ==
    /\ write.step = "append"
    /\ \E whole \in SUBSET write.batch :
          /\ whole # write.batch
          /\ IF whole = {} THEN cur' = [cur EXCEPT !.torn = TRUE]
             ELSE \E first \in whole : cur' = Extended(cur, whole, first, TRUE)
    /\ write' = IdleWrite
    /\ UNCHANGED <<store, old, reader, stored, retired, glued>>

(* The rename that commits the store. *)
Rename ==
    /\ write.step = "rename"
    /\ store' = (store \ write.batch) \cup write.new
    /\ stored' = stored \cup write.new
    /\ write' = IdleWrite
    /\ UNCHANGED <<cur, old, reader, retired, glued>>

(* The writer dies or fails between two steps; its temp file is ignored. *)
Crash ==
    /\ write.step # "idle"
    /\ write' = IdleWrite
    /\ UNCHANGED <<store, cur, old, reader, stored, retired, glued>>

-----------------------------------------------------------------------------
(* ReadArchive: the store, then the logs in historyReadOrder. *)

(* The store file is read first: a record only ever moves to the log. *)
ReadStore ==
    /\ reader.step = "idle"
    /\ reader' = [step |-> "cur", found |-> store, start |-> Retained]
    /\ UNCHANGED <<store, cur, old, write, stored, retired, glued>>

(* Mutant: the retained generation is read before the current one. *)
ReadCurOldFirst ==
    /\ reader' = IF reader.step = "cur"
                 THEN [reader EXCEPT !.step = "swapped", !.found = @ \cup old.lines]
                 ELSE [reader EXCEPT !.step = "done", !.found = @ \cup cur.lines]
    /\ reader.step \in {"cur", "swapped"}
    /\ UNCHANGED <<store, cur, old, write, stored, retired, glued>>

ReadCur ==
    /\ reader.step = "cur"
    /\ reader' = [reader EXCEPT !.step = "old", !.found = @ \cup cur.lines]
    /\ UNCHANGED <<store, cur, old, write, stored, retired, glued>>

ReadOld ==
    /\ reader.step = "old"
    /\ reader' = [reader EXCEPT !.step = "done", !.found = @ \cup old.lines]
    /\ UNCHANGED <<store, cur, old, write, stored, retired, glued>>

ReadEnd ==
    /\ reader.step = "done"
    /\ reader' = IdleReader
    /\ UNCHANGED <<store, cur, old, write, stored, retired, glued>>

-----------------------------------------------------------------------------
Init ==
    /\ store = {} /\ cur = NoLog /\ old = NoLog
    /\ write = IdleWrite /\ reader = IdleReader
    /\ stored = {} /\ retired = {} /\ glued = {}

Next ==
    \/ \E new \in Refs, batch \in SUBSET store : Begin(new, batch)
    \/ Rotate \/ Append \/ TornAppend \/ Rename \/ Crash
    \/ ReadStore \/ ReadCur \/ ReadOld \/ ReadEnd

Spec == Init /\ [][Next]_vars

Logs == [lines : SUBSET Refs, size : Nat, torn : BOOLEAN]

(* The log, the writer and the reader have their types, and whatever a file *)
(* holds was committed to the store before: no log line is invented, and    *)
(* nothing is reclaimed that is not in the store.                           *)
TypeOK ==
    /\ store \subseteq stored /\ cur.lines \subseteq stored /\ old.lines \subseteq stored
    /\ cur \in Logs /\ old \in Logs
    /\ stored \subseteq Refs /\ retired \subseteq stored /\ glued \subseteq stored
    /\ write \in [step : {"idle", "rotate", "append", "rename"},
                  new : SUBSET Refs, batch : SUBSET store]
    /\ write.new \cap stored = {}
    /\ reader \in [step : {"idle", "cur", "old", "done"}, found : SUBSET stored,
                   start : SUBSET stored]

(* What the order append, flush, rename really gives, wherever the writer   *)
(* dies: a record that is in neither place was the first one reclaimed      *)
(* behind a line an earlier append left cut.                                *)
LostOnlyBehindACut == stored \subseteq Retained \cup retired \cup glued

(* ReadArchive, between any writers, misses nothing that is retained when   *)
(* it starts and still retained when it ends.                               *)
ReaderMissesNothing ==
    reader.step = "done" => (reader.start \cap Retained) \subseteq reader.found
=============================================================================
