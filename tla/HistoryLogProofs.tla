-------------------------- MODULE HistoryLogProofs --------------------------
(***************************************************************************)
(* For every set of refs and every log limit: a crash between the writer's *)
(* steps loses nothing the store ever held but the first record reclaimed  *)
(* behind a cut line, and a reader that takes no lock misses nothing.      *)
(***************************************************************************)
EXTENDS HistoryLog, TLAPS, FiniteSetTheorems

(* Cardinalities of the batches a writer reclaims are numbers. *)
LEMMA BatchSize ==
    ASSUME NEW S, S \subseteq Refs
    PROVE  Cardinality(S) \in Nat
  BY LogAssumption, FS_Subset, FS_CardinalityType

(* What an append leaves behind: at most the lines of the log and the batch,*)
(* and behind an uncut line exactly those.                                  *)
LEMMA ExtendedLog ==
    ASSUME NEW log \in Logs, NEW S, S \subseteq Refs, NEW first, NEW torn \in BOOLEAN
    PROVE  /\ Extended(log, S, first, torn) \in Logs
           /\ log.lines \subseteq Extended(log, S, first, torn).lines
           /\ Extended(log, S, first, torn).lines \subseteq log.lines \cup S
           /\ S \ {first} \subseteq Extended(log, S, first, torn).lines
           /\ ~log.torn => Extended(log, S, first, torn).lines = log.lines \cup S
           /\ Extended(log, S, first, torn).torn = torn
  <1>1. Cardinality(S) \in Nat
    BY BatchSize
  <1>. QED BY <1>1 DEF Extended, Logs

(* TypeOK holds in every reachable state. *)
THEOREM LogTypeOK == Spec => []TypeOK
  <1>1. Init => TypeOK
    BY DEF Init, TypeOK, NoLog, IdleWrite, IdleReader, Logs
  <1>2. TypeOK /\ [Next]_vars => TypeOK'
    <2>. SUFFICES ASSUME TypeOK, [Next]_vars PROVE TypeOK'
      OBVIOUS
    <2>. USE DEF TypeOK
    <2>1. ASSUME NEW new \in Refs, NEW batch \in SUBSET store, Begin(new, batch)
          PROVE  TypeOK'
      BY <2>1 DEF Begin
    <2>2. CASE Rotate
      <3>1. write' \in [step : {"append", "rename"}, new : SUBSET Refs, batch : SUBSET store]
            /\ write'.new = write.new
        BY <2>2 DEF Rotate
      <3>2. NoLog \in Logs /\ NoLog.lines = {}
        BY DEF NoLog, Logs
      <3>3. CASE cur' = NoLog /\ old' = cur /\ retired' = retired \cup old.lines
        BY <2>2, <3>1, <3>2, <3>3 DEF Rotate
      <3>4. CASE UNCHANGED <<cur, old, retired>>
        BY <2>2, <3>1, <3>4 DEF Rotate
      <3>. QED BY <2>2, <3>3, <3>4 DEF Rotate
    <2>3. CASE Append
      <3>1. PICK first \in write.batch :
               /\ cur' = Extended(cur, write.batch, first, FALSE)
               /\ glued' = IF cur.torn THEN glued \cup {first} ELSE glued
        BY <2>3 DEF Append
      <3>2. cur' \in Logs /\ cur'.lines \subseteq stored
        BY <3>1, ExtendedLog
      <3>3. glued' \subseteq stored
        BY <3>1
      <3>. QED BY <2>3, <3>2, <3>3 DEF Append
    <2>4. CASE TornAppend
      <3>1. cur' \in Logs /\ cur'.lines \subseteq stored
        <4>1. PICK whole \in SUBSET write.batch :
                 IF whole = {} THEN cur' = [cur EXCEPT !.torn = TRUE]
                 ELSE \E first \in whole : cur' = Extended(cur, whole, first, TRUE)
          BY <2>4 DEF TornAppend
        <4>2. CASE whole = {}
          BY <4>1, <4>2 DEF Logs
        <4>3. CASE whole # {}
          <5>1. PICK first \in whole : cur' = Extended(cur, whole, first, TRUE)
            BY <4>1, <4>3
          <5>. QED BY <5>1, ExtendedLog
        <4>. QED BY <4>2, <4>3
      <3>. QED BY <2>4, <3>1 DEF TornAppend, IdleWrite
    <2>5. CASE Rename
      BY <2>5 DEF Rename, IdleWrite
    <2>6. CASE Crash
      BY <2>6 DEF Crash, IdleWrite
    <2>7. CASE ReadStore \/ ReadCur \/ ReadOld \/ ReadEnd
      <3>1. UNCHANGED <<store, cur, old, write, stored, retired, glued>>
        BY <2>7 DEF ReadStore, ReadCur, ReadOld, ReadEnd
      <3>2. reader' \in [step : {"idle", "cur", "old", "done"}, found : SUBSET stored,
                         start : SUBSET stored]
        <4>1. CASE ReadStore
          BY <4>1 DEF ReadStore, Retained
        <4>2. CASE ReadCur
          BY <4>2 DEF ReadCur
        <4>3. CASE ReadOld
          BY <4>3 DEF ReadOld
        <4>4. CASE ReadEnd
          BY <4>4 DEF ReadEnd, IdleReader
        <4>. QED BY <2>7, <4>1, <4>2, <4>3, <4>4
      <3>. QED BY <3>1, <3>2
    <2>8. CASE UNCHANGED vars
      BY <2>8 DEF vars
    <2>. QED BY <2>1, <2>2, <2>3, <2>4, <2>5, <2>6, <2>7, <2>8 DEF Next
  <1>. QED BY <1>1, <1>2, PTL DEF Spec

-----------------------------------------------------------------------------
(* The strengthening for the writer: one that is about to rename has its    *)
(* batch in the log, but for a record behind a cut line.                    *)
WriterInv ==
    /\ LostOnlyBehindACut
    /\ write.step = "rename" => write.batch \subseteq cur.lines \cup glued

(* appendHistoryLocked before the rename: whatever append is cut short and  *)
(* wherever the writer dies, a ref ever stored is in the store or in a log, *)
(* unless a rotation dropped the generation it was in or it was the first   *)
(* one appended behind a cut line.                                          *)
THEOREM NothingElseLost == Spec => []LostOnlyBehindACut
  <1>. USE DEF WriterInv, LostOnlyBehindACut, Retained
  <1>1. Init => WriterInv
    BY DEF Init, NoLog, IdleWrite
  <1>2. TypeOK /\ WriterInv /\ [Next]_vars => WriterInv'
    <2>. SUFFICES ASSUME TypeOK, WriterInv, [Next]_vars PROVE WriterInv'
      OBVIOUS
    <2>. USE DEF TypeOK
    <2>1. ASSUME NEW new \in Refs, NEW batch \in SUBSET store, Begin(new, batch)
          PROVE  WriterInv'
      BY <2>1 DEF Begin
    <2>2. CASE Rotate
      <3>1. write'.step = "rename" => write'.batch = {}
        BY <2>2 DEF Rotate
      <3>. QED BY <2>2, <3>1 DEF Rotate, NoLog
    <2>3. CASE Append
      <3>1. PICK first \in write.batch :
               /\ cur' = Extended(cur, write.batch, first, FALSE)
               /\ glued' = IF cur.torn THEN glued \cup {first} ELSE glued
        BY <2>3 DEF Append
      <3>2. cur.lines \subseteq cur'.lines /\ write.batch \subseteq cur'.lines \cup glued'
        <4>1. /\ cur.lines \subseteq cur'.lines
              /\ write.batch \ {first} \subseteq cur'.lines
              /\ ~cur.torn => cur'.lines = cur.lines \cup write.batch
          BY <3>1, ExtendedLog
        <4>2. cur.torn => first \in glued'
          BY <3>1
        <4>. QED BY <4>1, <4>2
      <3>3. glued \subseteq glued' /\ write'.batch = write.batch
        BY <2>3, <3>1 DEF Append
      <3>. QED BY <2>3, <3>2, <3>3 DEF Append
    <2>4. CASE TornAppend
      <3>1. cur.lines \subseteq cur'.lines
        <4>1. PICK whole \in SUBSET write.batch :
                 IF whole = {} THEN cur' = [cur EXCEPT !.torn = TRUE]
                 ELSE \E first \in whole : cur' = Extended(cur, whole, first, TRUE)
          BY <2>4 DEF TornAppend
        <4>2. CASE whole = {}
          BY <4>1, <4>2 DEF Logs
        <4>3. CASE whole # {}
          <5>1. PICK first \in whole : cur' = Extended(cur, whole, first, TRUE)
            BY <4>1, <4>3
          <5>. QED BY <5>1, ExtendedLog
        <4>. QED BY <4>2, <4>3
      <3>. QED BY <2>4, <3>1 DEF TornAppend, IdleWrite
    <2>5. CASE Rename
      BY <2>5 DEF Rename, IdleWrite
    <2>6. CASE Crash
      BY <2>6 DEF Crash, IdleWrite
    <2>7. CASE ReadStore \/ ReadCur \/ ReadOld \/ ReadEnd
      BY <2>7 DEF ReadStore, ReadCur, ReadOld, ReadEnd
    <2>8. CASE UNCHANGED vars
      BY <2>8 DEF vars
    <2>. QED BY <2>1, <2>2, <2>3, <2>4, <2>5, <2>6, <2>7, <2>8 DEF Next
  <1>3. WriterInv => LostOnlyBehindACut
    OBVIOUS
  <1>. QED BY <1>1, <1>2, <1>3, LogTypeOK, PTL DEF Spec

-----------------------------------------------------------------------------
(* The strengthening for the reader, step by step: what it can still miss   *)
(* is only where it has yet to look.  A ref only ever moves from the store  *)
(* to the current log and from there to the retained one.                   *)
ReaderInv ==
    /\ reader.step # "idle" => reader.start \cap store \subseteq reader.found
    /\ reader.step \in {"old", "done"} => reader.start \cap cur.lines \subseteq reader.found
    /\ reader.step = "done" => reader.start \cap old.lines \subseteq reader.found

(* ReadArchive without a lock, between any writers and crashes: nothing that *)
(* is retained from its start to its end is missing from what it returns.   *)
THEOREM ReaderComplete == Spec => []ReaderMissesNothing
  <1>. USE DEF ReaderInv
  <1>1. Init => ReaderInv
    BY DEF Init, IdleReader
  <1>2. TypeOK /\ ReaderInv /\ [Next]_vars => ReaderInv'
    <2>. SUFFICES ASSUME TypeOK, ReaderInv, [Next]_vars PROVE ReaderInv'
      OBVIOUS
    <2>. USE DEF TypeOK
    <2>1. ASSUME NEW new \in Refs, NEW batch \in SUBSET store, Begin(new, batch)
          PROVE  ReaderInv'
      BY <2>1 DEF Begin
    <2>2. CASE Rotate
      BY <2>2 DEF Rotate, NoLog
    <2>3. CASE Append
      <3>1. PICK first \in write.batch : cur' = Extended(cur, write.batch, first, FALSE)
        BY <2>3 DEF Append
      <3>2. cur'.lines \subseteq cur.lines \cup store
        BY <3>1, ExtendedLog
      <3>. QED BY <2>3, <3>2 DEF Append
    <2>4. CASE TornAppend
      <3>1. cur'.lines \subseteq cur.lines \cup store
        <4>1. PICK whole \in SUBSET write.batch :
                 IF whole = {} THEN cur' = [cur EXCEPT !.torn = TRUE]
                 ELSE \E first \in whole : cur' = Extended(cur, whole, first, TRUE)
          BY <2>4 DEF TornAppend
        <4>2. CASE whole = {}
          BY <4>1, <4>2 DEF Logs
        <4>3. CASE whole # {}
          <5>1. PICK first \in whole : cur' = Extended(cur, whole, first, TRUE)
            BY <4>1, <4>3
          <5>. QED BY <5>1, ExtendedLog
        <4>. QED BY <4>2, <4>3
      <3>. QED BY <2>4, <3>1 DEF TornAppend
    <2>5. CASE Rename
      BY <2>5 DEF Rename
    <2>6. CASE Crash
      BY <2>6 DEF Crash
    <2>7. CASE ReadStore \/ ReadCur \/ ReadOld \/ ReadEnd
      <3>1. CASE ReadStore
        BY <3>1 DEF ReadStore
      <3>2. CASE ReadCur
        BY <3>2 DEF ReadCur
      <3>3. CASE ReadOld
        BY <3>3 DEF ReadOld
      <3>4. CASE ReadEnd
        BY <3>4 DEF ReadEnd, IdleReader
      <3>. QED BY <2>7, <3>1, <3>2, <3>3, <3>4
    <2>8. CASE UNCHANGED vars
      BY <2>8 DEF vars
    <2>. QED BY <2>1, <2>2, <2>3, <2>4, <2>5, <2>6, <2>7, <2>8 DEF Next
  <1>3. ReaderInv => ReaderMissesNothing
    BY DEF ReaderMissesNothing, Retained
  <1>. QED BY <1>1, <1>2, <1>3, LogTypeOK, PTL DEF Spec
=============================================================================
