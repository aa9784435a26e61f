-------------------------- MODULE HistoryStoreProofs ------------------------
(***************************************************************************)
(* Proofs about HistoryStore for any batches, minutes, rows and bounds:    *)
(* its types first, then the commit protocol.  Markers grow, an append can *)
(* be resumed, nothing saved is lost, nothing is counted twice, the store  *)
(* implements its ledger, and queries of today read what is there.         *)
(***************************************************************************)
EXTENDS HistoryStoreProps, FiniteSetTheorems, FunctionTheorems, SequenceTheorems, TLAPS

RecoverPcs == {"rec_raw", "rec_quality", "rec_mark", "rec_delete"}
LoadPcs    == {"load", "load_quality", "load_clear", "load_state", "load_repair"}
OpenPcs    == {"flush_save", "flush_test", "flush_journal", "flush_resave",
               "flush_quality", "flush_mark"}

(* What a step may rely on where it is: a recovery has its journal, a      *)
(* flush has an open minute and the arguments of its Update.               *)
Control ==
  /\ pc \in RecoverPcs \cup LoadPcs \cup OpenPcs \cup
            {"unloaded", "idle", "flush_clear", "flush_state", "apply", "ckpt", "ckpt_state"}
  /\ pc \in RecoverPcs => journal # None
  /\ pc \in RecoverPcs /\ ret # "load" => cur.minute # None /\ call # None
  /\ pc \in OpenPcs => cur.minute # None
  /\ pc \in OpenPcs \cup {"flush_clear", "flush_state", "apply"} => call # None
  /\ pc = "load_quality" => checkpoint # None /\ cur.minute # None

(* A minute that is not saved is open, has something to save, and is not   *)
(* past the SaveCheckpoint of a flush.                                     *)
Dirty ==
  ckptDirty =>
    /\ cur.minute # None /\ cur.meta # {}
    /\ \/ pc \in {"idle", "apply", "ckpt", "ckpt_state", "flush_save"}
       \/ pc \in RecoverPcs /\ ret = "flush"

TypeInv == TypeOK /\ Control /\ Dirty

-----------------------------------------------------------------------------
(* The numbers are natural numbers.                                        *)
LEMMA LargerNat ==
  ASSUME NEW a \in Nat, NEW b \in Nat
  PROVE  Larger(a, b) \in Nat
  BY DEF Larger

LEMMA BytesNat ==
  ASSUME NEW T, T \subseteq Batches
  PROVE  Bytes(T) \in Nat
<1>1. IsFiniteSet(T)
  BY FS_Subset, HistoryAssumption DEF HistoryAssumption
<1>2. Cardinality(T) \in Nat
  BY <1>1, FS_CardinalityType
<1>3. Rows \in Nat
  BY HistoryAssumption DEF HistoryAssumption
<1> QED
  BY <1>2, <1>3 DEF Bytes

LEMMA DayBytesNat ==
  ASSUME day \in Seq(Row)
  PROVE  DayBytes \in Nat
<1> DEFINE All == (1..Len(day)) \X Batches
           Here == {p \in All : p[2] \in day[p[1]].batches}
<1>1. IsFiniteSet(1..Len(day)) /\ IsFiniteSet(Batches)
  BY FS_Interval, HistoryAssumption DEF HistoryAssumption
<1>2. IsFiniteSet(All)
  BY <1>1, FS_Product
<1>3. Here \subseteq All
  OBVIOUS
<1>4. IsFiniteSet(Here)
  BY <1>2, <1>3, FS_Subset
<1>5. Cardinality(Here) \in Nat
  BY <1>4, FS_CardinalityType
<1> QED
  BY <1>5 DEF DayBytes

(* A row of a block that is appended or cut is a row.                      *)
LEMMA NextRowTyped ==
  ASSUME TypeOK, journal # None, RawConsistent, Present < Rows
  PROVE  Append(day, NextRow) \in Seq(Row)
<1>1. Present + 1 \in 1..Rows
  BY HistoryAssumption DEF TypeOK, Journal, RawConsistent, Present, HistoryAssumption
<1>2. NextRow = [minute |-> journal.minute, app |-> Present + 1, batches |-> journal.totals]
  BY <1>1 DEF NextRow, Block
<1>3. NextRow \in Row
  BY <1>1, <1>2 DEF TypeOK, Journal, Row
<1> QED
  BY <1>3 DEF TypeOK

LEMMA CommitIdsNat ==
  ASSUME TypeOK, NEW t, t.txn \in Nat
  PROVE  CommitIds(t) \subseteq Nat
<1>1. PreviousTxn + 1 \in Nat
  BY DEF TypeOK, Marker, PreviousTxn
<1>2. \A now \in Times : Larger(now, PreviousTxn + 1) \in Nat
  BY <1>1, HistoryAssumption DEF HistoryAssumption, Larger
<1> QED
  BY <1>2 DEF CommitIds

(* What the types say of the parts of a journal, a checkpoint and the      *)
(* minute in RAM.                                                          *)
LEMMA JournalParts ==
  ASSUME TypeOK, journal # None
  PROVE  /\ journal.meta \subseteq Batches /\ journal.totals \subseteq Batches
         /\ journal.allTime \in Nat
         /\ Mark(journal) \in Marker
         /\ [minute |-> journal.minute, meta |-> journal.meta]
              \in [minute : Minutes, meta : SUBSET Batches]
  BY DEF TypeOK, Journal, Marker, Mark

LEMMA CheckpointParts ==
  ASSUME TypeOK, checkpoint # None
  PROVE  /\ checkpoint.minute \in Minutes /\ checkpoint.minute # None
         /\ checkpoint.totals \subseteq Batches /\ checkpoint.meta \subseteq Batches
         /\ checkpoint.txn \in Nat /\ checkpoint.allTime \in Nat
  BY HistoryAssumption, NoneAssumption DEF TypeOK, Saved, HistoryAssumption

LEMMA OpenMinute ==
  ASSUME TypeOK, cur.minute # None
  PROVE  /\ cur.minute \in Minutes
         /\ Mark(cur) \in Marker
         /\ [minute |-> cur.minute, meta |-> cur.meta]
              \in [minute : Minutes, meta : SUBSET Batches]
         /\ [minute |-> cur.minute, totals |-> cur.totals, meta |-> cur.meta,
             txn |-> cur.txn, allTime |-> allTime] \in Saved
         /\ NewJournal \in Journal
<1>1. Anchor(Len(day)) \in Row \cup {None}
  BY DEF TypeOK, Anchor
<1> QED
  BY <1>1 DEF TypeOK, Txn, Mark, Marker, Saved, Journal, NewJournal

(* What a SaveCheckpoint leaves behind, whether it works or fails.         *)
WellSaved(next, other) ==
  /\ checkpoint' \in Saved \cup {None} /\ durable' \subseteq Batches
  /\ ckptDirty' \in BOOLEAN /\ stateDirty' \in BOOLEAN /\ tickZero' \in BOOLEAN
  /\ \/ pc' = next /\ ckptDirty' = FALSE
     \/ pc' = other /\ ckptDirty' = ckptDirty

(* A checkpoint that is saved is well-formed and leaves nothing dirty.     *)
LEMMA Saves ==
  ASSUME TypeOK, cur.minute # None, NEW next, NEW other, SaveCheckpoint(next, other)
  PROVE  WellSaved(next, other)
<1> USE DEF WellSaved
<1>1. CASE UNCHANGED <<checkpoint, ckptDirty, stateDirty, tickZero, durable>> /\ pc' = other
  BY <1>1 DEF TypeOK
<1>2. CASE /\ checkpoint' = [minute |-> cur.minute, totals |-> cur.totals,
                             meta |-> cur.meta, txn |-> cur.txn, allTime |-> allTime]
           /\ ckptDirty' = FALSE /\ stateDirty' = TRUE /\ tickZero' = FALSE
           /\ durable' = durable \cup cur.totals
           /\ pc' = next
  <2>1. checkpoint' \in Saved
    BY <1>2, OpenMinute
  <2>2. ckptDirty' \in BOOLEAN /\ stateDirty' \in BOOLEAN /\ tickZero' \in BOOLEAN
    BY <1>2
  <2> QED
    BY <1>2, <2>1, <2>2 DEF TypeOK, Txn
<1> QED
  BY <1>1, <1>2 DEF SaveCheckpoint

-----------------------------------------------------------------------------
(* Type correctness and control: every step keeps each variable in its type  *)
(* and what a step may rely on at each program point.                      *)
LEMMA TypeInit == Init => TypeInv
<1> SUFFICES ASSUME Init PROVE TypeInv
  OBVIOUS
<1>1. day \in Seq(Row)
  BY DEF Init
<1>2. cur \in Txn /\ cur.minute = None
  BY DEF Init, NoTxn, Txn
<1>3. hasAllTime \in BOOLEAN /\ ckptDirty \in BOOLEAN /\ stateDirty \in BOOLEAN
      /\ tickZero \in BOOLEAN /\ ~ckptDirty
  BY Zenon DEF Init
<1>4. TypeOK
  BY <1>1, <1>2, <1>3 DEF Init, TypeOK
<1>5. Control
  BY DEF Init, Control, RecoverPcs, LoadPcs, OpenPcs
<1>6. Dirty
  BY <1>3 DEF Dirty
<1> QED
  BY <1>4, <1>5, <1>6 DEF TypeInv

LEMMA TypeStep == TypeInv /\ [Next]_vars => TypeInv'
<1> SUFFICES ASSUME TypeInv, [Next]_vars PROVE TypeInv'
  OBVIOUS
<1> USE HistoryAssumption, NoneAssumption
<1> USE DEF TypeInv, TypeOK, Control, Dirty, RecoverPcs, LoadPcs, OpenPcs,
        files, members, env, ghosts, NoFault, Fault, ReadFault, HistoryAssumption
<1>1. CASE WriteRawRow
  <2>1. day' \in Seq(Row)
    BY <1>1, NextRowTyped DEF WriteRawRow
  <2> QED
    BY <1>1, <2>1 DEF WriteRawRow
<1>2. CASE CompleteRaw
  BY <1>2 DEF CompleteRaw, Resume, GiveUp
<1>3. CASE RecoverQuality
  <2>1. quality' \subseteq [minute : Minutes, meta : SUBSET Batches]
    BY <1>3, JournalParts DEF RecoverQuality, AppendQuality
  <2> QED
    BY <1>3, <2>1 DEF RecoverQuality, GiveUp
<1>4. CASE RecoverMark
  <2>1. commit' \in Marker \cup {None}
    BY <1>4, JournalParts DEF RecoverMark, WriteMark
  <2> QED
    BY <1>4, <2>1 DEF RecoverMark, GiveUp
<1>5. CASE RecoverDelete
  <2>1. allTime' \in Nat
    BY <1>5, JournalParts, LargerNat DEF RecoverDelete
  <2> QED
    BY <1>5, <2>1 DEF RecoverDelete, Resume, GiveUp
<1>6. CASE EnsureLoaded
  BY <1>6 DEF EnsureLoaded, StateTotal, RecoverAppend, Resume
<1>7. CASE Load
  <2>1. DayBytes \in Nat
    BY DayBytesNat
  <2>2. LoadedTotal \in Nat
    BY <2>1 DEF LoadedTotal
  <2>3. CASE LoadNoCheckpoint
    BY <1>7, <2>1, <2>2, <2>3 DEF Load, LoadNoCheckpoint, NoTxn, Txn, Loaded
  <2>4. ASSUME checkpoint # None
        PROVE  /\ Larger(LoadedTotal, checkpoint.allTime) \in Nat
               /\ DayBytes + Bytes(checkpoint.totals) \in Nat
    <3>1. checkpoint.allTime \in Nat /\ checkpoint.totals \subseteq Batches
      BY <2>4, CheckpointParts
    <3>2. Bytes(checkpoint.totals) \in Nat
      BY <3>1, BytesNat
    <3>3. Larger(LoadedTotal, checkpoint.allTime) \in Nat
      BY <2>2, <3>1, LargerNat
    <3> QED
      BY <2>1, <3>2, <3>3
  <2>5. CASE LoadBlocked
    <3>1. cur' \in Txn /\ allTime' \in Nat
      BY <2>4, <2>5, CheckpointParts DEF LoadBlocked, NoTxn, Txn
    <3> QED
      BY <1>7, <2>1, <2>5, <3>1 DEF Load, LoadBlocked
  <2>6. CASE LoadCommitted
    <3>1. cur' \in Txn /\ cur'.minute # None /\ allTime' \in Nat
      BY <2>4, <2>6, CheckpointParts DEF LoadCommitted, Txn
    <3> QED
      BY <1>7, <2>1, <2>6, <3>1 DEF Load, LoadCommitted
  <2>7. CASE LoadRestored
    <3>1. cur' \in Txn /\ allTime' \in Nat /\ shown' \in Nat
      BY <2>4, <2>7, CheckpointParts DEF LoadRestored, Txn
    <3>2. tickZero' \in BOOLEAN
      BY <2>7 DEF LoadRestored
    <3> QED
      BY <1>7, <2>7, <3>1, <3>2 DEF Load, LoadRestored, Loaded
  <2> QED
    BY <1>7, <2>3, <2>5, <2>6, <2>7 DEF Load
<1>8. CASE LoadQuality
  <2>1. quality' \subseteq [minute : Minutes, meta : SUBSET Batches]
    BY <1>8, OpenMinute DEF LoadQuality, AppendQuality
  <2>2. cur' \in Txn
    BY <1>8, CheckpointParts DEF LoadQuality, NoTxn, Txn
  <2> QED
    BY <1>8, <2>1, <2>2 DEF LoadQuality, Loaded
<1>9. CASE LoadClear
  BY <1>9 DEF LoadClear, ClearCheckpoint
<1>10. CASE LoadSaveState
  BY <1>10 DEF LoadSaveState, SaveState, Loaded
<1>11. CASE LoadRepair
  <2>1. allTime' \in Nat
    BY <1>11, LargerNat DEF LoadRepair, StoredTotal
  <2> QED
    BY <1>11, <2>1 DEF LoadRepair, SaveState
<1>12. CASE FlushEmpty
  <2>1. cur' \in Txn /\ ~ckptDirty
    BY <1>12 DEF FlushEmpty, NoTxn, Txn, NothingToSave
  <2> QED
    BY <1>12, <2>1 DEF FlushEmpty, ClearCheckpoint
<1>13. CASE FlushSave
  <2>1. cur.minute # None /\ SaveCheckpoint("flush_test", "idle")
    BY <1>13 DEF FlushSave
  <2>2. WellSaved("flush_test", "idle")
    BY <2>1, Saves
  <2> QED
    BY <1>13, <2>1, <2>2 DEF FlushSave, WellSaved
<1>14. CASE FlushTest
  BY <1>14 DEF FlushTest
<1>15. CASE FlushJournal
  <2>1. journal' \in Journal \cup {None}
    BY <1>15, OpenMinute DEF FlushJournal
  <2>2. pc' = "rec_raw" => journal' # None
    BY <1>15, OpenMinute, NoneAssumption DEF FlushJournal
  <2> QED
    BY <1>15, <2>1, <2>2 DEF FlushJournal
<1>16. CASE FlushResave
  <2>1. cur.minute # None /\ SaveCheckpoint("idle", "idle")
    BY <1>16 DEF FlushResave
  <2>2. WellSaved("idle", "idle")
    BY <2>1, Saves
  <2> QED
    BY <1>16, <2>1, <2>2 DEF FlushResave, WellSaved
<1>17. CASE FlushQuality
  <2>1. quality' \subseteq [minute : Minutes, meta : SUBSET Batches]
    BY <1>17, OpenMinute DEF FlushQuality, AppendQuality
  <2> QED
    BY <1>17, <2>1 DEF FlushQuality
<1>18. CASE FlushMark
  <2>1. commit' \in Marker \cup {None}
    BY <1>18, OpenMinute DEF FlushMark, WriteMark
  <2> QED
    BY <1>18, <2>1 DEF FlushMark
<1>19. CASE FlushClear
  <2>1. cur' \in Txn
    BY <1>19 DEF FlushClear, NoTxn, Txn
  <2> QED
    BY <1>19, <2>1 DEF FlushClear, ClearCheckpoint
<1>20. CASE FlushState
  BY <1>20 DEF FlushState
<1>21. CASE Apply
  <2>1. call.batch \in Batches /\ call.key \in Minutes /\ call.key # None
    BY <1>21 DEF Apply, Request
  <2>2. OpenTxn \in Txn /\ OpenTxn.minute \in Minutes /\ OpenTxn.txn \in Nat
    BY <2>1 DEF OpenTxn, NoTxn, Txn
  <2>3. Bytes({call.batch} \ Gaps) \in Nat
    BY <2>1, BytesNat
  <2>4. CommitIds(OpenTxn) \subseteq Nat
    BY <2>2, CommitIdsNat
  <2>5. PICK id \in CommitIds(OpenTxn) :
          cur' = [minute |-> OpenTxn.minute,
                  totals |-> OpenTxn.totals \cup ({call.batch} \ Gaps),
                  meta |-> OpenTxn.meta \cup {call.batch}, txn |-> id]
    BY <1>21 DEF Apply
  <2>6. cur' \in Txn /\ cur'.minute # None /\ cur'.meta # {}
    BY <2>1, <2>2, <2>4, <2>5 DEF Txn
  <2>7. allTime' \in Nat /\ shown' \in Nat
    BY <1>21, <2>3 DEF Apply
  <2>8. stateDirty' \in BOOLEAN /\ ckptDirty' \in BOOLEAN
    BY <1>21 DEF Apply
  <2>9. applied' \subseteq Batches
    BY <1>21, <2>1 DEF Apply
  <2> QED
    BY <1>21, <2>6, <2>7, <2>8, <2>9 DEF Apply
<1>22. CASE RefuseTxn
  <2>1. call.key \in Minutes
    BY <1>22 DEF RefuseTxn, Request
  <2>2. cur' \in Txn /\ (ckptDirty => cur' = cur)
    BY <1>22, <2>1 DEF RefuseTxn, OpenTxn, NoTxn, Txn
  <2> QED
    BY <1>22, <2>2 DEF RefuseTxn
<1>23. CASE CheckpointSave
  <2>1. cur.minute # None /\ SaveCheckpoint("ckpt_state", AfterCheckpoint(stateDirty))
    BY <1>23 DEF CheckpointSave
  <2>2. WellSaved("ckpt_state", AfterCheckpoint(stateDirty))
    BY <2>1, Saves
  <2> QED
    BY <1>23, <2>1, <2>2 DEF CheckpointSave, AfterCheckpoint, WellSaved
<1>24. CASE CheckpointSkip
  BY <1>24 DEF CheckpointSkip, AfterCheckpoint
<1>25. CASE CheckpointState
  <2>1. stateDirty' \in BOOLEAN /\ stateAll' \in Nat \cup {None}
    BY <1>25 DEF CheckpointState
  <2> QED
    BY <1>25, <2>1 DEF CheckpointState
<1>26. ASSUME NEW b \in Batches, Update(b) PROVE TypeInv'
  <2>1. PICK m \in Minutes :
          /\ clock' = m
          /\ call' = [batch |-> b, key |-> m]
          /\ IF cur.minute \notin {None, m} THEN RecoverAppend("flush")
                                           ELSE pc' = "apply" /\ UNCHANGED ret
    BY <1>26 DEF Update
  <2>2. call' \in Request /\ call' # None
    BY <2>1 DEF Request
  <2> QED
    BY <1>26, <2>1, <2>2 DEF Update, RecoverAppend, Resume
<1>27. CASE Checkpoint
  BY <1>27 DEF Checkpoint
<1>28. CASE SetPreferred
  BY <1>28 DEF SetPreferred, SaveState
<1>29. CASE Crash
  <2>1. cur' \in Txn
    BY <1>29 DEF Crash, NoTxn, Txn
  <2> QED
    BY <1>29, <2>1 DEF Crash
<1>30. CASE ExternalEdit
  <2>1. Len(day) \in 1..Len(day)
    BY <1>30, EmptySeq, LenProperties DEF ExternalEdit
  <2>2. day[Len(day)] \in Row
    BY <2>1
  <2>3. [day[Len(day)] EXCEPT !.batches = {}] \in Row
    BY <2>2 DEF Row
  <2>4. day' = [day EXCEPT ![Len(day)] = [day[Len(day)] EXCEPT !.batches = {}]]
    BY <1>30, <2>1 DEF ExternalEdit
  <2>5. day' \in Seq(Row)
    BY <2>1, <2>3, <2>4, ExceptSeq
  <2> QED
    BY <1>30, <2>5 DEF ExternalEdit
<1>31. CASE UNCHANGED vars
  BY <1>31 DEF vars, Txn
<1> QED
  BY <1>1, <1>2, <1>3, <1>4, <1>5, <1>6, <1>7, <1>8, <1>9, <1>10, <1>11,
     <1>12, <1>13, <1>14, <1>15, <1>16, <1>17, <1>18, <1>19, <1>20, <1>21,
     <1>22, <1>23, <1>24, <1>25, <1>26, <1>27, <1>28, <1>29, <1>30, <1>31
     DEF Next, Step, Recover, LoadStep, Flush, Commit

(* Type correctness, and with it that a recovery always has its journal    *)
(* and a flush its minute: no step of any call reads a file or a member    *)
(* that is not there, whatever failed or died before.                      *)
THEOREM TypeCorrect == Spec => []TypeOK
<1>1. TypeInv => TypeOK
  BY DEF TypeInv
<1> QED
  BY <1>1, TypeInit, TypeStep, PTL DEF Spec

-----------------------------------------------------------------------------
(* No minute has been read into RAM yet.                                   *)
Loading == pc \in {"unloaded", "load"} \/ (pc \in RecoverPcs /\ ret = "load")

(* The minute of the flush that runs is saved.                             *)
SavedHere ==
  \/ pc \in {"flush_test", "flush_journal", "flush_resave", "flush_quality", "flush_mark", "flush_clear"}
  \/ pc \in RecoverPcs /\ ret = "append"

-----------------------------------------------------------------------------
(* Markers.  A transaction t is the one last committed or a later one.     *)
After(t) == commit = None \/ commit = Mark(t) \/ t.txn > commit.txn

(* The journal is of the minute that was saved before it, and of the one   *)
(* in RAM; every transaction that may still be committed is After; and a   *)
(* minute with contents has an identity.                                   *)
MarkInv ==
  /\ checkpoint # None => checkpoint.txn # 0 /\ After(checkpoint)
  /\ journal # None =>
       /\ checkpoint # None /\ Mark(journal) = Mark(checkpoint)
       /\ ~Loading => cur.minute # None /\ Mark(cur) = Mark(journal)
  /\ cur.minute # None =>
       /\ cur.txn = 0 => NothingToSave(cur)
       /\ ~Loading /\ cur.txn # 0 => After(cur)
  /\ cur.minute = None => cur.totals = {}
  /\ SavedHere => checkpoint # None /\ Mark(checkpoint) = Mark(cur)
  /\ pc \in LoadPcs \cup {"flush_save", "flush_test", "flush_journal", "flush_quality", "flush_mark",
                          "flush_clear", "flush_state"} => journal = None
  /\ pc \in {"load_quality", "load_clear"} => checkpoint # None /\ MarkedAs(checkpoint)
  /\ pc = "load_quality" => Mark(cur) = Mark(checkpoint) /\ cur.totals = {}
  /\ pc \in {"rec_delete", "flush_clear"} => IF pc = "rec_delete" THEN MarkedAs(journal) ELSE MarkedAs(cur)

(* The daily file matches the journal wherever it is relied on.            *)
TailInv ==
  /\ journal # None => TailMatches \/ pc = "unloaded" \/ (pc = "rec_raw" /\ ret = "load")
  /\ pc \in {"rec_quality", "rec_mark", "rec_delete"} => Len(day) = journal.offset + Rows

-----------------------------------------------------------------------------
(* Where a recovery may end, for each of its callers.                      *)
LEMMA Callers ==
  ASSUME TypeOK
  PROVE  \/ ret = "load" /\ Resume(ret) = "load" /\ GiveUp(ret) = "unloaded"
         \/ ret = "flush" /\ Resume(ret) = "flush_save" /\ GiveUp(ret) = "idle"
         \/ ret = "append" /\ Resume(ret) = "flush_quality" /\ GiveUp(ret) = "flush_resave"
  BY DEF TypeOK, Resume, GiveUp

(* Every step keeps MarkInv.                                               *)
LEMMA MarkStep == TypeInv /\ TypeInv' /\ MarkInv /\ [Next]_vars => MarkInv'
<1> SUFFICES ASSUME TypeInv, TypeInv', MarkInv, [Next]_vars PROVE MarkInv'
  OBVIOUS
<1> USE HistoryAssumption, NoneAssumption
<1> USE DEF TypeInv, TypeOK, Control, Dirty, RecoverPcs, LoadPcs, OpenPcs, Loading, SavedHere, After,
        MarkInv, Mark, MarkedAs, NothingToSave, HistoryAssumption, Txn, Journal, Saved, Marker, Request,
        files, members, env, ghosts
<1>1. CASE WriteRawRow
  BY <1>1 DEF WriteRawRow
<1>2. CASE CompleteRaw
  <2>1. CASE ret = "load" /\ Resume(ret) = "load" /\ GiveUp(ret) = "unloaded"
    BY <1>2, <2>1 DEF CompleteRaw
  <2>2. CASE ret = "flush" /\ Resume(ret) = "flush_save" /\ GiveUp(ret) = "idle"
    BY <1>2, <2>2 DEF CompleteRaw
  <2>3. CASE ret = "append" /\ Resume(ret) = "flush_quality" /\ GiveUp(ret) = "flush_resave"
    BY <1>2, <2>3 DEF CompleteRaw
  <2> QED
    BY <2>1, <2>2, <2>3, Callers
<1>3. CASE RecoverQuality
  <2>1. CASE ret = "load" /\ Resume(ret) = "load" /\ GiveUp(ret) = "unloaded"
    BY <1>3, <2>1 DEF RecoverQuality
  <2>2. CASE ret = "flush" /\ Resume(ret) = "flush_save" /\ GiveUp(ret) = "idle"
    BY <1>3, <2>2 DEF RecoverQuality
  <2>3. CASE ret = "append" /\ Resume(ret) = "flush_quality" /\ GiveUp(ret) = "flush_resave"
    BY <1>3, <2>3 DEF RecoverQuality
  <2> QED
    BY <2>1, <2>2, <2>3, Callers
<1>4. CASE RecoverMark
  <2>1. CASE ret = "load" /\ Resume(ret) = "load" /\ GiveUp(ret) = "unloaded"
    BY <1>4, <2>1 DEF RecoverMark, WriteMark
  <2>2. CASE ret = "flush" /\ Resume(ret) = "flush_save" /\ GiveUp(ret) = "idle"
    BY <1>4, <2>2 DEF RecoverMark, WriteMark
  <2>3. CASE ret = "append" /\ Resume(ret) = "flush_quality" /\ GiveUp(ret) = "flush_resave"
    BY <1>4, <2>3 DEF RecoverMark, WriteMark
  <2> QED
    BY <2>1, <2>2, <2>3, Callers
<1>5. CASE RecoverDelete
  <2>1. CASE ret = "load" /\ Resume(ret) = "load" /\ GiveUp(ret) = "unloaded"
    BY <1>5, <2>1 DEF RecoverDelete
  <2>2. CASE ret = "flush" /\ Resume(ret) = "flush_save" /\ GiveUp(ret) = "idle"
    BY <1>5, <2>2 DEF RecoverDelete
  <2>3. CASE ret = "append" /\ Resume(ret) = "flush_quality" /\ GiveUp(ret) = "flush_resave"
    BY <1>5, <2>3 DEF RecoverDelete
  <2> QED
    BY <2>1, <2>2, <2>3, Callers
<1>6. CASE EnsureLoaded
  BY <1>6 DEF EnsureLoaded, RecoverAppend, Resume
<1>7. CASE Load
  <2>1. CASE LoadNoCheckpoint
    BY <1>7, <2>1 DEF Load, LoadNoCheckpoint, NoTxn, Loaded
  <2>2. CASE LoadBlocked
    BY <1>7, <2>2 DEF Load, LoadBlocked, NoTxn
  <2>3. CASE LoadCommitted
    BY <1>7, <2>3 DEF Load, LoadCommitted
  <2>4. CASE LoadRestored
    BY <1>7, <2>4 DEF Load, LoadRestored, Loaded
  <2> QED
    BY <1>7, <2>1, <2>2, <2>3, <2>4 DEF Load
<1>8. CASE LoadQuality
  BY <1>8 DEF LoadQuality, NoTxn, Loaded
<1>9. CASE LoadClear
  BY <1>9 DEF LoadClear, ClearCheckpoint
<1>10. CASE LoadSaveState
  BY <1>10 DEF LoadSaveState, Loaded
<1>11. CASE LoadRepair
  BY <1>11 DEF LoadRepair
<1>12. CASE FlushEmpty
  BY <1>12 DEF FlushEmpty, ClearCheckpoint, NoTxn
<1>13. CASE FlushSave
  BY <1>13 DEF FlushSave, SaveCheckpoint
<1>14. CASE FlushTest
  BY <1>14 DEF FlushTest
<1>15. CASE FlushJournal
  BY <1>15 DEF FlushJournal, NewJournal
<1>16. CASE FlushResave
  BY <1>16 DEF FlushResave, SaveCheckpoint
<1>17. CASE FlushQuality
  BY <1>17 DEF FlushQuality
<1>18. CASE FlushMark
  BY <1>18 DEF FlushMark, WriteMark
<1>19. CASE FlushClear
  BY <1>19 DEF FlushClear, ClearCheckpoint, NoTxn
<1>20. CASE FlushState
  BY <1>20 DEF FlushState
<1>21. CASE Apply
  <2>1. PICK id \in CommitIds(OpenTxn) :
          cur' = [minute |-> OpenTxn.minute,
                  totals |-> OpenTxn.totals \cup ({call.batch} \ Gaps),
                  meta |-> OpenTxn.meta \cup {call.batch}, txn |-> id]
    BY <1>21 DEF Apply
  <2>2. cur'.minute = OpenTxn.minute /\ cur'.txn = id /\ cur'.minute # None
    BY <1>21, <2>1 DEF Apply, OpenTxn, NoTxn
  <2>3. OpenTxn.txn # 0 => cur.minute # None /\ Mark(cur') = Mark(cur) /\ After(cur)
    BY <1>21, <2>1, <2>2 DEF Apply, OpenTxn, NoTxn, CommitIds
  <2>4. OpenTxn.txn = 0 => id # 0 /\ After([txn |-> id, minute |-> cur'.minute])
    BY <2>1 DEF CommitIds, PreviousTxn, Larger
  <2>5. UNCHANGED files /\ pc' = "ckpt" /\ pc = "apply" /\ UNCHANGED ret
    BY <1>21 DEF Apply
  <2>6. cur.minute # None => OpenTxn = cur
    BY DEF OpenTxn
  <2>7. journal # None => Mark(cur') = Mark(journal)
    BY <1>21, <2>2, <2>3, <2>5, <2>6
  <2>8. After(cur') /\ cur'.txn # 0
    <3>1. CASE OpenTxn.txn # 0
      <4>1. cur'.txn = cur.txn /\ cur'.minute = cur.minute /\ cur.txn # 0
        BY <2>3, <3>1, <2>6
      <4> QED
        BY <2>3, <3>1, <4>1
    <3>2. CASE OpenTxn.txn = 0
      BY <2>2, <2>4, <3>2
    <3> QED
      BY <3>1, <3>2
  <2> QED
    BY <2>2, <2>5, <2>7, <2>8
<1>22. CASE RefuseTxn
  BY <1>22 DEF RefuseTxn, OpenTxn, NoTxn
<1>23. CASE CheckpointSave
  <2>1. cur.txn # 0 /\ After(cur) /\ cur.minute # None
    BY <1>23 DEF CheckpointSave
  <2>2. pc = "ckpt" /\ pc' \in {"ckpt_state", "idle"}
    BY <1>23 DEF CheckpointSave, SaveCheckpoint, AfterCheckpoint
  <2>3. \/ UNCHANGED checkpoint
        \/ checkpoint' = [minute |-> cur.minute, totals |-> cur.totals,
                          meta |-> cur.meta, txn |-> cur.txn, allTime |-> allTime]
    BY <1>23 DEF CheckpointSave, SaveCheckpoint
  <2> QED
    BY <1>23, <2>1, <2>2, <2>3 DEF CheckpointSave
<1>24. CASE CheckpointSkip
  BY <1>24 DEF CheckpointSkip, AfterCheckpoint
<1>25. CASE CheckpointState
  BY <1>25 DEF CheckpointState
<1>26. ASSUME NEW b \in Batches, Update(b) PROVE MarkInv'
  <2>1. UNCHANGED <<files, members>> /\ pc = "idle"
    BY <1>26 DEF Update
  <2>2. \/ pc' = "apply" /\ ret' = ret
        \/ pc' = "flush_save" /\ ret' = "flush" /\ journal = None
        \/ pc' = "rec_raw" /\ ret' = "flush"
    BY <1>26 DEF Update, RecoverAppend, Resume
  <2> QED
    BY <2>1, <2>2
<1>27. CASE Checkpoint
  BY <1>27 DEF Checkpoint
<1>28. CASE SetPreferred
  BY <1>28 DEF SetPreferred
<1>29. CASE Crash
  BY <1>29 DEF Crash, NoTxn
<1>30. CASE ExternalEdit
  BY <1>30 DEF ExternalEdit
<1>31. CASE UNCHANGED vars
  BY <1>31 DEF vars
<1> QED
  BY <1>1, <1>2, <1>3, <1>4, <1>5, <1>6, <1>7, <1>8, <1>9, <1>10, <1>11, <1>12, <1>13, <1>14, <1>15, <1>16, <1>17, <1>18, <1>19, <1>20, <1>21, <1>22, <1>23, <1>24, <1>25, <1>26, <1>27, <1>28, <1>29, <1>30, <1>31
     DEF Next, Step, Recover, LoadStep, Flush, Commit

LEMMA MarkInit == Init => MarkInv
  BY DEF Init, MarkInv, SavedHere, Loading, NoTxn, LoadPcs, RecoverPcs

(* Only RecoverMark and FlushMark write the marker.                        *)
LEMMA MarkersGrow ==
  ASSUME TypeInv, MarkInv, [Next]_vars, commit # None, commit' # commit
  PROVE  commit'.txn > commit.txn
<1> USE HistoryAssumption, NoneAssumption DEF TypeInv, TypeOK, Journal, Saved, Marker, Txn, After
<1>1. CASE RecoverMark
  <2>1. checkpoint # None /\ After(checkpoint) /\ Mark(journal) = Mark(checkpoint)
    BY <1>1 DEF MarkInv, Control, RecoverPcs, RecoverMark
  <2>2. commit' = Mark(journal)
    BY <1>1 DEF RecoverMark, WriteMark
  <2> QED
    BY <2>1, <2>2 DEF Mark
<1>2. CASE FlushMark
  <2>1. checkpoint # None /\ Mark(checkpoint) = Mark(cur) /\ After(checkpoint)
    BY <1>2 DEF MarkInv, SavedHere, FlushMark
  <2>2. commit' = Mark(cur)
    BY <1>2 DEF FlushMark, WriteMark
  <2> QED
    BY <2>1, <2>2 DEF Mark
<1>3. CASE [Next]_vars /\ ~RecoverMark /\ ~FlushMark
  <2>1. UNCHANGED commit
    BY <1>3 DEF vars, files, Next, Step, Recover, LoadStep, Flush, Commit, WriteRawRow, CompleteRaw,
      RecoverQuality, RecoverDelete, EnsureLoaded, Load, LoadQuality, LoadClear, LoadSaveState, LoadRepair,
      FlushEmpty, FlushSave, FlushTest, FlushJournal, FlushResave, FlushQuality, FlushClear, FlushState,
      Apply, RefuseTxn, CheckpointSave, CheckpointSkip, CheckpointState, Update, Checkpoint, SetPreferred,
      Crash, ExternalEdit
  <2> QED
    BY <2>1
<1> QED
  BY <1>1, <1>2, <1>3

(* EnsureCommitId and the order of a flush's files: a block is committed   *)
(* under a later transaction than the one the marker names, whatever       *)
(* failed, was killed, or was set back.                                    *)
THEOREM MarkersGrowForever == Spec => MarkersIncrease
<1>1. TypeInv /\ MarkInv /\ [Next]_vars => (TypeInv /\ MarkInv)'
  BY TypeStep, MarkStep
<1>2. TypeInv /\ MarkInv /\ [Next]_vars => [(commit # None /\ commit' # commit) => commit'.txn > commit.txn]_vars
  BY MarkersGrow
<1> QED
  BY <1>1, <1>2, TypeInit, MarkInit, PTL DEF Spec, MarkersIncrease

-----------------------------------------------------------------------------
(* The tail of the daily file.  What CompleteRawAppend tests is that it    *)
(* matches the journal.                                                    *)
LEMMA ConsistentTail ==
  ASSUME TypeOK, journal # None
  PROVE  RawConsistent <=> TailMatches
<1>1. Len(day) \in Nat /\ journal.offset \in Nat /\ Rows \in Nat
  BY HistoryAssumption DEF HistoryAssumption, TypeOK, Journal
<1>2. \A r \in 1..Rows : Block(journal)[r] = [minute |-> journal.minute, app |-> r, batches |-> journal.totals]
  BY DEF Block
<1> USE <1>1, <1>2 DEF RawConsistent, TailMatches, Present, Anchor
<1>3. ASSUME RawConsistent PROVE TailMatches
  <2>1. SUFFICES ASSUME NEW r \in 1..Rows, journal.offset + r <= Len(day)
                 PROVE  day[journal.offset + r] = Block(journal)[r]
    BY <1>3
  <2>2. r \in 1..Present
    BY <2>1
  <2> QED
    BY <1>3, <2>2
<1>4. ASSUME TailMatches PROVE RawConsistent
  <2>1. SUFFICES ASSUME NEW r \in 1..Present
                 PROVE  day[journal.offset + r] = Block(journal)[r]
    BY <1>4
  <2>2. r \in 1..Rows /\ journal.offset + r <= Len(day)
    BY <1>4, <2>1
  <2> QED
    BY <1>4, <2>2
<1> QED
  BY <1>3, <1>4

(* One more row of the journalled block still matches it.                  *)
LEMMA NextRowMatches ==
  ASSUME TypeOK, journal # None, TailMatches, WriteRawRow
  PROVE  TailMatches'
<1>1. /\ day' = Append(day, NextRow) /\ journal' = journal /\ Present < Rows
  BY DEF WriteRawRow
<1>2. Len(day) \in Nat /\ journal.offset \in Nat /\ Rows \in Nat
      /\ Len(day) \in journal.offset..(journal.offset + Rows)
  BY HistoryAssumption DEF HistoryAssumption, TypeOK, Journal, TailMatches
<1>3. /\ Len(day') = Len(day) + 1
      /\ \A i \in 1..Len(day) : day'[i] = day[i]
      /\ day'[Len(day) + 1] = NextRow
  BY <1>1 DEF TypeOK
<1>4. NextRow = [minute |-> journal.minute, app |-> Present + 1, batches |-> journal.totals]
  BY <1>1, <1>2 DEF NextRow, Block, Present
<1>5. Len(day') \in journal.offset..(journal.offset + Rows)
  BY <1>1, <1>2, <1>3 DEF Present
<1>6. journal.offset # 0 => day'[journal.offset] = day[journal.offset]
  BY <1>2, <1>3
<1>7. ASSUME NEW r \in 1..Rows, journal.offset + r <= Len(day')
      PROVE  day'[journal.offset + r] = [minute |-> journal.minute, app |-> r, batches |-> journal.totals]
  <2>1. CASE journal.offset + r <= Len(day)
    <3>1. day'[journal.offset + r] = day[journal.offset + r]
      BY <1>2, <1>3, <2>1
    <3> QED
      BY <2>1, <3>1 DEF TailMatches
  <2>2. CASE journal.offset + r = Len(day) + 1
    <3>1. r = Present + 1
      BY <1>2, <2>2 DEF Present
    <3> QED
      BY <1>3, <1>4, <2>2, <3>1
  <2> QED
    BY <1>2, <1>3, <1>7, <2>1, <2>2
<1> QED
  BY <1>1, <1>5, <1>6, <1>7 DEF TailMatches

(* Every step keeps TailInv.                                               *)
LEMMA TailStep == TypeInv /\ MarkInv /\ TailInv /\ [Next]_vars => TailInv'
<1> SUFFICES ASSUME TypeInv, MarkInv, TailInv, [Next]_vars PROVE TailInv'
  OBVIOUS
<1> USE HistoryAssumption, NoneAssumption
<1>1. CASE WriteRawRow
  <2>1. journal # None /\ pc = "rec_raw" /\ UNCHANGED <<journal, pc, ret>>
    BY <1>1 DEF WriteRawRow, TypeInv, Control, RecoverPcs
  <2>2. TailMatches
    BY <1>1, <2>1, ConsistentTail DEF WriteRawRow, TypeInv
  <2>3. TailMatches'
    BY <1>1, <2>1, <2>2, NextRowMatches DEF TypeInv
  <2> QED
    BY <2>1, <2>3 DEF TailInv
<1>2. CASE FlushJournal
  <2>1. UNCHANGED day /\ (UNCHANGED journal \/ journal' = NewJournal)
        /\ pc' \notin {"rec_quality", "rec_mark", "rec_delete"} /\ journal = None
    BY <1>2 DEF FlushJournal, MarkInv
  <2>2. ASSUME journal' = NewJournal PROVE TailMatches'
    <3>1. /\ journal'.offset = Len(day) /\ journal'.anchor = Anchor(Len(day)) /\ UNCHANGED day
          /\ Len(day) \in Nat /\ Rows \in Nat
      BY <2>1, <2>2 DEF NewJournal, TypeInv, TypeOK, HistoryAssumption
    <3> QED
      BY <3>1 DEF TailMatches, Anchor
  <2> QED
    BY <2>1, <2>2 DEF TailInv
<1>3. CASE ExternalEdit
  BY <1>3 DEF ExternalEdit, TailInv
<1>4. CASE CompleteRaw
  <2>1. UNCHANGED <<day, journal, ret>> /\ pc = "rec_raw" /\ journal # None
    BY <1>4 DEF CompleteRaw, files, TypeInv, Control, RecoverPcs
  <2>2. TailMatches' <=> TailMatches
    BY <2>1 DEF TailMatches
  <2>3. ~TailMatches => pc' = "unloaded"
    BY <1>4, <2>1, Callers, ConsistentTail DEF CompleteRaw, TailInv, TypeInv
  <2>4. pc' \in {"rec_quality", "unloaded", "idle", "flush_resave"}
    BY <1>4, Callers DEF CompleteRaw, TypeInv
  <2>5. pc' = "rec_quality" => Len(day) = journal.offset + Rows
    <3>1. ASSUME pc' = "rec_quality" PROVE Present = Rows
      BY <1>4, <3>1, Callers DEF CompleteRaw, TypeInv
    <3> QED
      BY <2>1, <3>1 DEF Present, TypeInv, TypeOK, Journal, HistoryAssumption
  <2> QED
    BY <2>1, <2>2, <2>3, <2>4, <2>5 DEF TailInv
<1>5. CASE [Next]_vars /\ ~WriteRawRow /\ ~FlushJournal /\ ~ExternalEdit /\ ~CompleteRaw
  <2>1. /\ UNCHANGED day
        /\ journal' = journal \/ journal' = None
        /\ pc' \in {"rec_quality", "rec_mark", "rec_delete"} => pc \in {"rec_quality", "rec_mark"} \/ pc' = pc
        /\ pc = "unloaded" =>
             pc' = "unloaded" \/ (pc' = "rec_raw" /\ ret' = "load") \/ journal = None
        /\ pc = "rec_raw" => pc' = "unloaded" \/ UNCHANGED <<pc, ret>>
    BY <1>5 DEF vars, files, Next, Step, Recover, LoadStep, Flush, Commit, TypeInv, Control, RecoverPcs, LoadPcs,
      RecoverAppend, Resume, GiveUp, Loaded, AfterCheckpoint, SaveCheckpoint,
      RecoverQuality, RecoverMark, RecoverDelete, EnsureLoaded, Load, LoadNoCheckpoint, LoadBlocked, LoadCommitted,
      LoadRestored, LoadQuality, LoadClear, LoadSaveState, LoadRepair, TypeOK,
      FlushEmpty, FlushSave, FlushTest, FlushResave, FlushQuality, FlushMark, FlushClear, FlushState,
      Apply, RefuseTxn, CheckpointSave, CheckpointSkip, CheckpointState, Update, Checkpoint, SetPreferred,
      Crash
  <2>2. journal' = journal => (TailMatches' <=> TailMatches)
    BY <2>1 DEF TailMatches
  <2>3. TypeInv'
    BY TypeStep
  <2>4. pc' \in {"rec_quality", "rec_mark", "rec_delete"} => journal' = journal
    BY <2>1, <2>3 DEF TypeInv, Control, RecoverPcs
  <2> QED
    BY <2>1, <2>2, <2>4 DEF TailInv
<1> QED
  BY <1>1, <1>2, <1>3, <1>4, <1>5

-----------------------------------------------------------------------------
(* The clock.  A flush is of an earlier minute, and what is journalled or  *)
(* committed is of an earlier minute still, unless the clock is set back.  *)
Flushing == pc \in OpenPcs \cup {"flush_clear"} \/ (pc \in RecoverPcs /\ ret # "load")

ClockInv ==
  /\ call # None => call.key = clock
  /\ pc = "apply" => cur.minute \in {None, call.key}
  /\ pc = "flush_state" => cur.minute = None
  /\ ~ClockRollback =>
       /\ commit # None => commit.minute < clock
       /\ journal # None => journal.minute < clock
       /\ checkpoint # None => checkpoint.minute <= clock
       /\ cur.minute # None => cur.minute <= clock
       /\ Flushing => cur.minute < clock

(* Without failed writes a journal does not outlive its flush, and the     *)
(* minute in RAM is not a committed one.                                   *)
FaultInv ==
  /\ faults \in Nat /\ readFaults \in Nat /\ edits \in Nat
  /\ MaxEdits = 0 => edits = 0
  /\ commit # None => commit.txn # 0
  /\ MaxFaults = 0 =>
       /\ pc \notin RecoverPcs \cup {"unloaded", "load", "load_quality",
                                     "flush_quality", "flush_mark", "flush_clear"} =>
            journal = None /\ (cur.minute # None => ~MarkedAs(cur))
       /\ pc # "flush_resave" /\ ~(pc \in RecoverPcs /\ ret = "flush")

(* The minute that Update flushes is over, unless the clock was set back.  *)
LEMMA ClockUpdate ==
  ASSUME TypeOK, ClockInv, NEW b \in Batches, Update(b)
  PROVE  ClockInv'
<1>1. PICK m \in Minutes :
        /\ ClockRollback \/ m >= clock
        /\ clock' = m /\ call' = [batch |-> b, key |-> m]
        /\ IF cur.minute \notin {None, m} THEN RecoverAppend("flush")
                                         ELSE pc' = "apply" /\ UNCHANGED ret
  BY DEF Update
<1>2. UNCHANGED <<commit, journal, checkpoint, cur>> /\ call'.key = m
  BY <1>1 DEF Update, files, members
<1>3. \/ cur.minute \in {None, m} /\ pc' = "apply"
      \/ cur.minute \notin {None, m} /\ pc' \in {"rec_raw", "flush_save"}
  BY <1>1 DEF RecoverAppend, Resume
<1>4. /\ m \in Nat /\ clock \in Nat
      /\ commit # None => commit.minute \in Nat
      /\ journal # None => journal.minute \in Nat
      /\ checkpoint # None => checkpoint.minute \in Nat
      /\ cur.minute # None => cur.minute \in Nat
  BY HistoryAssumption DEF HistoryAssumption, TypeOK, Marker, Journal, Saved, Txn
<1>5. ~ClockRollback => /\ clock <= m
                        /\ commit # None => commit.minute < m
                        /\ journal # None => journal.minute < m
                        /\ checkpoint # None => checkpoint.minute <= m
                        /\ cur.minute # None => cur.minute <= m
  BY <1>1, <1>4 DEF ClockInv
<1>6. ~ClockRollback /\ Flushing' => cur'.minute < m
  BY <1>2, <1>3, <1>4, <1>5 DEF Flushing, OpenPcs, RecoverPcs
<1> QED
  BY <1>1, <1>2, <1>3, <1>5, <1>6 DEF ClockInv

(* Every step keeps ClockInv.                                              *)
LEMMA ClockStep == TypeInv /\ TypeInv' /\ MarkInv /\ ClockInv /\ [Next]_vars => ClockInv'
<1> SUFFICES ASSUME TypeInv, TypeInv', MarkInv, ClockInv, [Next]_vars PROVE ClockInv'
  OBVIOUS
<1> USE HistoryAssumption, NoneAssumption
<1> USE DEF TypeInv, TypeOK, Control, RecoverPcs, LoadPcs, OpenPcs, Loading, Mark, MarkedAs, HistoryAssumption,
        Txn, Journal, Saved, Marker, Request, files, members, env, ghosts, ClockInv, Flushing, MarkInv, SavedHere
<1>1. CASE WriteRawRow
  BY <1>1 DEF WriteRawRow
<1>2. CASE CompleteRaw
  <2>1. CASE ret = "load" /\ Resume(ret) = "load" /\ GiveUp(ret) = "unloaded"
    BY <1>2, <2>1 DEF CompleteRaw
  <2>2. CASE ret = "flush" /\ Resume(ret) = "flush_save" /\ GiveUp(ret) = "idle"
    BY <1>2, <2>2 DEF CompleteRaw
  <2>3. CASE ret = "append" /\ Resume(ret) = "flush_quality" /\ GiveUp(ret) = "flush_resave"
    BY <1>2, <2>3 DEF CompleteRaw
  <2> QED
    BY <2>1, <2>2, <2>3, Callers
<1>3. CASE RecoverQuality
  <2>1. CASE ret = "load" /\ Resume(ret) = "load" /\ GiveUp(ret) = "unloaded"
    BY <1>3, <2>1 DEF RecoverQuality
  <2>2. CASE ret = "flush" /\ Resume(ret) = "flush_save" /\ GiveUp(ret) = "idle"
    BY <1>3, <2>2 DEF RecoverQuality
  <2>3. CASE ret = "append" /\ Resume(ret) = "flush_quality" /\ GiveUp(ret) = "flush_resave"
    BY <1>3, <2>3 DEF RecoverQuality
  <2> QED
    BY <2>1, <2>2, <2>3, Callers
<1>4. CASE RecoverMark
  <2>1. CASE ret = "load" /\ Resume(ret) = "load" /\ GiveUp(ret) = "unloaded"
    BY <1>4, <2>1 DEF RecoverMark, WriteMark
  <2>2. CASE ret = "flush" /\ Resume(ret) = "flush_save" /\ GiveUp(ret) = "idle"
    BY <1>4, <2>2 DEF RecoverMark, WriteMark
  <2>3. CASE ret = "append" /\ Resume(ret) = "flush_quality" /\ GiveUp(ret) = "flush_resave"
    BY <1>4, <2>3 DEF RecoverMark, WriteMark
  <2> QED
    BY <2>1, <2>2, <2>3, Callers
<1>5. CASE RecoverDelete
  <2>1. CASE ret = "load" /\ Resume(ret) = "load" /\ GiveUp(ret) = "unloaded"
    BY <1>5, <2>1 DEF RecoverDelete
  <2>2. CASE ret = "flush" /\ Resume(ret) = "flush_save" /\ GiveUp(ret) = "idle"
    BY <1>5, <2>2 DEF RecoverDelete
  <2>3. CASE ret = "append" /\ Resume(ret) = "flush_quality" /\ GiveUp(ret) = "flush_resave"
    BY <1>5, <2>3 DEF RecoverDelete
  <2> QED
    BY <2>1, <2>2, <2>3, Callers
<1>6. CASE EnsureLoaded
  BY <1>6 DEF EnsureLoaded, RecoverAppend, Resume
<1>7. CASE Load
  <2>1. CASE LoadNoCheckpoint
    BY <1>7, <2>1 DEF Load, LoadNoCheckpoint, NoTxn, Loaded
  <2>2. CASE LoadBlocked
    BY <1>7, <2>2 DEF Load, LoadBlocked, NoTxn
  <2>3. CASE LoadCommitted
    BY <1>7, <2>3 DEF Load, LoadCommitted
  <2>4. CASE LoadRestored
    BY <1>7, <2>4 DEF Load, LoadRestored, Loaded
  <2> QED
    BY <1>7, <2>1, <2>2, <2>3, <2>4 DEF Load
<1>8. CASE LoadQuality
  BY <1>8 DEF LoadQuality, NoTxn, Loaded
<1>9. CASE LoadClear
  BY <1>9 DEF LoadClear, ClearCheckpoint
<1>10. CASE LoadSaveState
  BY <1>10 DEF LoadSaveState, Loaded
<1>11. CASE LoadRepair
  BY <1>11 DEF LoadRepair
<1>12. CASE FlushEmpty
  BY <1>12 DEF FlushEmpty, ClearCheckpoint, NoTxn
<1>13. CASE FlushSave
  BY <1>13 DEF FlushSave, SaveCheckpoint
<1>14. CASE FlushTest
  BY <1>14 DEF FlushTest
<1>15. CASE FlushJournal
  BY <1>15 DEF FlushJournal, NewJournal
<1>16. CASE FlushResave
  BY <1>16 DEF FlushResave, SaveCheckpoint
<1>17. CASE FlushQuality
  BY <1>17 DEF FlushQuality
<1>18. CASE FlushMark
  BY <1>18 DEF FlushMark, WriteMark
<1>19. CASE FlushClear
  BY <1>19 DEF FlushClear, ClearCheckpoint, NoTxn
<1>20. CASE FlushState
  <2>1. pc = "flush_state" /\ pc' = "apply" /\ UNCHANGED <<commit, journal, checkpoint, cur, clock, call>>
    BY <1>20 DEF FlushState
  <2>2. cur.minute = None
    BY <1>20 DEF FlushState
  <2> QED
    BY <2>1, <2>2
<1>21. CASE Apply
  BY <1>21 DEF Apply, OpenTxn, NoTxn
<1>22. CASE RefuseTxn
  BY <1>22 DEF RefuseTxn, OpenTxn, NoTxn
<1>23. CASE CheckpointSave
  <2>1. pc' \in {"ckpt_state", "idle"} /\ UNCHANGED <<commit, journal, cur, clock, call>>
    BY <1>23 DEF CheckpointSave, SaveCheckpoint, AfterCheckpoint
  <2>2. \/ UNCHANGED checkpoint
        \/ checkpoint' = [minute |-> cur.minute, totals |-> cur.totals,
                          meta |-> cur.meta, txn |-> cur.txn, allTime |-> allTime]
    BY <1>23 DEF CheckpointSave, SaveCheckpoint
  <2> QED
    BY <1>23, <2>1, <2>2 DEF CheckpointSave, Dirty
<1>24. CASE CheckpointSkip
  BY <1>24 DEF CheckpointSkip, AfterCheckpoint
<1>25. CASE CheckpointState
  BY <1>25 DEF CheckpointState
<1>26. ASSUME NEW b \in Batches, Update(b) PROVE ClockInv'
  BY <1>26, ClockUpdate
<1>27. CASE Checkpoint
  BY <1>27 DEF Checkpoint
<1>28. CASE SetPreferred
  BY <1>28 DEF SetPreferred
<1>29. CASE Crash
  BY <1>29 DEF Crash, NoTxn
<1>30. CASE ExternalEdit
  BY <1>30 DEF ExternalEdit
<1>31. CASE UNCHANGED vars
  BY <1>31 DEF vars
<1> QED
  BY <1>1, <1>2, <1>3, <1>4, <1>5, <1>6, <1>7, <1>8, <1>9, <1>10, <1>11, <1>12,
     <1>13, <1>14, <1>15, <1>16, <1>17, <1>18, <1>19, <1>20, <1>21, <1>22, <1>23, <1>24,
     <1>25, <1>26, <1>27, <1>28, <1>29, <1>30, <1>31
     DEF Next, Step, Recover, LoadStep, Flush, Commit

(* Every step keeps FaultInv.                                              *)
LEMMA FaultStep == TypeInv /\ TypeInv' /\ MarkInv /\ TailInv /\ FaultInv /\ [Next]_vars => FaultInv'
<1> SUFFICES ASSUME TypeInv, TypeInv', MarkInv, TailInv, FaultInv, [Next]_vars PROVE FaultInv'
  OBVIOUS
<1> USE HistoryAssumption, NoneAssumption
<1> USE DEF TypeInv, TypeOK, Control, RecoverPcs, LoadPcs, OpenPcs, Loading, Mark, MarkedAs, HistoryAssumption,
        Txn, Journal, Saved, Marker, Request, files, members, env, ghosts, FaultInv, MarkInv, SavedHere, NoFault, Fault, ReadFault
<1>1. CASE WriteRawRow
  BY <1>1 DEF WriteRawRow
<1>2. CASE CompleteRaw
  <2>1. CASE ret = "load" /\ Resume(ret) = "load" /\ GiveUp(ret) = "unloaded"
    BY <1>2, <2>1 DEF CompleteRaw
  <2>2. CASE ret = "flush" /\ Resume(ret) = "flush_save" /\ GiveUp(ret) = "idle"
    BY <1>2, <2>2 DEF CompleteRaw
  <2>3. CASE ret = "append" /\ Resume(ret) = "flush_quality" /\ GiveUp(ret) = "flush_resave"
    <3>1. journal # None /\ TailMatches
      BY <1>2, <2>3 DEF CompleteRaw, TailInv
    <3>2. RawConsistent
      BY <3>1, ConsistentTail
    <3> QED
      BY <1>2, <2>3, <3>2 DEF CompleteRaw
  <2> QED
    BY <2>1, <2>2, <2>3, Callers
<1>3. CASE RecoverQuality
  <2>1. CASE ret = "load" /\ Resume(ret) = "load" /\ GiveUp(ret) = "unloaded"
    BY <1>3, <2>1 DEF RecoverQuality
  <2>2. CASE ret = "flush" /\ Resume(ret) = "flush_save" /\ GiveUp(ret) = "idle"
    BY <1>3, <2>2 DEF RecoverQuality
  <2>3. CASE ret = "append" /\ Resume(ret) = "flush_quality" /\ GiveUp(ret) = "flush_resave"
    BY <1>3, <2>3 DEF RecoverQuality
  <2> QED
    BY <2>1, <2>2, <2>3, Callers
<1>4. CASE RecoverMark
  <2>1. CASE ret = "load" /\ Resume(ret) = "load" /\ GiveUp(ret) = "unloaded"
    BY <1>4, <2>1 DEF RecoverMark, WriteMark
  <2>2. CASE ret = "flush" /\ Resume(ret) = "flush_save" /\ GiveUp(ret) = "idle"
    BY <1>4, <2>2 DEF RecoverMark, WriteMark
  <2>3. CASE ret = "append" /\ Resume(ret) = "flush_quality" /\ GiveUp(ret) = "flush_resave"
    BY <1>4, <2>3 DEF RecoverMark, WriteMark
  <2> QED
    BY <2>1, <2>2, <2>3, Callers
<1>5. CASE RecoverDelete
  <2>1. CASE ret = "load" /\ Resume(ret) = "load" /\ GiveUp(ret) = "unloaded"
    BY <1>5, <2>1 DEF RecoverDelete
  <2>2. CASE ret = "flush" /\ Resume(ret) = "flush_save" /\ GiveUp(ret) = "idle"
    BY <1>5, <2>2 DEF RecoverDelete
  <2>3. CASE ret = "append" /\ Resume(ret) = "flush_quality" /\ GiveUp(ret) = "flush_resave"
    BY <1>5, <2>3 DEF RecoverDelete
  <2> QED
    BY <2>1, <2>2, <2>3, Callers
<1>6. CASE EnsureLoaded
  BY <1>6 DEF EnsureLoaded, RecoverAppend, Resume
<1>7. CASE Load
  <2>1. CASE LoadNoCheckpoint
    BY <1>7, <2>1 DEF Load, LoadNoCheckpoint, NoTxn, Loaded
  <2>2. CASE LoadBlocked
    <3>1. pc' = "unloaded" /\ ReadFault /\ UNCHANGED <<commit, edits>>
      BY <1>7, <2>2 DEF Load, LoadBlocked
    <3> QED
      BY <3>1
  <2>3. CASE LoadCommitted
    BY <1>7, <2>3 DEF Load, LoadCommitted
  <2>4. CASE LoadRestored
    BY <1>7, <2>4 DEF Load, LoadRestored, Loaded
  <2> QED
    BY <1>7, <2>1, <2>2, <2>3, <2>4 DEF Load
<1>8. CASE LoadQuality
  <2>1. pc' \in {"load_clear", "idle", "load_repair"} /\ UNCHANGED <<journal, commit, edits>> /\ (NoFault \/ Fault)
    BY <1>8 DEF LoadQuality, Loaded
  <2>2. MaxFaults = 0 => cur'.minute = None
    BY <1>8 DEF LoadQuality, NoTxn
  <2> QED
    BY <1>8, <2>1, <2>2 DEF LoadQuality
<1>9. CASE LoadClear
  BY <1>9 DEF LoadClear, ClearCheckpoint
<1>10. CASE LoadSaveState
  BY <1>10 DEF LoadSaveState, SaveState, Loaded
<1>11. CASE LoadRepair
  BY <1>11 DEF LoadRepair, SaveState
<1>12. CASE FlushEmpty
  BY <1>12 DEF FlushEmpty, ClearCheckpoint, NoTxn
<1>13. CASE FlushSave
  BY <1>13 DEF FlushSave, SaveCheckpoint
<1>14. CASE FlushTest
  BY <1>14 DEF FlushTest
<1>15. CASE FlushJournal
  BY <1>15 DEF FlushJournal, NewJournal
<1>16. CASE FlushResave
  BY <1>16 DEF FlushResave, SaveCheckpoint
<1>17. CASE FlushQuality
  BY <1>17 DEF FlushQuality
<1>18. CASE FlushMark
  BY <1>18 DEF FlushMark, WriteMark
<1>19. CASE FlushClear
  BY <1>19 DEF FlushClear, ClearCheckpoint, NoTxn
<1>20. CASE FlushState
  BY <1>20 DEF FlushState
<1>21. CASE Apply
  <2>1. PICK id \in CommitIds(OpenTxn) :
          cur' = [minute |-> OpenTxn.minute,
                  totals |-> OpenTxn.totals \cup ({call.batch} \ Gaps),
                  meta |-> OpenTxn.meta \cup {call.batch}, txn |-> id]
    BY <1>21 DEF Apply
  <2>2. cur'.minute = OpenTxn.minute /\ cur'.txn = id
    BY <2>1
  <2>3. OpenTxn.txn # 0 => Mark(cur') = Mark(cur) /\ cur.minute # None
    BY <2>2, <2>1 DEF OpenTxn, NoTxn, CommitIds
  <2>4. OpenTxn.txn = 0 => commit = None \/ id > commit.txn
    BY <2>1 DEF CommitIds, PreviousTxn, Larger
  <2>5. MaxFaults = 0 => commit # Mark(cur')
    <3>1. CASE OpenTxn.txn # 0
      BY <1>21, <2>3, <3>1 DEF Apply
    <3>2. CASE OpenTxn.txn = 0
      <4>1. id \in Nat
        BY <2>1, CommitIdsNat DEF OpenTxn, NoTxn
      <4>2. cur'.minute \in Minutes
        BY <1>21, <2>2 DEF Apply, OpenTxn, NoTxn
      <4>3. Mark(cur') \in Marker /\ Mark(cur').txn = id
        BY <2>2, <4>1, <4>2
      <4>4. commit # None => Mark(cur').txn > commit.txn
        BY <2>4, <3>2, <4>3
      <4> HIDE DEF Mark
      <4> QED
        BY <4>1, <4>3, <4>4
    <3> QED
      BY <3>1, <3>2
  <2>6. pc = "apply" /\ pc' = "ckpt" /\ UNCHANGED <<journal, commit, faults, readFaults, edits>>
    BY <1>21 DEF Apply
  <2> QED
    BY <2>5, <2>6
<1>22. CASE RefuseTxn
  <2>1. cur'.txn = 0
    BY <1>22 DEF RefuseTxn, OpenTxn, NoTxn
  <2>2. pc' = "idle" /\ pc = "apply" /\ UNCHANGED <<journal, commit, edits>> /\ ReadFault
    BY <1>22 DEF RefuseTxn
  <2> QED
    BY <2>1, <2>2
<1>23. CASE CheckpointSave
  <2>1. pc = "ckpt" /\ pc' \in {"ckpt_state", "idle"} /\ UNCHANGED <<journal, commit, cur, edits>> /\ (NoFault \/ Fault)
    BY <1>23 DEF CheckpointSave, SaveCheckpoint, AfterCheckpoint
  <2> QED
    BY <2>1
<1>24. CASE CheckpointSkip
  BY <1>24 DEF CheckpointSkip, AfterCheckpoint
<1>25. CASE CheckpointState
  BY <1>25 DEF CheckpointState
<1>26. ASSUME NEW b \in Batches, Update(b) PROVE FaultInv'
  BY <1>26 DEF Update, RecoverAppend, Resume
<1>27. CASE Checkpoint
  BY <1>27 DEF Checkpoint
<1>28. CASE SetPreferred
  BY <1>28 DEF SetPreferred, SaveState
<1>29. CASE Crash
  BY <1>29 DEF Crash, NoTxn
<1>30. CASE ExternalEdit
  <2>1. /\ pc = "unloaded" /\ pc' = pc /\ UNCHANGED <<commit, faults, readFaults>>
        /\ edits < MaxEdits /\ edits' = edits + 1
    BY <1>30 DEF ExternalEdit
  <2> QED
    BY <2>1
<1>31. CASE UNCHANGED vars
  BY <1>31 DEF vars
<1> QED
  BY <1>1, <1>2, <1>3, <1>4, <1>5, <1>6, <1>7, <1>8, <1>9, <1>10, <1>11, <1>12,
     <1>13, <1>14, <1>15, <1>16, <1>17, <1>18, <1>19, <1>20, <1>21, <1>22, <1>23, <1>24,
     <1>25, <1>26, <1>27, <1>28, <1>29, <1>30, <1>31
     DEF Next, Step, Recover, LoadStep, Flush, Commit

-----------------------------------------------------------------------------
(* Every batch in a total was applied, and has its provenance with it.     *)
FileBatches == UNION {day[i].batches : i \in 1..Len(day)}

AppliedInv ==
  /\ FileBatches \subseteq applied \ Gaps
  /\ cur.totals \subseteq (applied \ Gaps) \cap cur.meta
  /\ cur.minute # None /\ cur.txn # 0 => cur.meta # {}
  /\ checkpoint # None =>
       /\ checkpoint.totals \subseteq (applied \ Gaps) \cap checkpoint.meta
       /\ checkpoint.meta # {}
  /\ journal # None => journal.totals \subseteq (applied \ Gaps) \cap journal.meta
  /\ pc = "load_quality" => cur.meta = checkpoint.meta
  /\ call # None => call.batch \notin applied

(* What a step does to the rows of the file, and to the batches in them.   *)
LEMMA FileSame ==
  ASSUME UNCHANGED day
  PROVE  FileBatches' = FileBatches /\ DayBatches' = DayBatches
  BY DEF FileBatches, DayBatches

(* What writing the next row of a block does.                              *)
LEMMA RowWritten ==
  ASSUME TypeInv, WriteRawRow
  PROVE  /\ journal # None /\ TailMatches /\ Present \in 0..(Rows - 1)
         /\ Len(day) = journal.offset + Present /\ Len(day') = Len(day) + 1
         /\ \A i \in 1..Len(day) : day'[i] = day[i]
         /\ day'[Len(day')] = [minute |-> journal.minute, app |-> Present + 1, batches |-> journal.totals]
         /\ UNCHANGED <<journal, commit, checkpoint, stateAll, quality, members, pc, ret, call, env, ghosts>>
<1>1. journal # None /\ UNCHANGED <<journal, commit, checkpoint, stateAll, quality, members, pc, ret, call, env, ghosts>>
  BY DEF WriteRawRow, TypeInv, Control, RecoverPcs
<1>2. TailMatches
  BY <1>1, ConsistentTail DEF WriteRawRow, TypeInv
<1>3. Len(day) \in Nat /\ journal.offset \in Nat /\ Rows \in Nat
  BY <1>1, HistoryAssumption DEF HistoryAssumption, TypeInv, TypeOK, Journal
<1>4. Present \in 0..(Rows - 1) /\ Len(day) = journal.offset + Present
  BY <1>2, <1>3 DEF TailMatches, WriteRawRow, Present
<1>5. NextRow = [minute |-> journal.minute, app |-> Present + 1, batches |-> journal.totals]
  BY <1>3, <1>4 DEF NextRow, Block
<1>6. /\ Len(day') = Len(day) + 1 /\ day'[Len(day) + 1] = NextRow
      /\ \A i \in 1..Len(day) : day'[i] = day[i]
  BY DEF WriteRawRow, TypeInv, TypeOK
<1> QED
  BY <1>1, <1>2, <1>4, <1>5, <1>6

LEMMA FileGrows ==
  ASSUME TypeInv, WriteRawRow
  PROVE  /\ FileBatches' = FileBatches \cup journal.totals
         /\ DayBatches \subseteq DayBatches' /\ DayBatches' \subseteq DayBatches \cup journal.totals
<1>1. Len(day) \in Nat
  BY DEF TypeInv, TypeOK
<1>2. \A i : i \in 1..Len(day') <=> i \in 1..Len(day) \/ i = Len(day')
  BY <1>1, RowWritten
<1>3. day'[Len(day')].batches = journal.totals
  BY RowWritten
<1>4. \A i \in 1..Len(day) : day'[i] = day[i]
  BY RowWritten
<1>5. FileBatches' = FileBatches \cup journal.totals
  BY <1>2, <1>3, <1>4 DEF FileBatches
<1>6. DayBatches \subseteq DayBatches'
  BY <1>2, <1>4 DEF DayBatches
<1>7. DayBatches' \subseteq DayBatches \cup journal.totals
  BY <1>2, <1>3, <1>4 DEF DayBatches
<1> QED
  BY <1>5, <1>6, <1>7

(* What an edit of the daily file does.                                    *)
LEMMA RowCut ==
  ASSUME TypeInv, ExternalEdit
  PROVE  /\ Len(day') = Len(day) /\ Len(day) \in Nat
         /\ \A i \in 1..Len(day) : day'[i].batches \subseteq day[i].batches /\ day'[i].app = day[i].app
         /\ FileBatches' \subseteq FileBatches
         /\ edits' = edits + 1 /\ pc = "unloaded"
         /\ UNCHANGED <<journal, commit, checkpoint, stateAll, quality, members, pc, ret, call, clock, faults,
                        readFaults, crashes, ghosts>>
<1>1. /\ Len(day') = Len(day) /\ Len(day) \in Nat
      /\ \A i \in 1..Len(day) : i # Len(day) => day'[i] = day[i]
  BY DEF ExternalEdit, TypeInv, TypeOK
<1>2. Len(day) \in 1..Len(day)
  BY EmptySeq, LenProperties DEF ExternalEdit, TypeInv, TypeOK
<1>3. day'[Len(day)] = [day[Len(day)] EXCEPT !.batches = {}]
  <2>1. day' = [day EXCEPT ![Len(day)] = [day[Len(day)] EXCEPT !.batches = {}]]
    BY <1>2 DEF ExternalEdit
  <2>2. day[Len(day)] \in Row
    BY <1>2 DEF TypeInv, TypeOK
  <2>3. [day[Len(day)] EXCEPT !.batches = {}] \in Row
    BY <2>2 DEF Row
  <2>4. ASSUME NEW e \in Row, day' = [day EXCEPT ![Len(day)] = e]
        PROVE  day'[Len(day)] = e
    BY <1>2, <2>4 DEF TypeInv, TypeOK
  <2> QED
    BY <2>1, <2>3, <2>4
<1>4. day[Len(day)] \in Row
  BY <1>2 DEF TypeInv, TypeOK
<1>5. day'[Len(day)].batches = {} /\ day'[Len(day)].app = day[Len(day)].app
  BY <1>3, <1>4 DEF Row
<1>6. \A i \in 1..Len(day) : day'[i].batches \subseteq day[i].batches /\ day'[i].app = day[i].app
  BY <1>1, <1>5
<1>7. FileBatches' \subseteq FileBatches
  BY <1>1, <1>6 DEF FileBatches
<1> QED
  BY <1>1, <1>6, <1>7 DEF ExternalEdit

(* What Apply makes of the minute in RAM.                                  *)
LEMMA Applies ==
  ASSUME TypeInv, MarkInv, Apply
  PROVE  /\ call # None /\ pc = "apply" /\ pc' = "ckpt" /\ call' = None
         /\ cur'.minute # None /\ cur'.minute = OpenTxn.minute /\ cur'.txn \in Nat \ {0}
         /\ cur'.totals = cur.totals \cup ({call.batch} \ Gaps)
         /\ call.batch \in cur'.meta /\ (cur.minute # None => cur.meta \subseteq cur'.meta)
         /\ cur.minute # None /\ cur.txn # 0 => Mark(cur') = Mark(cur)
         /\ cur.minute = None \/ cur.txn = 0 => cur.totals = {} /\ ~(commit = Mark(cur'))
         /\ applied' = applied \cup {call.batch}
         /\ UNCHANGED <<files, ret, env, durable>>
<1>1. PICK id \in CommitIds(OpenTxn) :
        /\ cur' = [minute |-> OpenTxn.minute,
                   totals |-> OpenTxn.totals \cup ({call.batch} \ Gaps),
                   meta |-> OpenTxn.meta \cup {call.batch}, txn |-> id]
        /\ applied' = applied \cup {call.batch}
  BY DEF Apply
<1>2. /\ cur'.minute = OpenTxn.minute /\ cur'.txn = id
      /\ cur'.totals = OpenTxn.totals \cup ({call.batch} \ Gaps) /\ cur'.meta = OpenTxn.meta \cup {call.batch}
  BY <1>1
<1>3. call # None /\ call.key \in Minutes /\ call.key # None
  BY HistoryAssumption, NoneAssumption DEF Apply, TypeInv, Control, TypeOK, Request, HistoryAssumption
<1>4. OpenTxn.minute # None /\ OpenTxn.minute \in Minutes /\ OpenTxn.txn \in Nat
  BY <1>3 DEF OpenTxn, NoTxn, TypeInv, TypeOK, Txn
<1>5. id \in Nat
  BY <1>1, <1>4, CommitIdsNat DEF TypeInv
<1>6. cur.minute = None => OpenTxn.totals = {} /\ OpenTxn.txn = 0 /\ cur.totals = {}
  BY DEF OpenTxn, NoTxn, MarkInv
<1>7. cur.minute # None => OpenTxn = cur
  BY DEF OpenTxn
<1>8. cur.minute # None /\ cur.txn # 0 => id = cur.txn
  BY <1>1, <1>7 DEF CommitIds
<1>9. cur.minute # None /\ cur.txn = 0 => cur.totals = {}
  BY DEF MarkInv, NothingToSave
<1>10. OpenTxn.txn = 0 => id # 0 /\ (commit = None \/ id > commit.txn)
  BY <1>1, HistoryAssumption DEF CommitIds, PreviousTxn, Larger, TypeInv, TypeOK, Marker, HistoryAssumption
<1>11. Mark(cur') \in Marker /\ Mark(cur').txn = id
  BY <1>2, <1>4, <1>5 DEF Mark, Marker
<1>12. OpenTxn.txn = 0 => commit # Mark(cur')
  BY <1>5, <1>10, <1>11, NoneAssumption DEF TypeInv, TypeOK, Marker
<1>13. cur.minute # None /\ cur.txn # 0 => Mark(cur') = Mark(cur)
  BY <1>2, <1>7, <1>8 DEF Mark
<1>14. cur'.totals = cur.totals \cup ({call.batch} \ Gaps)
  BY <1>2, <1>6, <1>7
<1>15. pc = "apply" /\ pc' = "ckpt" /\ call' = None /\ UNCHANGED <<files, ret, env, durable>>
  BY DEF Apply
<1> QED
  BY <1>1, <1>2, <1>3, <1>4, <1>5, <1>6, <1>7, <1>8, <1>9, <1>10, <1>12, <1>13, <1>14, <1>15

(* The three calls of SaveCheckpoint.                                      *)
Saving == FlushSave \/ FlushResave \/ CheckpointSave

SavedNow ==
  [minute |-> cur.minute, totals |-> cur.totals, meta |-> cur.meta, txn |-> cur.txn, allTime |-> allTime]

(* What SaveCheckpoint does, at each of its three callers.                 *)
LEMMA SavesMinute ==
  ASSUME TypeInv, MarkInv, Saving
  PROVE  /\ cur.minute # None /\ cur.txn # 0 /\ ~Loading
         /\ \/ UNCHANGED <<checkpoint, durable>>
            \/ /\ checkpoint' = SavedNow /\ durable' = durable \cup cur.totals
               /\ checkpoint' # None /\ Mark(checkpoint') = Mark(cur)
               /\ checkpoint'.totals = cur.totals /\ checkpoint'.meta = cur.meta
         /\ pc \in {"flush_save", "flush_resave", "ckpt"} /\ pc' \in {"flush_test", "idle", "ckpt_state"}
         /\ pc' = "flush_test" => checkpoint' = SavedNow /\ durable' = durable \cup cur.totals
         /\ UNCHANGED <<day, journal, commit, quality, stateAll, cur, allTime, shown, ret, call, clock, edits, crashes, applied>>
<1>1. PICK next, other : SaveCheckpoint(next, other) /\ next \in {"flush_test", "idle", "ckpt_state"}
                         /\ other \in {"idle", "ckpt_state"}
  BY DEF Saving, FlushSave, FlushResave, CheckpointSave, AfterCheckpoint
<1>2. cur.minute # None
  BY DEF Saving, FlushSave, FlushResave, CheckpointSave, TypeInv, Control, OpenPcs, Dirty
<1>3. cur.txn # 0
  <2>1. CASE FlushSave
    BY <1>2, <2>1 DEF FlushSave, MarkInv
  <2>2. CASE FlushResave
    BY <1>2, <2>2 DEF FlushResave, MarkInv, SavedHere, Mark
  <2>3. CASE CheckpointSave
    BY <1>2, <2>3 DEF CheckpointSave, TypeInv, Dirty, MarkInv, NothingToSave
  <2> QED
    BY <2>1, <2>2, <2>3 DEF Saving
<1>4. /\ pc \in {"flush_save", "flush_resave", "ckpt"} /\ ~Loading
      /\ UNCHANGED <<day, journal, commit, quality, stateAll, cur, allTime, shown, ret, call, clock, edits, crashes, applied>>
  BY DEF Saving, FlushSave, FlushResave, CheckpointSave, Loading, RecoverPcs
<1>5. SavedNow # None /\ Mark(SavedNow) = Mark(cur) /\ SavedNow.totals = cur.totals /\ SavedNow.meta = cur.meta
  BY <1>2, OpenMinute, NoneAssumption DEF SavedNow, Mark, TypeInv
<1>6. \/ pc' = other /\ UNCHANGED <<checkpoint, durable>>
      \/ pc' = next /\ checkpoint' = SavedNow /\ durable' = durable \cup cur.totals
  BY <1>1 DEF SaveCheckpoint, SavedNow
<1> QED
  BY <1>1, <1>2, <1>3, <1>4, <1>5, <1>6

(* Every step keeps AppliedInv.                                            *)
LEMMA AppliedStep == TypeInv /\ MarkInv /\ AppliedInv /\ [Next]_vars => AppliedInv'
<1> SUFFICES ASSUME TypeInv, MarkInv, AppliedInv, [Next]_vars PROVE AppliedInv'
  OBVIOUS
<1>1. CASE WriteRawRow
  <2>1. FileBatches' = FileBatches \cup journal.totals /\ journal # None
    BY <1>1, FileGrows, RowWritten
  <2> QED
    BY <1>1, <2>1, RowWritten DEF AppliedInv, members, ghosts
<1>2. CASE ExternalEdit
  BY <1>2, RowCut DEF AppliedInv, members, ghosts
<1>3. CASE Saving
  <2>1. FileBatches' = FileBatches
    BY <1>3, SavesMinute, FileSame
  <2> QED
    BY <1>3, <2>1, SavesMinute DEF AppliedInv
<1>4. CASE Apply
  <2>1. FileBatches' = FileBatches
    BY <1>4, Applies, FileSame DEF files
  <2>2. /\ cur'.totals \subseteq applied' \ Gaps
        /\ cur'.totals \subseteq cur'.meta /\ cur'.meta # {}
    BY <1>4, Applies DEF AppliedInv, MarkInv
  <2>3. UNCHANGED <<journal, checkpoint>> /\ applied \subseteq applied' /\ call' = None /\ pc' = "ckpt"
    BY <1>4, Applies DEF files
  <2> QED
    BY <2>1, <2>2, <2>3 DEF AppliedInv
<1>5. CASE [Next]_vars /\ ~WriteRawRow /\ ~ExternalEdit /\ ~Saving /\ ~Apply
  <2>1. UNCHANGED <<day, applied>>
    BY <1>5 DEF vars, files, members, ghosts, Saving, Next, Step, Recover, LoadStep, Flush, Commit,
      CompleteRaw, RecoverQuality, RecoverMark, RecoverDelete, EnsureLoaded, Load, LoadQuality,
      LoadClear, LoadSaveState, LoadRepair, FlushEmpty, FlushTest, FlushJournal, FlushQuality, FlushMark,
      FlushClear, FlushState, RefuseTxn, CheckpointSkip, CheckpointState, Update, Checkpoint, SetPreferred, Crash
  <2>2. FileBatches' = FileBatches
    BY <2>1, FileSame
  <2>3. checkpoint' \in {checkpoint, None}
    BY <1>5 DEF vars, files, Saving, Next, Step, Recover, LoadStep, Flush, Commit, ClearCheckpoint,
      CompleteRaw, RecoverQuality, RecoverMark, RecoverDelete, EnsureLoaded, Load, LoadQuality,
      LoadClear, LoadSaveState, LoadRepair, FlushEmpty, FlushTest, FlushJournal, FlushQuality, FlushMark,
      FlushClear, FlushState, RefuseTxn, CheckpointSkip, CheckpointState, Update, Checkpoint, SetPreferred, Crash
  <2>4. journal' \in {journal, None, NewJournal}
    BY <1>5 DEF vars, files, Saving, Next, Step, Recover, LoadStep, Flush, Commit,
      CompleteRaw, RecoverQuality, RecoverMark, RecoverDelete, EnsureLoaded, Load, LoadQuality,
      LoadClear, LoadSaveState, LoadRepair, FlushEmpty, FlushTest, FlushJournal, FlushQuality, FlushMark,
      FlushClear, FlushState, RefuseTxn, CheckpointSkip, CheckpointState, Update, Checkpoint, SetPreferred, Crash
  <2>5. call' # None => call'.batch \notin applied
    <3>1. CASE \E b \in Batches : Update(b)
      BY <3>1 DEF Update
    <3>2. CASE ~ \E b \in Batches : Update(b)
      <4>1. call' \in {call, None}
        BY <1>5, <3>2 DEF vars, Saving, Next, Step, Recover, LoadStep, Flush, Commit,
          CompleteRaw, RecoverQuality, RecoverMark, RecoverDelete, EnsureLoaded, Load, LoadQuality,
          LoadClear, LoadSaveState, LoadRepair, FlushEmpty, FlushTest, FlushJournal, FlushQuality, FlushMark,
          FlushClear, FlushState, RefuseTxn, CheckpointSkip, CheckpointState, Checkpoint, SetPreferred, Crash
      <4> QED
        BY <4>1 DEF AppliedInv
    <3> QED
      BY <3>1, <3>2
  <2>6. /\ cur'.totals \subseteq (applied \ Gaps) \cap cur'.meta
        /\ cur'.minute # None /\ cur'.txn # 0 => cur'.meta # {}
        /\ pc' = "load_quality" => cur'.meta = checkpoint'.meta
    <3>1. CASE Load
      <4>1. UNCHANGED checkpoint /\ (pc' = "load_quality" => LoadCommitted)
        BY <3>1 DEF Load, LoadNoCheckpoint, LoadBlocked, LoadCommitted, LoadRestored, Loaded, files
      <4>2. \/ cur'.totals = {} /\ cur'.minute = None
            \/ /\ checkpoint # None /\ cur'.totals \in {{}, checkpoint.totals}
               /\ cur'.meta = checkpoint.meta
        <5>1. CASE LoadNoCheckpoint \/ LoadBlocked
          <6>1. NoTxn.minute = None /\ NoTxn.totals = {}
            BY DEF NoTxn
          <6>2. ASSUME NEW x, NEW y
                PROVE  LET t == [NoTxn EXCEPT !.txn = x, !.meta = y]
                       IN  t.minute = None /\ t.totals = {}
            BY DEF NoTxn
          <6>3. LoadBlocked => cur'.minute = None /\ cur'.totals = {}
            BY <6>2 DEF LoadBlocked
          <6>4. LoadNoCheckpoint => cur'.minute = None /\ cur'.totals = {}
            BY <6>1 DEF LoadNoCheckpoint
          <6> QED
            BY <5>1, <6>3, <6>4
        <5>2. CASE LoadCommitted \/ LoadRestored
          BY <5>2 DEF LoadCommitted, LoadRestored
        <5> QED
          BY <3>1, <5>1, <5>2 DEF Load
      <4>3. LoadCommitted => cur'.meta = checkpoint.meta
        BY DEF LoadCommitted
      <4> QED
        BY <4>1, <4>2, <4>3 DEF AppliedInv
    <3>2. CASE LoadQuality
      <4>1. pc' # "load_quality" /\ UNCHANGED checkpoint /\ checkpoint # None /\ cur.meta = checkpoint.meta
        BY <3>2 DEF LoadQuality, Loaded, TypeInv, Control, AppliedInv
      <4>2. \/ cur'.totals = {} /\ cur'.minute = None
            \/ cur'.totals = checkpoint.totals /\ cur'.meta = cur.meta
        BY <3>2 DEF LoadQuality, NoTxn, TypeInv, TypeOK, Txn
      <4> QED
        BY <4>1, <4>2 DEF AppliedInv
    <3>3. CASE RefuseTxn
      BY <3>3 DEF RefuseTxn, OpenTxn, NoTxn, AppliedInv
    <3>4. CASE FlushEmpty \/ FlushClear \/ Crash
      BY <3>4 DEF FlushEmpty, FlushClear, Crash, NoTxn
    <3>5. CASE ~Load /\ ~LoadQuality /\ ~RefuseTxn /\ ~FlushEmpty /\ ~FlushClear /\ ~Crash
      <4>1. UNCHANGED cur /\ (pc' = "load_quality" => pc = "load_quality" /\ UNCHANGED checkpoint)
        BY <1>5, <3>5 DEF vars, files, members, Saving, Next, Step, Recover, LoadStep, Flush, Commit,
          CompleteRaw, RecoverQuality, RecoverMark, RecoverDelete, EnsureLoaded, RecoverAppend,
          Resume, GiveUp, TypeInv, TypeOK,
          LoadClear, LoadSaveState, LoadRepair, Loaded, FlushTest, FlushJournal, FlushQuality, FlushMark,
          FlushState, CheckpointSkip, AfterCheckpoint, CheckpointState, Update, Checkpoint, SetPreferred
      <4> QED
        BY <4>1 DEF AppliedInv
    <3> QED
      BY <3>1, <3>2, <3>3, <3>4, <3>5
  <2>7. NewJournal.totals = cur.totals /\ NewJournal.meta = cur.meta
    BY DEF NewJournal
  <2> QED
    BY <2>1, <2>2, <2>3, <2>4, <2>5, <2>6, <2>7 DEF AppliedInv
<1> QED
  BY <1>1, <1>2, <1>3, <1>4, <1>5

-----------------------------------------------------------------------------
(* The steps that change no file but the state file and neither the minute *)
(* in RAM nor what was applied or saved.                                   *)
Quiet ==
  \/ CompleteRaw \/ EnsureLoaded \/ LoadSaveState \/ LoadRepair \/ FlushState
  \/ CheckpointSkip \/ CheckpointState \/ Checkpoint \/ SetPreferred
  \/ (\E b \in Batches : Update(b))
  \/ UNCHANGED vars

(* What the quiet steps leave alone.                                       *)
LEMMA QuietFrame ==
  ASSUME TypeInv, Quiet
  PROVE  /\ UNCHANGED <<day, journal, commit, checkpoint, quality, cur, edits, applied, durable>>
         /\ Loading => Loading'
         /\ SavedHere' => SavedHere
         /\ pc' \in {"rec_mark", "rec_delete", "load_quality", "flush_journal", "flush_quality", "flush_mark",
                     "flush_clear"} => pc' = pc
<1>1. UNCHANGED <<day, journal, commit, checkpoint, quality, cur, edits, applied, durable>>
  BY DEF Quiet, CompleteRaw, EnsureLoaded, LoadSaveState, LoadRepair, FlushState, CheckpointSkip,
    CheckpointState, Checkpoint, SetPreferred, Update, vars, files, members, env, ghosts
<1>2. CASE CompleteRaw
  <2>1. pc = "rec_raw" /\ ret' = ret /\ pc' \in {"rec_quality", GiveUp(ret)}
    BY <1>2 DEF CompleteRaw
  <2>2. \/ ret = "load" /\ GiveUp(ret) = "unloaded"
        \/ ret = "flush" /\ GiveUp(ret) = "idle"
        \/ ret = "append" /\ GiveUp(ret) = "flush_resave"
    BY Callers DEF TypeInv
  <2> QED
    BY <1>1, <2>1, <2>2 DEF Loading, SavedHere, RecoverPcs
<1>3. CASE EnsureLoaded
  <2>1. pc' \in {"load", "rec_raw"} /\ ret' = "load"
    BY <1>3 DEF EnsureLoaded, RecoverAppend, Resume
  <2> QED
    BY <1>1, <2>1 DEF Loading, SavedHere, RecoverPcs
<1>4. CASE \E b \in Batches : Update(b)
  <2>1. pc = "idle" /\ (pc' = "apply" \/ (pc' \in {"flush_save", "rec_raw"} /\ ret' = "flush"))
    BY <1>4 DEF Update, RecoverAppend, Resume
  <2> QED
    BY <1>1, <2>1 DEF Loading, SavedHere, RecoverPcs
<1>5. CASE UNCHANGED vars
  BY <1>1, <1>5 DEF vars, Loading, SavedHere
<1>6. CASE LoadSaveState \/ LoadRepair \/ FlushState \/ CheckpointSkip \/ CheckpointState \/ Checkpoint \/ SetPreferred
  <2>1. pc \in {"load_state", "load_repair", "flush_state", "ckpt", "ckpt_state", "idle"}
        /\ pc' \in {"idle", "load_repair", "apply", "ckpt", "ckpt_state"} /\ UNCHANGED ret
    BY <1>6 DEF LoadSaveState, LoadRepair, Loaded, FlushState, CheckpointSkip, AfterCheckpoint, CheckpointState,
      Checkpoint, SetPreferred
  <2> QED
    BY <1>1, <2>1 DEF Loading, SavedHere, RecoverPcs
<1> QED
  BY <1>2, <1>3, <1>4, <1>5, <1>6 DEF Quiet

(* The other steps.                                                        *)
(* The steps that remain.                                                  *)
LEMMA NotQuiet ==
  ASSUME [Next]_vars, ~Quiet
  PROVE  \/ WriteRawRow \/ RecoverQuality \/ RecoverMark \/ RecoverDelete
         \/ Load \/ LoadQuality \/ LoadClear
         \/ FlushEmpty \/ FlushTest \/ FlushJournal \/ FlushQuality \/ FlushMark \/ FlushClear
         \/ Saving \/ Apply \/ RefuseTxn \/ Crash \/ ExternalEdit
  BY DEF Next, Step, Recover, LoadStep, Flush, Commit, Quiet, Saving

(* Where a recovery goes on to.                                            *)
LEMMA RecoverFrame ==
  ASSUME TypeInv, RecoverQuality \/ RecoverMark \/ RecoverDelete
  PROVE  /\ UNCHANGED <<day, checkpoint, stateAll, cur, shown, edits, applied, durable, call, ret, clock>>
         /\ pc \in RecoverPcs /\ journal # None
         /\ Loading <=> Loading'
         /\ SavedHere <=> SavedHere'
         /\ pc' \in {"rec_mark", "rec_delete", "flush_quality"} \cup
                    {"load", "flush_save", "unloaded", "idle", "flush_resave"}
<1>1. /\ UNCHANGED <<day, checkpoint, stateAll, cur, shown, edits, applied, durable, call, ret, clock>>
      /\ pc \in RecoverPcs /\ journal # None
  BY DEF RecoverQuality, RecoverMark, RecoverDelete, members, ghosts, TypeInv, Control, RecoverPcs
<1>2. pc' \in {"rec_mark", "rec_delete", Resume(ret), GiveUp(ret)}
  BY DEF RecoverQuality, RecoverMark, RecoverDelete
<1>3. \/ ret = "load" /\ Resume(ret) = "load" /\ GiveUp(ret) = "unloaded"
      \/ ret = "flush" /\ Resume(ret) = "flush_save" /\ GiveUp(ret) = "idle"
      \/ ret = "append" /\ Resume(ret) = "flush_quality" /\ GiveUp(ret) = "flush_resave"
  BY Callers DEF TypeInv
<1> QED
  BY <1>1, <1>2, <1>3 DEF Loading, SavedHere, RecoverPcs

(* What a Load finds: no checkpoint, one it must not touch, a committed    *)
(* one, or the minute to go on with.                                       *)
LEMMA Loads ==
  ASSUME TypeInv, MarkInv, Load
  PROVE  /\ UNCHANGED <<files, applied, durable, edits, ret, call, clock>> /\ journal = None
         /\ cur'.minute = None => cur'.totals = {}
         /\ \/ checkpoint = None /\ cur'.minute = None /\ pc' \in {"idle", "load_repair"}
            \/ cur'.minute = None /\ pc' = "unloaded"
            \/ /\ checkpoint # None /\ MarkedAs(checkpoint) /\ pc' = "load_quality"
               /\ Mark(cur') = Mark(checkpoint) /\ cur'.totals = {} /\ cur'.meta = checkpoint.meta
            \/ /\ checkpoint # None /\ ~MarkedAs(checkpoint) /\ pc' \in {"idle", "load_repair"}
               /\ Mark(cur') = Mark(checkpoint) /\ cur'.totals = checkpoint.totals
<1>1. UNCHANGED <<files, applied, durable, edits, ret, call, clock>> /\ journal = None
  BY DEF Load, ghosts, MarkInv, LoadPcs
<1>2. CASE LoadNoCheckpoint
  BY <1>1, <1>2 DEF LoadNoCheckpoint, NoTxn, Loaded
<1>3. CASE LoadBlocked
  <2>1. ASSUME NEW x, NEW y
        PROVE  LET t == [NoTxn EXCEPT !.txn = x, !.meta = y] IN t.minute = None /\ t.totals = {}
    BY DEF NoTxn
  <2>2. cur'.minute = None /\ cur'.totals = {} /\ pc' = "unloaded"
    BY <1>3, <2>1 DEF LoadBlocked
  <2> QED
    BY <1>1, <2>2
<1>4. CASE LoadCommitted
  <2>1. Mark(cur') = Mark(checkpoint) /\ cur'.totals = {} /\ cur'.meta = checkpoint.meta
    BY <1>4 DEF LoadCommitted, Mark
  <2> QED
    BY <1>1, <1>4, <2>1 DEF LoadCommitted
<1>5. CASE LoadRestored
  <2>1. /\ Mark(cur') = Mark(checkpoint) /\ cur'.totals = checkpoint.totals
        /\ cur'.minute = checkpoint.minute /\ checkpoint # None
    BY <1>5 DEF LoadRestored, Mark
  <2>2. cur'.minute # None
    BY <2>1, CheckpointParts DEF TypeInv
  <2> QED
    BY <1>1, <1>5, <2>1, <2>2 DEF LoadRestored, Loaded
<1> QED
  BY <1>2, <1>3, <1>4, <1>5 DEF Load

(* After LoadQuality: nothing in RAM, or the committed minute again.       *)
LEMMA LoadsQuality ==
  ASSUME TypeInv, MarkInv, LoadQuality
  PROVE  /\ UNCHANGED <<day, journal, commit, checkpoint, stateAll, shown, edits, applied, durable, ret, call, clock>>
         /\ journal = None /\ checkpoint # None /\ MarkedAs(checkpoint)
         /\ pc = "load_quality" /\ pc' \in {"load_clear", "idle", "load_repair"}
         /\ \/ cur'.minute = None /\ cur'.totals = {}
            \/ Mark(cur') = Mark(checkpoint) /\ cur'.totals = checkpoint.totals
<1>1. /\ UNCHANGED <<day, journal, commit, checkpoint, stateAll, shown, edits, applied, durable, ret, call, clock>>
      /\ journal = None /\ checkpoint # None /\ MarkedAs(checkpoint) /\ Mark(cur) = Mark(checkpoint)
      /\ pc = "load_quality" /\ pc' \in {"load_clear", "idle", "load_repair"}
  BY DEF LoadQuality, Loaded, ghosts, MarkInv, LoadPcs
<1>2. cur' = [NoTxn EXCEPT !.txn = cur.txn] => cur'.minute = None /\ cur'.totals = {}
  BY DEF NoTxn
<1>3. cur' = [cur EXCEPT !.totals = checkpoint.totals] => Mark(cur') = Mark(cur) /\ cur'.totals = checkpoint.totals
  BY DEF TypeInv, TypeOK, Txn, Mark
<1> QED
  BY <1>1, <1>2, <1>3 DEF LoadQuality

-----------------------------------------------------------------------------
(* No batch twice.  Each application has a batch in one row at most; a     *)
(* block about to be written, and a minute that is not committed, have     *)
(* nothing in common with the file.                                        *)
OnceInv ==
  /\ \A i, j \in 1..Len(day) : i # j /\ day[i].app = day[j].app => day[i].batches \cap day[j].batches = {}
  /\ journal # None =>
       \A i \in 1..Len(day) : i <= journal.offset => day[i].batches \cap journal.totals = {}
  /\ journal = None /\ checkpoint # None /\ ~MarkedAs(checkpoint) => checkpoint.totals \cap FileBatches = {}
  /\ ~Loading /\ journal = None /\ cur.minute # None /\ ~MarkedAs(cur) => cur.totals \cap FileBatches = {}
  /\ pc = "flush_journal" => ~MarkedAs(cur)

(* A marker names a block once: without failed writes the minute in RAM is *)
(* never a committed one, and without failed reads a committed one is      *)
(* recognised.                                                             *)
Recognised == MaxFaults = 0 \/ MaxReadFaults = 0

(* Every step keeps OnceInv, if a committed minute is recognised.          *)
LEMMA OnceStep ==
  ASSUME Recognised, TypeInv, MarkInv, FaultInv, AppliedInv, OnceInv, [Next]_vars
  PROVE  OnceInv'
<1>1. CASE Quiet
  <2>1. UNCHANGED <<day, journal, commit, checkpoint, cur>> /\ (~Loading' => ~Loading)
        /\ (pc' = "flush_journal" => pc = "flush_journal")
    BY <1>1, QuietFrame
  <2>2. FileBatches' = FileBatches
    BY <2>1, FileSame
  <2> QED
    BY <2>1, <2>2 DEF OnceInv, MarkedAs, Mark
<1>2. CASE WriteRawRow
  <2>1. journal # None /\ UNCHANGED journal /\ pc' = "rec_raw"
    BY <1>2, RowWritten DEF WriteRawRow
  <2>2. Len(day) \in Nat /\ Len(day') = Len(day) + 1 /\ journal.offset \in Nat
        /\ Present \in 0..(Rows - 1) /\ Len(day) = journal.offset + Present
    BY <1>2, <2>1, RowWritten DEF TypeInv, TypeOK, Journal
  <2>3. \A i \in 1..Len(day) : day'[i] = day[i]
    BY <1>2, RowWritten
  <2>4. day'[Len(day')].app = Present + 1 /\ day'[Len(day')].batches = journal.totals
    BY <1>2, RowWritten
  <2>5. ASSUME NEW i \in 1..Len(day), day[i].app = Present + 1
        PROVE  day[i].batches \cap journal.totals = {}
    <3>1. CASE i <= journal.offset
      BY <2>1, <3>1 DEF OnceInv
    <3>2. CASE i > journal.offset
      <4>1. PICK r \in 1..Present : i = journal.offset + r
        <5>1. i - journal.offset \in 1..Present /\ i = journal.offset + (i - journal.offset)
          BY <2>2, <3>2
        <5> QED
          BY <5>1
      <4>2. r \in 1..Rows /\ journal.offset + r <= Len(day) /\ r # Present + 1 /\ r \in Nat
        BY <2>2, <4>1, HistoryAssumption DEF HistoryAssumption
      <4>3. day[i] = [minute |-> journal.minute, app |-> r, batches |-> journal.totals]
        BY <1>2, <4>1, <4>2, RowWritten DEF TailMatches
      <4> QED
        BY <2>5, <4>2, <4>3
    <3> QED
      BY <2>2, <3>1, <3>2
  <2>6. ASSUME NEW i \in 1..Len(day'), NEW j \in 1..Len(day'), i # j, day'[i].app = day'[j].app
        PROVE  day'[i].batches \cap day'[j].batches = {}
    <3>1. CASE i \in 1..Len(day) /\ j \in 1..Len(day)
      BY <2>3, <2>6, <3>1 DEF OnceInv
    <3>2. CASE i = Len(day') /\ j \in 1..Len(day)
      BY <2>3, <2>4, <2>5, <2>6, <3>2
    <3>3. CASE j = Len(day') /\ i \in 1..Len(day)
      BY <2>3, <2>4, <2>5, <2>6, <3>3
    <3> QED
      BY <2>2, <2>6, <3>1, <3>2, <3>3
  <2>7. ASSUME NEW i \in 1..Len(day'), i <= journal.offset
        PROVE  day'[i].batches \cap journal.totals = {}
    <3>1. i \in 1..Len(day)
      BY <2>2, <2>7
    <3> QED
      BY <2>1, <2>3, <2>7, <3>1 DEF OnceInv
  <2> QED
    BY <2>1, <2>6, <2>7 DEF OnceInv
<1>3. CASE ExternalEdit
  <2>1. /\ Len(day') = Len(day) /\ FileBatches' \subseteq FileBatches
        /\ \A i \in 1..Len(day) : day'[i].batches \subseteq day[i].batches /\ day'[i].app = day[i].app
        /\ UNCHANGED <<journal, commit, checkpoint, cur, pc, ret>>
    BY <1>3, RowCut DEF members
  <2>2. Loading' <=> Loading
    BY <2>1 DEF Loading
  <2>3. \A i, j \in 1..Len(day') : i # j /\ day'[i].app = day'[j].app => day'[i].batches \cap day'[j].batches = {}
    <3>1. SUFFICES ASSUME NEW i \in 1..Len(day), NEW j \in 1..Len(day), i # j, day[i].app = day[j].app
                   PROVE  day'[i].batches \cap day'[j].batches = {}
      BY <2>1
    <3>2. day[i].batches \cap day[j].batches = {}
      BY <3>1 DEF OnceInv
    <3> QED
      BY <2>1, <3>2
  <2> QED
    BY <2>1, <2>2, <2>3 DEF OnceInv, MarkedAs, Mark
<1>4. CASE Saving
  <2>1. /\ UNCHANGED <<day, journal, commit, cur>> /\ pc' # "flush_journal"
        /\ ~Loading /\ cur.minute # None
        /\ UNCHANGED checkpoint \/ (Mark(checkpoint') = Mark(cur) /\ checkpoint'.totals = cur.totals)
    BY <1>4, SavesMinute
  <2>2. FileBatches' = FileBatches
    BY <2>1, FileSame
  <2> QED
    BY <2>1, <2>2 DEF OnceInv, MarkedAs, Mark
<1>5. CASE Apply
  <2>1. UNCHANGED <<day, journal, commit, checkpoint>> /\ pc' = "ckpt"
    BY <1>5, Applies DEF files
  <2>2. FileBatches' = FileBatches
    BY <2>1, FileSame
  <2>3. ({call.batch} \ Gaps) \cap FileBatches = {}
    BY <1>5, Applies DEF AppliedInv
  <2>4. journal = None /\ commit # Mark(cur') => cur'.totals \cap FileBatches = {}
    <3>1. CASE cur.minute # None /\ cur.txn # 0
      BY <1>5, <2>3, <3>1, Applies DEF OnceInv, MarkedAs, Loading, RecoverPcs
    <3>2. CASE cur.minute = None \/ cur.txn = 0
      BY <1>5, <2>3, <3>2, Applies
    <3> QED
      BY <3>1, <3>2
  <2> QED
    BY <2>1, <2>2, <2>4 DEF OnceInv, MarkedAs, Mark
<1>6. CASE RecoverQuality \/ RecoverMark
  <2>1. journal # None /\ UNCHANGED <<day, journal>> /\ pc' # "flush_journal"
    BY <1>6, RecoverFrame DEF RecoverQuality, RecoverMark
  <2> QED
    BY <2>1 DEF OnceInv
<1>7. CASE RecoverDelete
  <2>1. /\ UNCHANGED <<day, commit, checkpoint, cur>> /\ pc' # "flush_journal" /\ journal' \in {journal, None}
        /\ (~Loading' => ~Loading) /\ journal # None
    BY <1>7, RecoverFrame DEF RecoverDelete
  <2>2. FileBatches' = FileBatches
    BY <2>1, FileSame
  <2>3. /\ MarkedAs(journal) /\ Mark(journal) = Mark(checkpoint)
        /\ ~Loading => Mark(cur) = Mark(journal)
    BY <1>7, <2>1 DEF RecoverDelete, MarkInv
  <2> QED
    BY <2>1, <2>2, <2>3 DEF OnceInv, MarkedAs, Mark
<1>8. CASE Load
  <2>1. /\ UNCHANGED <<day, journal, commit, checkpoint>> /\ journal = None /\ pc' # "flush_journal"
        /\ cur'.minute # None =>
             /\ checkpoint # None /\ Mark(cur') = Mark(checkpoint)
             /\ cur'.totals = {} \/ cur'.totals = checkpoint.totals
    BY <1>8, Loads DEF files
  <2>2. FileBatches' = FileBatches
    BY <2>1, FileSame
  <2> QED
    BY <2>1, <2>2 DEF OnceInv, MarkedAs, Mark
<1>9. CASE LoadQuality
  <2>1. /\ UNCHANGED <<day, journal, commit, checkpoint>> /\ journal = None /\ pc' # "flush_journal"
        /\ cur'.minute # None => commit = Mark(cur')
    BY <1>9, LoadsQuality DEF MarkedAs
  <2>2. FileBatches' = FileBatches
    BY <2>1, FileSame
  <2> QED
    BY <2>1, <2>2 DEF OnceInv, MarkedAs, Mark
<1>10. CASE LoadClear \/ FlushEmpty \/ FlushClear \/ Crash
  <2>1. /\ UNCHANGED <<day, journal, commit>> /\ checkpoint' \in {checkpoint, None} /\ pc' # "flush_journal"
        /\ UNCHANGED cur \/ cur'.minute = None
    BY <1>10 DEF LoadClear, FlushEmpty, FlushClear, Crash, ClearCheckpoint, files, members, NoTxn
  <2>2. FileBatches' = FileBatches
    BY <2>1, FileSame
  <2>3. UNCHANGED cur /\ cur.minute # None /\ ~Loading' => ~Loading
    BY <1>10 DEF LoadClear, FlushEmpty, FlushClear, Crash, NoTxn, Loading, RecoverPcs
  <2> QED
    BY <2>1, <2>2, <2>3 DEF OnceInv, MarkedAs, Mark
<1>11. CASE FlushTest
  <2>1. UNCHANGED <<day, journal, commit, checkpoint, cur>> /\ pc = "flush_test" /\ pc' \in {"flush_quality", "flush_journal"}
    BY <1>11 DEF FlushTest, files, members
  <2>2. FileBatches' = FileBatches
    BY <2>1, FileSame
  <2>3. ~Loading
    BY <2>1 DEF Loading, RecoverPcs
  <2>4. pc' = "flush_journal" => ~MarkedAs(cur)
    <3>1. SUFFICES ASSUME ReadFault, MarkedAs(cur) PROVE FALSE
      BY <1>11 DEF FlushTest, AlreadyAppended
    <3>2. cur.minute # None
      BY <2>1 DEF TypeInv, Control, OpenPcs
    <3>3. readFaults < MaxReadFaults /\ readFaults \in Nat
      BY <3>1 DEF ReadFault, FaultInv
    <3>4. MaxFaults = 0
      BY <3>3 DEF Recognised
    <3> QED
      BY <2>1, <3>1, <3>2, <3>4 DEF FaultInv, RecoverPcs
  <2> QED
    BY <2>1, <2>2, <2>3, <2>4 DEF OnceInv, MarkedAs, Mark
<1>12. CASE FlushJournal
  <2>1. /\ UNCHANGED <<day, commit, checkpoint, cur>> /\ pc = "flush_journal" /\ pc' # "flush_journal"
        /\ journal = None /\ (UNCHANGED journal \/ journal' = NewJournal)
    BY <1>12 DEF FlushJournal, members, MarkInv
  <2>2. FileBatches' = FileBatches
    BY <2>1, FileSame
  <2>3. ~Loading /\ ~MarkedAs(cur) /\ cur.minute # None
    BY <2>1 DEF Loading, RecoverPcs, OnceInv, TypeInv, Control, OpenPcs
  <2>4. cur.totals \cap FileBatches = {}
    BY <2>1, <2>3 DEF OnceInv
  <2>5. NewJournal.totals = cur.totals /\ NewJournal # None
    BY <2>3, OpenMinute, NoneAssumption DEF NewJournal, TypeInv
  <2>6. CASE UNCHANGED journal
    BY <2>1, <2>2, <2>3, <2>6 DEF OnceInv, MarkedAs, Mark
  <2>7. CASE journal' = NewJournal
    <3>1. \A i \in 1..Len(day) : day[i].batches \cap cur.totals = {}
      BY <2>4 DEF FileBatches
    <3> QED
      BY <2>1, <2>5, <2>7, <3>1 DEF OnceInv
  <2> QED
    BY <2>1, <2>6, <2>7
<1>13. CASE FlushQuality
  <2>1. UNCHANGED <<day, journal, commit, checkpoint, cur>> /\ pc = "flush_quality" /\ pc' # "flush_journal"
    BY <1>13 DEF FlushQuality, members
  <2>2. FileBatches' = FileBatches
    BY <2>1, FileSame
  <2>3. ~Loading
    BY <2>1 DEF Loading, RecoverPcs
  <2> QED
    BY <2>1, <2>2, <2>3 DEF OnceInv, MarkedAs, Mark
<1>14. CASE FlushMark
  <2>1. /\ UNCHANGED <<day, journal, checkpoint, cur>> /\ pc = "flush_mark" /\ pc' # "flush_journal"
        /\ commit' \in {commit, Mark(cur)}
    BY <1>14 DEF FlushMark, members, WriteMark
  <2>2. FileBatches' = FileBatches
    BY <2>1, FileSame
  <2>3. ~Loading /\ Mark(checkpoint) = Mark(cur)
    BY <2>1 DEF Loading, RecoverPcs, MarkInv, SavedHere
  <2> QED
    BY <2>1, <2>2, <2>3 DEF OnceInv, MarkedAs, Mark
<1>15. CASE RefuseTxn
  <2>1. UNCHANGED <<day, journal, commit, checkpoint>> /\ pc = "apply" /\ pc' = "idle" /\ cur' = OpenTxn
    BY <1>15 DEF RefuseTxn, files
  <2>2. FileBatches' = FileBatches
    BY <2>1, FileSame
  <2>3. cur'.totals = {} \/ (UNCHANGED cur /\ cur.minute # None)
    BY <2>1 DEF OpenTxn, NoTxn
  <2>4. ~Loading
    BY <2>1 DEF Loading, RecoverPcs
  <2> QED
    BY <2>1, <2>2, <2>3, <2>4 DEF OnceInv, MarkedAs, Mark
<1> QED
  BY <1>1, <1>2, <1>3, <1>4, <1>5, <1>6, <1>7, <1>8, <1>9, <1>10, <1>11, <1>12, <1>13, <1>14, <1>15, NotQuiet

-----------------------------------------------------------------------------
(* Nothing lost.  What is recorded: the provenance file names it, and the  *)
(* daily file holds it unless someone edited it.                           *)
Named == UNION {q.meta : q \in quality}

Recorded == {b \in Named : edits = 0 => b \in DayBatches}

(* A journal holds the minute in RAM; a checkpoint that is not committed   *)
(* is part of that minute; what is committed is recorded.                  *)
KeptInv ==
  /\ journal # None => journal.totals = checkpoint.totals /\ (~Loading => cur.totals = journal.totals)
  /\ journal = None /\ checkpoint # None /\ ~MarkedAs(checkpoint) /\ ~Loading =>
       Mark(cur) = Mark(checkpoint) /\ checkpoint.totals \subseteq cur.totals
  /\ SavedHere => checkpoint.totals = cur.totals
  /\ pc \in {"rec_mark", "rec_delete"} => journal.totals \subseteq Recorded
  /\ pc \in {"flush_quality", "flush_mark", "flush_clear"} => cur.totals \subseteq Recorded
  /\ journal = None /\ checkpoint # None /\ MarkedAs(checkpoint) => checkpoint.totals \subseteq Recorded
  /\ ~Loading /\ journal = None /\ cur.minute # None /\ MarkedAs(cur) => cur.totals \subseteq Recorded
  /\ durable \subseteq Pending \cup Journalled \cup Recorded

(* A committed minute is not reopened: without failed writes it is gone    *)
(* from RAM, and a clock that is not set back does not return to it.       *)
NotReopened == MaxFaults = 0 \/ ~ClockRollback

(* While there is a journal, the checkpoint of its minute is not counted.  *)
LEMMA PendingIs ==
  ASSUME MarkInv
  PROVE  /\ journal # None => Pending = {}
         /\ journal = None =>
              Pending = IF checkpoint = None \/ MarkedAs(checkpoint) THEN {} ELSE checkpoint.totals
  BY DEF MarkInv, Pending, MarkAfterRecovery, MarkedAs

(* What is recorded stays recorded.                                        *)
LEMMA RecordedGrows ==
  ASSUME Named \subseteq Named', edits' = 0 => edits = 0 /\ DayBatches \subseteq DayBatches'
  PROVE  Recorded \subseteq Recorded'
  BY DEF Recorded

(* AppendEngineMetadata names the batches of the transaction.              *)
LEMMA AppendNames ==
  ASSUME NEW t, AppendQuality(t)
  PROVE  Named \subseteq Named' /\ t.meta \subseteq Named'
<1>1. CASE t.meta = {}
  BY <1>1 DEF AppendQuality, Named
<1>2. CASE t.meta # {}
  <2>1. quality' = quality \cup {[minute |-> t.minute, meta |-> t.meta]}
    BY <1>2 DEF AppendQuality
  <2>2. [minute |-> t.minute, meta |-> t.meta].meta = t.meta
    OBVIOUS
  <2> QED
    BY <2>1, <2>2 DEF Named
<1> QED
  BY <1>1, <1>2

(* A batch of a whole block is in the file.                                *)
LEMMA WholeBlock ==
  ASSUME TypeInv, journal # None, TailMatches, Len(day) = journal.offset + Rows
  PROVE  journal.totals \subseteq DayBatches
<1>1. Rows \in Nat \ {0} /\ journal.offset \in Nat /\ Len(day) \in Nat
  BY HistoryAssumption DEF HistoryAssumption, TypeInv, TypeOK, Journal
<1>2. Rows \in 1..Rows /\ journal.offset + Rows <= Len(day) /\ Len(day) \in 1..Len(day)
  BY <1>1
<1>3. day[Len(day)] = [minute |-> journal.minute, app |-> Rows, batches |-> journal.totals]
  BY <1>2 DEF TailMatches
<1>4. day[Len(day)].app = Rows /\ day[Len(day)].batches = journal.totals
  BY <1>3
<1> QED
  BY <1>2, <1>4 DEF DayBatches

(* No batch is applied to a minute that is committed or journalled.        *)
LEMMA AppliesToOpen ==
  ASSUME NotReopened, TypeInv, MarkInv, ClockInv, FaultInv, pc = "apply"
  PROVE  journal = None /\ (cur.minute # None => ~MarkedAs(cur))
<1>1. CASE MaxFaults = 0
  BY <1>1 DEF FaultInv, RecoverPcs
<1>2. CASE ~ClockRollback
  <2>1. cur.minute # None => cur.minute = clock
    BY DEF ClockInv, TypeInv, Control
  <2>2. journal # None => cur.minute # None /\ journal.minute = cur.minute
    BY DEF MarkInv, Loading, RecoverPcs, Mark
  <2>3. journal # None => journal.minute < clock
    BY <1>2 DEF ClockInv
  <2>4. clock \in Nat
    BY HistoryAssumption DEF TypeInv, TypeOK, HistoryAssumption
  <2>5. cur.minute # None /\ MarkedAs(cur) => cur.minute = commit.minute /\ commit # None
    <3>1. Mark(cur).minute = cur.minute
      BY DEF Mark
    <3> QED
      BY <3>1, OpenMinute, NoneAssumption DEF MarkedAs, TypeInv
  <2> QED
    BY <1>2, <2>1, <2>2, <2>3, <2>4, <2>5 DEF ClockInv
<1> QED
  BY <1>1, <1>2 DEF NotReopened

(* Every step keeps KeptInv, if a committed minute is not reopened.        *)
LEMMA KeptStep ==
  ASSUME NotReopened, TypeInv, MarkInv, MarkInv', TailInv, ClockInv, FaultInv, AppliedInv, KeptInv, [Next]_vars
  PROVE  KeptInv'
<1> USE DEF MarkedAs, Mark, Journalled
<1>1. CASE Quiet
  <2>1. /\ UNCHANGED <<day, journal, commit, checkpoint, quality, cur, edits, applied, durable>>
        /\ Loading => Loading'
        /\ SavedHere' => SavedHere
        /\ pc' \in {"rec_mark", "rec_delete", "load_quality", "flush_journal", "flush_quality", "flush_mark",
                    "flush_clear"} => pc' = pc
    BY <1>1, QuietFrame
  <2>2. Recorded' = Recorded /\ Pending' = Pending
    BY <2>1, FileSame DEF Recorded, Named, Pending, MarkAfterRecovery
  <2> QED
    BY <2>1, <2>2 DEF KeptInv
<1>2. CASE WriteRawRow
  <2>1. journal # None /\ UNCHANGED <<journal, commit, checkpoint, quality, cur, edits, durable, pc, ret>>
    BY <1>2, RowWritten DEF members, env, ghosts
  <2>2. Recorded \subseteq Recorded'
    BY <1>2, <2>1, FileGrows, RecordedGrows DEF Named
  <2>3. Pending' = Pending /\ (Loading' <=> Loading) /\ (SavedHere' <=> SavedHere)
    BY <2>1 DEF Pending, MarkAfterRecovery, Loading, SavedHere
  <2> QED
    BY <2>1, <2>2, <2>3 DEF KeptInv
<1>3. CASE ExternalEdit
  <2>1. edits' # 0 /\ UNCHANGED <<journal, commit, checkpoint, quality, cur, durable, pc, ret>>
    BY <1>3, RowCut DEF members, ghosts, FaultInv
  <2>2. Recorded \subseteq Recorded'
    BY <2>1 DEF Recorded, Named
  <2>3. Pending' = Pending /\ (Loading' <=> Loading) /\ (SavedHere' <=> SavedHere)
    BY <2>1 DEF Pending, MarkAfterRecovery, Loading, SavedHere
  <2> QED
    BY <2>1, <2>2, <2>3 DEF KeptInv
<1>4. CASE Saving
  <2>1. /\ UNCHANGED <<day, journal, commit, quality, cur, edits>>
        /\ ~Loading /\ cur.minute # None
        /\ \/ UNCHANGED <<checkpoint, durable>>
           \/ /\ checkpoint' # None /\ Mark(checkpoint') = Mark(cur)
              /\ checkpoint'.totals = cur.totals /\ durable' = durable \cup cur.totals
        /\ pc' \in {"flush_test", "idle", "ckpt_state"}
        /\ pc' = "flush_test" => checkpoint'.totals = cur.totals
    BY <1>4, SavesMinute DEF SavedNow
  <2>2. Recorded' = Recorded
    BY <2>1, FileSame DEF Recorded, Named
  <2>3. durable' \subseteq Pending' \cup Journalled' \cup Recorded'
    <3>1. CASE UNCHANGED <<checkpoint, durable>>
      <4>1. Pending' = Pending
        BY <2>1, <3>1 DEF Pending, MarkAfterRecovery
      <4> QED
        BY <2>1, <2>2, <3>1, <4>1 DEF KeptInv
    <3>2. CASE /\ checkpoint' # None /\ Mark(checkpoint') = Mark(cur)
               /\ checkpoint'.totals = cur.totals /\ durable' = durable \cup cur.totals
      <4>1. CASE journal # None
        BY <2>1, <2>2, <3>2, <4>1, PendingIs DEF KeptInv
      <4>2. CASE journal = None /\ MarkedAs(cur)
        <5>1. Pending = {}
          BY <2>1, <4>2, PendingIs DEF KeptInv
        <5> QED
          BY <2>1, <2>2, <3>2, <4>2, <5>1 DEF KeptInv
      <4>3. CASE journal = None /\ ~MarkedAs(cur)
        <5>1. Pending \subseteq cur.totals
          BY <2>1, <4>3, PendingIs DEF KeptInv
        <5>2. Pending' = cur.totals
          BY <2>1, <3>2, <4>3 DEF Pending, MarkAfterRecovery
        <5> QED
          BY <2>1, <2>2, <3>2, <5>1, <5>2 DEF KeptInv
      <4> QED
        BY <4>1, <4>2, <4>3
    <3> QED
      BY <2>1, <3>1, <3>2
  <2>4. SavedHere' => checkpoint'.totals = cur'.totals
    BY <2>1 DEF SavedHere, RecoverPcs
  <2> QED
    BY <2>1, <2>2, <2>3, <2>4 DEF KeptInv
<1>5. CASE Apply
  <2>1. /\ UNCHANGED <<day, journal, commit, checkpoint, quality, edits, durable>>
        /\ pc = "apply" /\ pc' = "ckpt"
        /\ cur.totals \subseteq cur'.totals
        /\ cur.minute # None /\ cur.txn # 0 => Mark(cur') = Mark(cur)
        /\ cur.minute = None \/ cur.txn = 0 => ~(commit = Mark(cur'))
    BY <1>5, Applies DEF files, env
  <2>2. journal = None /\ (cur.minute # None => ~MarkedAs(cur))
    BY <2>1, AppliesToOpen
  <2>3. Recorded' = Recorded /\ Pending' = Pending /\ ~SavedHere' /\ ~Loading
    BY <2>1, FileSame DEF Recorded, Named, Pending, MarkAfterRecovery, SavedHere, Loading, RecoverPcs
  <2>4. ~(commit = Mark(cur'))
    BY <2>1, <2>2
  <2>5. checkpoint # None /\ ~MarkedAs(checkpoint) =>
          Mark(cur') = Mark(checkpoint) /\ checkpoint.totals \subseteq cur'.totals
    <3>1. SUFFICES ASSUME checkpoint # None, ~MarkedAs(checkpoint)
                   PROVE  Mark(cur') = Mark(checkpoint) /\ checkpoint.totals \subseteq cur'.totals
      OBVIOUS
    <3>2. Mark(cur) = Mark(checkpoint) /\ checkpoint.totals \subseteq cur.totals
      BY <2>2, <2>3, <3>1 DEF KeptInv
    <3>3. cur.minute # None /\ cur.txn # 0
      BY <3>1, <3>2, CheckpointParts DEF MarkInv, TypeInv
    <3> QED
      BY <2>1, <3>2, <3>3
  <2> QED
    BY <2>1, <2>2, <2>3, <2>4, <2>5 DEF KeptInv
<1>6. CASE RecoverQuality
  <2>1. /\ UNCHANGED <<day, journal, commit, checkpoint, cur, edits, durable>> /\ journal # None
        /\ pc = "rec_quality" /\ (Loading <=> Loading') /\ (SavedHere <=> SavedHere')
    BY <1>6, RecoverFrame DEF RecoverQuality
  <2>2. \/ AppendQuality(journal) /\ pc' = "rec_mark"
        \/ UNCHANGED quality /\ pc' = GiveUp(ret)
    BY <1>6 DEF RecoverQuality
  <2>3. Named \subseteq Named' /\ (AppendQuality(journal) => journal.meta \subseteq Named')
    BY <2>2, AppendNames DEF Named
  <2>4. Recorded \subseteq Recorded' /\ Pending' = Pending
    BY <2>1, <2>3, FileSame, RecordedGrows DEF Pending, MarkAfterRecovery
  <2>5. edits = 0 => journal.totals \subseteq DayBatches'
    BY <2>1, FileSame, WholeBlock DEF TailInv
  <2>6. pc' = "rec_mark" => journal.totals \subseteq Recorded'
    <3>1. pc' = "rec_mark" => journal.meta \subseteq Named'
      BY <2>2, <2>3, Callers DEF TypeInv
    <3> QED
      BY <2>1, <2>5, <3>1 DEF AppliedInv, Recorded
  <2>7. pc' \in {"rec_mark", "unloaded", "idle", "flush_resave"}
    BY <2>2, Callers DEF TypeInv
  <2> QED
    BY <2>1, <2>4, <2>6, <2>7 DEF KeptInv
<1>7. CASE RecoverMark
  <2>1. /\ UNCHANGED <<day, journal, checkpoint, quality, cur, edits, durable>> /\ journal # None
        /\ pc = "rec_mark" /\ (Loading <=> Loading') /\ (SavedHere <=> SavedHere')
    BY <1>7, RecoverFrame DEF RecoverMark
  <2>2. Recorded' = Recorded /\ Pending' = Pending
    BY <2>1, FileSame DEF Recorded, Named, Pending, MarkAfterRecovery
  <2>3. pc' \in {"rec_delete", "unloaded", "idle", "flush_resave"}
    BY <1>7, Callers DEF TypeInv, RecoverMark
  <2> QED
    BY <2>1, <2>2, <2>3 DEF KeptInv
<1>8. CASE RecoverDelete
  <2>1. /\ UNCHANGED <<day, commit, checkpoint, quality, cur, edits, durable>> /\ journal # None
        /\ pc = "rec_delete" /\ (Loading <=> Loading') /\ (SavedHere <=> SavedHere')
        /\ journal' \in {journal, None}
    BY <1>8, RecoverFrame DEF RecoverDelete
  <2>2. Recorded' = Recorded
    BY <2>1, FileSame DEF Recorded, Named
  <2>3. /\ MarkedAs(journal) /\ Mark(journal) = Mark(checkpoint) /\ checkpoint # None
        /\ ~Loading => Mark(cur) = Mark(journal)
    BY <2>1 DEF MarkInv
  <2>4. pc' = "flush_quality" => ret = "append"
    BY <1>8, Callers DEF TypeInv, RecoverDelete
  <2>5. pc' \in {"load", "flush_save", "flush_quality", "unloaded", "idle", "flush_resave"}
    BY <1>8, Callers DEF TypeInv, RecoverDelete
  <2>6. journal.totals \subseteq Recorded /\ journal.totals = checkpoint.totals /\ (~Loading => cur.totals = journal.totals)
    BY <2>1 DEF KeptInv
  <2>7. ret = "append" => ~Loading
    BY <2>1 DEF Loading
  <2>8. Pending = {} /\ Pending' = {}
    BY <2>1, <2>3, PendingIs DEF Pending, MarkAfterRecovery
  <2> QED
    BY <2>1, <2>2, <2>3, <2>4, <2>5, <2>6, <2>7, <2>8 DEF KeptInv
<1>9. CASE Load
  <2>1. UNCHANGED <<day, journal, commit, checkpoint, quality, edits, durable>> /\ journal = None
        /\ pc' \in {"idle", "load_repair", "unloaded", "load_quality"}
    BY <1>9, Loads DEF files
  <2>2. Recorded' = Recorded /\ Pending' = Pending /\ ~SavedHere'
    BY <2>1, FileSame DEF Recorded, Named, Pending, MarkAfterRecovery, SavedHere, RecoverPcs
  <2>3. checkpoint # None /\ ~MarkedAs(checkpoint) /\ ~Loading' =>
          Mark(cur') = Mark(checkpoint) /\ checkpoint.totals \subseteq cur'.totals
    BY <1>9, Loads DEF Loading
  <2>4. cur'.minute # None /\ commit = Mark(cur') => cur'.totals = {}
    BY <1>9, Loads
  <2> QED
    BY <2>1, <2>2, <2>3, <2>4 DEF KeptInv
<1>10. CASE LoadQuality
  <2>1. /\ UNCHANGED <<day, journal, commit, checkpoint, edits, durable>> /\ journal = None
        /\ checkpoint # None /\ MarkedAs(checkpoint) /\ pc' \in {"load_clear", "idle", "load_repair"}
        /\ cur'.minute = None \/ cur'.totals = checkpoint.totals
    BY <1>10, LoadsQuality
  <2>2. Named \subseteq Named'
    <3>1. AppendQuality(cur) \/ UNCHANGED quality
      BY <1>10 DEF LoadQuality
    <3> QED
      BY <3>1, AppendNames DEF Named
  <2>3. Recorded \subseteq Recorded' /\ Pending' = Pending /\ ~SavedHere'
    BY <2>1, <2>2, FileSame, RecordedGrows DEF Pending, MarkAfterRecovery, SavedHere, RecoverPcs
  <2> QED
    BY <2>1, <2>2, <2>3 DEF KeptInv
<1>11. CASE LoadClear \/ FlushEmpty \/ FlushClear
  <2>1. /\ UNCHANGED <<day, journal, commit, quality, edits, durable, ret>>
        /\ checkpoint' \in {checkpoint, None}
        /\ pc' \in {"load_state", "apply", "flush_state"}
        /\ (cur' = cur /\ pc = "load_clear") \/ cur'.minute = None
    BY <1>11 DEF LoadClear, FlushEmpty, FlushClear, ClearCheckpoint, members, env, ghosts, NoTxn
  <2>2. pc = "load_clear" \/ pc = "flush_clear" \/ (pc = "flush_save" /\ NothingToSave(cur))
    BY <1>11 DEF LoadClear, FlushEmpty, FlushClear
  <2>3. journal = None
    BY <2>2 DEF MarkInv, LoadPcs
  <2>4. checkpoint = None \/ MarkedAs(checkpoint)
    <3>1. CASE pc = "load_clear"
      BY <3>1 DEF MarkInv
    <3>2. CASE pc = "flush_clear"
      BY <3>2 DEF MarkInv, SavedHere
    <3>3. CASE pc = "flush_save" /\ NothingToSave(cur)
      <4>1. ~Loading /\ cur.minute # None
        BY <3>3 DEF Loading, RecoverPcs, TypeInv, Control, OpenPcs
      <4>2. cur.txn = 0
        BY <3>3, <4>1 DEF AppliedInv, NothingToSave
      <4> QED
        BY <2>3, <4>1, <4>2 DEF KeptInv, MarkInv
    <3> QED
      BY <2>2, <3>1, <3>2, <3>3
  <2>5. Pending = {} /\ Pending' = {}
    BY <2>1, <2>3, <2>4, PendingIs DEF Pending, MarkAfterRecovery
  <2>6. Recorded' = Recorded /\ ~SavedHere' /\ (pc = "load_clear" => ~Loading)
    BY <2>1, FileSame DEF Recorded, Named, SavedHere, Loading, RecoverPcs
  <2> QED
    BY <2>1, <2>3, <2>4, <2>5, <2>6 DEF KeptInv
<1>12. CASE FlushTest
  <2>1. UNCHANGED <<day, journal, commit, checkpoint, quality, cur, edits, durable>>
        /\ pc = "flush_test" /\ pc' \in {"flush_quality", "flush_journal"}
    BY <1>12 DEF FlushTest, files, members, ghosts
  <2>2. Recorded' = Recorded /\ Pending' = Pending /\ ~Loading /\ SavedHere /\ journal = None /\ cur.minute # None
    BY <2>1, FileSame DEF Recorded, Named, Pending, MarkAfterRecovery, SavedHere, Loading, RecoverPcs, MarkInv,
      TypeInv, Control, OpenPcs
  <2>3. pc' = "flush_quality" => MarkedAs(cur) \/ cur.totals = {}
    BY <1>12 DEF FlushTest, AlreadyAppended
  <2> QED
    BY <2>1, <2>2, <2>3 DEF KeptInv
<1>13. CASE FlushJournal
  <2>1. /\ UNCHANGED <<day, commit, checkpoint, quality, cur, edits, durable>>
        /\ pc = "flush_journal" /\ pc' \in {"rec_raw", "flush_resave"}
        /\ UNCHANGED journal \/ journal' = NewJournal
    BY <1>13 DEF FlushJournal, members, ghosts
  <2>2. Recorded' = Recorded /\ ~Loading /\ SavedHere /\ journal = None
    BY <2>1, FileSame DEF Recorded, Named, SavedHere, Loading, RecoverPcs, MarkInv
  <2>3. checkpoint.totals = cur.totals /\ Mark(checkpoint) = Mark(cur) /\ checkpoint # None
    BY <2>2 DEF KeptInv, MarkInv
  <2>4. /\ NewJournal.totals = cur.totals /\ Mark(NewJournal) = Mark(cur)
    BY DEF NewJournal
  <2>5. CASE UNCHANGED journal
    <3>1. Pending' = Pending
      BY <2>1, <2>5 DEF Pending, MarkAfterRecovery
    <3> QED
      BY <2>1, <2>2, <2>3, <2>5, <3>1 DEF KeptInv
  <2>6. CASE journal' = NewJournal
    <3>1. Pending \subseteq checkpoint.totals
      BY <2>2, PendingIs
    <3>2. NewJournal # None
      BY <2>1, OpenMinute, NoneAssumption DEF TypeInv, Control, OpenPcs
    <3> QED
      BY <2>1, <2>2, <2>3, <2>4, <2>6, <3>1, <3>2 DEF KeptInv
  <2> QED
    BY <2>1, <2>5, <2>6
<1>14. CASE FlushQuality
  <2>1. UNCHANGED <<day, journal, commit, checkpoint, cur, edits, durable>>
        /\ pc = "flush_quality" /\ pc' \in {"flush_mark", "idle"}
    BY <1>14 DEF FlushQuality, members, ghosts
  <2>2. Named \subseteq Named'
    <3>1. AppendQuality(cur) \/ UNCHANGED quality
      BY <1>14 DEF FlushQuality
    <3> QED
      BY <3>1, AppendNames DEF Named
  <2>3. Recorded \subseteq Recorded' /\ Pending' = Pending /\ SavedHere /\ ~Loading
    BY <2>1, <2>2, FileSame, RecordedGrows DEF Pending, MarkAfterRecovery, SavedHere, Loading, RecoverPcs
  <2> QED
    BY <2>1, <2>3 DEF KeptInv
<1>15. CASE FlushMark
  <2>1. /\ UNCHANGED <<day, journal, checkpoint, quality, cur, edits, durable>>
        /\ pc = "flush_mark" /\ pc' \in {"flush_clear", "idle"} /\ commit' \in {commit, Mark(cur)}
    BY <1>15 DEF FlushMark, members, WriteMark, ghosts
  <2>2. Recorded' = Recorded /\ ~Loading /\ SavedHere /\ journal = None
    BY <2>1, FileSame DEF Recorded, Named, SavedHere, Loading, RecoverPcs, MarkInv
  <2>3. checkpoint.totals = cur.totals /\ Mark(checkpoint) = Mark(cur) /\ checkpoint # None /\ cur.totals \subseteq Recorded
    BY <2>1, <2>2 DEF KeptInv, MarkInv
  <2>4. durable' \subseteq Pending' \cup Journalled' \cup Recorded'
    <3>1. durable \subseteq Recorded \cup Pending /\ Pending \subseteq Recorded
      BY <2>2, <2>3, PendingIs DEF KeptInv
    <3> QED
      BY <2>1, <2>2, <3>1
  <2> QED
    BY <2>1, <2>2, <2>3, <2>4 DEF KeptInv
<1>16. CASE RefuseTxn
  <2>1. UNCHANGED <<day, journal, commit, checkpoint, quality, edits, durable>> /\ pc = "apply" /\ pc' = "idle" /\ cur' = OpenTxn
    BY <1>16 DEF RefuseTxn, files, ghosts
  <2>2. Recorded' = Recorded /\ Pending' = Pending /\ ~SavedHere' /\ ~Loading
    BY <2>1, FileSame DEF Recorded, Named, Pending, MarkAfterRecovery, SavedHere, Loading, RecoverPcs
  <2>3. CASE cur.minute # None
    <3>1. UNCHANGED cur
      BY <2>1, <2>3 DEF OpenTxn
    <3> QED
      BY <2>1, <2>2, <3>1 DEF KeptInv
  <2>4. CASE cur.minute = None
    <3>1. cur'.totals = {} /\ journal = None
      BY <2>1, <2>2, <2>4 DEF OpenTxn, NoTxn, MarkInv
    <3>2. checkpoint = None \/ MarkedAs(checkpoint)
      BY <2>2, <2>4, <3>1, CheckpointParts DEF KeptInv, TypeInv
    <3> QED
      BY <2>1, <2>2, <3>1, <3>2 DEF KeptInv
  <2> QED
    BY <2>3, <2>4
<1>17. CASE Crash
  <2>1. UNCHANGED <<day, journal, commit, checkpoint, quality, edits, durable>> /\ pc' = "unloaded"
    BY <1>17 DEF Crash, files, ghosts
  <2>2. Recorded' = Recorded /\ Pending' = Pending /\ ~SavedHere' /\ Loading'
    BY <2>1, FileSame DEF Recorded, Named, Pending, MarkAfterRecovery, SavedHere, Loading, RecoverPcs
  <2> QED
    BY <2>1, <2>2 DEF KeptInv
<1> QED
  BY <1>1, <1>2, <1>3, <1>4, <1>5, <1>6, <1>7, <1>8, <1>9, <1>10, <1>11, <1>12, <1>13, <1>14, <1>15, <1>16, <1>17,
     NotQuiet

-----------------------------------------------------------------------------
(* The invariants hold at the start.                                       *)
LEMMA CommitInit == Init => /\ MarkInv /\ TailInv /\ ClockInv /\ FaultInv
                            /\ AppliedInv /\ OnceInv /\ KeptInv
<1> SUFFICES ASSUME Init PROVE /\ MarkInv /\ TailInv /\ ClockInv /\ FaultInv
                               /\ AppliedInv /\ OnceInv /\ KeptInv
  OBVIOUS
<1>1. /\ day = <<>> /\ Len(day) = 0 /\ journal = None /\ checkpoint = None /\ commit = None /\ quality = {}
      /\ cur.minute = None /\ cur.totals = {} /\ pc = "unloaded" /\ call = None
      /\ faults = 0 /\ readFaults = 0 /\ edits = 0 /\ durable = {}
  BY EmptySeq DEF Init, NoTxn
<1>2. FileBatches = {}
  BY <1>1 DEF FileBatches
<1>3. ~SavedHere
  BY <1>1 DEF SavedHere, RecoverPcs
<1> QED
  BY <1>1, <1>2, <1>3, MarkInit
     DEF Init, TailInv, ClockInv, Flushing, OpenPcs, RecoverPcs, FaultInv, AppliedInv, OnceInv, KeptInv

(* What holds whatever fails, dies, is edited or is set back.              *)
CommitInv == TypeInv /\ MarkInv /\ TailInv /\ ClockInv /\ FaultInv /\ AppliedInv

LEMMA CommitStep == CommitInv /\ [Next]_vars => CommitInv'
  BY TypeStep, MarkStep, TailStep, ClockStep, FaultStep, AppliedStep DEF CommitInv

(* The invariants that hold without a hypothesis.                          *)
LEMMA Committing == Spec => []CommitInv
<1>1. Init => CommitInv
  BY TypeInit, CommitInit DEF CommitInv
<1> QED
  BY <1>1, CommitStep, PTL DEF Spec

(* OnceInv says of rows and totals what CountedOnce says of a restart.     *)
LEMMA OnceSuffices ==
  ASSUME MarkInv, OnceInv
  PROVE  CountedOnce
<1>1. \A i, j \in 1..Len(day) : (i # j /\ day[i].app = day[j].app) => day[i].batches \cap day[j].batches = {}
  BY DEF OnceInv
<1>2. DayBatches \subseteq FileBatches
  BY DEF DayBatches, FileBatches
<1>3. Pending \cap (DayBatches \cup Journalled) = {}
  BY <1>2, PendingIs DEF OnceInv, Journalled
<1> QED
  BY <1>1, <1>3 DEF CountedOnce

(* A restart counts no batch twice, wherever the process died, whatever    *)
(* was written in part, edited, or set back, unless both a write and the   *)
(* reading of the marker fail: a minute left in RAM after it was committed *)
(* is then appended again.                                                 *)
THEOREM NothingTwice == Recognised => (Spec => []CountedOnce)
<1> SUFFICES ASSUME Recognised PROVE Spec => []CountedOnce
  OBVIOUS
<1>1. Init => OnceInv
  BY CommitInit
<1>2. CommitInv /\ OnceInv /\ [Next]_vars => OnceInv'
  BY OnceStep DEF CommitInv
<1>3. CommitInv /\ OnceInv => CountedOnce
  BY OnceSuffices DEF CommitInv
<1> QED
  BY <1>1, <1>2, <1>3, Committing, PTL DEF Spec

(* KeptInv holds where a committed minute is not reopened.                 *)
LEMMA Keeping == NotReopened => (Spec => []KeptInv)
<1> SUFFICES ASSUME NotReopened PROVE Spec => []KeptInv
  OBVIOUS
<1>1. Init => KeptInv
  BY CommitInit
<1>2. CommitInv /\ CommitInv' /\ KeptInv /\ [Next]_vars => KeptInv'
  BY KeptStep DEF CommitInv
<1> QED
  BY <1>1, <1>2, Committing, PTL DEF Spec

(* What SaveCheckpoint has written once is never lost: through every       *)
(* flush, recovery, load and crash, one of the files still leads a restart *)
(* to it.                                                                  *)
THEOREM NothingLost == NotReopened => (Spec => []DurableKept)
<1> SUFFICES ASSUME NotReopened PROVE Spec => []DurableKept
  OBVIOUS
<1>1. KeptInv => DurableKept
  BY DEF KeptInv, DurableKept, Recoverable, Recorded
<1> QED
  BY <1>1, Keeping, PTL

(* And its provenance is on disk before its bytes leave the checkpoint and *)
(* the journal.                                                            *)
THEOREM ProvenanceFirst == NotReopened => (Spec => []ProvenanceKept)
<1> SUFFICES ASSUME NotReopened PROVE Spec => []ProvenanceKept
  OBVIOUS
<1>1. KeptInv => ProvenanceKept
  BY DEF KeptInv, ProvenanceKept, Recorded, Named
<1> QED
  BY <1>1, Keeping, PTL

(* A store whose journal and daily file disagree writes nothing.           *)
LEMMA ConflictStops ==
  ASSUME TypeInv, MarkInv, TailInv, FaultInv, [Next]_vars, journal # None, ~TailMatches
  PROVE  pc' \in {"unloaded", "rec_raw"} /\ (UNCHANGED files \/ edits' # edits)
<1>1. pc = "unloaded" \/ (pc = "rec_raw" /\ ret = "load")
  BY DEF TailInv
<1>2. ~RawConsistent
  BY ConsistentTail DEF TypeInv
<1>3. CASE Quiet
  <2>1. CASE CompleteRaw
    BY <1>1, <1>2, <2>1, Callers DEF CompleteRaw, TypeInv
  <2>2. CASE EnsureLoaded
    BY <2>2 DEF EnsureLoaded, RecoverAppend
  <2>3. CASE UNCHANGED vars
    BY <1>1, <2>3 DEF vars
  <2>4. CASE ~CompleteRaw /\ ~EnsureLoaded /\ ~UNCHANGED vars
    BY <1>1, <1>3, <2>4 DEF Quiet, LoadSaveState, LoadRepair, FlushState, CheckpointSkip, CheckpointState,
      Checkpoint, SetPreferred, Update
  <2> QED
    BY <2>1, <2>2, <2>3, <2>4
<1>4. CASE Crash
  BY <1>4 DEF Crash
<1>5. CASE ExternalEdit
  <2>1. edits \in Nat /\ edits' = edits + 1 /\ UNCHANGED pc
    BY <1>5 DEF ExternalEdit, FaultInv
  <2> QED
    BY <1>1, <2>1
<1>6. CASE WriteRawRow
  BY <1>2, <1>6 DEF WriteRawRow
<1>7. CASE ~Quiet /\ ~Crash /\ ~ExternalEdit /\ ~WriteRawRow
  BY <1>1, <1>7, NotQuiet, SavesMinute DEF RecoverQuality, RecoverMark, RecoverDelete, Load, LoadQuality, LoadClear,
    FlushEmpty, FlushTest, FlushJournal, FlushQuality, FlushMark, FlushClear, Apply, RefuseTxn
<1> QED
  BY <1>3, <1>4, <1>5, <1>6, <1>7

(* RecoverAppend fails in EnsureLoaded before anything else is read or     *)
(* written, and every later call fails there again.                        *)
THEOREM ConflictUntouched == Spec => ConflictPreserved
<1>1. CommitInv /\ [Next]_vars =>
        [(journal # None /\ ~TailMatches) =>
           /\ pc' \in {"unloaded", "rec_raw"}
           /\ UNCHANGED files \/ edits' # edits]_vars
  BY ConflictStops DEF CommitInv
<1> QED
  BY <1>1, Committing, PTL DEF Spec, ConflictPreserved

-----------------------------------------------------------------------------
(* Whole blocks.  The part of the daily file that no append is at work on. *)
Prefix == IF journal = None THEN Len(day) ELSE journal.offset

(* It ends in a whole block and, unless someone edited it, an application  *)
(* that has a batch in it is not alone; what follows it is a prefix of the *)
(* journalled block.                                                       *)
ResumeInv ==
  /\ \E q \in Nat : Prefix = q * Rows
  /\ journal = None /\ day # <<>> => day[Len(day)].app = Rows
  /\ pc \in {"rec_quality", "rec_mark", "rec_delete"} => day[Len(day)].app = Rows
  /\ edits = 0 =>
       /\ journal # None => TailMatches
       /\ \A i \in 1..Prefix : \A b \in day[i].batches : \A r \in 1..Rows :
            \E j \in 1..Prefix : day[j].app = r /\ b \in day[j].batches

LEMMA NextBlock ==
  ASSUME NEW q \in Nat, NEW k \in Nat \ {0}
  PROVE  q * k + k = (q + 1) * k /\ (q * k) % k = 0
<1>1. (q * k) % k = 0
  BY Z3
<1> QED
  BY <1>1

(* Every step keeps ResumeInv.                                             *)
LEMMA ResumeStep ==
  ASSUME TypeInv, MarkInv, TailInv, FaultInv, ResumeInv, [Next]_vars
  PROVE  ResumeInv'
<1>1. /\ Rows \in Nat \ {0} /\ Len(day) \in Nat
      /\ journal # None => journal.offset \in Nat
  BY HistoryAssumption DEF HistoryAssumption, TypeInv, TypeOK, Journal
<1>2. CASE WriteRawRow
  <2>1. /\ journal # None /\ UNCHANGED <<journal, edits>> /\ pc' = "rec_raw" /\ TailMatches'
        /\ \A i \in 1..Len(day) : day'[i] = day[i]
        /\ Len(day) = journal.offset + Present /\ Present \in 0..(Rows - 1)
    BY <1>2, RowWritten, NextRowMatches DEF WriteRawRow, TypeInv, env
  <2>2. Prefix' = Prefix /\ Prefix \in Nat /\ Prefix <= Len(day)
    BY <1>1, <2>1 DEF Prefix
  <2>3. \A i \in 1..Prefix : day'[i] = day[i]
    BY <1>1, <2>1, <2>2
  <2> QED
    BY <2>1, <2>2, <2>3 DEF ResumeInv
<1>3. CASE CompleteRaw
  <2>1. UNCHANGED <<day, journal, edits>> /\ pc = "rec_raw" /\ journal # None
    BY <1>3 DEF CompleteRaw, files, TypeInv, Control, RecoverPcs
  <2>2. pc' = "rec_quality" => day[Len(day)].app = Rows
    <3>1. SUFFICES ASSUME pc' = "rec_quality" PROVE day[Len(day)].app = Rows
      OBVIOUS
    <3>2. RawConsistent /\ Present = Rows
      BY <1>3, <3>1, Callers DEF CompleteRaw, TypeInv
    <3>3. TailMatches /\ Len(day) = journal.offset + Rows
      BY <1>1, <2>1, <3>2, ConsistentTail DEF Present, TypeInv
    <3>4. day[Len(day)] = [minute |-> journal.minute, app |-> Rows, batches |-> journal.totals]
      BY <1>1, <2>1, <3>3 DEF TailMatches
    <3> QED
      BY <3>4
  <2>3. pc' \in {"rec_quality", "unloaded", "idle", "flush_resave"}
    BY <1>3, Callers DEF CompleteRaw, TypeInv
  <2> QED
    BY <2>1, <2>2, <2>3 DEF ResumeInv, Prefix, TailMatches
<1>4. CASE RecoverDelete
  <2>1. /\ UNCHANGED <<day, edits>> /\ pc = "rec_delete" /\ journal # None
        /\ journal' \in {journal, None}
        /\ pc' \in {"load", "flush_save", "flush_quality", "unloaded", "idle", "flush_resave"}
    BY <1>4, Callers DEF RecoverDelete, TypeInv, Control, RecoverPcs, env
  <2>2. CASE UNCHANGED journal
    BY <2>1, <2>2 DEF ResumeInv, Prefix, TailMatches
  <2>3. CASE journal' = None
    <3>1. Len(day) = journal.offset + Rows /\ Prefix = journal.offset /\ Prefix' = Len(day)
      BY <2>1, <2>3 DEF TailInv, Prefix
    <3>2. \E q \in Nat : Prefix' = q * Rows
      <4>1. PICK q \in Nat : Prefix = q * Rows
        BY DEF ResumeInv
      <4>2. Prefix' = (q + 1) * Rows
        BY <1>1, <3>1, <4>1, NextBlock
      <4> QED
        BY <4>2
    <3>3. day[Len(day)].app = Rows
      BY <2>1 DEF ResumeInv
    <3>4. ASSUME edits = 0, NEW i \in 1..Len(day), NEW b \in day[i].batches, NEW r \in 1..Rows
          PROVE  \E j \in 1..Len(day) : day[j].app = r /\ b \in day[j].batches
      <4>1. CASE i <= journal.offset
        <5>1. i \in 1..Prefix
          BY <1>1, <2>1, <3>1, <4>1
        <5>2. PICK j \in 1..Prefix : day[j].app = r /\ b \in day[j].batches
          BY <3>4, <5>1 DEF ResumeInv
        <5>3. j \in 1..Len(day)
          BY <1>1, <2>1, <3>1
        <5> QED
          BY <5>2, <5>3
      <4>2. CASE i > journal.offset
        <5>1. \A q \in 1..Rows : /\ journal.offset + q \in 1..Len(day)
                                 /\ day[journal.offset + q].app = q
                                 /\ day[journal.offset + q].batches = journal.totals
          <6>1. TailMatches
            BY <2>1, <3>4 DEF ResumeInv
          <6>2. SUFFICES ASSUME NEW q \in 1..Rows
                         PROVE  /\ journal.offset + q \in 1..Len(day)
                                /\ day[journal.offset + q].app = q
                                /\ day[journal.offset + q].batches = journal.totals
            OBVIOUS
          <6>3. journal.offset + q \in 1..Len(day) /\ journal.offset + q <= Len(day)
            BY <1>1, <2>1, <3>1
          <6>4. day[journal.offset + q] = [minute |-> journal.minute, app |-> q, batches |-> journal.totals]
            BY <6>1, <6>3 DEF TailMatches
          <6> QED
            BY <6>3, <6>4
        <5>2. i - journal.offset \in 1..Rows /\ i = journal.offset + (i - journal.offset)
          BY <1>1, <2>1, <3>1, <4>2
        <5>3. b \in journal.totals
          BY <5>1, <5>2
        <5> QED
          BY <5>1, <5>3
      <4> QED
        BY <1>1, <2>1, <4>1, <4>2
    <3> QED
      BY <2>1, <2>3, <3>1, <3>2, <3>3, <3>4 DEF ResumeInv
  <2> QED
    BY <2>1, <2>2, <2>3
<1>5. CASE FlushJournal
  <2>1. /\ UNCHANGED <<day, edits>> /\ journal = None /\ pc' \in {"rec_raw", "flush_resave"}
        /\ UNCHANGED journal \/ (journal' = NewJournal /\ pc' = "rec_raw")
    BY <1>5 DEF FlushJournal, MarkInv
  <2>2. CASE UNCHANGED journal
    BY <2>1, <2>2 DEF ResumeInv, Prefix
  <2>3. CASE journal' = NewJournal
    <3>1. /\ journal'.offset = Len(day) /\ journal'.anchor = Anchor(Len(day))
      BY <2>3 DEF NewJournal
    <3>2. journal' # None
      BY <1>5, <2>3, OpenMinute, NoneAssumption DEF FlushJournal, TypeInv, Control, OpenPcs
    <3>3. TailMatches'
      BY <1>1, <2>1, <3>1 DEF TailMatches, Anchor
    <3>4. Prefix' = Prefix
      BY <2>1, <3>1, <3>2 DEF Prefix
    <3> QED
      BY <2>1, <3>2, <3>3, <3>4 DEF ResumeInv
  <2> QED
    BY <2>1, <2>2, <2>3
<1>6. CASE ExternalEdit
  <2>1. /\ UNCHANGED <<journal, pc>> /\ pc = "unloaded" /\ edits' # 0
        /\ Len(day') = Len(day) /\ \A i \in 1..Len(day) : day'[i].app = day[i].app
    BY <1>6, RowCut DEF FaultInv
  <2>2. Prefix' = Prefix /\ (day = <<>> <=> day' = <<>>)
    <3>1. day \in Seq(Row) /\ day' \in Seq(Row)
      BY TypeStep DEF TypeInv, TypeOK
    <3> QED
      BY <2>1, <3>1, EmptySeq DEF Prefix
  <2>3. journal = None /\ day # <<>> => day'[Len(day')].app = Rows
    <3>1. day # <<>> => Len(day) \in 1..Len(day)
      BY <1>1, EmptySeq DEF TypeInv, TypeOK
    <3> QED
      BY <2>1, <3>1 DEF ResumeInv
  <2> QED
    BY <2>1, <2>2, <2>3 DEF ResumeInv
<1>7. CASE [Next]_vars /\ ~WriteRawRow /\ ~CompleteRaw /\ ~RecoverDelete /\ ~FlushJournal /\ ~ExternalEdit
  <2>1. /\ UNCHANGED <<day, journal>> /\ (edits' = 0 => edits = 0)
        /\ pc' \in {"rec_quality", "rec_mark", "rec_delete"} => pc \in {"rec_quality", "rec_mark", "rec_delete"}
    <3>1. CASE Quiet
      <4>1. UNCHANGED <<day, journal, edits>>
            /\ (pc' \in {"rec_mark", "rec_delete"} => pc' = pc)
        BY <3>1, QuietFrame
      <4>2. pc' = "rec_quality" => pc = "rec_quality"
        BY <1>7, <3>1, Callers DEF Quiet, TypeInv, EnsureLoaded, RecoverAppend, Resume, LoadSaveState, LoadRepair, Loaded,
          FlushState, CheckpointSkip, AfterCheckpoint, CheckpointState, Checkpoint, SetPreferred, Update, vars
      <4> QED
        BY <4>1, <4>2
    <3>2. CASE RecoverQuality \/ RecoverMark
      BY <3>2, RecoverFrame DEF RecoverQuality, RecoverMark
    <3>3. CASE Load \/ LoadQuality
      BY <3>3, Loads, LoadsQuality DEF files
    <3>4. CASE Saving
      BY <3>4, SavesMinute
    <3>5. CASE Apply
      BY <3>5, Applies DEF files, env
    <3>6. CASE ~Quiet /\ ~RecoverQuality /\ ~RecoverMark /\ ~Load /\ ~LoadQuality /\ ~Saving /\ ~Apply
      BY <1>7, <3>6, NotQuiet DEF LoadClear, FlushEmpty, FlushTest, FlushQuality, FlushMark, FlushClear, RefuseTxn,
        Crash, files, env
    <3> QED
      BY <3>1, <3>2, <3>3, <3>4, <3>5, <3>6
  <2>2. Prefix' = Prefix /\ (TailMatches' <=> TailMatches)
    BY <2>1 DEF Prefix, TailMatches
  <2> QED
    BY <2>1, <2>2 DEF ResumeInv
<1> QED
  BY <1>2, <1>3, <1>4, <1>5, <1>6, <1>7

LEMMA Resuming == Spec => []ResumeInv
<1>1. Init => ResumeInv
  <2> SUFFICES ASSUME Init PROVE ResumeInv
    OBVIOUS
  <2>1. day = <<>> /\ Len(day) = 0 /\ journal = None /\ pc = "unloaded"
    BY EmptySeq DEF Init
  <2>2. Prefix = 0 /\ Prefix = 0 * Rows
    BY <2>1, HistoryAssumption DEF HistoryAssumption, Prefix
  <2> QED
    BY <2>1, <2>2 DEF ResumeInv
<1>2. CommitInv /\ ResumeInv /\ [Next]_vars => ResumeInv'
  BY ResumeStep DEF CommitInv
<1> QED
  BY <1>1, <1>2, Committing, PTL DEF Spec

(* Whatever fails, dies or is set back, the next RecoverAppend finds the   *)
(* file its journal was written for.                                       *)
THEOREM AlwaysResumable == MaxEdits = 0 => (Spec => []AppendResumable)
<1> SUFFICES ASSUME MaxEdits = 0 PROVE Spec => []AppendResumable
  OBVIOUS
<1>1. ASSUME CommitInv, ResumeInv PROVE AppendResumable
  <2>1. edits = 0
    BY <1>1 DEF CommitInv, FaultInv
  <2>2. Prefix % Rows = 0
    BY <1>1, NextBlock, HistoryAssumption DEF ResumeInv, HistoryAssumption
  <2> QED
    BY <1>1, <2>1, <2>2 DEF ResumeInv, AppendResumable, Prefix
<1> QED
  BY <1>1, Committing, Resuming, PTL

-----------------------------------------------------------------------------
(* The ledger.  Nothing is in RAM before a load.                           *)
LoadInv == Loading => cur.totals = {}

(* Every step keeps LoadInv.                                               *)
LEMMA LoadInvStep ==
  ASSUME TypeInv, MarkInv, LoadInv, [Next]_vars
  PROVE  LoadInv'
<1>1. CASE Quiet
  <2>1. UNCHANGED cur
    BY <1>1, QuietFrame
  <2>2. Loading' => Loading
    BY <1>1, Callers DEF Quiet, TypeInv, CompleteRaw, EnsureLoaded, RecoverAppend, Resume, LoadSaveState, LoadRepair,
      Loaded, FlushState, CheckpointSkip, AfterCheckpoint, CheckpointState, Checkpoint, SetPreferred, Update, vars,
      Loading, RecoverPcs
  <2> QED
    BY <2>1, <2>2 DEF LoadInv
<1>2. CASE WriteRawRow
  BY <1>2, RowWritten DEF LoadInv, members, Loading
<1>3. CASE RecoverQuality \/ RecoverMark \/ RecoverDelete
  BY <1>3, RecoverFrame DEF LoadInv
<1>4. CASE Load
  BY <1>4, Loads DEF LoadInv, Loading, RecoverPcs
<1>5. CASE ExternalEdit
  BY <1>5, RowCut DEF LoadInv, Loading, members
<1>6. CASE Crash
  BY <1>6 DEF Crash, LoadInv, NoTxn
<1>7. CASE FlushJournal
  BY <1>7 DEF FlushJournal, LoadInv, Loading, RecoverPcs
<1>8. CASE LoadQuality \/ Saving \/ Apply
  BY <1>8, LoadsQuality, SavesMinute, Applies DEF LoadInv, Loading, RecoverPcs
<1>9. CASE LoadClear \/ FlushEmpty \/ FlushTest \/ FlushQuality \/ FlushMark \/ FlushClear \/ RefuseTxn
  <2>1. ~Loading'
    BY <1>9 DEF LoadClear, FlushEmpty, FlushTest, FlushQuality, FlushMark, FlushClear, RefuseTxn, Loading, RecoverPcs
  <2> QED
    BY <2>1 DEF LoadInv
<1> QED
  BY <1>1, <1>2, <1>3, <1>4, <1>5, <1>6, <1>7, <1>8, <1>9, NotQuiet

(* A step that changes neither what a restart would count nor what RAM     *)
(* holds beyond it.                                                        *)
Stutters ==
  /\ applied' = applied /\ Recoverable' = Recoverable
  /\ cur'.totals \ Recoverable = cur.totals \ Recoverable

(* Which steps accept, persist and forget.                                 *)
LEMMA LedgerCases ==
  ASSUME NotReopened, TypeInv, MarkInv, TailInv, ClockInv, FaultInv, AppliedInv, KeptInv, LoadInv,
         [Next]_vars, edits = 0, edits' = 0
  PROVE  \/ Stutters
         \/ /\ Apply /\ Recoverable' = Recoverable
            /\ cur'.totals = cur.totals \cup ({call.batch} \ Gaps) /\ call.batch \notin applied
            /\ applied' = applied \cup {call.batch} /\ call.batch \in Batches
         \/ /\ Saving /\ applied' = applied /\ UNCHANGED cur
            /\ Recoverable' = Recoverable \cup cur.totals
         \/ Crash /\ applied' = applied /\ Recoverable' = Recoverable /\ cur'.totals = {}
<1> USE DEF MarkedAs, Mark, Journalled
<1>1. Recorded \subseteq DayBatches
  BY DEF Recorded
<1>2. ASSUME UNCHANGED <<day, journal, commit, checkpoint>>
      PROVE  Recoverable' = Recoverable
  <2>1. DayBatches' = DayBatches
    BY <1>2, FileSame
  <2> QED
    BY <1>2, <2>1 DEF Recoverable, Pending, MarkAfterRecovery
<1>3. CASE Quiet
  BY <1>2, <1>3, QuietFrame DEF Stutters
<1>4. CASE WriteRawRow
  <2>1. journal # None /\ UNCHANGED <<journal, commit, checkpoint, cur, applied>>
    BY <1>4, RowWritten DEF members, ghosts
  <2>2. Pending' = Pending
    BY <2>1 DEF Pending, MarkAfterRecovery
  <2> QED
    BY <1>4, <2>1, <2>2, FileGrows DEF Stutters, Recoverable
<1>5. CASE ExternalEdit
  BY <1>5, RowCut DEF FaultInv
<1>6. CASE Saving
  <2>1. /\ UNCHANGED <<day, journal, commit, cur, applied>> /\ ~Loading /\ cur.minute # None
        /\ \/ UNCHANGED checkpoint
           \/ checkpoint' # None /\ Mark(checkpoint') = Mark(cur) /\ checkpoint'.totals = cur.totals
    BY <1>6, SavesMinute
  <2>2. CASE UNCHANGED checkpoint
    BY <1>2, <2>1, <2>2 DEF Stutters
  <2>3. CASE checkpoint' # None /\ Mark(checkpoint') = Mark(cur) /\ checkpoint'.totals = cur.totals
    <3>1. DayBatches' = DayBatches
      BY <2>1, FileSame
    <3>2. CASE journal # None
      <4>1. Pending = {} /\ Pending' = {} /\ cur.totals = journal.totals
        BY <2>1, <2>3, <3>2, PendingIs DEF KeptInv, MarkInv, Pending, MarkAfterRecovery
      <4> QED
        BY <1>6, <2>1, <3>1, <3>2, <4>1 DEF Recoverable
    <3>3. CASE journal = None /\ MarkedAs(cur)
      <4>1. Pending = {} /\ Pending' = {} /\ cur.totals \subseteq DayBatches
        BY <1>1, <2>1, <2>3, <3>3, PendingIs DEF KeptInv, Pending, MarkAfterRecovery
      <4> QED
        BY <1>6, <2>1, <3>1, <3>3, <4>1 DEF Recoverable
    <3>4. CASE journal = None /\ ~MarkedAs(cur)
      <4>1. Pending \subseteq cur.totals /\ Pending' = cur.totals
        BY <2>1, <2>3, <3>4, PendingIs DEF KeptInv, Pending, MarkAfterRecovery
      <4> QED
        BY <1>6, <2>1, <3>1, <3>4, <4>1 DEF Recoverable
    <3> QED
      BY <3>2, <3>3, <3>4
  <2> QED
    BY <2>1, <2>2, <2>3
<1>7. CASE Apply
  <2>1. UNCHANGED <<day, journal, commit, checkpoint>> /\ call # None
    BY <1>7, Applies DEF files
  <2>2. call.batch \in Batches
    BY <2>1 DEF TypeInv, TypeOK, Request
  <2> QED
    BY <1>2, <1>7, <2>1, <2>2, Applies DEF AppliedInv
<1>8. CASE RecoverQuality
  BY <1>2, <1>8, RecoverFrame DEF RecoverQuality, Stutters
<1>9. CASE RecoverMark
  <2>1. UNCHANGED <<day, journal, checkpoint, cur, applied>> /\ journal # None
    BY <1>9, RecoverFrame DEF RecoverMark
  <2>2. DayBatches' = DayBatches /\ Pending' = Pending
    BY <2>1, FileSame DEF Pending, MarkAfterRecovery
  <2> QED
    BY <2>1, <2>2 DEF Stutters, Recoverable
<1>10. CASE RecoverDelete
  <2>1. UNCHANGED <<day, commit, checkpoint, cur, applied>> /\ journal # None /\ pc = "rec_delete"
        /\ journal' \in {journal, None}
    BY <1>10, RecoverFrame DEF RecoverDelete
  <2>2. journal.totals \subseteq DayBatches /\ MarkedAs(journal) /\ checkpoint # None /\ Mark(journal) = Mark(checkpoint)
    BY <1>1, <2>1 DEF KeptInv, MarkInv
  <2>3. Pending = {} /\ Pending' = {} /\ DayBatches' = DayBatches
    BY <2>1, <2>2, PendingIs, FileSame DEF Pending, MarkAfterRecovery
  <2> QED
    BY <2>1, <2>2, <2>3 DEF Stutters, Recoverable
<1>11. CASE Load
  <2>1. UNCHANGED <<day, journal, commit, checkpoint, applied>> /\ journal = None /\ Loading
    BY <1>11, Loads DEF files, Load, Loading
  <2>2. cur.totals = {}
    BY <2>1 DEF LoadInv
  <2>3. cur'.totals = {} \/ (checkpoint # None /\ ~MarkedAs(checkpoint) /\ cur'.totals = checkpoint.totals)
    BY <1>11, Loads
  <2>4. cur'.totals \subseteq Recoverable
    BY <2>1, <2>3, PendingIs DEF Recoverable
  <2> QED
    BY <1>2, <2>1, <2>2, <2>4 DEF Stutters
<1>12. CASE LoadQuality
  <2>1. UNCHANGED <<day, journal, commit, checkpoint, applied>> /\ journal = None /\ pc = "load_quality"
        /\ checkpoint # None /\ MarkedAs(checkpoint) /\ cur'.totals \in {{}, checkpoint.totals}
    BY <1>12, LoadsQuality
  <2>2. cur.totals = {} /\ checkpoint.totals \subseteq Recoverable
    BY <1>1, <2>1 DEF MarkInv, KeptInv, Recoverable
  <2> QED
    BY <1>2, <2>1, <2>2 DEF Stutters
<1>13. CASE LoadClear \/ FlushEmpty \/ FlushClear
  <2>1. /\ UNCHANGED <<day, journal, commit, applied>> /\ checkpoint' \in {checkpoint, None}
        /\ \/ pc = "load_clear" /\ UNCHANGED cur
           \/ pc = "flush_save" /\ NothingToSave(cur) /\ cur'.totals = {}
           \/ pc = "flush_clear" /\ cur'.totals = {}
    BY <1>13 DEF LoadClear, FlushEmpty, FlushClear, ClearCheckpoint, members, ghosts, NoTxn
  <2>2. journal = None
    BY <2>1 DEF MarkInv, LoadPcs
  <2>3. checkpoint = None \/ MarkedAs(checkpoint)
    <3>1. CASE pc = "load_clear"
      BY <3>1 DEF MarkInv
    <3>2. CASE pc = "flush_clear"
      BY <3>2 DEF MarkInv, SavedHere
    <3>3. CASE pc = "flush_save" /\ NothingToSave(cur)
      <4>1. ~Loading /\ cur.minute # None
        BY <3>3 DEF Loading, RecoverPcs, TypeInv, Control, OpenPcs
      <4>2. cur.txn = 0
        BY <3>3, <4>1 DEF AppliedInv, NothingToSave
      <4> QED
        BY <2>2, <4>1, <4>2 DEF KeptInv, MarkInv
    <3> QED
      BY <2>1, <3>1, <3>2, <3>3
  <2>4. Pending = {} /\ Pending' = {} /\ DayBatches' = DayBatches
    BY <2>1, <2>2, <2>3, PendingIs, FileSame DEF Pending, MarkAfterRecovery
  <2>5. cur'.totals \ Recoverable = cur.totals \ Recoverable
    BY <1>1, <2>1 DEF KeptInv, Recoverable, NothingToSave
  <2> QED
    BY <2>1, <2>4, <2>5 DEF Stutters, Recoverable
<1>14. CASE FlushTest \/ FlushQuality
  BY <1>2, <1>14 DEF FlushTest, FlushQuality, files, members, ghosts, Stutters
<1>15. CASE FlushJournal
  <2>1. /\ UNCHANGED <<day, commit, checkpoint, cur, applied>> /\ pc = "flush_journal" /\ journal = None
        /\ UNCHANGED journal \/ journal' = NewJournal
    BY <1>15 DEF FlushJournal, members, ghosts, MarkInv
  <2>2. CASE UNCHANGED journal
    BY <1>2, <2>1, <2>2 DEF Stutters
  <2>3. CASE journal' = NewJournal
    <3>1. /\ NewJournal.totals = cur.totals /\ Mark(NewJournal) = Mark(cur)
      BY DEF NewJournal
    <3>2. NewJournal # None
      BY <2>1, OpenMinute, NoneAssumption DEF TypeInv, Control, OpenPcs
    <3>3. SavedHere /\ checkpoint.totals = cur.totals /\ checkpoint # None /\ Mark(checkpoint) = Mark(cur)
      BY <2>1 DEF SavedHere, KeptInv, MarkInv
    <3>4. Pending' = {} /\ Journalled' = cur.totals /\ DayBatches' = DayBatches
      BY <2>1, <2>3, <3>1, <3>2, <3>3, FileSame DEF Pending, MarkAfterRecovery
    <3>5. DayBatches \cup Pending = DayBatches \cup cur.totals
      <4>1. CASE MarkedAs(checkpoint)
        BY <1>1, <2>1, <3>3, <4>1, PendingIs DEF KeptInv
      <4>2. CASE ~MarkedAs(checkpoint)
        BY <2>1, <3>3, <4>2, PendingIs
      <4> QED
        BY <4>1, <4>2
    <3>6. Recoverable' = Recoverable
      BY <2>1, <3>4, <3>5 DEF Recoverable
    <3> QED
      BY <2>1, <3>6 DEF Stutters
  <2> QED
    BY <2>1, <2>2, <2>3
<1>16. CASE FlushMark
  <2>1. /\ UNCHANGED <<day, journal, checkpoint, cur, applied>> /\ pc = "flush_mark" /\ journal = None
        /\ commit' \in {commit, Mark(cur)}
    BY <1>16 DEF FlushMark, members, WriteMark, ghosts, MarkInv
  <2>2. checkpoint.totals \subseteq DayBatches
    BY <1>1, <2>1 DEF SavedHere, KeptInv
  <2>3. Pending \subseteq DayBatches /\ Pending' \subseteq DayBatches /\ DayBatches' = DayBatches
    BY <2>1, <2>2, PendingIs, FileSame DEF Pending
  <2> QED
    BY <2>1, <2>3 DEF Stutters, Recoverable
<1>17. CASE RefuseTxn
  <2>1. UNCHANGED <<day, journal, commit, checkpoint, applied>> /\ cur' = OpenTxn
    BY <1>17 DEF RefuseTxn, files, ghosts
  <2>2. cur'.totals = cur.totals
    BY <2>1 DEF OpenTxn, NoTxn, MarkInv
  <2> QED
    BY <1>2, <2>1, <2>2 DEF Stutters
<1>18. CASE Crash
  <2>1. UNCHANGED <<day, journal, commit, checkpoint, applied>> /\ cur'.totals = {}
    BY <1>18 DEF Crash, files, ghosts, NoTxn
  <2> QED
    BY <1>2, <1>18, <2>1
<1> QED
  BY <1>3, <1>4, <1>5, <1>6, <1>7, <1>8, <1>9, <1>10, <1>11, <1>12, <1>13, <1>14, <1>15, <1>16, <1>17, <1>18, NotQuiet

(* What a restart would count was applied.                                 *)
LEMMA RecoverableApplied ==
  ASSUME AppliedInv
  PROVE  Recoverable \subseteq applied \ Gaps
<1>1. DayBatches \subseteq FileBatches
  BY DEF DayBatches, FileBatches
<1> QED
  BY <1>1 DEF AppliedInv, Recoverable, Journalled, Pending

(* A step of the store is a step of the ledger or changes nothing there.   *)
LEMMA LedgerStep ==
  ASSUME NotReopened, CommitInv, KeptInv, LoadInv, [Next]_vars, edits = 0, edits' = 0
  PROVE  [Ledger!LedgerNext]_(Ledger!ledgerVars)
<1> USE DEF Ledger!LedgerNext, Ledger!ledgerVars, Ledger!Accept, Ledger!Persist, Ledger!Forget
<1>1. CASE Stutters
  BY <1>1 DEF Stutters
<1>2. CASE /\ Apply /\ Recoverable' = Recoverable
           /\ cur'.totals = cur.totals \cup ({call.batch} \ Gaps) /\ call.batch \notin applied
           /\ applied' = applied \cup {call.batch} /\ call.batch \in Batches
  <2> DEFINE B == {call.batch} \ Gaps
  <2>1. B \in SUBSET Batches /\ B \cap (applied \ Gaps) = {} /\ B \cap Recoverable = {}
    BY <1>2, RecoverableApplied DEF CommitInv
  <2>2. /\ (applied \ Gaps)' = (applied \ Gaps) \cup B
        /\ (cur.totals \ Recoverable)' = (cur.totals \ Recoverable) \cup B
    BY <1>2, <2>1
  <2>3. Ledger!Accept(B)
    BY <1>2, <2>1, <2>2
  <2> QED
    BY <2>1, <2>3
<1>3. CASE Saving /\ applied' = applied /\ UNCHANGED cur /\ Recoverable' = Recoverable \cup cur.totals
  <2>1. Ledger!Persist
    BY <1>3
  <2> QED
    BY <2>1
<1>4. CASE Crash /\ applied' = applied /\ Recoverable' = Recoverable /\ cur'.totals = {}
  <2>1. Ledger!Forget
    BY <1>4
  <2> QED
    BY <2>1
<1> QED
  BY <1>1, <1>2, <1>3, <1>4, LedgerCases DEF CommitInv

(* The store, its six files and its recovery are the ledger: an Update is  *)
(* accepted once, a checkpoint persists all of it, a crash forgets what    *)
(* was in RAM only, and every other step is invisible.                     *)
THEOREM LedgerImplemented == MaxEdits = 0 /\ NotReopened => (Spec => ImplementsLedger)
<1> SUFFICES ASSUME MaxEdits = 0, NotReopened PROVE Spec => ImplementsLedger
  OBVIOUS
<1>1. Init => LoadInv
  BY CommitInit DEF AppliedInv, Init, LoadInv, NoTxn
<1>2. CommitInv /\ LoadInv /\ [Next]_vars => LoadInv'
  BY LoadInvStep DEF CommitInv
<1>3. Init => Ledger!LedgerInit
  <2> SUFFICES ASSUME Init PROVE Ledger!LedgerInit
    OBVIOUS
  <2>1. applied = {} /\ day = <<>> /\ journal = None /\ checkpoint = None /\ cur.totals = {} /\ Len(day) = 0
    BY EmptySeq DEF Init, NoTxn
  <2>2. Recoverable = {}
    BY <2>1 DEF Recoverable, DayBatches, Journalled, Pending
  <2> QED
    BY <2>1, <2>2 DEF Ledger!LedgerInit
<1>4. CommitInv => edits = 0
  BY DEF CommitInv, FaultInv
<1>5. CommitInv /\ CommitInv' /\ KeptInv /\ LoadInv /\ [Next]_vars => [Ledger!LedgerNext]_(Ledger!ledgerVars)
  <2> SUFFICES ASSUME CommitInv, CommitInv', KeptInv, LoadInv, [Next]_vars
               PROVE  [Ledger!LedgerNext]_(Ledger!ledgerVars)
    OBVIOUS
  <2>1. edits = 0 /\ edits' = 0
    BY <1>4 DEF CommitInv, FaultInv
  <2> QED
    BY <2>1, LedgerStep
<1>6. Spec => []KeptInv
  BY Keeping
<1> QED
  BY <1>1, <1>2, <1>3, <1>5, <1>6, Committing, PTL DEF Spec, ImplementsLedger, Ledger!LedgerSpec

-----------------------------------------------------------------------------
(* What queries read.  More batches have no fewer bytes, and those of two  *)
(* sets without a common batch add up.                                     *)
LEMMA TimesMore ==
  ASSUME NEW k \in Nat, NEW a \in Nat, NEW b \in Nat, a <= b
  PROVE  k * a <= k * b
<1>1. b - a \in Nat /\ b = a + (b - a)
  OBVIOUS
<1>2. k * b = k * a + k * (b - a)
  BY <1>1
<1>3. k * (b - a) \in Nat /\ k * a \in Nat
  BY <1>1
<1> QED
  BY <1>2, <1>3

LEMMA BytesGrow ==
  ASSUME NEW S, NEW T, S \subseteq T, T \subseteq Batches
  PROVE  Bytes(S) <= Bytes(T)
<1>1. IsFiniteSet(T)
  BY FS_Subset, HistoryAssumption DEF HistoryAssumption
<1>2. IsFiniteSet(S) /\ Cardinality(S) <= Cardinality(T)
  BY <1>1, FS_Subset
<1>3. Cardinality(S) \in Nat /\ Cardinality(T) \in Nat
  BY <1>1, <1>2, FS_CardinalityType
<1> QED
  BY <1>2, <1>3, TimesMore, HistoryAssumption DEF Bytes, HistoryAssumption

LEMMA BytesApart ==
  ASSUME NEW S, NEW T, S \subseteq Batches, T \subseteq Batches, S \cap T = {}
  PROVE  Bytes(S \cup T) = Bytes(S) + Bytes(T)
<1>1. IsFiniteSet(S) /\ IsFiniteSet(T)
  BY FS_Subset, HistoryAssumption DEF HistoryAssumption
<1>2. Cardinality(S \cup T) = Cardinality(S) + Cardinality(T) - Cardinality(S \cap T)
  BY <1>1, FS_Union
<1>3. Cardinality(S \cap T) = 0
  BY FS_EmptySet
<1>4. Cardinality(S) \in Nat /\ Cardinality(T) \in Nat
  BY <1>1, FS_CardinalityType
<1>5. Cardinality(S \cup T) = Cardinality(S) + Cardinality(T)
  BY <1>2, <1>3, <1>4
<1> QED
  BY <1>4, <1>5, HistoryAssumption DEF Bytes, HistoryAssumption

(* The rows Load adds up are, for every application, those of the batches  *)
(* in the file: a batch is in one row of each application.                 *)
LEMMA LoadCounts ==
  ASSUME TypeInv, OnceInv, ResumeInv, journal = None, edits = 0
  PROVE  DayBytes = Bytes(DayBatches)
<1> DEFINE Here  == {p \in (1..Len(day)) \X Batches : p[2] \in day[p[1]].batches}
           There == (1..Rows) \X DayBatches
           f     == [p \in Here |-> <<day[p[1]].app, p[2]>>]
<1>1. /\ Len(day) \in Nat /\ Rows \in Nat \ {0}
      /\ \A i \in 1..Len(day) : day[i].app \in 1..Rows /\ day[i].batches \subseteq Batches
  <2>1. day \in Seq(Row) /\ Len(day) \in Nat
    BY DEF TypeInv, TypeOK
  <2>2. \A i \in 1..Len(day) : day[i] \in Row
    BY <2>1, ElementOfSeq
  <2> QED
    BY <2>1, <2>2, HistoryAssumption DEF Row, HistoryAssumption
<1>2. \A i \in 1..Len(day) : \A b \in day[i].batches : \A r \in 1..Rows :
        \E j \in 1..Len(day) : day[j].app = r /\ b \in day[j].batches
  BY DEF ResumeInv, Prefix
<1>3. ASSUME NEW p \in Here
      PROVE  f[p] \in There
  <2>1. Rows \in 1..Rows
    BY <1>1
  <2>2. p[2] \in DayBatches
    BY <1>2, <1>1, <2>1 DEF DayBatches
  <2> QED
    BY <1>1, <2>2
<1>4. ASSUME NEW p \in Here, NEW q \in Here, f[p] = f[q]
      PROVE  p = q
  <2>1. day[p[1]].app = day[q[1]].app /\ p[2] = q[2]
    BY <1>4
  <2>2. p[1] = q[1]
    BY <2>1 DEF OnceInv
  <2> QED
    BY <2>1, <2>2
<1>5. ASSUME NEW t \in There
      PROVE  \E p \in Here : f[p] = t
  <2>1. PICK i \in 1..Len(day) : t[2] \in day[i].batches
    BY DEF DayBatches
  <2>2. PICK j \in 1..Len(day) : day[j].app = t[1] /\ t[2] \in day[j].batches
    BY <1>2, <2>1
  <2>3. <<j, t[2]>> \in Here
    BY <1>1, <2>2
  <2>4. f[<<j, t[2]>>] = t
    BY <2>2, <2>3
  <2> QED
    BY <2>3, <2>4
<1>6. f \in Bijection(Here, There)
  BY <1>3, <1>4, <1>5, Fun_IsBij
<1>7. IsFiniteSet((1..Len(day)) \X Batches)
  <2>1. IsFiniteSet(1..Len(day)) /\ IsFiniteSet(Batches)
    BY <1>1, FS_Interval, HistoryAssumption DEF HistoryAssumption
  <2> QED
    BY <2>1, FS_Product
<1>8. IsFiniteSet(Here)
  BY <1>7, FS_Subset
<1>9. Cardinality(There) = Cardinality(Here)
  BY <1>6, <1>8, FS_Bijection DEF ExistsBijection
<1>10. DayBatches \subseteq Batches
  BY <1>1 DEF DayBatches
<1>11. IsFiniteSet(DayBatches)
  BY <1>10, FS_Subset, HistoryAssumption DEF HistoryAssumption
<1>12. IsFiniteSet(1..Rows) /\ Cardinality(1..Rows) = Rows
  BY <1>1, FS_Interval
<1>13. Cardinality(There) = Rows * Cardinality(DayBatches)
  BY <1>11, <1>12, FS_Product
<1> QED
  BY <1>9, <1>13 DEF DayBytes, Bytes

(* Once a minute has been read into RAM, the buckets of today are the file *)
(* and that minute.                                                        *)
ShownInv == ~Loading => shown = Bytes(DayBatches \cup cur.totals)

(* Load fills the buckets with the file and the minute it restores.        *)
LEMMA LoadShows ==
  ASSUME TypeInv, MarkInv, AppliedInv, OnceInv, ResumeInv, edits = 0, Load
  PROVE  shown' = Bytes(DayBatches' \cup cur'.totals) \/ Loading'
<1>1. UNCHANGED files /\ journal = None /\ pc = "load"
  BY Loads DEF Load
<1>2. DayBatches' = DayBatches
  BY <1>1, FileSame DEF files
<1>3. DayBytes = Bytes(DayBatches)
  BY <1>1, LoadCounts
<1>4. CASE LoadNoCheckpoint \/ LoadCommitted
  <2>1. cur'.totals = {} /\ shown' = DayBytes
    BY <1>4 DEF LoadNoCheckpoint, LoadCommitted, NoTxn
  <2> QED
    BY <1>2, <1>3, <2>1
<1>5. CASE LoadBlocked
  BY <1>5 DEF LoadBlocked, Loading
<1>6. CASE LoadRestored
  <2>1. /\ checkpoint # None /\ ~MarkedAs(checkpoint)
        /\ cur'.totals = checkpoint.totals /\ shown' = DayBytes + Bytes(checkpoint.totals)
    BY <1>6 DEF LoadRestored
  <2>2. checkpoint.totals \subseteq Batches /\ DayBatches \subseteq FileBatches /\ FileBatches \subseteq Batches
    <3>1. FileBatches \subseteq Batches
      BY DEF AppliedInv, TypeInv, TypeOK
    <3> QED
      BY <2>1, <3>1, CheckpointParts DEF TypeInv, DayBatches, FileBatches
  <2>3. DayBatches \cap checkpoint.totals = {}
    BY <1>1, <2>1, <2>2 DEF OnceInv
  <2>4. DayBatches \subseteq Batches
    BY <2>2
  <2>5. Bytes(DayBatches \cup checkpoint.totals) = Bytes(DayBatches) + Bytes(checkpoint.totals)
    BY <2>2, <2>3, <2>4, BytesApart
  <2> QED
    BY <1>2, <1>3, <2>1, <2>5
<1> QED
  BY <1>4, <1>5, <1>6 DEF Load

(* Update adds the bytes of a batch that is neither in the file nor in     *)
(* RAM.                                                                    *)
LEMMA ApplyShows ==
  ASSUME TypeInv, MarkInv, AppliedInv, ShownInv, Apply
  PROVE  shown' = Bytes(DayBatches' \cup cur'.totals)
<1> DEFINE B == {call.batch} \ Gaps
<1>1. /\ shown' = shown + Bytes(B) /\ cur'.totals = cur.totals \cup B
      /\ UNCHANGED day /\ pc = "apply" /\ call # None
  BY Applies DEF Apply, files
<1>2. DayBatches' = DayBatches
  BY <1>1, FileSame
<1>3. shown = Bytes(DayBatches \cup cur.totals)
  BY <1>1 DEF ShownInv, Loading, RecoverPcs
<1>4. DayBatches \cup cur.totals \subseteq applied
  BY DEF AppliedInv, FileBatches, DayBatches
<1>5. applied \subseteq Batches /\ B \subseteq Batches
  BY <1>1 DEF TypeInv, TypeOK, Request
<1>6. (DayBatches \cup cur.totals) \cap B = {}
  BY <1>1, <1>4 DEF AppliedInv
<1>7. Bytes((DayBatches \cup cur.totals) \cup B) = Bytes(DayBatches \cup cur.totals) + Bytes(B)
  BY <1>4, <1>5, <1>6, BytesApart
<1>8. DayBatches' \cup cur'.totals = (DayBatches \cup cur.totals) \cup B
  BY <1>1, <1>2
<1> QED
  BY <1>1, <1>3, <1>7, <1>8

(* Every other step moves batches between the two.                         *)
LEMMA ShownStep ==
  ASSUME TypeInv, MarkInv, AppliedInv, OnceInv, KeptInv, ResumeInv, ShownInv,
         edits = 0, edits' = 0, [Next]_vars
  PROVE  ShownInv'
<1>1. Recorded \subseteq DayBatches
  BY DEF Recorded
<1>2. ASSUME UNCHANGED <<day, shown>>, ~Loading, DayBatches \cup cur'.totals = DayBatches \cup cur.totals
      PROVE  ShownInv'
  <2>1. DayBatches' = DayBatches
    BY <1>2, FileSame
  <2> QED
    BY <1>2, <2>1 DEF ShownInv
<1>3. CASE Quiet
  <2>1. UNCHANGED <<day, cur>> /\ (~Loading' => ~Loading)
    BY <1>3, QuietFrame
  <2>2. UNCHANGED shown
    BY <1>3 DEF Quiet, CompleteRaw, EnsureLoaded, LoadSaveState, LoadRepair, FlushState, CheckpointSkip,
      CheckpointState, Checkpoint, SetPreferred, Update, vars, members
  <2> QED
    BY <1>2, <2>1, <2>2 DEF ShownInv
<1>4. CASE WriteRawRow
  <2>1. /\ journal # None /\ UNCHANGED <<journal, cur, shown>> /\ (~Loading' => ~Loading)
        /\ DayBatches \subseteq DayBatches' /\ DayBatches' \subseteq DayBatches \cup journal.totals
    BY <1>4, RowWritten, FileGrows DEF members, Loading
  <2>2. ~Loading => cur.totals = journal.totals
    BY <2>1 DEF KeptInv
  <2>3. ~Loading => DayBatches' \cup cur'.totals = DayBatches \cup cur.totals
    BY <2>1, <2>2
  <2> QED
    BY <2>1, <2>3 DEF ShownInv
<1>5. CASE RecoverQuality \/ RecoverMark \/ RecoverDelete
  BY <1>2, <1>5, RecoverFrame DEF ShownInv
<1>6. CASE Load
  BY <1>6, LoadShows DEF ShownInv
<1>7. CASE LoadQuality
  <2>1. /\ UNCHANGED <<day, shown>> /\ ~Loading /\ journal = None /\ checkpoint # None /\ MarkedAs(checkpoint)
        /\ cur.totals = {}
        /\ cur'.totals = {} \/ cur'.totals = checkpoint.totals
    BY <1>7, LoadsQuality DEF Loading, RecoverPcs, MarkInv
  <2>2. checkpoint.totals \subseteq DayBatches
    BY <1>1, <2>1 DEF KeptInv
  <2>3. DayBatches \cup cur'.totals = DayBatches \cup cur.totals
    BY <2>1, <2>2
  <2> QED
    BY <1>2, <2>1, <2>3
<1>8. CASE LoadClear \/ FlushTest \/ FlushJournal \/ FlushQuality \/ FlushMark
  <2>1. UNCHANGED <<day, shown, cur>> /\ ~Loading
    BY <1>8 DEF LoadClear, FlushTest, FlushJournal, FlushQuality, FlushMark, files, members, Loading, RecoverPcs
  <2> QED
    BY <1>2, <2>1
<1>9. CASE FlushEmpty
  <2>1. UNCHANGED <<day, shown>> /\ ~Loading /\ cur.totals = {} /\ cur'.totals = {}
    BY <1>9 DEF FlushEmpty, NothingToSave, NoTxn, Loading, RecoverPcs
  <2> QED
    BY <1>2, <2>1
<1>10. CASE FlushClear
  <2>1. UNCHANGED <<day, shown>> /\ ~Loading /\ cur'.totals = {} /\ pc = "flush_clear"
    BY <1>10 DEF FlushClear, NoTxn, Loading, RecoverPcs
  <2>2. cur.totals \subseteq DayBatches
    BY <1>1, <2>1 DEF KeptInv
  <2> QED
    BY <1>2, <2>1, <2>2
<1>11. CASE Saving
  BY <1>2, <1>11, SavesMinute
<1>12. CASE Apply
  BY <1>12, ApplyShows DEF ShownInv
<1>13. CASE RefuseTxn
  <2>1. UNCHANGED <<day, shown>> /\ ~Loading /\ cur'.totals = cur.totals
    BY <1>13 DEF RefuseTxn, OpenTxn, NoTxn, files, Loading, RecoverPcs, MarkInv
  <2> QED
    BY <1>2, <2>1
<1>14. CASE Crash
  BY <1>14 DEF Crash, ShownInv, Loading
<1>15. CASE ExternalEdit
  BY <1>15 DEF ExternalEdit
<1> QED
  BY <1>3, <1>4, <1>5, <1>6, <1>7, <1>8, <1>9, <1>10, <1>11, <1>12, <1>13, <1>14, <1>15, NotQuiet

-----------------------------------------------------------------------------
(* The all-time total.  Every copy of it, in RAM or in a file, is at most  *)
(* the bytes ever applied, so the largest of them is too.                  *)
Ever == Bytes(applied \ Gaps)

TotalInv ==
  /\ allTime <= Ever
  /\ stateAll # None => stateAll <= Ever
  /\ checkpoint # None => checkpoint.allTime <= Ever
  /\ journal # None => journal.allTime <= Ever

(* Batches that were applied stay applied.                                 *)
LEMMA EverGrows ==
  ASSUME TypeInv, TypeInv', applied \subseteq applied'
  PROVE  Ever <= Ever' /\ Ever \in Nat /\ Ever' \in Nat
<1>1. applied \ Gaps \subseteq Batches /\ applied' \ Gaps \subseteq Batches /\ applied \ Gaps \subseteq applied' \ Gaps
  BY DEF TypeInv, TypeOK
<1>2. Bytes(applied \ Gaps) <= Bytes(applied' \ Gaps)
  BY <1>1, BytesGrow
<1>3. Bytes(applied \ Gaps) \in Nat /\ Bytes(applied' \ Gaps) \in Nat
  BY <1>1, BytesNat
<1>4. Ever' = Bytes(applied' \ Gaps)
  BY DEF Ever, Bytes
<1> QED
  BY <1>2, <1>3, <1>4 DEF Ever

(* What is in the file and in RAM was applied.                             *)
LEMMA HeldApplied ==
  ASSUME TypeInv, AppliedInv
  PROVE  Bytes(DayBatches) <= Ever /\ Bytes(DayBatches \cup cur.totals) <= Ever
<1>1. DayBatches \subseteq applied \ Gaps /\ cur.totals \subseteq applied \ Gaps /\ applied \ Gaps \subseteq Batches
  BY DEF AppliedInv, FileBatches, DayBatches, TypeInv, TypeOK
<1> QED
  BY <1>1, BytesGrow DEF Ever

(* The larger of two totals within a bound is within it.                   *)
LEMMA LargerBound ==
  ASSUME NEW a \in Nat, NEW b \in Nat, NEW c \in Nat, a <= c, b <= c
  PROVE  Larger(a, b) <= c
  BY DEF Larger

(* A step changes the total in RAM, or copies it, or does neither.         *)
LEMMA TotalMoves ==
  ASSUME TypeInv, MarkInv, [Next]_vars, edits' = edits
  PROVE  /\ \/ UNCHANGED allTime
            \/ RecoverDelete \/ EnsureLoaded \/ Load \/ LoadRepair \/ Apply \/ Crash
         /\ stateAll' \in {stateAll, allTime, allTime'}
         /\ checkpoint' \in {checkpoint, None, SavedNow}
         /\ journal' \in {journal, None, NewJournal}
         /\ applied \subseteq applied'
<1> USE DEF files, members, env, ghosts
<1>1. CASE Quiet
  <2>1. UNCHANGED <<journal, checkpoint, applied>>
    BY <1>1, QuietFrame
  <2>2. /\ UNCHANGED allTime \/ EnsureLoaded \/ LoadRepair
        /\ stateAll' \in {stateAll, allTime, allTime'}
    BY <1>1 DEF Quiet, CompleteRaw, EnsureLoaded, LoadSaveState, LoadRepair, SaveState, FlushState, CheckpointSkip,
      CheckpointState, Checkpoint, SetPreferred, Update, vars
  <2> QED
    BY <2>1, <2>2
<1>2. CASE WriteRawRow \/ RecoverQuality \/ RecoverMark \/ RecoverDelete
  BY <1>2 DEF WriteRawRow, RecoverQuality, RecoverMark, RecoverDelete
<1>3. CASE Load \/ LoadQuality \/ LoadClear
  BY <1>3 DEF Load, LoadQuality, LoadClear, ClearCheckpoint
<1>4. CASE FlushEmpty \/ FlushTest \/ FlushJournal \/ FlushQuality \/ FlushMark \/ FlushClear
  BY <1>4 DEF FlushEmpty, FlushTest, FlushJournal, FlushQuality, FlushMark, FlushClear, ClearCheckpoint
<1>5. CASE Saving
  BY <1>5, SavesMinute
<1>6. CASE Apply \/ RefuseTxn \/ Crash
  BY <1>6 DEF Apply, RefuseTxn, Crash
<1>7. CASE ExternalEdit
  BY <1>7 DEF ExternalEdit, TypeInv
<1> QED
  BY <1>1, <1>2, <1>3, <1>4, <1>5, <1>6, <1>7, NotQuiet

(* Every step keeps the copies of the total within the bytes applied.      *)
LEMMA TotalStep ==
  ASSUME TypeInv, TypeInv', MarkInv, FaultInv, AppliedInv, OnceInv, ResumeInv, ShownInv, TotalInv,
         edits = 0, edits' = 0, [Next]_vars
  PROVE  TotalInv'
<1>1. Ever <= Ever' /\ Ever \in Nat /\ Ever' \in Nat
  BY TotalMoves, EverGrows
<1>2. /\ allTime \in Nat /\ stateAll \in Nat \cup {None}
      /\ checkpoint # None => checkpoint.allTime \in Nat
      /\ journal # None => journal.allTime \in Nat
  BY CheckpointParts, JournalParts DEF TypeInv, TypeOK
<1>3. allTime' <= Ever'
  <2>1. CASE UNCHANGED allTime
    BY <1>1, <1>2, <2>1 DEF TotalInv
  <2>2. CASE RecoverDelete
    <3>1. journal # None /\ allTime' = Larger(allTime, journal.allTime)
      BY <2>2, RecoverFrame DEF RecoverDelete
    <3>2. allTime' <= Ever
      BY <1>1, <1>2, <3>1, LargerBound DEF TotalInv
    <3> QED
      BY <1>1, <1>2, <3>2 DEF TypeInv, TypeOK
  <2>3. CASE EnsureLoaded
    <3>1. allTime' = 0 \/ (stateAll # None /\ allTime' = stateAll)
      BY <2>3 DEF EnsureLoaded, StateTotal
    <3> QED
      BY <1>1, <1>2, <3>1 DEF TotalInv
  <2>4. CASE Load
    <3>1. journal = None /\ UNCHANGED applied
      BY <2>4, Loads
    <3>2. LoadedTotal \in Nat /\ LoadedTotal <= Ever
      <4>1. DayBytes <= Ever /\ DayBytes \in Nat
        BY <3>1, LoadCounts, HeldApplied, DayBytesNat DEF TypeInv, TypeOK
      <4> QED
        BY <1>2, <4>1 DEF LoadedTotal, TotalInv
    <3>3. \/ allTime' = LoadedTotal
          \/ checkpoint # None /\ allTime' = Larger(LoadedTotal, checkpoint.allTime)
      BY <2>4 DEF Load, LoadNoCheckpoint, LoadBlocked, LoadCommitted, LoadRestored
    <3>4. allTime' <= Ever
      BY <1>1, <1>2, <3>2, <3>3, LargerBound DEF TotalInv
    <3> QED
      BY <3>1, <3>4 DEF Ever, Bytes
  <2>5. CASE LoadRepair
    <3>1. /\ allTime' = Larger(allTime, shown) /\ UNCHANGED applied
          /\ shown = Bytes(DayBatches \cup cur.totals) /\ shown \in Nat
      BY <2>5 DEF LoadRepair, StoredTotal, ghosts, ShownInv, Loading, RecoverPcs, TypeInv, TypeOK
    <3>2. allTime' <= Ever
      BY <1>1, <1>2, <3>1, HeldApplied, LargerBound DEF TotalInv
    <3> QED
      BY <3>1, <3>2 DEF Ever, Bytes
  <2>6. CASE Apply
    <3> DEFINE B == {call.batch} \ Gaps
    <3>1. /\ allTime' = allTime + Bytes(B) /\ applied' = applied \cup {call.batch}
          /\ call.batch \in Batches /\ call.batch \notin applied
      BY <2>6, Applies DEF Apply, AppliedInv, TypeInv, TypeOK, Request
    <3>2. applied \ Gaps \subseteq Batches /\ B \subseteq Batches /\ (applied \ Gaps) \cap B = {}
          /\ applied' \ Gaps = (applied \ Gaps) \cup B
      BY <3>1 DEF TypeInv, TypeOK
    <3>3. Bytes(applied' \ Gaps) = Bytes(applied \ Gaps) + Bytes(B)
      BY <3>2, BytesApart
    <3>4. Ever' = Ever + Bytes(B) /\ Bytes(B) \in Nat
      BY <3>2, <3>3, BytesNat DEF Ever, Bytes
    <3> QED
      BY <1>1, <1>2, <3>1, <3>4 DEF TotalInv
  <2>7. CASE Crash
    BY <1>1, <2>7 DEF Crash
  <2> QED
    BY <2>1, <2>2, <2>3, <2>4, <2>5, <2>6, <2>7, TotalMoves
<1>4. ASSUME stateAll' # None
      PROVE  stateAll' <= Ever'
  BY <1>1, <1>2, <1>3, <1>4, TotalMoves DEF TotalInv
<1>5. ASSUME checkpoint' # None
      PROVE  checkpoint'.allTime <= Ever'
  BY <1>1, <1>2, <1>5, TotalMoves DEF TotalInv, SavedNow
<1>6. ASSUME journal' # None
      PROVE  journal'.allTime <= Ever'
  BY <1>1, <1>2, <1>6, TotalMoves DEF TotalInv, NewJournal
<1> QED
  BY <1>3, <1>4, <1>5, <1>6 DEF TotalInv

(* What queries of today read is exactly what the files and the minute in  *)
(* RAM hold, although it is built from different files at every load and   *)
(* added to call by call; and no copy of the all-time total exceeds the    *)
(* bytes ever applied.                                                     *)
THEOREM ShownForever ==
  MaxEdits = 0 /\ NotReopened /\ Recognised => (Spec => []ShownExact)
<1> SUFFICES ASSUME MaxEdits = 0, NotReopened, Recognised PROVE Spec => []ShownExact
  OBVIOUS
<1>1. Init => OnceInv /\ KeptInv
  BY CommitInit
<1>2. Init => ShownInv /\ TotalInv
  <2> SUFFICES ASSUME Init PROVE ShownInv /\ TotalInv
    OBVIOUS
  <2>1. /\ pc = "unloaded" /\ allTime = 0 /\ stateAll = None /\ checkpoint = None /\ journal = None
        /\ applied \ Gaps = {}
    BY DEF Init
  <2>2. Ever \in Nat
    BY <2>1, BytesNat DEF Ever
  <2> QED
    BY <2>1, <2>2 DEF ShownInv, Loading, TotalInv
<1>3. CommitInv => edits = 0
  BY DEF CommitInv, FaultInv
<1>4. CommitInv /\ OnceInv /\ [Next]_vars => OnceInv'
  BY OnceStep DEF CommitInv
<1>5. CommitInv /\ CommitInv' /\ OnceInv /\ KeptInv /\ ResumeInv /\ ShownInv /\ TotalInv /\ [Next]_vars
        => ShownInv' /\ TotalInv'
  <2> SUFFICES ASSUME CommitInv, CommitInv', OnceInv, KeptInv, ResumeInv, ShownInv, TotalInv, [Next]_vars
               PROVE  ShownInv' /\ TotalInv'
    OBVIOUS
  <2>1. edits = 0 /\ edits' = 0
    BY <1>3 DEF CommitInv, FaultInv
  <2> QED
    BY <2>1, ShownStep, TotalStep DEF CommitInv
<1>6. ShownInv /\ TotalInv => ShownExact
  BY DEF ShownInv, TotalInv, ShownExact, Ever, Loading, RecoverPcs
<1>7. Spec => []KeptInv
  BY Keeping
<1> QED
  BY <1>1, <1>2, <1>4, <1>5, <1>6, <1>7, Resuming, Committing, PTL DEF Spec
=============================================================================
