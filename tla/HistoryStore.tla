---------------------------- MODULE HistoryStore ----------------------------
(***************************************************************************)
(* The commit protocol of CHistoryTrafficStore (HistoryTrafficStore.cpp):  *)
(* how a minute of per-application traffic travels from RAM to the daily   *)
(* history file, and what a restart makes of the files it finds.           *)
(*                                                                         *)
(* Every step is one file operation or one stretch of code between two of  *)
(* them.  A file operation may fail, and the process may die between any   *)
(* two steps; m_historyMutex keeps other calls out while one runs, so the  *)
(* program counter pc is the only control state.                           *)
(*                                                                         *)
(* A batch stands for the deltas of one Update call: one byte for each of  *)
(* the applications 1..Rows, or, for a batch in Gaps, an uncertainty       *)
(* marker without bytes.  The sets called totals hold the batches whose    *)
(* bytes are in a total; the numbers allTime and shown count bytes.        *)
(*                                                                         *)
(* An operator whose name ends in _bug is a plausible slip in the code of  *)
(* the operator after it.  No behaviour of this module uses one; they show *)
(* which property notices which slip.                                      *)
(***************************************************************************)
EXTENDS Naturals, Sequences, FiniteSets

CONSTANTS
  Batches,        \* the batches the collector may deliver
  Gaps,           \* those that carry provenance but no bytes
  Minutes,        \* the local-time minutes the clock can show
  Times,          \* the values FileTimeNow() can return
  Rows,           \* applications, hence lines of a minute's block
  None,           \* no file, no minute, no call
  ClockRollback,  \* may the local clock be set back?
  MaxFaults,      \* bound on failed writes and deletions
  MaxReadFaults,  \* bound on failed reads of the commit marker
  MaxEdits,       \* bound on edits of the daily file by others
  MaxCrashes      \* bound on process deaths

ASSUME HistoryAssumption ==
  /\ IsFiniteSet(Batches)
  /\ Gaps \subseteq Batches
  /\ Minutes \subseteq Nat /\ Minutes # {}
  /\ Times \subseteq Nat \ {0} /\ Times # {}
  /\ Rows \in Nat \ {0}
  /\ ClockRollback \in BOOLEAN
  /\ MaxFaults \in Nat /\ MaxReadFaults \in Nat
  /\ MaxEdits \in Nat /\ MaxCrashes \in Nat

(* What the files and an Update hold; the totals are those of one minute.  *)
Row     == [minute : Minutes, app : 1..Rows, batches : SUBSET Batches]
Marker  == [minute : Minutes, txn : Nat]
Saved   == [minute : Minutes, totals : SUBSET Batches, meta : SUBSET Batches,
            txn : Nat, allTime : Nat]
Journal == [minute : Minutes, totals : SUBSET Batches, meta : SUBSET Batches,
            txn : Nat, allTime : Nat, offset : Nat, anchor : Row \cup {None}]
Request == [batch : Batches, key : Minutes]

ASSUME NoneAssumption ==
  /\ None \notin Nat /\ None \notin Row /\ None \notin Marker
  /\ None \notin Saved /\ None \notin Journal /\ None \notin Request

VARIABLES
  \* The files.
  day,         \* the rows of the daily history file
  journal,     \* append.pending: the block being appended, or None
  commit,      \* current.commit: the last committed transaction, or None
  checkpoint,  \* current.tmp: the minute in RAM when last saved, or None
  stateAll,    \* all_time of app_traffic_state.tsv, or None
  quality,     \* the rows of the daily .quality.tsv
  \* Members of the store, lost in a crash.
  cur,         \* m_currentMinuteKey, m_currentMinuteTotals, m_currentEngine, m_currentCommitId
  allTime,     \* m_cachedAllTimeTotal
  hasAllTime,  \* m_hasPersistedAllTime
  ckptDirty,   \* m_checkpointDirty
  stateDirty,  \* m_stateDirty
  tickZero,    \* m_lastCheckpointTick == 0
  shown,       \* the bytes of m_bucketByApp, which queries of today read
  \* Control.
  pc,          \* where the running call is; "idle" and "unloaded" when none runs
  ret,         \* who called RecoverAppend
  call,        \* the arguments of the last Update until it is applied, or None
  \* Environment and observation.
  clock,       \* the latest minute the local clock has shown
  faults, readFaults, edits, crashes,
  applied,     \* batches Update has added to RAM, ever
  durable      \* batches a successful SaveCheckpoint has written, ever

files   == <<day, journal, commit, checkpoint, stateAll, quality>>
members == <<cur, allTime, hasAllTime, ckptDirty, stateDirty, tickZero, shown>>
env     == <<clock, faults, readFaults, edits, crashes>>
ghosts  == <<applied, durable>>
vars    == <<files, members, pc, ret, call, env, ghosts>>

-----------------------------------------------------------------------------
Larger_bug(a, b) == a + b

Larger(a, b) == IF a > b THEN a ELSE b

(* The transaction of the minute in RAM; None as minute is the empty key.  *)
NoTxn == [minute |-> None, totals |-> {}, meta |-> {}, txn |-> 0]

(* The lines AppendHistoryEntries writes for a transaction.                *)
Block_bug(t) ==
  [r \in 1..Rows |-> [minute |-> t.minute, app |-> r - 1, batches |-> t.totals]]

Block(t) ==
  [r \in 1..Rows |-> [minute |-> t.minute, app |-> r, batches |-> t.totals]]

(* AnchorHash: what the file holds just before the offset of an append.    *)
Anchor(offset) == IF offset = 0 THEN None ELSE day[offset]

(* The bytes LoadHistoryFile adds up.                                      *)
DayBytes_bug ==
  Cardinality({p \in (1..Len(day)) \X Batches :
                 day[p[1]].app = 1 /\ p[2] \in day[p[1]].batches})

DayBytes ==
  Cardinality({p \in (1..Len(day)) \X Batches : p[2] \in day[p[1]].batches})

Bytes(totals) == Rows * Cardinality(totals)

(* The identity a commit marker carries.                                   *)
Mark(t) == [minute |-> t.minute, txn |-> t.txn]

MarkedAs(t) == commit = Mark(t)
WriteMark(t) == commit' = Mark(t)

NothingToSave(t) == t.totals = {} /\ t.meta = {}

(* A write, rename or deletion either works or uses up a fault.            *)
NoFault == UNCHANGED <<faults, readFaults>>
Fault ==
  /\ faults < MaxFaults
  /\ faults' = faults + 1
  /\ UNCHANGED readFaults
ReadFault ==
  /\ readFaults < MaxReadFaults
  /\ readFaults' = readFaults + 1
  /\ UNCHANGED faults

-----------------------------------------------------------------------------
Init ==
  /\ day = <<>> /\ journal = None /\ commit = None /\ checkpoint = None
  /\ stateAll = None /\ quality = {}
  /\ cur = NoTxn /\ allTime = 0 /\ hasAllTime = FALSE
  /\ ckptDirty = FALSE /\ stateDirty = FALSE /\ tickZero = TRUE /\ shown = 0
  /\ pc = "unloaded" /\ ret = "load" /\ call = None
  /\ clock \in Minutes /\ \A m \in Minutes : clock <= m
  /\ faults = 0 /\ readFaults = 0 /\ edits = 0 /\ crashes = 0
  /\ applied = {} /\ durable = {}

-----------------------------------------------------------------------------
(* RecoverAppend, called while loading, at the start of a flush and after  *)
(* the journal of a flush is written.  Where its caller continues:         *)
Resume(r) ==
  CASE r = "load"   -> "load"
    [] r = "flush"  -> "flush_save"
    [] r = "append" -> "flush_quality"

GiveUp(r) ==
  CASE r = "load"   -> "unloaded"
    [] r = "flush"  -> "idle"
    [] r = "append" -> "flush_resave"

RecoverAppend(r) ==
  /\ ret' = r
  /\ pc' = IF journal = None THEN Resume(r) ELSE "rec_raw"

(* CompleteRawAppend refuses a file that is not the journal's prefix.      *)
Present == Len(day) - journal.offset
RawConsistent_lenient ==
  Len(day) >= journal.offset /\ Len(day) <= journal.offset + Rows

RawConsistent_bug ==
  /\ Len(day) >= journal.offset
  /\ Len(day) < journal.offset + Rows

RawConsistent ==
  /\ Len(day) >= journal.offset
  /\ Len(day) <= journal.offset + Rows
  /\ Anchor(journal.offset) = journal.anchor
  /\ \A r \in 1..Present : day[journal.offset + r] = Block(journal)[r]

NextRow_bug == Block(journal)[1]

NextRow == Block(journal)[Present + 1]

WriteRawRow ==
  /\ pc = "rec_raw" /\ RawConsistent /\ Present < Rows
  /\ day' = Append(day, NextRow)
  /\ UNCHANGED <<journal, commit, checkpoint, stateAll, quality>>
  /\ UNCHANGED <<members, pc, ret, call, env, ghosts>>

CompleteRaw ==
  /\ pc = "rec_raw"
  /\ \/ RawConsistent /\ Present = Rows /\ pc' = "rec_quality" /\ NoFault
     \/ ~RawConsistent /\ pc' = GiveUp(ret) /\ NoFault
     \/ RawConsistent /\ pc' = GiveUp(ret) /\ Fault
  /\ UNCHANGED <<files, members, ret, call, clock, edits, crashes, ghosts>>

(* AppendEngineMetadata for the given transaction.                         *)
AppendQuality_bug(t) == quality' = quality

AppendQuality(t) ==
  quality' = IF t.meta = {} THEN quality
             ELSE quality \cup {[minute |-> t.minute, meta |-> t.meta]}

RecoverQuality ==
  /\ pc = "rec_quality"
  /\ \/ AppendQuality(journal) /\ pc' = "rec_mark" /\ NoFault
     \/ journal.meta # {} /\ UNCHANGED quality /\ pc' = GiveUp(ret) /\ Fault
  /\ UNCHANGED <<day, journal, commit, checkpoint, stateAll>>
  /\ UNCHANGED <<members, ret, call, clock, edits, crashes, ghosts>>

RecoverMark ==
  /\ pc = "rec_mark"
  /\ \/ WriteMark(journal) /\ pc' = "rec_delete" /\ NoFault
     \/ UNCHANGED commit /\ pc' = GiveUp(ret) /\ Fault
  /\ UNCHANGED <<day, journal, checkpoint, stateAll, quality>>
  /\ UNCHANGED <<members, ret, call, clock, edits, crashes, ghosts>>

RecoverDelete ==
  /\ pc = "rec_delete"
  /\ allTime' = Larger(allTime, journal.allTime)
  /\ hasAllTime' = TRUE
  /\ stateDirty' = TRUE
  /\ \/ journal' = None /\ pc' = Resume(ret) /\ NoFault
     \/ UNCHANGED journal /\ pc' = GiveUp(ret) /\ Fault
  /\ UNCHANGED <<day, commit, checkpoint, stateAll, quality>>
  /\ UNCHANGED <<cur, ckptDirty, tickZero, shown, ret, call, clock, edits, crashes, ghosts>>

-----------------------------------------------------------------------------
(* EnsureLoaded, which every public call makes while the store is not      *)
(* loaded: LoadState, RecoverAppend, Load.                                 *)
StateTotal == IF stateAll = None THEN 0 ELSE stateAll

EnsureLoaded ==
  /\ pc = "unloaded"
  /\ allTime' = StateTotal
  /\ hasAllTime' = (stateAll # None)
  /\ RecoverAppend("load")
  /\ UNCHANGED <<files, cur, ckptDirty, stateDirty, tickZero, shown>>
  /\ UNCHANGED <<call, env, ghosts>>

(* Load repairs a missing all-time total before it reports success.        *)
Loaded == IF hasAllTime THEN "idle" ELSE "load_repair"

(* Load up to the first write: LoadHistoryFile, then LoadCheckpoint, which *)
(* restores the minute in RAM unless the marker says it is committed.      *)
LoadedTotal == IF hasAllTime THEN allTime ELSE DayBytes

LoadNoCheckpoint ==
  /\ checkpoint = None
  /\ cur' = NoTxn /\ allTime' = LoadedTotal /\ shown' = DayBytes
  /\ pc' = Loaded
  /\ UNCHANGED tickZero /\ NoFault

LoadBlocked_bug ==
  /\ checkpoint # None /\ commit # None /\ ReadFault
  /\ cur' = [NoTxn EXCEPT !.txn = checkpoint.txn]
  /\ allTime' = LoadedTotal /\ shown' = DayBytes
  /\ pc' = "load_clear"
  /\ UNCHANGED tickZero

LoadBlocked ==    \* the marker exists and cannot be read: m_checkpointBlocked
  /\ checkpoint # None /\ commit # None /\ ReadFault
  /\ cur' = [NoTxn EXCEPT !.txn = checkpoint.txn, !.meta = checkpoint.meta]
  /\ allTime' = Larger(LoadedTotal, checkpoint.allTime) /\ shown' = DayBytes
  /\ pc' = "unloaded"
  /\ UNCHANGED tickZero

LoadCommitted ==
  /\ checkpoint # None /\ MarkedAs(checkpoint)
  /\ cur' = [minute |-> checkpoint.minute, totals |-> {},
             meta |-> checkpoint.meta, txn |-> checkpoint.txn]
  /\ allTime' = Larger(LoadedTotal, checkpoint.allTime) /\ shown' = DayBytes
  /\ pc' = "load_quality"
  /\ UNCHANGED tickZero /\ NoFault

LoadRestored ==
  /\ checkpoint # None /\ ~MarkedAs(checkpoint)
  /\ cur' = [minute |-> checkpoint.minute, totals |-> checkpoint.totals,
             meta |-> checkpoint.meta, txn |-> checkpoint.txn]
  /\ allTime' = Larger(LoadedTotal, checkpoint.allTime)
  /\ shown' = DayBytes + Bytes(checkpoint.totals)
  /\ tickZero' = FALSE
  /\ pc' = Loaded /\ NoFault

Load ==
  /\ pc = "load"
  /\ LoadNoCheckpoint \/ LoadBlocked \/ LoadCommitted \/ LoadRestored
  /\ UNCHANGED <<files, hasAllTime, ckptDirty, stateDirty>>
  /\ UNCHANGED <<ret, call, clock, edits, crashes, ghosts>>

(* A committed checkpoint: its provenance is appended again, then it goes. *)
LoadQuality ==
  /\ pc = "load_quality"
  /\ \/ /\ AppendQuality(cur) /\ NoFault
        /\ cur' = [NoTxn EXCEPT !.txn = cur.txn]
        /\ pc' = "load_clear"
     \/ /\ cur.meta # {} /\ Fault
        /\ cur' = [cur EXCEPT !.totals = checkpoint.totals]
        /\ pc' = Loaded
        /\ UNCHANGED quality
  /\ UNCHANGED <<day, journal, commit, checkpoint, stateAll>>
  /\ UNCHANGED <<allTime, hasAllTime, ckptDirty, stateDirty, tickZero, shown>>
  /\ UNCHANGED <<ret, call, clock, edits, crashes, ghosts>>

(* ClearCheckpoint ignores the error of the deletion.                      *)
ClearCheckpoint ==
  \/ checkpoint' = None /\ NoFault
  \/ checkpoint # None /\ UNCHANGED checkpoint /\ Fault

LoadClear ==
  /\ pc = "load_clear" /\ pc' = "load_state"
  /\ ClearCheckpoint
  /\ UNCHANGED <<day, journal, commit, stateAll, quality>>
  /\ UNCHANGED <<members, ret, call, clock, edits, crashes, ghosts>>

(* SaveState replaces the state file; total is what it writes.             *)
SaveState(total) ==
  \/ stateAll' = total /\ NoFault
  \/ UNCHANGED stateAll /\ Fault

LoadSaveState ==
  /\ pc = "load_state" /\ pc' = Loaded
  /\ SaveState(allTime)
  /\ UNCHANGED <<day, journal, commit, checkpoint, quality>>
  /\ UNCHANGED <<members, ret, call, clock, edits, crashes, ghosts>>

StoredTotal == shown   \* CalculateStoredHistoryTotal: today's buckets, as Load has filled them

LoadRepair ==
  /\ pc = "load_repair" /\ pc' = "idle"
  /\ allTime' = Larger(allTime, StoredTotal)
  /\ hasAllTime' = TRUE
  /\ SaveState(allTime')
  /\ UNCHANGED <<day, journal, commit, checkpoint, quality>>
  /\ UNCHANGED <<cur, ckptDirty, stateDirty, tickZero, shown>>
  /\ UNCHANGED <<ret, call, clock, edits, crashes, ghosts>>

-----------------------------------------------------------------------------
(* SaveCheckpoint: next where it leads when it works, other when not.      *)
SaveCheckpoint(next, other) ==
  \/ /\ checkpoint' = [minute |-> cur.minute, totals |-> cur.totals,
                       meta |-> cur.meta, txn |-> cur.txn, allTime |-> allTime]
     /\ ckptDirty' = FALSE /\ stateDirty' = TRUE /\ tickZero' = FALSE
     /\ durable' = durable \cup cur.totals
     /\ pc' = next /\ NoFault
  \/ /\ UNCHANGED <<checkpoint, ckptDirty, stateDirty, tickZero, durable>>
     /\ pc' = other /\ Fault

(* Update of batch b: the call reads the clock once, and commits the       *)
(* minute in RAM first when the clock shows another one.                   *)
Update(b) ==
  /\ pc = "idle" /\ b \notin applied
  /\ \E m \in Minutes :
       /\ ClockRollback \/ m >= clock
       /\ clock' = m
       /\ call' = [batch |-> b, key |-> m]
       /\ IF cur.minute \notin {None, m}
          THEN RecoverAppend("flush")
          ELSE pc' = "apply" /\ UNCHANGED ret
  /\ UNCHANGED <<files, members, faults, readFaults, edits, crashes, ghosts>>

(* FlushCurrentMinute: an empty minute is dropped; any other is            *)
(* checkpointed, and its block journalled unless the marker names it.  A   *)
(* marker that cannot be read counts as one that names another.            *)
FlushEmpty ==
  /\ pc = "flush_save" /\ NothingToSave(cur)
  /\ cur' = NoTxn /\ pc' = "apply"
  /\ ClearCheckpoint
  /\ UNCHANGED <<day, journal, commit, stateAll, quality>>
  /\ UNCHANGED <<allTime, hasAllTime, ckptDirty, stateDirty, tickZero, shown>>
  /\ UNCHANGED <<ret, call, clock, edits, crashes, ghosts>>

FlushSave ==
  /\ pc = "flush_save" /\ ~NothingToSave(cur)
  /\ SaveCheckpoint("flush_test", "idle")
  /\ UNCHANGED <<day, journal, commit, stateAll, quality>>
  /\ UNCHANGED <<cur, allTime, hasAllTime, shown, ret, call, clock, edits, crashes, applied>>

AlreadyAppended_bug == FALSE

AlreadyAppended == MarkedAs(cur)

FlushTest ==
  /\ pc = "flush_test"
  /\ \/ /\ pc' = IF AlreadyAppended \/ cur.totals = {} THEN "flush_quality" ELSE "flush_journal"
        /\ NoFault
     \/ AlreadyAppended /\ cur.totals # {} /\ pc' = "flush_journal" /\ ReadFault
  /\ UNCHANGED <<files, members, ret, call, clock, edits, crashes, ghosts>>

(* AppendHistoryEntries: the journal, then RecoverAppend carries it out.   *)
(* RecoverAppend ran at the start of the flush, so there is no older       *)
(* journal here.                                                           *)
NewJournal ==
  [minute |-> cur.minute, totals |-> cur.totals, meta |-> cur.meta, txn |-> cur.txn,
   allTime |-> allTime, offset |-> Len(day), anchor |-> Anchor(Len(day))]

FlushJournal_bug ==
  /\ pc = "flush_journal"
  /\ \/ /\ journal' = NewJournal
        /\ pc' = "rec_raw" /\ ret' = "append" /\ NoFault
     \/ UNCHANGED <<journal, ret>> /\ pc' = "flush_quality" /\ Fault
  /\ UNCHANGED <<day, commit, checkpoint, stateAll, quality>>
  /\ UNCHANGED <<members, call, clock, edits, crashes, ghosts>>

FlushJournal ==
  /\ pc = "flush_journal"
  /\ \/ /\ journal' = NewJournal
        /\ pc' = "rec_raw" /\ ret' = "append" /\ NoFault
     \/ UNCHANGED <<journal, ret>> /\ pc' = "flush_resave" /\ Fault
  /\ UNCHANGED <<day, commit, checkpoint, stateAll, quality>>
  /\ UNCHANGED <<members, call, clock, edits, crashes, ghosts>>

FlushResave ==
  /\ pc = "flush_resave"
  /\ SaveCheckpoint("idle", "idle")
  /\ UNCHANGED <<day, journal, commit, stateAll, quality>>
  /\ UNCHANGED <<cur, allTime, hasAllTime, shown, ret, call, clock, edits, crashes, applied>>

FlushQuality ==
  /\ pc = "flush_quality"
  /\ \/ AppendQuality(cur) /\ pc' = "flush_mark" /\ NoFault
     \/ cur.meta # {} /\ UNCHANGED quality /\ pc' = "idle" /\ Fault
  /\ UNCHANGED <<day, journal, commit, checkpoint, stateAll>>
  /\ UNCHANGED <<members, ret, call, clock, edits, crashes, ghosts>>

FlushMark ==
  /\ pc = "flush_mark"
  /\ \/ WriteMark(cur) /\ pc' = "flush_clear" /\ NoFault
     \/ UNCHANGED commit /\ pc' = "idle" /\ Fault
  /\ UNCHANGED <<day, journal, checkpoint, stateAll, quality>>
  /\ UNCHANGED <<members, ret, call, clock, edits, crashes, ghosts>>

FlushClear ==
  /\ pc = "flush_clear" /\ pc' = "flush_state"
  /\ ClearCheckpoint
  /\ cur' = NoTxn /\ tickZero' = TRUE
  /\ UNCHANGED <<day, journal, commit, stateAll, quality>>
  /\ UNCHANGED <<allTime, hasAllTime, ckptDirty, stateDirty, shown>>
  /\ UNCHANGED <<ret, call, clock, edits, crashes, ghosts>>

FlushState ==
  /\ pc = "flush_state" /\ pc' = "apply"
  /\ \/ stateAll' = allTime /\ stateDirty' = FALSE /\ NoFault
     \/ UNCHANGED stateAll /\ stateDirty' = TRUE /\ Fault
  /\ UNCHANGED <<day, journal, commit, checkpoint, quality>>
  /\ UNCHANGED <<cur, allTime, hasAllTime, ckptDirty, tickZero, shown>>
  /\ UNCHANGED <<ret, call, clock, edits, crashes, ghosts>>

(* The rest of Update: a new transaction if the minute in RAM is empty,    *)
(* its identity from EnsureCommitId, and the deltas added to every total.  *)
(* An unreadable marker refuses the batch and leaves the minute open.      *)
OpenTxn_bug == [NoTxn EXCEPT !.minute = call.key]

OpenTxn == IF cur.minute = None THEN [NoTxn EXCEPT !.minute = call.key] ELSE cur

PreviousTxn == IF commit = None THEN 0 ELSE commit.txn

CommitIds_bug(t) == IF t.txn # 0 THEN {t.txn} ELSE Times

CommitIds(t) ==
  IF t.txn # 0 THEN {t.txn} ELSE {Larger(now, PreviousTxn + 1) : now \in Times}

Apply ==
  /\ pc = "apply"
  /\ LET b     == call.batch
         bytes == {b} \ Gaps
     IN \E id \in CommitIds(OpenTxn), newPath \in BOOLEAN :
          /\ cur' = [minute |-> OpenTxn.minute, totals |-> OpenTxn.totals \cup bytes,
                     meta |-> OpenTxn.meta \cup {b}, txn |-> id]
          /\ allTime' = allTime + Bytes(bytes)
          /\ shown' = shown + Bytes(bytes)
          /\ ckptDirty' = TRUE
          /\ stateDirty' = (stateDirty \/ newPath)
          /\ applied' = applied \cup {b}
  /\ pc' = "ckpt" /\ call' = None
  /\ UNCHANGED <<files, hasAllTime, tickZero, ret, env, durable>>

RefuseTxn ==
  /\ pc = "apply" /\ OpenTxn.txn = 0 /\ commit # None
  /\ ReadFault
  /\ cur' = OpenTxn
  /\ pc' = "idle" /\ call' = None
  /\ UNCHANGED <<files, allTime, hasAllTime, ckptDirty, stateDirty, tickZero, shown>>
  /\ UNCHANGED <<ret, clock, edits, crashes, ghosts>>

-----------------------------------------------------------------------------
(* Checkpoint, at the end of Update and whenever there is no batch.  force *)
(* or nine seconds since the last save make it due.                        *)
Checkpoint ==
  /\ pc = "idle" /\ pc' = "ckpt"
  /\ UNCHANGED <<files, members, ret, call, env, ghosts>>

AfterCheckpoint(dirty) == IF dirty THEN "ckpt_state" ELSE "idle"

CheckpointSave_bug ==
  /\ pc = "ckpt" /\ ckptDirty /\ (stateDirty \/ tickZero)
  /\ SaveCheckpoint("ckpt_state", AfterCheckpoint(stateDirty))
  /\ UNCHANGED <<day, journal, commit, stateAll, quality>>
  /\ UNCHANGED <<cur, allTime, hasAllTime, shown, ret, call, clock, edits, crashes, applied>>

CheckpointSave ==
  /\ pc = "ckpt" /\ ckptDirty
  /\ SaveCheckpoint("ckpt_state", AfterCheckpoint(stateDirty))
  /\ UNCHANGED <<day, journal, commit, stateAll, quality>>
  /\ UNCHANGED <<cur, allTime, hasAllTime, shown, ret, call, clock, edits, crashes, applied>>

CheckpointSkip ==
  /\ pc = "ckpt" /\ (~ckptDirty \/ ~(stateDirty \/ tickZero))
  /\ pc' = AfterCheckpoint(stateDirty)
  /\ UNCHANGED <<files, members, ret, call, env, ghosts>>

CheckpointState ==
  /\ pc = "ckpt_state" /\ pc' = "idle"
  /\ \/ stateAll' = allTime /\ stateDirty' = FALSE /\ NoFault
     \/ UNCHANGED <<stateAll, stateDirty>> /\ Fault
  /\ UNCHANGED <<day, journal, commit, checkpoint, quality>>
  /\ UNCHANGED <<cur, allTime, hasAllTime, ckptDirty, tickZero, shown>>
  /\ UNCHANGED <<ret, call, clock, edits, crashes, ghosts>>

(* SetPreferredRange and SetPreferredLanguage save the state at once.      *)
SetPreferred ==
  /\ pc = "idle"
  /\ SaveState(allTime)
  /\ UNCHANGED <<day, journal, commit, checkpoint, quality>>
  /\ UNCHANGED <<members, pc, ret, call, clock, edits, crashes, ghosts>>

-----------------------------------------------------------------------------
(* The process dies between two steps; the next one runs Initialize.       *)
Crash ==
  /\ crashes < MaxCrashes
  /\ crashes' = crashes + 1
  /\ cur' = NoTxn /\ allTime' = 0 /\ hasAllTime' = FALSE
  /\ ckptDirty' = FALSE /\ stateDirty' = FALSE /\ tickZero' = TRUE /\ shown' = 0
  /\ pc' = "unloaded" /\ ret' = "load" /\ call' = None
  /\ UNCHANGED <<files, clock, faults, readFaults, edits, ghosts>>

(* Someone else changes the last line of the daily file while no process   *)
(* has the store loaded.                                                   *)
ExternalEdit ==
  /\ pc = "unloaded" /\ day # <<>>
  /\ edits < MaxEdits
  /\ edits' = edits + 1
  /\ day' = [day EXCEPT ![Len(day)].batches = {}]
  /\ UNCHANGED <<journal, commit, checkpoint, stateAll, quality>>
  /\ UNCHANGED <<members, pc, ret, call, clock, faults, readFaults, crashes, ghosts>>

Recover == \/ WriteRawRow \/ CompleteRaw \/ RecoverQuality
           \/ RecoverMark \/ RecoverDelete

LoadStep == \/ EnsureLoaded \/ Load \/ LoadQuality \/ LoadClear
            \/ LoadSaveState \/ LoadRepair

Flush == \/ FlushEmpty \/ FlushSave \/ FlushTest \/ FlushJournal \/ FlushResave
         \/ FlushQuality \/ FlushMark \/ FlushClear \/ FlushState

Commit == \/ Apply \/ RefuseTxn
          \/ CheckpointSave \/ CheckpointSkip \/ CheckpointState

(* What a started call does next; the calls themselves are Update,         *)
(* Checkpoint and SetPreferred.                                            *)
Step == Recover \/ LoadStep \/ Flush \/ Commit

Next ==
  \/ Step
  \/ \E b \in Batches : Update(b)
  \/ Checkpoint
  \/ SetPreferred
  \/ Crash
  \/ ExternalEdit

Spec == Init /\ [][Next]_vars

(* The collector thread calls the store once a second, holds on to a       *)
(* refused batch, and time passes: a started call goes on, a dirty         *)
(* checkpoint is eventually due, and undelivered batches are delivered.    *)
Fairness ==
  /\ WF_vars(Step)
  /\ SF_vars(\E b \in Batches : Update(b))
  /\ SF_vars(Checkpoint /\ ckptDirty)
  /\ SF_vars(CheckpointSave)

FairSpec == Spec /\ Fairness
=============================================================================
