-------------------------- MODULE HistoryStoreProps -------------------------
(***************************************************************************)
(* What HistoryStore must satisfy.                                         *)
(***************************************************************************)
EXTENDS HistoryStore

(* Each variable holds a value of its kind; of the code, the members of    *)
(* CHistoryTrafficStore and the files its Load functions accept.           *)
Txn == [minute : Minutes \cup {None}, totals : SUBSET Batches,
        meta : SUBSET Batches, txn : Nat]

TypeOK ==
  /\ day \in Seq(Row)
  /\ journal \in Journal \cup {None}
  /\ commit \in Marker \cup {None}
  /\ checkpoint \in Saved \cup {None}
  /\ stateAll \in Nat \cup {None}
  /\ quality \subseteq [minute : Minutes, meta : SUBSET Batches]
  /\ cur \in Txn
  /\ allTime \in Nat /\ shown \in Nat
  /\ hasAllTime \in BOOLEAN /\ ckptDirty \in BOOLEAN
  /\ stateDirty \in BOOLEAN /\ tickZero \in BOOLEAN
  /\ ret \in {"load", "flush", "append"}
  /\ call \in Request \cup {None}
  /\ clock \in Minutes
  /\ applied \subseteq Batches /\ durable \subseteq Batches

-----------------------------------------------------------------------------
(* What a restart that meets no fault would count: the complete blocks of  *)
(* the daily file, the journalled block, and the checkpoint unless the     *)
(* marker then on disk names it.                                           *)
DayBatches == UNION {day[i].batches : i \in {j \in 1..Len(day) : day[j].app = Rows}}

Journalled == IF journal = None THEN {} ELSE journal.totals

MarkAfterRecovery == IF journal = None THEN commit ELSE Mark(journal)

Pending ==
  IF checkpoint = None \/ (checkpoint # None /\ MarkAfterRecovery = Mark(checkpoint))
  THEN {} ELSE checkpoint.totals

Recoverable == DayBatches \cup Journalled \cup Pending

(* No batch is counted twice after a restart, wherever the process died:   *)
(* no application has it on two lines of the daily file, and it is not     *)
(* both pending and in the file or its journal (LoadCheckpoint's           *)
(* comparison with the marker, CompleteRawAppend's resumption).            *)
CountedOnce ==
  /\ \A i, j \in 1..Len(day) :
       (i # j /\ day[i].app = day[j].app) => day[i].batches \cap day[j].batches = {}
  /\ Pending \cap (DayBatches \cup Journalled) = {}

(* What one successful SaveCheckpoint has written is never lost: every     *)
(* later state of the files, at every point of a flush or a load, still    *)
(* leads a restart to it, unless someone else edits the daily file.        *)
DurableKept == edits = 0 => durable \subseteq Recoverable

(* The daily file as CompleteRawAppend expects it: the file the journal    *)
(* was written for, followed by a prefix of the journalled block.          *)
TailMatches ==
  /\ Len(day) \in journal.offset..(journal.offset + Rows)
  /\ journal.anchor = (IF journal.offset = 0 THEN None ELSE day[journal.offset])
  /\ \A r \in 1..Rows :
       journal.offset + r <= Len(day) =>
         day[journal.offset + r] =
           [minute |-> journal.minute, app |-> r, batches |-> journal.totals]

(* An append can always be resumed: the daily file ends in a prefix of     *)
(* the journalled block, and without a journal it ends in a whole block.   *)
AppendResumable ==
  IF journal = None
  THEN /\ Len(day) % Rows = 0
       /\ day # <<>> => day[Len(day)].app = Rows
  ELSE TailMatches

(* Provenance is on disk before the bytes it describes can be forgotten    *)
(* elsewhere: when a batch is in a committed block, .quality.tsv names it  *)
(* (RecoverAppend writes the quality line before the marker and before it  *)
(* deletes the journal).                                                   *)
ProvenanceKept ==
  \A b \in durable \ Pending :
    \/ b \in Journalled
    \/ \E q \in quality : b \in q.meta

(* After a load and after every call, what queries of today read is what   *)
(* the files and the minute in RAM hold, neither twice nor too little,     *)
(* although Load builds it from the daily file and the checkpoint and      *)
(* Update adds to it call by call; and the all-time total, which the state *)
(* file, the checkpoint and the journal carry and of which the largest     *)
(* wins, never exceeds the bytes ever applied.                             *)
ShownExact ==
  /\ pc = "idle" => shown = Bytes(DayBatches \cup cur.totals)
  /\ allTime <= Bytes(applied \ Gaps)
  /\ stateAll # None => stateAll <= Bytes(applied \ Gaps)

(* The all-time total covers the history it is the total of, also after a  *)
(* crash and a restart.                                                    *)
AllTimeCovers ==
  pc = "idle" => allTime >= Bytes(DayBatches \cup cur.totals)

(* A store whose journal and daily file disagree writes nothing at all,    *)
(* does not become ready, and keeps every file for its user: RecoverAppend *)
(* fails in EnsureLoaded before anything else is read or written.          *)
ConflictPreserved ==
  [][(journal # None /\ ~TailMatches) =>
        /\ pc' \in {"unloaded", "rec_raw"}
        /\ UNCHANGED files \/ edits' # edits]_vars

(* A transaction marker names one transaction: once a block is committed   *)
(* under an identity, no later block gets a smaller or equal one           *)
(* (EnsureCommitId takes the larger of the clock and the marker plus one). *)
MarkersIncrease ==
  [][(commit # None /\ commit' # commit) => commit'.txn > commit.txn]_vars

-----------------------------------------------------------------------------
(* The store implements the ledger it stands for.                          *)
Ledger == INSTANCE HistoryLedger WITH
            accepted <- applied \ Gaps,
            ram      <- cur.totals \ Recoverable,
            ledger   <- Recoverable

ImplementsLedger == Ledger!LedgerSpec

(* Once writes stop failing and the process stops dying, the store loads,  *)
(* takes every batch, and has every batch it took on disk.                 *)
EventuallyDurable ==
  /\ (pc = "unloaded") ~> (pc = "idle")
  /\ <>[](applied = Batches)
  /\ \A b \in Batches \ Gaps : (b \in cur.totals) ~> (b \in durable \/ b \notin cur.totals)
=============================================================================
