---------------------------- MODULE NetworkStore ----------------------------
(***************************************************************************)
(* CNetworkTrafficStore (NetworkTrafficStore.cpp): adapter traffic as      *)
(* records with an identity, merged minute by minute in RAM, saved to      *)
(* pending.tsv and appended to one file per local day.  There is no        *)
(* journal: a restart appends every record of pending.tsv again, and the   *)
(* identities tell Append what a day file already holds.                   *)
(*                                                                         *)
(* An interval is one sample of the collector.  A record is the set of the *)
(* intervals merged into it; its minute is the one its last millisecond is *)
(* in, counted in UTC.                                                     *)
(*                                                                         *)
(* An operator whose name ends in _bug or _silent is a plausible slip in   *)
(* the code of the operator after it.  No behaviour of this module uses it.*)
(***************************************************************************)
EXTENDS Naturals, Sequences, FiniteSets

CONSTANTS
  Intervals,    \* the samples with bytes
  Minutes,      \* the minutes UTC can show
  DayLength,    \* minutes of a day
  Zones,        \* offsets of the local time zones, in minutes
  None,         \* no file, no record
  MaxId,        \* bound on identities: above it, only a restart makes a record
  MaxFaults,    \* bound on failing writes
  MaxCrashes,   \* bound on process deaths
  MaxEdits,     \* bound on files damaged by others
  MaxMoves      \* bound on changes of the time zone

ASSUME NetworkAssumption ==
  /\ IsFiniteSet(Intervals)
  /\ Minutes \subseteq Nat /\ IsFiniteSet(Minutes)
  /\ DayLength \in Nat \ {0}
  /\ Zones \subseteq Nat /\ Zones # {} /\ IsFiniteSet(Zones)
  /\ MaxId \in Nat /\ MaxFaults \in Nat /\ MaxCrashes \in Nat
  /\ MaxEdits \in Nat /\ MaxMoves \in Nat

Record == [id : Nat, minute : Minutes, parts : SUBSET Intervals]

(* A damaged record is one that Decode refuses: it has the identity 0.     *)
Days    == {(m + z) \div DayLength : m \in Minutes, z \in Zones}
DayFile == [records : Seq(Record), torn : BOOLEAN]
Known   == [records : Seq(Record), healthy : BOOLEAN]
Saved   == [records : Seq(Record), damaged : BOOLEAN]

ASSUME NoneAssumption ==
  None \notin DayFile /\ None \notin Known /\ None \notin Saved /\ None \notin Record

VARIABLES
  \* The files.
  file,       \* the day files: whole records, then perhaps a torn one; or None
  summed,     \* the days whose .sum file matches the day file
  saved,      \* pending.tsv, or None
  \* Members of the store, lost in a crash.
  known,      \* m_days: what was last read of each day file, or None
  pending,    \* m_pending
  current,    \* m_current, or None
  nextId,     \* m_nextId
  dirty,      \* m_dirty
  healthy,    \* m_writeHealthy
  corrupt,    \* m_checkpointCorrupt
  \* Control and environment.
  pc,         \* where the running call is; "idle" and "down" when none runs
  zone,       \* the time zone Windows is set to
  faults, crashes, edits, moves,
  \* Observation.
  added,      \* intervals the store has taken and not lost in a crash
  durable     \* intervals a successful SaveCheckpoint has written, ever

files   == <<file, summed, saved>>
members == <<known, pending, current, nextId, dirty, healthy, corrupt>>
env     == <<zone, faults, crashes, edits, moves>>
ghosts  == <<added, durable>>
vars    == <<files, members, pc, env, ghosts>>

-----------------------------------------------------------------------------
DayKey(minute) == (minute + zone) \div DayLength

LastId(records) == IF records = <<>> THEN 0 ELSE records[Len(records)].id

(* ReadDay: the records up to the first one it refuses, and whether the    *)
(* file is sound or has only lost the end of its last line.                *)
Acceptable(k, records, i) ==
  /\ DayKey(records[i].minute) = k
  /\ records[i].id > (IF i = 1 THEN 0 ELSE records[i - 1].id)

SoundLength(k, records) ==
  CHOOSE n \in 0..Len(records) :
    /\ \A i \in 1..n : Acceptable(k, records, i)
    /\ n < Len(records) => ~Acceptable(k, records, n + 1)

Whole(k, f) == SoundLength(k, f.records) = Len(f.records)

Readable(k, f) == Whole(k, f) /\ ~f.torn

ReadDay(k, f) ==
  [records |-> SubSeq(f.records, 1, SoundLength(k, f.records)),
   healthy |-> Readable(k, f)]

(* The records RAM holds, in the order of their identities.                *)
Held == pending \o (IF current = None THEN <<>> ELSE <<current>>)

PartsOf(records) == UNION {records[i].parts : i \in 1..Len(records)}

NoFault == UNCHANGED faults
Fault == faults < MaxFaults /\ faults' = faults + 1

-----------------------------------------------------------------------------
Init ==
  /\ file = [k \in Days |-> None] /\ summed = {} /\ saved = None
  /\ known = [k \in Days |-> None] /\ pending = <<>> /\ current = None
  /\ nextId = 1 /\ dirty = FALSE /\ healthy = TRUE /\ corrupt = FALSE
  /\ pc = "down" /\ zone \in Zones
  /\ faults = 0 /\ crashes = 0 /\ edits = 0 /\ moves = 0
  /\ added = {} /\ durable = {}

-----------------------------------------------------------------------------
(* Initialize: every day file is known from its summary if that matches,   *)
(* or read; pending.tsv becomes the queue, up to the first line that       *)
(* RecoverCheckpoint refuses, which blocks all later saving.               *)
Summary(k) == [records |-> file[k].records, healthy |-> TRUE]

KnownDays ==
  [k \in Days |-> IF file[k] = None THEN None
                  ELSE IF k \in summed THEN Summary(k) ELSE ReadDay(k, file[k])]

FirstFree_bug(days, queue) == LastId(queue) + 1

FirstFree(days, queue) ==
  LET used == {LastId(days[k].records) : k \in {d \in Days : days[d] # None}}
                \cup {0, LastId(queue)}
  IN 1 + (CHOOSE m \in used : \A u \in used : u <= m)

Recovered == IF saved = None THEN <<>> ELSE saved.records
DamagedQueue == saved # None /\ saved.damaged

Initialize ==
  /\ pc = "down"
  /\ known' = KnownDays
  /\ pending' = Recovered
  /\ current' = None
  /\ nextId' = FirstFree(KnownDays, Recovered)
  /\ dirty' = (saved # None)
  /\ corrupt' = DamagedQueue
  /\ healthy' = ~DamagedQueue
  /\ summed' \in {T \in SUBSET Days : /\ summed \subseteq T
                                      /\ \A k \in T \ summed : file[k] # None /\ Readable(k, file[k])}
  /\ pc' = IF Recovered # <<>> /\ ~DamagedQueue THEN "save_first" ELSE "idle"
  /\ UNCHANGED <<file, saved, env, ghosts>>

-----------------------------------------------------------------------------
(* Add.  Whether an interval continues the current record (same adapter,   *)
(* no gap, neither of them coarse) is the collector's choice; it must be   *)
(* in the same minute.  A new record pushes the current one to the queue,  *)
(* and whatever is in the queue is flushed.                                *)
AfterAdd_bug ==
  \/ pending' # <<>> /\ pc' = (IF corrupt THEN "idle" ELSE "save_first")
  \/ pending' = <<>> /\ pc' = "idle"

AfterAdd ==
  \/ pending' # <<>> /\ pc' = (IF corrupt THEN "idle" ELSE "save_first")
  \/ pending' = <<>> /\ pc' \in {"idle", IF corrupt THEN "idle" ELSE "save_only"}

AddMerge(bytes) ==
  /\ pc = "idle" /\ current # None
  /\ current' = [current EXCEPT !.parts = @ \cup bytes]
  /\ added' = added \cup bytes
  /\ dirty' = TRUE
  /\ UNCHANGED pending
  /\ AfterAdd
  /\ UNCHANGED <<files, known, nextId, healthy, corrupt, env, durable>>

AddNew_bug(bytes) ==
  /\ pc = "idle" /\ (nextId <= MaxId \/ current = None)
  /\ \E m \in Minutes :
       current' = [id |-> nextId, minute |-> m, parts |-> bytes]
  /\ nextId' = nextId + 1
  /\ added' = added \cup bytes
  /\ dirty' = TRUE
  /\ pending' = pending
  /\ AfterAdd
  /\ UNCHANGED <<files, known, healthy, corrupt, env, durable>>

AddNew(bytes) ==
  /\ pc = "idle" /\ (nextId <= MaxId \/ current = None)
  /\ \E m \in Minutes :
       current' = [id |-> nextId, minute |-> m, parts |-> bytes]
  /\ nextId' = nextId + 1
  /\ added' = added \cup bytes
  /\ dirty' = TRUE
  /\ pending' = Held
  /\ AfterAdd
  /\ UNCHANGED <<files, known, healthy, corrupt, env, durable>>

(* An interval without bytes is added like any other.                      *)
Add == \E bytes \in {{}} \cup {{i} : i \in Intervals \ added} :
         AddMerge(bytes) \/ AddNew(bytes)

(* SetPreferredAdapter, then Flush(true): the current record is finished.  *)
(* With a damaged pending.tsv Flush does nothing.                          *)
FlushAll ==
  /\ pc = "idle" /\ nextId <= MaxId
  /\ \/ /\ ~corrupt /\ NoFault
        /\ pending' = Held /\ current' = None
        /\ dirty' = (dirty \/ current # None)
        /\ pc' = IF dirty' \/ pending' # <<>> THEN "save_first" ELSE "idle"
        /\ UNCHANGED healthy
     \/ healthy' = FALSE /\ Fault /\ UNCHANGED <<pending, current, dirty, pc>>
  /\ UNCHANGED <<files, known, nextId, corrupt, zone, crashes, edits, moves, ghosts>>

-----------------------------------------------------------------------------
(* SaveCheckpoint replaces pending.tsv by the queue and the current record.*)
SaveCheckpoint(next) ==
  /\ \/ /\ saved' = [records |-> Held, damaged |-> FALSE]
        /\ durable' = durable \cup PartsOf(Held)
        /\ dirty' = FALSE /\ healthy' = TRUE
        /\ pc' = next /\ NoFault
     \/ /\ healthy' = FALSE /\ pc' = "idle" /\ Fault
        /\ UNCHANGED <<saved, durable, dirty>>
  /\ UNCHANGED <<file, summed, known, pending, current, nextId, corrupt>>
  /\ UNCHANGED <<zone, crashes, edits, moves, added>>

SaveFirst == pc = "save_first" /\ SaveCheckpoint("append")
SaveOnly  == pc = "save_only" /\ SaveCheckpoint("idle")
SaveLast  == pc = "save_last" /\ SaveCheckpoint("idle")

-----------------------------------------------------------------------------
(* Append of the first record of the queue to its day file.                *)
Front == Head(pending)
Key   == DayKey(Front.minute)

Existing == IF file[Key] = None THEN <<>> ELSE file[Key].records

Committed == \E i \in 1..Len(Existing) : Existing[i] = Front

Refused_bug == LastId(Existing) >= Front.id /\ ~Committed

Refused ==
  \/ file[Key] # None /\ ~Whole(Key, file[Key])
  \/ LastId(Existing) >= Front.id /\ ~Committed

(* RefreshDay after a write: the file as it is then is read again, and its *)
(* summary written if it is sound.                                         *)
RefreshDay(k) ==
  /\ known' = [known EXCEPT ![k] = ReadDay(k, file'[k])]
  /\ \/ summed' = summed \ {k}
     \/ summed' = summed \cup {k} /\ Readable(k, file'[k])

Write(records, torn) ==
  file' = [file EXCEPT ![Key] = [records |-> records, torn |-> torn]]

Appended ==
  /\ pending' = Tail(pending) /\ dirty' = TRUE /\ pc' = "append"
  /\ UNCHANGED <<healthy, faults>>

AppendFails_bug ==
  /\ healthy' = FALSE /\ pc' = "idle"
  /\ Fault
  /\ pending' = Tail(pending) /\ dirty' = TRUE

AppendFails_silent ==
  /\ pc' = "idle"
  /\ Fault
  /\ UNCHANGED <<pending, dirty, healthy>>

AppendFails ==
  /\ healthy' = FALSE /\ pc' = "idle"
  /\ Fault
  /\ UNCHANGED <<pending, dirty>>

AppendRest == UNCHANGED <<saved, current, nextId, corrupt, zone, crashes, edits, moves, ghosts>>

AppendRefused ==
  /\ pc = "append" /\ pending # <<>> /\ Refused
  /\ healthy' = FALSE /\ pc' = "idle"
  /\ UNCHANGED <<file, summed, known, pending, dirty, faults>> /\ AppendRest

(* The file is opened, or made, and SetEndOfFile cuts off a torn line.  A  *)
(* file without a record counts as torn: its first line is written with    *)
(* its first record.                                                       *)
CutFile == Write(Existing, Existing = <<>>)

AppendOpen ==
  /\ pc = "append" /\ pending # <<>> /\ ~Refused
  /\ \/ /\ IF file[Key] # None /\ ~file[Key].torn
           THEN UNCHANGED <<file, summed>>
           ELSE CutFile /\ summed' = summed \ {Key}
        /\ pc' = "write"
        /\ UNCHANGED <<known, pending, dirty, healthy, faults>>
     \/ UNCHANGED <<file, summed, known>> /\ AppendFails
  /\ AppendRest

(* A record the file holds already is only dropped from the queue.         *)
AppendSkip ==
  /\ pc = "write" /\ Committed
  /\ UNCHANGED file
  /\ RefreshDay(Key)
  /\ Appended \/ AppendFails
  /\ AppendRest

(* Any other is written; a write that fails may have written nothing, a    *)
(* part of the line, or all of it.                                         *)
AppendRecord ==
  /\ pc = "write" /\ ~Committed
  /\ \/ Write(Append(Existing, Front), FALSE) /\ (Appended \/ AppendFails)
     \/ Write(Existing, TRUE) /\ AppendFails
     \/ UNCHANGED file /\ AppendFails
  /\ RefreshDay(Key)
  /\ AppendRest

(* The end of the loop of Flush.                                           *)
AppendDone ==
  /\ pc = "append" /\ pending = <<>>
  /\ pc' = IF dirty THEN "save_last" ELSE "idle"
  /\ UNCHANGED <<files, members, env, ghosts>>

-----------------------------------------------------------------------------
(* GetAllTimeTotal: how often an interval is in the total of the given     *)
(* days, queue and current record.  A record of the queue whose day file   *)
(* has its identity is in the total of the day.                            *)
InDay_bug(days, record) == FALSE

InDay(days, record) ==
  LET k == DayKey(record.minute)
  IN days[k] # None /\ LastId(days[k].records) >= record.id

TimesCounted(i, days, queue, last) ==
  LET Places(k) == {n \in 1..Len(days[k].records) : i \in days[k].records[n].parts}
      inDays  == UNION {{k} \X Places(k) : k \in {d \in Days : days[d] # None}}
      inQueue == {n \in 1..Len(queue) :
                    i \in queue[n].parts /\ ~InDay(days, queue[n])}
      inLast  == IF last # None /\ i \in last.parts THEN 1 ELSE 0
  IN Cardinality(inDays) + Cardinality(inQueue) + inLast

(* A query reads the days again that were not healthy when last read.      *)
Query ==
  /\ pc = "idle"
  /\ \E k \in Days :
       /\ file[k] # None /\ known[k] # None /\ ~known[k].healthy
       /\ UNCHANGED file
       /\ RefreshDay(k)
  /\ UNCHANGED <<saved, pending, current, nextId, dirty, healthy, corrupt>>
  /\ UNCHANGED <<pc, env, ghosts>>

(* The process dies; while it writes, the line may be torn.                *)
Crash ==
  /\ crashes < MaxCrashes /\ pc # "down"
  /\ crashes' = crashes + 1
  /\ \/ UNCHANGED <<file, summed>>
     \/ /\ pc = "write" /\ ~Committed
        /\ Write(Existing, TRUE) /\ summed' = summed \ {Key}
  /\ known' = [k \in Days |-> None] /\ pending' = <<>> /\ current' = None
  /\ nextId' = 1 /\ dirty' = FALSE /\ healthy' = TRUE /\ corrupt' = FALSE
  /\ pc' = "down"
  /\ added' = durable
  /\ UNCHANGED <<saved, zone, faults, edits, moves, durable>>

(* Someone damages the last line of a file while the plugin is not         *)
(* running.                                                                *)
Damage ==
  /\ pc = "down" /\ edits < MaxEdits
  /\ edits' = edits + 1
  /\ \/ /\ saved # None /\ ~saved.damaged /\ saved.records # <<>>
        /\ saved' = [records |-> SubSeq(saved.records, 1, Len(saved.records) - 1), damaged |-> TRUE]
        /\ UNCHANGED <<file, summed>>
     \/ \E k \in Days :
          /\ file[k] # None /\ file[k].records # <<>>
          /\ file' = [file EXCEPT ![k].records[Len(file[k].records)].id = 0]
          /\ summed' = summed \ {k}
          /\ UNCHANGED saved
  /\ UNCHANGED <<members, pc, zone, faults, crashes, moves, ghosts>>

(* The user sets Windows to another time zone.                             *)
ChangeZone ==
  /\ pc \in {"idle", "down"} /\ moves < MaxMoves
  /\ moves' = moves + 1
  /\ zone' \in Zones \ {zone}
  /\ UNCHANGED <<files, members, pc, faults, crashes, edits, ghosts>>

Flush == \/ SaveFirst \/ SaveOnly \/ SaveLast \/ AppendRefused \/ AppendOpen
         \/ AppendSkip \/ AppendRecord \/ AppendDone

Next == \/ Initialize \/ Add \/ FlushAll \/ Flush \/ Query
        \/ Crash \/ Damage \/ ChangeZone

Spec == Init /\ [][Next]_vars

(* The host starts the store and samples about once a second; a started call *)
(* goes on; once in ten seconds an Add saves.                              *)
Fairness ==
  /\ WF_vars(Initialize)
  /\ WF_vars(Flush)
  /\ SF_vars(Add)
  /\ SF_vars(Add /\ pc' # "idle")

FairSpec == Spec /\ Fairness
=============================================================================
