------------------------- MODULE NetworkStoreProofs -------------------------
(***************************************************************************)
(* Proofs about NetworkStore, for any number of samples, minutes, faults,  *)
(* deaths, damaged files and moves of the time zone: what is saved stays   *)
(* on disk, what others damaged is left alone, and every sample is in the  *)
(* all-time total once, also after a restart.                              *)
(***************************************************************************)
EXTENDS NetworkStoreProps, FiniteSetTheorems, SequenceTheorems,
        NaturalsInduction, WellFoundedInduction, TLAPS

-----------------------------------------------------------------------------
(* A set of naturals that is not empty has a least member.                 *)
LEMMA LeastNat ==
  ASSUME NEW S \in SUBSET Nat, S # {}
  PROVE  \E m \in S : \A n \in S : m <= n
<1>1. PICK m \in S : \A n \in S : ~(<<n, m>> \in OpToRel(<, Nat))
  BY WFMin, NatLessThanWellFounded, Zenon
<1>2. ASSUME NEW n \in S, ~(m <= n) PROVE FALSE
  <2>1. m \in Nat /\ n \in Nat
    OBVIOUS
  <2>2. n < m
    BY <1>2, <2>1
  <2>3. <<n, m>> \in OpToRel(<, Nat)
    BY <2>1, <2>2, Zenon DEF OpToRel
  <2>. QED
    BY <1>1, <2>3
<1>. QED
  BY <1>2

(* The sound part of a file is its longest prefix of acceptable records.   *)
LEMMA SoundPrefix ==
  ASSUME NEW k, NEW r \in Seq(Record)
  PROVE  /\ SoundLength(k, r) \in 0 .. Len(r)
         /\ \A i \in 1 .. SoundLength(k, r) : Acceptable(k, r, i)
         /\ SoundLength(k, r) < Len(r) => ~Acceptable(k, r, SoundLength(k, r) + 1)
<1> DEFINE Bad == {i \in 1 .. Len(r) : ~Acceptable(k, r, i)}
           Fit(n) == /\ \A i \in 1 .. n : Acceptable(k, r, i)
                     /\ n < Len(r) => ~Acceptable(k, r, n + 1)
<1>1. Len(r) \in Nat
  OBVIOUS
<1>2. \E n \in 0 .. Len(r) : Fit(n)
  <2>1. CASE Bad = {}
    <3>1. Fit(Len(r)) /\ Len(r) \in 0 .. Len(r)
      BY <1>1, <2>1
    <3>. QED
      BY <3>1
  <2>2. CASE Bad # {}
    <3>1. PICK m \in Bad : \A n \in Bad : m <= n
      <4>1. Bad \in SUBSET Nat
        BY <1>1
      <4>. HIDE DEF Bad
      <4>. QED
        BY <2>2, <4>1, LeastNat
    <3>2. m \in 1 .. Len(r) /\ m - 1 \in 0 .. Len(r) /\ (m - 1) + 1 = m /\ ~Acceptable(k, r, m)
      BY <1>1
    <3>3. \A i \in 1 .. m - 1 : i \in 1 .. Len(r) /\ ~(m <= i)
      BY <1>1, <3>2
    <3>4. \A i \in 1 .. m - 1 : Acceptable(k, r, i)
      BY <3>1, <3>3
    <3>5. Fit(m - 1)
      BY <3>2, <3>4
    <3>. QED
      BY <3>2, <3>5
  <2>. QED
    BY <2>1, <2>2
<1>3. SoundLength(k, r) = CHOOSE n \in 0 .. Len(r) : Fit(n)
  BY DEF SoundLength
<1>. HIDE DEF Fit
<1>4. SoundLength(k, r) \in 0 .. Len(r) /\ Fit(SoundLength(k, r))
  BY <1>2, <1>3
<1>. QED
  BY <1>4 DEF Fit

(* A day file is whole when every record of it is acceptable.              *)
LEMMA WholeAcceptable ==
  ASSUME NEW k, NEW f \in DayFile
  PROVE  Whole(k, f) <=> \A i \in 1 .. Len(f.records) : Acceptable(k, f.records, i)
<1>1. f.records \in Seq(Record) /\ Len(f.records) \in Nat
  BY DEF DayFile
<1>. QED
  BY <1>1, SoundPrefix DEF Whole

(* What ReadDay returns, and that it returns all of a whole file.          *)
LEMMA ReadBack ==
  ASSUME NEW k, NEW f \in DayFile
  PROVE  /\ ReadDay(k, f) \in Known
         /\ Whole(k, f) => ReadDay(k, f).records = f.records
<1>1. f.records \in Seq(Record)
  BY DEF DayFile
<1>2. SoundLength(k, f.records) \in 0 .. Len(f.records)
  BY <1>1, SoundPrefix
<1>3. SubSeq(f.records, 1, SoundLength(k, f.records)) \in Seq(Record)
  BY <1>1, <1>2
<1>4. Whole(k, f) => SubSeq(f.records, 1, SoundLength(k, f.records)) = f.records
  BY <1>1, SubSeqFull DEF Whole
<1>. QED
  BY <1>3, <1>4 DEF ReadDay, Known, Readable, Whole

-----------------------------------------------------------------------------
(* Types, and what a write finds: its record is the first of the queue and *)
(* the file it goes to is sound.                                           *)
Steps == {"down", "idle", "save_first", "save_only", "save_last", "append", "write"}

Typed ==
  /\ file \in [Days -> DayFile \cup {None}]
  /\ saved \in Saved \cup {None}
  /\ known \in [Days -> Known \cup {None}]
  /\ pending \in Seq(Record)
  /\ current \in Record \cup {None}
  /\ nextId \in Nat /\ corrupt \in BOOLEAN
  /\ pc \in Steps /\ zone \in Zones
  /\ edits \in Nat /\ moves \in Nat

WriteReady ==
  pc = "write" =>
    /\ pending # <<>> /\ file[Key] # None
    /\ Whole(Key, file[Key])
    /\ Committed \/ LastId(Existing) < Front.id

TypeInv == Typed /\ WriteReady

(* Types of what the store computes from its files, its queue and its      *)
(* tables.                                                                 *)
LEMMA DayKeyType ==
  ASSUME NEW m \in Minutes, zone \in Zones
  PROVE  DayKey(m) \in Days
BY DEF DayKey, Days

LEMMA RecordedIs ==
  ASSUME NEW r \in Record
  PROVE  r.id \in Nat /\ r.minute \in Minutes /\ r.parts \subseteq Intervals
BY DEF Record

LEMMA HeldType ==
  ASSUME Typed
  PROVE  /\ Held \in Seq(Record)
         /\ current = None => Held = pending
         /\ current # None => Held = Append(pending, current)
BY NoneAssumption DEF Typed, Held

LEMMA RecoveredType ==
  ASSUME Typed PROVE Recovered \in Seq(Record)
BY DEF Typed, Recovered, Saved

LEMMA FrontIs ==
  ASSUME Typed, pending # <<>>
  PROVE  /\ Front \in Record /\ Front = pending[1] /\ Key \in Days
         /\ 1 \in 1 .. Len(pending)
<1>1. Front \in Record /\ Front = pending[1] /\ 1 \in 1 .. Len(pending)
  BY DEF Typed, Front
<1>. QED
  BY <1>1, RecordedIs, DayKeyType DEF Key, Typed

LEMMA ExistingType ==
  ASSUME Typed, pending # <<>>
  PROVE  Existing \in Seq(Record)
BY FrontIs DEF Typed, Existing, DayFile

LEMMA WrittenType ==
  ASSUME Typed, pending # <<>>, NEW r \in Seq(Record), NEW t \in BOOLEAN, Write(r, t)
  PROVE  /\ file' \in [Days -> DayFile \cup {None}]
         /\ file'[Key] = [records |-> r, torn |-> t]
         /\ file'[Key] # None /\ file'[Key].records = r
         /\ \A k \in Days \ {Key} : file'[k] = file[k]
<1>1. [records |-> r, torn |-> t] \in DayFile
  BY DEF DayFile
<1>2. /\ file' \in [Days -> DayFile \cup {None}]
      /\ file'[Key] = [records |-> r, torn |-> t]
      /\ \A k \in Days \ {Key} : file'[k] = file[k]
  BY <1>1, FrontIs DEF Typed, Write
<1>. QED
  BY <1>1, <1>2, NoneAssumption

LEMMA RefreshType ==
  ASSUME NEW k \in Days, file' \in [Days -> DayFile \cup {None}], file'[k] # None,
         known \in [Days -> Known \cup {None}], RefreshDay(k)
  PROVE  /\ known' \in [Days -> Known \cup {None}]
         /\ known'[k] = ReadDay(k, file'[k])
         /\ \A l \in Days \ {k} : known'[l] = known[l]
<1>1. ReadDay(k, file'[k]) \in Known
  BY ReadBack
<1>. QED
  BY <1>1 DEF RefreshDay

(* A store that was never started is well-typed.                           *)
LEMMA TypedStart == Init => TypeInv
<1> SUFFICES ASSUME Init PROVE TypeInv
  OBVIOUS
<1>1. <<>> \in Seq(Record)
  BY EmptySeq
<1>2. Typed
  BY <1>1 DEF Init, Typed, Steps
<1>. QED
  BY <1>2 DEF Init, TypeInv, WriteReady

(* The first free identity is above all that Initialize has read.          *)
LEMMA LargestOfFinite ==
  ASSUME NEW S \in SUBSET Nat, IsFiniteSet(S), S # {}
  PROVE  \E m \in S : \A n \in S : n <= m
<1> DEFINE Top(T) == \E m \in T : \A n \in T : n <= m
           Bad == {c \in Nat : \E T \in SUBSET S : T # {} /\ Cardinality(T) = c /\ ~Top(T)}
<1>1. SUFFICES ASSUME Bad # {} PROVE FALSE
  BY FS_CardinalityType
<1>2. PICK c \in Bad : \A d \in Bad : c <= d
  <2>1. Bad \in SUBSET Nat
    OBVIOUS
  <2>. HIDE DEF Bad
  <2>. QED
    BY <1>1, <2>1, LeastNat
<1>3. PICK T \in SUBSET S : T # {} /\ Cardinality(T) = c /\ ~Top(T)
  OBVIOUS
<1>4. PICK x : x \in T
  BY <1>3
<1>5. IsFiniteSet(T)
  BY <1>3, FS_Subset
<1>6. Cardinality(T \ {x}) = c - 1 /\ c \in Nat /\ Cardinality(T \ {x}) \in Nat
  BY <1>3, <1>4, <1>5, FS_RemoveElement, FS_CardinalityType
<1>7. T \ {x} # {}
  BY <1>3, <1>4
<1>8. Top(T \ {x})
  <2>1. c - 1 \notin Bad
    BY <1>2, <1>6
  <2>. HIDE DEF Top
  <2>. QED
    BY <1>3, <1>6, <1>7, <2>1
<1>9. PICK m \in T \ {x} : \A n \in T \ {x} : n <= m
  BY <1>8
<1>10. Top(T)
  <2>1. m \in Nat /\ x \in Nat /\ T \subseteq Nat
    BY <1>4
  <2>2. CASE x <= m
    BY <1>9, <2>2
  <2>3. CASE ~(x <= m)
    <3>1. \A n \in T : n <= x
      BY <1>9, <2>1, <2>3
    <3>. QED
      BY <1>4, <3>1
  <2>. QED
    BY <2>2, <2>3
<1>. QED
  BY <1>3, <1>10

(* There are finitely many days, hence a largest identity in their files.  *)
LEMMA DaysFinite == IsFiniteSet(Days)
<1> DEFINE f == [p \in Minutes \X Zones |-> (p[1] + p[2]) \div DayLength]
<1>1. IsFiniteSet(Minutes \X Zones)
  BY NetworkAssumption, FS_Product
<1>2. f \in Surjection(Minutes \X Zones, Days)
  <2>1. \A p \in Minutes \X Zones : f[p] \in Days
    BY DEF Days
  <2>2. \A d \in Days : \E p \in Minutes \X Zones : f[p] = d
    <3> SUFFICES ASSUME NEW d \in Days PROVE \E p \in Minutes \X Zones : f[p] = d
      OBVIOUS
    <3>1. PICK m \in Minutes, z \in Zones : d = (m + z) \div DayLength
      BY DEF Days
    <3>2. <<m, z>> \in Minutes \X Zones /\ f[<<m, z>>] = d
      BY <3>1
    <3>. QED
      BY <3>2
  <2>. QED
    BY <2>1, <2>2 DEF Surjection
<1>. QED
  BY <1>1, <1>2, FS_Surjection

LEMMA LastIdType ==
  ASSUME NEW r \in Seq(Record) PROVE LastId(r) \in Nat
<1>1. ASSUME r # <<>> PROVE r[Len(r)] \in Record
  BY <1>1
<1>. QED
  BY <1>1, RecordedIs DEF LastId

(* The identity Initialize continues with is above those it has read.      *)
LEMMA FirstFreeIs ==
  ASSUME NEW days \in [Days -> Known \cup {None}], NEW queue \in Seq(Record)
  PROVE  /\ FirstFree(days, queue) \in Nat
         /\ LastId(queue) < FirstFree(days, queue)
         /\ \A k \in Days : days[k] # None => LastId(days[k].records) < FirstFree(days, queue)
<1> DEFINE f == [k \in Days |-> IF days[k] = None THEN 0 ELSE LastId(days[k].records)]
           used == {LastId(days[k].records) : k \in {d \in Days : days[d] # None}}
                     \cup {0, LastId(queue)}
           image == {f[k] : k \in Days}
<1>1. \A k \in Days : days[k] # None => LastId(days[k].records) \in Nat
  BY LastIdType DEF Known
<1>2. used \in SUBSET Nat
  BY <1>1, LastIdType
<1>3. f \in Surjection(Days, image)
  BY DEF Surjection
<1>4. IsFiniteSet(image)
  BY <1>3, DaysFinite, FS_Surjection
<1>5. IsFiniteSet((image \cup {0}) \cup {LastId(queue)})
  BY <1>4, FS_AddElement
<1>6. used \subseteq (image \cup {0}) \cup {LastId(queue)}
  OBVIOUS
<1>7. IsFiniteSet(used)
  BY <1>5, <1>6, FS_Subset
<1>8. \A k \in Days : days[k] # None => LastId(days[k].records) \in used
  OBVIOUS
<1>9. 0 \in used /\ LastId(queue) \in used
  OBVIOUS
<1>10. FirstFree(days, queue) = 1 + (CHOOSE m \in used : \A u \in used : u <= m)
  BY DEF FirstFree
<1>. HIDE DEF used
<1>11. \E m \in used : \A u \in used : u <= m
  BY <1>2, <1>7, <1>9, LargestOfFinite
<1>. DEFINE top == CHOOSE m \in used : \A u \in used : u <= m
<1>12. top \in used /\ \A u \in used : u <= top
  BY <1>11
<1>. HIDE DEF top
<1>13. \A u \in used : u \in Nat /\ top \in Nat /\ u < 1 + top
  BY <1>2, <1>12
<1>14. FirstFree(days, queue) = 1 + top
  BY <1>10 DEF top
<1>. QED
  BY <1>8, <1>9, <1>13, <1>14

(* Every action keeps the types.                                           *)
LEMMA KnownDaysType ==
  ASSUME Typed PROVE KnownDays \in [Days -> Known \cup {None}]
<1>1. \A k \in Days : file[k] # None => /\ Summary(k) \in Known
                                       /\ ReadDay(k, file[k]) \in Known
  BY ReadBack DEF Typed, Summary, Known, DayFile
<1>. QED
  BY <1>1 DEF KnownDays

(* The steps of the store keep the types, one by one.                      *)
LEMMA InitializeTyped ==
  ASSUME TypeInv, Initialize PROVE TypeInv'
<1>1. /\ known' \in [Days -> Known \cup {None}] /\ pending' \in Seq(Record)
      /\ nextId' \in Nat
  BY KnownDaysType, RecoveredType, FirstFreeIs DEF TypeInv, Initialize
<1>2. corrupt' \in BOOLEAN
  BY DEF Initialize, DamagedQueue
<1>. QED
  BY <1>1, <1>2 DEF TypeInv, Typed, Initialize, Steps, env, WriteReady

LEMMA AddTyped ==
  ASSUME TypeInv, Add PROVE TypeInv'
<1>1. ASSUME NEW bytes \in SUBSET Intervals, AddMerge(bytes) PROVE TypeInv'
  <2>1. /\ current' \in Record
        /\ UNCHANGED <<file, saved, known, pending, nextId, corrupt, zone, edits, moves>>
    BY <1>1, NoneAssumption DEF AddMerge, TypeInv, Typed, Record, files, env
  <2>2. pc' \in Steps \ {"write"}
    BY <1>1, <2>1 DEF AddMerge, AfterAdd, Steps
  <2>. QED
    BY <2>1, <2>2 DEF TypeInv, Typed, WriteReady
<1>2. ASSUME NEW bytes \in SUBSET Intervals, AddNew(bytes) PROVE TypeInv'
  <2>1. PICK m \in Minutes : current' = [id |-> nextId, minute |-> m, parts |-> bytes]
    BY <1>2 DEF AddNew
  <2>2. current' \in Record
    BY <2>1 DEF TypeInv, Typed, Record
  <2>3. /\ pending' \in Seq(Record) /\ nextId' \in Nat
        /\ UNCHANGED <<file, saved, known, corrupt, zone, edits, moves>>
    BY <1>2, HeldType DEF AddNew, TypeInv, Typed, files, env
  <2>4. pc' \in Steps \ {"write"}
    BY <1>2, <2>3 DEF AddNew, AfterAdd, Steps
  <2>. QED
    BY <2>2, <2>3, <2>4 DEF TypeInv, Typed, WriteReady
<1>. QED
  BY <1>1, <1>2 DEF Add

LEMMA FlushAllTyped ==
  ASSUME TypeInv, FlushAll PROVE TypeInv'
<1>1. /\ UNCHANGED <<file, saved, known, nextId, corrupt, zone, edits, moves>>
      /\ pending' \in Seq(Record) /\ current' \in Record \cup {None}
      /\ pc' \in {"idle", "save_first"}
  BY HeldType DEF FlushAll, TypeInv, Typed, files
<1>. QED
  BY <1>1 DEF TypeInv, Typed, WriteReady, Steps

LEMMA SaveTyped ==
  ASSUME TypeInv, SaveFirst \/ SaveOnly \/ SaveLast PROVE TypeInv'
<1>1. ASSUME NEW next \in {"append", "idle"}, SaveCheckpoint(next) PROVE TypeInv'
  <2>1. saved' \in Saved \cup {None}
    <3>1. CASE saved' = [records |-> Held, damaged |-> FALSE]
      BY <3>1, HeldType DEF TypeInv, Saved
    <3>2. CASE UNCHANGED saved
      BY <3>2 DEF TypeInv, Typed
    <3>. QED
      BY <1>1, <3>1, <3>2 DEF SaveCheckpoint
  <2>. QED
    BY <1>1, <2>1 DEF SaveCheckpoint, TypeInv, Typed, WriteReady, Steps
<1>. QED
  BY <1>1 DEF SaveFirst, SaveOnly, SaveLast

(* Without a change of the zone a file is read as before.                  *)
LEMMA SameZone ==
  ASSUME UNCHANGED zone
  PROVE  \A k, f : /\ Whole(k, f)' <=> Whole(k, f)
                   /\ Readable(k, f)' <=> Readable(k, f)
                   /\ ReadDay(k, f)' = ReadDay(k, f)
BY DEF Whole, Readable, ReadDay, SoundLength, Acceptable, DayKey

LEMMA OpenTyped ==
  ASSUME TypeInv, AppendOpen PROVE TypeInv'
<1>1. pending # <<>> /\ Existing \in Seq(Record) /\ Key \in Days /\ Front \in Record
      /\ ~Refused
  BY FrontIs, ExistingType DEF AppendOpen, TypeInv
<1>2. CASE UNCHANGED file /\ pc' = "idle"
  BY <1>2 DEF AppendOpen, AppendFails, AppendRest, TypeInv, Typed, WriteReady, Steps
<1>3. CASE pc' = "write"
  <2>1. UNCHANGED <<saved, known, pending, current, nextId, corrupt, zone, edits, moves>>
    BY <1>3 DEF AppendOpen, AppendFails, AppendRest
  <2>2. /\ file' \in [Days -> DayFile \cup {None}] /\ file'[Key] # None
        /\ file'[Key].records = Existing
    <3>1. CASE file[Key] # None /\ ~file[Key].torn
      BY <1>3, <3>1 DEF AppendOpen, AppendFails, TypeInv, Typed, Existing
    <3>2. CASE ~(file[Key] # None /\ ~file[Key].torn)
      <4>1. Write(Existing, Existing = <<>>)
        BY <1>3, <3>2 DEF AppendOpen, AppendFails, CutFile
      <4>2. /\ file' \in [Days -> DayFile \cup {None}]
            /\ file'[Key] = [records |-> Existing, torn |-> (Existing = <<>>)]
        BY <1>1, <4>1, WrittenType DEF TypeInv
      <4>3. file'[Key] \in DayFile
        BY <1>1, <4>2 DEF DayFile
      <4>. QED
        BY <4>2, <4>3, NoneAssumption
    <3>. QED
      BY <3>1, <3>2
  <2>3. Whole(Key, file'[Key])
    <3>1. \A i \in 1 .. Len(Existing) : Acceptable(Key, Existing, i)
      <4>1. CASE file[Key] = None
        BY <4>1 DEF Existing
      <4>2. CASE file[Key] # None
        BY <1>1, <4>2, WholeAcceptable DEF Refused, Existing, TypeInv, Typed
      <4>. QED
        BY <4>1, <4>2
    <3>. QED
      BY <1>1, <2>2, <3>1, WholeAcceptable
  <2>4. Committed \/ LastId(Existing) < Front.id
    BY <1>1, LastIdType, RecordedIs DEF Refused
  <2>5. Typed'
    BY <1>3, <2>1, <2>2 DEF TypeInv, Typed, Steps
  <2>6. /\ Key' = Key /\ Front' = Front /\ Existing' = Existing
        /\ Whole(Key, file[Key])' /\ file'[Key'] # None
    <3>1. Key' = Key /\ Front' = Front
      BY <2>1 DEF Key, Front, DayKey
    <3>2. Whole(Key, file[Key])'
      BY <2>1, <2>3, <3>1, SameZone
    <3>. QED
      BY <1>1, <2>2, <3>1, <3>2 DEF Existing
  <2>7. WriteReady'
    <3>1. Committed' = Committed
      BY <2>6 DEF Committed
    <3>. QED
      BY <1>1, <2>1, <2>4, <2>6, <3>1 DEF WriteReady
  <2>. QED
    BY <2>5, <2>7 DEF TypeInv
<1>. QED
  BY <1>2, <1>3 DEF AppendOpen, AppendFails

(* What a step that writes a record leaves in the files.                   *)
LEMMA RecordWritten ==
  ASSUME TypeInv, AppendRecord
  PROVE  /\ pending # <<>> /\ Key \in Days /\ Front \in Record /\ Existing \in Seq(Record)
         /\ LastId(Existing) < Front.id /\ ~Committed
         /\ file' \in [Days -> DayFile \cup {None}]
         /\ file'[Key] # None
         /\ \A k \in Days \ {Key} : file'[k] = file[k]
         /\ \/ file'[Key].records = Append(Existing, Front)
            \/ file'[Key].records = Existing /\ AppendFails
<1>1. /\ pending # <<>> /\ Key \in Days /\ Front \in Record /\ Existing \in Seq(Record)
      /\ LastId(Existing) < Front.id /\ ~Committed /\ file[Key] # None
  BY FrontIs, ExistingType DEF AppendRecord, TypeInv, WriteReady
<1>2. Append(Existing, Front) \in Seq(Record)
  BY <1>1
<1>4. CASE Write(Append(Existing, Front), FALSE)
  BY <1>1, <1>2, <1>4, WrittenType DEF TypeInv
<1>5. CASE Write(Existing, TRUE) /\ AppendFails
  BY <1>1, <1>5, WrittenType DEF TypeInv
<1>6. CASE UNCHANGED file /\ AppendFails
  BY <1>1, <1>6 DEF TypeInv, Typed, Existing
<1>. QED
  BY <1>4, <1>5, <1>6 DEF AppendRecord

(* What an append does, whether it writes or finds its record committed.   *)
LEMMA RefreshedTyped ==
  ASSUME TypeInv, AppendSkip \/ AppendRecord
  PROVE  /\ TypeInv'
         /\ Key \in Days /\ pending # <<>>
         /\ known'[Key] = ReadDay(Key, file'[Key]) /\ file'[Key] # None
         /\ \A k \in Days \ {Key} : known'[k] = known[k]
<1>1. /\ pending # <<>> /\ Key \in Days
      /\ file' \in [Days -> DayFile \cup {None}] /\ file'[Key] # None
      /\ RefreshDay(Key)
      /\ UNCHANGED <<saved, current, nextId, corrupt, zone, edits, moves>>
  BY RecordWritten, FrontIs DEF AppendSkip, AppendRecord, AppendRest, TypeInv, Typed, WriteReady
<1>2. /\ known' \in [Days -> Known \cup {None}]
      /\ known'[Key] = ReadDay(Key, file'[Key])
      /\ \A k \in Days \ {Key} : known'[k] = known[k]
  BY <1>1, RefreshType DEF TypeInv, Typed
<1>3. pending' \in Seq(Record) /\ pc' \in {"append", "idle"}
  <2>1. pending \in Seq(Record) /\ Tail(pending) \in Seq(Record)
    BY <1>1 DEF TypeInv, Typed
  <2>2. Appended \/ AppendFails
    BY DEF AppendSkip, AppendRecord
  <2>. QED
    BY <2>1, <2>2 DEF Appended, AppendFails
<1>. QED
  BY <1>1, <1>2, <1>3 DEF TypeInv, Typed, WriteReady, Steps

(* What a query, a death, damage and the steps without files do.           *)
LEMMA QueryTyped ==
  ASSUME TypeInv, Query
  PROVE  /\ TypeInv'
         /\ UNCHANGED <<file, saved, pending, current, nextId, corrupt, pc, zone, edits, moves, ghosts>>
         /\ pc = "idle"
         /\ \E k \in Days : /\ file[k] # None
                            /\ known'[k] = ReadDay(k, file[k])
                            /\ \A l \in Days \ {k} : known'[l] = known[l]
<1>1. PICK k \in Days : file[k] # None /\ UNCHANGED file /\ RefreshDay(k)
  BY DEF Query
<1>2. /\ known' \in [Days -> Known \cup {None}]
      /\ known'[k] = ReadDay(k, file'[k])
      /\ \A l \in Days \ {k} : known'[l] = known[l]
  BY <1>1, RefreshType DEF TypeInv, Typed
<1>3. UNCHANGED <<file, saved, pending, current, nextId, corrupt, pc, zone, edits, moves, ghosts>>
      /\ pc = "idle"
  BY <1>1 DEF Query, env
<1>. QED
  BY <1>1, <1>2, <1>3 DEF TypeInv, Typed, WriteReady

LEMMA CrashTyped ==
  ASSUME TypeInv, Crash
  PROVE  /\ TypeInv'
         /\ \A k \in Days : \/ file'[k] = file[k]
                            \/ /\ pc = "write" /\ k = Key /\ file'[k] # None
                               /\ file'[k].records = Existing
<1>1. <<>> \in Seq(Record)
  BY EmptySeq
<1>2. /\ file' \in [Days -> DayFile \cup {None}]
      /\ \A k \in Days : \/ file'[k] = file[k]
                         \/ /\ pc = "write" /\ k = Key /\ file'[k] # None
                            /\ file'[k].records = Existing
  <2>1. CASE UNCHANGED file
    BY <2>1 DEF TypeInv, Typed
  <2>2. CASE pc = "write" /\ Write(Existing, TRUE)
    <3>1. pending # <<>> /\ Existing \in Seq(Record)
      BY <2>2, ExistingType DEF TypeInv, WriteReady
    <3>. QED
      BY <2>2, <3>1, WrittenType DEF TypeInv
  <2>. QED
    BY <2>1, <2>2 DEF Crash
<1>. QED
  BY <1>1, <1>2 DEF Crash, TypeInv, Typed, WriteReady, Steps

LEMMA DamageTyped ==
  ASSUME TypeInv, Damage PROVE TypeInv'
<1>1. /\ UNCHANGED <<known, pending, current, nextId, corrupt, pc, zone, moves>>
      /\ edits' \in Nat /\ pc = "down"
  BY DEF Damage, members, TypeInv, Typed
<1>2. file' \in [Days -> DayFile \cup {None}] /\ saved' \in Saved \cup {None}
  <2>1. CASE /\ saved # None /\ saved.records # <<>> /\ UNCHANGED file
             /\ saved' = [records |-> SubSeq(saved.records, 1, Len(saved.records) - 1), damaged |-> TRUE]
    <3>1. saved.records \in Seq(Record)
      BY <2>1 DEF TypeInv, Typed, Saved
    <3>2. SubSeq(saved.records, 1, Len(saved.records) - 1) \in Seq(Record)
      BY <3>1
    <3>. QED
      BY <2>1, <3>2 DEF TypeInv, Typed, Saved
  <2>2. ASSUME NEW k \in Days, file[k] # None, file[k].records # <<>>, UNCHANGED saved,
               file' = [file EXCEPT ![k].records[Len(file[k].records)].id = 0]
        PROVE  file' \in [Days -> DayFile \cup {None}] /\ saved' \in Saved \cup {None}
    <3> DEFINE n == Len(file[k].records)
               r == [file[k].records[n] EXCEPT !.id = 0]
    <3>1. file[k] \in DayFile /\ file[k].records \in Seq(Record) /\ n \in 1 .. n
      BY <2>2 DEF TypeInv, Typed, DayFile
    <3>2. r \in Record
      <4>1. ASSUME NEW e \in Record PROVE [e EXCEPT !.id = 0] \in Record
        BY DEF Record
      <4>2. file[k].records[n] \in Record
        BY <3>1
      <4>. QED
        BY <4>1, <4>2
    <3>3. [file[k].records EXCEPT ![n] = r] \in Seq(Record)
      <4>. HIDE DEF r
      <4>. QED
        BY <3>1, <3>2, ExceptSeq
    <3>4. [file[k] EXCEPT !.records = [file[k].records EXCEPT ![n] = r]] \in DayFile
      BY <3>1, <3>3 DEF DayFile
    <3>5. file' = [file EXCEPT ![k] = [file[k] EXCEPT !.records = [file[k].records EXCEPT ![n] = r]]]
      BY <2>2
    <3>. QED
      BY <2>2, <3>4, <3>5 DEF TypeInv, Typed
  <2>. QED
    BY <2>1, <2>2 DEF Damage
<1>. QED
  BY <1>1, <1>2 DEF TypeInv, Typed, WriteReady

LEMMA OtherTyped ==
  ASSUME TypeInv, AppendRefused \/ AppendDone \/ ChangeZone \/ UNCHANGED vars
  PROVE  /\ TypeInv' /\ UNCHANGED <<file, saved, known, pending, current, nextId, corrupt, edits, ghosts>>
         /\ UNCHANGED zone \/ (pc \in {"idle", "down"} /\ UNCHANGED pc)
<1>1. CASE AppendRefused
  BY <1>1 DEF AppendRefused, AppendRest, TypeInv, Typed, WriteReady, Steps, files
<1>2. CASE AppendDone
  BY <1>2 DEF AppendDone, TypeInv, Typed, WriteReady, Steps, files, members, env
<1>3. CASE ChangeZone
  BY <1>3 DEF ChangeZone, TypeInv, Typed, WriteReady, files, members
<1>4. CASE UNCHANGED vars
  <2>1. UNCHANGED <<file, saved, known, pending, current, nextId, corrupt, edits, ghosts, zone, pc, moves>>
    BY <1>4 DEF vars, files, members, env
  <2>2. Key' = Key /\ Front' = Front /\ Existing' = Existing /\ Committed' = Committed
    BY <2>1 DEF Key, Front, Existing, Committed, DayKey
  <2>3. WriteReady'
    BY <2>1, <2>2, SameZone DEF TypeInv, WriteReady
  <2>. QED
    BY <2>1, <2>3 DEF TypeInv, Typed
<1>. QED
  BY <1>1, <1>2, <1>3, <1>4

(* Every step keeps TypeInv.                                               *)
LEMMA TypedStep == TypeInv /\ [Next]_vars => TypeInv'
<1>. QED
  BY InitializeTyped, AddTyped, FlushAllTyped, SaveTyped, OpenTyped, RefreshedTyped, QueryTyped,
     CrashTyped, DamageTyped, OtherTyped DEF Next, Flush

-----------------------------------------------------------------------------
(* What others damaged.  With a damaged pending.tsv no call gets as far as *)
(* saving; a day file with a damaged record is not written to.             *)
DamageInv == DamagedQueue => pc \in {"idle", "down"} /\ (pc = "idle" => corrupt)

(* Every step keeps DamageInv.                                             *)
LEMMA DamageStep == DamageInv /\ TypeInv /\ [Next]_vars => DamageInv'
<1> SUFFICES ASSUME DamageInv, TypeInv, [Next]_vars PROVE DamageInv'
  OBVIOUS
<1>1. CASE Initialize
  BY <1>1 DEF Initialize, DamageInv, DamagedQueue
<1>2. CASE Add
  BY <1>2 DEF Add, AddMerge, AddNew, AfterAdd, DamageInv, DamagedQueue, files
<1>3. CASE FlushAll
  BY <1>3 DEF FlushAll, DamageInv, DamagedQueue, files
<1>4. CASE SaveFirst \/ SaveOnly \/ SaveLast
  BY <1>4 DEF SaveFirst, SaveOnly, SaveLast, SaveCheckpoint, DamageInv, DamagedQueue
<1>5. CASE AppendOpen \/ AppendSkip \/ AppendRecord \/ AppendRefused \/ AppendDone
  BY <1>5 DEF AppendOpen, AppendSkip, AppendRecord, AppendRefused, AppendDone, AppendRest, DamageInv,
              DamagedQueue, files
<1>6. CASE Query \/ Crash
  BY <1>6, QueryTyped DEF Crash, DamageInv, DamagedQueue
<1>7. CASE Damage
  BY <1>7 DEF Damage, DamageInv, DamagedQueue
<1>8. CASE ChangeZone \/ UNCHANGED vars
  BY <1>8 DEF ChangeZone, vars, files, members, DamageInv, DamagedQueue
<1>. QED
  BY <1>1, <1>2, <1>3, <1>4, <1>5, <1>6, <1>7, <1>8 DEF Next, Flush

(* A file with a record of identity 0 is not whole.                        *)
LEMMA DamagedNotWhole ==
  ASSUME NEW k, NEW f \in DayFile, NEW n \in 1 .. Len(f.records), f.records[n].id = 0
  PROVE  ~Whole(k, f)
<1>1. f.records \in Seq(Record)
  BY DEF DayFile
<1>2. ASSUME Acceptable(k, f.records, n) PROVE FALSE
  <2>1. CASE n = 1
    BY <1>2, <2>1 DEF Acceptable
  <2>2. CASE n # 1
    <3>1. n - 1 \in 1 .. Len(f.records)
      BY <1>1, <2>2
    <3>2. f.records[n - 1].id \in Nat
      BY <1>1, <3>1, RecordedIs
    <3>. QED
      BY <1>2, <2>2, <3>2 DEF Acceptable
  <2>. QED
    BY <2>1, <2>2
<1>. QED
  BY <1>2, WholeAcceptable

(* No step writes a file that holds a line the store could not read.       *)
LEMMA DamageLeft ==
  ASSUME TypeInv, DamageInv, [Next]_vars, edits' = edits
  PROVE  /\ (saved # None /\ saved.damaged) => saved' = saved
         /\ \A k \in Days :
              (file[k] # None /\ \E n \in 1..Len(file[k].records) : file[k].records[n].id = 0)
                => file'[k] = file[k]
<1>1. CASE UNCHANGED <<file, saved>>
  BY <1>1
<1>2. CASE Initialize \/ Add \/ FlushAll \/ Query \/ AppendRefused \/ AppendDone \/ ChangeZone
           \/ UNCHANGED vars
  BY <1>1, <1>2, QueryTyped DEF Initialize, Add, AddMerge, AddNew, FlushAll, AppendRefused, AppendDone,
     ChangeZone, AppendRest, vars, files
<1>3. CASE SaveFirst \/ SaveOnly \/ SaveLast
  <2>1. ~DamagedQueue /\ UNCHANGED file
    BY <1>3 DEF DamageInv, SaveFirst, SaveOnly, SaveLast, SaveCheckpoint
  <2>. QED
    BY <2>1 DEF DamagedQueue
<1>4. CASE AppendSkip
  BY <1>1, <1>4 DEF AppendSkip, AppendRest
<1>5. ASSUME UNCHANGED saved, Key \in Days, \A k \in Days \ {Key} : file'[k] = file[k],
             file[Key] # None => Whole(Key, file[Key])
      PROVE  /\ (saved # None /\ saved.damaged) => saved' = saved
             /\ \A k \in Days :
                  (file[k] # None /\ \E n \in 1..Len(file[k].records) : file[k].records[n].id = 0)
                    => file'[k] = file[k]
  BY <1>5, DamagedNotWhole DEF TypeInv, Typed
<1>6. CASE AppendOpen
  <2>1. pending # <<>> /\ Key \in Days /\ Existing \in Seq(Record) /\ UNCHANGED saved
    BY <1>6, FrontIs, ExistingType DEF AppendOpen, AppendRest, TypeInv
  <2>2. UNCHANGED file \/ Write(Existing, Existing = <<>>)
    BY <1>6 DEF AppendOpen, CutFile
  <2>3. \A k \in Days \ {Key} : file'[k] = file[k]
    BY <2>1, <2>2, WrittenType DEF TypeInv
  <2>4. file[Key] # None => Whole(Key, file[Key])
    BY <1>6 DEF AppendOpen, Refused
  <2>. QED
    BY <1>5, <2>1, <2>3, <2>4
<1>7. CASE AppendRecord
  BY <1>5, <1>7, RecordWritten DEF AppendRecord, AppendRest, TypeInv, WriteReady
<1>8. CASE Crash
  <2>1. UNCHANGED saved
    BY <1>8 DEF Crash
  <2>2. CASE pc = "write"
    <3>1. pending # <<>> /\ Key \in Days /\ Whole(Key, file[Key])
      BY <2>2, FrontIs DEF TypeInv, WriteReady
    <3>. QED
      BY <1>5, <1>8, <2>1, <3>1, CrashTyped
  <2>3. CASE pc # "write"
    BY <1>8, <2>1, <2>3, CrashTyped
  <2>. QED
    BY <2>2, <2>3
<1>9. CASE Damage
  BY <1>9 DEF Damage, TypeInv, Typed
<1>. QED
  BY <1>2, <1>3, <1>4, <1>6, <1>7, <1>8, <1>9 DEF Next, Flush

(* A damaged pending.tsv and a damaged day file stay as they are, for any  *)
(* number of damaged files, failing writes, deaths and moves of the zone.  *)
THEOREM LeavesDamage == Spec => DamagedKept
<1>1. Init => TypeInv /\ DamageInv
  BY TypedStart DEF Init, DamageInv, DamagedQueue
<1>2. TypeInv /\ DamageInv /\ [Next]_vars => (TypeInv /\ DamageInv)'
  BY TypedStep, DamageStep
<1>3. TypeInv /\ DamageInv /\ [Next]_vars =>
        [edits' = edits =>
           /\ (saved # None /\ saved.damaged) => saved' = saved
           /\ \A k \in Days :
                (file[k] # None /\ \E n \in 1..Len(file[k].records) : file[k].records[n].id = 0)
                  => file'[k] = file[k]]_vars
  BY DamageLeft
<1>. QED
  BY <1>1, <1>2, <1>3, PTL DEF Spec, DamagedKept

-----------------------------------------------------------------------------
(* The records of the day files, and what a step does to them.             *)
Recs == [k \in Days |-> IF file[k] = None THEN <<>> ELSE file[k].records]

InFiles == UNION {PartsOf(file[k].records) : k \in {d \in Days : file[d] # None}}

(* The records of the day files, and the intervals in them.                *)
LEMMA RecsType ==
  ASSUME Typed
  PROVE  Recs \in [Days -> Seq(Record)] /\ (pending # <<>> => Existing = Recs[Key])
<1>1. \A k \in Days : file[k] # None => file[k].records \in Seq(Record)
  BY DEF Typed, DayFile
<1>. QED
  BY <1>1, FrontIs DEF Recs, Existing

LEMMA RecsNext == (Typed => Recs \in [Days -> Seq(Record)])'
<1>1. Typed => Recs \in [Days -> Seq(Record)]
  BY RecsType
<1>. QED
  BY <1>1, PTL

LEMMA PartsIn ==
  ASSUME NEW q, NEW i
  PROVE  i \in PartsOf(q) <=> \E n \in 1 .. Len(q) : i \in q[n].parts
BY DEF PartsOf

LEMMA InFilesAre ==
  \A i : i \in InFiles <=> \E k \in Days : \E n \in 1 .. Len(Recs[k]) : i \in Recs[k][n].parts
<1> SUFFICES ASSUME NEW i
    PROVE i \in InFiles <=> \E k \in Days : \E n \in 1 .. Len(Recs[k]) : i \in Recs[k][n].parts
  OBVIOUS
<1>1. i \in InFiles <=> \E k \in Days : file[k] # None /\ i \in PartsOf(file[k].records)
  BY DEF InFiles
<1>2. \A k \in Days : Len(Recs[k]) # 0 \/ ~\E n \in 1 .. Len(Recs[k]) : TRUE
  OBVIOUS
<1>3. \A k \in Days : file[k] = None => Recs[k] = <<>>
  BY DEF Recs
<1>4. \A k \in Days : file[k] # None => Recs[k] = file[k].records
  BY DEF Recs
<1>. QED
  BY <1>1, <1>3, <1>4, PartsIn

LEMMA InFilesNext ==
  (\A i : i \in InFiles <=> \E k \in Days : \E n \in 1 .. Len(Recs[k]) : i \in Recs[k][n].parts)'
BY InFilesAre, PTL

(* The day files change by one record at a time.                           *)
LEMMA FileStep ==
  ASSUME TypeInv, [Next]_vars, edits' = edits
  PROVE  \/ Recs' = Recs
         \/ /\ AppendRecord
            /\ \A k \in Days \ {Key} : Recs'[k] = Recs[k]
            /\ Recs'[Key] = Append(Recs[Key], Front)
<1>1. CASE UNCHANGED file
  BY <1>1 DEF Recs
<1>2. ASSUME \A k \in Days : \/ file'[k] = file[k]
                             \/ k = Key /\ file'[k] # None /\ file'[k].records = Existing,
             pending # <<>>
      PROVE  Recs' = Recs
  <2>1. Existing = Recs[Key]
    BY <1>2, RecsType DEF TypeInv
  <2>2. \A k \in Days : Recs'[k] = Recs[k]
    BY <1>2, <2>1 DEF Recs
  <2>. QED
    BY <2>2 DEF Recs
<1>3. CASE Initialize \/ Add \/ FlushAll \/ Query \/ AppendRefused \/ AppendDone \/ ChangeZone
           \/ UNCHANGED vars
  BY <1>1, <1>3, QueryTyped DEF Initialize, Add, AddMerge, AddNew, FlushAll, AppendRefused, AppendDone,
     ChangeZone, AppendRest, vars, files
<1>4. CASE SaveFirst \/ SaveOnly \/ SaveLast \/ AppendSkip
  BY <1>1, <1>4 DEF SaveFirst, SaveOnly, SaveLast, SaveCheckpoint, AppendSkip
<1>5. CASE AppendOpen
  <2>1. pending # <<>> /\ Existing \in Seq(Record)
    BY <1>5, ExistingType DEF AppendOpen, TypeInv
  <2>2. UNCHANGED file \/ Write(Existing, Existing = <<>>)
    BY <1>5 DEF AppendOpen, CutFile
  <2>3. \A k \in Days : \/ file'[k] = file[k]
                        \/ k = Key /\ file'[k] # None /\ file'[k].records = Existing
    BY <2>1, <2>2, WrittenType DEF TypeInv
  <2>. QED
    BY <1>2, <2>1, <2>3
<1>6. CASE AppendRecord
  <2>1. CASE file'[Key].records = Existing
    BY <1>2, <1>6, <2>1, RecordWritten
  <2>2. CASE file'[Key].records = Append(Existing, Front)
    <3>1. \A k \in Days \ {Key} : Recs'[k] = Recs[k]
      BY <1>6, RecordWritten DEF Recs
    <3>2. Recs'[Key] = Append(Recs[Key], Front)
      BY <1>6, <2>2, RecordWritten, RecsType DEF Recs, TypeInv
    <3>. QED
      BY <1>6, <3>1, <3>2
  <2>. QED
    BY <1>6, <2>1, <2>2, RecordWritten
<1>7. CASE Crash
  <2>1. CASE pc = "write"
    BY <1>2, <1>7, <2>1, CrashTyped DEF TypeInv, WriteReady
  <2>2. CASE pc # "write"
    BY <1>1, <1>7, <2>2, CrashTyped DEF Crash
  <2>. QED
    BY <2>1, <2>2
<1>8. CASE Damage
  BY <1>8 DEF Damage, TypeInv, Typed
<1>. QED
  BY <1>3, <1>4, <1>5, <1>6, <1>7, <1>8 DEF Next, Flush

(* An interval in the files stays there, and comes there from what is      *)
(* held.                                                                   *)
LEMMA FilesGrow ==
  ASSUME TypeInv, [Next]_vars, edits' = edits
  PROVE  /\ InFiles \subseteq InFiles'
         /\ InFiles' \subseteq InFiles \cup PartsOf(Held)
         /\ InFiles' # InFiles => AppendRecord
<1>1. CASE Recs' = Recs
  BY <1>1, InFilesAre, InFilesNext
<1>2. CASE /\ AppendRecord
           /\ \A k \in Days \ {Key} : Recs'[k] = Recs[k]
           /\ Recs'[Key] = Append(Recs[Key], Front)
  <2>1. /\ Key \in Days /\ Recs[Key] \in Seq(Record) /\ Front \in Record /\ pending # <<>>
    BY <1>2, RecordWritten, RecsType DEF TypeInv
  <2>2. Front.parts \subseteq PartsOf(Held)
    <3>1. Front = pending[1] /\ pending \in Seq(Record) /\ 1 \in 1 .. Len(pending)
      BY <2>1, FrontIs DEF TypeInv, Typed
    <3>2. 1 \in 1 .. Len(Held) /\ Held[1] = Front
      BY <3>1, HeldType DEF TypeInv, Typed
    <3>. QED
      BY <3>2, PartsIn
  <2>3. /\ Len(Recs'[Key]) = Len(Recs[Key]) + 1 /\ Len(Recs[Key]) \in Nat
        /\ Recs'[Key][Len(Recs[Key]) + 1] = Front
        /\ \A n \in 1 .. Len(Recs[Key]) : Recs'[Key][n] = Recs[Key][n]
    BY <1>2, <2>1
  <2>4. \A i : (\E n \in 1 .. Len(Recs'[Key]) : i \in Recs'[Key][n].parts)
                 <=> i \in Front.parts \/ \E n \in 1 .. Len(Recs[Key]) : i \in Recs[Key][n].parts
    BY <2>3
  <2>5. \A i : i \in InFiles' <=> i \in InFiles \/ i \in Front.parts
    BY <1>2, <2>1, <2>4, InFilesAre, InFilesNext
  <2>. QED
    BY <1>2, <2>2, <2>5
<1>. QED
  BY <1>1, <1>2, FileStep

-----------------------------------------------------------------------------
(* What was saved.  Nothing leaves pending.tsv that is not in a day file,  *)
(* and nothing leaves the queue before it is.                              *)
KeptInv ==
  edits = 0 =>
    /\ durable \subseteq PartsOf(Recovered) \cup InFiles
    /\ pc # "down" => PartsOf(Recovered) \subseteq PartsOf(Held) \cup InFiles

(* The intervals in the queue and the current record.                      *)
LEMMA HeldParts ==
  ASSUME Typed
  PROVE  PartsOf(Held) = PartsOf(pending) \cup (IF current = None THEN {} ELSE current.parts)
<1>1. CASE current = None
  BY <1>1, HeldType
<1>2. CASE current # None
  <2>1. Held = Append(pending, current) /\ pending \in Seq(Record)
    BY <1>2, HeldType DEF Typed
  <2>2. /\ Len(Held) = Len(pending) + 1 /\ Len(pending) \in Nat
        /\ Held[Len(pending) + 1] = current
        /\ \A n \in 1 .. Len(pending) : Held[n] = pending[n]
    BY <2>1
  <2>3. \A i : i \in PartsOf(Held) <=> i \in PartsOf(pending) \/ i \in current.parts
    BY <2>2 DEF PartsOf
  <2>. QED
    BY <1>2, <2>3
<1>. QED
  BY <1>1, <1>2

LEMMA TailParts ==
  ASSUME Typed, pending # <<>>
  PROVE  PartsOf(pending) \subseteq PartsOf(Tail(pending)) \cup Front.parts
<1>1. pending \in Seq(Record)
  BY DEF Typed
<1>2. /\ Len(Tail(pending)) = Len(pending) - 1 /\ Len(pending) \in Nat
      /\ \A n \in 1 .. Len(pending) - 1 : Tail(pending)[n] = pending[n + 1]
  BY <1>1
<1>3. ASSUME NEW n \in 1 .. Len(pending), n # 1
      PROVE  n - 1 \in 1 .. Len(Tail(pending)) /\ Tail(pending)[n - 1] = pending[n]
  BY <1>2, <1>3
<1>4. \A n \in 1 .. Len(pending) : n = 1 \/ pending[n].parts \subseteq PartsOf(Tail(pending))
  BY <1>3 DEF PartsOf
<1>. QED
  BY <1>4, FrontIs DEF PartsOf

(* The queue and the current record after a step.                          *)
LEMMA HeldStep ==
  ASSUME TypeInv, [Next]_vars, edits' = edits, pc # "down", pc' # "down"
  PROVE  PartsOf(Held) \subseteq PartsOf(Held)' \cup InFiles'
<1>1. CASE UNCHANGED <<pending, current>>
  BY <1>1 DEF Held
<1>2. Typed /\ Typed'
  BY TypedStep DEF TypeInv
<1>3. CASE Add
  <2>1. ASSUME NEW bytes \in SUBSET Intervals, AddMerge(bytes)
        PROVE  PartsOf(Held) \subseteq PartsOf(Held)'
    <3>1. /\ pending' = pending /\ current # None
          /\ current' = [current EXCEPT !.parts = @ \cup bytes]
      BY <2>1 DEF AddMerge
    <3>2. current' # None /\ current.parts \subseteq current'.parts
      BY <1>2, <3>1, NoneAssumption DEF Typed, Record
    <3>3. Held = Append(pending, current) /\ Held' = Append(pending, current')
      BY <1>2, <3>1, <3>2 DEF Held, Typed
    <3>. QED
      BY <1>2, <3>1, <3>2, <3>3 DEF Typed, PartsOf
  <2>2. ASSUME NEW bytes \in SUBSET Intervals, AddNew(bytes)
        PROVE  PartsOf(Held) \subseteq PartsOf(Held)'
    <3>1. pending' = Held /\ current' # None
      <4>1. PICK m \in Minutes : current' = [id |-> nextId, minute |-> m, parts |-> bytes]
        BY <2>2 DEF AddNew
      <4>2. [id |-> nextId, minute |-> m, parts |-> bytes] \in Record
        BY <1>2 DEF Typed, Record
      <4>. QED
        BY <2>2, <4>1, <4>2, NoneAssumption DEF AddNew
    <3>2. Held' = Append(Held, current')
      BY <1>2, <3>1 DEF Held, Typed
    <3>. QED
      BY <1>2, <3>1, <3>2, HeldType DEF PartsOf
  <2>. QED
    BY <1>3, <2>1, <2>2 DEF Add
<1>4. CASE FlushAll
  <2>1. CASE pending' = Held /\ current' = None
    <3>1. Held' = pending'
      BY <1>2, <2>1 DEF Held, Typed
    <3>. QED
      BY <2>1, <3>1
  <2>. QED
    BY <1>1, <1>4, <2>1 DEF FlushAll
<1>5. CASE AppendSkip \/ AppendRecord
  <2>1. UNCHANGED current /\ pending # <<>>
    BY <1>5, RefreshedTyped DEF AppendSkip, AppendRecord, AppendRest
  <2>2. CASE Appended
    <3>1. pending' = Tail(pending) /\ Key \in Days
      BY <2>1, <2>2, FrontIs DEF Appended, TypeInv
    <3>2. Front.parts \subseteq InFiles'
      <4>1. CASE AppendSkip
        <5>1. Committed /\ Recs' = Recs
          BY <4>1 DEF AppendSkip, Recs
        <5>2. \E n \in 1 .. Len(Recs'[Key]) : Recs'[Key][n] = Front
          BY <2>1, <5>1, RecsType DEF Committed, TypeInv
        <5>. QED
          BY <3>1, <5>2, InFilesNext
      <4>2. CASE AppendRecord
        <5>1. file'[Key].records = Append(Existing, Front) \/ AppendFails
          BY <4>2, RecordWritten
        <5>2. ~AppendFails
          BY <2>2, <3>1 DEF Appended, AppendFails
        <5>3. file'[Key] # None /\ Existing \in Seq(Record) /\ Front \in Record
          BY <4>2, RecordWritten
        <5>4. Recs'[Key] = Append(Existing, Front)
          BY <3>1, <5>1, <5>2, <5>3 DEF Recs
        <5>5. Recs'[Key][Len(Existing) + 1] = Front /\ Len(Existing) + 1 \in 1 .. Len(Recs'[Key])
          BY <5>3, <5>4
        <5>. QED
          BY <3>1, <5>5, InFilesNext
      <4>. QED
        BY <1>5, <4>1, <4>2
    <3>3. PartsOf(Held)' = PartsOf(pending') \cup (IF current' = None THEN {} ELSE current'.parts)
      <4>1. Held' = pending' \o (IF current' = None THEN <<>> ELSE <<current'>>)
        BY DEF Held
      <4>2. pending' \in Seq(Record) /\ current' \in Record \cup {None}
        BY <1>2 DEF Typed
      <4>. QED
        BY <4>1, <4>2 DEF PartsOf
    <3>. QED
      BY <1>2, <2>1, <3>1, <3>2, <3>3, HeldParts, TailParts
  <2>3. CASE AppendFails
    BY <1>1, <2>1, <2>3 DEF AppendFails
  <2>. QED
    BY <1>5, <2>2, <2>3 DEF AppendSkip, AppendRecord
<1>6. CASE SaveFirst \/ SaveOnly \/ SaveLast \/ AppendRefused \/ AppendOpen \/ AppendDone
           \/ Query \/ ChangeZone \/ UNCHANGED vars
  BY <1>1, <1>6, QueryTyped DEF SaveFirst, SaveOnly, SaveLast, SaveCheckpoint, AppendRefused, AppendOpen,
     AppendFails, AppendDone, AppendRest, ChangeZone, members, vars
<1>7. ~Initialize /\ ~Crash /\ ~Damage
  BY DEF Initialize, Crash, Damage
<1>. QED
  BY <1>3, <1>4, <1>5, <1>6, <1>7 DEF Next, Flush

(* What others do to the store is counted.                                 *)
LEMMA EditsGrow ==
  ASSUME TypeInv, [Next]_vars
  PROVE  /\ edits' = 0 => edits = 0 /\ edits' = edits
         /\ moves' = 0 => moves = 0 /\ moves' = moves /\ UNCHANGED zone
<1>1. edits \in Nat /\ moves \in Nat
  BY DEF TypeInv, Typed
<1>2. CASE Damage
  BY <1>1, <1>2 DEF Damage
<1>3. CASE ChangeZone
  BY <1>1, <1>3 DEF ChangeZone
<1>4. CASE Query
  BY <1>4, QueryTyped
<1>5. CASE Initialize \/ Add \/ FlushAll \/ SaveFirst \/ SaveOnly \/ SaveLast \/ AppendRefused
           \/ AppendOpen \/ AppendSkip \/ AppendRecord \/ AppendDone \/ Crash \/ UNCHANGED vars
  BY <1>5 DEF Initialize, Add, AddMerge, AddNew, FlushAll, SaveFirst, SaveOnly, SaveLast,
     SaveCheckpoint, AppendRefused, AppendOpen, AppendSkip, AppendRecord, AppendDone, AppendRest, Crash,
     vars, env
<1>. QED
  BY <1>2, <1>3, <1>4, <1>5 DEF Next, Flush

(* What a step writes to pending.tsv.                                      *)
LEMMA SavedStep ==
  ASSUME TypeInv, [Next]_vars, edits' = edits
  PROVE  \/ UNCHANGED <<saved, durable>>
         \/ /\ saved' = [records |-> Held, damaged |-> FALSE] /\ Recovered' = Held
            /\ durable' = durable \cup PartsOf(Held)
            /\ UNCHANGED <<file, pending, current, nextId, known, zone, added>>
            /\ pc # "down" /\ pc' \in {"append", "idle"}
<1>1. ASSUME NEW next \in {"append", "idle"}, SaveCheckpoint(next), pc # "down",
             saved' = [records |-> Held, damaged |-> FALSE], durable' = durable \cup PartsOf(Held)
      PROVE  /\ saved' = [records |-> Held, damaged |-> FALSE] /\ Recovered' = Held
             /\ durable' = durable \cup PartsOf(Held)
             /\ UNCHANGED <<file, pending, current, nextId, known, zone, added>>
             /\ pc # "down" /\ pc' \in {"append", "idle"}
  <2>1. saved' # None
    <3>1. [records |-> Held, damaged |-> FALSE] \in Saved
      BY HeldType DEF TypeInv, Saved
    <3>. QED
      BY <1>1, <3>1, NoneAssumption
  <2>. QED
    BY <1>1, <2>1 DEF SaveCheckpoint, Recovered
<1>2. CASE SaveFirst \/ SaveOnly \/ SaveLast
  BY <1>1, <1>2 DEF SaveFirst, SaveOnly, SaveLast, SaveCheckpoint
<1>3. CASE Initialize \/ Add \/ FlushAll \/ AppendRefused \/ AppendOpen \/ AppendSkip \/ AppendRecord
           \/ AppendDone \/ Crash \/ ChangeZone \/ UNCHANGED vars
  BY <1>3 DEF Initialize, Add, AddMerge, AddNew, FlushAll, AppendRefused, AppendOpen, AppendSkip,
     AppendRecord, AppendDone, AppendRest, Crash, ChangeZone, vars, files, ghosts
<1>5. ~Damage
  BY DEF Damage, TypeInv, Typed
<1>4. CASE Query
  BY <1>4, QueryTyped DEF ghosts
<1>. QED
  BY <1>2, <1>3, <1>4, <1>5 DEF Next, Flush

(* Every step keeps KeptInv.                                               *)
LEMMA KeptStep == TypeInv /\ KeptInv /\ [Next]_vars => KeptInv'
<1> SUFFICES ASSUME TypeInv, KeptInv, [Next]_vars, edits' = 0
             PROVE  /\ durable' \subseteq PartsOf(Recovered)' \cup InFiles'
                    /\ pc' # "down" => PartsOf(Recovered)' \subseteq PartsOf(Held)' \cup InFiles'
  BY DEF KeptInv
<1>1. edits = 0 /\ edits' = edits
  BY EditsGrow
<1>2. /\ durable \subseteq PartsOf(Recovered) \cup InFiles
      /\ pc # "down" => PartsOf(Recovered) \subseteq PartsOf(Held) \cup InFiles
      /\ InFiles \subseteq InFiles'
  BY <1>1, FilesGrow DEF KeptInv
<1>3. CASE UNCHANGED <<saved, durable>>
  <2>1. Recovered' = Recovered
    BY <1>3 DEF Recovered
  <2>2. CASE pc # "down"
    BY <1>1, <1>2, <1>3, <2>1, <2>2, HeldStep
  <2>3. CASE pc = "down" /\ pc' # "down"
    <3>1. Initialize
      BY <2>3, QueryTyped DEF Next, Flush, Add, AddMerge, AddNew, FlushAll, SaveFirst, SaveOnly, SaveLast,
         AppendRefused, AppendOpen, AppendSkip, AppendRecord, AppendDone, Crash, Damage, ChangeZone, vars
    <3>2. Held' = Recovered
      <4>1. pending' = Recovered /\ current' = None /\ Recovered \in Seq(Record)
        BY <3>1, RecoveredType DEF Initialize, TypeInv
      <4>. QED
        BY <4>1 DEF Held
    <3>. QED
      BY <1>2, <1>3, <2>1, <3>2
  <2>. QED
    BY <1>2, <1>3, <2>1, <2>2, <2>3
<1>4. CASE /\ Recovered' = Held /\ durable' = durable \cup PartsOf(Held)
           /\ UNCHANGED <<file, pending, current>> /\ pc # "down"
  <2>1. Held' = Held
    BY <1>4 DEF Held
  <2>. QED
    BY <1>2, <1>4, <2>1
<1>. QED
  BY <1>1, <1>3, <1>4, SavedStep

(* An interval that was ever saved stays on disk, for any number of        *)
(* failing writes, deaths and moves of the time zone.                      *)
THEOREM KeepsSaved == Spec => []DurableKept
<1>1. Init => TypeInv /\ KeptInv
  BY TypedStart DEF Init, KeptInv
<1>2. TypeInv /\ KeptInv /\ [Next]_vars => (TypeInv /\ KeptInv)'
  BY TypedStep, KeptStep
<1>3. KeptInv => DurableKept
  BY DEF KeptInv, DurableKept, InFiles
<1>. QED
  BY <1>1, <1>2, <1>3, PTL DEF Spec

-----------------------------------------------------------------------------
(* Identities.  The records of the day files are apart, and so are those   *)
(* of a queue; a record of the queue is either above all of its day file   *)
(* or in it, and shares nothing with the others.                           *)
Sound(R) ==
  /\ \A k \in Days : \A n \in 1 .. Len(R[k]) : DayKey(R[k][n].minute) = k /\ R[k][n].id >= 1
  /\ \A k \in Days : \A m, n \in 1 .. Len(R[k]) : m < n => R[k][m].id < R[k][n].id
  /\ \A k, l \in Days : \A m \in 1 .. Len(R[k]), n \in 1 .. Len(R[l]) :
       k # l \/ m # n => R[k][m].parts \cap R[l][n].parts = {}

In(r, R) == \E n \in 1 .. Len(R[DayKey(r.minute)]) : R[DayKey(r.minute)][n] = r

Fits(q, R) ==
  /\ \A n \in 1 .. Len(q) : q[n].id >= 1
  /\ \A m, n \in 1 .. Len(q) : m < n => q[m].id < q[n].id
  /\ \A m, n \in 1 .. Len(q) : m # n => q[m].parts \cap q[n].parts = {}
  /\ \A n \in 1 .. Len(q) : LastId(R[DayKey(q[n].minute)]) >= q[n].id => In(q[n], R)
  /\ \A n \in 1 .. Len(q) : \A k \in Days : \A l \in 1 .. Len(R[k]) :
       R[k][l].parts \cap q[n].parts = {} \/ R[k][l] = q[n]

Above(id, R) == \A k \in Days : \A n \in 1 .. Len(R[k]) : R[k][n].id < id

(* Records of a table of day files.                                        *)
LEMMA RecordAt ==
  ASSUME NEW R \in [Days -> Seq(Record)], NEW k \in Days
  PROVE  /\ Len(R[k]) \in Nat
         /\ \A n \in 1 .. Len(R[k]) : R[k][n] \in Record /\ R[k][n].id \in Nat
         /\ R[k] # <<>> => Len(R[k]) \in 1 .. Len(R[k]) /\ LastId(R[k]) = R[k][Len(R[k])].id
         /\ R[k] = <<>> => LastId(R[k]) = 0 /\ Len(R[k]) = 0
         /\ LastId(R[k]) \in Nat
<1>1. R[k] \in Seq(Record)
  OBVIOUS
<1>2. \A n \in 1 .. Len(R[k]) : R[k][n] \in Record /\ R[k][n].id \in Nat
  BY <1>1, RecordedIs
<1>3. R[k] # <<>> => Len(R[k]) \in 1 .. Len(R[k])
  BY <1>1
<1>. QED
  BY <1>1, <1>2, <1>3, LastIdType DEF LastId

(* The last identity of a sound file is its greatest.                      *)
LEMMA LastIsGreatest ==
  ASSUME NEW R \in [Days -> Seq(Record)], Sound(R), NEW k \in Days, NEW n \in 1 .. Len(R[k])
  PROVE  R[k][n].id <= LastId(R[k]) /\ R[k] # <<>>
<1>1. R[k] # <<>>
  BY RecordAt
<1>2. n = Len(R[k]) \/ n < Len(R[k])
  BY RecordAt
<1>3. CASE n = Len(R[k])
  BY <1>1, <1>3, RecordAt
<1>4. CASE n < Len(R[k])
  BY <1>1, <1>4, RecordAt DEF Sound
<1>. QED
  BY <1>2, <1>1, <1>3, <1>4

(* A sound table stays sound with a later record of new intervals.         *)
LEMMA SoundAppend ==
  ASSUME NEW R \in [Days -> Seq(Record)], NEW S \in [Days -> Seq(Record)],
         NEW r \in Record, NEW d \in Days,
         Sound(R), DayKey(r.minute) = d, LastId(R[d]) < r.id,
         \A k \in Days : \A n \in 1 .. Len(R[k]) : R[k][n].parts \cap r.parts = {},
         \A k \in Days \ {d} : S[k] = R[k], S[d] = Append(R[d], r)
  PROVE  Sound(S)
<1>1. /\ Len(R[d]) \in Nat /\ Len(S[d]) = Len(R[d]) + 1
      /\ S[d][Len(R[d]) + 1] = r
      /\ \A n \in 1 .. Len(R[d]) : S[d][n] = R[d][n]
  <2>1. R[d] \in Seq(Record)
    OBVIOUS
  <2>. QED
    BY <2>1
<1>2. \A k \in Days : \A n \in 1 .. Len(S[k]) :
        (n \in 1 .. Len(R[k]) /\ S[k][n] = R[k][n]) \/ (k = d /\ n = Len(R[d]) + 1 /\ S[k][n] = r)
  BY <1>1
<1>3. r.id \in Nat /\ r.id >= 1 /\ \A n \in 1 .. Len(R[d]) : R[d][n].id < r.id
  <2>1. r.id \in Nat /\ LastId(R[d]) \in Nat
    BY RecordedIs, RecordAt
  <2>2. \A n \in 1 .. Len(R[d]) : R[d][n].id <= LastId(R[d]) /\ R[d][n].id \in Nat
    BY LastIsGreatest, RecordAt
  <2>. QED
    BY <2>1, <2>2
<1>4. \A k \in Days : \A n \in 1 .. Len(S[k]) : DayKey(S[k][n].minute) = k /\ S[k][n].id >= 1
  BY <1>2, <1>3 DEF Sound
<1>5. \A k \in Days : \A m, n \in 1 .. Len(S[k]) : m < n => S[k][m].id < S[k][n].id
  BY <1>1, <1>2, <1>3 DEF Sound
<1>6. \A k, l \in Days : \A m \in 1 .. Len(S[k]), n \in 1 .. Len(S[l]) :
        k # l \/ m # n => S[k][m].parts \cap S[l][n].parts = {}
  BY <1>2 DEF Sound
<1>. QED
  BY <1>4, <1>5, <1>6 DEF Sound

(* A queue still fits after a record of it has been written, when those    *)
(* before it have been.                                                    *)
LEMMA FitsAppend ==
  ASSUME NEW R \in [Days -> Seq(Record)], NEW S \in [Days -> Seq(Record)],
         NEW r \in Record, NEW d \in Days, NEW q \in Seq(Record), zone \in Zones,
         Fits(q, R), DayKey(r.minute) = d,
         \A k \in Days \ {d} : S[k] = R[k], S[d] = Append(R[d], r),
         NEW j \in 1 .. Len(q), q[j] = r,
         \A n \in 1 .. Len(q) : q[n].id < r.id => In(q[n], R)
  PROVE  Fits(q, S)
<1>1. /\ Len(R[d]) \in Nat /\ Len(S[d]) = Len(R[d]) + 1
      /\ S[d][Len(R[d]) + 1] = r
      /\ \A n \in 1 .. Len(R[d]) : S[d][n] = R[d][n]
      /\ S[d] # <<>>
  <2>1. R[d] \in Seq(Record)
    OBVIOUS
  <2>. QED
    BY <2>1
<1>2. LastId(S[d]) = r.id
  BY <1>1 DEF LastId
<1>3. \A n \in 1 .. Len(q) : /\ q[n] \in Record /\ q[n].id \in Nat
                             /\ DayKey(q[n].minute) \in Days
  BY RecordedIs, DayKeyType
<1>8. \A k \in Days : \A n \in 1 .. Len(R[k]) : n \in 1 .. Len(S[k]) /\ S[k][n] = R[k][n]
  <2>1. \A n \in 1 .. Len(R[d]) : n \in 1 .. Len(S[d])
    BY <1>1
  <2>. QED
    BY <1>1, <2>1
<1>9. \A k \in Days : \A l \in 1 .. Len(S[k]) :
        (l \in 1 .. Len(R[k]) /\ S[k][l] = R[k][l]) \/ (k = d /\ l = Len(R[d]) + 1)
  <2>1. \A l \in 1 .. Len(S[d]) : l \in 1 .. Len(R[d]) \/ l = Len(R[d]) + 1
    BY <1>1
  <2>. QED
    BY <1>1, <2>1
<1>4. \A n \in 1 .. Len(q) : In(q[n], R) => In(q[n], S)
  BY <1>3, <1>8 DEF In
<1>5. In(r, S)
  BY <1>1 DEF In
<1>6. ASSUME NEW n \in 1 .. Len(q), LastId(S[DayKey(q[n].minute)]) >= q[n].id PROVE In(q[n], S)
  <2>1. CASE DayKey(q[n].minute) # d
    BY <1>3, <1>4, <1>6, <2>1 DEF Fits
  <2>2. CASE DayKey(q[n].minute) = d
    <3>1. q[n].id <= r.id
      BY <1>2, <1>3, <1>6, <2>2, RecordedIs
    <3>2. CASE q[n].id < r.id
      BY <1>4, <3>2
    <3>3. CASE q[n].id = r.id
      <4>1. n = j
        <5>1. Len(q) \in Nat /\ n \in Int /\ j \in Int
          OBVIOUS
        <5>2. ~(n < j) /\ ~(j < n)
          BY <1>3, <3>3 DEF Fits
        <5>. QED
          BY <5>1, <5>2
      <4>. QED
        BY <1>5, <4>1
    <3>. QED
      BY <1>3, <3>1, <3>2, <3>3, RecordedIs
  <2>. QED
    BY <2>1, <2>2
<1>7. ASSUME NEW n \in 1 .. Len(q), NEW k \in Days, NEW l \in 1 .. Len(S[k])
      PROVE  S[k][l].parts \cap q[n].parts = {} \/ S[k][l] = q[n]
  <2>1. CASE k = d /\ l = Len(R[d]) + 1
    BY <1>1, <2>1 DEF Fits
  <2>2. CASE ~(k = d /\ l = Len(R[d]) + 1)
    <3>1. l \in 1 .. Len(R[k]) /\ S[k][l] = R[k][l]
      BY <1>9, <2>2
    <3>. QED
      BY <3>1 DEF Fits
  <2>. QED
    BY <2>1, <2>2
<1>. QED
  BY <1>6, <1>7 DEF Fits

(* A queue that fits still fits without its front or its last record.      *)
LEMMA FitsTail ==
  ASSUME NEW R \in [Days -> Seq(Record)], NEW q \in Seq(Record), q # <<>>, Fits(q, R)
  PROVE  Fits(Tail(q), R)
<1>1. /\ Len(q) \in Nat /\ Len(Tail(q)) = Len(q) - 1
      /\ \A n \in 1 .. Len(Tail(q)) : n + 1 \in 1 .. Len(q) /\ Tail(q)[n] = q[n + 1]
  OBVIOUS
<1>2. \A m, n \in 1 .. Len(Tail(q)) : m < n => Tail(q)[m].id < Tail(q)[n].id
  <2>1. \A m, n \in 1 .. Len(Tail(q)) : m < n => m + 1 < n + 1
    OBVIOUS
  <2>. QED
    BY <1>1, <2>1 DEF Fits
<1>3. \A m, n \in 1 .. Len(Tail(q)) : m # n => Tail(q)[m].parts \cap Tail(q)[n].parts = {}
  <2>1. \A m, n \in 1 .. Len(Tail(q)) : m # n => m + 1 # n + 1
    OBVIOUS
  <2>. QED
    BY <1>1, <2>1 DEF Fits
<1>. QED
  BY <1>1, <1>2, <1>3 DEF Fits

(* A record above everything, of parts that are nowhere, can join.         *)
LEMMA FitsPush ==
  ASSUME NEW R \in [Days -> Seq(Record)], NEW q \in Seq(Record), NEW r \in Record, zone \in Zones,
         Fits(q, R), r.id >= 1, Above(r.id, R),
         \A n \in 1 .. Len(q) : q[n].id < r.id /\ q[n].parts \cap r.parts = {},
         \A k \in Days : \A l \in 1 .. Len(R[k]) : R[k][l].parts \cap r.parts = {}
  PROVE  Fits(Append(q, r), R)
<1> DEFINE p == Append(q, r)
<1>1. /\ Len(q) \in Nat /\ Len(p) = Len(q) + 1 /\ p[Len(q) + 1] = r
      /\ \A n \in 1 .. Len(q) : p[n] = q[n]
  OBVIOUS
<1> HIDE DEF p
<1>2. \A n \in 1 .. Len(p) : (n \in 1 .. Len(q) /\ p[n] = q[n]) \/ (n = Len(q) + 1 /\ p[n] = r)
  BY <1>1
<1>3. DayKey(r.minute) \in Days /\ r.id \in Nat
  BY RecordedIs, DayKeyType
<1>4. ~(LastId(R[DayKey(r.minute)]) >= r.id)
  BY <1>3, RecordAt DEF Above
<1>5. \A m, n \in 1 .. Len(p) : m < n => p[m].id < p[n].id
  BY <1>1, <1>2 DEF Fits
<1>6. \A m, n \in 1 .. Len(p) : m # n => p[m].parts \cap p[n].parts = {}
  BY <1>2 DEF Fits
<1>7. \A n \in 1 .. Len(p) : p[n].id >= 1
  BY <1>2 DEF Fits
<1>8. \A n \in 1 .. Len(p) : LastId(R[DayKey(p[n].minute)]) >= p[n].id => In(p[n], R)
  BY <1>2, <1>4 DEF Fits
<1>9. \A n \in 1 .. Len(p) : \A k \in Days : \A l \in 1 .. Len(R[k]) :
        R[k][l].parts \cap p[n].parts = {} \/ R[k][l] = p[n]
  BY <1>2 DEF Fits
<1>10. Fits(p, R)
  BY <1>5, <1>6, <1>7, <1>8, <1>9 DEF Fits
<1>. QED
  BY <1>10 DEF p

LEMMA FitsFront ==
  ASSUME NEW R, NEW q \in Seq(Record), NEW r \in Record, Fits(Append(q, r), R)
  PROVE  /\ Fits(q, R)
         /\ \A n \in 1 .. Len(q) : q[n].id < r.id /\ q[n].parts \cap r.parts = {}
         /\ r.id >= 1
         /\ \A k \in Days : \A l \in 1 .. Len(R[k]) : R[k][l].parts \cap r.parts = {} \/ R[k][l] = r
<1> DEFINE p == Append(q, r)
<1>1. /\ Len(q) \in Nat /\ Len(p) = Len(q) + 1 /\ p[Len(q) + 1] = r
      /\ Len(q) + 1 \in 1 .. Len(p)
      /\ \A n \in 1 .. Len(q) : p[n] = q[n] /\ n \in 1 .. Len(p) /\ n < Len(q) + 1
  OBVIOUS
<1> HIDE DEF p
<1>2. Fits(p, R)
  BY DEF p
<1>3. \A n \in 1 .. Len(q) : n # Len(q) + 1
  BY <1>1
<1>4. Fits(q, R)
  BY <1>1, <1>2 DEF Fits
<1>5. \A n \in 1 .. Len(q) : q[n].id < r.id /\ q[n].parts \cap r.parts = {}
  BY <1>1, <1>2, <1>3 DEF Fits
<1>6. r.id >= 1 /\ \A k \in Days : \A l \in 1 .. Len(R[k]) : R[k][l].parts \cap r.parts = {} \/ R[k][l] = r
  BY <1>1, <1>2 DEF Fits
<1>. QED
  BY <1>4, <1>5, <1>6

(* The current record may take another interval.                           *)
LEMMA FitsMerge ==
  ASSUME NEW R \in [Days -> Seq(Record)], NEW q \in Seq(Record), NEW r \in Record, NEW s \in Record,
         zone \in Zones,
         Fits(Append(q, r), R), Above(r.id, R), s.id = r.id, s.minute = r.minute,
         \A i \in s.parts \ r.parts : i \notin PartsOf(q)
                                       /\ \A k \in Days : \A l \in 1 .. Len(R[k]) : i \notin R[k][l].parts
  PROVE  Fits(Append(q, s), R)
<1>1. /\ Fits(q, R) /\ r.id >= 1
      /\ \A n \in 1 .. Len(q) : q[n].id < r.id /\ q[n].parts \cap r.parts = {}
      /\ \A k \in Days : \A l \in 1 .. Len(R[k]) : R[k][l].parts \cap r.parts = {} \/ R[k][l] = r
  BY FitsFront
<1>2. \A k \in Days : \A l \in 1 .. Len(R[k]) : R[k][l] # r
  BY RecordedIs DEF Above
<1>3. \A n \in 1 .. Len(q) : q[n].parts \cap s.parts = {}
  BY <1>1 DEF PartsOf
<1>4. \A k \in Days : \A l \in 1 .. Len(R[k]) : R[k][l].parts \cap s.parts = {}
  BY <1>1, <1>2
<1>. QED
  BY <1>1, <1>3, <1>4, FitsPush

-----------------------------------------------------------------------------
(* The total.  A sample that is in the files or in the queue is counted    *)
(* once, because a record of the queue counts exactly when its day file    *)
(* has nothing of its identity or above.                                   *)
ReadOf(days, R) == \A k \in Days : R[k] = IF days[k] = None THEN <<>> ELSE days[k].records

(* With sound files and a queue that fits, each interval has one place.    *)
LEMMA PlacedOnce ==
  ASSUME Typed, NEW days, NEW R \in [Days -> Seq(Record)], ReadOf(days, R),
         NEW queue \in Seq(Record), NEW last \in Record \cup {None},
         Sound(R), Fits(queue \o (IF last = None THEN <<>> ELSE <<last>>), R),
         last # None => Above(last.id, R),
         NEW i
  PROVE  TimesCounted(i, days, queue, last) =
           IF \/ \E k \in Days : \E n \in 1 .. Len(R[k]) : i \in R[k][n].parts
              \/ i \in PartsOf(queue)
              \/ last # None /\ i \in last.parts
           THEN 1 ELSE 0
<1> DEFINE Places(k) == {n \in 1..Len(days[k].records) : i \in days[k].records[n].parts}
           inDays  == UNION {{k} \X Places(k) : k \in {d \in Days : days[d] # None}}
           inQueue == {n \in 1..Len(queue) : i \in queue[n].parts /\ ~InDay(days, queue[n])}
           inLast  == IF last # None /\ i \in last.parts THEN 1 ELSE 0
<1>1. TimesCounted(i, days, queue, last) = Cardinality(inDays) + Cardinality(inQueue) + inLast
  BY DEF TimesCounted
<1>2. inDays = {p \in Days \X Nat : p[2] \in 1 .. Len(R[p[1]]) /\ i \in R[p[1]][p[2]].parts}
  <2>1. \A k \in Days, n \in Nat : n \in 1 .. Len(R[k]) /\ i \in R[k][n].parts
                                     <=> days[k] # None /\ n \in Places(k)
    BY DEF ReadOf
  <2>2. \A k \in Days : days[k] # None => Places(k) \subseteq Nat
    <3>1. \A k \in Days : days[k] # None => Len(days[k].records) \in Nat
      BY RecordAt DEF ReadOf
    <3>. QED
      BY <3>1
  <2>. HIDE DEF Places
  <2>. QED
    BY <2>1, <2>2
<1>3. /\ Fits(queue, R)
      /\ last # None => /\ \A n \in 1 .. Len(queue) : queue[n].parts \cap last.parts = {}
                        /\ \A k \in Days : \A n \in 1 .. Len(R[k]) : R[k][n].parts \cap last.parts = {}
  <2>1. CASE last = None
    <3>1. queue \o <<>> = queue
      OBVIOUS
    <3>. QED
      BY <2>1, <3>1
  <2>2. CASE last # None
    <3>1. queue \o <<last>> = Append(queue, last) /\ last \in Record
      BY <2>2
    <3>2. \A k \in Days : \A n \in 1 .. Len(R[k]) : R[k][n] # last
      BY <2>2, <3>1, RecordedIs DEF Above
    <3>3. Fits(Append(queue, last), R)
      BY <2>2, <3>1
    <3>4. /\ Fits(queue, R)
          /\ \A n \in 1 .. Len(queue) : queue[n].parts \cap last.parts = {}
          /\ \A k \in Days : \A n \in 1 .. Len(R[k]) : R[k][n].parts \cap last.parts = {} \/ R[k][n] = last
      BY <3>1, <3>3, FitsFront
    <3>. QED
      BY <3>2, <3>4
  <2>. QED
    BY <2>1, <2>2
<1>4. \A n \in 1 .. Len(queue) :
        InDay(days, queue[n]) <=> In(queue[n], R)
  <2> SUFFICES ASSUME NEW n \in 1 .. Len(queue)
               PROVE  InDay(days, queue[n]) <=> In(queue[n], R)
    OBVIOUS
  <2> DEFINE k == DayKey(queue[n].minute)
  <2>1. queue[n] \in Record /\ queue[n].id \in Nat /\ queue[n].id >= 1 /\ k \in Days
    BY <1>3, RecordedIs, DayKeyType DEF Fits, Typed
  <2>2. InDay(days, queue[n]) <=> LastId(R[k]) >= queue[n].id
    <3>1. days[k] = None => LastId(R[k]) = 0
      BY <2>1, RecordAt DEF ReadOf
    <3>2. days[k] # None => R[k] = days[k].records
      BY <2>1 DEF ReadOf
    <3>. QED
      BY <2>1, <3>1, <3>2 DEF InDay
  <2>3. LastId(R[k]) >= queue[n].id => In(queue[n], R)
    BY <1>3 DEF Fits
  <2>4. In(queue[n], R) => LastId(R[k]) >= queue[n].id
    <3> HIDE DEF k
    <3>1. ASSUME NEW m \in 1 .. Len(R[k]), R[k][m] = queue[n] PROVE LastId(R[k]) >= queue[n].id
      BY <2>1, <3>1, LastIsGreatest, RecordAt
    <3>. QED
      BY <3>1 DEF In, k
  <2>. QED
    BY <2>2, <2>3, <2>4
<1>5. inQueue = {n \in 1 .. Len(queue) : i \in queue[n].parts /\ ~In(queue[n], R)}
  BY <1>4
<1> HIDE DEF inDays, inQueue
<1>6. Cardinality({}) = 0 /\ \A x : Cardinality({x}) = 1
  BY FS_EmptySet, FS_Singleton
<1>7. CASE \E k \in Days : \E n \in 1 .. Len(R[k]) : i \in R[k][n].parts
  <2>0. PICK k \in Days : \E n \in 1 .. Len(R[k]) : i \in R[k][n].parts
    BY <1>7
  <2>1. PICK n \in 1 .. Len(R[k]) : i \in R[k][n].parts
    BY <2>0
  <2>2. inDays = {<<k, n>>}
    <3>1. n \in Nat
      BY RecordAt
    <3>2. \A l \in Days : \A m \in 1 .. Len(R[l]) : i \in R[l][m].parts => l = k /\ m = n
      BY <2>1 DEF Sound
    <3>. QED
      BY <1>2, <2>1, <3>1, <3>2
  <2>3. inQueue = {}
    <3> SUFFICES ASSUME NEW m \in 1 .. Len(queue), i \in queue[m].parts PROVE In(queue[m], R)
      BY <1>5
    <3>1. R[k][n] = queue[m]
      BY <1>3, <2>1 DEF Fits
    <3>. QED
      BY <3>1 DEF Sound, In
  <2>4. inLast = 0
    BY <1>3, <2>1
  <2>5. Cardinality(inDays) = 1 /\ Cardinality(inQueue) = 0
    BY <1>6, <2>2, <2>3
  <2>. QED
    BY <1>1, <1>7, <2>4, <2>5
<1>8. CASE ~\E k \in Days : \E n \in 1 .. Len(R[k]) : i \in R[k][n].parts
  <2>1. inDays = {}
    BY <1>2, <1>8
  <2>2. \A n \in 1 .. Len(queue) : i \in queue[n].parts => ~In(queue[n], R)
    BY <1>8, RecordedIs, DayKeyType DEF In, Typed
  <2>3. inQueue = {n \in 1 .. Len(queue) : i \in queue[n].parts}
    BY <1>5, <2>2
  <2>4. CASE i \in PartsOf(queue)
    <3>1. PICK n \in 1 .. Len(queue) : i \in queue[n].parts
      BY <2>4, PartsIn
    <3>2. inQueue = {n}
      BY <1>3, <2>3, <3>1 DEF Fits
    <3>3. inLast = 0
      BY <1>3, <3>1
    <3>4. Cardinality(inDays) = 0 /\ Cardinality(inQueue) = 1
      BY <1>6, <2>1, <3>2
    <3>. QED
      BY <1>1, <2>4, <3>3, <3>4
  <2>5. CASE i \notin PartsOf(queue)
    <3>1. inQueue = {}
      BY <2>3, <2>5, PartsIn
    <3>2. Cardinality(inDays) = 0 /\ Cardinality(inQueue) = 0
      BY <1>6, <2>1, <3>1
    <3>. QED
      BY <1>1, <1>8, <2>5, <3>2
  <2>. QED
    BY <2>4, <2>5
<1>. QED
  BY <1>7, <1>8

-----------------------------------------------------------------------------
(* Exactness.  On disk: pending.tsv fits the day files and, with them,     *)
(* holds what was saved.  In RAM: the queue fits them too, the identities  *)
(* to come are above all, and m_days is what the files hold.  While Flush  *)
(* appends, the queue is what pending.tsv holds and no day file does.      *)
StoredExact ==
  /\ Sound(Recs) /\ ~DamagedQueue /\ Fits(Recovered, Recs)
  /\ durable = PartsOf(Recovered) \cup InFiles
  /\ pc = "down" => added = durable

HeldExact ==
  pc # "down" =>
    /\ Fits(Held, Recs)
    /\ added = PartsOf(Held) \cup InFiles
    /\ nextId >= 1 /\ Above(nextId, Recs)
    /\ \A n \in 1 .. Len(Held) : Held[n].id < nextId
    /\ current # None => Above(current.id, Recs)
    /\ ReadOf(known, Recs)

Matched ==
  pc \in {"append", "write"} =>
    /\ \A n \in 1 .. Len(Held) : \E m \in 1 .. Len(Recovered) : Recovered[m] = Held[n]
    /\ \A m \in 1 .. Len(Recovered) :
         In(Recovered[m], Recs) \/ \E n \in 1 .. Len(Held) : Held[n] = Recovered[m]

ExactInv == Undisturbed => StoredExact /\ HeldExact /\ Matched

(* In one time zone the conditions on files do not change.                 *)
LEMMA ZoneKept ==
  ASSUME UNCHANGED zone
  PROVE  \A q, R : /\ Sound(R)' <=> Sound(R)
                   /\ Fits(q, R)' <=> Fits(q, R)
                   /\ In(q, R)' <=> In(q, R)
BY DEF Sound, Fits, In, DayKey

(* The file of a day of a sound table is read back as it is.               *)
LEMMA SoundWhole ==
  ASSUME NEW R \in [Days -> Seq(Record)], Sound(R), NEW k \in Days,
         NEW f \in DayFile, f.records = R[k]
  PROVE  Whole(k, f) /\ ReadDay(k, f).records = R[k]
<1>1. ASSUME NEW i \in 1 .. Len(R[k]) PROVE Acceptable(k, f.records, i)
  <2>1. Len(R[k]) \in Nat
    BY RecordAt
  <2>2. i # 1 => i - 1 \in 1 .. Len(R[k]) /\ i - 1 < i
    BY <2>1
  <2>3. DayKey(R[k][i].minute) = k /\ R[k][i].id >= 1 /\ R[k][i].id \in Nat
    BY RecordAt DEF Sound
  <2>4. i # 1 => R[k][i - 1].id < R[k][i].id /\ R[k][i - 1].id \in Nat
    BY <2>2, RecordAt DEF Sound
  <2>. QED
    BY <2>3, <2>4 DEF Acceptable
<1>. QED
  BY <1>1, WholeAcceptable, ReadBack

(* A record that is written shares nothing with the files.                 *)
LEMMA FrontApart ==
  ASSUME TypeInv, AppendRecord, Sound(Recs), Fits(Held, Recs)
  PROVE  /\ Recs \in [Days -> Seq(Record)]
         /\ Key \in Days /\ Front \in Record /\ DayKey(Front.minute) = Key
         /\ 1 \in 1 .. Len(Held) /\ Held[1] = Front /\ Held \in Seq(Record)
         /\ LastId(Recs[Key]) < Front.id
         /\ \A k \in Days : \A n \in 1 .. Len(Recs[k]) : Recs[k][n].parts \cap Front.parts = {}
<1>1. /\ Recs \in [Days -> Seq(Record)] /\ Existing = Recs[Key]
      /\ pending # <<>> /\ Key \in Days /\ Front \in Record /\ pending \in Seq(Record)
      /\ LastId(Existing) < Front.id /\ ~Committed /\ Held \in Seq(Record)
  BY RecordWritten, RecsType, HeldType DEF TypeInv, Typed
<1>2. 1 \in 1 .. Len(Held) /\ Held[1] = Front
  <2>1. 1 \in 1 .. Len(pending) /\ pending[1] = Front
    BY <1>1, FrontIs DEF TypeInv
  <2>2. CASE current = None
    BY <2>1, <2>2, HeldType DEF TypeInv
  <2>3. CASE current # None
    <3>1. Held = Append(pending, current)
      BY <2>3, HeldType DEF TypeInv
    <3>2. Len(Append(pending, current)) = Len(pending) + 1 /\ Append(pending, current)[1] = pending[1]
      BY <1>1, <2>1
    <3>. QED
      BY <1>1, <2>1, <3>1, <3>2
  <2>. QED
    BY <2>2, <2>3
<1>3. ASSUME NEW k \in Days, NEW n \in 1 .. Len(Recs[k]) PROVE Recs[k][n] # Front
  <2>1. DayKey(Recs[k][n].minute) = k
    BY DEF Sound
  <2>. QED
    BY <1>1, <2>1 DEF Key, Committed
<1>4. \A k \in Days : \A n \in 1 .. Len(Recs[k]) : Recs[k][n].parts \cap Front.parts = {}
  BY <1>2, <1>3 DEF Fits
<1>. QED
  BY <1>1, <1>2, <1>4 DEF Key

(* Every step keeps what a restart relies on.                              *)
LEMMA StoredStep ==
  ASSUME TypeInv, KeptInv, Undisturbed, StoredExact, HeldExact, Matched,
         [Next]_vars, UNCHANGED <<edits, moves, zone>>
  PROVE  StoredExact'
<1>1. CASE /\ saved' = [records |-> Held, damaged |-> FALSE] /\ Recovered' = Held
           /\ durable' = durable \cup PartsOf(Held)
           /\ UNCHANGED <<file, pending, current, nextId, known, zone, added>>
           /\ pc # "down" /\ pc' \in {"append", "idle"}
  <2>1. Recs' = Recs /\ InFiles' = InFiles
    BY <1>1 DEF Recs, InFiles
  <2>2. ~DamagedQueue'
    BY <1>1 DEF DamagedQueue
  <2>3. Sound(Recs)' /\ Fits(Recovered, Recs)'
    BY <1>1, <2>1, ZoneKept DEF StoredExact, HeldExact
  <2>4. durable' = PartsOf(Recovered)' \cup InFiles'
    BY <1>1, <2>1 DEF StoredExact, KeptInv, Undisturbed
  <2>. QED
    BY <1>1, <2>2, <2>3, <2>4 DEF StoredExact
<1>2. CASE UNCHANGED <<saved, durable>>
  <2>1. Recovered' = Recovered /\ ~DamagedQueue'
    BY <1>2 DEF Recovered, DamagedQueue, StoredExact
  <2>2. pc' = "down" => added' = durable'
    <3>1. CASE Crash
      BY <1>2, <3>1 DEF Crash
    <3>2. CASE pc' = "down" /\ ~Crash
      <4>1. UNCHANGED vars
        BY <3>2, QueryTyped DEF Next, Flush, Initialize, Add, AddMerge, AddNew, AfterAdd, FlushAll, SaveFirst,
           SaveOnly, SaveLast, SaveCheckpoint, AppendRefused, AppendOpen, AppendFails, AppendSkip, Appended,
           AppendRecord, AppendDone, Damage, ChangeZone, Undisturbed, TypeInv, Typed
      <4>. QED
        BY <3>2, <4>1 DEF StoredExact, vars, ghosts
    <3>. QED
      BY <3>1, <3>2
  <2>3. CASE Recs' = Recs
    <3>1. InFiles' = InFiles
      BY <2>3, InFilesAre, InFilesNext
    <3>2. Sound(Recs)' /\ Fits(Recovered, Recs)'
      BY <2>1, <2>3, ZoneKept DEF StoredExact
    <3>. QED
      BY <1>2, <2>1, <2>2, <3>1, <3>2 DEF StoredExact
  <2>4. CASE /\ AppendRecord
             /\ \A k \in Days \ {Key} : Recs'[k] = Recs[k]
             /\ Recs'[Key] = Append(Recs[Key], Front)
    <3>1. /\ pc = "write" /\ Sound(Recs) /\ Fits(Held, Recs) /\ Fits(Recovered, Recs)
          /\ Recovered \in Seq(Record) /\ Recs' \in [Days -> Seq(Record)]
      <4>1. Typed'
        BY TypedStep DEF TypeInv
      <4>2. Recs' \in [Days -> Seq(Record)]
        BY <4>1, RecsNext
      <4>. QED
        BY <2>4, <4>2, RecoveredType DEF AppendRecord, StoredExact, HeldExact, TypeInv
    <3>2. Sound(Recs')
      BY <2>4, <3>1, FrontApart, SoundAppend
    <3>3. PICK j \in 1 .. Len(Recovered) : Recovered[j] = Front
      BY <2>4, <3>1, FrontApart DEF Matched
    <3>4. \A n \in 1 .. Len(Recovered) : Recovered[n].id < Front.id => In(Recovered[n], Recs)
      <4>1. \A n \in 1 .. Len(Held) : Held[n].id >= Front.id /\ Held[n].id \in Nat
        <5>1. \A n \in 1 .. Len(Held) : Held[n].id \in Nat /\ (n = 1 \/ 1 < n)
          BY <2>4, <3>1, FrontApart, RecordedIs
        <5>. QED
          BY <2>4, <3>1, <5>1, FrontApart DEF Fits
      <4>2. \A n \in 1 .. Len(Recovered) : Recovered[n].id \in Nat
        BY <3>1, RecordedIs
      <4>3. Front.id \in Nat
        BY <2>4, <3>1, FrontApart, RecordedIs
      <4>4. \A m \in 1 .. Len(Recovered) :
              In(Recovered[m], Recs) \/ \E n \in 1 .. Len(Held) : Held[n] = Recovered[m]
        BY <3>1 DEF Matched
      <4>5. \A m \in 1 .. Len(Recovered) : In(Recovered[m], Recs) \/ Recovered[m].id >= Front.id
        BY <4>1, <4>4
      <4>. QED
        BY <4>2, <4>3, <4>5
    <3>5. Fits(Recovered, Recs')
      BY <2>4, <3>1, <3>3, <3>4, FrontApart, FitsAppend DEF TypeInv, Typed
    <3>6. Sound(Recs)' /\ Fits(Recovered, Recs)'
      BY <2>1, <3>2, <3>5, ZoneKept
    <3>7. PartsOf(Held) \subseteq PartsOf(Recovered)
      BY <3>1 DEF Matched, PartsOf
    <3>8. durable' = PartsOf(Recovered)' \cup InFiles'
      BY <1>2, <2>1, <3>7, FilesGrow DEF StoredExact
    <3>. QED
      BY <2>1, <2>2, <3>6, <3>8 DEF StoredExact
  <2>. QED
    BY <2>3, <2>4, FileStep
<1>. QED
  BY <1>1, <1>2, SavedStep

(* What a write leaves: everything still fits, and m_days has been read    *)
(* again.                                                                  *)
LEMMA RecsWritten ==
  ASSUME TypeInv, StoredExact, HeldExact, AppendSkip \/ AppendRecord
  PROVE  /\ Recs' \in [Days -> Seq(Record)] /\ Sound(Recs') /\ Fits(Held, Recs')
         /\ Above(nextId, Recs')
         /\ current # None => Above(current.id, Recs')
<1>1. /\ Recs' \in [Days -> Seq(Record)] /\ Recs \in [Days -> Seq(Record)]
      /\ Sound(Recs) /\ Fits(Held, Recs) /\ Held \in Seq(Record)
      /\ Above(nextId, Recs) /\ (current # None => Above(current.id, Recs))
      /\ \A n \in 1 .. Len(Held) : Held[n].id < nextId
  <2>1. TypeInv' /\ pc # "down"
    BY RefreshedTyped DEF AppendSkip, AppendRecord
  <2>. QED
    BY <2>1, RecsNext, RecsType, HeldType DEF TypeInv, StoredExact, HeldExact
<1>2. CASE Recs' = Recs
  BY <1>1, <1>2
<1>3. CASE /\ AppendRecord
           /\ \A k \in Days \ {Key} : Recs'[k] = Recs[k]
           /\ Recs'[Key] = Append(Recs[Key], Front)
  <2>1. /\ Key \in Days /\ Front \in Record /\ DayKey(Front.minute) = Key
        /\ 1 \in 1 .. Len(Held) /\ Held[1] = Front
        /\ LastId(Recs[Key]) < Front.id
        /\ \A k \in Days : \A n \in 1 .. Len(Recs[k]) : Recs[k][n].parts \cap Front.parts = {}
    BY <1>1, <1>3, FrontApart
  <2>2. Sound(Recs')
    BY <1>1, <1>3, FrontApart, SoundAppend
  <2>3. \A n \in 1 .. Len(Held) : ~(Held[n].id < Front.id)
    <3>1. \A n \in 1 .. Len(Held) : Held[n].id \in Nat /\ (n = 1 \/ 1 < n)
      BY <1>1, RecordedIs
    <3>. QED
      BY <1>1, <2>1, <3>1 DEF Fits
  <2>4. Fits(Held, Recs')
    BY <1>1, <1>3, <2>1, <2>3, FitsAppend DEF TypeInv, Typed
  <2>5. \A k \in Days : \A n \in 1 .. Len(Recs'[k]) :
          (n \in 1 .. Len(Recs[k]) /\ Recs'[k][n] = Recs[k][n]) \/ Recs'[k][n] = Front
    <3>1. Recs[Key] \in Seq(Record)
      BY <1>1, <2>1
    <3>2. \A n \in 1 .. Len(Recs'[Key]) :
            (n \in 1 .. Len(Recs[Key]) /\ Recs'[Key][n] = Recs[Key][n]) \/ Recs'[Key][n] = Front
      BY <1>3, <3>1
    <3>. QED
      BY <1>3, <3>2
  <2>6. Above(nextId, Recs')
    BY <1>1, <2>1, <2>5 DEF Above
  <2>7. ASSUME current # None PROVE Front.id < current.id
    <3>1. Held = Append(pending, current) /\ pending \in Seq(Record) /\ pending # <<>>
      BY <1>3, <2>7, HeldType, RecordWritten DEF TypeInv, Typed
    <3>2. Len(Held) \in 1 .. Len(Held) /\ Held[Len(Held)] = current /\ 1 < Len(Held)
      BY <3>1
    <3>. QED
      BY <1>1, <2>1, <3>2 DEF Fits
  <2>8. current # None => Above(current.id, Recs')
    BY <1>1, <2>5, <2>7 DEF Above
  <2>. QED
    BY <1>1, <2>2, <2>4, <2>6, <2>8
<1>4. edits' = edits /\ [Next]_vars
  BY DEF AppendSkip, AppendRecord, AppendRest, Next, Flush
<1>. QED
  BY <1>2, <1>3, <1>4, FileStep

(* After an append the store knows the file it has written.                *)
LEMMA KnownWritten ==
  ASSUME TypeInv, StoredExact, HeldExact, AppendSkip \/ AppendRecord
  PROVE  ReadOf(known', Recs')
<1>1. /\ Key \in Days /\ TypeInv' /\ pc # "down"
      /\ known'[Key] = ReadDay(Key, file'[Key]) /\ file'[Key] # None
      /\ \A k \in Days \ {Key} : known'[k] = known[k]
  BY RefreshedTyped DEF AppendSkip, AppendRecord
<1>2. file'[Key] \in DayFile
  BY <1>1 DEF TypeInv, Typed
<1>3. Recs'[Key] = file'[Key].records
  BY <1>1 DEF Recs
<1>4. known'[Key] # None /\ known'[Key].records = Recs'[Key]
  <2>1. ReadDay(Key, file'[Key]) \in Known
    BY <1>2, ReadBack
  <2>2. ReadDay(Key, file'[Key]).records = Recs'[Key]
    BY <1>1, <1>2, <1>3, RecsWritten, SoundWhole
  <2>. QED
    BY <1>1, <2>1, <2>2, NoneAssumption
<1>5. \A k \in Days \ {Key} : Recs'[k] = Recs[k]
  <2>1. \A k \in Days \ {Key} : file'[k] = file[k]
    BY RecordWritten DEF AppendSkip
  <2>. QED
    BY <2>1 DEF Recs
<1>. QED
  BY <1>1, <1>4, <1>5 DEF ReadOf, HeldExact

(* Dropping the front of the queue.                                        *)
LEMMA HeldTail ==
  ASSUME Typed, pending # <<>>, pending' = Tail(pending), current' = current
  PROVE  Held' = Tail(Held) /\ Held # <<>>
<1>1. pending \in Seq(Record) /\ Held' = Tail(pending) \o (IF current = None THEN <<>> ELSE <<current>>)
  BY DEF Typed, Held
<1>2. CASE current = None
  BY <1>1, <1>2, HeldType
<1>3. CASE current # None
  <2>1. Held = Append(pending, current) /\ Held' = Append(Tail(pending), current) /\ current \in Record
    BY <1>1, <1>3, HeldType DEF Typed
  <2>2. Tail(Append(pending, current)) = Append(Tail(pending), current)
    BY <1>1, <2>1
  <2>. QED
    BY <1>1, <2>1, <2>2
<1>. QED
  BY <1>2, <1>3

(* An append keeps what RAM relies on.                                     *)
LEMMA AppendHeld ==
  ASSUME TypeInv, StoredExact, HeldExact, AppendSkip \/ AppendRecord,
         UNCHANGED <<edits, moves, zone>>
  PROVE  HeldExact'
<1>1. /\ Recs' \in [Days -> Seq(Record)] /\ Sound(Recs') /\ Fits(Held, Recs')
      /\ Above(nextId, Recs')
      /\ current # None => Above(current.id, Recs')
      /\ ReadOf(known', Recs')
  BY RecsWritten, KnownWritten
<1>2. /\ UNCHANGED <<current, nextId, added>> /\ pc = "write" /\ pc' # "down" /\ pending # <<>>
      /\ Held \in Seq(Record) /\ Typed
  BY RefreshedTyped, HeldType DEF AppendSkip, AppendRecord, Appended, AppendFails, AppendRest, ghosts, TypeInv
<1>3. /\ \A n \in 1 .. Len(Held) : Held[n].id < nextId
      /\ nextId >= 1 /\ added = PartsOf(Held) \cup InFiles
  BY <1>2 DEF HeldExact
<1>4. /\ Fits(Held', Recs')
      /\ PartsOf(Held') \subseteq PartsOf(Held)
      /\ \A n \in 1 .. Len(Held') : Held'[n].id < nextId
  <2>1. CASE AppendFails
    <3>1. Held' = Held
      BY <1>2, <2>1 DEF AppendFails, Held
    <3>. QED
      BY <1>1, <1>3, <3>1
  <2>2. CASE Appended
    <3>1. Held' = Tail(Held) /\ Held # <<>>
      BY <1>2, <2>2, HeldTail DEF Appended
    <3>2. \A n \in 1 .. Len(Tail(Held)) : n + 1 \in 1 .. Len(Held) /\ Tail(Held)[n] = Held[n + 1]
      BY <1>2, <3>1
    <3>3. PartsOf(Tail(Held)) \subseteq PartsOf(Held)
      BY <3>2 DEF PartsOf
    <3>4. Fits(Tail(Held), Recs')
      BY <1>1, <1>2, <3>1, FitsTail
    <3>. QED
      BY <1>3, <3>1, <3>2, <3>3, <3>4
  <2>. QED
    BY <2>1, <2>2 DEF AppendSkip, AppendRecord
<1>5. added' = PartsOf(Held)' \cup InFiles'
  <2>1. [Next]_vars
    BY DEF Next, Flush
  <2>2. PartsOf(Held) \subseteq PartsOf(Held)' \cup InFiles'
    BY <1>2, <2>1, HeldStep
  <2>3. InFiles \subseteq InFiles' /\ InFiles' \subseteq InFiles \cup PartsOf(Held)
    BY <2>1, FilesGrow
  <2>4. PartsOf(Held)' = PartsOf(Held')
    BY DEF PartsOf
  <2>. QED
    BY <1>2, <1>3, <1>4, <2>2, <2>3, <2>4
<1>6. Fits(Held, Recs)'
  BY <1>4, ZoneKept
<1>. QED
  BY <1>1, <1>2, <1>3, <1>4, <1>5, <1>6 DEF HeldExact

(* What Initialize knows of the days is what the files hold.               *)
LEMMA KnownExact ==
  ASSUME Typed, Sound(Recs)
  PROVE  ReadOf(KnownDays, Recs)
<1> SUFFICES ASSUME NEW k \in Days
             PROVE  Recs[k] = IF KnownDays[k] = None THEN <<>> ELSE KnownDays[k].records
  BY DEF ReadOf
<1>1. CASE file[k] = None
  BY <1>1 DEF KnownDays, Recs
<1>2. CASE file[k] # None
  <2>1. file[k] \in DayFile /\ Recs[k] = file[k].records
    BY <1>2 DEF Typed, Recs
  <2>2. ReadDay(k, file[k]).records = Recs[k] /\ Summary(k).records = Recs[k]
    BY <2>1, RecsType, SoundWhole DEF Summary
  <2>3. Summary(k) \in Known /\ ReadDay(k, file[k]) \in Known
    BY <2>1, ReadBack DEF Summary, Known, DayFile
  <2>. QED
    BY <1>2, <2>2, <2>3, NoneAssumption DEF KnownDays
<1>. QED
  BY <1>1, <1>2

(* A store that starts and an addition do too.                             *)
LEMMA InitializeExact ==
  ASSUME TypeInv, StoredExact, Initialize, UNCHANGED zone
  PROVE  HeldExact'
<1>1. /\ Recs' = Recs /\ InFiles' = InFiles /\ Recs \in [Days -> Seq(Record)]
      /\ Sound(Recs) /\ Fits(Recovered, Recs) /\ Recovered \in Seq(Record)
      /\ current' = None /\ known' = KnownDays /\ added' = added
      /\ nextId' = FirstFree(KnownDays, Recovered)
  BY RecsType, RecoveredType DEF Initialize, Recs, InFiles, ghosts, TypeInv, StoredExact
<1>2. Held' = Recovered
  <2>1. pending' = Recovered
    BY DEF Initialize
  <2>. QED
    BY <1>1, <2>1 DEF Held
<1>3. ReadOf(KnownDays, Recs)
  BY <1>1, KnownExact DEF TypeInv
<1>4. /\ nextId' \in Nat /\ LastId(Recovered) < nextId'
      /\ \A k \in Days : KnownDays[k] # None => LastId(KnownDays[k].records) < nextId'
  BY <1>1, KnownDaysType, FirstFreeIs DEF TypeInv
<1>5. nextId' >= 1
  BY <1>1, <1>4, LastIdType
<1>6. Above(nextId', Recs)
  <2> SUFFICES ASSUME NEW k \in Days, NEW n \in 1 .. Len(Recs[k]) PROVE Recs[k][n].id < nextId'
    BY DEF Above
  <2>1. Recs[k][n].id <= LastId(Recs[k]) /\ Recs[k] # <<>>
    BY <1>1, LastIsGreatest
  <2>2. LastId(Recs[k]) < nextId'
    BY <1>3, <1>4, <2>1 DEF ReadOf
  <2>3. Recs[k][n].id \in Nat /\ LastId(Recs[k]) \in Nat
    BY <1>1, RecordAt
  <2>. QED
    BY <1>4, <2>1, <2>2, <2>3
<1>7. ASSUME NEW n \in 1 .. Len(Recovered) PROVE Recovered[n].id < nextId'
  <2>1. /\ Len(Recovered) \in 1 .. Len(Recovered) /\ Recovered # <<>>
        /\ n = Len(Recovered) \/ n < Len(Recovered)
    BY <1>1
  <2>2. LastId(Recovered) = Recovered[Len(Recovered)].id
    BY <2>1 DEF LastId
  <2>3. Recovered[n].id \in Nat /\ LastId(Recovered) \in Nat
    BY <1>1, <2>1, <2>2, RecordedIs
  <2>. QED
    BY <1>1, <1>4, <2>1, <2>2, <2>3 DEF Fits
<1>8. added' = PartsOf(Held)' \cup InFiles'
  BY <1>1, <1>2 DEF StoredExact, Initialize
<1>9. Fits(Held, Recs)'
  BY <1>1, <1>2, ZoneKept
<1>. QED
  BY <1>1, <1>2, <1>3, <1>5, <1>6, <1>7, <1>8, <1>9 DEF HeldExact

(* A sample that is taken is nowhere yet.                                  *)
LEMMA AddExact ==
  ASSUME TypeInv, HeldExact, Add, UNCHANGED zone
  PROVE  HeldExact'
<1>1. PICK bytes \in {{}} \cup {{i} : i \in Intervals \ added} : AddMerge(bytes) \/ AddNew(bytes)
  BY DEF Add
<1>2. /\ pc = "idle" /\ UNCHANGED <<file, known>> /\ added' = added \cup bytes
      /\ Recs' = Recs /\ InFiles' = InFiles /\ Recs \in [Days -> Seq(Record)]
      /\ bytes \subseteq Intervals /\ bytes \cap added = {}
      /\ pending \in Seq(Record) /\ current \in Record \cup {None} /\ nextId \in Nat
      /\ Held \in Seq(Record) /\ zone \in Zones
  BY <1>1, RecsType, HeldType DEF AddMerge, AddNew, files, Recs, InFiles, TypeInv, Typed
<1>3. /\ Fits(Held, Recs) /\ added = PartsOf(Held) \cup InFiles
      /\ nextId >= 1 /\ Above(nextId, Recs) /\ ReadOf(known, Recs)
      /\ \A n \in 1 .. Len(Held) : Held[n].id < nextId
      /\ current # None => Above(current.id, Recs)
  BY <1>2 DEF HeldExact
<1>4. \A i \in bytes : i \notin PartsOf(Held) /\ \A k \in Days : \A n \in 1 .. Len(Recs[k]) : i \notin Recs[k][n].parts
  BY <1>2, <1>3, InFilesAre
<1>5. ASSUME current' # None, Fits(Held', Recs), Above(nextId', Recs), Above(current'.id, Recs), nextId' >= 1,
             PartsOf(Held') = PartsOf(Held) \cup bytes,
             \A n \in 1 .. Len(Held') : Held'[n].id < nextId'
      PROVE  HeldExact'
  <2>1. Fits(Held, Recs)'
    BY <1>2, <1>5, ZoneKept
  <2>2. added' = PartsOf(Held)' \cup InFiles'
    BY <1>2, <1>3, <1>5
  <2>. QED
    BY <1>2, <1>3, <1>5, <2>1, <2>2 DEF HeldExact
<1>6. CASE AddMerge(bytes)
  <2>1. /\ pending' = pending /\ current # None /\ current \in Record /\ nextId' = nextId
        /\ current' = [current EXCEPT !.parts = @ \cup bytes]
    BY <1>2, <1>6 DEF AddMerge
  <2>2. /\ current' \in Record /\ current'.id = current.id /\ current'.minute = current.minute
        /\ current'.parts = current.parts \cup bytes
    BY <1>2, <2>1 DEF Record
  <2>3. Held = Append(pending, current) /\ Held' = Append(pending, current') /\ current' # None
    <3>1. current' # None
      BY <2>2, NoneAssumption
    <3>2. Held = pending \o <<current>> /\ Held' = pending \o <<current'>>
      BY <2>1, <3>1 DEF Held
    <3>. QED
      BY <1>2, <2>1, <2>2, <3>1, <3>2
  <2>4. /\ \A n \in 1 .. Len(Held') : \/ n \in 1 .. Len(pending) /\ Held'[n] = pending[n]
                                      \/ n = Len(pending) + 1 /\ Held'[n] = current'
        /\ \A n \in 1 .. Len(pending) : n \in 1 .. Len(Held) /\ n \in 1 .. Len(Held') /\ Held[n] = pending[n]
        /\ Len(Held) = Len(pending) + 1 /\ Len(Held') = Len(Held) /\ Len(Held) \in 1 .. Len(Held)
        /\ Held[Len(Held)] = current /\ Held'[Len(Held)] = current'
    BY <1>2, <2>1, <2>2, <2>3
  <2>5. \A i \in bytes : i \notin PartsOf(pending)
    BY <1>4, <2>4 DEF PartsOf
  <2>6. Fits(Held', Recs)
    BY <1>2, <1>3, <1>4, <2>1, <2>2, <2>3, <2>5, FitsMerge
  <2>7. \A n \in 1 .. Len(Held') : Held'[n].id < nextId'
    BY <1>3, <2>1, <2>2, <2>4
  <2>8. PartsOf(Held') = PartsOf(Held) \cup bytes
    <3>1. \A i : i \in PartsOf(Held') <=> i \in PartsOf(pending) \/ i \in current'.parts
      BY <2>4 DEF PartsOf
    <3>2. \A i : i \in PartsOf(Held) <=> i \in PartsOf(pending) \/ i \in current.parts
      BY <2>4 DEF PartsOf
    <3>. QED
      BY <2>2, <3>1, <3>2
  <2>. QED
    BY <1>3, <1>5, <2>1, <2>2, <2>3, <2>6, <2>7, <2>8
<1>7. CASE AddNew(bytes)
  <2>1. PICK m \in Minutes : current' = [id |-> nextId, minute |-> m, parts |-> bytes]
    BY <1>7 DEF AddNew
  <2>2. pending' = Held /\ nextId' = nextId + 1
    BY <1>7 DEF AddNew
  <2>3. /\ current' \in Record /\ current'.id = nextId /\ current'.parts = bytes /\ current' # None
    <3>1. [id |-> nextId, minute |-> m, parts |-> bytes] \in Record
      BY <1>2 DEF Record
    <3>. QED
      BY <2>1, <3>1, NoneAssumption
  <2>4. Held' = Append(Held, current')
    BY <1>2, <2>2, <2>3 DEF Held
  <2>5. /\ \A n \in 1 .. Len(Held') : (n \in 1 .. Len(Held) /\ Held'[n] = Held[n]) \/ Held'[n] = current'
        /\ \A n \in 1 .. Len(Held) : n \in 1 .. Len(Held') /\ Held'[n] = Held[n]
        /\ Len(Held) + 1 \in 1 .. Len(Held') /\ Held'[Len(Held) + 1] = current'
    BY <1>2, <2>3, <2>4
  <2>6. Fits(Held', Recs)
    <3>1. \A n \in 1 .. Len(Held) : Held[n].id < current'.id /\ Held[n].parts \cap current'.parts = {}
      BY <1>3, <1>4, <2>3 DEF PartsOf
    <3>2. \A k \in Days : \A l \in 1 .. Len(Recs[k]) : Recs[k][l].parts \cap current'.parts = {}
      BY <1>4, <2>3
    <3>. QED
      BY <1>2, <1>3, <2>3, <2>4, <3>1, <3>2, FitsPush
  <2>7. \A n \in 1 .. Len(Held') : Held'[n].id < nextId'
    <3>1. \A n \in 1 .. Len(Held) : Held[n].id \in Nat
      BY <1>2, RecordedIs
    <3>. QED
      BY <1>2, <1>3, <2>2, <2>3, <2>5, <3>1
  <2>8. Above(nextId', Recs) /\ Above(current'.id, Recs) /\ nextId' >= 1
    <3>1. \A k \in Days : \A n \in 1 .. Len(Recs[k]) : Recs[k][n].id \in Nat
      BY <1>2, RecordAt
    <3>. QED
      BY <1>2, <1>3, <2>2, <2>3, <3>1 DEF Above
  <2>9. PartsOf(Held') = PartsOf(Held) \cup bytes
    BY <2>3, <2>5 DEF PartsOf
  <2>. QED
    BY <1>5, <2>3, <2>6, <2>7, <2>8, <2>9
<1>. QED
  BY <1>1, <1>6, <1>7

(* A successful append has its record in the file.                         *)
LEMMA WrittenWhole ==
  ASSUME TypeInv, AppendRecord, Appended
  PROVE  Recs'[Key] = Append(Recs[Key], Front)
<1>1. pending # <<>> /\ Key \in Days /\ file'[Key] # None /\ pending \in Seq(Record)
  BY RecordWritten DEF TypeInv, Typed
<1>2. ~AppendFails
  <2>1. Tail(pending) # pending
    BY <1>1
  <2>. QED
    BY <2>1 DEF Appended, AppendFails
<1>3. file'[Key].records = Append(Existing, Front)
  BY <1>2, RecordWritten
<1>. QED
  BY <1>1, <1>3, RecsType DEF Recs, TypeInv

(* Every step keeps what RAM relies on.                                    *)
LEMMA HeldExactStep ==
  ASSUME TypeInv, StoredExact, HeldExact, [Next]_vars, UNCHANGED <<edits, moves, zone>>
  PROVE  HeldExact'
<1>1. ASSUME UNCHANGED <<pc, nextId, added>> \/ (pc # "down" /\ UNCHANGED <<nextId, added>>),
             Held' = Held, current' \in {current, None}, Recs' = Recs,
             ReadOf(known', Recs) \/ known' = known
      PROVE  HeldExact'
  <2>1. InFiles' = InFiles
    BY <1>1, InFilesAre, InFilesNext
  <2>2. pc' # "down" => Fits(Held, Recs)'
    BY <1>1, ZoneKept DEF HeldExact
  <2>. QED
    BY <1>1, <2>1, <2>2 DEF HeldExact
<1>2. CASE Initialize
  BY <1>2, InitializeExact
<1>3. CASE Add
  BY <1>3, AddExact
<1>4. CASE AppendSkip \/ AppendRecord
  BY <1>4, AppendHeld
<1>5. CASE FlushAll
  <2>1. pc # "down" /\ UNCHANGED <<file, known, nextId, added>>
    BY <1>5 DEF FlushAll, files, ghosts
  <2>2. Held' = Held /\ current' \in {current, None}
    <3>1. CASE pending' = Held /\ current' = None
      <4>1. Held \in Seq(Record)
        BY HeldType DEF TypeInv
      <4>. QED
        BY <3>1, <4>1 DEF Held
    <3>2. CASE UNCHANGED <<pending, current>>
      BY <3>2 DEF Held
    <3>. QED
      BY <1>5, <3>1, <3>2 DEF FlushAll
  <2>3. Recs' = Recs
    BY <2>1 DEF Recs
  <2>. QED
    BY <1>1, <2>1, <2>2, <2>3
<1>6. CASE Query
  <2>1. /\ UNCHANGED <<file, pending, current, nextId, pc, ghosts>> /\ pc = "idle"
        /\ \E k \in Days : /\ file[k] # None
                           /\ known'[k] = ReadDay(k, file[k])
                           /\ \A l \in Days \ {k} : known'[l] = known[l]
    BY <1>6, QueryTyped
  <2>2. Held' = Held /\ Recs' = Recs
    BY <2>1 DEF Held, Recs
  <2>3. PICK k \in Days : /\ file[k] # None
                          /\ known'[k] = ReadDay(k, file[k])
                          /\ \A l \in Days \ {k} : known'[l] = known[l]
    BY <2>1
  <2>4. known'[k] # None /\ known'[k].records = Recs[k]
    <3>1. file[k] \in DayFile /\ Recs[k] = file[k].records
      BY <2>3 DEF TypeInv, Typed, Recs
    <3>2. ReadDay(k, file[k]).records = Recs[k]
      BY <3>1, RecsType, SoundWhole DEF TypeInv, StoredExact
    <3>3. ReadDay(k, file[k]) \in Known
      BY <3>1, ReadBack
    <3>. QED
      BY <2>3, <3>2, <3>3, NoneAssumption
  <2>5. ReadOf(known', Recs)
    BY <2>1, <2>3, <2>4 DEF ReadOf, HeldExact
  <2>. QED
    BY <1>1, <2>1, <2>2, <2>5 DEF ghosts
<1>7. CASE Crash
  BY <1>7 DEF Crash, HeldExact
<1>8. CASE SaveFirst \/ SaveOnly \/ SaveLast \/ AppendRefused \/ AppendOpen \/ AppendDone
           \/ UNCHANGED vars
  <2>1. UNCHANGED <<pending, current, known, nextId, added>> /\ (pc # "down" \/ UNCHANGED pc)
    BY <1>8 DEF SaveFirst, SaveOnly, SaveLast, SaveCheckpoint, AppendRefused, AppendOpen, AppendFails,
       AppendDone, AppendRest, vars, members, ghosts
  <2>2. Held' = Held
    BY <2>1 DEF Held
  <2>3. Recs' = Recs
    <3>1. CASE UNCHANGED file
      BY <3>1 DEF Recs
    <3>2. CASE ~UNCHANGED file
      <4>1. ~AppendRecord
        BY <1>8, <3>2 DEF SaveFirst, SaveOnly, SaveLast, SaveCheckpoint, AppendRefused, AppendOpen,
           AppendRecord, AppendDone, vars, files
      <4>. QED
        BY <4>1, FileStep
    <3>. QED
      BY <3>1, <3>2
  <2>. QED
    BY <1>1, <2>1, <2>2, <2>3
<1>9. ~Damage /\ ~ChangeZone
  BY DEF Damage, ChangeZone, TypeInv, Typed
<1>. QED
  BY <1>2, <1>3, <1>4, <1>5, <1>6, <1>7, <1>8, <1>9 DEF Next, Flush

(* While Flush appends, pending.tsv holds the queue and what has left it.  *)
LEMMA MatchedStep ==
  ASSUME TypeInv, StoredExact, HeldExact, Matched, [Next]_vars, UNCHANGED <<edits, moves, zone>>
  PROVE  Matched'
<1>1. CASE pc' \notin {"append", "write"}
  BY <1>1 DEF Matched
<1>2. CASE SaveFirst \/ SaveOnly \/ SaveLast
  <2>1. Held' = Held
    BY <1>2 DEF SaveFirst, SaveOnly, SaveLast, SaveCheckpoint, Held
  <2>2. Recovered' = Held \/ pc' \notin {"append", "write"}
    <3>1. CASE saved' = [records |-> Held, damaged |-> FALSE]
      <4>1. [records |-> Held, damaged |-> FALSE] \in Saved
        BY HeldType DEF TypeInv, Saved
      <4>. QED
        BY <3>1, <4>1, NoneAssumption DEF Recovered
    <3>. QED
      BY <1>2, <3>1 DEF SaveFirst, SaveOnly, SaveLast, SaveCheckpoint
  <2>. QED
    BY <1>1, <2>1, <2>2 DEF Matched
<1>3. ASSUME Recovered' = Recovered, Held' = Held, Recs' = Recs, pc \in {"append", "write"}
      PROVE  Matched'
  BY <1>3, ZoneKept DEF Matched
<1>4. CASE AppendOpen
  <2>1. UNCHANGED <<saved, pending, current>> /\ pc = "append"
    BY <1>4 DEF AppendOpen, AppendFails, AppendRest
  <2>2. Recovered' = Recovered /\ Held' = Held
    BY <2>1 DEF Recovered, Held
  <2>3. Recs' = Recs
    BY <2>1, FileStep DEF AppendRecord
  <2>. QED
    BY <1>3, <2>1, <2>2, <2>3
<1>5. CASE UNCHANGED vars
  <2>1. UNCHANGED <<saved, pending, current, file, pc>>
    BY <1>5 DEF vars, files, members
  <2>. QED
    BY <1>1, <1>3, <2>1 DEF Recovered, Held, Recs
<1>6. CASE (AppendSkip \/ AppendRecord) /\ Appended
  <2>1. /\ pc = "write" /\ saved' = saved /\ current' = current /\ pending' = Tail(pending)
        /\ pending # <<>> /\ Typed /\ pending \in Seq(Record)
        /\ Key \in Days /\ Front \in Record /\ DayKey(Front.minute) = Key
    BY <1>6, RefreshedTyped, FrontIs DEF AppendSkip, AppendRecord, Appended, AppendRest, Key, TypeInv, Typed
  <2>2. /\ Held' = Tail(Held) /\ Held # <<>> /\ Recovered' = Recovered /\ Held \in Seq(Record)
        /\ Held[1] = Front
    <3>1. Held[1] = pending[1]
      BY <2>1, HeldType DEF Held, Typed
    <3>. QED
      BY <2>1, <3>1, HeldTail, HeldType, FrontIs DEF Recovered
  <2>3. /\ \A n \in 1 .. Len(Held') : n + 1 \in 1 .. Len(Held) /\ Held'[n] = Held[n + 1]
        /\ \A n \in 1 .. Len(Held) : n = 1 \/ (n - 1 \in 1 .. Len(Held') /\ Held'[n - 1] = Held[n])
    BY <2>2
  <2>4. In(Front, Recs') /\ \A r \in Record : In(r, Recs) => In(r, Recs')
    <3>1. CASE Recs' = Recs
      <4>1. AppendSkip => In(Front, Recs)
        BY <2>1, RecsType DEF AppendSkip, Committed, In
      <4>2. AppendRecord => Recs'[Key] = Append(Recs[Key], Front)
        BY <1>6, <2>1, WrittenWhole
      <4>3. AppendRecord => Recs'[Key] # Recs[Key]
        <5>1. Recs[Key] \in Seq(Record)
          BY <2>1, RecsType
        <5>2. Len(Append(Recs[Key], Front)) # Len(Recs[Key])
          BY <2>1, <5>1
        <5>. QED
          BY <4>2, <5>2
      <4>. QED
        BY <1>6, <3>1, <4>1, <4>3
    <3>2. CASE /\ \A k \in Days \ {Key} : Recs'[k] = Recs[k]
               /\ Recs'[Key] = Append(Recs[Key], Front)
      <4>1. Recs[Key] \in Seq(Record)
        BY <2>1, RecsType
      <4>2. /\ Len(Recs[Key]) + 1 \in 1 .. Len(Recs'[Key]) /\ Recs'[Key][Len(Recs[Key]) + 1] = Front
            /\ \A n \in 1 .. Len(Recs[Key]) : n \in 1 .. Len(Recs'[Key]) /\ Recs'[Key][n] = Recs[Key][n]
        BY <2>1, <3>2, <4>1
      <4>3. In(Front, Recs')
        BY <2>1, <4>2 DEF In
      <4>4. ASSUME NEW r \in Record, In(r, Recs) PROVE In(r, Recs')
        <5>1. DayKey(r.minute) \in Days
          BY <2>1, DayKeyType, RecordedIs DEF Typed
        <5>. QED
          BY <3>2, <4>2, <4>4, <5>1 DEF In
      <4>. QED
        BY <4>3, <4>4
    <3>. QED
      BY <3>1, <3>2, FileStep
  <2>5. \A n \in 1 .. Len(Held') : \E m \in 1 .. Len(Recovered) : Recovered[m] = Held'[n]
    BY <2>1, <2>3 DEF Matched
  <2>6. ASSUME NEW m \in 1 .. Len(Recovered)
        PROVE  In(Recovered[m], Recs') \/ \E n \in 1 .. Len(Held') : Held'[n] = Recovered[m]
    <3>1. Recovered[m] \in Record
      BY <2>1, RecoveredType
    <3>2. CASE In(Recovered[m], Recs)
      BY <2>4, <3>1, <3>2
    <3>3. CASE \E n \in 1 .. Len(Held) : Held[n] = Recovered[m]
      BY <2>2, <2>3, <2>4, <3>3
    <3>. QED
      BY <2>1, <3>2, <3>3 DEF Matched
  <2>7. \A m \in 1 .. Len(Recovered) : In(Recovered[m], Recs') <=> In(Recovered[m], Recs)'
    BY <2>2, ZoneKept
  <2>. QED
    BY <2>2, <2>5, <2>6, <2>7 DEF Matched
<1>7. CASE (AppendSkip \/ AppendRecord) /\ ~Appended
  BY <1>1, <1>7 DEF AppendSkip, AppendRecord, AppendFails
<1>8. CASE Initialize \/ Add \/ FlushAll \/ Query \/ AppendRefused \/ AppendDone \/ Crash \/ Damage \/ ChangeZone
  <2>1. CASE Query \/ Damage \/ ChangeZone
    BY <1>1, <2>1, QueryTyped DEF Damage, ChangeZone
  <2>2. CASE Initialize \/ Add \/ FlushAll \/ AppendRefused \/ AppendDone \/ Crash
    BY <1>1, <2>2 DEF Initialize, Add, AddMerge, AddNew, AfterAdd, FlushAll, AppendRefused, AppendDone, Crash
  <2>. QED
    BY <1>8, <2>1, <2>2
<1>. QED
  BY <1>2, <1>4, <1>5, <1>6, <1>7, <1>8 DEF Next, Flush

(* Every step keeps ExactInv, and it holds in the beginning.               *)
LEMMA ExactStep == TypeInv /\ KeptInv /\ ExactInv /\ [Next]_vars => ExactInv'
<1> SUFFICES ASSUME TypeInv, KeptInv, ExactInv, [Next]_vars, Undisturbed'
             PROVE  StoredExact' /\ HeldExact' /\ Matched'
  BY DEF ExactInv
<1>1. UNCHANGED <<edits, moves, zone>> /\ Undisturbed
  BY EditsGrow DEF Undisturbed
<1>2. StoredExact /\ HeldExact /\ Matched
  BY <1>1 DEF ExactInv
<1>. QED
  BY <1>1, <1>2, StoredStep, HeldExactStep, MatchedStep

LEMMA ExactStart == Init => ExactInv
<1> SUFFICES ASSUME Init PROVE StoredExact /\ HeldExact /\ Matched
  BY DEF ExactInv
<1>1. /\ \A k \in Days : Recs[k] = <<>>
      /\ Recovered = <<>> /\ InFiles = {} /\ ~DamagedQueue /\ pc = "down"
      /\ durable = {} /\ added = {}
  BY DEF Init, Recs, Recovered, InFiles, DamagedQueue
<1>2. Sound(Recs)
  BY <1>1 DEF Sound
<1>3. Fits(Recovered, Recs) /\ PartsOf(Recovered) = {}
  BY <1>1 DEF Fits, PartsOf
<1>. QED
  BY <1>1, <1>2, <1>3 DEF StoredExact, HeldExact, Matched

(* ExactInv is about places; the properties are about counts.              *)
LEMMA AllTimeFollows == TypeInv /\ ExactInv => AllTimeExact
<1> SUFFICES ASSUME TypeInv, ExactInv, pc = "idle", Undisturbed, NEW i \in Intervals
             PROVE  TimesCounted(i, known, pending, current) = IF i \in added THEN 1 ELSE 0
  BY DEF AllTimeExact
<1>1. StoredExact /\ HeldExact /\ pc # "down"
  BY DEF ExactInv
<1>2. /\ Recs \in [Days -> Seq(Record)] /\ Sound(Recs) /\ ReadOf(known, Recs) /\ Fits(Held, Recs)
      /\ current # None => Above(current.id, Recs)
      /\ added = PartsOf(Held) \cup InFiles
  BY <1>1, RecsType DEF StoredExact, HeldExact, TypeInv
<1>3. Fits(pending \o (IF current = None THEN <<>> ELSE <<current>>), Recs)
  BY <1>2 DEF Held
<1>4. i \in added <=> \/ \E k \in Days : \E n \in 1 .. Len(Recs[k]) : i \in Recs[k][n].parts
                      \/ i \in PartsOf(pending)
                      \/ current # None /\ i \in current.parts
  BY <1>2, InFilesAre, HeldParts DEF TypeInv
<1>5. pending \in Seq(Record) /\ current \in Record \cup {None} /\ Typed
  BY DEF TypeInv, Typed
<1>6. TimesCounted(i, known, pending, current) =
        IF \/ \E k \in Days : \E n \in 1 .. Len(Recs[k]) : i \in Recs[k][n].parts
           \/ i \in PartsOf(pending)
           \/ current # None /\ i \in current.parts
        THEN 1 ELSE 0
  BY <1>2, <1>3, <1>5, PlacedOnce
<1>. QED
  BY <1>4, <1>6

LEMMA RestartFollows == TypeInv /\ ExactInv => RestartExact
<1> SUFFICES ASSUME TypeInv, ExactInv, Undisturbed, NEW i \in Intervals
             PROVE  TimesCounted(i, KnownDays, Recovered, None) = IF i \in durable THEN 1 ELSE 0
  BY DEF RestartExact
<1>1. /\ Recs \in [Days -> Seq(Record)] /\ Sound(Recs) /\ Fits(Recovered, Recs)
      /\ durable = PartsOf(Recovered) \cup InFiles
      /\ Typed /\ Recovered \in Seq(Record) /\ ReadOf(KnownDays, Recs)
  BY RecsType, RecoveredType, KnownExact DEF StoredExact, ExactInv, TypeInv
<1>2. Fits(Recovered \o (IF None = None THEN <<>> ELSE <<None>>), Recs)
  <2>1. Recovered \o <<>> = Recovered
    BY <1>1
  <2>. QED
    BY <1>1, <2>1
<1>3. TimesCounted(i, KnownDays, Recovered, None) =
        IF \/ \E k \in Days : \E n \in 1 .. Len(Recs[k]) : i \in Recs[k][n].parts
           \/ i \in PartsOf(Recovered)
           \/ None # None /\ i \in None.parts
        THEN 1 ELSE 0
  BY <1>1, <1>2, PlacedOnce
<1>. QED
  BY <1>1, <1>3, InFilesAre

(* The all-time total that a query reads has every sample the store took   *)
(* once, for any number of samples, failing writes and deaths.             *)
THEOREM CountsOnce == Spec => []AllTimeExact
<1>1. Init => TypeInv /\ KeptInv /\ ExactInv
  BY TypedStart, ExactStart DEF Init, KeptInv
<1>2. TypeInv /\ KeptInv /\ ExactInv /\ [Next]_vars => (TypeInv /\ KeptInv /\ ExactInv)'
  BY TypedStep, KeptStep, ExactStep
<1>. QED
  BY <1>1, <1>2, AllTimeFollows, PTL DEF Spec

(* Wherever the process dies, the next one has every saved sample once.    *)
THEOREM RestartsExactly == Spec => []RestartExact
<1>1. Init => TypeInv /\ KeptInv /\ ExactInv
  BY TypedStart, ExactStart DEF Init, KeptInv
<1>2. TypeInv /\ KeptInv /\ ExactInv /\ [Next]_vars => (TypeInv /\ KeptInv /\ ExactInv)'
  BY TypedStep, KeptStep, ExactStep
<1>. QED
  BY <1>1, <1>2, RestartFollows, PTL DEF Spec
=============================================================================
