------------------------- MODULE BatchHandoffProofs -------------------------
(***************************************************************************)
(* Proofs about BatchHandoff for any set of slices and any number of       *)
(* refusals.  The argument: the worker and the destructor never deliver at *)
(* the same time, so the one batch in flight is the batch a delivery works *)
(* on; its sequence number is newer than the last accepted one until the   *)
(* history has added it, and equal to it from then until it is             *)
(* acknowledged.                                                           *)
(***************************************************************************)
EXTENDS BatchHandoff, TLAPS

(* The destructor delivers only after it has joined the worker.            *)
Roles ==
  /\ running <=> host = "run"
  /\ host \in {"peek", "lock", "update", "ack", "gone"} => worker = "left"
  /\ worker = "left" => ~running

(* Run's local copy of m_raw is empty except between its two critical       *)
(* sections.                                                               *)
Idle == worker # "process" => taken = {}

(* The sequence numbers of the batch in flight and of the last one added.  *)
Numbers ==
  /\ inflight.sequence \in {0, sequence}
  /\ inflight.sequence = 0 => inflight.deltas = {}
  /\ lastSeq <= sequence
  /\ inflight.sequence # 0 /\ ~At("ack") => lastSeq < inflight.sequence
  /\ At("ack") => /\ inflight.sequence # 0
                  /\ lastSeq = inflight.sequence
                  /\ inflight.deltas \subseteq Added

HandoffInv ==
  /\ TypeOK
  /\ Idle
  /\ Roles
  /\ Numbers
  /\ CopyIsInflight
  /\ NothingLost
  /\ AddedOnce

-----------------------------------------------------------------------------
LEMMA TypeInit == Init => TypeOK
<1> SUFFICES ASSUME Init PROVE TypeOK
  OBVIOUS
<1>1. running \in BOOLEAN /\ odd \in BOOLEAN
  BY Zenon DEF Init
<1>2. inflight \in Batch /\ batch \in Batch
  BY DEF Init, Batch, NoBatch
<1>3. history \in [Slices -> Nat]
  BY DEF Init
<1> QED
  BY <1>1, <1>2, <1>3 DEF Init, TypeOK

LEMMA TypeStep == TypeOK /\ [Next]_vars => TypeOK'
<1> SUFFICES ASSUME TypeOK, [Next]_vars PROVE TypeOK'
  OBVIOUS
<1> USE DEF TypeOK, Batch, NoBatch, ledgers, sources, threads, sink
<1>1. ASSUME NEW s \in Slices, OnEvent(s) PROVE TypeOK'
  BY <1>1 DEF OnEvent, Capture, Accumulate
<1>2. ASSUME NEW s \in Slices, Emit(s) PROVE TypeOK'
  BY <1>2 DEF Emit, Capture
<1>3. CASE Cycle
  BY <1>3 DEF Cycle, TakeRaw, ProcessRaw, Accumulate, DrainAndPublish, DrainOnly, Publish
<1>4. CASE Leave
  BY <1>4 DEF Leave
<1>5. CASE Peek
  <2>1. inflight' \in Batch /\ sequence' \in Nat /\ pending' \subseteq Slices
    BY <1>5 DEF Peek, PeekPending
  <2> QED
    BY <1>5, <2>1 DEF Peek, Goto, At
<1>6. CASE Lock
  BY <1>6 DEF Lock, Goto, At
<1>7. CASE UpdateNothing
  BY <1>7 DEF UpdateNothing, Goto, At
<1>8. CASE UpdateAccepted
  BY <1>8 DEF UpdateAccepted, Add, Goto, At
<1>9. CASE UpdateFailed
  BY <1>9 DEF UpdateFailed, Add, Goto, At
<1>10. CASE Ack
  BY <1>10 DEF Ack, Acknowledge, Goto, At
<1>11. CASE UILock
  BY <1>11 DEF UILock
<1>12. CASE UIUnlock
  BY <1>12 DEF UIUnlock
<1>13. CASE Stop
  BY <1>13 DEF Stop
<1>14. CASE StopDrain
  BY <1>14 DEF StopDrain, Publish
<1>15. CASE UNCHANGED vars
  BY <1>15 DEF vars
<1> QED
  BY <1>1, <1>2, <1>3, <1>4, <1>5, <1>6, <1>7, <1>8, <1>9, <1>10, <1>11,
     <1>12, <1>13, <1>14, <1>15 DEF Next, UpdateHistory

(* Type correctness: every step keeps every member in its type.            *)
THEOREM TypeCorrect == Spec => []TypeOK
<1> QED
  BY TypeInit, TypeStep, PTL DEF Spec

-----------------------------------------------------------------------------
(* Taking m_raw moves what is upstream of the ledgers, and no more.         *)
LEMMA TakeRawMoves ==
  ASSUME TakeRaw, SourcesApart, taken = {}
  PROVE  Upstream' = Upstream /\ SourcesApart'
  BY DEF TakeRaw, Upstream, SourcesApart

LEMMA IdleStep == Idle /\ [Next]_vars => Idle'
<1> SUFFICES ASSUME Idle, [Next]_vars PROVE Idle'
  OBVIOUS
<1> USE DEF Idle, ledgers, sources, threads, sink
<1>1. CASE \E s \in Slices : OnEvent(s) \/ Emit(s)
  BY <1>1 DEF OnEvent, Emit
<1>2. CASE Cycle \/ Leave
  BY <1>2 DEF Cycle, TakeRaw, ProcessRaw, DrainAndPublish, DrainOnly, Leave
<1>3. CASE UpdateHistory
  BY <1>3 DEF UpdateHistory, Peek, Lock, UpdateNothing, UpdateAccepted,
     UpdateFailed, Ack, Goto, At
<1>4. CASE UILock \/ UIUnlock \/ Stop \/ StopDrain \/ UNCHANGED vars
  BY <1>4 DEF UILock, UIUnlock, Stop, StopDrain, vars
<1> QED
  BY <1>1, <1>2, <1>3, <1>4 DEF Next

LEMMA HandoffInit == Init => HandoffInv
<1> SUFFICES ASSUME Init PROVE HandoffInv
  OBVIOUS
<1>1. TypeOK
  BY TypeInit
<1>2. Roles
  <2>1. running /\ host = "run" /\ worker = "wait"
    BY Zenon DEF Init
  <2> QED
    BY <2>1 DEF Roles
<1>3. Numbers
  BY DEF Init, Numbers, NoBatch, At
<1>4. Added = {}
  BY DEF Init, Added
<1>5. NothingLost
  BY <1>4 DEF Init, NothingLost, Upstream, SourcesApart, NoBatch
<1>6. CopyIsInflight
  BY DEF Init, CopyIsInflight, At
<1>7. AddedOnce
  <2>1. history = [s \in Slices |-> 0]
    BY Zenon DEF Init
  <2>2. ASSUME NEW s \in Slices PROVE history[s] <= 1
    <3>1. history[s] = 0
      BY <2>1
    <3> QED
      BY <3>1
  <2> QED
    BY <2>2 DEF AddedOnce
<1> QED
  BY <1>1, <1>2, <1>3, <1>5, <1>6, <1>7 DEF Init, HandoffInv, Idle

(* Without exceptions that leave Update late, every step keeps the         *)
(* invariant; one step of the proof per action.                            *)
LEMMA HandoffStep ==
  ASSUME ThrowsLate = FALSE, HandoffInv, [Next]_vars
  PROVE  HandoffInv'
<1> USE DEF HandoffInv, TypeOK, Batch, NoBatch, ledgers, sources, threads, sink
<1>0. TypeOK' /\ Idle'
  BY TypeStep, IdleStep
<1>1. ASSUME NEW s \in Slices, OnEvent(s) PROVE HandoffInv'
  <2> USE <1>1 DEF OnEvent, Capture, Accumulate
  <2>1. Added' = Added /\ At("ack")' = At("ack")
    BY DEF Added, At
  <2>2. Roles' /\ Numbers'
    BY <2>1 DEF Roles, Numbers, At
  <2>3. NothingLost'
    BY <2>1 DEF NothingLost, Upstream, SourcesApart
  <2> QED
    BY <1>0, <2>2, <2>3 DEF CopyIsInflight, AddedOnce, At
<1>2. ASSUME NEW s \in Slices, Emit(s) PROVE HandoffInv'
  <2> USE <1>2 DEF Emit, Capture
  <2>1. Added' = Added /\ At("ack")' = At("ack")
    BY DEF Added, At
  <2>2. Roles' /\ Numbers'
    BY <2>1 DEF Roles, Numbers, At
  <2>3. NothingLost'
    BY <2>1 DEF NothingLost, Upstream, SourcesApart
  <2> QED
    BY <1>0, <2>2, <2>3 DEF CopyIsInflight, AddedOnce, At
<1>3. CASE Cycle
  <2> USE <1>3 DEF Cycle, TakeRaw, ProcessRaw, Accumulate, DrainAndPublish, DrainOnly
  <2>1. Added' = Added /\ At("ack")' = At("ack") /\ ~At("ack")
    BY DEF Added, At, Roles
  <2>2. Roles'
    BY DEF Roles
  <2>3. Numbers'
    BY <2>1 DEF Numbers
  <2>4. NothingLost'
    <3>1. CASE TakeRaw
      <4>1. Upstream' = Upstream /\ SourcesApart'
        BY <3>1, TakeRawMoves DEF NothingLost, Idle, TakeRaw
      <4> QED
        BY <2>1, <3>1, <4>1 DEF NothingLost
    <3>2. CASE ProcessRaw
      BY <2>1, <3>2 DEF NothingLost, Upstream, SourcesApart
    <3>3. CASE DrainAndPublish
      BY <2>1, <3>3 DEF NothingLost, Upstream, SourcesApart
    <3>4. CASE DrainOnly
      BY <2>1, <3>4 DEF NothingLost, Upstream, SourcesApart
    <3> QED
      BY <3>1, <3>2, <3>3, <3>4
  <2> QED
    BY <1>0, <2>2, <2>3, <2>4 DEF CopyIsInflight, AddedOnce, At
<1>4. CASE Leave
  <2> USE <1>4 DEF Leave
  <2>1. Added' = Added /\ At("ack")' = At("ack")
    BY DEF Added, At
  <2>2. Roles' /\ Numbers'
    BY <2>1 DEF Roles, Numbers, At
  <2>3. NothingLost'
    BY <2>1 DEF NothingLost, Upstream, SourcesApart
  <2> QED
    BY <1>0, <2>2, <2>3 DEF CopyIsInflight, AddedOnce, At
<1>5. CASE Peek
  <2> USE <1>5 DEF Peek
  <2>1. Added' = Added /\ ~At("ack") /\ ~At("ack")'
    BY DEF Added, At, Goto, Roles
  <2>2. Roles'
    BY DEF Roles, At, Goto
  <2>3. Numbers'
    BY <2>1 DEF Numbers, PeekPending
  <2>4. NothingLost'
    BY <2>1 DEF NothingLost, Upstream, SourcesApart, Numbers, PeekPending
  <2>5. CopyIsInflight'
    BY <2>1, <2>3 DEF CopyIsInflight, Numbers
  <2>6. AddedOnce'
    BY DEF AddedOnce
  <2> QED
    BY <1>0, <2>2, <2>3, <2>4, <2>5, <2>6
<1>6. CASE Lock
  <2> USE <1>6 DEF Lock
  <2>1. Added' = Added /\ ~At("ack") /\ ~At("ack")'
    BY DEF Added, At, Goto, Roles
  <2>2. Roles'
    BY DEF Roles, At, Goto
  <2>3. Numbers' /\ NothingLost'
    BY <2>1 DEF Numbers, NothingLost, Upstream, SourcesApart
  <2>4. CopyIsInflight' /\ AddedOnce'
    BY DEF CopyIsInflight, At, Goto, AddedOnce
  <2> QED
    BY <1>0, <2>2, <2>3, <2>4
<1>7. CASE UpdateNothing
  <2> USE <1>7 DEF UpdateNothing
  <2>1. Added' = Added /\ ~At("ack") /\ ~At("ack")'
    BY DEF Added, At, Goto, Roles
  <2>2. Roles'
    BY DEF Roles, At, Goto
  <2>3. Numbers' /\ NothingLost'
    BY <2>1 DEF Numbers, NothingLost, Upstream, SourcesApart
  <2>4. CopyIsInflight' /\ AddedOnce'
    BY DEF CopyIsInflight, At, Goto, AddedOnce, Roles
  <2> QED
    BY <1>0, <2>2, <2>3, <2>4
<1>8. CASE UpdateAccepted
  <2> USE <1>8 DEF UpdateAccepted
  <2>1. ~At("ack") /\ At("ack")' /\ batch = inflight
    BY DEF At, Goto, Roles, CopyIsInflight
  <2>2. batch.sequence # lastSeq
    BY <2>1 DEF Numbers
  <2>3. inflight.deltas \cap Added = {}
    BY <2>1 DEF NothingLost, Upstream, SourcesApart
  <2>4. history' = [s \in Slices |-> IF s \in inflight.deltas THEN history[s] + 1
                                                              ELSE history[s]]
    BY <2>1, <2>2 DEF Add
  <2>5. Added' = Added \cup inflight.deltas
    BY <2>4 DEF Added
  <2>6. AddedOnce'
    BY <2>3, <2>4 DEF AddedOnce, Added
  <2>7. Roles'
    BY DEF Roles, At, Goto
  <2>8. Numbers'
    BY <2>1, <2>5 DEF Numbers
  <2>9. NothingLost'
    BY <2>1, <2>3, <2>5 DEF NothingLost, Upstream, SourcesApart
  <2>10. CopyIsInflight'
    BY <2>1 DEF CopyIsInflight
  <2> QED
    BY <1>0, <2>6, <2>7, <2>8, <2>9, <2>10
<1>9. CASE UpdateFailed
  <2> USE <1>9 DEF UpdateFailed
  <2>1. Added' = Added /\ ~At("ack") /\ ~At("ack")'
    BY DEF Added, At, Goto, Roles
  <2>2. Roles'
    BY DEF Roles, At, Goto
  <2>3. Numbers' /\ NothingLost'
    BY <2>1 DEF Numbers, NothingLost, Upstream, SourcesApart
  <2>4. CopyIsInflight' /\ AddedOnce'
    BY DEF CopyIsInflight, At, Goto, AddedOnce, Roles
  <2> QED
    BY <1>0, <2>2, <2>3, <2>4
<1>10. CASE Ack
  <2> USE <1>10 DEF Ack
  <2>1. batch = inflight /\ At("ack") /\ ~At("ack")' /\ Added' = Added
    BY DEF At, Goto, Roles, CopyIsInflight, Added
  <2>2. inflight' = NoBatch /\ inflight.deltas \subseteq Added
    BY <2>1 DEF Acknowledge, Numbers
  <2>3. Roles'
    BY DEF Roles, At, Goto
  <2>4. Numbers'
    BY <2>1, <2>2 DEF Numbers
  <2>5. NothingLost'
    BY <2>1, <2>2 DEF NothingLost, Upstream, SourcesApart
  <2>6. CopyIsInflight' /\ AddedOnce'
    BY DEF CopyIsInflight, At, Goto, AddedOnce, Roles
  <2> QED
    BY <1>0, <2>3, <2>4, <2>5, <2>6
<1>11. ASSUME UILock \/ UIUnlock \/ UNCHANGED vars PROVE HandoffInv'
  <2> USE <1>11 DEF UILock, UIUnlock, vars
  <2>1. Added' = Added /\ At("ack")' = At("ack")
    BY DEF Added, At
  <2>2. Roles' /\ Numbers'
    BY <2>1 DEF Roles, Numbers
  <2>3. NothingLost'
    BY <2>1 DEF NothingLost, Upstream, SourcesApart
  <2> QED
    BY <1>0, <2>2, <2>3 DEF CopyIsInflight, AddedOnce, At
<1>12. CASE Stop
  <2> USE <1>12 DEF Stop
  <2>1. Added' = Added /\ At("ack")' = At("ack")
    BY DEF Added, At
  <2>2. Roles' /\ Numbers'
    BY <2>1 DEF Roles, Numbers
  <2>3. NothingLost'
    BY <2>1 DEF NothingLost, Upstream, SourcesApart
  <2> QED
    BY <1>0, <2>2, <2>3 DEF CopyIsInflight, AddedOnce, At
<1>13. CASE StopDrain
  <2> USE <1>13 DEF StopDrain, Publish
  <2>1. Added' = Added /\ ~At("ack") /\ ~At("ack")'
    BY DEF Added, At
  <2>2. Roles' /\ Numbers'
    BY <2>1 DEF Roles, Numbers
  <2>3. NothingLost'
    BY <2>1 DEF NothingLost, Upstream, SourcesApart
  <2> QED
    BY <1>0, <2>2, <2>3 DEF CopyIsInflight, AddedOnce, At
<1> QED
  BY <1>1, <1>2, <1>3, <1>4, <1>5, <1>6, <1>7, <1>8, <1>9, <1>10, <1>11,
     <1>12, <1>13 DEF Next, UpdateHistory

(* No exception leaves Update after it has added the batch: then the       *)
(* history adds no slice twice, however often it refuses a batch.          *)
THEOREM AddsOnce ==
  ASSUME ThrowsLate = FALSE
  PROVE  Spec => []AddedOnce
<1>1. Init => HandoffInv
  BY HandoffInit
<1>2. HandoffInv /\ [Next]_vars => HandoffInv'
  BY HandoffStep
<1>3. HandoffInv => AddedOnce
  BY DEF HandoffInv
<1> QED
  BY <1>1, <1>2, <1>3, PTL DEF Spec

(* Under the same assumption nothing captured is lost on its way: it is    *)
(* queued, pending, in flight or added, and never in two of these places.  *)
THEOREM LosesNothing ==
  ASSUME ThrowsLate = FALSE
  PROVE  Spec => []NothingLost
<1>1. Init => HandoffInv
  BY HandoffInit
<1>2. HandoffInv /\ [Next]_vars => HandoffInv'
  BY HandoffStep
<1>3. HandoffInv => NothingLost
  BY DEF HandoffInv
<1> QED
  BY <1>1, <1>2, <1>3, PTL DEF Spec

(* A batch in flight is frozen: it leaves whole, and only when every slice *)
(* of it has been added (PeekPending prepares a batch only when none is in *)
(* flight, and UpdateHistory acknowledges only after Update).              *)
THEOREM FrozenInFlight ==
  ASSUME ThrowsLate = FALSE
  PROVE  Spec => InflightFrozen
<1>1. Init => HandoffInv
  BY HandoffInit
<1>2. HandoffInv /\ [Next]_vars => HandoffInv'
  BY HandoffStep
<1>3. ASSUME HandoffInv, [Next]_vars, inflight.sequence # 0
      PROVE  inflight' = inflight \/ (inflight' = NoBatch /\ inflight.deltas \subseteq Added)
  <2> USE <1>3 DEF ledgers, sources, threads, sink
  <2>1. CASE Peek
    BY <2>1 DEF Peek, PeekPending
  <2>2. CASE Ack
    BY <2>2 DEF Ack, Acknowledge, HandoffInv, Numbers
  <2>3. CASE Cycle \/ Leave \/ Lock \/ UpdateNothing \/ UpdateAccepted \/ UpdateFailed
    BY <2>3 DEF Cycle, TakeRaw, ProcessRaw, DrainAndPublish, DrainOnly, Leave, Lock,
       UpdateNothing, UpdateAccepted, UpdateFailed
  <2>4. CASE UILock \/ UIUnlock \/ Stop \/ StopDrain \/ UNCHANGED vars
    BY <2>4 DEF UILock, UIUnlock, Stop, StopDrain, vars
  <2>5. CASE \E s \in Slices : OnEvent(s) \/ Emit(s)
    BY <2>5 DEF OnEvent, Emit
  <2> QED
    BY <2>1, <2>2, <2>3, <2>4, <2>5 DEF Next, UpdateHistory
<1>4. HandoffInv /\ [Next]_vars =>
        [inflight.sequence # 0 =>
           \/ inflight' = inflight
           \/ inflight' = NoBatch /\ inflight.deltas \subseteq Added]_vars
  BY <1>3
<1> QED
  BY <1>1, <1>2, <1>4, PTL DEF Spec, InflightFrozen

-----------------------------------------------------------------------------
(* What is upstream of the ledgers has not been counted or published.      *)
RatesInv ==
  /\ TypeOK
  /\ Idle
  /\ RatesOnce
  /\ SourcesApart
  /\ Upstream \cap (current \cup published) = {}

LEMMA RatesStep == RatesInv /\ [Next]_vars => RatesInv'
<1> SUFFICES ASSUME RatesInv, [Next]_vars PROVE RatesInv'
  OBVIOUS
<1> USE DEF RatesInv, RatesOnce, Upstream, SourcesApart, ledgers, sources, threads, sink
<1>0. TypeOK' /\ Idle'
  BY TypeStep, IdleStep
<1>1. ASSUME NEW s \in Slices, OnEvent(s) PROVE RatesInv'
  BY <1>0, <1>1 DEF OnEvent, Capture, Accumulate
<1>2. ASSUME NEW s \in Slices, Emit(s) PROVE RatesInv'
  BY <1>0, <1>2 DEF Emit, Capture
<1>3. CASE Cycle
  <2>1. CASE TakeRaw
    <3>1. Upstream' = Upstream /\ SourcesApart'
      BY <2>1, TakeRawMoves DEF Idle, TakeRaw
    <3> QED
      BY <1>0, <2>1, <3>1 DEF TakeRaw
  <2>2. CASE ProcessRaw
    BY <1>0, <2>2 DEF ProcessRaw, Accumulate
  <2>3. CASE DrainAndPublish
    BY <1>0, <2>3 DEF DrainAndPublish, Publish
  <2>4. CASE DrainOnly
    BY <1>0, <2>4 DEF DrainOnly, Accumulate
  <2> QED
    BY <1>3, <2>1, <2>2, <2>3, <2>4 DEF Cycle
<1>4. CASE Leave \/ UpdateHistory
  BY <1>0, <1>4 DEF Leave, UpdateHistory, Peek, Lock, UpdateNothing,
     UpdateAccepted, UpdateFailed, Ack
<1>5. CASE UILock \/ UIUnlock \/ Stop \/ UNCHANGED vars
  BY <1>0, <1>5 DEF UILock, UIUnlock, Stop, vars
<1>6. CASE StopDrain
  BY <1>0, <1>6 DEF StopDrain, Publish
<1> QED
  BY <1>1, <1>2, <1>3, <1>4, <1>5, <1>6 DEF Next

(* Every captured slice is counted in exactly one snapshot of the rates:   *)
(* whatever refusals and exceptions do to the history, m_current is        *)
(* filled and emptied in step with the snapshots.                          *)
THEOREM PublishedOnce == Spec => []RatesOnce
<1>1. Init => RatesInv
  <2>1. Init => TypeOK
    BY TypeInit
  <2> QED
    BY <2>1 DEF Init, RatesInv, Idle, RatesOnce, Upstream, SourcesApart
<1>2. RatesInv => RatesOnce
  BY DEF RatesInv
<1> QED
  BY <1>1, <1>2, RatesStep, PTL DEF Spec
=============================================================================
