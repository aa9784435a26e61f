---------------------------- MODULE BatchHandoff ----------------------------
(***************************************************************************)
(* How captured traffic reaches the history: CHybridTrafficCollector's     *)
(* ledgers m_current, m_pending and m_inflight, its worker thread, and     *)
(* CProcNetPlugin::UpdateHistory, which the worker calls once a second and *)
(* the plugin's destructor calls a last time.                              *)
(*                                                                         *)
(* Threads: the capture callbacks (ETW, EStats, proof session), the        *)
(* worker, the host that runs the destructor, and the user interface,      *)
(* which takes m_historyMutex for its queries.  A step is a critical       *)
(* section of m_mutex or a stretch of code under m_historyMutex.           *)
(*                                                                         *)
(* A slice stands for the bytes of one observation.  The history store is  *)
(* what its contract says (module HistoryLedger): Update either adds the   *)
(* batch to its totals or refuses it; an exception may also leave it.      *)
(*                                                                         *)
(* An operator named after another with a suffix (_bug, _copies)           *)
(* is a plausible slip in the code of the operator after it.  No behaviour *)
(* uses one; they show which property notices which slip.                  *)
(***************************************************************************)
EXTENDS Naturals

CONSTANTS
  Slices,          \* what may be captured
  MaxRefusals,     \* bound on refusals and exceptions of Update
  ThrowsLate,      \* may an exception leave Update after it added the batch?
  None

ASSUME HandoffAssumption ==
  /\ MaxRefusals \in Nat
  /\ ThrowsLate \in BOOLEAN
  /\ None \notin Slices

VARIABLES
  \* CHybridTrafficCollector, under m_mutex.
  running,    \* m_running
  raw,        \* m_raw: events kept for the next cycle
  slices,     \* what the source tracker has decided and TakeSlices will return
  current,    \* m_current: the rates of the next publication
  published,  \* the slices of every m_snapshot so far
  pending,    \* m_pending
  inflight,   \* m_inflight: sequence 0 when there is none
  sequence,   \* m_sequence
  \* The worker thread and the destructor.
  worker,     \* where Run is
  host,       \* where the destructor is
  taken,      \* Run's local copy of m_raw
  odd,        \* has Run made an odd number of cycles?
  \* UpdateHistory.
  batch,      \* the copy PeekPending returned
  lastSeq,    \* m_lastHistorySampleSequence
  mutex,      \* who holds m_historyMutex: None, "sink" or "ui"
  history,    \* how often the history has added each slice
  \* Observation.
  captured,   \* every slice ever captured
  refusals    \* failed Updates so far

ledgers  == <<current, published, pending, inflight, sequence>>
sources  == <<raw, slices, taken>>
threads  == <<worker, host, odd, running>>
sink     == <<batch, lastSeq, mutex, history, refusals>>
vars     == <<ledgers, sources, threads, sink, captured>>

NoBatch == [sequence |-> 0, deltas |-> {}]

Init ==
  /\ running = TRUE /\ raw = {} /\ slices = {} /\ taken = {}
  /\ current = {} /\ published = {}
  /\ pending = {} /\ inflight = NoBatch /\ sequence = 0
  /\ worker = "wait" /\ host = "run" /\ odd = FALSE
  /\ batch = NoBatch /\ lastSeq = 0 /\ mutex = None
  /\ history = [s \in Slices |-> 0]
  /\ captured = {} /\ refusals = 0

-----------------------------------------------------------------------------
(* The capture threads.  An event is kept in m_raw, or left to the source  *)
(* tracker, or ambiguous: then an uncertainty marker enters the ledgers.   *)
Accumulate(S) ==
  /\ current' = current \cup S
  /\ pending' = pending \cup S

Capturing == running \/ host = "stop"

Capture(s) ==
  /\ Capturing /\ s \notin captured
  /\ captured' = captured \cup {s}

OnEvent(s) ==
  /\ Capture(s)
  /\ \/ raw' = raw \cup {s} /\ UNCHANGED <<current, pending>>
     \/ Accumulate({s}) /\ UNCHANGED raw
  /\ UNCHANGED <<published, inflight, sequence, slices, taken, threads, sink>>

(* OnProof, Observe and Expire of the tracker emit decided slices.         *)
Emit(s) ==
  /\ Capture(s)
  /\ slices' = slices \cup {s}
  /\ UNCHANGED <<ledgers, raw, taken, threads, sink>>

-----------------------------------------------------------------------------
(* Run, every half second: take m_raw, account for it, drain the tracker;  *)
(* every second cycle publishes and calls the sink.                        *)
TakeRaw ==
  /\ worker = "wait" /\ running
  /\ taken' = raw /\ raw' = {}
  /\ worker' = "process"
  /\ UNCHANGED <<ledgers, slices, host, odd, running, sink, captured>>

ProcessRaw ==
  /\ worker = "process"
  /\ Accumulate(taken) /\ taken' = {}
  /\ worker' = "drain"
  /\ UNCHANGED <<published, inflight, sequence, raw, slices>>
  /\ UNCHANGED <<host, odd, running, sink, captured>>

Publish_bug(rates) ==
  /\ published' = published \cup rates
  /\ current' = rates

Publish(rates) ==
  /\ published' = published \cup rates
  /\ current' = {}

(* RecordCaptureHealth may add a marker of its own before the publication. *)
DrainAndPublish ==
  /\ worker = "drain" /\ odd
  /\ \E marker \in {{}} \cup {{s} : s \in Slices \ captured} :
       /\ captured' = captured \cup marker
       /\ pending' = pending \cup slices \cup marker
       /\ Publish(current \cup slices \cup marker)
  /\ slices' = {} /\ odd' = FALSE
  /\ worker' = "peek"
  /\ UNCHANGED <<inflight, sequence, raw, taken, host, running, sink>>

DrainOnly ==
  /\ worker = "drain" /\ ~odd
  /\ Accumulate(slices)
  /\ slices' = {} /\ odd' = TRUE
  /\ worker' = "wait"
  /\ UNCHANGED <<published, inflight, sequence, raw, taken, host, running, sink, captured>>

Leave_bug ==
  /\ worker = "wait" /\ ~running /\ raw = {}
  /\ worker' = "left"
  /\ UNCHANGED <<ledgers, sources, host, odd, running, sink, captured>>

Leave ==
  /\ worker = "wait" /\ ~running
  /\ worker' = "left"
  /\ UNCHANGED <<ledgers, sources, host, odd, running, sink, captured>>

-----------------------------------------------------------------------------
(* UpdateHistory, by the worker or, after the join, by the destructor:     *)
(* PeekPending before the mutex, then Update and Acknowledge under it.     *)
PeekPending_bug ==
  IF pending # {}
  THEN /\ inflight' = [sequence |-> sequence + 1, deltas |-> pending]
       /\ sequence' = sequence + 1
       /\ pending' = {}
  ELSE UNCHANGED <<inflight, sequence, pending>>

PeekPending_copies ==
  IF inflight.sequence = 0 /\ pending # {}
  THEN /\ inflight' = [sequence |-> sequence + 1, deltas |-> pending]
       /\ sequence' = sequence + 1
       /\ UNCHANGED pending
  ELSE UNCHANGED <<inflight, sequence, pending>>

PeekPending ==
  IF inflight.sequence = 0 /\ pending # {}
  THEN /\ inflight' = [sequence |-> sequence + 1, deltas |-> pending]
       /\ sequence' = sequence + 1
       /\ pending' = {}
  ELSE UNCHANGED <<inflight, sequence, pending>>

Acknowledge_bug(seq) ==
  inflight' = IF seq < inflight.sequence THEN NoBatch ELSE inflight

Acknowledge(seq) ==
  inflight' = IF seq # 0 /\ seq = inflight.sequence THEN NoBatch ELSE inflight

At(place) == worker = place \/ host = place
Goto(from, workerTo, hostTo) ==
  IF worker = from THEN worker' = workerTo /\ UNCHANGED host
                   ELSE host' = hostTo /\ UNCHANGED worker

Peek ==
  /\ At("peek")
  /\ PeekPending
  /\ batch' = inflight'
  /\ Goto("peek", "lock", "lock")
  /\ UNCHANGED <<current, published, odd, running>>
  /\ UNCHANGED <<lastSeq, mutex, history, refusals, sources, captured>>

Lock ==
  /\ At("lock") /\ mutex = None
  /\ mutex' = "sink"
  /\ Goto("lock", "update", "update")
  /\ UNCHANGED <<ledgers, odd, running, batch, lastSeq, history, refusals, sources, captured>>

Add(S) == history' = [s \in Slices |-> IF s \in S THEN history[s] + 1 ELSE history[s]]

(* Nothing to deliver: only Checkpoint.                                    *)
UpdateNothing ==
  /\ At("update") /\ batch.sequence = 0
  /\ mutex' = None
  /\ Goto("update", "wait", "gone")
  /\ UNCHANGED <<ledgers, odd, running, batch, lastSeq, history, refusals, sources, captured>>

UpdateAccepted ==
  /\ At("update") /\ batch.sequence # 0
  /\ IF batch.sequence = lastSeq THEN UNCHANGED history ELSE Add(batch.deltas)
  /\ lastSeq' = batch.sequence
  /\ Goto("update", "ack", "ack")
  /\ UNCHANGED <<ledgers, odd, running, batch, mutex, refusals, sources, captured>>

(* Update returned false, or an exception left it; the worker's catch      *)
(* counts it, and either way the batch stays in flight.                    *)
UpdateFailed_bug ==
  /\ At("update") /\ batch.sequence \notin {0, lastSeq}
  /\ refusals < MaxRefusals
  /\ refusals' = refusals + 1
  /\ UNCHANGED history
  /\ Goto("update", "ack", "ack")
  /\ UNCHANGED <<ledgers, odd, running, batch, lastSeq, mutex, sources, captured>>

UpdateFailed ==
  /\ At("update") /\ batch.sequence \notin {0, lastSeq}
  /\ refusals < MaxRefusals
  /\ refusals' = refusals + 1
  /\ \/ UNCHANGED history
     \/ ThrowsLate /\ Add(batch.deltas)
  /\ mutex' = None
  /\ Goto("update", "wait", "gone")
  /\ UNCHANGED <<ledgers, odd, running, batch, lastSeq, sources, captured>>

Ack ==
  /\ At("ack")
  /\ Acknowledge(batch.sequence)
  /\ mutex' = None
  /\ Goto("ack", "wait", "gone")
  /\ UNCHANGED <<current, published, pending, sequence, odd, running>>
  /\ UNCHANGED <<batch, lastSeq, history, refusals, sources, captured>>

-----------------------------------------------------------------------------
(* The user interface's queries and exports.                               *)
UILock ==
  /\ mutex = None /\ host = "run"
  /\ mutex' = "ui"
  /\ UNCHANGED <<ledgers, threads, batch, lastSeq, history, refusals, sources, captured>>

UIUnlock ==
  /\ mutex = "ui"
  /\ mutex' = None
  /\ UNCHANGED <<ledgers, threads, batch, lastSeq, history, refusals, sources, captured>>

(* ~CProcNetPlugin: Stop ends the worker, drains what the capture threads  *)
(* left behind and publishes; then UpdateHistory runs once more.           *)
Stop ==
  /\ host = "run" /\ mutex # "ui"
  /\ host' = "stop" /\ running' = FALSE
  /\ UNCHANGED <<ledgers, worker, odd, sink, sources, captured>>

StopDrain_bug ==
  /\ host = "stop" /\ worker = "left"
  /\ pending' = pending \cup slices
  /\ slices' = {}
  /\ Publish(current \cup slices)
  /\ host' = "peek"
  /\ UNCHANGED <<inflight, sequence, raw, taken, worker, odd, running, sink, captured>>

StopDrain ==
  /\ host = "stop" /\ worker = "left"
  /\ pending' = pending \cup raw \cup slices
  /\ raw' = {} /\ slices' = {}
  /\ Publish(current \cup raw \cup slices)
  /\ host' = "peek"
  /\ UNCHANGED <<inflight, sequence, taken, worker, odd, running, sink, captured>>

-----------------------------------------------------------------------------
Cycle == TakeRaw \/ ProcessRaw \/ DrainAndPublish \/ DrainOnly

UpdateHistory == \/ Peek \/ Lock \/ UpdateNothing
                 \/ UpdateAccepted \/ UpdateFailed \/ Ack

Next ==
  \/ \E s \in Slices : OnEvent(s) \/ Emit(s)
  \/ Cycle \/ Leave \/ UpdateHistory
  \/ UILock \/ UIUnlock
  \/ Stop \/ StopDrain

Spec == Init /\ [][Next]_vars

(* The worker's timer fires, a started UpdateHistory goes on, the user     *)
(* interface releases the mutex, and the mutex is granted in the end.      *)
Fairness ==
  /\ WF_vars(Cycle) /\ WF_vars(Leave) /\ WF_vars(StopDrain)
  /\ WF_vars(Peek) /\ SF_vars(Lock) /\ WF_vars(UIUnlock)
  /\ WF_vars(UpdateNothing) /\ WF_vars(UpdateAccepted) /\ WF_vars(Ack)

FairSpec == Spec /\ Fairness

-----------------------------------------------------------------------------
(* Every member has a value of its type.                                   *)
Batch == [sequence : Nat, deltas : SUBSET Slices]

TypeOK ==
  /\ running \in BOOLEAN /\ odd \in BOOLEAN
  /\ raw \subseteq Slices /\ slices \subseteq Slices /\ taken \subseteq Slices
  /\ captured \subseteq Slices
  /\ current \subseteq Slices /\ published \subseteq Slices
  /\ pending \subseteq Slices /\ inflight \in Batch /\ batch \in Batch
  /\ sequence \in Nat /\ lastSeq \in Nat /\ refusals \in Nat
  /\ worker \in {"wait", "process", "drain", "peek", "lock", "update", "ack", "left"}
  /\ host \in {"run", "stop", "peek", "lock", "update", "ack", "gone"}
  /\ mutex \in {None, "sink", "ui"}
  /\ history \in [Slices -> Nat]

(* "Failed writes retry the same batch instead of accumulating it again":  *)
(* however often Update refuses, and whatever is captured meanwhile, the   *)
(* history never adds a slice twice.                                       *)
AddedOnce == \A s \in Slices : history[s] <= 1

(* Captured traffic is in exactly one place until the history has it: it   *)
(* is upstream of the ledgers, pending or in flight, or added.  Only       *)
(* between Update and Acknowledge is a slice both added and in flight.     *)
Upstream == raw \cup slices \cup taken

SourcesApart ==
  raw \cap slices = {} /\ raw \cap taken = {} /\ slices \cap taken = {}

Added == {s \in Slices : history[s] > 0}

NothingLost ==
  /\ captured = Upstream \cup pending \cup inflight.deltas \cup Added
  /\ SourcesApart
  /\ Upstream \cap pending = {}
  /\ (Upstream \cup pending) \cap (inflight.deltas \cup Added) = {}
  /\ (inflight.deltas \cap Added # {}) => (At("ack") /\ lastSeq = inflight.sequence)

(* The sink works on a copy taken before it has the history mutex; the     *)
(* copy is still the batch in flight when the sink uses it, and two        *)
(* batches never share a sequence number.                                  *)
CopyIsInflight ==
  (At("lock") \/ At("update") \/ At("ack")) =>
     /\ batch = inflight
     /\ batch.sequence # 0 => batch.sequence >= lastSeq

(* A batch in flight is immutable: it leaves only whole, and only after    *)
(* the history has added every slice of it.                                *)
InflightFrozen ==
  [][inflight.sequence # 0 =>
       \/ inflight' = inflight
       \/ inflight' = NoBatch /\ inflight.deltas \subseteq Added]_vars

(* Every slice is published in exactly one snapshot, or is about to be.    *)
RatesOnce ==
  /\ current \cap published = {}
  /\ captured = Upstream \cup current \cup published

(* Without the destructor, everything captured reaches the history.        *)
Delivered ==
  \A s \in Slices : (s \in captured) ~> (s \in Added \/ ~running)

(* The destructor ends; and when no Update has ever failed, the history    *)
(* then has everything that was captured.                                  *)
ExitEnds == (host = "stop") ~> (host = "gone" /\ (refusals = 0 => captured = Added))
=============================================================================
