# TrafficMonitor per-process traffic plugin: TLA+ models and proofs

This directory models the plugin under `src/ProcessTrafficPlugin`: how observed
traffic becomes history that survives crashes, without a byte counted twice or
forgotten, from the capture sessions to the files on disk. Paths below are
relative to `src/ProcessTrafficPlugin` unless they start with another directory.

## The system

| Component | State | Operations | Hard behaviour |
|---|---|---|---|
| ETW session (`EtwProcNetCollector.cpp`) | trace handles, running flag, loss counters | Start, Stop, WorkerLoop, HandleEventRecord | Stop against OpenTrace; sessions left behind by a dead process |
| TCP proof session (`TcpProofCollector.cpp`) | session, health counters | Start, Stop, Run, Handle | the same, and health that is reset while events arrive |
| EStats collector (`TcpEStatsCollector.cpp`) | per-connection counters, baselines | Poll, Visit, ApplyCounters, Stop | counter resets, failing reads, tuple reuse |
| TCP source tracker (`TcpSourceTracker.cpp`) | per-connection mode, credited ranges, windows | KeepLegacy, OnProof, Observe, Expire, Finish, TakeSlices | two sources for the same bytes on three threads; sequence wrap; caps |
| Hybrid collector (`HybridTrafficCollector.cpp`) | m_raw, m_flows, m_current, m_pending, m_inflight, worker | OnEvent, Run, Publish, PeekPending, Acknowledge, Stop | interleaving with the sink, refused batches |
| Plugin (`ProcNetPlugin.cpp`) | m_lastHistorySampleSequence, m_historyMutex | UpdateHistory, DataRequired, destructor | exactly-once delivery over retries |
| Application history (`HistoryTrafficStore.cpp`) | daily file, append.pending, current.commit, current.tmp, state file, quality file; the minute in RAM | Update, Checkpoint, FlushCurrentMinute, AppendHistoryEntries, RecoverAppend, EnsureLoaded | a crash or a failing write between any two file operations; clocks that go back |
| Application dictionary (same file) | apps.tsv, id maps | EnsureAppId, Load/SaveAppDictionary | an id used before it is saved |
| Summaries, archives, ranges, export (same file) | derived files | EnsureCompletedSummaries, AddRangeTotals, ExportRange | stale derived files |
| Network totals (`NetworkTraffic*.cpp`) | adapter baseline; daily adapter files and checkpoint | Sample, Observe, Add, Flush, Append, RecoverCheckpoint | adapter changes, torn lines, repeated appends |
| User interface, host glue, utilities | windows, text | | out of scope |
| Migration tool (`src/HistoryTrafficTool`) | directory tree, backup | Upgrade, Run, Activate | roll-back after a failing rename |

The capture threads put events into the hybrid collector and the source
tracker under `m_mutex`. The worker drains both every 500 ms; every second
cycle it publishes rates and calls `UpdateHistory`, which takes
a batch with `PeekPending`, gives it to the history store under `m_historyMutex`
and acknowledges it. The user interface queries the stores under the same
mutex. The history store keeps the running minute in RAM, saves it to
`current.tmp` about every nine seconds, and moves it to the daily file when the
clock shows another minute.

What makes them correct: *history*: nothing checkpointed is lost or counted
twice, whatever a restart finds; provenance and totals agree with the bytes.
*Hand-off*: every observation reaches the history exactly once and one
snapshot. *Tracker*: a byte is credited by one source, or its connection is marked.
*Ownership*: bytes never go to a process that was born after them. *Dictionary*:
a number on disk keeps its name. *Network store*: the same as the history, per
adapter. *Sessions*: Stop always ends and leaves nothing behind, nothing of
others is stopped, no loss is forgotten. *Tool*: the old or the new history is
in place after any failure.

## Modules

| Module | What it is |
|---|---|
| `HistoryStore` | commit protocol of the application history, one step per file operation |
| `HistoryStoreProps` | its type invariant, safety, action and liveness properties and the refinement mapping |
| `HistoryStoreProofs` | TLAPS proofs of type correctness, of the safety and action properties and of the refinement |
| `HistoryLedger` | what the history promises, without files |
| `BatchHandoff` | ledgers, worker, `UpdateHistory` and destructor, with their properties |
| `BatchHandoffProofs` | TLAPS proofs about `BatchHandoff` |
| `Ownership` | who gets the bytes of a process id, and which intervals are uncertain, with their properties |
| `OwnershipProofs` | TLAPS proofs about `Ownership` |
| `TcpSourceTracker` | the tracker of TCP byte ranges: operators from one state to the next |
| `TcpEStats` | the EStats collector: operators likewise |
| `TcpPaths` | composes both with the kernel, the two event streams and the hybrid collector |
| `TcpPathsProps` | their properties |
| `TcpPathsInv` | the inductive invariant of `TcpPaths` (definitions only) |
| `TcpPathsProofs` | TLAPS proofs about `TcpPaths` |
| `EtwSession`, `ProofSession` | the two capture sessions |
| `CaptureSessions` | composes them with the threads that start, ask and stop them, with their properties |
| `CaptureSessionsProofs` | TLAPS proofs about `CaptureSessions` |
| `AppDictionary` | `apps.tsv` and the numbers of applications, with their properties |
| `AppDictionaryProofs` | TLAPS proofs about `AppDictionary` |
| `NetworkSampler` | choice of the adapter and intervals of the collector, with their properties |
| `NetworkSamplerProofs` | TLAPS proofs about `NetworkSampler` |
| `NetworkStore` | the adapter totals: merging, queue, checkpoint and append |
| `NetworkStoreProps` | its safety, action and liveness properties |
| `NetworkStoreProofs` | TLAPS proofs of its safety and action properties |
| `MC...` | the instances for TLC |

### HistoryStore

A public call runs under `m_historyMutex`, so calls do not interleave; what
interleaves is the process's death and the failing of file operations. The
model is therefore one program counter `pc` and one action per file operation;
between two actions `Crash` may empty every member. `Fault` stands for a failing
write, rename or deletion, `ReadFault` for a marker that exists and cannot be
read. Operations whose error the code ignores (deleting the checkpoint) have a
failing branch that goes on.

| Variable | Code |
|---|---|
| `day` | the daily file: one row per application and minute, in file order |
| `journal` | `append.pending` (RawAppendHeader and block) |
| `commit` | `current.commit` (minute and transaction of the last commit) |
| `checkpoint` | `current.tmp` |
| `stateAll` | `all_time` of `app_traffic_state.tsv`; its other fields do not matter here |
| `quality` | `.quality.tsv` |
| `cur` | `m_currentMinuteKey`, `m_currentMinuteTotals`, `m_currentEngine`, `m_currentCommitId` |
| `allTime`, `hasAllTime`, `ckptDirty`, `stateDirty` | the members of the same names |
| `tickZero` | `m_lastCheckpointTick == 0`: a checkpoint is due at once |
| `shown` | bytes of `m_bucketByApp`, what queries of today read |
| `applied`, `durable` | observation only: what Update took, what a checkpoint has saved |

Abstractions: a batch is one byte for each of `Rows` applications or, in `Gaps`,
an uncertainty marker; totals are sets of batches, so that a batch counted twice
is seen and not only a wrong sum. One daily file stands for all days. Torn
writes of a single file do not appear: the code writes a temporary file and
renames it, except for the daily file, which grows row by row here, and the
quality file, whose torn lines the code separates. Corrupt files, and
checkpoints and state files of older versions (with the repair at 2600), are
left out. A checkpoint may be saved at any `Checkpoint` call (force, or nine
seconds have passed); without `tickZero` or `stateDirty` it may also be skipped.
Inside `AppendHistoryEntries` the branch for an older journal (3023-3029) cannot
be reached, because the flush has just recovered it.

### BatchHandoff

One action per critical section of `m_mutex` or stretch under
`m_historyMutex`. `worker` is where Run is, `host` where the destructor is;
both use the same UpdateHistory actions, which `At` and `Goto` dispatch. A
slice is the bytes of one observation or one uncertainty marker. `raw`, `taken` and
`slices` are m_raw, Run's local copy of it and the tracker's slices; `current`,
`pending`, `inflight` are the ledgers. The history is its contract: Update adds
a batch to its totals or refuses it; with `ThrowsLate` an exception may leave it
after the addition. The shipped plugin never deletes its instance
(`CProcNetPlugin::Instance`), so in production the destructor's part is what
the class promises an owner, and process exit is the `Crash` of HistoryStore.

### AppDictionary

A record on disk holds the number of its application, `apps.tsv` the name of
each number. `EnsureAppId` gives a new application its number by writing
`apps.tsv.new` and renaming it (`Assign`, `AssignFails`), and only then is the
block or the checkpoint written (`Write`). A save ends in one of three ways: it
succeeds (`Assign`), it is reported as failed and the number taken back
(`AssignFails`), or `create_directories` throws and the number stays in memory,
unsaved, where the next call finds it (`AssignThrows`; the worker swallows the
exception, `HybridTrafficCollector.cpp:352`). `thrown` observes those entries.
`names` is `m_appNameById`, of which `m_appIdByName` is the inverse, `next` is
`m_nextAppId`, `record` the numbers on disk with the applications they were
written for, which no decision reads but the load of a checkpoint: one that
holds a number without a name blocks the store (`MayBlock`). A rename may be
reported as failed though it happened. A process may die anywhere; while none
runs, the file may be removed or damaged. The files `RequiresAppDictionary`
looks for are those of `record`.

### Ownership

An event names a process id, never a process. `OnEvent` collects events in
`raw` (m_raw) under their key, or under the empty key when the table is full;
`Take`, `QueryOwner` and `ProcessRaw` are the stretches of Run between locks and
questions to Windows: take the table, ask which process has the id *now*, give
the bytes to it if it is old enough, to the owner of the connection, or to nobody
(`Tabled`, `FlowNow` and `Account` are ProcessRaw for the keys that get a place in
m_flows, the flow of one of them afterwards, and the slice it is given).
All connections here share the one id that is used again. A process is named by
its place among those that had the id, which is also what time is. `flows` is
m_flows, with the owner and the number of a connection; some keys have no number,
as UDP has none. The rest of the module is the marking of intervals:
`GetDiagnostics` reads the counters outside the lock (or fails), and
`RecordCaptureHealth` marks the interval when they moved or the one before was
marked. A session that has ended is a query that failed. What the source tracker
decides about an event is in TcpPaths.

### TcpSourceTracker, TcpEStats, TcpPaths

The tracker and the EStats collector are called under a lock, or by one thread,
so every public function is one operator from a state to the next:
`OnProof(t, e)`, `KeepLegacy(t, e)`, `Observe(t, s)`, `SetHealth`, `Expire`,
`Finish`; `Poll(...)`, and `Refreshed(...)` for the last look of Stop. `TcpPaths` makes
them actions with the locking of the hybrid collector: `DeliverProof` and
`DeliverEvent` are the callbacks, `PollEStats` reads without the lock and `Work`
gives the observations to the tracker under it; `BeginStop`, `LastSamples`,
`LastLook`, `Release` and `EndStop` are Stop. `Release` gives back one
connection by its tuple, whatever has the tuple by then: the kernel and other
programs go on between `LastLook` and it. The kernel is external: it opens and
closes connections, moves, acknowledges and sends again bytes, and raises the
events of the two sessions for each. Proof events arrive in order; legacy events
may overtake each other within `reach`; either session may lose events and
counts what it lost.

| Variable | Code |
|---|---|
| `tracker.conn`, `.alias` | `m_connections` by tcb, and by key |
| `tracker.window`, `.bloom`, `.retiredBefore` | lifetime windows; the guard of the reclaimed ones |
| `tracker.legacy` | the prefix counted from legacy events, per key |
| `tracker.paid`, `.marked` | slices handed over, summed up; lives with an uncertain slice |
| `tracker.mistaken` | observation only: lives switched on the prefix of another life of their key |
| `estats.conn` | `CTcpEStatsCollector::m_connections` |
| `reading` | what Poll returned and `Work` has not used yet |
| `kept`, `blind` | bytes `OnEvent` counted, with and without their endpoints |
| `flows` | observation only: what each life really transferred |

A list of spans is the set of the byte positions it covers, which is what a
sorted list of disjoint spans stands for; the number of its maximal intervals is
the number of spans. Sequence numbers wrap at `Cycle`, 2^32 in the code. The
Bloom guard is `Slots`, the bits of each key.

### EtwSession, ProofSession, CaptureSessions

The kernel logger is one per machine: the worker starts it or joins it, and
other programs may stop it and start their own. It is stopped by its name, whoever
has it now (`EndsLogger`). The proof session is named
after its process and outlives it. `EtwSession` has the worker, one action per
call of the system, and operators for what the caller of Start and Stop does;
`ProofSession` has Start and StopLocked as operators around the join, and its
thread. `CaptureSessions` has the caller (`CallStart` ... `StopLast`, in the order
of CHybridTrafficCollector), the hybrid thread that asks for losses, the machine
and the death of the process. A system call may fail where the code has an error
path. Handles and sessions are numbers, so that one closed twice is seen.
`stuck` says that the code's only try to stop the logger failed.

### NetworkSampler

`CNetworkTrafficCollector` is called once a second under `m_historyMutex`
(`ProcNetPlugin.cpp:169`). One `Observe` is one action, in four disjuncts named
for how it ends: `Lost`, `Repeat` (the early return for two samples at one
time), `Report`, `Baseline`. `preferred`, `previous`, `previousTick`,
`previousUtc`, `idleSince`, `hasBaseline` and `status` are the members; `octets`,
`instance`, `up`, `tick` and `utc` are what Windows shows, and change between
samples: traffic passes, counters restart, an interface is made again under the
same GUID, adapters connect and disconnect, the wall clock is set. An adapter
has one counter where the code has two it treats alike. Rates, names and the
coarse mark, which the collector never reads again, are left out. The other
variables only observe: `flowed` is what has really passed, `reported` what the
intervals say, `run` the counter at the last baseline and the bytes since.

### NetworkStore

A record is an identity, a minute and the set of the intervals merged into it,
so that an interval counted twice is seen and not only a wrong sum. As in
`HistoryStore` calls do not interleave (all run under `m_historyMutex`); `pc`
stands between two file operations, where a process may die or a write fail.

| Variable | Code |
|---|---|
| `file` | the day files: records, then perhaps a torn line. A file without a record counts as torn, because its first line is written with its first record |
| `summed` | days whose `.sum` file has the day file's size and time |
| `saved` | `pending.tsv`; `damaged` if a line is refused |
| `known` | `m_days`: what was last read of a day file |
| `pending`, `current`, `nextId`, `dirty`, `healthy`, `corrupt` | `m_pending`, `m_current`, `m_nextId`, `m_dirty`, `m_writeHealthy`, `m_checkpointCorrupt` |
| `zone` | the time zone Windows is set to, which decides the day of a record |
| `added`, `durable` | observation only: what the store has taken, what a SaveCheckpoint has written |

Whether an interval continues the current record depends on adapters, gaps and
the coarse mark; the model takes either choice within a minute. Whether
`Add` saves (ten seconds) is a choice too, `AfterAdd`. A file is replaced as a
whole (`AtomicWrite`); a line is written to a day file not at all, in part or
wholly, and may be whole though the call reports failure. A summary is
written by `RefreshDay` or not (`SaveSummary` ignores errors). A
damaged record is one `Decode` refuses. The time zone changes between calls
only. Left out: a second Initialize with another directory, directories that
cannot be made, overflow of byte counts, covered time, range queries, export.

## Runs

| Run | Question | Bounds |
|---|---|---|
| `history_faults` | every safety property, the refinement and the liveness, with faults and deaths | 3 batches (one without bytes), 3 minutes, 2 rows, 2 faults, 2 deaths |
| `history_outside` | clocks that go back, unreadable markers, a daily file somebody edits | 2 minutes, 2 times, 1 read fault, 1 edit, 2 deaths |
| `handoff` | exactly once under every interleaving; delivery, and the end of the destructor | 3 slices, 2 refusals |
| `network` | exactly once, from RAM and after a restart; time zone, damaged files, liveness | 2 intervals, 2 days of one minute, 3 identities, 2 zones, 2 faults, 1 death, 1 damaged file, 1 change of the zone |
| `sampler` | what intervals say, and the choice | 2 adapters, 5 ticks, counters up to 2, idle limit 2, drift limit 1, 2 odd events |
| `tcp` | each byte from one source or marked | 1 key, 2 tcbs, 5 plans of at most 2 lives, 2 bytes, 3 polls and 1 fault; cycle 4, 2 spans, 1 window |
| `sessions` | Stop, leftovers, others, losses | 2 loggers, 2 handles, 1 lost event, 3 births, 2 proof sessions; 3 starts, failures and moves of others together |
| `dictionary` | numbers and names | 3 applications, 3 numbers, 3 troubles |
| `ownership` | reuse of a process id, caps, marks | 2 keys, 3 events, 2 processes, tables of one entry, 3 troubles |
| `history_all_time`, `handoff_throws`, `tcp_reuse` | the findings below | smallest that show them |

Two minutes are needed for a commit, a third for one that follows a
recovered one; three batches give a minute with two batches and another minute.
Two rows are the least that a torn block needs. Two faults fail a
step and the code's reaction to it (a failed append followed by a failed second
SaveCheckpoint); two deaths interrupt a recovery of an interrupted flush. In
the hand-off three slices let one be in flight, one pending and one upstream
of the ledgers; a second refusal refuses a retry. The batches with bytes
are interchangeable and used with symmetry in the run without liveness.

Of the network store, two intervals give a record of two samples or two
records, in one day or over midnight and back; three identities leave one for
after a restart, and a new process may go above the bound for its first
record. Two faults fail an append and its retry. What others do to the store, a
damaged file or a change of the zone, is combined with at most one fault or
death (`Apart`). Of the sampler, five ticks are more than twice the idle limit,
and jumps of the clock are above the drift limit; two odd events combine, say, a
replaced interface with a clock that is set.

In `tcp` each behaviour follows a plan: a received stream that ends with a FIN,
a sent byte, both directions, a key used again with a fault anywhere, and a key
used again with events that overtake each other and meet closed and reclaimed
windows. Two polls are what a switch needs, the third reads after it (Stop reads
once more in any case). `tcp_reuse` has one plan, a key used again before the
proof session has caught up, with room for six events on their way. The origins
are one below the wrap, so that the second byte of every stream wraps. In
`sessions` three moves let a start, a failing stop and a death or a foreign stop
coincide. In `ownership` events and troubles do not meet in one behaviour
(`Apart`): the marks read no event, ownership reads no counter. Three events are
an earlier owner, its replacement and a late byte.

The runs whose bounds or destructor end the behaviour (`handoff`, `tcp`,
`sessions`, `dictionary`) do not check for deadlock. All others do.

### Fairness

`FairSpec` of HistoryStore: a started call goes on (a running thread);
batches that were not taken are offered again and again and a dirty checkpoint is
looked at again and again (Run calls the sink every second, and UpdateHistory
calls Update or Checkpoint each time), with strong fairness because calls
disable each other; nine seconds pass, so that a save is not skipped for ever. No
fairness is assumed of faults or deaths, which are bounded.

`FairSpec` of BatchHandoff: weak fairness of the worker and the destructor; strong
fairness of taking `m_historyMutex`, which the user interface holds only for a
query. An operation that keeps being refused is bounded by `MaxRefusals`.

`FairSpec` of NetworkStore: the host starts the store (Initialize) and a started
call goes on; intervals are added again and again (`DataRequired` samples about
once a second, and an interval without bytes is an interval), and again and
again one of those additions comes ten seconds after the last save. The sampler
promises no liveness.

`Spec` of CaptureSessions: weak fairness of the caller, the worker, the proof
thread and the hybrid thread, which are running threads. A join waits for the
thread it joins; ProcessTrace may return only when its handle is closed or its
session has ended. The other new modules promise no liveness.

## Properties

History: `CountedOnce`, `DurableKept`, `AppendResumable`, `ProvenanceKept`,
`ShownExact` (the buckets of today, and the all-time total from above),
`ConflictPreserved`, `MarkersIncrease`, `EventuallyDurable` (it loads, takes every
batch, and saves it), and
`ImplementsLedger`: with the batches with bytes that Update took as *accepted*,
those a restart would find as *ledger* and the rest of the minute as *ram*,
each step of the store is a step of `HistoryLedger` or changes nothing there. In
particular no single file operation of a flush, a recovery or a load changes
what a restart would count.

Hand-off: `AddedOnce`, `NothingLost`, `InflightFrozen`, `RatesOnce`, `Delivered`,
`ExitEnds`. The destructor delivers one batch, so with an older one in flight
what is pending behind it is dropped.

TCP, over both sources together: `NeverTwice` (no byte is counted twice, except
of a connection switched on the prefix of another one) and `Conserved`, which is
`NothingInvented` (what is counted was transferred) and `NothingSilent` (what is
not counted leaves a mark). `NotReplayed` is `NeverTwice` without the exception,
as the repository's README claims it; `tcp_reuse` refutes it (see Findings).
`DeltaHonest` is about the deltas of EStats counters; `StopKeepsOthers` about
collection that other programs use: what Stop turns off is on because this
program turned it on, or is a connection that was not there at the last look.

Sessions: `CleanStop`, `OthersKept`, `LossKept`, `StopEnds`. `OthersKept`
excepts a kernel logger that has replaced one this process had started
(`StartedEarlier`). Dictionary: `Attributed`, which excepts the numbers a
throwing save left in memory, and `NothingRenumbered`, which lets a process go
on without a file only while it holds every number in use itself. Ownership:
`NoReusedId`, `Retained`, `LossMarked`.

Network sampler: `NeverInvents`, `RunComplete`, `NoBridge`, `StableChoice`.
`NeverInvents` and `RunComplete` bound what intervals report from above and
below; `StableChoice` is what the code does keep of its comment, idle time
measured at samples.

Network store: `AllTimeExact` (RAM), `RestartExact` (what a process started now
would count), `DurableKept` (under any time zone), `DamagedKept`,
`EventuallyHealthy`, `EventuallySaved`. `AllTimeExact` and `RestartExact` hold in
one time zone (see Known limits).

Operators with a suffix `_bug` (or `_copies`, `_lenient`, `_silent`) are
slips the properties must notice; no behaviour uses them.

## Findings

1. `history_all_time`: the checkpoint is deleted before the state file is
   saved; a death in between leaves an all-time total below the history.
2. `handoff_throws`: an exception out of SaveCheckpoint leaves Update after
   the batch was added; the unacknowledged batch is added again every second.
3. `tcp_reuse`: Observe compares the prefix of a connection with the legacy
   prefix of its *key*. When the key has been opened again meanwhile and the
   proof thread is behind, the old connection is switched on the empty prefix of
   the new one, and a byte the legacy events have counted is credited again
   (`TcpSourceTracker.cpp:507`; README.En.md:61 says that credited bytes are not
   replayed). `tracker.mistaken` names such connections; `NeverTwice` is what
   remains true of all others.

## Known limits

What the properties are stated around, found while modelling:

- History, faults and clocks together: after a flush that failed behind its
  journal or marker, a local clock set back into the same minute adds a batch to
  a transaction that is already committed, and a restart drops it. With
  `MaxFaults = 1` and `ClockRollback = TRUE` TLC finds `DurableKept` violated.
- History, faults and unreadable markers together: FlushCurrentMinute takes an
  unreadable marker for one that names another transaction and appends a
  committed block again, where LoadCheckpoint blocks. With `MaxFaults = 1` and
  `MaxReadFaults = 1` TLC finds `CountedOnce` violated.
- The day of a record of the network store is computed in the time zone of the
  moment (`DayKey`). After a change of the zone a record that is in a day file
  and still in `pending.tsv` when the process dies is looked for in another day
  and appended again, and a sound day file can come to hold records of two local
  days, so that `ReadDay` refuses it and the queue waits behind it.
- The automatic choice of the adapter is reconsidered before the bytes of the
  present sample are looked at, so it may leave an adapter whose traffic has
  just come back. `StableChoice` speaks of the intervals reported so far.
- Tracker: a legacy event whose endpoints could not be parsed is kept without a
  key. If it comes between a reading and the switch, EStats may count its byte
  again; `NeverTwice` is about events with endpoints, and the session reports
  the parse failure. The last received octet, which may be a FIN, is held back;
  when the connection ends without saying which, it is neither credited nor
  marked. `NothingSilent` excepts that one octet.
- Tracker, a key used again: while the proof session has not closed a switched
  connection, its window suppresses the bytes of the next one with the same
  endpoints without a mark, so `NothingSilent` speaks of the first connection of
  a key. A late byte of the old one enters the prefix of the new one. When proof
  events are lost, an octet of a new connection on the same control block may be
  credited to the old one, which is then marked (`NothingInvented` excepts it).
- Ownership: when no process has the id any more, ProcessRaw keeps the owner of
  the connection, so bytes of a second process on the same endpoints can go to
  the first one. `NoReusedId` excepts it.
- Sessions: the answers of two threads recorded in the other order can report a
  loss twice (`LossKept` bounds it from below). StopTraceSession does not look
  at the result of its stop and forgets the session, so a logger it failed to
  stop stays up (`stuck`). The kernel logger is stopped by its fixed name, so
  when others have stopped the one this process started and started their own,
  Stop ends theirs (`EtwProcNetCollector.cpp:235-238`); `OthersKept` excepts it,
  and without the exception TLC finds it violated. A loss in the last second
  before Stop is not marked, because nobody asks again.
- Dictionary, a save that throws: SaveAppDictionary calls a throwing
  `create_directories` (`HistoryTrafficStore.cpp:2827`) after EnsureAppId has
  given the number (2878-2880), and nobody takes it back. A record may then use
  a number that `apps.tsv` does not have; after a death it may be given to
  another application, or block the load of the checkpoint. Without the
  exception for these numbers TLC finds `Attributed` violated. The next
  successful save writes them.
- EStats: `enabledByUs` stays when another program has switched collection off
  and on again, and Stop switches that off; a tuple taken over between Stop's
  last look and its call is switched off as well
  (`TcpEStatsCollector.cpp:301-303`). Without either exception TLC finds
  `StopKeepsOthers` violated.
- EStats and tracker, left out: within a poll the table query and the calls by
  tuple are one step (`TcpEStatsCollector.cpp:217`, 241 and 192-200), so no
  tuple is replaced in between; events without a usable clock
  (`TcpSourceTracker.cpp:194-199`) and the unmapped flag (265, 506). An event
  without endpoints marks the life of its control block in the model, where the
  code finds no alias (99-104); the interval is uncertain in either case.
- Dictionary: a file that names the largest number, which the code never gives
  out, makes the next number wrap to 0. No table of the model has it.

## Proofs

Every safety and action property that a passing run checks is proved for all
values of the constants, except `Conserved`. A proof assumes the named
assumptions of its modules (sets are finite, bounds are natural numbers, `None` is
nothing else) and, where a hypothesis is named below, that.
The bounds on faults, deaths and edits are constants like the others.

**Hand-off** (`BatchHandoffProofs`, for every set of slices and number of refusals):

- `TypeCorrect`: `Spec => []TypeOK`.
- `AddsOnce`, `LosesNothing`, `FrozenInFlight`: `[]AddedOnce`,
  `[]NothingLost` and `InflightFrozen`, assuming `ThrowsLate = FALSE` (the run
  `handoff_throws` shows why the assumption is needed). `AddedOnce` is not
  inductive: that a batch about to be added holds nothing already added depends
  on where everything else is. `HandoffInv` adds that (`NothingLost`), that the
  worker and the destructor never deliver at the same time (`Roles`), that the
  sink's copy is the batch in flight (`CopyIsInflight`), and how the sequence
  numbers relate (`Numbers`): newer than the last accepted one until the batch
  is added, equal to it until it is acknowledged.
- `PublishedOnce`: `[]RatesOnce`, without any assumption.

**History** (`HistoryStoreProofs`; for any batches, minutes,
clock values, applications, faults and deaths). `TypeCorrect` is `[]TypeOK`. The
type invariant alone is not inductive: that `RecoverDelete` reads a total from a
journal that exists, or `FlushJournal` writes a minute that is open, depends on
where the call is (`Control`), and an unsaved minute is open and not past the
SaveCheckpoint of its flush (`Dirty`).

The commit protocol is proved from layers, each kept by every step with the help of
those before it:

| Layer | What it says |
|---|---|
| `MarkInv` | every transaction that may still be committed is the last one committed or a later one; the journal is of the minute saved before it and of the one in RAM |
| `TailInv` | the daily file matches the journal wherever it is relied on |
| `ClockInv`, `FaultInv` | with a clock that is not set back, what is committed lies before the minute in RAM; without faults, no journal outlives its flush |
| `AppliedInv` | what is in a file or in RAM was applied, and is named by the provenance next to it |
| `OnceInv` | no two rows of an application share a batch; a journal has none that is in the file before it; a total that is not marked as committed has none that is in the file |
| `KeptInv` | the journal is the minute in RAM, an uncommitted checkpoint part of it, and what is committed is recorded, in the file and in `.quality.tsv` |
| `ResumeInv` | the file before the journal ends in a whole block, and a batch in it is there for every application |
| `LoadInv` | no minute is in RAM before the load |
| `ShownInv`, `TotalInv` | after the load the buckets of today are the file and the minute in RAM; no copy of the all-time total exceeds the bytes applied |

| Theorem | Property | Hypothesis |
|---|---|---|
| `MarkersGrowForever` | `MarkersIncrease` | |
| `ConflictUntouched` | `ConflictPreserved` | |
| `NothingTwice` | `CountedOnce` | `Recognised` |
| `NothingLost`, `ProvenanceFirst` | `DurableKept`, `ProvenanceKept` | `NotReopened` |
| `AlwaysResumable` | `AppendResumable` | `MaxEdits = 0` |
| `LedgerImplemented` | `ImplementsLedger` | `MaxEdits = 0`, `NotReopened` |
| `ShownForever` | `ShownExact` | `MaxEdits = 0`, `NotReopened`, `Recognised` |

`Recognised` is that writes do not fail or markers can be read, `NotReopened`
that writes do not fail or the clock is not set back. These are not
conveniences: the code has the two weaknesses (the first two Known limits), and
without any one of its hypotheses TLC finds each property violated in an
instance with at most two faults. An editor of the daily file defeats the last
three by definition. `Recognised` and `NotReopened` hold in the instances of
both history runs, so the theorems say of all sizes what those runs say of
theirs.

`LedgerImplemented` maps step by step: an Apply accepts the bytes of its
batch, a SaveCheckpoint persists all the minute has, a crash forgets what was in
RAM only, and each other step, a load, a recovery and every file operation of a
flush included, leaves `Recoverable` as it was (`LedgerCases`). `ShownForever`
needs that the bytes LoadHistoryFile adds up, row by row, are those of the batches
in the file: `LoadCounts` is the bijection between the two.

**Network store** (`NetworkStoreProofs`, for any intervals, finite sets of
minutes and zones, and any faults, deaths, damage and changes of the zone).
`LeavesDamage` (`DamagedKept`), `KeepsSaved` (`DurableKept`), `CountsOnce`
(`AllTimeExact`) and `RestartsExactly` (`RestartExact`), without a hypothesis.
The types need that a record being written is newer than its day file
(`WriteReady`). `DamageInv` says that a damaged queue is known to be damaged.
`KeptInv` says that nothing leaves `pending.tsv` before it is in a day file, and
nothing leaves the queue before that either. Exactness is about places, not
counts: `Sound` files have rising identities and intervals apart; a queue `Fits`
them if each of its records is above its day file or in it, and shares nothing
with the others. `StoredExact` (a restart finds `pending.tsv` fitting the files,
and with them all that was saved), `HeldExact` (the queue fits too, new
identities are above all, `m_days` is what the files hold) and `Matched` (while
Flush appends, `pending.tsv` and the queue differ only in records that are in a
day file) are inductive together. TLC checked them on the instance of the run
`network` before they were proved. That the counts follow is `PlacedOnce`.

**Network sampler** (`NetworkSamplerProofs`, for any adapters, limits, jumps and
events): `TypeCorrect` (`[]TypeOK`), `InventsNothing` (`NeverInvents`),
`LeavesNothingOut` (`RunComplete`), `BridgesNothing` (`NoBridge`),
`ChoiceIsStable` (`StableChoice`). That reported bytes have flowed is not
inductive: the next interval reports a difference, so `Covered` also bounds what
would be reported now, as long as the baseline is of the interface Windows still
shows (`Continues`), and `Instances` says that a replaced interface never comes
back, because LUIDs are numbered upwards. `IntervalInv` relates the baseline to
the last break, and idle time to the last traffic.

**Sessions** (`CaptureSessionsProofs`): `StopsClean` (`CleanStop`),
`LossCovered` (`LossKept`), `StopsNoOther` (`OthersKept`). `EtwInv` says which
logger `m_ownsSession` speaks of (the latest, if it is this process's, or an
earlier one that others have replaced), that the open handle is the one in
`m_traceHandle`, and that the summed losses cover the way from the first answer
to the highest; `ProofInv` that no proof session but the one in `m_session` is
this process's; `ControlInv` what has ended where the caller stands.

**Dictionary** (`AppDictionaryProofs`, for any width of the numbers): `NamesKept`
(`Attributed`), `RefusalStops` (`NothingRenumbered`). `Agrees` is the strengthening:
the tables in memory have every number in use, the next number is above them all,
and the file has every entry in memory but those a throwing save left there.

**Ownership** (`OwnershipProofs`, for any keys, table sizes, processes and
events): `MarksEveryLoss` (`LossMarked`) from `LossInv`; `BelongsToSeen`
(`NoReusedId`) from `PlaceInv` (what is in the batch was seen before what is in
m_raw, and that before what is to come) and `OwnersInv` (the owner of a flow was
created before anything still to be accounted for was seen); `KeepsBytes`
(`Retained`) from `OnePlaceInv` (a byte is in one place: the stream, m_raw, the
batch or a credit).

**TCP** (`TcpPathsProofs`, with the invariant in `TcpPathsInv`; for any keys,
control blocks, plans, losses, polls and caps). `DeltaHonestHolds` and
`StopKeepsOthersHolds` follow from `CollectorInv`: what a state of the collector
has counted since its baseline flowed on the connection it was taken of
(`StateInv`), and counting starts where a connection is (`Enabling`). For Stop,
`ReleaseInv` adds what is known after the last look: an entry still to be given
back is of the connection that was seen then, so what `enabledByUs` says is
about that.

`NeverTwiceHolds` is `[]NeverTwice` under `ShortLives`: no stream, its FIN
included, is longer than the sequence space, 2^32 in the code. A longer one
reuses sequence numbers, which the code does not tell apart. The instances of
both TCP runs satisfy it. The two sources know nothing of each other but the
comparison in Observe, so the invariant, `TcpInv`, has to say where a byte can
still come from, at every moment and on each of the ways:

| Part of `TcpInv` | What it says |
|---|---|
| `FlowsOK`, `Apart` | lives of a key or a control block follow one another, and so do the stamps of all their events |
| `ProofsOK`, `EventsOK`, `KeptOK` | what is on its way: proof events in the order of their stamps, a legacy event for a byte that is not counted yet |
| `ReadingOK` | a reading was within its connection; events of what it had not seen have later stamps |
| `TrackerOK` | a life has one connection; a byte is paid once, and lies in what its connection has covered |
| `GuardOK` | no late event of a life that is paid for can be counted: it lies in a window, or below the guard of the reclaimed ones |
| `BelowPrefix` | what the legacy events counted of a switched connection is below its prefix, and none of it is paid |
| `OriginsOK` | positions are computed from the origins of the handshake, or nothing more is read of the connection |
| `MarkersOK`, `ProbesOK`, `TotalsOK` | the legacy prefix is of the life whose connect it has seen; after a probe, a byte a reading had not seen shows in its counter |

None of it is inductive without the rest: the switch is right because an
agreeing second reading rules out a byte that the legacy events have counted and
the prefix does not hold (`TotalsOK`); after the switch that stays so only
because late events are suppressed (`GuardOK`), also when the window is closed,
when it is reclaimed, and when the control block is used again. TLC checked
`TcpInv` on the instance of the run `tcp` (5.5 million states) before it was
proved.

`BatchHandoff` and `NetworkSampler` have their type invariants proved and not
checked again by their runs; `HistoryStore` has both.

Not proved, only model-checked:

- liveness under fairness, which is out of the prover's reach: `EventuallyDurable`,
  `EventuallyHealthy`, `EventuallySaved`, `Delivered`, `ExitEnds`, `StopEnds`;
- `Conserved` of TcpPaths. `NothingInvented` needs the tracker's counters to be
  exact, the octet of a FIN included, which relates the collector's counters to
  the cursor of the proof events. `NothingSilent` is about what has
  been on its way and no longer is: it speaks of a whole behaviour, and of all
  spans together, which folds compute;
- the counterexamples of the three findings, which are runs and no theorems.

Where an argument needed induction over numbers (a finite set has a largest member,
an unsound file has a first unsound record), it is made with the least element of
a set, which the library proves well-founded.

## What could follow

`NothingInvented`, from an invariant that relates a counter at the time of a
reading to the tracker's cursor and to the octet of a FIN. The summaries of
completed days and the archives, as a function from closed files with the staleness
check between them. A second day file in `HistoryStore`, with the deletion of old
days. The activation of the migration tool, whose renames are the one hazard of
PROJECT.json without a property.

## Not modelled

Windows, text formatting and the host's interface; the layout of event records;
summaries, TMH archives, range queries and export, which derive read-only results
from closed files; process lookup; the migration tool, a program of its own that
is run once; the parsing of the lines of each file, beyond what the loader
refuses.
