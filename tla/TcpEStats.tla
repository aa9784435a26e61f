------------------------------ MODULE TcpEStats ------------------------------
(***************************************************************************)
(* The EStats collector (TcpEStatsCollector.cpp): one state per connection *)
(* of the TCP tables, read at a poll.                                      *)
(*                                                                         *)
(* The collector runs on one thread, so Poll and Stop are operators from   *)
(* a collector state s to the next one; TcpPaths makes them actions.  The  *)
(* tables are a set of rows [key, created]; `tcp' gives the kernel's       *)
(* counters of each connection.  A poll meets at most one fault, chosen by *)
(* the caller:                                                             *)
(*   "table"   the table query fails        "read"    the first read fails *)
(*   "enable"  collection cannot be enabled "reread"  the read after it    *)
(*   "owner"   the owner cannot be queried             fails               *)
(*   "back"    the wall clock was set back  "late"    the last read is     *)
(*                                                    over five seconds old*)
(***************************************************************************)
EXTENDS Integers, FiniteSets, SequencesExt

CONSTANTS
    MaxStates,         \* 4096, connections with a state
    SendOrigin,        \* sequence numbers of the first byte of a connection,
    ReceiveOrigin      \* sent and received

Faults == {"none", "table", "read", "enable", "reread", "owner", "back", "late"}

NoEStats == [conn |-> << >>, generation |-> 0]

Fresh(row, generation, owned) ==
    [key |-> row.key, created |-> row.created, generation |-> generation, owned |-> owned,
     baselined |-> FALSE, ours |-> FALSE, rx |-> 0, tx |-> 0, acked |-> 0, received |-> 0,
     end |-> 0, error |-> FALSE, truth |-> [life |-> 0, rx |-> 0, wire |-> 0]]

\* The kernel's side: counters since collection was last enabled, and the row of a connection.
Counters(c) ==
    [rx |-> c.rx - c.onRx, tx |-> c.wire - c.onWire,
     received |-> c.rx - c.onRx, acked |-> c.acked - c.onAcked]
Enabled(c) == [c EXCEPT !.on = TRUE, !.onRx = c.rx, !.onAcked = c.acked, !.onWire = c.wire]
Truth(c) == [life |-> c.life, rx |-> c.rx, wire |-> c.wire]

\* A reading is a baseline after a failure, a reset of a counter or a step back of the clock.
ApplyCounters(st, n, fault) ==
    LET reset == \/ n.rx < st.rx \/ n.tx < st.tx \/ fault = "back"
                 \/ n.acked < st.acked \/ n.received < st.received
        continues == st.baselined /\ ~reset
    IN  [state |-> [st EXCEPT !.rx = n.rx, !.tx = n.tx, !.acked = n.acked, !.received = n.received,
                              !.baselined = TRUE, !.error = FALSE],
         baseline |-> ~continues, coarse |-> continues /\ fault = "late",
         rxDelta |-> IF continues THEN n.rx - st.rx ELSE 0,
         txDelta |-> IF continues THEN n.tx - st.tx ELSE 0]

Failed(st) == [state |-> [st EXCEPT !.acked = 0, !.received = 0, !.baselined = FALSE, !.error = TRUE],
               baseline |-> TRUE, coarse |-> FALSE, rxDelta |-> 0, txDelta |-> 0]

\* A slip: collection found enabled is taken for ours.
ReadCounters_bug(st, c, fault) ==
    [tcp |-> IF c.on \/ fault \in {"read", "enable"} THEN c ELSE Enabled(c),
     result |-> IF fault \in {"read", "enable", "reread"} THEN Failed([st EXCEPT !.ours = TRUE])
                ELSE ApplyCounters([st EXCEPT !.ours = TRUE], Counters(IF c.on THEN c ELSE Enabled(c)), fault)]

\* One reading: enable collection first when it is off.
ReadCounters(st, c, fault) ==
    LET off == ~c.on
        switchedOn == off /\ fault \notin {"read", "enable"}
        fails == fault = "read" \/ (off /\ fault \in {"enable", "reread"})
        now == IF switchedOn THEN Enabled(c) ELSE c
        mine == IF switchedOn THEN [st EXCEPT !.ours = TRUE, !.baselined = FALSE] ELSE st
    IN  [tcp |-> now,
         result |-> IF fails THEN Failed(mine) ELSE ApplyCounters(mine, Counters(now), fault)]

\* The truth fields are observations: what had really flowed at this and the last reading.
Observation(old, r, c, clock) ==
    LET st == r.state
        fin == IF c.fin THEN 1 ELSE 0
    IN  [key |-> st.key, created |-> st.created, generation |-> st.generation, owned |-> st.owned,
         closed |-> FALSE, error |-> st.error, enabled |-> ~st.error, baseline |-> r.baseline,
         coarse |-> r.coarse, rx |-> st.rx, tx |-> st.tx, received |-> st.received, acked |-> st.acked,
         una |-> SendOrigin + c.acked, maximum |-> SendOrigin + c.tx,
         rcvNext |-> ReceiveOrigin + c.rx + fin, begin |-> clock, end |-> clock,
         rxDelta |-> r.rxDelta, txDelta |-> r.txDelta, last |-> old.truth, truth |-> Truth(c)]

\* What is kept of a connection that left the table.
ClosedObservation(st) ==
    [key |-> st.key, created |-> st.created, generation |-> st.generation, owned |-> st.owned,
     closed |-> TRUE, error |-> FALSE, enabled |-> TRUE, baseline |-> TRUE,
     coarse |-> FALSE, rx |-> 0, tx |-> 0, received |-> 0, acked |-> 0,
     una |-> 0, maximum |-> 0, rcvNext |-> 0, begin |-> 0, end |-> st.end,
     rxDelta |-> 0, txDelta |-> 0, last |-> st.truth, truth |-> st.truth]

\* A slip: the creation time is not compared.
Replaces_bug(s, row) == FALSE

Replaces(s, row) == row.key \in DOMAIN s.conn /\ s.conn[row.key].created # row.created

\* q carries the collector, the kernel, the observations and the keys seen in this poll.
\* A connection that was replaced is closed before its key is used again.
Retire(q, row) ==
    IF ~Replaces(q.estats, row) THEN q
    ELSE [q EXCEPT !.obs = Append(@, ClosedObservation(q.estats.conn[row.key])),
                   !.estats.conn = [j \in DOMAIN @ \ {row.key} |-> @[j]]]

Put(q, st) ==
    [q EXCEPT !.seen = @ \cup {st.key},
              !.estats.conn = [j \in DOMAIN @ \cup {st.key} |-> IF j = st.key THEN st ELSE @[j]]]

Discover(q, row, poll) ==
    LET generation == q.estats.generation + 1
    IN  IF row.key \in DOMAIN q.estats.conn THEN q
        ELSE IF poll.stopping \/ Cardinality(DOMAIN q.estats.conn) >= MaxStates THEN q
        ELSE Put([q EXCEPT !.estats.generation = generation], Fresh(row, generation, poll.fault # "owner"))

\* What a reading r of st leaves behind.
Apply(q, st, r, poll) ==
    LET after == [r.result.state EXCEPT !.end = poll.clock,
                    !.truth = IF r.result.state.error THEN @ ELSE Truth(r.tcp)]
    IN  [Put(q, after) EXCEPT !.tcp[st.key] = r.tcp,
            !.obs = Append(@, Observation(st, r.result, r.tcp, poll.clock))]

\* A new connection is read even by a poll that only looks for connections.
ReadRow(q, st, poll, fresh) ==
    IF poll.stopping \/ (~fresh /\ ~poll.read) \/ (st.error /\ poll.wait) THEN Put(q, st)
    ELSE Apply(q, st, ReadCounters(st, q.tcp[st.key], poll.fault), poll)

Visited(q, row, poll, fresh) ==
    IF row.key \in DOMAIN q.estats.conn THEN ReadRow(q, q.estats.conn[row.key], poll, fresh) ELSE q
Visit(q, row, poll) ==
    Visited(Discover(Retire(q, row), row, poll), row, poll,
            row.key \notin DOMAIN q.estats.conn \/ Replaces(q.estats, row))

\* A failed table query says nothing about the lifetime of its connections.
Unseen(q) == DOMAIN q.estats.conn \ q.seen
CloseUnseen(q) ==
    [q EXCEPT !.obs = @ \o [i \in DOMAIN SetToSeq(Unseen(q)) |-> ClosedObservation(q.estats.conn[SetToSeq(Unseen(q))[i]])],
              !.estats.conn = [k \in DOMAIN @ \cap q.seen |-> @[k]]]
VisitAll(q, rows, poll) == FoldLeft(LAMBDA a, row : Visit(a, row, poll), q, SetToSeq(rows))
Poll(estats, tcp, rows, poll) ==
    LET q == [estats |-> estats, tcp |-> tcp, obs |-> << >>, seen |-> {}]
    IN  IF poll.fault = "table" THEN q ELSE CloseUnseen(VisitAll(q, rows, poll))

\* A slip: Stop goes by what it read last.
Refreshed_bug(estats, tcp, rows, fault) == estats

\* Before it turns anything off, Stop looks at the tables again, without a reading.  What it does
\* not see then, a connection that was replaced among them, it leaves alone.
Refreshed(estats, tcp, rows, fault) ==
    LET q == Poll(estats, tcp, rows,
                  [read |-> FALSE, wait |-> FALSE, stopping |-> TRUE, fault |-> fault, clock |-> 0])
    IN  [q.estats EXCEPT !.conn = [k \in DOMAIN @ \cap q.seen |-> @[k]]]
=============================================================================
