----------------------------- MODULE TcpPathsInv -----------------------------
(***************************************************************************)
(* The inductive invariant of TcpPaths: what the kernel, the events on     *)
(* their way, the readings and the tracker have to do with one another     *)
(* when no byte is counted twice.  TcpPathsProofs shows that every step    *)
(* keeps it.                                                               *)
(***************************************************************************)
EXTENDS TcpPathsProps

-----------------------------------------------------------------------------
(* The rows of the kernel, the EStats collector and its readings *)

Partial(D, R) == UNION {[K -> R] : K \in SUBSET D}

Row == [life : Nat, tcb : Tcb \cup {0}, up : BOOLEAN, rx : Nat, tx : Nat, acked : Nat, wire : Nat,
        fin : BOOLEAN, on : BOOLEAN, onRx : Nat, onAcked : Nat, onWire : Nat, tried : BOOLEAN, listed : BOOLEAN]
TruthRec == [life : Nat, rx : Nat, wire : Nat]
StateRec == [key : Key, created : Nat, generation : Nat, owned : BOOLEAN, baselined : BOOLEAN, ours : BOOLEAN,
             rx : Nat, tx : Nat, acked : Nat, received : Nat, end : Nat, error : BOOLEAN, truth : TruthRec]
Obs == [key : Key, created : Nat, generation : Nat, owned : BOOLEAN, closed : BOOLEAN, error : BOOLEAN,
        enabled : BOOLEAN, baseline : BOOLEAN, coarse : BOOLEAN, rx : Nat, tx : Nat, received : Nat, acked : Nat,
        una : Nat, maximum : Nat, rcvNext : Nat, begin : Nat, end : Nat, rxDelta : Nat, txDelta : Nat,
        last : TruthRec, truth : TruthRec]
Collector == [conn : Partial(Key, StateRec), generation : Nat]

\* Counting starts where a connection is, not before.
Enabling(c) == c.onRx <= c.rx /\ c.onAcked <= c.acked /\ c.onWire <= c.wire

\* A state and the row of its key.  What it counted since its baseline flowed on its connection.
StateInv(st, k, c, tried) ==
  /\ st.key = k /\ st.created <= c.life
  /\ st.ours /\ st.created = c.life => tried
  /\ st.baselined => /\ st.truth.life = st.created
                     /\ st.created = c.life => /\ st.truth.rx <= c.rx /\ st.truth.rx <= c.onRx + st.rx
                                               /\ st.truth.wire <= c.wire /\ st.truth.wire <= c.onWire + st.tx

\* The two counters of a reading have moved no further than the connection since its last one.
Honest(s) ==
  ~s.baseline => /\ s.last.life = s.truth.life
                 /\ s.rxDelta \in 0 .. (s.truth.rx - s.last.rx)
                 /\ s.txDelta \in 0 .. (s.truth.wire - s.last.wire)

\* The rows, the collector, and what was read last.
TcpOK ==
  /\ clock \in Nat /\ tcp \in [Key -> Row]
  /\ \A k \in Key : Enabling(tcp[k]) /\ tcp[k].life <= clock

EStatsInv ==
  /\ estats \in Collector
  /\ \A k \in DOMAIN estats.conn : StateInv(estats.conn[k], k, tcp[k], tcp[k].tried)

CollectorInv ==
  /\ TcpOK /\ EStatsInv
  /\ reading.obs \in Seq(Obs)
  /\ \A i \in DOMAIN reading.obs : Honest(reading.obs[i])

\* What Stop has seen at its last look and is there still, is the connection it has seen.
ReleaseInv ==
  phase = "releasing" =>
    \A k \in DOMAIN estats.conn : tcp[k].listed => estats.conn[k].created = tcp[k].life

-----------------------------------------------------------------------------
(* The tracker by itself *)

\* The spans of a direction are finite sets of positions; below its prefix every byte is credited.
Span == {S \in SUBSET Nat : IsFiniteSet(S)}
Direction == [prefix : Nat, highest : Nat, confirmed : Nat, seenPrefix : Nat,
              pending : Span, credited : Span, seen : Span]
Covered(d) == {p \in Nat : p < d.prefix} \cup d.credited

ProbeRec == [end : Nat, dataRx : Nat, dataTx : Nat, rx : Nat, tx : Nat]
States == {"etw", "uncertain", "probing", "active"}
ConnRec ==
  [key : Key, life : Nat, generation : Nat \ {0}, begin : Nat, established : Nat, closed : Nat, owned : BOOLEAN,
   estats : Nat, context : Nat, probe : ProbeRec, readEnd : Nat, rxFin : Nat, rxOffset : Int, txOffset : Int,
   lastRx : Nat, lastTx : Nat, sendOrigin : Nat, receiveOrigin : Nat, state : States,
   rx : Direction, tx : Direction, connected : BOOLEAN, haveSend : BOOLEAN, haveReceive : BOOLEAN,
   eligible : BOOLEAN, switched : BOOLEAN, haveFin : BOOLEAN, frozen : BOOLEAN]
Marker == [life : Nat, begin : Nat, counter : Nat, rx : Nat, tx : Nat]
Window == [key : Key, begin : Nat, end : Nat, generation : Nat]
Dirs == {"rx", "tx"}
Slice == Nat \X Dirs \X Nat
BloomBits == UNION {Slots[k] : k \in Key}
Tracker ==
  [conn : Partial(Tcb, ConnRec), alias : Partial(Key, Tcb), window : SUBSET Window, legacy : Partial(Key, Marker),
   bloom : SUBSET BloomBits, generation : Nat, legacyMark : Nat, proofMark : Nat, retiredBefore : Nat,
   healthy : BOOLEAN, legacyHealthy : BOOLEAN, legacyClock : Nat, paid : Partial(Slice, {1}),
   marked : SUBSET Nat, mistaken : SUBSET Nat]

\* A life has one connection, a generation one life, a byte is paid once and only when switched.
TrackerOK(t) ==
  /\ t \in Tracker /\ IsFiniteSet(t.window)
  /\ \A k \in DOMAIN t.alias : t.alias[k] \in DOMAIN t.conn /\ t.conn[t.alias[k]].key = k
  /\ \A x \in DOMAIN t.conn : t.conn[x].begin = t.conn[x].life /\ t.conn[x].generation <= t.generation
  /\ \A x, y \in DOMAIN t.conn : t.conn[x].life = t.conn[y].life \/ t.conn[x].generation = t.conn[y].generation => x = y
  /\ \A w \in t.window : /\ w.generation <= t.generation
                         /\ \A x \in DOMAIN t.conn : w.generation = t.conn[x].generation => w.begin = t.conn[x].begin
  /\ \A b \in DOMAIN t.paid, x \in DOMAIN t.conn :
       b[1] = t.conn[x].life => t.conn[x].switched /\ b[3] \in Covered(t.conn[x][b[2]])
  /\ \A x \in DOMAIN t.conn : (t.conn[x].switched => t.conn[x].state = "active") =>
                                t.conn[x].rx.credited = {} /\ t.conn[x].tx.credited = {}

-----------------------------------------------------------------------------
(* The kernel and what it has raised *)

Up(L) == \E k \in Key : tcp[k].up /\ tcp[k].life = L
Data(e) == e.kind \in Dirs

\* A stamp is one event: lives are three stamps apart at least, the longest handshake.
FlowRec == [key : Key, tcb : Tcb, rx : Nat, tx : Nat, due : SUBSET Slice, room : [rx : Nat, tx : Nat, fin : BOOLEAN]]
FlowsOK ==
  /\ flows \in Partial(Nat, FlowRec) /\ IsFiniteSet(DOMAIN flows) /\ plan \in Plans
  /\ \A L \in DOMAIN flows : /\ 0 < L /\ L + 2 <= clock
                             /\ flows[L].rx <= flows[L].room.rx /\ flows[L].tx <= flows[L].room.tx
                             /\ flows[L].room.rx + 1 < Cycle /\ flows[L].room.tx < Cycle
  /\ \A L, M \in DOMAIN flows : L < M => L + 3 <= M
  /\ \A k \in Key : tcp[k].up => /\ tcp[k].life \in DOMAIN flows
                                 /\ flows[tcp[k].life].key = k /\ flows[tcp[k].life].tcb = tcp[k].tcb
                                 /\ flows[tcp[k].life].rx = tcp[k].rx /\ flows[tcp[k].life].tx = tcp[k].tx

\* Lives that share a key or a control block follow one another.
Follows(L, M) == L < M /\ (flows[L].key = flows[M].key \/ flows[L].tcb = flows[M].tcb)
Apart ==
  \A L, M \in DOMAIN flows : Follows(L, M) =>
    /\ ~Up(L)
    /\ \A i \in DOMAIN proofs : proofs[i].life = L => proofs[i].time < M
    /\ \A i \in DOMAIN events : events[i].life = L => events[i].time < M

\* Proof events wait in the order of their stamps.  A connect comes once, and the first octet
\* received is the SYN of the peer.
ProofKinds == {"connect", "syn", "receive", "established", "send", "fin", "close"}
ProofRec == [kind : ProofKinds, key : Key, tcb : Tcb, life : Nat, time : Nat, seq : Nat, bytes : Nat]
ProofsOK ==
  /\ proofs \in Seq(ProofRec)
  /\ \A i \in DOMAIN proofs :
       LET e == proofs[i]
       IN  /\ e.life \in DOMAIN flows /\ e.key = flows[e.life].key /\ e.tcb = flows[e.life].tcb
           /\ e.life <= e.time /\ e.time <= clock
           /\ e.kind = "connect" => e.time = e.life
           /\ e.kind = "established" => e.time = e.life + 1
           /\ e.kind = "syn" => (e.seq + 1) % Cycle = SendOrigin % Cycle
           /\ e.kind = "close" => /\ ~Up(e.life)
                                  /\ \A j \in DOMAIN events : events[j].life = e.life /\ Data(events[j]) =>
                                                                events[j].time < e.time
  /\ \A i, j \in DOMAIN proofs : i < j =>
       /\ proofs[i].time <= proofs[j].time
       /\ proofs[i].kind = "connect" /\ proofs[j].kind = "connect" => proofs[i].life # proofs[j].life
       /\ proofs[i].kind = "receive" /\ proofs[j].kind = "established" /\ proofs[i].life = proofs[j].life =>
            proofs[i].seq = ReceiveOrigin % Cycle

\* A legacy event that waits carries one byte of its life that is not counted yet.
EventRec == [kind : {"open", "rx", "tx", "close"}, key : Key, life : Nat, time : Nat, at : Nat, bytes : Nat,
             endpoints : BOOLEAN]
EventsOK ==
  /\ events \in Seq(EventRec)
  /\ \A i, j \in DOMAIN events :
       events[i].kind = "open" /\ events[j].kind = "open" /\ i # j => events[i].life # events[j].life
  /\ \A i \in DOMAIN events :
       LET e == events[i]
       IN  /\ e.life \in DOMAIN flows /\ e.key = flows[e.life].key /\ e.life < e.time /\ e.time <= clock /\ e.endpoints
           /\ e.kind = "open" => e.time = e.life + 2
           /\ Data(e) => e.at < flows[e.life][e.kind] /\ e.bytes = 1 /\ <<e.life, e.kind, e.at>> \notin DOMAIN kept
           /\ ~Data(e) => e.bytes = 0
           /\ \A j \in DOMAIN events : Data(e) /\ j # i => ~(/\ events[j].life = e.life /\ events[j].kind = e.kind
                                                             /\ events[j].at = e.at)

KeptOK ==
  /\ kept \in Partial(Slice, {1})
  /\ \A b \in DOMAIN kept : b[1] \in DOMAIN flows /\ b[3] < flows[b[1]][b[2]]

\* What a reading of a row saw of its connection, and what had not happened yet.
CountAt(s, dir) == IF dir = "rx" THEN s.truth.rx ELSE s.maximum - SendOrigin
ReadingOK ==
  \A i \in DOMAIN reading.obs :
    LET s == reading.obs[i]
        L == s.created
    IN  ~s.closed =>
          /\ s.begin = s.end /\ 0 < s.end /\ s.end <= clock /\ L \in DOMAIN flows /\ flows[L].key = s.key
          /\ \A j \in DOMAIN reading.obs : ~reading.obs[j].closed => reading.obs[j].begin = s.begin
          /\ CountAt(s, "rx") <= flows[L].rx /\ CountAt(s, "tx") <= flows[L].tx /\ CountAt(s, "tx") >= 0
          /\ s.rcvNext \in {ReceiveOrigin + s.truth.rx, ReceiveOrigin + s.truth.rx + 1}
          /\ \A M \in DOMAIN flows : Follows(L, M) => s.end < M
          /\ \A j \in DOMAIN events :
               LET e == events[j]
               IN  e.life = L /\ Data(e) /\ e.at >= CountAt(s, e.kind) => e.time > s.begin

-----------------------------------------------------------------------------
(* The tracker and the kernel *)

\* The lives the tracker pays for, and where each connection comes from.
Claimed(t) == {t.conn[x].life : x \in {y \in DOMAIN t.conn : t.conn[y].switched}} \cup {b[1] : b \in DOMAIN t.paid}

ConnsOK(t) ==
  /\ \A x \in DOMAIN t.conn : /\ t.conn[x].life \in DOMAIN flows
                              /\ flows[t.conn[x].life].key = t.conn[x].key /\ flows[t.conn[x].life].tcb = x
  /\ \A b \in DOMAIN t.paid : b[1] \in DOMAIN flows
\* A connect that waits is of a life the tracker does not know.
Connects(t, queue) ==
  \A i \in DOMAIN queue : queue[i].kind = "connect" =>
    /\ \A x \in DOMAIN t.conn : t.conn[x].life # queue[i].life
    /\ \A b \in DOMAIN t.paid : b[1] # queue[i].life

\* No late event of a life whose bytes are credited can be counted.
Guarded(t, L, e) ==
  \/ e.time < t.retiredBefore
  \/ \E w \in t.window : w.key = e.key /\ w.begin = L /\ (w.end = 0 \/ e.time < w.end)
GuardOK(t, queue) ==
  \A L \in Claimed(t) \ t.mistaken :
    /\ \A i \in DOMAIN queue :
         queue[i].life = L => queue[i].kind # "open" /\ (Data(queue[i]) => Guarded(t, L, queue[i]))
    /\ Up(L) => \E w \in t.window : w.key = flows[L].key /\ w.begin = L /\ w.end = 0

\* What the legacy events have counted of it lies below its prefix.
BelowPrefix(t, bag) ==
  \A b \in DOMAIN bag : b[1] \notin t.mistaken =>
    /\ b \notin DOMAIN t.paid
    /\ \A x \in DOMAIN t.conn : t.conn[x].life = b[1] /\ t.conn[x].switched => b[3] < t.conn[x][b[2]].prefix

\* The origins are those of the handshake, or nothing more is read of the connection.
Established(queue, L) == \E i \in DOMAIN queue : queue[i].kind = "established" /\ queue[i].life = L
OriginOK(c, queue) ==
  /\ c.haveSend => c.sendOrigin = SendOrigin % Cycle
  /\ c.haveReceive =>
       \/ c.receiveOrigin = ReceiveOrigin % Cycle
       \/ /\ ~Established(queue, c.life)
          /\ c.connected => /\ ~Up(c.life)
                            /\ \A i \in DOMAIN reading.obs :
                                 LET s == reading.obs[i]
                                 IN  ~s.closed /\ s.created = c.life => s.begin <= c.established
OriginsOK(t, queue) == \A x \in DOMAIN t.conn : OriginOK(t.conn[x], queue)

\* A legacy prefix belongs to the life whose connect it has seen.
MarkerOK(k, m, queue) ==
  /\ m.life = 0 => m.begin = 0
  /\ m.life # 0 => /\ m.life \in DOMAIN flows /\ flows[m.life].key = k /\ m.begin = m.life + 2
                   /\ \A i \in DOMAIN queue : queue[i].life = m.life => queue[i].kind # "open"
MarkersOK(t, queue) == \A k \in DOMAIN t.legacy : MarkerOK(k, t.legacy[k], queue)

\* A probe follows the connect of its own life, or nothing more is read of it.
ProbeOK(c, queue) ==
  c.probe.end # 0 =>
    /\ c.probe.end <= clock
    /\ \/ \A i \in DOMAIN queue : queue[i].life = c.life => queue[i].kind # "open"
       \/ /\ ~Up(c.life)
          /\ \A i \in DOMAIN reading.obs :
               LET s == reading.obs[i]
               IN  ~s.closed /\ s.created = c.life => s.begin <= c.probe.end
ProbesOK(t, queue) == \A x \in DOMAIN t.conn : ProbeOK(t.conn[x], queue)

\* After a probe, a byte that a later reading had not seen is in the legacy totals.
TotalOK(legacy, c, bag) ==
  \A i \in DOMAIN reading.obs, b \in DOMAIN bag :
    LET s == reading.obs[i]
    IN  /\ ~s.closed /\ s.created = c.life /\ b[1] = c.life /\ b[3] >= CountAt(s, b[2])
        /\ c.probe.end # 0 /\ s.begin > c.probe.end
        /\ c.key \in DOMAIN legacy /\ legacy[c.key].life = c.life
        => legacy[c.key].counter >= s.begin
TotalsOK(t, bag) == \A x \in DOMAIN t.conn : TotalOK(t.legacy, t.conn[x], bag)

-----------------------------------------------------------------------------
KernelInv == FlowsOK /\ Apart /\ ProofsOK /\ EventsOK /\ KeptOK /\ ReadingOK
Joint(t, queue, late, bag) ==
  /\ ConnsOK(t) /\ Connects(t, queue) /\ GuardOK(t, late) /\ BelowPrefix(t, bag)
  /\ OriginsOK(t, queue) /\ MarkersOK(t, late) /\ ProbesOK(t, late) /\ TotalsOK(t, bag)

(***************************************************************************)
(* The invariant.                                                          *)
(***************************************************************************)
TcpInv ==
  /\ CollectorInv /\ KernelInv /\ TrackerOK(tracker) /\ Joint(tracker, proofs, events, kept)
  /\ phase = "off" => tracker = NoTracker

\* No stream, its FIN included, is longer than the sequence space.
ShortLives == \A p \in Plans : \A i \in DOMAIN p.lives : p.lives[i].rx + 1 < Cycle /\ p.lives[i].tx < Cycle
=============================================================================
