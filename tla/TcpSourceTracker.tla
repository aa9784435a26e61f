-------------------------- MODULE TcpSourceTracker --------------------------
(***************************************************************************)
(* The single-source decision for TCP bytes (TcpSourceTracker.cpp).        *)
(*                                                                         *)
(* A connection starts with its bytes counted from the legacy ETW events.  *)
(* When the sequence numbers of the proof events, the legacy totals and    *)
(* two EStats readings agree on the prefix, the connection is switched:    *)
(* later legacy events of its lifetime window are suppressed and the bytes *)
(* past the prefix are credited from EStats, or, after a fallback, from    *)
(* the sequence ranges of the proof events.                                *)
(*                                                                         *)
(* The class is called under the collector's mutex, so every public        *)
(* function is one operator from a tracker state t to the next one; the    *)
(* composition TcpPaths makes them actions.  A list of spans is the set of *)
(* byte positions it covers: the code keeps spans sorted, disjoint and     *)
(* merged when they touch, so a span is a maximal interval of the set.     *)
(* Slices only add up, so what Emit puts into them is kept as the bag      *)
(* `paid' of <<life, direction, position>>, and `marked' holds the lives   *)
(* with a slice of Incomplete or Unknown confidence.                       *)
(*                                                                         *)
(* Observations, which no decision reads: the field `life' of a connection *)
(* and of a legacy prefix (the life whose connect opened it), and          *)
(* `mistaken', the lives switched on the prefix of another life.           *)
(***************************************************************************)
EXTENDS Integers, Bags, FiniteSets, SequencesExt

CONSTANTS
    Cycle,        \* 2^32, the size of the sequence space
    MaxSpans,     \* 64, spans kept per list
    MaxConns,     \* 4096, connections with a proof
    MaxMarkers,   \* 4096, keys with a legacy prefix
    MaxWindows,   \* 4096, lifetime windows
    Slots         \* the bits of the Bloom guard a key hashes to

Max2(a, b) == IF a >= b THEN a ELSE b
Min2(a, b) == IF a <= b THEN a ELSE b
Without(f, gone) == [k \in DOMAIN f \ gone |-> f[k]]
With(f, k, v) == [j \in DOMAIN f \cup {k} |-> IF j = k THEN v ELSE f[j]]

NoTracker ==
    [conn |-> << >>, alias |-> << >>, window |-> {}, legacy |-> << >>, bloom |-> {},
     generation |-> 0, legacyMark |-> 0, proofMark |-> 0, retiredBefore |-> 0,
     healthy |-> FALSE, legacyHealthy |-> FALSE, legacyClock |-> 0,
     paid |-> EmptyBag, marked |-> {}, mistaken |-> {}]

\* Reset forgets everything but the slices already handed over.
Reset(t) == [NoTracker EXCEPT !.paid = t.paid, !.marked = t.marked, !.mistaken = t.mistaken]

-----------------------------------------------------------------------------
(* Spans and sequence positions *)

Bytes(left, right) == left .. (right - 1)
FirstsOf(S) == {p \in S : p - 1 \notin S}
SpanEnd(S, p) == CHOOSE q \in (p + 1) .. (p + Cardinality(S)) : q \notin S /\ Bytes(p, q) \subseteq S

\* Add merges with a span it touches and refuses one span too many.
CanAdd(S, left, right) ==
    left >= right \/ S \cap ((left - 1) .. right) # {} \/ Cardinality(FirstsOf(S)) < MaxSpans

NoDirection == [prefix |-> 0, highest |-> 0, confirmed |-> 0, seenPrefix |-> 0,
                pending |-> {}, credited |-> {}, seen |-> {}]

\* Credit [left, right): the new bytes, and the prefix moved over what is now contiguous.
CanCredit(d, left, right) == CanAdd(d.credited, Max2(left, d.prefix), right)
NewBytes(d, left, right) == Bytes(Max2(left, d.prefix), right) \ d.credited
Credit(d, left, right) ==
    LET all == d.credited \cup Bytes(Max2(left, d.prefix), right)
        prefix == CHOOSE p \in d.prefix .. (d.prefix + Cardinality(all)) :
                    p \notin all /\ Bytes(d.prefix, p) \subseteq all
    IN  [d EXCEPT !.prefix = prefix, !.credited = {p \in all : p > prefix}]

\* The 64-bit position of a 32-bit sequence number nearest to the prefix.
Position(sequence, origin, prefix) ==
    LET near == (prefix - (prefix % Cycle)) + ((sequence - origin) % Cycle)
        position == IF near - prefix > Cycle \div 2 THEN near - Cycle
                    ELSE IF prefix - near > Cycle \div 2 THEN near + Cycle ELSE near
        distance == IF position > prefix THEN position - prefix ELSE prefix - position
    IN  [ok |-> position >= 0 /\ distance < Cycle \div 2, at |-> position]

SameSequence(a, b) == a % Cycle = b % Cycle

-----------------------------------------------------------------------------
(* Slices, windows and the retired keys *)

Mark(t, c) == [t EXCEPT !.marked = @ \cup {c.life}]
Pay(t, c, rx, tx) ==
    [t EXCEPT !.paid = @ (+) SetToBag({<<c.life, "rx", p>> : p \in rx} \cup {<<c.life, "tx", p>> : p \in tx})]

Ended(w, counter) == [w EXCEPT !.end = IF @ = 0 THEN counter ELSE Min2(@, counter)]

\* counter ends the windows of a key it lies in, those of one generation when gen # 0.
CloseWindows(t, key, counter, gen) ==
    [t EXCEPT !.window =
        {IF w.key = key /\ counter > w.begin /\ (gen = 0 \/ w.generation = gen)
         THEN Ended(w, counter) ELSE w : w \in @}]

\* A slip: a window that is closed already is not looked at.
Suppressed_bug(t, e) ==
    \E w \in t.window : w.key = e.key /\ e.time >= w.begin /\ w.end = 0

Suppressed(t, e) ==
    \E w \in t.window : w.key = e.key /\ e.time >= w.begin /\ (w.end = 0 \/ e.time < w.end)

\* The Bloom guard: never a false negative.
RetiredKey(t, key) == Slots[key] \subseteq t.bloom

\* A refused event leaves its bytes out and the live connection of its key uncertain.
Quarantine(t, e) ==
    IF e.key \in DOMAIN t.alias THEN Mark(t, t.conn[t.alias[e.key]]) ELSE t

DropAlias(t, x) ==
    LET k == t.conn[x].key
    IN  IF k \in DOMAIN t.alias /\ t.alias[k] = x THEN [t EXCEPT !.alias = Without(@, {k})] ELSE t

Through(t) == Min2(t.legacyMark, t.proofMark)

ReclaimWindows(t) ==
    LET dead == {w \in t.window : w.end # 0 /\ w.end < Through(t)}
        gone == {x \in DOMAIN t.conn : t.conn[x].closed # 0 /\ t.conn[x].closed < Through(t)}
        stale == {k \in DOMAIN t.legacy :
                    \/ \E w \in dead : w.key = k /\ t.legacy[k].begin < w.end
                    \/ \E x \in gone : t.conn[x].key = k /\ t.legacy[k].begin < t.conn[x].closed}
        open == {x \in gone : t.conn[x].rx.pending # {} \/ t.conn[x].tx.pending # {}}
    IN  [t EXCEPT
            !.window = @ \ dead,
            !.bloom = @ \cup UNION {Slots[w.key] : w \in dead},
            !.retiredBefore = CHOOSE m \in {@} \cup {w.end : w \in dead} :
                                \A n \in {@} \cup {w.end : w \in dead} : m >= n,
            !.marked = @ \cup {t.conn[x].life : x \in open},
            !.legacy = Without(@, stale),
            !.alias = Without(@, {k \in DOMAIN @ : @[k] \in gone}),
            !.conn = Without(@, gone)]

-----------------------------------------------------------------------------
(* Falling back to the proof ranges *)

\* A slip: the last octet is credited at once.
Safe_bug(c) == IF c.haveFin THEN c.rxFin ELSE c.rx.highest

\* The octet that may still be a FIN is held back.
Safe(c) == IF c.haveFin THEN c.rxFin
           ELSE Max2(c.rx.confirmed, IF c.rx.highest > 0 THEN c.rx.highest - 1 ELSE 0)

\* Credit the pending spans of a direction below `safe', in order, until one does not fit.
FlushSpan(acc, p, q, safe) ==
    IF ~acc.ok \/ ~CanCredit(acc.d, p, Min2(q, safe)) THEN [acc EXCEPT !.ok = FALSE]
    ELSE [ok |-> TRUE, d |-> Credit(acc.d, p, Min2(q, safe)),
          paid |-> acc.paid \cup NewBytes(acc.d, p, Min2(q, safe)),
          rest |-> acc.rest \cup Bytes(Max2(p, safe), q)]
InOrder(S) == CHOOSE f \in [1 .. Cardinality(S) -> S] : \A i, j \in DOMAIN f : i < j => f[i] < f[j]
FlushDirection(d, safe) ==
    FoldLeft(LAMBDA acc, p : FlushSpan(acc, p, SpanEnd(d.pending, p), safe),
             [ok |-> TRUE, d |-> d, paid |-> {}, rest |-> {}], InOrder(FirstsOf(d.pending)))

\* rx and tx are what FlushDirection found; what stays pending is the received rest below a FIN.
Flushed(t, x, rx, tx) ==
    LET c == t.conn[x]
        after == [c EXCEPT !.rx = [rx.d EXCEPT !.pending = IF c.haveFin THEN {} ELSE rx.rest],
                           !.tx = [tx.d EXCEPT !.pending = {}], !.frozen = ~(rx.ok /\ tx.ok)]
        t1 == Pay([t EXCEPT !.conn[x] = after], c, rx.paid, tx.paid)
    IN  IF rx.ok /\ tx.ok /\ rx.paid \cup tx.paid = {} THEN t1 ELSE Mark(t1, c)

Flush(t, x) ==
    LET c == t.conn[x]
    IN  IF ~c.switched \/ c.state = "active" \/ c.frozen THEN t
        ELSE Flushed(t, x, FlushDirection(c.rx, Safe(c)), FlushDirection(c.tx, 1 + Max2(0, c.tx.highest)))

\* A slip: a connection that leaves the active state marks nothing.
Fallback_bug(t, x, incomplete) ==
    IF ~t.conn[x].switched
    THEN [t EXCEPT !.conn[x].state = "uncertain", !.conn[x].probe.end = 0]
    ELSE Flush([t EXCEPT !.conn[x].state = "uncertain"], x)

Fallback(t, x, incomplete) ==
    LET c == t.conn[x]
        t1 == IF c.state = "active" /\ incomplete THEN Mark(t, c) ELSE t
    IN  IF ~c.switched
        THEN [t EXCEPT !.conn[x].state = "uncertain", !.conn[x].probe.end = 0]
        ELSE Flush([t1 EXCEPT !.conn[x].state = "uncertain"], x)

\* A freeze marks a connection that is not active here and an active one in Fallback.
Freeze(t, x) == Fallback(Mark([t EXCEPT !.conn[x].frozen = TRUE], t.conn[x]), x, TRUE)
FreezeAll(t, xs) == FoldLeft(Freeze, t, SetToSeq(xs))
SetHealth(t, healthy, clock, legacyHealthy) ==
    LET t1 == [t EXCEPT !.healthy = healthy, !.legacyClock = clock, !.legacyHealthy = legacyHealthy]
        hit == {x \in DOMAIN t.conn : t.conn[x].switched /\ ~t.conn[x].frozen}
    IN  IF healthy /\ clock = 1 THEN t1 ELSE FreezeAll(t1, hit)

Reject(t, x) == Fallback([t EXCEPT !.conn[x].eligible = FALSE], x, TRUE)
RejectFrozen(t, x) == Fallback([t EXCEPT !.conn[x].eligible = FALSE, !.conn[x].frozen = TRUE], x, TRUE)

-----------------------------------------------------------------------------
(* Proof events, on the thread of the proof session *)

NewConnection(t, e) ==
    [key |-> e.key, life |-> e.life, generation |-> t.generation + 1, begin |-> e.time,
     established |-> 0, closed |-> 0, owned |-> FALSE, estats |-> 0, context |-> 0,
     probe |-> [end |-> 0, dataRx |-> 0, dataTx |-> 0, rx |-> 0, tx |-> 0],
     readEnd |-> 0, rxFin |-> 0, rxOffset |-> 0, txOffset |-> 0, lastRx |-> 0, lastTx |-> 0,
     sendOrigin |-> 0, receiveOrigin |-> 0, state |-> "etw", rx |-> NoDirection, tx |-> NoDirection,
     connected |-> FALSE, haveSend |-> FALSE, haveReceive |-> FALSE, eligible |-> TRUE,
     switched |-> FALSE, haveFin |-> FALSE, frozen |-> FALSE]

\* A connect replaces the connection with its tcb and closes the one its key names.
CloseAliased(t, e) ==
    IF e.key \notin DOMAIN t.alias THEN t
    ELSE LET old == t.alias[e.key]
         IN  [Fallback(t, old, TRUE) EXCEPT !.conn[old].closed = IF @ = 0 THEN e.time ELSE Min2(@, e.time)]
DropPrefix(t, e) ==
    IF e.key \in DOMAIN t.legacy /\ t.legacy[e.key].begin < e.time
    THEN [t EXCEPT !.legacy = Without(@, {e.key})] ELSE t
DropConnection(t, x) == [DropAlias(t, x) EXCEPT !.conn = Without(@, {x})]
Replace(t, e) ==
    IF e.tcb \notin DOMAIN t.conn THEN t
    ELSE LET c == t.conn[e.tcb]
         IN  DropConnection(CloseWindows(Fallback(t, e.tcb, TRUE), c.key, e.time, c.generation), e.tcb)
AddConnection(t, e) ==
    IF Cardinality(DOMAIN t.conn) >= MaxConns THEN t
    ELSE [t EXCEPT !.conn = With(@, e.tcb, NewConnection(t, e)), !.alias = With(@, e.key, e.tcb),
                   !.generation = @ + 1]
ProofConnect(t, e) ==
    IF \/ e.tcb \in DOMAIN t.conn /\ e.time <= t.conn[e.tcb].begin
       \/ e.key \in DOMAIN t.alias /\ e.time <= t.conn[t.alias[e.key]].begin
    THEN t
    ELSE AddConnection(Replace(DropPrefix(CloseWindows(CloseAliased(t, e), e.key, e.time, 0), e), e), e)

ProofEstablished(t, e, x) ==
    IF e.key # t.conn[x].key THEN Reject(t, x)
    ELSE [t EXCEPT !.conn[x].connected = TRUE, !.conn[x].established = e.time]

ProofSyn(t, e, x) ==
    IF t.conn[x].haveSend /\ ~SameSequence(t.conn[x].sendOrigin, e.seq + 1) THEN Reject(t, x)
    ELSE [t EXCEPT !.conn[x].sendOrigin = (e.seq + 1) % Cycle, !.conn[x].haveSend = TRUE]

\* Before Established the one received octet is the SYN of the peer.
ProofPeerSyn(t, e, x) ==
    IF e.bytes # 1 \/ (t.conn[x].haveReceive /\ ~SameSequence(t.conn[x].receiveOrigin, e.seq))
    THEN [t EXCEPT !.conn[x].eligible = FALSE]
    ELSE [t EXCEPT !.conn[x].receiveOrigin = e.seq % Cycle, !.conn[x].haveReceive = TRUE]

ProofClose(t, e, x) ==
    LET c == t.conn[x]
        t1 == CloseWindows([t EXCEPT !.conn[x].closed = e.time], c.key, e.time, c.generation)
    IN  IF c.closed # 0 THEN t ELSE Fallback(t1, x, FALSE)

ProofFin(t, e, x) ==
    LET c == t.conn[x]
        position == Position(e.seq, c.receiveOrigin, c.rx.prefix)
    IN  IF ~position.ok \/ position.at = 0 \/ position.at - 1 < c.rx.prefix THEN RejectFrozen(t, x)
        ELSE Fallback([t EXCEPT !.conn[x].haveFin = TRUE, !.conn[x].rxFin = position.at - 1], x, FALSE)

\* Before the switch a range extends what was seen, after it what may be credited.
SeenData(t, x, dir, left, right) ==
    LET d == t.conn[x][dir]
        asCredit == [d EXCEPT !.prefix = d.seenPrefix, !.credited = d.seen]
        after == Credit(asCredit, left, right)
    IN  IF ~CanCredit(asCredit, left, right) THEN [t EXCEPT !.conn[x].eligible = FALSE]
        ELSE [t EXCEPT !.conn[x][dir].seenPrefix = after.prefix, !.conn[x][dir].seen = after.credited]

PendingData(t, x, dir, from, right) ==
    IF ~CanAdd(t.conn[x][dir].pending, from, right) THEN Fallback([t EXCEPT !.conn[x].frozen = TRUE], x, TRUE)
    ELSE Flush([t EXCEPT !.conn[x][dir].pending = @ \cup Bytes(from, right)], x)

RangeData(t, x, dir, left, right) ==
    IF t.conn[x].switched THEN PendingData(t, x, dir, Max2(left, t.conn[x][dir].prefix), right)
    ELSE SeenData(t, x, dir, left, right)

ProofData(t, e, x) ==
    LET c == t.conn[x]
        dir == IF e.kind = "send" THEN "tx" ELSE "rx"
        have == IF e.kind = "send" THEN c.haveSend ELSE c.haveReceive
        origin == IF e.kind = "send" THEN c.sendOrigin ELSE c.receiveOrigin
        left == Position(e.seq, origin, IF c.switched THEN c[dir].prefix ELSE c[dir].seenPrefix)
    IN  IF (c.closed # 0 /\ e.time >= c.closed) \/ e.bytes = 0 \/ c.frozen THEN t
        ELSE IF ~have \/ ~left.ok THEN RejectFrozen(t, x)
        ELSE RangeData([t EXCEPT !.conn[x][dir].highest = Max2(@, left.at + e.bytes)],
                       x, dir, left.at, left.at + e.bytes)

\* An event of a connection the tracker knows.
ProofKnown(t, e, x) ==
    CASE e.kind = "established" -> ProofEstablished(t, e, x)
      [] e.kind = "syn" -> ProofSyn(t, e, x)
      [] e.kind = "close" -> ProofClose(t, e, x)
      [] e.kind = "fin" /\ t.conn[x].haveReceive -> ProofFin(t, e, x)
      [] e.kind = "receive" /\ ~t.conn[x].connected -> ProofPeerSyn(t, e, x)
      [] e.kind = "send" \/ (e.kind = "receive" /\ t.conn[x].connected) -> ProofData(t, e, x)
      [] OTHER -> t
OnProof(t, e) ==
    LET t1 == [t EXCEPT !.proofMark = Max2(@, e.time)]
    IN  IF e.time < t.retiredBefore THEN t
        ELSE IF e.kind = "connect" THEN ProofConnect(t1, e)
        ELSE IF e.tcb \in DOMAIN t.conn /\ e.time >= t.conn[e.tcb].begin THEN ProofKnown(t1, e, e.tcb)
        ELSE t1

-----------------------------------------------------------------------------
(* Legacy events, on the thread of the ETW session *)

NoMarker == [life |-> 0, begin |-> 0, counter |-> 0, rx |-> 0, tx |-> 0]
MarkerRoom(t, key) == key \in DOMAIN t.legacy \/ Cardinality(DOMAIN t.legacy) < MaxMarkers
MarkerOf(t, key) == IF key \in DOMAIN t.legacy THEN t.legacy[key] ELSE NoMarker

\* A newer connect ends the lifetime before it.
LegacyEnds(t, e, x) ==
    [Fallback([t EXCEPT !.conn[x].eligible = FALSE], x, TRUE)
        EXCEPT !.conn[x].closed = IF @ = 0 THEN e.time ELSE Min2(@, e.time)]
LegacyOpen(t, e) ==
    LET begin == MarkerOf(t, e.key).begin
        prior == e.key \in DOMAIN t.alias /\ t.conn[t.alias[e.key]].begin <= begin
        t1 == IF begin = 0 THEN t
              ELSE CloseWindows(IF prior THEN LegacyEnds(t, e, t.alias[e.key]) ELSE t, e.key, e.time, 0)
    IN  IF ~MarkerRoom(t, e.key) \/ e.time <= begin THEN t
        ELSE [t1 EXCEPT !.legacy = With(@, e.key, [NoMarker EXCEPT !.life = e.life, !.begin = e.time])]

LegacyClose(t, e) ==
    IF e.key \in DOMAIN t.legacy /\ t.legacy[e.key].begin <= e.time
    THEN [t EXCEPT !.legacy = Without(@, {e.key})] ELSE t

\* Bytes that may belong to a lifetime already credited.
Ambiguous(t, e) ==
    LET begin == MarkerOf(t, e.key).begin
        guarded == {w \in t.window : w.key = e.key}
        retired == t.retiredBefore # 0 /\ RetiredKey(t, e.key)
    IN  \/ begin # 0 /\ e.time < begin /\ (guarded # {} \/ retired)
        \/ \E w \in guarded : w.end # 0 /\ e.time >= w.end /\ begin < w.end
        \/ guarded = {} /\ retired /\ (begin = 0 \/ e.time < begin)

Counting(marker, e) ==
    [marker EXCEPT !.counter = Max2(@, e.time),
                   !.rx = IF e.kind = "rx" THEN @ + e.bytes ELSE @,
                   !.tx = IF e.kind = "tx" THEN @ + e.bytes ELSE @]
CountLegacy(t, e) ==
    IF ~MarkerRoom(t, e.key) THEN [t EXCEPT !.healthy = FALSE]
    ELSE [t EXCEPT !.legacy = With(@, e.key, Counting(MarkerOf(t, e.key), e))]

\* The tracker after a legacy event and what becomes of the event's bytes.
Answer(t, fate) == [tracker |-> t, fate |-> fate]
Refused(t, e) == Answer(Quarantine(t, e), "ambiguous")
KeepData(t, e) ==
    IF Ambiguous(t, e) THEN Refused(t, e)
    ELSE IF Suppressed(t, e) THEN Answer(t, "suppressed") ELSE Answer(CountLegacy(t, e), "keep")
KeepTimed(t, e) ==
    LET t1 == [t EXCEPT !.legacyMark = Max2(@, e.time)]
    IN  IF e.time < t.retiredBefore THEN Refused(t, e)
        ELSE IF e.kind = "open" THEN Answer(LegacyOpen(t1, e), "keep")
        ELSE IF e.kind = "close" THEN Answer(t1, "keep") ELSE KeepData(t1, e)
KeepLegacy(t, e) ==
    IF e.endpoints THEN KeepTimed(IF e.kind = "close" THEN LegacyClose(t, e) ELSE t, e)
    ELSE IF e.kind \in {"rx", "tx"} /\ (t.window # {} \/ t.retiredBefore # 0) THEN Refused(t, e)
    ELSE Answer(t, "keep")

-----------------------------------------------------------------------------
(* EStats observations, on the collector's worker *)

SameOwner(c, s) ==
    /\ s.owned
    /\ c.estats \in {0, s.generation}
    /\ s.created <= c.begin /\ c.context \in {0, s.created}

\* Where the counters of a reading stand in the sequence space of the connection.
InFlight(s) == (s.maximum - s.una) % Cycle
Received(c, s) == s.received + c.rxOffset
Sent(c, s) == s.acked + c.txOffset + InFlight(s)
ReceivePosition(c, s) ==
    SameSequence(s.rcvNext - c.receiveOrigin, Received(c, s) + (IF c.haveFin THEN 1 ELSE 0))

Advance(t, c, s) ==
    /\ t.healthy /\ t.legacyClock = 1 /\ ~s.baseline /\ c.closed = 0 /\ ~c.haveFin
    /\ s.begin > c.readEnd /\ InFlight(s) < Cycle \div 2
    /\ SameSequence(s.una - c.sendOrigin, s.acked + c.txOffset) /\ ReceivePosition(c, s)
    /\ Received(c, s) >= c.rx.prefix /\ Sent(c, s) >= c.tx.prefix
    /\ s.rx - c.lastRx = Received(c, s) - c.rx.prefix
    /\ s.tx - c.lastTx = Sent(c, s) - c.tx.prefix

ObserveActive(t, x, s) ==
    LET c == t.conn[x]
        rx == Received(c, s)
        tx == Sent(c, s)
        readRx == [c.rx EXCEPT !.prefix = rx, !.confirmed = rx, !.pending = {p \in @ : p >= rx}]
        readTx == [c.tx EXCEPT !.prefix = tx, !.pending = {p \in @ : p >= tx}]
        after == [c EXCEPT !.rx = readRx, !.tx = readTx, !.readEnd = s.end, !.lastRx = s.rx, !.lastTx = s.tx]
    IN  IF ~Advance(t, c, s) THEN Fallback(t, x, TRUE)
        ELSE Pay([t EXCEPT !.conn[x] = after], c, Bytes(c.rx.prefix, rx), Bytes(c.tx.prefix, tx))

\* The three accounts of the prefix agree: proof ranges, legacy totals, EStats cursor.
PrefixAgrees(t, c, s) ==
    LET rx == c.rx.seenPrefix
        tx == c.tx.seenPrefix
        legacy == MarkerOf(t, c.key)
    IN  /\ t.healthy /\ t.legacyHealthy /\ t.legacyClock = 1
        /\ c.eligible /\ c.connected /\ c.closed = 0 /\ ~c.haveFin /\ c.haveSend /\ c.haveReceive
        /\ s.begin > c.established
        /\ c.rx.seen = {} /\ c.tx.seen = {} /\ c.rx.highest = rx /\ c.tx.highest = tx
        /\ c.key \in DOMAIN t.legacy /\ legacy.begin >= c.begin /\ legacy.counter < s.begin
        /\ legacy.rx = rx /\ legacy.tx = tx
        /\ s.acked <= tx /\ s.received <= rx /\ s.una = s.maximum
        /\ SameSequence(s.maximum - c.sendOrigin, tx) /\ SameSequence(s.rcvNext - c.receiveOrigin, rx)

\* Dead windows make room before the switch.
Switch(t, x, s) ==
    LET c == t.conn[x]
        rx == c.rx.seenPrefix
        tx == c.tx.seenPrefix
        active == [c EXCEPT
                    !.state = "active", !.switched = TRUE, !.readEnd = s.end,
                    !.rx.prefix = rx, !.rx.confirmed = rx, !.tx.prefix = tx,
                    !.rxOffset = rx - s.received, !.txOffset = tx - s.acked,
                    !.lastRx = s.rx, !.lastTx = s.tx]
        window == [key |-> c.key, begin |-> c.begin, end |-> 0, generation |-> c.generation]
    IN  IF Cardinality(t.window) >= MaxWindows THEN t
        ELSE [t EXCEPT !.conn[x] = active, !.window = @ \cup {window}]

\* Observed only: whose prefix a connection is switched on.
Compared(t, c) ==
    IF t.legacy[c.key].life = c.life THEN t ELSE [t EXCEPT !.mistaken = @ \cup {c.life}]

\* A first agreement is a probe; an equal second one, read later, switches.
ObserveProbing(t, x, s) ==
    LET c == t.conn[x]
        probe == [end |-> s.end, dataRx |-> s.rx, dataTx |-> s.tx, rx |-> c.rx.seenPrefix, tx |-> c.tx.seenPrefix]
        again == \/ c.probe.end = 0 \/ s.baseline \/ s.begin <= c.probe.end
                 \/ [probe EXCEPT !.end = 0] # [c.probe EXCEPT !.end = 0]
        probing == [t EXCEPT !.conn[x].state = "probing"]
    IN  IF ~PrefixAgrees(t, c, s) THEN [t EXCEPT !.conn[x].probe.end = 0]
        ELSE IF again THEN [probing EXCEPT !.conn[x].probe = probe]
        ELSE Switch(ReclaimWindows(Compared(probing, c)), x, s)

\* While switched, a reading confirms that the octets below its cursor are no FIN.
Confirm(t, x, s) ==
    LET c == t.conn[x]
    IN  IF c.switched /\ ReceivePosition(c, s) /\ Received(c, s) >= c.rx.prefix
        THEN [t EXCEPT !.conn[x].rx.confirmed = Max2(@, Received(c, s))] ELSE t

ObserveReading(t, x, s) ==
    IF ~t.conn[x].switched THEN ObserveProbing(t, x, s)
    ELSE IF t.conn[x].state = "active" THEN ObserveActive(t, x, s) ELSE Flush(t, x)

Observe(t, s) ==
    LET x == t.alias[s.key]
        c == t.conn[x]
        t1 == [t EXCEPT !.conn[x].owned = TRUE, !.conn[x].estats = s.generation,
                       !.conn[x].context = s.created]
    IN  IF s.key \notin DOMAIN t.alias THEN t
        ELSE IF s.end # 0 /\ s.end < c.begin THEN t
        ELSE IF ~SameOwner(c, s) THEN Fallback(t, x, TRUE)
        ELSE IF s.closed THEN Fallback(IF c.closed = 0 /\ c.state = "active" THEN Mark(t, c) ELSE t, x, FALSE)
        ELSE IF s.error \/ ~s.enabled \/ s.coarse THEN Fallback(t, x, TRUE)
        ELSE ObserveReading(Confirm(t1, x, s), x, s)

ObserveAll(t, readings) == FoldLeft(Observe, t, readings)

-----------------------------------------------------------------------------
(* Expiry and the end of a session *)

\* slow: active connections not read for 2.5 s; idle, idleKeys: untouched for a minute.
FallAll(t, xs) == FoldLeft(LAMBDA u, x : Fallback(u, x, TRUE), t, SetToSeq(xs))
DropAll(t, xs) == FoldLeft(LAMBDA u, x : DropConnection(Fallback(u, x, TRUE), x), t, SetToSeq(xs))
FallLate(t, slow) == FallAll(t, {x \in slow \cap DOMAIN t.conn : t.conn[x].state = "active"})
DropIdle(t, idle) == DropAll(t, idle \cap DOMAIN t.conn)
Expire(t, slow, idle, idleKeys) ==
    [DropIdle(FallLate(ReclaimWindows(t), slow), idle) EXCEPT !.legacy = Without(@, idleKeys)]

Finish(t) == FallAll(t, DOMAIN t.conn)
=============================================================================
