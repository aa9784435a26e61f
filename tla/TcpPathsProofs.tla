--------------------------- MODULE TcpPathsProofs ---------------------------
(***************************************************************************)
(* Proofs about TcpPaths.  First the kernel, the EStats collector and its  *)
(* readings: deltas are honest and Stop keeps what others enabled.  Then   *)
(* the tracker by itself, its answers to proof events, legacy events and   *)
(* readings, and the steps of the kernel: no byte is counted twice.        *)
(***************************************************************************)
EXTENDS TcpPathsInv, FiniteSetTheorems, SequenceTheorems, WellFoundedInduction, TLAPS

(* A set of natural numbers has a least element.                           *)
LEMMA LeastNat ==
  ASSUME NEW S \in SUBSET Nat, S # {}
  PROVE  \E m \in S : \A n \in S : m <= n
<1>1. PICK m \in S : \A n \in S : ~(<<n, m>> \in OpToRel(<, Nat))
  BY WFMin, NatLessThanWellFounded, Zenon
<1>2. ASSUME NEW n \in S, ~(m <= n) PROVE FALSE
  <2>1. m \in Nat /\ n \in Nat
    OBVIOUS
  <2>2. n < m
    BY <1>2, <2>1
  <2>3. <<n, m>> \in OpToRel(<, Nat)
    BY <2>1, <2>2, Zenon DEF OpToRel
  <2>. QED
    BY <1>1, <1>2, <2>3, Zenon
<1>. QED
  BY <1>1, <1>2, Zenon

(* A set of indices has a largest one, which Max chooses.                  *)
LEMMA LargestIndex ==
  ASSUME NEW n \in Nat, NEW S \in SUBSET (1 .. n), S # {}
  PROVE  Max(S) \in S /\ \A i \in S : i <= Max(S)
<1> DEFINE Bounds == {m \in Nat : \A i \in S : i <= m}
<1>1. n \in Bounds
  OBVIOUS
<1>2. PICK m \in Bounds : \A b \in Bounds : m <= b
  BY <1>1, LeastNat
<1>3. m \in S
  <2>1. SUFFICES ASSUME m \notin S PROVE FALSE
    OBVIOUS
  <2>2. \A i \in S : i <= m - 1
    BY <1>2, <2>1
  <2>3. m - 1 \in Nat
    <3>1. PICK i \in S : TRUE
      OBVIOUS
    <3>2. i \in Nat /\ 1 <= i /\ i <= m - 1 /\ m \in Nat
      BY <1>2, <2>2, <3>1
    <3>. QED
      BY <3>2
  <2>4. m - 1 \in Bounds
    BY <2>2, <2>3
  <2>. QED
    BY <1>2, <2>4
<1>4. \E x \in S : \A y \in S : x >= y
  BY <1>2, <1>3
<1>5. Max(S) \in S /\ \A y \in S : Max(S) >= y
  BY <1>4 DEF Max
<1>. QED
  BY <1>5

-----------------------------------------------------------------------------
(* Folds.  The operators fold over readings, rows, connections and spans;  *)
(* Turn names what each fold does with one element, so that the lemmas     *)
(* below can be stated once for all of them.                               *)
Turn(kind, arg, a, e) ==
  CASE kind = "visit" -> Visit(a, e, arg)
    [] kind = "observe" -> Observe(a, e)
    [] kind = "fall" -> Fallback(a, e, TRUE)
    [] kind = "drop" -> DropConnection(Fallback(a, e, TRUE), e)
    [] kind = "freeze" -> Freeze(a, e)
    [] kind = "flush" -> FlushSpan(a, e, SpanEnd(arg.pending, e), arg.safe)

Table(kind, arg, base, seq, n, f) ==
  f = [s \in SUBSET (1 .. n) |->
         IF s = {} THEN base ELSE Turn(kind, arg, f[s \ {Max(s)}], seq[Max(s)])]

(* The function a fold is defined by exists.                               *)
LEMMA TableExists ==
  ASSUME NEW kind, NEW arg, NEW base, NEW seq, NEW n \in Nat
  PROVE  \E f : Table(kind, arg, base, seq, n, f)
<1> DEFINE Good(m) == \E f : Table(kind, arg, base, seq, m, f)
           Bad == {m \in Nat : ~Good(m)}
<1> SUFFICES ASSUME ~Good(n) PROVE FALSE
  OBVIOUS
<1> HIDE DEF Good
<1>1. PICK m \in Bad : \A b \in Bad : m <= b
  BY LeastNat
<1>2. Good(0)
  <2> DEFINE f == [s \in {{}} |-> base]
  <2>1. SUBSET (1 .. 0) = {{}}
    OBVIOUS
  <2>2. f = [s \in SUBSET (1 .. 0) |->
               IF s = {} THEN base ELSE Turn(kind, arg, f[s \ {Max(s)}], seq[Max(s)])]
    BY <2>1
  <2>. QED
    BY <2>2 DEF Good, Table
<1>3. m \in Nat \ {0} /\ m - 1 \in Nat /\ m - 1 \notin Bad
  BY <1>1, <1>2
<1>4. Good(m - 1)
  BY <1>3
<1>5. PICK g : Table(kind, arg, base, seq, m - 1, g)
  BY <1>4 DEF Good
<1> DEFINE f == [s \in SUBSET (1 .. m) |->
                   IF m \in s THEN Turn(kind, arg, g[s \ {m}], seq[m]) ELSE g[s]]
<1>6. ASSUME NEW s \in SUBSET (1 .. m), s # {}
      PROVE  f[s] = Turn(kind, arg, f[s \ {Max(s)}], seq[Max(s)])
  <2>1. Max(s) \in s /\ \A i \in s : i <= Max(s)
    BY <1>3, <1>6, LargestIndex
  <2>2. s \ {Max(s)} \in SUBSET (1 .. m)
    OBVIOUS
  <2>3. CASE m \in s
    <3>1. Max(s) = m
      <4>1. Max(s) \in 1 .. m /\ m <= Max(s)
        BY <2>1, <2>3
      <4>. QED
        BY <1>3, <4>1
    <3>2. m \notin s \ {m}
      OBVIOUS
    <3>3. f[s \ {m}] = g[s \ {m}]
      BY <2>2, <3>1, <3>2
    <3>. QED
      BY <2>3, <3>1, <3>3
  <2>4. CASE m \notin s
    <3>1. s \in SUBSET (1 .. (m - 1))
      BY <1>3, <2>4
    <3>2. g[s] = Turn(kind, arg, g[s \ {Max(s)}], seq[Max(s)])
      BY <1>5, <1>6, <3>1, Zenon DEF Table
    <3>3. m \notin s \ {Max(s)}
      BY <2>4
    <3>4. f[s \ {Max(s)}] = g[s \ {Max(s)}] /\ f[s] = g[s]
      BY <2>2, <2>4, <3>3
    <3>. QED
      BY <3>2, <3>4
  <2>. QED
    BY <2>3, <2>4
<1>7. f[{}] = base
  <2>1. {} \in SUBSET (1 .. m) /\ {} \in SUBSET (1 .. (m - 1)) /\ m \notin {}
    OBVIOUS
  <2>2. g[{}] = base
    BY <1>5, <2>1, Zenon DEF Table
  <2>. QED
    BY <2>1, <2>2
<1>8. Table(kind, arg, base, seq, m, f)
  <2> DEFINE h == [s \in SUBSET (1 .. m) |->
                     IF s = {} THEN base ELSE Turn(kind, arg, f[s \ {Max(s)}], seq[Max(s)])]
  <2>1. DOMAIN f = DOMAIN h
    OBVIOUS
  <2>2. ASSUME NEW s \in SUBSET (1 .. m) PROVE f[s] = h[s]
    <3>1. h[s] = IF s = {} THEN base ELSE Turn(kind, arg, f[s \ {Max(s)}], seq[Max(s)])
      OBVIOUS
    <3> HIDE DEF f, h
    <3>. QED
      BY <1>6, <1>7, <3>1
  <2>3. f = h
    BY <2>1, <2>2
  <2>. QED
    BY <2>3 DEF Table
<1>9. Good(m)
  BY <1>8 DEF Good
<1>. QED
  BY <1>1, <1>9

(* It goes through the sequence from left to right.                        *)
Path(kind, arg, base, seq, n, u) ==
  /\ u[0] = base
  /\ \A i \in 1 .. n : u[i] = Turn(kind, arg, u[i - 1], seq[i])

LEMMA TablePath ==
  ASSUME NEW kind, NEW arg, NEW base, NEW seq, NEW n \in Nat, NEW f,
         Table(kind, arg, base, seq, n, f)
  PROVE  \E u : Path(kind, arg, base, seq, n, u) /\ f[1 .. n] = u[n]
<1> DEFINE u == [i \in 0 .. n |-> f[1 .. i]]
<1>1. u[0] = base
  <2>1. 1 .. 0 = {} /\ {} \in SUBSET (1 .. n) /\ 0 \in 0 .. n
    OBVIOUS
  <2>2. f[{}] = base
    BY <2>1, Zenon DEF Table
  <2>. QED
    BY <2>1, <2>2
<1>2. ASSUME NEW i \in 1 .. n PROVE u[i] = Turn(kind, arg, u[i - 1], seq[i])
  <2>1. 1 .. i \in SUBSET (1 .. n) /\ 1 .. i # {} /\ i \in 0 .. n /\ i - 1 \in 0 .. n
    OBVIOUS
  <2>2. Max(1 .. i) \in 1 .. i /\ \A j \in 1 .. i : j <= Max(1 .. i)
    BY <2>1, LargestIndex
  <2>3. Max(1 .. i) = i
    BY <2>2
  <2>4. (1 .. i) \ {i} = 1 .. (i - 1)
    OBVIOUS
  <2>5. f[1 .. i] = Turn(kind, arg, f[(1 .. i) \ {Max(1 .. i)}], seq[Max(1 .. i)])
    BY <2>1, Zenon DEF Table
  <2>. QED
    BY <2>1, <2>3, <2>4, <2>5
<1>3. n \in 0 .. n
  OBVIOUS
<1>. QED
  BY <1>1, <1>2, <1>3 DEF Path

LEMMA VisitPath ==
  ASSUME NEW poll, NEW base, NEW n \in Nat, NEW rows, DOMAIN SetToSeq(rows) = 1 .. n
  PROVE  \E u : Path("visit", poll, base, SetToSeq(rows), n, u) /\ VisitAll(base, rows, poll) = u[n]
<1> DEFINE seq == SetToSeq(rows)
           Fits(f) == f = [s \in SUBSET (1 .. n) |->
                            IF s = {} THEN base ELSE Visit(f[s \ {Max(s)}], seq[Max(s)], poll)]
           table == CHOOSE f : Fits(f)
<1>1. PICK f : Table("visit", poll, base, seq, n, f)
  BY TableExists
<1>2. ASSUME NEW a, NEW e PROVE Turn("visit", poll, a, e) = Visit(a, e, poll)
  BY DEF Turn
<1>3. ASSUME NEW g PROVE Fits(g) <=> Table("visit", poll, base, seq, n, g)
  BY <1>2 DEF Table
<1>4. VisitAll(base, rows, poll) = table[1 .. n]
  BY DEF VisitAll, FoldLeft, MapThenFoldSet
<1> HIDE DEF Fits
<1>5. Fits(table)
  BY <1>1, <1>3
<1> HIDE DEF table
<1>6. PICK u : Path("visit", poll, base, seq, n, u) /\ table[1 .. n] = u[n]
  BY <1>3, <1>5, TablePath
<1>. QED
  BY <1>4, <1>6

(* A finite set put in a sequence.                                         *)
LEMMA SetToSeqFacts ==
  ASSUME NEW S, IsFiniteSet(S)
  PROVE  /\ Cardinality(S) \in Nat
         /\ SetToSeq(S) \in [1 .. Cardinality(S) -> S]
         /\ DOMAIN SetToSeq(S) = 1 .. Cardinality(S)
<1>1. Cardinality(S) \in Nat /\ ExistsBijection(1 .. Cardinality(S), S)
  BY FS_CardinalityType
<1>2. \E f \in [1 .. Cardinality(S) -> S] : IsInjective(f)
  BY <1>1 DEF ExistsBijection, Bijection, Injection, IsInjective
<1>3. SetToSeq(S) \in [1 .. Cardinality(S) -> S]
  BY <1>2 DEF SetToSeq
<1>. QED
  BY <1>1, <1>3

-----------------------------------------------------------------------------
(* The kernel during a poll, which only enables collection.                *)
SameRow(c, d) ==
  /\ c.life = d.life /\ c.tcb = d.tcb /\ c.up = d.up /\ c.rx = d.rx /\ c.tx = d.tx /\ c.acked = d.acked
  /\ c.wire = d.wire /\ c.fin = d.fin /\ c.tried = d.tried
  /\ c.on => d.on
Tried(q, k) == tcp[k].tried \/ (q.tcp[k].on /\ ~tcp[k].on)

Polling == [estats : Collector, tcp : [Key -> Row], obs : Seq(Obs), seen : SUBSET Key]

\* An observation of a row of the tables, and one of a connection that left them.
FromRow(s, c, time) ==
  /\ c.up /\ s.created = c.life /\ s.truth.life = c.life /\ s.begin = time /\ s.end = time
  /\ s.truth.rx = c.rx /\ s.maximum = SendOrigin + c.tx
  /\ s.rcvNext = ReceiveOrigin + c.rx + (IF c.fin THEN 1 ELSE 0)

PollInv(q, time) ==
  /\ q \in Polling
  /\ \A k \in Key : SameRow(tcp[k], q.tcp[k]) /\ Enabling(q.tcp[k])
  /\ \A k \in DOMAIN q.estats.conn : StateInv(q.estats.conn[k], k, q.tcp[k], Tried(q, k))
  /\ \A i \in DOMAIN q.obs : Honest(q.obs[i]) /\ (q.obs[i].closed \/ FromRow(q.obs[i], tcp[q.obs[i].key], time))
  /\ \A k \in q.seen : k \in DOMAIN q.estats.conn /\ q.estats.conn[k].created = tcp[k].life

(* Partial functions: how they grow and shrink.                            *)
LEMMA PartialIntro ==
  ASSUME NEW D, NEW R, NEW f, f = [k \in DOMAIN f |-> f[k]], DOMAIN f \subseteq D, \A k \in DOMAIN f : f[k] \in R
  PROVE  f \in Partial(D, R)
<1>1. f \in [DOMAIN f -> R]
  OBVIOUS
<1>. QED
  BY <1>1 DEF Partial

LEMMA PartialElim ==
  ASSUME NEW D, NEW R, NEW f \in Partial(D, R)
  PROVE  f = [k \in DOMAIN f |-> f[k]] /\ DOMAIN f \subseteq D /\ \A k \in DOMAIN f : f[k] \in R
  BY DEF Partial

LEMMA PartialRestrict ==
  ASSUME NEW D, NEW R, NEW f \in Partial(D, R), NEW K \in SUBSET DOMAIN f
  PROVE  [k \in K |-> f[k]] \in Partial(D, R)
<1> DEFINE g == [k \in K |-> f[k]]
<1>1. g \in [K -> R] /\ K \in SUBSET D
  BY PartialElim
<1>. QED
  BY <1>1 DEF Partial

LEMMA PartialExtend ==
  ASSUME NEW D, NEW R, NEW f \in Partial(D, R), NEW k \in D, NEW v \in R
  PROVE  [j \in DOMAIN f \cup {k} |-> IF j = k THEN v ELSE f[j]] \in Partial(D, R)
<1> DEFINE g == [j \in DOMAIN f \cup {k} |-> IF j = k THEN v ELSE f[j]]
<1>1. g \in [DOMAIN f \cup {k} -> R] /\ DOMAIN f \cup {k} \in SUBSET D
  BY PartialElim
<1>. QED
  BY <1>1 DEF Partial

(* The steps of a poll.                                                    *)
LEMMA RetireKeeps ==
  ASSUME TcpOK, NEW time \in Nat, NEW q, PollInv(q, time), NEW row \in Rows
  PROVE  /\ PollInv(Retire(q, row), time)
         /\ Retire(q, row).tcp = q.tcp
         /\ row.key \in DOMAIN Retire(q, row).estats.conn => Retire(q, row).estats.conn[row.key].created = row.created
<1> DEFINE conn == q.estats.conn
           closed == ClosedObservation(conn[row.key])
           r == [q EXCEPT !.obs = Append(@, closed), !.estats.conn = [j \in DOMAIN @ \ {row.key} |-> @[j]]]
<1>1. q \in Polling /\ conn \in Partial(Key, StateRec)
  BY DEF PollInv, Polling, Collector
<1>2. CASE ~Replaces(q.estats, row)
  BY <1>2 DEF Retire, Replaces
<1>3. CASE Replaces(q.estats, row)
  <2>1. row.key \in DOMAIN conn /\ Retire(q, row) = r
    BY <1>3 DEF Retire, Replaces
  <2>2. conn[row.key] \in StateRec
    BY <1>1, <2>1, PartialElim
  <2>3. closed \in Obs /\ closed.closed /\ Honest(closed)
    BY <2>2 DEF ClosedObservation, Obs, StateRec, TruthRec, Honest
  <2> HIDE DEF closed
  <2>4. [j \in DOMAIN conn \ {row.key} |-> conn[j]] \in Partial(Key, StateRec)
    BY <1>1, PartialRestrict
  <2>5. /\ r.tcp = q.tcp /\ r.seen = q.seen /\ r.obs = Append(q.obs, closed)
        /\ r.estats.conn = [j \in DOMAIN conn \ {row.key} |-> conn[j]]
        /\ r.estats.generation = q.estats.generation
    BY <1>1 DEF Polling, Collector
  <2>6. r \in Polling
    <3> DEFINE less == [q.estats EXCEPT !.conn = [j \in DOMAIN conn \ {row.key} |-> conn[j]]]
               more == Append(q.obs, closed)
    <3>1. less \in Collector
      BY <1>1, <2>4 DEF Polling, Collector
    <3>2. more \in Seq(Obs)
      BY <1>1, <2>3 DEF Polling
    <3>3. r = [q EXCEPT !.obs = more, !.estats = less]
      BY <1>1 DEF Polling, Collector
    <3> HIDE DEF less, more, r
    <3>4. [q EXCEPT !.obs = more, !.estats = less] \in Polling
      BY <1>1, <3>1, <3>2 DEF Polling
    <3>. QED
      BY <3>3, <3>4
  <2>7. DOMAIN r.obs = 1 .. Len(q.obs) + 1 /\ DOMAIN q.obs = 1 .. Len(q.obs) /\ Len(q.obs) \in Nat
        /\ \A i \in DOMAIN r.obs : r.obs[i] = IF i \in DOMAIN q.obs THEN q.obs[i] ELSE closed
    BY <1>1, <2>3, <2>5 DEF Polling
  <2>8. row.key \notin q.seen
    BY <1>3, <2>1 DEF PollInv, Replaces, Rows
  <2> HIDE DEF r
  <2>9. \A k \in DOMAIN r.estats.conn : k \in DOMAIN conn /\ r.estats.conn[k] = conn[k] /\ k # row.key
    BY <2>5
  <2>10. \A k \in DOMAIN r.estats.conn : StateInv(r.estats.conn[k], k, r.tcp[k], Tried(r, k))
    BY <2>5, <2>9 DEF PollInv, Tried
  <2>11. \A i \in DOMAIN r.obs : Honest(r.obs[i]) /\ (r.obs[i].closed \/ FromRow(r.obs[i], tcp[r.obs[i].key], time))
    BY <2>3, <2>7 DEF PollInv
  <2>12. \A k \in r.seen : k \in DOMAIN r.estats.conn /\ r.estats.conn[k].created = tcp[k].life
    BY <2>5, <2>8 DEF PollInv
  <2>. QED
    BY <2>1, <2>5, <2>6, <2>10, <2>11, <2>12 DEF PollInv
<1>. QED
  BY <1>2, <1>3

\* A state and a row are put in place of the old ones.
LEMMA Placed ==
  ASSUME NEW time \in Nat, NEW q, PollInv(q, time), NEW k \in Key,
         NEW z \in Polling, z.seen = q.seen \cup {k},
         DOMAIN z.estats.conn = DOMAIN q.estats.conn \cup {k},
         \A j \in DOMAIN q.estats.conn \ {k} : z.estats.conn[j] = q.estats.conn[j],
         \A j \in Key \ {k} : z.tcp[j] = q.tcp[j],
         z.estats.conn[k].created = tcp[k].life, SameRow(tcp[k], z.tcp[k]), Enabling(z.tcp[k]),
         StateInv(z.estats.conn[k], k, z.tcp[k], Tried(z, k)),
         \A i \in DOMAIN z.obs : Honest(z.obs[i]) /\ (z.obs[i].closed \/ FromRow(z.obs[i], tcp[z.obs[i].key], time))
  PROVE  PollInv(z, time)
<1>1. q.tcp \in [Key -> Row] /\ z.tcp \in [Key -> Row]
  BY DEF PollInv, Polling
<1>2. \A j \in Key : SameRow(tcp[j], z.tcp[j]) /\ Enabling(z.tcp[j])
  BY <1>1 DEF PollInv
<1>3. ASSUME NEW j \in DOMAIN z.estats.conn
      PROVE  StateInv(z.estats.conn[j], j, z.tcp[j], Tried(z, j))
  <2>0. j \in Key
    BY <1>3, PartialElim DEF PollInv, Polling, Collector
  <2>1. CASE j = k
    BY <2>1
  <2>2. CASE j # k
    <3>1. j \in DOMAIN q.estats.conn /\ z.estats.conn[j] = q.estats.conn[j] /\ z.tcp[j] = q.tcp[j]
      BY <1>1, <2>0, <2>2
    <3>. QED
      BY <3>1 DEF PollInv, Tried
  <2>. QED
    BY <2>1, <2>2
<1>4. \A j \in z.seen : j \in DOMAIN z.estats.conn /\ z.estats.conn[j].created = tcp[j].life
  BY DEF PollInv
<1>. QED
  BY <1>2, <1>3, <1>4 DEF PollInv

LEMMA PutKeeps ==
  ASSUME TcpOK, NEW time \in Nat, NEW q, PollInv(q, time), NEW st \in StateRec, NEW k \in Key, st.key = k,
         st.created = tcp[k].life, StateInv(st, k, q.tcp[k], Tried(q, k)),
         NEW z, z = Put(q, st)
  PROVE  PollInv(z, time) /\ z.tcp = q.tcp /\ k \in DOMAIN z.estats.conn /\ z.estats.conn[k] = st
<1> DEFINE conn == [j \in DOMAIN q.estats.conn \cup {k} |-> IF j = k THEN st ELSE q.estats.conn[j]]
           more == [q.estats EXCEPT !.conn = conn]
<1>1. q \in Polling /\ q.estats \in Collector /\ q.estats.conn \in Partial(Key, StateRec)
  BY DEF PollInv, Polling, Collector
<1>2. conn \in Partial(Key, StateRec)
  BY <1>1, PartialExtend
<1>3. more \in Collector /\ more.conn = conn
  BY <1>1, <1>2 DEF Collector
<1>4. z = [q EXCEPT !.estats = more, !.tcp = q.tcp, !.obs = q.obs, !.seen = q.seen \cup {k}]
  BY <1>1 DEF Put, Polling, Collector
<1> HIDE DEF conn, more
<1>5. z \in Polling
  <2>1. q.tcp \in [Key -> Row] /\ q.obs \in Seq(Obs) /\ q.seen \cup {k} \in SUBSET Key
    BY <1>1 DEF Polling
  <2>2. [q EXCEPT !.estats = more, !.tcp = q.tcp, !.obs = q.obs, !.seen = q.seen \cup {k}] \in Polling
    BY <1>1, <1>3, <2>1 DEF Polling
  <2>. QED
    BY <1>4, <2>2
<1>6. z.estats = more /\ z.tcp = q.tcp /\ z.obs = q.obs /\ z.seen = q.seen \cup {k}
  BY <1>1, <1>4 DEF Polling
<1>7. q.tcp[k] \in Row /\ SameRow(tcp[k], q.tcp[k]) /\ Enabling(q.tcp[k]) /\ q.obs \in Seq(Obs)
      /\ q.tcp = [q.tcp EXCEPT ![k] = q.tcp[k]]
  BY <1>1 DEF PollInv, Polling
<1>8. \A i \in DOMAIN q.obs : Honest(q.obs[i]) /\ (q.obs[i].closed \/ FromRow(q.obs[i], tcp[q.obs[i].key], time))
  BY DEF PollInv
<1>9. StateInv(st, k, z.tcp[k], Tried(z, k))
  BY <1>6 DEF Tried
<1>10. z.estats.conn = [j \in DOMAIN q.estats.conn \cup {k} |-> IF j = k THEN st ELSE q.estats.conn[j]]
  BY <1>3, <1>6 DEF conn
<1>11. /\ DOMAIN z.estats.conn = DOMAIN q.estats.conn \cup {k} /\ z.estats.conn[k] = st
       /\ \A j \in DOMAIN q.estats.conn \ {k} : z.estats.conn[j] = q.estats.conn[j]
  BY <1>10
<1>12. PollInv(z, time)
  BY <1>5, <1>6, <1>7, <1>8, <1>9, <1>10, <1>11, Placed
<1>. QED
  BY <1>6, <1>10, <1>12

LEMMA ObservationType ==
  ASSUME NEW old \in StateRec, NEW c \in Row, NEW r, r.state \in StateRec, r.baseline \in BOOLEAN, r.coarse \in BOOLEAN,
         r.rxDelta \in Nat, r.txDelta \in Nat, NEW time \in Nat
  PROVE  Observation(old, r, c, time) \in Obs
<1>1. old.truth \in TruthRec /\ Truth(c) \in TruthRec
  BY DEF StateRec, Truth, TruthRec, Row
<1>2. /\ r.state.key \in Key /\ r.state.created \in Nat /\ r.state.generation \in Nat /\ r.state.owned \in BOOLEAN
      /\ r.state.error \in BOOLEAN /\ (~r.state.error) \in BOOLEAN
      /\ r.state.rx \in Nat /\ r.state.tx \in Nat /\ r.state.received \in Nat /\ r.state.acked \in Nat
  BY DEF StateRec
<1>3. /\ SendOrigin + c.acked \in Nat /\ SendOrigin + c.tx \in Nat
      /\ ReceiveOrigin + c.rx + (IF c.fin THEN 1 ELSE 0) \in Nat
  <2>1. SendOrigin \in Nat /\ ReceiveOrigin \in Nat
    BY TcpPathsAssumption
  <2>2. c.acked \in Nat /\ c.tx \in Nat /\ c.rx \in Nat
    BY DEF Row
  <2>. QED
    BY <2>1, <2>2
<1>. QED
  BY <1>1, <1>2, <1>3 DEF Observation, Obs

\* Switching collection on leaves the rest of a row as it is.
LEMMA EnabledFacts ==
  ASSUME NEW c \in Row, Enabling(c)
  PROVE  Enabled(c) \in Row /\ SameRow(c, Enabled(c)) /\ Enabling(Enabled(c))
<1>1. Enabled(c) \in Row
  BY DEF Enabled, Row
<1>2. SameRow(c, Enabled(c)) /\ Enabling(Enabled(c))
  BY DEF Enabled, SameRow, Row, Enabling
<1>. QED
  BY <1>1, <1>2

\* The state after a reading.
After(r, time) ==
  [r.result.state EXCEPT !.end = time, !.truth = IF r.result.state.error THEN @ ELSE Truth(r.tcp)]

(* One reading.  A delta lies between what the last reading of the same    *)
(* connection saw and what this one sees.                                  *)
LEMMA ReadingFacts ==
  ASSUME NEW st \in StateRec, NEW c \in Row, NEW k \in Key, NEW tried, NEW fault, NEW time \in Nat,
         Enabling(c), StateInv(st, k, c, tried), st.created = c.life, c.up,
         NEW r, r = ReadCounters(st, c, fault),
         NEW after, after = After(r, time),
         NEW s, s = Observation(st, r.result, r.tcp, time)
  PROVE  /\ r.tcp \in Row /\ SameRow(c, r.tcp) /\ Enabling(r.tcp)
         /\ after \in StateRec /\ after.created = st.created
         /\ StateInv(after, k, r.tcp, tried \/ (r.tcp.on /\ ~c.on))
         /\ s \in Obs /\ s.key = k /\ Honest(s) /\ FromRow(s, c, time)
<1> USE DEF Row, StateRec, TruthRec, Enabling, After
<1> DEFINE on == IF ~c.on /\ fault \notin {"read", "enable"} THEN Enabled(c) ELSE c
           mine == IF ~c.on /\ fault \notin {"read", "enable"}
                   THEN [st EXCEPT !.ours = TRUE, !.baselined = FALSE] ELSE st
<1>1. on \in Row /\ SameRow(c, on) /\ Enabling(on)
  <2>1. c \in Row /\ SameRow(c, c) /\ Enabling(c)
    BY DEF SameRow
  <2>2. Enabled(c) \in Row /\ SameRow(c, Enabled(c)) /\ Enabling(Enabled(c))
    BY EnabledFacts
  <2>. QED
    BY <2>1, <2>2
<1>2. mine \in StateRec /\ mine.key = k /\ mine.created = st.created /\ mine.truth = st.truth
      /\ (mine.ours => st.ours \/ (on.on /\ ~c.on))
      /\ (mine.baselined => mine = st /\ on = c)
  BY DEF StateInv, Enabled
<1>3. /\ r.tcp = on
      /\ \/ r.result = Failed(mine)
         \/ r.result = ApplyCounters(mine, Counters(on), fault)
  BY DEF ReadCounters
<1> HIDE DEF on, mine
<1>4. CASE r.result = Failed(mine)
  <2>1. r.result.state \in StateRec /\ r.result.state.error /\ ~r.result.state.baselined /\ r.result.baseline = TRUE
        /\ r.result.coarse = FALSE /\ r.result.rxDelta = 0 /\ r.result.txDelta = 0
        /\ r.result.state.key = k /\ r.result.state.created = st.created /\ r.result.state.ours = mine.ours
    <3>1. [mine EXCEPT !.acked = 0, !.received = 0, !.baselined = FALSE, !.error = TRUE] \in StateRec
      BY <1>2
    <3>2. /\ r.result.state = [mine EXCEPT !.acked = 0, !.received = 0, !.baselined = FALSE, !.error = TRUE]
          /\ r.result.baseline = TRUE /\ r.result.coarse = FALSE /\ r.result.rxDelta = 0 /\ r.result.txDelta = 0
      BY <1>4 DEF Failed
    <3>. QED
      BY <1>2, <3>1, <3>2
  <2>2. after \in StateRec /\ after.created = st.created /\ ~after.baselined /\ after.key = k /\ after.ours = mine.ours
    BY <2>1
  <2>3. StateInv(after, k, r.tcp, tried \/ (r.tcp.on /\ ~c.on))
    BY <1>1, <1>2, <1>3, <2>2 DEF StateInv, SameRow
  <2>4. s \in Obs
    <3> HIDE DEF Row, StateRec, TruthRec
    <3>1. r.result.rxDelta = 0 /\ r.result.txDelta = 0 /\ r.result.baseline = TRUE /\ r.result.coarse = FALSE
      BY <2>1, Zenon
    <3>2. 0 \in Nat /\ TRUE \in BOOLEAN /\ FALSE \in BOOLEAN
      OBVIOUS
    <3>3. r.result.rxDelta \in Nat /\ r.result.txDelta \in Nat /\ r.result.baseline \in BOOLEAN /\ r.result.coarse \in BOOLEAN
      BY <3>1, <3>2, Zenon
    <3>. QED
      BY <1>1, <1>3, <2>1, <3>3, ObservationType
  <2>5. s.key = k /\ Honest(s)
    BY <2>1 DEF Observation, Honest
  <2>6. FromRow(s, c, time)
    BY <1>1, <1>3, <2>1 DEF Observation, FromRow, Truth, SameRow
  <2>. QED
    BY <1>1, <1>3, <2>2, <2>3, <2>4, <2>5, <2>6
<1>5. CASE r.result = ApplyCounters(mine, Counters(on), fault)
  <2> DEFINE n == Counters(on)
  <2>1. n.rx \in Nat /\ n.tx \in Nat /\ n.acked \in Nat /\ n.received \in Nat
        /\ n.rx = on.rx - on.onRx /\ n.tx = on.wire - on.onWire
    BY <1>1 DEF Counters
  <2> HIDE DEF n
  <2>2. /\ r.result.state = [mine EXCEPT !.rx = n.rx, !.tx = n.tx, !.acked = n.acked, !.received = n.received,
                                         !.baselined = TRUE, !.error = FALSE]
        /\ r.result.baseline \in BOOLEAN /\ r.result.coarse \in BOOLEAN
        /\ \/ r.result.baseline /\ r.result.rxDelta = 0 /\ r.result.txDelta = 0
           \/ /\ ~r.result.baseline /\ mine.baselined /\ n.rx >= mine.rx /\ n.tx >= mine.tx
              /\ r.result.rxDelta = n.rx - mine.rx /\ r.result.txDelta = n.tx - mine.tx
    <3>1. r.result = ApplyCounters(mine, n, fault)
      BY <1>5 DEF n
    <3>2. mine.rx \in Nat /\ mine.tx \in Nat /\ mine.baselined \in BOOLEAN
      BY <1>2
    <3> DEFINE reset == \/ n.rx < mine.rx \/ n.tx < mine.tx \/ fault = "back"
                        \/ n.acked < mine.acked \/ n.received < mine.received
               continues == mine.baselined /\ ~reset
    <3>3. /\ r.result.state = [mine EXCEPT !.rx = n.rx, !.tx = n.tx, !.acked = n.acked, !.received = n.received,
                                           !.baselined = TRUE, !.error = FALSE]
          /\ r.result.baseline = ~continues /\ r.result.coarse = (continues /\ fault = "late")
          /\ r.result.rxDelta = IF continues THEN n.rx - mine.rx ELSE 0
          /\ r.result.txDelta = IF continues THEN n.tx - mine.tx ELSE 0
      BY <3>1 DEF ApplyCounters
    <3>4. continues => mine.baselined /\ ~(n.rx < mine.rx) /\ ~(n.tx < mine.tx)
      OBVIOUS
    <3>5. continues \in BOOLEAN /\ (continues /\ fault = "late") \in BOOLEAN
      BY <3>2
    <3> HIDE DEF continues
    <3>6. CASE continues = TRUE
      <4>1. r.result.baseline = FALSE /\ r.result.coarse \in BOOLEAN
        BY <3>3, <3>5, <3>6
      <4>. QED
        BY <2>1, <3>2, <3>3, <3>4, <3>6, <4>1
    <3>7. CASE continues = FALSE
      <4>1. r.result.baseline = TRUE /\ r.result.coarse \in BOOLEAN
        BY <3>3, <3>5, <3>7
      <4>. QED
        BY <3>3, <3>7, <4>1
    <3>. QED
      BY <3>5, <3>6, <3>7
  <2>3. /\ r.result.state \in StateRec /\ ~r.result.state.error /\ r.result.state.key = k
        /\ r.result.state.created = st.created /\ r.result.state.ours = mine.ours
        /\ r.result.state.rx = n.rx /\ r.result.state.tx = n.tx
    <3>1. [mine EXCEPT !.rx = n.rx, !.tx = n.tx, !.acked = n.acked, !.received = n.received,
                       !.baselined = TRUE, !.error = FALSE] \in StateRec
      BY <1>2, <2>1
    <3>. QED
      BY <1>2, <2>2, <3>1
  <2>4. Truth(on) \in TruthRec /\ Truth(on).life = c.life /\ Truth(on).rx = c.rx /\ Truth(on).wire = c.wire
    BY <1>1 DEF Truth, SameRow
  <2>5. /\ after \in StateRec /\ after.created = st.created /\ after.key = k /\ after.ours = mine.ours
        /\ after.truth = Truth(on) /\ after.rx = n.rx /\ after.tx = n.tx
    BY <1>3, <2>3, <2>4
  <2>6. StateInv(after, k, r.tcp, tried \/ (r.tcp.on /\ ~c.on))
    BY <1>1, <1>2, <1>3, <2>1, <2>4, <2>5 DEF StateInv, SameRow
  <2>7. r.result.rxDelta \in Nat /\ r.result.txDelta \in Nat
    BY <1>2, <2>1, <2>2
  <2>8. s \in Obs /\ s.key = k /\ s.baseline = r.result.baseline /\ s.last = st.truth /\ s.truth = Truth(on)
        /\ s.rxDelta = r.result.rxDelta /\ s.txDelta = r.result.txDelta
    <3>1. s \in Obs
      <4> HIDE DEF Row, StateRec, TruthRec
      <4>. QED
        BY <1>1, <1>3, <2>2, <2>3, <2>7, ObservationType
    <3>. QED
      BY <1>3, <2>3, <3>1 DEF Observation
  <2>9. FromRow(s, c, time)
    BY <1>1, <1>3, <2>3, <2>4 DEF Observation, FromRow, SameRow
  <2>10. Honest(s)
    <3>1. SUFFICES ASSUME ~s.baseline PROVE Honest(s)
      BY DEF Honest
    <3>2. st.baselined /\ mine = st /\ on = c /\ n.rx >= st.rx /\ n.tx >= st.tx
          /\ s.rxDelta = n.rx - st.rx /\ s.txDelta = n.tx - st.tx
      BY <1>2, <2>2, <2>8, <3>1
    <3>3. st.truth.life = c.life /\ st.truth.rx <= c.onRx + st.rx /\ st.truth.wire <= c.onWire + st.tx
      BY <3>2 DEF StateInv
    <3>4. s.rxDelta \in 0 .. (c.rx - st.truth.rx) /\ s.txDelta \in 0 .. (c.wire - st.truth.wire)
      BY <2>1, <3>2, <3>3
    <3>. QED
      BY <2>4, <2>8, <3>3, <3>4 DEF Honest
  <2>. QED
    BY <1>1, <1>3, <2>5, <2>6, <2>8, <2>9, <2>10
<1>. QED
  BY <1>3, <1>4, <1>5

LEMMA ApplyKeeps ==
  ASSUME TcpOK, NEW time \in Nat, NEW q, PollInv(q, time), NEW k \in DOMAIN q.estats.conn,
         q.estats.conn[k].created = tcp[k].life, tcp[k].up, NEW poll, poll.clock = time,
         NEW z, z = Apply(q, q.estats.conn[k], ReadCounters(q.estats.conn[k], q.tcp[k], poll.fault), poll)
  PROVE  PollInv(z, time)
<1> DEFINE st == q.estats.conn[k]
           c == q.tcp[k]
           r == ReadCounters(st, c, poll.fault)
           after == [r.result.state EXCEPT !.end = time,
                       !.truth = IF r.result.state.error THEN @ ELSE Truth(r.tcp)]
           s == Observation(st, r.result, r.tcp, time)
<1>1. /\ q \in Polling /\ q.estats \in Collector /\ q.estats.conn \in Partial(Key, StateRec)
      /\ q.tcp \in [Key -> Row] /\ q.obs \in Seq(Obs) /\ q.seen \in SUBSET Key
  BY DEF PollInv, Polling, Collector
<1>2. k \in Key /\ st \in StateRec
  BY <1>1, PartialElim
<1>3. c \in Row /\ SameRow(tcp[k], c) /\ Enabling(c) /\ StateInv(st, k, c, Tried(q, k)) /\ st.created = c.life
      /\ c.up
  BY <1>1, <1>2 DEF PollInv, SameRow
<1>4. st.key = k
  BY <1>3 DEF StateInv
<1>5. z = [Put(q, after) EXCEPT !.tcp[st.key] = r.tcp, !.obs = Append(@, s)]
  BY DEF Apply
<1> HIDE DEF st, c
<1>51. r = ReadCounters(st, c, poll.fault)
  OBVIOUS
<1>52. after = After(r, time)
  BY DEF After
<1>53. s = Observation(st, r.result, r.tcp, time)
  OBVIOUS
<1> HIDE DEF r, after, s
<1>6. /\ r.tcp \in Row /\ SameRow(c, r.tcp) /\ Enabling(r.tcp)
      /\ after \in StateRec /\ after.created = st.created
      /\ StateInv(after, k, r.tcp, Tried(q, k) \/ (r.tcp.on /\ ~c.on))
      /\ s \in Obs /\ s.key = k /\ Honest(s) /\ FromRow(s, c, time)
  BY <1>2, <1>3, <1>51, <1>52, <1>53, ReadingFacts
<1>7. after.key = k
  BY <1>6 DEF StateInv
<1> DEFINE conn == [j \in DOMAIN q.estats.conn \cup {k} |-> IF j = k THEN after ELSE q.estats.conn[j]]
           more == [q.estats EXCEPT !.conn = conn]
           rows == [q.tcp EXCEPT ![k] = r.tcp]
           obs == Append(q.obs, s)
<1>8. conn \in Partial(Key, StateRec)
  BY <1>1, <1>2, <1>6, PartialExtend
<1>9. more \in Collector /\ more.conn = conn
  BY <1>1, <1>8 DEF Collector
<1>10. rows \in [Key -> Row] /\ obs \in Seq(Obs) /\ q.seen \cup {k} \in SUBSET Key
  BY <1>1, <1>2, <1>6
<1>11. z = [q EXCEPT !.estats = more, !.tcp = rows, !.obs = obs, !.seen = q.seen \cup {k}]
  <2>1. Put(q, after) = [q EXCEPT !.estats = more, !.seen = q.seen \cup {k}]
    BY <1>1, <1>7 DEF Put, Polling, Collector
  <2> HIDE DEF conn, more
  <2>2. more \in Collector
    BY <1>9
  <2>. QED
    BY <1>1, <1>4, <1>5, <2>1, <2>2 DEF Polling
<1> HIDE DEF conn, more, rows, obs
<1>12. z \in Polling /\ z.estats = more /\ z.tcp = rows /\ z.obs = obs /\ z.seen = q.seen \cup {k}
  BY <1>1, <1>9, <1>10, <1>11 DEF Polling
<1>13. /\ DOMAIN z.estats.conn = DOMAIN q.estats.conn \cup {k} /\ z.estats.conn[k] = after
       /\ \A j \in DOMAIN q.estats.conn \ {k} : z.estats.conn[j] = q.estats.conn[j]
  BY <1>9, <1>12 DEF conn
<1>14. z.tcp[k] = r.tcp /\ \A j \in Key \ {k} : z.tcp[j] = q.tcp[j]
  BY <1>1, <1>2, <1>12 DEF rows
<1>15. z.estats.conn[k].created = tcp[k].life
  BY <1>3, <1>6, <1>13 DEF st
<1>16. SameRow(tcp[k], r.tcp)
  BY <1>3, <1>6 DEF SameRow
<1>17. StateInv(after, k, r.tcp, Tried(z, k))
  <2>1. Tried(q, k) \/ (r.tcp.on /\ ~c.on) => Tried(z, k)
    BY <1>3, <1>6, <1>14 DEF SameRow, Tried, c
  <2>. QED
    BY <1>6, <2>1 DEF StateInv
<1>18. ASSUME NEW i \in DOMAIN z.obs
       PROVE  Honest(z.obs[i]) /\ (z.obs[i].closed \/ FromRow(z.obs[i], tcp[z.obs[i].key], time))
  <2>1. DOMAIN q.obs = 1 .. Len(q.obs) /\ Len(q.obs) \in Nat /\ DOMAIN z.obs = 1 .. (Len(q.obs) + 1)
        /\ \A j \in DOMAIN z.obs : z.obs[j] = IF j \in DOMAIN q.obs THEN q.obs[j] ELSE s
    BY <1>1, <1>6, <1>12 DEF obs
  <2>2. CASE i \in DOMAIN q.obs
    BY <2>1, <2>2 DEF PollInv
  <2>3. CASE i \notin DOMAIN q.obs
    <3>1. FromRow(s, tcp[s.key], time)
      BY <1>3, <1>6 DEF FromRow, SameRow
    <3>. QED
      BY <1>6, <2>1, <2>3, <3>1
  <2>. QED
    BY <2>2, <2>3
<1>. QED
  BY <1>2, <1>6, <1>12, <1>13, <1>14, <1>15, <1>16, <1>17, <1>18, Placed

LEMMA ReadRowKeeps ==
  ASSUME TcpOK, NEW time \in Nat, NEW q, PollInv(q, time), NEW k \in DOMAIN q.estats.conn,
         q.estats.conn[k].created = tcp[k].life, tcp[k].up, NEW poll, poll.clock = time, NEW fresh,
         NEW z, z = ReadRow(q, q.estats.conn[k], poll, fresh)
  PROVE  PollInv(z, time)
<1> DEFINE st == q.estats.conn[k]
<1>1. q.estats.conn \in Partial(Key, StateRec) /\ StateInv(st, k, q.tcp[k], Tried(q, k))
  BY DEF PollInv, Polling, Collector
<1>2. k \in Key /\ st \in StateRec /\ st.key = k
  BY <1>1, PartialElim DEF StateInv
<1>3. CASE poll.stopping \/ (~fresh /\ ~poll.read) \/ (st.error /\ poll.wait)
  <2>1. z = Put(q, st)
    BY <1>3 DEF ReadRow
  <2> HIDE DEF st
  <2>2. st.created = tcp[k].life
    BY DEF st
  <2>. QED
    BY <1>1, <1>2, <2>1, <2>2, PutKeeps
<1>4. CASE ~(poll.stopping \/ (~fresh /\ ~poll.read) \/ (st.error /\ poll.wait))
  <2>1. z = Apply(q, st, ReadCounters(st, q.tcp[st.key], poll.fault), poll)
    BY <1>4 DEF ReadRow
  <2>2. z = Apply(q, st, ReadCounters(st, q.tcp[k], poll.fault), poll)
    BY <1>2, <2>1
  <2>. QED
    BY <2>2, ApplyKeeps
<1>. QED
  BY <1>3, <1>4

LEMMA DiscoverKeeps ==
  ASSUME TcpOK, NEW time \in Nat, NEW q, PollInv(q, time), NEW row \in Rows, NEW poll,
         NEW z, z = Discover(q, row, poll),
         row.key \in DOMAIN q.estats.conn => q.estats.conn[row.key].created = row.created
  PROVE  /\ PollInv(z, time)
         /\ row.key \in DOMAIN z.estats.conn => z.estats.conn[row.key].created = row.created
<1> DEFINE k == row.key
           generation == q.estats.generation + 1
           st == Fresh(row, generation, poll.fault # "owner")
           q2 == [q EXCEPT !.estats.generation = generation]
<1>1. k \in Key /\ row.created = tcp[k].life /\ tcp[k].up
  BY DEF Rows
<1>2. CASE z = q
  BY <1>2
<1>3. CASE z = Put(q2, st)
  <2>1. q \in Polling /\ q.estats \in Collector /\ q.estats.generation \in Nat /\ q.tcp \in [Key -> Row]
    BY DEF PollInv, Polling, Collector
  <2>2. [q.estats EXCEPT !.generation = generation] \in Collector
    BY <2>1 DEF Collector
  <2>3. q2 \in Polling /\ q2.tcp = q.tcp /\ q2.obs = q.obs /\ q2.seen = q.seen /\ q2.estats.conn = q.estats.conn
    BY <2>1, <2>2 DEF Polling, Collector
  <2>4. st \in StateRec /\ st.key = k /\ st.created = tcp[k].life /\ ~st.ours /\ ~st.baselined
    BY <1>1, <2>1 DEF Fresh, StateRec, TruthRec, TcpOK, Row
  <2> HIDE DEF q2, st
  <2>5. PollInv(q2, time)
    BY <2>3 DEF PollInv, Tried
  <2>6. StateInv(st, k, q2.tcp[k], Tried(q2, k))
    <3>1. q.tcp[k].life = tcp[k].life /\ tcp[k].life \in Nat
      BY <1>1 DEF PollInv, SameRow, TcpOK, Row
    <3>. QED
      BY <2>3, <2>4, <3>1 DEF StateInv
  <2>7. PollInv(z, time) /\ k \in DOMAIN z.estats.conn /\ z.estats.conn[k] = st
    BY <1>1, <1>3, <2>4, <2>5, <2>6, PutKeeps
  <2>. QED
    BY <1>1, <2>4, <2>7
<1>4. z = q \/ z = Put(q2, st)
  BY DEF Discover
<1>. QED
  BY <1>2, <1>3, <1>4

LEMMA VisitKeeps ==
  ASSUME TcpOK, NEW time \in Nat, NEW q, PollInv(q, time), NEW row \in Rows, NEW poll, poll.clock = time
  PROVE  PollInv(Visit(q, row, poll), time) /\ (poll.stopping => Visit(q, row, poll).tcp = q.tcp)
<1> DEFINE q1 == Retire(q, row)
           q2 == Discover(q1, row, poll)
           fresh == row.key \notin DOMAIN q.estats.conn \/ Replaces(q.estats, row)
<1>1. PollInv(q1, time) /\ (row.key \in DOMAIN q1.estats.conn => q1.estats.conn[row.key].created = row.created)
  BY RetireKeeps
<1> HIDE DEF q1
<1>2. PollInv(q2, time) /\ (row.key \in DOMAIN q2.estats.conn => q2.estats.conn[row.key].created = row.created)
  BY <1>1, DiscoverKeeps
<1> HIDE DEF q2
<1>3. Visit(q, row, poll) = Visited(q2, row, poll, fresh)
  BY DEF Visit, q1, q2
<1>4. row.created = tcp[row.key].life /\ tcp[row.key].up
  BY DEF Rows
<1> HIDE DEF fresh
<1>5. ASSUME row.key \in DOMAIN q2.estats.conn PROVE PollInv(Visit(q, row, poll), time)
  <2>1. Visited(q2, row, poll, fresh) = ReadRow(q2, q2.estats.conn[row.key], poll, fresh)
    BY <1>5 DEF Visited
  <2>. QED
    BY <1>2, <1>3, <1>4, <1>5, <2>1, ReadRowKeeps
<1>6. ASSUME row.key \notin DOMAIN q2.estats.conn PROVE PollInv(Visit(q, row, poll), time)
  BY <1>2, <1>3, <1>6 DEF Visited
<1>7. ASSUME poll.stopping PROVE Visit(q, row, poll).tcp = q.tcp
  <2>1. q1.tcp = q.tcp
    BY DEF q1, Retire, PollInv, Polling
  <2>2. q2 = q1
    BY <1>7 DEF q2, Discover
  <2>3. \A st : Put(q2, st).tcp = q2.tcp
    BY <1>2 DEF Put, PollInv, Polling
  <2>. QED
    BY <1>3, <1>7, <2>1, <2>2, <2>3 DEF Visited, ReadRow
<1>. QED
  BY <1>5, <1>6, <1>7

LEMMA RowsFinite == IsFiniteSet(Rows)
<1> DEFINE T == {j \in Key : tcp[j].up}
           f == [k \in T |-> [key |-> k, created |-> tcp[k].life]]
<1>1. IsFiniteSet(T)
  BY TcpPathsAssumption, FS_Subset
<1>2. f \in Surjection(T, Rows)
  BY DEF Surjection, Rows
<1>. QED
  BY <1>1, <1>2, FS_Surjection

LEMMA VisitAllKeeps ==
  ASSUME TcpOK, NEW time \in Nat, NEW q, PollInv(q, time), NEW poll, poll.clock = time
  PROVE  PollInv(VisitAll(q, Rows, poll), time) /\ (poll.stopping => VisitAll(q, Rows, poll).tcp = q.tcp)
<1> DEFINE seq == SetToSeq(Rows)
           n == Cardinality(Rows)
<1>1. n \in Nat /\ seq \in [1 .. n -> Rows] /\ DOMAIN seq = 1 .. n
  BY RowsFinite, SetToSeqFacts
<1>2. PICK u : Path("visit", poll, q, seq, n, u) /\ VisitAll(q, Rows, poll) = u[n]
  BY <1>1, VisitPath
<1> HIDE DEF seq, n
<1> DEFINE Good(z) == PollInv(z, time) /\ (poll.stopping => z.tcp = q.tcp)
           Bad == {i \in 0 .. n : ~Good(u[i])}
<1>3. SUFFICES ASSUME Bad # {} PROVE FALSE
  BY <1>1, <1>2
<1>4. PICK i \in Bad : \A j \in Bad : i <= j
  <2>1. Bad \in SUBSET Nat
    BY <1>1
  <2>. QED
    BY <1>3, <2>1, LeastNat
<1>5. u[0] = q
  BY <1>2 DEF Path
<1>6. i \in 1 .. n /\ i - 1 \in 0 .. n /\ i - 1 \notin Bad
  BY <1>1, <1>4, <1>5
<1>7. u[i] = Visit(u[i - 1], seq[i], poll)
  BY <1>2, <1>6 DEF Path, Turn
<1>8. Good(u[i - 1]) /\ seq[i] \in Rows
  BY <1>1, <1>6
<1>9. Good(u[i])
  BY <1>7, <1>8, VisitKeeps
<1>. QED
  BY <1>4, <1>9

LEMMA CloseUnseenKeeps ==
  ASSUME NEW time \in Nat, NEW q, PollInv(q, time)
  PROVE  PollInv(CloseUnseen(q), time)
<1> DEFINE conn == q.estats.conn
           gone == SetToSeq(Unseen(q))
           closed == [i \in DOMAIN gone |-> ClosedObservation(conn[gone[i]])]
           less == [q.estats EXCEPT !.conn = [k \in DOMAIN conn \cap q.seen |-> conn[k]]]
           z == CloseUnseen(q)
<1>1. /\ q \in Polling /\ q.estats \in Collector /\ conn \in Partial(Key, StateRec)
      /\ q.tcp \in [Key -> Row] /\ q.obs \in Seq(Obs) /\ q.seen \in SUBSET Key
  BY DEF PollInv, Polling, Collector
<1>2. DOMAIN conn \subseteq Key /\ \A k \in DOMAIN conn : conn[k] \in StateRec
  BY <1>1, PartialElim
<1>3. IsFiniteSet(Unseen(q))
  BY <1>2, TcpPathsAssumption, FS_Subset DEF Unseen
<1> DEFINE n == Cardinality(Unseen(q))
<1>4. n \in Nat /\ gone \in [1 .. n -> Unseen(q)] /\ DOMAIN gone = 1 .. n
  BY <1>3, SetToSeqFacts
<1>5. closed \in Seq(Obs) /\ Len(closed) = n
      /\ \A i \in 1 .. n : closed[i].closed /\ Honest(closed[i])
  <2>1. ASSUME NEW i \in 1 .. n
        PROVE  /\ ClosedObservation(conn[gone[i]]) \in Obs
               /\ ClosedObservation(conn[gone[i]]).closed /\ Honest(ClosedObservation(conn[gone[i]]))
    <3> HIDE DEF gone, n
    <3>1. gone[i] \in DOMAIN conn
      BY <1>4 DEF Unseen
    <3>2. conn[gone[i]] \in StateRec
      BY <1>2, <3>1
    <3>. QED
      BY <3>2 DEF ClosedObservation, Obs, StateRec, TruthRec, Honest
  <2> HIDE DEF gone, n
  <2>2. closed \in [1 .. n -> Obs] /\ \A i \in 1 .. n : closed[i] = ClosedObservation(conn[gone[i]])
    BY <1>4, <2>1
  <2>. QED
    BY <1>4, <2>1, <2>2
<1>6. z = [q EXCEPT !.obs = q.obs \o closed, !.estats = less]
  BY <1>1 DEF CloseUnseen, Polling, Collector
<1> HIDE DEF closed, gone
<1>7. less \in Collector /\ less.conn = [k \in DOMAIN conn \cap q.seen |-> conn[k]]
  <2>1. [k \in DOMAIN conn \cap q.seen |-> conn[k]] \in Partial(Key, StateRec)
    BY <1>1, PartialRestrict
  <2>. QED
    BY <1>1, <2>1 DEF Collector
<1>8. q.obs \o closed \in Seq(Obs)
  BY <1>1, <1>5
<1>9. z \in Polling /\ z.estats = less /\ z.tcp = q.tcp /\ z.seen = q.seen /\ z.obs = q.obs \o closed
  <2> HIDE DEF less, z
  <2>. QED
    BY <1>1, <1>6, <1>7, <1>8 DEF Polling
<1> HIDE DEF z, less
<1>10. ASSUME NEW i \in DOMAIN z.obs
       PROVE  Honest(z.obs[i]) /\ (z.obs[i].closed \/ FromRow(z.obs[i], tcp[z.obs[i].key], time))
  <2>1. /\ Len(q.obs) \in Nat /\ i \in 1 .. Len(q.obs) + n /\ DOMAIN q.obs = 1 .. Len(q.obs)
        /\ z.obs[i] = IF i <= Len(q.obs) THEN q.obs[i] ELSE closed[i - Len(q.obs)]
    BY <1>1, <1>4, <1>5, <1>9, ConcatProperties, LenProperties
  <2>2. CASE i <= Len(q.obs)
    <3>1. i \in DOMAIN q.obs /\ z.obs[i] = q.obs[i]
      BY <2>1, <2>2
    <3>. QED
      BY <3>1 DEF PollInv
  <2>3. CASE ~(i <= Len(q.obs))
    <3>1. i - Len(q.obs) \in 1 .. n
      BY <1>4, <2>1, <2>3
    <3>. QED
      BY <1>5, <2>1, <2>3, <3>1
  <2>. QED
    BY <2>2, <2>3
<1>11. DOMAIN z.estats.conn = DOMAIN conn \cap q.seen /\ \A k \in DOMAIN z.estats.conn : z.estats.conn[k] = conn[k]
  BY <1>7, <1>9
<1>12. \A k \in DOMAIN z.estats.conn : StateInv(z.estats.conn[k], k, z.tcp[k], Tried(z, k))
  BY <1>9, <1>11 DEF PollInv, Tried
<1>13. \A k \in z.seen : k \in DOMAIN z.estats.conn /\ z.estats.conn[k].created = tcp[k].life
  BY <1>9, <1>11 DEF PollInv
<1>14. \A k \in Key : SameRow(tcp[k], z.tcp[k]) /\ Enabling(z.tcp[k])
  BY <1>9 DEF PollInv
<1> HIDE DEF conn
<1>. QED
  BY <1>9, <1>10, <1>12, <1>13, <1>14 DEF PollInv, z

(* A poll keeps the invariant of the collector, and what it observed is    *)
(* honest; what it enabled itself is counted as tried.                     *)
LEMMA PollKeeps ==
  ASSUME TcpOK, EStatsInv, NEW time \in Nat, NEW poll, poll.clock = time
  PROVE  /\ PollInv(Poll(estats, tcp, Rows, poll), time)
         /\ poll.stopping => Poll(estats, tcp, Rows, poll).tcp = tcp
<1> DEFINE q == [estats |-> estats, tcp |-> tcp, obs |-> << >>, seen |-> {}]
<1>1. PollInv(q, time)
  <2>1. q \in Polling
    BY DEF TcpOK, EStatsInv, Polling
  <2>2. \A k \in Key : SameRow(tcp[k], tcp[k]) /\ Enabling(tcp[k])
    BY DEF TcpOK, SameRow
  <2>3. q.estats = estats /\ q.tcp = tcp /\ DOMAIN q.obs = {} /\ q.seen = {}
    OBVIOUS
  <2>4. \A k \in DOMAIN estats.conn : StateInv(estats.conn[k], k, tcp[k], Tried(q, k))
    BY <2>3 DEF EStatsInv, Tried, StateInv
  <2> HIDE DEF q
  <2>. QED
    BY <2>1, <2>2, <2>3, <2>4 DEF PollInv
<1>2. Poll(estats, tcp, Rows, poll) = q \/ Poll(estats, tcp, Rows, poll) = CloseUnseen(VisitAll(q, Rows, poll))
  BY DEF Poll
<1>3. q.tcp = tcp
  OBVIOUS
<1> HIDE DEF q
<1>4. PollInv(VisitAll(q, Rows, poll), time) /\ (poll.stopping => VisitAll(q, Rows, poll).tcp = tcp)
  BY <1>1, <1>3, VisitAllKeeps
<1> DEFINE z == VisitAll(q, Rows, poll)
<1> HIDE DEF z
<1>5. PollInv(z, time) => CloseUnseen(z).tcp = z.tcp
  BY DEF CloseUnseen, PollInv, Polling
<1>. QED
  BY <1>1, <1>2, <1>3, <1>4, <1>5, CloseUnseenKeeps DEF z

-----------------------------------------------------------------------------
(* The invariant of the kernel's rows, the collector and the readings.     *)
\* What the kernel may do to a row: move it on, or open another connection.
Grows(c, d) ==
  /\ Enabling(d)
  /\ \/ /\ d.life = c.life /\ d.tried = c.tried
        /\ d.rx >= c.rx /\ d.wire >= c.wire /\ d.onRx >= c.onRx /\ d.onWire >= c.onWire
     \/ d.life > clock

LEMMA RowChanges ==
  ASSUME CollectorInv, NEW k \in Key, NEW d \in Row, tcp' = [tcp EXCEPT ![k] = d], Grows(tcp[k], d),
         clock' \in Nat, clock <= clock', d.life <= clock', UNCHANGED <<estats, reading>>
  PROVE  CollectorInv'
<1>1. /\ clock \in Nat /\ tcp \in [Key -> Row] /\ tcp' \in [Key -> Row] /\ tcp'[k] = d
      /\ \A j \in Key \ {k} : tcp'[j] = tcp[j]
  BY DEF CollectorInv, TcpOK
<1>2. TcpOK'
  <2>1. ASSUME NEW j \in Key PROVE Enabling(tcp'[j]) /\ tcp'[j].life <= clock'
    <3>1. CASE j = k
      BY <1>1, <3>1 DEF Grows
    <3>2. CASE j # k
      <4>1. tcp[j] \in Row /\ tcp'[j] = tcp[j] /\ Enabling(tcp[j]) /\ tcp[j].life <= clock
        BY <1>1, <3>2 DEF CollectorInv, TcpOK
      <4>2. tcp[j].life \in Nat
        BY <4>1 DEF Row
      <4>. QED
        BY <1>1, <4>1, <4>2
    <3>. QED
      BY <3>1, <3>2
  <2>. QED
    BY <1>1, <2>1 DEF TcpOK
<1>3. EStatsInv'
  <2>1. estats \in Collector /\ estats' = estats
    BY DEF CollectorInv, EStatsInv
  <2>2. ASSUME NEW j \in DOMAIN estats.conn
        PROVE  StateInv(estats.conn[j], j, tcp'[j], tcp'[j].tried)
    <3> DEFINE st == estats.conn[j]
    <3>1. j \in Key /\ st \in StateRec
      BY <2>1, PartialElim DEF Collector
    <3>2. StateInv(st, j, tcp[j], tcp[j].tried)
      BY DEF CollectorInv, EStatsInv
    <3>3. CASE j # k
      BY <1>1, <3>1, <3>2, <3>3
    <3>4. CASE j = k
      <4>1. tcp[k] \in Row /\ tcp[k].life <= clock
        BY <1>1 DEF CollectorInv, TcpOK
      <4>2. StateInv(st, k, d, d.tried)
        <5> HIDE DEF st
        <5>1. StateInv(st, k, tcp[k], tcp[k].tried)
          BY <3>2, <3>4
        <5>2. CASE d.life > clock
          BY <1>1, <3>1, <4>1, <5>1, <5>2 DEF StateInv, Row, StateRec
        <5>3. CASE ~(d.life > clock)
          <6>1. /\ d.life = tcp[k].life /\ d.tried = tcp[k].tried
                /\ d.rx >= tcp[k].rx /\ d.wire >= tcp[k].wire /\ d.onRx >= tcp[k].onRx /\ d.onWire >= tcp[k].onWire
            BY <5>3 DEF Grows
          <6>. QED
            BY <3>1, <4>1, <5>1, <6>1 DEF StateInv, Row, StateRec, TruthRec
        <5>. QED
          BY <5>2, <5>3
      <4>. QED
        BY <1>1, <3>4, <4>2
    <3>. QED
      BY <3>3, <3>4
  <2>. QED
    BY <2>1, <2>2 DEF EStatsInv
<1>. QED
  BY <1>2, <1>3 DEF CollectorInv

Moves(c, d) == d \in Row /\ Grows(c, d) /\ d.life = c.life

LEMMA RowMoves ==
  ASSUME NEW c \in Row, Enabling(c)
  PROVE  /\ Moves(c, [c EXCEPT !.rx = @ + 1])
         /\ Moves(c, [c EXCEPT !.tx = @ + 1, !.wire = @ + 1])
         /\ Moves(c, [c EXCEPT !.wire = @ + 1])
         /\ Moves(c, [c EXCEPT !.fin = TRUE])
         /\ Moves(c, [c EXCEPT !.up = FALSE])
         /\ Moves(c, [c EXCEPT !.on = FALSE])
         /\ Moves(c, Enabled(c))
         /\ (c.acked < c.tx => Moves(c, [c EXCEPT !.acked = c.tx]))
<1>1. Moves(c, [c EXCEPT !.rx = @ + 1])
  <2>1. [c EXCEPT !.rx = @ + 1] \in Row
    BY DEF Row
  <2>. QED
    BY <2>1 DEF Moves, Grows, Row, Enabling
<1>2. Moves(c, [c EXCEPT !.tx = @ + 1, !.wire = @ + 1])
  <2>1. [c EXCEPT !.tx = @ + 1, !.wire = @ + 1] \in Row
    <3> DEFINE b == [c EXCEPT !.tx = @ + 1]
    <3>1. b \in Row /\ [c EXCEPT !.tx = @ + 1, !.wire = @ + 1] = [b EXCEPT !.wire = @ + 1]
      BY DEF Row
    <3> HIDE DEF b
    <3>2. [b EXCEPT !.wire = @ + 1] \in Row
      BY <3>1 DEF Row
    <3>. QED
      BY <3>1, <3>2
  <2>. QED
    BY <2>1 DEF Moves, Grows, Row, Enabling
<1>3. Moves(c, [c EXCEPT !.wire = @ + 1])
  <2>1. [c EXCEPT !.wire = @ + 1] \in Row
    BY DEF Row
  <2>. QED
    BY <2>1 DEF Moves, Grows, Row, Enabling
<1>4. Moves(c, [c EXCEPT !.fin = TRUE])
  <2>1. [c EXCEPT !.fin = TRUE] \in Row
    BY DEF Row
  <2>. QED
    BY <2>1 DEF Moves, Grows, Row, Enabling
<1>5. Moves(c, [c EXCEPT !.up = FALSE])
  <2>1. [c EXCEPT !.up = FALSE] \in Row
    BY DEF Row
  <2>. QED
    BY <2>1 DEF Moves, Grows, Row, Enabling
<1>6. Moves(c, [c EXCEPT !.on = FALSE])
  <2>1. [c EXCEPT !.on = FALSE] \in Row
    BY DEF Row
  <2>. QED
    BY <2>1 DEF Moves, Grows, Row, Enabling
<1>7. Moves(c, Enabled(c))
  <2>1. Enabled(c) \in Row
    BY DEF Row, Enabled
  <2>. QED
    BY <2>1 DEF Moves, Grows, Row, Enabling, Enabled
<1>8. ASSUME c.acked < c.tx PROVE Moves(c, [c EXCEPT !.acked = c.tx])
  <2>1. [c EXCEPT !.acked = c.tx] \in Row
    BY DEF Row
  <2>. QED
    BY <1>8, <2>1 DEF Moves, Grows, Row, Enabling
<1>. QED
  BY <1>1, <1>2, <1>3, <1>4, <1>5, <1>6, <1>7, <1>8

LEMMA CollectorKernel ==
  ASSUME CollectorInv, Kernel
  PROVE  CollectorInv'
<1>0. clock \in Nat /\ tcp \in [Key -> Row] /\ \A k \in Key : tcp[k] \in Row /\ Enabling(tcp[k]) /\ tcp[k].life <= clock
  BY DEF CollectorInv, TcpOK
<1> USE DEF UNCHANGEDRest
<1>1. ASSUME NEW k \in Key, NEW x \in Tcb, Open(k, x) PROVE CollectorInv'
  <2> DEFINE d == [NoTcp EXCEPT !.life = clock + 1, !.tcb = x, !.up = TRUE]
  <2>1. d \in Row /\ Enabling(d) /\ d.life = clock + 1
    <3>1. NoTcp \in Row /\ Enabling(NoTcp)
      BY DEF NoTcp, Row, Enabling
    <3> DEFINE a == [NoTcp EXCEPT !.life = clock + 1]
               b == [a EXCEPT !.tcb = x]
    <3>2. a \in Row /\ a.life = clock + 1 /\ Enabling(a)
      BY <1>0, <3>1 DEF Row, Enabling
    <3>3. d = [b EXCEPT !.up = TRUE]
      OBVIOUS
    <3> HIDE DEF a
    <3>4. b \in Row /\ b.life = clock + 1 /\ Enabling(b)
      BY <3>2 DEF Row, Enabling
    <3> HIDE DEF b, d
    <3>. QED
      BY <3>3, <3>4 DEF Row, Enabling
  <2>2. tcp' = [tcp EXCEPT ![k] = d] /\ clock' = clock + 3 /\ estats' = estats /\ reading' = reading
    BY <1>1 DEF Open
  <2> HIDE DEF d
  <2>3. clock' \in Nat /\ clock <= clock' /\ d.life <= clock' /\ Grows(tcp[k], d)
    BY <1>0, <2>1, <2>2 DEF Grows
  <2>. QED
    BY <2>1, <2>2, <2>3, RowChanges
<1>9. ASSUME NEW k \in Key, NEW d \in Row, Grows(tcp[k], d), d.life = tcp[k].life, tcp' = [tcp EXCEPT ![k] = d],
             clock' \in {clock, clock + 1}, UNCHANGED <<estats, reading>>
      PROVE  CollectorInv'
  <2>1. clock' \in Nat /\ clock <= clock' /\ d.life <= clock'
    <3>1. tcp[k].life \in Nat
      BY <1>0 DEF Row
    <3>. QED
      BY <1>0, <1>9, <3>1
  <2>. QED
    BY <1>9, <2>1, RowChanges
<1>2. ASSUME NEW k \in Key, Receive(k) PROVE CollectorInv'
  <2> DEFINE d == [tcp[k] EXCEPT !.rx = @ + 1]
  <2>1. tcp' = [tcp EXCEPT ![k] = d] /\ clock' = clock + 1 /\ estats' = estats /\ reading' = reading
    BY <1>0, <1>2 DEF Receive
  <2>2. Moves(tcp[k], d)
    BY <1>0, <2>1, RowMoves, Zenon
  <2> HIDE DEF d
  <2>. QED
    BY <1>9, <2>1, <2>2 DEF Moves
<1>3. ASSUME NEW k \in Key, Send(k) PROVE CollectorInv'
  <2> DEFINE d == [tcp[k] EXCEPT !.tx = @ + 1, !.wire = @ + 1]
  <2>1. tcp' = [tcp EXCEPT ![k] = d] /\ clock' = clock + 1 /\ estats' = estats /\ reading' = reading
    BY <1>0, <1>3 DEF Send
  <2>2. Moves(tcp[k], d)
    BY <1>0, <2>1, RowMoves, Zenon
  <2> HIDE DEF d
  <2>. QED
    BY <1>9, <2>1, <2>2 DEF Moves
<1>4. ASSUME NEW k \in Key, Ack(k) PROVE CollectorInv'
  <2> DEFINE d == [tcp[k] EXCEPT !.acked = tcp[k].tx]
  <2>1. tcp' = [tcp EXCEPT ![k] = d] /\ clock' = clock /\ estats' = estats /\ reading' = reading /\ tcp[k].acked < tcp[k].tx
    BY <1>0, <1>4 DEF Ack
  <2>2. Moves(tcp[k], d)
    BY <1>0, <2>1, RowMoves, Zenon
  <2> HIDE DEF d
  <2>. QED
    BY <1>9, <2>1, <2>2 DEF Moves
<1>5. ASSUME NEW k \in Key, Retransmit(k) PROVE CollectorInv'
  <2> DEFINE d == [tcp[k] EXCEPT !.wire = @ + 1]
  <2>1. tcp' = [tcp EXCEPT ![k] = d] /\ clock' = clock + 1 /\ estats' = estats /\ reading' = reading
    BY <1>0, <1>5 DEF Retransmit
  <2>2. Moves(tcp[k], d)
    BY <1>0, <2>1, RowMoves, Zenon
  <2> HIDE DEF d
  <2>. QED
    BY <1>9, <2>1, <2>2 DEF Moves
<1>6. ASSUME NEW k \in Key, PeerFin(k) PROVE CollectorInv'
  <2> DEFINE d == [tcp[k] EXCEPT !.fin = TRUE]
  <2>1. tcp' = [tcp EXCEPT ![k] = d] /\ clock' = clock + 1 /\ estats' = estats /\ reading' = reading
    BY <1>0, <1>6 DEF PeerFin
  <2>2. Moves(tcp[k], d)
    BY <1>0, <2>1, RowMoves, Zenon
  <2> HIDE DEF d
  <2>. QED
    BY <1>9, <2>1, <2>2 DEF Moves
<1>7. ASSUME NEW k \in Key, Close(k) PROVE CollectorInv'
  <2> DEFINE d == [tcp[k] EXCEPT !.up = FALSE]
  <2>1. tcp' = [tcp EXCEPT ![k] = d] /\ clock' = clock + 1 /\ estats' = estats /\ reading' = reading
    BY <1>0, <1>7 DEF Close
  <2>2. Moves(tcp[k], d)
    BY <1>0, <2>1, RowMoves, Zenon
  <2> HIDE DEF d
  <2>. QED
    BY <1>9, <2>1, <2>2 DEF Moves
<1>8. ASSUME NEW k \in Key, NEW on \in BOOLEAN, Foreign(k, on) PROVE CollectorInv'
  <2> DEFINE d == IF on THEN Enabled(tcp[k]) ELSE [tcp[k] EXCEPT !.on = FALSE]
  <2>1. tcp' = [tcp EXCEPT ![k] = d] /\ clock' = clock /\ estats' = estats /\ reading' = reading
    BY <1>0, <1>8 DEF Foreign
  <2>2. Moves(tcp[k], d)
    BY <1>0, <2>1, RowMoves, Zenon
  <2> HIDE DEF d
  <2>. QED
    BY <1>9, <2>1, <2>2 DEF Moves
<1>. QED
  BY <1>1, <1>2, <1>3, <1>4, <1>5, <1>6, <1>7, <1>8 DEF Kernel

LEMMA CollectorPolled ==
  ASSUME CollectorInv, NEW sample, NEW wait, NEW fault, PollNow(sample, wait, fault)
  PROVE  CollectorInv'
<1> DEFINE poll == [read |-> sample, wait |-> wait, stopping |-> FALSE, fault |-> fault, clock |-> clock + 1]
           q == Poll(estats, tcp, Rows, poll)
<1>0. clock \in Nat /\ tcp \in [Key -> Row] /\ \A k \in Key : Enabling(tcp[k]) /\ tcp[k].life <= clock
  BY DEF CollectorInv, TcpOK
<1>1. PollInv(q, clock + 1)
  <2>1. poll.clock = clock + 1 /\ clock + 1 \in Nat
    BY <1>0
  <2> HIDE DEF poll
  <2>. QED
    BY <2>1, PollKeeps DEF CollectorInv
<1>2. /\ clock' = clock + 2 /\ estats' = q.estats /\ reading'.obs = q.obs
      /\ tcp' = [k \in Key |-> [q.tcp[k] EXCEPT !.tried = @ \/ (q.tcp[k].on /\ ~tcp[k].on)]]
  BY DEF PollNow, Polled
<1> HIDE DEF q
<1>3. q.estats \in Collector /\ q.tcp \in [Key -> Row] /\ q.obs \in Seq(Obs)
  BY <1>1 DEF PollInv, Polling
<1>4. ASSUME NEW k \in Key
      PROVE  /\ tcp'[k] \in Row /\ SameRow([tcp[k] EXCEPT !.tried = tcp'[k].tried], tcp'[k]) /\ Enabling(tcp'[k])
             /\ tcp'[k].tried = Tried(q, k) /\ tcp'[k].life = tcp[k].life
             /\ \A st : StateInv(st, k, q.tcp[k], Tried(q, k)) => StateInv(st, k, tcp'[k], tcp'[k].tried)
  <2>1. q.tcp[k] \in Row /\ tcp[k] \in Row /\ SameRow(tcp[k], q.tcp[k]) /\ Enabling(q.tcp[k])
    BY <1>0, <1>1, <1>3 DEF PollInv
  <2>2. tcp'[k] = [q.tcp[k] EXCEPT !.tried = @ \/ (q.tcp[k].on /\ ~tcp[k].on)]
    BY <1>2
  <2>3. tcp'[k] \in Row
    BY <2>1, <2>2 DEF Row
  <2>4. tcp'[k].tried = Tried(q, k)
    BY <2>1, <2>2 DEF Row, SameRow, Tried
  <2>. QED
    BY <2>1, <2>2, <2>3, <2>4 DEF Row, SameRow, Enabling, StateInv
<1>5. TcpOK'
  <2>1. tcp' \in [Key -> Row]
    BY <1>2, <1>4
  <2>2. clock' \in Nat /\ \A k \in Key : tcp'[k].life <= clock'
    <3>1. \A k \in Key : tcp[k].life \in Nat
      BY <1>0 DEF Row
    <3>2. \A k \in Key : tcp'[k].life = tcp[k].life
      BY <1>4
    <3> HIDE DEF q
    <3>. QED
      BY <1>0, <1>2, <3>1, <3>2
  <2>3. \A k \in Key : Enabling(tcp'[k])
    BY <1>4
  <2>. QED
    BY <2>1, <2>2, <2>3 DEF TcpOK
<1>6. EStatsInv'
  <2>1. DOMAIN q.estats.conn \subseteq Key
    BY <1>3, PartialElim DEF Collector
  <2>2. \A k \in DOMAIN q.estats.conn : StateInv(q.estats.conn[k], k, tcp'[k], tcp'[k].tried)
    BY <1>1, <1>4, <2>1 DEF PollInv
  <2>. QED
    BY <1>2, <1>3, <2>2 DEF EStatsInv
<1>7. reading'.obs \in Seq(Obs) /\ \A i \in DOMAIN reading'.obs : Honest(reading'.obs[i])
  BY <1>1, <1>2, <1>3 DEF PollInv
<1>. QED
  BY <1>5, <1>6, <1>7 DEF CollectorInv

\* Stop looks at the tables and gives back, one key after another.
Looked(q) == [q.estats EXCEPT !.conn = [k \in DOMAIN @ \cap q.seen |-> @[k]]]
Releasing == LastLook \/ \E k \in Key : Release(k)

LEMMA ReleasingKeeps ==
  ASSUME CollectorInv, Releasing
  PROVE  /\ CollectorInv' /\ UNCHANGED <<clock, reading>>
         /\ \A k \in Key : tcp'[k] = [tcp[k] EXCEPT !.on = tcp'[k].on, !.listed = tcp'[k].listed]
         /\ LastLook => \A k \in DOMAIN estats'.conn : estats'.conn[k].created = tcp[k].life
<1>1. /\ tcp \in [Key -> Row] /\ \A k \in Key : Enabling(tcp[k]) /\ tcp[k].life <= clock
      /\ estats \in Collector /\ \A k \in DOMAIN estats.conn : StateInv(estats.conn[k], k, tcp[k], tcp[k].tried)
  BY DEF CollectorInv, TcpOK, EStatsInv
<1>2. UNCHANGED <<clock, reading>>
  BY DEF Releasing, LastLook, Release
<1>3. /\ tcp' \in [Key -> Row]
      /\ \A k \in Key : tcp'[k] = [tcp[k] EXCEPT !.on = tcp'[k].on, !.listed = tcp'[k].listed]
  <2>1. CASE LastLook
    <3>1. tcp' = [k \in Key |-> [tcp[k] EXCEPT !.listed = tcp[k].up]]
      BY <2>1 DEF LastLook
    <3>. QED
      BY <1>1, <3>1 DEF Row
  <2>2. CASE \E k \in Key : Release(k)
    <3>1. PICK k \in Key : tcp' = tcp \/ tcp' = [tcp EXCEPT ![k].on = FALSE]
      BY <2>2 DEF Release
    <3>2. [tcp[k] EXCEPT !.on = FALSE] \in Row
      BY <1>1 DEF Row
    <3>3. tcp' \in [Key -> Row] /\ \A j \in Key : tcp'[j] = tcp[j] \/ tcp'[j] = [tcp[j] EXCEPT !.on = FALSE]
      BY <1>1, <3>1, <3>2
    <3>4. \A r \in Row : /\ r = [r EXCEPT !.on = r.on, !.listed = r.listed]
                        /\ LET s == [r EXCEPT !.on = FALSE] IN s = [r EXCEPT !.on = s.on, !.listed = s.listed]
      BY DEF Row
    <3>. QED
      BY <1>1, <3>3, <3>4
  <2>. QED
    BY <2>1, <2>2 DEF Releasing
<1>4. /\ estats' \in Collector
      /\ \A k \in DOMAIN estats'.conn : StateInv(estats'.conn[k], k, tcp[k], tcp[k].tried)
      /\ LastLook => \A k \in DOMAIN estats'.conn : estats'.conn[k].created = tcp[k].life
  <2>1. CASE LastLook
    <3>1. PICK fault : estats' = Refreshed(estats, tcp, Rows, fault)
      BY <2>1 DEF LastLook
    <3> DEFINE poll == [read |-> FALSE, wait |-> FALSE, stopping |-> TRUE, fault |-> fault, clock |-> 0]
               q == Poll(estats, tcp, Rows, poll)
    <3>2. PollInv(q, 0) /\ q.tcp = tcp
      <4>1. poll.clock = 0 /\ poll.stopping /\ 0 \in Nat /\ TcpOK /\ EStatsInv
        BY DEF CollectorInv
      <4> HIDE DEF poll
      <4>. QED
        BY <4>1, PollKeeps
    <3>3. estats' = Looked(q)
      BY <3>1 DEF Refreshed, Looked
    <3> HIDE DEF q
    <3>4. q.estats \in Collector /\ q.seen \subseteq Key
      BY <3>2 DEF PollInv, Polling
    <3> DEFINE less == [k \in DOMAIN q.estats.conn \cap q.seen |-> q.estats.conn[k]]
    <3>5. less \in Partial(Key, StateRec)
      BY <3>4, PartialRestrict DEF Collector
    <3>6. estats' \in Collector /\ estats'.conn = less
      <4>1. estats' = [q.estats EXCEPT !.conn = less]
        BY <3>3 DEF Looked
      <4> HIDE DEF less
      <4>. QED
        BY <3>4, <3>5, <4>1 DEF Collector
    <3>7. \A k \in DOMAIN q.estats.conn : StateInv(q.estats.conn[k], k, tcp[k], tcp[k].tried)
      BY <3>2 DEF PollInv, Tried, StateInv
    <3>. QED
      BY <3>2, <3>6, <3>7 DEF PollInv
  <2>2. ASSUME NEW k \in Key, Release(k)
        PROVE  /\ estats' \in Collector /\ ~LastLook
               /\ \A j \in DOMAIN estats'.conn : StateInv(estats'.conn[j], j, tcp[j], tcp[j].tried)
    <3> DEFINE less == [j \in DOMAIN estats.conn \ {k} |-> estats.conn[j]]
    <3>1. estats' = [estats EXCEPT !.conn = less] /\ phase = "releasing"
      BY <2>2 DEF Release
    <3>2. less \in Partial(Key, StateRec) /\ \A j \in DOMAIN less : j \in DOMAIN estats.conn /\ less[j] = estats.conn[j]
      BY <1>1, PartialRestrict DEF Collector
    <3> HIDE DEF less
    <3>3. estats' \in Collector /\ estats'.conn = less
      BY <1>1, <3>1, <3>2 DEF Collector
    <3>. QED
      BY <1>1, <3>1, <3>2, <3>3 DEF LastLook
  <2>. QED
    BY <2>1, <2>2 DEF Releasing
<1>5. ASSUME NEW k \in Key
      PROVE  /\ Enabling(tcp'[k]) /\ tcp'[k].life = tcp[k].life
             /\ \A st : StateInv(st, k, tcp[k], tcp[k].tried) => StateInv(st, k, tcp'[k], tcp'[k].tried)
  <2>0. PICK c, d : c = tcp[k] /\ d = tcp'[k]
    OBVIOUS
  <2>1. c \in Row /\ d \in Row /\ d = [c EXCEPT !.on = d.on, !.listed = d.listed]
    BY <1>1, <1>3, <2>0
  <2>2. /\ d.life = c.life /\ d.rx = c.rx /\ d.wire = c.wire /\ d.onRx = c.onRx /\ d.onWire = c.onWire
        /\ d.tried = c.tried /\ d.acked = c.acked /\ d.onAcked = c.onAcked
    BY <2>1 DEF Row
  <2>. QED
    BY <1>1, <2>0, <2>2 DEF Enabling, StateInv
<1>6. CollectorInv'
  <2>1. DOMAIN estats'.conn \subseteq Key
    BY <1>4, PartialElim DEF Collector
  <2>. QED
    BY <1>1, <1>2, <1>3, <1>4, <1>5, <2>1 DEF CollectorInv, TcpOK, EStatsInv
<1>. QED
  BY <1>2, <1>3, <1>4, <1>6

LEMMA CollectorInit == Init => CollectorInv
<1>1. ASSUME Init PROVE CollectorInv
  <2>1. clock = 0 /\ tcp = [k \in Key |-> NoTcp] /\ estats = NoEStats /\ reading = NoReading
    BY <1>1 DEF Init
  <2>2. NoTcp \in Row /\ Enabling(NoTcp) /\ NoTcp.life = 0
    BY DEF NoTcp, Row, Enabling
  <2> HIDE DEF NoTcp
  <2>3. TcpOK
    BY <2>1, <2>2 DEF TcpOK
  <2>4. estats \in Collector /\ DOMAIN estats.conn = {}
    <3>1. << >> \in [{} -> StateRec] /\ DOMAIN << >> = {}
      OBVIOUS
    <3>2. << >> \in Partial(Key, StateRec)
      BY <3>1 DEF Partial
    <3>. QED
      BY <2>1, <3>1, <3>2 DEF Collector, NoEStats
  <2>5. reading.obs \in Seq(Obs) /\ DOMAIN reading.obs = {}
    BY <2>1 DEF NoReading
  <2>. QED
    BY <2>3, <2>4, <2>5 DEF CollectorInv, EStatsInv
<1>. QED
  BY <1>1

LEMMA CollectorNext == CollectorInv /\ [Next]_vars => CollectorInv'
<1> SUFFICES ASSUME CollectorInv, [Next]_vars PROVE CollectorInv'
  OBVIOUS
<1>1. ASSUME UNCHANGED <<clock, tcp, estats>>, reading' = reading \/ reading' = NoReading PROVE CollectorInv'
  <2>1. NoReading.obs \in Seq(Obs) /\ DOMAIN NoReading.obs = {}
    BY DEF NoReading
  <2>2. TcpOK' /\ EStatsInv'
    BY <1>1 DEF CollectorInv, TcpOK, EStatsInv
  <2>3. reading'.obs \in Seq(Obs) /\ \A i \in DOMAIN reading'.obs : Honest(reading'.obs[i])
    BY <1>1, <2>1 DEF CollectorInv
  <2>. QED
    BY <2>2, <2>3 DEF CollectorInv
<1>2. CASE Kernel
  BY <1>2, CollectorKernel
<1>3. CASE Callbacks
  BY <1>1, <1>3 DEF Callbacks, DeliverProof, LoseProof, DeliverEvent, LoseEvent
<1>4. CASE Hybrid
  <2>1. CASE Start \/ Work \/ LastSamples \/ EndStop
    BY <1>1, <2>1 DEF Start, Work, LastSamples, EndStop, kernelVars
  <2>2. CASE PollEStats
    BY <2>2, CollectorPolled DEF PollEStats
  <2>3. CASE BeginStop
    BY <2>3, CollectorPolled DEF BeginStop
  <2>4. CASE Releasing
    BY <2>4, ReleasingKeeps
  <2>. QED
    BY <1>4, <2>1, <2>2, <2>3, <2>4 DEF Hybrid, Releasing
<1>5. CASE UNCHANGED vars
  BY <1>1, <1>5 DEF vars
<1>. QED
  BY <1>2, <1>3, <1>4, <1>5 DEF Next

(***************************************************************************)
(* A delta is what flowed on one connection between two of its readings:   *)
(* no reset, failure, clock step, foreign switch or reuse of the key lets  *)
(* a counter's whole value through.                                        *)
(***************************************************************************)
THEOREM DeltaHonestHolds == Spec => []DeltaHonest
<1>1. CollectorInv => DeltaHonest
  BY DEF CollectorInv, DeltaHonest, Honest
<1>. QED
  BY CollectorInit, CollectorNext, <1>1, PTL DEF Spec

\* The kernel keeps the mark of a connection only with the connection.
LEMMA KernelMarks ==
  ASSUME CollectorInv, Kernel
  PROVE  /\ UNCHANGED <<phase, estats>>
         /\ \A k \in Key : tcp'[k].listed => tcp[k].listed /\ tcp'[k].life = tcp[k].life
<1>1. tcp \in [Key -> Row]
  BY DEF CollectorInv, TcpOK
<1> USE DEF UNCHANGEDRest
<1>2. ASSUME NEW j \in Key, NEW x \in Tcb, Open(j, x)
      PROVE  UNCHANGED <<phase, estats>> /\ \A k \in Key : tcp'[k] = tcp[k] \/ ~tcp'[k].listed
  BY <1>1, <1>2 DEF Open, NoTcp
<1>3. ASSUME NEW j \in Key, Receive(j) \/ Send(j) \/ Ack(j) \/ Retransmit(j) \/ PeerFin(j) \/ Close(j)
      PROVE  /\ UNCHANGED <<phase, estats>>
             /\ \A k \in Key : tcp'[k].listed = tcp[k].listed /\ tcp'[k].life = tcp[k].life
  <2>1. PICK d : tcp' = [tcp EXCEPT ![j] = d] /\ d.listed = tcp[j].listed /\ d.life = tcp[j].life
    <3>1. CASE Receive(j) \/ Ack(j) \/ Retransmit(j)
      BY <1>1, <3>1 DEF Receive, Ack, Retransmit, Row
    <3>2. CASE Send(j)
      <4>1. PICK d : d = [tcp[j] EXCEPT !.tx = @ + 1, !.wire = @ + 1]
        OBVIOUS
      <4>2. tcp' = [tcp EXCEPT ![j] = d]
        BY <1>1, <3>2, <4>1 DEF Send
      <4>3. d.listed = tcp[j].listed /\ d.life = tcp[j].life
        BY <1>1, <4>1 DEF Row
      <4>. QED
        BY <4>2, <4>3
    <3>3. CASE PeerFin(j) \/ Close(j)
      BY <1>1, <3>3 DEF PeerFin, Close, Row
    <3>. QED
      BY <1>3, <3>1, <3>2, <3>3
  <2>. QED
    BY <1>1, <1>3, <2>1 DEF Receive, Send, Ack, Retransmit, PeerFin, Close
<1>4. ASSUME NEW j \in Key, NEW on \in BOOLEAN, Foreign(j, on)
      PROVE  /\ UNCHANGED <<phase, estats>>
             /\ \A k \in Key : tcp'[k].listed = tcp[k].listed /\ tcp'[k].life = tcp[k].life
  BY <1>1, <1>4 DEF Foreign, Enabled, Row
<1>. QED
  BY <1>2, <1>3, <1>4 DEF Kernel

LEMMA ReleaseNext ==
  ASSUME CollectorInv, ReleaseInv, [Next]_vars
  PROVE  ReleaseInv'
<1>0. tcp \in [Key -> Row] /\ DOMAIN estats.conn \subseteq Key /\ DOMAIN estats'.conn \subseteq Key
  BY CollectorNext, PartialElim DEF CollectorInv, TcpOK, EStatsInv, Collector
<1>1. CASE Kernel
  BY <1>0, <1>1, KernelMarks DEF ReleaseInv
<1>2. CASE Callbacks \/ UNCHANGED vars
  BY <1>2 DEF Callbacks, DeliverProof, LoseProof, DeliverEvent, LoseEvent, ReleaseInv, vars
<1>3. CASE Start \/ PollEStats \/ Work \/ BeginStop \/ LastSamples \/ EndStop
  BY <1>3 DEF Start, PollEStats, Work, BeginStop, LastSamples, EndStop, ReleaseInv
<1>4. CASE LastLook
  <2>1. \A k \in Key : tcp'[k].life = tcp[k].life
    BY <1>0, <1>4 DEF LastLook, Row
  <2>. QED
    BY <1>0, <1>4, <2>1, ReleasingKeeps DEF ReleaseInv, Releasing
<1>5. ASSUME NEW k \in Key, Release(k) PROVE ReleaseInv'
  <2>1. phase = "releasing" /\ tcp' \in {tcp, [tcp EXCEPT ![k].on = FALSE]}
    BY <1>5 DEF Release
  <2>2. \A j \in Key : tcp'[j].life = tcp[j].life /\ tcp'[j].listed = tcp[j].listed
    BY <1>0, <2>1 DEF Row
  <2>3. \A j \in DOMAIN estats'.conn : j \in DOMAIN estats.conn /\ estats'.conn[j] = estats.conn[j]
    BY <1>5 DEF Release, CollectorInv, EStatsInv, Collector
  <2>. QED
    BY <1>0, <2>1, <2>2, <2>3 DEF ReleaseInv
<1>. QED
  BY <1>1, <1>2, <1>3, <1>4, <1>5 DEF Next, Hybrid

(***************************************************************************)
(* Stop turns collection off only on the connections this program has      *)
(* turned it on for, as long as they hold their keys: what was replaced    *)
(* before the last look at the tables is left alone (TcpEStatsCollector,   *)
(* Stop).                                                                  *)
(***************************************************************************)
THEOREM StopKeepsOthersHolds == Spec => StopKeepsOthers
<1> DEFINE A == phase = "releasing" /\ estats' # estats =>
                  \A k \in Key : tcp[k].on /\ ~tcp'[k].on => tcp[k].tried \/ ~tcp[k].listed
<1>1. CollectorInv /\ ReleaseInv /\ [Next]_vars => [A]_vars
  <2> SUFFICES ASSUME CollectorInv, ReleaseInv, Next, phase = "releasing", estats' # estats,
                      NEW k \in Key, tcp[k].on, ~tcp'[k].on, tcp[k].listed
               PROVE  tcp[k].tried
    OBVIOUS
  <2>1. ~Kernel
    BY KernelMarks
  <2>2. PICK j \in Key : Release(j)
    BY <2>1 DEF Next, Callbacks, DeliverProof, LoseProof, DeliverEvent, LoseEvent, Capturing,
       Hybrid, Start, PollEStats, Work, BeginStop, LastSamples, LastLook, EndStop
  <2>3. j = k /\ k \in DOMAIN estats.conn /\ estats.conn[k].ours
    BY <2>2 DEF Release, CollectorInv, TcpOK
  <2>. QED
    BY <2>3 DEF ReleaseInv, CollectorInv, EStatsInv, StateInv
<1>2. Init => ReleaseInv
  BY DEF Init, ReleaseInv
<1>. QED
  BY CollectorInit, CollectorNext, ReleaseNext, <1>1, <1>2, PTL DEF Spec, StopKeepsOthers

(* Arithmetic of the sequence space.                                       *)
LEMMA ModMultiple ==
  ASSUME NEW n \in Nat \ {0}, NEW k \in Int, NEW x \in 0 .. (n - 1)
  PROVE  (k * n + x) % n = x
<1> DEFINE a == k * n + x
           d == a \div n
           r == a % n
<1>1. a \in Int /\ d \in Int /\ r \in 0 .. (n - 1) /\ a = n * d + r
  OBVIOUS
<1> HIDE DEF d, r
<1>2. n * (k - d) = r - x
  BY <1>1
<1>3. k - d \in Int /\ -n < n * (k - d) /\ n * (k - d) < n
  BY <1>1, <1>2
<1>4. k - d < 1
  <2>1. SUFFICES ASSUME k - d >= 1 PROVE FALSE
    BY <1>3
  <2>2. n * (k - d) >= n * 1
    BY <1>3, <2>1
  <2>. QED
    BY <1>3, <2>2
<1>5. k - d > -1
  <2>1. SUFFICES ASSUME k - d <= -1 PROVE FALSE
    BY <1>3
  <2>2. n * (k - d) <= n * (-1)
    BY <1>3, <2>1
  <2>. QED
    BY <1>3, <2>2
<1>6. k = d
  BY <1>1, <1>4, <1>5
<1>7. r = x
  BY <1>2, <1>6, <1>1
<1>. QED
  BY <1>7 DEF r

LEMMA ModOffset ==
  ASSUME NEW n \in Nat \ {0}, NEW a \in Int, NEW x \in 0 .. (n - 1)
  PROVE  (a + x - (a % n)) % n = x
<1> DEFINE d == a \div n
<1>1. d \in Int /\ a = n * d + (a % n) /\ a % n \in Int
  OBVIOUS
<1> HIDE DEF d
<1>2. a + x - (a % n) = d * n + x
  BY <1>1
<1>. QED
  BY <1>1, <1>2, ModMultiple

LEMMA ModNext ==
  ASSUME NEW n \in Nat \ {0}, NEW a \in Int
  PROVE  (((a - 1) % n) + 1) % n = a % n
<1> DEFINE d == (a - 1) \div n
           r == (a - 1) % n
<1>1. d \in Int /\ a - 1 = n * d + r /\ r \in 0 .. (n - 1)
  OBVIOUS
<1> HIDE DEF d, r
<1>2. CASE r + 1 < n
  <2>1. r + 1 \in 0 .. (n - 1) /\ a = d * n + (r + 1) /\ 0 * n + (r + 1) = r + 1
    BY <1>1, <1>2
  <2>2. a % n = r + 1 /\ (r + 1) % n = r + 1
    BY <1>1, <2>1, ModMultiple
  <2>. QED
    BY <2>2 DEF r
<1>3. CASE ~(r + 1 < n)
  <2>1. r + 1 = n /\ a = (d + 1) * n + 0 /\ n = 1 * n + 0 /\ 0 \in 0 .. (n - 1) /\ d + 1 \in Int
    BY <1>1, <1>3
  <2>2. a % n = 0 /\ n % n = 0
    BY <2>1, ModMultiple
  <2>. QED
    BY <2>1, <2>2 DEF r
<1>. QED
  BY <1>2, <1>3

-----------------------------------------------------------------------------
(* Finite sets of natural numbers: they have a greatest element and can be *)
(* put in order, and the numbers from any one of theirs on have a gap.     *)
LEMMA GreatestNat ==
  ASSUME NEW S \in SUBSET Nat, IsFiniteSet(S), S # {}
  PROVE  \E m \in S : \A n \in S : m >= n
<1> DEFINE Good(T) == \E m \in T : \A n \in T : m >= n
           Bad == {c \in Nat : \E T \in SUBSET Nat : T # {} /\ IsFiniteSet(T) /\ Cardinality(T) = c /\ ~Good(T)}
<1> SUFFICES ASSUME ~Good(S) PROVE FALSE
  OBVIOUS
<1>1. Cardinality(S) \in Bad
  BY FS_CardinalityType
<1>2. PICK c \in Bad : \A b \in Bad : c <= b
  BY <1>1, LeastNat
<1>3. PICK T \in SUBSET Nat : T # {} /\ IsFiniteSet(T) /\ Cardinality(T) = c /\ ~Good(T)
  BY <1>2
<1>4. PICK a \in T : \A n \in T : a <= n
  BY <1>3, LeastNat
<1>5. IsFiniteSet(T \ {a}) /\ Cardinality(T \ {a}) = c - 1 /\ c \in Nat /\ c - 1 \in Nat
  <2>1. IsFiniteSet(T \ {a}) /\ Cardinality(T \ {a}) = c - 1
    BY <1>3, <1>4, FS_RemoveElement
  <2>. QED
    BY <2>1, FS_CardinalityType
<1>6. T \ {a} # {}
  <2>1. SUFFICES ASSUME T = {a} PROVE FALSE
    OBVIOUS
  <2>2. a \in Nat /\ a >= a
    BY <1>3, <1>4
  <2>. QED
    BY <1>3, <2>1, <2>2
<1>7. Good(T \ {a})
  <2>1. c - 1 \notin Bad
    BY <1>2, <1>5
  <2> HIDE DEF Good
  <2>. QED
    BY <1>3, <1>5, <1>6, <2>1
<1>8. PICK m \in T \ {a} : \A n \in T \ {a} : m >= n
  BY <1>7
<1>9. m >= a
  BY <1>3, <1>4, <1>8
<1>. QED
  BY <1>3, <1>8, <1>9

Ordered(S, f) ==
  f \in [1 .. Cardinality(S) -> S] /\ \A i, j \in DOMAIN f : i < j => f[i] < f[j]

LEMMA InOrderFacts ==
  ASSUME NEW S \in SUBSET Nat, IsFiniteSet(S)
  PROVE  /\ Cardinality(S) \in Nat
         /\ InOrder(S) \in [1 .. Cardinality(S) -> S]
         /\ DOMAIN InOrder(S) = 1 .. Cardinality(S)
<1> DEFINE Good(T) == \E f : Ordered(T, f)
           Bad == {c \in Nat : \E T \in SUBSET Nat : IsFiniteSet(T) /\ Cardinality(T) = c /\ ~Good(T)}
<1>0. Cardinality(S) \in Nat
  BY FS_CardinalityType
<1>1. Good(S)
  <2> SUFFICES ASSUME ~Good(S) PROVE FALSE
    OBVIOUS
  <2>1. Cardinality(S) \in Bad
    BY <1>0
  <2>2. PICK c \in Bad : \A b \in Bad : c <= b
    BY <2>1, LeastNat
  <2>3. PICK T \in SUBSET Nat : IsFiniteSet(T) /\ Cardinality(T) = c /\ ~Good(T)
    BY <2>2
  <2>4. CASE T = {}
    <3>1. Cardinality(T) = 0
      BY <2>4, FS_EmptySet
    <3>2. << >> \in [1 .. 0 -> T] /\ \A i, j \in DOMAIN << >> : i < j => << >>[i] < << >>[j]
      OBVIOUS
    <3>3. Ordered(T, << >>)
      BY <3>1, <3>2 DEF Ordered
    <3>. QED
      BY <2>3, <3>3
  <2>5. CASE T # {}
    <3>1. PICK a \in T : \A n \in T : a <= n
      BY <2>3, <2>5, LeastNat
    <3>2. IsFiniteSet(T \ {a}) /\ Cardinality(T \ {a}) = c - 1 /\ c \in Nat /\ c - 1 \in Nat
      <4>1. IsFiniteSet(T \ {a}) /\ Cardinality(T \ {a}) = c - 1
        BY <2>3, <3>1, FS_RemoveElement
      <4>. QED
        BY <4>1, FS_CardinalityType
    <3>3. Good(T \ {a})
      <4>1. c - 1 \notin Bad
        BY <2>2, <3>2
      <4> HIDE DEF Good
      <4>. QED
        BY <2>3, <3>2, <4>1
    <3>4. PICK g : Ordered(T \ {a}, g)
      BY <3>3
    <3> DEFINE f == [i \in 1 .. c |-> IF i = 1 THEN a ELSE g[i - 1]]
    <3>5. g \in [1 .. (c - 1) -> T \ {a}] /\ \A i, j \in 1 .. (c - 1) : i < j => g[i] < g[j]
      BY <3>2, <3>4 DEF Ordered
    <3>6. \A i \in 1 .. c : i # 1 => i - 1 \in 1 .. (c - 1)
      BY <3>2
    <3>7. f \in [1 .. c -> T]
      BY <3>5, <3>6
    <3>8. ASSUME NEW i \in 1 .. c, NEW j \in 1 .. c, i < j PROVE f[i] < f[j]
      <4>1. j # 1 /\ j - 1 \in 1 .. (c - 1) /\ f[j] = g[j - 1] /\ f[j] \in T \ {a}
        BY <3>5, <3>6, <3>8
      <4>2. CASE i = 1
        <5>1. f[i] = a /\ a \in Nat /\ f[j] \in Nat /\ a <= f[j] /\ f[j] # a
          BY <2>3, <3>1, <4>1, <4>2
        <5> HIDE DEF f
        <5>. QED
          BY <5>1
      <4>3. CASE i # 1
        BY <3>5, <3>6, <3>8, <4>1, <4>3
      <4>. QED
        BY <4>2, <4>3
    <3>9. Ordered(T, f)
      BY <2>3, <3>7, <3>8 DEF Ordered
    <3>. QED
      BY <2>3, <3>9
  <2>. QED
    BY <2>4, <2>5
<1>2. InOrder(S) \in [1 .. Cardinality(S) -> S]
  BY <1>1 DEF InOrder, Ordered
<1>. QED
  BY <1>0, <1>2

LEMMA FirstGap ==
  ASSUME NEW S, IsFiniteSet(S), NEW a \in Nat
  PROVE  /\ Cardinality(S) \in Nat
         /\ \E q \in a .. (a + Cardinality(S)) : q \notin S /\ Bytes(a, q) \subseteq S
<1> DEFINE n == Cardinality(S)
           Gaps == {q \in a .. (a + n) : q \notin S}
<1>1. n \in Nat
  BY FS_CardinalityType
<1> HIDE DEF n
<1>2. Gaps # {}
  <2>1. SUFFICES ASSUME a .. (a + n) \subseteq S PROVE FALSE
    OBVIOUS
  <2>2. Cardinality(a .. (a + n)) = n + 1
    BY <1>1, FS_Interval
  <2>3. Cardinality(a .. (a + n)) <= n
    BY <2>1, FS_Subset DEF n
  <2>. QED
    BY <1>1, <2>2, <2>3
<1>3. PICK q \in Gaps : \A p \in Gaps : q <= p
  <2>1. Gaps \in SUBSET Nat
    BY <1>1
  <2>. QED
    BY <1>2, <2>1, LeastNat
<1>4. Bytes(a, q) \subseteq S
  BY <1>1, <1>3 DEF Bytes
<1>. QED
  BY <1>1, <1>3, <1>4 DEF n

LEMMA SpanEndFacts ==
  ASSUME NEW S \in SUBSET Nat, IsFiniteSet(S), NEW p \in S
  PROVE  SpanEnd(S, p) \in Nat
<1>1. PICK q \in p .. (p + Cardinality(S)) : q \notin S /\ Bytes(p, q) \subseteq S
  BY FirstGap
<1>2. Cardinality(S) \in Nat /\ p \in Nat
  BY FirstGap
<1>3. q \in (p + 1) .. (p + Cardinality(S))
  BY <1>1, <1>2
<1>4. SpanEnd(S, p) \in (p + 1) .. (p + Cardinality(S))
  BY <1>1, <1>3, Zenon DEF SpanEnd
<1>. QED
  BY <1>2, <1>4

-----------------------------------------------------------------------------
(* A direction of a connection: the bytes it has credited only grow.       *)
DirStep(c, d) == d \in Direction /\ c.prefix <= d.prefix /\ Covered(c) \subseteq Covered(d)

LEMMA BytesSpan ==
  ASSUME NEW left \in Nat, NEW right \in Int
  PROVE  Bytes(left, right) \in Span
<1>1. IsFiniteSet(left .. (right - 1))
  BY FS_Interval
<1>. QED
  BY <1>1 DEF Bytes, Span

LEMMA SpanUnion ==
  ASSUME NEW S \in Span, NEW T \in Span
  PROVE  S \cup T \in Span
  BY FS_Union DEF Span

LEMMA SpanSubset ==
  ASSUME NEW S \in Span, NEW T \in SUBSET S
  PROVE  T \in Span
  BY FS_Subset DEF Span

LEMMA CreditFacts ==
  ASSUME NEW d \in Direction, NEW left \in Int, NEW right \in Int, NEW e, e = Credit(d, left, right)
  PROVE  /\ DirStep(d, e)
         /\ e.highest = d.highest /\ e.pending = d.pending
         /\ NewBytes(d, left, right) \in Span
         /\ NewBytes(d, left, right) \cap Covered(d) = {}
         /\ NewBytes(d, left, right) \subseteq Covered(e)
<1> DEFINE from == Max2(left, d.prefix)
           all == d.credited \cup Bytes(from, right)
           prefix == CHOOSE p \in d.prefix .. (d.prefix + Cardinality(all)) :
                       p \notin all /\ Bytes(d.prefix, p) \subseteq all
           beyond == {p \in all : p > prefix}
<1>1. d.prefix \in Nat /\ d.credited \in Span /\ from \in Nat /\ from >= d.prefix
  BY DEF Direction, Max2
<1>2. all \in Span /\ Bytes(from, right) \in Span
  BY <1>1, BytesSpan, SpanUnion
<1>3. e = [d EXCEPT !.prefix = prefix, !.credited = beyond]
  BY DEF Credit
<1> HIDE DEF from, all
<1>4. prefix \in Nat /\ d.prefix <= prefix /\ prefix \notin all /\ Bytes(d.prefix, prefix) \subseteq all
  <2>1. Cardinality(all) \in Nat
        /\ \E p \in d.prefix .. (d.prefix + Cardinality(all)) : p \notin all /\ Bytes(d.prefix, p) \subseteq all
    BY <1>1, <1>2, FirstGap DEF Span
  <2>2. prefix \in d.prefix .. (d.prefix + Cardinality(all)) /\ prefix \notin all /\ Bytes(d.prefix, prefix) \subseteq all
    BY <2>1, Zenon
  <2> HIDE DEF prefix
  <2>. QED
    BY <1>1, <2>1, <2>2
<1> HIDE DEF prefix
<1>5. beyond \in Span
  BY <1>2, SpanSubset
<1>6. e \in Direction /\ e.prefix = prefix /\ e.credited = beyond /\ e.highest = d.highest /\ e.pending = d.pending
  <2> HIDE DEF beyond
  <2>. QED
    BY <1>3, <1>4, <1>5 DEF Direction
<1>7. \A p \in all : p \in Nat
  BY <1>2 DEF Span
<1>8. {p \in Nat : p < d.prefix} \cup all \subseteq Covered(e)
  BY <1>1, <1>4, <1>6, <1>7 DEF Covered
<1>9. NewBytes(d, left, right) = Bytes(from, right) \ d.credited
  BY DEF NewBytes, from
<1>10. NewBytes(d, left, right) \in Span
  BY <1>2, <1>9, SpanSubset
<1>11. NewBytes(d, left, right) \cap Covered(d) = {}
  BY <1>1, <1>9 DEF Covered, Bytes
<1>12. Covered(d) \subseteq Covered(e) /\ NewBytes(d, left, right) \subseteq Covered(e)
  BY <1>8, <1>9 DEF Covered, all
<1>. QED
  BY <1>4, <1>6, <1>10, <1>11, <1>12 DEF DirStep

(* Flushing a direction pays each byte that was not credited, once.        *)
Account == [ok : BOOLEAN, d : Direction, paid : Span, rest : Span]
FlushInv(d, acc) ==
  /\ acc \in Account /\ DirStep(d, acc.d) /\ acc.d.highest = d.highest
  /\ acc.paid \cap Covered(d) = {} /\ acc.paid \subseteq Covered(acc.d)

LEMMA FlushPath ==
  ASSUME NEW d, NEW safe, NEW n \in Nat, DOMAIN InOrder(FirstsOf(d.pending)) = 1 .. n
  PROVE  \E u : Path("flush", [pending |-> d.pending, safe |-> safe], [ok |-> TRUE, d |-> d, paid |-> {}, rest |-> {}],
                     InOrder(FirstsOf(d.pending)), n, u)
                /\ FlushDirection(d, safe) = u[n]
<1> DEFINE seq == InOrder(FirstsOf(d.pending))
           arg == [pending |-> d.pending, safe |-> safe]
           base == [ok |-> TRUE, d |-> d, paid |-> {}, rest |-> {}]
           Fits(f) == f = [s \in SUBSET (1 .. n) |->
                            IF s = {} THEN base
                            ELSE FlushSpan(f[s \ {Max(s)}], seq[Max(s)], SpanEnd(d.pending, seq[Max(s)]), safe)]
           table == CHOOSE f : Fits(f)
<1>1. PICK f : Table("flush", arg, base, seq, n, f)
  BY TableExists
<1>2. ASSUME NEW a, NEW p PROVE Turn("flush", arg, a, p) = FlushSpan(a, p, SpanEnd(d.pending, p), safe)
  BY DEF Turn
<1>3. ASSUME NEW g PROVE Fits(g) <=> Table("flush", arg, base, seq, n, g)
  BY <1>2 DEF Table
<1>4. FlushDirection(d, safe) = table[1 .. n]
  BY DEF FlushDirection, FoldLeft, MapThenFoldSet
<1> HIDE DEF Fits
<1>5. Fits(table)
  BY <1>1, <1>3
<1> HIDE DEF table, arg, base
<1>6. PICK u : Path("flush", arg, base, seq, n, u) /\ table[1 .. n] = u[n]
  BY <1>3, <1>5, TablePath
<1>. QED
  BY <1>4, <1>6 DEF arg, base

LEMMA FlushSpanKeeps ==
  ASSUME NEW d \in Direction, NEW acc, FlushInv(d, acc), NEW p \in Nat, NEW q \in Nat, NEW safe \in Int
  PROVE  FlushInv(d, FlushSpan(acc, p, q, safe))
<1>1. CASE ~acc.ok \/ ~CanCredit(acc.d, p, Min2(q, safe))
  BY <1>1 DEF FlushSpan, FlushInv, Account
<1>2. CASE ~(~acc.ok \/ ~CanCredit(acc.d, p, Min2(q, safe)))
  <2> DEFINE right == Min2(q, safe)
             e == Credit(acc.d, p, right)
             new == NewBytes(acc.d, p, right)
             rest == acc.rest \cup Bytes(Max2(p, safe), q)
             z == [ok |-> TRUE, d |-> e, paid |-> acc.paid \cup new, rest |-> rest]
  <2>1. right \in Int /\ Max2(p, safe) \in Nat /\ acc.d \in Direction /\ acc.paid \in Span /\ acc.rest \in Span
    BY DEF Min2, Max2, FlushInv, Account
  <2>2. FlushSpan(acc, p, q, safe) = z
    BY <1>2 DEF FlushSpan
  <2> HIDE DEF right
  <2>3. /\ DirStep(acc.d, e) /\ e.highest = acc.d.highest /\ new \in Span
        /\ new \cap Covered(acc.d) = {} /\ new \subseteq Covered(e)
    BY <2>1, CreditFacts
  <2>4. rest \in Span /\ acc.paid \cup new \in Span
    BY <2>1, <2>3, BytesSpan, SpanUnion
  <2> HIDE DEF e, new, rest
  <2>5. z \in Account /\ z.d = e /\ z.paid = acc.paid \cup new
    BY <2>3, <2>4 DEF Account, DirStep
  <2> HIDE DEF z
  <2>6. DirStep(d, e)
    <3>1. d.prefix \in Nat /\ acc.d.prefix \in Nat /\ e.prefix \in Nat
      BY <2>1, <2>3 DEF Direction, DirStep
    <3>. QED
      BY <2>3, <3>1 DEF FlushInv, DirStep
  <2>. QED
    BY <2>2, <2>3, <2>5, <2>6 DEF FlushInv, DirStep
<1>. QED
  BY <1>1, <1>2

LEMMA FlushDirectionKeeps ==
  ASSUME NEW d \in Direction, NEW safe \in Int
  PROVE  FlushInv(d, FlushDirection(d, safe))
<1> DEFINE firsts == FirstsOf(d.pending)
           seq == InOrder(firsts)
           n == Cardinality(firsts)
           base == [ok |-> TRUE, d |-> d, paid |-> {}, rest |-> {}]
<1>1. d.pending \in SUBSET Nat /\ IsFiniteSet(d.pending)
  BY DEF Direction, Span
<1>2. firsts \in SUBSET d.pending
  BY DEF FirstsOf
<1>3. IsFiniteSet(firsts) /\ firsts \in SUBSET Nat
  BY <1>1, <1>2, FS_Subset
<1> HIDE DEF firsts
<1>4. n \in Nat /\ seq \in [1 .. n -> firsts] /\ DOMAIN seq = 1 .. n
  BY <1>3, InOrderFacts
<1>5. PICK u : Path("flush", [pending |-> d.pending, safe |-> safe], base, seq, n, u) /\ FlushDirection(d, safe) = u[n]
  BY <1>4, FlushPath DEF firsts
<1> HIDE DEF seq, n
<1>6. FlushInv(d, base)
  <2>1. {} \in Span
    BY FS_EmptySet DEF Span
  <2>2. DirStep(d, d)
    BY DEF DirStep, Direction
  <2>. QED
    BY <2>1, <2>2 DEF FlushInv, Account
<1> HIDE DEF base
<1> DEFINE Bad == {i \in 0 .. n : ~FlushInv(d, u[i])}
<1>7. SUFFICES ASSUME Bad # {} PROVE FALSE
  BY <1>4, <1>5
<1>8. PICK i \in Bad : \A j \in Bad : i <= j
  <2>1. Bad \in SUBSET Nat
    BY <1>4
  <2>. QED
    BY <1>7, <2>1, LeastNat
<1>9. u[0] = base
  BY <1>5 DEF Path
<1>10. i \in 1 .. n /\ i - 1 \in 0 .. n /\ i - 1 \notin Bad
  BY <1>4, <1>6, <1>8, <1>9
<1>11. u[i] = FlushSpan(u[i - 1], seq[i], SpanEnd(d.pending, seq[i]), safe)
  BY <1>5, <1>10 DEF Path, Turn
<1>12. seq[i] \in d.pending
  BY <1>2, <1>4, <1>10
<1>13. seq[i] \in Nat /\ SpanEnd(d.pending, seq[i]) \in Nat
  BY <1>1, <1>12, SpanEndFacts
<1>14. FlushInv(d, u[i - 1])
  BY <1>10
<1>15. FlushInv(d, u[i])
  BY <1>11, <1>13, <1>14, FlushSpanKeeps
<1>. QED
  BY <1>8, <1>15

(* Most operations of the tracker are quiet: they open and close no        *)
(* window, start no connection, count nothing for the legacy side, and pay *)
(* only bytes past the prefix of a switched connection.                    *)
ConnStep(c, d) ==
  /\ d \in ConnRec
  /\ d.key = c.key /\ d.life = c.life /\ d.generation = c.generation /\ d.begin = c.begin
  /\ d.switched = c.switched /\ d.connected = c.connected /\ d.established = c.established
  /\ d.haveSend = c.haveSend /\ d.sendOrigin = c.sendOrigin
  /\ d.haveReceive = c.haveReceive /\ d.receiveOrigin = c.receiveOrigin
  /\ d.probe.end # 0 => d.probe = c.probe
  /\ DirStep(c.rx, d.rx) /\ DirStep(c.tx, d.tx)
  /\ (d.switched => d.state = "active") => /\ c.switched => c.state = "active"
                                           /\ d.rx.credited = c.rx.credited /\ d.tx.credited = c.tx.credited

Pays(t, u) ==
  /\ DOMAIN t.paid \subseteq DOMAIN u.paid
  /\ \A b \in DOMAIN u.paid \ DOMAIN t.paid :
       /\ \E x \in DOMAIN t.conn : t.conn[x].switched /\ b[1] = t.conn[x].life /\ b[3] \notin Covered(t.conn[x][b[2]])
       /\ \A x \in DOMAIN u.conn : b[1] = u.conn[x].life => b[3] \in Covered(u.conn[x][b[2]])

Same(t, u) == u.window = t.window /\ u.generation = t.generation /\ u.retiredBefore = t.retiredBefore /\ u.mistaken = t.mistaken
Fewer(t, u) ==
  /\ DOMAIN u.legacy \subseteq DOMAIN t.legacy /\ \A k \in DOMAIN u.legacy : u.legacy[k] = t.legacy[k]
  /\ DOMAIN u.alias \subseteq DOMAIN t.alias
  /\ \A k \in DOMAIN u.alias : u.alias[k] = t.alias[k] /\ u.alias[k] \in DOMAIN u.conn
  /\ DOMAIN u.conn \subseteq DOMAIN t.conn
  /\ \A x \in DOMAIN u.conn : ConnStep(t.conn[x], u.conn[x])
Quiet(t, u) == u \in Tracker /\ Same(t, u) /\ Fewer(t, u) /\ Pays(t, u)

SetConn(t, x, c) == [t EXCEPT !.conn = [@ EXCEPT ![x] = c]]

LEMMA TrackerFields ==
  ASSUME NEW t \in Tracker
  PROVE  /\ t.conn \in Partial(Tcb, ConnRec) /\ t.alias \in Partial(Key, Tcb) /\ t.legacy \in Partial(Key, Marker)
         /\ t.paid \in Partial(Slice, {1})
         /\ \A x \in DOMAIN t.conn : x \in Tcb /\ t.conn[x] \in ConnRec
         /\ \A k \in DOMAIN t.alias : k \in Key /\ t.alias[k] \in Tcb
         /\ \A k \in DOMAIN t.legacy : k \in Key /\ t.legacy[k] \in Marker
         /\ \A b \in DOMAIN t.paid : b \in Slice /\ t.paid[b] = 1
<1>1. /\ t.conn \in Partial(Tcb, ConnRec) /\ t.alias \in Partial(Key, Tcb) /\ t.legacy \in Partial(Key, Marker)
      /\ t.paid \in Partial(Slice, {1})
  BY DEF Tracker
<1>2. \A x \in DOMAIN t.conn : x \in Tcb /\ t.conn[x] \in ConnRec
  BY <1>1, PartialElim
<1>3. \A k \in DOMAIN t.alias : k \in Key /\ t.alias[k] \in Tcb
  BY <1>1, PartialElim
<1>4. \A k \in DOMAIN t.legacy : k \in Key /\ t.legacy[k] \in Marker
  BY <1>1, PartialElim
<1>5. \A b \in DOMAIN t.paid : b \in Slice /\ t.paid[b] \in {1}
  BY <1>1, PartialElim
<1>. QED
  BY <1>1, <1>2, <1>3, <1>4, <1>5

LEMMA StepReflexive ==
  ASSUME NEW c \in ConnRec
  PROVE  ConnStep(c, c)
  BY DEF ConnStep, ConnRec, DirStep, Direction

LEMMA StepTransitive ==
  ASSUME NEW c \in ConnRec, NEW d, NEW e, ConnStep(c, d), ConnStep(d, e)
  PROVE  ConnStep(c, e)
<1>1. c.rx.prefix \in Nat /\ d.rx.prefix \in Nat /\ e.rx.prefix \in Nat /\ c.tx.prefix \in Nat /\ d.tx.prefix \in Nat
      /\ e.tx.prefix \in Nat
  BY DEF ConnStep, ConnRec, Direction
<1>. QED
  BY <1>1 DEF ConnStep, DirStep

LEMMA QuietReflexive ==
  ASSUME NEW t, TrackerOK(t)
  PROVE  Quiet(t, t)
<1>1. t \in Tracker
  BY DEF TrackerOK
<1>2. \A x \in DOMAIN t.conn : ConnStep(t.conn[x], t.conn[x])
  BY <1>1, TrackerFields, StepReflexive
<1>. QED
  BY <1>1, <1>2 DEF TrackerOK, Quiet, Same, Fewer, Pays

LEMMA QuietTransitive ==
  ASSUME NEW t, TrackerOK(t), NEW u, NEW v, Quiet(t, u), Quiet(u, v)
  PROVE  Quiet(t, v)
<1>1. t \in Tracker /\ u \in Tracker /\ v \in Tracker
  BY DEF TrackerOK, Quiet
<1>2. \A x \in DOMAIN v.conn : x \in DOMAIN u.conn /\ x \in DOMAIN t.conn /\ ConnStep(t.conn[x], u.conn[x])
                               /\ ConnStep(u.conn[x], v.conn[x]) /\ t.conn[x] \in ConnRec
  BY <1>1, TrackerFields DEF Quiet, Fewer
<1>3. \A x \in DOMAIN v.conn : ConnStep(t.conn[x], v.conn[x])
  BY <1>2, StepTransitive
<1>4. Same(t, v) /\ Fewer(t, v)
  BY <1>2, <1>3 DEF Quiet, Same, Fewer
<1>5. ASSUME NEW b \in DOMAIN v.paid \ DOMAIN t.paid
      PROVE  /\ \E x \in DOMAIN t.conn : t.conn[x].switched /\ b[1] = t.conn[x].life /\ b[3] \notin Covered(t.conn[x][b[2]])
             /\ \A x \in DOMAIN v.conn : b[1] = v.conn[x].life => b[3] \in Covered(v.conn[x][b[2]])
  <2>0. b \in Slice /\ b[2] \in Dirs
    BY <1>1, TrackerFields DEF Slice
  <2>1. CASE b \in DOMAIN u.paid
    <3>1. \E x \in DOMAIN t.conn : t.conn[x].switched /\ b[1] = t.conn[x].life /\ b[3] \notin Covered(t.conn[x][b[2]])
      BY <2>1 DEF Quiet, Pays
    <3>2. \A x \in DOMAIN u.conn : b[1] = u.conn[x].life => b[3] \in Covered(u.conn[x][b[2]])
      BY <2>1 DEF Quiet, Pays
    <3>3. ASSUME NEW x \in DOMAIN v.conn, b[1] = v.conn[x].life PROVE b[3] \in Covered(v.conn[x][b[2]])
      <4>1. x \in DOMAIN u.conn /\ ConnStep(u.conn[x], v.conn[x])
        BY <1>2
      <4>2. b[3] \in Covered(u.conn[x][b[2]])
        BY <3>2, <3>3, <4>1 DEF ConnStep
      <4>3. DirStep(u.conn[x][b[2]], v.conn[x][b[2]])
        BY <2>0, <4>1 DEF ConnStep, Dirs
      <4>. QED
        BY <4>2, <4>3 DEF DirStep
    <3>. QED
      BY <3>1, <3>3
  <2>2. CASE b \notin DOMAIN u.paid
    <3>1. PICK x \in DOMAIN u.conn : u.conn[x].switched /\ b[1] = u.conn[x].life /\ b[3] \notin Covered(u.conn[x][b[2]])
      BY <2>2 DEF Quiet, Pays
    <3>2. x \in DOMAIN t.conn /\ ConnStep(t.conn[x], u.conn[x])
      BY DEF Quiet, Fewer
    <3>3. DirStep(t.conn[x][b[2]], u.conn[x][b[2]])
      BY <2>0, <3>2 DEF ConnStep, Dirs
    <3>4. b[3] \notin Covered(t.conn[x][b[2]])
      BY <3>1, <3>3 DEF DirStep
    <3>5. \A y \in DOMAIN v.conn : b[1] = v.conn[y].life => b[3] \in Covered(v.conn[y][b[2]])
      BY <2>2 DEF Quiet, Pays
    <3>. QED
      BY <3>1, <3>2, <3>4, <3>5 DEF ConnStep
  <2>. QED
    BY <2>1, <2>2
<1>6. DOMAIN t.paid \subseteq DOMAIN v.paid
  BY DEF Quiet, Pays
<1>7. Pays(t, v)
  BY <1>5, <1>6 DEF Pays
<1>. QED
  BY <1>1, <1>4, <1>7 DEF Quiet

LEMMA QuietTracker ==
  ASSUME NEW t, TrackerOK(t), NEW u, Quiet(t, u)
  PROVE  TrackerOK(u)
<1>1. t \in Tracker /\ u \in Tracker
  BY DEF TrackerOK, Quiet
<1>2. \A x \in DOMAIN u.conn : x \in DOMAIN t.conn /\ ConnStep(t.conn[x], u.conn[x])
  BY DEF Quiet, Fewer
<1>3. \A k \in DOMAIN u.alias : u.alias[k] \in DOMAIN u.conn /\ u.conn[u.alias[k]].key = k
  BY <1>2 DEF TrackerOK, Quiet, Fewer, ConnStep
<1>4. \A x \in DOMAIN u.conn : u.conn[x].begin = u.conn[x].life /\ u.conn[x].generation <= u.generation
  BY <1>2 DEF TrackerOK, Quiet, Same, ConnStep
<1>5. \A x, y \in DOMAIN u.conn : u.conn[x].life = u.conn[y].life \/ u.conn[x].generation = u.conn[y].generation => x = y
  BY <1>2 DEF TrackerOK, ConnStep
<1>6. \A w \in u.window : /\ w.generation <= u.generation
                          /\ \A x \in DOMAIN u.conn : w.generation = u.conn[x].generation => w.begin = u.conn[x].begin
  BY <1>2 DEF TrackerOK, Quiet, Same, ConnStep
<1>7. ASSUME NEW b \in DOMAIN u.paid, NEW x \in DOMAIN u.conn, b[1] = u.conn[x].life
      PROVE  u.conn[x].switched /\ b[3] \in Covered(u.conn[x][b[2]])
  <2>1. x \in DOMAIN t.conn /\ ConnStep(t.conn[x], u.conn[x]) /\ b[1] = t.conn[x].life
    BY <1>2, <1>7 DEF ConnStep
  <2>2. CASE b \in DOMAIN t.paid
    <3>1. t.conn[x].switched /\ b[3] \in Covered(t.conn[x][b[2]])
      BY <2>1, <2>2 DEF TrackerOK
    <3>2. b[2] \in Dirs
      BY <1>1, TrackerFields DEF Slice
    <3>3. DirStep(t.conn[x][b[2]], u.conn[x][b[2]])
      BY <2>1, <3>2 DEF ConnStep, Dirs
    <3>. QED
      BY <2>1, <3>1, <3>3 DEF DirStep, ConnStep
  <2>3. CASE b \notin DOMAIN t.paid
    <3>1. PICK y \in DOMAIN t.conn : t.conn[y].switched /\ b[1] = t.conn[y].life
      BY <2>3 DEF Quiet, Pays
    <3>2. y = x
      BY <2>1, <3>1 DEF TrackerOK
    <3>3. b[3] \in Covered(u.conn[x][b[2]])
      BY <1>7, <2>3 DEF Quiet, Pays
    <3>. QED
      BY <2>1, <3>1, <3>2, <3>3 DEF ConnStep
  <2>. QED
    BY <2>2, <2>3
<1>8. IsFiniteSet(u.window)
  BY DEF TrackerOK, Quiet, Same
<1>9. \A x \in DOMAIN u.conn : (u.conn[x].switched => u.conn[x].state = "active") =>
                                  u.conn[x].rx.credited = {} /\ u.conn[x].tx.credited = {}
  BY <1>2 DEF TrackerOK, ConnStep
<1>. QED
  BY <1>1, <1>3, <1>4, <1>5, <1>6, <1>7, <1>8, <1>9 DEF TrackerOK

LEMMA QuietClaims ==
  ASSUME NEW t, TrackerOK(t), NEW u, Quiet(t, u)
  PROVE  /\ Claimed(u) \subseteq Claimed(t)
         /\ \A b \in DOMAIN u.paid : b \in DOMAIN t.paid \/ \E x \in DOMAIN t.conn : /\ t.conn[x].switched
                                                                             /\ b[1] = t.conn[x].life
                                                                             /\ b[3] \notin Covered(t.conn[x][b[2]])
<1>1. \A b \in DOMAIN u.paid : b \in DOMAIN t.paid \/ \E x \in DOMAIN t.conn : /\ t.conn[x].switched
                                                                             /\ b[1] = t.conn[x].life
                                                                             /\ b[3] \notin Covered(t.conn[x][b[2]])
  BY DEF Quiet, Pays
<1>2. ASSUME NEW L \in Claimed(u) PROVE L \in Claimed(t)
  <2>1. CASE \E x \in DOMAIN u.conn : u.conn[x].switched /\ u.conn[x].life = L
    <3>1. PICK x \in DOMAIN u.conn : u.conn[x].switched /\ u.conn[x].life = L
      BY <2>1
    <3>2. x \in DOMAIN t.conn /\ t.conn[x].switched /\ t.conn[x].life = L
      BY <3>1 DEF Quiet, Fewer, ConnStep
    <3>. QED
      BY <3>2 DEF Claimed
  <2>2. CASE \E b \in DOMAIN u.paid : b[1] = L
    <3>1. PICK b \in DOMAIN u.paid : b[1] = L
      BY <2>2
    <3>2. CASE b \in DOMAIN t.paid
      BY <3>1, <3>2 DEF Claimed
    <3>3. CASE \E x \in DOMAIN t.conn : t.conn[x].switched /\ b[1] = t.conn[x].life
      BY <3>1, <3>3 DEF Claimed
    <3>. QED
      BY <1>1, <3>2, <3>3
  <2>. QED
    BY <2>1, <2>2 DEF Claimed
<1>. QED
  BY <1>1, <1>2

LEMMA QuietJoint ==
  ASSUME NEW t, TrackerOK(t), NEW u, Quiet(t, u), NEW queue, NEW late, NEW bag, Joint(t, queue, late, bag),
         bag \in Partial(Slice, {1})
  PROVE  Joint(u, queue, late, bag)
<1>1. t \in Tracker /\ u \in Tracker
  BY DEF TrackerOK, Quiet
<1>2. \A x \in DOMAIN u.conn : x \in DOMAIN t.conn /\ ConnStep(t.conn[x], u.conn[x])
  BY DEF Quiet, Fewer
<1>3. \A b \in DOMAIN u.paid : b \in DOMAIN t.paid \/ \E x \in DOMAIN t.conn : /\ t.conn[x].switched
                                                                             /\ b[1] = t.conn[x].life
                                                                             /\ b[3] \notin Covered(t.conn[x][b[2]])
  BY QuietClaims
<1>4. ConnsOK(u)
  BY <1>2, <1>3 DEF Joint, ConnsOK, ConnStep
<1>5. Connects(u, queue)
  BY <1>2, <1>3 DEF Joint, Connects, ConnStep
<1>6. GuardOK(u, late)
  <2>1. Claimed(u) \ u.mistaken \subseteq Claimed(t) \ t.mistaken
    BY QuietClaims DEF Quiet, Same
  <2>2. \A L, e : Guarded(u, L, e) = Guarded(t, L, e)
    BY DEF Guarded, Quiet, Same
  <2>3. u.window = t.window
    BY DEF Quiet, Same
  <2>. QED
    BY <2>1, <2>2, <2>3 DEF Joint, GuardOK
<1>7. BelowPrefix(u, bag)
  <2> SUFFICES ASSUME NEW b \in DOMAIN bag, b[1] \notin u.mistaken
               PROVE  /\ b \notin DOMAIN u.paid
                      /\ \A x \in DOMAIN u.conn : u.conn[x].life = b[1] /\ u.conn[x].switched =>
                                                    b[3] < u.conn[x][b[2]].prefix
    BY DEF BelowPrefix
  <2>1. /\ b \notin DOMAIN t.paid
        /\ \A x \in DOMAIN t.conn : t.conn[x].life = b[1] /\ t.conn[x].switched => b[3] < t.conn[x][b[2]].prefix
    BY DEF Joint, BelowPrefix, Quiet, Same
  <2>2. b \in Slice /\ b[2] \in Dirs /\ b[3] \in Nat
    BY PartialElim DEF Slice
  <2>3. b \notin DOMAIN u.paid
    <3>1. ASSUME NEW x \in DOMAIN t.conn, t.conn[x].switched, b[1] = t.conn[x].life
          PROVE  b[3] \in Covered(t.conn[x][b[2]])
      BY <2>1, <2>2, <3>1 DEF Covered
    <3>. QED
      BY <1>3, <2>1, <3>1
  <2>4. ASSUME NEW x \in DOMAIN u.conn, u.conn[x].life = b[1], u.conn[x].switched
        PROVE  b[3] < u.conn[x][b[2]].prefix
    <3>1. ConnStep(t.conn[x], u.conn[x]) /\ x \in DOMAIN t.conn
      BY <1>2
    <3>2. DirStep(t.conn[x][b[2]], u.conn[x][b[2]]) /\ t.conn[x][b[2]] \in Direction
      <4>1. t.conn[x] \in ConnRec
        BY <1>1, <3>1, TrackerFields
      <4>. QED
        BY <2>2, <3>1, <4>1 DEF ConnStep, Dirs, ConnRec
    <3>3. b[3] < t.conn[x][b[2]].prefix
      BY <2>1, <2>4, <3>1 DEF ConnStep
    <3>4. t.conn[x][b[2]].prefix \in Nat /\ u.conn[x][b[2]].prefix \in Nat
          /\ t.conn[x][b[2]].prefix <= u.conn[x][b[2]].prefix
      BY <3>2 DEF DirStep, Direction
    <3>. QED
      BY <2>2, <3>3, <3>4
  <2>. QED
    BY <2>3, <2>4
<1>8. OriginsOK(u, queue)
  BY <1>2 DEF Joint, OriginsOK, OriginOK, ConnStep
<1>9. MarkersOK(u, late)
  BY DEF Joint, MarkersOK, Quiet, Fewer
<1>10. ProbesOK(u, late)
  BY <1>2 DEF Joint, ProbesOK, ProbeOK, ConnStep
<1>11. TotalsOK(u, bag)
  <2>1. \A k \in DOMAIN u.legacy : k \in DOMAIN t.legacy /\ u.legacy[k] = t.legacy[k]
    BY DEF Quiet, Fewer
  <2> SUFFICES ASSUME NEW x \in DOMAIN u.conn, NEW i \in DOMAIN reading.obs, NEW b \in DOMAIN bag,
                      ~reading.obs[i].closed, reading.obs[i].created = u.conn[x].life, b[1] = u.conn[x].life,
                      b[3] >= CountAt(reading.obs[i], b[2]), u.conn[x].probe.end # 0,
                      reading.obs[i].begin > u.conn[x].probe.end, u.conn[x].key \in DOMAIN u.legacy,
                      u.legacy[u.conn[x].key].life = u.conn[x].life
               PROVE  u.legacy[u.conn[x].key].counter >= reading.obs[i].begin
    BY DEF TotalsOK, TotalOK
  <2>2. x \in DOMAIN t.conn /\ t.conn[x].life = u.conn[x].life /\ t.conn[x].probe = u.conn[x].probe
        /\ t.conn[x].key = u.conn[x].key
    BY <1>2 DEF ConnStep
  <2>. QED
    BY <2>1, <2>2 DEF Joint, TotalsOK, TotalOK
<1>. QED
  BY <1>4, <1>5, <1>6, <1>7, <1>8, <1>9, <1>10, <1>11 DEF Joint

(* Putting a connection in place of the one it came from.                  *)
LEMMA SetConnFacts ==
  ASSUME NEW t \in Tracker, NEW x \in DOMAIN t.conn, NEW c \in ConnRec, NEW u, u = SetConn(t, x, c)
  PROVE  /\ u \in Tracker /\ DOMAIN u.conn = DOMAIN t.conn /\ u.conn[x] = c
         /\ \A y \in DOMAIN t.conn \ {x} : u.conn[y] = t.conn[y]
         /\ u.alias = t.alias /\ u.window = t.window /\ u.legacy = t.legacy /\ u.bloom = t.bloom
         /\ u.generation = t.generation /\ u.legacyMark = t.legacyMark /\ u.proofMark = t.proofMark
         /\ u.retiredBefore = t.retiredBefore /\ u.healthy = t.healthy /\ u.legacyHealthy = t.legacyHealthy
         /\ u.legacyClock = t.legacyClock /\ u.paid = t.paid /\ u.marked = t.marked /\ u.mistaken = t.mistaken
<1>1. t.conn \in Partial(Tcb, ConnRec)
  BY DEF Tracker
<1> DEFINE g == [t.conn EXCEPT ![x] = c]
<1>2. DOMAIN g = DOMAIN t.conn /\ g[x] = c /\ \A y \in DOMAIN t.conn \ {x} : g[y] = t.conn[y]
  BY <1>1, PartialElim
<1>3. g \in Partial(Tcb, ConnRec)
  <2>1. g = [k \in DOMAIN g |-> g[k]]
    OBVIOUS
  <2>2. DOMAIN g \subseteq Tcb /\ \A k \in DOMAIN g : g[k] \in ConnRec
    <3> HIDE DEF g, ConnRec
    <3>. QED
      BY <1>1, <1>2, PartialElim
  <2> HIDE DEF g
  <2>. QED
    BY <2>1, <2>2, PartialIntro
<1>4. u = [t EXCEPT !.conn = g]
  BY DEF SetConn
<1> HIDE DEF g
<1>. QED
  BY <1>2, <1>3, <1>4 DEF Tracker

LEMMA SetConnQuiet ==
  ASSUME NEW t, TrackerOK(t), NEW x \in DOMAIN t.conn, NEW c, ConnStep(t.conn[x], c), NEW u, u = SetConn(t, x, c)
  PROVE  Quiet(t, u)
<1>1. t \in Tracker /\ c \in ConnRec
  BY DEF TrackerOK, ConnStep
<1>2. /\ u \in Tracker /\ DOMAIN u.conn = DOMAIN t.conn /\ u.conn[x] = c
      /\ \A y \in DOMAIN t.conn \ {x} : u.conn[y] = t.conn[y]
      /\ u.alias = t.alias /\ u.window = t.window /\ u.legacy = t.legacy /\ u.generation = t.generation
      /\ u.retiredBefore = t.retiredBefore /\ u.paid = t.paid /\ u.mistaken = t.mistaken
  BY <1>1, SetConnFacts
<1>3. \A y \in DOMAIN t.conn : ConnStep(t.conn[y], t.conn[y])
  BY <1>1, TrackerFields, StepReflexive
<1>4. Fewer(t, u)
  BY <1>2, <1>3 DEF Fewer, TrackerOK
<1>5. Same(t, u) /\ Pays(t, u)
  BY <1>2 DEF Same, Pays
<1>. QED
  BY <1>2, <1>4, <1>5 DEF Quiet

LEMMA BagSumFacts ==
  ASSUME NEW A, NEW B, B \in Partial(A, {1}), NEW S, S \in SUBSET A, \A b \in S : b \notin DOMAIN B, NEW C, C = B (+) SetToBag(S)
  PROVE  C \in Partial(A, {1}) /\ DOMAIN C = DOMAIN B \cup S
<1>1. B = [k \in DOMAIN B |-> B[k]] /\ DOMAIN B \subseteq A /\ \A k \in DOMAIN B : B[k] = 1
  BY PartialElim
<1>2. SetToBag(S) = [e \in S |-> 1]
  BY DEF SetToBag
<1>3. C = [e \in (DOMAIN B) \cup S |-> (IF e \in DOMAIN B THEN B[e] ELSE 0) + (IF e \in S THEN [f \in S |-> 1][e] ELSE 0)]
  BY <1>2 DEF (+)
<1>4. DOMAIN C = DOMAIN B \cup S /\ \A e \in DOMAIN C : C[e] \in {1}
  BY <1>1, <1>3
<1>5. C = [e \in DOMAIN C |-> C[e]]
  BY <1>3
<1>. QED
  BY <1>1, <1>4, <1>5, PartialIntro

LEMMA MorePaid ==
  ASSUME NEW B, B \in Partial(Slice, {1}), NEW S, S \in SUBSET Slice, \A b \in S : b \notin DOMAIN B,
         NEW C, C = B (+) SetToBag(S)
  PROVE  C \in Partial(Slice, {1}) /\ DOMAIN C = DOMAIN B \cup S
  BY BagSumFacts

LEMMA PlainQuiet ==
  ASSUME NEW t, TrackerOK(t), NEW u \in Tracker, u.conn = t.conn, u.alias = t.alias, u.legacy = t.legacy,
         u.window = t.window, u.generation = t.generation, u.retiredBefore = t.retiredBefore,
         u.mistaken = t.mistaken, u.paid = t.paid
  PROVE  Quiet(t, u)
<1>1. Quiet(t, t)
  BY QuietReflexive
<1>. QED
  BY <1>1 DEF Quiet, Same, Fewer, Pays

LEMMA MarkQuiet ==
  ASSUME NEW t, TrackerOK(t), NEW c, c.life \in Nat, NEW u, u = Mark(t, c)
  PROVE  Quiet(t, u) /\ u.conn = t.conn /\ u.alias = t.alias /\ u.legacy = t.legacy
<1>1. t \in Tracker
  BY DEF TrackerOK
<1>2. u \in Tracker /\ u = [t EXCEPT !.marked = t.marked \cup {c.life}]
  BY <1>1 DEF Mark, Tracker
<1>3. u.conn = t.conn /\ u.alias = t.alias /\ u.legacy = t.legacy /\ u.window = t.window
      /\ u.generation = t.generation /\ u.retiredBefore = t.retiredBefore /\ u.mistaken = t.mistaken /\ u.paid = t.paid
  BY <1>1, <1>2 DEF Tracker
<1>. QED
  BY <1>2, <1>3, PlainQuiet

\* What a connection pays lies past what it had credited, and is credited then.
LEMMA PayQuiet ==
  ASSUME NEW t, TrackerOK(t), NEW x \in DOMAIN t.conn, t.conn[x].switched, NEW c, ConnStep(t.conn[x], c),
         NEW rx \in SUBSET Nat, NEW tx \in SUBSET Nat,
         rx \cap Covered(t.conn[x].rx) = {}, rx \subseteq Covered(c.rx),
         tx \cap Covered(t.conn[x].tx) = {}, tx \subseteq Covered(c.tx),
         NEW s, s = SetConn(t, x, c), NEW old, old.life = t.conn[x].life, NEW u, u = Pay(s, old, rx, tx)
  PROVE  Quiet(t, u) /\ u.conn = s.conn /\ u.alias = t.alias /\ u.legacy = t.legacy
<1> DEFINE L == t.conn[x].life
           new == {<<L, "rx", p>> : p \in rx} \cup {<<L, "tx", p>> : p \in tx}
           bag == t.paid (+) SetToBag(new)
<1>1. t \in Tracker /\ t.conn[x] \in ConnRec /\ c \in ConnRec
  BY TrackerFields DEF TrackerOK, ConnStep
<1>2. /\ s \in Tracker /\ DOMAIN s.conn = DOMAIN t.conn /\ s.conn[x] = c
      /\ \A y \in DOMAIN t.conn \ {x} : s.conn[y] = t.conn[y]
      /\ s.alias = t.alias /\ s.window = t.window /\ s.legacy = t.legacy /\ s.generation = t.generation
      /\ s.retiredBefore = t.retiredBefore /\ s.paid = t.paid /\ s.mistaken = t.mistaken
  BY <1>1, SetConnFacts
<1>3. L \in Nat
  BY <1>1 DEF ConnRec
<1>4. new \in SUBSET Slice
  BY <1>3 DEF Slice, Dirs
<1>5. ASSUME NEW b \in new
      PROVE  b[1] = L /\ b[2] \in Dirs /\ b[3] \notin Covered(t.conn[x][b[2]]) /\ b[3] \in Covered(c[b[2]])
  <2>1. CASE \E p \in rx : b = <<L, "rx", p>>
    BY <2>1 DEF Dirs
  <2>2. CASE \E p \in tx : b = <<L, "tx", p>>
    BY <2>2 DEF Dirs
  <2>. QED
    BY <2>1, <2>2
<1>6. \A b \in new : b \notin DOMAIN t.paid
  <2>1. \A b \in DOMAIN t.paid : b[1] = L => b[3] \in Covered(t.conn[x][b[2]])
    BY DEF TrackerOK
  <2> HIDE DEF new
  <2>. QED
    BY <1>5, <2>1
<1>7. u = [s EXCEPT !.paid = bag]
  BY <1>2 DEF Pay
<1> HIDE DEF new
<1>8. t.paid \in Partial(Slice, {1})
  BY <1>1 DEF Tracker
<1>9. bag \in Partial(Slice, {1}) /\ DOMAIN bag = DOMAIN t.paid \cup new
  <2>1. bag = t.paid (+) SetToBag(new)
    OBVIOUS
  <2> HIDE DEF bag
  <2>. QED
    BY <1>4, <1>6, <1>8, <2>1, MorePaid
<1> HIDE DEF bag
<1>10. u \in Tracker /\ u.paid = bag /\ u.conn = s.conn /\ u.alias = s.alias /\ u.window = s.window
       /\ u.legacy = s.legacy /\ u.generation = s.generation /\ u.retiredBefore = s.retiredBefore
       /\ u.mistaken = s.mistaken
  BY <1>2, <1>7, <1>9 DEF Tracker
<1>11. Quiet(t, s)
  BY SetConnQuiet
<1>12. Same(t, u) /\ Fewer(t, u)
  BY <1>10, <1>11 DEF Quiet, Same, Fewer
<1>13. ASSUME NEW y \in DOMAIN u.conn, u.conn[y].life = L PROVE y = x
  <2>1. y \in DOMAIN t.conn /\ t.conn[y].life = L
    BY <1>2, <1>10, <1>13 DEF ConnStep
  <2>. QED
    BY <2>1 DEF TrackerOK
<1>14. Pays(t, u)
  <2>1. \A b \in new : \A y \in DOMAIN u.conn : b[1] = u.conn[y].life => b[3] \in Covered(u.conn[y][b[2]])
    BY <1>2, <1>5, <1>10, <1>13
  <2>2. \A b \in new : t.conn[x].switched /\ b[1] = t.conn[x].life /\ b[3] \notin Covered(t.conn[x][b[2]])
    BY <1>5
  <2>. QED
    BY <1>9, <1>10, <2>1, <2>2 DEF Pays
<1>. QED
  BY <1>2, <1>10, <1>12, <1>14 DEF Quiet

(* Flushing is quiet, whatever the octet that may be a FIN.                *)
LEMMA FlushedQuiet ==
  ASSUME NEW t, TrackerOK(t), NEW x \in DOMAIN t.conn, t.conn[x].switched, t.conn[x].state # "active",
         NEW rx, FlushInv(t.conn[x].rx, rx), NEW tx, FlushInv(t.conn[x].tx, tx), NEW u, u = Flushed(t, x, rx, tx)
  PROVE  Quiet(t, u) /\ u.alias = t.alias /\ u.legacy = t.legacy /\ DOMAIN u.conn = DOMAIN t.conn
<1> DEFINE c == t.conn[x]
           newRx == [rx.d EXCEPT !.pending = IF c.haveFin THEN {} ELSE rx.rest]
           newTx == [tx.d EXCEPT !.pending = {}]
           after == [c EXCEPT !.rx = newRx, !.tx = newTx, !.frozen = ~(rx.ok /\ tx.ok)]
           s == SetConn(t, x, after)
           paid == Pay(s, c, rx.paid, tx.paid)
<1>1. t \in Tracker /\ c \in ConnRec /\ c.life \in Nat
  BY TrackerFields DEF TrackerOK, ConnRec
<1>2. rx.d \in Direction /\ tx.d \in Direction /\ rx.rest \in Span /\ {} \in Span /\ rx.ok \in BOOLEAN /\ tx.ok \in BOOLEAN
      /\ rx.paid \in SUBSET Nat /\ tx.paid \in SUBSET Nat
  BY FS_EmptySet DEF FlushInv, Account, Span
<1>3. newRx \in Direction /\ newTx \in Direction /\ newRx.prefix = rx.d.prefix /\ newTx.prefix = tx.d.prefix
      /\ newRx.credited = rx.d.credited /\ newTx.credited = tx.d.credited
  BY <1>2 DEF Direction
<1> HIDE DEF newRx, newTx
<1>4. DirStep(c.rx, newRx) /\ DirStep(c.tx, newTx) /\ Covered(newRx) = Covered(rx.d) /\ Covered(newTx) = Covered(tx.d)
  BY <1>3 DEF FlushInv, DirStep, Covered
<1>5. ConnStep(c, after) /\ after.rx = newRx /\ after.tx = newTx
  BY <1>1, <1>2, <1>3, <1>4 DEF ConnStep, ConnRec
<1>6. [t EXCEPT !.conn[x] = after] = s
  BY DEF SetConn
<1> HIDE DEF after
<1>7. u = (IF rx.ok /\ tx.ok /\ rx.paid \cup tx.paid = {} THEN paid ELSE Mark(paid, c))
  BY <1>6 DEF Flushed, after, newRx, newTx
<1> HIDE DEF s
<1>8. /\ s = SetConn(t, x, after) /\ rx.paid \cap Covered(c.rx) = {} /\ rx.paid \subseteq Covered(after.rx)
      /\ tx.paid \cap Covered(c.tx) = {} /\ tx.paid \subseteq Covered(after.tx)
  BY <1>4, <1>5 DEF s, FlushInv
<1>9. Quiet(t, paid) /\ paid.conn = s.conn /\ paid.alias = t.alias /\ paid.legacy = t.legacy
  BY <1>2, <1>5, <1>8, PayQuiet
<1> HIDE DEF paid
<1>10. TrackerOK(paid)
  BY <1>9, QuietTracker
<1>11. Quiet(paid, Mark(paid, c)) /\ Mark(paid, c).conn = paid.conn /\ Mark(paid, c).alias = paid.alias
       /\ Mark(paid, c).legacy = paid.legacy
  BY <1>1, <1>10, MarkQuiet
<1>12. Quiet(t, u)
  BY <1>7, <1>9, <1>11, QuietTransitive
<1>13. DOMAIN s.conn = DOMAIN t.conn
  BY <1>1, <1>5, <1>8, SetConnFacts DEF ConnStep
<1>. QED
  BY <1>7, <1>9, <1>11, <1>12, <1>13

(* Operations on one connection are quiet and leave the others in place.   *)
Still(t, u) == Quiet(t, u) /\ u.alias = t.alias /\ u.legacy = t.legacy /\ DOMAIN u.conn = DOMAIN t.conn

LEMMA StillReflexive ==
  ASSUME NEW t, TrackerOK(t)
  PROVE  Still(t, t)
  BY QuietReflexive DEF Still

LEMMA StillTransitive ==
  ASSUME NEW t, TrackerOK(t), NEW u, NEW v, Still(t, u), Still(u, v)
  PROVE  Still(t, v)
  BY QuietTransitive DEF Still

LEMMA SetConnStill ==
  ASSUME NEW t, TrackerOK(t), NEW x \in DOMAIN t.conn, NEW c, ConnStep(t.conn[x], c), NEW u, u = SetConn(t, x, c)
  PROVE  Still(t, u) /\ u.conn[x] = c
<1>1. t \in Tracker /\ c \in ConnRec
  BY DEF TrackerOK, ConnStep
<1>2. DOMAIN u.conn = DOMAIN t.conn /\ u.conn[x] = c /\ u.alias = t.alias /\ u.legacy = t.legacy
  BY <1>1, SetConnFacts
<1>. QED
  BY <1>2, SetConnQuiet DEF Still

LEMMA MarkStill ==
  ASSUME NEW t, TrackerOK(t), NEW c, c.life \in Nat, NEW u, u = Mark(t, c)
  PROVE  Still(t, u) /\ u.conn = t.conn
  BY MarkQuiet DEF Still

LEMMA ConnFacts ==
  ASSUME NEW t, TrackerOK(t), NEW x \in DOMAIN t.conn
  PROVE  t.conn[x] \in ConnRec /\ x \in Tcb /\ t.conn[x].life \in Nat /\ ConnStep(t.conn[x], t.conn[x])
<1>1. t.conn[x] \in ConnRec /\ x \in Tcb
  BY TrackerFields DEF TrackerOK
<1>2. t.conn[x].life \in Nat
  BY <1>1 DEF ConnRec
<1>. QED
  BY <1>1, <1>2, StepReflexive

LEMMA SafeInt ==
  ASSUME NEW c \in ConnRec
  PROVE  Safe(c) \in Int /\ 1 + Max2(0, c.tx.highest) \in Int
  BY DEF Safe, Max2, ConnRec, Direction

LEMMA FlushStill ==
  ASSUME NEW t, TrackerOK(t), NEW x \in DOMAIN t.conn, NEW u, u = Flush(t, x)
  PROVE  Still(t, u)
<1> DEFINE c == t.conn[x]
           rx == FlushDirection(c.rx, Safe(c))
           tx == FlushDirection(c.tx, 1 + Max2(0, c.tx.highest))
<1>1. c \in ConnRec
  BY ConnFacts
<1>2. CASE ~c.switched \/ c.state = "active" \/ c.frozen
  BY <1>2, StillReflexive DEF Flush
<1>3. CASE ~(~c.switched \/ c.state = "active" \/ c.frozen)
  <2>1. c.rx \in Direction /\ c.tx \in Direction
    BY <1>1 DEF ConnRec
  <2>2. FlushInv(c.rx, rx) /\ FlushInv(c.tx, tx)
    BY <1>1, <2>1, SafeInt, FlushDirectionKeeps
  <2>3. u = Flushed(t, x, rx, tx)
    BY <1>3 DEF Flush
  <2> HIDE DEF rx, tx
  <2>4. Quiet(t, u) /\ u.alias = t.alias /\ u.legacy = t.legacy /\ DOMAIN u.conn = DOMAIN t.conn
    BY <1>3, <2>2, <2>3, FlushedQuiet
  <2>. QED
    BY <2>4 DEF Still
<1>. QED
  BY <1>2, <1>3

LEMMA FallbackStill ==
  ASSUME NEW t, TrackerOK(t), NEW x \in DOMAIN t.conn, NEW incomplete, NEW u, u = Fallback(t, x, incomplete)
  PROVE  Still(t, u)
<1> DEFINE c == t.conn[x]
           t1 == IF c.state = "active" /\ incomplete THEN Mark(t, c) ELSE t
           plain == [c EXCEPT !.state = "uncertain", !.probe.end = 0]
           fallen == [c EXCEPT !.state = "uncertain"]
<1>1. c \in ConnRec /\ c.life \in Nat /\ ConnStep(c, c)
  BY ConnFacts
<1>2. Still(t, t1) /\ t1.conn = t.conn
  BY <1>1, MarkStill, StillReflexive
<1> HIDE DEF t1
<1>3. CASE ~c.switched
  <2>1. u = SetConn(t, x, plain)
    <3>1. t \in Tracker
      BY DEF TrackerOK
    <3>. QED
      BY <1>1, <1>3, <3>1 DEF Fallback, SetConn, Tracker, ConnRec
  <2>2. ConnStep(c, plain)
    BY <1>1 DEF ConnStep, ConnRec, States, ProbeRec
  <2> HIDE DEF plain
  <2>. QED
    BY <2>1, <2>2, SetConnStill
<1>4. CASE c.switched
  <2> DEFINE t2 == SetConn(t1, x, fallen)
  <2>1. u = Flush(t2, x)
    BY <1>4, <1>2 DEF Fallback, SetConn, t1
  <2>2. ConnStep(c, fallen)
    BY <1>1 DEF ConnStep, ConnRec, States
  <2> HIDE DEF fallen
  <2>3. TrackerOK(t1) /\ x \in DOMAIN t1.conn /\ t1.conn[x] = c
    BY <1>2, QuietTracker DEF Still
  <2>4. Still(t1, t2)
    BY <2>2, <2>3, SetConnStill
  <2> HIDE DEF t2
  <2>5. TrackerOK(t2) /\ x \in DOMAIN t2.conn
    BY <2>3, <2>4, QuietTracker DEF Still
  <2>6. Still(t2, u)
    BY <2>1, <2>5, FlushStill
  <2>7. Still(t, t2)
    BY <1>2, <2>4, StillTransitive
  <2>. QED
    BY <2>6, <2>7, StillTransitive
<1>5. c.switched \in BOOLEAN
  BY <1>1 DEF ConnRec
<1>. QED
  BY <1>3, <1>4

(* A reason to freeze or reject a connection.                              *)
LEMMA SetFallStill ==
  ASSUME NEW t, TrackerOK(t), NEW x \in DOMAIN t.conn, NEW c, ConnStep(t.conn[x], c), NEW incomplete,
         NEW s, s = SetConn(t, x, c), NEW u, u = Fallback(s, x, incomplete)
  PROVE  Still(t, u)
<1>1. Still(t, s)
  BY SetConnStill
<1>2. TrackerOK(s) /\ x \in DOMAIN s.conn
  BY <1>1, QuietTracker DEF Still
<1>3. Still(s, u)
  BY <1>2, FallbackStill
<1>. QED
  BY <1>1, <1>3, StillTransitive

LEMMA FreezeStill ==
  ASSUME NEW t, TrackerOK(t), NEW x \in DOMAIN t.conn, NEW u, u = Freeze(t, x)
  PROVE  Still(t, u)
<1> DEFINE c == t.conn[x]
           frozen == [c EXCEPT !.frozen = TRUE]
           s == SetConn(t, x, frozen)
           m == Mark(s, c)
<1>1. c \in ConnRec /\ c.life \in Nat /\ ConnStep(c, c)
  BY ConnFacts
<1>2. ConnStep(c, frozen)
  BY <1>1 DEF ConnStep, ConnRec
<1>3. u = Fallback(m, x, TRUE)
  BY DEF Freeze, SetConn
<1> HIDE DEF frozen
<1>4. Still(t, s)
  BY <1>2, SetConnStill
<1>5. TrackerOK(s) /\ x \in DOMAIN s.conn
  BY <1>4, QuietTracker DEF Still
<1> HIDE DEF s
<1>6. Still(s, m) /\ m.conn = s.conn
  BY <1>1, <1>5, MarkStill
<1> HIDE DEF m
<1>7. TrackerOK(m) /\ x \in DOMAIN m.conn
  BY <1>5, <1>6, QuietTracker DEF Still
<1>8. Still(m, u)
  BY <1>3, <1>7, FallbackStill
<1>9. Still(t, m)
  BY <1>4, <1>6, StillTransitive
<1>. QED
  BY <1>8, <1>9, StillTransitive

LEMMA RejectStill ==
  ASSUME NEW t, TrackerOK(t), NEW x \in DOMAIN t.conn
  PROVE  Still(t, Reject(t, x)) /\ Still(t, RejectFrozen(t, x))
<1> DEFINE c == t.conn[x]
           once == [c EXCEPT !.eligible = FALSE]
           both == [c EXCEPT !.eligible = FALSE, !.frozen = TRUE]
<1>1. c \in ConnRec /\ ConnStep(c, c)
  BY ConnFacts
<1>2. ConnStep(c, once) /\ ConnStep(c, both)
  BY <1>1 DEF ConnStep, ConnRec
<1>3. Reject(t, x) = Fallback(SetConn(t, x, once), x, TRUE)
  BY DEF Reject, SetConn
<1>4. RejectFrozen(t, x) = Fallback(SetConn(t, x, both), x, TRUE)
  <2>1. t \in Tracker
    BY DEF TrackerOK
  <2>2. [t EXCEPT !.conn[x].eligible = FALSE, !.conn[x].frozen = TRUE] = SetConn(t, x, both)
    BY <1>1, <2>1 DEF SetConn, Tracker, ConnRec
  <2> HIDE DEF both
  <2>. QED
    BY <2>2 DEF RejectFrozen
<1> HIDE DEF once, both
<1>. QED
  BY <1>2, <1>3, <1>4, SetFallStill

LEMMA DropConnectionQuiet ==
  ASSUME NEW t, TrackerOK(t), NEW x \in DOMAIN t.conn, NEW u, u = DropConnection(t, x)
  PROVE  Quiet(t, u) /\ u.legacy = t.legacy /\ DOMAIN u.conn = DOMAIN t.conn \ {x} /\ DOMAIN u.alias \subseteq DOMAIN t.alias
         /\ \A y \in DOMAIN u.conn : u.conn[y] = t.conn[y]
<1> DEFINE d == DropAlias(t, x)
           rest == Without(d.conn, {x})
           k == t.conn[x].key
<1>1. t \in Tracker /\ t.conn \in Partial(Tcb, ConnRec) /\ t.alias \in Partial(Key, Tcb)
  BY DEF TrackerOK, Tracker
<1>2. Without(t.alias, {k}) \in Partial(Key, Tcb)
  BY <1>1, PartialRestrict DEF Without
<1>3. /\ d \in Tracker /\ d.conn = t.conn /\ d.legacy = t.legacy /\ d.window = t.window /\ d.generation = t.generation
      /\ d.retiredBefore = t.retiredBefore /\ d.mistaken = t.mistaken /\ d.paid = t.paid
      /\ d.alias = (IF k \in DOMAIN t.alias /\ t.alias[k] = x THEN Without(t.alias, {k}) ELSE t.alias)
  BY <1>1, <1>2 DEF DropAlias, Tracker
<1> HIDE DEF d
<1>4. rest \in Partial(Tcb, ConnRec) /\ DOMAIN rest = DOMAIN t.conn \ {x} /\ \A y \in DOMAIN rest : rest[y] = t.conn[y]
  BY <1>1, <1>3, PartialRestrict DEF Without
<1>5. u = [d EXCEPT !.conn = rest]
  BY DEF DropConnection, d
<1> HIDE DEF rest
<1>6. /\ u \in Tracker /\ u.conn = rest /\ u.legacy = t.legacy /\ u.window = t.window /\ u.generation = t.generation
      /\ u.retiredBefore = t.retiredBefore /\ u.mistaken = t.mistaken /\ u.paid = t.paid /\ u.alias = d.alias
  BY <1>3, <1>4, <1>5 DEF Tracker
<1>7. ASSUME NEW j \in DOMAIN u.alias
      PROVE  j \in DOMAIN t.alias /\ u.alias[j] = t.alias[j] /\ u.alias[j] \in DOMAIN u.conn
  <2>1. j \in DOMAIN t.alias /\ u.alias[j] = t.alias[j]
    BY <1>3, <1>6 DEF Without
  <2>2. t.alias[j] \in DOMAIN t.conn /\ t.conn[t.alias[j]].key = j
    BY <2>1 DEF TrackerOK
  <2>3. t.alias[j] # x
    BY <1>3, <1>6, <2>1, <2>2 DEF Without
  <2>. QED
    BY <1>4, <1>6, <2>1, <2>2, <2>3
<1>8. \A y \in DOMAIN u.conn : y \in DOMAIN t.conn /\ u.conn[y] = t.conn[y] /\ ConnStep(t.conn[y], u.conn[y])
  BY <1>4, <1>6, ConnFacts
<1>9. Fewer(t, u)
  BY <1>6, <1>7, <1>8 DEF Fewer
<1>10. Same(t, u) /\ Pays(t, u)
  BY <1>6 DEF Same, Pays
<1>. QED
  BY <1>4, <1>6, <1>7, <1>8, <1>9, <1>10 DEF Quiet

LEMMA CloseStill ==
  ASSUME NEW t, TrackerOK(t), NEW x \in DOMAIN t.conn, NEW time \in Nat, NEW s, Still(t, s),
         NEW u, u = [s EXCEPT !.conn[x].closed = IF @ = 0 THEN time ELSE Min2(@, time)]
  PROVE  Still(t, u)
<1> DEFINE c == s.conn[x]
           closed == [c EXCEPT !.closed = IF @ = 0 THEN time ELSE Min2(@, time)]
<1>1. TrackerOK(s) /\ x \in DOMAIN s.conn
  BY QuietTracker DEF Still
<1>2. c \in ConnRec /\ ConnStep(c, c)
  BY <1>1, ConnFacts
<1>3. ConnStep(c, closed)
  BY <1>2 DEF ConnStep, ConnRec, Min2
<1>4. u = SetConn(s, x, closed)
  BY DEF SetConn
<1> HIDE DEF closed
<1>5. Still(s, u)
  BY <1>1, <1>3, <1>4, SetConnStill
<1>. QED
  BY <1>5, StillTransitive

LEMMA CloseAliasedStill ==
  ASSUME NEW t, TrackerOK(t), NEW e, e.time \in Nat, NEW u, u = CloseAliased(t, e)
  PROVE  Still(t, u)
<1>1. CASE e.key \notin DOMAIN t.alias
  BY <1>1, StillReflexive DEF CloseAliased
<1>2. CASE e.key \in DOMAIN t.alias
  <2>1. t.alias[e.key] \in DOMAIN t.conn
    BY <1>2 DEF TrackerOK
  <2>2. Still(t, Fallback(t, t.alias[e.key], TRUE))
    BY <2>1, FallbackStill
  <2>3. u = [Fallback(t, t.alias[e.key], TRUE) EXCEPT !.conn[t.alias[e.key]].closed =
               IF @ = 0 THEN e.time ELSE Min2(@, e.time)]
    BY <1>2 DEF CloseAliased
  <2>. QED
    BY <2>1, <2>2, <2>3, CloseStill
<1>. QED
  BY <1>1, <1>2

LEMMA LegacyEndsStill ==
  ASSUME NEW t, TrackerOK(t), NEW e, e.time \in Nat, NEW x \in DOMAIN t.conn, NEW u, u = LegacyEnds(t, e, x)
  PROVE  Still(t, u)
<1> DEFINE f == Fallback([t EXCEPT !.conn[x].eligible = FALSE], x, TRUE)
<1>1. f = Reject(t, x)
  BY DEF Reject
<1>2. Still(t, f)
  BY <1>1, RejectStill
<1>3. u = [f EXCEPT !.conn[x].closed = IF @ = 0 THEN e.time ELSE Min2(@, e.time)]
  BY DEF LegacyEnds
<1> HIDE DEF f
<1>. QED
  BY <1>2, <1>3, CloseStill

\* Forgetting legacy prefixes.
LEMMA FewerPrefixes ==
  ASSUME NEW t, TrackerOK(t), NEW gone, NEW u, u = [t EXCEPT !.legacy = Without(t.legacy, gone)]
  PROVE  Quiet(t, u) /\ u.conn = t.conn /\ u.alias = t.alias /\ DOMAIN u.legacy = DOMAIN t.legacy \ gone
<1> DEFINE rest == Without(t.legacy, gone)
<1>1. t \in Tracker /\ t.legacy \in Partial(Key, Marker)
  BY DEF TrackerOK, Tracker
<1>2. rest \in Partial(Key, Marker) /\ DOMAIN rest = DOMAIN t.legacy \ gone /\ \A k \in DOMAIN rest : rest[k] = t.legacy[k]
  <2>1. DOMAIN t.legacy \ gone \in SUBSET DOMAIN t.legacy
    OBVIOUS
  <2>. QED
    BY <1>1, <2>1, PartialRestrict DEF Without
<1> HIDE DEF rest
<1>3. u \in Tracker /\ u.legacy = rest /\ u.conn = t.conn /\ u.alias = t.alias /\ Same(t, u) /\ u.paid = t.paid
  BY <1>1, <1>2 DEF Tracker, Same, rest
<1>4. \A y \in DOMAIN t.conn : ConnStep(t.conn[y], t.conn[y])
  BY ConnFacts
<1>5. Fewer(t, u) /\ Pays(t, u)
  BY <1>2, <1>3, <1>4 DEF Fewer, Pays, TrackerOK
<1>. QED
  BY <1>2, <1>3, <1>5 DEF Quiet

LEMMA DropPrefixQuiet ==
  ASSUME NEW t, TrackerOK(t), NEW e, NEW u, u = DropPrefix(t, e)
  PROVE  Quiet(t, u) /\ u.conn = t.conn /\ u.alias = t.alias
  BY FewerPrefixes, QuietReflexive DEF DropPrefix

LEMMA LegacyCloseQuiet ==
  ASSUME NEW t, TrackerOK(t), NEW e, NEW u, u = LegacyClose(t, e)
  PROVE  Quiet(t, u) /\ u.conn = t.conn /\ u.alias = t.alias
  BY FewerPrefixes, QuietReflexive DEF LegacyClose

LEMMA QuarantineStill ==
  ASSUME NEW t, TrackerOK(t), NEW e, NEW u, u = Quarantine(t, e)
  PROVE  Still(t, u)
<1>1. CASE e.key \in DOMAIN t.alias
  <2>1. t.alias[e.key] \in DOMAIN t.conn
    BY <1>1 DEF TrackerOK
  <2>2. t.conn[t.alias[e.key]].life \in Nat
    BY <2>1, ConnFacts
  <2>. QED
    BY <1>1, <2>2, MarkStill DEF Quarantine
<1>2. CASE e.key \notin DOMAIN t.alias
  BY <1>2, StillReflexive DEF Quarantine
<1>. QED
  BY <1>1, <1>2

(* The ranges of the proof events.                                         *)
WithDir(c, dir, d) == [c EXCEPT ![dir] = d]

LEMMA WithDirStep ==
  ASSUME NEW c \in ConnRec, NEW dir \in Dirs, NEW d, DirStep(c[dir], d), d.credited = c[dir].credited
  PROVE  ConnStep(c, WithDir(c, dir, d)) /\ WithDir(c, dir, d)[dir] = d
<1>1. d \in Direction /\ DirStep(c.rx, c.rx) /\ DirStep(c.tx, c.tx)
  BY StepReflexive DEF DirStep, ConnStep
<1>2. CASE dir = "rx"
  <2>1. WithDir(c, dir, d) = [c EXCEPT !.rx = d]
    BY <1>2 DEF WithDir
  <2>. QED
    BY <1>1, <1>2, <2>1 DEF ConnStep, ConnRec
<1>3. CASE dir = "tx"
  <2>1. WithDir(c, dir, d) = [c EXCEPT !.tx = d]
    BY <1>3 DEF WithDir
  <2>. QED
    BY <1>1, <1>3, <2>1 DEF ConnStep, ConnRec
<1>. QED
  BY <1>2, <1>3 DEF Dirs

LEMMA DirFacts ==
  ASSUME NEW c \in ConnRec, NEW dir \in Dirs
  PROVE  c[dir] \in Direction
  BY DEF Dirs, ConnRec

LEMMA PositionInt ==
  ASSUME NEW sequence \in Int, NEW origin \in Int, NEW prefix \in Int
  PROVE  Position(sequence, origin, prefix).at \in Int
         /\ (Position(sequence, origin, prefix).ok => Position(sequence, origin, prefix).at \in Nat)
<1>1. Cycle \in Nat \ {0}
  BY TcpPathsAssumption
<1> DEFINE a == prefix % Cycle
           b == (sequence - origin) % Cycle
           h == Cycle \div 2
<1>2. a \in Int /\ b \in Int /\ h \in Int
  BY <1>1
<1> HIDE DEF a, b, h
<1> DEFINE near == (prefix - a) + b
           at == IF near - prefix > h THEN near - Cycle ELSE IF prefix - near > h THEN near + Cycle ELSE near
<1>3. at \in Int
  BY <1>1, <1>2
<1>4. Position(sequence, origin, prefix).at = at /\ (Position(sequence, origin, prefix).ok => at >= 0)
  BY DEF Position, a, b, h
<1>. QED
  BY <1>3, <1>4

LEMMA SeenDataStill ==
  ASSUME NEW t, TrackerOK(t), NEW x \in DOMAIN t.conn, NEW dir \in Dirs, NEW left \in Int, NEW right \in Int,
         NEW u, u = SeenData(t, x, dir, left, right)
  PROVE  Still(t, u)
<1> DEFINE c == t.conn[x]
           d == c[dir]
           asCredit == [d EXCEPT !.prefix = d.seenPrefix, !.credited = d.seen]
           after == Credit(asCredit, left, right)
           out == [c EXCEPT !.eligible = FALSE]
           more == [d EXCEPT !.seenPrefix = after.prefix, !.seen = after.credited]
<1>1. c \in ConnRec /\ ConnStep(c, c) /\ d \in Direction
  BY ConnFacts, DirFacts
<1>2. CASE ~CanCredit(asCredit, left, right)
  <2>1. u = SetConn(t, x, out)
    BY <1>2 DEF SeenData, SetConn
  <2>2. ConnStep(c, out)
    BY <1>1 DEF ConnStep, ConnRec
  <2>. QED
    BY <2>1, <2>2, SetConnStill
<1>3. CASE CanCredit(asCredit, left, right)
  <2>1. asCredit \in Direction
    BY <1>1 DEF Direction
  <2>2. after \in Direction
    BY <2>1, CreditFacts DEF DirStep
  <2>3. u = [t EXCEPT !.conn[x][dir].seenPrefix = after.prefix, !.conn[x][dir].seen = after.credited]
    BY <1>3 DEF SeenData
  <2> HIDE DEF after
  <2> DEFINE d1 == [d EXCEPT !.seenPrefix = after.prefix]
             s == SetConn(t, x, WithDir(c, dir, d1))
             e == s.conn[x]
             d2 == [e[dir] EXCEPT !.seen = after.credited]
  <2>4. u = SetConn(s, x, WithDir(e, dir, d2))
    BY <2>3 DEF SetConn, WithDir
  <2>5. DirStep(d, d1) /\ d1.credited = d.credited
    BY <1>1, <2>2 DEF DirStep, Direction, Covered
  <2> HIDE DEF d1
  <2>6. ConnStep(c, WithDir(c, dir, d1))
    BY <1>1, <2>5, WithDirStep
  <2>7. Still(t, s)
    BY <2>6, SetConnStill
  <2> HIDE DEF s
  <2>8. TrackerOK(s) /\ x \in DOMAIN s.conn
    BY <2>7, QuietTracker DEF Still
  <2>9. e \in ConnRec /\ e[dir] \in Direction
    BY <2>8, ConnFacts, DirFacts
  <2>10. DirStep(e[dir], d2) /\ d2.credited = e[dir].credited
    BY <2>2, <2>9 DEF DirStep, Direction, Covered
  <2> HIDE DEF d2
  <2>11. ConnStep(e, WithDir(e, dir, d2))
    BY <2>9, <2>10, WithDirStep
  <2>12. Still(s, u)
    BY <2>4, <2>8, <2>11, SetConnStill
  <2>. QED
    BY <2>7, <2>12, StillTransitive
<1>. QED
  BY <1>2, <1>3

LEMMA PendingDataStill ==
  ASSUME NEW t, TrackerOK(t), NEW x \in DOMAIN t.conn, NEW dir \in Dirs, NEW from \in Nat, NEW right \in Int,
         NEW u, u = PendingData(t, x, dir, from, right)
  PROVE  Still(t, u)
<1> DEFINE c == t.conn[x]
           frozen == [c EXCEPT !.frozen = TRUE]
           d == [c[dir] EXCEPT !.pending = @ \cup Bytes(from, right)]
<1>1. c \in ConnRec /\ ConnStep(c, c) /\ c[dir] \in Direction
  BY ConnFacts, DirFacts
<1>2. CASE ~CanAdd(t.conn[x][dir].pending, from, right)
  <2>1. u = Fallback(SetConn(t, x, frozen), x, TRUE)
    BY <1>2 DEF PendingData, SetConn
  <2>2. ConnStep(c, frozen)
    BY <1>1 DEF ConnStep, ConnRec
  <2>. QED
    BY <2>1, <2>2, SetFallStill
<1>3. CASE CanAdd(t.conn[x][dir].pending, from, right)
  <2>1. u = Flush(SetConn(t, x, WithDir(c, dir, d)), x)
    BY <1>3 DEF PendingData, SetConn, WithDir
  <2>2. c[dir].pending \cup Bytes(from, right) \in Span
    BY <1>1, BytesSpan, SpanUnion DEF Direction
  <2>3. DirStep(c[dir], d) /\ d.credited = c[dir].credited
    <3> DEFINE old == c[dir]
               more == old.pending \cup Bytes(from, right)
    <3>1. old \in Direction /\ more \in Span /\ d = [old EXCEPT !.pending = more]
      BY <1>1, <2>2
    <3> HIDE DEF old, more, d
    <3>2. DirStep(old, d) /\ d.credited = old.credited
      BY <3>1 DEF DirStep, Direction, Covered
    <3>. QED
      BY <3>2 DEF old
  <2> HIDE DEF d
  <2> DEFINE s == SetConn(t, x, WithDir(c, dir, d))
  <2>4. ConnStep(c, WithDir(c, dir, d))
    BY <1>1, <2>3, WithDirStep
  <2>5. Still(t, s)
    BY <2>4, SetConnStill
  <2> HIDE DEF s
  <2>6. TrackerOK(s) /\ x \in DOMAIN s.conn
    BY <2>5, QuietTracker DEF Still
  <2>7. Still(s, u)
    BY <2>1, <2>6, FlushStill DEF s
  <2>. QED
    BY <2>5, <2>7, StillTransitive
<1>. QED
  BY <1>2, <1>3

LEMMA RangeDataStill ==
  ASSUME NEW t, TrackerOK(t), NEW x \in DOMAIN t.conn, NEW dir \in Dirs, NEW left \in Nat, NEW right \in Int,
         NEW u, u = RangeData(t, x, dir, left, right)
  PROVE  Still(t, u)
<1> DEFINE from == Max2(left, t.conn[x][dir].prefix)
<1>1. t.conn[x][dir] \in Direction
  BY ConnFacts, DirFacts
<1>2. from \in Nat
  BY <1>1 DEF Max2, Direction
<1> HIDE DEF from
<1>3. CASE t.conn[x].switched
  <2>1. u = PendingData(t, x, dir, from, right)
    BY <1>3 DEF RangeData, from
  <2>. QED
    BY <1>2, <2>1, PendingDataStill
<1>4. CASE ~t.conn[x].switched
  <2>1. u = SeenData(t, x, dir, left, right)
    BY <1>4 DEF RangeData
  <2>. QED
    BY <2>1, SeenDataStill
<1>. QED
  BY <1>3, <1>4

LEMMA ProofDataStill ==
  ASSUME NEW t, TrackerOK(t), NEW e \in ProofRec, NEW x \in DOMAIN t.conn, NEW u, u = ProofData(t, e, x)
  PROVE  Still(t, u)
<1> DEFINE c == t.conn[x]
           dir == IF e.kind = "send" THEN "tx" ELSE "rx"
           have == IF e.kind = "send" THEN c.haveSend ELSE c.haveReceive
           origin == IF e.kind = "send" THEN c.sendOrigin ELSE c.receiveOrigin
           prefix == IF c.switched THEN c[dir].prefix ELSE c[dir].seenPrefix
           left == Position(e.seq, origin, prefix)
           d == [c[dir] EXCEPT !.highest = Max2(@, left.at + e.bytes)]
<1>1. c \in ConnRec /\ ConnStep(c, c) /\ dir \in Dirs /\ origin \in Nat /\ e.seq \in Nat /\ e.bytes \in Nat
  BY ConnFacts DEF ConnRec, ProofRec, Dirs
<1>2. c[dir] \in Direction
  BY <1>1, DirFacts
<1>3. prefix \in Nat
  BY <1>2 DEF Direction
<1> DEFINE range == RangeData([t EXCEPT !.conn[x][dir].highest = Max2(@, left.at + e.bytes)],
                              x, dir, left.at, left.at + e.bytes)
<1>7. u = (IF (c.closed # 0 /\ e.time >= c.closed) \/ e.bytes = 0 \/ c.frozen THEN t
           ELSE IF ~have \/ ~left.ok THEN RejectFrozen(t, x) ELSE range)
  BY DEF ProofData
<1> HIDE DEF dir, origin, prefix
<1>5. left.ok => left.at \in Nat
  BY <1>1, <1>3, PositionInt
<1> HIDE DEF left, have, range
<1>4. \/ u = t
      \/ u = RejectFrozen(t, x)
      \/ left.ok /\ u = RangeData([t EXCEPT !.conn[x][dir].highest = Max2(@, left.at + e.bytes)],
                                  x, dir, left.at, left.at + e.bytes)
  BY <1>7 DEF range
<1>6. CASE left.ok /\ u = RangeData([t EXCEPT !.conn[x][dir].highest = Max2(@, left.at + e.bytes)],
                                    x, dir, left.at, left.at + e.bytes)
  <2> DEFINE s == SetConn(t, x, WithDir(c, dir, d))
  <2>1. u = RangeData(s, x, dir, left.at, left.at + e.bytes)
    BY <1>6 DEF SetConn, WithDir
  <2>2. DirStep(c[dir], d) /\ d.credited = c[dir].credited
    <3> DEFINE old == c[dir]
               high == Max2(old.highest, left.at + e.bytes)
    <3>1. old \in Direction /\ high \in Nat /\ d = [old EXCEPT !.highest = high]
      BY <1>1, <1>2, <1>5, <1>6 DEF Direction, Max2
    <3> HIDE DEF old, high, d
    <3>2. DirStep(old, d) /\ d.credited = old.credited
      BY <3>1 DEF DirStep, Direction, Covered
    <3>. QED
      BY <3>2 DEF old
  <2> HIDE DEF d
  <2>3. ConnStep(c, WithDir(c, dir, d))
    BY <1>1, <2>2, WithDirStep
  <2>4. Still(t, s)
    BY <2>3, SetConnStill
  <2> HIDE DEF s
  <2>5. TrackerOK(s) /\ x \in DOMAIN s.conn
    BY <2>4, QuietTracker DEF Still
  <2>6. left.at \in Nat /\ left.at + e.bytes \in Int
    BY <1>1, <1>5, <1>6
  <2>7. Still(s, u)
    BY <1>1, <2>1, <2>5, <2>6, RangeDataStill
  <2>. QED
    BY <2>4, <2>7, StillTransitive
<1>. QED
  BY <1>4, <1>6, StillReflexive, RejectStill

LEMMA ProofFinStill ==
  ASSUME NEW t, TrackerOK(t), NEW e \in ProofRec, NEW x \in DOMAIN t.conn, NEW u, u = ProofFin(t, e, x)
  PROVE  Still(t, u)
<1> DEFINE c == t.conn[x]
           position == Position(e.seq, c.receiveOrigin, c.rx.prefix)
           fin == [c EXCEPT !.haveFin = TRUE, !.rxFin = position.at - 1]
<1>1. c \in ConnRec /\ ConnStep(c, c) /\ c.receiveOrigin \in Nat /\ e.seq \in Nat /\ c.rx.prefix \in Nat
  BY ConnFacts DEF ConnRec, ProofRec, Direction
<1>2. position.ok => position.at \in Nat
  BY <1>1, PositionInt
<1> HIDE DEF position
<1>3. CASE ~position.ok \/ position.at = 0 \/ position.at - 1 < c.rx.prefix
  BY <1>3, RejectStill DEF ProofFin, position
<1>4. CASE ~(~position.ok \/ position.at = 0 \/ position.at - 1 < c.rx.prefix)
  <2>1. position.at - 1 \in Nat
    BY <1>2, <1>4
  <2>2. u = Fallback([t EXCEPT !.conn[x].haveFin = TRUE, !.conn[x].rxFin = position.at - 1], x, FALSE)
    BY <1>4 DEF ProofFin, position
  <2>3. [t EXCEPT !.conn[x].haveFin = TRUE, !.conn[x].rxFin = position.at - 1] = SetConn(t, x, fin)
    <3>1. t \in Tracker
      BY DEF TrackerOK
    <3>. QED
      BY <1>1, <3>1 DEF SetConn, Tracker, ConnRec
  <2>4. ConnStep(c, fin)
    BY <1>1, <2>1 DEF ConnStep, ConnRec
  <2> HIDE DEF fin
  <2>. QED
    BY <2>2, <2>3, <2>4, SetFallStill
<1>. QED
  BY <1>3, <1>4

(* Readings of a switched connection.                                      *)
LEMMA ConfirmStill ==
  ASSUME NEW t, TrackerOK(t), NEW x \in DOMAIN t.conn, NEW s, s.received \in Nat, NEW u, u = Confirm(t, x, s)
  PROVE  Still(t, u)
<1> DEFINE c == t.conn[x]
           received == Received(c, s)
           d == [c.rx EXCEPT !.confirmed = Max2(@, received)]
<1>1. c \in ConnRec /\ ConnStep(c, c) /\ c.rx \in Direction
  BY ConnFacts DEF ConnRec
<1>2. c.rx.confirmed \in Nat /\ received \in Int
  BY <1>1 DEF Direction, ConnRec, Received
<1> HIDE DEF received
<1>3. CASE ~(c.switched /\ ReceivePosition(c, s) /\ received >= c.rx.prefix)
  BY <1>3, StillReflexive DEF Confirm, received
<1>4. CASE c.switched /\ ReceivePosition(c, s) /\ received >= c.rx.prefix
  <2>1. u = SetConn(t, x, [c EXCEPT !.rx = d])
    BY <1>4 DEF Confirm, SetConn, received
  <2>2. DirStep(c.rx, d) /\ d.credited = c.rx.credited /\ d \in Direction
    BY <1>1, <1>2 DEF DirStep, Direction, Covered, Max2
  <2> HIDE DEF d
  <2>3. ConnStep(c, [c EXCEPT !.rx = d])
    BY <1>1, <2>2 DEF ConnStep, ConnRec
  <2>. QED
    BY <2>1, <2>3, SetConnStill
<1>. QED
  BY <1>3, <1>4

ReadingTypes(s) ==
  /\ s.received \in Nat /\ s.acked \in Nat /\ s.una \in Nat /\ s.maximum \in Nat /\ s.rcvNext \in Nat
  /\ s.rx \in Nat /\ s.tx \in Nat /\ s.end \in Nat /\ s.begin \in Nat /\ s.generation \in Nat /\ s.created \in Nat

LEMMA ObserveActiveQuiet ==
  ASSUME NEW t, TrackerOK(t), NEW x \in DOMAIN t.conn, t.conn[x].switched, t.conn[x].state = "active",
         NEW s, ReadingTypes(s), NEW u, u = ObserveActive(t, x, s)
  PROVE  Still(t, u)
<1> DEFINE c == t.conn[x]
           rx == Received(c, s)
           tx == Sent(c, s)
           newRx == [c.rx EXCEPT !.prefix = rx, !.confirmed = rx, !.pending = {p \in @ : p >= rx}]
           newTx == [c.tx EXCEPT !.prefix = tx, !.pending = {p \in @ : p >= tx}]
           after == [c EXCEPT !.rx = newRx, !.tx = newTx, !.readEnd = s.end, !.lastRx = s.rx, !.lastTx = s.tx]
           bytesRx == Bytes(c.rx.prefix, rx)
           bytesTx == Bytes(c.tx.prefix, tx)
<1>1. c \in ConnRec /\ ConnStep(c, c) /\ c.rx \in Direction /\ c.tx \in Direction
  BY ConnFacts DEF ConnRec
<1>2. /\ c.rx.prefix \in Nat /\ c.tx.prefix \in Nat /\ c.rx.pending \in Span /\ c.tx.pending \in Span
      /\ c.rx.credited = {} /\ c.tx.credited = {}
  BY <1>1 DEF Direction, TrackerOK
<1>3. rx \in Int /\ tx \in Int
  <2>1. s.received \in Int /\ s.acked \in Int /\ s.maximum \in Int /\ s.una \in Int
    BY DEF ReadingTypes
  <2>4. Cycle \in Nat \ {0}
    BY TcpPathsAssumption
  <2>2. (s.maximum - s.una) % Cycle \in Int
    BY <2>1, <2>4
  <2>3. c.rxOffset \in Int /\ c.txOffset \in Int
    BY <1>1 DEF ConnRec
  <2>. QED
    BY <2>1, <2>2, <2>3 DEF Received, Sent, InFlight
<1>4. CASE ~Advance(t, c, s)
  BY <1>4, FallbackStill DEF ObserveActive
<1>5. CASE Advance(t, c, s)
  <2>1. rx >= c.rx.prefix /\ tx >= c.tx.prefix
    BY <1>5 DEF Advance
  <2>2. u = Pay(SetConn(t, x, after), c, bytesRx, bytesTx)
    <3>1. ObserveActive(t, x, s) = (IF ~Advance(t, c, s) THEN Fallback(t, x, TRUE)
                                    ELSE Pay([t EXCEPT !.conn[x] = after], c, bytesRx, bytesTx))
      BY Zenon DEF ObserveActive
    <3> HIDE DEF after, bytesRx, bytesTx
    <3>. QED
      BY <1>5, <3>1 DEF SetConn
  <2> HIDE DEF rx, tx
  <2> DEFINE restRx == {p \in c.rx.pending : p >= rx}
             restTx == {p \in c.tx.pending : p >= tx}
  <2>3. restRx \in Span /\ restTx \in Span
    <3>1. restRx \in SUBSET c.rx.pending /\ restTx \in SUBSET c.tx.pending
      OBVIOUS
    <3>. QED
      BY <1>2, <3>1, SpanSubset
  <2>14. newRx = [c.rx EXCEPT !.prefix = rx, !.confirmed = rx, !.pending = restRx]
         /\ newTx = [c.tx EXCEPT !.prefix = tx, !.pending = restTx]
    BY Zenon
  <2> HIDE DEF restRx, restTx, newRx, newTx
  <2>15. rx \in Nat /\ tx \in Nat
    BY <1>2, <1>3, <2>1
  <2>4. newRx \in Direction /\ newRx.prefix = rx /\ newRx.credited = {}
    <3> DEFINE old == c.rx
    <3>1. old \in Direction /\ newRx = [old EXCEPT !.prefix = rx, !.confirmed = rx, !.pending = restRx]
      BY <1>1, <2>14
    <3> HIDE DEF old
    <3>2. newRx \in Direction /\ newRx.prefix = rx /\ newRx.credited = old.credited
      BY <2>3, <2>15, <3>1 DEF Direction
    <3>3. old.credited = {}
      BY <1>2 DEF old
    <3>. QED
      BY <3>2, <3>3
  <2>5. newTx \in Direction /\ newTx.prefix = tx /\ newTx.credited = {}
    <3> DEFINE old == c.tx
    <3>1. old \in Direction /\ newTx = [old EXCEPT !.prefix = tx, !.pending = restTx]
      BY <1>1, <2>14
    <3> HIDE DEF old
    <3>2. newTx \in Direction /\ newTx.prefix = tx /\ newTx.credited = old.credited
      BY <2>3, <2>15, <3>1 DEF Direction
    <3>3. old.credited = {}
      BY <1>2 DEF old
    <3>. QED
      BY <3>2, <3>3
  <2>6. DirStep(c.rx, newRx) /\ DirStep(c.tx, newTx)
    BY <1>2, <1>3, <2>1, <2>4, <2>5 DEF DirStep, Covered
  <2>7. ConnStep(c, after) /\ after.rx = newRx /\ after.tx = newTx
    BY <1>1, <1>2, <2>4, <2>5, <2>6 DEF ConnStep, ConnRec, ReadingTypes
  <2> HIDE DEF after
  <2>8. bytesRx \in SUBSET Nat /\ bytesRx \cap Covered(c.rx) = {} /\ bytesRx \subseteq Covered(after.rx)
    BY <1>2, <1>3, <2>1, <2>4, <2>7 DEF Covered, Bytes
  <2>9. bytesTx \in SUBSET Nat /\ bytesTx \cap Covered(c.tx) = {} /\ bytesTx \subseteq Covered(after.tx)
    BY <1>2, <1>3, <2>1, <2>5, <2>7 DEF Covered, Bytes
  <2> HIDE DEF bytesRx, bytesTx
  <2> DEFINE z == SetConn(t, x, after)
  <2>10. z = SetConn(t, x, after)
    OBVIOUS
  <2>11. Still(t, z)
    BY <2>7, SetConnStill
  <2> HIDE DEF z
  <2>12. u = Pay(z, c, bytesRx, bytesTx)
    BY <2>2, <2>10
  <2>13. Quiet(t, u) /\ u.conn = z.conn /\ u.alias = t.alias /\ u.legacy = t.legacy
    BY <2>7, <2>8, <2>9, <2>10, <2>12, PayQuiet
  <2>. QED
    BY <2>11, <2>13 DEF Still
<1>. QED
  BY <1>4, <1>5

(* Folds over connections.                                                 *)
LEMMA FallPath ==
  ASSUME NEW t, NEW xs, NEW n \in Nat, DOMAIN SetToSeq(xs) = 1 .. n
  PROVE  \E u : Path("fall", 0, t, SetToSeq(xs), n, u) /\ FallAll(t, xs) = u[n]
<1> DEFINE seq == SetToSeq(xs)
           Fits(f) == f = [s \in SUBSET (1 .. n) |->
                            IF s = {} THEN t ELSE Fallback(f[s \ {Max(s)}], seq[Max(s)], TRUE)]
           table == CHOOSE f : Fits(f)
<1>1. PICK f : Table("fall", 0, t, seq, n, f)
  BY TableExists
<1>2. ASSUME NEW a, NEW e PROVE Turn("fall", 0, a, e) = Fallback(a, e, TRUE)
  BY DEF Turn
<1>3. ASSUME NEW g PROVE Fits(g) <=> Table("fall", 0, t, seq, n, g)
  BY <1>2 DEF Table
<1>4. FallAll(t, xs) = table[1 .. n]
  BY DEF FallAll, FoldLeft, MapThenFoldSet
<1> HIDE DEF Fits
<1>5. Fits(table)
  BY <1>1, <1>3
<1> HIDE DEF table
<1>6. PICK u : Path("fall", 0, t, seq, n, u) /\ table[1 .. n] = u[n]
  BY <1>3, <1>5, TablePath
<1>. QED
  BY <1>4, <1>6

LEMMA DropPath ==
  ASSUME NEW t, NEW xs, NEW n \in Nat, DOMAIN SetToSeq(xs) = 1 .. n
  PROVE  \E u : Path("drop", 0, t, SetToSeq(xs), n, u) /\ DropAll(t, xs) = u[n]
<1> DEFINE seq == SetToSeq(xs)
           Fits(f) == f = [s \in SUBSET (1 .. n) |->
                            IF s = {} THEN t ELSE DropConnection(Fallback(f[s \ {Max(s)}], seq[Max(s)], TRUE), seq[Max(s)])]
           table == CHOOSE f : Fits(f)
<1>1. PICK f : Table("drop", 0, t, seq, n, f)
  BY TableExists
<1>2. ASSUME NEW a, NEW e PROVE Turn("drop", 0, a, e) = DropConnection(Fallback(a, e, TRUE), e)
  BY DEF Turn
<1>3. ASSUME NEW g PROVE Fits(g) <=> Table("drop", 0, t, seq, n, g)
  BY <1>2 DEF Table
<1>4. DropAll(t, xs) = table[1 .. n]
  BY DEF DropAll, FoldLeft, MapThenFoldSet
<1> HIDE DEF Fits
<1>5. Fits(table)
  BY <1>1, <1>3
<1> HIDE DEF table
<1>6. PICK u : Path("drop", 0, t, seq, n, u) /\ table[1 .. n] = u[n]
  BY <1>3, <1>5, TablePath
<1>. QED
  BY <1>4, <1>6

LEMMA FreezePath ==
  ASSUME NEW t, NEW xs, NEW n \in Nat, DOMAIN SetToSeq(xs) = 1 .. n
  PROVE  \E u : Path("freeze", 0, t, SetToSeq(xs), n, u) /\ FreezeAll(t, xs) = u[n]
<1> DEFINE seq == SetToSeq(xs)
           Fits(f) == f = [s \in SUBSET (1 .. n) |->
                            IF s = {} THEN t ELSE Freeze(f[s \ {Max(s)}], seq[Max(s)])]
           table == CHOOSE f : Fits(f)
<1>1. PICK f : Table("freeze", 0, t, seq, n, f)
  BY TableExists
<1>2. ASSUME NEW a, NEW e PROVE Turn("freeze", 0, a, e) = Freeze(a, e)
  BY DEF Turn
<1>3. ASSUME NEW g PROVE Fits(g) <=> Table("freeze", 0, t, seq, n, g)
  BY <1>2 DEF Table
<1>4. FreezeAll(t, xs) = table[1 .. n]
  BY DEF FreezeAll, FoldLeft, MapThenFoldSet
<1> HIDE DEF Fits
<1>5. Fits(table)
  BY <1>1, <1>3
<1> HIDE DEF table
<1>6. PICK u : Path("freeze", 0, t, seq, n, u) /\ table[1 .. n] = u[n]
  BY <1>3, <1>5, TablePath
<1>. QED
  BY <1>4, <1>6

LEMMA SetToSeqDistinct ==
  ASSUME NEW S, IsFiniteSet(S)
  PROVE  \A i, j \in 1 .. Cardinality(S) : SetToSeq(S)[i] = SetToSeq(S)[j] => i = j
<1>1. ExistsBijection(1 .. Cardinality(S), S)
  BY FS_CardinalityType
<1>2. \E f \in [1 .. Cardinality(S) -> S] : IsInjective(f)
  BY <1>1 DEF ExistsBijection, Bijection, Injection, IsInjective
<1>3. IsInjective(SetToSeq(S)) /\ DOMAIN SetToSeq(S) = 1 .. Cardinality(S)
  BY <1>2 DEF SetToSeq
<1>. QED
  BY <1>3 DEF IsInjective

LEMMA ConnsFinite ==
  ASSUME NEW t, TrackerOK(t), NEW xs \in SUBSET DOMAIN t.conn
  PROVE  IsFiniteSet(xs)
<1>1. DOMAIN t.conn \in SUBSET Tcb
  BY ConnFacts
<1>. QED
  BY <1>1, FS_Subset, TcpPathsAssumption

LEMMA FallAllStill ==
  ASSUME NEW t, TrackerOK(t), NEW xs \in SUBSET DOMAIN t.conn, NEW v, v = FallAll(t, xs)
  PROVE  Still(t, v)
<1> DEFINE n == Cardinality(xs)
           seq == SetToSeq(xs)
<1>1. n \in Nat /\ seq \in [1 .. n -> xs] /\ DOMAIN seq = 1 .. n
  BY ConnsFinite, SetToSeqFacts
<1>2. PICK u : Path("fall", 0, t, seq, n, u) /\ FallAll(t, xs) = u[n]
  BY <1>1, FallPath
<1> HIDE DEF n, seq
<1> DEFINE Bad == {i \in 0 .. n : ~Still(t, u[i])}
<1>3. SUFFICES ASSUME Bad # {} PROVE FALSE
  BY <1>1, <1>2
<1>4. PICK i \in Bad : \A j \in Bad : i <= j
  <2>1. Bad \in SUBSET Nat
    BY <1>1
  <2>. QED
    BY <1>3, <2>1, LeastNat
<1>5. u[0] = t /\ Still(t, t)
  BY <1>2, StillReflexive DEF Path
<1>6. i \in 1 .. n /\ i - 1 \in 0 .. n /\ i - 1 \notin Bad
  BY <1>1, <1>4, <1>5
<1>7. Still(t, u[i - 1])
  BY <1>6
<1>8. TrackerOK(u[i - 1]) /\ seq[i] \in DOMAIN u[i - 1].conn
  BY <1>1, <1>6, <1>7, QuietTracker DEF Still
<1>9. u[i] = Fallback(u[i - 1], seq[i], TRUE)
  BY <1>2, <1>6 DEF Path, Turn
<1>10. Still(u[i - 1], u[i])
  BY <1>8, <1>9, FallbackStill
<1>11. Still(t, u[i])
  BY <1>7, <1>10, StillTransitive
<1>. QED
  BY <1>4, <1>11

LEMMA FreezeAllStill ==
  ASSUME NEW t, TrackerOK(t), NEW xs \in SUBSET DOMAIN t.conn, NEW v, v = FreezeAll(t, xs)
  PROVE  Still(t, v)
<1> DEFINE n == Cardinality(xs)
           seq == SetToSeq(xs)
<1>1. n \in Nat /\ seq \in [1 .. n -> xs] /\ DOMAIN seq = 1 .. n
  BY ConnsFinite, SetToSeqFacts
<1>2. PICK u : Path("freeze", 0, t, seq, n, u) /\ FreezeAll(t, xs) = u[n]
  BY <1>1, FreezePath
<1> HIDE DEF n, seq
<1> DEFINE Bad == {i \in 0 .. n : ~Still(t, u[i])}
<1>3. SUFFICES ASSUME Bad # {} PROVE FALSE
  BY <1>1, <1>2
<1>4. PICK i \in Bad : \A j \in Bad : i <= j
  <2>1. Bad \in SUBSET Nat
    BY <1>1
  <2>. QED
    BY <1>3, <2>1, LeastNat
<1>5. u[0] = t /\ Still(t, t)
  BY <1>2, StillReflexive DEF Path
<1>6. i \in 1 .. n /\ i - 1 \in 0 .. n /\ i - 1 \notin Bad
  BY <1>1, <1>4, <1>5
<1>7. Still(t, u[i - 1])
  BY <1>6
<1>8. TrackerOK(u[i - 1]) /\ seq[i] \in DOMAIN u[i - 1].conn
  BY <1>1, <1>6, <1>7, QuietTracker DEF Still
<1>9. u[i] = Freeze(u[i - 1], seq[i])
  BY <1>2, <1>6 DEF Path, Turn
<1>10. Still(u[i - 1], u[i])
  BY <1>8, <1>9, FreezeStill
<1>11. Still(t, u[i])
  BY <1>7, <1>10, StillTransitive
<1>. QED
  BY <1>4, <1>11

LEMMA DropAllQuiet ==
  ASSUME NEW t, TrackerOK(t), NEW xs \in SUBSET DOMAIN t.conn, NEW v, v = DropAll(t, xs)
  PROVE  Quiet(t, v)
<1> DEFINE n == Cardinality(xs)
           seq == SetToSeq(xs)
<1>1. /\ n \in Nat /\ seq \in [1 .. n -> xs] /\ DOMAIN seq = 1 .. n
      /\ \A i, j \in 1 .. n : seq[i] = seq[j] => i = j
  BY ConnsFinite, SetToSeqFacts, SetToSeqDistinct
<1>2. PICK u : Path("drop", 0, t, seq, n, u) /\ DropAll(t, xs) = u[n]
  BY <1>1, DropPath
<1> HIDE DEF n, seq
<1> DEFINE Fine(i) == Quiet(t, u[i]) /\ \A j \in 1 .. n : i < j => seq[j] \in DOMAIN u[i].conn
           Bad == {i \in 0 .. n : ~Fine(i)}
<1>3. SUFFICES ASSUME Bad # {} PROVE FALSE
  BY <1>1, <1>2
<1>4. PICK i \in Bad : \A j \in Bad : i <= j
  <2>1. Bad \in SUBSET Nat
    BY <1>1
  <2>. QED
    BY <1>3, <2>1, LeastNat
<1>5. Fine(0)
  <2>1. u[0] = t /\ Quiet(t, t)
    BY <1>2, QuietReflexive DEF Path
  <2>. QED
    BY <1>1, <2>1
<1>6. i \in 1 .. n /\ i - 1 \in 0 .. n /\ i - 1 \notin Bad
  BY <1>1, <1>4, <1>5
<1>7. Fine(i - 1)
  BY <1>6
<1> DEFINE w == u[i - 1]
           f == Fallback(w, seq[i], TRUE)
<1>8. TrackerOK(w) /\ seq[i] \in DOMAIN w.conn
  BY <1>1, <1>6, <1>7, QuietTracker
<1>9. u[i] = DropConnection(f, seq[i])
  BY <1>2, <1>6 DEF Path, Turn
<1>10. Still(w, f)
  BY <1>8, FallbackStill
<1> HIDE DEF f
<1>11. TrackerOK(f) /\ seq[i] \in DOMAIN f.conn
  BY <1>8, <1>10, QuietTracker DEF Still
<1>12. Quiet(f, u[i]) /\ DOMAIN u[i].conn = DOMAIN f.conn \ {seq[i]}
  BY <1>9, <1>11, DropConnectionQuiet
<1>13. Quiet(t, f)
  BY <1>7, <1>10, QuietTransitive DEF Still
<1>14. Quiet(t, u[i])
  BY <1>12, <1>13, QuietTransitive
<1>15. ASSUME NEW j \in 1 .. n, i < j PROVE seq[j] \in DOMAIN u[i].conn
  <2>1. i - 1 < j /\ seq[j] # seq[i]
    BY <1>1, <1>6, <1>15
  <2>2. seq[j] \in DOMAIN w.conn
    BY <1>7, <2>1
  <2>. QED
    BY <1>10, <1>12, <2>1, <2>2 DEF Still
<1>16. Fine(i)
  BY <1>14, <1>15
<1>. QED
  BY <1>4, <1>16

LEMMA SetHealthStill ==
  ASSUME NEW t, TrackerOK(t), NEW healthy \in BOOLEAN, NEW time \in Nat, NEW legacyHealthy \in BOOLEAN,
         NEW v, v = SetHealth(t, healthy, time, legacyHealthy)
  PROVE  Still(t, v)
<1> DEFINE t1 == [t EXCEPT !.healthy = healthy, !.legacyClock = time, !.legacyHealthy = legacyHealthy]
           hit == {x \in DOMAIN t.conn : t.conn[x].switched /\ ~t.conn[x].frozen}
<1>1. t \in Tracker
  BY DEF TrackerOK
<1>2. t1 \in Tracker /\ t1.conn = t.conn /\ t1.alias = t.alias /\ t1.legacy = t.legacy
      /\ t1.window = t.window /\ t1.generation = t.generation /\ t1.retiredBefore = t.retiredBefore
      /\ t1.mistaken = t.mistaken /\ t1.paid = t.paid
  BY <1>1 DEF Tracker
<1>3. v = IF healthy /\ time = 1 THEN t1 ELSE FreezeAll(t1, hit)
  BY DEF SetHealth
<1> HIDE DEF t1
<1>4. Still(t, t1)
  BY <1>2, PlainQuiet DEF Still
<1>5. TrackerOK(t1) /\ hit \in SUBSET DOMAIN t1.conn
  BY <1>2, <1>4, QuietTracker DEF Still
<1>6. Still(t1, FreezeAll(t1, hit))
  BY <1>5, FreezeAllStill
<1>. QED
  BY <1>3, <1>4, <1>6, StillTransitive

(* The invariant of the tracker with what is on its way to it.  It is kept *)
(* by quiet operations, and when less is on its way.                       *)
OK(t, queue, late, bag) == TrackerOK(t) /\ Joint(t, queue, late, bag) /\ bag \in Partial(Slice, {1})
Sub(a, b) == \A i \in DOMAIN a : \E j \in DOMAIN b : a[i] = b[j]

LEMMA QuietOK ==
  ASSUME NEW t, NEW queue, NEW late, NEW bag, OK(t, queue, late, bag), NEW u, Quiet(t, u)
  PROVE  OK(u, queue, late, bag)
  BY QuietTracker, QuietJoint DEF OK

LEMMA StillOK ==
  ASSUME NEW t, NEW queue, NEW late, NEW bag, OK(t, queue, late, bag), NEW u, Still(t, u)
  PROVE  OK(u, queue, late, bag)
  BY QuietOK DEF Still

LEMMA FewerOK ==
  ASSUME NEW t, NEW queue, NEW late, NEW bag, OK(t, queue, late, bag), NEW q, Sub(q, queue), NEW l, Sub(l, late)
  PROVE  OK(t, q, l, bag)
<1>1. Joint(t, queue, late, bag)
  BY DEF OK
<1>2. Connects(t, q)
  BY <1>1 DEF Joint, Connects, Sub
<1>3. GuardOK(t, l)
  BY <1>1 DEF Joint, GuardOK, Sub
<1>4. OriginsOK(t, q)
  <2>1. ASSUME NEW L, ~Established(queue, L) PROVE ~Established(q, L)
    BY <2>1 DEF Established, Sub
  <2>. QED
    BY <1>1, <2>1 DEF Joint, OriginsOK, OriginOK
<1>5. MarkersOK(t, l)
  BY <1>1 DEF Joint, MarkersOK, MarkerOK, Sub
<1>6. ProbesOK(t, l)
  BY <1>1 DEF Joint, ProbesOK, ProbeOK, Sub
<1>. QED
  BY <1>1, <1>2, <1>3, <1>4, <1>5, <1>6 DEF Joint, OK

LEMMA BagOK ==
  ASSUME NEW t, NEW queue, NEW late, NEW bag, OK(t, queue, late, bag), NEW b \in Partial(Slice, {1}), DOMAIN b = DOMAIN bag
  PROVE  OK(t, queue, late, b)
<1>1. Joint(t, queue, late, bag)
  BY DEF OK
<1>2. BelowPrefix(t, b)
  BY <1>1 DEF Joint, BelowPrefix
<1>3. TotalsOK(t, b)
  BY <1>1 DEF Joint, TotalsOK, TotalOK
<1>. QED
  BY <1>1, <1>2, <1>3 DEF Joint, OK

-----------------------------------------------------------------------------
(* Windows change, and nothing else that matters.                          *)
Apart4(t, u) ==
  /\ u \in Tracker /\ u.conn = t.conn /\ u.alias = t.alias /\ u.legacy = t.legacy /\ u.generation = t.generation
  /\ u.paid = t.paid /\ u.mistaken = t.mistaken

LEMMA WindowsOK ==
  ASSUME NEW t, NEW queue, NEW late, NEW bag, OK(t, queue, late, bag), NEW u, Apart4(t, u), IsFiniteSet(u.window),
         \A w \in u.window : \E v \in t.window : w.generation = v.generation /\ w.begin = v.begin,
         GuardOK(u, late)
  PROVE  OK(u, queue, late, bag)
<1>1. TrackerOK(u)
  BY DEF OK, TrackerOK, Apart4
<1>2. Joint(t, queue, late, bag)
  BY DEF OK
<1>3. ConnsOK(u) /\ Connects(u, queue) /\ BelowPrefix(u, bag)
  BY <1>2 DEF Apart4, Joint, ConnsOK, Connects, BelowPrefix
<1>4. OriginsOK(u, queue) /\ MarkersOK(u, late)
  BY <1>2 DEF Apart4, Joint, OriginsOK, MarkersOK
<1>5. ProbesOK(u, late) /\ TotalsOK(u, bag)
  BY <1>2 DEF Apart4, Joint, ProbesOK, TotalsOK
<1>. QED
  BY <1>1, <1>3, <1>4, <1>5 DEF Joint, OK

\* The lives whose windows a close may end are over, and their late events came before it.
Spare(t, key, counter, gen, late) ==
  \A L \in Claimed(t) \ t.mistaken :
    /\ L \in DOMAIN flows /\ flows[L].key = key /\ L < counter
    /\ gen = 0 \/ \E w \in t.window : w.begin = L /\ w.generation = gen
    => ~Up(L) /\ \A i \in DOMAIN late : late[i].life = L /\ Data(late[i]) => late[i].time < counter
Timed(late) ==
  \A i \in DOMAIN late : late[i].life \in DOMAIN flows /\ late[i].key = flows[late[i].life].key /\ late[i].time \in Nat

LEMMA ClaimedInt ==
  ASSUME NEW t \in Tracker
  PROVE  \A L \in Claimed(t) : L \in Nat
<1>1. \A x \in DOMAIN t.conn : t.conn[x].life \in Nat
  BY TrackerFields DEF ConnRec
<1>2. \A b \in DOMAIN t.paid : b[1] \in Nat
  BY TrackerFields DEF Slice
<1>. QED
  BY <1>1, <1>2 DEF Claimed

LEMMA CloseWindowsOK ==
  ASSUME NEW t, NEW queue, NEW late, NEW bag, OK(t, queue, late, bag), ConnsOK(t),
         NEW key, NEW counter \in Nat, NEW gen, Spare(t, key, counter, gen, late), Timed(late),
         NEW u, u = CloseWindows(t, key, counter, gen)
  PROVE  OK(u, queue, late, bag) /\ Apart4(t, u)
<1> DEFINE End(w) == IF w.key = key /\ counter > w.begin /\ (gen = 0 \/ w.generation = gen) THEN Ended(w, counter) ELSE w
           after == {End(w) : w \in t.window}
<1>1. t \in Tracker /\ t.window \in SUBSET Window /\ IsFiniteSet(t.window)
  BY DEF OK, TrackerOK, Tracker
<1>2. ASSUME NEW w \in Window
      PROVE  /\ End(w) \in Window /\ End(w).key = w.key /\ End(w).begin = w.begin /\ End(w).generation = w.generation
             /\ \/ End(w) = w
                \/ /\ w.key = key /\ counter > w.begin /\ (gen = 0 \/ w.generation = gen)
                   /\ End(w).end = counter \/ (w.end # 0 /\ End(w).end = w.end)
  <2>1. Ended(w, counter) \in Window /\ Ended(w, counter).key = w.key /\ Ended(w, counter).begin = w.begin
        /\ Ended(w, counter).generation = w.generation
        /\ (Ended(w, counter).end = counter \/ (w.end # 0 /\ Ended(w, counter).end = w.end))
    BY <1>2 DEF Ended, Min2, Window
  <2>. QED
    BY <1>2, <2>1
<1>3. u = [t EXCEPT !.window = after]
  BY DEF CloseWindows
<1> HIDE DEF End
<1>4. after \in SUBSET Window /\ IsFiniteSet(after)
  <2>1. IsFiniteSet(after)
    <3> DEFINE f == [w \in t.window |-> End(w)]
    <3>1. f \in Surjection(t.window, after)
      BY DEF Surjection
    <3>. QED
      BY <1>1, <3>1, FS_Surjection
  <2>. QED
    BY <1>1, <1>2, <2>1
<1> HIDE DEF after
<1>5. Apart4(t, u) /\ u.window = after /\ u.retiredBefore = t.retiredBefore
  BY <1>1, <1>3, <1>4 DEF Tracker, Apart4
<1>6. \A w \in u.window : \E v \in t.window : w.generation = v.generation /\ w.begin = v.begin
  BY <1>1, <1>2, <1>5 DEF after
<1>7. GuardOK(u, late)
  <2>1. GuardOK(t, late)
    BY DEF OK, Joint
  <2>2. Claimed(u) = Claimed(t) /\ u.mistaken = t.mistaken
    BY <1>5 DEF Claimed, Apart4
  <2>3. SUFFICES ASSUME NEW L \in Claimed(t) \ t.mistaken
                 PROVE  /\ \A i \in DOMAIN late : late[i].life = L /\ Data(late[i]) => Guarded(u, L, late[i])
                        /\ Up(L) => \E w \in u.window : w.key = flows[L].key /\ w.begin = L /\ w.end = 0
    BY <2>1, <2>2 DEF GuardOK
  <2>4. L \in Nat
    BY <1>1, ClaimedInt
  <2>5. ASSUME NEW i \in DOMAIN late, late[i].life = L, Data(late[i]) PROVE Guarded(u, L, late[i])
    <3>1. Guarded(t, L, late[i]) /\ late[i].key = flows[L].key /\ late[i].time \in Nat /\ L \in DOMAIN flows
      BY <2>1, <2>5 DEF GuardOK, Timed
    <3>2. CASE late[i].time < t.retiredBefore
      BY <1>5, <3>2 DEF Guarded
    <3>3. CASE \E w \in t.window : w.key = late[i].key /\ w.begin = L /\ (w.end = 0 \/ late[i].time < w.end)
      <4>1. PICK w \in t.window : w.key = late[i].key /\ w.begin = L /\ (w.end = 0 \/ late[i].time < w.end)
        BY <3>3
      <4>2. w \in Window /\ End(w) \in u.window /\ w.end \in Nat
        BY <1>1, <1>5 DEF after, Window
      <4>3. late[i].time < End(w).end \/ End(w) = w
        <5>1. CASE /\ w.key = key /\ counter > w.begin /\ (gen = 0 \/ w.generation = gen)
                   /\ End(w).end = counter \/ (w.end # 0 /\ End(w).end = w.end)
          <6>1. flows[L].key = key /\ L < counter /\ (gen = 0 \/ \E v \in t.window : v.begin = L /\ v.generation = gen)
            BY <2>4, <3>1, <4>1, <5>1
          <6>2. late[i].time < counter
            BY <2>5, <3>1, <6>1 DEF Spare
          <6>. QED
            BY <4>1, <5>1, <6>2
        <5>. QED
          BY <1>2, <4>2, <5>1
      <4>4. w.key = late[i].key /\ End(w).key = w.key /\ End(w).begin = L
        BY <1>2, <4>1, <4>2
      <4>. QED
        BY <4>1, <4>2, <4>3, <4>4 DEF Guarded
    <3>. QED
      BY <3>1, <3>2, <3>3 DEF Guarded
  <2>6. ASSUME Up(L) PROVE \E w \in u.window : w.key = flows[L].key /\ w.begin = L /\ w.end = 0
    <3>1. PICK w \in t.window : w.key = flows[L].key /\ w.begin = L /\ w.end = 0
      BY <2>1, <2>6 DEF GuardOK
    <3>2. w \in Window /\ End(w) \in u.window
      BY <1>1, <1>5 DEF after
    <3>3. L \in DOMAIN flows
      BY DEF Claimed, ConnsOK
    <3>4. End(w) = w
      <4>1. SUFFICES ASSUME w.key = key, counter > w.begin, gen = 0 \/ w.generation = gen PROVE FALSE
        BY <1>2, <3>2
      <4>2. flows[L].key = key /\ L < counter /\ (gen = 0 \/ \E v \in t.window : v.begin = L /\ v.generation = gen)
        BY <2>4, <3>1, <4>1
      <4>. QED
        BY <2>6, <3>3, <4>2 DEF Spare
    <3>. QED
      BY <3>1, <3>2, <3>4
  <2>. QED
    BY <2>5, <2>6
<1>. QED
  BY <1>4, <1>5, <1>6, <1>7, WindowsOK

(* Reclaiming windows: the guard of the ones that go is the bound below    *)
(* which events are refused.                                               *)
LEMMA GreatestChoice ==
  ASSUME NEW S \in SUBSET Nat, IsFiniteSet(S), S # {}, NEW m, m = CHOOSE a \in S : \A n \in S : a >= n
  PROVE  m \in S /\ \A n \in S : m >= n
<1>1. \E a \in S : \A n \in S : a >= n
  BY GreatestNat
<1>. QED
  BY <1>1

Restricted(t, gone, stale, unnamed, marked) ==
  [t EXCEPT !.marked = marked, !.legacy = Without(@, stale), !.alias = Without(@, unnamed), !.conn = Without(@, gone)]

Unnames(t, gone, unnamed) == \A k \in DOMAIN t.alias : t.alias[k] \in gone => k \in unnamed
Spares(t, gone, u) == \A x \in DOMAIN t.conn : x \notin gone => x \in DOMAIN u.conn /\ u.conn[x] = t.conn[x]

LEMMA RestrictConnsQuiet ==
  ASSUME NEW t, TrackerOK(t), NEW gone, gone \subseteq DOMAIN t.conn, NEW stale, NEW marked, marked \subseteq Nat,
         NEW unnamed, Unnames(t, gone, unnamed), NEW u, u = Restricted(t, gone, stale, unnamed, marked)
  PROVE  Quiet(t, u) /\ Spares(t, gone, u)
<1> DEFINE conn == Without(t.conn, gone)
           alias == Without(t.alias, unnamed)
           legacy == Without(t.legacy, stale)
<1>1. /\ t \in Tracker /\ t.conn \in Partial(Tcb, ConnRec) /\ t.alias \in Partial(Key, Tcb)
      /\ t.legacy \in Partial(Key, Marker) /\ t.paid \in Partial(Slice, {1})
      /\ \A k \in DOMAIN t.alias : t.alias[k] \in DOMAIN t.conn
      /\ \A x \in DOMAIN t.conn : t.conn[x] \in ConnRec
  BY TrackerFields DEF TrackerOK
<1>2. conn \in Partial(Tcb, ConnRec) /\ DOMAIN conn = DOMAIN t.conn \ gone /\ \A x \in DOMAIN conn : conn[x] = t.conn[x]
  BY <1>1, PartialRestrict DEF Without
<1>3. /\ alias \in Partial(Key, Tcb) /\ DOMAIN alias \subseteq DOMAIN t.alias
      /\ \A k \in DOMAIN alias : alias[k] = t.alias[k] /\ alias[k] \in DOMAIN t.conn \ gone
  <2>1. DOMAIN t.alias \ unnamed \in SUBSET DOMAIN t.alias
    OBVIOUS
  <2>2. alias \in Partial(Key, Tcb)
    BY <1>1, <2>1, PartialRestrict DEF Without
  <2>. QED
    BY <1>1, <2>2 DEF Without, Unnames
<1>4. /\ legacy \in Partial(Key, Marker) /\ DOMAIN legacy \subseteq DOMAIN t.legacy
      /\ \A k \in DOMAIN legacy : legacy[k] = t.legacy[k]
  <2>1. DOMAIN t.legacy \ stale \in SUBSET DOMAIN t.legacy
    OBVIOUS
  <2>2. legacy \in Partial(Key, Marker)
    BY <1>1, <2>1, PartialRestrict DEF Without
  <2>. QED
    BY <2>2 DEF Without
<1>5. u = [t EXCEPT !.marked = marked, !.legacy = legacy, !.alias = alias, !.conn = conn]
  BY DEF Restricted
<1> HIDE DEF conn, alias, legacy
<1>6. /\ u \in Tracker /\ u.conn = conn /\ u.alias = alias /\ u.legacy = legacy /\ u.window = t.window
      /\ u.generation = t.generation /\ u.retiredBefore = t.retiredBefore /\ u.mistaken = t.mistaken /\ u.paid = t.paid
  <2> DEFINE t1 == [t EXCEPT !.marked = marked, !.legacy = legacy]
  <2>1. /\ t1 \in Tracker /\ t1.conn = t.conn /\ t1.alias = t.alias /\ t1.legacy = legacy /\ t1.window = t.window
        /\ t1.generation = t.generation /\ t1.retiredBefore = t.retiredBefore /\ t1.mistaken = t.mistaken
        /\ t1.paid = t.paid
    BY <1>1, <1>4 DEF Tracker
  <2>2. u = [t1 EXCEPT !.alias = alias, !.conn = conn]
    BY <1>1, <1>5 DEF Tracker
  <2> HIDE DEF t1
  <2>3. alias \in Partial(Key, Tcb) /\ conn \in Partial(Tcb, ConnRec)
    BY <1>2, <1>3
  <2>. QED
    BY <2>1, <2>2, <2>3 DEF Tracker
<1>7. Same(t, u)
  BY <1>6 DEF Same
<1>8. Pays(t, u)
  BY <1>6 DEF Pays
<1>9. \A x \in DOMAIN u.conn : ConnStep(t.conn[x], u.conn[x])
  BY <1>1, <1>2, <1>6, StepReflexive
<1>10. Fewer(t, u)
  BY <1>2, <1>3, <1>4, <1>6, <1>9 DEF Fewer
<1>. QED
  BY <1>2, <1>6, <1>7, <1>8, <1>10 DEF Quiet, Spares

LEMMA ReclaimOK ==
  ASSUME NEW t, NEW queue, NEW late, NEW bag, OK(t, queue, late, bag), Timed(late), NEW u, u = ReclaimWindows(t)
  PROVE  /\ OK(u, queue, late, bag) /\ u.mistaken = t.mistaken
         /\ \A x \in DOMAIN t.conn : t.conn[x].closed = 0 => x \in DOMAIN u.conn /\ u.conn[x] = t.conn[x]
<1> DEFINE dead == {w \in t.window : w.end # 0 /\ w.end < Through(t)}
           gone == {x \in DOMAIN t.conn : t.conn[x].closed # 0 /\ t.conn[x].closed < Through(t)}
           stale == {k \in DOMAIN t.legacy :
                       \/ \E w \in dead : w.key = k /\ t.legacy[k].begin < w.end
                       \/ \E x \in gone : t.conn[x].key = k /\ t.legacy[k].begin < t.conn[x].closed}
           open == {x \in gone : t.conn[x].rx.pending # {} \/ t.conn[x].tx.pending # {}}
           marked == t.marked \cup {t.conn[x].life : x \in open}
           ends == {t.retiredBefore} \cup {w.end : w \in dead}
           bound == CHOOSE m \in ends : \A n \in ends : m >= n
           bloom == t.bloom \cup UNION {Slots[w.key] : w \in dead}
           window == t.window \ dead
           unnamed == {k \in DOMAIN t.alias : t.alias[k] \in gone}
           alias == Without(t.alias, unnamed)
           v == [t EXCEPT !.marked = marked, !.legacy = Without(t.legacy, stale), !.alias = alias,
                          !.conn = Without(t.conn, gone)]
<1>1. /\ t \in Tracker /\ TrackerOK(t) /\ t.window \in SUBSET Window /\ IsFiniteSet(t.window) /\ t.retiredBefore \in Nat
      /\ t.bloom \in SUBSET BloomBits /\ t.marked \in SUBSET Nat
      /\ \A x \in DOMAIN t.conn : t.conn[x].life \in Nat /\ t.conn[x].closed \in Nat
  BY TrackerFields DEF OK, TrackerOK, Tracker, ConnRec
<1>2. u = [v EXCEPT !.window = window, !.bloom = bloom, !.retiredBefore = bound]
  <2>1. u = [t EXCEPT !.window = window, !.bloom = bloom, !.retiredBefore = bound, !.marked = marked,
                      !.legacy = Without(t.legacy, stale), !.alias = alias, !.conn = Without(t.conn, gone)]
    BY DEF ReclaimWindows
  <2> DEFINE legacy == Without(t.legacy, stale)
             conn == Without(t.conn, gone)
  <2> HIDE DEF window, bloom, bound, marked, legacy, alias, conn
  <2>2. u = [t EXCEPT !.window = window, !.bloom = bloom, !.retiredBefore = bound, !.marked = marked,
                      !.legacy = legacy, !.alias = alias, !.conn = conn]
    BY <2>1 DEF legacy, conn
  <2>3. v = [t EXCEPT !.marked = marked, !.legacy = legacy, !.alias = alias, !.conn = conn]
    BY DEF legacy, conn
  <2> HIDE DEF v
  <2>. QED
    BY <1>1, <2>2, <2>3 DEF Tracker
<1>3. dead \subseteq t.window /\ gone \in SUBSET DOMAIN t.conn
  OBVIOUS
<1>4. \A x \in DOMAIN t.conn : t.conn[x].closed = 0 => x \notin gone
  OBVIOUS
<1>5. \A w \in t.window : w.end = 0 => w \in window
  OBVIOUS
<1>6. \A w \in t.window : w \in window \/ w \in dead
  OBVIOUS
<1>7. marked \in SUBSET Nat
  BY <1>1
<1> HIDE DEF dead, gone, stale, marked
<1>8. Quiet(t, v) /\ Spares(t, gone, v)
  <2>1. v = Restricted(t, gone, stale, unnamed, marked)
    BY DEF Restricted
  <2>2. Unnames(t, gone, unnamed)
    BY DEF Unnames
  <2> HIDE DEF unnamed, v
  <2>3. TrackerOK(t) /\ gone \subseteq DOMAIN t.conn /\ marked \subseteq Nat
    BY <1>1, <1>3, <1>7
  <2>. QED
    BY <2>1, <2>2, <2>3, RestrictConnsQuiet
<1> HIDE DEF v, alias
<1>9. OK(v, queue, late, bag)
  BY <1>8, QuietOK
<1>10. ends \in SUBSET Nat /\ IsFiniteSet(ends) /\ ends # {} /\ t.retiredBefore \in ends /\ \A w \in dead : w.end \in ends
  <2>1. IsFiniteSet({w.end : w \in dead})
    <3> DEFINE f == [w \in dead |-> w.end]
               T == {w.end : w \in dead}
    <3>1. f \in Surjection(dead, T)
      BY DEF Surjection
    <3>2. IsFiniteSet(dead)
      BY <1>1, <1>3, FS_Subset
    <3>. QED
      BY <3>1, <3>2, FS_Surjection
  <2>2. IsFiniteSet(ends)
    BY <2>1, FS_Union, FS_Singleton
  <2>3. \A w \in dead : w.end \in Nat
    BY <1>1, <1>3 DEF Window
  <2>. QED
    BY <1>1, <2>2, <2>3
<1>11. bound \in Nat /\ bound >= t.retiredBefore /\ \A w \in dead : bound >= w.end
  <2>1. bound \in ends /\ \A n \in ends : bound >= n
    <3> HIDE DEF ends
    <3>1. bound = CHOOSE m \in ends : \A n \in ends : m >= n
      OBVIOUS
    <3> HIDE DEF bound
    <3>. QED
      BY <1>10, <3>1, GreatestChoice
  <2>. QED
    BY <1>10, <2>1
<1> HIDE DEF ends, bound
<1>12. window \in SUBSET Window /\ IsFiniteSet(window) /\ window \subseteq t.window
  BY <1>1, FS_Subset
<1>13. bloom \in SUBSET BloomBits
  <2>1. \A w \in dead : w.key \in Key
    BY <1>1, <1>3 DEF Window
  <2>. QED
    BY <1>1, <2>1 DEF BloomBits
<1> HIDE DEF window, bloom
<1>14. v \in Tracker /\ v.window = t.window /\ v.retiredBefore = t.retiredBefore /\ v.mistaken = t.mistaken
  BY <1>8 DEF Quiet, Same
<1>15. Apart4(v, u) /\ u.window = window /\ u.retiredBefore = bound
  BY <1>2, <1>11, <1>12, <1>13, <1>14 DEF Apart4, Tracker
<1>16. GuardOK(u, late)
  <2>1. GuardOK(v, late) /\ Claimed(u) = Claimed(v) /\ u.mistaken = v.mistaken
    BY <1>9, <1>15 DEF OK, Joint, Apart4, Claimed
  <2>2. ASSUME NEW L, NEW i \in DOMAIN late, Guarded(v, L, late[i]) PROVE Guarded(u, L, late[i])
    <3>1. late[i].time \in Nat
      BY DEF Timed
    <3>2. CASE late[i].time < v.retiredBefore
      BY <1>1, <1>11, <1>14, <1>15, <3>1, <3>2 DEF Guarded
    <3>3. CASE \E w \in v.window : w.key = late[i].key /\ w.begin = L /\ (w.end = 0 \/ late[i].time < w.end)
      <4>1. PICK w \in t.window : w.key = late[i].key /\ w.begin = L /\ (w.end = 0 \/ late[i].time < w.end)
        BY <1>14, <3>3
      <4>2. CASE w \in window
        BY <1>15, <4>1, <4>2 DEF Guarded
      <4>3. CASE w \in dead
        <5>1. late[i].time < w.end /\ w.end \in Nat /\ bound >= w.end
          BY <1>1, <1>5, <1>11, <4>1, <4>3 DEF Window, dead
        <5>. QED
          BY <1>11, <1>15, <3>1, <5>1 DEF Guarded
      <4>. QED
        BY <1>6, <4>2, <4>3
    <3>. QED
      BY <2>2, <3>2, <3>3 DEF Guarded
  <2>3. ASSUME NEW L, \E w \in v.window : w.key = flows[L].key /\ w.begin = L /\ w.end = 0
        PROVE  \E w \in u.window : w.key = flows[L].key /\ w.begin = L /\ w.end = 0
    BY <1>5, <1>14, <1>15, <2>3
  <2>. QED
    BY <2>1, <2>2, <2>3 DEF GuardOK
<1>17. OK(u, queue, late, bag)
  <2>1. \A w \in u.window : \E z \in v.window : w.generation = z.generation /\ w.begin = z.begin
    BY <1>12, <1>14, <1>15
  <2>2. IsFiniteSet(u.window)
    BY <1>12, <1>15
  <2>. QED
    BY <1>9, <1>15, <1>16, <2>1, <2>2, WindowsOK
<1>. QED
  BY <1>4, <1>8, <1>14, <1>15, <1>17 DEF Apart4, Spares

(* A connection changes what it knows of its origins or its probe.         *)
Rebased(c, d) ==
  /\ d \in ConnRec
  /\ d.key = c.key /\ d.life = c.life /\ d.generation = c.generation /\ d.begin = c.begin
  /\ d.switched = c.switched /\ d.rx = c.rx /\ d.tx = c.tx
  /\ d.switched /\ d.state = "active" => c.state = "active"

LEMMA RebasedOK ==
  ASSUME NEW t, NEW queue, NEW late, NEW bag, OK(t, queue, late, bag), NEW x \in DOMAIN t.conn,
         NEW d, Rebased(t.conn[x], d), NEW u, u = SetConn(t, x, d), NEW q, Sub(q, queue),
         OriginOK(d, q), ProbeOK(d, late), TotalOK(t.legacy, d, bag)
  PROVE  OK(u, q, late, bag)
<1>1. t \in Tracker /\ TrackerOK(t) /\ t.conn[x] \in ConnRec
  BY TrackerFields DEF OK, TrackerOK
<1>2. /\ u \in Tracker /\ DOMAIN u.conn = DOMAIN t.conn /\ u.conn[x] = d
      /\ \A y \in DOMAIN t.conn \ {x} : u.conn[y] = t.conn[y]
      /\ u.alias = t.alias /\ u.window = t.window /\ u.legacy = t.legacy /\ u.generation = t.generation
      /\ u.retiredBefore = t.retiredBefore /\ u.paid = t.paid /\ u.mistaken = t.mistaken
  BY <1>1, SetConnFacts DEF Rebased
<1>3. \A y \in DOMAIN t.conn : Rebased(t.conn[y], u.conn[y])
  <2>1. \A y \in DOMAIN t.conn : t.conn[y] \in ConnRec
    BY <1>1, TrackerFields
  <2>. QED
    BY <1>2, <2>1 DEF Rebased
<1>4. TrackerOK(u)
  <2>1. \A k \in DOMAIN u.alias : u.alias[k] \in DOMAIN u.conn /\ u.conn[u.alias[k]].key = k
    BY <1>1, <1>2, <1>3 DEF TrackerOK, Rebased
  <2>2. \A y \in DOMAIN u.conn : u.conn[y].begin = u.conn[y].life /\ u.conn[y].generation <= u.generation
    BY <1>1, <1>2, <1>3 DEF TrackerOK, Rebased
  <2>3. \A y, z \in DOMAIN u.conn : u.conn[y].life = u.conn[z].life \/ u.conn[y].generation = u.conn[z].generation => y = z
    BY <1>1, <1>2, <1>3 DEF TrackerOK, Rebased
  <2>4. \A w \in u.window : /\ w.generation <= u.generation
                            /\ \A y \in DOMAIN u.conn : w.generation = u.conn[y].generation => w.begin = u.conn[y].begin
    BY <1>1, <1>2, <1>3 DEF TrackerOK, Rebased
  <2>5. \A b \in DOMAIN u.paid, y \in DOMAIN u.conn :
          b[1] = u.conn[y].life => u.conn[y].switched /\ b[3] \in Covered(u.conn[y][b[2]])
    <3>1. \A b \in DOMAIN t.paid : b[2] \in Dirs
      BY <1>1, TrackerFields DEF Slice
    <3>2. \A y \in DOMAIN t.conn, dir \in Dirs : u.conn[y][dir] = t.conn[y][dir]
      BY <1>3 DEF Rebased, Dirs
    <3>3. \A y \in DOMAIN t.conn : u.conn[y].life = t.conn[y].life /\ u.conn[y].switched = t.conn[y].switched
      BY <1>3 DEF Rebased
    <3>. QED
      BY <1>1, <1>2, <3>1, <3>2, <3>3 DEF TrackerOK
  <2>6. \A y \in DOMAIN u.conn : (u.conn[y].switched => u.conn[y].state = "active") =>
                                    u.conn[y].rx.credited = {} /\ u.conn[y].tx.credited = {}
    BY <1>1, <1>2, <1>3 DEF TrackerOK, Rebased
  <2>. QED
    BY <1>1, <1>2, <2>1, <2>2, <2>3, <2>4, <2>5, <2>6 DEF TrackerOK
<1>5. Joint(t, q, late, bag) /\ bag \in Partial(Slice, {1})
  <2>1. Sub(late, late)
    BY DEF Sub
  <2>. QED
    BY <2>1, FewerOK DEF OK
<1>6. Claimed(u) = Claimed(t)
  <2>1. \A y \in DOMAIN t.conn : u.conn[y].life = t.conn[y].life /\ u.conn[y].switched = t.conn[y].switched
    BY <1>3 DEF Rebased
  <2>. QED
    BY <1>2, <2>1 DEF Claimed
<1>7. ConnsOK(u) /\ Connects(u, q)
  BY <1>2, <1>3, <1>5 DEF Joint, ConnsOK, Connects, Rebased
<1>8. GuardOK(u, late)
  BY <1>2, <1>5, <1>6 DEF Joint, GuardOK, Guarded
<1>9. BelowPrefix(u, bag)
  <2>1. \A b \in DOMAIN bag : b[2] \in Dirs
    BY <1>5, PartialElim DEF Slice
  <2>2. \A y \in DOMAIN t.conn, dir \in Dirs : u.conn[y][dir] = t.conn[y][dir]
    BY <1>3 DEF Rebased, Dirs
  <2>3. \A y \in DOMAIN t.conn : u.conn[y].life = t.conn[y].life /\ u.conn[y].switched = t.conn[y].switched
    BY <1>3 DEF Rebased
  <2>. QED
    BY <1>2, <1>5, <2>1, <2>2, <2>3 DEF Joint, BelowPrefix
<1>10. OriginsOK(u, q) /\ MarkersOK(u, late) /\ ProbesOK(u, late) /\ TotalsOK(u, bag)
  BY <1>2, <1>5 DEF Joint, OriginsOK, MarkersOK, ProbesOK, TotalsOK
<1>. QED
  BY <1>4, <1>5, <1>7, <1>8, <1>9, <1>10 DEF OK, Joint

(* A connection switched on the prefix of another life is no longer        *)
(* claimed.                                                                *)
LEMMA MistakenOK ==
  ASSUME NEW t, NEW queue, NEW late, NEW bag, OK(t, queue, late, bag), NEW mistaken, t.mistaken \subseteq mistaken,
         mistaken \subseteq Nat, NEW u, u = [t EXCEPT !.mistaken = mistaken]
  PROVE  OK(u, queue, late, bag)
<1>1. TrackerOK(u)
  BY DEF OK, TrackerOK, Tracker
<1>2. /\ u.conn = t.conn /\ u.alias = t.alias /\ u.legacy = t.legacy /\ u.window = t.window /\ u.paid = t.paid
      /\ u.retiredBefore = t.retiredBefore /\ t.mistaken \subseteq u.mistaken
  BY DEF OK, TrackerOK, Tracker
<1>3. Joint(t, queue, late, bag)
  BY DEF OK
<1>4. ConnsOK(u) /\ Connects(u, queue) /\ BelowPrefix(u, bag)
  BY <1>2, <1>3 DEF Joint, ConnsOK, Connects, BelowPrefix
<1>5. GuardOK(u, late)
  BY <1>2, <1>3 DEF Joint, GuardOK, Guarded, Claimed
<1>6. OriginsOK(u, queue) /\ MarkersOK(u, late)
  BY <1>2, <1>3 DEF Joint, OriginsOK, MarkersOK
<1>7. ProbesOK(u, late) /\ TotalsOK(u, bag)
  BY <1>2, <1>3 DEF Joint, ProbesOK, TotalsOK
<1>. QED
  BY <1>1, <1>4, <1>5, <1>6, <1>7 DEF OK, Joint

-----------------------------------------------------------------------------
(* A connect.                                                              *)
LEMMA HeadTail ==
  ASSUME NEW S, NEW queue \in Seq(S), queue # << >>
  PROVE  /\ Head(queue) \in S /\ Head(queue) = queue[1] /\ 1 \in DOMAIN queue /\ Tail(queue) \in Seq(S)
         /\ \A i \in DOMAIN Tail(queue) : i + 1 \in DOMAIN queue /\ Tail(queue)[i] = queue[i + 1] /\ 1 < i + 1
         /\ Sub(Tail(queue), queue)
<1>1. Head(queue) \in S /\ Head(queue) = queue[1] /\ 1 \in DOMAIN queue /\ Tail(queue) \in Seq(S)
  OBVIOUS
<1>2. \A i \in DOMAIN Tail(queue) : i + 1 \in DOMAIN queue /\ Tail(queue)[i] = queue[i + 1] /\ 1 < i + 1
  OBVIOUS
<1>. QED
  BY <1>1, <1>2 DEF Sub

LEMMA NewConnectionFacts ==
  ASSUME NEW t \in Tracker, NEW e \in ProofRec, NEW c, c = NewConnection(t, e)
  PROVE  /\ c \in ConnRec /\ c.key = e.key /\ c.life = e.life /\ c.begin = e.time /\ c.generation = t.generation + 1
         /\ ~c.switched /\ c.probe.end = 0 /\ ~c.haveSend /\ ~c.haveReceive
         /\ c.rx.credited = {} /\ c.tx.credited = {}
<1>1. NoDirection \in Direction /\ NoDirection.credited = {}
  BY FS_EmptySet DEF NoDirection, Direction, Span
<1>2. t.generation \in Nat /\ e.key \in Key /\ e.life \in Nat /\ e.time \in Nat
  BY DEF Tracker, ProofRec
<1> DEFINE probe == [end |-> 0, dataRx |-> 0, dataTx |-> 0, rx |-> 0, tx |-> 0]
<1>3. probe \in ProbeRec /\ probe.end = 0
  BY DEF ProbeRec
<1>4. "etw" \in States
  BY DEF States
<1>5. c = [key |-> e.key, life |-> e.life, generation |-> t.generation + 1, begin |-> e.time,
           established |-> 0, closed |-> 0, owned |-> FALSE, estats |-> 0, context |-> 0, probe |-> probe,
           readEnd |-> 0, rxFin |-> 0, rxOffset |-> 0, txOffset |-> 0, lastRx |-> 0, lastTx |-> 0,
           sendOrigin |-> 0, receiveOrigin |-> 0, state |-> "etw", rx |-> NoDirection, tx |-> NoDirection,
           connected |-> FALSE, haveSend |-> FALSE, haveReceive |-> FALSE, eligible |-> TRUE,
           switched |-> FALSE, haveFin |-> FALSE, frozen |-> FALSE]
  BY DEF NewConnection
<1> HIDE DEF probe
<1>. QED
  BY <1>1, <1>2, <1>3, <1>4, <1>5 DEF ConnRec

LEMMA AddConnectionOK ==
  ASSUME FlowsOK, ProofsOK, proofs # << >>, NEW e, e = Head(proofs), e.kind = "connect",
         NEW t, NEW late, NEW bag, OK(t, proofs, late, bag), e.tcb \notin DOMAIN t.conn, NEW u, u = AddConnection(t, e)
  PROVE  OK(u, Tail(proofs), late, bag)
<1> DEFINE c == NewConnection(t, e)
           conn == With(t.conn, e.tcb, c)
           alias == With(t.alias, e.key, e.tcb)
           queue == Tail(proofs)
<1>1. e \in ProofRec /\ e = proofs[1] /\ 1 \in DOMAIN proofs /\ Sub(queue, proofs)
      /\ \A i \in DOMAIN queue : i + 1 \in DOMAIN proofs /\ queue[i] = proofs[i + 1] /\ 1 < i + 1
  BY HeadTail DEF ProofsOK
<1>2. /\ e.life \in DOMAIN flows /\ e.key = flows[e.life].key /\ e.tcb = flows[e.life].tcb /\ e.time = e.life
      /\ e.key \in Key /\ e.tcb \in Tcb
  BY <1>1 DEF ProofsOK, ProofRec
<1>3. \A i \in DOMAIN queue : queue[i].kind = "connect" => queue[i].life # e.life
  BY <1>1 DEF ProofsOK
<1>4. OK(t, queue, late, bag)
  <2>1. Sub(late, late)
    BY DEF Sub
  <2>. QED
    BY <1>1, <2>1, FewerOK
<1>5. CASE Cardinality(DOMAIN t.conn) >= MaxConns
  BY <1>4, <1>5 DEF AddConnection
<1>6. CASE ~(Cardinality(DOMAIN t.conn) >= MaxConns)
  <2>1. t \in Tracker /\ TrackerOK(t) /\ t.generation \in Nat
    BY DEF OK, TrackerOK, Tracker
  <2>2. /\ c \in ConnRec /\ c.key = e.key /\ c.life = e.life /\ c.begin = e.time /\ c.generation = t.generation + 1
        /\ ~c.switched /\ c.probe.end = 0 /\ ~c.haveSend /\ ~c.haveReceive
        /\ c.rx.credited = {} /\ c.tx.credited = {}
    BY <1>1, <2>1, NewConnectionFacts
  <2>3. u = [t EXCEPT !.conn = conn, !.alias = alias, !.generation = t.generation + 1]
    BY <1>6 DEF AddConnection
  <2> HIDE DEF c
  <2>4. conn \in Partial(Tcb, ConnRec) /\ DOMAIN conn = DOMAIN t.conn \cup {e.tcb} /\ conn[e.tcb] = c
        /\ \A y \in DOMAIN t.conn : conn[y] = t.conn[y]
    <3>1. t.conn \in Partial(Tcb, ConnRec)
      BY <2>1, TrackerFields
    <3>2. conn \in Partial(Tcb, ConnRec)
      BY <1>2, <2>2, <3>1, PartialExtend DEF With
    <3>. QED
      BY <3>2 DEF With
  <2>5. alias \in Partial(Key, Tcb) /\ DOMAIN alias = DOMAIN t.alias \cup {e.key} /\ alias[e.key] = e.tcb
        /\ \A k \in DOMAIN t.alias : k # e.key => alias[k] = t.alias[k]
    <3>1. t.alias \in Partial(Key, Tcb)
      BY <2>1, TrackerFields
    <3>2. alias \in Partial(Key, Tcb)
      BY <1>2, <3>1, PartialExtend DEF With
    <3>. QED
      BY <3>2 DEF With
  <2> HIDE DEF conn, alias
  <2>6. /\ u \in Tracker /\ u.conn = conn /\ u.alias = alias /\ u.generation = t.generation + 1
        /\ u.window = t.window /\ u.legacy = t.legacy /\ u.paid = t.paid /\ u.mistaken = t.mistaken
        /\ u.retiredBefore = t.retiredBefore
    <3> DEFINE t1 == [t EXCEPT !.conn = conn, !.alias = alias]
               next == t.generation + 1
    <3>1. /\ t1 \in Tracker /\ t1.conn = conn /\ t1.alias = alias /\ t1.window = t.window /\ t1.legacy = t.legacy
          /\ t1.paid = t.paid /\ t1.mistaken = t.mistaken /\ t1.retiredBefore = t.retiredBefore
      BY <2>1, <2>4, <2>5 DEF Tracker
    <3>2. u = [t1 EXCEPT !.generation = next]
      BY <2>1, <2>3 DEF Tracker
    <3>3. next \in Nat /\ next = t.generation + 1
      BY <2>1
    <3> HIDE DEF t1, next
    <3>. QED
      BY <3>1, <3>2, <3>3 DEF Tracker
  <2>7. /\ \A y \in DOMAIN t.conn : t.conn[y].life # e.life /\ t.conn[y].generation \in Nat
        /\ \A b \in DOMAIN t.paid : b[1] # e.life
    <3>1. \A y \in DOMAIN t.conn : t.conn[y].generation \in Nat
      BY <2>1, TrackerFields DEF ConnRec
    <3>. QED
      BY <1>1, <3>1 DEF OK, Joint, Connects
  <2>8. TrackerOK(u)
    <3>1. \A k \in DOMAIN u.alias : u.alias[k] \in DOMAIN u.conn /\ u.conn[u.alias[k]].key = k
      BY <2>1, <2>2, <2>4, <2>5, <2>6 DEF TrackerOK
    <3>2. \A y \in DOMAIN u.conn : u.conn[y].begin = u.conn[y].life /\ u.conn[y].generation <= u.generation
      BY <1>2, <2>1, <2>2, <2>4, <2>6, <2>7 DEF TrackerOK
    <3>3. ASSUME NEW y \in DOMAIN u.conn, NEW z \in DOMAIN u.conn,
                 u.conn[y].life = u.conn[z].life \/ u.conn[y].generation = u.conn[z].generation
          PROVE  y = z
      <4>1. \A a \in DOMAIN t.conn : t.conn[a].generation # t.generation + 1
        BY <2>1, <2>7 DEF TrackerOK
      <4>. QED
        BY <2>1, <2>2, <2>4, <2>6, <2>7, <3>3, <4>1 DEF TrackerOK
    <3>4. \A w \in u.window : /\ w.generation <= u.generation
                              /\ \A y \in DOMAIN u.conn : w.generation = u.conn[y].generation => w.begin = u.conn[y].begin
      <4>1. \A w \in t.window : w.generation \in Nat
        BY <2>1 DEF Tracker, Window
      <4>2. \A w \in t.window : w.generation <= t.generation + 1 /\ w.generation # t.generation + 1
        BY <2>1, <4>1 DEF TrackerOK
      <4>. QED
        BY <2>1, <2>2, <2>4, <2>6, <4>2 DEF TrackerOK
    <3>5. \A b \in DOMAIN u.paid, y \in DOMAIN u.conn :
            b[1] = u.conn[y].life => u.conn[y].switched /\ b[3] \in Covered(u.conn[y][b[2]])
      BY <2>1, <2>2, <2>4, <2>6, <2>7 DEF TrackerOK
    <3>6. \A y \in DOMAIN u.conn : (u.conn[y].switched => u.conn[y].state = "active") =>
                                      u.conn[y].rx.credited = {} /\ u.conn[y].tx.credited = {}
      BY <2>1, <2>2, <2>4, <2>6 DEF TrackerOK
    <3>. QED
      BY <2>1, <2>6, <3>1, <3>2, <3>3, <3>4, <3>5, <3>6 DEF TrackerOK
  <2>9. Joint(t, queue, late, bag) /\ bag \in Partial(Slice, {1})
    BY <1>4 DEF OK
  <2>10. ConnsOK(u)
    BY <1>2, <2>2, <2>4, <2>6, <2>9 DEF Joint, ConnsOK
  <2>11. Connects(u, queue)
    BY <1>3, <2>2, <2>4, <2>6, <2>9 DEF Joint, Connects
  <2>12. Claimed(u) = Claimed(t)
    <3>1. \A y \in DOMAIN u.conn : u.conn[y].switched => y \in DOMAIN t.conn
      BY <2>2, <2>4, <2>6
    <3>. QED
      BY <2>4, <2>6, <3>1 DEF Claimed
  <2>13. GuardOK(u, late)
    BY <2>6, <2>9, <2>12 DEF Joint, GuardOK, Guarded
  <2>14. BelowPrefix(u, bag)
    BY <2>2, <2>4, <2>6, <2>9 DEF Joint, BelowPrefix
  <2>15. OriginsOK(u, queue)
    BY <2>2, <2>4, <2>6, <2>9 DEF Joint, OriginsOK, OriginOK
  <2>16. MarkersOK(u, late)
    BY <2>6, <2>9 DEF Joint, MarkersOK
  <2>17. ProbesOK(u, late)
    BY <2>2, <2>4, <2>6, <2>9 DEF Joint, ProbesOK, ProbeOK
  <2>18. TotalsOK(u, bag)
    BY <2>2, <2>4, <2>6, <2>9 DEF Joint, TotalsOK, TotalOK
  <2>. QED
    BY <2>8, <2>9, <2>10, <2>11, <2>13, <2>14, <2>15, <2>16, <2>17, <2>18 DEF OK, Joint
<1>. QED
  BY <1>5, <1>6

\* A life whose windows a newer life on its key or control block may end is over.
LEMMA FollowedSpare ==
  ASSUME Apart, NEW L \in DOMAIN flows, NEW M \in DOMAIN flows, Follows(L, M)
  PROVE  ~Up(L) /\ \A i \in DOMAIN events : events[i].life = L => events[i].time < M
  BY DEF Apart

LEMMA EventsTimed ==
  ASSUME EventsOK
  PROVE  Timed(events)
<1>1. \A i \in DOMAIN events : events[i] \in EventRec
  BY DEF EventsOK
<1>2. \A i \in DOMAIN events : events[i].time \in Nat
  BY <1>1 DEF EventRec
<1>. QED
  BY <1>2 DEF EventsOK, Timed

LEMMA ReplaceOK ==
  ASSUME FlowsOK, Apart, EventsOK, NEW t, NEW queue, NEW bag, OK(t, queue, events, bag),
         NEW e \in ProofRec, e.life \in DOMAIN flows, e.time = e.life, e.tcb = flows[e.life].tcb,
         NEW u, u = Replace(t, e)
  PROVE  OK(u, queue, events, bag) /\ e.tcb \notin DOMAIN u.conn
<1>1. CASE e.tcb \notin DOMAIN t.conn
  BY <1>1 DEF Replace
<1>2. CASE e.tcb \in DOMAIN t.conn
  <2> DEFINE c == t.conn[e.tcb]
             v == Fallback(t, e.tcb, TRUE)
             w == CloseWindows(v, c.key, e.time, c.generation)
  <2>1. TrackerOK(t) /\ c \in ConnRec /\ e.time \in Nat
    BY <1>2, ConnFacts DEF OK, ProofRec
  <2>2. Still(t, v)
    BY <1>2, <2>1, FallbackStill
  <2>3. u = DropConnection(w, e.tcb)
    BY <1>2 DEF Replace
  <2> HIDE DEF v
  <2>4. OK(v, queue, events, bag)
    BY <2>2, StillOK
  <2>5. TrackerOK(v) /\ ConnsOK(v) /\ e.tcb \in DOMAIN v.conn /\ ConnStep(c, v.conn[e.tcb])
    BY <1>2, <2>2, <2>4 DEF OK, Joint, Still, Quiet, Fewer
  <2>6. Spare(v, c.key, e.time, c.generation, events)
    <3> SUFFICES ASSUME NEW L \in Claimed(v) \ v.mistaken, L \in DOMAIN flows, L < e.time,
                        c.generation = 0 \/ \E z \in v.window : z.begin = L /\ z.generation = c.generation
                 PROVE  ~Up(L) /\ \A i \in DOMAIN events : events[i].life = L /\ Data(events[i]) => events[i].time < e.time
      BY DEF Spare
    <3>1. PICK z \in v.window : z.begin = L /\ z.generation = c.generation
      BY <2>1 DEF ConnRec
    <3>2. L = v.conn[e.tcb].life
      <4>1. z.generation = v.conn[e.tcb].generation
        BY <2>5, <3>1 DEF ConnStep
      <4>2. z.begin = v.conn[e.tcb].begin /\ v.conn[e.tcb].begin = v.conn[e.tcb].life
        BY <2>5, <4>1 DEF TrackerOK
      <4>. QED
        BY <3>1, <4>2
    <3>3. flows[L].tcb = e.tcb
      BY <2>5, <3>2 DEF ConnsOK
    <3>4. Follows(L, e.life)
      BY <3>3 DEF Follows
    <3>. QED
      BY <3>4, FollowedSpare
  <2>7. OK(w, queue, events, bag) /\ Apart4(v, w)
    <3>1. Timed(events)
      BY EventsTimed
    <3>. QED
      BY <2>1, <2>4, <2>5, <2>6, <3>1, CloseWindowsOK
  <2> HIDE DEF w
  <2>8. TrackerOK(w) /\ e.tcb \in DOMAIN w.conn
    BY <2>5, <2>7 DEF OK, Apart4
  <2>9. Quiet(w, u) /\ DOMAIN u.conn = DOMAIN w.conn \ {e.tcb}
    BY <2>3, <2>8, DropConnectionQuiet
  <2>. QED
    BY <2>7, <2>9, QuietOK
<1>. QED
  BY <1>1, <1>2

LEMMA ProofConnectOK ==
  ASSUME KernelInv, proofs # << >>, NEW e, e = Head(proofs), e.kind = "connect",
         NEW t, NEW bag, OK(t, proofs, events, bag), NEW u, u = ProofConnect(t, e)
  PROVE  OK(u, Tail(proofs), events, bag)
<1> DEFINE a == CloseAliased(t, e)
           b == CloseWindows(a, e.key, e.time, 0)
           c == DropPrefix(b, e)
           d == Replace(c, e)
<1>1. FlowsOK /\ Apart /\ ProofsOK /\ EventsOK
  BY DEF KernelInv
<1>2. e \in ProofRec /\ e = proofs[1] /\ 1 \in DOMAIN proofs /\ Sub(Tail(proofs), proofs)
  BY <1>1, HeadTail DEF ProofsOK
<1>3. /\ e.life \in DOMAIN flows /\ e.key = flows[e.life].key /\ e.tcb = flows[e.life].tcb /\ e.time = e.life
      /\ e.time \in Nat
  BY <1>1, <1>2 DEF ProofsOK, ProofRec
<1>4. OK(t, Tail(proofs), events, bag)
  <2>1. Sub(events, events)
    BY DEF Sub
  <2>. QED
    BY <1>2, <2>1, FewerOK
<1>5. u = t \/ u = AddConnection(d, e)
  BY DEF ProofConnect
<1>6. Still(t, a)
  BY <1>3, CloseAliasedStill DEF OK
<1> HIDE DEF a
<1>7. OK(a, proofs, events, bag) /\ ConnsOK(a)
  BY <1>6, StillOK DEF OK, Joint
<1>8. Spare(a, e.key, e.time, 0, events)
  <2> SUFFICES ASSUME NEW L \in Claimed(a) \ a.mistaken, L \in DOMAIN flows, flows[L].key = e.key, L < e.time
               PROVE  ~Up(L) /\ \A i \in DOMAIN events : events[i].life = L /\ Data(events[i]) => events[i].time < e.time
    BY DEF Spare
  <2>1. Follows(L, e.life)
    BY <1>3 DEF Follows
  <2>. QED
    BY <1>1, <1>3, <2>1, FollowedSpare
<1>9. OK(b, proofs, events, bag)
  <2>1. Timed(events)
    BY <1>1, EventsTimed
  <2>. QED
    BY <1>3, <1>7, <1>8, <2>1, CloseWindowsOK
<1> HIDE DEF b
<1>10. OK(c, proofs, events, bag)
  <2>1. Quiet(b, c)
    BY <1>9, DropPrefixQuiet DEF OK
  <2>. QED
    BY <1>9, <2>1, QuietOK
<1> HIDE DEF c
<1>11. OK(d, proofs, events, bag) /\ e.tcb \notin DOMAIN d.conn
  BY <1>1, <1>2, <1>3, <1>10, ReplaceOK
<1> HIDE DEF d
<1>. QED
  BY <1>1, <1>4, <1>5, <1>11, AddConnectionOK

-----------------------------------------------------------------------------
(* The other proof events.                                                 *)
LEMMA OriginChangeOK ==
  ASSUME NEW t, NEW queue, NEW late, NEW bag, OK(t, queue, late, bag), NEW x \in DOMAIN t.conn,
         NEW d, Rebased(t.conn[x], d), d.probe = t.conn[x].probe, NEW u, u = SetConn(t, x, d), NEW q, Sub(q, queue),
         OriginOK(d, q)
  PROVE  OK(u, q, late, bag)
<1>1. ProbeOK(t.conn[x], late) /\ TotalOK(t.legacy, t.conn[x], bag)
  BY DEF OK, Joint, ProbesOK, TotalsOK
<1>2. d.life = t.conn[x].life /\ d.key = t.conn[x].key
  BY DEF Rebased
<1>3. ProbeOK(d, late)
  BY <1>1, <1>2 DEF ProbeOK
<1>4. TotalOK(t.legacy, d, bag)
  BY <1>1, <1>2 DEF TotalOK
<1>. QED
  BY <1>3, <1>4, RebasedOK

\* The head of the proofs meets the connection of its control block.
Meets(t, e) ==
  /\ proofs # << >> /\ e = Head(proofs) /\ e.tcb \in DOMAIN t.conn /\ e.time >= t.conn[e.tcb].begin

LEMMA MeetsFacts ==
  ASSUME FlowsOK, Apart, ProofsOK, NEW t, NEW late, NEW bag, OK(t, proofs, late, bag), NEW e, Meets(t, e),
         NEW c, c = t.conn[e.tcb], NEW L, L = c.life
  PROVE  /\ e \in ProofRec /\ e = proofs[1] /\ 1 \in DOMAIN proofs /\ Sub(Tail(proofs), proofs)
         /\ c \in ConnRec /\ e.tcb \in DOMAIN t.conn /\ TrackerOK(t) /\ OK(t, Tail(proofs), late, bag)
         /\ e.life \in DOMAIN flows /\ L \in DOMAIN flows /\ L \in Nat /\ e.life \in Nat /\ e.time \in Nat
         /\ e.life <= e.time /\ L <= e.time
         /\ flows[L].key = c.key
         /\ L = e.life \/ (Follows(L, e.life) /\ L + 3 <= e.life)
<1>1. TrackerOK(t) /\ ConnsOK(t) /\ e.tcb \in DOMAIN t.conn
  BY DEF OK, Joint, Meets
<1>2. c \in ConnRec /\ L \in Nat /\ L <= e.time /\ L \in DOMAIN flows /\ flows[L].key = c.key /\ flows[L].tcb = e.tcb
  BY <1>1, ConnFacts DEF TrackerOK, ConnsOK, Meets
<1>3. e \in ProofRec /\ e = proofs[1] /\ 1 \in DOMAIN proofs /\ Sub(Tail(proofs), proofs)
  BY HeadTail DEF ProofsOK, Meets
<1>4. e.life \in DOMAIN flows /\ flows[e.life].tcb = e.tcb /\ e.life <= e.time
  BY <1>3 DEF ProofsOK
<1>5. e.life \in Nat /\ e.time \in Nat
  BY <1>3 DEF ProofRec
<1>6. OK(t, Tail(proofs), late, bag)
  <2>1. Sub(late, late)
    BY DEF Sub
  <2>. QED
    BY <1>3, <2>1, FewerOK
<1>7. ASSUME L # e.life PROVE Follows(L, e.life) /\ L + 3 <= e.life
  <2>1. CASE L < e.life
    BY <1>2, <1>4, <2>1 DEF Follows, FlowsOK
  <2>2. CASE e.life < L
    <3>1. Follows(e.life, L)
      BY <1>2, <1>4, <2>2 DEF Follows
    <3>2. e.time < L
      BY <1>2, <1>3, <1>4, <3>1 DEF Apart
    <3>. QED
      BY <1>2, <1>5, <3>2
  <2>. QED
    BY <1>2, <1>5, <1>7, <2>1, <2>2
<1>. QED
  BY <1>1, <1>2, <1>3, <1>4, <1>5, <1>6, <1>7

LEMMA EstablishedOK ==
  ASSUME CollectorInv, KernelInv, NEW t, NEW late, NEW bag, OK(t, proofs, late, bag), NEW e, Meets(t, e), e.kind = "established",
         NEW u, u = ProofEstablished(t, e, e.tcb)
  PROVE  OK(u, Tail(proofs), late, bag)
<1> DEFINE c == t.conn[e.tcb]
           L == c.life
           d == [c EXCEPT !.connected = TRUE, !.established = e.time]
<1>1. /\ e \in ProofRec /\ e = proofs[1] /\ 1 \in DOMAIN proofs /\ Sub(Tail(proofs), proofs)
      /\ c \in ConnRec /\ e.tcb \in DOMAIN t.conn /\ TrackerOK(t) /\ OK(t, Tail(proofs), late, bag)
      /\ e.life \in DOMAIN flows /\ L \in DOMAIN flows /\ L \in Nat /\ e.life \in Nat /\ e.time \in Nat
      /\ e.life <= e.time /\ L <= e.time
      /\ flows[L].key = c.key
      /\ L = e.life \/ (Follows(L, e.life) /\ L + 3 <= e.life)
  BY MeetsFacts DEF KernelInv
<1>2. CASE e.key # c.key
  <2>1. Still(t, u)
    BY <1>1, <1>2, RejectStill DEF ProofEstablished
  <2>. QED
    BY <1>1, <2>1, StillOK
<1>3. CASE e.key = c.key
  <2>1. u = SetConn(t, e.tcb, d)
    <3>1. [t EXCEPT !.conn[e.tcb].connected = TRUE, !.conn[e.tcb].established = e.time] = SetConn(t, e.tcb, d)
      BY Zenon DEF SetConn
    <3> HIDE DEF d
    <3>. QED
      BY <1>3, <3>1 DEF ProofEstablished
  <2>2. /\ Rebased(c, d) /\ d.probe = c.probe /\ d.haveSend = c.haveSend /\ d.sendOrigin = c.sendOrigin
        /\ d.haveReceive = c.haveReceive /\ d.receiveOrigin = c.receiveOrigin /\ d.life = L /\ d.established = e.time
    <3> DEFINE time == e.time
               d1 == [c EXCEPT !.connected = TRUE]
    <3>1. /\ Rebased(c, d1) /\ d1.probe = c.probe /\ d1.haveSend = c.haveSend /\ d1.sendOrigin = c.sendOrigin
          /\ d1.haveReceive = c.haveReceive /\ d1.receiveOrigin = c.receiveOrigin /\ d1.life = L
      BY <1>1 DEF Rebased, ConnRec
    <3>2. d = [d1 EXCEPT !.established = time] /\ time \in Nat /\ time = e.time
      BY <1>1
    <3> HIDE DEF d1, d, time
    <3>. QED
      BY <3>1, <3>2 DEF Rebased, ConnRec
  <2> HIDE DEF d
  <2>3. OriginOK(c, proofs)
    BY <1>1 DEF OK, Joint, OriginsOK
  <2>4. CASE L = e.life
    <3>1. Established(proofs, L)
      BY <1>1, <2>4 DEF Established
    <3>2. OriginOK(d, Tail(proofs))
      BY <2>2, <2>3, <3>1 DEF OriginOK
    <3>. QED
      BY <1>1, <2>1, <2>2, <3>2, OriginChangeOK
  <2>5. CASE Follows(L, e.life)
    <3>1. ~Up(L)
      BY <1>1, <2>5 DEF KernelInv, Apart
    <3>2. ASSUME NEW i \in DOMAIN reading.obs, ~reading.obs[i].closed, reading.obs[i].created = L
          PROVE  reading.obs[i].begin <= e.time
      <4>1. reading.obs[i].begin = reading.obs[i].end /\ reading.obs[i].end < e.life
        BY <1>1, <2>5, <3>2 DEF KernelInv, ReadingOK
      <4>2. reading.obs[i] \in Obs
        BY <3>2 DEF CollectorInv
      <4>3. reading.obs[i].end \in Nat
        BY <4>2 DEF Obs
      <4>. QED
        BY <1>1, <4>1, <4>3
    <3>3. Established(Tail(proofs), L) => Established(proofs, L)
      BY <1>1 DEF Established, Sub
    <3>4. OriginOK(d, Tail(proofs))
      BY <2>2, <2>3, <3>1, <3>2, <3>3 DEF OriginOK
    <3>. QED
      BY <1>1, <2>1, <2>2, <3>4, OriginChangeOK
  <2>. QED
    BY <1>1, <2>4, <2>5
<1>. QED
  BY <1>2, <1>3

LEMMA ModAgain ==
  ASSUME NEW n \in Nat \ {0}, NEW a \in Int
  PROVE  (a % n) % n = a % n /\ a % n \in Nat
<1>1. a % n \in 0 .. (n - 1)
  OBVIOUS
<1> DEFINE r == a % n
<1> HIDE DEF r
<1>2. r \in 0 .. (n - 1) => (0 * n + r) % n = r /\ 0 * n + r = r
  BY ModMultiple
<1>. QED
  BY <1>1, <1>2 DEF r

LEMMA SynOK ==
  ASSUME KernelInv, NEW t, NEW late, NEW bag, OK(t, proofs, late, bag), NEW e, Meets(t, e), e.kind = "syn",
         NEW u, u = ProofSyn(t, e, e.tcb)
  PROVE  OK(u, Tail(proofs), late, bag)
<1> DEFINE c == t.conn[e.tcb]
           L == c.life
           origin == (e.seq + 1) % Cycle
           d == [c EXCEPT !.sendOrigin = origin, !.haveSend = TRUE]
<1>1. /\ e \in ProofRec /\ e = proofs[1] /\ 1 \in DOMAIN proofs /\ Sub(Tail(proofs), proofs)
      /\ c \in ConnRec /\ e.tcb \in DOMAIN t.conn /\ TrackerOK(t) /\ OK(t, Tail(proofs), late, bag)
  BY MeetsFacts DEF KernelInv
<1>2. CASE c.haveSend /\ ~SameSequence(c.sendOrigin, e.seq + 1)
  <2>1. Still(t, u)
    BY <1>1, <1>2, RejectStill DEF ProofSyn
  <2>. QED
    BY <1>1, <2>1, StillOK
<1>3. CASE ~(c.haveSend /\ ~SameSequence(c.sendOrigin, e.seq + 1))
  <2>1. u = SetConn(t, e.tcb, d)
    <3>1. [t EXCEPT !.conn[e.tcb].sendOrigin = origin, !.conn[e.tcb].haveSend = TRUE] = SetConn(t, e.tcb, d)
      BY Zenon DEF SetConn
    <3> HIDE DEF d
    <3>. QED
      BY <1>3, <3>1 DEF ProofSyn
  <2>2. origin = SendOrigin % Cycle /\ origin \in Nat
    <3>1. origin = SendOrigin % Cycle
      BY <1>1 DEF KernelInv, ProofsOK
    <3>2. e.seq + 1 \in Int /\ Cycle \in Nat \ {0}
      BY <1>1, TcpPathsAssumption DEF ProofRec
    <3>. QED
      BY <3>1, <3>2, ModAgain
  <2> HIDE DEF origin
  <2>3. /\ Rebased(c, d) /\ d.probe = c.probe /\ d.sendOrigin = origin /\ d.haveReceive = c.haveReceive
        /\ d.receiveOrigin = c.receiveOrigin /\ d.life = L /\ d.connected = c.connected /\ d.established = c.established
    BY <1>1, <2>2 DEF Rebased, ConnRec
  <2> HIDE DEF d
  <2>4. OriginOK(c, Tail(proofs))
    BY <1>1 DEF OK, Joint, OriginsOK
  <2>5. OriginOK(d, Tail(proofs))
    BY <2>2, <2>3, <2>4 DEF OriginOK
  <2>. QED
    BY <1>1, <2>1, <2>3, <2>5, OriginChangeOK
<1>. QED
  BY <1>2, <1>3

LEMMA PeerSynOK ==
  ASSUME KernelInv, NEW t, NEW late, NEW bag, OK(t, proofs, late, bag), NEW e, Meets(t, e), e.kind = "receive",
         ~t.conn[e.tcb].connected, NEW u, u = ProofPeerSyn(t, e, e.tcb)
  PROVE  OK(u, Tail(proofs), late, bag)
<1> DEFINE c == t.conn[e.tcb]
           L == c.life
           origin == e.seq % Cycle
           d == [c EXCEPT !.receiveOrigin = origin, !.haveReceive = TRUE]
           out == [c EXCEPT !.eligible = FALSE]
           refused == e.bytes # 1 \/ (c.haveReceive /\ ~SameSequence(c.receiveOrigin, e.seq))
<1>1. /\ e \in ProofRec /\ e = proofs[1] /\ 1 \in DOMAIN proofs /\ Sub(Tail(proofs), proofs)
      /\ c \in ConnRec /\ e.tcb \in DOMAIN t.conn /\ TrackerOK(t) /\ OK(t, Tail(proofs), late, bag)
      /\ L \in Nat /\ e.life \in Nat /\ e.time \in Nat /\ e.life <= e.time /\ L <= e.time
      /\ L = e.life \/ (Follows(L, e.life) /\ L + 3 <= e.life)
  BY MeetsFacts DEF KernelInv
<1>4. e.time <= L + 1 => L = e.life
  BY <1>1
<1>2. CASE refused
  <2>1. u = SetConn(t, e.tcb, out)
    BY <1>2 DEF ProofPeerSyn, SetConn
  <2>2. ConnStep(c, c)
    BY <1>1, StepReflexive
  <2>3. ConnStep(c, out)
    BY <1>1, <2>2 DEF ConnStep, ConnRec
  <2> HIDE DEF out
  <2>4. Still(t, u)
    BY <1>1, <2>1, <2>3, SetConnStill
  <2>. QED
    BY <1>1, <2>4, StillOK
<1>3. CASE ~refused
  <2>1. u = SetConn(t, e.tcb, d)
    <3>1. [t EXCEPT !.conn[e.tcb].receiveOrigin = origin, !.conn[e.tcb].haveReceive = TRUE] = SetConn(t, e.tcb, d)
      BY Zenon DEF SetConn
    <3> HIDE DEF d
    <3>. QED
      BY <1>3, <3>1 DEF ProofPeerSyn
  <2>2. e.seq \in Int /\ Cycle \in Nat \ {0} /\ ReceiveOrigin \in Int
    BY <1>1, TcpPathsAssumption DEF ProofRec
  <2>3. origin \in Nat
    BY <2>2, ModAgain
  <2>4. Established(Tail(proofs), L) => origin = ReceiveOrigin % Cycle
    <3>1. SUFFICES ASSUME Established(Tail(proofs), L) PROVE origin = ReceiveOrigin % Cycle
      OBVIOUS
    <3>2. PICK i \in DOMAIN Tail(proofs) : Tail(proofs)[i].kind = "established" /\ Tail(proofs)[i].life = L
      BY <3>1 DEF Established
    <3>3. i + 1 \in DOMAIN proofs /\ Tail(proofs)[i] = proofs[i + 1] /\ 1 < i + 1
      BY <1>1, HeadTail DEF KernelInv, ProofsOK
    <3>4. proofs[i + 1].time = L + 1 /\ proofs[1].time <= proofs[i + 1].time
      BY <1>1, <3>2, <3>3 DEF KernelInv, ProofsOK
    <3>5. L = e.life
      BY <1>1, <1>4, <3>4
    <3>6. e.seq = ReceiveOrigin % Cycle
      BY <1>1, <3>2, <3>3, <3>5 DEF KernelInv, ProofsOK
    <3>. QED
      BY <2>2, <3>6, ModAgain
  <2> HIDE DEF origin
  <2>5. /\ Rebased(c, d) /\ d.probe = c.probe /\ d.receiveOrigin = origin /\ d.haveSend = c.haveSend
        /\ d.sendOrigin = c.sendOrigin /\ d.life = L /\ ~d.connected
    BY <1>1, <2>3 DEF Rebased, ConnRec
  <2> HIDE DEF d
  <2>6. OriginOK(c, Tail(proofs))
    BY <1>1 DEF OK, Joint, OriginsOK
  <2>7. OriginOK(d, Tail(proofs))
    BY <2>4, <2>5, <2>6 DEF OriginOK
  <2>. QED
    BY <1>1, <2>1, <2>5, <2>7, OriginChangeOK
<1>. QED
  BY <1>2, <1>3

LEMMA ProofCloseOK ==
  ASSUME KernelInv, NEW t, NEW bag, OK(t, proofs, events, bag), NEW e, Meets(t, e), e.kind = "close",
         NEW u, u = ProofClose(t, e, e.tcb)
  PROVE  OK(u, Tail(proofs), events, bag)
<1> DEFINE c == t.conn[e.tcb]
           L == c.life
           time == e.time
           d == [c EXCEPT !.closed = time]
           s == SetConn(t, e.tcb, d)
           v == CloseWindows(s, c.key, time, c.generation)
           queue == Tail(proofs)
<1>1. /\ e \in ProofRec /\ e = proofs[1] /\ 1 \in DOMAIN proofs
      /\ c \in ConnRec /\ e.tcb \in DOMAIN t.conn /\ TrackerOK(t) /\ OK(t, queue, events, bag)
      /\ e.life \in DOMAIN flows /\ L \in Nat /\ e.life \in Nat /\ e.time \in Nat /\ e.life <= e.time /\ L <= e.time
      /\ L \in DOMAIN flows /\ (L = e.life \/ (Follows(L, e.life) /\ L + 3 <= e.life))
  BY MeetsFacts DEF KernelInv
<1>2. CASE c.closed # 0
  BY <1>1, <1>2 DEF ProofClose
<1>3. CASE c.closed = 0
  <2>1. u = Fallback(v, e.tcb, FALSE)
    BY <1>3 DEF ProofClose, SetConn
  <2>2. time \in Nat /\ ConnStep(c, c) /\ c.generation # 0
    BY <1>1, StepReflexive DEF ConnRec
  <2>3. ConnStep(c, d)
    BY <1>1, <2>2 DEF ConnStep, ConnRec
  <2> HIDE DEF d
  <2>4. Still(t, s)
    <3>1. s = SetConn(t, e.tcb, d)
      OBVIOUS
    <3> HIDE DEF s
    <3>. QED
      BY <1>1, <2>3, <3>1, SetConnStill
  <2> HIDE DEF s
  <2>5. OK(s, queue, events, bag) /\ ConnsOK(s) /\ TrackerOK(s)
    <3>1. OK(s, queue, events, bag)
      BY <1>1, <2>4, StillOK
    <3>. QED
      BY <3>1 DEF OK, Joint
  <2>6. e.tcb \in DOMAIN s.conn /\ ConnStep(c, s.conn[e.tcb])
    BY <1>1, <2>4 DEF Still, Quiet, Fewer
  <2>7. ~Up(L) /\ \A i \in DOMAIN events : events[i].life = L /\ Data(events[i]) => events[i].time < time
    <3>1. CASE L = e.life
      BY <1>1, <3>1 DEF KernelInv, ProofsOK
    <3>2. CASE Follows(L, e.life)
      <4>1. ~Up(L) /\ \A i \in DOMAIN events : events[i].life = L => events[i].time < e.life
        BY <1>1, <3>2, FollowedSpare DEF KernelInv
      <4>2. \A i \in DOMAIN events : events[i].time \in Nat
        BY EventsTimed DEF KernelInv, Timed
      <4>. QED
        BY <1>1, <4>1, <4>2
    <3>. QED
      BY <1>1, <3>1, <3>2
  <2>8. Spare(s, c.key, time, c.generation, events)
    <3> SUFFICES ASSUME NEW M \in Claimed(s) \ s.mistaken,
                        \E z \in s.window : z.begin = M /\ z.generation = c.generation
                 PROVE  M = L
      BY <2>2, <2>7 DEF Spare
    <3>1. PICK z \in s.window : z.begin = M /\ z.generation = c.generation
      OBVIOUS
    <3>2. z.generation = s.conn[e.tcb].generation /\ s.conn[e.tcb].life = L
      BY <2>6, <3>1 DEF ConnStep
    <3>3. z.begin = s.conn[e.tcb].begin /\ s.conn[e.tcb].begin = s.conn[e.tcb].life
      BY <2>5, <2>6, <3>2 DEF TrackerOK
    <3>. QED
      BY <3>1, <3>2, <3>3
  <2>9. OK(v, queue, events, bag) /\ Apart4(s, v)
    <3>1. Timed(events)
      BY EventsTimed DEF KernelInv
    <3>. QED
      BY <2>2, <2>5, <2>8, <3>1, CloseWindowsOK
  <2> HIDE DEF v
  <2>10. TrackerOK(v) /\ e.tcb \in DOMAIN v.conn
    BY <2>6, <2>9 DEF OK, Apart4
  <2>11. Still(v, u)
    BY <2>1, <2>10, FallbackStill
  <2>. QED
    BY <2>9, <2>11, StillOK
<1>. QED
  BY <1>2, <1>3

LEMMA ProofKnownOK ==
  ASSUME CollectorInv, KernelInv, NEW t, NEW bag, OK(t, proofs, events, bag), NEW e, Meets(t, e),
         NEW u, u = ProofKnown(t, e, e.tcb)
  PROVE  OK(u, Tail(proofs), events, bag)
<1>1. /\ e \in ProofRec /\ e.tcb \in DOMAIN t.conn /\ TrackerOK(t) /\ OK(t, Tail(proofs), events, bag)
  BY MeetsFacts DEF KernelInv
<1>2. CASE u = ProofEstablished(t, e, e.tcb) /\ e.kind = "established"
  BY <1>2, EstablishedOK
<1>3. CASE u = ProofSyn(t, e, e.tcb) /\ e.kind = "syn"
  BY <1>3, SynOK
<1>4. CASE u = ProofClose(t, e, e.tcb) /\ e.kind = "close"
  BY <1>4, ProofCloseOK
<1>5. CASE u = ProofFin(t, e, e.tcb)
  BY <1>1, <1>5, ProofFinStill, StillOK
<1>6. CASE u = ProofPeerSyn(t, e, e.tcb) /\ e.kind = "receive" /\ ~t.conn[e.tcb].connected
  BY <1>6, PeerSynOK
<1>7. CASE u = ProofData(t, e, e.tcb)
  BY <1>1, <1>7, ProofDataStill, StillOK
<1>8. CASE u = t
  BY <1>1, <1>8
<1>9. e.kind \in ProofKinds
  BY <1>1 DEF ProofRec
<1>. QED
  BY <1>2, <1>3, <1>4, <1>5, <1>6, <1>7, <1>8, <1>9 DEF ProofKnown, ProofKinds

LEMMA OnProofOK ==
  ASSUME CollectorInv, KernelInv, proofs # << >>, NEW t, NEW bag, OK(t, proofs, events, bag),
         NEW u, u = OnProof(t, Head(proofs))
  PROVE  OK(u, Tail(proofs), events, bag)
<1> DEFINE e == Head(proofs)
           mark == Max2(t.proofMark, e.time)
           s == [t EXCEPT !.proofMark = mark]
<1>1. t \in Tracker /\ TrackerOK(t)
  BY DEF OK, TrackerOK
<1>2. e \in ProofRec /\ Sub(Tail(proofs), proofs)
  BY HeadTail DEF KernelInv, ProofsOK
<1>3. mark \in Nat
  BY <1>1, <1>2 DEF Max2, Tracker, ProofRec
<1> HIDE DEF mark
<1>4. Quiet(t, s) /\ s.conn = t.conn
  <2>1. /\ s \in Tracker /\ s.conn = t.conn /\ s.alias = t.alias /\ s.legacy = t.legacy /\ s.window = t.window
        /\ s.generation = t.generation /\ s.retiredBefore = t.retiredBefore /\ s.mistaken = t.mistaken /\ s.paid = t.paid
    BY <1>1, <1>3 DEF Tracker
  <2> HIDE DEF s
  <2>. QED
    BY <1>1, <2>1, PlainQuiet
<1>5. \/ u = t \/ u = s
      \/ u = ProofConnect(s, e) /\ e.kind = "connect"
      \/ u = ProofKnown(s, e, e.tcb) /\ e.tcb \in DOMAIN t.conn /\ e.time >= t.conn[e.tcb].begin
  BY DEF OnProof, mark
<1> HIDE DEF s
<1>6. OK(s, proofs, events, bag)
  BY <1>4, QuietOK
<1>7. OK(t, Tail(proofs), events, bag) /\ OK(s, Tail(proofs), events, bag)
  <2>1. Sub(events, events)
    BY DEF Sub
  <2>. QED
    BY <1>2, <1>6, <2>1, FewerOK
<1>8. CASE u = ProofConnect(s, e) /\ e.kind = "connect"
  BY <1>6, <1>8, ProofConnectOK
<1>9. CASE u = ProofKnown(s, e, e.tcb) /\ e.tcb \in DOMAIN t.conn /\ e.time >= t.conn[e.tcb].begin
  <2>1. Meets(s, e)
    BY <1>4, <1>9 DEF Meets
  <2> HIDE DEF e
  <2>. QED
    BY <1>6, <1>9, <2>1, ProofKnownOK
<1>. QED
  BY <1>5, <1>7, <1>8, <1>9

-----------------------------------------------------------------------------
(* A legacy event leaves the queue.                                        *)
Past(i, a) == IF a < i THEN a ELSE a + 1
Removed(s, i, r) ==
  \A a \in DOMAIN r : Past(i, a) \in DOMAIN s /\ Past(i, a) # i /\ r[a] = s[Past(i, a)]

LEMMA RemoveAtFacts ==
  ASSUME NEW S, NEW s \in Seq(S), NEW i \in DOMAIN s, NEW r, r = RemoveAt(s, i)
  PROVE  r \in Seq(S) /\ Removed(s, i, r) /\ Sub(r, s)
<1> DEFINE n == Len(s)
           left == SubSeq(s, 1, i - 1)
           right == SubSeq(s, i + 1, n)
<1>1. n \in Nat /\ i \in 1 .. n /\ DOMAIN s = 1 .. n
  OBVIOUS
<1>2. left \in Seq(S) /\ Len(left) = i - 1 /\ \A a \in 1 .. (i - 1) : left[a] = s[a]
  BY <1>1
<1>3. right \in Seq(S) /\ Len(right) = n - i /\ \A a \in 1 .. (n - i) : right[a] = s[a + i]
  <2>1. \A a \in (i + 1) .. n : s[a] \in S
    BY <1>1
  <2>2. i + 1 \in Int /\ n \in Int
    BY <1>1
  <2>3. /\ right \in Seq(S) /\ Len(right) = IF i + 1 <= n THEN n - (i + 1) + 1 ELSE 0
        /\ \A a \in 1 .. n - (i + 1) + 1 : right[a] = s[(i + 1) + a - 1]
    BY <2>1, <2>2, SubSeqProperties
  <2> HIDE DEF n, right
  <2>4. n \in Int /\ i \in Int /\ i <= n /\ n - (i + 1) + 1 = n - i
    BY <1>1
  <2>5. Len(right) = n - i
    BY <2>3, <2>4
  <2>6. ASSUME NEW a \in 1 .. (n - i) PROVE right[a] = s[a + i]
    <3>1. right[a] = s[(i + 1) + a - 1]
      BY <2>3, <2>4
    <3>2. (i + 1) + a - 1 = a + i
      BY <2>4
    <3>. QED
      BY <3>1, <3>2
  <2>. QED
    BY <2>3, <2>5, <2>6
<1>4. r = left \o right
  BY DEF RemoveAt
<1> HIDE DEF n, left, right
<1>5. r \in Seq(S) /\ DOMAIN r = 1 .. (n - 1)
      /\ \A a \in 1 .. (n - 1) : r[a] = IF a <= i - 1 THEN left[a] ELSE right[a - (i - 1)]
  BY <1>1, <1>2, <1>3, <1>4
<1>6. ASSUME NEW a \in 1 .. (n - 1) PROVE Past(i, a) \in 1 .. n /\ Past(i, a) # i /\ r[a] = s[Past(i, a)]
  <2>1. CASE a < i
    <3>1. a \in 1 .. (i - 1) /\ a <= i - 1 /\ Past(i, a) = a
      BY <1>1, <2>1 DEF Past
    <3>. QED
      BY <1>1, <1>2, <1>5, <2>1, <3>1
  <2>2. CASE ~(a < i)
    <3>1. a - (i - 1) \in 1 .. (n - i) /\ ~(a <= i - 1) /\ Past(i, a) = a + 1 /\ (a - (i - 1)) + i = a + 1
      BY <1>1, <2>2 DEF Past
    <3>2. r[a] = right[a - (i - 1)] /\ right[a - (i - 1)] = s[(a - (i - 1)) + i]
      BY <1>3, <1>5, <3>1
    <3>. QED
      BY <1>1, <2>2, <3>1, <3>2
  <2>. QED
    BY <2>1, <2>2
<1>7. Removed(s, i, r)
  BY <1>1, <1>5, <1>6 DEF Removed
<1>. QED
  BY <1>5, <1>7 DEF Removed, Sub

LEMMA PrefixOK ==
  ASSUME NEW s, NEW queue, NEW late, NEW bag, OK(s, queue, late, bag), NEW l, Sub(l, late),
         NEW new, new \in Partial(Slice, {1}), BelowPrefix(s, new),
         NEW key \in Key, NEW m \in Marker, MarkerOK(key, m, l),
         NEW legacy, legacy = With(s.legacy, key, m), \A x \in DOMAIN s.conn : TotalOK(legacy, s.conn[x], new),
         NEW u, u = [s EXCEPT !.legacy = legacy]
  PROVE  OK(u, queue, l, new)
<1>1. s \in Tracker /\ TrackerOK(s)
  BY DEF OK, TrackerOK
<1>2. legacy \in Partial(Key, Marker) /\ DOMAIN legacy = DOMAIN s.legacy \cup {key} /\ legacy[key] = m
      /\ \A k \in DOMAIN s.legacy : k # key => legacy[k] = s.legacy[k]
  <2>1. s.legacy \in Partial(Key, Marker)
    BY <1>1, TrackerFields
  <2>2. legacy \in Partial(Key, Marker)
    BY <2>1, PartialExtend DEF With
  <2>. QED
    BY <2>2 DEF With
<1>3. /\ u \in Tracker /\ u.conn = s.conn /\ u.alias = s.alias /\ u.window = s.window /\ u.paid = s.paid
      /\ u.retiredBefore = s.retiredBefore /\ u.mistaken = s.mistaken /\ u.generation = s.generation /\ u.legacy = legacy
  BY <1>1, <1>2 DEF Tracker
<1>4. TrackerOK(u)
  BY <1>1, <1>3 DEF TrackerOK
<1>5. Joint(s, queue, l, bag)
  <2>1. Sub(queue, queue)
    BY DEF Sub
  <2>. QED
    BY <2>1, FewerOK DEF OK
<1>6. ConnsOK(u) /\ Connects(u, queue)
  BY <1>3, <1>5 DEF Joint, ConnsOK, Connects
<1>7. GuardOK(u, l)
  BY <1>3, <1>5 DEF Joint, GuardOK, Guarded, Claimed
<1>8. BelowPrefix(u, new)
  BY <1>3 DEF BelowPrefix
<1>9. OriginsOK(u, queue) /\ ProbesOK(u, l)
  BY <1>3, <1>5 DEF Joint, OriginsOK, ProbesOK
<1>10. MarkersOK(u, l)
  BY <1>2, <1>3, <1>5 DEF Joint, MarkersOK
<1>11. TotalsOK(u, new)
  BY <1>3 DEF TotalsOK
<1>. QED
  BY <1>4, <1>6, <1>7, <1>8, <1>9, <1>10, <1>11 DEF OK, Joint

LEMMA EventFacts ==
  ASSUME FlowsOK, EventsOK, NEW i \in DOMAIN events, NEW e, e = events[i], NEW r, r = RemoveAt(events, i)
  PROVE  /\ e \in EventRec /\ e.life \in DOMAIN flows /\ e.key = flows[e.life].key /\ e.key \in Key /\ e.life \in Nat
         /\ 0 < e.life /\ e.life < e.time /\ e.time \in Nat /\ Sub(r, events)
         /\ \A a \in DOMAIN r : \E j \in DOMAIN events : j # i /\ r[a] = events[j]
<1>0. e \in EventRec
  BY DEF EventsOK
<1>1. e \in EventRec /\ e.life \in DOMAIN flows /\ e.key = flows[e.life].key /\ e.life < e.time
  BY <1>0 DEF EventsOK
<1>2. e.key \in Key /\ e.life \in Nat /\ e.time \in Nat
  BY <1>1 DEF EventRec
<1>3. 0 < e.life
  BY <1>1 DEF FlowsOK
<1>4. Removed(events, i, r) /\ Sub(r, events)
  BY RemoveAtFacts DEF EventsOK
<1>. QED
  BY <1>1, <1>2, <1>3, <1>4 DEF Removed

LEMMA BeginsNat ==
  ASSUME CollectorInv
  PROVE  \A j \in DOMAIN reading.obs : reading.obs[j] \in Obs /\ reading.obs[j].begin \in Nat
<1>1. reading.obs \in Seq(Obs)
  BY DEF CollectorInv
<1>2. \A j \in DOMAIN reading.obs : reading.obs[j] \in Obs
  BY <1>1
<1>. QED
  BY <1>2 DEF Obs

LEMMA LegacyOpenOK ==
  ASSUME CollectorInv, KernelInv, NEW t, NEW queue, NEW bag, OK(t, queue, events, bag), NEW i \in DOMAIN events,
         NEW e, e = events[i], e.kind = "open", NEW r, r = RemoveAt(events, i), NEW u, u = LegacyOpen(t, e)
  PROVE  OK(u, queue, r, bag)
<1> DEFINE M == e.life
           begin == MarkerOf(t, e.key).begin
           prior == e.key \in DOMAIN t.alias /\ t.conn[t.alias[e.key]].begin <= begin
           s == IF prior THEN LegacyEnds(t, e, t.alias[e.key]) ELSE t
           v == CloseWindows(s, e.key, e.time, 0)
           w == IF begin = 0 THEN t ELSE v
           m == [NoMarker EXCEPT !.life = M, !.begin = e.time]
           legacy == With(w.legacy, e.key, m)
<1>1. /\ e \in EventRec /\ M \in DOMAIN flows /\ e.key = flows[M].key /\ e.key \in Key /\ M \in Nat
      /\ 0 < M /\ M < e.time /\ e.time \in Nat /\ Sub(r, events)
      /\ \A a \in DOMAIN r : \E j \in DOMAIN events : j # i /\ r[a] = events[j]
  BY EventFacts DEF KernelInv
<1>2. TrackerOK(t) /\ e.time = M + 2 /\ bag \in Partial(Slice, {1})
  <2>1. e.time = M + 2
    <3>1. events[i].kind = "open" => events[i].time = events[i].life + 2
      BY DEF KernelInv, EventsOK
    <3>. QED
      BY <3>1
  <2>. QED
    BY <2>1 DEF OK
<1>3. CASE u = t
  <2>1. Sub(queue, queue)
    BY DEF Sub
  <2>. QED
    BY <1>1, <1>3, <2>1, FewerOK
<1>4. u = t \/ u = [w EXCEPT !.legacy = legacy]
  BY Zenon DEF LegacyOpen
<1>5. Still(t, s)
  <2>1. CASE prior
    <3>1. t.alias[e.key] \in DOMAIN t.conn
      BY <1>2, <2>1 DEF TrackerOK
    <3>. QED
      BY <1>1, <1>2, <2>1, <3>1, LegacyEndsStill
  <2>2. CASE ~prior
    BY <1>2, <2>2, StillReflexive
  <2>. QED
    BY <2>1, <2>2
<1> HIDE DEF s
<1>6. OK(s, queue, events, bag) /\ ConnsOK(s) /\ GuardOK(s, events) /\ s \in Tracker
  BY <1>5, StillOK DEF OK, Joint, TrackerOK
<1>7. Spare(s, e.key, e.time, 0, events)
  <2> SUFFICES ASSUME NEW L \in Claimed(s) \ s.mistaken, L \in DOMAIN flows, flows[L].key = e.key, L < e.time
               PROVE  ~Up(L) /\ \A j \in DOMAIN events : events[j].life = L /\ Data(events[j]) => events[j].time < e.time
    BY DEF Spare
  <2>1. L # M
    BY <1>6 DEF GuardOK
  <2>2. L \in Nat
    BY <1>6, ClaimedInt
  <2>3. ~(M < L)
    BY <1>1, <1>2, <2>2 DEF KernelInv, FlowsOK
  <2>4. Follows(L, M)
    BY <1>1, <2>1, <2>2, <2>3 DEF Follows
  <2>5. ~Up(L) /\ \A j \in DOMAIN events : events[j].life = L => events[j].time < M
    BY <1>1, <2>4, FollowedSpare DEF KernelInv
  <2>6. \A j \in DOMAIN events : events[j].time \in Nat
    BY EventsTimed DEF KernelInv, Timed
  <2>. QED
    BY <1>1, <2>5, <2>6
<1>8. OK(v, queue, events, bag)
  <2>1. Timed(events)
    BY EventsTimed DEF KernelInv
  <2>. QED
    BY <1>1, <1>6, <1>7, <2>1, CloseWindowsOK
<1>9. OK(w, queue, events, bag)
  BY <1>8
<1> HIDE DEF w
<1>10. m \in Marker /\ m.life = M /\ m.begin = e.time
  BY <1>1 DEF NoMarker, Marker
<1> HIDE DEF m
<1>11. MarkerOK(e.key, m, r)
  <2>1. \A j \in DOMAIN events : j # i /\ events[j].life = M => events[j].kind # "open"
    BY DEF KernelInv, EventsOK
  <2>. QED
    BY <1>1, <1>2, <1>10, <2>1 DEF MarkerOK
<1>12. DOMAIN legacy = DOMAIN w.legacy \cup {e.key} /\ legacy[e.key] = m
       /\ \A k \in DOMAIN w.legacy : k # e.key => legacy[k] = w.legacy[k]
  BY DEF With
<1>13. ASSUME NEW x \in DOMAIN w.conn PROVE TotalOK(legacy, w.conn[x], bag)
  <2>1. TotalOK(w.legacy, w.conn[x], bag) /\ ProbeOK(w.conn[x], events)
    BY <1>9 DEF OK, Joint, TotalsOK, ProbesOK
  <2>2. CASE w.conn[x].key # e.key
    BY <1>12, <2>1, <2>2 DEF TotalOK
  <2>3. CASE w.conn[x].life # M /\ w.conn[x].key = e.key
    BY <1>10, <1>12, <2>3 DEF TotalOK
  <2>4. CASE w.conn[x].life = M /\ w.conn[x].key = e.key
    <3>1. w.conn[x].probe.end # 0 =>
            \A j \in DOMAIN reading.obs : ~reading.obs[j].closed /\ reading.obs[j].created = M =>
                                            reading.obs[j].begin <= w.conn[x].probe.end
      BY <2>1, <2>4 DEF ProbeOK
    <3>2. \A j \in DOMAIN reading.obs : reading.obs[j].begin \in Nat
      BY BeginsNat
    <3>3. w.conn[x].probe.end \in Nat
      BY <1>9, ConnFacts DEF OK, ConnRec, ProbeRec
    <3>. QED
      BY <2>4, <3>1, <3>2, <3>3 DEF TotalOK
  <2>. QED
    BY <2>2, <2>3, <2>4
<1> HIDE DEF legacy
<1>14. CASE u = [w EXCEPT !.legacy = legacy]
  <2>1. BelowPrefix(w, bag)
    BY <1>9 DEF OK, Joint
  <2>. QED
    BY <1>1, <1>2, <1>9, <1>10, <1>11, <1>13, <1>14, <2>1, PrefixOK DEF legacy
<1>. QED
  BY <1>3, <1>4, <1>14

LEMMA BagGrowsOK ==
  ASSUME NEW s, NEW queue, NEW late, NEW bag, OK(s, queue, late, bag),
         NEW new \in Partial(Slice, {1}), BelowPrefix(s, new), TotalsOK(s, new)
  PROVE  OK(s, queue, late, new)
  BY DEF OK, Joint

LEMMA CountLegacyOK ==
  ASSUME CollectorInv, KernelInv, NEW t, NEW queue, OK(t, queue, events, kept), NEW i \in DOMAIN events,
         NEW e, e = events[i], Data(e), ~(e.time < t.retiredBefore), ~Suppressed(t, e),
         NEW r, r = RemoveAt(events, i), NEW u, u = CountLegacy(t, e), NEW new, new = kept (+) SetToBag(Counted(e))
  PROVE  OK(u, queue, r, new)
<1> DEFINE L == e.life
           b0 == <<e.life, e.kind, e.at>>
           old == MarkerOf(t, e.key)
           m == Counting(old, e)
           legacy == With(t.legacy, e.key, m)
<1>1. /\ e \in EventRec /\ L \in DOMAIN flows /\ e.key = flows[L].key /\ e.key \in Key /\ L \in Nat
      /\ 0 < L /\ L < e.time /\ e.time \in Nat /\ Sub(r, events)
      /\ \A a \in DOMAIN r : \E j \in DOMAIN events : j # i /\ r[a] = events[j]
  BY EventFacts DEF KernelInv
<1>2. TrackerOK(t) /\ t \in Tracker /\ Joint(t, queue, events, kept) /\ kept \in Partial(Slice, {1})
  BY DEF OK, TrackerOK
<1>3. e.bytes = 1 /\ b0 \notin DOMAIN kept /\ b0 \in Slice /\ e.kind \in Dirs
  <2>1. events[i].bytes = 1 /\ <<events[i].life, events[i].kind, events[i].at>> \notin DOMAIN kept
    BY DEF KernelInv, EventsOK
  <2>2. e.at \in Nat /\ e.kind \in Dirs
    BY <1>1 DEF EventRec, Data
  <2>. QED
    BY <1>1, <2>1, <2>2 DEF Slice
<1>4. new \in Partial(Slice, {1}) /\ DOMAIN new = DOMAIN kept \cup {b0}
  <2>1. new = kept (+) SetToBag({b0})
    BY <1>3 DEF Counted
  <2> HIDE DEF b0
  <2>. QED
    BY <1>2, <1>3, <2>1, BagSumFacts
<1>5. L \in t.mistaken \/ L \notin Claimed(t)
  <2>1. SUFFICES ASSUME L \in Claimed(t) \ t.mistaken PROVE FALSE
    OBVIOUS
  <2>2. Guarded(t, L, e)
    BY <1>2, <2>1 DEF Joint, GuardOK
  <2>3. PICK w \in t.window : w.key = e.key /\ w.begin = L /\ (w.end = 0 \/ e.time < w.end)
    BY <2>2 DEF Guarded
  <2>4. e.time >= w.begin
    BY <1>1, <2>3
  <2>. QED
    BY <2>3, <2>4 DEF Suppressed
<1>6. BelowPrefix(t, new)
  <2>1. BelowPrefix(t, kept)
    BY <1>2 DEF Joint
  <2>2. L \notin t.mistaken => b0 \notin DOMAIN t.paid /\ \A x \in DOMAIN t.conn : ~(t.conn[x].life = L /\ t.conn[x].switched)
    BY <1>5 DEF Claimed
  <2>3. b0[1] = L
    OBVIOUS
  <2> HIDE DEF b0, L
  <2>. QED
    BY <1>4, <2>1, <2>2, <2>3 DEF BelowPrefix
<1>7. \A x \in DOMAIN t.conn : t.conn[x].life = L => t.conn[x].key = e.key
  BY <1>1, <1>2 DEF Joint, ConnsOK
<1>8. CASE ~MarkerRoom(t, e.key)
  <2>1. u = [t EXCEPT !.healthy = FALSE]
    BY <1>8 DEF CountLegacy
  <2>2. Quiet(t, u) /\ u.conn = t.conn /\ u.legacy = t.legacy /\ u.paid = t.paid /\ u.mistaken = t.mistaken
    <3>1. /\ u \in Tracker /\ u.conn = t.conn /\ u.alias = t.alias /\ u.legacy = t.legacy /\ u.window = t.window
          /\ u.generation = t.generation /\ u.retiredBefore = t.retiredBefore /\ u.mistaken = t.mistaken
          /\ u.paid = t.paid
      BY <1>2, <2>1 DEF Tracker
    <3>. QED
      BY <1>2, <3>1, PlainQuiet
  <2>3. OK(u, queue, r, kept)
    <3>1. OK(u, queue, events, kept)
      BY <2>2, QuietOK
    <3>2. Sub(queue, queue)
      BY DEF Sub
    <3>. QED
      BY <1>1, <3>1, <3>2, FewerOK
  <2>4. TotalsOK(u, new)
    <3>1. TotalsOK(t, kept)
      BY <1>2 DEF Joint
    <3>2. e.key \notin DOMAIN t.legacy
      BY <1>8 DEF MarkerRoom
    <3>3. b0[1] = L
      OBVIOUS
    <3> HIDE DEF b0, L
    <3>. QED
      BY <1>4, <1>7, <2>2, <3>1, <3>2, <3>3 DEF TotalsOK, TotalOK
  <2>5. BelowPrefix(u, new)
    BY <1>6, <2>2 DEF BelowPrefix
  <2>. QED
    BY <1>4, <2>3, <2>4, <2>5, BagGrowsOK
<1>9. CASE MarkerRoom(t, e.key)
  <2>1. u = [t EXCEPT !.legacy = legacy]
    BY <1>9 DEF CountLegacy
  <2>2. old \in Marker /\ MarkerOK(e.key, old, events)
    <3>1. CASE e.key \in DOMAIN t.legacy
      BY <1>2, <3>1, TrackerFields DEF MarkerOf, Joint, MarkersOK
    <3>2. CASE e.key \notin DOMAIN t.legacy
      BY <3>2 DEF MarkerOf, NoMarker, Marker, MarkerOK
    <3>. QED
      BY <3>1, <3>2
  <2> HIDE DEF old
  <2>3. m \in Marker /\ m.life = old.life /\ m.begin = old.begin /\ m.counter >= e.time /\ m.counter >= old.counter
    <3>1. e.bytes \in Nat /\ old.counter \in Nat /\ old.rx \in Nat /\ old.tx \in Nat
      BY <1>1, <2>2 DEF EventRec, Marker
    <3> DEFINE counter == Max2(old.counter, e.time)
               rx == IF e.kind = "rx" THEN old.rx + e.bytes ELSE old.rx
               tx == IF e.kind = "tx" THEN old.tx + e.bytes ELSE old.tx
    <3>2. counter \in Nat /\ counter >= e.time /\ counter >= old.counter /\ rx \in Nat /\ tx \in Nat
      BY <1>1, <3>1 DEF Max2
    <3>3. m = [old EXCEPT !.counter = counter, !.rx = rx, !.tx = tx]
      BY DEF Counting
    <3> HIDE DEF counter, rx, tx, m
    <3>. QED
      BY <2>2, <3>2, <3>3 DEF Marker
  <2> HIDE DEF m
  <2>4. MarkerOK(e.key, m, r)
    BY <1>1, <2>2, <2>3 DEF MarkerOK, Sub
  <2>5. DOMAIN legacy = DOMAIN t.legacy \cup {e.key} /\ legacy[e.key] = m
        /\ \A k \in DOMAIN t.legacy : k # e.key => legacy[k] = t.legacy[k]
    BY DEF With
  <2>6. ASSUME NEW x \in DOMAIN t.conn PROVE TotalOK(legacy, t.conn[x], new)
    <3> DEFINE c == t.conn[x]
    <3>1. TotalOK(t.legacy, c, kept) /\ c.life \in DOMAIN flows
      BY <1>2 DEF Joint, TotalsOK, ConnsOK
    <3>2. CASE c.key # e.key
      <4>1. c.life # L /\ b0[1] = L
        BY <1>7, <3>2
      <4>2. \A b \in DOMAIN new : b[1] = c.life => b \in DOMAIN kept
        BY <1>4, <4>1
      <4>3. c.key \in DOMAIN legacy => c.key \in DOMAIN t.legacy /\ legacy[c.key] = t.legacy[c.key]
        BY <2>5, <3>2
      <4>4. SUFFICES ASSUME NEW j \in DOMAIN reading.obs, NEW b \in DOMAIN new, NEW s, s = reading.obs[j],
                            ~s.closed, s.created = c.life, b[1] = c.life, b[3] >= CountAt(s, b[2]),
                            c.probe.end # 0, s.begin > c.probe.end, c.key \in DOMAIN legacy, legacy[c.key].life = c.life
                     PROVE  legacy[c.key].counter >= s.begin
        BY DEF TotalOK
      <4> HIDE DEF c, b0, legacy, L
      <4>5. b \in DOMAIN kept /\ c.key \in DOMAIN t.legacy /\ legacy[c.key] = t.legacy[c.key]
        BY <4>2, <4>3, <4>4
      <4>. QED
        BY <3>1, <4>4, <4>5 DEF TotalOK
    <3>3. CASE c.key = e.key
      <4>0. 0 < c.life /\ c.life \in Nat
        <5>1. c.life \in Nat
          BY <1>2, ConnFacts
        <5>. QED
          BY <3>1, <5>1 DEF KernelInv, FlowsOK
      <4>1. SUFFICES ASSUME NEW j \in DOMAIN reading.obs, NEW b \in DOMAIN new, NEW s, s = reading.obs[j],
                            ~s.closed, s.created = c.life, b[1] = c.life, b[3] >= CountAt(s, b[2]),
                            c.probe.end # 0, s.begin > c.probe.end, c.key \in DOMAIN legacy, legacy[c.key].life = c.life
                     PROVE  legacy[c.key].counter >= s.begin
        BY DEF TotalOK
      <4>2. m.life = c.life /\ old.life # 0
        BY <2>3, <2>5, <3>3, <4>0, <4>1
      <4>3. e.key \in DOMAIN t.legacy /\ old = t.legacy[e.key]
        BY <4>2 DEF MarkerOf, NoMarker, old
      <4>4. s.begin \in Nat
        BY <4>1, BeginsNat
      <4>5. CASE b \in DOMAIN kept
        <5>1. old.counter >= s.begin
          BY <2>3, <3>1, <3>3, <4>1, <4>2, <4>3, <4>5 DEF TotalOK
        <5>2. old.counter \in Nat /\ m.counter \in Nat
          BY <2>2, <2>3 DEF Marker
        <5>. QED
          BY <2>3, <2>5, <3>3, <4>4, <5>1, <5>2
      <4>6. CASE b = b0
        <5>1. e.life = s.created /\ e.at >= CountAt(s, e.kind)
          BY <4>1, <4>6
        <5>2. e.time > s.begin
          <6>1. ReadingOK
            BY DEF KernelInv
          <6>. QED
            BY <4>1, <5>1, <6>1 DEF ReadingOK
        <5>3. m.counter \in Nat
          BY <2>3 DEF Marker
        <5>. QED
          BY <1>1, <2>3, <2>5, <3>3, <4>4, <5>2, <5>3
      <4>. QED
        BY <1>4, <4>5, <4>6
    <3>. QED
      BY <3>2, <3>3
  <2> HIDE DEF legacy
  <2>. QED
    BY <1>1, <1>2, <1>4, <1>6, <2>1, <2>3, <2>4, <2>6, PrefixOK DEF legacy
<1>. QED
  BY <1>8, <1>9

LEMMA QuietLessOK ==
  ASSUME NEW t, NEW queue, NEW late, NEW bag, OK(t, queue, late, bag), NEW u, Quiet(t, u), NEW l, Sub(l, late)
  PROVE  OK(u, queue, l, bag)
<1>1. OK(u, queue, late, bag)
  BY QuietOK
<1>2. Sub(queue, queue)
  BY DEF Sub
<1>. QED
  BY <1>1, <1>2, FewerOK

LEMMA KeepLegacyOK ==
  ASSUME CollectorInv, KernelInv, NEW t, NEW queue, OK(t, queue, events, kept), NEW i \in DOMAIN events,
         NEW endpoints \in BOOLEAN, NEW e, e = [events[i] EXCEPT !.endpoints = endpoints],
         NEW r, r = RemoveAt(events, i), NEW a, a = KeepLegacy(t, e),
         NEW new, new = IF a.fate = "keep" /\ e.endpoints THEN kept (+) SetToBag(Counted(e)) ELSE kept
  PROVE  OK(a.tracker, queue, r, new)
<1>1. TrackerOK(t) /\ kept \in Partial(Slice, {1})
  BY DEF OK
<1>2. /\ events[i] \in EventRec /\ events[i].time \in Nat /\ Sub(r, events) /\ events[i].endpoints
      /\ (~Data(events[i]) => events[i].bytes = 0)
  <2>1. events[i].endpoints /\ (~Data(events[i]) => events[i].bytes = 0)
    BY DEF KernelInv, EventsOK
  <2>. QED
    BY <2>1, EventFacts DEF KernelInv
<1>3. e.endpoints = endpoints /\ e.key = events[i].key
  BY <1>2 DEF EventRec
<1>4. ASSUME NEW s, Quiet(t, s) PROVE OK(Quarantine(s, e), queue, r, kept) /\ OK(s, queue, r, kept)
  <2>1. TrackerOK(s)
    BY <1>1, <1>4, QuietTracker
  <2>2. Quiet(s, Quarantine(s, e)) /\ OK(s, queue, events, kept)
    BY <1>4, <2>1, QuarantineStill, QuietOK DEF Still
  <2>3. OK(Quarantine(s, e), queue, r, kept)
    BY <1>2, <2>2, QuietLessOK
  <2>. QED
    BY <1>2, <1>4, <2>3, QuietLessOK
<1>5. CASE ~endpoints
  <2>1. new = kept
    BY <1>3, <1>5
  <2>2. Quiet(t, t)
    BY <1>1, QuietReflexive
  <2>3. a.tracker = t \/ a.tracker = Quarantine(t, e)
    BY <1>3, <1>5 DEF KeepLegacy, Refused, Answer
  <2>. QED
    BY <1>4, <2>1, <2>2, <2>3
<1>6. CASE endpoints
  <2> DEFINE s == IF e.kind = "close" THEN LegacyClose(t, e) ELSE t
             t1 == [s EXCEPT !.legacyMark = Max2(@, e.time)]
  <2>1. e = events[i]
    BY <1>2, <1>6 DEF EventRec
  <2>2. Quiet(t, s)
    BY <1>1, QuietReflexive, LegacyCloseQuiet
  <2>3. TrackerOK(s) /\ s \in Tracker
    BY <1>1, <2>2, QuietTracker DEF Quiet
  <2>4. a = KeepTimed(s, e)
    BY <1>3, <1>6 DEF KeepLegacy
  <2> HIDE DEF s
  <2>5. Quiet(s, t1) /\ t1.retiredBefore = s.retiredBefore
    <3>1. e.time \in Nat /\ s.legacyMark \in Nat
      BY <1>2, <2>1, <2>3 DEF Tracker
    <3>2. Max2(s.legacyMark, e.time) \in Nat
      BY <3>1 DEF Max2
    <3>3. /\ t1 \in Tracker /\ t1.conn = s.conn /\ t1.alias = s.alias /\ t1.legacy = s.legacy /\ t1.window = s.window
          /\ t1.generation = s.generation /\ t1.retiredBefore = s.retiredBefore /\ t1.mistaken = s.mistaken
          /\ t1.paid = s.paid
      BY <2>3, <3>2 DEF Tracker
    <3> HIDE DEF t1
    <3>. QED
      BY <2>3, <3>3, PlainQuiet
  <2>6. a = IF e.time < s.retiredBefore THEN Refused(s, e)
            ELSE IF e.kind = "open" THEN Answer(LegacyOpen(t1, e), "keep")
            ELSE IF e.kind = "close" THEN Answer(t1, "keep") ELSE KeepData(t1, e)
    BY <2>4, Zenon DEF KeepTimed
  <2> HIDE DEF t1
  <2>7. Quiet(t, t1) /\ OK(t1, queue, events, kept)
    <3>1. Quiet(t, t1)
      BY <1>1, <2>2, <2>5, QuietTransitive
    <3>. QED
      BY <3>1, QuietOK
  <2>8. ASSUME NEW z, Refused(z, e) = a PROVE a.tracker = Quarantine(z, e) /\ new = kept
    BY <2>8 DEF Refused, Answer
  <2>9. ~Data(e) => \A v, q, l : OK(v, q, l, kept) => OK(v, q, l, kept (+) SetToBag(Counted(e)))
    <3>1. SUFFICES ASSUME ~Data(e), NEW v, NEW q, NEW l, OK(v, q, l, kept) PROVE OK(v, q, l, kept (+) SetToBag(Counted(e)))
      OBVIOUS
    <3>2. Counted(e) = {}
      BY <1>2, <2>1, <3>1 DEF Counted
    <3>3. kept (+) SetToBag({}) \in Partial(Slice, {1}) /\ DOMAIN (kept (+) SetToBag({})) = DOMAIN kept \cup {}
      <4>1. {} \in SUBSET Slice /\ \A b \in {} : b \notin DOMAIN kept
        OBVIOUS
      <4>. QED
        BY <1>1, <4>1, BagSumFacts
    <3>. QED
      BY <3>1, <3>2, <3>3, BagOK
  <2>10. CASE e.time < s.retiredBefore
    <3>1. Refused(s, e) = a
      BY <2>6, <2>10
    <3>. QED
      BY <1>4, <2>2, <2>8, <3>1
  <2>11. CASE ~(e.time < s.retiredBefore) /\ e.kind = "open"
    <3>1. a.tracker = LegacyOpen(t1, e) /\ new = kept (+) SetToBag(Counted(e))
      BY <1>3, <1>6, <2>6, <2>11 DEF Answer
    <3>2. OK(LegacyOpen(t1, e), queue, r, kept)
      BY <1>1, <2>1, <2>7, <2>11, LegacyOpenOK
    <3>. QED
      BY <2>9, <2>11, <3>1, <3>2 DEF Data, Dirs
  <2>12. CASE ~(e.time < s.retiredBefore) /\ e.kind = "close"
    <3>1. a.tracker = t1 /\ new = kept (+) SetToBag(Counted(e))
      BY <1>3, <1>6, <2>6, <2>12 DEF Answer
    <3>2. OK(t1, queue, r, kept)
      BY <1>4, <2>7
    <3>. QED
      BY <2>9, <2>12, <3>1, <3>2 DEF Data, Dirs
  <2>13. CASE ~(e.time < s.retiredBefore) /\ e.kind # "open" /\ e.kind # "close"
    <3>1. a = KeepData(t1, e)
      BY <2>6, <2>13
    <3>2. CASE Ambiguous(t1, e)
      <4>1. Refused(t1, e) = a
        BY <3>1, <3>2 DEF KeepData
      <4>. QED
        BY <1>4, <2>7, <2>8, <4>1
    <3>3. CASE ~Ambiguous(t1, e) /\ Suppressed(t1, e)
      <4>1. a.tracker = t1 /\ new = kept
        BY <3>1, <3>3 DEF KeepData, Answer
      <4>. QED
        BY <1>4, <2>7, <4>1
    <3>4. CASE ~Ambiguous(t1, e) /\ ~Suppressed(t1, e)
      <4>1. a.tracker = CountLegacy(t1, e) /\ new = kept (+) SetToBag(Counted(e))
        BY <1>3, <1>6, <3>1, <3>4 DEF KeepData, Answer
      <4>2. Data(e)
        BY <1>2, <2>1, <2>13 DEF EventRec, Data, Dirs
      <4>3. ~(e.time < t1.retiredBefore)
        BY <2>5, <2>13
      <4>. QED
        BY <2>1, <2>7, <3>4, <4>1, <4>2, <4>3, CountLegacyOK
    <3>. QED
      BY <3>2, <3>3, <3>4
  <2>. QED
    BY <2>10, <2>11, <2>12, <2>13
<1>. QED
  BY <1>5, <1>6

-----------------------------------------------------------------------------
(* A switch: the window opens, and the prefix covers what is counted.      *)
Agreed(t, c, late, bag) ==
  /\ \A i \in DOMAIN late : late[i].life = c.life => late[i].kind # "open"
  /\ \A b \in DOMAIN bag : b[1] = c.life => b[3] < c[b[2]].seenPrefix

LEMMA SwitchOK ==
  ASSUME FlowsOK, NEW t, NEW queue, NEW late, NEW bag, OK(t, queue, late, bag), Timed(late),
         NEW x \in DOMAIN t.conn, NEW c, c = t.conn[x], ~c.switched, c.life \in t.mistaken \/ Agreed(t, c, late, bag),
         NEW s, ReadingTypes(s), NEW u, u = Switch(t, x, s)
  PROVE  OK(u, queue, late, bag)
<1> DEFINE rx == c.rx.seenPrefix
           tx == c.tx.seenPrefix
           d == [c EXCEPT !.state = "active", !.switched = TRUE, !.readEnd = s.end,
                          !.rx.prefix = rx, !.rx.confirmed = rx, !.tx.prefix = tx,
                          !.rxOffset = rx - s.received, !.txOffset = tx - s.acked, !.lastRx = s.rx, !.lastTx = s.tx]
           new == [key |-> c.key, begin |-> c.begin, end |-> 0, generation |-> c.generation]
           window == t.window \cup {new}
           v == SetConn(t, x, d)
<1>1. CASE Cardinality(t.window) >= MaxWindows
  BY <1>1 DEF Switch
<1>2. CASE ~(Cardinality(t.window) >= MaxWindows)
  <2>1. t \in Tracker /\ TrackerOK(t) /\ Joint(t, queue, late, bag) /\ c \in ConnRec /\ x \in Tcb
        /\ IsFiniteSet(t.window) /\ t.window \subseteq Window
    BY ConnFacts DEF OK, TrackerOK, Tracker
  <2>2. u = [t EXCEPT !.conn[x] = d, !.window = window]
    BY <1>2, Zenon DEF Switch
  <2>3. rx \in Nat /\ tx \in Nat /\ rx - s.received \in Int /\ tx - s.acked \in Int /\ s.end \in Nat /\ s.rx \in Nat
        /\ s.tx \in Nat /\ c.rx \in Direction /\ c.tx \in Direction /\ c.key \in Key /\ c.begin \in Nat
        /\ c.generation \in Nat /\ c.life \in Nat
    BY <2>1 DEF ReadingTypes, ConnRec, Direction
  <2>4. /\ d \in ConnRec /\ d.key = c.key /\ d.life = c.life /\ d.generation = c.generation /\ d.begin = c.begin
        /\ d.switched /\ d.state = "active" /\ d.rx.credited = c.rx.credited /\ d.tx.credited = c.tx.credited
        /\ d.rx.prefix = rx /\ d.tx.prefix = tx
        /\ d.connected = c.connected /\ d.established = c.established /\ d.haveSend = c.haveSend
        /\ d.sendOrigin = c.sendOrigin /\ d.haveReceive = c.haveReceive /\ d.receiveOrigin = c.receiveOrigin
        /\ d.probe = c.probe
    <3> DEFINE newRx == [c.rx EXCEPT !.prefix = rx, !.confirmed = rx]
               newTx == [c.tx EXCEPT !.prefix = tx]
               one == [c EXCEPT !.state = "active", !.switched = TRUE, !.readEnd = s.end, !.rx = newRx, !.tx = newTx]
               rxOffset == rx - s.received
               txOffset == tx - s.acked
    <3>1. newRx \in Direction /\ newRx.prefix = rx /\ newRx.credited = c.rx.credited
          /\ newTx \in Direction /\ newTx.prefix = tx /\ newTx.credited = c.tx.credited
      BY <2>3 DEF Direction
    <3> HIDE DEF rx, tx, newRx, newTx, rxOffset, txOffset
    <3>2. /\ one \in ConnRec /\ one.key = c.key /\ one.life = c.life /\ one.generation = c.generation
          /\ one.begin = c.begin /\ one.switched /\ one.state = "active" /\ one.rx = newRx /\ one.tx = newTx
          /\ one.connected = c.connected /\ one.established = c.established /\ one.haveSend = c.haveSend
          /\ one.sendOrigin = c.sendOrigin /\ one.haveReceive = c.haveReceive /\ one.receiveOrigin = c.receiveOrigin
          /\ one.probe = c.probe
      BY <2>1, <2>3, <3>1 DEF ConnRec, States
    <3>3. d = [one EXCEPT !.rxOffset = rxOffset, !.txOffset = txOffset, !.lastRx = s.rx, !.lastTx = s.tx]
      <4>1. d = [c EXCEPT !.state = "active", !.switched = TRUE, !.readEnd = s.end,
                          !.rx = newRx, !.tx = newTx,
                          !.rxOffset = rxOffset, !.txOffset = txOffset, !.lastRx = s.rx, !.lastTx = s.tx]
        <5>1. {"rx", "tx"} \subseteq DOMAIN c
          BY <2>1 DEF ConnRec
        <5>. QED
          BY <5>1, Zenon DEF newRx, newTx, rxOffset, txOffset
      <4>. QED
        BY <2>1, <4>1 DEF ConnRec
    <3>4. rxOffset \in Int /\ txOffset \in Int
      BY <2>3 DEF rxOffset, txOffset
    <3> HIDE DEF d, one
    <3>. QED
      BY <2>3, <3>1, <3>2, <3>3, <3>4 DEF ConnRec
  <2> HIDE DEF d
  <2>5. new \in Window /\ new.key = c.key /\ new.begin = c.begin /\ new.end = 0 /\ new.generation = c.generation
    BY <2>3 DEF Window
  <2> HIDE DEF new
  <2>6. window \subseteq Window /\ IsFiniteSet(window)
    BY <2>1, <2>5, FS_AddElement
  <2>7. /\ v \in Tracker /\ DOMAIN v.conn = DOMAIN t.conn /\ v.conn[x] = d
        /\ \A y \in DOMAIN t.conn \ {x} : v.conn[y] = t.conn[y]
        /\ v.alias = t.alias /\ v.legacy = t.legacy /\ v.generation = t.generation
        /\ v.retiredBefore = t.retiredBefore /\ v.paid = t.paid /\ v.mistaken = t.mistaken
    BY <2>1, <2>4, SetConnFacts
  <2>8. u = [v EXCEPT !.window = window]
    BY <2>1, <2>2, Zenon DEF SetConn
  <2> HIDE DEF v
  <2>9. /\ u \in Tracker /\ DOMAIN u.conn = DOMAIN t.conn /\ u.conn[x] = d
        /\ \A y \in DOMAIN t.conn \ {x} : u.conn[y] = t.conn[y]
        /\ u.alias = t.alias /\ u.legacy = t.legacy /\ u.generation = t.generation
        /\ u.retiredBefore = t.retiredBefore /\ u.paid = t.paid /\ u.mistaken = t.mistaken
        /\ u.window = window
    BY <2>6, <2>7, <2>8 DEF Tracker
  <2>10. \A y \in DOMAIN t.conn : /\ u.conn[y].key = t.conn[y].key /\ u.conn[y].life = t.conn[y].life
                                  /\ u.conn[y].generation = t.conn[y].generation /\ u.conn[y].begin = t.conn[y].begin
    BY <2>4, <2>9
  <2>11. c.rx.credited = {} /\ c.tx.credited = {}
    BY <2>1 DEF TrackerOK
  <2>12. \A b \in DOMAIN t.paid : b[1] # c.life
    BY <2>1 DEF TrackerOK
  <2>13. TrackerOK(u)
    <3>1. \A k \in DOMAIN u.alias : u.alias[k] \in DOMAIN u.conn /\ u.conn[u.alias[k]].key = k
      BY <2>1, <2>9, <2>10 DEF TrackerOK
    <3>2. \A y \in DOMAIN u.conn : u.conn[y].begin = u.conn[y].life /\ u.conn[y].generation <= u.generation
      BY <2>1, <2>9, <2>10 DEF TrackerOK
    <3>3. \A y, z \in DOMAIN u.conn : u.conn[y].life = u.conn[z].life \/ u.conn[y].generation = u.conn[z].generation => y = z
      BY <2>1, <2>9, <2>10 DEF TrackerOK
    <3>4. \A w \in u.window : /\ w.generation <= u.generation
                              /\ \A y \in DOMAIN u.conn : w.generation = u.conn[y].generation => w.begin = u.conn[y].begin
      <4>1. \A w \in t.window : /\ w.generation <= t.generation
                                /\ \A y \in DOMAIN t.conn : w.generation = t.conn[y].generation => w.begin = t.conn[y].begin
        BY <2>1 DEF TrackerOK
      <4>2. /\ new.generation <= t.generation
            /\ \A y \in DOMAIN t.conn : new.generation = t.conn[y].generation => new.begin = t.conn[y].begin
        BY <2>1, <2>5 DEF TrackerOK
      <4>. QED
        BY <2>9, <2>10, <4>1, <4>2
    <3>5. \A b \in DOMAIN u.paid, y \in DOMAIN u.conn :
            b[1] = u.conn[y].life => u.conn[y].switched /\ b[3] \in Covered(u.conn[y][b[2]])
      BY <2>1, <2>4, <2>9, <2>12 DEF TrackerOK
    <3>6. \A y \in DOMAIN u.conn : (u.conn[y].switched => u.conn[y].state = "active") =>
                                     u.conn[y].rx.credited = {} /\ u.conn[y].tx.credited = {}
      BY <2>1, <2>4, <2>9, <2>11 DEF TrackerOK
    <3>. QED
      BY <2>6, <2>9, <3>1, <3>2, <3>3, <3>4, <3>5, <3>6 DEF TrackerOK
  <2>14. ConnsOK(u) /\ Connects(u, queue)
    BY <2>1, <2>9, <2>10 DEF Joint, ConnsOK, Connects
  <2>15. c.life \in DOMAIN flows /\ flows[c.life].key = c.key /\ c.begin = c.life
    BY <2>1 DEF Joint, ConnsOK, TrackerOK
  <2>16. GuardOK(u, late)
    <3>1. SUFFICES ASSUME NEW L \in Claimed(u) \ u.mistaken
                   PROVE  /\ \A i \in DOMAIN late : late[i].life = L => late[i].kind # "open" /\ (Data(late[i]) => Guarded(u, L, late[i]))
                          /\ Up(L) => \E w \in u.window : w.key = flows[L].key /\ w.begin = L /\ w.end = 0
      BY DEF GuardOK
    <3>2. CASE L = c.life
      <4>1. \A i \in DOMAIN late : late[i].life = L => late[i].kind # "open"
        BY <2>9, <3>1, <3>2 DEF Agreed
      <4>2. new \in u.window /\ new.key = flows[L].key /\ new.begin = L /\ new.end = 0
        BY <2>5, <2>9, <2>15, <3>2
      <4>3. \A i \in DOMAIN late : late[i].life = L => Guarded(u, L, late[i])
        BY <4>2 DEF Guarded, Timed
      <4>. QED
        BY <4>1, <4>2, <4>3
    <3>3. CASE L # c.life
      <4>1. L \in Claimed(t) \ t.mistaken
        BY <2>4, <2>9, <3>1, <3>3 DEF Claimed
      <4>2. \A i \in DOMAIN late : Guarded(t, L, late[i]) => Guarded(u, L, late[i])
        BY <2>9 DEF Guarded
      <4>. QED
        BY <2>1, <2>9, <4>1, <4>2 DEF Joint, GuardOK
    <3>. QED
      BY <3>2, <3>3
  <2>17. BelowPrefix(u, bag)
    <3>1. SUFFICES ASSUME NEW b \in DOMAIN bag, b[1] \notin t.mistaken, NEW y \in DOMAIN t.conn, u.conn[y].life = b[1],
                          u.conn[y].switched
                   PROVE  b[3] < u.conn[y][b[2]].prefix
      BY <2>1, <2>9 DEF BelowPrefix, Joint
    <3>2. CASE y = x
      <4>1. b[1] = c.life /\ u.conn[y] = d
        BY <2>4, <2>9, <3>1, <3>2
      <4>2. b[3] < c[b[2]].seenPrefix
        BY <3>1, <4>1 DEF Agreed
      <4>3. b[2] = "rx" \/ b[2] = "tx"
        <5>1. b \in Slice
          BY PartialElim DEF OK
        <5>. QED
          BY <5>1 DEF Slice, Dirs
      <4>. QED
        BY <2>4, <4>1, <4>2, <4>3
    <3>3. CASE y # x
      BY <2>1, <2>9, <3>1, <3>3 DEF BelowPrefix, Joint
    <3>. QED
      BY <3>2, <3>3
  <2>18. OriginsOK(u, queue) /\ ProbesOK(u, late) /\ MarkersOK(u, late) /\ TotalsOK(u, bag)
    <3>1. OriginsOK(t, queue) /\ ProbesOK(t, late) /\ MarkersOK(t, late) /\ TotalsOK(t, bag)
      BY <2>1 DEF Joint
    <3>2. OriginOK(c, queue) /\ ProbeOK(c, late) /\ TotalOK(t.legacy, c, bag)
      BY <3>1 DEF OriginsOK, ProbesOK, TotalsOK
    <3>3. OriginOK(d, queue)
      BY <2>4, <3>2 DEF OriginOK
    <3>4. ProbeOK(d, late)
      BY <2>4, <3>2 DEF ProbeOK
    <3>5. TotalOK(t.legacy, d, bag)
      BY <2>4, <3>2 DEF TotalOK
    <3>. QED
      BY <2>9, <3>1, <3>3, <3>4, <3>5 DEF OriginsOK, ProbesOK, TotalsOK, MarkersOK
  <2>. QED
    BY <2>13, <2>14, <2>16, <2>17, <2>18 DEF OK, Joint
<1>. QED
  BY <1>1, <1>2

(* A connection that agrees with a reading: it is the reading's own life,  *)
(* and its legacy totals belong to it or to a life after it.               *)
Sees(t, x, s) ==
  /\ x \in DOMAIN t.conn /\ \E i \in DOMAIN reading.obs : s = reading.obs[i]
  /\ ~s.closed /\ s.created = t.conn[x].life

LEMMA SeesFacts ==
  ASSUME CollectorInv, KernelInv, NEW t, NEW queue, OK(t, queue, events, kept), NEW x, NEW s, Sees(t, x, s)
  PROVE  /\ t.conn[x] \in ConnRec /\ t.conn[x].life \in DOMAIN flows /\ t.conn[x].life \in Nat /\ 0 < t.conn[x].life
         /\ flows[t.conn[x].life].key = t.conn[x].key /\ t.conn[x].begin = t.conn[x].life
         /\ s \in Obs /\ ReadingTypes(s) /\ s.begin = s.end /\ 0 < s.end /\ s.end <= clock
         /\ \A j \in DOMAIN reading.obs : ~reading.obs[j].closed => reading.obs[j].begin = s.begin
         /\ \A M \in DOMAIN flows : Follows(t.conn[x].life, M) => s.end < M
<1>1. PICK i \in DOMAIN reading.obs : s = reading.obs[i]
  BY DEF Sees
<1>2. s \in Obs
  BY <1>1, BeginsNat
<1>3. ReadingTypes(s)
  BY <1>2 DEF Obs, ReadingTypes
<1>4. t.conn[x] \in ConnRec /\ t.conn[x].life \in Nat /\ t.conn[x].begin = t.conn[x].life
  BY ConnFacts DEF OK, TrackerOK, Sees
<1>5. t.conn[x].life \in DOMAIN flows /\ flows[t.conn[x].life].key = t.conn[x].key
  BY DEF OK, Joint, ConnsOK, Sees
<1>6. 0 < t.conn[x].life
  BY <1>4, <1>5 DEF KernelInv, FlowsOK
<1>7. /\ s.begin = s.end /\ 0 < s.end /\ s.end <= clock
      /\ \A j \in DOMAIN reading.obs : ~reading.obs[j].closed => reading.obs[j].begin = s.begin
      /\ \A M \in DOMAIN flows : Follows(t.conn[x].life, M) => s.end < M
  <2>1. ReadingOK /\ ~s.closed /\ s.created = t.conn[x].life
    BY DEF KernelInv, Sees
  <2>. QED
    BY <1>1, <2>1 DEF ReadingOK
<1>. QED
  BY <1>2, <1>3, <1>4, <1>5, <1>6, <1>7

LEMMA AgreedMarker ==
  ASSUME CollectorInv, KernelInv, NEW t, NEW queue, OK(t, queue, events, kept), NEW x, NEW s, Sees(t, x, s),
         NEW c, c = t.conn[x], PrefixAgrees(t, c, s), NEW m, m = t.legacy[c.key]
  PROVE  /\ c.key \in DOMAIN t.legacy /\ m \in Marker /\ m.counter < s.begin
         /\ \/ m.life = c.life /\ \A i \in DOMAIN events : events[i].life = c.life => events[i].kind # "open"
            \/ m.life # c.life /\ ~Up(c.life)
<1>1. c.key \in DOMAIN t.legacy /\ m = MarkerOf(t, c.key) /\ m.begin >= c.begin /\ m.counter < s.begin
  BY DEF PrefixAgrees, MarkerOf
<1>2. m \in Marker /\ MarkerOK(c.key, m, events)
  <2>1. t \in Tracker /\ MarkersOK(t, events)
    BY DEF OK, TrackerOK, Joint
  <2>. QED
    BY <1>1, <2>1, TrackerFields DEF MarkersOK
<1>3. /\ c \in ConnRec /\ c.life \in DOMAIN flows /\ c.life \in Nat /\ 0 < c.life
      /\ flows[c.life].key = c.key /\ c.begin = c.life
  BY SeesFacts
<1>4. m.life # 0 /\ m.life \in Nat /\ m.begin \in Nat
  BY <1>1, <1>2, <1>3 DEF MarkerOK, Marker
<1>5. m.life \in DOMAIN flows /\ flows[m.life].key = c.key /\ m.begin = m.life + 2
      /\ \A i \in DOMAIN events : events[i].life = m.life => events[i].kind # "open"
  BY <1>2, <1>4 DEF MarkerOK
<1>6. CASE m.life = c.life
  BY <1>1, <1>2, <1>5, <1>6
<1>7. CASE m.life # c.life
  <2>1. ~(m.life < c.life)
    <3>1. SUFFICES ASSUME m.life < c.life PROVE FALSE
      OBVIOUS
    <3>2. m.life + 3 <= c.life
      BY <1>3, <1>5, <3>1 DEF KernelInv, FlowsOK
    <3>. QED
      BY <1>1, <1>3, <1>4, <1>5, <3>2
  <2>2. Follows(c.life, m.life)
    BY <1>3, <1>4, <1>5, <1>7, <2>1 DEF Follows
  <2>3. ~Up(c.life)
    BY <1>3, <1>5, <2>2 DEF KernelInv, Apart
  <2>. QED
    BY <1>1, <1>2, <1>7, <2>3
<1>. QED
  BY <1>6, <1>7

LEMMA ModAtMost ==
  ASSUME NEW n \in Nat \ {0}, NEW a \in Nat
  PROVE  a % n <= a
<1>1. a \div n \in Nat /\ a = n * (a \div n) + (a % n) /\ a % n \in Nat
  OBVIOUS
<1>2. n * (a \div n) >= 0
  BY <1>1
<1>. QED
  BY <1>1, <1>2

LEMMA PrefixCovers ==
  ASSUME CollectorInv, KernelInv, NEW t, NEW queue, OK(t, queue, events, kept), NEW x, NEW s, Sees(t, x, s),
         NEW c, c = t.conn[x], PrefixAgrees(t, c, s), c.connected, c.haveSend, c.haveReceive
  PROVE  \A dir \in Dirs : CountAt(s, dir) <= c[dir].seenPrefix
<1> DEFINE n == s.maximum - SendOrigin
           r == s.truth.rx
           f == flows[c.life]
<1>0. Cycle \in Nat \ {0} /\ SendOrigin \in Nat /\ ReceiveOrigin \in Nat
  BY TcpPathsAssumption
<1>1. /\ c \in ConnRec /\ c.life \in DOMAIN flows /\ c.rx.seenPrefix \in Nat /\ c.tx.seenPrefix \in Nat
      /\ c.sendOrigin \in Nat /\ c.receiveOrigin \in Nat /\ c.established \in Nat
      /\ s.maximum \in Nat /\ s.rcvNext \in Nat /\ s.begin \in Nat
  BY SeesFacts DEF ConnRec, Direction, ReadingTypes
<1>2. r \in Nat
  BY SeesFacts DEF Obs, TruthRec
<1>3. n >= 0 /\ n <= f.tx /\ r <= f.rx /\ s.rcvNext \in {ReceiveOrigin + r, ReceiveOrigin + r + 1}
  <2>1. PICK i \in DOMAIN reading.obs : s = reading.obs[i]
    BY DEF Sees
  <2>2. ReadingOK /\ ~s.closed /\ s.created = c.life
    BY DEF KernelInv, Sees
  <2>3. /\ CountAt(s, "rx") <= flows[c.life].rx /\ CountAt(s, "tx") <= flows[c.life].tx /\ CountAt(s, "tx") >= 0
        /\ s.rcvNext \in {ReceiveOrigin + s.truth.rx, ReceiveOrigin + s.truth.rx + 1}
    BY <2>1, <2>2 DEF ReadingOK
  <2>. QED
    BY <2>3 DEF CountAt
<1>4. f.rx <= f.room.rx /\ f.tx <= f.room.tx /\ f.room.rx + 1 < Cycle /\ f.room.tx < Cycle
      /\ f.rx \in Nat /\ f.tx \in Nat /\ f.room.rx \in Nat /\ f.room.tx \in Nat
  <2>1. f \in FlowRec
    <3>1. flows \in Partial(Nat, FlowRec)
      BY DEF KernelInv, FlowsOK
    <3>. QED
      BY <1>1, <3>1, PartialElim
  <2>2. f.rx <= f.room.rx /\ f.tx <= f.room.tx /\ f.room.rx + 1 < Cycle /\ f.room.tx < Cycle
    BY <1>1 DEF KernelInv, FlowsOK
  <2>. QED
    BY <2>1, <2>2 DEF FlowRec
<1>5. c.sendOrigin = SendOrigin % Cycle /\ c.receiveOrigin = ReceiveOrigin % Cycle
  <2>1. OriginOK(c, queue)
    BY DEF OK, Joint, OriginsOK, Sees
  <2>2. s.begin > c.established
    BY DEF PrefixAgrees
  <2>3. c.receiveOrigin = ReceiveOrigin % Cycle \/
          \A i \in DOMAIN reading.obs : ~reading.obs[i].closed /\ reading.obs[i].created = c.life =>
                                          reading.obs[i].begin <= c.established
    BY <2>1 DEF OriginOK
  <2>4. PICK i \in DOMAIN reading.obs : s = reading.obs[i]
    BY DEF Sees
  <2>5. ~s.closed /\ s.created = c.life /\ ~(s.begin <= c.established)
    BY <1>1, <2>2 DEF Sees
  <2>6. c.receiveOrigin = ReceiveOrigin % Cycle
    BY <2>3, <2>4, <2>5
  <2>. QED
    BY <2>1, <2>6 DEF OriginOK
<1> HIDE DEF f, n, r
<1>6. n <= c.tx.seenPrefix
  <2>1. n \in 0 .. (Cycle - 1)
    BY <1>0, <1>1, <1>3, <1>4 DEF n
  <2>2. s.maximum - c.sendOrigin = SendOrigin + n - (SendOrigin % Cycle)
    BY <1>0, <1>1, <1>5 DEF n
  <2>3. (s.maximum - c.sendOrigin) % Cycle = n
    BY <1>0, <2>1, <2>2, ModOffset
  <2>4. (s.maximum - c.sendOrigin) % Cycle = c.tx.seenPrefix % Cycle
    BY DEF PrefixAgrees, SameSequence
  <2>5. c.tx.seenPrefix % Cycle <= c.tx.seenPrefix
    BY <1>0, <1>1, ModAtMost
  <2>. QED
    BY <2>3, <2>4, <2>5
<1>7. r <= c.rx.seenPrefix
  <2> DEFINE k == s.rcvNext - ReceiveOrigin
  <2>1. k \in 0 .. (Cycle - 1) /\ r <= k /\ k \in Int
    BY <1>0, <1>1, <1>2, <1>3, <1>4
  <2>2. s.rcvNext - c.receiveOrigin = ReceiveOrigin + k - (ReceiveOrigin % Cycle)
    BY <1>0, <1>1, <1>5
  <2> HIDE DEF k
  <2>3. (s.rcvNext - c.receiveOrigin) % Cycle = k
    BY <1>0, <2>1, <2>2, ModOffset
  <2>4. (s.rcvNext - c.receiveOrigin) % Cycle = c.rx.seenPrefix % Cycle
    BY DEF PrefixAgrees, SameSequence
  <2>5. c.rx.seenPrefix % Cycle <= c.rx.seenPrefix
    BY <1>0, <1>1, ModAtMost
  <2>6. k <= c.rx.seenPrefix
    BY <2>3, <2>4, <2>5
  <2>. QED
    BY <1>1, <1>2, <2>1, <2>6
<1>. QED
  BY <1>6, <1>7 DEF Dirs, CountAt, n, r

(* A first agreement is a probe, a second one switches.                    *)
Trying(c, probe) == [c EXCEPT !.state = "probing", !.probe = probe]

LEMMA ProbeSetOK ==
  ASSUME CollectorInv, KernelInv, NEW t, OK(t, proofs, events, kept), NEW x, NEW s, Sees(t, x, s),
         NEW c, c = t.conn[x], ~c.switched, PrefixAgrees(t, c, s),
         NEW probe \in ProbeRec, probe.end = s.end,
         NEW d, d = Trying(c, probe), NEW u, u = SetConn(t, x, d)
  PROVE  OK(u, proofs, events, kept)
<1>1. /\ c \in ConnRec /\ s.begin = s.end /\ s.end <= clock /\ s.begin \in Nat
      /\ \A j \in DOMAIN reading.obs : ~reading.obs[j].closed => reading.obs[j].begin = s.begin
  BY SeesFacts DEF ReadingTypes
<1>2. /\ d \in ConnRec /\ d.key = c.key /\ d.life = c.life /\ d.generation = c.generation /\ d.begin = c.begin
      /\ d.switched = c.switched /\ d.rx = c.rx /\ d.tx = c.tx /\ d.probe = probe
      /\ d.connected = c.connected /\ d.established = c.established /\ d.haveSend = c.haveSend
      /\ d.sendOrigin = c.sendOrigin /\ d.haveReceive = c.haveReceive /\ d.receiveOrigin = c.receiveOrigin
  BY <1>1 DEF ConnRec, States, Trying
<1>3. Rebased(c, d)
  BY <1>2 DEF Rebased
<1>4. OriginOK(d, proofs)
  <2>1. OriginOK(c, proofs)
    BY DEF OK, Joint, OriginsOK, Sees
  <2>. QED
    BY <1>2, <2>1 DEF OriginOK
<1>5. ProbeOK(d, events)
  <2>1. (\A i \in DOMAIN events : events[i].life = c.life => events[i].kind # "open") \/ ~Up(c.life)
    BY AgreedMarker
  <2>2. \A i \in DOMAIN reading.obs : ~reading.obs[i].closed => reading.obs[i].begin <= d.probe.end
    BY <1>1, <1>2
  <2>. QED
    BY <1>1, <1>2, <2>1, <2>2 DEF ProbeOK
<1>6. TotalOK(t.legacy, d, kept)
  <2>1. \A i \in DOMAIN reading.obs : ~reading.obs[i].closed => ~(reading.obs[i].begin > d.probe.end)
    BY <1>1, <1>2
  <2>. QED
    BY <2>1 DEF TotalOK
<1>7. Sub(proofs, proofs)
  BY DEF Sub
<1>. QED
  BY <1>3, <1>4, <1>5, <1>6, <1>7, RebasedOK DEF Sees

LEMMA ObserveProbingOK ==
  ASSUME CollectorInv, KernelInv, NEW t, OK(t, proofs, events, kept), NEW x, NEW s, Sees(t, x, s),
         ~t.conn[x].switched, NEW u, u = ObserveProbing(t, x, s)
  PROVE  OK(u, proofs, events, kept)
<1> DEFINE c == t.conn[x]
           probe == [end |-> s.end, dataRx |-> s.rx, dataTx |-> s.tx, rx |-> c.rx.seenPrefix, tx |-> c.tx.seenPrefix]
           again == \/ c.probe.end = 0 \/ s.baseline \/ s.begin <= c.probe.end
                    \/ [probe EXCEPT !.end = 0] # [c.probe EXCEPT !.end = 0]
           cleared == [c EXCEPT !.probe.end = 0]
           seen == [c EXCEPT !.state = "probing", !.probe = probe]
           trying == [c EXCEPT !.state = "probing"]
           probing == SetConn(t, x, trying)
           compared == Compared(probing, c)
           reclaimed == ReclaimWindows(compared)
<1>0. t \in Tracker /\ TrackerOK(t) /\ x \in DOMAIN t.conn /\ c \in ConnRec /\ ConnStep(c, c)
  BY ConnFacts DEF OK, TrackerOK, Sees
<1>1. c.probe \in ProbeRec /\ probe \in ProbeRec /\ c.life \in Nat
  BY <1>0, SeesFacts DEF ConnRec, Direction, ReadingTypes, ProbeRec
<1>2. CASE ~PrefixAgrees(t, c, s)
  <2>1. u = SetConn(t, x, cleared)
    <3>1. u = [t EXCEPT !.conn[x].probe.end = 0]
      BY <1>2 DEF ObserveProbing
    <3>. QED
      BY <3>1, Zenon DEF SetConn
  <2>2. ConnStep(c, cleared)
    <3>1. [c.probe EXCEPT !.end = 0] \in ProbeRec /\ [c.probe EXCEPT !.end = 0].end = 0
      BY <1>1 DEF ProbeRec
    <3>2. cleared = [c EXCEPT !.probe = [c.probe EXCEPT !.end = 0]]
      BY <1>0, Zenon
    <3> DEFINE p == [c.probe EXCEPT !.end = 0]
    <3>3. p \in ProbeRec /\ p.end = 0 /\ cleared = [c EXCEPT !.probe = p]
      BY <3>1, <3>2
    <3> HIDE DEF p, cleared, c
    <3>4. /\ cleared \in ConnRec /\ cleared.probe = p
          /\ cleared.key = c.key /\ cleared.life = c.life /\ cleared.generation = c.generation /\ cleared.begin = c.begin
          /\ cleared.switched = c.switched /\ cleared.connected = c.connected /\ cleared.established = c.established
          /\ cleared.haveSend = c.haveSend /\ cleared.sendOrigin = c.sendOrigin
          /\ cleared.haveReceive = c.haveReceive /\ cleared.receiveOrigin = c.receiveOrigin
          /\ cleared.rx = c.rx /\ cleared.tx = c.tx /\ cleared.state = c.state
      BY <1>0, <3>3 DEF ConnRec
    <3>. QED
      BY <1>0, <3>3, <3>4 DEF ConnStep
  <2>3. Still(t, u)
    BY <1>0, <2>1, <2>2, SetConnStill
  <2>. QED
    BY <2>3, StillOK
<1>3. CASE PrefixAgrees(t, c, s) /\ again
  <2>1. u = SetConn(t, x, seen)
    <3>1. u = [[t EXCEPT !.conn[x].state = "probing"] EXCEPT !.conn[x].probe = probe]
      BY <1>3, Zenon DEF ObserveProbing
    <3> HIDE DEF probe
    <3>2. [[t EXCEPT !.conn[x].state = "probing"] EXCEPT !.conn[x].probe = probe] = SetConn(t, x, seen)
      BY <1>0, Zenon DEF SetConn, Tracker
    <3>. QED
      BY <3>1, <3>2
  <2>2. probe.end = s.end
    OBVIOUS
  <2>3. seen = Trying(c, probe) /\ ~c.switched /\ c = t.conn[x]
    BY DEF Trying
  <2> HIDE DEF probe, seen, c, again
  <2>. QED
    BY <1>1, <1>3, <2>1, <2>2, <2>3, ProbeSetOK
<1>4. CASE PrefixAgrees(t, c, s) /\ ~again
  <2>1. u = Switch(reclaimed, x, s)
    <3>1. u = Switch(ReclaimWindows(Compared([t EXCEPT !.conn[x].state = "probing"], c)), x, s)
      BY <1>4, Zenon DEF ObserveProbing
    <3>2. [t EXCEPT !.conn[x].state = "probing"] = probing
      BY <1>0, Zenon DEF SetConn
    <3>. QED
      BY <3>1, <3>2
  <2>2. /\ ConnStep(c, trying) /\ trying.closed = c.closed /\ trying.life = c.life /\ trying.switched = c.switched
        /\ trying.rx = c.rx /\ trying.tx = c.tx
    <3> HIDE DEF c
    <3>1. /\ trying \in ConnRec /\ trying.probe = c.probe
          /\ trying.key = c.key /\ trying.life = c.life /\ trying.generation = c.generation /\ trying.begin = c.begin
          /\ trying.switched = c.switched /\ trying.connected = c.connected /\ trying.established = c.established
          /\ trying.haveSend = c.haveSend /\ trying.sendOrigin = c.sendOrigin /\ trying.closed = c.closed
          /\ trying.haveReceive = c.haveReceive /\ trying.receiveOrigin = c.receiveOrigin
          /\ trying.rx = c.rx /\ trying.tx = c.tx
      BY <1>0 DEF ConnRec, States
    <3>2. ~c.switched
      BY DEF c
    <3> HIDE DEF trying
    <3>. QED
      BY <1>0, <3>1, <3>2 DEF ConnStep
  <2> HIDE DEF trying
  <2>3. Still(t, probing) /\ probing.conn[x] = trying /\ OK(probing, proofs, events, kept)
    <3>1. Still(t, probing) /\ probing.conn[x] = trying
      BY <1>0, <2>2, SetConnStill
    <3>. QED
      BY <3>1, StillOK
  <2>4. probing.legacy = t.legacy /\ DOMAIN probing.conn = DOMAIN t.conn /\ probing.mistaken = t.mistaken
        /\ probing \in Tracker
    BY <2>3 DEF Still, Quiet, Same
  <2> HIDE DEF probing
  <2>5. /\ OK(compared, proofs, events, kept) /\ compared.conn = probing.conn
        /\ c.life \in compared.mistaken \/ t.legacy[c.key].life = c.life
    <3>1. CASE t.legacy[c.key].life = c.life
      <4>1. compared = probing
        BY <2>4, <3>1 DEF Compared
      <4>. QED
        BY <2>3, <3>1, <4>1
    <3>2. CASE t.legacy[c.key].life # c.life
      <4>1. compared = [probing EXCEPT !.mistaken = probing.mistaken \cup {c.life}]
        BY <2>4, <3>2 DEF Compared
      <4>2. probing.mistaken \cup {c.life} \subseteq Nat /\ probing.mistaken \subseteq probing.mistaken \cup {c.life}
        BY <1>1, <2>4 DEF Tracker
      <4>3. OK(compared, proofs, events, kept)
        BY <2>3, <4>1, <4>2, MistakenOK
      <4>4. compared.conn = probing.conn /\ compared.mistaken = probing.mistaken \cup {c.life}
        BY <2>4, <4>1 DEF Tracker
      <4>. QED
        BY <4>3, <4>4
    <3>. QED
      BY <3>1, <3>2
  <2> HIDE DEF compared
  <2>6. Timed(events)
    BY EventsTimed DEF KernelInv
  <2>7. /\ OK(reclaimed, proofs, events, kept) /\ reclaimed.mistaken = compared.mistaken
        /\ x \in DOMAIN reclaimed.conn /\ reclaimed.conn[x] = trying
    <3>1. c.closed = 0
      BY <1>4 DEF PrefixAgrees
    <3>2. x \in DOMAIN compared.conn /\ compared.conn[x] = trying /\ compared.conn[x].closed = 0
      BY <1>0, <2>2, <2>3, <2>4, <2>5, <3>1
    <3>3. reclaimed = ReclaimWindows(compared)
      OBVIOUS
    <3> HIDE DEF reclaimed
    <3>. QED
      BY <2>5, <2>6, <3>2, <3>3, ReclaimOK
  <2> HIDE DEF reclaimed
  <2>8. c.life \in reclaimed.mistaken \/ Agreed(reclaimed, trying, events, kept)
    <3>1. SUFFICES ASSUME t.legacy[c.key].life = c.life PROVE Agreed(reclaimed, trying, events, kept)
      BY <2>5, <2>7
    <3>2. \A i \in DOMAIN events : events[i].life = c.life => events[i].kind # "open"
      BY <1>4, <3>1, AgreedMarker
    <3>3. ASSUME NEW b \in DOMAIN kept, b[1] = c.life PROVE b[3] < c[b[2]].seenPrefix
      <4>1. b \in Slice /\ b[2] \in Dirs /\ b[3] \in Nat
        <5>1. b \in Slice
          BY PartialElim DEF OK
        <5>. QED
          BY <5>1 DEF Slice
      <4>2. c.connected /\ c.haveSend /\ c.haveReceive /\ c.key \in DOMAIN t.legacy
        BY <1>4 DEF PrefixAgrees
      <4>3. CountAt(s, b[2]) <= c[b[2]].seenPrefix
        BY <1>4, <4>1, <4>2, PrefixCovers
      <4>4. t.legacy[c.key] \in Marker /\ t.legacy[c.key].counter < s.begin /\ t.legacy[c.key].counter \in Nat /\ s.begin \in Nat
        <5>1. t.legacy[c.key] \in Marker /\ t.legacy[c.key].counter < s.begin
          BY <1>4, AgreedMarker
        <5>2. s.begin \in Nat
          BY SeesFacts DEF ReadingTypes
        <5>. QED
          BY <5>1, <5>2 DEF Marker
      <4>5. c.probe.end # 0 /\ s.begin > c.probe.end
        <5>1. c.probe.end # 0 /\ ~(s.begin <= c.probe.end)
          BY <1>4
        <5>2. c.probe.end \in Nat /\ s.begin \in Nat
          BY <1>1, SeesFacts DEF ProbeRec, ReadingTypes
        <5>. QED
          BY <5>1, <5>2
      <4>6. ~(b[3] >= CountAt(s, b[2]))
        <5>1. PICK j \in DOMAIN reading.obs : s = reading.obs[j]
          BY DEF Sees
        <5>2. TotalOK(t.legacy, c, kept)
          BY DEF OK, Joint, TotalsOK, Sees
        <5>3. ~s.closed /\ s.created = c.life
          BY DEF Sees
        <5>4. ~(t.legacy[c.key].counter >= s.begin)
          BY <4>4
        <5> HIDE DEF c
        <5>. QED
          BY <3>1, <3>3, <4>2, <4>5, <5>1, <5>2, <5>3, <5>4 DEF TotalOK
      <4>7. CountAt(s, b[2]) \in Int /\ c[b[2]].seenPrefix \in Nat
        <5>0. SendOrigin \in Nat
          BY TcpPathsAssumption
        <5>1. s.truth.rx \in Nat /\ s.maximum \in Nat /\ SendOrigin \in Nat
          BY <5>0, SeesFacts DEF Obs, TruthRec
        <5>2. c[b[2]] \in Direction
          BY <1>0, <4>1, DirFacts
        <5>. QED
          BY <5>1, <5>2 DEF CountAt, Direction
      <4>. QED
        BY <4>1, <4>3, <4>6, <4>7
    <3>4. \A dir \in Dirs : trying[dir] = c[dir]
      BY <2>2 DEF Dirs
    <3>5. \A b \in DOMAIN kept : b[2] \in Dirs
      <4>1. \A b \in DOMAIN kept : b \in Slice
        BY PartialElim DEF OK
      <4>. QED
        BY <4>1 DEF Slice
    <3>. QED
      BY <2>2, <3>2, <3>3, <3>4, <3>5 DEF Agreed
  <2>9. ReadingTypes(s) /\ ~trying.switched /\ trying.life = c.life
    BY <2>2, SeesFacts
  <2>. QED
    BY <2>1, <2>6, <2>7, <2>8, <2>9, SwitchOK DEF KernelInv
<1>. QED
  BY <1>2, <1>3, <1>4

(* One reading, and all the readings of a poll.                            *)
Owning(c, s) == [c EXCEPT !.owned = TRUE, !.estats = s.generation, !.context = s.created]

LEMMA OwningStep ==
  ASSUME NEW c \in ConnRec, NEW s, ReadingTypes(s), NEW d, d = Owning(c, s)
  PROVE  ConnStep(c, d)
<1>1. s.generation \in Nat /\ s.created \in Nat
  BY DEF ReadingTypes
<1>2. /\ d \in ConnRec /\ d.probe = c.probe
      /\ d.key = c.key /\ d.life = c.life /\ d.generation = c.generation /\ d.begin = c.begin
      /\ d.switched = c.switched /\ d.connected = c.connected /\ d.established = c.established
      /\ d.haveSend = c.haveSend /\ d.sendOrigin = c.sendOrigin
      /\ d.haveReceive = c.haveReceive /\ d.receiveOrigin = c.receiveOrigin
      /\ d.rx = c.rx /\ d.tx = c.tx /\ d.state = c.state
  BY <1>1 DEF Owning, ConnRec
<1>3. DirStep(c.rx, c.rx) /\ DirStep(c.tx, c.tx)
  BY StepReflexive DEF ConnStep
<1>. QED
  BY <1>2, <1>3 DEF ConnStep

Early(c, s) == s.end # 0 /\ s.end < c.begin

LEMMA ReadingOwner ==
  ASSUME CollectorInv, KernelInv, NEW t, OK(t, proofs, events, kept), NEW i \in DOMAIN reading.obs,
         NEW s, s = reading.obs[i], NEW x \in DOMAIN t.conn, NEW c, c = t.conn[x], c.key = s.key,
         SameOwner(c, s), ~s.closed, ~Early(c, s)
  PROVE  s.created = c.life
<1>1. c.life \in Nat /\ c.begin = c.life
  BY ConnFacts DEF OK, TrackerOK
<1>2. ReadingOK /\ c.life \in DOMAIN flows /\ flows[c.life].key = c.key
  BY DEF KernelInv, OK, Joint, ConnsOK
<1>3. /\ 0 < s.end /\ s.created \in DOMAIN flows /\ flows[s.created].key = s.key
      /\ \A M \in DOMAIN flows : Follows(s.created, M) => s.end < M
  BY <1>2 DEF ReadingOK
<1>4. s.created \in Nat /\ s.end \in Nat
  BY BeginsNat DEF Obs
<1>5. s.created <= c.life /\ s.end >= c.life
  <2>1. s.created <= c.begin
    BY DEF SameOwner
  <2>. QED
    BY <1>1, <1>3, <1>4, <2>1 DEF Early
<1>6. SUFFICES ASSUME s.created < c.life PROVE FALSE
  BY <1>1, <1>4, <1>5
<1>7. Follows(s.created, c.life)
  BY <1>2, <1>3, <1>6 DEF Follows
<1>8. s.end < c.life
  BY <1>2, <1>3, <1>7
<1>. QED
  BY <1>1, <1>4, <1>5, <1>8

LEMMA ObserveReadingOK ==
  ASSUME CollectorInv, KernelInv, NEW t, OK(t, proofs, events, kept), NEW i \in DOMAIN reading.obs,
         NEW s, s = reading.obs[i], NEW x \in DOMAIN t.conn, NEW c, c = t.conn[x], c.key = s.key,
         SameOwner(c, s), ~s.closed, ~Early(c, s),
         NEW owned, owned = Owning(c, s), NEW t1, t1 = SetConn(t, x, owned), NEW v, v = Confirm(t1, x, s),
         NEW u, u = ObserveReading(v, x, s)
  PROVE  OK(u, proofs, events, kept)
<1>0. t \in Tracker /\ TrackerOK(t) /\ c \in ConnRec
  BY ConnFacts DEF OK, TrackerOK
<1>1. s \in Obs
  BY BeginsNat
<1>2. ReadingTypes(s) /\ s.received \in Nat
  BY <1>1 DEF Obs, ReadingTypes
<1>3. Still(t, t1)
  BY <1>0, <1>2, OwningStep, SetConnStill
<1>4. TrackerOK(t1) /\ x \in DOMAIN t1.conn
  BY <1>0, <1>3, QuietTracker DEF Still
<1>5. Still(t1, v)
  BY <1>2, <1>4, ConfirmStill
<1>6. Still(t, v)
  BY <1>0, <1>3, <1>5, StillTransitive
<1>7. OK(v, proofs, events, kept) /\ TrackerOK(v) /\ x \in DOMAIN v.conn
  BY <1>6, StillOK DEF Still, OK
<1>8. v.conn[x].life = c.life
  <2>1. ConnStep(c, v.conn[x])
    BY <1>6, <1>7 DEF Still, Quiet, Fewer
  <2>. QED
    BY <2>1, Zenon DEF ConnStep
<1>9. Sees(v, x, s)
  BY <1>7, <1>8, ReadingOwner DEF Sees
<1>10. CASE ~v.conn[x].switched
  <2>1. u = ObserveProbing(v, x, s)
    BY <1>10 DEF ObserveReading
  <2>. QED
    BY <1>7, <1>9, <1>10, <2>1, ObserveProbingOK
<1>11. CASE v.conn[x].switched /\ v.conn[x].state = "active"
  <2>1. u = ObserveActive(v, x, s)
    BY <1>11 DEF ObserveReading
  <2>2. Still(v, u)
    BY <1>2, <1>7, <1>11, <2>1, ObserveActiveQuiet
  <2>. QED
    BY <1>7, <2>2, StillOK
<1>12. CASE v.conn[x].switched /\ v.conn[x].state # "active"
  <2>1. u = Flush(v, x)
    BY <1>12 DEF ObserveReading
  <2>2. Still(v, u)
    BY <1>7, <2>1, FlushStill
  <2>. QED
    BY <1>7, <2>2, StillOK
<1>. QED
  BY <1>10, <1>11, <1>12

Noted(t, c) == IF c.closed = 0 /\ c.state = "active" THEN Mark(t, c) ELSE t

Forms(t, s, x, c, u) ==
  \/ u = Fallback(t, x, TRUE) \/ u = Fallback(Noted(t, c), x, FALSE)
  \/ /\ SameOwner(c, s) /\ ~s.closed
     /\ u = ObserveReading(Confirm(SetConn(t, x, Owning(c, s)), x, s), x, s)

LEMMA ObserveForms ==
  ASSUME NEW t, NEW s, s.key \in DOMAIN t.alias, NEW x, x = t.alias[s.key], NEW c, c = t.conn[x],
         ~Early(c, s), NEW u, u = Observe(t, s)
  PROVE  Forms(t, s, x, c, u)
<1> DEFINE X == t.alias[s.key]
           C == t.conn[X]
           M == Noted(t, C)
<1>1. [t EXCEPT !.conn[X].owned = TRUE, !.conn[X].estats = s.generation, !.conn[X].context = s.created]
        = SetConn(t, X, Owning(C, s))
  BY Zenon DEF SetConn, Owning
<1>2. Observe(t, s) = IF s.key \notin DOMAIN t.alias THEN t
                      ELSE IF Early(C, s) THEN t
                      ELSE IF ~SameOwner(C, s) THEN Fallback(t, X, TRUE)
                      ELSE IF s.closed THEN Fallback(M, X, FALSE)
                      ELSE IF s.error \/ ~s.enabled \/ s.coarse THEN Fallback(t, X, TRUE)
                      ELSE ObserveReading(Confirm([t EXCEPT !.conn[X].owned = TRUE, !.conn[X].estats = s.generation,
                                                            !.conn[X].context = s.created], X, s), X, s)
  BY DEF Observe, Noted, Early
<1> DEFINE read == Confirm([t EXCEPT !.conn[X].owned = TRUE, !.conn[X].estats = s.generation,
                                     !.conn[X].context = s.created], X, s)
           other == Confirm(SetConn(t, X, Owning(C, s)), X, s)
<1>3. x = X /\ c = C /\ M = Noted(t, c) /\ read = other
  BY <1>1
<1> HIDE DEF X, C, M, read, other
<1>4. Observe(t, s) = IF s.key \notin DOMAIN t.alias THEN t
                      ELSE IF Early(C, s) THEN t
                      ELSE IF ~SameOwner(C, s) THEN Fallback(t, X, TRUE)
                      ELSE IF s.closed THEN Fallback(M, X, FALSE)
                      ELSE IF s.error \/ ~s.enabled \/ s.coarse THEN Fallback(t, X, TRUE)
                      ELSE ObserveReading(read, X, s)
  BY <1>2 DEF read
<1>5. \/ u = Fallback(t, X, TRUE) \/ u = Fallback(M, X, FALSE)
      \/ SameOwner(C, s) /\ ~s.closed /\ u = ObserveReading(other, X, s)
  BY <1>3, <1>4
<1>. QED
  BY <1>3, <1>5 DEF other, Forms

LEMMA FormsOK ==
  ASSUME CollectorInv, KernelInv, NEW t, OK(t, proofs, events, kept), NEW i \in DOMAIN reading.obs,
         NEW s, s = reading.obs[i], NEW x \in DOMAIN t.conn, NEW c, c = t.conn[x], c.key = s.key,
         ~Early(c, s), NEW u, Forms(t, s, x, c, u)
  PROVE  OK(u, proofs, events, kept)
<1>1. t \in Tracker /\ TrackerOK(t)
  BY DEF OK, TrackerOK
<1>2. c.life \in Nat
  BY <1>1, ConnFacts
<1>3. CASE u = Fallback(t, x, TRUE)
  BY <1>1, <1>3, FallbackStill, StillOK
<1>4. CASE u = Fallback(Noted(t, c), x, FALSE)
  <2>1. Still(t, t) /\ Still(t, Mark(t, c)) /\ Mark(t, c).conn = t.conn
    BY <1>1, <1>2, MarkStill, StillReflexive
  <2>2. Still(t, Noted(t, c)) /\ Noted(t, c).conn = t.conn
    BY <2>1 DEF Noted
  <2>3. TrackerOK(Noted(t, c)) /\ x \in DOMAIN Noted(t, c).conn
    BY <1>1, <2>2, QuietTracker DEF Still
  <2>4. Still(Noted(t, c), u)
    BY <1>4, <2>3, FallbackStill
  <2>5. Still(t, u)
    BY <1>1, <2>2, <2>4, StillTransitive
  <2>. QED
    BY <2>5, StillOK
<1>5. CASE SameOwner(c, s) /\ ~s.closed /\ u = ObserveReading(Confirm(SetConn(t, x, Owning(c, s)), x, s), x, s)
  BY <1>2, <1>5, ObserveReadingOK
<1>. QED
  BY <1>3, <1>4, <1>5 DEF Forms

LEMMA ObserveOK ==
  ASSUME CollectorInv, KernelInv, NEW t, OK(t, proofs, events, kept), NEW i \in DOMAIN reading.obs,
         NEW s, s = reading.obs[i], NEW u, u = Observe(t, s)
  PROVE  OK(u, proofs, events, kept)
<1>1. CASE s.key \notin DOMAIN t.alias
  BY <1>1 DEF Observe
<1>2. CASE s.key \in DOMAIN t.alias /\ Early(t.conn[t.alias[s.key]], s)
  BY <1>2 DEF Observe, Early
<1>3. CASE s.key \in DOMAIN t.alias /\ ~Early(t.conn[t.alias[s.key]], s)
  <2>1. PICK x : x = t.alias[s.key]
    OBVIOUS
  <2>2. PICK c : c = t.conn[x]
    OBVIOUS
  <2>3. ~Early(c, s)
    BY <1>3, <2>1, <2>2
  <2>4. x \in DOMAIN t.conn /\ c.key = s.key
    BY <1>3, <2>1, <2>2 DEF OK, TrackerOK
  <2>5. Forms(t, s, x, c, u)
    BY <1>3, <2>1, <2>2, <2>3, ObserveForms
  <2>. QED
    BY <2>2, <2>3, <2>4, <2>5, FormsOK
<1>. QED
  BY <1>1, <1>2, <1>3

LEMMA ObservePath ==
  ASSUME NEW t, NEW seq, NEW n \in Nat, DOMAIN seq = 1 .. n
  PROVE  \E u : Path("observe", 0, t, seq, n, u) /\ ObserveAll(t, seq) = u[n]
<1> DEFINE Fits(f) == f = [s \in SUBSET (1 .. n) |->
                            IF s = {} THEN t ELSE Observe(f[s \ {Max(s)}], seq[Max(s)])]
           table == CHOOSE f : Fits(f)
<1>1. PICK f : Table("observe", 0, t, seq, n, f)
  BY TableExists
<1>2. ASSUME NEW a, NEW e PROVE Turn("observe", 0, a, e) = Observe(a, e)
  BY DEF Turn
<1>3. ASSUME NEW g PROVE Fits(g) <=> Table("observe", 0, t, seq, n, g)
  BY <1>2 DEF Table
<1>4. ObserveAll(t, seq) = table[1 .. n]
  BY DEF ObserveAll, FoldLeft, MapThenFoldSet
<1> HIDE DEF Fits
<1>5. Fits(table)
  BY <1>1, <1>3
<1> HIDE DEF table
<1>6. PICK u : Path("observe", 0, t, seq, n, u) /\ table[1 .. n] = u[n]
  BY <1>3, <1>5, TablePath
<1>. QED
  BY <1>4, <1>6

LEMMA ObserveAllOK ==
  ASSUME CollectorInv, KernelInv, NEW t, OK(t, proofs, events, kept), NEW v, v = ObserveAll(t, reading.obs)
  PROVE  OK(v, proofs, events, kept)
<1> DEFINE seq == reading.obs
           n == Len(seq)
<1>1. n \in Nat /\ DOMAIN seq = 1 .. n
  <2>1. reading.obs \in Seq(Obs)
    BY DEF CollectorInv
  <2>. QED
    BY <2>1
<1>2. PICK u : Path("observe", 0, t, seq, n, u) /\ ObserveAll(t, seq) = u[n]
  BY <1>1, ObservePath
<1> HIDE DEF n
<1> DEFINE Bad == {i \in 0 .. n : ~OK(u[i], proofs, events, kept)}
<1>3. SUFFICES ASSUME Bad # {} PROVE FALSE
  BY <1>1, <1>2
<1>4. PICK i \in Bad : \A j \in Bad : i <= j
  <2>1. Bad \in SUBSET Nat
    BY <1>1
  <2>. QED
    BY <1>3, <2>1, LeastNat
<1>5. u[0] = t
  BY <1>2 DEF Path
<1>6. i \in 1 .. n /\ i - 1 \in 0 .. n /\ i - 1 \notin Bad
  BY <1>1, <1>4, <1>5
<1>7. OK(u[i - 1], proofs, events, kept)
  BY <1>6
<1>8. u[i] = Observe(u[i - 1], seq[i]) /\ i \in DOMAIN reading.obs
  BY <1>1, <1>2, <1>6 DEF Path, Turn
<1>9. OK(u[i], proofs, events, kept)
  BY <1>7, <1>8, ObserveOK
<1>. QED
  BY <1>4, <1>9

(* The worker and the end of a session.                                    *)
LEMMA ExpireOK ==
  ASSUME EventsOK, NEW t, OK(t, proofs, events, kept), NEW slow, NEW idle, NEW idleKeys,
         NEW u, u = Expire(t, slow, idle, idleKeys)
  PROVE  OK(u, proofs, events, kept)
<1>1. PICK a : a = ReclaimWindows(t)
  OBVIOUS
<1>2. OK(a, proofs, events, kept)
  BY <1>1, EventsTimed, ReclaimOK
<1>3. PICK b : b = FallLate(a, slow)
  OBVIOUS
<1>4. OK(b, proofs, events, kept)
  <2> DEFINE xs == {x \in slow \cap DOMAIN a.conn : a.conn[x].state = "active"}
  <2>1. xs \in SUBSET DOMAIN a.conn /\ b = FallAll(a, xs)
    BY <1>3 DEF FallLate
  <2>2. TrackerOK(a)
    BY <1>2 DEF OK
  <2> HIDE DEF xs
  <2>3. Still(a, b)
    BY <2>1, <2>2, FallAllStill
  <2>. QED
    BY <1>2, <2>3, StillOK
<1>5. PICK d : d = DropIdle(b, idle)
  OBVIOUS
<1>6. OK(d, proofs, events, kept)
  <2> DEFINE xs == idle \cap DOMAIN b.conn
  <2>1. xs \in SUBSET DOMAIN b.conn /\ d = DropAll(b, xs)
    BY <1>5 DEF DropIdle
  <2>2. TrackerOK(b)
    BY <1>4 DEF OK
  <2> HIDE DEF xs
  <2>3. Quiet(b, d)
    BY <2>1, <2>2, DropAllQuiet
  <2>. QED
    BY <1>4, <2>3, QuietOK
<1>7. u = [d EXCEPT !.legacy = Without(d.legacy, idleKeys)]
  BY <1>1, <1>3, <1>5 DEF Expire
<1>8. TrackerOK(d)
  BY <1>6 DEF OK
<1>9. Quiet(d, u)
  BY <1>7, <1>8, FewerPrefixes
<1>. QED
  BY <1>6, <1>9, QuietOK

LEMMA WorkOK ==
  ASSUME CollectorInv, KernelInv, OK(tracker, proofs, events, kept), NEW clockType \in {1, 2},
         NEW slow, NEW idle, NEW idleKeys,
         NEW u, u = Expire(ObserveAll(Healthy(clockType), reading.obs), slow, idle, idleKeys)
  PROVE  OK(u, proofs, events, kept)
<1>1. PICK a : a = Healthy(clockType)
  OBVIOUS
<1>2. TrackerOK(tracker)
  BY DEF OK
<1>3. Still(tracker, a)
  <2>1. CASE reading.sample
    <3>1. PICK h : h = ("proof" \notin lost)
      OBVIOUS
    <3>2. PICK l : l = ("legacy" \notin lost)
      OBVIOUS
    <3>3. h \in BOOLEAN /\ l \in BOOLEAN /\ clockType \in Nat
      BY <3>1, <3>2
    <3>4. a = SetHealth(tracker, h, clockType, l)
      BY <1>1, <2>1, <3>1, <3>2, Zenon DEF Healthy
    <3>. QED
      BY <1>2, <3>3, <3>4, SetHealthStill
  <2>2. CASE ~reading.sample
    BY <1>1, <1>2, <2>2, StillReflexive DEF Healthy
  <2>. QED
    BY <2>1, <2>2
<1>4. OK(a, proofs, events, kept)
  BY <1>3, StillOK
<1>5. PICK b : b = ObserveAll(a, reading.obs)
  OBVIOUS
<1>6. OK(b, proofs, events, kept)
  BY <1>4, <1>5, ObserveAllOK
<1>7. u = Expire(b, slow, idle, idleKeys)
  BY <1>1, <1>5
<1>. QED
  BY <1>6, <1>7, ExpireOK DEF KernelInv

LEMMA FinishOK ==
  ASSUME NEW t, OK(t, proofs, events, kept), NEW u, u = Finish(t)
  PROVE  OK(u, proofs, events, kept)
<1>1. TrackerOK(t) /\ DOMAIN t.conn \in SUBSET DOMAIN t.conn
  BY DEF OK
<1>2. u = FallAll(t, DOMAIN t.conn)
  BY DEF Finish
<1>3. Still(t, u)
  BY <1>1, <1>2, FallAllStill
<1>. QED
  BY <1>3, StillOK

(* The tracker keeps its invariant while the kernel moves on: what is new  *)
(* on its way is of a connection that is up, or of one that just opened.   *)
Onward ==
  /\ \A M \in DOMAIN flows : M \in DOMAIN flows' /\ flows'[M].key = flows[M].key /\ flows'[M].tcb = flows[M].tcb
  /\ \A k \in Key : tcp'[k].up /\ tcp'[k].life \in DOMAIN flows => Up(tcp'[k].life)
  /\ \A i \in DOMAIN proofs' : \/ \E j \in DOMAIN proofs : proofs'[i] = proofs[j]
                               \/ proofs'[i].life \notin DOMAIN flows
                               \/ Up(proofs'[i].life) /\ proofs'[i].kind \notin {"connect", "established"}
  /\ \A i \in DOMAIN events' : \/ \E j \in DOMAIN events : events'[i] = events[j]
                               \/ events'[i].life \notin DOMAIN flows
                               \/ /\ Up(events'[i].life) /\ events'[i].kind # "open"
                                  /\ events'[i].key = flows[events'[i].life].key
  /\ clock <= clock' /\ reading' = reading /\ tracker' = tracker /\ kept' = kept

LEMMA OnwardOK ==
  ASSUME FlowsOK, CollectorInv, OK(tracker, proofs, events, kept), Onward, clock' \in Nat
  PROVE  Joint(tracker, proofs, events, kept)'
<1>0. TrackerOK(tracker) /\ Joint(tracker, proofs, events, kept) /\ tracker \in Tracker /\ clock \in Nat
  BY DEF OK, TrackerOK, CollectorInv, TcpOK
<1>1. ConnsOK(tracker)'
  BY <1>0 DEF Joint, ConnsOK, Onward
<1>2. Connects(tracker, proofs)'
  BY <1>0 DEF Joint, ConnsOK, Connects, Onward
<1>3. GuardOK(tracker, events)'
  <2>1. SUFFICES ASSUME NEW L \in Claimed(tracker) \ tracker.mistaken
                 PROVE  /\ \A i \in DOMAIN events' : events'[i].life = L => /\ events'[i].kind # "open"
                                                                            /\ Data(events'[i]) => Guarded(tracker, L, events'[i])
                        /\ (\E k \in Key : tcp'[k].up /\ tcp'[k].life = L) =>
                             \E w \in tracker.window : w.key = flows'[L].key /\ w.begin = L /\ w.end = 0
    BY DEF GuardOK, Up, Claimed, Data, Guarded, Onward
  <2>2. L \in DOMAIN flows
    BY <1>0 DEF Joint, ConnsOK, Claimed
  <2>3. /\ \A i \in DOMAIN events : events[i].life = L => events[i].kind # "open" /\ (Data(events[i]) => Guarded(tracker, L, events[i]))
        /\ Up(L) => \E w \in tracker.window : w.key = flows[L].key /\ w.begin = L /\ w.end = 0
    BY <1>0 DEF Joint, GuardOK
  <2>4. ASSUME NEW i \in DOMAIN events', events'[i].life = L
        PROVE  events'[i].kind # "open" /\ (Data(events'[i]) => Guarded(tracker, L, events'[i]))
    <3>1. CASE \E j \in DOMAIN events : events'[i] = events[j]
      BY <2>3, <2>4, <3>1
    <3>2. CASE Up(events'[i].life) /\ events'[i].kind # "open" /\ events'[i].key = flows[events'[i].life].key
      BY <2>3, <2>4, <3>2 DEF Guarded
    <3>. QED
      BY <2>2, <2>4, <3>1, <3>2 DEF Onward
  <2>5. (\E k \in Key : tcp'[k].up /\ tcp'[k].life = L) => Up(L)
    BY <2>2 DEF Onward
  <2>. QED
    BY <2>2, <2>3, <2>4, <2>5 DEF Onward
<1>4. BelowPrefix(tracker, kept)'
  BY <1>0 DEF Joint, BelowPrefix, Onward
<1>5. OriginsOK(tracker, proofs)'
  <2>1. SUFFICES ASSUME NEW x \in DOMAIN tracker.conn, NEW c, c = tracker.conn[x] PROVE OriginOK(c, proofs)'
    BY DEF OriginsOK, Onward
  <2>2. c.life \in DOMAIN flows /\ OriginOK(c, proofs)
    BY <1>0, <2>1 DEF Joint, ConnsOK, OriginsOK
  <2>3. (\E k \in Key : tcp'[k].up /\ tcp'[k].life = c.life) => Up(c.life)
    BY <2>2 DEF Onward
  <2>4. Established(proofs, c.life)' => Established(proofs, c.life)
    BY <2>2 DEF Established, Onward
  <2>. QED
    BY <2>2, <2>3, <2>4 DEF OriginOK, Onward, Up
<1>6. MarkersOK(tracker, events)'
  BY <1>0 DEF Joint, MarkersOK, MarkerOK, Onward
<1>7. ProbesOK(tracker, events)'
  <2>1. SUFFICES ASSUME NEW x \in DOMAIN tracker.conn, NEW c, c = tracker.conn[x] PROVE ProbeOK(c, events)'
    BY DEF ProbesOK, Onward
  <2>2. c.life \in DOMAIN flows /\ ProbeOK(c, events) /\ c.probe.end \in Nat
    <3>1. c \in ConnRec
      BY <1>0, <2>1, ConnFacts
    <3>. QED
      BY <1>0, <2>1, <3>1 DEF Joint, ConnsOK, ProbesOK, ConnRec, ProbeRec
  <2>3. (\E k \in Key : tcp'[k].up /\ tcp'[k].life = c.life) => Up(c.life)
    BY <2>2 DEF Onward
  <2>4. c.probe.end <= clock => c.probe.end <= clock'
    BY <1>0, <2>2 DEF Onward
  <2>. QED
    BY <2>2, <2>3, <2>4 DEF ProbeOK, Onward, Up
<1>8. TotalsOK(tracker, kept)'
  BY <1>0 DEF Joint, TotalsOK, TotalOK, CountAt, Onward
<1>. QED
  BY <1>1, <1>2, <1>3, <1>4, <1>5, <1>6, <1>7, <1>8 DEF Joint

(* What a step of a connection that is up raises.                          *)
Extends(old, new, S) ==
  \A i \in DOMAIN new : (i \in DOMAIN old /\ new[i] = old[i]) \/ (i \notin DOMAIN old /\ new[i] \in S)

LEMMA ExtendsFacts ==
  ASSUME NEW R, NEW S, S \subseteq R, NEW old \in Seq(R), NEW add \in Seq(S), NEW new, new = old \o add \/ new = old
  PROVE  /\ new \in Seq(R) /\ Extends(old, new, S)
         /\ Len(add) <= 1 => \A i, j \in DOMAIN new : i \notin DOMAIN old /\ j \notin DOMAIN old => i = j
<1>1. CASE new = old
  BY <1>1 DEF Extends
<1>2. CASE new = old \o add
  <2>1. /\ DOMAIN old = 1 .. Len(old) /\ DOMAIN new = 1 .. (Len(old) + Len(add)) /\ Len(old) \in Nat /\ Len(add) \in Nat
        /\ \A i \in 1 .. Len(old) : new[i] = old[i] /\ new[i] \in R
        /\ \A i \in DOMAIN new : i \notin DOMAIN old => new[i] = add[i - Len(old)] /\ i - Len(old) \in 1 .. Len(add)
    BY <1>2
  <2>2. \A i \in 1 .. Len(add) : add[i] \in S
    OBVIOUS
  <2>3. new \in Seq(R)
    <3>1. add \in Seq(R)
      BY <2>2
    <3>. QED
      BY <1>2, <3>1
  <2>4. Extends(old, new, S)
    BY <2>1, <2>2 DEF Extends
  <2>5. ASSUME Len(add) <= 1, NEW i \in DOMAIN new, NEW j \in DOMAIN new, i \notin DOMAIN old, j \notin DOMAIN old PROVE i = j
    BY <2>1, <2>5
  <2>. QED
    BY <2>3, <2>4, <2>5
<1>. QED
  BY <1>1, <1>2

NewProofs(k) ==
  {q \in ProofRec : /\ q.kind \in {"receive", "send", "fin", "close"} /\ q.key = k /\ q.tcb = tcp[k].tcb
                    /\ q.life = tcp[k].life /\ q.time = clock + 1 /\ (q.kind = "close" => ~tcp'[k].up)}
NewEvents(k) ==
  {q \in EventRec : /\ q.kind # "open" /\ q.key = k /\ q.life = tcp[k].life /\ q.time = clock + 1 /\ q.endpoints
                    /\ Data(q) => /\ q.at = flows[tcp[k].life][q.kind] /\ flows'[tcp[k].life][q.kind] = q.at + 1
                                  /\ q.bytes = 1 /\ tcp'[k].up
                    /\ ~Data(q) => q.bytes = 0}
Advances(k) ==
  /\ tcp[k].up /\ clock' = clock + 1
  /\ DOMAIN flows' = DOMAIN flows /\ flows' \in Partial(Nat, FlowRec)
  /\ \A M \in DOMAIN flows : /\ flows'[M].key = flows[M].key /\ flows'[M].tcb = flows[M].tcb
                             /\ flows[M].rx <= flows'[M].rx /\ flows[M].tx <= flows'[M].tx
  /\ \A j \in Key : tcp'[j].up => tcp[j].up /\ tcp'[j].life = tcp[j].life
  /\ UNCHANGED <<reading, tracker, kept, plan>>
  /\ proofs' \in Seq(ProofRec) /\ Extends(proofs, proofs', NewProofs(k))
  /\ events' \in Seq(EventRec) /\ Extends(events, events', NewEvents(k))
  /\ \A i, j \in DOMAIN events' : i \notin DOMAIN events /\ j \notin DOMAIN events => i = j

LEMMA AdvanceFacts ==
  ASSUME CollectorInv, KernelInv, NEW k \in Key, Advances(k), NEW L, L = tcp[k].life
  PROVE  /\ L \in DOMAIN flows /\ L \in Nat /\ clock \in Nat /\ clock' \in Nat /\ clock < clock'
         /\ L < clock' /\ Up(L) /\ flows[L].key = k /\ flows[L].tcb = tcp[k].tcb
         /\ \A M \in DOMAIN flows : ~Follows(L, M)
         /\ \A M \in DOMAIN flows : (\E j \in Key : tcp'[j].up /\ tcp'[j].life = M) => Up(M)
         /\ \A M \in DOMAIN flows, dir \in Dirs : /\ flows[M][dir] \in Nat /\ flows'[M][dir] \in Nat
                                                  /\ flows[M][dir] <= flows'[M][dir]
<1>1. clock \in Nat /\ tcp \in [Key -> Row] /\ flows \in Partial(Nat, FlowRec)
  BY DEF CollectorInv, TcpOK, KernelInv, FlowsOK
<1>2. L \in DOMAIN flows /\ flows[L].key = k /\ flows[L].tcb = tcp[k].tcb /\ L + 2 <= clock /\ 0 < L
  BY DEF KernelInv, FlowsOK, Advances
<1>3. \A M \in DOMAIN flows : M \in Nat /\ flows[M] \in FlowRec
  BY <1>1, PartialElim
<1>4. L \in Nat /\ clock' \in Nat /\ clock < clock' /\ L < clock'
  BY <1>1, <1>2, <1>3 DEF Advances
<1>5. Up(L)
  BY DEF Up, Advances
<1>6. \A M \in DOMAIN flows : ~Follows(L, M)
  BY <1>2, <1>5 DEF KernelInv, Apart
<1>7. \A M \in DOMAIN flows : (\E j \in Key : tcp'[j].up /\ tcp'[j].life = M) => Up(M)
  BY DEF Up, Advances
<1>8. ASSUME NEW M \in DOMAIN flows, NEW dir \in Dirs
      PROVE  flows[M][dir] \in Nat /\ flows'[M][dir] \in Nat /\ flows[M][dir] <= flows'[M][dir]
  <2>1. flows'[M] \in FlowRec /\ flows[M] \in FlowRec
    <3>1. flows' \in Partial(Nat, FlowRec) /\ M \in DOMAIN flows'
      BY DEF Advances
    <3>. QED
      BY <1>3, <3>1, PartialElim
  <2>2. CASE dir = "rx"
    BY <2>1, <2>2 DEF FlowRec, Advances
  <2>3. CASE dir = "tx"
    BY <2>1, <2>3 DEF FlowRec, Advances
  <2>. QED
    BY <2>2, <2>3 DEF Dirs
<1>. QED
  BY <1>1, <1>2, <1>4, <1>5, <1>6, <1>7, <1>8

LEMMA AdvanceApart ==
  ASSUME CollectorInv, KernelInv, NEW k \in Key, Advances(k)
  PROVE  Apart'
<1>1. PICK L : L = tcp[k].life
  OBVIOUS
<1>2. SUFFICES ASSUME NEW M \in DOMAIN flows, NEW N \in DOMAIN flows, Follows(M, N)
               PROVE  /\ ~(\E j \in Key : tcp'[j].up /\ tcp'[j].life = M)
                      /\ \A i \in DOMAIN proofs' : proofs'[i].life = M => proofs'[i].time < N
                      /\ \A i \in DOMAIN events' : events'[i].life = M => events'[i].time < N
  BY DEF Apart, Follows, Up, Advances
<1>3. /\ ~Up(M)
      /\ \A i \in DOMAIN proofs : proofs[i].life = M => proofs[i].time < N
      /\ \A i \in DOMAIN events : events[i].life = M => events[i].time < N
  BY <1>2 DEF KernelInv, Apart
<1>4. M # L /\ ~(\E j \in Key : tcp'[j].up /\ tcp'[j].life = M)
  BY <1>1, <1>2, <1>3, AdvanceFacts
<1>5. ASSUME NEW i \in DOMAIN proofs', proofs'[i].life = M PROVE proofs'[i].time < N
  <2>1. proofs'[i] \notin NewProofs(k)
    BY <1>1, <1>4, <1>5 DEF NewProofs
  <2>. QED
    BY <1>3, <1>5, <2>1 DEF Advances, Extends
<1>6. ASSUME NEW i \in DOMAIN events', events'[i].life = M PROVE events'[i].time < N
  <2>1. events'[i] \notin NewEvents(k)
    BY <1>1, <1>4, <1>6 DEF NewEvents
  <2>. QED
    BY <1>3, <1>6, <2>1 DEF Advances, Extends
<1>. QED
  BY <1>4, <1>5, <1>6

ProofOf(q, evs) ==
  /\ q.life \in DOMAIN flows /\ q.key = flows[q.life].key /\ q.tcb = flows[q.life].tcb
  /\ q.life <= q.time /\ q.time <= clock
  /\ q.kind = "connect" => q.time = q.life
  /\ q.kind = "established" => q.time = q.life + 1
  /\ q.kind = "syn" => (q.seq + 1) % Cycle = SendOrigin % Cycle
  /\ q.kind = "close" => /\ ~Up(q.life)
                         /\ \A j \in DOMAIN evs : evs[j].life = q.life /\ Data(evs[j]) => evs[j].time < q.time

LEMMA AdvanceProofs ==
  ASSUME CollectorInv, KernelInv, NEW k \in Key, Advances(k)
  PROVE  ProofsOK'
<1>1. PICK L : L = tcp[k].life
  OBVIOUS
<1>2. /\ L \in DOMAIN flows /\ L \in Nat /\ clock \in Nat /\ clock' \in Nat /\ clock < clock' /\ L < clock'
      /\ flows[L].key = k /\ flows[L].tcb = tcp[k].tcb /\ Up(L)
      /\ \A M \in DOMAIN flows : (\E j \in Key : tcp'[j].up /\ tcp'[j].life = M) => Up(M)
  BY <1>1, AdvanceFacts
<1>3. ASSUME NEW i \in DOMAIN proofs PROVE proofs[i] \in ProofRec /\ ProofOf(proofs[i], events)
  BY <1>3 DEF KernelInv, ProofsOK, ProofOf
<1>4. ASSUME NEW i \in DOMAIN proofs', NEW q, q = proofs'[i]
      PROVE  /\ q \in ProofRec /\ q.life \in DOMAIN flows' /\ q.key = flows'[q.life].key /\ q.tcb = flows'[q.life].tcb
             /\ q.life <= q.time /\ q.time <= clock'
             /\ q.kind = "connect" => q.time = q.life
             /\ q.kind = "established" => q.time = q.life + 1
             /\ q.kind = "syn" => (q.seq + 1) % Cycle = SendOrigin % Cycle
             /\ q.kind = "close" => /\ ~(\E j \in Key : tcp'[j].up /\ tcp'[j].life = q.life)
                                    /\ \A j \in DOMAIN events' : events'[j].life = q.life /\ Data(events'[j]) =>
                                                                   events'[j].time < q.time
  <2>1. CASE i \in DOMAIN proofs /\ proofs'[i] = proofs[i]
    <3>1. q \in ProofRec /\ ProofOf(q, events)
      BY <1>3, <1>4, <2>1
    <3>2. /\ q.life \in DOMAIN flows' /\ q.key = flows'[q.life].key /\ q.tcb = flows'[q.life].tcb
      BY <3>1 DEF ProofOf, Advances
    <3>3. q.time <= clock'
      <4>1. q.time \in Nat /\ q.time <= clock
        BY <3>1 DEF ProofOf, ProofRec
      <4>. QED
        BY <1>2, <4>1
    <3>4. ASSUME q.kind = "close"
          PROVE  /\ ~(\E j \in Key : tcp'[j].up /\ tcp'[j].life = q.life)
                 /\ \A j \in DOMAIN events' : events'[j].life = q.life /\ Data(events'[j]) => events'[j].time < q.time
      <4>1. ~Up(q.life) /\ \A j \in DOMAIN events : events[j].life = q.life /\ Data(events[j]) => events[j].time < q.time
        BY <3>1, <3>4 DEF ProofOf
      <4>2. ASSUME NEW j \in DOMAIN events', events'[j].life = q.life PROVE events'[j] \notin NewEvents(k)
        BY <1>1, <1>2, <4>1, <4>2 DEF NewEvents
      <4>3. q.life \in DOMAIN flows
        BY <3>1 DEF ProofOf
      <4>. QED
        BY <1>2, <4>1, <4>2, <4>3 DEF Advances, Extends
    <3>. QED
      BY <3>1, <3>2, <3>3, <3>4 DEF ProofOf
  <2>2. CASE q \in NewProofs(k)
    <3>1. /\ q \in ProofRec /\ q.kind \in {"receive", "send", "fin", "close"} /\ q.key = k /\ q.tcb = tcp[k].tcb
          /\ q.life = L /\ q.time = clock' /\ (q.kind = "close" => ~tcp'[k].up)
      BY <1>1, <2>2 DEF NewProofs, Advances
    <3>2. q.life \in DOMAIN flows' /\ q.key = flows'[q.life].key /\ q.tcb = flows'[q.life].tcb
      BY <1>2, <3>1 DEF Advances
    <3>3. q.life <= q.time /\ q.time <= clock'
      BY <1>2, <3>1
    <3>4. ASSUME q.kind = "close"
          PROVE  /\ ~(\E j \in Key : tcp'[j].up /\ tcp'[j].life = L)
                 /\ \A j \in DOMAIN events' : events'[j].life = L /\ Data(events'[j]) => events'[j].time < q.time
      <4>1. ~tcp'[k].up
        BY <3>1, <3>4
      <4>2. \A j \in DOMAIN events' : Data(events'[j]) => events'[j] \notin NewEvents(k)
        BY <4>1 DEF NewEvents
      <4>3. ASSUME NEW j \in DOMAIN events', Data(events'[j]) PROVE events'[j].time < q.time
        <5>1. j \in DOMAIN events /\ events'[j] = events[j]
          BY <4>2, <4>3 DEF Advances, Extends
        <5>2. events[j].time <= clock /\ events[j].time \in Nat
          <6>1. events[j] \in EventRec
            BY <5>1 DEF KernelInv, EventsOK
          <6>. QED
            BY <5>1, <6>1 DEF KernelInv, EventsOK, EventRec
        <5>. QED
          BY <1>2, <3>1, <5>1, <5>2
      <4>4. ASSUME NEW j \in Key, tcp'[j].up, tcp'[j].life = L PROVE FALSE
        <5>1. j # k /\ tcp[j].up /\ tcp[j].life = L
          BY <4>1, <4>4 DEF Advances
        <5>2. flows[L].key = j
          BY <5>1 DEF KernelInv, FlowsOK
        <5>. QED
          BY <1>2, <5>1, <5>2
      <4>. QED
        BY <4>3, <4>4
    <3>. QED
      BY <3>1, <3>2, <3>3, <3>4
  <2>. QED
    BY <1>4, <2>1, <2>2 DEF Advances, Extends
<1>5. ASSUME NEW i \in DOMAIN proofs', NEW j \in DOMAIN proofs', i < j
      PROVE  /\ proofs'[i].time <= proofs'[j].time
             /\ proofs'[i].kind = "connect" /\ proofs'[j].kind = "connect" => proofs'[i].life # proofs'[j].life
             /\ proofs'[i].kind = "receive" /\ proofs'[j].kind = "established" /\ proofs'[i].life = proofs'[j].life =>
                  proofs'[i].seq = ReceiveOrigin % Cycle
  <2>1. CASE j \in DOMAIN proofs /\ proofs'[j] = proofs[j]
    <3>1. i \in DOMAIN proofs
      BY <1>5, <2>1 DEF KernelInv, ProofsOK, Advances
    <3>2. proofs'[i] = proofs[i]
      BY <3>1 DEF Advances, Extends
    <3>. QED
      BY <1>5, <2>1, <3>1, <3>2 DEF KernelInv, ProofsOK
  <2>2. CASE proofs'[j] \in NewProofs(k)
    <3>1. proofs'[j].time = clock' /\ proofs'[j].kind \notin {"connect", "established"}
      BY <2>2 DEF NewProofs, Advances
    <3>2. proofs'[i].time <= clock'
      BY <1>4
    <3>. QED
      BY <3>1, <3>2
  <2>. QED
    BY <2>1, <2>2 DEF Advances, Extends
<1>6. proofs' \in Seq(ProofRec)
  BY DEF Advances
<1>. QED
  BY <1>4, <1>5, <1>6 DEF ProofsOK, Up, Data

LEMMA AdvanceEvents ==
  ASSUME CollectorInv, KernelInv, NEW k \in Key, Advances(k)
  PROVE  EventsOK'
<1>1. PICK L : L = tcp[k].life
  OBVIOUS
<1>2. /\ L \in DOMAIN flows /\ L \in Nat /\ clock \in Nat /\ clock' \in Nat /\ clock < clock' /\ L < clock'
      /\ flows[L].key = k
      /\ \A M \in DOMAIN flows, dir \in Dirs : /\ flows[M][dir] \in Nat /\ flows'[M][dir] \in Nat
                                               /\ flows[M][dir] <= flows'[M][dir]
  BY <1>1, AdvanceFacts
<1>3. ASSUME NEW i \in DOMAIN events, NEW e, e = events[i]
      PROVE  /\ e \in EventRec /\ e.life \in DOMAIN flows /\ e.key = flows[e.life].key /\ e.life < e.time
             /\ e.time <= clock /\ e.time \in Nat /\ e.endpoints
             /\ e.kind = "open" => e.time = e.life + 2
             /\ Data(e) => e.at < flows[e.life][e.kind] /\ e.bytes = 1 /\ <<e.life, e.kind, e.at>> \notin DOMAIN kept
             /\ ~Data(e) => e.bytes = 0
  <2>1. e \in EventRec
    BY <1>3 DEF KernelInv, EventsOK
  <2>2. e.time \in Nat
    BY <2>1 DEF EventRec
  <2>. QED
    BY <1>3, <2>1, <2>2 DEF KernelInv, EventsOK
<1>4. ASSUME NEW i \in DOMAIN events', events'[i] \in NewEvents(k), NEW e, e = events'[i]
      PROVE  /\ e \in EventRec /\ e.kind # "open" /\ e.key = k /\ e.life = L /\ e.time = clock' /\ e.endpoints
             /\ Data(e) => e.at = flows[L][e.kind] /\ flows'[L][e.kind] = e.at + 1 /\ e.bytes = 1
             /\ ~Data(e) => e.bytes = 0
  BY <1>1, <1>4 DEF NewEvents, Advances
<1>5. ASSUME NEW i \in DOMAIN events', NEW e, e = events'[i]
      PROVE  /\ e.life \in DOMAIN flows' /\ e.key = flows'[e.life].key /\ e.life < e.time
             /\ e.time <= clock' /\ e.endpoints
             /\ e.kind = "open" => e.time = e.life + 2
             /\ Data(e) => e.at < flows'[e.life][e.kind] /\ e.bytes = 1 /\ <<e.life, e.kind, e.at>> \notin DOMAIN kept'
             /\ ~Data(e) => e.bytes = 0
  <2>1. CASE i \in DOMAIN events /\ events'[i] = events[i]
    <3>1. /\ e \in EventRec /\ e.life \in DOMAIN flows /\ e.key = flows[e.life].key /\ e.life < e.time
          /\ e.time <= clock /\ e.time \in Nat /\ e.endpoints
          /\ e.kind = "open" => e.time = e.life + 2
          /\ Data(e) => e.at < flows[e.life][e.kind] /\ e.bytes = 1 /\ <<e.life, e.kind, e.at>> \notin DOMAIN kept
          /\ ~Data(e) => e.bytes = 0
      BY <1>3, <1>5, <2>1
    <3>2. e.life \in DOMAIN flows' /\ e.key = flows'[e.life].key /\ kept' = kept
      BY <3>1 DEF Advances
    <3>3. e.time <= clock'
      BY <1>2, <3>1
    <3>4. Data(e) => e.at < flows'[e.life][e.kind]
      <4>1. SUFFICES ASSUME Data(e) PROVE e.at < flows'[e.life][e.kind]
        OBVIOUS
      <4>2. e.kind \in Dirs /\ e.at \in Nat /\ e.at < flows[e.life][e.kind]
        BY <3>1, <4>1 DEF Data, EventRec
      <4>. QED
        BY <1>2, <3>1, <4>2
    <3>. QED
      BY <3>1, <3>2, <3>3, <3>4
  <2>2. CASE events'[i] \in NewEvents(k)
    <3>1. /\ e \in EventRec /\ e.kind # "open" /\ e.key = k /\ e.life = L /\ e.time = clock' /\ e.endpoints
          /\ Data(e) => e.at = flows[L][e.kind] /\ flows'[L][e.kind] = e.at + 1 /\ e.bytes = 1
          /\ ~Data(e) => e.bytes = 0
      BY <1>4, <1>5, <2>2
    <3>2. L \in DOMAIN flows' /\ flows'[L].key = k /\ kept' = kept
      BY <1>2 DEF Advances
    <3>3. L < e.time /\ e.time <= clock'
      BY <1>2, <3>1
    <3>4. Data(e) => e.at < flows'[L][e.kind] /\ <<L, e.kind, e.at>> \notin DOMAIN kept
      <4>1. SUFFICES ASSUME Data(e) PROVE e.at < flows'[L][e.kind] /\ <<L, e.kind, e.at>> \notin DOMAIN kept
        OBVIOUS
      <4>2. e.kind \in Dirs /\ e.at \in Nat /\ e.at = flows[L][e.kind] /\ flows'[L][e.kind] = e.at + 1
        BY <3>1, <4>1 DEF Data, EventRec
      <4>3. \A b \in DOMAIN kept : b[3] < flows[b[1]][b[2]]
        BY DEF KernelInv, KeptOK
      <4>4. <<L, e.kind, e.at>>[1] = L /\ <<L, e.kind, e.at>>[2] = e.kind /\ <<L, e.kind, e.at>>[3] = e.at
        OBVIOUS
      <4>5. ~(e.at < flows[L][e.kind]) /\ e.at < flows'[L][e.kind]
        BY <4>2
      <4>. QED
        BY <4>3, <4>4, <4>5
    <3>. QED
      BY <3>1, <3>2, <3>3, <3>4
  <2>. QED
    BY <1>5, <2>1, <2>2 DEF Advances, Extends
<1>6. ASSUME NEW i \in DOMAIN events', NEW j \in DOMAIN events', i # j
      PROVE  /\ events'[i].kind = "open" /\ events'[j].kind = "open" => events'[i].life # events'[j].life
             /\ Data(events'[i]) => ~(/\ events'[j].life = events'[i].life /\ events'[j].kind = events'[i].kind
                                      /\ events'[j].at = events'[i].at)
  <2>1. ASSUME NEW m \in DOMAIN events' PROVE (m \in DOMAIN events /\ events'[m] = events[m]) \/ (m \notin DOMAIN events /\ events'[m] \in NewEvents(k))
    BY DEF Advances, Extends
  <2>2. CASE i \in DOMAIN events /\ j \in DOMAIN events
    <3>1. events'[i] = events[i] /\ events'[j] = events[j]
      BY <2>1, <2>2
    <3>2. events[i].kind = "open" /\ events[j].kind = "open" => events[i].life # events[j].life
      BY <1>6, <2>2 DEF KernelInv, EventsOK
    <3>3. Data(events[i]) => ~(/\ events[j].life = events[i].life /\ events[j].kind = events[i].kind
                               /\ events[j].at = events[i].at)
      BY <1>6, <2>2 DEF KernelInv, EventsOK
    <3>. QED
      BY <3>1, <3>2, <3>3
  <2>3. ASSUME NEW m \in DOMAIN events', NEW n \in DOMAIN events', m \in DOMAIN events, n \notin DOMAIN events
        PROVE  /\ ~(events'[m].kind = "open" /\ events'[n].kind = "open")
               /\ Data(events'[m]) => ~(/\ events'[n].life = events'[m].life /\ events'[n].kind = events'[m].kind
                                        /\ events'[n].at = events'[m].at)
    <3>1. events'[m] = events[m] /\ events'[n] \in NewEvents(k)
      BY <2>1, <2>3
    <3>2. events'[n].kind # "open" /\ events'[n].life = L /\ (Data(events'[n]) => events'[n].at = flows[L][events'[n].kind])
      BY <1>4, <3>1
    <3>3. SUFFICES ASSUME Data(events[m]), events'[n].life = events[m].life, events'[n].kind = events[m].kind,
                          events'[n].at = events[m].at
                   PROVE  FALSE
      BY <3>1, <3>2
    <3>4. Data(events'[n]) /\ events[m].at = flows[L][events[m].kind] /\ events[m].life = L
      BY <3>2, <3>3 DEF Data
    <3>5. events[m].at < flows[L][events[m].kind] /\ events[m].at \in Nat
      <4>1. events[m] \in EventRec /\ (Data(events[m]) => events[m].at < flows[events[m].life][events[m].kind])
        BY <1>3, <2>3
      <4>. QED
        BY <3>3, <3>4, <4>1 DEF EventRec
    <3>. QED
      BY <3>4, <3>5
  <2>4. CASE i \in DOMAIN events /\ j \notin DOMAIN events
    BY <2>3, <2>4
  <2>5. CASE i \notin DOMAIN events /\ j \in DOMAIN events
    BY <2>3, <2>5 DEF Data
  <2>6. CASE i \notin DOMAIN events /\ j \notin DOMAIN events
    BY <1>6, <2>6 DEF Advances
  <2>. QED
    BY <2>2, <2>4, <2>5, <2>6
<1>7. events' \in Seq(EventRec)
  BY DEF Advances
<1>. QED
  BY <1>5, <1>6, <1>7 DEF EventsOK, Data

LEMMA AdvanceReadings ==
  ASSUME CollectorInv, KernelInv, NEW k \in Key, Advances(k)
  PROVE  KeptOK' /\ ReadingOK'
<1>1. PICK L : L = tcp[k].life
  OBVIOUS
<1>2. /\ L \in DOMAIN flows /\ L \in Nat /\ clock \in Nat /\ clock' \in Nat /\ clock < clock'
      /\ \A M \in DOMAIN flows, dir \in Dirs : /\ flows[M][dir] \in Nat /\ flows'[M][dir] \in Nat
                                               /\ flows[M][dir] <= flows'[M][dir]
  BY <1>1, AdvanceFacts
<1>3. KeptOK'
  <2>1. ASSUME NEW b \in DOMAIN kept PROVE b[1] \in DOMAIN flows' /\ b[3] < flows'[b[1]][b[2]]
    <3>1. b \in Slice
      BY PartialElim DEF KernelInv, KeptOK
    <3>2. b[1] \in DOMAIN flows /\ b[3] < flows[b[1]][b[2]] /\ b[2] \in Dirs /\ b[3] \in Nat
      BY <3>1 DEF KernelInv, KeptOK, Slice
    <3>3. flows[b[1]][b[2]] \in Nat /\ flows'[b[1]][b[2]] \in Nat /\ flows[b[1]][b[2]] <= flows'[b[1]][b[2]]
      BY <1>2, <3>2
    <3>4. b[1] \in DOMAIN flows'
      BY <3>2 DEF Advances
    <3>. QED
      BY <3>2, <3>3, <3>4
  <2>. QED
    BY <2>1 DEF KernelInv, KeptOK, Advances
<1>4. ReadingOK'
  <2>1. SUFFICES ASSUME NEW i \in DOMAIN reading.obs, NEW s, s = reading.obs[i], ~s.closed, NEW M, M = s.created
                 PROVE  /\ s.begin = s.end /\ 0 < s.end /\ s.end <= clock' /\ M \in DOMAIN flows' /\ flows'[M].key = s.key
                        /\ \A j \in DOMAIN reading.obs : ~reading.obs[j].closed => reading.obs[j].begin = s.begin
                        /\ CountAt(s, "rx") <= flows'[M].rx /\ CountAt(s, "tx") <= flows'[M].tx /\ CountAt(s, "tx") >= 0
                        /\ s.rcvNext \in {ReceiveOrigin + s.truth.rx, ReceiveOrigin + s.truth.rx + 1}
                        /\ \A N \in DOMAIN flows' : Follows(M, N)' => s.end < N
                        /\ \A j \in DOMAIN events' :
                             events'[j].life = M /\ Data(events'[j]) /\ events'[j].at >= CountAt(s, events'[j].kind) =>
                               events'[j].time > s.begin
    BY DEF ReadingOK, Advances, CountAt, Data
  <2>2. /\ s.begin = s.end /\ 0 < s.end /\ s.end <= clock /\ M \in DOMAIN flows /\ flows[M].key = s.key
        /\ \A j \in DOMAIN reading.obs : ~reading.obs[j].closed => reading.obs[j].begin = s.begin
        /\ CountAt(s, "rx") <= flows[M].rx /\ CountAt(s, "tx") <= flows[M].tx /\ CountAt(s, "tx") >= 0
        /\ s.rcvNext \in {ReceiveOrigin + s.truth.rx, ReceiveOrigin + s.truth.rx + 1}
        /\ \A N \in DOMAIN flows : Follows(M, N) => s.end < N
        /\ \A j \in DOMAIN events :
             events[j].life = M /\ Data(events[j]) /\ events[j].at >= CountAt(s, events[j].kind) => events[j].time > s.begin
    BY <2>1 DEF KernelInv, ReadingOK
  <2>3. s \in Obs /\ s.end \in Nat /\ s.begin \in Nat /\ CountAt(s, "rx") \in Int /\ CountAt(s, "tx") \in Int
    <3>1. s \in Obs
      BY <2>1 DEF CollectorInv
    <3>2. SendOrigin \in Nat
      BY TcpPathsAssumption
    <3>. QED
      BY <3>1, <3>2 DEF Obs, TruthRec, CountAt
  <2>4. s.end <= clock'
    BY <1>2, <2>2, <2>3
  <2>5. CountAt(s, "rx") <= flows'[M].rx /\ CountAt(s, "tx") <= flows'[M].tx
    <3>1. "rx" \in Dirs /\ "tx" \in Dirs
      BY DEF Dirs
    <3>2. flows[M].rx \in Nat /\ flows'[M].rx \in Nat /\ flows[M].rx <= flows'[M].rx
      BY <1>2, <2>2, <3>1
    <3>3. flows[M].tx \in Nat /\ flows'[M].tx \in Nat /\ flows[M].tx <= flows'[M].tx
      BY <1>2, <2>2, <3>1
    <3>. QED
      BY <2>2, <2>3, <3>2, <3>3
  <2>6. M \in DOMAIN flows' /\ flows'[M].key = s.key
    BY <2>2 DEF Advances
  <2>7. \A N \in DOMAIN flows' : Follows(M, N)' => s.end < N
    BY <2>2 DEF Follows, Advances
  <2>8. ASSUME NEW j \in DOMAIN events', events'[j].life = M, Data(events'[j]), events'[j].at >= CountAt(s, events'[j].kind)
        PROVE  events'[j].time > s.begin
    <3>1. CASE j \in DOMAIN events /\ events'[j] = events[j]
      BY <2>2, <2>8, <3>1
    <3>2. CASE events'[j] \in NewEvents(k)
      <4>1. events'[j].time = clock + 1
        BY <3>2 DEF NewEvents
      <4>2. clock + 1 > s.begin
        BY <1>2, <2>2, <2>3
      <4>. QED
        BY <4>1, <4>2
    <3>. QED
      BY <3>1, <3>2 DEF Advances, Extends
  <2>. QED
    BY <2>2, <2>4, <2>5, <2>6, <2>7, <2>8
<1>. QED
  BY <1>3, <1>4

LEMMA AdvanceOK ==
  ASSUME CollectorInv, KernelInv, OK(tracker, proofs, events, kept), NEW k \in Key, Advances(k), FlowsOK'
  PROVE  KernelInv' /\ Joint(tracker, proofs, events, kept)'
<1>1. KernelInv'
  BY AdvanceApart, AdvanceProofs, AdvanceEvents, AdvanceReadings DEF KernelInv
<1>2. PICK L : L = tcp[k].life
  OBVIOUS
<1>3. Up(L) /\ flows[L].key = k /\ L \in DOMAIN flows /\ clock <= clock' /\ clock' \in Nat
  BY <1>2, AdvanceFacts
<1>4. Onward
  <2>1. \A M \in DOMAIN flows : M \in DOMAIN flows' /\ flows'[M].key = flows[M].key /\ flows'[M].tcb = flows[M].tcb
    BY DEF Advances
  <2>2. \A j \in Key : tcp'[j].up /\ tcp'[j].life \in DOMAIN flows => Up(tcp'[j].life)
    BY DEF Advances, Up
  <2>3. ASSUME NEW i \in DOMAIN proofs'
        PROVE  \/ \E j \in DOMAIN proofs : proofs'[i] = proofs[j]
               \/ Up(proofs'[i].life) /\ proofs'[i].kind \notin {"connect", "established"}
    BY <1>2, <1>3 DEF Advances, Extends, NewProofs
  <2>4. ASSUME NEW i \in DOMAIN events'
        PROVE  \/ \E j \in DOMAIN events : events'[i] = events[j]
               \/ /\ Up(events'[i].life) /\ events'[i].kind # "open" /\ events'[i].key = flows[events'[i].life].key
    BY <1>2, <1>3 DEF Advances, Extends, NewEvents
  <2>. QED
    BY <1>3, <2>1, <2>2, <2>3, <2>4 DEF Onward, Advances
<1>5. Joint(tracker, proofs, events, kept)'
  BY <1>3, <1>4, OnwardOK DEF KernelInv
<1>. QED
  BY <1>1, <1>5

(* The kernel's steps.                                                     *)
MovedFlow(f, dir, p, due) == [[f EXCEPT ![dir] = p + 1] EXCEPT !.due = due]

LEMMA MovedFlowFacts ==
  ASSUME NEW f \in FlowRec, NEW dir \in Dirs, NEW p \in Nat, NEW due, due \subseteq Slice, NEW g, g = MovedFlow(f, dir, p, due)
  PROVE  /\ g \in FlowRec /\ g.key = f.key /\ g.tcb = f.tcb /\ g.room = f.room /\ g[dir] = p + 1
         /\ \A other \in Dirs \ {dir} : g[other] = f[other]
<1>1. CASE dir = "rx"
  <2> DEFINE a == [f EXCEPT ![dir] = p + 1]
  <2>1. a \in FlowRec /\ a.key = f.key /\ a.tcb = f.tcb /\ a.room = f.room /\ a.rx = p + 1 /\ a.tx = f.tx
    BY <1>1 DEF FlowRec
  <2>2. g = [a EXCEPT !.due = due]
    BY Zenon DEF MovedFlow, a
  <2> HIDE DEF a
  <2>3. g \in FlowRec /\ g.key = f.key /\ g.tcb = f.tcb /\ g.room = f.room /\ g.rx = p + 1 /\ g.tx = f.tx
    BY <2>1, <2>2 DEF FlowRec
  <2>. QED
    BY <1>1, <2>3 DEF Dirs
<1>2. CASE dir = "tx"
  <2> DEFINE a == [f EXCEPT ![dir] = p + 1]
  <2>1. a \in FlowRec /\ a.key = f.key /\ a.tcb = f.tcb /\ a.room = f.room /\ a.tx = p + 1 /\ a.rx = f.rx
    BY <1>2 DEF FlowRec
  <2>2. g = [a EXCEPT !.due = due]
    BY Zenon DEF MovedFlow, a
  <2> HIDE DEF a
  <2>3. g \in FlowRec /\ g.key = f.key /\ g.tcb = f.tcb /\ g.room = f.room /\ g.tx = p + 1 /\ g.rx = f.rx
    BY <2>1, <2>2 DEF FlowRec
  <2>. QED
    BY <1>2, <2>3 DEF Dirs
<1>. QED
  BY <1>1, <1>2 DEF Dirs

LEMMA MovedFacts ==
  ASSUME flows \in Partial(Nat, FlowRec), NEW L \in DOMAIN flows, NEW dir \in Dirs, NEW p \in Nat,
         NEW g, g = Moved(L, dir, p)
  PROVE  /\ g \in Partial(Nat, FlowRec) /\ DOMAIN g = DOMAIN flows
         /\ \A M \in DOMAIN flows \ {L} : g[M] = flows[M]
         /\ g[L].key = flows[L].key /\ g[L].tcb = flows[L].tcb /\ g[L].room = flows[L].room /\ g[L][dir] = p + 1
         /\ \A other \in Dirs \ {dir} : g[L][other] = flows[L][other]
<1> DEFINE due == IF phase = "run" THEN flows[L].due \cup {<<L, dir, p>>} ELSE flows[L].due
           h == MovedFlow(flows[L], dir, p, due)
<1>1. flows = [M \in DOMAIN flows |-> flows[M]] /\ L \in Nat /\ DOMAIN flows \subseteq Nat /\ \A M \in DOMAIN flows : flows[M] \in FlowRec
  BY PartialElim
<1>2. due \subseteq Slice
  BY <1>1 DEF FlowRec, Slice
<1>3. /\ h \in FlowRec /\ h.key = flows[L].key /\ h.tcb = flows[L].tcb /\ h.room = flows[L].room /\ h[dir] = p + 1
      /\ \A other \in Dirs \ {dir} : h[other] = flows[L][other]
  <2> HIDE DEF due
  <2>. QED
    BY <1>1, <1>2, MovedFlowFacts
<1>4. g = [flows EXCEPT ![L] = h]
  <2>1. "due" # dir /\ "due" \in DOMAIN flows[L]
    BY <1>1 DEF Dirs, FlowRec
  <2>. QED
    BY <1>1, <2>1, Zenon DEF Moved, MovedFlow
<1> HIDE DEF h
<1>5. g = [M \in DOMAIN g |-> g[M]] /\ DOMAIN g = DOMAIN flows /\ g[L] = h /\ \A M \in DOMAIN flows \ {L} : g[M] = flows[M]
  BY <1>4
<1>6. g \in Partial(Nat, FlowRec)
  BY <1>1, <1>3, <1>5, PartialIntro
<1>. QED
  BY <1>3, <1>5, <1>6

\* A row of the kernel and the flow of its life move on together.
RowStep(k, d) ==
  /\ tcp[k].up /\ d \in Row /\ tcp' = [tcp EXCEPT ![k] = d] /\ d.life = tcp[k].life /\ d.tcb = tcp[k].tcb
  /\ clock <= clock' /\ clock' \in Nat /\ plan' = plan
  /\ flows' \in Partial(Nat, FlowRec) /\ DOMAIN flows' = DOMAIN flows
  /\ \A M \in DOMAIN flows \ {d.life} : flows'[M] = flows[M]
  /\ flows'[d.life].key = flows[d.life].key /\ flows'[d.life].tcb = flows[d.life].tcb
  /\ flows'[d.life].room = flows[d.life].room
  /\ flows'[d.life].rx = d.rx /\ flows'[d.life].tx = d.tx
  /\ d.rx >= tcp[k].rx /\ d.tx >= tcp[k].tx
  /\ d.rx <= flows[d.life].room.rx /\ d.tx <= flows[d.life].room.tx

LEMMA RowFlows ==
  ASSUME CollectorInv, FlowsOK, NEW k \in Key, NEW d, RowStep(k, d)
  PROVE  /\ FlowsOK'
         /\ DOMAIN flows' = DOMAIN flows /\ flows' \in Partial(Nat, FlowRec)
         /\ \A M \in DOMAIN flows : /\ flows'[M].key = flows[M].key /\ flows'[M].tcb = flows[M].tcb
                                    /\ flows[M].rx <= flows'[M].rx /\ flows[M].tx <= flows'[M].tx
         /\ \A j \in Key : tcp'[j].up => tcp[j].up /\ tcp'[j].life = tcp[j].life
<1>1. clock \in Nat /\ tcp \in [Key -> Row]
  BY DEF CollectorInv, TcpOK
<1>2. tcp'[k] = d /\ \A j \in Key \ {k} : tcp'[j] = tcp[j]
  BY <1>1 DEF RowStep
<1>3. PICK L : L = d.life
  OBVIOUS
<1>4. L \in DOMAIN flows /\ flows[L].key = k /\ flows[L].tcb = d.tcb /\ flows[L].rx = tcp[k].rx /\ flows[L].tx = tcp[k].tx
  BY <1>3 DEF RowStep, FlowsOK
<1>5. ASSUME NEW M \in DOMAIN flows
      PROVE  /\ 0 < M /\ M + 2 <= clock' /\ flows'[M].rx <= flows'[M].room.rx /\ flows'[M].tx <= flows'[M].room.tx
             /\ flows'[M].room.rx + 1 < Cycle /\ flows'[M].room.tx < Cycle
             /\ flows'[M].key = flows[M].key /\ flows'[M].tcb = flows[M].tcb
             /\ flows[M].rx <= flows'[M].rx /\ flows[M].tx <= flows'[M].tx
  <2>1. /\ 0 < M /\ M + 2 <= clock /\ flows[M].rx <= flows[M].room.rx /\ flows[M].tx <= flows[M].room.tx
        /\ flows[M].room.rx + 1 < Cycle /\ flows[M].room.tx < Cycle
    BY DEF FlowsOK
  <2>2. M \in Nat /\ flows[M].rx \in Nat /\ flows[M].tx \in Nat
    <3>1. M \in Nat /\ flows[M] \in FlowRec
      BY PartialElim DEF FlowsOK
    <3>. QED
      BY <3>1 DEF FlowRec
  <2>3. M + 2 <= clock'
    BY <1>1, <2>1, <2>2 DEF RowStep
  <2>4. CASE M # L
    BY <1>3, <2>1, <2>2, <2>3, <2>4 DEF RowStep
  <2>5. CASE M = L
    BY <1>3, <1>4, <2>1, <2>2, <2>3, <2>5 DEF RowStep
  <2>. QED
    BY <2>4, <2>5
<1>6. ASSUME NEW j \in Key, tcp'[j].up
      PROVE  /\ tcp'[j].life \in DOMAIN flows'
             /\ flows'[tcp'[j].life].key = j /\ flows'[tcp'[j].life].tcb = tcp'[j].tcb
             /\ flows'[tcp'[j].life].rx = tcp'[j].rx /\ flows'[tcp'[j].life].tx = tcp'[j].tx
  <2>1. CASE j = k
    BY <1>2, <1>3, <1>4, <2>1 DEF RowStep
  <2>2. CASE j # k
    <3>1. /\ tcp'[j] = tcp[j] /\ tcp[j].life \in DOMAIN flows
          /\ flows[tcp[j].life].key = j /\ flows[tcp[j].life].tcb = tcp[j].tcb
          /\ flows[tcp[j].life].rx = tcp[j].rx /\ flows[tcp[j].life].tx = tcp[j].tx
      BY <1>2, <1>6, <2>2 DEF FlowsOK
    <3>2. flows'[tcp[j].life] = flows[tcp[j].life]
      BY <1>3, <1>4, <2>2, <3>1 DEF RowStep
    <3>. QED
      BY <3>1, <3>2 DEF RowStep
  <2>. QED
    BY <2>1, <2>2
<1>7. \A L1, M \in DOMAIN flows : L1 < M => L1 + 3 <= M
  BY DEF FlowsOK
<1>8. FlowsOK'
  BY <1>5, <1>6, <1>7 DEF FlowsOK, RowStep
<1>9. \A j \in Key : tcp'[j].up => tcp[j].up /\ tcp'[j].life = tcp[j].life
  BY <1>2 DEF RowStep
<1>. QED
  BY <1>5, <1>8, <1>9 DEF RowStep

\* What is raised, put behind what was on its way.
LEMMA RaisedFacts ==
  ASSUME KernelInv, NEW k, NEW p \in Seq(NewProofs(k)), NEW e \in Seq(NewEvents(k)), Len(e) <= 1, Raise(p, e)
  PROVE  /\ proofs' \in Seq(ProofRec) /\ Extends(proofs, proofs', NewProofs(k))
         /\ events' \in Seq(EventRec) /\ Extends(events, events', NewEvents(k))
         /\ \A i, j \in DOMAIN events' : i \notin DOMAIN events /\ j \notin DOMAIN events => i = j
<1>1. proofs \in Seq(ProofRec) /\ events \in Seq(EventRec)
  BY DEF KernelInv, ProofsOK, EventsOK
<1>2. NewProofs(k) \subseteq ProofRec /\ NewEvents(k) \subseteq EventRec
  BY DEF NewProofs, NewEvents
<1>3. (proofs' = proofs \o p \/ proofs' = proofs) /\ (events' = events \o e \/ events' = events)
  BY DEF Raise
<1>4. proofs' \in Seq(ProofRec) /\ Extends(proofs, proofs', NewProofs(k))
  BY <1>1, <1>2, <1>3, ExtendsFacts
<1>5. events' \in Seq(EventRec) /\ Extends(events, events', NewEvents(k))
  BY <1>1, <1>2, <1>3, ExtendsFacts
<1>6. Len(e) <= 1 => \A i, j \in DOMAIN events' : i \notin DOMAIN events /\ j \notin DOMAIN events => i = j
  <2> HIDE DEF Raise
  <2>. QED
    BY <1>1, <1>2, <1>3, ExtendsFacts
<1>. QED
  BY <1>4, <1>5, <1>6

LEMMA RowStepOK ==
  ASSUME CollectorInv, KernelInv, OK(tracker, proofs, events, kept), NEW k \in Key, NEW d, RowStep(k, d),
         clock' = clock + 1, UNCHANGED <<reading, tracker, kept, plan>>,
         NEW p \in Seq(NewProofs(k)), NEW e \in Seq(NewEvents(k)), Len(e) <= 1, Raise(p, e)
  PROVE  KernelInv' /\ Joint(tracker, proofs, events, kept)'
<1>1. FlowsOK
  BY DEF KernelInv
<1>2. FlowsOK' /\ Advances(k)
  BY <1>1, RowFlows, RaisedFacts DEF Advances, RowStep
<1>. QED
  BY <1>2, AdvanceOK

\* The row and the flow of a connection that is up, before a step.
LEMMA RowFacts ==
  ASSUME CollectorInv, KernelInv, NEW k \in Key, tcp[k].up, NEW c, c = tcp[k], NEW f, f = flows[c.life]
  PROVE  /\ c \in Row /\ clock \in Nat /\ tcp \in [Key -> Row] /\ c.life \in DOMAIN flows /\ c.life \in Nat
         /\ f \in FlowRec /\ f.key = k /\ f.tcb = c.tcb /\ f.rx = c.rx /\ f.tx = c.tx /\ c.tcb \in Tcb
         /\ c.rx <= f.room.rx /\ c.tx <= f.room.tx
         /\ flows \in Partial(Nat, FlowRec) /\ DOMAIN flows \subseteq Nat
         /\ proofs \in Seq(ProofRec) /\ events \in Seq(EventRec)
<1>1. clock \in Nat /\ tcp \in [Key -> Row] /\ flows \in Partial(Nat, FlowRec)
  BY DEF CollectorInv, TcpOK, KernelInv, FlowsOK
<1>2. /\ c.life \in DOMAIN flows /\ f.key = k /\ f.tcb = c.tcb /\ f.rx = c.rx /\ f.tx = c.tx
      /\ f.rx <= f.room.rx /\ f.tx <= f.room.tx
  BY DEF KernelInv, FlowsOK
<1>3. f \in FlowRec /\ c.life \in Nat /\ DOMAIN flows \subseteq Nat
  BY <1>1, <1>2, PartialElim
<1>4. f.tcb \in Tcb
  BY <1>3 DEF FlowRec
<1>. QED
  BY <1>1, <1>2, <1>3, <1>4 DEF KernelInv, ProofsOK, EventsOK

LEMMA OneProof ==
  ASSUME CollectorInv, KernelInv, NEW k \in Key, tcp[k].up, NEW kind \in {"receive", "send", "fin", "close"},
         NEW seq \in Int, kind = "close" => ~tcp'[k].up
  PROVE  Proof(kind, k, clock + 1, seq) \in NewProofs(k)
<1> DEFINE q == Proof(kind, k, clock + 1, seq)
<1>1. tcp[k].life \in Nat /\ tcp[k].tcb \in Tcb /\ clock \in Nat
  BY RowFacts
<1>2. seq % Cycle \in Nat
  <2>1. Cycle \in Nat \ {0}
    BY TcpPathsAssumption
  <2>. QED
    BY <2>1
<1>3. q \in ProofRec
  BY <1>1, <1>2 DEF Proof, ProofRec, ProofKinds
<1>4. q.kind = kind /\ q.key = k /\ q.tcb = tcp[k].tcb /\ q.life = tcp[k].life /\ q.time = clock + 1
  BY DEF Proof
<1> SUFFICES q \in NewProofs(k)
  OBVIOUS
<1> HIDE DEF q
<1>. QED
  BY <1>3, <1>4 DEF NewProofs

LEMMA OneEvent ==
  ASSUME CollectorInv, KernelInv, NEW k \in Key, tcp[k].up, NEW kind \in {"rx", "tx", "close"}, NEW at \in Nat,
         kind # "close" => at = flows[tcp[k].life][kind] /\ flows'[tcp[k].life][kind] = at + 1 /\ tcp'[k].up
  PROVE  Event(kind, k, clock + 1, at) \in NewEvents(k)
<1> DEFINE q == Event(kind, k, clock + 1, at)
<1>1. tcp[k].life \in Nat /\ clock \in Nat
  BY RowFacts
<1>2. q \in EventRec
  BY <1>1 DEF Event, EventRec
<1>3. /\ q.kind = kind /\ q.key = k /\ q.life = tcp[k].life /\ q.time = clock + 1 /\ q.at = at /\ q.endpoints
      /\ q.bytes = IF kind \in {"rx", "tx"} THEN 1 ELSE 0
  BY DEF Event
<1> SUFFICES q \in NewEvents(k)
  OBVIOUS
<1> HIDE DEF q
<1>4. Data(q) <=> kind # "close"
  BY <1>3 DEF Data, Dirs
<1>. QED
  BY <1>2, <1>3, <1>4 DEF NewEvents

LEMMA ReceiveOK ==
  ASSUME CollectorInv, KernelInv, OK(tracker, proofs, events, kept), NEW k \in Key, Receive(k)
  PROVE  KernelInv' /\ Joint(tracker, proofs, events, kept)'
<1>1. PICK c : c = tcp[k]
  OBVIOUS
<1>2. PICK L : L = c.life
  OBVIOUS
<1>3. PICK d : d = [c EXCEPT !.rx = @ + 1]
  OBVIOUS
<1>4. /\ c.up /\ c.rx < flows[L].room.rx /\ clock' = clock + 1 /\ tcp' = [tcp EXCEPT ![k].rx = @ + 1]
      /\ flows' = Moved(L, "rx", c.rx)
      /\ Raise(<<Proof("receive", k, clock + 1, ReceiveOrigin + c.rx)>>, <<Event("rx", k, clock + 1, c.rx)>>)
      /\ UNCHANGED <<reading, tracker, kept, plan>>
  BY <1>1, <1>2 DEF Receive, UNCHANGEDRest
<1>5. /\ c \in Row /\ clock \in Nat /\ tcp \in [Key -> Row] /\ L \in DOMAIN flows
      /\ flows[L] \in FlowRec /\ flows[L].key = k /\ flows[L].rx = c.rx /\ flows[L].tx = c.tx
      /\ c.rx <= flows[L].room.rx /\ c.tx <= flows[L].room.tx /\ flows \in Partial(Nat, FlowRec)
  BY <1>1, <1>2, <1>4, RowFacts
<1>6. d \in Row /\ d.life = L /\ d.tcb = c.tcb /\ d.rx = c.rx + 1 /\ d.tx = c.tx /\ d.up
  BY <1>2, <1>3, <1>4, <1>5 DEF Row
<1>7. tcp' = [tcp EXCEPT ![k] = d] /\ tcp'[k] = d
  BY <1>1, <1>3, <1>4, <1>5
<1>8. /\ flows' \in Partial(Nat, FlowRec) /\ DOMAIN flows' = DOMAIN flows
      /\ \A M \in DOMAIN flows \ {L} : flows'[M] = flows[M]
      /\ flows'[L].key = flows[L].key /\ flows'[L].tcb = flows[L].tcb /\ flows'[L].room = flows[L].room
      /\ flows'[L].rx = c.rx + 1 /\ flows'[L].tx = flows[L].tx
  <2>1. "rx" \in Dirs /\ "tx" \in Dirs /\ "rx" # "tx" /\ c.rx \in Nat
    BY <1>5 DEF Dirs, Row
  <2>. QED
    BY <1>4, <1>5, <2>1, MovedFacts
<1>9. RowStep(k, d)
  <2>1. c.rx \in Nat /\ c.tx \in Nat /\ flows[L].room.rx \in Nat
    BY <1>5 DEF Row, FlowRec
  <2>2. d.rx >= c.rx /\ d.tx >= c.tx /\ d.rx <= flows[L].room.rx /\ d.tx <= flows[L].room.tx
    BY <1>4, <1>5, <1>6, <2>1
  <2>3. clock <= clock' /\ clock' \in Nat
    BY <1>4, <1>5
  <2>4. /\ tcp[k].up /\ d \in Row /\ tcp' = [tcp EXCEPT ![k] = d] /\ d.life = tcp[k].life /\ d.tcb = tcp[k].tcb
        /\ d.rx >= tcp[k].rx /\ d.tx >= tcp[k].tx
    BY <1>1, <1>2, <1>4, <1>6, <1>7, <2>2
  <2>5. /\ flows' \in Partial(Nat, FlowRec) /\ DOMAIN flows' = DOMAIN flows
        /\ \A M \in DOMAIN flows \ {d.life} : flows'[M] = flows[M]
        /\ flows'[d.life].key = flows[d.life].key /\ flows'[d.life].tcb = flows[d.life].tcb
        /\ flows'[d.life].room = flows[d.life].room
        /\ flows'[d.life].rx = d.rx /\ flows'[d.life].tx = d.tx
        /\ d.rx <= flows[d.life].room.rx /\ d.tx <= flows[d.life].room.tx
    BY <1>5, <1>6, <1>8, <2>2
  <2>. QED
    BY <1>4, <2>3, <2>4, <2>5 DEF RowStep
<1>10. Proof("receive", k, clock + 1, ReceiveOrigin + c.rx) \in NewProofs(k)
  <2>1. ReceiveOrigin + c.rx \in Int
    <3>1. ReceiveOrigin \in Nat
      BY TcpPathsAssumption
    <3>. QED
      BY <1>5, <3>1 DEF Row
  <2>. QED
    BY <1>1, <1>4, <2>1, OneProof
<1>11. Event("rx", k, clock + 1, c.rx) \in NewEvents(k)
  <2>1. c.rx \in Nat /\ c.rx = flows[tcp[k].life]["rx"] /\ flows'[tcp[k].life]["rx"] = c.rx + 1 /\ tcp'[k].up /\ tcp[k].up
    BY <1>1, <1>2, <1>4, <1>5, <1>6, <1>7, <1>8 DEF Row
  <2>. QED
    BY <2>1, OneEvent
<1>12. PICK p : p = <<Proof("receive", k, clock + 1, ReceiveOrigin + c.rx)>>
  OBVIOUS
<1>13. PICK e : e = <<Event("rx", k, clock + 1, c.rx)>>
  OBVIOUS
<1>14. p \in Seq(NewProofs(k)) /\ e \in Seq(NewEvents(k)) /\ Len(e) <= 1 /\ Raise(p, e)
  BY <1>4, <1>10, <1>11, <1>12, <1>13
<1>. QED
  BY <1>4, <1>9, <1>14, RowStepOK
LEMMA SendOK ==
  ASSUME CollectorInv, KernelInv, OK(tracker, proofs, events, kept), NEW k \in Key, Send(k)
  PROVE  KernelInv' /\ Joint(tracker, proofs, events, kept)'
<1>1. PICK c : c = tcp[k]
  OBVIOUS
<1>2. PICK L : L = c.life
  OBVIOUS
<1>3. PICK d : d = [c EXCEPT !.tx = @ + 1, !.wire = @ + 1]
  OBVIOUS
<1>4. /\ c.up /\ c.tx < flows[L].room.tx /\ clock' = clock + 1 /\ tcp' = [tcp EXCEPT ![k].tx = @ + 1, ![k].wire = @ + 1]
      /\ flows' = Moved(L, "tx", c.tx)
      /\ Raise(<<Proof("send", k, clock + 1, SendOrigin + c.tx)>>, <<Event("tx", k, clock + 1, c.tx)>>)
      /\ UNCHANGED <<reading, tracker, kept, plan>>
  BY <1>1, <1>2 DEF Send, UNCHANGEDRest
<1>5. /\ c \in Row /\ clock \in Nat /\ tcp \in [Key -> Row] /\ L \in DOMAIN flows
      /\ flows[L] \in FlowRec /\ flows[L].key = k /\ flows[L].rx = c.rx /\ flows[L].tx = c.tx
      /\ c.rx <= flows[L].room.rx /\ c.tx <= flows[L].room.tx /\ flows \in Partial(Nat, FlowRec)
  BY <1>1, <1>2, <1>4, RowFacts
<1>6. d \in Row /\ d.life = L /\ d.tcb = c.tcb /\ d.rx = c.rx /\ d.tx = c.tx + 1 /\ d.up
  BY <1>2, <1>3, <1>4, <1>5 DEF Row
<1>7. tcp' = [tcp EXCEPT ![k] = d] /\ tcp'[k] = d
  BY <1>1, <1>3, <1>4, <1>5
<1>8. /\ flows' \in Partial(Nat, FlowRec) /\ DOMAIN flows' = DOMAIN flows
      /\ \A M \in DOMAIN flows \ {L} : flows'[M] = flows[M]
      /\ flows'[L].key = flows[L].key /\ flows'[L].tcb = flows[L].tcb /\ flows'[L].room = flows[L].room
      /\ flows'[L].rx = flows[L].rx /\ flows'[L].tx = c.tx + 1
  <2>1. "rx" \in Dirs /\ "tx" \in Dirs /\ "rx" # "tx" /\ c.tx \in Nat
    BY <1>5 DEF Dirs, Row
  <2>. QED
    BY <1>4, <1>5, <2>1, MovedFacts
<1>9. RowStep(k, d)
  <2>1. c.rx \in Nat /\ c.tx \in Nat /\ flows[L].room.tx \in Nat
    BY <1>5 DEF Row, FlowRec
  <2>2. d.rx >= c.rx /\ d.tx >= c.tx /\ d.rx <= flows[L].room.rx /\ d.tx <= flows[L].room.tx
    BY <1>4, <1>5, <1>6, <2>1
  <2>3. clock <= clock' /\ clock' \in Nat
    BY <1>4, <1>5
  <2>4. /\ tcp[k].up /\ d \in Row /\ tcp' = [tcp EXCEPT ![k] = d] /\ d.life = tcp[k].life /\ d.tcb = tcp[k].tcb
        /\ d.rx >= tcp[k].rx /\ d.tx >= tcp[k].tx
    BY <1>1, <1>2, <1>4, <1>6, <1>7, <2>2
  <2>5. /\ flows' \in Partial(Nat, FlowRec) /\ DOMAIN flows' = DOMAIN flows
        /\ \A M \in DOMAIN flows \ {d.life} : flows'[M] = flows[M]
        /\ flows'[d.life].key = flows[d.life].key /\ flows'[d.life].tcb = flows[d.life].tcb
        /\ flows'[d.life].room = flows[d.life].room
        /\ flows'[d.life].rx = d.rx /\ flows'[d.life].tx = d.tx
        /\ d.rx <= flows[d.life].room.rx /\ d.tx <= flows[d.life].room.tx
    BY <1>5, <1>6, <1>8, <2>2
  <2>. QED
    BY <1>4, <2>3, <2>4, <2>5 DEF RowStep
<1>10. Proof("send", k, clock + 1, SendOrigin + c.tx) \in NewProofs(k)
  <2>1. SendOrigin + c.tx \in Int
    <3>1. SendOrigin \in Nat
      BY TcpPathsAssumption
    <3>. QED
      BY <1>5, <3>1 DEF Row
  <2>. QED
    BY <1>1, <1>4, <2>1, OneProof
<1>11. Event("tx", k, clock + 1, c.tx) \in NewEvents(k)
  <2>1. c.tx \in Nat /\ c.tx = flows[tcp[k].life]["tx"] /\ flows'[tcp[k].life]["tx"] = c.tx + 1 /\ tcp'[k].up /\ tcp[k].up
    BY <1>1, <1>2, <1>4, <1>5, <1>6, <1>7, <1>8 DEF Row
  <2>. QED
    BY <2>1, OneEvent
<1>12. PICK p : p = <<Proof("send", k, clock + 1, SendOrigin + c.tx)>>
  OBVIOUS
<1>13. PICK e : e = <<Event("tx", k, clock + 1, c.tx)>>
  OBVIOUS
<1>14. p \in Seq(NewProofs(k)) /\ e \in Seq(NewEvents(k)) /\ Len(e) <= 1 /\ Raise(p, e)
  BY <1>4, <1>10, <1>11, <1>12, <1>13
<1>. QED
  BY <1>4, <1>9, <1>14, RowStepOK

\* A row changes, and its counts do not.
LEMMA RowStays ==
  ASSUME CollectorInv, KernelInv, NEW k \in Key, tcp[k].up, NEW d \in Row, tcp' = [tcp EXCEPT ![k] = d],
         d.life = tcp[k].life, d.tcb = tcp[k].tcb, d.rx = tcp[k].rx, d.tx = tcp[k].tx,
         clock' \in {clock, clock + 1}, UNCHANGED <<flows, plan>>
  PROVE  RowStep(k, d) /\ tcp'[k] = d
<1>1. PICK c : c = tcp[k]
  OBVIOUS
<1>2. PICK L : L = d.life
  OBVIOUS
<1>3. /\ c \in Row /\ clock \in Nat /\ tcp \in [Key -> Row] /\ L \in DOMAIN flows
      /\ flows[L].key = k /\ flows[L].rx = c.rx /\ flows[L].tx = c.tx
      /\ c.rx <= flows[L].room.rx /\ c.tx <= flows[L].room.tx /\ flows \in Partial(Nat, FlowRec)
  BY <1>1, <1>2, RowFacts
<1>4. clock <= clock' /\ clock' \in Nat
  BY <1>3
<1>5. d.rx >= tcp[k].rx /\ d.tx >= tcp[k].tx
  BY DEF Row
<1>6. tcp'[k] = d
  BY <1>3
<1>. QED
  BY <1>1, <1>2, <1>3, <1>4, <1>5, <1>6 DEF RowStep

LEMMA RetransmitOK ==
  ASSUME CollectorInv, KernelInv, OK(tracker, proofs, events, kept), NEW k \in Key, Retransmit(k)
  PROVE  KernelInv' /\ Joint(tracker, proofs, events, kept)'
<1>1. PICK c : c = tcp[k]
  OBVIOUS
<1>2. PICK d : d = [c EXCEPT !.wire = @ + 1]
  OBVIOUS
<1>3. /\ c.up /\ clock' = clock + 1 /\ tcp' = [tcp EXCEPT ![k].wire = @ + 1]
      /\ Raise(<<Proof("send", k, clock + 1, SendOrigin + c.tx - 1)>>, << >>)
      /\ UNCHANGED <<flows, reading, tracker, kept, plan>>
  BY <1>1 DEF Retransmit, UNCHANGEDRest
<1>4. c \in Row /\ tcp \in [Key -> Row]
  BY <1>1, <1>3, RowFacts
<1>5. d \in Row /\ d.life = c.life /\ d.tcb = c.tcb /\ d.rx = c.rx /\ d.tx = c.tx
  BY <1>2, <1>4 DEF Row
<1>6. tcp' = [tcp EXCEPT ![k] = d]
  BY <1>1, <1>2, <1>3, <1>4
<1>7. RowStep(k, d)
  BY <1>1, <1>3, <1>5, <1>6, RowStays
<1>8. Proof("send", k, clock + 1, SendOrigin + c.tx - 1) \in NewProofs(k)
  <2>1. SendOrigin + c.tx - 1 \in Int
    <3>1. SendOrigin \in Nat
      BY TcpPathsAssumption
    <3>. QED
      BY <1>4, <3>1 DEF Row
  <2>. QED
    BY <1>1, <1>3, <2>1, OneProof
<1>9. PICK p : p = <<Proof("send", k, clock + 1, SendOrigin + c.tx - 1)>>
  OBVIOUS
<1>10. PICK e : e = << >>
  OBVIOUS
<1>11. p \in Seq(NewProofs(k)) /\ e \in Seq(NewEvents(k)) /\ Len(e) <= 1 /\ Raise(p, e)
  BY <1>3, <1>8, <1>9, <1>10
<1>. QED
  BY <1>3, <1>7, <1>11, RowStepOK

LEMMA PeerFinOK ==
  ASSUME CollectorInv, KernelInv, OK(tracker, proofs, events, kept), NEW k \in Key, PeerFin(k)
  PROVE  KernelInv' /\ Joint(tracker, proofs, events, kept)'
<1>1. PICK c : c = tcp[k]
  OBVIOUS
<1>2. PICK d : d = [c EXCEPT !.fin = TRUE]
  OBVIOUS
<1>3. /\ c.up /\ clock' = clock + 1 /\ tcp' = [tcp EXCEPT ![k].fin = TRUE]
      /\ Raise(<<Proof("receive", k, clock + 1, ReceiveOrigin + c.rx),
                 Proof("fin", k, clock + 1, ReceiveOrigin + c.rx + 1)>>, << >>)
      /\ UNCHANGED <<flows, reading, tracker, kept, plan>>
  BY <1>1 DEF PeerFin, UNCHANGEDRest
<1>4. c \in Row /\ tcp \in [Key -> Row]
  BY <1>1, <1>3, RowFacts
<1>5. d \in Row /\ d.life = c.life /\ d.tcb = c.tcb /\ d.rx = c.rx /\ d.tx = c.tx
  BY <1>2, <1>4 DEF Row
<1>6. tcp' = [tcp EXCEPT ![k] = d]
  BY <1>1, <1>2, <1>3, <1>4
<1>7. RowStep(k, d)
  BY <1>1, <1>3, <1>5, <1>6, RowStays
<1>8. /\ Proof("receive", k, clock + 1, ReceiveOrigin + c.rx) \in NewProofs(k)
      /\ Proof("fin", k, clock + 1, ReceiveOrigin + c.rx + 1) \in NewProofs(k)
  <2>1. ReceiveOrigin + c.rx \in Int /\ ReceiveOrigin + c.rx + 1 \in Int
    <3>1. ReceiveOrigin \in Nat
      BY TcpPathsAssumption
    <3>. QED
      BY <1>4, <3>1 DEF Row
  <2>. QED
    BY <1>1, <1>3, <2>1, OneProof
<1>9. PICK p : p = <<Proof("receive", k, clock + 1, ReceiveOrigin + c.rx), Proof("fin", k, clock + 1, ReceiveOrigin + c.rx + 1)>>
  OBVIOUS
<1>10. PICK e : e = << >>
  OBVIOUS
<1>11. p \in Seq(NewProofs(k)) /\ e \in Seq(NewEvents(k)) /\ Len(e) <= 1 /\ Raise(p, e)
  BY <1>3, <1>8, <1>9, <1>10
<1>. QED
  BY <1>3, <1>7, <1>11, RowStepOK

LEMMA CloseOK ==
  ASSUME CollectorInv, KernelInv, OK(tracker, proofs, events, kept), NEW k \in Key, Close(k)
  PROVE  KernelInv' /\ Joint(tracker, proofs, events, kept)'
<1>1. PICK c : c = tcp[k]
  OBVIOUS
<1>2. PICK d : d = [c EXCEPT !.up = FALSE]
  OBVIOUS
<1>3. /\ c.up /\ clock' = clock + 1 /\ tcp' = [tcp EXCEPT ![k].up = FALSE]
      /\ Raise(<<Proof("close", k, clock + 1, 0)>>, <<Event("close", k, clock + 1, 0)>>)
      /\ UNCHANGED <<flows, reading, tracker, kept, plan>>
  BY <1>1 DEF Close, UNCHANGEDRest
<1>4. c \in Row /\ tcp \in [Key -> Row]
  BY <1>1, <1>3, RowFacts
<1>5. d \in Row /\ d.life = c.life /\ d.tcb = c.tcb /\ d.rx = c.rx /\ d.tx = c.tx /\ ~d.up
  BY <1>2, <1>4 DEF Row
<1>6. tcp' = [tcp EXCEPT ![k] = d]
  BY <1>1, <1>2, <1>3, <1>4
<1>7. RowStep(k, d) /\ tcp'[k] = d
  BY <1>1, <1>3, <1>5, <1>6, RowStays
<1>8. Proof("close", k, clock + 1, 0) \in NewProofs(k)
  BY <1>1, <1>3, <1>5, <1>7, OneProof
<1>9. Event("close", k, clock + 1, 0) \in NewEvents(k)
  BY <1>1, <1>3, OneEvent
<1>10. PICK p : p = <<Proof("close", k, clock + 1, 0)>>
  OBVIOUS
<1>11. PICK e : e = <<Event("close", k, clock + 1, 0)>>
  OBVIOUS
<1>12. p \in Seq(NewProofs(k)) /\ e \in Seq(NewEvents(k)) /\ Len(e) <= 1 /\ Raise(p, e)
  BY <1>3, <1>8, <1>9, <1>10, <1>11
<1>. QED
  BY <1>3, <1>7, <1>12, RowStepOK

\* A step that moves no byte and raises nothing.
LEMMA StaysOK ==
  ASSUME CollectorInv, KernelInv, OK(tracker, proofs, events, kept), FlowsOK', UNCHANGED <<flows, clock, proofs, events>>,
         \A j \in Key : tcp'[j].up => tcp[j].up /\ tcp'[j].life = tcp[j].life,
         UNCHANGED <<reading, tracker, kept>>
  PROVE  KernelInv' /\ Joint(tracker, proofs, events, kept)'
<1>1. \A M : (\E j \in Key : tcp'[j].up /\ tcp'[j].life = M) => Up(M)
  BY DEF Up
<1>2. Apart'
  BY <1>1 DEF KernelInv, Apart, Follows, Up
<1>3. ProofsOK'
  <2>1. \A i \in DOMAIN proofs : proofs[i].kind = "close" => ~(\E j \in Key : tcp'[j].up /\ tcp'[j].life = proofs[i].life)
    BY <1>1 DEF KernelInv, ProofsOK
  <2>. QED
    BY <2>1 DEF KernelInv, ProofsOK, Up, Data
<1>4. EventsOK' /\ KeptOK'
  BY DEF KernelInv, EventsOK, KeptOK, Data
<1>5. ReadingOK'
  BY DEF KernelInv, ReadingOK, CountAt, Follows, Data
<1>6. KernelInv'
  BY <1>2, <1>3, <1>4, <1>5 DEF KernelInv
<1>7. Onward /\ clock' \in Nat
  <2>1. clock \in Nat
    BY DEF CollectorInv, TcpOK
  <2>2. clock <= clock' /\ clock' \in Nat
    BY <2>1
  <2>. QED
    BY <1>1, <2>2 DEF Onward
<1>. QED
  BY <1>6, <1>7, OnwardOK DEF KernelInv

LEMMA AckOK ==
  ASSUME CollectorInv, KernelInv, OK(tracker, proofs, events, kept), NEW k \in Key, Ack(k)
  PROVE  KernelInv' /\ Joint(tracker, proofs, events, kept)'
<1>1. PICK c : c = tcp[k]
  OBVIOUS
<1>2. PICK d : d = [c EXCEPT !.acked = c.tx]
  OBVIOUS
<1>3. /\ c.up /\ tcp' = [tcp EXCEPT ![k].acked = tcp[k].tx]
      /\ UNCHANGED <<clock, flows, proofs, events, reading, tracker, kept, plan>>
  BY <1>1 DEF Ack, UNCHANGEDRest
<1>4. c \in Row /\ tcp \in [Key -> Row]
  BY <1>1, <1>3, RowFacts
<1>5. d \in Row /\ d.life = c.life /\ d.tcb = c.tcb /\ d.rx = c.rx /\ d.tx = c.tx
  BY <1>2, <1>4 DEF Row
<1>6. tcp' = [tcp EXCEPT ![k] = d]
  BY <1>1, <1>2, <1>3, <1>4
<1>7. RowStep(k, d)
  BY <1>1, <1>3, <1>5, <1>6, RowStays
<1>8. FlowsOK' /\ \A j \in Key : tcp'[j].up => tcp[j].up /\ tcp'[j].life = tcp[j].life
  BY <1>7, RowFlows DEF KernelInv
<1>. QED
  BY <1>3, <1>8, StaysOK

LEMMA ForeignOK ==
  ASSUME CollectorInv, KernelInv, OK(tracker, proofs, events, kept), NEW k \in Key, NEW on \in BOOLEAN, Foreign(k, on)
  PROVE  KernelInv' /\ Joint(tracker, proofs, events, kept)'
<1>1. PICK c : c = tcp[k]
  OBVIOUS
<1>2. PICK d : d = IF on THEN Enabled(c) ELSE [c EXCEPT !.on = FALSE]
  OBVIOUS
<1>3. /\ c.up /\ tcp' = [tcp EXCEPT ![k] = IF on THEN Enabled(@) ELSE [@ EXCEPT !.on = FALSE]]
      /\ UNCHANGED <<clock, flows, proofs, events, reading, tracker, kept, plan>>
  BY <1>1 DEF Foreign, UNCHANGEDRest
<1>4. c \in Row /\ tcp \in [Key -> Row] /\ Enabling(c)
  BY <1>1, <1>3, RowFacts DEF CollectorInv, TcpOK
<1>5. d \in Row /\ d.life = c.life /\ d.tcb = c.tcb /\ d.rx = c.rx /\ d.tx = c.tx
  <2>1. Enabled(c) \in Row /\ SameRow(c, Enabled(c))
    BY <1>4, EnabledFacts
  <2>2. CASE on
    BY <1>2, <2>1, <2>2 DEF SameRow
  <2>3. CASE ~on
    BY <1>2, <1>4, <2>3 DEF Row
  <2>. QED
    BY <2>2, <2>3
<1>6. tcp' = [tcp EXCEPT ![k] = d]
  BY <1>1, <1>2, <1>3, <1>4
<1>7. RowStep(k, d)
  BY <1>1, <1>3, <1>5, <1>6, RowStays
<1>8. FlowsOK' /\ \A j \in Key : tcp'[j].up => tcp[j].up /\ tcp'[j].life = tcp[j].life
  BY <1>7, RowFlows DEF KernelInv
<1>. QED
  BY <1>3, <1>8, StaysOK

-----------------------------------------------------------------------------
(* A connection opens.  Its positions fit the sequence space.              *)
OpenProof(k, x, kind, time, seq) ==
  [kind |-> kind, key |-> k, tcb |-> x, life |-> clock + 1, time |-> time, seq |-> seq % Cycle,
   bytes |-> IF kind = "receive" THEN 1 ELSE 0]
OpenProofs(k, x) ==
  <<OpenProof(k, x, "connect", clock + 1, 0), OpenProof(k, x, "syn", clock + 1, SendOrigin - 1),
    OpenProof(k, x, "receive", clock + 2, ReceiveOrigin), OpenProof(k, x, "established", clock + 2, 0)>>
OpenEvent(k) ==
  [kind |-> "open", key |-> k, life |-> clock + 1, time |-> clock + 3, at |-> 0, bytes |-> 0, endpoints |-> TRUE]
NewFlow(k, x, room) == [key |-> k, tcb |-> x, rx |-> 0, tx |-> 0, due |-> {}, room |-> room]
NewRow(x) == [NoTcp EXCEPT !.life = clock + 1, !.tcb = x, !.up = TRUE]

LEMMA OpenForm ==
  ASSUME NEW k \in Key, NEW x \in Tcb, Open(k, x)
  PROVE  /\ ~tcp[k].up /\ Cardinality(DOMAIN flows) < Len(plan.lives)
         /\ \A j \in Key : tcp[j].up => tcp[j].tcb # x
         /\ clock' = clock + 3 /\ tcp' = [tcp EXCEPT ![k] = NewRow(x)]
         /\ flows' = With(flows, clock + 1, NewFlow(k, x, plan.lives[Cardinality(DOMAIN flows) + 1]))
         /\ proofs' = proofs \o OpenProofs(k, x) \/ proofs' = proofs
         /\ events' = events \o <<OpenEvent(k)>> \/ events' = events
         /\ UNCHANGED <<reading, tracker, kept, plan>>
<1> DEFINE c == [NoTcp EXCEPT !.life = clock + 1, !.tcb = x, !.up = TRUE]
<1>1. c.life = clock + 1 /\ c = NewRow(x)
  BY DEF NoTcp, NewRow
<1> HIDE DEF c
<1>2. /\ ~tcp[k].up /\ Cardinality(DOMAIN flows) < Len(plan.lives)
      /\ \A j \in Key : tcp[j].up => tcp[j].tcb # x
      /\ clock' = clock + 3 /\ UNCHANGED <<reading, tracker, kept, plan>>
  BY DEF Open, UNCHANGEDRest
<1>3. tcp' = [tcp EXCEPT ![k] = c]
  BY DEF Open, c
<1>4. flows' = With(flows, c.life, NewFlow(k, x, plan.lives[Cardinality(DOMAIN flows) + 1]))
  BY DEF Open, c, NewFlow
<1>5. /\ proofs' = proofs \o OpenProofs(k, x) \/ proofs' = proofs
      /\ events' = events \o <<OpenEvent(k)>> \/ events' = events
  <2> DEFINE old(kind, time, seq) == [kind |-> kind, key |-> k, tcb |-> x, life |-> c.life, time |-> time,
                                      seq |-> seq % Cycle, bytes |-> IF kind = "receive" THEN 1 ELSE 0]
             p == <<old("connect", clock + 1, 0), old("syn", clock + 1, SendOrigin - 1),
                    old("receive", clock + 2, ReceiveOrigin), old("established", clock + 2, 0)>>
             e == [kind |-> "open", key |-> k, life |-> c.life, time |-> clock + 3, at |-> 0, bytes |-> 0, endpoints |-> TRUE]
  <2>1. Raise(p, <<e>>)
    BY DEF Open, c
  <2>2. p = OpenProofs(k, x) /\ e = OpenEvent(k)
    BY <1>1 DEF OpenProofs, OpenProof, OpenEvent
  <2> HIDE DEF p, e
  <2>. QED
    BY <2>1, <2>2 DEF Raise
<1>. QED
  BY <1>1, <1>2, <1>3, <1>4, <1>5

LEMMA OpenFlows ==
  ASSUME CollectorInv, KernelInv, ShortLives, NEW k \in Key, NEW x \in Tcb, Open(k, x), NEW L, L = clock + 1
  PROVE  /\ FlowsOK' /\ clock \in Nat /\ clock' = clock + 3 /\ L \in Nat
         /\ DOMAIN flows' = DOMAIN flows \cup {L} /\ L \notin DOMAIN flows
         /\ flows'[L].key = k /\ flows'[L].tcb = x
         /\ \A N \in DOMAIN flows : /\ N \in Nat /\ 0 < N /\ N + 3 <= L /\ flows'[N] = flows[N]
                                    /\ (\E j \in Key : tcp'[j].up /\ tcp'[j].life = N) => Up(N)
                                    /\ flows[N].key = k \/ flows[N].tcb = x => ~Up(N)
<1> DEFINE room == plan.lives[Cardinality(DOMAIN flows) + 1]
           f == NewFlow(k, x, room)
           d == NewRow(x)
<1>0. /\ ~tcp[k].up /\ Cardinality(DOMAIN flows) < Len(plan.lives)
      /\ \A j \in Key : tcp[j].up => tcp[j].tcb # x
      /\ clock' = clock + 3 /\ tcp' = [tcp EXCEPT ![k] = d] /\ flows' = With(flows, L, f) /\ plan' = plan
  BY OpenForm
<1>1. clock \in Nat /\ tcp \in [Key -> Row] /\ flows \in Partial(Nat, FlowRec) /\ IsFiniteSet(DOMAIN flows) /\ plan \in Plans
  BY DEF CollectorInv, TcpOK, KernelInv, FlowsOK
<1>2. L \in Nat /\ L + 2 = clock' /\ 0 < L
  BY <1>0, <1>1
<1>3. room \in [rx : Nat, tx : Nat, fin : BOOLEAN] /\ room.rx + 1 < Cycle /\ room.tx < Cycle
  <2>1. Cardinality(DOMAIN flows) \in Nat
    BY <1>1, FS_CardinalityType
  <2>2. plan.lives \in Seq([rx : Nat, tx : Nat, fin : BOOLEAN])
    BY <1>1, TcpPathsAssumption
  <2>3. Cardinality(DOMAIN flows) + 1 \in DOMAIN plan.lives
    BY <1>0, <2>1, <2>2
  <2>4. room \in [rx : Nat, tx : Nat, fin : BOOLEAN]
    <3> DEFINE Rooms == [rx : Nat, tx : Nat, fin : BOOLEAN]
    <3>1. \A lives \in Seq(Rooms) : \A i \in DOMAIN lives : lives[i] \in Rooms
      <4> HIDE DEF Rooms
      <4>. QED
        OBVIOUS
    <3>. QED
      BY <2>2, <2>3, <3>1
  <2>5. room.rx + 1 < Cycle /\ room.tx < Cycle
    BY <1>1, <2>3 DEF ShortLives
  <2>. QED
    BY <2>4, <2>5
<1> HIDE DEF room
<1>4. f \in FlowRec /\ f.key = k /\ f.tcb = x /\ f.rx = 0 /\ f.tx = 0 /\ f.room = room
  BY <1>3 DEF NewFlow, FlowRec
<1>5. d.life = L /\ d.tcb = x /\ d.up /\ d.rx = 0 /\ d.tx = 0
  BY DEF NewRow, NoTcp
<1> HIDE DEF f, d
<1>6. tcp'[k] = d /\ \A j \in Key \ {k} : tcp'[j] = tcp[j]
  BY <1>0, <1>1
<1>7. ASSUME NEW N \in DOMAIN flows PROVE N \in Nat /\ 0 < N /\ N + 3 <= L /\ N # L
  <2>1. N \in Nat /\ 0 < N /\ N + 2 <= clock
    BY <1>1, PartialElim DEF KernelInv, FlowsOK
  <2>. QED
    BY <1>1, <2>1
<1>8. /\ DOMAIN flows' = DOMAIN flows \cup {L} /\ flows'[L] = f /\ L \notin DOMAIN flows
      /\ \A N \in DOMAIN flows : flows'[N] = flows[N]
  BY <1>0, <1>7 DEF With
<1>9. flows' \in Partial(Nat, FlowRec) /\ IsFiniteSet(DOMAIN flows')
  <2>1. flows' \in Partial(Nat, FlowRec)
    BY <1>0, <1>1, <1>2, <1>4, PartialExtend DEF With
  <2>2. IsFiniteSet(DOMAIN flows \cup {L})
    BY <1>1, FS_AddElement
  <2>. QED
    BY <1>8, <2>1, <2>2
<1>10. ASSUME NEW N \in DOMAIN flows'
       PROVE  /\ 0 < N /\ N + 2 <= clock'
              /\ flows'[N].rx <= flows'[N].room.rx /\ flows'[N].tx <= flows'[N].room.tx
              /\ flows'[N].room.rx + 1 < Cycle /\ flows'[N].room.tx < Cycle
  <2>1. CASE N = L
    <3>1. flows'[N] = f /\ room.rx \in Nat /\ room.tx \in Nat
      BY <1>3, <1>8, <2>1
    <3>2. 0 < N /\ N + 2 <= clock'
      BY <1>2, <2>1
    <3>. QED
      BY <1>3, <1>4, <3>1, <3>2
  <2>2. CASE N \in DOMAIN flows
    <3>1. /\ flows'[N] = flows[N] /\ N + 2 <= clock /\ 0 < N /\ N \in Nat
          /\ flows[N].rx <= flows[N].room.rx /\ flows[N].tx <= flows[N].room.tx
          /\ flows[N].room.rx + 1 < Cycle /\ flows[N].room.tx < Cycle
      BY <1>7, <1>8, <2>2 DEF KernelInv, FlowsOK
    <3>2. N + 2 <= clock'
      BY <1>0, <1>1, <3>1
    <3>. QED
      BY <3>1, <3>2
  <2>. QED
    BY <1>8, <2>1, <2>2
<1>11. ASSUME NEW M \in DOMAIN flows', NEW N \in DOMAIN flows', M < N PROVE M + 3 <= N
  <2>1. CASE N = L
    <3>1. M \in DOMAIN flows
      BY <1>2, <1>8, <1>11, <2>1
    <3>. QED
      BY <1>7, <2>1, <3>1
  <2>2. CASE N \in DOMAIN flows
    <3>1. M # L
      <4>1. SUFFICES ASSUME M = L PROVE FALSE
        OBVIOUS
      <4>2. N \in Nat /\ N + 3 <= L /\ L < N
        BY <1>7, <1>11, <2>2, <4>1
      <4>. QED
        BY <1>2, <4>2
    <3>2. M \in DOMAIN flows
      BY <1>8, <3>1
    <3>. QED
      BY <1>11, <2>2, <3>2 DEF KernelInv, FlowsOK
  <2>. QED
    BY <1>8, <2>1, <2>2
<1>12. ASSUME NEW j \in Key, tcp'[j].up
       PROVE  /\ tcp'[j].life \in DOMAIN flows'
              /\ flows'[tcp'[j].life].key = j /\ flows'[tcp'[j].life].tcb = tcp'[j].tcb
              /\ flows'[tcp'[j].life].rx = tcp'[j].rx /\ flows'[tcp'[j].life].tx = tcp'[j].tx
  <2>1. CASE j = k
    BY <1>4, <1>5, <1>6, <1>8, <2>1
  <2>2. CASE j # k
    <3>1. /\ tcp'[j] = tcp[j] /\ tcp[j].life \in DOMAIN flows
          /\ flows[tcp[j].life].key = j /\ flows[tcp[j].life].tcb = tcp[j].tcb
          /\ flows[tcp[j].life].rx = tcp[j].rx /\ flows[tcp[j].life].tx = tcp[j].tx
      BY <1>6, <1>12, <2>2 DEF KernelInv, FlowsOK
    <3>. QED
      BY <1>8, <3>1
  <2>. QED
    BY <2>1, <2>2
<1>13. FlowsOK'
  BY <1>0, <1>1, <1>9, <1>10, <1>11, <1>12 DEF FlowsOK
<1>14. ASSUME NEW N \in DOMAIN flows
       PROVE  /\ (\E j \in Key : tcp'[j].up /\ tcp'[j].life = N) => Up(N)
              /\ flows[N].key = k \/ flows[N].tcb = x => ~Up(N)
  <2>1. N # L
    BY <1>7
  <2>2. (\E j \in Key : tcp'[j].up /\ tcp'[j].life = N) => Up(N)
    BY <1>5, <1>6, <2>1 DEF Up
  <2>3. ASSUME NEW j \in Key, tcp[j].up, tcp[j].life = N PROVE flows[N].key # k /\ flows[N].tcb # x
    BY <1>0, <2>3 DEF KernelInv, FlowsOK
  <2>. QED
    BY <2>2, <2>3 DEF Up
<1>. QED
  BY <1>0, <1>1, <1>2, <1>4, <1>7, <1>8, <1>13, <1>14

LEMMA OpenProofsFacts ==
  ASSUME clock \in Nat, NEW k \in Key, NEW x \in Tcb, NEW p, p = OpenProofs(k, x)
  PROVE  /\ p \in Seq(ProofRec) /\ Len(p) = 4
         /\ \A a \in 1 .. 4 : /\ p[a].key = k /\ p[a].tcb = x /\ p[a].life = clock + 1 /\ p[a].kind # "close"
                              /\ p[a].life <= p[a].time /\ p[a].time <= clock + 2
                              /\ p[a].kind = "connect" => p[a].time = p[a].life
                              /\ p[a].kind = "established" => p[a].time = p[a].life + 1
                              /\ p[a].kind = "syn" => (p[a].seq + 1) % Cycle = SendOrigin % Cycle
                              /\ p[a].kind = "receive" => p[a].seq = ReceiveOrigin % Cycle
         /\ \A a, b \in 1 .. 4 : a < b => /\ p[a].time <= p[b].time
                                          /\ ~(p[a].kind = "connect" /\ p[b].kind = "connect")
<1>1. Cycle \in Nat \ {0} /\ SendOrigin \in Nat /\ ReceiveOrigin \in Nat
  BY TcpPathsAssumption
<1>2. ASSUME NEW kind \in ProofKinds, NEW time \in {clock + 1, clock + 2}, NEW seq \in Int, NEW q, q = OpenProof(k, x, kind, time, seq)
      PROVE  /\ q \in ProofRec /\ q.kind = kind /\ q.key = k /\ q.tcb = x /\ q.life = clock + 1 /\ q.time = time
             /\ q.seq = seq % Cycle
  <2>1. seq % Cycle \in Nat
    BY <1>1
  <2> DEFINE m == seq % Cycle
  <2>2. q = [kind |-> kind, key |-> k, tcb |-> x, life |-> clock + 1, time |-> time, seq |-> m,
             bytes |-> IF kind = "receive" THEN 1 ELSE 0]
    BY <1>2 DEF OpenProof
  <2> HIDE DEF m
  <2>3. m \in Nat
    BY <2>1 DEF m
  <2>4. q \in ProofRec
    BY <1>2, <2>2, <2>3 DEF ProofRec
  <2>. QED
    BY <2>2, <2>4 DEF m
<1>3. PICK q1 : q1 = OpenProof(k, x, "connect", clock + 1, 0)
  OBVIOUS
<1>4. PICK q2 : q2 = OpenProof(k, x, "syn", clock + 1, SendOrigin - 1)
  OBVIOUS
<1>5. PICK q3 : q3 = OpenProof(k, x, "receive", clock + 2, ReceiveOrigin)
  OBVIOUS
<1>6. PICK q4 : q4 = OpenProof(k, x, "established", clock + 2, 0)
  OBVIOUS
<1>7. p = <<q1, q2, q3, q4>>
  BY <1>3, <1>4, <1>5, <1>6 DEF OpenProofs
<1>8. /\ q1 \in ProofRec /\ q1.kind = "connect" /\ q1.key = k /\ q1.tcb = x /\ q1.life = clock + 1 /\ q1.time = clock + 1
  BY <1>2, <1>3 DEF ProofKinds
<1>9. /\ q2 \in ProofRec /\ q2.kind = "syn" /\ q2.key = k /\ q2.tcb = x /\ q2.life = clock + 1 /\ q2.time = clock + 1
      /\ q2.seq = (SendOrigin - 1) % Cycle
  <2>1. SendOrigin - 1 \in Int
    BY <1>1
  <2>. QED
    BY <1>2, <1>4, <2>1 DEF ProofKinds
<1>10. /\ q3 \in ProofRec /\ q3.kind = "receive" /\ q3.key = k /\ q3.tcb = x /\ q3.life = clock + 1 /\ q3.time = clock + 2
       /\ q3.seq = ReceiveOrigin % Cycle
  <2>1. ReceiveOrigin \in Int
    BY <1>1
  <2>. QED
    BY <1>2, <1>5, <2>1 DEF ProofKinds
<1>11. /\ q4 \in ProofRec /\ q4.kind = "established" /\ q4.key = k /\ q4.tcb = x /\ q4.life = clock + 1 /\ q4.time = clock + 2
  BY <1>2, <1>6 DEF ProofKinds
<1>12. (q2.seq + 1) % Cycle = SendOrigin % Cycle
  <2>1. \A n \in Nat \ {0}, a \in Int : (((a - 1) % n) + 1) % n = a % n
    BY ModNext
  <2>2. SendOrigin \in Int
    BY <1>1
  <2> DEFINE m == (SendOrigin - 1) % Cycle
  <2>3. (m + 1) % Cycle = SendOrigin % Cycle
    BY <1>1, <2>1, <2>2
  <2>4. q2.seq = m
    BY <1>9
  <2> HIDE DEF m
  <2>. QED
    BY <2>3, <2>4
<1>13. p \in Seq(ProofRec) /\ Len(p) = 4 /\ p[1] = q1 /\ p[2] = q2 /\ p[3] = q3 /\ p[4] = q4
  BY <1>7, <1>8, <1>9, <1>10, <1>11
<1>14. ASSUME NEW a \in 1 .. 4
       PROVE  /\ p[a].key = k /\ p[a].tcb = x /\ p[a].life = clock + 1 /\ p[a].kind # "close"
              /\ p[a].time = IF a <= 2 THEN clock + 1 ELSE clock + 2
              /\ p[a].kind = "connect" => a = 1
              /\ p[a].kind = "established" => a = 4
              /\ p[a].kind = "syn" => (p[a].seq + 1) % Cycle = SendOrigin % Cycle
              /\ p[a].kind = "receive" => p[a].seq = ReceiveOrigin % Cycle
  <2>1. a = 1 \/ a = 2 \/ a = 3 \/ a = 4
    OBVIOUS
  <2>. QED
    BY <1>8, <1>9, <1>10, <1>11, <1>12, <1>13, <2>1
<1>15. \A a, b \in 1 .. 4 : a < b => p[a].time <= p[b].time /\ ~(p[a].kind = "connect" /\ p[b].kind = "connect")
  BY <1>14
<1>. QED
  BY <1>13, <1>14, <1>15

LEMMA JoinedFacts ==
  ASSUME NEW S, NEW s \in Seq(S), NEW r \in Seq(S), NEW u, u = s \o r
  PROVE  /\ u \in Seq(S) /\ DOMAIN u = 1 .. (Len(s) + Len(r)) /\ Len(u) = Len(s) + Len(r)
         /\ \A i \in 1 .. Len(s) : u[i] = s[i]
         /\ \A i \in DOMAIN u : i \notin 1 .. Len(s) => i - Len(s) \in 1 .. Len(r) /\ u[i] = r[i - Len(s)]
  OBVIOUS

LEMMA OpenProofsOK ==
  ASSUME CollectorInv, KernelInv, ShortLives, NEW k \in Key, NEW x \in Tcb, Open(k, x)
  PROVE  /\ ProofsOK'
         /\ \A i \in DOMAIN proofs' : (\E j \in DOMAIN proofs : i = j /\ proofs'[i] = proofs[j]) \/ proofs'[i].life = clock + 1
<1>a. PICK L : L = clock + 1
  OBVIOUS
<1>b. PICK n : n = Len(proofs)
  OBVIOUS
<1>c. PICK p : p = OpenProofs(k, x)
  OBVIOUS
<1>1. /\ clock \in Nat /\ clock' = clock + 3 /\ L \in Nat
      /\ DOMAIN flows' = DOMAIN flows \cup {L} /\ L \notin DOMAIN flows /\ flows'[L].key = k /\ flows'[L].tcb = x
      /\ \A N \in DOMAIN flows : flows'[N] = flows[N] /\ ((\E j \in Key : tcp'[j].up /\ tcp'[j].life = N) => Up(N))
  BY <1>a, OpenFlows
<1>2. /\ p \in Seq(ProofRec) /\ Len(p) = 4
      /\ \A a \in 1 .. 4 : /\ p[a].key = k /\ p[a].tcb = x /\ p[a].life = L /\ p[a].kind # "close"
                           /\ p[a].life <= p[a].time /\ p[a].time <= clock + 2
                           /\ p[a].kind = "connect" => p[a].time = p[a].life
                           /\ p[a].kind = "established" => p[a].time = p[a].life + 1
                           /\ p[a].kind = "syn" => (p[a].seq + 1) % Cycle = SendOrigin % Cycle
                           /\ p[a].kind = "receive" => p[a].seq = ReceiveOrigin % Cycle
      /\ \A a, b \in 1 .. 4 : a < b => /\ p[a].time <= p[b].time
                                       /\ ~(p[a].kind = "connect" /\ p[b].kind = "connect")
  BY <1>1, <1>a, <1>c, OpenProofsFacts
<1>3. proofs \in Seq(ProofRec) /\ n \in Nat /\ DOMAIN proofs = 1 .. n
  BY <1>b DEF KernelInv, ProofsOK
<1>4. ASSUME NEW i \in DOMAIN proofs', NEW q, q = proofs'[i], i \in DOMAIN proofs, q = proofs[i]
      PROVE  /\ q.life \in DOMAIN flows' /\ q.key = flows'[q.life].key /\ q.tcb = flows'[q.life].tcb
             /\ q.life <= q.time /\ q.time <= clock'
             /\ q.kind = "connect" => q.time = q.life
             /\ q.kind = "established" => q.time = q.life + 1
             /\ q.kind = "syn" => (q.seq + 1) % Cycle = SendOrigin % Cycle
             /\ q.kind = "close" => /\ ~(\E j \in Key : tcp'[j].up /\ tcp'[j].life = q.life)
                                    /\ \A j \in DOMAIN events' : events'[j].life = q.life /\ Data(events'[j]) =>
                                                                   events'[j].time < q.time
  <2>1. q \in ProofRec /\ ProofOf(q, events)
    BY <1>4 DEF KernelInv, ProofsOK, ProofOf
  <2>2. q.life \in DOMAIN flows
    BY <2>1 DEF ProofOf
  <2>3. q.life \in DOMAIN flows' /\ q.key = flows'[q.life].key /\ q.tcb = flows'[q.life].tcb
    BY <1>1, <2>1, <2>2 DEF ProofOf
  <2>4. q.time <= clock'
    <3>1. q.time \in Nat /\ q.time <= clock
      BY <2>1 DEF ProofOf, ProofRec
    <3>. QED
      BY <1>1, <3>1
  <2>5. ASSUME q.kind = "close"
        PROVE  /\ ~(\E j \in Key : tcp'[j].up /\ tcp'[j].life = q.life)
               /\ \A j \in DOMAIN events' : events'[j].life = q.life /\ Data(events'[j]) => events'[j].time < q.time
    <3>1. ~Up(q.life) /\ \A j \in DOMAIN events : events[j].life = q.life /\ Data(events[j]) => events[j].time < q.time
      BY <2>1, <2>5 DEF ProofOf
    <3>2. \A j \in DOMAIN events' : (j \in DOMAIN events /\ events'[j] = events[j]) \/ events'[j].kind = "open"
      <4>1. events \in Seq(EventRec)
        BY DEF KernelInv, EventsOK
      <4>2. events' = events \o <<OpenEvent(k)>> \/ events' = events
        BY OpenForm
      <4>3. OpenEvent(k).kind = "open"
        BY DEF OpenEvent
      <4>. QED
        BY <4>1, <4>2, <4>3
    <3>3. \A j \in DOMAIN events' : Data(events'[j]) => j \in DOMAIN events /\ events'[j] = events[j]
      BY <3>2 DEF Data, Dirs
    <3>. QED
      BY <1>1, <2>2, <3>1, <3>3
  <2>. QED
    BY <2>1, <2>3, <2>4, <2>5 DEF ProofOf
<1>5. CASE proofs' = proofs
  <2>1. \A i \in DOMAIN proofs' : i \in DOMAIN proofs /\ proofs'[i] = proofs[i]
    BY <1>5
  <2>2. ProofsOK'
    BY <1>4, <1>5, <2>1 DEF KernelInv, ProofsOK, Up, Data
  <2>. QED
    BY <2>1, <2>2
<1>6. CASE proofs' = proofs \o p
  <2>1. /\ proofs' \in Seq(ProofRec) /\ DOMAIN proofs' = 1 .. (n + 4)
        /\ \A i \in 1 .. n : proofs'[i] = proofs[i]
        /\ \A i \in DOMAIN proofs' : i \notin DOMAIN proofs => i - n \in 1 .. 4 /\ proofs'[i] = p[i - n]
    <3>1. Len(p) = 4
      BY <1>2
    <3>4. p \in Seq(ProofRec)
      BY <1>2
    <3>5. proofs \in Seq(ProofRec)
      BY <1>3
    <3>2. PICK u : u = proofs \o p
      OBVIOUS
    <3>3. /\ u \in Seq(ProofRec) /\ DOMAIN u = 1 .. (Len(proofs) + Len(p))
          /\ \A i \in 1 .. Len(proofs) : u[i] = proofs[i]
          /\ \A i \in DOMAIN u : i \notin 1 .. Len(proofs) =>
               i - Len(proofs) \in 1 .. Len(p) /\ u[i] = p[i - Len(proofs)]
      BY <3>2, <3>4, <3>5, JoinedFacts
    <3>. QED
      BY <1>3, <1>6, <1>b, <3>1, <3>2, <3>3
  <2>2. ASSUME NEW i \in DOMAIN proofs', NEW q, q = proofs'[i], i \notin DOMAIN proofs
        PROVE  /\ q.life \in DOMAIN flows' /\ q.key = flows'[q.life].key /\ q.tcb = flows'[q.life].tcb
               /\ q.life <= q.time /\ q.time <= clock'
               /\ q.kind = "connect" => q.time = q.life
               /\ q.kind = "established" => q.time = q.life + 1
               /\ q.kind = "syn" => (q.seq + 1) % Cycle = SendOrigin % Cycle
               /\ q.kind # "close" /\ q.life = L /\ q.time \in Nat /\ q.time > clock
               /\ q.kind = "receive" => q.seq = ReceiveOrigin % Cycle
    <3>1. q = p[i - n] /\ i - n \in 1 .. 4 /\ q \in ProofRec
      <4>1. \A a \in 1 .. 4 : p[a] \in ProofRec
        <5>1. \A s \in Seq(ProofRec) : \A m \in 1 .. Len(s) : s[m] \in ProofRec
          OBVIOUS
        <5>. QED
          BY <1>2, <5>1
      <4>. QED
        BY <2>1, <2>2, <4>1
    <3>2. /\ q.key = k /\ q.tcb = x /\ q.life = L /\ q.kind # "close"
          /\ q.life <= q.time /\ q.time <= clock + 2
          /\ q.kind = "connect" => q.time = q.life
          /\ q.kind = "established" => q.time = q.life + 1
          /\ q.kind = "syn" => (q.seq + 1) % Cycle = SendOrigin % Cycle
          /\ q.kind = "receive" => q.seq = ReceiveOrigin % Cycle
      BY <1>2, <3>1
    <3>3. q.time \in Nat
      BY <3>1 DEF ProofRec
    <3>4. q.time <= clock' /\ q.time > clock
      BY <1>1, <1>a, <3>2, <3>3
    <3>. QED
      BY <1>1, <3>2, <3>3, <3>4
  <2>3. ASSUME NEW i \in DOMAIN proofs', NEW j \in DOMAIN proofs', i < j
        PROVE  /\ proofs'[i].time <= proofs'[j].time
               /\ proofs'[i].kind = "connect" /\ proofs'[j].kind = "connect" => proofs'[i].life # proofs'[j].life
               /\ proofs'[i].kind = "receive" /\ proofs'[j].kind = "established" /\ proofs'[i].life = proofs'[j].life =>
                    proofs'[i].seq = ReceiveOrigin % Cycle
    <3>1. CASE j \in DOMAIN proofs
      <4>1. i \in DOMAIN proofs /\ proofs'[i] = proofs[i] /\ proofs'[j] = proofs[j]
        BY <1>3, <2>1, <2>3, <3>1
      <4>. QED
        BY <2>3, <3>1, <4>1 DEF KernelInv, ProofsOK
    <3>2. CASE i \in DOMAIN proofs /\ j \notin DOMAIN proofs
      <4>1. proofs'[i] = proofs[i] /\ proofs[i].life \in DOMAIN flows /\ proofs[i].time <= clock /\ proofs[i] \in ProofRec
        BY <1>3, <2>1, <3>2 DEF KernelInv, ProofsOK
      <4>2. proofs'[j].life = L /\ proofs'[j].time \in Nat /\ proofs'[j].time > clock
        BY <2>2, <3>2
      <4>3. proofs[i].time \in Nat
        BY <4>1 DEF ProofRec
      <4>. QED
        BY <1>1, <4>1, <4>2, <4>3
    <3>3. CASE i \notin DOMAIN proofs /\ j \notin DOMAIN proofs
      <4>1. i - n \in 1 .. 4 /\ j - n \in 1 .. 4 /\ proofs'[i] = p[i - n] /\ proofs'[j] = p[j - n] /\ i - n < j - n
        BY <1>3, <2>1, <2>3, <3>3
      <4>2. proofs'[i].kind = "receive" => proofs'[i].seq = ReceiveOrigin % Cycle
        BY <2>2, <3>3
      <4>. QED
        BY <1>2, <4>1, <4>2
    <3>4. j \notin DOMAIN proofs => i \in DOMAIN proofs \/ i \notin DOMAIN proofs
      OBVIOUS
    <3>. QED
      BY <3>1, <3>2, <3>3
  <2>4. ProofsOK'
    <3>1. \A i \in DOMAIN proofs' : i \in DOMAIN proofs => proofs'[i] = proofs[i]
      BY <1>3, <2>1
    <3>2. proofs' \in Seq(ProofRec)
      BY <2>1
    <3>. QED
      BY <1>4, <2>2, <2>3, <3>1, <3>2 DEF ProofsOK, Up, Data
  <2>5. ASSUME NEW i \in DOMAIN proofs'
        PROVE  (\E j \in DOMAIN proofs : i = j /\ proofs'[i] = proofs[j]) \/ proofs'[i].life = L
    BY <1>3, <2>1, <2>2
  <2>. QED
    BY <1>a, <2>4, <2>5
<1>7. proofs' = proofs \o p \/ proofs' = proofs
  BY <1>c, OpenForm
<1>. QED
  BY <1>5, <1>6, <1>7

LEMMA OpenEventFacts ==
  ASSUME CollectorInv, KernelInv, NEW k \in Key, NEW x \in Tcb, Open(k, x)
  PROVE  /\ OpenEvent(k) \in EventRec
         /\ events' \in Seq(EventRec) /\ Extends(events, events', {OpenEvent(k)})
         /\ \A i, j \in DOMAIN events' : i \notin DOMAIN events /\ j \notin DOMAIN events => i = j
<1>1. clock \in Nat
  BY DEF CollectorInv, TcpOK
<1>2. OpenEvent(k) \in EventRec
  BY <1>1 DEF OpenEvent, EventRec
<1>3. PICK S : S = {OpenEvent(k)}
  OBVIOUS
<1>4. PICK add : add = <<OpenEvent(k)>>
  OBVIOUS
<1>5. S \subseteq EventRec /\ add \in Seq(S) /\ Len(add) <= 1
  BY <1>2, <1>3, <1>4
<1>6. events \in Seq(EventRec) /\ (events' = events \o add \/ events' = events)
  BY <1>4, OpenForm DEF KernelInv, EventsOK
<1>. QED
  BY <1>2, <1>3, <1>5, <1>6, ExtendsFacts

LEMMA OpenApart ==
  ASSUME CollectorInv, KernelInv, ShortLives, NEW k \in Key, NEW x \in Tcb, Open(k, x)
  PROVE  Apart'
<1>1. PICK L : L = clock + 1
  OBVIOUS
<1>2. /\ clock \in Nat /\ L \in Nat /\ DOMAIN flows' = DOMAIN flows \cup {L} /\ L \notin DOMAIN flows
      /\ flows'[L].key = k /\ flows'[L].tcb = x
      /\ \A N \in DOMAIN flows : /\ N \in Nat /\ 0 < N /\ N + 3 <= L /\ flows'[N] = flows[N]
                                 /\ (\E j \in Key : tcp'[j].up /\ tcp'[j].life = N) => Up(N)
                                 /\ flows[N].key = k \/ flows[N].tcb = x => ~Up(N)
  BY <1>1, OpenFlows
<1>3. SUFFICES ASSUME NEW M \in DOMAIN flows', NEW N \in DOMAIN flows', M < N,
                      flows'[M].key = flows'[N].key \/ flows'[M].tcb = flows'[N].tcb
               PROVE  /\ ~(\E j \in Key : tcp'[j].up /\ tcp'[j].life = M)
                      /\ \A i \in DOMAIN proofs' : proofs'[i].life = M => proofs'[i].time < N
                      /\ \A i \in DOMAIN events' : events'[i].life = M => events'[i].time < N
  BY DEF Apart, Follows, Up
<1>4. M \in DOMAIN flows
  <2>1. SUFFICES ASSUME M = L PROVE FALSE
    BY <1>2
  <2>2. N \in DOMAIN flows
    BY <1>2, <1>3, <2>1
  <2>. QED
    BY <1>2, <1>3, <2>1, <2>2
<1>5. ASSUME NEW i \in DOMAIN proofs', proofs'[i].life = M
      PROVE  \E j \in DOMAIN proofs : proofs'[i] = proofs[j] /\ proofs[j].time \in Nat /\ proofs[j].time <= clock
  <2>1. \E j \in DOMAIN proofs : proofs'[i] = proofs[j]
    BY <1>1, <1>2, <1>4, <1>5, OpenProofsOK
  <2>2. \A j \in DOMAIN proofs : proofs[j] \in ProofRec /\ proofs[j].time <= clock
    BY DEF KernelInv, ProofsOK
  <2>. QED
    BY <2>1, <2>2 DEF ProofRec
<1>6. ASSUME NEW i \in DOMAIN events', events'[i].life = M
      PROVE  \E j \in DOMAIN events : events'[i] = events[j] /\ events[j].time \in Nat /\ events[j].time <= clock
  <2>1. events'[i] # OpenEvent(k)
    BY <1>1, <1>2, <1>4, <1>6 DEF OpenEvent
  <2>2. \E j \in DOMAIN events : events'[i] = events[j]
    BY <2>1, OpenEventFacts DEF Extends
  <2>3. \A j \in DOMAIN events : events[j] \in EventRec
    BY DEF KernelInv, EventsOK
  <2>4. \A j \in DOMAIN events : events[j].time <= clock
    BY DEF KernelInv, EventsOK
  <2>. QED
    BY <2>2, <2>3, <2>4 DEF EventRec
<1>7. CASE N = L
  <2>1. flows[M].key = k \/ flows[M].tcb = x
    BY <1>2, <1>3, <1>4, <1>7
  <2>2. ~(\E j \in Key : tcp'[j].up /\ tcp'[j].life = M)
    BY <1>2, <1>4, <2>1
  <2>3. \A time \in Nat : time <= clock => time < N
    BY <1>1, <1>2, <1>7
  <2>. QED
    BY <1>5, <1>6, <2>2, <2>3
<1>8. CASE N \in DOMAIN flows
  <2>1. Follows(M, N)
    BY <1>2, <1>3, <1>4, <1>8 DEF Follows
  <2>2. /\ ~Up(M)
        /\ \A i \in DOMAIN proofs : proofs[i].life = M => proofs[i].time < N
        /\ \A i \in DOMAIN events : events[i].life = M => events[i].time < N
    BY <1>4, <1>8, <2>1 DEF KernelInv, Apart
  <2>3. ~(\E j \in Key : tcp'[j].up /\ tcp'[j].life = M)
    BY <1>2, <1>4, <2>2
  <2>4. \A i \in DOMAIN proofs' : proofs'[i].life = M => proofs'[i].time < N
    BY <1>5, <2>2
  <2>5. \A i \in DOMAIN events' : events'[i].life = M => events'[i].time < N
    BY <1>6, <2>2
  <2>. QED
    BY <2>3, <2>4, <2>5
<1>. QED
  BY <1>2, <1>7, <1>8

LEMMA OpenEventsOK ==
  ASSUME CollectorInv, KernelInv, ShortLives, NEW k \in Key, NEW x \in Tcb, Open(k, x)
  PROVE  EventsOK' /\ KeptOK'
<1>1. PICK L : L = clock + 1
  OBVIOUS
<1>2. /\ clock \in Nat /\ clock' = clock + 3 /\ L \in Nat /\ DOMAIN flows' = DOMAIN flows \cup {L} /\ L \notin DOMAIN flows
      /\ flows'[L].key = k /\ \A N \in DOMAIN flows : N \in Nat /\ flows'[N] = flows[N]
  BY <1>1, OpenFlows
<1>3. kept' = kept
  BY OpenForm
<1>4. PICK new : new = OpenEvent(k)
  OBVIOUS
<1>5. new.kind = "open" /\ new.key = k /\ new.life = L /\ new.time = clock + 3 /\ new.bytes = 0 /\ new.endpoints /\ ~Data(new)
  BY <1>1, <1>4 DEF OpenEvent, Data, Dirs
<1>6. /\ events' \in Seq(EventRec)
      /\ \A i \in DOMAIN events' : \/ i \in DOMAIN events /\ events'[i] = events[i]
                                   \/ i \notin DOMAIN events /\ events'[i] = new
      /\ \A i, j \in DOMAIN events' : i \notin DOMAIN events /\ j \notin DOMAIN events => i = j
  BY <1>4, OpenEventFacts DEF Extends
<1>7. ASSUME NEW i \in DOMAIN events', NEW e, e = events'[i]
      PROVE  /\ e.life \in DOMAIN flows' /\ e.key = flows'[e.life].key /\ e.life < e.time
             /\ e.time <= clock' /\ e.endpoints
             /\ e.kind = "open" => e.time = e.life + 2
             /\ Data(e) => e.at < flows'[e.life][e.kind] /\ e.bytes = 1 /\ <<e.life, e.kind, e.at>> \notin DOMAIN kept'
             /\ ~Data(e) => e.bytes = 0
  <2>1. CASE i \in DOMAIN events /\ events'[i] = events[i]
    <3>1. /\ e \in EventRec /\ e.life \in DOMAIN flows /\ e.key = flows[e.life].key /\ e.life < e.time
          /\ e.time <= clock /\ e.endpoints
          /\ e.kind = "open" => e.time = e.life + 2
          /\ Data(e) => e.at < flows[e.life][e.kind] /\ e.bytes = 1 /\ <<e.life, e.kind, e.at>> \notin DOMAIN kept
          /\ ~Data(e) => e.bytes = 0
      BY <1>7, <2>1 DEF KernelInv, EventsOK
    <3>2. e.time \in Nat
      BY <3>1 DEF EventRec
    <3>3. e.time <= clock'
      BY <1>2, <3>1, <3>2
    <3>. QED
      BY <1>2, <1>3, <3>1, <3>3
  <2>2. CASE e = new
    <3>1. L < e.time /\ e.time <= clock' /\ e.time = L + 2
      BY <1>1, <1>2, <1>5, <2>2
    <3>. QED
      BY <1>2, <1>5, <2>2, <3>1
  <2>. QED
    BY <1>6, <1>7, <2>1, <2>2
<1>8. ASSUME NEW i \in DOMAIN events', NEW j \in DOMAIN events', i # j
      PROVE  /\ events'[i].kind = "open" /\ events'[j].kind = "open" => events'[i].life # events'[j].life
             /\ Data(events'[i]) => ~(/\ events'[j].life = events'[i].life /\ events'[j].kind = events'[i].kind
                                      /\ events'[j].at = events'[i].at)
  <2>1. CASE i \in DOMAIN events /\ j \in DOMAIN events
    <3>1. events'[i] = events[i] /\ events'[j] = events[j]
      BY <1>6, <2>1
    <3>2. events[i].kind = "open" /\ events[j].kind = "open" => events[i].life # events[j].life
      BY <1>8, <2>1 DEF KernelInv, EventsOK
    <3>3. Data(events[i]) => ~(/\ events[j].life = events[i].life /\ events[j].kind = events[i].kind
                               /\ events[j].at = events[i].at)
      BY <1>8, <2>1 DEF KernelInv, EventsOK
    <3>. QED
      BY <3>1, <3>2, <3>3
  <2>2. ASSUME NEW m \in DOMAIN events', NEW n \in DOMAIN events', m \in DOMAIN events, n \notin DOMAIN events
        PROVE  /\ events'[m].life # events'[n].life
               /\ events'[n].life = L /\ ~Data(events'[n])
    <3>1. events'[m] = events[m] /\ events'[n] = new
      BY <1>6, <2>2
    <3>2. events[m].life \in DOMAIN flows
      BY <2>2 DEF KernelInv, EventsOK
    <3>. QED
      BY <1>2, <1>5, <3>1, <3>2
  <2>3. CASE i \in DOMAIN events /\ j \notin DOMAIN events
    BY <2>2, <2>3
  <2>4. CASE i \notin DOMAIN events /\ j \in DOMAIN events
    BY <2>2, <2>4
  <2>5. CASE i \notin DOMAIN events /\ j \notin DOMAIN events
    BY <1>6, <1>8, <2>5
  <2>. QED
    BY <2>1, <2>3, <2>4, <2>5
<1>9. EventsOK'
  BY <1>6, <1>7, <1>8 DEF EventsOK, Data
<1>10. KeptOK'
  <2>1. ASSUME NEW b \in DOMAIN kept PROVE b[1] \in DOMAIN flows' /\ b[3] < flows'[b[1]][b[2]]
    BY <1>2 DEF KernelInv, KeptOK
  <2>. QED
    BY <1>3, <2>1 DEF KernelInv, KeptOK
<1>. QED
  BY <1>9, <1>10

LEMMA OpenReadings ==
  ASSUME CollectorInv, KernelInv, ShortLives, NEW k \in Key, NEW x \in Tcb, Open(k, x)
  PROVE  ReadingOK'
<1>1. PICK L : L = clock + 1
  OBVIOUS
<1>2. /\ clock \in Nat /\ clock' = clock + 3 /\ L \in Nat /\ DOMAIN flows' = DOMAIN flows \cup {L} /\ L \notin DOMAIN flows
      /\ \A N \in DOMAIN flows : N \in Nat /\ flows'[N] = flows[N]
  BY <1>1, OpenFlows
<1>3. reading' = reading
  BY OpenForm
<1>4. SUFFICES ASSUME NEW i \in DOMAIN reading.obs, NEW s, s = reading.obs[i], ~s.closed, NEW M, M = s.created
               PROVE  /\ s.begin = s.end /\ 0 < s.end /\ s.end <= clock' /\ M \in DOMAIN flows' /\ flows'[M].key = s.key
                      /\ \A j \in DOMAIN reading.obs : ~reading.obs[j].closed => reading.obs[j].begin = s.begin
                      /\ CountAt(s, "rx") <= flows'[M].rx /\ CountAt(s, "tx") <= flows'[M].tx /\ CountAt(s, "tx") >= 0
                      /\ s.rcvNext \in {ReceiveOrigin + s.truth.rx, ReceiveOrigin + s.truth.rx + 1}
                      /\ \A N \in DOMAIN flows' : Follows(M, N)' => s.end < N
                      /\ \A j \in DOMAIN events' :
                           events'[j].life = M /\ Data(events'[j]) /\ events'[j].at >= CountAt(s, events'[j].kind) =>
                             events'[j].time > s.begin
  BY <1>3 DEF ReadingOK, CountAt, Data
<1>5. /\ s.begin = s.end /\ 0 < s.end /\ s.end <= clock /\ M \in DOMAIN flows /\ flows[M].key = s.key
      /\ \A j \in DOMAIN reading.obs : ~reading.obs[j].closed => reading.obs[j].begin = s.begin
      /\ CountAt(s, "rx") <= flows[M].rx /\ CountAt(s, "tx") <= flows[M].tx /\ CountAt(s, "tx") >= 0
      /\ s.rcvNext \in {ReceiveOrigin + s.truth.rx, ReceiveOrigin + s.truth.rx + 1}
      /\ \A N \in DOMAIN flows : Follows(M, N) => s.end < N
      /\ \A j \in DOMAIN events :
           events[j].life = M /\ Data(events[j]) /\ events[j].at >= CountAt(s, events[j].kind) => events[j].time > s.begin
  BY <1>4 DEF KernelInv, ReadingOK
<1>6. s.end \in Nat
  <2>1. s \in Obs
    BY <1>4 DEF CollectorInv
  <2>. QED
    BY <2>1 DEF Obs
<1>7. s.end <= clock' /\ s.end < L
  BY <1>1, <1>2, <1>5, <1>6
<1>8. \A N \in DOMAIN flows' : Follows(M, N)' => s.end < N
  BY <1>2, <1>5, <1>7 DEF Follows
<1>9. ASSUME NEW j \in DOMAIN events', events'[j].life = M, Data(events'[j]) PROVE j \in DOMAIN events /\ events'[j] = events[j]
  <2>1. OpenEvent(k).kind = "open"
    BY DEF OpenEvent
  <2>. QED
    BY <1>9, <2>1, OpenEventFacts DEF Extends, Data, Dirs
<1>. QED
  BY <1>2, <1>5, <1>7, <1>8, <1>9

LEMMA OpenOK ==
  ASSUME CollectorInv, KernelInv, OK(tracker, proofs, events, kept), ShortLives, NEW k \in Key, NEW x \in Tcb, Open(k, x)
  PROVE  KernelInv' /\ Joint(tracker, proofs, events, kept)'
<1>1. PICK L : L = clock + 1
  OBVIOUS
<1>2. /\ FlowsOK' /\ clock \in Nat /\ clock' = clock + 3 /\ DOMAIN flows' = DOMAIN flows \cup {L} /\ L \notin DOMAIN flows
      /\ \A N \in DOMAIN flows : /\ flows'[N] = flows[N]
                                 /\ (\E j \in Key : tcp'[j].up /\ tcp'[j].life = N) => Up(N)
  BY <1>1, OpenFlows
<1>3. KernelInv'
  BY <1>2, OpenApart, OpenProofsOK, OpenEventsOK, OpenReadings DEF KernelInv
<1>4. UNCHANGED <<reading, tracker, kept>>
  BY OpenForm
<1>5. Onward
  <2>1. \A M \in DOMAIN flows : M \in DOMAIN flows' /\ flows'[M].key = flows[M].key /\ flows'[M].tcb = flows[M].tcb
    BY <1>2
  <2>2. \A j \in Key : tcp'[j].up /\ tcp'[j].life \in DOMAIN flows => Up(tcp'[j].life)
    BY <1>2
  <2>3. ASSUME NEW i \in DOMAIN proofs'
        PROVE  (\E j \in DOMAIN proofs : proofs'[i] = proofs[j]) \/ proofs'[i].life \notin DOMAIN flows
    BY <1>1, <1>2, OpenProofsOK
  <2>4. ASSUME NEW i \in DOMAIN events'
        PROVE  (\E j \in DOMAIN events : events'[i] = events[j]) \/ events'[i].life \notin DOMAIN flows
    <3>1. OpenEvent(k).life = L
      BY <1>1 DEF OpenEvent
    <3>. QED
      BY <1>2, <3>1, OpenEventFacts DEF Extends
  <2>5. clock <= clock'
    BY <1>2
  <2>. QED
    BY <1>4, <2>1, <2>2, <2>3, <2>4, <2>5 DEF Onward
<1>6. clock' \in Nat
  BY <1>2
<1>. QED
  BY <1>3, <1>5, <1>6, OnwardOK DEF KernelInv

LEMMA KernelOK ==
  ASSUME CollectorInv, KernelInv, OK(tracker, proofs, events, kept), ShortLives, Kernel
  PROVE  KernelInv' /\ Joint(tracker, proofs, events, kept)' /\ UNCHANGED <<tracker, kept>>
<1>1. ASSUME NEW k \in Key, NEW x \in Tcb, Open(k, x) PROVE KernelInv' /\ Joint(tracker, proofs, events, kept)'
  BY <1>1, OpenOK
<1>2. ASSUME NEW k \in Key, Receive(k) \/ Send(k) \/ Ack(k) \/ Retransmit(k) \/ PeerFin(k) \/ Close(k)
      PROVE  KernelInv' /\ Joint(tracker, proofs, events, kept)'
  BY <1>2, ReceiveOK, SendOK, AckOK, RetransmitOK, PeerFinOK, CloseOK
<1>3. ASSUME NEW k \in Key, NEW on \in BOOLEAN, Foreign(k, on) PROVE KernelInv' /\ Joint(tracker, proofs, events, kept)'
  BY <1>3, ForeignOK
<1>4. UNCHANGED <<tracker, kept>>
  <2>1. ASSUME NEW k \in Key, NEW x \in Tcb, Open(k, x) PROVE UNCHANGED <<tracker, kept>>
    BY <2>1, OpenForm
  <2>2. ASSUME NEW k \in Key, Receive(k) \/ Send(k) \/ Ack(k) PROVE UNCHANGED <<tracker, kept>>
    BY <2>2 DEF Receive, Send, Ack, UNCHANGEDRest
  <2>3. ASSUME NEW k \in Key, Retransmit(k) \/ PeerFin(k) \/ Close(k) PROVE UNCHANGED <<tracker, kept>>
    BY <2>3 DEF Retransmit, PeerFin, Close, UNCHANGEDRest
  <2>4. ASSUME NEW k \in Key, NEW on \in BOOLEAN, Foreign(k, on) PROVE UNCHANGED <<tracker, kept>>
    BY <2>4 DEF Foreign, UNCHANGEDRest
  <2>. QED
    BY <2>1, <2>2, <2>3, <2>4 DEF Kernel
<1>. QED
  BY <1>1, <1>2, <1>3, <1>4 DEF Kernel

-----------------------------------------------------------------------------
(* Steps in which the kernel moves no byte, and what is on its way only    *)
(* shrinks.  What is read anew is of a connection that is up.              *)
Thin(new, old) ==
  \E f \in [DOMAIN new -> DOMAIN old] : /\ \A i \in DOMAIN new : new[i] = old[f[i]]
                                        /\ \A i, j \in DOMAIN new : i < j => f[i] < f[j]

LEMMA ThinSame ==
  ASSUME NEW s
  PROVE  Thin(s, s)
<1> DEFINE f == [i \in DOMAIN s |-> i]
<1>1. /\ f \in [DOMAIN s -> DOMAIN s] /\ \A i \in DOMAIN s : s[i] = s[f[i]]
      /\ \A i, j \in DOMAIN s : i < j => f[i] < f[j]
  OBVIOUS
<1> HIDE DEF f
<1>. QED
  BY <1>1 DEF Thin

LEMMA ThinTail ==
  ASSUME NEW S, NEW s \in Seq(S), s # << >>
  PROVE  Thin(Tail(s), s) /\ Tail(s) \in Seq(S)
<1> DEFINE f == [i \in DOMAIN Tail(s) |-> i + 1]
<1>1. /\ Tail(s) \in Seq(S) /\ \A i \in DOMAIN Tail(s) : i \in Nat /\ i + 1 \in DOMAIN s /\ Tail(s)[i] = s[i + 1]
  <2>1. DOMAIN Tail(s) \subseteq Nat
    OBVIOUS
  <2>. QED
    BY <2>1, HeadTail
<1>2. /\ f \in [DOMAIN Tail(s) -> DOMAIN s] /\ \A i \in DOMAIN Tail(s) : Tail(s)[i] = s[f[i]]
      /\ \A i, j \in DOMAIN Tail(s) : i < j => f[i] < f[j]
  BY <1>1
<1> HIDE DEF f
<1>. QED
  BY <1>1, <1>2 DEF Thin

LEMMA ThinEmpty ==
  ASSUME NEW s
  PROVE  Thin(<< >>, s)
<1>1. << >> \in [DOMAIN << >> -> DOMAIN s] /\ DOMAIN << >> = {}
  OBVIOUS
<1>. QED
  BY <1>1 DEF Thin

LEMMA ThinRemove ==
  ASSUME NEW S, NEW s \in Seq(S), NEW i \in DOMAIN s, NEW r, r = RemoveAt(s, i)
  PROVE  Thin(r, s) /\ r \in Seq(S) /\ \A a \in DOMAIN r : \E j \in DOMAIN s : j # i /\ r[a] = s[j]
<1> DEFINE f == [a \in DOMAIN r |-> Past(i, a)]
<1>1. r \in Seq(S) /\ Removed(s, i, r)
  BY RemoveAtFacts
<1>2. i \in Nat /\ \A a \in DOMAIN r : a \in Nat
  BY <1>1
<1>3. \A a \in DOMAIN r : Past(i, a) \in DOMAIN s /\ Past(i, a) # i /\ r[a] = s[Past(i, a)]
  BY <1>1 DEF Removed
<1>4. \A a, b \in DOMAIN r : a < b => Past(i, a) < Past(i, b)
  BY <1>2 DEF Past
<1>5. /\ f \in [DOMAIN r -> DOMAIN s] /\ \A a \in DOMAIN r : r[a] = s[f[a]]
      /\ \A a, b \in DOMAIN r : a < b => f[a] < f[b]
  BY <1>3, <1>4
<1> HIDE DEF f
<1>. QED
  BY <1>1, <1>3, <1>5 DEF Thin

Settled ==
  /\ DOMAIN flows' = DOMAIN flows /\ flows' \in Partial(Nat, FlowRec)
  /\ \A M \in DOMAIN flows : /\ flows'[M].key = flows[M].key /\ flows'[M].tcb = flows[M].tcb
                             /\ flows'[M].rx = flows[M].rx /\ flows'[M].tx = flows[M].tx
                             /\ flows'[M].room = flows[M].room
  /\ \A j \in Key : tcp'[j].up => /\ tcp[j].up /\ tcp'[j].life = tcp[j].life /\ tcp'[j].tcb = tcp[j].tcb
                                  /\ tcp'[j].rx = tcp[j].rx /\ tcp'[j].tx = tcp[j].tx
  /\ plan' = plan /\ clock \in Nat /\ clock' \in Nat /\ clock <= clock'
  /\ proofs' \in Seq(ProofRec) /\ Thin(proofs', proofs) /\ events' \in Seq(EventRec) /\ Thin(events', events)
KeptNow ==
  /\ kept' \in Partial(Slice, {1})
  /\ \A b \in DOMAIN kept' :
       \/ b \in DOMAIN kept
       \/ /\ b[1] \in DOMAIN flows /\ b[3] < flows[b[1]][b[2]]
          /\ \A i \in DOMAIN events' : Data(events'[i]) => b # <<events'[i].life, events'[i].kind, events'[i].at>>

LEMMA SettledFacts ==
  ASSUME FlowsOK, Settled
  PROVE  /\ FlowsOK'
         /\ \A M \in DOMAIN flows : (\E j \in Key : tcp'[j].up /\ tcp'[j].life = M) => Up(M)
         /\ \A M \in DOMAIN flows, dir \in Dirs : flows'[M][dir] = flows[M][dir]
<1>1. flows \in Partial(Nat, FlowRec) /\ IsFiniteSet(DOMAIN flows) /\ plan \in Plans /\ clock \in Nat /\ clock' \in Nat /\ clock <= clock'
  BY DEF FlowsOK, Settled
<1>2. ASSUME NEW L \in DOMAIN flows'
      PROVE  /\ 0 < L /\ L + 2 <= clock'
             /\ flows'[L].rx <= flows'[L].room.rx /\ flows'[L].tx <= flows'[L].room.tx
             /\ flows'[L].room.rx + 1 < Cycle /\ flows'[L].room.tx < Cycle
  <2>1. L \in DOMAIN flows /\ L \in Nat
    BY <1>1, <1>2, PartialElim DEF Settled
  <2>2. 0 < L /\ L + 2 <= clock
    BY <2>1 DEF FlowsOK
  <2>3. L + 2 <= clock'
    BY <1>1, <2>1, <2>2
  <2>. QED
    BY <2>1, <2>2, <2>3 DEF FlowsOK, Settled
<1>3. \A L, M \in DOMAIN flows' : L < M => L + 3 <= M
  BY DEF FlowsOK, Settled
<1>4. ASSUME NEW k \in Key, tcp'[k].up
      PROVE  /\ tcp'[k].life \in DOMAIN flows'
             /\ flows'[tcp'[k].life].key = k /\ flows'[tcp'[k].life].tcb = tcp'[k].tcb
             /\ flows'[tcp'[k].life].rx = tcp'[k].rx /\ flows'[tcp'[k].life].tx = tcp'[k].tx
  <2>1. /\ tcp[k].up /\ tcp'[k].life = tcp[k].life /\ tcp'[k].tcb = tcp[k].tcb
        /\ tcp'[k].rx = tcp[k].rx /\ tcp'[k].tx = tcp[k].tx
    BY <1>4 DEF Settled
  <2>2. /\ tcp[k].life \in DOMAIN flows
        /\ flows[tcp[k].life].key = k /\ flows[tcp[k].life].tcb = tcp[k].tcb
        /\ flows[tcp[k].life].rx = tcp[k].rx /\ flows[tcp[k].life].tx = tcp[k].tx
    BY <2>1 DEF FlowsOK
  <2>. QED
    BY <2>1, <2>2 DEF Settled
<1>5. flows' \in Partial(Nat, FlowRec) /\ IsFiniteSet(DOMAIN flows') /\ plan' \in Plans
  BY <1>1 DEF Settled
<1>6. FlowsOK'
  BY <1>2, <1>3, <1>4, <1>5 DEF FlowsOK
<1>7. \A M \in DOMAIN flows : (\E j \in Key : tcp'[j].up /\ tcp'[j].life = M) => Up(M)
  BY DEF Settled, Up
<1>8. \A M \in DOMAIN flows, dir \in Dirs : flows'[M][dir] = flows[M][dir]
  BY DEF Settled, Dirs
<1>. QED
  BY <1>6, <1>7, <1>8

LEMMA SettledApart ==
  ASSUME KernelInv, Settled
  PROVE  Apart' /\ ProofsOK'
<1>1. \A M \in DOMAIN flows : (\E j \in Key : tcp'[j].up /\ tcp'[j].life = M) => Up(M)
  BY SettledFacts DEF KernelInv
<1>2. PICK f \in [DOMAIN proofs' -> DOMAIN proofs] :
        /\ \A i \in DOMAIN proofs' : proofs'[i] = proofs[f[i]]
        /\ \A i, j \in DOMAIN proofs' : i < j => f[i] < f[j]
  BY DEF Settled, Thin
<1>3. PICK g \in [DOMAIN events' -> DOMAIN events] : \A i \in DOMAIN events' : events'[i] = events[g[i]]
  BY DEF Settled, Thin
<1>4. ASSUME NEW M \in DOMAIN flows, NEW N \in DOMAIN flows, Follows(M, N)
      PROVE  /\ ~(\E j \in Key : tcp'[j].up /\ tcp'[j].life = M)
             /\ \A i \in DOMAIN proofs' : proofs'[i].life = M => proofs'[i].time < N
             /\ \A i \in DOMAIN events' : events'[i].life = M => events'[i].time < N
  <2>1. /\ ~Up(M)
        /\ \A i \in DOMAIN proofs : proofs[i].life = M => proofs[i].time < N
        /\ \A i \in DOMAIN events : events[i].life = M => events[i].time < N
    BY <1>4 DEF KernelInv, Apart
  <2>. QED
    BY <1>1, <1>2, <1>3, <2>1
<1>5. Apart'
  BY <1>4 DEF Apart, Follows, Up, Settled
<1>6. ASSUME NEW i \in DOMAIN proofs', NEW q, q = proofs'[i]
      PROVE  /\ q.life \in DOMAIN flows' /\ q.key = flows'[q.life].key /\ q.tcb = flows'[q.life].tcb
             /\ q.life <= q.time /\ q.time <= clock'
             /\ q.kind = "connect" => q.time = q.life
             /\ q.kind = "established" => q.time = q.life + 1
             /\ q.kind = "syn" => (q.seq + 1) % Cycle = SendOrigin % Cycle
             /\ q.kind = "close" => /\ ~(\E j \in Key : tcp'[j].up /\ tcp'[j].life = q.life)
                                    /\ \A j \in DOMAIN events' : events'[j].life = q.life /\ Data(events'[j]) =>
                                                                   events'[j].time < q.time
  <2>1. q = proofs[f[i]] /\ f[i] \in DOMAIN proofs
    BY <1>2, <1>6
  <2>2. q \in ProofRec /\ ProofOf(q, events)
    BY <2>1 DEF KernelInv, ProofsOK, ProofOf
  <2>3. q.life \in DOMAIN flows' /\ q.key = flows'[q.life].key /\ q.tcb = flows'[q.life].tcb
    BY <2>2 DEF ProofOf, Settled
  <2>4. q.time <= clock'
    <3>1. q.time \in Nat /\ q.time <= clock
      BY <2>2 DEF ProofOf, ProofRec
    <3>2. clock \in Nat /\ clock' \in Nat /\ clock <= clock'
      BY DEF Settled
    <3>. QED
      BY <3>1, <3>2
  <2>5. ASSUME q.kind = "close"
        PROVE  /\ ~(\E j \in Key : tcp'[j].up /\ tcp'[j].life = q.life)
               /\ \A j \in DOMAIN events' : events'[j].life = q.life /\ Data(events'[j]) => events'[j].time < q.time
    <3>1. /\ ~Up(q.life) /\ q.life \in DOMAIN flows
          /\ \A j \in DOMAIN events : events[j].life = q.life /\ Data(events[j]) => events[j].time < q.time
      BY <2>2, <2>5 DEF ProofOf
    <3>. QED
      BY <1>1, <1>3, <3>1
  <2>. QED
    BY <2>2, <2>3, <2>4, <2>5 DEF ProofOf
<1>7. ASSUME NEW i \in DOMAIN proofs', NEW j \in DOMAIN proofs', i < j
      PROVE  /\ proofs'[i].time <= proofs'[j].time
             /\ proofs'[i].kind = "connect" /\ proofs'[j].kind = "connect" => proofs'[i].life # proofs'[j].life
             /\ proofs'[i].kind = "receive" /\ proofs'[j].kind = "established" /\ proofs'[i].life = proofs'[j].life =>
                  proofs'[i].seq = ReceiveOrigin % Cycle
  <2>1. f[i] \in DOMAIN proofs /\ f[j] \in DOMAIN proofs /\ f[i] < f[j] /\ proofs'[i] = proofs[f[i]] /\ proofs'[j] = proofs[f[j]]
    BY <1>2, <1>7
  <2>. QED
    BY <2>1 DEF KernelInv, ProofsOK
<1>8. proofs' \in Seq(ProofRec)
  BY DEF Settled
<1>9. ProofsOK'
  BY <1>6, <1>7, <1>8 DEF ProofsOK, Up, Data
<1>. QED
  BY <1>5, <1>9

LEMMA SettledEvents ==
  ASSUME KernelInv, Settled, KeptNow
  PROVE  EventsOK' /\ KeptOK'
<1>1. \A M \in DOMAIN flows, dir \in Dirs : flows'[M][dir] = flows[M][dir]
  BY SettledFacts DEF KernelInv
<1>2. PICK g \in [DOMAIN events' -> DOMAIN events] :
        /\ \A i \in DOMAIN events' : events'[i] = events[g[i]]
        /\ \A i, j \in DOMAIN events' : i < j => g[i] < g[j]
  BY DEF Settled, Thin
<1>3. \A i, j \in DOMAIN events' : i # j => g[i] # g[j]
  <2>1. events' \in Seq(EventRec) /\ events \in Seq(EventRec)
    BY DEF Settled, KernelInv, EventsOK
  <2>2. \A i, j \in DOMAIN events' : /\ i \in Nat /\ j \in Nat /\ g[i] \in DOMAIN events /\ g[j] \in DOMAIN events
                                     /\ g[i] \in Nat /\ g[j] \in Nat
    BY <1>2, <2>1
  <2>. QED
    BY <1>2, <2>2
<1>4. ASSUME NEW i \in DOMAIN events', NEW e, e = events'[i]
      PROVE  /\ e.life \in DOMAIN flows' /\ e.key = flows'[e.life].key /\ e.life < e.time
             /\ e.time <= clock' /\ e.endpoints
             /\ e.kind = "open" => e.time = e.life + 2
             /\ Data(e) => e.at < flows'[e.life][e.kind] /\ e.bytes = 1 /\ <<e.life, e.kind, e.at>> \notin DOMAIN kept'
             /\ ~Data(e) => e.bytes = 0
  <2>1. e = events[g[i]] /\ g[i] \in DOMAIN events
    BY <1>2, <1>4
  <2>2. /\ e \in EventRec /\ e.life \in DOMAIN flows /\ e.key = flows[e.life].key /\ e.life < e.time
        /\ e.time <= clock /\ e.endpoints
        /\ e.kind = "open" => e.time = e.life + 2
        /\ Data(e) => e.at < flows[e.life][e.kind] /\ e.bytes = 1 /\ <<e.life, e.kind, e.at>> \notin DOMAIN kept
        /\ ~Data(e) => e.bytes = 0
    BY <2>1 DEF KernelInv, EventsOK
  <2>3. e.time <= clock'
    <3>1. e.time \in Nat
      BY <2>2 DEF EventRec
    <3>2. clock \in Nat /\ clock' \in Nat /\ clock <= clock'
      BY DEF Settled
    <3>. QED
      BY <2>2, <3>1, <3>2
  <2>4. e.life \in DOMAIN flows' /\ e.key = flows'[e.life].key
    BY <2>2 DEF Settled
  <2>5. Data(e) => e.at < flows'[e.life][e.kind] /\ <<e.life, e.kind, e.at>> \notin DOMAIN kept'
    BY <1>1, <1>4, <2>2 DEF KeptNow, Data
  <2>. QED
    BY <2>2, <2>3, <2>4, <2>5
<1>5. ASSUME NEW i \in DOMAIN events', NEW j \in DOMAIN events', i # j
      PROVE  /\ events'[i].kind = "open" /\ events'[j].kind = "open" => events'[i].life # events'[j].life
             /\ Data(events'[i]) => ~(/\ events'[j].life = events'[i].life /\ events'[j].kind = events'[i].kind
                                      /\ events'[j].at = events'[i].at)
  <2>1. g[i] \in DOMAIN events /\ g[j] \in DOMAIN events /\ g[i] # g[j] /\ events'[i] = events[g[i]] /\ events'[j] = events[g[j]]
    BY <1>2, <1>3, <1>5
  <2>2. events[g[i]].kind = "open" /\ events[g[j]].kind = "open" => events[g[i]].life # events[g[j]].life
    BY <2>1 DEF KernelInv, EventsOK
  <2>3. Data(events[g[i]]) => ~(/\ events[g[j]].life = events[g[i]].life /\ events[g[j]].kind = events[g[i]].kind
                                /\ events[g[j]].at = events[g[i]].at)
    BY <2>1 DEF KernelInv, EventsOK
  <2>. QED
    BY <2>1, <2>2, <2>3
<1>6. events' \in Seq(EventRec)
  BY DEF Settled
<1>7. EventsOK'
  BY <1>4, <1>5, <1>6 DEF EventsOK, Data
<1>8. ASSUME NEW b \in DOMAIN kept' PROVE b[1] \in DOMAIN flows' /\ b[3] < flows'[b[1]][b[2]]
  <2>1. b \in Slice
    BY PartialElim DEF KeptNow
  <2>2. b[1] \in DOMAIN flows /\ b[3] < flows[b[1]][b[2]]
    BY <1>8 DEF KernelInv, KeptOK, KeptNow
  <2>3. b[2] \in Dirs
    BY <2>1 DEF Slice
  <2>. QED
    BY <1>1, <2>2, <2>3 DEF Settled
<1>9. KeptOK'
  BY <1>8 DEF KeptOK, KeptNow
<1>. QED
  BY <1>7, <1>9

LEMMA SettledReading ==
  ASSUME CollectorInv, KernelInv, Settled, reading' = reading \/ reading' = NoReading
  PROVE  ReadingOK'
<1>1. CASE reading' = NoReading
  <2>1. DOMAIN (reading'.obs) = {}
    BY <1>1 DEF NoReading
  <2>. QED
    BY <2>1 DEF ReadingOK
<1>2. CASE reading' = reading
  <2>1. SUFFICES ASSUME NEW i \in DOMAIN reading.obs, NEW s, s = reading.obs[i], ~s.closed, NEW M, M = s.created
                 PROVE  /\ s.begin = s.end /\ 0 < s.end /\ s.end <= clock' /\ M \in DOMAIN flows' /\ flows'[M].key = s.key
                        /\ \A j \in DOMAIN reading.obs : ~reading.obs[j].closed => reading.obs[j].begin = s.begin
                        /\ CountAt(s, "rx") <= flows'[M].rx /\ CountAt(s, "tx") <= flows'[M].tx /\ CountAt(s, "tx") >= 0
                        /\ s.rcvNext \in {ReceiveOrigin + s.truth.rx, ReceiveOrigin + s.truth.rx + 1}
                        /\ \A N \in DOMAIN flows' : Follows(M, N)' => s.end < N
                        /\ \A j \in DOMAIN events' :
                             events'[j].life = M /\ Data(events'[j]) /\ events'[j].at >= CountAt(s, events'[j].kind) =>
                               events'[j].time > s.begin
    BY <1>2 DEF ReadingOK, CountAt, Data
  <2>2. /\ s.begin = s.end /\ 0 < s.end /\ s.end <= clock /\ M \in DOMAIN flows /\ flows[M].key = s.key
        /\ \A j \in DOMAIN reading.obs : ~reading.obs[j].closed => reading.obs[j].begin = s.begin
        /\ CountAt(s, "rx") <= flows[M].rx /\ CountAt(s, "tx") <= flows[M].tx /\ CountAt(s, "tx") >= 0
        /\ s.rcvNext \in {ReceiveOrigin + s.truth.rx, ReceiveOrigin + s.truth.rx + 1}
        /\ \A N \in DOMAIN flows : Follows(M, N) => s.end < N
        /\ \A j \in DOMAIN events :
             events[j].life = M /\ Data(events[j]) /\ events[j].at >= CountAt(s, events[j].kind) => events[j].time > s.begin
    BY <2>1 DEF KernelInv, ReadingOK
  <2>3. s.end <= clock'
    <3>1. s \in Obs
      BY <2>1 DEF CollectorInv
    <3>2. s.end \in Nat
      BY <3>1 DEF Obs
    <3>3. clock \in Nat /\ clock' \in Nat /\ clock <= clock'
      BY DEF Settled
    <3>. QED
      BY <2>2, <3>2, <3>3
  <2>4. \A N \in DOMAIN flows' : Follows(M, N)' => s.end < N
    BY <2>2 DEF Follows, Settled
  <2>5. \A j \in DOMAIN events' : \E a \in DOMAIN events : events'[j] = events[a]
    BY DEF Settled, Thin
  <2>6. M \in DOMAIN flows' /\ flows'[M].key = s.key /\ flows'[M].rx = flows[M].rx /\ flows'[M].tx = flows[M].tx
    BY <2>2 DEF Settled
  <2>. QED
    BY <2>2, <2>3, <2>4, <2>5, <2>6
<1>. QED
  BY <1>1, <1>2

LEMMA SettledOK ==
  ASSUME KernelInv, Settled, KeptNow, ReadingOK'
  PROVE  KernelInv'
  BY SettledFacts, SettledApart, SettledEvents DEF KernelInv

\* What is read anew is of a connection that is up, all of whose counted bytes the reading saw.
Reads ==
  \A i \in DOMAIN reading'.obs :
    LET s == reading'.obs[i]
    IN  ~s.closed => \/ \E j \in DOMAIN reading.obs : reading.obs[j] = s
                     \/ Up(s.created) /\ \A b \in DOMAIN kept' : b[1] = s.created => b[3] < CountAt(s, b[2])

LEMMA CarryOK ==
  ASSUME FlowsOK, CollectorInv', Settled, Reads, OK(tracker', proofs', events', kept')
  PROVE  (TrackerOK(tracker) /\ Joint(tracker, proofs, events, kept))'
<1>0. /\ TrackerOK(tracker') /\ Joint(tracker', proofs', events', kept') /\ tracker' \in Tracker
      /\ clock \in Nat /\ clock' \in Nat /\ clock <= clock' /\ kept' \in Partial(Slice, {1})
  BY DEF OK, TrackerOK, Settled
<1>1. /\ DOMAIN flows' = DOMAIN flows
      /\ \A M \in DOMAIN flows : flows'[M].key = flows[M].key /\ flows'[M].tcb = flows[M].tcb
      /\ \A M \in DOMAIN flows : (\E j \in Key : tcp'[j].up /\ tcp'[j].life = M) => Up(M)
  BY SettledFacts DEF Settled
<1>2. ConnsOK(tracker)'
  <2>1. ConnsOK(tracker')
    BY <1>0 DEF Joint
  <2>. QED
    BY <1>1, <2>1 DEF ConnsOK
<1>3. Connects(tracker, proofs)'
  BY <1>0 DEF Joint, Connects
<1>4. GuardOK(tracker, events)'
  <2>1. SUFFICES ASSUME NEW L \in Claimed(tracker') \ tracker'.mistaken
                 PROVE  /\ \A i \in DOMAIN events' : events'[i].life = L => /\ events'[i].kind # "open"
                                                                            /\ Data(events'[i]) => Guarded(tracker', L, events'[i])
                        /\ (\E k \in Key : tcp'[k].up /\ tcp'[k].life = L) =>
                             \E w \in tracker'.window : w.key = flows'[L].key /\ w.begin = L /\ w.end = 0
    BY DEF GuardOK, Up, Claimed, Data, Guarded
  <2>2. L \in DOMAIN flows
    BY <1>0 DEF Joint, ConnsOK, Claimed
  <2>3. /\ \A i \in DOMAIN events' : events'[i].life = L => events'[i].kind # "open" /\ (Data(events'[i]) => Guarded(tracker', L, events'[i]))
        /\ Up(L) => \E w \in tracker'.window : w.key = flows[L].key /\ w.begin = L /\ w.end = 0
    BY <1>0 DEF Joint, GuardOK
  <2>. QED
    BY <1>1, <2>2, <2>3
<1>5. BelowPrefix(tracker, kept)'
  BY <1>0 DEF Joint, BelowPrefix
<1>6. ASSUME NEW x \in DOMAIN tracker'.conn
      PROVE  /\ tracker'.conn[x] \in ConnRec /\ tracker'.conn[x].life \in DOMAIN flows
             /\ tracker'.conn[x].probe.end \in Nat
  <2>1. tracker'.conn[x] \in ConnRec
    BY <1>0, ConnFacts
  <2>. QED
    BY <1>0, <2>1 DEF Joint, ConnsOK, ConnRec, ProbeRec
<1>7. OriginsOK(tracker, proofs)'
  <2>1. SUFFICES ASSUME NEW x \in DOMAIN tracker'.conn, NEW c, c = tracker'.conn[x]
                 PROVE  /\ c.haveSend => c.sendOrigin = SendOrigin % Cycle
                        /\ c.haveReceive =>
                             \/ c.receiveOrigin = ReceiveOrigin % Cycle
                             \/ /\ ~Established(proofs', c.life)
                                /\ c.connected => /\ ~(\E k \in Key : tcp'[k].up /\ tcp'[k].life = c.life)
                                                  /\ \A i \in DOMAIN reading'.obs :
                                                       ~reading'.obs[i].closed /\ reading'.obs[i].created = c.life =>
                                                         reading'.obs[i].begin <= c.established
    BY DEF OriginsOK, OriginOK, Up, Established
  <2>2. OriginOK(c, proofs') /\ c.life \in DOMAIN flows
    BY <1>0, <1>6, <2>1 DEF Joint, OriginsOK
  <2>3. ASSUME ~Up(c.life), NEW i \in DOMAIN reading'.obs, ~reading'.obs[i].closed, reading'.obs[i].created = c.life
        PROVE  \E j \in DOMAIN reading.obs : reading.obs[j] = reading'.obs[i]
    BY <2>3 DEF Reads
  <2>. QED
    BY <1>1, <2>2, <2>3 DEF OriginOK
<1>8. MarkersOK(tracker, events)'
  BY <1>0, <1>1 DEF Joint, MarkersOK, MarkerOK
<1>9. ProbesOK(tracker, events)'
  <2>1. SUFFICES ASSUME NEW x \in DOMAIN tracker'.conn, NEW c, c = tracker'.conn[x], c.probe.end # 0
                 PROVE  /\ c.probe.end <= clock'
                        /\ \/ \A i \in DOMAIN events' : events'[i].life = c.life => events'[i].kind # "open"
                           \/ /\ ~(\E k \in Key : tcp'[k].up /\ tcp'[k].life = c.life)
                              /\ \A i \in DOMAIN reading'.obs :
                                   ~reading'.obs[i].closed /\ reading'.obs[i].created = c.life =>
                                     reading'.obs[i].begin <= c.probe.end
    BY DEF ProbesOK, ProbeOK, Up
  <2>2. ProbeOK(c, events') /\ c.life \in DOMAIN flows /\ c.probe.end \in Nat
    BY <1>0, <1>6, <2>1 DEF Joint, ProbesOK
  <2>3. ASSUME ~Up(c.life), NEW i \in DOMAIN reading'.obs, ~reading'.obs[i].closed, reading'.obs[i].created = c.life
        PROVE  \E j \in DOMAIN reading.obs : reading.obs[j] = reading'.obs[i]
    BY <2>3 DEF Reads
  <2>4. c.probe.end <= clock'
    BY <1>0, <2>1, <2>2 DEF ProbeOK
  <2>. QED
    BY <1>1, <2>1, <2>2, <2>3, <2>4 DEF ProbeOK
<1>10. TotalsOK(tracker, kept)'
  <2>1. SUFFICES ASSUME NEW x \in DOMAIN tracker'.conn, NEW c, c = tracker'.conn[x], NEW i \in DOMAIN reading'.obs,
                        NEW b \in DOMAIN kept', NEW s, s = reading'.obs[i],
                        ~s.closed /\ s.created = c.life /\ b[1] = c.life /\ b[3] >= CountAt(s, b[2]),
                        c.probe.end # 0 /\ s.begin > c.probe.end,
                        c.key \in DOMAIN tracker'.legacy /\ tracker'.legacy[c.key].life = c.life
                 PROVE  tracker'.legacy[c.key].counter >= s.begin
    BY DEF TotalsOK, TotalOK, CountAt
  <2>2. TotalOK(tracker'.legacy, c, kept')
    BY <1>0, <2>1 DEF Joint, TotalsOK
  <2>3. CASE \E j \in DOMAIN reading.obs : reading.obs[j] = s
    BY <2>1, <2>2, <2>3 DEF TotalOK
  <2>4. CASE b[3] < CountAt(s, b[2])
    <3>1. ~(b[3] >= CountAt(s, b[2]))
      <4>1. b \in Slice
        BY <1>0, PartialElim
      <4>2. b[3] \in Nat
        BY <4>1 DEF Slice
      <4>3. CountAt(s, b[2]) \in Int
        <5>1. s \in Obs
          BY <2>1 DEF CollectorInv
        <5>2. s.truth.rx \in Nat /\ s.maximum \in Nat /\ SendOrigin \in Nat
          BY <5>1, TcpPathsAssumption DEF Obs, TruthRec
        <5>. QED
          BY <5>2 DEF CountAt
      <4>. QED
        BY <2>4, <4>2, <4>3
    <3>. QED
      BY <2>1, <3>1
  <2>. QED
    BY <2>1, <2>3, <2>4 DEF Reads
<1>11. TrackerOK(tracker)'
  BY <1>0 DEF TrackerOK
<1>. QED
  BY <1>2, <1>3, <1>4, <1>5, <1>7, <1>8, <1>9, <1>10, <1>11 DEF Joint

-----------------------------------------------------------------------------
(* The callbacks, and the steps of the worker that read nothing.           *)
LEMMA CalmOK ==
  ASSUME CollectorInv, CollectorInv', KernelInv, UNCHANGED <<clock, flows, plan>>,
         \A j \in Key : tcp'[j].up => /\ tcp[j].up /\ tcp'[j].life = tcp[j].life /\ tcp'[j].tcb = tcp[j].tcb
                                      /\ tcp'[j].rx = tcp[j].rx /\ tcp'[j].tx = tcp[j].tx,
         proofs' \in Seq(ProofRec), Thin(proofs', proofs), events' \in Seq(EventRec), Thin(events', events),
         reading' = reading \/ reading' = NoReading, KeptNow, OK(tracker', proofs', events', kept')
  PROVE  (KernelInv /\ TrackerOK(tracker) /\ Joint(tracker, proofs, events, kept))'
<1>1. clock \in Nat /\ clock <= clock' /\ flows \in Partial(Nat, FlowRec) /\ FlowsOK
  BY DEF CollectorInv, TcpOK, KernelInv, FlowsOK
<1>2. Settled
  BY <1>1 DEF Settled
<1>3. Reads
  <2>1. CASE reading' = reading
    BY <2>1 DEF Reads
  <2>2. CASE reading' = NoReading
    <3>1. DOMAIN (reading'.obs) = {}
      BY <2>2 DEF NoReading
    <3>. QED
      BY <3>1 DEF Reads
  <2>. QED
    BY <2>1, <2>2
<1>4. KernelInv'
  BY <1>2, SettledReading, SettledOK
<1>. QED
  BY <1>1, <1>2, <1>3, <1>4, CarryOK

LEMMA KeptStays ==
  ASSUME KernelInv, kept' = kept
  PROVE  KeptNow
  BY DEF KernelInv, KeptOK, KeptNow

LEMMA ProofStepOK ==
  ASSUME CollectorInv, CollectorInv', KernelInv, OK(tracker, proofs, events, kept), DeliverProof \/ LoseProof
  PROVE  (KernelInv /\ TrackerOK(tracker) /\ Joint(tracker, proofs, events, kept))'
<1>1. proofs # << >> /\ proofs' = Tail(proofs) /\ UNCHANGED <<clock, flows, plan, tcp, events, reading, kept>>
  BY DEF DeliverProof, LoseProof
<1>2. proofs \in Seq(ProofRec) /\ events \in Seq(EventRec)
  BY DEF KernelInv, ProofsOK, EventsOK
<1>3. OK(tracker', proofs', events', kept')
  <2>1. CASE DeliverProof
    <3>1. tracker' = OnProof(tracker, Head(proofs))
      BY <2>1 DEF DeliverProof
    <3>2. OK(tracker', Tail(proofs), events, kept)
      BY <1>1, <3>1, OnProofOK
    <3>. QED
      BY <1>1, <3>2
  <2>2. CASE LoseProof
    <3>1. tracker' = tracker
      BY <2>2 DEF LoseProof
    <3>2. Sub(Tail(proofs), proofs) /\ Sub(events, events)
      BY <1>1, <1>2, HeadTail DEF Sub
    <3>3. OK(tracker, Tail(proofs), events, kept)
      BY <3>2, FewerOK
    <3>. QED
      BY <1>1, <3>1, <3>3
  <2>. QED
    BY <2>1, <2>2
<1>4. Thin(proofs', proofs) /\ proofs' \in Seq(ProofRec) /\ Thin(events', events) /\ events' \in Seq(EventRec)
  BY <1>1, <1>2, ThinTail, ThinSame
<1>5. KeptNow
  BY <1>1, KeptStays
<1>. QED
  BY <1>1, <1>3, <1>4, <1>5, CalmOK

LEMMA LoseEventOK ==
  ASSUME CollectorInv, CollectorInv', KernelInv, OK(tracker, proofs, events, kept), LoseEvent
  PROVE  (KernelInv /\ TrackerOK(tracker) /\ Joint(tracker, proofs, events, kept))'
<1>1. events # << >> /\ events' = Tail(events) /\ UNCHANGED <<clock, flows, plan, tcp, proofs, reading, kept, tracker>>
  BY DEF LoseEvent
<1>2. proofs \in Seq(ProofRec) /\ events \in Seq(EventRec)
  BY DEF KernelInv, ProofsOK, EventsOK
<1>3. OK(tracker', proofs', events', kept')
  <2>1. Sub(Tail(events), events) /\ Sub(proofs, proofs)
    BY <1>1, <1>2, HeadTail DEF Sub
  <2>2. OK(tracker, proofs, Tail(events), kept)
    BY <2>1, FewerOK
  <2>. QED
    BY <1>1, <2>2
<1>4. Thin(events', events) /\ events' \in Seq(EventRec) /\ Thin(proofs', proofs) /\ proofs' \in Seq(ProofRec)
  BY <1>1, <1>2, ThinTail, ThinSame
<1>5. KeptNow
  BY <1>1, KeptStays
<1>. QED
  BY <1>1, <1>3, <1>4, <1>5, CalmOK

LEMMA OneMore ==
  ASSUME NEW B \in Partial(Slice, {1}), NEW b \in Slice, b \notin DOMAIN B, NEW new, new = B (+) SetToBag({b})
  PROVE  new \in Partial(Slice, {1}) /\ DOMAIN new = DOMAIN B \cup {b}
  BY BagSumFacts

LEMMA DeliverEventOK ==
  ASSUME CollectorInv, CollectorInv', KernelInv, OK(tracker, proofs, events, kept), DeliverEvent
  PROVE  (KernelInv /\ TrackerOK(tracker) /\ Joint(tracker, proofs, events, kept))'
<1>1. UNCHANGED <<clock, flows, plan, tcp, proofs, reading>>
  BY DEF DeliverEvent
<1>2. proofs \in Seq(ProofRec) /\ events \in Seq(EventRec) /\ kept \in Partial(Slice, {1})
  BY DEF KernelInv, ProofsOK, EventsOK, KeptOK
<1>3. PICK i \in 1 .. Min2(plan.reach, Len(events)), endpoints \in BOOLEAN :
        /\ events' = RemoveAt(events, i)
        /\ OnEvent([events[i] EXCEPT !.endpoints = endpoints],
                   KeepLegacy(tracker, [events[i] EXCEPT !.endpoints = endpoints]))
  BY DEF DeliverEvent
<1>4. i \in DOMAIN events
  <2>1. plan.reach \in Nat
    BY TcpPathsAssumption DEF KernelInv, FlowsOK
  <2>2. Len(events) \in Nat /\ DOMAIN events = 1 .. Len(events)
    BY <1>2
  <2>. QED
    BY <2>1, <2>2 DEF Min2
<1>5. PICK e : e = [events[i] EXCEPT !.endpoints = endpoints]
  OBVIOUS
<1>6. PICK a : a = KeepLegacy(tracker, e)
  OBVIOUS
<1>7. /\ tracker' = a.tracker
      /\ kept' = IF a.fate = "keep" /\ e.endpoints THEN kept (+) SetToBag(Counted(e)) ELSE kept
  BY <1>3, <1>5, <1>6 DEF OnEvent
<1>8. OK(tracker', proofs', events', kept')
  <2>1. OK(a.tracker, proofs, events', kept')
    BY <1>3, <1>4, <1>5, <1>6, <1>7, KeepLegacyOK
  <2>. QED
    BY <1>1, <1>7, <2>1
<1>9. /\ Thin(events', events) /\ events' \in Seq(EventRec) /\ Thin(proofs', proofs) /\ proofs' \in Seq(ProofRec)
      /\ \A m \in DOMAIN events' : \E j \in DOMAIN events : j # i /\ events'[m] = events[j]
  BY <1>1, <1>2, <1>3, <1>4, ThinRemove, ThinSame
<1>10. KeptNow
  <2>1. CASE kept' = kept
    BY <2>1, KeptStays
  <2>2. CASE kept' = kept (+) SetToBag(Counted(e))
    <3>1. PICK f : f = events[i]
      OBVIOUS
    <3>2. /\ f \in EventRec /\ f.life \in DOMAIN flows
          /\ Data(f) => f.at < flows[f.life][f.kind] /\ f.bytes = 1
          /\ ~Data(f) => f.bytes = 0
          /\ \A j \in DOMAIN events : Data(f) /\ j # i => ~(events[j].life = f.life /\ events[j].kind = f.kind /\ events[j].at = f.at)
      <4>1. f \in EventRec
        BY <1>4, <3>1 DEF KernelInv, EventsOK
      <4>2. /\ f.life \in DOMAIN flows
            /\ Data(f) => f.at < flows[f.life][f.kind] /\ f.bytes = 1
            /\ ~Data(f) => f.bytes = 0
        BY <1>4, <3>1 DEF KernelInv, EventsOK
      <4>3. ASSUME NEW j \in DOMAIN events, Data(f), j # i
            PROVE  ~(events[j].life = f.life /\ events[j].kind = f.kind /\ events[j].at = f.at)
        BY <1>4, <3>1, <4>3 DEF KernelInv, EventsOK
      <4>. QED
        BY <4>1, <4>2, <4>3
    <3>3. e.life = f.life /\ e.kind = f.kind /\ e.at = f.at /\ e.bytes = f.bytes /\ f.life \in Nat /\ f.at \in Nat
      BY <1>5, <3>1, <3>2 DEF EventRec
    <3>4. CASE ~Data(f)
      <4>1. Counted(e) = {}
        BY <3>2, <3>3, <3>4 DEF Counted
      <4>2. kept' \in Partial(Slice, {1}) /\ DOMAIN kept' = DOMAIN kept \cup {}
        BY <1>2, <2>2, <4>1, BagSumFacts
      <4>. QED
        BY <4>2 DEF KeptNow
    <3>5. CASE Data(f)
      <4>1. PICK b : b = <<f.life, f.kind, f.at>>
        OBVIOUS
      <4>2. b \in Slice /\ b[1] = f.life /\ b[2] = f.kind /\ b[3] = f.at
        BY <3>3, <3>5, <4>1 DEF Slice, Data
      <4>3. Counted(e) = {b}
        BY <3>2, <3>3, <3>5, <4>1 DEF Counted
      <4>4. b \notin DOMAIN kept
        BY <1>4, <3>1, <3>5, <4>1 DEF KernelInv, EventsOK
      <4>5. kept' \in Partial(Slice, {1}) /\ DOMAIN kept' = DOMAIN kept \cup {b}
        BY <1>2, <2>2, <4>2, <4>3, <4>4, OneMore
      <4>6. \A m \in DOMAIN events' : b # <<events'[m].life, events'[m].kind, events'[m].at>>
        BY <1>9, <3>2, <3>5, <4>1
      <4>. QED
        BY <3>2, <3>5, <4>2, <4>5, <4>6 DEF KeptNow
    <3>. QED
      BY <3>4, <3>5
  <2>. QED
    BY <1>7, <2>1, <2>2
<1>. QED
  BY <1>1, <1>8, <1>9, <1>10, CalmOK

LEMMA WorkStepOK ==
  ASSUME CollectorInv, CollectorInv', KernelInv, OK(tracker, proofs, events, kept), Work
  PROVE  (KernelInv /\ TrackerOK(tracker) /\ Joint(tracker, proofs, events, kept))'
<1>1. reading' = NoReading /\ UNCHANGED <<clock, tcp, flows, plan, proofs, events, kept>>
  BY DEF Work, kernelVars
<1>2. PICK clockType \in {1, 2}, slow \in SUBSET Tcb, idle \in SUBSET Tcb, idleKeys \in SUBSET Key :
        tracker' = Expire(ObserveAll(Healthy(clockType), reading.obs), slow, idle, idleKeys)
  BY DEF Work
<1>3. OK(tracker', proofs', events', kept')
  <2>1. OK(tracker', proofs, events, kept)
    BY <1>2, WorkOK
  <2>. QED
    BY <1>1, <2>1
<1>4. /\ Thin(events', events) /\ events' \in Seq(EventRec) /\ Thin(proofs', proofs) /\ proofs' \in Seq(ProofRec)
  BY <1>1, ThinSame DEF KernelInv, ProofsOK, EventsOK
<1>5. KeptNow
  BY <1>1, KeptStays
<1>. QED
  BY <1>1, <1>3, <1>4, <1>5, CalmOK

LEMMA LastStepsOK ==
  ASSUME CollectorInv, CollectorInv', KernelInv, OK(tracker, proofs, events, kept),
         phase = "off" => tracker = NoTracker, Start \/ LastSamples \/ Releasing \/ EndStop
  PROVE  (KernelInv /\ TrackerOK(tracker) /\ Joint(tracker, proofs, events, kept))'
<1>1. /\ reading' = reading \/ reading' = NoReading
      /\ UNCHANGED <<clock, flows, plan, proofs, events, kept>>
  BY DEF Start, LastSamples, Releasing, LastLook, Release, EndStop, kernelVars
<1>2. OK(tracker', proofs, events, kept)
  <2>1. CASE Start
    <3>1. tracker' = Reset(NoTracker)
      BY <2>1 DEF Start
    <3>2. Reset(NoTracker) = NoTracker
      BY DEF Reset, NoTracker
    <3>. QED
      BY <2>1, <3>1, <3>2 DEF Start
  <2>2. CASE LastSamples
    <3>1. tracker' = ObserveAll(tracker, reading.obs)
      BY <2>2 DEF LastSamples
    <3>. QED
      BY <3>1, ObserveAllOK
  <2>3. CASE EndStop
    <3>1. tracker' = Finish(tracker)
      BY <2>3 DEF EndStop
    <3>. QED
      BY <3>1, FinishOK
  <2>4. CASE Releasing
    BY <2>4 DEF Releasing, LastLook, Release
  <2>. QED
    BY <2>1, <2>2, <2>3, <2>4
<1>3. ASSUME NEW j \in Key, tcp'[j].up
      PROVE  /\ tcp[j].up /\ tcp'[j].life = tcp[j].life /\ tcp'[j].tcb = tcp[j].tcb
             /\ tcp'[j].rx = tcp[j].rx /\ tcp'[j].tx = tcp[j].tx
  <2>1. CASE tcp' = tcp
    BY <1>3, <2>1
  <2>2. CASE Releasing
    BY <1>3, <2>2, ReleasingKeeps DEF CollectorInv, TcpOK, Row
  <2>. QED
    BY <2>1, <2>2 DEF Start, LastSamples, EndStop, kernelVars
<1>4. /\ Thin(events', events) /\ events' \in Seq(EventRec) /\ Thin(proofs', proofs) /\ proofs' \in Seq(ProofRec)
  BY <1>1, ThinSame DEF KernelInv, ProofsOK, EventsOK
<1>5. KeptNow
  BY <1>1, KeptStays
<1>6. OK(tracker', proofs', events', kept')
  BY <1>1, <1>2
<1>. QED
  BY <1>1, <1>3, <1>4, <1>5, <1>6, CalmOK

-----------------------------------------------------------------------------
(* A poll reads every connection that is up at one instant.                *)
LEMMA PollReads ==
  ASSUME CollectorInv, NEW sample, NEW wait, NEW fault, PollNow(sample, wait, fault)
  PROVE  /\ clock' = clock + 2 /\ clock \in Nat
         /\ \A j \in Key : /\ tcp'[j].up = tcp[j].up /\ tcp'[j].life = tcp[j].life /\ tcp'[j].tcb = tcp[j].tcb
                           /\ tcp'[j].rx = tcp[j].rx /\ tcp'[j].tx = tcp[j].tx
         /\ \A i \in DOMAIN reading'.obs :
              reading'.obs[i].closed \/ FromRow(reading'.obs[i], tcp[reading'.obs[i].key], clock + 1)
<1> DEFINE poll == [read |-> sample, wait |-> wait, stopping |-> FALSE, fault |-> fault, clock |-> clock + 1]
           q == Poll(estats, tcp, Rows, poll)
<1>1. clock \in Nat /\ tcp \in [Key -> Row]
  BY DEF CollectorInv, TcpOK
<1>2. PollInv(q, clock + 1)
  <2>1. poll.clock = clock + 1 /\ clock + 1 \in Nat
    BY <1>1
  <2> HIDE DEF poll
  <2>. QED
    BY <2>1, PollKeeps DEF CollectorInv
<1>3. /\ clock' = clock + 2 /\ reading'.obs = q.obs
      /\ tcp' = [k \in Key |-> [q.tcp[k] EXCEPT !.tried = @ \/ (q.tcp[k].on /\ ~tcp[k].on)]]
  BY DEF PollNow, Polled
<1> HIDE DEF q
<1>4. ASSUME NEW j \in Key
      PROVE  /\ tcp'[j].up = tcp[j].up /\ tcp'[j].life = tcp[j].life /\ tcp'[j].tcb = tcp[j].tcb
             /\ tcp'[j].rx = tcp[j].rx /\ tcp'[j].tx = tcp[j].tx
  <2>1. q.tcp[j] \in Row /\ SameRow(tcp[j], q.tcp[j])
    BY <1>2 DEF PollInv, Polling
  <2>2. tcp'[j] = [q.tcp[j] EXCEPT !.tried = @ \/ (q.tcp[j].on /\ ~tcp[j].on)]
    BY <1>3
  <2>. QED
    BY <2>1, <2>2 DEF SameRow, Row
<1>. QED
  BY <1>1, <1>2, <1>3, <1>4 DEF PollInv

\* What was not counted when the reading was taken has not happened yet.
LEMMA PollSees ==
  ASSUME KernelInv, CollectorInv', NEW i \in DOMAIN reading'.obs, NEW s, s = reading'.obs[i],
         FromRow(s, tcp[s.key], clock + 1), clock \in Nat, NEW L, L = s.created
  PROVE  /\ s \in Obs /\ L \in Nat /\ Up(L) /\ L \in DOMAIN flows /\ flows[L].key = s.key
         /\ s.begin = clock + 1 /\ s.end = clock + 1 /\ s.rcvNext \in {ReceiveOrigin + s.truth.rx, ReceiveOrigin + s.truth.rx + 1}
         /\ CountAt(s, "rx") = flows[L].rx /\ CountAt(s, "tx") = flows[L].tx
         /\ flows[L].rx \in Nat /\ flows[L].tx \in Nat
<1>1. s \in Obs
  BY DEF CollectorInv
<1>2. s.key \in Key /\ L \in Nat
  BY <1>1 DEF Obs
<1>3. /\ tcp[s.key].up /\ L = tcp[s.key].life /\ s.begin = clock + 1 /\ s.end = clock + 1
      /\ s.truth.rx = tcp[s.key].rx /\ s.maximum = SendOrigin + tcp[s.key].tx
      /\ s.rcvNext = ReceiveOrigin + tcp[s.key].rx + (IF tcp[s.key].fin THEN 1 ELSE 0)
  BY DEF FromRow
<1>4. L \in DOMAIN flows /\ flows[L].key = s.key /\ flows[L].rx = tcp[s.key].rx /\ flows[L].tx = tcp[s.key].tx
  BY <1>2, <1>3 DEF KernelInv, FlowsOK
<1>5. flows[L] \in FlowRec
  BY <1>4, PartialElim DEF KernelInv, FlowsOK
<1>6. flows[L].rx \in Nat /\ flows[L].tx \in Nat
  BY <1>5 DEF FlowRec
<1>7. SendOrigin \in Nat /\ ReceiveOrigin \in Nat
  BY TcpPathsAssumption
<1>8. CountAt(s, "rx") = flows[L].rx /\ CountAt(s, "tx") = flows[L].tx
  BY <1>3, <1>4, <1>6, <1>7 DEF CountAt
<1>9. s.rcvNext \in {ReceiveOrigin + s.truth.rx, ReceiveOrigin + s.truth.rx + 1}
  BY <1>3, <1>4, <1>6, <1>7
<1>10. Up(L)
  BY <1>2, <1>3 DEF Up
<1>. QED
  BY <1>1, <1>2, <1>3, <1>4, <1>6, <1>8, <1>9, <1>10

LEMMA PolledOK ==
  ASSUME CollectorInv, CollectorInv', KernelInv, OK(tracker, proofs, events, kept),
         NEW sample, NEW wait, NEW fault, PollNow(sample, wait, fault), UNCHANGED <<proofs, tracker, kept, plan>>,
         events' = events \/ events' = << >>,
         DOMAIN flows' = DOMAIN flows /\ flows' \in Partial(Nat, FlowRec),
         \A M \in DOMAIN flows : /\ flows'[M].key = flows[M].key /\ flows'[M].tcb = flows[M].tcb
                                 /\ flows'[M].rx = flows[M].rx /\ flows'[M].tx = flows[M].tx
                                 /\ flows'[M].room = flows[M].room
  PROVE  (KernelInv /\ TrackerOK(tracker) /\ Joint(tracker, proofs, events, kept))'
<1>0. /\ proofs \in Seq(ProofRec) /\ events \in Seq(EventRec) /\ << >> \in Seq(EventRec)
      /\ FlowsOK /\ kept \in Partial(Slice, {1})
  BY DEF KernelInv, ProofsOK, EventsOK, KeptOK
<1>1. /\ clock' = clock + 2 /\ clock \in Nat
      /\ \A j \in Key : /\ tcp'[j].up = tcp[j].up /\ tcp'[j].life = tcp[j].life /\ tcp'[j].tcb = tcp[j].tcb
                        /\ tcp'[j].rx = tcp[j].rx /\ tcp'[j].tx = tcp[j].tx
      /\ \A i \in DOMAIN reading'.obs :
           reading'.obs[i].closed \/ FromRow(reading'.obs[i], tcp[reading'.obs[i].key], clock + 1)
  BY PollReads
<1>2. Thin(proofs', proofs) /\ Thin(events', events) /\ proofs' \in Seq(ProofRec) /\ events' \in Seq(EventRec)
  BY <1>0, ThinSame, ThinEmpty
<1>3. Settled
  <2>1. clock' \in Nat /\ clock <= clock'
    BY <1>1
  <2>. QED
    BY <1>1, <1>2, <2>1 DEF Settled
<1>4. KeptNow
  BY KeptStays
<1>5. OK(tracker', proofs', events', kept')
  <2>1. Sub(proofs, proofs) /\ Sub(events', events)
    BY <1>2 DEF Sub, Thin
  <2>2. OK(tracker, proofs, events', kept)
    BY <2>1, FewerOK
  <2>. QED
    BY <2>2
<1>6. Reads
  <2>1. ASSUME NEW i \in DOMAIN reading'.obs, ~reading'.obs[i].closed
        PROVE  /\ Up(reading'.obs[i].created)
               /\ \A b \in DOMAIN kept' : b[1] = reading'.obs[i].created => b[3] < CountAt(reading'.obs[i], b[2])
    <3>1. PICK s : s = reading'.obs[i]
      OBVIOUS
    <3>2. Up(s.created) /\ CountAt(s, "rx") = flows[s.created].rx /\ CountAt(s, "tx") = flows[s.created].tx
      BY <1>1, <2>1, <3>1, PollSees
    <3>3. ASSUME NEW b \in DOMAIN kept', b[1] = s.created PROVE b[3] < CountAt(s, b[2])
      <4>1. b \in Slice
        BY <1>0, <3>3, PartialElim
      <4>2. b[2] \in Dirs
        BY <4>1 DEF Slice
      <4>3. b[3] < flows[s.created][b[2]]
        BY <3>3 DEF KernelInv, KeptOK
      <4>. QED
        BY <3>2, <4>2, <4>3 DEF Dirs
    <3>. QED
      BY <3>1, <3>2, <3>3
  <2>. QED
    BY <2>1 DEF Reads
<1>7. ReadingOK'
  <2>1. SUFFICES ASSUME NEW i \in DOMAIN reading'.obs, NEW s, s = reading'.obs[i], ~s.closed, NEW M, M = s.created
                 PROVE  /\ s.begin = s.end /\ 0 < s.end /\ s.end <= clock' /\ M \in DOMAIN flows' /\ flows'[M].key = s.key
                        /\ \A j \in DOMAIN reading'.obs : ~reading'.obs[j].closed => reading'.obs[j].begin = s.begin
                        /\ CountAt(s, "rx") <= flows'[M].rx /\ CountAt(s, "tx") <= flows'[M].tx /\ CountAt(s, "tx") >= 0
                        /\ s.rcvNext \in {ReceiveOrigin + s.truth.rx, ReceiveOrigin + s.truth.rx + 1}
                        /\ \A N \in DOMAIN flows' : Follows(M, N)' => s.end < N
                        /\ \A j \in DOMAIN events' :
                             events'[j].life = M /\ Data(events'[j]) /\ events'[j].at >= CountAt(s, events'[j].kind) =>
                               events'[j].time > s.begin
    BY DEF ReadingOK, CountAt, Data
  <2>2. /\ Up(M) /\ M \in DOMAIN flows /\ flows[M].key = s.key /\ s.begin = clock + 1 /\ s.end = clock + 1
        /\ s.rcvNext \in {ReceiveOrigin + s.truth.rx, ReceiveOrigin + s.truth.rx + 1}
        /\ CountAt(s, "rx") = flows[M].rx /\ CountAt(s, "tx") = flows[M].tx
        /\ flows[M].rx \in Nat /\ flows[M].tx \in Nat
    BY <1>1, <2>1, PollSees
  <2>3. s.begin = s.end /\ 0 < s.end /\ s.end <= clock'
    BY <1>1, <2>2
  <2>4. M \in DOMAIN flows' /\ flows'[M].key = s.key /\ flows'[M].rx = flows[M].rx /\ flows'[M].tx = flows[M].tx
    BY <2>2
  <2>5. CountAt(s, "rx") <= flows'[M].rx /\ CountAt(s, "tx") <= flows'[M].tx /\ CountAt(s, "tx") >= 0
    BY <2>2, <2>4
  <2>6. \A j \in DOMAIN reading'.obs : ~reading'.obs[j].closed => reading'.obs[j].begin = s.begin
    BY <1>1, <2>2 DEF FromRow
  <2>7. \A N \in DOMAIN flows' : Follows(M, N)' => s.end < N
    BY <2>2 DEF KernelInv, Apart, Follows
  <2>8. ASSUME NEW j \in DOMAIN events', events'[j].life = M, Data(events'[j])
        PROVE  ~(events'[j].at >= CountAt(s, events'[j].kind))
    <3>1. PICK a \in DOMAIN events : events'[j] = events[a]
      BY <1>2 DEF Thin
    <3>2. PICK e : e = events[a]
      OBVIOUS
    <3>3. e \in EventRec /\ (Data(e) => e.at < flows[e.life][e.kind])
      <4>1. e \in EventRec
        BY <3>2 DEF KernelInv, EventsOK
      <4>2. Data(e) => e.at < flows[e.life][e.kind]
        BY <3>2 DEF KernelInv, EventsOK
      <4>. QED
        BY <4>1, <4>2
    <3>4. e.at \in Nat /\ e.kind \in Dirs /\ e.at < flows[M][e.kind]
      BY <2>8, <3>1, <3>2, <3>3 DEF EventRec, Data
    <3>5. CountAt(s, e.kind) = flows[M][e.kind] /\ flows[M][e.kind] \in Nat
      BY <2>2, <3>4 DEF Dirs
    <3>6. ~(e.at >= CountAt(s, e.kind))
      BY <3>4, <3>5
    <3>. QED
      BY <3>1, <3>2, <3>6
  <2>. QED
    BY <2>2, <2>3, <2>4, <2>5, <2>6, <2>7, <2>8
<1>8. KernelInv'
  BY <1>3, <1>4, <1>7, SettledOK
<1>. QED
  BY <1>0, <1>3, <1>5, <1>6, <1>8, CarryOK

LEMMA PollStepOK ==
  ASSUME CollectorInv, CollectorInv', KernelInv, OK(tracker, proofs, events, kept), PollEStats \/ BeginStop
  PROVE  (KernelInv /\ TrackerOK(tracker) /\ Joint(tracker, proofs, events, kept))'
<1>1. CASE PollEStats
  <2>1. PICK sample \in BOOLEAN, wait \in BOOLEAN, fault \in Faults : PollNow(sample, wait, fault)
    BY <1>1 DEF PollEStats
  <2>2. UNCHANGED <<flows, proofs, events, tracker, kept, plan>> /\ flows \in Partial(Nat, FlowRec)
    BY <1>1 DEF PollEStats, KernelInv, FlowsOK
  <2>. QED
    BY <2>1, <2>2, PolledOK
<1>2. CASE BeginStop
  <2>1. PICK fault \in {"none", "table", "read"} : PollNow(TRUE, FALSE, fault)
    BY <1>2 DEF BeginStop
  <2>2. /\ UNCHANGED <<proofs, tracker, kept, plan>> /\ events' = << >>
        /\ flows' = [life \in DOMAIN flows |-> [flows[life] EXCEPT !.due = @ \ Undelivered(life)]]
    BY <1>2 DEF BeginStop
  <2>3. flows \in Partial(Nat, FlowRec)
    BY DEF KernelInv, FlowsOK
  <2>4. ASSUME NEW M \in DOMAIN flows
        PROVE  /\ flows'[M] \in FlowRec /\ flows'[M].key = flows[M].key /\ flows'[M].tcb = flows[M].tcb
               /\ flows'[M].rx = flows[M].rx /\ flows'[M].tx = flows[M].tx /\ flows'[M].room = flows[M].room
    <3>1. flows[M] \in FlowRec
      BY <2>3, PartialElim
    <3>2. flows'[M] = [flows[M] EXCEPT !.due = @ \ Undelivered(M)]
      BY <2>2
    <3>3. flows[M].due \ Undelivered(M) \in SUBSET Slice
      BY <3>1 DEF FlowRec
    <3>. QED
      BY <3>1, <3>2, <3>3 DEF FlowRec
  <2>5. DOMAIN flows' = DOMAIN flows /\ flows' \in Partial(Nat, FlowRec)
    <3>1. flows' \in [DOMAIN flows -> FlowRec] /\ DOMAIN flows' = DOMAIN flows
      BY <2>2, <2>4
    <3>2. DOMAIN flows \in SUBSET Nat
      BY <2>3, PartialElim
    <3>. QED
      BY <3>1, <3>2 DEF Partial
  <2>. QED
    BY <2>1, <2>2, <2>4, <2>5, PolledOK
<1>. QED
  BY <1>1, <1>2

-----------------------------------------------------------------------------
(* The invariant of the whole: it holds at the start, every step keeps it, *)
(* and no byte is counted twice where it does.                             *)
LEMMA NoTrackerOK == NoTracker \in Tracker /\ OK(NoTracker, << >>, << >>, EmptyBag)
<1>1. ASSUME NEW D, NEW R PROVE << >> \in Partial(D, R) /\ DOMAIN << >> = {}
  <2>1. << >> \in [{} -> R] /\ DOMAIN << >> = {}
    OBVIOUS
  <2>. QED
    BY <2>1 DEF Partial
<1>2. EmptyBag = << >>
  <2>1. DOMAIN EmptyBag = {} /\ EmptyBag = [x \in {} |-> 1]
    BY DEF EmptyBag, SetToBag
  <2>. QED
    BY <2>1
<1>3. PICK t : t = NoTracker
  OBVIOUS
<1>4. /\ t.conn = << >> /\ t.alias = << >> /\ t.window = {} /\ t.legacy = << >> /\ t.paid = << >>
      /\ t.mistaken = {}
  BY <1>2, <1>3 DEF NoTracker
<1>5. t \in Tracker
  <2>1. << >> \in Partial(Tcb, ConnRec) /\ << >> \in Partial(Key, Tcb) /\ << >> \in Partial(Key, Marker)
        /\ << >> \in Partial(Slice, {1})
    BY <1>1
  <2>. QED
    BY <1>2, <1>3, <2>1 DEF NoTracker, Tracker
<1>6. DOMAIN t.conn = {} /\ DOMAIN t.alias = {} /\ DOMAIN t.legacy = {} /\ DOMAIN t.paid = {}
  BY <1>1, <1>4
<1>7. TrackerOK(t)
  BY <1>4, <1>5, <1>6, FS_EmptySet DEF TrackerOK
<1>8. Claimed(t) = {}
  BY <1>6 DEF Claimed
<1>9. \A s \in {<< >>} : DOMAIN s = {}
  BY <1>1
<1>10. Joint(t, << >>, << >>, << >>)
  BY <1>6, <1>8, <1>9 DEF Joint, ConnsOK, Connects, GuardOK, BelowPrefix, OriginsOK, MarkersOK, ProbesOK, TotalsOK
<1>. QED
  BY <1>1, <1>2, <1>3, <1>5, <1>7, <1>10 DEF OK

LEMMA TcpInit ==
  ASSUME Init
  PROVE  TcpInv
<1>1. CollectorInv
  BY CollectorInit
<1>2. /\ clock = 0 /\ tcp = [k \in Key |-> NoTcp] /\ flows = << >> /\ proofs = << >> /\ events = << >>
      /\ tracker = NoTracker /\ reading = NoReading /\ kept = EmptyBag /\ plan \in Plans
  BY DEF Init
<1>3. ASSUME NEW D, NEW R PROVE << >> \in Partial(D, R) /\ << >> \in Seq(R) /\ DOMAIN << >> = {}
  <2>1. << >> \in [{} -> R] /\ DOMAIN << >> = {}
    OBVIOUS
  <2>. QED
    BY <2>1 DEF Partial
<1>4. OK(tracker, proofs, events, kept)
  BY <1>2, NoTrackerOK
<1>5. flows \in Partial(Nat, FlowRec) /\ proofs \in Seq(ProofRec) /\ events \in Seq(EventRec)
      /\ DOMAIN flows = {} /\ DOMAIN proofs = {} /\ DOMAIN events = {} /\ DOMAIN reading.obs = {}
  BY <1>2, <1>3 DEF NoReading
<1>6. \A k \in Key : ~tcp[k].up
  BY <1>2 DEF NoTcp
<1>7. FlowsOK
  BY <1>2, <1>5, <1>6, FS_EmptySet DEF FlowsOK
<1>8. Apart /\ ProofsOK /\ EventsOK /\ ReadingOK
  BY <1>5 DEF Apart, ProofsOK, EventsOK, ReadingOK
<1>9. KeptOK
  <2>1. kept \in Partial(Slice, {1})
    BY <1>4 DEF OK
  <2>2. DOMAIN kept = {}
    BY <1>2 DEF EmptyBag, SetToBag
  <2>. QED
    BY <2>1, <2>2 DEF KeptOK
<1>. QED
  BY <1>1, <1>2, <1>4, <1>7, <1>8, <1>9 DEF TcpInv, KernelInv, OK

LEMMA TcpNext ==
  ASSUME TcpInv, ShortLives, [Next]_vars
  PROVE  TcpInv'
<1>1. CollectorInv /\ KernelInv /\ OK(tracker, proofs, events, kept) /\ (phase = "off" => tracker = NoTracker)
  BY DEF TcpInv, KernelInv, KeptOK, OK
<1>2. CollectorInv'
  BY <1>1, CollectorNext
<1>3. CASE Kernel
  <2>1. KernelInv' /\ Joint(tracker, proofs, events, kept)' /\ tracker' = tracker
    BY <1>1, <1>3, KernelOK
  <2>2. phase' = phase
    <3>1. ASSUME NEW k \in Key, NEW x \in Tcb, Open(k, x) PROVE phase' = phase
      BY <3>1 DEF Open, UNCHANGEDRest
    <3>2. ASSUME NEW k \in Key, Receive(k) \/ Send(k) \/ Ack(k) \/ Retransmit(k) \/ PeerFin(k) \/ Close(k)
          PROVE  phase' = phase
      BY <3>2 DEF Receive, Send, Ack, Retransmit, PeerFin, Close, UNCHANGEDRest
    <3>3. ASSUME NEW k \in Key, NEW on \in BOOLEAN, Foreign(k, on) PROVE phase' = phase
      BY <3>3 DEF Foreign, UNCHANGEDRest
    <3>. QED
      BY <1>3, <3>1, <3>2, <3>3, Zenon DEF Kernel
  <2>3. TrackerOK(tracker')
    BY <1>1, <2>1 DEF OK
  <2>. QED
    BY <1>1, <1>2, <2>1, <2>2, <2>3 DEF TcpInv
<1>4. CASE Callbacks
  <2>1. (KernelInv /\ TrackerOK(tracker) /\ Joint(tracker, proofs, events, kept))'
    BY <1>1, <1>2, <1>4, ProofStepOK, DeliverEventOK, LoseEventOK DEF Callbacks
  <2>2. phase' = phase /\ phase # "off"
    BY <1>4 DEF Callbacks, DeliverProof, LoseProof, DeliverEvent, LoseEvent, Capturing
  <2>. QED
    BY <1>2, <2>1, <2>2 DEF TcpInv
<1>5. CASE Hybrid
  <2>1. (KernelInv /\ TrackerOK(tracker) /\ Joint(tracker, proofs, events, kept))'
    BY <1>1, <1>2, <1>5, PollStepOK, WorkStepOK, LastStepsOK DEF Hybrid, Releasing
  <2>2. phase' # "off"
    BY <1>5 DEF Hybrid, Start, PollEStats, Work, BeginStop, LastSamples, LastLook, Release, EndStop
  <2>. QED
    BY <1>2, <2>1, <2>2 DEF TcpInv
<1>6. CASE UNCHANGED vars
  <2>1. UNCHANGED <<clock, tcp, flows, proofs, events, tracker, reading, kept, plan, phase>>
    BY <1>6 DEF vars
  <2>2. /\ tcp \in [Key -> Row] /\ tcp' \in [Key -> Row] /\ clock \in Nat /\ clock <= clock'
        /\ FlowsOK /\ flows \in Partial(Nat, FlowRec)
    BY <1>1, <1>2, <2>1 DEF CollectorInv, TcpOK, KernelInv, FlowsOK
  <2>3. Thin(proofs', proofs) /\ proofs' \in Seq(ProofRec) /\ Thin(events', events) /\ events' \in Seq(EventRec)
    BY <1>1, <2>1, ThinSame DEF KernelInv, ProofsOK, EventsOK
  <2>4. KeptNow
    BY <1>1, <2>1, KeptStays
  <2>5. OK(tracker', proofs', events', kept')
    BY <1>1, <2>1
  <2>6. (KernelInv /\ TrackerOK(tracker) /\ Joint(tracker, proofs, events, kept))'
    BY <1>1, <1>2, <2>1, <2>3, <2>4, <2>5, CalmOK
  <2>. QED
    BY <1>1, <1>2, <2>1, <2>6 DEF TcpInv
<1>. QED
  BY <1>3, <1>4, <1>5, <1>6 DEF Next

\* The two accounts of a life hold each byte once, and no byte is in both.
LEMMA TcpSafe ==
  ASSUME TcpInv
  PROVE  NeverTwice
<1>1. /\ kept \in Partial(Slice, {1}) /\ tracker.paid \in Partial(Slice, {1})
      /\ \A b \in DOMAIN kept : b[1] \notin tracker.mistaken => b \notin DOMAIN tracker.paid
  BY DEF TcpInv, KernelInv, KeptOK, TrackerOK, Tracker, Joint, BelowPrefix
<1>2. /\ \A b \in DOMAIN kept : kept[b] = 1
      /\ \A b \in DOMAIN tracker.paid : tracker.paid[b] = 1
  BY <1>1, PartialElim
<1>3. PICK p : p = tracker.paid
  OBVIOUS
<1>4. Credited = [e \in (DOMAIN kept) \cup (DOMAIN p) |->
                    (IF e \in DOMAIN kept THEN kept[e] ELSE 0) + (IF e \in DOMAIN p THEN p[e] ELSE 0)]
  BY <1>3 DEF Credited, (+)
<1>. QED
  BY <1>1, <1>2, <1>3, <1>4 DEF NeverTwice

(***************************************************************************)
(* No byte of a connection is counted twice, whatever is lost, delayed or  *)
(* overtaken, however often the key and the control block are used again,  *)
(* and whenever the tracker switches, expires or stops; the lives that     *)
(* were switched on the prefix of another one are excepted.                *)
(***************************************************************************)
THEOREM NeverTwiceHolds ==
  ASSUME ShortLives
  PROVE  Spec => []NeverTwice
<1>1. Init => TcpInv
  BY TcpInit
<1>2. TcpInv /\ [Next]_vars => TcpInv'
  BY TcpNext
<1>3. TcpInv => NeverTwice
  BY TcpSafe
<1>. QED
  BY <1>1, <1>2, <1>3, PTL DEF Spec
=============================================================================
