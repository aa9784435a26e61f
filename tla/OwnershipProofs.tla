-------------------------- MODULE OwnershipProofs --------------------------
(***************************************************************************)
(* Proofs about Ownership, for any number of connections, events,          *)
(* processes and losses and any capacity: an interval with a loss is       *)
(* published with a marker, bytes are in one place until they are          *)
(* accounted for once, and no process is given bytes of one before it.     *)
(***************************************************************************)
EXTENDS Ownership, FiniteSetTheorems, SequenceTheorems, TLAPS

-----------------------------------------------------------------------------
(* Losses: a loss after the end of an interval has been taken is still     *)
(* unread when the counters are read; one before it is unread until then,  *)
(* or has left its mark on the interval after it.                          *)
LossInv ==
    /\ pc \in {"wait", "query", "account", "diagnose", "record"}
    /\ unmarked \subseteq {"open", "closing"}
    /\ "open" \in unmarked =>
         CASE pc = "wait"   -> unread \/ incomplete
           [] pc = "record" -> unread \/ current # "same"
           [] OTHER         -> unread
    /\ "closing" \in unmarked =>
         IF pc = "record" THEN incomplete \/ current # "same" ELSE unread \/ incomplete

(* The start, and every step, keep LossInv.                                *)
LEMMA LossStart == Init => LossInv
BY DEF Init, LossInv

LEMMA LossStep == LossInv /\ [Next]_vars => LossInv'
<1> SUFFICES ASSUME LossInv, [Next]_vars PROVE LossInv'
  OBVIOUS
<1> USE DEF LossInv, processes, session, ownership, health, control, ghosts
<1>1. CASE Begin \/ End \/ Pass \/ OnEvent \/ UNCHANGED vars
  BY <1>1 DEF Begin, End, Pass, OnEvent, vars
<1>7. ASSUME NEW k \in Keys, NEW kind \in Kinds, Cause(k, kind) PROVE LossInv'
  BY <1>7 DEF Cause
<1>2. CASE Lose
  BY <1>2 DEF Lose
<1>3. CASE Take
  BY <1>3 DEF Take
<1>4. CASE QueryOwner \/ ProcessRaw
  BY <1>4 DEF QueryOwner, ProcessRaw
<1>5. CASE GetDiagnostics
  BY <1>5 DEF GetDiagnostics
<1>6. CASE RecordCaptureHealth
  BY <1>6 DEF RecordCaptureHealth, Marked
<1>. QED
  BY <1>1, <1>2, <1>3, <1>4, <1>5, <1>6, <1>7 DEF Next

(* The interval that closes is marked by the recording that follows.       *)
LEMMA RecordedOnce == LossInv /\ [Next]_vars => (pc = "record" /\ pc' = "wait" => "closing" \notin unmarked')
BY DEF LossInv, Next, vars, processes, session, ownership, health, control, ghosts,
       Begin, End, Pass, OnEvent, Cause, Lose, Take, QueryOwner, ProcessRaw, GetDiagnostics,
       RecordCaptureHealth, Marked

(* An interval in which the session lost an event is published marked, for *)
(* any number of losses and of failing questions to the session, wherever  *)
(* between the steps of Run they fall.                                     *)
THEOREM MarksEveryLoss == Spec => LossMarked
<1>. QED
  BY LossStart, LossStep, RecordedOnce, PTL DEF Spec, LossMarked

-----------------------------------------------------------------------------
(* Where bytes are.  An entry of m_raw, or of the batch made of it, is no  *)
(* later than its bytes.                                                   *)
Message == [id : Nat, key : Keys, kind : Kinds, at : Nat, conn : Nat]
EntrySet == [first : Nat, conn : Nat, mixed : BOOLEAN, opened : BOOLEAN, closed : BOOLEAN,
             bytes : SUBSET Nat]
Owner == [created : Nat, path : BOOLEAN]
Flow == [owner : Owner, conn : Nat]

Seen(b) == b \in 1 .. Len(events) /\ events[b].bytes

Entered(table) ==
    /\ DOMAIN table \subseteq Keys \cup {0}
    /\ \A k \in DOMAIN table :
          /\ table[k] \in EntrySet
          /\ table[k].first \in 1 .. started
          /\ \A b \in table[k].bytes : Seen(b) /\ table[k].first <= events[b].by

Sent ==
    /\ stream \in Seq(Message)
    /\ \A i \in 1 .. Len(stream) :
          /\ stream[i].id \in 1 .. Len(events)
          /\ stream[i].at \in 1 .. started
          /\ stream[i].at = events[stream[i].id].by
          /\ (stream[i].kind = "data") = events[stream[i].id].bytes
    /\ \A i, j \in 1 .. Len(stream) :
          i < j => stream[i].id < stream[j].id /\ stream[i].at <= stream[j].at

\* What is in the batch happened before what is in m_raw, and that before what is to come.
InOrderInv ==
    /\ \A k \in DOMAIN raw, i \in 1 .. Len(stream) : raw[k].first <= stream[i].at
    /\ \A k \in DOMAIN taken, i \in 1 .. Len(stream) : taken[k].first <= stream[i].at
    /\ \A k \in DOMAIN taken, j \in DOMAIN raw : taken[k].first <= raw[j].first

PlaceInv ==
    /\ started \in Nat /\ process \in {0, started}
    /\ events \in Seq([by : Nat, bytes : BOOLEAN])
    /\ \A b \in 1 .. Len(events) : events[b].by <= started
    /\ Sent /\ Entered(raw) /\ Entered(taken)
    /\ InOrderInv

(* The start, and each action, keep PlaceInv.                              *)
LEMMA PlaceStart == Init => PlaceInv
BY DEF Init, PlaceInv, Sent, Entered, InOrderInv

(* The process of each byte has existed.                                   *)
LEMMA Dated ==
  ASSUME PlaceInv
  PROVE  \A b \in 1 .. Len(events) : events[b].by \in Nat /\ events[b].by <= started
<1>1. events \in Seq([by : Nat, bytes : BOOLEAN])
  BY DEF PlaceInv
<1>2. \A b \in 1 .. Len(events) : events[b] \in [by : Nat, bytes : BOOLEAN]
  BY <1>1, ElementOfSeq
<1>. QED
  BY <1>2 DEF PlaceInv

LEMMA WindowsPlaces ==
  ASSUME PlaceInv, Begin \/ End PROVE PlaceInv'
<1>1. /\ UNCHANGED <<events, stream, raw, taken>>
      /\ started' \in Nat /\ started <= started' /\ process' \in {0, started'}
  BY DEF PlaceInv, Begin, End, ownership, ghosts
<1>2. Sent'
  BY <1>1 DEF PlaceInv, Sent
<1>3. Entered(raw)' /\ Entered(taken)'
  BY <1>1 DEF PlaceInv, Entered, Seen
<1>4. \A b \in 1 .. Len(events) : events[b].by \in Nat /\ events[b].by <= started
  BY Dated
<1>5. \A b \in 1 .. Len(events) : events[b].by <= started'
  BY <1>1, <1>4 DEF PlaceInv
<1>. QED
  BY <1>1, <1>2, <1>3, <1>5 DEF PlaceInv, InOrderInv

LEMMA OtherPlaces ==
  ASSUME PlaceInv,
         UNCHANGED <<processes, events, stream, raw>>,
         taken' = taken \/ taken' = << >>
  PROVE  PlaceInv'
BY DEF PlaceInv, Sent, Entered, Seen, InOrderInv, processes

LEMMA CausePlaces ==
  ASSUME NEW k \in Keys, NEW kind \in Kinds, PlaceInv, Cause(k, kind)
  PROVE  PlaceInv'
<1> DEFINE c == [by |-> process, bytes |-> kind = "data"]
           m == [id |-> Len(events) + 1, key |-> k, kind |-> kind,
                 at |-> started, conn |-> IF k \in Numbered THEN process ELSE 0]
<1>1. /\ events' = Append(events, c) /\ stream' = Append(stream, m)
      /\ UNCHANGED <<started, process, raw, taken>>
      /\ process = started /\ started \in Nat \ {0}
  BY DEF Cause, PlaceInv, processes, session, ownership
<1>2. c \in [by : Nat, bytes : BOOLEAN] /\ m \in Message
  BY <1>1, OwnershipAssumption DEF PlaceInv, Message
<1>3. /\ events' \in Seq([by : Nat, bytes : BOOLEAN]) /\ Len(events') = Len(events) + 1
      /\ events'[Len(events) + 1] = c
      /\ \A b \in 1 .. Len(events) : events'[b] = events[b]
  BY <1>1, <1>2 DEF PlaceInv
<1>4. /\ stream' \in Seq(Message) /\ Len(stream') = Len(stream) + 1
      /\ stream'[Len(stream) + 1] = m
      /\ \A i \in 1 .. Len(stream) : stream'[i] = stream[i]
  BY <1>1, <1>2 DEF PlaceInv, Sent
<1>5. Sent'
  BY <1>1, <1>3, <1>4 DEF PlaceInv, Sent
<1>6. Entered(raw)' /\ Entered(taken)'
  BY <1>1, <1>3 DEF PlaceInv, Entered, Seen
<1>7. InOrderInv'
  BY <1>1, <1>4 DEF PlaceInv, InOrderInv, Entered
<1>. QED
  BY <1>1, <1>3, <1>5, <1>6, <1>7 DEF PlaceInv

(* An event arrives: its entry is no later than it and loses no bytes.     *)
LEMMA EntryAfter ==
  ASSUME NEW e \in Message, NEW entry \in EntrySet, e.at >= 1,
         entry.first # 0 => entry.first <= e.at
  PROVE  LET after == WithEvent(e, entry)
         IN  /\ after \in EntrySet
             /\ after.first = IF entry.first = 0 THEN e.at ELSE entry.first
             /\ after.bytes = entry.bytes \cup (IF e.kind = "data" THEN {e.id} ELSE {})
BY DEF WithEvent, Earlier, Message, EntrySet

LEMMA Arrival ==
  ASSUME PlaceInv, OnEvent
  PROVE  \E k \in Keys \cup {0} :
           LET e == stream[1]
               entry == IF k \in DOMAIN raw THEN raw[k] ELSE Entry
           IN  /\ e \in Message /\ entry \in EntrySet
               /\ DOMAIN raw' = {k} \cup DOMAIN raw
               /\ raw'[k] = WithEvent(e, entry)
               /\ \A x \in DOMAIN raw \ {k} : raw'[x] = raw[x]
<1>1. stream # << >> /\ stream[1] \in Message /\ stream[1] = Head(stream)
  BY DEF PlaceInv, Sent, OnEvent
<1>2. PICK k \in Keys \cup {0} : Stored(stream[1].key) = {k}
  BY <1>1 DEF Stored, Message
<1>3. raw' = [x \in {k} \cup DOMAIN raw |->
                IF x \in {k} THEN WithEvent(stream[1], At(raw, x, Entry)) ELSE raw[x]]
  BY <1>1, <1>2 DEF OnEvent
<1>4. Entry \in EntrySet
  BY DEF Entry, EntrySet
<1>5. \A x \in DOMAIN raw : raw[x] \in EntrySet
  BY DEF PlaceInv, Entered
<1>. QED
  BY <1>1, <1>3, <1>4, <1>5 DEF At

(* What waits after the event that arrives.                                *)
LEMMA Waiting ==
  ASSUME PlaceInv, OnEvent
  PROVE  /\ Len(stream) >= 1 /\ stream' \in Seq(Message) /\ Len(stream') = Len(stream) - 1
         /\ \A i \in 1 .. Len(stream') : stream'[i] = stream[i + 1]
         /\ UNCHANGED <<started, process, events, taken>>
BY DEF PlaceInv, Sent, OnEvent, processes, ghosts

(* An event that arrives belongs to the entry it is put into.              *)
LEMMA EventPlaces ==
  ASSUME PlaceInv, OnEvent PROVE PlaceInv'
<1> DEFINE e == stream[1]
<1>1. PICK k \in Keys \cup {0} :
        /\ e \in Message /\ (IF k \in DOMAIN raw THEN raw[k] ELSE Entry) \in EntrySet
        /\ DOMAIN raw' = {k} \cup DOMAIN raw
        /\ raw'[k] = WithEvent(e, IF k \in DOMAIN raw THEN raw[k] ELSE Entry)
        /\ \A x \in DOMAIN raw \ {k} : raw'[x] = raw[x]
  BY Arrival
<1> DEFINE entry == IF k \in DOMAIN raw THEN raw[k] ELSE Entry
<1>2. /\ e.at \in 1 .. started /\ e.id \in 1 .. Len(events) /\ events[e.id].by = e.at
      /\ (e.kind = "data") = events[e.id].bytes
      /\ started \in Nat
  BY Waiting DEF PlaceInv, Sent
<1>3. /\ k \in DOMAIN raw => /\ entry.first \in 1 .. started /\ entry.first <= e.at
                             /\ \A b \in entry.bytes : Seen(b) /\ entry.first <= events[b].by
      /\ k \notin DOMAIN raw => entry.first = 0 /\ entry.bytes = {}
  BY Waiting DEF PlaceInv, InOrderInv, Entered, Entry
<1> HIDE DEF entry
<1>10. entry \in EntrySet
  BY <1>1 DEF entry
<1>4. /\ raw'[k] \in EntrySet
      /\ raw'[k].first = IF entry.first = 0 THEN e.at ELSE entry.first
      /\ raw'[k].bytes = entry.bytes \cup (IF e.kind = "data" THEN {e.id} ELSE {})
  BY <1>1, <1>2, <1>3, <1>10, EntryAfter DEF entry
<1>5. /\ raw'[k].first \in 1 .. started /\ raw'[k].first <= e.at
      /\ \A b \in raw'[k].bytes : Seen(b) /\ raw'[k].first <= events[b].by
  <2>1. entry.first \in Nat
    BY <1>10 DEF EntrySet
  <2>2. entry.first \in Nat /\ entry.first # 0 => entry.first \in 1 .. started /\ entry.first <= e.at
    BY <1>3, <2>1
  <2>3. raw'[k].first \in 1 .. started /\ raw'[k].first <= e.at
    BY <1>2, <1>4, <2>1, <2>2
  <2>4. \A b \in entry.bytes : Seen(b) /\ entry.first # 0 /\ entry.first <= events[b].by
    BY <1>3
  <2>5. e.kind = "data" => Seen(e.id)
    BY <1>2 DEF Seen
  <2>. QED
    BY <1>2, <1>4, <2>3, <2>4, <2>5
<1>6. Sent'
  <2>1. \A i \in 1 .. Len(stream') :
          /\ i + 1 \in 1 .. Len(stream) /\ stream'[i] = stream[i + 1]
          /\ UNCHANGED <<started, events>> /\ stream' \in Seq(Message)
    BY Waiting DEF PlaceInv, Sent
  <2>2. \A i \in 1 .. Len(stream') :
          /\ stream'[i].id \in 1 .. Len(events)
          /\ stream'[i].at \in 1 .. started
          /\ stream'[i].at = events[stream'[i].id].by
          /\ (stream'[i].kind = "data") = events[stream'[i].id].bytes
    BY <2>1 DEF PlaceInv, Sent
  <2>3. ASSUME NEW i \in 1 .. Len(stream'), NEW j \in 1 .. Len(stream'), i < j
        PROVE  stream'[i].id < stream'[j].id /\ stream'[i].at <= stream'[j].at
    <3>1. i + 1 < j + 1
      BY <2>3, Waiting
    <3>. QED
      BY <2>1, <3>1 DEF PlaceInv, Sent
  <2>. QED
    BY <2>2, <2>3, Waiting DEF Sent
<1>7. Entered(raw)' /\ Entered(taken)'
  BY <1>1, <1>4, <1>5, Waiting DEF PlaceInv, Entered, Seen
<1>8. /\ \A i \in 1 .. Len(stream') : e.at <= stream'[i].at
      /\ \A j \in DOMAIN taken : taken[j].first <= e.at
      /\ k \in DOMAIN raw => raw'[k].first = raw[k].first
      /\ k \notin DOMAIN raw => raw'[k].first = e.at
  <2>1. Len(stream) \in Nat /\ Len(stream') = Len(stream) - 1 /\ 1 \in 1 .. Len(stream)
    BY Waiting DEF PlaceInv, Sent
  <2>2. ASSUME NEW i \in 1 .. Len(stream') PROVE e.at <= stream'[i].at
    <3>1. i + 1 \in 1 .. Len(stream) /\ 1 < i + 1
      BY <2>1
    <3>2. stream'[i] = stream[i + 1]
      BY Waiting
    <3>3. stream[1].at <= stream[i + 1].at
      BY <2>1, <3>1 DEF PlaceInv, Sent
    <3>. QED
      BY <3>2, <3>3
  <2>3. \A j \in DOMAIN taken : taken[j].first <= e.at
    BY <2>1 DEF PlaceInv, InOrderInv
  <2>4. k \in DOMAIN raw => raw'[k].first = raw[k].first
    <3>1. k \in DOMAIN raw => entry = raw[k] /\ entry.first # 0
      BY <1>2, <1>3 DEF entry
    <3>. QED
      BY <1>4, <3>1
  <2>5. k \notin DOMAIN raw => raw'[k].first = e.at
    BY <1>3, <1>4
  <2>. QED
    BY <2>2, <2>3, <2>4, <2>5
<1>9. InOrderInv'
  <2>1. \A i \in 1 .. Len(stream') : /\ i + 1 \in 1 .. Len(stream) /\ stream'[i] = stream[i + 1]
                                   /\ stream'[i].at \in Nat
    BY Waiting DEF PlaceInv, Sent
  <2>2. ASSUME NEW x \in DOMAIN raw', NEW i \in 1 .. Len(stream') PROVE raw'[x].first <= stream'[i].at
    <3>1. CASE x = k
      BY <1>2, <1>5, <1>8, <2>1, <3>1
    <3>2. CASE x # k
      BY <1>1, <2>1, <3>2 DEF PlaceInv, InOrderInv
    <3>. QED
      BY <3>1, <3>2
  <2>3. \A x \in DOMAIN taken, i \in 1 .. Len(stream') : taken[x].first <= stream'[i].at
    BY <2>1 DEF PlaceInv, InOrderInv
  <2>4. \A x \in DOMAIN taken, j \in DOMAIN raw' : taken[x].first <= raw'[j].first
    BY <1>1, <1>8 DEF PlaceInv, InOrderInv
  <2>. QED
    BY <2>2, <2>3, <2>4, Waiting DEF InOrderInv
<1>. QED
  BY <1>6, <1>7, <1>9, Waiting DEF PlaceInv

LEMMA TakePlaces ==
  ASSUME PlaceInv, Take PROVE PlaceInv'
<1>1. /\ UNCHANGED <<started, process, events, stream>>
      /\ taken' = raw /\ raw' = << >> /\ DOMAIN raw' = {}
  BY DEF Take, processes, ghosts
<1>2. Sent'
  BY <1>1 DEF PlaceInv, Sent
<1>3. Entered(taken)'
  BY <1>1 DEF PlaceInv, Entered, Seen
<1>4. Entered(raw)'
  BY <1>1 DEF Entered
<1>5. InOrderInv'
  BY <1>1 DEF PlaceInv, InOrderInv
<1>. QED
  BY <1>1, <1>2, <1>3, <1>4, <1>5 DEF PlaceInv

LEMMA PlaceStep == PlaceInv /\ [Next]_vars => PlaceInv'
<1> SUFFICES ASSUME PlaceInv, [Next]_vars PROVE PlaceInv'
  OBVIOUS
<1>1. CASE UNCHANGED <<processes, events, stream, raw>> /\ (taken' = taken \/ taken' = << >>)
  BY <1>1, OtherPlaces
<1>2. ASSUME NEW k \in Keys, NEW kind \in Kinds, Cause(k, kind) PROVE PlaceInv'
  BY <1>2, CausePlaces
<1>3. CASE Lose \/ Pass \/ QueryOwner \/ ProcessRaw \/ GetDiagnostics \/ RecordCaptureHealth
           \/ UNCHANGED vars
  BY <1>1, <1>3 DEF Lose, Pass, QueryOwner, ProcessRaw, GetDiagnostics, RecordCaptureHealth, vars,
                   session, ownership, health, control, ghosts
<1>. QED
  BY <1>2, <1>3, WindowsPlaces, EventPlaces, TakePlaces DEF Next

-----------------------------------------------------------------------------
(* Whose bytes they are.  The owner of a flow was created before anything  *)
(* that is still to be accounted for was seen, and the answer to           *)
(* QueryOwner after everything it is used for.                             *)
Earliest(t) ==
    /\ t <= started
    /\ \A i \in 1 .. Len(stream) : t <= stream[i].at
    /\ \A k \in DOMAIN raw : t <= raw[k].first
    /\ \A k \in DOMAIN taken : t <= taken[k].first

OwnersInv ==
    /\ owner \in Owner
    /\ \A k \in DOMAIN flows : flows[k] \in Flow /\ Earliest(flows[k].owner.created)
    /\ 0 \in DOMAIN flows => flows[0].owner = NoOwner
    /\ pc = "account" /\ owner.created # 0 =>
         \A k \in DOMAIN taken : \A b \in taken[k].bytes : events[b].by <= owner.created
    /\ \A c \in credited : c \in (1 .. Len(events)) \X Nat
    /\ NoReusedId

(* Whom the bytes of an entry are given to.                                *)
LEMMA AccountedTo ==
  ASSUME PlaceInv, OwnersInv, pc = "account", NEW k \in DOMAIN taken
  PROVE  /\ FlowNow(k) \in Flow
         /\ FlowNow(k).owner.created <= taken[k].first
         /\ k = 0 => FlowNow(k).owner = NoOwner
         /\ Identity(FlowNow(k).owner) \in Nat
         /\ \A b \in taken[k].bytes :
              /\ b \in 1 .. Len(events)
              /\ Identity(FlowNow(k).owner) <= events[b].by
              /\ \/ Identity(FlowNow(k).owner) \in {0, events[b].by}
                 \/ owner.created = 0
<1> DEFINE found == IF k = 0 THEN NoOwner ELSE owner
           flow  == At(flows, k, NewFlow)
           entry == taken[k]
           cont  == Continued(flow, entry)
<1>1. /\ entry \in EntrySet /\ entry.first \in Nat
      /\ \A b \in entry.bytes : /\ b \in 1 .. Len(events) /\ events[b].by \in Nat
                                /\ entry.first <= events[b].by
  BY Dated DEF PlaceInv, Entered, Seen, EntrySet
<1>2. NoOwner \in Owner /\ NewFlow \in Flow /\ NoOwner.created = 0 /\ ~NoOwner.path
      /\ NewFlow.owner = NoOwner
  BY DEF NoOwner, NewFlow, Owner, Flow
<1>3. /\ flow \in Flow /\ flow.owner.created <= entry.first
      /\ k = 0 => flow.owner = NoOwner
  BY <1>1, <1>2 DEF At, OwnersInv, Earliest
<1>4. /\ cont \in Flow /\ cont.owner.created <= entry.first
      /\ k = 0 => cont.owner = NoOwner
  BY <1>1, <1>2, <1>3 DEF Continued
<1>5. found \in Owner /\ (k = 0 => found = NoOwner) /\ (found = NoOwner \/ found = owner)
  BY <1>2 DEF OwnersInv
<1>6. \A b \in entry.bytes : found.created # 0 => events[b].by <= found.created
  BY <1>2, <1>5 DEF OwnersInv
<1>7. FlowNow(k).owner = OwnerAfter(cont, entry, found) /\ FlowNow(k).conn = entry.conn
      /\ FlowNow(k) = [owner |-> OwnerAfter(cont, entry, found), conn |-> entry.conn]
  BY DEF FlowNow, FlowAfter
<1> HIDE DEF found, flow, entry, cont
<1> DEFINE now == OwnerAfter(cont, entry, found)
<1>8. /\ now \in Owner /\ now.created <= entry.first
      /\ k = 0 => now = NoOwner
      /\ \/ now = NoOwner
         \/ now = found /\ found.created # 0
         \/ now = cont.owner /\ found.created = 0
  BY <1>1, <1>2, <1>4, <1>5 DEF OwnerAfter, Confirmed, Owner, Flow
<1>9. FlowNow(k) \in Flow /\ FlowNow(k).owner = now
  BY <1>1, <1>7, <1>8 DEF Flow, EntrySet
<1> HIDE DEF now
<1>10. Identity(now) \in Nat /\ (Identity(now) = 0 \/ Identity(now) = now.created)
       /\ Identity(now) <= entry.first /\ now.created \in Nat
  BY <1>1, <1>8 DEF Identity, Owner
<1>11. \A b \in entry.bytes : /\ Identity(now) <= events[b].by
                              /\ Identity(now) \in {0, events[b].by} \/ owner.created = 0
  <2> SUFFICES ASSUME NEW b \in entry.bytes
               PROVE  /\ Identity(now) <= events[b].by
                      /\ Identity(now) \in {0, events[b].by} \/ owner.created = 0
    OBVIOUS
  <2>1. Identity(now) <= events[b].by
    BY <1>1, <1>10
  <2>2. CASE now = NoOwner
    BY <1>2, <1>10, <2>1, <2>2
  <2>3. CASE now = found /\ found.created # 0
    BY <1>1, <1>6, <1>10, <2>1, <2>3
  <2>4. CASE now = cont.owner /\ found.created = 0
    <3>1. CASE k = 0
      BY <1>2, <1>8, <2>2, <3>1
    <3>2. CASE k # 0
      BY <2>1, <2>4, <3>2 DEF found
    <3>. QED
      BY <3>1, <3>2
  <2>. QED
    BY <1>8, <2>2, <2>3, <2>4
<1>. QED
  BY <1>1, <1>8, <1>9, <1>10, <1>11 DEF entry

(* The start, and each action, keep OwnersInv.                             *)
LEMMA OwnersStart == Init => OwnersInv
BY DEF Init, OwnersInv, NoReusedId, NoOwner, Owner

(* What is still to be accounted does not become older.                    *)
LEMMA EarliestLater ==
  ASSUME PlaceInv, NEW t, Earliest(t), t \in Nat,
         Begin \/ OnEvent \/ Take \/ \E k \in Keys, kind \in Kinds : Cause(k, kind)
  PROVE  Earliest(t)'
<1>1. CASE Begin
  BY <1>1 DEF PlaceInv, Earliest, Begin, ownership
<1>2. CASE Take
  BY <1>2 DEF Earliest, Take, processes
<1>3. CASE OnEvent
  <2>1. \A i \in 1 .. Len(stream') : i + 1 \in 1 .. Len(stream) /\ stream'[i] = stream[i + 1]
    BY <1>3, Waiting DEF PlaceInv, Sent
  <2>2. PICK k \in Keys \cup {0} :
          /\ DOMAIN raw' = {k} \cup DOMAIN raw
          /\ raw'[k] = WithEvent(stream[1], IF k \in DOMAIN raw THEN raw[k] ELSE Entry)
          /\ \A x \in DOMAIN raw \ {k} : raw'[x] = raw[x]
    BY <1>3, Arrival
  <2>3. raw'[k].first = IF k \in DOMAIN raw THEN Earlier(raw[k].first, stream[1].at)
                                            ELSE Earlier(0, stream[1].at)
    BY <2>2 DEF WithEvent, Entry
  <2>4. t <= stream[1].at /\ (k \in DOMAIN raw => t <= raw[k].first)
    BY <1>3, Waiting DEF Earliest, PlaceInv, Sent
  <2>5. t <= raw'[k].first
    BY <2>3, <2>4 DEF Earlier
  <2>. QED
    BY <1>3, <2>1, <2>2, <2>5, Waiting DEF Earliest
<1>4. ASSUME NEW k \in Keys, NEW kind \in Kinds, Cause(k, kind) PROVE Earliest(t)'
  <2> DEFINE m == [id |-> Len(events) + 1, key |-> k, kind |-> kind,
                   at |-> started, conn |-> IF k \in Numbered THEN process ELSE 0]
  <2>1. stream' = Append(stream, m) /\ m.at = started /\ UNCHANGED <<started, raw, taken>>
    BY <1>4 DEF Cause, processes, ownership
  <2> HIDE DEF m
  <2>2. /\ Len(stream') = Len(stream) + 1 /\ Len(stream) \in Nat
        /\ \A i \in 1 .. Len(stream) : stream'[i] = stream[i]
        /\ stream'[Len(stream) + 1] = m
    BY <2>1 DEF PlaceInv, Sent
  <2>. QED
    BY <2>1, <2>2 DEF Earliest
<1>. QED
  BY <1>1, <1>2, <1>3, <1>4

LEMMA OwnersKept ==
  ASSUME PlaceInv, OwnersInv,
         Begin \/ OnEvent \/ Take \/ \E k \in Keys, kind \in Kinds : Cause(k, kind)
  PROVE  OwnersInv'
<1>1. /\ UNCHANGED <<flows, owner, credited, unanswered>>
      /\ pc' = "account" => pc = "account" /\ taken' = taken
  BY DEF Begin, OnEvent, Take, Cause, processes, session, ownership, health, control, ghosts
<1>2. \A b \in 1 .. Len(events) : b \in 1 .. Len(events') /\ events'[b] = events[b]
  <2>1. UNCHANGED events
        \/ \E c \in [by : Nat, bytes : BOOLEAN] : events' = Append(events, c)
    BY DEF PlaceInv, Begin, OnEvent, Take, Cause, ghosts
  <2>. QED
    BY <2>1 DEF PlaceInv
<1>3. \A k \in DOMAIN flows : flows[k].owner.created \in Nat
  BY DEF OwnersInv, Flow, Owner
<1>4. \A k \in DOMAIN flows : Earliest(flows[k].owner.created)'
  BY <1>1, <1>3, EarliestLater DEF OwnersInv
<1>5. pc' = "account" /\ owner'.created # 0 =>
        \A k \in DOMAIN taken' : \A b \in taken'[k].bytes : events'[b].by <= owner'.created
  BY <1>1, <1>2 DEF OwnersInv, PlaceInv, Entered, Seen
<1>6. \A c \in credited' : c \in (1 .. Len(events')) \X Nat
  BY <1>1, <1>2 DEF OwnersInv
<1>7. NoReusedId'
  BY <1>1, <1>2 DEF OwnersInv, NoReusedId
<1>. QED
  BY <1>1, <1>4, <1>5, <1>6, <1>7 DEF OwnersInv

LEMMA OwnersAsked ==
  ASSUME PlaceInv, OwnersInv, QueryOwner PROVE OwnersInv'
<1>1. UNCHANGED <<flows, credited, unanswered, events, stream, raw, taken, started>>
  BY DEF QueryOwner, processes, ghosts
<1>2. owner' = NoOwner \/ (process # 0 /\ owner' \in [created : {process}, path : BOOLEAN])
  BY DEF QueryOwner
<1>3. owner' \in Owner /\ (owner'.created = 0 \/ owner'.created = started)
  <2>1. CASE owner' = NoOwner
    BY <2>1 DEF Owner, NoOwner
  <2>2. CASE process # 0 /\ owner' \in [created : {process}, path : BOOLEAN]
    BY <2>2 DEF Owner, PlaceInv
  <2>. QED
    BY <1>2, <2>1, <2>2
<1>4. \A k \in DOMAIN taken : \A b \in taken[k].bytes : events[b].by <= started
  BY DEF PlaceInv, Entered, Seen
<1>. QED
  BY <1>1, <1>3, <1>4 DEF OwnersInv, Earliest, NoReusedId

LEMMA OwnersAccount ==
  ASSUME PlaceInv, OwnersInv, ProcessRaw PROVE OwnersInv'
<1>1. /\ UNCHANGED <<events, stream, raw, started>>
      /\ pc = "account" /\ pc' # "account" /\ taken' = << >> /\ owner' = NoOwner
      /\ credited' = credited \cup UNION {Account(k) : k \in DOMAIN taken}
      /\ unanswered' = unanswered \cup Unanswered(DOMAIN taken)
  BY DEF ProcessRaw, processes
<1>2. \A k \in DOMAIN flows' : IF k \in DOMAIN taken THEN flows'[k] = FlowNow(k)
                               ELSE k \in DOMAIN flows /\ flows'[k] = flows[k]
  BY DEF ProcessRaw
<1>3. \A k \in DOMAIN flows' : flows'[k] \in Flow /\ Earliest(flows[k].owner.created)'
  <2> SUFFICES ASSUME NEW k \in DOMAIN flows'
               PROVE  flows'[k] \in Flow /\ Earliest(flows[k].owner.created)'
    OBVIOUS
  <2>1. CASE k \in DOMAIN taken
    <3>1. /\ flows'[k] \in Flow /\ flows'[k].owner.created \in Nat
          /\ flows'[k].owner.created <= taken[k].first /\ taken[k].first \in Nat
      BY <1>1, <1>2, <2>1, AccountedTo DEF Flow, Owner, PlaceInv, Entered, EntrySet
    <3>2. /\ taken[k].first <= started
          /\ \A i \in 1 .. Len(stream) : taken[k].first <= stream[i].at /\ stream[i].at \in Nat
          /\ \A j \in DOMAIN raw : taken[k].first <= raw[j].first /\ raw[j].first \in Nat
      BY <2>1 DEF PlaceInv, InOrderInv, Entered, Sent, EntrySet
    <3>3. started \in Nat
      BY DEF PlaceInv
    <3>. QED
      BY <1>1, <3>1, <3>2, <3>3 DEF Earliest
  <2>2. CASE k \notin DOMAIN taken
    <3>1. flows'[k] = flows[k] /\ k \in DOMAIN flows
      BY <1>2, <2>2
    <3>. QED
      BY <1>1, <3>1 DEF OwnersInv, Earliest
  <2>. QED
    BY <2>1, <2>2
<1>4. 0 \in DOMAIN flows' => flows'[0].owner = NoOwner
  BY <1>1, <1>2, AccountedTo DEF OwnersInv
<1>5. \A c \in credited' \ credited :
        \E k \in DOMAIN taken : \E b \in taken[k].bytes : c = <<b, Identity(FlowNow(k).owner)>>
  BY <1>1 DEF Account
<1>6. \A c \in credited' \ credited :
        /\ c \in (1 .. Len(events)) \X Nat
        /\ c[2] <= events[c[1]].by
        /\ c[2] \in {0, events[c[1]].by} \/ c[1] \in unanswered'
  BY <1>1, <1>5, AccountedTo DEF Unanswered
<1>7. NoReusedId' /\ \A c \in credited' : c \in (1 .. Len(events')) \X Nat
  BY <1>1, <1>6 DEF OwnersInv, NoReusedId
<1>. QED
  <2>1. owner' \in Owner /\ owner'.created = 0
    BY <1>1 DEF NoOwner, Owner
  <2>. QED
    BY <1>1, <1>3, <1>4, <1>7, <2>1 DEF OwnersInv

LEMMA OwnersStep == PlaceInv /\ OwnersInv /\ [Next]_vars => OwnersInv'
<1> SUFFICES ASSUME PlaceInv, OwnersInv, [Next]_vars PROVE OwnersInv'
  OBVIOUS
<1>1. CASE /\ UNCHANGED <<started, stream, ownership, ghosts>>
           /\ pc' = "account" => pc = "account"
  BY <1>1 DEF OwnersInv, Earliest, NoReusedId, ownership, ghosts
<1>2. CASE End \/ Lose \/ GetDiagnostics \/ RecordCaptureHealth \/ UNCHANGED vars
  BY <1>1, <1>2 DEF End, Lose, GetDiagnostics, RecordCaptureHealth, vars, processes, control
<1>3. CASE Pass
  BY <1>3 DEF Pass, OwnersInv, Earliest, NoReusedId, processes, control, ghosts
<1>. QED
  BY <1>2, <1>3, OwnersKept, OwnersAsked, OwnersAccount DEF Next

(* No process is ever accounted bytes that were seen before it existed,    *)
(* and an earlier one only when Windows found none with the id: for any    *)
(* number of processes with one id, however far the worker is behind.      *)
THEOREM BelongsToSeen == Spec => []NoReusedId
<1>1. Init => PlaceInv /\ OwnersInv
  BY PlaceStart, OwnersStart
<1>2. PlaceInv /\ OwnersInv /\ [Next]_vars => (PlaceInv /\ OwnersInv)'
  BY PlaceStep, OwnersStep
<1>3. OwnersInv => NoReusedId
  BY DEF OwnersInv
<1>. QED
  BY <1>1, <1>2, <1>3, PTL DEF Spec

-----------------------------------------------------------------------------
(* Bytes are in one place: on their way, in m_raw, in the batch, or        *)
(* accounted for.                                                          *)
Credits(b) == {c \in credited : c[1] = b}

OnlyIn(S, T, U) == (\E x : S = {x}) /\ T = {} /\ U = {}

OnePlace(b) ==
    IF b \in InStream
    THEN Holding(raw, b) = {} /\ Holding(taken, b) = {} /\ Credits(b) = {}
    ELSE \/ OnlyIn(Holding(raw, b), Holding(taken, b), Credits(b))
         \/ OnlyIn(Holding(taken, b), Credits(b), Holding(raw, b))
         \/ OnlyIn(Credits(b), Holding(raw, b), Holding(taken, b))

OnePlaceInv ==
    /\ \A b \in 1 .. Len(events) : events[b].bytes => OnePlace(b)
    /\ pc \in {"wait", "diagnose", "record"} => taken = << >>
    /\ pc \in {"wait", "query", "account", "diagnose", "record"}

(* A byte with one place is retained once.                                 *)
LEMMA PlacesCounted == OnePlaceInv => Retained
<1> SUFFICES ASSUME OnePlaceInv, NEW b \in 1 .. Len(events), events[b].bytes
             PROVE  1 = Cardinality({b} \cap InStream) + Cardinality(Holding(raw, b))
                          + Cardinality(Holding(taken, b)) + Cardinality(Credits(b))
  BY DEF Retained, Credits
<1>1. Cardinality({}) = 0 /\ \A x : Cardinality({x}) = 1
  BY FS_EmptySet, FS_Singleton
<1>2. OnePlace(b)
  BY DEF OnePlaceInv
<1>3. CASE b \in InStream
  <2>1. {b} \cap InStream = {b}
    BY <1>3
  <2>. QED
    <3>1. Holding(raw, b) = {} /\ Holding(taken, b) = {} /\ Credits(b) = {}
      BY <1>2, <1>3 DEF OnePlace
    <3>2. Cardinality({b} \cap InStream) = 1
      BY <1>1, <2>1
    <3>3. Cardinality(Holding(raw, b)) = 0 /\ Cardinality(Holding(taken, b)) = 0
          /\ Cardinality(Credits(b)) = 0
      BY <1>1, <3>1
    <3>. QED
      BY <3>2, <3>3
<1>4. CASE b \notin InStream
  <2>1. {b} \cap InStream = {}
    BY <1>4
  <2>2. \A S, T, U : OnlyIn(S, T, U) =>
          Cardinality(S) = 1 /\ Cardinality(T) = 0 /\ Cardinality(U) = 0
    BY <1>1 DEF OnlyIn
  <2>. QED
    BY <1>1, <1>2, <1>4, <2>1, <2>2 DEF OnePlace
<1>. QED
  BY <1>3, <1>4

(* The start, and each action, keep OnePlaceInv.                           *)
LEMMA OnePlaceStart == Init => OnePlaceInv
BY DEF Init, OnePlaceInv

LEMMA CauseOnce ==
  ASSUME PlaceInv, OwnersInv, OnePlaceInv, NEW k \in Keys, NEW kind \in Kinds, Cause(k, kind)
  PROVE  OnePlaceInv'
<1> DEFINE c == [by |-> process, bytes |-> kind = "data"]
           m == [id |-> Len(events) + 1, key |-> k, kind |-> kind,
                 at |-> started, conn |-> IF k \in Numbered THEN process ELSE 0]
           n == Len(events) + 1
<1>1. /\ events' = Append(events, c) /\ stream' = Append(stream, m)
      /\ UNCHANGED <<raw, taken, credited, pc>>
  BY DEF Cause, ownership, control
<1>2. m.id = n
  OBVIOUS
<1> HIDE DEF m
<1>3. /\ Len(events) \in Nat /\ Len(events') = n
      /\ \A b \in 1 .. Len(events) : events'[b] = events[b]
  BY <1>1 DEF PlaceInv
<1>4. /\ Len(stream) \in Nat /\ Len(stream') = Len(stream) + 1
      /\ stream'[Len(stream) + 1] = m
      /\ \A i \in 1 .. Len(stream) : stream'[i] = stream[i]
  BY <1>1 DEF PlaceInv, Sent
<1>5. InStream' = InStream \cup {n}
  BY <1>2, <1>4 DEF InStream
<1>6. ASSUME NEW b \in 1 .. Len(events'), events'[b].bytes PROVE OnePlace(b)'
  <2>1. CASE b = n
    <3>1. Holding(raw, b) = {} /\ Holding(taken, b) = {}
      BY <1>3, <2>1 DEF PlaceInv, Entered, Seen, Holding
    <3>2. Credits(b) = {}
      BY <1>3, <2>1 DEF OwnersInv, Credits
    <3>. QED
      BY <1>1, <1>5, <2>1, <3>1, <3>2 DEF OnePlace, Holding, Credits
  <2>2. CASE b # n
    <3>1. b \in 1 .. Len(events) /\ events[b].bytes
      BY <1>3, <1>6, <2>2
    <3>2. OnePlace(b)
      BY <3>1 DEF OnePlaceInv
    <3>. QED
      BY <1>1, <1>5, <2>2, <3>2 DEF OnePlace, Holding, Credits
  <2>. QED
    BY <2>1, <2>2
<1>. QED
  BY <1>1, <1>6 DEF OnePlaceInv

LEMMA ArrivesOnce ==
  ASSUME PlaceInv, OnePlaceInv, OnEvent PROVE OnePlaceInv'
<1> DEFINE e == stream[1]
<1>1. PICK k \in Keys \cup {0} :
        /\ e \in Message /\ (IF k \in DOMAIN raw THEN raw[k] ELSE Entry) \in EntrySet
        /\ DOMAIN raw' = {k} \cup DOMAIN raw
        /\ raw'[k] = WithEvent(e, IF k \in DOMAIN raw THEN raw[k] ELSE Entry)
        /\ \A x \in DOMAIN raw \ {k} : raw'[x] = raw[x]
  BY Arrival
<1> DEFINE entry == IF k \in DOMAIN raw THEN raw[k] ELSE Entry
<1>2. raw'[k].bytes = entry.bytes \cup (IF e.kind = "data" THEN {e.id} ELSE {})
  BY <1>1 DEF WithEvent
<1>3. k \notin DOMAIN raw => entry.bytes = {}
  BY DEF Entry
<1>4. UNCHANGED <<events, taken, credited, pc>>
  BY DEF OnEvent, ghosts, control
<1>5. (e.kind = "data") = events[e.id].bytes /\ e.id \in 1 .. Len(events)
  BY Waiting DEF PlaceInv, Sent
<1>6. \A i \in 1 .. Len(stream') : i + 1 \in 1 .. Len(stream) /\ stream'[i] = stream[i + 1]
  BY Waiting DEF PlaceInv, Sent
<1>7. \A i \in 1 .. Len(stream') : stream'[i].id # e.id
  <2>1. \A i \in 1 .. Len(stream') : 1 < i + 1 /\ 1 \in 1 .. Len(stream)
    BY Waiting DEF PlaceInv, Sent
  <2>2. e.id \in Nat /\ \A i \in 1 .. Len(stream) : 1 < i => e.id < stream[i].id
    <3>1. 1 \in 1 .. Len(stream)
      BY Waiting DEF PlaceInv, Sent
    <3>. QED
      BY <1>1, <3>1 DEF PlaceInv, Sent, Message
  <2>3. \A i \in 1 .. Len(stream') : e.id < stream'[i].id
    BY <1>6, <2>1, <2>2
  <2>. QED
    BY <2>2, <2>3
<1>8. InStream = InStream' \cup {e.id} /\ e.id \notin InStream'
  <2>1. \A i \in 1 .. Len(stream) : i = 1 \/ \E j \in 1 .. Len(stream') : stream[i] = stream'[j]
    <3>1. \A i \in 1 .. Len(stream) : i # 1 => i - 1 \in 1 .. Len(stream') /\ (i - 1) + 1 = i
      BY Waiting DEF PlaceInv, Sent
    <3>. QED
      BY <1>6, <3>1
  <2>2. 1 \in 1 .. Len(stream)
    BY Waiting DEF PlaceInv, Sent
  <2>3. InStream \subseteq InStream' \cup {e.id}
    BY <2>1 DEF InStream
  <2>4. InStream' \cup {e.id} \subseteq InStream
    BY <1>6, <2>2 DEF InStream
  <2>. QED
    BY <1>7, <2>3, <2>4 DEF InStream
<1> HIDE DEF e, entry
<1>9. ASSUME NEW b \in 1 .. Len(events), events[b].bytes PROVE OnePlace(b)'
  <2>1. OnePlace(b) /\ UNCHANGED <<Holding(taken, b), Credits(b)>>
    BY <1>4, <1>9 DEF OnePlaceInv, Holding, Credits
  <2>2. CASE b = e.id
    <3>1. e.kind = "data" /\ b \in InStream /\ b \notin InStream'
      BY <1>5, <1>8, <1>9, <2>2
    <3>2. Holding(raw, b) = {}
      BY <2>1, <3>1 DEF OnePlace
    <3>3. Holding(raw, b)' = {k}
      BY <1>1, <1>2, <2>2, <3>1, <3>2 DEF Holding
    <3>. QED
      BY <2>1, <3>1, <3>3 DEF OnePlace, OnlyIn
  <2>3. CASE b # e.id
    <3>1. b \in InStream' <=> b \in InStream
      BY <1>8, <2>3
    <3>2. Holding(raw, b)' = Holding(raw, b)
      BY <1>1, <1>2, <1>3, <2>3 DEF Holding, entry
    <3>. QED
      BY <2>1, <3>1, <3>2 DEF OnePlace
  <2>. QED
    BY <2>2, <2>3
<1>. QED
  BY <1>4, <1>9 DEF OnePlaceInv

LEMMA TakenOnce ==
  ASSUME OnePlaceInv, Take PROVE OnePlaceInv'
<1>1. /\ UNCHANGED <<events, stream, credited>> /\ pc = "wait" /\ pc' = "query"
      /\ taken' = raw /\ raw' = << >> /\ taken = << >>
  BY DEF OnePlaceInv, Take, ghosts
<1>2. \A b : /\ Holding(taken, b) = {} /\ Holding(raw, b)' = {}
             /\ Holding(taken, b)' = Holding(raw, b)
  BY <1>1 DEF Holding
<1>3. \A b : OnePlace(b) => OnePlace(b)'
  BY <1>1, <1>2 DEF OnePlace, OnlyIn, InStream, Credits
<1>. QED
  BY <1>1, <1>3 DEF OnePlaceInv

LEMMA AccountedOnce ==
  ASSUME OnePlaceInv, ProcessRaw PROVE OnePlaceInv'
<1>1. /\ UNCHANGED <<events, stream, raw>>
      /\ pc' \in {"wait", "diagnose"} /\ taken' = << >>
      /\ credited' = credited \cup UNION {Account(k) : k \in DOMAIN taken}
  BY DEF ProcessRaw
<1>2. \A b : /\ Holding(taken, b)' = {}
             /\ Credits(b)' = Credits(b) \cup {<<b, Identity(FlowNow(k).owner)>> : k \in Holding(taken, b)}
  BY <1>1 DEF Holding, Credits, Account
<1>3. ASSUME NEW b, OnePlace(b) PROVE OnePlace(b)'
  <2>1. Holding(taken, b) = {} => Credits(b)' = Credits(b)
    BY <1>2
  <2>2. CASE Holding(taken, b) = {}
    BY <1>1, <1>2, <1>3, <2>1, <2>2 DEF OnePlace, OnlyIn, InStream, Holding
  <2>3. CASE Holding(taken, b) # {}
    <3>1. PICK k : Holding(taken, b) = {k}
      BY <1>3, <2>3 DEF OnePlace, OnlyIn
    <3>2. Credits(b)' = {<<b, Identity(FlowNow(k).owner)>>}
      BY <1>2, <1>3, <2>3, <3>1 DEF OnePlace, OnlyIn
    <3>. QED
      BY <1>1, <1>2, <1>3, <2>3, <3>2 DEF OnePlace, OnlyIn, InStream, Holding
  <2>. QED
    BY <2>2, <2>3
<1>. QED
  BY <1>1, <1>3 DEF OnePlaceInv

(* Every step keeps OnePlaceInv.                                           *)
LEMMA OnePlaceStep ==
  PlaceInv /\ OwnersInv /\ OnePlaceInv /\ [Next]_vars => OnePlaceInv'
<1> SUFFICES ASSUME PlaceInv, OwnersInv, OnePlaceInv, [Next]_vars PROVE OnePlaceInv'
  OBVIOUS
<1>1. CASE /\ UNCHANGED <<stream, raw, taken, events, credited>>
           /\ \/ pc' = pc
              \/ pc' \in {"account", "query", "record"} /\ (pc' = "record" => pc = "diagnose")
              \/ pc' = "wait" /\ pc = "record"
  <2>1. \A b : OnePlace(b)' <=> OnePlace(b)
    <3>1. \A b : UNCHANGED <<InStream, Holding(raw, b), Holding(taken, b), Credits(b)>>
      BY <1>1 DEF InStream, Holding, Credits
    <3>. QED
      BY <3>1 DEF OnePlace, OnlyIn
  <2>. QED
    BY <1>1, <2>1 DEF OnePlaceInv
<1>2. CASE Begin \/ End \/ Lose \/ Pass \/ QueryOwner \/ GetDiagnostics \/ RecordCaptureHealth
           \/ UNCHANGED vars
  BY <1>1, <1>2 DEF Begin, End, Lose, Pass, QueryOwner, GetDiagnostics, RecordCaptureHealth, vars,
                    processes, session, ownership, control, ghosts
<1>. QED
  BY <1>2, CauseOnce, ArrivesOnce, TakenOnce, AccountedOnce DEF Next

(* Bytes are in exactly one place until they are accounted for, and that   *)
(* happens once: for any number of connections and events, and however     *)
(* small m_raw and m_flows are.                                            *)
THEOREM KeepsBytes == Spec => []Retained
<1>1. Init => PlaceInv /\ OwnersInv /\ OnePlaceInv
  BY PlaceStart, OwnersStart, OnePlaceStart
<1>2. PlaceInv /\ OwnersInv /\ OnePlaceInv /\ [Next]_vars => (PlaceInv /\ OwnersInv /\ OnePlaceInv)'
  BY PlaceStep, OwnersStep, OnePlaceStep
<1>. QED
  BY <1>1, <1>2, PlacesCounted, PTL DEF Spec
=============================================================================
