------------------------------ MODULE Ownership ------------------------------
(***************************************************************************)
(* Whose bytes they are, and which intervals are uncertain: the part of    *)
(* CHybridTrafficCollector that gives the events of the ETW session to     *)
(* processes (HybridTrafficCollector.cpp: OnEvent, ProcessRaw) and marks   *)
(* the intervals in which the session lost events (RecordCaptureHealth).   *)
(*                                                                         *)
(* An event names a process id and endpoints, never a process, and arrives *)
(* some time after it happened.  The worker takes what has arrived, asks   *)
(* Windows which process has the id NOW, and only then accounts for it;    *)
(* meanwhile the process may have ended and another may have its id.  A    *)
(* process is named by the time it was created, 0 stands for none.  All    *)
(* connections here share one process id: it is the one that is reused.    *)
(* Between events of one session the order is kept, as ETW does.           *)
(*                                                                         *)
(* A step is a critical section of m_mutex or one question to Windows.     *)
(* OnEvent is modelled for what the source tracker leaves to it (TcpPaths  *)
(* models the tracker).  An operator ending in _bug is a plausible slip in *)
(* the code of the operator after it; no behaviour uses one.               *)
(***************************************************************************)
EXTENDS Naturals, Sequences, FiniteSets, SequencesExt

CONSTANTS
    Keys,        \* connections, numbered from 1; 0 is the empty key
    Numbered,    \* those whose events carry a connection's number
    Cap,         \* 16384: entries of m_raw and of m_flows
    MaxEvents,   \* bound: events
    MaxProcesses, \* bound: processes that have the id, one after the other
    MaxTroubles  \* bound: losses and failing queries, together

ASSUME OwnershipAssumption ==
    /\ Keys \subseteq Nat \ {0} /\ IsFiniteSet(Keys) /\ Numbered \subseteq Keys
    /\ Cap \in Nat \ {0} /\ MaxEvents \in Nat
    /\ MaxProcesses \in Nat /\ MaxTroubles \in Nat

VARIABLES
    \* Windows and the session.
    started,      \* processes started so far, which is what time is here
    process,      \* the process that has the id, or 0
    stream,       \* events on their way, in order
    unread,       \* has the session lost events since its counters were last read?
    troubles,
    \* The collector.
    raw,          \* m_raw
    flows,        \* m_flows
    idle,         \* those not seen for 60 seconds
    incomplete,   \* m_captureIncomplete
    \* The worker's locals in Run and ProcessRaw.
    pc, odd, taken, owner,
    current,      \* what GetDiagnostics said: "same", "moved", or "error", also when the session has ended
    \* Observation.
    events,       \* of each event, who caused it and whether it carries bytes
    credited,     \* which process each event's bytes were accounted to, 0 for unknown
    unanswered,   \* events accounted for when no process could be found
    unmarked      \* the intervals with a loss that no marker covers: "open" after
                  \* the last `now' of Run, "closing" between m_lastPublish and it

processes == <<started, process>>
session   == <<unread, troubles>>
ownership == <<raw, flows, idle, taken, owner>>
health    == <<incomplete, current, unmarked>>
control   == <<pc, odd>>
ghosts    == <<events, credited, unanswered>>
vars      == <<processes, stream, session, ownership, health, control, ghosts>>

\* What QueryOwner returns: when it was created, and whether its path could be read.
NoOwner == [created |-> 0, path |-> FALSE]
Entry == [first |-> 0, conn |-> 0, mixed |-> FALSE, opened |-> FALSE, closed |-> FALSE, bytes |-> {}]
NewFlow == [owner |-> NoOwner, conn |-> 0]
At(f, k, default) == IF k \in DOMAIN f THEN f[k] ELSE default

\* Start has run; it leaves the first interval uncertain.
Init ==
    /\ started = 0 /\ process = 0 /\ stream = << >> /\ unread = FALSE /\ troubles = 0
    /\ raw = << >> /\ flows = << >> /\ idle = {} /\ taken = << >> /\ owner = NoOwner
    /\ incomplete = TRUE /\ current = "same" /\ unmarked = {}
    /\ pc = "wait" /\ odd = FALSE
    /\ events = << >> /\ credited = {} /\ unanswered = {}

Trouble == troubles < MaxTroubles /\ troubles' = troubles + 1

-----------------------------------------------------------------------------
(* Windows: processes come and go, cause events and reuse the id.          *)

Begin ==
    /\ process = 0 /\ started < MaxProcesses
    /\ started' = started + 1 /\ process' = started + 1
    /\ UNCHANGED <<stream, session, ownership, health, control, ghosts>>

End ==
    /\ process # 0 /\ process' = 0
    /\ UNCHANGED <<started, stream, session, ownership, health, control, ghosts>>

Kinds == {"data", "open", "close"}

\* The number of a connection is that of its process here; an unnumbered one has 0.
Cause(k, kind) ==
    /\ process # 0 /\ Len(events) < MaxEvents
    /\ events' = Append(events, [by |-> process, bytes |-> kind = "data"])
    /\ stream' = Append(stream, [id |-> Len(events) + 1, key |-> k, kind |-> kind,
                                 at |-> started, conn |-> IF k \in Numbered THEN process ELSE 0])
    /\ UNCHANGED <<processes, session, ownership, health, control, credited, unanswered>>

\* A full buffer, an event without endpoints or one that cannot be parsed.
Lose ==
    /\ Trouble
    /\ unread' = TRUE /\ unmarked' = unmarked \cup {"open"}
    /\ UNCHANGED <<processes, stream, ownership, incomplete, current, control, ghosts>>

\* GetTickCount64 goes on by more than 60 seconds.
Pass ==
    /\ idle # DOMAIN flows /\ idle' = DOMAIN flows
    /\ UNCHANGED <<processes, stream, session, raw, flows, taken, owner, health, control, ghosts>>

-----------------------------------------------------------------------------
(* OnEvent *)

Stored_bug(k) == IF Cardinality(DOMAIN raw) >= Cap THEN {} ELSE {k}

\* Beyond the cap the bytes are kept under the empty key.
Stored(k) == IF Cardinality(DOMAIN raw) >= Cap /\ k \notin DOMAIN raw THEN {0} ELSE {k}

Earlier(a, b) == IF a = 0 \/ b < a THEN b ELSE a

WithEvent(e, entry) ==
    [first  |-> Earlier(entry.first, e.at),
     conn   |-> e.conn,
     mixed  |-> entry.mixed \/ (entry.conn # 0 /\ e.conn # 0 /\ entry.conn # e.conn),
     opened |-> entry.opened \/ e.kind = "open",
     closed |-> entry.closed \/ e.kind = "close",
     bytes  |-> entry.bytes \cup (IF e.kind = "data" THEN {e.id} ELSE {})]

OnEvent ==
    /\ stream # << >> /\ stream' = Tail(stream)
    /\ LET e == Head(stream)
           K == Stored(e.key)
       IN  raw' = [k \in K \cup DOMAIN raw |->
                    IF k \in K THEN WithEvent(e, At(raw, k, Entry)) ELSE raw[k]]
    /\ UNCHANGED <<processes, session, flows, idle, taken, owner, health, control, ghosts>>

-----------------------------------------------------------------------------
(* Run: take what has arrived, ask for the owner, account for it.          *)

Take ==
    /\ pc = "wait" /\ pc' = "query"
    /\ taken' = raw /\ raw' = << >>
    /\ unmarked' = IF unmarked = {} THEN {} ELSE {"closing"}
    /\ UNCHANGED <<processes, stream, session, flows, idle, owner, incomplete, current, odd, ghosts>>

\* QueryOwner: the process that has the id now, unless it cannot be opened.
QueryOwner ==
    /\ pc = "query" /\ pc' = "account"
    /\ owner' \in {NoOwner} \cup
         (IF process = 0 \/ DOMAIN taken \ {0} = {} THEN {} ELSE [created : {process}, path : BOOLEAN])
    /\ UNCHANGED <<processes, stream, session, raw, flows, idle, taken, health, odd, ghosts>>

Confirmed_bug(found, entry) == found.created # 0 /\ ~entry.mixed

\* The process that has the id existed when the first of the bytes was seen.
Confirmed(found, entry) == found.created # 0 /\ found.created <= entry.first /\ ~entry.mixed

\* The flow before the batch, without its owner if the connection is another one.
Continued(flow, entry) ==
    IF entry.opened \/ (flow.conn # 0 /\ entry.conn # 0 /\ flow.conn # entry.conn)
    THEN NewFlow ELSE flow

\* A confirmed owner replaces another one; a later process clears it; no answer keeps it.
OwnerAfter(flow, entry, found) ==
    IF Confirmed(found, entry) THEN found
    ELSE IF entry.mixed \/ found.created > entry.first THEN NoOwner
    ELSE flow.owner

FlowAfter(flow, entry, found) ==
    [owner |-> OwnerAfter(Continued(flow, entry), entry, found), conn |-> entry.conn]

\* Identity: a process whose path is not known is an unknown one.
Identity(o) == IF o.path THEN o.created ELSE 0

Untracked(F) == Cardinality(F) >= Cap

\* One entry of the batch; F is what the flow table has entries for.
Tabled(F, k) ==
    IF k \notin F /\ Untracked(F) THEN F
    ELSE IF taken[k].closed THEN F \ {k} ELSE F \cup {k}

\* The flow an entry is accounted to, in the table or beyond its cap; the batch has one
\* entry of a key, so that no other entry has changed the flow before it.
FlowNow(k) == FlowAfter(At(flows, k, NewFlow), taken[k], IF k = 0 THEN NoOwner ELSE owner)

Account(k) == {<<b, Identity(FlowNow(k).owner)>> : b \in taken[k].bytes}

InOrder(S) == SetToSortSeq(S, <)

Unanswered(S) == IF owner.created = 0 THEN UNION {taken[k].bytes : k \in S} ELSE {}

ProcessRaw ==
    /\ pc = "account"
    /\ LET tabled == FoldLeft(Tabled, DOMAIN flows, InOrder(DOMAIN taken))
           kept   == {k \in DOMAIN flows \cup DOMAIN taken :
                        k \in tabled /\ (k \in idle => k \in DOMAIN taken)}
       IN  flows' = [k \in kept |-> IF k \in DOMAIN taken THEN FlowNow(k) ELSE flows[k]]
    /\ credited' = credited \cup UNION {Account(k) : k \in DOMAIN taken}
    /\ unanswered' = unanswered \cup Unanswered(DOMAIN taken)
    /\ idle' = {} /\ taken' = << >> /\ owner' = NoOwner
    /\ odd' = ~odd /\ pc' = IF odd THEN "diagnose" ELSE "wait"
    /\ UNCHANGED <<processes, stream, session, raw, health, events>>

-----------------------------------------------------------------------------
(* Every second cycle: ask the session, then record what it says.          *)

\* GetDiagnostics, outside m_mutex; it can fail, and then tells nothing new.
GetDiagnostics ==
    /\ pc = "diagnose" /\ pc' = "record"
    /\ \/ /\ current' = IF unread THEN "moved" ELSE "same"
          /\ unread' = FALSE /\ UNCHANGED troubles
       \/ current' = "error" /\ Trouble /\ UNCHANGED unread
    /\ UNCHANGED <<processes, stream, ownership, incomplete, unmarked, odd, ghosts>>

Marked_bug == current # "same"

\* Counters that have moved do not say when: the next interval is uncertain as well.
Marked == current # "same" \/ incomplete

RecordCaptureHealth ==
    /\ pc = "record" /\ pc' = "wait"
    /\ unmarked' = IF Marked THEN unmarked \ {"closing"} ELSE unmarked
    /\ incomplete' = (current # "same") /\ current' = "same"
    /\ UNCHANGED <<processes, stream, session, ownership, odd, ghosts>>

-----------------------------------------------------------------------------
Next ==
    \/ Begin \/ End \/ Lose \/ Pass
    \/ \E k \in Keys, kind \in Kinds : Cause(k, kind)
    \/ OnEvent \/ Take \/ QueryOwner \/ ProcessRaw
    \/ GetDiagnostics \/ RecordCaptureHealth

Spec == Init /\ [][Next]_vars

-----------------------------------------------------------------------------
(* Bytes are never accounted to a process that did not exist when they     *)
(* were seen, however late they arrive and whoever has the process id by   *)
(* then; and to an earlier process only when no process could be found     *)
(* with the id any more (QueryOwner after the swap, the comparison with    *)
(* value.first in ProcessRaw).                                             *)
NoReusedId ==
    \A c \in credited :
        /\ c[2] <= events[c[1]].by
        /\ c[2] \in {0, events[c[1]].by} \/ c[1] \in unanswered

(* Bytes are in exactly one place until they are accounted for, once, also *)
(* when m_raw or m_flows is full.                                          *)
InStream == {stream[i].id : i \in 1 .. Len(stream)}
Holding(f, b) == {k \in DOMAIN f : b \in f[k].bytes}

Retained ==
    \A b \in 1 .. Len(events) :
        events[b].bytes =>
            1 = Cardinality({b} \cap InStream) + Cardinality(Holding(raw, b))
                + Cardinality(Holding(taken, b)) + Cardinality({c \in credited : c[1] = b})

(* When an interval is published in which the session has lost an event,   *)
(* the interval is marked uncertain, although the counters are read after  *)
(* its end was taken and reading them may fail: a loss that came too late  *)
(* for this interval's mark is in the next one, which is marked as well.   *)
LossMarked == [][pc = "record" /\ pc' = "wait" => "closing" \notin unmarked']_vars
=============================================================================
