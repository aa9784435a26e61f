------------------------------ MODULE TcpPaths ------------------------------
(***************************************************************************)
(* The three accounts of a TCP connection brought together: the kernel     *)
(* that moves its bytes, the proof and legacy events it raises, the EStats *)
(* collector and the source tracker, with the locking of the hybrid        *)
(* collector (HybridTrafficCollector.cpp).                                 *)
(*                                                                         *)
(* Proof events arrive in order on one thread; legacy events on another,   *)
(* where one may overtake others; the worker polls EStats without the lock *)
(* and hands the observations to the tracker later, under it.  Events may  *)
(* be lost; the sessions count what they lost and the worker sees that at  *)
(* its next sample.                                                        *)
(*                                                                         *)
(* A stamp of `clock' is both the performance counter and the file time of *)
(* an event.  A life, one instance of a connection, is named by the stamp  *)
(* of its connect.  `kept' is the bag of bytes counted from legacy events, *)
(* `flows' what each life has really transferred.                          *)
(***************************************************************************)
EXTENDS TcpSourceTracker, TcpEStats

CONSTANTS
    Key, Tcb,        \* connection keys and the kernel's control blocks
    Plans            \* what a behaviour may use: [lives: <<[rx, tx, fin], ...>>, polls, faults, backlog, reach]

ASSUME TcpPathsAssumption ==
    /\ {MaxSpans, MaxConns, MaxMarkers, MaxWindows, MaxStates} \subseteq Nat
    /\ Cycle \in Nat \ {0, 1} /\ {SendOrigin, ReceiveOrigin} \subseteq Nat
    /\ \A p \in Plans : /\ {p.polls, p.faults, p.backlog, p.reach} \subseteq Nat
                        /\ p.lives \in Seq([rx : Nat, tx : Nat, fin : BOOLEAN])
    /\ IsFiniteSet(Key) /\ IsFiniteSet(Tcb) /\ DOMAIN Slots = Key

VARIABLES
    clock, tcp, flows,        \* the kernel
    proofs, events,           \* events on their way to the two sessions' callbacks
    lost,                     \* the sessions that lost an event, or the endpoints of one
    tracker, estats,          \* the two components
    reading,                  \* what a poll returned and the tracker has not seen yet
    phase,                    \* of the hybrid collector
    kept, blind,              \* bytes kept from legacy events, with and without their endpoints
    uncertain,                \* an unknown or incomplete interval was reported
    plan, polls, faults       \* the bounds of this behaviour and how much of them is used

vars == <<clock, tcp, flows, proofs, events, lost, tracker, estats, reading, phase,
          kept, blind, uncertain, plan, polls, faults>>
kernelVars == <<clock, tcp, flows, proofs, events>>

Phases == {"off", "run", "stopping", "draining", "releasing", "stopped"}
NoTcp == [life |-> 0, tcb |-> 0, up |-> FALSE, rx |-> 0, tx |-> 0, acked |-> 0, wire |-> 0, fin |-> FALSE,
          on |-> FALSE, onRx |-> 0, onAcked |-> 0, onWire |-> 0, tried |-> FALSE, listed |-> FALSE]
NoReading == [sample |-> FALSE, obs |-> << >>, open |-> FALSE]

Init ==
    /\ clock = 0 /\ tcp = [k \in Key |-> NoTcp] /\ flows = << >>
    /\ proofs = << >> /\ events = << >> /\ lost = {}
    /\ tracker = NoTracker /\ estats = NoEStats /\ reading = NoReading
    /\ phase = "off" /\ kept = EmptyBag /\ blind = {} /\ uncertain = FALSE
    /\ plan \in Plans /\ polls = 0 /\ faults = 0

Capturing == phase \in {"run", "stopping", "draining"}
Rows == {[key |-> k, created |-> tcp[k].life] : k \in {j \in Key : tcp[j].up}}

Proof(kind, k, time, seq) ==
    [kind |-> kind, key |-> k, tcb |-> tcp[k].tcb, life |-> tcp[k].life, time |-> time, seq |-> seq % Cycle,
     bytes |-> IF kind \in {"send", "receive"} THEN 1 ELSE 0]
Event(kind, k, time, position) ==
    [kind |-> kind, key |-> k, life |-> tcp[k].life, time |-> time, at |-> position,
     bytes |-> IF kind \in {"rx", "tx"} THEN 1 ELSE 0, endpoints |-> TRUE]

\* What the kernel raises reaches the sessions that are up: the ETW one stops first.
Raise(p, e) ==
    /\ Len(proofs) + Len(events) <= plan.backlog
    /\ proofs' = IF Capturing THEN proofs \o p ELSE proofs
    /\ events' = IF phase = "run" THEN events \o e ELSE events

UNCHANGEDRest == UNCHANGED <<lost, tracker, estats, reading, phase, kept, blind, uncertain, plan, polls>>
Fault == faults < plan.faults /\ faults' = faults + 1
FaultUnless(fine) == IF fine THEN UNCHANGED faults ELSE Fault

-----------------------------------------------------------------------------
(* The kernel *)

\* A handshake raises four proof events, then the legacy connect.
Open(k, x) ==
    LET c == [NoTcp EXCEPT !.life = clock + 1, !.tcb = x, !.up = TRUE]
        proof(kind, time, seq) == [kind |-> kind, key |-> k, tcb |-> x, life |-> c.life, time |-> time,
                                   seq |-> seq % Cycle, bytes |-> IF kind = "receive" THEN 1 ELSE 0]
    IN  /\ ~tcp[k].up /\ Cardinality(DOMAIN flows) < Len(plan.lives)
        /\ \A j \in Key : tcp[j].up => tcp[j].tcb # x
        /\ clock' = clock + 3
        /\ tcp' = [tcp EXCEPT ![k] = c]
        /\ flows' = With(flows, c.life, [key |-> k, tcb |-> x, rx |-> 0, tx |-> 0, due |-> {},
                                         room |-> plan.lives[Cardinality(DOMAIN flows) + 1]])
        /\ Raise(<<proof("connect", clock + 1, 0), proof("syn", clock + 1, SendOrigin - 1),
                   proof("receive", clock + 2, ReceiveOrigin), proof("established", clock + 2, 0)>>,
                 <<[kind |-> "open", key |-> k, life |-> c.life, time |-> clock + 3, at |-> 0,
                    bytes |-> 0, endpoints |-> TRUE]>>)
        /\ UNCHANGEDRest /\ UNCHANGED faults

\* One byte in or out; it is due to be counted when it moves under a running capture.
Moved(life, dir, p) ==
    [flows EXCEPT ![life][dir] = p + 1, ![life].due = IF phase = "run" THEN @ \cup {<<life, dir, p>>} ELSE @]

Receive(k) ==
    LET c == tcp[k]
    IN  /\ c.up /\ ~c.fin /\ c.rx < flows[c.life].room.rx
        /\ clock' = clock + 1
        /\ tcp' = [tcp EXCEPT ![k].rx = @ + 1]
        /\ flows' = Moved(c.life, "rx", c.rx)
        /\ Raise(<<Proof("receive", k, clock + 1, ReceiveOrigin + c.rx)>>, <<Event("rx", k, clock + 1, c.rx)>>)
        /\ UNCHANGEDRest /\ UNCHANGED faults

Send(k) ==
    LET c == tcp[k]
    IN  /\ c.up /\ c.tx < flows[c.life].room.tx
        /\ clock' = clock + 1
        /\ tcp' = [tcp EXCEPT ![k].tx = @ + 1, ![k].wire = @ + 1]
        /\ flows' = Moved(c.life, "tx", c.tx)
        /\ Raise(<<Proof("send", k, clock + 1, SendOrigin + c.tx)>>, <<Event("tx", k, clock + 1, c.tx)>>)
        /\ UNCHANGEDRest /\ UNCHANGED faults

Ack(k) ==
    /\ tcp[k].up /\ tcp[k].acked < tcp[k].tx
    /\ tcp' = [tcp EXCEPT ![k].acked = tcp[k].tx]
    /\ UNCHANGEDRest /\ UNCHANGED <<clock, flows, proofs, events, faults>>

\* The last byte is sent again; its legacy event is flagged and never reaches the tracker.
Retransmit(k) ==
    LET c == tcp[k]
    IN  /\ c.up /\ c.acked < c.tx /\ Fault
        /\ clock' = clock + 1
        /\ tcp' = [tcp EXCEPT ![k].wire = @ + 1]
        /\ Raise(<<Proof("send", k, clock + 1, SendOrigin + c.tx - 1)>>, << >>)
        /\ UNCHANGEDRest /\ UNCHANGED flows

\* The peer ends its stream: an octet of sequence space that is no payload.
PeerFin(k) ==
    LET c == tcp[k]
    IN  /\ c.up /\ ~c.fin /\ flows[c.life].room.fin
        /\ clock' = clock + 1
        /\ tcp' = [tcp EXCEPT ![k].fin = TRUE]
        /\ Raise(<<Proof("receive", k, clock + 1, ReceiveOrigin + c.rx),
                   Proof("fin", k, clock + 1, ReceiveOrigin + c.rx + 1)>>, << >>)
        /\ UNCHANGEDRest /\ UNCHANGED <<flows, faults>>

Close(k) ==
    /\ tcp[k].up
    /\ clock' = clock + 1
    /\ tcp' = [tcp EXCEPT ![k].up = FALSE]
    /\ Raise(<<Proof("close", k, clock + 1, 0)>>, <<Event("close", k, clock + 1, 0)>>)
    /\ UNCHANGEDRest /\ UNCHANGED <<flows, faults>>

\* Another program turns collection off, or off and on, or on.
Foreign(k, on) ==
    /\ tcp[k].up /\ Fault
    /\ tcp' = [tcp EXCEPT ![k] = IF on THEN Enabled(@) ELSE [@ EXCEPT !.on = FALSE]]
    /\ UNCHANGEDRest /\ UNCHANGED <<clock, flows, proofs, events>>

\* Bound: before the capture starts, connections are only opened; when its sessions have ended,
\* they move no more bytes, but come and go.
Kernel ==
    \E k \in Key :
        \/ phase # "stopped" /\ \E x \in Tcb : Open(k, x)
        \/ Capturing /\ (Receive(k) \/ Send(k) \/ Ack(k) \/ Retransmit(k) \/ PeerFin(k))
        \/ (Capturing \/ phase = "releasing") /\ (Close(k) \/ \E on \in BOOLEAN : Foreign(k, on))

-----------------------------------------------------------------------------
(* The callbacks *)

DeliverProof ==
    /\ Capturing /\ proofs # << >>
    /\ proofs' = Tail(proofs)
    /\ tracker' = OnProof(tracker, Head(proofs))
    /\ UNCHANGED <<clock, tcp, flows, events, lost, estats, reading, phase, kept, blind, uncertain, plan, polls, faults>>

\* OnEvent: a kept byte joins the raw totals, an ambiguous one leaves a marker.
Counted(e) == IF e.bytes = 0 THEN {} ELSE {<<e.life, e.kind, e.at>>}
OnEvent(e, answer) ==
    /\ tracker' = answer.tracker
    /\ kept' = IF answer.fate = "keep" /\ e.endpoints THEN kept (+) SetToBag(Counted(e)) ELSE kept
    /\ blind' = IF answer.fate = "keep" /\ ~e.endpoints THEN blind \cup Counted(e) ELSE blind
    /\ uncertain' = (uncertain \/ answer.fate = "ambiguous")

\* At most reach - 1 earlier events are overtaken; a parse failure loses the endpoints,
\* which the session counts.
DeliverEvent ==
    /\ phase = "run"
    /\ \E i \in 1 .. Min2(plan.reach, Len(events)), endpoints \in BOOLEAN :
         /\ FaultUnless(endpoints)
         /\ events' = RemoveAt(events, i)
         /\ lost' = lost \cup (IF endpoints THEN {} ELSE {"endpoints"})
         /\ LET e == [events[i] EXCEPT !.endpoints = endpoints] IN OnEvent(e, KeepLegacy(tracker, e))
    /\ UNCHANGED <<clock, tcp, flows, proofs, estats, reading, phase, plan, polls>>

LoseProof ==
    /\ Capturing /\ proofs # << >> /\ Fault
    /\ proofs' = Tail(proofs) /\ lost' = lost \cup {"proof"}
    /\ UNCHANGED <<clock, tcp, flows, events, tracker, estats, reading, phase, kept, blind, uncertain, plan, polls>>

LoseEvent ==
    /\ phase = "run" /\ events # << >> /\ Fault
    /\ events' = Tail(events) /\ lost' = lost \cup {"legacy"}
    /\ UNCHANGED <<clock, tcp, flows, proofs, tracker, estats, reading, phase, kept, blind, uncertain, plan, polls>>

-----------------------------------------------------------------------------
(* The hybrid collector *)

Start ==
    /\ phase = "off"
    /\ phase' = "run" /\ tracker' = Reset(tracker)
    /\ UNCHANGED <<kernelVars, lost, estats, reading, kept, blind, uncertain, plan, polls, faults>>

\* The worker reads EStats without the lock.
Polled(q, sample) ==
    /\ clock' = clock + 2
    /\ estats' = q.estats
    /\ tcp' = [k \in Key |-> [q.tcp[k] EXCEPT !.tried = @ \/ (q.tcp[k].on /\ ~tcp[k].on)]]
    /\ reading' = [sample |-> sample, obs |-> q.obs, open |-> TRUE]
PollNow(sample, wait, fault) ==
    Polled(Poll(estats, tcp, Rows, [read |-> sample, wait |-> wait, stopping |-> FALSE,
                                    fault |-> fault, clock |-> clock + 1]), sample)

PollEStats ==
    /\ phase = "run" /\ ~reading.open /\ polls < plan.polls /\ polls' = polls + 1
    /\ \E sample, wait \in BOOLEAN, fault \in Faults :
         FaultUnless(fault = "none") /\ PollNow(sample, wait, fault)
    /\ UNCHANGED <<flows, proofs, events, lost, tracker, phase, kept, blind, uncertain, plan>>

\* Then, under the lock: health, observations, expiry, slices, and the record of lost coverage.
Healthy(clockType) ==
    IF reading.sample THEN SetHealth(tracker, "proof" \notin lost, clockType, "legacy" \notin lost) ELSE tracker
Work ==
    /\ phase = "run" /\ reading.open
    /\ \E clockType \in IF reading.sample THEN {1, 2} ELSE {1}, slow, idle \in SUBSET Tcb, idleKeys \in SUBSET Key :
         /\ FaultUnless(clockType = 1 /\ slow \cup idle \cup idleKeys = {})
         /\ tracker' = Expire(ObserveAll(Healthy(clockType), reading.obs), slow, idle, idleKeys)
    /\ uncertain' = (uncertain \/ (reading.sample /\ lost \ {"proof"} # {}))
    /\ reading' = NoReading
    /\ UNCHANGED <<kernelVars, lost, estats, phase, kept, blind, plan, polls>>

\* Stop ends the ETW session and the worker, and reads once more.  Events that were still on
\* their way to the session are not waited for; their bytes are no longer due.
Undelivered(life) == {<<events[i].life, events[i].kind, events[i].at>> : i \in {j \in DOMAIN events : events[j].life = life}}
BeginStop ==
    /\ phase = "run" /\ ~reading.open
    /\ phase' = "stopping"
    /\ \E fault \in {"none", "table", "read"} : FaultUnless(fault = "none") /\ PollNow(TRUE, FALSE, fault)
    /\ events' = << >>
    /\ flows' = [life \in DOMAIN flows |-> [flows[life] EXCEPT !.due = @ \ Undelivered(life)]]
    /\ UNCHANGED <<proofs, lost, tracker, kept, blind, uncertain, plan, polls>>

LastSamples ==
    /\ phase = "stopping"
    /\ phase' = "draining"
    /\ tracker' = ObserveAll(tracker, reading.obs)
    /\ reading' = NoReading
    /\ UNCHANGED <<kernelVars, lost, estats, kept, blind, uncertain, plan, polls, faults>>

\* The proof session has ended; EStats looks at the tables once more.  `listed' is an observation:
\* the connections that were there to be seen.
LastLook ==
    /\ phase = "draining" /\ proofs = << >>
    /\ phase' = "releasing"
    /\ \E fault \in {"none", "table"} :
         FaultUnless(fault = "none") /\ estats' = Refreshed(estats, tcp, Rows, fault)
    /\ tcp' = [k \in Key |-> [tcp[k] EXCEPT !.listed = tcp[k].up]]
    /\ UNCHANGED <<clock, flows, proofs, events, lost, tracker, reading, kept, blind, uncertain, plan, polls>>

\* It gives back what it enabled, by the tuple: whichever connection has it now.  The connections
\* come and go meanwhile, and a call that fails is not looked at.
Release(k) ==
    /\ phase = "releasing" /\ k \in DOMAIN estats.conn
    /\ estats' = [estats EXCEPT !.conn = [j \in DOMAIN @ \ {k} |-> @[j]]]
    /\ \/ /\ estats.conn[k].ours /\ tcp[k].up
          /\ tcp' = [tcp EXCEPT ![k].on = FALSE] /\ UNCHANGED faults
       \/ FaultUnless(~(estats.conn[k].ours /\ tcp[k].up)) /\ UNCHANGED tcp
    /\ UNCHANGED <<clock, flows, proofs, events, lost, tracker, reading, phase, kept, blind, uncertain, plan, polls>>

\* Then the tracker finishes.
EndStop ==
    /\ phase = "releasing" /\ DOMAIN estats.conn = {}
    /\ phase' = "stopped" /\ tracker' = Finish(tracker)
    /\ UNCHANGED <<kernelVars, lost, estats, reading, kept, blind, uncertain, plan, polls, faults>>

Callbacks == DeliverProof \/ LoseProof \/ DeliverEvent \/ LoseEvent

Hybrid == Start \/ PollEStats \/ Work \/ BeginStop \/ LastSamples \/ LastLook \/ (\E k \in Key : Release(k)) \/ EndStop

Next == Kernel \/ Callbacks \/ Hybrid

Spec == Init /\ [][Next]_vars
=============================================================================
