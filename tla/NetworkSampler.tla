--------------------------- MODULE NetworkSampler ---------------------------
(***************************************************************************)
(* CNetworkTrafficCollector (NetworkTrafficCollector.cpp): which adapter   *)
(* is sampled, and when the difference of two counter readings is reported *)
(* as an interval of traffic.                                              *)
(*                                                                         *)
(* Adapters are numbers, in the order of their sorted names.  An adapter   *)
(* has one counter; the code keeps two, receive and transmit, and treats   *)
(* them alike.  Time is counted in any unit: tick is GetTickCount64, which *)
(* only grows, and utc is the wall clock, which may be set.                *)
(*                                                                         *)
(* An operator whose name ends in _bug is a plausible slip in the code of  *)
(* the operator after it.  No behaviour of this module uses one.           *)
(***************************************************************************)
EXTENDS Integers, FiniteSets

CONSTANTS
  Adapters,     \* the adapters of the machine
  Hardware,     \* those that are hardware
  None,         \* no adapter: automatic selection
  IdleLimit,    \* 30000 ms: the choice is reconsidered
  DriftLimit,   \* 2000 ms: how far the two clocks may differ
  Jumps,        \* what the wall clock may be set by
  MaxTick, MaxOctets, MaxEvents   \* bounds on time, traffic, odd events

ASSUME SamplerAssumption ==
  /\ Adapters \subseteq Nat /\ IsFiniteSet(Adapters)
  /\ Hardware \subseteq Adapters
  /\ None \notin Adapters
  /\ IdleLimit \in Nat \ {0} /\ DriftLimit \in Nat
  /\ Jumps \subseteq Int
  /\ MaxTick \in Nat /\ MaxOctets \in Nat /\ MaxEvents \in Nat

VARIABLES
  \* What Windows shows.
  octets,       \* an adapter's counter
  instance,     \* its LUID
  up,           \* the connected adapters
  tick, utc,
  \* Members of the collector.
  preferred,    \* m_snapshot.preferredId
  previous,     \* m_previous: the adapter last sampled, and what it showed
  previousTick, previousUtc,
  idleSince,    \* m_idleSince, 0 when traffic has been seen
  hasBaseline,  \* m_hasBaseline
  status,       \* m_snapshot.status
  \* Observation.
  flowed,       \* what has really passed through an adapter
  reported,     \* what intervals have said so
  run,          \* the counter at the last baseline, and the bytes reported since
  lastFrom,     \* the tick at which the last interval begins
  lastBusy,     \* the tick of the last interval with bytes
  lastBreak,    \* the tick of the last sample without a connected choice
  events

windows == <<octets, instance, up, tick, utc>>
members == <<preferred, previous, previousTick, previousUtc, idleSince, hasBaseline, status>>
seen    == <<reported, run, lastFrom, lastBusy, lastBreak>>
ghosts  == <<flowed, seen>>
vars    == <<windows, members, ghosts, events>>

NoAdapter == [id |-> None, instance |-> 0, octets |-> 0]

Init ==
  /\ octets = [a \in Adapters |-> 0] /\ instance = [a \in Adapters |-> 1]
  /\ up \in SUBSET Adapters
  /\ tick = 1 /\ utc = 1
  /\ preferred \in Adapters \cup {None}
  /\ previous = NoAdapter /\ previousTick = 0 /\ previousUtc = 0
  /\ idleSince = 0 /\ hasBaseline = FALSE /\ status = "starting"
  /\ flowed = [a \in Adapters |-> 0] /\ reported = [a \in Adapters |-> 0]
  /\ run = [base |-> 0, bytes |-> 0] /\ lastFrom = 0 /\ lastBusy = 0 /\ lastBreak = 0
  /\ events = 0

-----------------------------------------------------------------------------
(* The choice of Observe.  A fixed adapter is taken as it is.  An automatic*)
(* choice stays with the last adapter while that is eligible, until it has *)
(* been idle too long; then the eligible adapter with the largest counter  *)
(* is taken, the first one of several.                                     *)
Eligible == IF up \cap Hardware # {} THEN up \cap Hardware ELSE up

Reconsider ==
  \/ previous.id \notin Eligible
  \/ idleSince # 0 /\ tick - idleSince >= IdleLimit

Largest == {a \in Eligible : \A b \in Eligible : octets[b] <= octets[a]}

Selected ==
  IF preferred # None THEN preferred
  ELSE IF ~Reconsider THEN previous.id
  ELSE IF Eligible = {} THEN None
  ELSE CHOOSE a \in Largest : \A b \in Largest : a <= b

IdleThen == IF preferred = None /\ Reconsider THEN 0 ELSE idleSince

Now(a) == [id |-> a, instance |-> instance[a], octets |-> octets[a]]

SameAdapter_bug(a) == hasBaseline /\ previous.id = a

SameAdapter(a) ==
  hasBaseline /\ previous.id = a /\ previous.instance = instance[a]

Distance(a, b) == IF a > b THEN a - b ELSE b - a

(* The two readings make an interval.                                      *)
Comparable(a) ==
  /\ SameAdapter(a)
  /\ tick > previousTick /\ utc > previousUtc
  /\ octets[a] >= previous.octets
  /\ Distance(tick - previousTick, utc - previousUtc) <= DriftLimit

Repeated(a) == SameAdapter(a) /\ (tick = previousTick \/ utc = previousUtc)

Remember(a) ==
  /\ previous' = Now(a)
  /\ previousTick' = tick /\ previousUtc' = utc
  /\ hasBaseline' = TRUE

(* Observe, by how it ends.                                                *)
Lost_bug ==
  /\ Selected \notin up
  /\ status' = "disconnected" /\ idleSince' = IdleThen
  /\ lastBreak' = tick
  /\ UNCHANGED <<previous, previousTick, previousUtc, hasBaseline, reported, run, lastFrom, lastBusy>>

Lost ==
  /\ Selected \notin up
  /\ status' = "disconnected" /\ hasBaseline' = FALSE /\ idleSince' = IdleThen
  /\ lastBreak' = tick
  /\ UNCHANGED <<previous, previousTick, previousUtc, reported, run, lastFrom, lastBusy>>

Repeat_bug ==
  /\ Selected \in up /\ Repeated(Selected)
  /\ idleSince' = IdleThen
  /\ Remember(Selected)
  /\ UNCHANGED <<status, seen>>

Repeat ==
  /\ Selected \in up /\ Repeated(Selected)
  /\ idleSince' = IdleThen
  /\ UNCHANGED <<previous, previousTick, previousUtc, hasBaseline, status, seen>>

StillIdle_bug(bytes) == IF IdleThen = 0 THEN tick ELSE IdleThen

StillIdle(bytes) ==
  IF bytes # 0 THEN 0 ELSE IF IdleThen = 0 THEN tick ELSE IdleThen

Report ==
  LET a     == Selected
      bytes == octets[a] - previous.octets
  IN /\ a \in up /\ ~Repeated(a) /\ Comparable(a)
     /\ idleSince' = StillIdle(bytes)
     /\ status' = "running"
     /\ Remember(a)
     /\ reported' = [reported EXCEPT ![a] = @ + bytes]
     /\ run' = [run EXCEPT !.bytes = @ + bytes]
     /\ lastFrom' = previousTick
     /\ lastBusy' = IF bytes # 0 THEN tick ELSE lastBusy
     /\ UNCHANGED lastBreak

Baseline ==
  /\ Selected \in up /\ ~Repeated(Selected) /\ ~Comparable(Selected)
  /\ idleSince' = IdleThen /\ status' = "starting"
  /\ Remember(Selected)
  /\ run' = [base |-> octets[Selected], bytes |-> 0]
  /\ UNCHANGED <<reported, lastFrom, lastBusy, lastBreak>>

Observe ==
  /\ Lost \/ Repeat \/ Report \/ Baseline
  /\ UNCHANGED <<windows, preferred, flowed, events>>

(* Sample when Windows does not show its table of adapters.                *)
Odd == events < MaxEvents /\ events' = events + 1

SampleFails ==
  /\ Odd
  /\ hasBaseline' = FALSE /\ status' = "error"
  /\ lastBreak' = tick
  /\ UNCHANGED <<windows, preferred, previous, previousTick, previousUtc, idleSince>>
  /\ UNCHANGED <<flowed, reported, run, lastFrom, lastBusy>>

SelectAdapter(a) ==
  /\ a # preferred /\ Odd
  /\ preferred' = a
  /\ hasBaseline' = FALSE /\ idleSince' = 0 /\ status' = "starting"
  /\ UNCHANGED <<windows, previous, previousTick, previousUtc, ghosts>>

-----------------------------------------------------------------------------
(* What happens around the collector.                                      *)
Traffic(a) ==
  /\ a \in up /\ octets[a] < MaxOctets /\ flowed[a] < MaxOctets
  /\ octets' = [octets EXCEPT ![a] = @ + 1]
  /\ flowed' = [flowed EXCEPT ![a] = @ + 1]
  /\ UNCHANGED <<instance, up, tick, utc, members, seen, events>>

Time ==
  /\ tick < MaxTick
  /\ tick' = tick + 1 /\ utc' = utc + 1
  /\ UNCHANGED <<octets, instance, up, members, ghosts, events>>

SetClock ==
  /\ Odd
  /\ \E d \in Jumps : utc + d > 0 /\ utc' = utc + d
  /\ UNCHANGED <<octets, instance, up, tick, members, ghosts>>

ResetCounter(a) ==
  /\ Odd
  /\ octets' = [octets EXCEPT ![a] = 0]
  /\ UNCHANGED <<instance, up, tick, utc, members, ghosts>>

(* The interface is removed and made again, with any counter.              *)
Replace(a) ==
  /\ Odd
  /\ instance' = [instance EXCEPT ![a] = @ + 1]
  /\ \E n \in 0..MaxOctets : octets' = [octets EXCEPT ![a] = n]
  /\ UNCHANGED <<up, tick, utc, members, ghosts>>

Toggle(a) ==
  /\ Odd
  /\ up' = IF a \in up THEN up \ {a} ELSE up \cup {a}
  /\ UNCHANGED <<octets, instance, tick, utc, members, ghosts>>

Next ==
  \/ Observe \/ SampleFails \/ Time \/ SetClock
  \/ \E a \in Adapters \cup {None} : SelectAdapter(a)
  \/ \E a \in Adapters : Traffic(a) \/ ResetCounter(a) \/ Replace(a) \/ Toggle(a)

Spec == Init /\ [][Next]_vars

-----------------------------------------------------------------------------
(* Each variable holds a value of its kind; of the code, the members of    *)
(* CNetworkTrafficCollector.                                               *)
TypeOK ==
  /\ octets \in [Adapters -> Nat] /\ instance \in [Adapters -> Nat]
  /\ up \subseteq Adapters
  /\ tick \in Nat \ {0} /\ utc \in Nat \ {0}
  /\ preferred \in Adapters \cup {None}
  /\ previous \in [id : Adapters \cup {None}, instance : Nat, octets : Nat]
  /\ previousTick \in Nat /\ previousUtc \in Nat /\ previousTick <= tick
  /\ idleSince \in 0..tick
  /\ hasBaseline \in BOOLEAN
  /\ status \in {"starting", "running", "disconnected", "error"}
  /\ hasBaseline => previous.id \in Adapters
  /\ reported \in [Adapters -> Nat] /\ flowed \in [Adapters -> Nat]

(* No interval reports bytes that did not pass through its adapter: not    *)
(* those of another adapter, of a counter that was reset or replaced, nor  *)
(* any byte twice.                                                         *)
NeverInvents == \A a \in Adapters : reported[a] <= flowed[a]

(* Between two baselines nothing is left out: the intervals since the last *)
(* baseline add up to what its adapter's counter has grown by, however     *)
(* often a sample was repeated (the early return of Observe comes before   *)
(* m_previous is replaced).                                                *)
RunComplete == hasBaseline => run.base + run.bytes = previous.octets

(* No interval spans a sample at which the choice was not connected or the *)
(* table could not be read.                                                *)
NoBridge == [][status' = "running" => lastFrom' >= lastBreak]_vars

(* An automatic choice leaves an adapter that is still eligible only if no *)
(* interval has had bytes for IdleLimit.                                   *)
StableChoice ==
  [][(/\ preferred = None /\ previous.id \in Eligible
      /\ previous'.id # previous.id)
        => tick - lastBusy >= IdleLimit]_vars
=============================================================================
