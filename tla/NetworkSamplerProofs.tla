------------------------ MODULE NetworkSamplerProofs ------------------------
(***************************************************************************)
(* Proofs about NetworkSampler for any adapters, clocks and amounts of     *)
(* traffic.                                                                *)
(***************************************************************************)
EXTENDS NetworkSampler, TLAPS

(* The counter of the baseline is the one Windows still shows.             *)
Continues(a) ==
  hasBaseline /\ previous.id = a /\ previous.instance = instance[a]

(* What passed through an adapter covers what was reported and what the    *)
(* next interval could report.  Counters that were replaced do not come    *)
(* back, because instances are numbered upwards.                           *)
Covered ==
  \A a \in Adapters :
    /\ reported[a] <= flowed[a]
    /\ Continues(a) => reported[a] + (octets[a] - previous.octets) <= flowed[a]

Instances == previous.id \in Adapters => previous.instance <= instance[previous.id]

SamplerInv == TypeOK /\ Covered /\ Instances

-----------------------------------------------------------------------------
(* The choice is an adapter or nothing.                                    *)
LEMMA SelectedUp ==
  ASSUME TypeOK, Selected \in up
  PROVE  Selected \in Adapters
  BY DEF TypeOK

LEMMA IdleTyped ==
  ASSUME TypeOK
  PROVE  IdleThen \in 0..tick
  BY DEF TypeOK, IdleThen

LEMMA SamplerInit == Init => SamplerInv
<1> SUFFICES ASSUME Init PROVE SamplerInv
  OBVIOUS
<1> USE SamplerAssumption DEF SamplerAssumption
<1>1. previous = [id |-> None, instance |-> 0, octets |-> 0] /\ ~hasBaseline
  BY DEF Init, NoAdapter
<1>2. TypeOK
  <2>1. /\ octets \in [Adapters -> Nat] /\ instance \in [Adapters -> Nat]
        /\ reported \in [Adapters -> Nat] /\ flowed \in [Adapters -> Nat]
    BY DEF Init
  <2>2. hasBaseline \in BOOLEAN
    BY Zenon DEF Init
  <2>3. previous \in [id : Adapters \cup {None}, instance : Nat, octets : Nat]
    BY <1>1
  <2> QED
    BY <1>1, <2>1, <2>2, <2>3 DEF Init, TypeOK
<1>3. Covered
  BY <1>1 DEF Init, Covered, Continues
<1>4. Instances
  BY <1>1 DEF Instances
<1> QED
  BY <1>2, <1>3, <1>4 DEF SamplerInv

(* An interval reports what the counter has grown by since the baseline,   *)
(* and that has passed through the adapter.                                *)
LEMMA ReportStep ==
  ASSUME SamplerInv, Report, UNCHANGED <<windows, preferred, flowed, events>>
  PROVE  SamplerInv'
<1> DEFINE a     == Selected
           bytes == octets[a] - previous.octets
<1>1. a \in Adapters
  BY SelectedUp DEF Report, SamplerInv
<1>2. Continues(a) /\ bytes \in Nat
  BY <1>1 DEF Report, Comparable, SameAdapter, Continues, SamplerInv, TypeOK
<1>3. reported' = [reported EXCEPT ![a] = @ + bytes]
  BY DEF Report
<1>4. previous' = [id |-> a, instance |-> instance[a], octets |-> octets[a]]
  BY DEF Report, Remember, Now
<1>5. previousTick' = tick /\ previousUtc' = utc /\ hasBaseline' = TRUE /\ status' = "running"
  BY DEF Report, Remember
<1>6. idleSince' \in 0..tick
  <2>1. idleSince' = StillIdle(bytes)
    BY DEF Report
  <2> QED
    BY <2>1, IdleTyped DEF StillIdle, SamplerInv, TypeOK
<1>7. UNCHANGED <<octets, instance, up, tick, utc, preferred, flowed>>
  BY DEF windows
<1>8. TypeOK'
  BY <1>1, <1>2, <1>3, <1>4, <1>5, <1>6, <1>7 DEF SamplerInv, TypeOK
<1>9. Covered'
  BY <1>1, <1>2, <1>3, <1>4, <1>7 DEF SamplerInv, TypeOK, Covered, Continues
<1>10. Instances'
  BY <1>1, <1>4, <1>7 DEF SamplerInv, TypeOK, Instances
<1> QED
  BY <1>8, <1>9, <1>10 DEF SamplerInv

LEMMA SamplerStep == SamplerInv /\ [Next]_vars => SamplerInv'
<1> SUFFICES ASSUME SamplerInv, [Next]_vars PROVE SamplerInv'
  OBVIOUS
<1> USE SamplerAssumption DEF SamplerAssumption
<1>1. CASE Lost /\ UNCHANGED <<windows, preferred, flowed, events>>
  BY <1>1, IdleTyped DEF SamplerInv, Lost, TypeOK, Covered, Continues, Instances, windows
<1>2. CASE Repeat /\ UNCHANGED <<windows, preferred, flowed, events>>
  BY <1>2, IdleTyped DEF SamplerInv, Repeat, TypeOK, Covered, Continues, Instances, windows, seen
<1>3. CASE Report /\ UNCHANGED <<windows, preferred, flowed, events>>
  BY <1>3, ReportStep
<1>4. CASE Baseline /\ UNCHANGED <<windows, preferred, flowed, events>>
  <2>1. Selected \in Adapters
    BY <1>4, SelectedUp DEF Baseline, SamplerInv
  <2>2. previous' = [id |-> Selected, instance |-> instance[Selected], octets |-> octets[Selected]]
    BY <1>4 DEF Baseline, Remember, Now
  <2> QED
    BY <1>4, <2>1, <2>2, IdleTyped
       DEF SamplerInv, Baseline, Remember, TypeOK, Covered, Continues, Instances, windows
<1>5. CASE SampleFails
  BY <1>5 DEF SamplerInv, SampleFails, TypeOK, Covered, Continues, Instances, windows
<1>6. ASSUME NEW a \in Adapters \cup {None}, SelectAdapter(a) PROVE SamplerInv'
  <2>1. hasBaseline' \in BOOLEAN /\ ~hasBaseline'
    BY <1>6, Zenon DEF SelectAdapter
  <2> QED
    BY <1>6, <2>1 DEF SamplerInv, SelectAdapter, TypeOK, Covered, Continues, Instances,
       windows, ghosts, seen
<1>7. CASE Time
  BY <1>7 DEF SamplerInv, Time, TypeOK, Covered, Continues, Instances, members, ghosts, seen
<1>8. CASE SetClock
  BY <1>8 DEF SamplerInv, SetClock, TypeOK, Covered, Continues, Instances, members, ghosts, seen
<1>9. ASSUME NEW a \in Adapters, Traffic(a) PROVE SamplerInv'
  BY <1>9 DEF SamplerInv, Traffic, TypeOK, Covered, Continues, Instances, members, seen
<1>10. ASSUME NEW a \in Adapters, ResetCounter(a) PROVE SamplerInv'
  BY <1>10 DEF SamplerInv, ResetCounter, TypeOK, Covered, Continues, Instances, members, ghosts, seen
<1>11. ASSUME NEW a \in Adapters, Replace(a) PROVE SamplerInv'
  BY <1>11 DEF SamplerInv, Replace, TypeOK, Covered, Continues, Instances, members, ghosts, seen
<1>12. ASSUME NEW a \in Adapters, Toggle(a) PROVE SamplerInv'
  BY <1>12 DEF SamplerInv, Toggle, TypeOK, Covered, Continues, Instances, members, ghosts, seen
<1>13. CASE UNCHANGED vars
  BY <1>13 DEF SamplerInv, vars, TypeOK, Covered, Continues, Instances, windows, members, ghosts, seen
<1> QED
  BY <1>1, <1>2, <1>3, <1>4, <1>5, <1>6, <1>7, <1>8, <1>9, <1>10, <1>11, <1>12, <1>13
     DEF Next, Observe

(* Type correctness; in particular no difference of two readings is        *)
(* negative and no idle time lies in the future.                           *)
THEOREM TypeCorrect == Spec => []TypeOK
<1>1. SamplerInv => TypeOK
  BY DEF SamplerInv
<1> QED
  BY <1>1, SamplerInit, SamplerStep, PTL DEF Spec

(* No interval reports bytes that did not pass through its adapter,        *)
(* whatever happens to counters, interfaces, clocks and the choice.        *)
THEOREM InventsNothing == Spec => []NeverInvents
<1>1. SamplerInv => NeverInvents
  BY DEF SamplerInv, Covered, NeverInvents
<1> QED
  BY <1>1, SamplerInit, SamplerStep, PTL DEF Spec

-----------------------------------------------------------------------------
(* What the intervals have said: since a baseline they add up to what its  *)
(* counter shows; the next and the latest interval begin after the last    *)
(* break; and idle time starts no earlier than the last traffic.           *)
IntervalInv ==
  /\ run \in [base : Nat, bytes : Nat]
  /\ lastFrom \in Nat /\ lastBusy \in 0..tick /\ lastBreak \in 0..tick
  /\ RunComplete
  /\ hasBaseline => previousTick >= lastBreak
  /\ status = "running" => lastFrom >= lastBreak
  /\ idleSince # 0 => lastBusy <= idleSince

(* Reconsidering the choice starts the idle time anew, and nothing else    *)
(* moves it.                                                               *)
LEMMA IdleAfterBusy ==
  ASSUME TypeOK, IntervalInv
  PROVE  IdleThen # 0 => lastBusy <= IdleThen
  BY DEF IdleThen, IntervalInv

(* The start, and every step, keep IntervalInv.                            *)
LEMMA IntervalInit == Init => IntervalInv
<1> SUFFICES ASSUME Init PROVE IntervalInv
  OBVIOUS
<1>1. hasBaseline = FALSE /\ run = [base |-> 0, bytes |-> 0] /\ tick = 1
  BY DEF Init
<1> QED
  BY <1>1 DEF Init, IntervalInv, RunComplete

(* An interval: the counter is the one of the baseline, so that its growth *)
(* is what the sum was behind by.                                          *)
LEMMA ReportInterval ==
  ASSUME SamplerInv, IntervalInv, Report, UNCHANGED <<windows, preferred, flowed, events>>
  PROVE  IntervalInv'
<1> DEFINE a     == Selected
           bytes == octets[a] - previous.octets
<1>1. a \in Adapters
  BY SelectedUp DEF Report, SamplerInv
<1>2. Continues(a) /\ bytes \in Nat /\ octets[a] \in Nat /\ previous.octets \in Nat
  BY <1>1 DEF Report, Comparable, SameAdapter, Continues, SamplerInv, TypeOK
<1>3. /\ previous' = [id |-> a, instance |-> instance[a], octets |-> octets[a]]
      /\ previousTick' = tick /\ tick' = tick
      /\ run' = [run EXCEPT !.bytes = @ + bytes]
      /\ lastFrom' = previousTick /\ lastBreak' = lastBreak
      /\ lastBusy' = IF bytes # 0 THEN tick ELSE lastBusy
      /\ idleSince' = StillIdle(bytes)
  BY DEF Report, Remember, Now, windows
<1>4. run.base + run.bytes = previous.octets /\ previousTick >= lastBreak
  BY <1>2 DEF IntervalInv, RunComplete, Continues
<1> HIDE DEF a
<1>5. run' \in [base : Nat, bytes : Nat] /\ RunComplete'
  <2>1. run.base \in Nat /\ run.bytes \in Nat
    BY DEF IntervalInv
  <2>2. run' = [base |-> run.base, bytes |-> run.bytes + bytes]
    BY <1>3 DEF IntervalInv
  <2>3. run'.base + run'.bytes = octets[a]
    BY <1>2, <1>4, <2>1, <2>2
  <2>4. run.bytes + bytes \in Nat
    BY <1>2, <2>1
  <2>5. run' \in [base : Nat, bytes : Nat]
    <3> HIDE DEF bytes
    <3> QED
      BY <2>1, <2>2, <2>4
  <2>6. previous'.octets = octets[a]
    BY <1>3
  <2> QED
    BY <2>3, <2>5, <2>6 DEF RunComplete
<1> HIDE DEF bytes
<1>6. idleSince' # 0 => lastBusy' <= idleSince'
  <2>1. tick \in Nat
    BY DEF SamplerInv, TypeOK
  <2> QED
    BY <1>3, <2>1, IdleAfterBusy DEF StillIdle, IntervalInv, SamplerInv
<1> QED
  BY <1>3, <1>4, <1>5, <1>6 DEF IntervalInv, SamplerInv, TypeOK

LEMMA IntervalStep == SamplerInv /\ IntervalInv /\ [Next]_vars => IntervalInv'
<1> SUFFICES ASSUME SamplerInv, IntervalInv, [Next]_vars PROVE IntervalInv'
  OBVIOUS
<1> USE DEF IntervalInv, RunComplete
<1>1. CASE Lost /\ UNCHANGED <<windows, preferred, flowed, events>>
  BY <1>1, IdleAfterBusy DEF SamplerInv, Lost, TypeOK, windows
<1>2. CASE Repeat /\ UNCHANGED <<windows, preferred, flowed, events>>
  BY <1>2, IdleAfterBusy DEF SamplerInv, Repeat, TypeOK, windows, seen
<1>3. CASE Report /\ UNCHANGED <<windows, preferred, flowed, events>>
  BY <1>3, ReportInterval
<1>4. CASE Baseline /\ UNCHANGED <<windows, preferred, flowed, events>>
  <2>1. Selected \in Adapters
    BY <1>4, SelectedUp DEF Baseline, SamplerInv
  <2>2. /\ previous' = [id |-> Selected, instance |-> instance[Selected], octets |-> octets[Selected]]
        /\ run' = [base |-> octets[Selected], bytes |-> 0]
        /\ previousTick' = tick /\ status' = "starting" /\ idleSince' = IdleThen
    BY <1>4 DEF Baseline, Remember, Now
  <2> QED
    BY <1>4, <2>1, <2>2, IdleAfterBusy DEF SamplerInv, Baseline, TypeOK, windows
<1>5. CASE SampleFails
  BY <1>5 DEF SamplerInv, SampleFails, TypeOK, windows
<1>6. ASSUME NEW a \in Adapters \cup {None}, SelectAdapter(a) PROVE IntervalInv'
  BY <1>6 DEF SamplerInv, SelectAdapter, TypeOK, windows, ghosts, seen
<1>7. CASE Time
  BY <1>7 DEF SamplerInv, Time, TypeOK, members, ghosts, seen
<1>8. CASE SetClock
  BY <1>8 DEF SetClock, members, ghosts, seen
<1>9. ASSUME NEW a \in Adapters, Traffic(a) \/ ResetCounter(a) \/ Replace(a) \/ Toggle(a) PROVE IntervalInv'
  BY <1>9 DEF Traffic, ResetCounter, Replace, Toggle, members, ghosts, seen
<1>10. CASE UNCHANGED vars
  BY <1>10 DEF vars, windows, members, ghosts, seen
<1> QED
  BY <1>1, <1>2, <1>3, <1>4, <1>5, <1>6, <1>7, <1>8, <1>9, <1>10 DEF Next, Observe

(* Both invariants hold in every reachable state.                          *)
LEMMA Invariance == Spec => [](SamplerInv /\ IntervalInv)
  BY SamplerInit, SamplerStep, IntervalInit, IntervalStep, PTL DEF Spec

-----------------------------------------------------------------------------
(* Between two baselines no byte is left out, however often a sample is    *)
(* repeated (NetworkTrafficCollector.cpp, Observe).                        *)
THEOREM LeavesNothingOut == Spec => []RunComplete
<1>1. IntervalInv => RunComplete
  BY DEF IntervalInv
<1> QED
  BY <1>1, Invariance, PTL

(* No interval reaches back over a sample that failed or found no choice   *)
(* connected, because each of them drops the baseline.                     *)
THEOREM BridgesNothing == Spec => NoBridge
<1>1. ASSUME [Next]_vars, status' = "running"
      PROVE  lastBreak' = lastBreak
  BY <1>1
  DEF Next, Observe, Lost, Repeat, Report, Baseline, SampleFails, Time, SetClock, SelectAdapter,
      Traffic, ResetCounter, Replace, Toggle, vars, ghosts, seen
<1>2. IntervalInv' /\ [Next]_vars => [status' = "running" => lastFrom' >= lastBreak]_vars
  BY <1>1 DEF IntervalInv
<1> QED
  BY <1>2, Invariance, PTL DEF Spec, NoBridge

(* An automatic choice is given up while it is still eligible only after a *)
(* full idle time without bytes, because the idle time is never counted    *)
(* from before the last traffic (Observe, kIdleReselectMs).                *)
THEOREM ChoiceIsStable == Spec => StableChoice
<1>1. ASSUME SamplerInv, IntervalInv, [Next]_vars,
             preferred = None, previous.id \in Eligible, previous'.id # previous.id
      PROVE  tick - lastBusy >= IdleLimit
  <2>1. Observe /\ previous' = Now(Selected)
    BY <1>1
    DEF Next, Observe, Lost, Repeat, Report, Baseline, Remember, SampleFails, Time, SetClock, SelectAdapter,
        Traffic, ResetCounter, Replace, Toggle, vars, members, seen
  <2>2. Selected # previous.id
    BY <1>1, <2>1 DEF Now
  <2>3. idleSince # 0 /\ tick - idleSince >= IdleLimit
    BY <1>1, <2>2 DEF Selected, Reconsider
  <2> QED
    BY <1>1, <2>3, SamplerAssumption DEF SamplerAssumption, SamplerInv, TypeOK, IntervalInv
<1>2. SamplerInv /\ IntervalInv /\ [Next]_vars
        => [(preferred = None /\ previous.id \in Eligible /\ previous'.id # previous.id)
              => tick - lastBusy >= IdleLimit]_vars
  BY <1>1
<1> QED
  BY <1>2, Invariance, PTL DEF Spec, StableChoice
=============================================================================
