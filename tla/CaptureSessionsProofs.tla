------------------------ MODULE CaptureSessionsProofs ------------------------
(***************************************************************************)
(* Proofs about CaptureSessions: the ETW session, the proof session and    *)
(* the hybrid collector above them, for any number of loggers, handles,    *)
(* lost events, processes and failing calls.                               *)
(***************************************************************************)
EXTENDS CaptureSessions, TLAPS

Answer == [id : Nat, lost : Nat, usable : BOOLEAN]

EtwTyped ==
  /\ logger \in [id : Nat, up : BOOLEAN, ours : BOOLEAN, usable : BOOLEAN, lost : Nat, stuck : BOOLEAN]
  /\ running \in BOOLEAN /\ worker \in WorkerSteps
  /\ trace \in Nat /\ session \in Nat /\ owns \in BOOLEAN
  /\ opened \in Nat /\ misclosed \in BOOLEAN
  /\ loss \in [known : BOOLEAN, base : Nat, lost : Nat, resets : Nat, id : Int, first : Nat, top : Nat]
  /\ asked \in [w : Answer, h : Answer]

(* The sum covers the way from the first look to the latest one and to the *)
(* highest, because an increment is never less than the difference.        *)
LossCounted ==
  loss.known => loss.lost >= loss.base - loss.first /\ loss.lost >= loss.top - loss.first

(* m_ownsSession speaks of a logger this process started, the latest or an *)
(* earlier one, and one that is up, this process's and was not found       *)
(* impossible to stop is owned.                                            *)
OwnLogger ==
  /\ session <= logger.id /\ (owns <=> session # 0)
  /\ owns /\ session = logger.id => logger.ours
  /\ logger.up /\ logger.ours /\ ~logger.stuck => owns /\ session = logger.id
  /\ worker \in {"none", "begin", "last", "done"} => ~owns

(* The only handle that is open is the one in m_traceHandle.               *)
OneHandle ==
  /\ ~misclosed /\ handles = {trace} \ {0}
  /\ trace # 0 => worker \in {"opened", "load", "process", "end"}

EtwInv == EtwTyped /\ LossCounted /\ OwnLogger /\ OneHandle

-----------------------------------------------------------------------------
(* Adding an answer to the losses keeps the sum ahead of the difference.   *)
LEMMA RecordedCounts ==
  ASSUME EtwTyped, LossCounted, NEW q \in Answer, loss' = Recorded(q)
  PROVE  /\ loss' \in [known : BOOLEAN, base : Nat, lost : Nat, resets : Nat, id : Int, first : Nat, top : Nat]
         /\ LossCounted'
<1>1. CASE q = Unasked
  BY <1>1 DEF Recorded, EtwTyped, LossCounted
<1>2. CASE q # Unasked
  <2> DEFINE base == IF loss.known THEN loss.base ELSE q.lost
  <2>1. /\ loss.base \in Nat /\ loss.lost \in Nat /\ loss.resets \in Nat /\ loss.id \in Int
        /\ loss.first \in Nat /\ loss.top \in Nat /\ q.lost \in Nat /\ q.id \in Nat
    BY DEF EtwTyped, Answer
  <2>2. base \in Nat /\ Increment(base, q.lost) \in Nat /\ Increment(base, q.lost) >= q.lost - base
    BY <2>1 DEF Increment
  <2>3. loss' = [known |-> TRUE, base |-> q.lost, lost |-> loss.lost + Increment(base, q.lost),
                 resets |-> loss.resets + (IF q.lost < base THEN 1 ELSE 0),
                 id |-> IF loss.known /\ loss.id # q.id THEN -1 ELSE q.id,
                 first |-> IF loss.known THEN loss.first ELSE q.lost,
                 top |-> IF loss.known /\ loss.top > q.lost THEN loss.top ELSE q.lost]
    BY <1>2 DEF Recorded
  <2>4. loss' \in [known : BOOLEAN, base : Nat, lost : Nat, resets : Nat, id : Int, first : Nat, top : Nat]
    <3> HIDE DEF base
    <3> QED
      BY <2>1, <2>2, <2>3
  <2>5. /\ loss'.base = q.lost /\ loss'.lost = loss.lost + Increment(base, q.lost)
        /\ loss'.first = IF loss.known THEN loss.first ELSE q.lost
        /\ loss'.top = IF loss.known /\ loss.top > q.lost THEN loss.top ELSE q.lost
    <3> HIDE DEF base
    <3> QED
      BY <2>3
  <2>6. LossCounted'
    <3> DEFINE sum == loss.lost + Increment(base, q.lost)
    <3>1. CASE loss.known
      <4>1. base = loss.base
        BY <3>1
      <4>2. loss.lost >= loss.base - loss.first /\ loss.lost >= loss.top - loss.first
        BY <3>1 DEF LossCounted
      <4> HIDE DEF base
      <4>3. sum >= q.lost - loss.first /\ sum >= loss.top - loss.first
        BY <2>1, <2>2, <4>1, <4>2
      <4>4. loss'.lost = sum /\ sum \in Nat /\ sum >= 0
        BY <2>1, <2>2, <2>5
      <4> HIDE DEF sum
      <4>5. loss'.base = q.lost /\ loss'.first = loss.first /\ loss'.top \in {loss.top, q.lost}
        BY <2>5, <3>1
      <4> QED
        BY <2>1, <4>3, <4>4, <4>5 DEF LossCounted
    <3>2. CASE ~loss.known
      <4> HIDE DEF base
      <4>1. sum >= 0
        BY <2>1, <2>2
      <4> QED
        BY <2>1, <2>5, <3>2, <4>1 DEF LossCounted
    <3> QED
      BY <3>1, <3>2
  <2> QED
    BY <2>4, <2>6
<1> QED
  BY <1>1, <1>2

(* Closing the handle that was taken out closes an open one, or none.      *)
LEMMA TakeCloses ==
  ASSUME EtwTyped, OneHandle, TakeTrace
  PROVE  trace' = 0 /\ handles' = {} /\ misclosed' = FALSE
<1>1. trace' = 0
  BY DEF TakeTrace
<1>2. handles' = {}
  BY DEF TakeTrace, OneHandle
<1>3. ~(trace # 0 /\ trace \notin handles)
  BY DEF OneHandle
<1>4. misclosed' = FALSE
  BY <1>3, Zenon DEF TakeTrace, OneHandle
<1> QED
  BY <1>1, <1>2, <1>4

(* Stopping the trace session: afterwards nothing is owned, and a logger   *)
(* of this process is up only as one that could not be stopped.            *)
LEMMA StopTrace ==
  ASSUME EtwInv, NEW succeeds \in BOOLEAN, StopTraceSession(succeeds),
         UNCHANGED <<opened, loss, asked>>, running' \in BOOLEAN, worker' \in WorkerSteps
  PROVE  EtwInv'
<1>1. trace' = 0 /\ handles' = {} /\ misclosed' = FALSE
  BY TakeCloses DEF EtwInv, StopTraceSession
<1>2. session' = 0 /\ owns' = FALSE
  BY DEF StopTraceSession
<1>3. /\ logger' \in [id : Nat, up : BOOLEAN, ours : BOOLEAN, usable : BOOLEAN, lost : Nat, stuck : BOOLEAN]
      /\ ~(logger'.up /\ logger'.ours /\ ~logger'.stuck)
  <2>1. CASE EndsLogger
    <3>1. logger' = [logger EXCEPT !.up = ~succeeds, !.stuck = ~succeeds]
      BY <2>1 DEF StopTraceSession
    <3> QED
      BY <3>1 DEF EtwInv, EtwTyped
  <2>2. CASE ~EndsLogger
    <3>1. logger' = logger
      BY <2>2 DEF StopTraceSession
    <3> QED
      BY <2>2, <3>1 DEF EtwInv, EtwTyped, OwnLogger, EndsLogger
  <2> QED
    BY <2>1, <2>2
<1>4. EtwTyped'
  BY <1>1, <1>2, <1>3 DEF EtwInv, EtwTyped
<1>5. LossCounted'
  BY DEF EtwInv, LossCounted
<1>6. OwnLogger'
  BY <1>2, <1>3 DEF OwnLogger
<1>7. OneHandle'
  BY <1>1 DEF OneHandle
<1> QED
  BY <1>4, <1>5, <1>6, <1>7 DEF EtwInv

-----------------------------------------------------------------------------
(* What the worker does keeps the invariant of the ETW session, one action *)
(* after another.                                                          *)
LEMMA WorkerKeeps ==
  ASSUME EtwInv, NEW succeeds \in BOOLEAN, Worker(succeeds)
  PROVE  EtwInv'
<1> USE DEF WorkerSteps
<1>1. CASE WorkerStart
  <2>1. CASE logger.up /\ worker' = "query" /\ owns' = FALSE /\ UNCHANGED <<logger, session>>
    BY <1>1, <2>1 DEF WorkerStart, EtwInv, EtwTyped, LossCounted, OwnLogger, OneHandle
  <2>2. CASE /\ logger' = Logger(logger.id + 1, TRUE, TRUE)
             /\ session' = logger.id + 1 /\ owns' = TRUE /\ worker' = "query"
    BY <1>1, <2>2 DEF WorkerStart, Logger, EtwInv, EtwTyped, LossCounted, OwnLogger, OneHandle
  <2>3. CASE worker' = "last" /\ UNCHANGED <<logger, session, owns>>
    BY <1>1, <2>3 DEF WorkerStart, EtwInv, EtwTyped, LossCounted, OwnLogger, OneHandle
  <2> QED
    BY <1>1, <2>1, <2>2, <2>3 DEF WorkerStart
<1>2. ASSUME Ask("w"), worker \in {"query", "opened"}, worker' \in {"check", "load"},
             worker = "opened" => worker' = "load",
             UNCHANGED <<logger, running, trace, session, owns, handles, opened, misclosed, loss>>
      PROVE  EtwInv'
  <2>1. asked' \in [w : Answer, h : Answer]
    BY <1>2 DEF Ask, Readable, Unasked, EtwInv, EtwTyped, Answer
  <2> QED
    BY <1>2, <2>1 DEF EtwInv, EtwTyped, LossCounted, OwnLogger, OneHandle
<1>3. CASE WorkerQuery
  BY <1>2, <1>3 DEF WorkerQuery
<1>4. CASE WorkerOpened
  BY <1>2, <1>4 DEF WorkerOpened
<1>5. ASSUME Record("w"), worker \in {"check", "load"}, worker' \in {"open", "refuse", "process", "end"},
             worker = "load" => worker' \in {"process", "end"},
             UNCHANGED <<logger, running, trace, session, owns, handles, opened, misclosed, asked>>
      PROVE  EtwInv'
  <2>1. asked.w \in Answer /\ loss' = Recorded(asked.w)
    BY <1>5 DEF Record, EtwInv, EtwTyped
  <2>2. /\ loss' \in [known : BOOLEAN, base : Nat, lost : Nat, resets : Nat, id : Int, first : Nat, top : Nat]
        /\ LossCounted'
    BY <2>1, RecordedCounts DEF EtwInv
  <2> QED
    BY <1>5, <2>2 DEF EtwInv, EtwTyped, OwnLogger, OneHandle
<1>6. CASE WorkerCheck
  BY <1>5, <1>6 DEF WorkerCheck
<1>7. CASE WorkerLoad
  BY <1>5, <1>7 DEF WorkerLoad
<1>8. CASE WorkerOpen
  <2>1. CASE opened' = opened + 1 /\ handles' = handles \cup {opened + 1} /\ trace' = opened + 1 /\ worker' = "opened"
    <3>1. trace = 0
      BY <1>8 DEF WorkerOpen, EtwInv, OneHandle
    <3>2. opened \in Nat
      BY DEF EtwInv, EtwTyped
    <3>3. OneHandle'
      BY <1>8, <2>1, <3>1, <3>2 DEF WorkerOpen, EtwInv, OneHandle
    <3> QED
      BY <1>8, <2>1, <3>2, <3>3 DEF WorkerOpen, EtwInv, EtwTyped, LossCounted, OwnLogger
  <2>2. CASE worker' = "refuse" /\ UNCHANGED <<opened, handles, trace>>
    BY <1>8, <2>2 DEF WorkerOpen, EtwInv, EtwTyped, LossCounted, OwnLogger, OneHandle
  <2> QED
    BY <1>8, <2>1, <2>2 DEF WorkerOpen
<1>9. CASE WorkerRefuse(succeeds)
  BY <1>9, StopTrace DEF WorkerRefuse, EtwInv, EtwTyped
<1>10. CASE WorkerEnd(succeeds)
  BY <1>10, StopTrace DEF WorkerEnd, EtwInv, EtwTyped
<1>11. CASE WorkerReturns
  BY <1>11 DEF WorkerReturns, EtwInv, EtwTyped, LossCounted, OwnLogger, OneHandle
<1>12. CASE WorkerLast
  BY <1>12 DEF WorkerLast, EtwInv, EtwTyped, LossCounted, OwnLogger, OneHandle
<1> QED
  BY <1>1, <1>3, <1>4, <1>6, <1>7, <1>8, <1>9, <1>10, <1>11, <1>12 DEF Worker

(* The caller's, the hybrid thread's and the machine's part in the session *)
(* of events.                                                              *)
LEMMA EtwKeeps ==
  ASSUME EtwInv,
         \/ EtwStart
         \/ EtwTake /\ UNCHANGED <<logger, worker, session, owns, opened, loss, asked>>
         \/ EtwJoined
         \/ /\ Ask("h")
            /\ UNCHANGED <<logger, running, worker, trace, session, owns, handles, opened, misclosed, loss>>
         \/ /\ Record("h")
            /\ UNCHANGED <<logger, running, worker, trace, session, owns, handles, opened, misclosed, asked>>
         \/ LoggerLoses \/ OthersStop \/ OthersStart \/ EtwDies
  PROVE  EtwInv'
<1> USE DEF WorkerSteps
<1>1. CASE EtwStart
  <2>1. CASE running
    BY <1>1, <2>1 DEF EtwStart, etwVars, EtwInv, EtwTyped, LossCounted, OwnLogger, OneHandle
  <2>2. CASE ~running
    <3>1. NoLoss \in [known : BOOLEAN, base : Nat, lost : Nat, resets : Nat, id : Int, first : Nat, top : Nat]
      BY DEF NoLoss
    <3>2. LossCounted'
      BY <1>1, <2>2 DEF EtwStart, NoLoss, LossCounted
    <3> QED
      BY <1>1, <2>2, <3>1, <3>2 DEF EtwStart, EtwInv, EtwTyped, OwnLogger, OneHandle
  <2> QED
    BY <2>1, <2>2
<1>2. CASE EtwTake /\ UNCHANGED <<logger, worker, session, owns, opened, loss, asked>>
  <2>1. trace' = 0 /\ handles' = {} /\ misclosed' = FALSE
    BY <1>2, TakeCloses DEF EtwInv, EtwTake
  <2> QED
    BY <1>2, <2>1 DEF EtwTake, EtwInv, EtwTyped, LossCounted, OwnLogger, OneHandle
<1>3. CASE EtwJoined
  BY <1>3, StopTrace DEF EtwJoined, EtwInv, EtwTyped
<1>4. CASE /\ Ask("h")
           /\ UNCHANGED <<logger, running, worker, trace, session, owns, handles, opened, misclosed, loss>>
  <2>1. asked' \in [w : Answer, h : Answer]
    BY <1>4 DEF Ask, Readable, Unasked, EtwInv, EtwTyped, Answer
  <2> QED
    BY <1>4, <2>1 DEF EtwInv, EtwTyped, LossCounted, OwnLogger, OneHandle
<1>5. CASE /\ Record("h")
           /\ UNCHANGED <<logger, running, worker, trace, session, owns, handles, opened, misclosed, asked>>
  <2>1. asked.h \in Answer /\ loss' = Recorded(asked.h)
    BY <1>5 DEF Record, EtwInv, EtwTyped
  <2>2. /\ loss' \in [known : BOOLEAN, base : Nat, lost : Nat, resets : Nat, id : Int, first : Nat, top : Nat]
        /\ LossCounted'
    BY <2>1, RecordedCounts DEF EtwInv
  <2> QED
    BY <1>5, <2>2 DEF EtwInv, EtwTyped, OwnLogger, OneHandle
<1>6. CASE LoggerLoses
  BY <1>6 DEF LoggerLoses, EtwInv, EtwTyped, LossCounted, OwnLogger, OneHandle
<1>7. CASE OthersStop
  BY <1>7 DEF OthersStop, EtwInv, EtwTyped, LossCounted, OwnLogger, OneHandle
<1>8. CASE OthersStart
  BY <1>8 DEF OthersStart, Logger, EtwInv, EtwTyped, LossCounted, OwnLogger, OneHandle
<1>9. CASE EtwDies
  <2>1. /\ NoLoss \in [known : BOOLEAN, base : Nat, lost : Nat, resets : Nat, id : Int, first : Nat, top : Nat]
        /\ Unasked \in Answer
    BY DEF NoLoss, Unasked, Answer
  <2>2. LossCounted'
    BY <1>9 DEF EtwDies, NoLoss, LossCounted
  <2>3. OneHandle'
    BY <1>9 DEF EtwDies, OneHandle, EtwInv
  <2>4. EtwTyped'
    BY <1>9, <2>1 DEF EtwDies, EtwInv, EtwTyped
  <2>5. session' = 0 /\ owns' = FALSE /\ logger'.ours = FALSE /\ worker' = "none"
    BY <1>9 DEF EtwDies, EtwInv, EtwTyped
  <2>6. OwnLogger'
    BY <2>4, <2>5 DEF EtwTyped, OwnLogger
  <2> QED
    BY <2>2, <2>3, <2>4, <2>6 DEF EtwInv
<1> QED
  BY <1>1, <1>2, <1>3, <1>4, <1>5, <1>6, <1>7, <1>8, <1>9

(* A state of the ETW session that does not change keeps its invariant.    *)
LEMMA EtwStutters ==
  ASSUME EtwInv, UNCHANGED etwVars
  PROVE  EtwInv'
  BY DEF etwVars, EtwInv, EtwTyped, LossCounted, OwnLogger, OneHandle

-----------------------------------------------------------------------------
(* The proof session: the one m_session names is this process's and named  *)
(* by its own GUID; no other session of the machine is this process's; and *)
(* identities are never given twice.                                       *)
ProofInv ==
  /\ births \in Nat /\ started \in Nat /\ proofSession \in Nat
  /\ self \in [pid : {Self, Other}, birth : 0 .. births]
  /\ \A s \in sessions :
       /\ s = Named(s.id, s.owner, s.genuine)
       /\ s.id \in Int /\ s.id # 0 /\ s.id <= started
       /\ s.owner.birth \in 0 .. births
       /\ s.owner = self <=> s.id = proofSession
       /\ s.owner = self => s.genuine

(* Every step of the proof session, its thread and other programs keeps    *)
(* it.                                                                     *)
LEMMA ProofKeeps ==
  ASSUME ProofInv,
         \/ \E fails \in BOOLEAN : ProofStopBegin(fails)
         \/ ProofStopEnd \/ ProofSweep
         \/ proofSession = 0 /\ \E s, o, t \in BOOLEAN : ProofOpen(s, o, t)
         \/ ThreadEnters \/ ThreadReturns
         \/ OthersExit \/ OthersBorn \/ OthersStopProof \/ ProofDies
         \/ UNCHANGED proofVars
  PROVE  ProofInv'
<1>1. ASSUME NEW fails \in BOOLEAN, ProofStopBegin(fails)
      PROVE  ProofInv'
  <2>1. CASE fails /\ Up(proofSession)
    BY <1>1, <2>1 DEF ProofStopBegin, ProofStopped, Up, ProofInv
  <2>2. CASE ~(fails /\ Up(proofSession))
    <3>1. proofSession' = 0 /\ sessions' = {s \in sessions : s.id # proofSession}
      BY <1>1, <2>2 DEF ProofStopBegin, ProofStopped, Up
    <3> QED
      BY <1>1, <3>1 DEF ProofStopBegin, ProofInv
  <2> QED
    BY <2>1, <2>2
<1>2. CASE ProofStopEnd
  BY <1>2 DEF ProofStopEnd, ProofInv
<1>3. CASE ProofSweep
  BY <1>3 DEF ProofSweep, ProofInv
<1>4. ASSUME proofSession = 0, NEW s \in BOOLEAN, NEW o \in BOOLEAN, NEW t \in BOOLEAN, ProofOpen(s, o, t)
      PROVE  ProofInv'
  <2>1. CASE s
    BY <1>4, <2>1 DEF ProofOpen, ProofInv
  <2>2. CASE ~s
    BY <1>4, <2>2 DEF ProofOpen, ProofInv, Named
  <2> QED
    BY <2>1, <2>2
<1>5. CASE ThreadEnters \/ ThreadReturns
  BY <1>5 DEF ThreadEnters, ThreadReturns, ProofInv
<1>6. CASE OthersExit
  BY <1>6 DEF OthersExit, ProofInv
<1>7. CASE OthersBorn
  BY <1>7 DEF OthersBorn, ProofInv
<1>8. CASE OthersStopProof
  BY <1>8 DEF OthersStopProof, ProofInv
<1>9. CASE ProofDies
  BY <1>9 DEF ProofDies, ProofInv, Process
<1>10. CASE UNCHANGED proofVars
  BY <1>10 DEF proofVars, ProofInv
<1> QED
  BY <1>1, <1>2, <1>3, <1>4, <1>5, <1>6, <1>7, <1>8, <1>9, <1>10

-----------------------------------------------------------------------------
(* Where the caller stands tells what has ended: the worker between its    *)
(* join and the next Start, the proof session from its stop to its next.   *)
ControlInv ==
  /\ caller \in Callers /\ moves \in Nat
  /\ caller \in {"idle", "etw", "hybrid", "stop", "stopped"} => worker = "none"
  /\ caller \in {"idle", "etw", "join", "hybrid", "stop", "stopped"} => running = FALSE
  /\ caller \in {"idle", "etw", "clear", "cleared", "sweep", "open", "undone", "stopped"} => proofRunning = FALSE
  /\ caller \in {"idle", "etw", "clear", "sweep", "open"} => proofTrace = FALSE
  /\ caller \in {"sweep", "open"} => proofSession = 0

CaptureInv == EtwInv /\ ProofInv /\ ControlInv

(* The start, and every step, keep CaptureInv.                             *)
LEMMA CaptureInit == Init => CaptureInv
<1> SUFFICES ASSUME Init PROVE CaptureInv
  OBVIOUS
<1>1. EtwInv
  <2>1. /\ NoLoss \in [known : BOOLEAN, base : Nat, lost : Nat, resets : Nat, id : Int, first : Nat, top : Nat]
        /\ Unasked \in Answer
    BY DEF NoLoss, Unasked, Answer
  <2>2. LossCounted
    BY DEF Init, EtwInit, NoLoss, LossCounted
  <2>3. OneHandle
    BY DEF Init, EtwInit, OneHandle
  <2>4. logger \in [id : Nat, up : BOOLEAN, ours : BOOLEAN, usable : BOOLEAN, lost : Nat, stuck : BOOLEAN]
    <3>1. ASSUME NEW id \in Nat, NEW usable \in BOOLEAN
          PROVE  Logger(id, FALSE, usable)
                   \in [id : Nat, up : BOOLEAN, ours : BOOLEAN, usable : BOOLEAN, lost : Nat, stuck : BOOLEAN]
      <4>1. (id # 0) \in BOOLEAN
        OBVIOUS
      <4> QED
        BY <4>1 DEF Logger
    <3> QED
      BY <3>1 DEF Init, EtwInit
  <2>5. EtwTyped
    BY <2>1, <2>4 DEF Init, EtwInit, EtwTyped, WorkerSteps
  <2>6. ~logger.ours /\ session = 0 /\ owns = FALSE /\ worker = "none"
    BY DEF Init, EtwInit, Logger
  <2>7. OwnLogger
    BY <2>5, <2>6 DEF EtwTyped, OwnLogger
  <2> QED
    BY <2>2, <2>3, <2>5, <2>7 DEF EtwInv
<1>2. ProofInv
  BY ProofAssumption DEF Init, ProofInit, ProofInv, Process, Named
<1>3. ControlInv
  BY DEF Init, EtwInit, ProofInit, ControlInv, Callers, Starting, Stopping
<1> QED
  BY <1>1, <1>2, <1>3 DEF CaptureInv

(* The caller takes one step.                                              *)
LEMMA CallingKeeps ==
  ASSUME CaptureInv, CallStart \/ CallStop \/ Calling
  PROVE  CaptureInv'
<1> USE DEF Callers, Starting, Stopping, counters, Move
<1>1. CASE CallStart
  BY <1>1, EtwStutters, ProofKeeps DEF CallStart, CaptureInv, ControlInv, etwVars, proofVars
<1>2. CASE CallStop
  BY <1>2, EtwStutters, ProofKeeps DEF CallStop, Then, CaptureInv, ControlInv, etwVars, proofVars
<1>3. CASE StartEtw
  BY <1>3, EtwKeeps, ProofKeeps DEF StartEtw, Then, CaptureInv, ControlInv, proofVars
<1>4. CASE ClearedProof
  BY <1>4, EtwStutters, ProofKeeps DEF ClearedProof, ProofStopEnd, Then, CaptureInv, ControlInv, etwVars
<1>5. CASE StartSweep
  BY <1>5, EtwStutters, ProofKeeps DEF StartSweep, ProofSweep, Then, CaptureInv, ControlInv, etwVars
<1>6. CASE StartUndone
  BY <1>6, EtwStutters, ProofKeeps DEF StartUndone, ProofStopEnd, Then, CaptureInv, ControlInv, etwVars
<1>7. CASE StopTake
  BY <1>7, EtwKeeps, ProofKeeps DEF StopTake, EtwTake, Then, CaptureInv, ControlInv, proofVars
<1>8. CASE StopJoin
  BY <1>8, EtwKeeps, ProofKeeps DEF StopJoin, EtwJoined, Then, CaptureInv, ControlInv, proofVars
<1>9. CASE JoinHybrid
  BY <1>9, EtwStutters, ProofKeeps DEF JoinHybrid, CaptureInv, ControlInv, etwVars, proofVars
<1>10. CASE StopLast
  BY <1>10, EtwStutters, ProofKeeps DEF StopLast, ProofStopEnd, Then, CaptureInv, ControlInv, etwVars
<1>11. ASSUME NEW fails \in BOOLEAN,
              StartProof(fails) \/ StartOpen(fails) \/ StartUndo(fails) \/ StartThread(fails) \/ StopProof(fails)
       PROVE  CaptureInv'
  <2>1. CASE StartProof(fails)
    BY <1>11, <2>1, EtwStutters, ProofKeeps DEF StartProof, ProofStopBegin, Then, CaptureInv, ControlInv, etwVars
  <2>2. CASE StartOpen(fails)
    <3>1. \E s, o, t \in BOOLEAN : ProofOpen(s, o, t)
      BY <2>2 DEF StartOpen
    <3>2. ProofInv'
      BY <2>2, <3>1, ProofKeeps DEF StartOpen, CaptureInv, ControlInv
    <3>3. caller' = (IF fails THEN "undo" ELSE "thread") /\ moves' = moves
      BY <2>2 DEF StartOpen, Then
    <3> QED
      BY <2>2, <3>2, <3>3, EtwStutters DEF StartOpen, CaptureInv, ControlInv, etwVars
  <2>3. CASE StartUndo(fails)
    BY <1>11, <2>3, EtwStutters, ProofKeeps DEF StartUndo, ProofStopBegin, Then, CaptureInv, ControlInv, etwVars
  <2>4. CASE StartThread(fails)
    BY <1>11, <2>4, EtwStutters, ProofKeeps DEF StartThread, CaptureInv, ControlInv, etwVars, proofVars
  <2>5. CASE StopProof(fails)
    BY <1>11, <2>5, EtwStutters, ProofKeeps DEF StopProof, ProofStopBegin, Then, CaptureInv, ControlInv, etwVars
  <2> QED
    BY <1>11, <2>1, <2>2, <2>3, <2>4, <2>5
<1> QED
  BY <1>1, <1>2, <1>3, <1>4, <1>5, <1>6, <1>7, <1>8, <1>9, <1>10, <1>11 DEF Calling

LEMMA CaptureStep == CaptureInv /\ [Next]_vars => CaptureInv'
<1> SUFFICES ASSUME CaptureInv, [Next]_vars PROVE CaptureInv'
  OBVIOUS
<1> USE DEF Callers, Starting, Stopping, counters, Move
<1>1. CASE CallStart \/ CallStop \/ Calling
  BY <1>1, CallingKeeps
<1>2. CASE EtwThread
  <2>1. PICK succeeds \in BOOLEAN : Worker(succeeds)
    BY <1>2 DEF EtwThread
  <2>2. EtwInv' /\ ProofInv'
    BY <1>2, <2>1, WorkerKeeps, ProofKeeps DEF EtwThread, CaptureInv
  <2>3. worker # "none" /\ (running' = running \/ running' = FALSE) /\ worker' \in WorkerSteps
    BY <2>1, <2>2 DEF Worker, WorkerStart, WorkerQuery, WorkerCheck, WorkerOpen, WorkerRefuse, WorkerOpened,
       WorkerLoad, WorkerReturns, WorkerEnd, WorkerLast, EtwInv, EtwTyped
  <2> QED
    BY <1>2, <2>2, <2>3 DEF EtwThread, CaptureInv, ControlInv, proofVars
<1>3. CASE ProofThread
  BY <1>3, EtwStutters, ProofKeeps
  DEF ProofThread, ThreadEnters, ThreadReturns, CaptureInv, ControlInv, etwVars
<1>4. CASE HybridThread
  <2>1. EtwInv'
    <3>1. CASE HybridAsks /\ Ask("h")
      BY <3>1, EtwKeeps DEF HybridAsks, CaptureInv
    <3>2. CASE HybridAsks /\ UNCHANGED asked
      BY <3>2, EtwStutters DEF HybridAsks, CaptureInv, etwVars
    <3>3. CASE HybridRecords
      BY <3>3, EtwKeeps DEF HybridRecords, CaptureInv
    <3> QED
      BY <1>4, <3>1, <3>2, <3>3 DEF HybridThread, HybridAsks
  <2> QED
    BY <1>4, <2>1, ProofKeeps
    DEF HybridThread, HybridAsks, HybridRecords, CaptureInv, ControlInv, proofVars
<1>5. CASE Machine
  <2>1. CASE LoggerLoses /\ UNCHANGED <<proofVars, moves>> /\ UNCHANGED <<caller, hybrid, calls, faults>>
    <3>1. EtwInv' /\ ProofInv'
      BY <2>1, EtwKeeps, ProofKeeps DEF CaptureInv
    <3>2. UNCHANGED <<caller, worker, running, proofRunning, proofTrace, proofSession, moves>>
      BY <2>1 DEF LoggerLoses, proofVars
    <3>3. ControlInv'
      BY <3>2 DEF CaptureInv, ControlInv
    <3> QED
      BY <3>1, <3>3 DEF CaptureInv
  <2>2. CASE Move /\ (OthersStop \/ OthersStart) /\ UNCHANGED <<proofVars, caller, hybrid, calls, faults>>
    <3>1. EtwInv' /\ ProofInv'
      BY <2>2, EtwKeeps, ProofKeeps DEF CaptureInv
    <3>2. UNCHANGED <<caller, worker, running, proofRunning, proofTrace, proofSession>> /\ moves' = moves + 1
      BY <2>2 DEF OthersStop, OthersStart, proofVars
    <3>3. ControlInv'
      BY <3>2 DEF CaptureInv, ControlInv
    <3> QED
      BY <3>1, <3>3 DEF CaptureInv
  <2>3. CASE /\ Move
             /\ OthersExit \/ OthersBorn \/ OthersStopProof
             /\ UNCHANGED <<etwVars, caller, hybrid, calls, faults>>
    BY <2>3, EtwStutters, ProofKeeps
    DEF OthersExit, OthersBorn, OthersStopProof, CaptureInv, ControlInv, etwVars
  <2> QED
    BY <1>5, <2>1, <2>2, <2>3 DEF Machine
<1>6. CASE Dies
  <2>1. EtwInv' /\ ProofInv'
    BY <1>6, EtwKeeps, ProofKeeps DEF Dies, CaptureInv
  <2> QED
    BY <1>6, <2>1 DEF Dies, EtwDies, ProofDies, CaptureInv, ControlInv
<1>7. CASE UNCHANGED vars
  BY <1>7, EtwStutters, ProofKeeps DEF vars, CaptureInv, ControlInv, etwVars, proofVars
<1> QED
  BY <1>1, <1>2, <1>3, <1>4, <1>5, <1>6, <1>7 DEF Next

(* The invariant holds in every reachable state.                           *)
LEMMA Invariance == Spec => []CaptureInv
  BY CaptureInit, CaptureStep, PTL DEF Spec

-----------------------------------------------------------------------------
(* A Stop that has returned left no open trace handle, no handle closed    *)
(* twice, and no session of this process but one whose stop failed, under  *)
(* every interleaving of the four threads (HybridTrafficCollector.cpp,     *)
(* Start and Stop; EtwProcNetCollector.cpp, CloseTraceHandle).             *)
THEOREM StopsClean == Spec => []CleanStop
<1>1. ASSUME CaptureInv PROVE CleanStop
  <2>1. ~misclosed
    BY <1>1 DEF CaptureInv, EtwInv, OneHandle
  <2>2. ASSUME caller = "idle"
        PROVE  /\ handles = {} /\ ~proofTrace /\ ~running /\ ~proofRunning
               /\ logger.up /\ logger.ours => logger.stuck
               /\ \A s \in sessions : s.owner = self => s.id = proofSession
    <3>1. worker = "none" /\ running = FALSE /\ proofRunning = FALSE /\ proofTrace = FALSE
      BY <1>1, <2>2 DEF CaptureInv, ControlInv
    <3>2. handles = {}
      BY <1>1, <3>1 DEF CaptureInv, EtwInv, OneHandle
    <3>3. logger.up /\ logger.ours => logger.stuck
      BY <1>1, <3>1, Zenon DEF CaptureInv, EtwInv, OwnLogger
    <3>4. \A s \in sessions : s.owner = self => s.id = proofSession
      BY <1>1 DEF CaptureInv, ProofInv
    <3> QED
      BY <3>1, <3>2, <3>3, <3>4
  <2> QED
    BY <2>1, <2>2 DEF CleanStop
<1> QED
  BY <1>1, Invariance, PTL

(* The losses that are reported cover what the counter of the logger grew  *)
(* by between the first look and the latest, whichever thread recorded its *)
(* answer first (EtwProcNetCollector.cpp, GetDiagnostics).                 *)
THEOREM LossCovered == Spec => []LossKept
<1>1. CaptureInv => LossKept
  BY DEF CaptureInv, EtwInv, LossCounted, LossKept
<1> QED
  BY <1>1, Invariance, PTL

(* What a step of this program stops.                                      *)
Spared ==
  /\ logger.up /\ ~logger.ours => logger'.up \/ StartedEarlier
  /\ \A s \in sessions \ sessions' : s.genuine /\ (s.owner \in processes => s.owner = self)

(* Only a session m_session names, or one no living process owns, is       *)
(* stopped; and the logger of another program only in place of one that    *)
(* this process had started before it.                                     *)
LEMMA StopsItsOwn ==
  ASSUME CaptureInv, [Next]_vars, moves' = moves
  PROVE  Spared
<1>1. CASE logger' = logger /\ sessions' = sessions
  BY <1>1 DEF Spared
<1>2. ASSUME NEW succeeds \in BOOLEAN, StopTraceSession(succeeds), sessions' = sessions
      PROVE  Spared
  <2>1. CASE EndsLogger
    <3>1. session \in Nat /\ logger.id \in Nat /\ session # 0 /\ session <= logger.id
      BY <2>1 DEF EndsLogger, CaptureInv, EtwInv, EtwTyped, OwnLogger
    <3>2. ~logger.ours => session # logger.id
      BY <2>1 DEF EndsLogger, CaptureInv, EtwInv, OwnLogger
    <3>3. ~logger.ours => StartedEarlier
      BY <3>1, <3>2 DEF StartedEarlier
    <3> QED
      BY <1>2, <3>3 DEF Spared
  <2>2. CASE ~EndsLogger
    BY <1>2, <2>2 DEF StopTraceSession, Spared
  <2> QED
    BY <2>1, <2>2
<1>3. ASSUME NEW fails \in BOOLEAN, ProofStopBegin(fails), logger' = logger
      PROVE  Spared
  <2>1. \A s \in sessions \ sessions' : s.id = proofSession
    BY <1>3 DEF ProofStopBegin
  <2>2. \A s \in sessions \ sessions' : s.owner = self /\ s.genuine
    BY <2>1 DEF CaptureInv, ProofInv
  <2> QED
    BY <1>3, <2>2 DEF Spared
<1>4. CASE ProofSweep /\ logger' = logger
  <2>1. \A s \in sessions \ sessions' : Abandoned(s)
    BY <1>4 DEF ProofSweep
  <2>2. \A s \in sessions \ sessions' : s.genuine /\ s.owner \notin processes
    BY <2>1 DEF Abandoned
  <2> QED
    BY <1>4, <2>2 DEF Spared
<1>5. ASSUME NEW s \in BOOLEAN, NEW o \in BOOLEAN, NEW t \in BOOLEAN, ProofOpen(s, o, t), logger' = logger
      PROVE  Spared
  BY <1>5 DEF ProofOpen, Spared
<1>6. CASE CallStart \/ CallStop
  BY <1>1, <1>6 DEF CallStart, CallStop, etwVars, proofVars
<1>7. CASE Calling
  <2>1. CASE StartEtw \/ StopTake
    BY <1>1, <2>1 DEF StartEtw, StopTake, EtwStart, etwVars, proofVars
  <2>2. CASE StopJoin
    BY <1>2, <2>2 DEF StopJoin, EtwJoined, proofVars
  <2>3. CASE ClearedProof \/ StartUndone \/ StopLast \/ JoinHybrid
    BY <1>1, <2>3 DEF ClearedProof, StartUndone, StopLast, JoinHybrid, ProofStopEnd, etwVars, proofVars
  <2>4. CASE StartSweep
    BY <1>4, <2>4 DEF StartSweep, etwVars
  <2>5. ASSUME NEW fails \in BOOLEAN, StartProof(fails) \/ StartUndo(fails) \/ StopProof(fails)
        PROVE  Spared
    BY <1>3, <2>5 DEF StartProof, StartUndo, StopProof, etwVars
  <2>6. ASSUME NEW fails \in BOOLEAN, StartOpen(fails)
        PROVE  Spared
    BY <1>5, <2>6 DEF StartOpen, etwVars
  <2>7. ASSUME NEW fails \in BOOLEAN, StartThread(fails)
        PROVE  Spared
    BY <1>1, <2>7 DEF StartThread, etwVars, proofVars
  <2> QED
    BY <1>7, <2>1, <2>2, <2>3, <2>4, <2>5, <2>6, <2>7 DEF Calling
<1>8. CASE EtwThread
  <2>1. PICK succeeds \in BOOLEAN : Worker(succeeds)
    BY <1>8 DEF EtwThread
  <2>2. sessions' = sessions
    BY <1>8 DEF EtwThread, proofVars
  <2>3. CASE WorkerStart
    BY <2>2, <2>3 DEF WorkerStart, Spared
  <2>4. CASE WorkerRefuse(succeeds) \/ WorkerEnd(succeeds)
    BY <1>2, <2>2, <2>4 DEF WorkerRefuse, WorkerEnd
  <2> QED
    BY <1>1, <2>1, <2>2, <2>3, <2>4
    DEF Worker, WorkerQuery, WorkerCheck, WorkerOpen, WorkerOpened, WorkerLoad, WorkerReturns, WorkerLast
<1>9. CASE ProofThread \/ HybridThread
  BY <1>1, <1>9
  DEF ProofThread, ThreadEnters, ThreadReturns, HybridThread, HybridAsks, HybridRecords, etwVars, proofVars
<1>10. CASE Machine
  <2>1. ~Move
    BY DEF Move, CaptureInv, ControlInv
  <2>2. LoggerLoses /\ sessions' = sessions
    BY <1>10, <2>1 DEF Machine, proofVars
  <2>3. logger'.up = logger.up
    BY <2>2 DEF LoggerLoses, CaptureInv, EtwInv, EtwTyped
  <2> QED
    BY <2>2, <2>3 DEF Spared
<1>11. CASE UNCHANGED vars
  BY <1>1, <1>11 DEF vars, etwVars, proofVars
<1>12. ~Dies
  BY DEF Dies, Move, CaptureInv, ControlInv
<1> QED
  BY <1>6, <1>7, <1>8, <1>9, <1>10, <1>11, <1>12 DEF Next

(* No logger that this process joined, and no proof session of a process   *)
(* that is alive, is stopped by a step of this program; a logger another   *)
(* program started is stopped only while this process still holds the      *)
(* handle of an earlier one of its own, in whose name the stop goes        *)
(* (StopTraceSession, StopLocked and RemoveAbandonedProofSessions).        *)
THEOREM StopsNoOther == Spec => OthersKept
<1>1. CaptureInv /\ [Next]_vars => [moves' = moves => Spared]_vars
  BY StopsItsOwn
<1> QED
  BY <1>1, Invariance, PTL DEF Spec, OthersKept, Spared
=============================================================================
