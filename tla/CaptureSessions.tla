--------------------------- MODULE CaptureSessions ---------------------------
(***************************************************************************)
(* The two capture sessions under the hybrid collector that starts and     *)
(* stops them (HybridTrafficCollector.cpp, Start, Stop and Run).           *)
(*                                                                         *)
(* Four threads: the caller of Start and Stop, serialised by               *)
(* m_controlMutex; the worker of the ETW session; the thread of the proof  *)
(* session; and the hybrid thread, which asks for the losses.  A failing   *)
(* call of the system, a death of the process and each move of another     *)
(* program is counted, and their sum is bounded.                           *)
(***************************************************************************)
EXTENDS EtwSession, ProofSession

CONSTANT Budget     \* bound: starts, failing calls and moves of others, all together

ASSUME CaptureAssumption == Budget \in Nat

VARIABLES
    caller,          \* where Start or Stop stands
    hybrid,          \* the hybrid thread
    calls, faults, moves

vars == <<etwVars, proofVars, caller, hybrid, calls, faults, moves>>
counters == <<calls, faults, moves>>

Affordable == calls + faults + moves < Budget

Starting == {"etw", "clear", "cleared", "sweep", "open", "undo", "undone", "thread"}
Stopping == {"take", "join", "hybrid", "stop", "stopped"}
Callers == {"idle", "running"} \cup Starting \cup Stopping

Init ==
    /\ EtwInit /\ ProofInit
    /\ caller = "idle" /\ hybrid = "none" /\ calls = 0 /\ faults = 0 /\ moves = 0

\* A call that may fail, at the price of a fault.
Failing(fails) == IF fails THEN Affordable /\ faults' = faults + 1 ELSE UNCHANGED faults
Then(step) == caller' = step /\ UNCHANGED <<hybrid, calls, moves>>

-----------------------------------------------------------------------------
(* The caller *)

CallStart ==
    /\ caller = "idle" /\ Affordable
    /\ caller' = "etw" /\ calls' = calls + 1
    /\ UNCHANGED <<etwVars, proofVars, hybrid, faults, moves>>

StartEtw == caller = "etw" /\ EtwStart /\ Then("clear") /\ UNCHANGED <<proofVars, faults>>

\* proof.Start: running is refused, what an earlier Stop left is stopped first.
StartProof(fails) ==
    /\ caller = "clear" /\ ~proofRunning
    /\ ProofStopBegin(fails) /\ Failing(fails)
    /\ Then("cleared") /\ UNCHANGED etwVars

\* A session that still cannot be stopped leaves the collector without proof.
ClearedProof ==
    /\ caller = "cleared" /\ ProofStopEnd
    /\ Then(IF proofSession = 0 THEN "sweep" ELSE "thread") /\ UNCHANGED <<etwVars, faults>>

StartSweep ==
    /\ caller = "sweep" /\ ProofSweep
    /\ Failing(\E s \in sessions' : Abandoned(s))
    /\ Then("open") /\ UNCHANGED etwVars

StartOpen(fails) ==
    /\ caller = "open" /\ Failing(fails)
    /\ IF fails
       THEN \/ ProofOpen(TRUE, FALSE, FALSE) \/ ProofOpen(FALSE, TRUE, FALSE) \/ ProofOpen(FALSE, FALSE, TRUE)
       ELSE ProofOpen(FALSE, FALSE, FALSE)
    /\ Then(IF fails THEN "undo" ELSE "thread") /\ UNCHANGED etwVars

StartUndo(fails) ==
    /\ caller = "undo" /\ ProofStopBegin(fails) /\ Failing(fails)
    /\ Then("undone") /\ UNCHANGED etwVars

StartUndone == caller = "undone" /\ ProofStopEnd /\ Then("thread") /\ UNCHANGED <<etwVars, faults>>

\* Without a thread the collector stops what it started.
StartThread(fails) ==
    /\ caller = "thread" /\ Failing(fails)
    /\ caller' = IF fails THEN "take" ELSE "running"
    /\ hybrid' = IF fails THEN "none" ELSE "loop"
    /\ UNCHANGED <<etwVars, proofVars, calls, moves>>

CallStop == caller = "running" /\ Then("take") /\ UNCHANGED <<etwVars, proofVars, faults>>

StopTake ==
    /\ caller = "take" /\ EtwTake /\ Then("join")
    /\ UNCHANGED <<logger, worker, session, owns, opened, loss, asked, proofVars, faults>>

StopJoin == caller = "join" /\ EtwJoined /\ Then("hybrid") /\ UNCHANGED <<proofVars, faults>>

JoinHybrid ==
    /\ caller = "hybrid" /\ hybrid \in {"none", "done"}
    /\ caller' = "stop" /\ hybrid' = "none"
    /\ UNCHANGED <<etwVars, proofVars, counters>>

StopProof(fails) ==
    /\ caller = "stop" /\ ProofStopBegin(fails) /\ Failing(fails)
    /\ Then("stopped") /\ UNCHANGED etwVars

StopLast == caller = "stopped" /\ ProofStopEnd /\ Then("idle") /\ UNCHANGED <<etwVars, faults>>

Calling ==
    \/ StartEtw \/ ClearedProof \/ StartSweep \/ StartUndone \/ StopTake \/ StopJoin \/ JoinHybrid \/ StopLast
    \/ \E fails \in BOOLEAN :
         StartProof(fails) \/ StartOpen(fails) \/ StartUndo(fails) \/ StartThread(fails) \/ StopProof(fails)

-----------------------------------------------------------------------------
(* The other threads *)

EtwThread ==
    /\ \E succeeds \in BOOLEAN : Worker(succeeds) /\ Failing(~succeeds /\ worker \in {"refuse", "end"} /\ EndsLogger)
    /\ UNCHANGED <<proofVars, caller, hybrid, calls, moves>>

ProofThread ==
    (ThreadEnters \/ ThreadReturns) /\ UNCHANGED <<etwVars, caller, hybrid, counters>>

\* The hybrid thread looks at m_running, asks for the losses and records them.
Stopped == caller \in Stopping
HybridAsks ==
    /\ hybrid = "loop"
    /\ IF Stopped THEN hybrid' = "done" /\ UNCHANGED asked ELSE hybrid' = "asked" /\ Ask("h")
    /\ UNCHANGED <<logger, running, worker, trace, session, owns, handles, opened, misclosed, loss,
                   proofVars, caller, counters>>
HybridRecords ==
    /\ hybrid = "asked" /\ hybrid' = "loop" /\ Record("h")
    /\ UNCHANGED <<logger, running, worker, trace, session, owns, handles, opened, misclosed, asked,
                   proofVars, caller, counters>>
HybridThread == HybridAsks \/ HybridRecords

-----------------------------------------------------------------------------
(* The machine *)

Move == Affordable /\ moves' = moves + 1
Machine ==
    \/ LoggerLoses /\ UNCHANGED <<proofVars, moves>> /\ UNCHANGED <<caller, hybrid, calls, faults>>
    \/ Move /\ (OthersStop \/ OthersStart) /\ UNCHANGED <<proofVars, caller, hybrid, calls, faults>>
    \/ Move /\ (OthersExit \/ OthersBorn \/ OthersStopProof) /\ UNCHANGED <<etwVars, caller, hybrid, calls, faults>>

Dies ==
    /\ caller # "idle" /\ Move /\ EtwDies /\ ProofDies
    /\ caller' = "idle" /\ hybrid' = "none" /\ UNCHANGED <<calls, faults>>

Next == CallStart \/ CallStop \/ Calling \/ EtwThread \/ ProofThread \/ HybridThread \/ Machine \/ Dies

\* Every thread goes on when it can: a join ends, ProcessTrace returns when it may.
Fairness == WF_vars(Calling) /\ WF_vars(EtwThread) /\ WF_vars(ProofThread) /\ WF_vars(HybridThread)

Spec == Init /\ [][Next]_vars /\ Fairness

-----------------------------------------------------------------------------
(* Properties *)

\* When Stop has returned, every trace handle was closed, and closed once, whichever of the two
\* threads came first, and no session of this process is left but one whose stop failed; of the
\* proof sessions that is the one m_session still names, so that the next Start tries again.
CleanStop ==
    /\ ~misclosed
    /\ caller = "idle" => /\ handles = {} /\ ~proofTrace /\ ~running /\ ~proofRunning
                          /\ logger.up /\ logger.ours => logger.stuck
                          /\ \A s \in sessions : s.owner = self => s.id = proofSession

\* This program never stops a kernel logger that it joined, or any other it did not start, nor the
\* proof session of a process that is alive, nor one whose name is not proved by its GUID.  One
\* logger is excepted: after this process has started one itself (session is its number), others
\* may stop that and start their own, and the stop by name takes the one that is there now.
StartedEarlier == session \in 1 .. logger.id - 1
OthersKept ==
    [][moves' = moves =>
        /\ logger.up /\ ~logger.ours => logger'.up \/ StartedEarlier
        /\ \A s \in sessions \ sessions' : s.genuine /\ (s.owner \in processes => s.owner = self)]_vars

\* No loss is left out: while the answers are of one session, the reported losses are at least
\* what that session lost between the first look and the latest, whichever thread recorded first
\* (README: Diagnostics reports ETW loss).
LossKept == loss.known /\ loss.id # -1 => loss.lost >= loss.top - loss.first

\* Stop ends: no thread waits for another for ever.
StopEnds == caller \in Stopping ~> caller = "idle"
=============================================================================
