---------------------------- MODULE ProofSession ----------------------------
(***************************************************************************)
(* The collector of proof events (TcpProofCollector.cpp): a private trace  *)
(* session named after its process, which outlives the process when that   *)
(* dies, and a thread in ProcessTrace.                                     *)
(*                                                                         *)
(* A process is [pid, birth]; pids are used again.  A session of the       *)
(* machine is [id, owner, genuine]: the process its name gives, and        *)
(* whether the GUID in its name is its own.  The caller's control flow     *)
(* belongs to CaptureSessions; m_control makes Start and Stop exclude each *)
(* other, so StopLocked is the two steps around its join.                  *)
(***************************************************************************)
EXTENDS Integers, FiniteSets

CONSTANTS
    Self, Other,      \* the pid this program first has, and one of another program
    Denied,           \* pids of processes that refuse to be opened
    MaxBirths,        \* bound: processes born
    MaxProofs         \* bound: proof sessions started

ASSUME ProofAssumption == Self # Other /\ {MaxBirths, MaxProofs} \subseteq Nat

VARIABLES
    processes, self, births,   \* those alive, this one, and how many were born
    sessions,                  \* proof sessions of the machine
    proofSession,              \* m_session, 0 is none
    proofTrace,                \* m_trace is open
    proofClosed,               \* its handle has been closed
    proofRunning,              \* m_running
    proofThread,               \* where Run stands
    started                    \* sessions started so far

proofVars == <<processes, self, births, sessions, proofSession, proofTrace, proofClosed,
               proofRunning, proofThread, started>>

Process(pid, birth) == [pid |-> pid, birth |-> birth]
Named(id, owner, genuine) == [id |-> id, owner |-> owner, genuine |-> genuine]

ProofInit ==
    /\ self = Process(Self, 2) /\ processes = {self, Process(Other, 2)} /\ births = 2
    /\ sessions = {Named(-1, Process(Other, 2), TRUE), Named(-2, Process(Self, 1), TRUE),
                   Named(-3, Process(Other, 1), FALSE)}
    /\ proofSession = 0 /\ proofTrace = FALSE /\ proofClosed = FALSE
    /\ proofRunning = FALSE /\ proofThread = "none" /\ started = 0

Up(id) == \E s \in sessions : s.id = id

-----------------------------------------------------------------------------
(* Start *)

\* A slip: a process that refuses to be opened passes for a dead one.
Abandoned_bug(s) ==
    /\ s.genuine
    /\ \A p \in processes : p.pid = s.owner.pid => p.birth # s.owner.birth \/ p.pid \in Denied

\* No process has the pid, or one that can be asked has another birth.
Abandoned(s) ==
    /\ s.genuine
    /\ \A p \in processes : p.pid = s.owner.pid => p.birth # s.owner.birth /\ p.pid \notin Denied

\* RemoveAbandonedProofSessions: the query, or the stop of a session, may fail.
ProofSweep ==
    /\ \E failed \in SUBSET {s \in sessions : Abandoned(s)} :
         sessions' = {s \in sessions : ~Abandoned(s)} \cup failed
    /\ UNCHANGED <<processes, self, births, proofSession, proofTrace, proofClosed, proofRunning, proofThread, started>>

\* StartTrace, EnableTraceEx2, OpenTrace and the thread: each may fail, and leaves what came before.
ProofOpen(startFails, openFails, threadFails) ==
    /\ IF startFails
       THEN UNCHANGED <<sessions, proofSession, started, proofTrace, proofClosed, proofRunning, proofThread>>
       ELSE /\ started < MaxProofs
            /\ started' = started + 1 /\ proofSession' = started + 1
            /\ sessions' = sessions \cup {Named(started + 1, self, TRUE)}
            /\ proofTrace' = ~openFails /\ proofClosed' = FALSE
            /\ proofRunning' = ~openFails
            /\ proofThread' = IF openFails \/ threadFails THEN "none" ELSE "run"
    /\ UNCHANGED <<processes, self, births>>

-----------------------------------------------------------------------------
(* StopLocked *)

\* A slip: m_session is cleared whether or not the stop succeeded.
ProofStopped_bug(fails) == TRUE

\* The session is gone, or a failed stop keeps m_session for another try.
ProofStopped(fails) == proofSession = 0 \/ ~Up(proofSession) \/ ~fails

\* A session that could not be stopped leaves ProcessTrace only when its handle is closed.
ProofStopBegin(fails) ==
    /\ proofRunning' = FALSE
    /\ sessions' = IF fails THEN sessions ELSE {s \in sessions : s.id # proofSession}
    /\ proofSession' = IF ProofStopped(fails) THEN 0 ELSE proofSession
    /\ proofClosed' = (proofClosed \/ (~ProofStopped(fails) /\ proofTrace))
    /\ UNCHANGED <<processes, self, births, proofTrace, proofThread, started>>

ProofEnded == proofThread \in {"none", "done"}
ProofStopEnd ==
    /\ ProofEnded /\ proofThread' = "none"
    /\ proofTrace' = FALSE /\ proofClosed' = TRUE
    /\ UNCHANGED <<processes, self, births, sessions, proofSession, proofRunning, started>>

-----------------------------------------------------------------------------
(* Run *)

ThreadEnters ==
    /\ proofThread = "run" /\ proofThread' = "process"
    /\ UNCHANGED <<processes, self, births, sessions, proofSession, proofTrace, proofClosed, proofRunning, started>>

\* ProcessTrace returns when its handle is closed or its session, the last one started, has ended.
ThreadReturns ==
    /\ proofThread = "process" /\ (proofClosed \/ ~Up(started))
    /\ proofThread' = "done" /\ proofRunning' = FALSE
    /\ UNCHANGED <<processes, self, births, sessions, proofSession, proofTrace, proofClosed, started>>

-----------------------------------------------------------------------------
(* The machine *)

\* Another process ends; its session, too, or it stays behind.
OthersExit ==
    /\ \E p \in processes \ {self} :
         /\ processes' = processes \ {p}
         /\ sessions' \in {sessions, {s \in sessions : s.owner # p}}
    /\ UNCHANGED <<self, births, proofSession, proofTrace, proofClosed, proofRunning, proofThread, started>>

\* A pid is used again.
OthersBorn ==
    /\ births < MaxBirths /\ births' = births + 1
    /\ \E pid \in {Self, Other} \ {p.pid : p \in processes} :
         processes' = processes \cup {Process(pid, births + 1)}
    /\ UNCHANGED <<self, sessions, proofSession, proofTrace, proofClosed, proofRunning, proofThread, started>>

\* Another program stops this one's session.
OthersStopProof ==
    /\ Up(proofSession) /\ sessions' = {s \in sessions : s.id # proofSession}
    /\ UNCHANGED <<processes, self, births, proofSession, proofTrace, proofClosed, proofRunning, proofThread, started>>

\* This process dies and is started again, perhaps with another pid.
ProofDies ==
    /\ births < MaxBirths /\ births' = births + 1
    /\ \E pid \in {Self, Other} \ {p.pid : p \in processes \ {self}} :
         /\ self' = Process(pid, births + 1)
         /\ processes' = (processes \ {self}) \cup {Process(pid, births + 1)}
    /\ proofSession' = 0 /\ proofTrace' = FALSE /\ proofClosed' = FALSE
    /\ proofRunning' = FALSE /\ proofThread' = "none"
    /\ UNCHANGED <<sessions, started>>
=============================================================================
