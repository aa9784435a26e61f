----------------------------- MODULE EtwSession -----------------------------
(***************************************************************************)
(* The collector of legacy events (EtwProcNetCollector.cpp): a worker that *)
(* starts or joins the kernel logger, opens it and sits in ProcessTrace,   *)
(* and a caller that starts and stops the collector meanwhile.             *)
(*                                                                         *)
(* The kernel logger is one per machine: it may be up already, belong to   *)
(* another program, be stopped and started again by others, and count the  *)
(* events it lost.  Session and trace handles are numbers, 0 is none.  The *)
(* caller's control flow belongs to CaptureSessions; what it does here are *)
(* the operators EtwStart, EtwTake and EtwJoined.  Status texts and the    *)
(* events' contents are left out.                                          *)
(***************************************************************************)
EXTENDS Integers, FiniteSets

CONSTANTS
    MaxLoggers,     \* bound: sessions of the kernel logger, one after another
    MaxHandles,     \* bound: trace handles opened
    MaxLost         \* bound: events a session loses

ASSUME EtwAssumption == {MaxLoggers, MaxHandles, MaxLost} \subseteq Nat

VARIABLES
    logger,         \* the kernel logger: [id, up, ours, usable, lost, stuck]
    running,        \* m_running
    worker,         \* where WorkerLoop stands
    trace,          \* m_traceHandle
    session, owns,  \* m_sessionHandle and m_ownsSession
    handles,        \* trace handles: opened and not closed
    opened,         \* how many were opened
    misclosed,      \* a handle was closed that was not open
    loss,           \* m_diagnostics' losses and their baseline
    asked           \* what a GetDiagnostics of the worker or of the hybrid thread has read and not recorded

etwVars == <<logger, running, worker, trace, session, owns, handles, opened, misclosed, loss, asked>>

Loggers == [id : 0 .. MaxLoggers, up : BOOLEAN, ours : BOOLEAN, usable : BOOLEAN, lost : 0 .. MaxLost, stuck : BOOLEAN]
WorkerSteps == {"none", "begin", "query", "check", "refuse", "open", "opened", "load", "process", "end", "last", "done"}
NoLoss == [known |-> FALSE, base |-> 0, lost |-> 0, resets |-> 0, id |-> 0, first |-> 0, top |-> 0]
Unasked == [id |-> 0, lost |-> 0, usable |-> FALSE]

\* A session that has just been started; the one with number 0 never was.
Logger(id, ours, usable) ==
    [id |-> id, up |-> id # 0, ours |-> ours, usable |-> usable, lost |-> 0, stuck |-> FALSE]

EtwInit ==
    /\ logger \in {Logger(0, FALSE, FALSE), Logger(1, FALSE, TRUE)}
    /\ running = FALSE /\ worker = "none" /\ trace = 0 /\ session = 0 /\ owns = FALSE
    /\ handles = {} /\ opened = 0 /\ misclosed = FALSE
    /\ loss = NoLoss /\ asked = [w |-> Unasked, h |-> Unasked]

-----------------------------------------------------------------------------
(* The caller: Start, and Stop in two steps around the join *)

\* compare_exchange: a collector that runs is left alone.
EtwStart ==
    IF running THEN UNCHANGED etwVars
    ELSE /\ worker \in {"none", "done"}
         /\ running' = TRUE /\ worker' = "begin" /\ loss' = NoLoss
         /\ UNCHANGED <<logger, trace, session, owns, handles, opened, misclosed, asked>>

\* A slip: the handle is closed and left where the other thread finds it.
TakeTrace_bug ==
    /\ trace' = trace
    /\ handles' = handles \ {trace}
    /\ misclosed' = (misclosed \/ (trace # 0 /\ trace \notin handles))

\* CloseTrace of the handle that an exchange took out of m_traceHandle.
TakeTrace ==
    /\ trace' = 0
    /\ handles' = handles \ {trace}
    /\ misclosed' = (misclosed \/ (trace # 0 /\ trace \notin handles))

EtwTake == running' = FALSE /\ TakeTrace

\* A slip: a session that was found running is stopped, too.
EndsLogger_bug == logger.up

\* StopTraceSession: a program that joined the logger does not stop it.  It is stopped by its name,
\* which is the same for whoever started it; that this fails is not looked at.
EndsLogger == owns /\ session # 0 /\ logger.up

StopTraceSession(succeeds) ==
    /\ TakeTrace
    /\ logger' = IF EndsLogger THEN [logger EXCEPT !.up = ~succeeds, !.stuck = ~succeeds] ELSE logger
    /\ session' = 0 /\ owns' = FALSE

EtwEnded == worker \in {"none", "done"}
EtwJoined ==
    /\ EtwEnded /\ worker' = "none"
    /\ StopTraceSession(TRUE)
    /\ UNCHANGED <<running, opened, loss, asked>>

-----------------------------------------------------------------------------
(* GetDiagnostics: a query of the logger, then, under the lock, the record of it *)

Readable == [id |-> logger.id, lost |-> logger.lost, usable |-> logger.usable]
Ask(who) == asked' = [asked EXCEPT ![who] = IF logger.up THEN Readable ELSE Unasked]

\* A counter that went back belongs to another session: all of it is new.
Increment(base, value) == IF value >= base THEN value - base ELSE value

\* A slip: the increment replaces the sum.
Recorded_bug(q) ==
    LET base == IF loss.known THEN loss.base ELSE q.lost
    IN  IF q = Unasked THEN loss
        ELSE [known |-> TRUE, base |-> q.lost, lost |-> Increment(base, q.lost), resets |-> 0,
              id |-> IF loss.known /\ loss.id # q.id THEN -1 ELSE q.id,
              first |-> IF loss.known THEN loss.first ELSE q.lost,
              top |-> IF loss.known /\ loss.top > q.lost THEN loss.top ELSE q.lost]

\* id, first and top are observations: the session looked at since `first', and the most it showed.
Recorded(q) ==
    LET base == IF loss.known THEN loss.base ELSE q.lost
    IN  IF q = Unasked THEN loss
        ELSE [known |-> TRUE, base |-> q.lost, lost |-> loss.lost + Increment(base, q.lost),
              resets |-> loss.resets + (IF q.lost < base THEN 1 ELSE 0),
              id |-> IF loss.known /\ loss.id # q.id THEN -1 ELSE q.id,
              first |-> IF loss.known THEN loss.first ELSE q.lost,
              top |-> IF loss.known /\ loss.top > q.lost THEN loss.top ELSE q.lost]

Record(who) == loss' = Recorded(asked[who])

-----------------------------------------------------------------------------
(* The worker *)

\* StartTrace: a logger that is up is joined, whatever its flags.
WorkerStart ==
    /\ worker = "begin"
    /\ \/ /\ logger.up
          /\ worker' = "query" /\ owns' = FALSE /\ UNCHANGED <<logger, session>>
       \/ /\ ~logger.up /\ logger.id < MaxLoggers
          /\ logger' = Logger(logger.id + 1, TRUE, TRUE)
          /\ session' = logger.id + 1 /\ owns' = TRUE /\ worker' = "query"
       \/ worker' = "last" /\ UNCHANGED <<logger, session, owns>>
    /\ UNCHANGED <<running, trace, handles, opened, misclosed, loss, asked>>

\* The session must answer, carry network events and use a clock the collector knows.
WorkerQuery ==
    /\ worker = "query" /\ Ask("w") /\ worker' = "check"
    /\ UNCHANGED <<logger, running, trace, session, owns, handles, opened, misclosed, loss>>

WorkerCheck ==
    /\ worker = "check" /\ Record("w")
    /\ worker' = IF asked.w.usable THEN "open" ELSE "refuse"
    /\ UNCHANGED <<logger, running, trace, session, owns, handles, opened, misclosed, asked>>

\* Plain store of the new handle; a Stop may have taken the old one just before.
WorkerOpen ==
    /\ worker = "open"
    /\ \/ /\ opened < MaxHandles
          /\ opened' = opened + 1 /\ handles' = handles \cup {opened + 1} /\ trace' = opened + 1
          /\ worker' = "opened"
       \/ worker' = "refuse" /\ UNCHANGED <<opened, handles, trace>>
    /\ UNCHANGED <<logger, running, session, owns, misclosed, loss, asked>>

WorkerRefuse(succeeds) ==
    /\ worker = "refuse"
    /\ StopTraceSession(succeeds)
    /\ worker' = "last"
    /\ UNCHANGED <<running, opened, loss, asked>>

WorkerOpened ==
    /\ worker = "opened" /\ Ask("w") /\ worker' = "load"
    /\ UNCHANGED <<logger, running, trace, session, owns, handles, opened, misclosed, loss>>

\* A slip: m_running is not looked at again.
WorkerLoad_bug ==
    /\ worker = "load" /\ Record("w")
    /\ worker' = "process"
    /\ UNCHANGED <<logger, running, trace, session, owns, handles, opened, misclosed, asked>>

\* The handle is loaded, then m_running decides between ProcessTrace and nothing.
WorkerLoad ==
    /\ worker = "load" /\ Record("w")
    /\ worker' = IF running THEN "process" ELSE "end"
    /\ UNCHANGED <<logger, running, trace, session, owns, handles, opened, misclosed, asked>>

\* ProcessTrace returns when its handle is closed or its session has ended.
WorkerReturns ==
    /\ worker = "process" /\ (opened \notin handles \/ ~logger.up)
    /\ worker' = "end"
    /\ UNCHANGED <<logger, running, trace, session, owns, handles, opened, misclosed, loss, asked>>

WorkerEnd(succeeds) ==
    /\ worker = "end"
    /\ StopTraceSession(succeeds)
    /\ worker' = "last"
    /\ UNCHANGED <<running, opened, loss, asked>>

WorkerLast ==
    /\ worker = "last" /\ running' = FALSE /\ worker' = "done"
    /\ UNCHANGED <<logger, trace, session, owns, handles, opened, misclosed, loss, asked>>

Worker(succeeds) ==
    \/ WorkerStart \/ WorkerQuery \/ WorkerCheck \/ WorkerOpen \/ WorkerRefuse(succeeds) \/ WorkerOpened
    \/ WorkerLoad \/ WorkerReturns \/ WorkerEnd(succeeds) \/ WorkerLast

-----------------------------------------------------------------------------
(* The machine: the logger loses events, others stop and start it *)

LoggerLoses ==
    /\ logger.up /\ logger.lost < MaxLost
    /\ logger' = [logger EXCEPT !.lost = @ + 1]
    /\ UNCHANGED <<running, worker, trace, session, owns, handles, opened, misclosed, loss, asked>>

OthersStop ==
    /\ logger.up /\ logger' = [logger EXCEPT !.up = FALSE]
    /\ UNCHANGED <<running, worker, trace, session, owns, handles, opened, misclosed, loss, asked>>

OthersStart ==
    /\ ~logger.up /\ logger.id < MaxLoggers
    /\ \E usable \in BOOLEAN :
         logger' = Logger(logger.id + 1, FALSE, usable)
    /\ UNCHANGED <<running, worker, trace, session, owns, handles, opened, misclosed, loss, asked>>

\* The process dies: the logger stays up and is nobody's.
EtwDies ==
    /\ logger' = [logger EXCEPT !.ours = FALSE, !.stuck = FALSE]
    /\ running' = FALSE /\ worker' = "none" /\ trace' = 0 /\ session' = 0 /\ owns' = FALSE
    /\ handles' = {} /\ loss' = NoLoss /\ asked' = [w |-> Unasked, h |-> Unasked]
    /\ UNCHANGED <<opened, misclosed>>
=============================================================================
