----------------------------- MODULE MCProgress -----------------------------
(***************************************************************************)
(* Instances under fairness, for TLC, of the parts of a worker: attempts,  *)
(* the heartbeat connection, dispatch, runs and the process; and of a task *)
(* that nobody works on.  `part` is the instance that runs: it is chosen   *)
(* from Parts at first and never changes.  The process and the runs stay   *)
(* as they begin while another part runs, and the variables of the other   *)
(* components stay Off.                                                    *)
(***************************************************************************)
EXTENDS WorkerProcess, WorkerRun, Integers, Bags

CONSTANTS Parts, w1, n1, p1, NoWorker, NoName

VARIABLES
    part,
    attemptRow, attemptLeft, a, ask, beat, age, ghost, pc, err, call, recorded,
    round, waiting, tx, conn, closed, holders, closing, entry,
    todo, ready, notice, execs, claims, reserved, cohort, wholeClaims, activeSlots, empty, loop, ctl,
    now, def, rows, outcome, history, waits, issued, fenceSeq, readySeq, paused, scanDue

attempt == <<attemptRow, attemptLeft, a, ask, beat, age, ghost, pc, err, call, recorded>>
connection == <<round, waiting, tx, conn, closed, holders, closing, entry>>
dispatch == <<todo, ready, notice, execs, claims, reserved, cohort, wholeClaims, activeSlots, empty,
              loop, ctl>>
tables == <<now, def, rows, outcome, history, waits, issued, fenceSeq, readySeq, paused, scanDue>>
mcvars == <<part, attempt, connection, dispatch, runVars, vars, tables>>

\* A timer or a boundary that is not set, and a variable that is not used.
Off == -1

NoAttempt ==
    /\ attemptRow = Off /\ attemptLeft = Off /\ a = Off /\ ask = Off /\ beat = Off /\ age = Off
    /\ ghost = Off /\ pc = Off /\ err = Off /\ call = Off /\ recorded = Off

NoConnection ==
    /\ round = Off /\ waiting = Off /\ tx = Off /\ conn = Off /\ closed = Off
    /\ holders = Off /\ closing = Off /\ entry = Off

NoDispatch ==
    /\ todo = Off /\ ready = Off /\ notice = Off /\ execs = Off /\ claims = Off /\ reserved = Off
    /\ cohort = Off /\ wholeClaims = Off /\ activeSlots = Off /\ empty = Off /\ loop = Off /\ ctl = Off

NoTables ==
    /\ now = Off /\ def = Off /\ rows = Off /\ outcome = Off /\ history = Off /\ waits = Off
    /\ issued = Off /\ fenceSeq = Off /\ readySeq = Off /\ paused = Off /\ scanDue = Off

-----------------------------------------------------------------------------
(* The instances.                                                          *)

\* An attempt that reaches its deadline.
Ends == INSTANCE TaskAttempt WITH
    row <- attemptRow, left <- attemptLeft,
    Lease <- 1, Deadline <- 1, Timeout <- Off, Lead <- 0, Outside <- {}

\* An attempt whose rounds hang.
Lost == INSTANCE TaskAttempt WITH
    row <- attemptRow, left <- attemptLeft,
    Lease <- 2, Deadline <- Off, Timeout <- Off, Lead <- 0, Outside <- {}

\* A worker that holds, closes and holds again the heartbeat connection.
Gate == INSTANCE ReservedConnection WITH
    Workers <- {w1}, RoundTimes <- {1, 2}, BatchCounts <- {1}, Lasting <- {}, Attempts <- 2

\* A worker of one slot whose poll timer never fires.
Wakes == INSTANCE WorkerDispatch WITH
    Concurrency <- 1, Cohorts <- 1, RefillShare <- 1, FastTier <- TRUE, Backlog <- 0, Known <- 2,
    Unknown <- 0, Controls <- 1, Polls <- FALSE, Faults <- FALSE

\* A task with an execution timeout and at times a deadline, and a wait with a timeout.
Bounded ==
    {[max |-> 2, deadline |-> 2, timeout |-> 1, priority |-> 0],
     [max |-> 2, deadline |-> 50, timeout |-> 2, priority |-> 0]}

Task == INSTANCE TaskLifecycleProps WITH
    runtime <- rows, Tasks <- {1}, Workers <- {w1}, Definitions <- Bounded, StartDelays <- {0}, RetryDelays <- {0},
    WaitNames <- {n1}, WaitSpans <- {1}, Payloads <- {p1}, PauseCalls <- {}, Lease <- 1, Limit <- 1,
    Slip <- 0, Never <- 50, Horizon <- 3, MaxFence <- 2

AttemptOnly == NoConnection /\ NoDispatch /\ NoTables

MCInit ==
    /\ part \in Parts
    /\ Init /\ RunInit
    /\ \/ part = "ends" /\ Ends!Init /\ AttemptOnly
       \/ part = "lost" /\ Lost!Init /\ AttemptOnly
       \/ part = "gate" /\ Gate!Init /\ NoAttempt /\ NoDispatch /\ NoTables
       \/ part = "wakes" /\ Wakes!Init /\ NoAttempt /\ NoConnection /\ NoTables
       \/ part \in {"runs", "exits"} /\ NoAttempt /\ NoConnection /\ NoDispatch /\ NoTables
       \/ part = "task" /\ Task!Init /\ NoAttempt /\ NoConnection /\ NoDispatch

\* A step of the instance that runs.
InEnds(A) == part = "ends" /\ A /\ UNCHANGED <<part, connection, dispatch, runVars, vars, tables>>
InLost(A) == part = "lost" /\ A /\ UNCHANGED <<part, connection, dispatch, runVars, vars, tables>>
InGate(A) == part = "gate" /\ A /\ UNCHANGED <<part, attempt, dispatch, runVars, vars, tables>>
InWakes(A) ==
    part = "wakes" /\ A /\ UNCHANGED <<part, attempt, connection, runVars, vars, tables>>
InRuns(A) == part = "runs" /\ A /\ UNCHANGED <<part, attempt, connection, dispatch, vars, tables>>
InExits(A) ==
    part = "exits" /\ A /\ UNCHANGED <<part, attempt, connection, dispatch, runVars, tables>>
InTask(A) ==
    part = "task" /\ A /\ UNCHANGED <<part, attempt, connection, dispatch, runVars, vars>>

MCNext ==
    \/ InEnds(Ends!Next) \/ InLost(Lost!Next) \/ InGate(Gate!Next) \/ InWakes(Wakes!Next)
    \/ InRuns(RunNext) \/ InExits(Next) \/ InTask(Task!Next)

MCSpec == MCInit /\ [][MCNext]_mcvars

-----------------------------------------------------------------------------
(* Fairness.  One instance runs, so a condition on several of them is that  *)
(* on each.                                                                *)

\* Attempts: the clock runs, due timers fire, ticks recover, executeTask goes on, and the
\* statements it awaits are answered or fail.  Nothing is assumed of the handler, of heartbeat
\* rounds or of the expiry request, which may hang.
\* The connection: timers fire, close() goes on, and a pool that is asked for ever lends a
\* connection at last.  Statements need not be answered.
\* Dispatch: statements are answered, handlers return, notifications arrive, and the event loop
\* runs.  The poll timer is not needed; a release wait ends.
\* Runs and processes: the event loop runs every timer and continuation; nothing makes a registry
\* statement, a handler, adapter() or close() end.
\* The task: the clock runs, the scan becomes due, and now and then a tick meets no failure.
Fairness ==
    /\ WF_mcvars(\/ InEnds(Ends!Elapse) \/ InLost(Lost!Elapse) \/ InGate(Gate!Elapse)
               \/ InWakes(Wakes!Pass \/ Wakes!NextEvent \/ Wakes!Drain)
               \/ InRuns(RunStep) \/ InExits(Expire) \/ InTask(Task!Advance))
    /\ WF_mcvars(\/ InEnds(Ends!Watchdog) \/ InLost(Lost!Watchdog) \/ InGate(Gate!RetryConnect)
               \/ InWakes(Wakes!Notified) \/ InExits(ExpiryExits) \/ InTask(Task!ScanBecomesDue))
    /\ WF_mcvars(\/ InEnds(Ends!ExpirationTimer) \/ InLost(Lost!ExpirationTimer) \/ InGate(Gate!Refused)
               \/ InWakes(Wakes!DeadlinePasses) \/ InExits(RunnerEnds))
    /\ WF_mcvars(\/ InEnds(Ends!Recovered) \/ InLost(Lost!Recovered) \/ InGate(Gate!TimedOut(w1))
               \/ InWakes(Wakes!GateOpens))
    /\ WF_mcvars(\/ InEnds(Ends!Execute) \/ InLost(Lost!Execute) \/ InGate(Gate!CloseSettled(w1))
               \/ InWakes(\E c \in BagToSet(claims) : Wakes!DelayEnds(c) \/ Wakes!ClaimAnswered(c)))
    /\ WF_mcvars(\/ InEnds(Ends!Statements) \/ InLost(Lost!Statements)
               \/ InWakes(\E e \in BagToSet(execs) :
                              \/ Wakes!HandlerEnds(e) \/ Wakes!FusedAnswered(e) \/ Wakes!ExecutionEnds(e)))
    /\ SF_mcvars(InGate(Gate!ConnectArrives) \/ InTask(Task!CleanTick))

FairSpec == MCSpec /\ Fairness

-----------------------------------------------------------------------------
(* Properties.  As part never changes, each stands for one of each instance. *)

\* Something was asked to end: a handler has returned and its attempt settles; stop() was called
\* on a dispatching worker; stop() was called for a run, perhaps before its turn came; a signal
\* or an unexpected failure reached the process; an activation is over, and leaves its task; a
\* task is past the deadline of its row.
Asked ==
    \/ part = "ends" /\ Ends!Settles
    \/ part = "wakes" /\ ctl.stopping
    \/ part = "runs" /\ run.asked
    \/ part = "exits" /\ Caused
    \/ part = "lost" /\ Lost!Done
    \/ part = "task" /\ Task!Live(1) /\ Task!PastDeadline(1)

\* It has ended: the slot is free, the dispatch loop has returned, the run has returned, the
\* process has exited, the row is settled or back in the hands of recovery, the task has an
\* outcome.
Over ==
    \/ part = "ends" /\ Ends!Done
    \/ part = "wakes" /\ Wakes!Ended
    \/ part = "runs" /\ ~run.asked
    \/ part = "exits" /\ ~Alive
    \/ part = "lost" /\ ~Lost!Mine
    \/ part = "task" /\ outcome[1].state # "none"

\* What is to end ends, whatever hangs: an expiry request in flight does not hold back the
\* settlement (settleExpiration), a registry statement not the run (unwindDeadline), a handler,
\* adapter() or close() not the process (runWorkerProcess); handlers that return are all that
\* dispatchLoop waits for, and after stop() of the heartbeats no round renews the lease.
EndsWhenAsked == Asked ~> Over

\* Something waits to be noticed: a ready task that a handler of this worker can run; a handler
\* that runs on a task lease recovery has taken back; a lost reservation that somebody holds; a
\* task that waits for a signal or a decision which nobody sends.
Unnoticed ==
    \/ part = "wakes" /\ Wakes!TaskWaits
    \/ part = "lost" /\ Lost!RunsLost
    \/ part = "gate" /\ Gate!GateClosed
    \/ part = "task" /\ rows[1].state = "scheduled" /\ rows[1].runAt = 50

\* It is noticed in the end: the task is claimed without the help of the poll timer, as no
\* notification is lost between a claim that found nothing and the wait after it (wakeDispatch);
\* the handler is aborted however many heartbeat rounds fail or hang (the watchdog of renewLease);
\* the reservation is made again while the pool can lend a connection (scheduleRetry); the timeout
\* of the wait became the deadline of its row, which recovery takes (wait_for_signal_v1).
NothingStaysUnnoticed == Unnoticed ~> ~Unnoticed
=============================================================================
