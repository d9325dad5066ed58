---------------------------- MODULE WorkerProcess ----------------------------
(***************************************************************************)
(* The worker process runner: startWorkerProcess builds the adapter, the   *)
(* workers and the probe server, runs the workers and shuts all of them    *)
(* down; runWorkerProcess adds SIGINT and SIGTERM, a deadline on the       *)
(* shutdown, an unwind window after it, and the exit of the process.       *)
(*                                                                         *)
(* A handler may never return and adapter() or close() may never answer:   *)
(* only the timers and the runner's own continuations are sure to run.     *)
(* Continuations that follow without a wait (an observer, resolveFailure,  *)
(* the check of firstSignal after the start) are part of the step that     *)
(* causes them.                                                            *)
(***************************************************************************)
EXTENDS Naturals, FiniteSets

CONSTANTS
    Workers,   \* the workers of the definition
    Probes     \* TRUE when the definition has a probe server

\* The workers are finitely many: as many of them as there are is all of them.
ASSUME ProcessAssumption ==
    /\ \A S \in SUBSET Workers : Cardinality(S) = Cardinality(Workers) => S = Workers
    /\ Probes \in BOOLEAN

VARIABLES
    boot,          \* startWorkerProcess: "adapter", "probe", "running", or "aborting"
    worker,        \* each worker's run: "off", "starting", "up", "leaving" (the
                   \* application called its stop()), "failing", "draining", "ended", "rejected"
    started,       \* the workers that reported their startup
    shuttingDown,
    failed,        \* unexpectedFailure is set
    adapter,       \* "none", "open", "closing", "closed"
    probe,         \* the probe server listens
    completed,     \* the promise `completed`: "pending", "resolved", "rejected"
    firstSignal,   \* a signal has arrived
    deadline,      \* the shutdown timer: "off", "armed", "fired", "cleared"
    unwind,        \* expire(): "off", "open" in the unwind window, "over"
    exit           \* how the process ends: "none", "returned", "thrown", or a forced code

vars == <<boot, worker, started, shuttingDown, failed, adapter, probe, completed, firstSignal,
          deadline, unwind, exit>>

runner == <<firstSignal, deadline, unwind, exit>>
runtime == <<boot, worker, started, shuttingDown, failed, adapter, probe, completed>>

NoExit == "none"
ForcedOne == "code 1"
ForcedSignal == "signal code"

Init ==
    /\ boot = "adapter"
    /\ worker = [w \in Workers |-> "off"]
    /\ started = {}
    /\ shuttingDown = FALSE
    /\ failed = FALSE
    /\ adapter = "none"
    /\ probe = FALSE
    /\ completed = "pending"
    /\ firstSignal = FALSE
    /\ deadline = "off"
    /\ unwind = "off"
    /\ exit = NoExit

Alive == exit = NoExit

Settled(w) == worker[w] \in {"ended", "rejected"}

\* armDeadline: the first cause starts the only timer.
Armed == IF deadline = "off" THEN "armed" ELSE deadline

\* Worker.stop for every worker.
Stopped(state) == [w \in Workers |-> IF state[w] \in {"starting", "up", "leaving"} THEN "draining"
                                     ELSE state[w]]

\* beginShutdown for a failure, with the worker states that the failure leaves.
FailureShutdown(state) ==
    /\ shuttingDown' = TRUE
    /\ failed' = TRUE
    /\ worker' = Stopped(state)
    /\ deadline' = Armed

-----------------------------------------------------------------------------
(* startWorkerProcess.                                                     *)

AdapterReady ==
    /\ Alive
    /\ boot = "adapter"
    /\ adapter' = "open"
    /\ boot' = "probe"
    /\ UNCHANGED <<worker, started, shuttingDown, failed, probe, completed, runner>>

\* The definition is refused or adapter() rejects: nothing is open yet.
AdapterFails ==
    /\ Alive
    /\ boot = "adapter"
    /\ boot' = "aborting"
    /\ UNCHANGED <<worker, started, shuttingDown, failed, adapter, probe, completed, runner>>

\* A worker cannot be configured or the probe server cannot listen: the adapter is closed.
BuildFails ==
    /\ Alive
    /\ boot = "probe"
    /\ boot' = "aborting"
    /\ adapter' = "closing"
    /\ UNCHANGED <<worker, started, shuttingDown, failed, probe, completed, runner>>

\* The runs start; a signal that came during the start shuts them down at once.
RunsStart ==
    /\ Alive
    /\ boot = "probe"
    /\ boot' = "running"
    /\ probe' = Probes
    /\ shuttingDown' = firstSignal
    /\ worker' = [w \in Workers |-> IF firstSignal THEN "draining" ELSE "starting"]
    /\ UNCHANGED <<started, failed, adapter, completed, runner>>

\* reportWorkerStartup.
WorkerStarts(w) ==
    /\ Alive
    /\ worker[w] = "starting"
    /\ worker' = [worker EXCEPT ![w] = "up"]
    /\ started' = started \cup {w}
    /\ UNCHANGED <<boot, shuttingDown, failed, adapter, probe, completed, runner>>

\* Faulty: the failure is first seen when run() rejects, after the drain.
Observe_late(w) ==
    /\ worker' = [worker EXCEPT ![w] = "failing"]
    /\ UNCHANGED <<shuttingDown, failed, deadline>>

\* observeWorkerFailure: the failure shuts the process down before the worker drains.
Observe(w) == FailureShutdown([worker EXCEPT ![w] = "failing"])

WorkerFails(w) ==
    /\ Alive
    /\ worker[w] = "up"
    /\ Observe(w)
    /\ UNCHANGED <<boot, started, adapter, probe, completed, firstSignal, unwind, exit>>

\* The application stops one worker by itself.
WorkerLeaves(w) ==
    /\ Alive
    /\ worker[w] = "up"
    /\ worker' = [worker EXCEPT ![w] = "leaving"]
    /\ UNCHANGED <<boot, started, shuttingDown, failed, adapter, probe, completed, runner>>

\* run() settles: a rejection, or an end nobody asked for, is a failure.
RunSettles(w, to) ==
    /\ Alive
    /\ \/ worker[w] \in {"draining", "leaving"}
       \/ worker[w] = "failing" /\ to = "rejected"
       \/ worker[w] = "starting" /\ to = "rejected"
    /\ IF shuttingDown
       THEN worker' = [worker EXCEPT ![w] = to] /\ UNCHANGED <<shuttingDown, failed, deadline>>
       ELSE FailureShutdown([worker EXCEPT ![w] = to])
    /\ UNCHANGED <<boot, started, adapter, probe, completed, firstSignal, unwind, exit>>

\* Faulty: the adapter closes after the first run that ends.
RunsSettled_first == \E w \in Workers : Settled(w)

\* await settlements.
RunsSettled == \A w \in Workers : Settled(w)

\* Faulty: the rejection of a run that was asked to stop is not looked at.
Collected_not == failed

\* The first rejection among the results is the failure of the process.
Collected == failed \/ \E w \in Workers : worker[w] = "rejected"

ShutdownSettles ==
    /\ Alive
    /\ shuttingDown
    /\ adapter = "open"
    /\ RunsSettled
    /\ failed' = Collected
    /\ adapter' = "closing"
    /\ UNCHANGED <<boot, worker, started, shuttingDown, probe, completed, runner>>

\* adapter.close() answers or rejects.
AdapterCloses(rejects) ==
    /\ Alive
    /\ adapter = "closing"
    /\ adapter' = "closed"
    /\ failed' = (failed \/ rejects)
    /\ UNCHANGED <<boot, worker, started, shuttingDown, probe, completed, runner>>

\* The probe server is closed, and completed settles.
ShutdownEnds ==
    /\ Alive
    /\ boot = "running"
    /\ adapter = "closed"
    /\ completed = "pending"
    /\ probe' = FALSE
    /\ completed' = IF failed THEN "rejected" ELSE "resolved"
    /\ UNCHANGED <<boot, worker, started, shuttingDown, failed, adapter, runner>>

-----------------------------------------------------------------------------
(* runWorkerProcess.                                                       *)

\* The first signal arms the deadline and shuts down what has started.
FirstSignal ==
    /\ Alive
    /\ ~firstSignal
    /\ firstSignal' = TRUE
    /\ deadline' = Armed
    /\ IF boot = "running"
       THEN shuttingDown' = TRUE /\ worker' = Stopped(worker)
       ELSE UNCHANGED <<shuttingDown, worker>>
    /\ UNCHANGED <<boot, started, failed, adapter, probe, completed, unwind, exit>>

\* A second signal exits at once.
SecondSignal ==
    /\ Alive
    /\ firstSignal
    /\ exit' = ForcedSignal
    /\ UNCHANGED <<runtime, firstSignal, deadline, unwind>>

\* Faulty: the timer does nothing before the runtime exists.
Expires_started == deadline = "armed" /\ boot = "running"

Expires == deadline = "armed"

\* The grace is over: the handlers are aborted and the unwind window opens.
Expire ==
    /\ Alive
    /\ Expires
    /\ deadline' = "fired"
    /\ unwind' = "open"
    /\ UNCHANGED <<runtime, firstSignal, exit>>

\* The unwind window ends, or the drain completed inside it: the process exits with code 1.
ExpiryExits ==
    /\ Alive
    /\ unwind = "open"
    /\ unwind' = "over"
    /\ exit' = ForcedOne
    /\ UNCHANGED <<runtime, firstSignal, deadline>>

\* Faulty: the runner returns although the expiry has not called forceExit.
AwaitsExpiry_not == TRUE

\* finally: an expiry that has begun is awaited.
AwaitsExpiry == unwind = "off"

\* The start failed or completed has settled: the timer is cleared and the runner ends.
RunnerEnds ==
    /\ Alive
    /\ \/ boot = "aborting" /\ adapter \in {"none", "closed"}
       \/ completed # "pending"
    /\ AwaitsExpiry
    /\ deadline' = "cleared"
    /\ exit' = IF completed = "resolved" THEN "returned" ELSE "thrown"
    /\ UNCHANGED <<runtime, firstSignal, unwind>>

Next ==
    \/ AdapterReady \/ AdapterFails \/ BuildFails \/ RunsStart
    \/ \E w \in Workers : WorkerStarts(w) \/ WorkerFails(w) \/ WorkerLeaves(w)
    \/ \E w \in Workers, to \in {"ended", "rejected"} : RunSettles(w, to)
    \/ ShutdownSettles \/ \E rejects \in BOOLEAN : AdapterCloses(rejects)
    \/ ShutdownEnds \/ FirstSignal \/ SecondSignal \/ Expire \/ ExpiryExits \/ RunnerEnds

Spec == Init /\ [][Next]_vars

-----------------------------------------------------------------------------
(* Properties.                                                             *)

\* The adapter, with its pool, is never closed under a run that still uses it: beginShutdown
\* closes it only once every run has settled.
AdapterOutlivesRuns ==
    adapter \in {"closing", "closed"} => \A w \in Workers : worker[w] = "off" \/ Settled(w)

\* The readiness probe answers 200 only while no worker is starting or has failed: not before the last
\* worker passed its startup checks, and not while a failed worker still drains its handlers
\* (the observer of the failure runs before the drain).
ReadyIsServing ==
    probe /\ ~shuttingDown /\ Cardinality(started) = Cardinality(Workers)
        => \A w \in Workers : worker[w] \in {"up", "leaving"}

\* A drain that completes inside the unwind window does not turn an expired shutdown into a
\* clean exit: once the grace is over the process ends with code 1 or by a second signal.
ExpiredIsNotClean ==
    unwind # "off" => exit \in {NoExit, ForcedOne, ForcedSignal}

\* runWorkerProcess returns normally only when every run ended without an error, also those
\* that rejected after the shutdown had begun.
CleanMeansClean ==
    exit = "returned" => /\ \A w \in Workers : worker[w] = "ended"
                         /\ adapter = "closed"

\* What beginShutdown, the probe and the exit of a process promise.
ProcessPromises ==
    AdapterOutlivesRuns /\ ReadyIsServing /\ ExpiredIsNotClean /\ CleanMeansClean

\* A signal or an unexpected failure is to end the process.
Caused == firstSignal \/ failed
=============================================================================
