------------------------------ MODULE WorkerRun ------------------------------
(***************************************************************************)
(* The runs of one Worker object and its row in worker_registry.           *)
(*                                                                         *)
(* run() waits for the run before it (withExclusiveExecution), settles     *)
(* what that run left behind (settlePreviousRun), takes a new instance id, *)
(* checks readiness, registers, dispatches until it stops, and unwinds.    *)
(* Each wait of the unwind ends at the unwind deadline, so a registration  *)
(* or a deregistration statement can outlive its run.                      *)
(*                                                                         *)
(* A statement is in flight in two stages: "sent" (it may wait for a       *)
(* pooled connection) and "applied" (PostgreSQL committed it and the       *)
(* worker has not seen the answer).  Deadlines are not timed: a bounded    *)
(* wait may end at any moment.  The handlers, the maintenance passes and   *)
(* the heartbeat connection are in other modules; of a maintenance pass    *)
(* only its registration refresh is here.                                  *)
(***************************************************************************)
EXTENDS Naturals, FiniteSets

CONSTANTS
    MaxRuns,    \* bound: calls of run()
    MaxStops    \* bound: calls of stop()

VARIABLES
    run,          \* the run in progress: its number, step, stopping, and `asked` (a stop() was called for it)
    queued,       \* the calls of run() that wait: "none", "fresh", or "stopped" after a stop()
    runs,         \* how many calls of run() were made
    stops,        \* how many calls of stop() were made
    instance,     \* this.instanceId, a number; 0 before the first run
    registered,   \* this.registered
    writes,       \* register_worker_v1 in flight (pendingRegistrationRefreshes)
    chain,        \* stop refreshes that wait for an earlier one: pairs <<refresh, earlier>>
    pendingStop,  \* pendingStopRegistrationRefresh, the number of a stop refresh, or 0
    deletes,      \* the calls of deregister() in progress
    row,          \* the instance in this worker's registry row, or 0
    left          \* instances of which a registry statement failed for good

runVars == <<run, queued, runs, stops, instance, registered, writes, chain, pendingStop,
          deletes, row, left>>

\* this.running.
Running == run.at \notin {"idle", "closing", "deregistering"}

RunInit ==
    /\ run = [n |-> 0, at |-> "idle", stopping |-> FALSE, asked |-> FALSE]
    /\ queued = "none"
    /\ runs = 0
    /\ stops = 0
    /\ instance = 0
    /\ registered = FALSE
    /\ writes = {}
    /\ chain = {}
    /\ pendingStop = 0
    /\ deletes = {}
    /\ row = 0
    /\ left = {}

Goes(step) == run' = [run EXCEPT !.at = step]

\* writeRegistration takes the instance id at the call; n numbers the stop refreshes.
Write(kind, n) == [kind |-> kind, n |-> n, instance |-> instance, at |-> "sent"]

\* The promise of stop refresh i has settled; number 0 stands for no promise.
Finished(i) ==
    /\ \A w \in writes : <<w.kind, w.n>> # <<"stop", i>>
    /\ \A c \in chain : c[1] # i

\* run() is called: it waits for its turn.
Call ==
    /\ runs < MaxRuns
    /\ queued = "none"
    /\ runs' = runs + 1
    /\ queued' = "fresh"
    /\ UNCHANGED <<run, stops, instance, registered, writes, chain, pendingStop, deletes,
                   row, left>>

\* withExclusiveExecution: the run before has returned.
Turn == run.at = "idle" /\ queued # "none"

\* The run starts: stopping compares the stop versions.
Begin ==
    /\ Turn
    /\ run' = [n |-> run.n + 1, at |-> "settling", stopping |-> queued = "stopped",
               asked |-> queued = "stopped"]
    /\ queued' = "none"
    /\ UNCHANGED <<runs, stops, instance, registered, writes, chain, pendingStop, deletes,
                   row, left>>

\* Faulty: the new run does not wait for the old one's statements.
PreviousSettled_not == TRUE

\* previousRunSettled: no statement of an earlier run is in progress.
PreviousSettled == writes = {} /\ chain = {} /\ deletes = {}

\* settlePreviousRun: settled, stopped, or refused after the startup budget.
Settle ==
    /\ run.at = "settling"
    /\ \/ /\ PreviousSettled
          /\ ~run.stopping
          /\ instance' = run.n
          /\ Goes("checking")
       \/ /\ run.stopping \/ ~PreviousSettled
          /\ Goes("closing")
          /\ UNCHANGED instance
    /\ UNCHANGED <<queued, runs, stops, registered, writes, chain, pendingStop, deletes, row,
                   left>>

\* The readiness check fails or is stopped, or the first registration is sent.
Check ==
    /\ run.at = "checking"
    /\ \/ Goes("closing") /\ UNCHANGED writes
       \/ /\ ~run.stopping
          /\ writes' = writes \cup {Write("startup", 0)}
          /\ Goes("registering")
    /\ UNCHANGED <<queued, runs, stops, instance, registered, chain, pendingStop, deletes, row,
                   left>>

\* untilAborted(firstRegistration): a stop ends the wait.
Registered ==
    /\ run.at = "registering"
    /\ run.stopping \/ \A w \in writes : w.kind # "startup"
    /\ Goes(IF run.stopping THEN "closing" ELSE "dispatching")
    /\ UNCHANGED <<queued, runs, stops, instance, registered, writes, chain, pendingStop,
                   deletes, row, left>>

\* registrationLoop, and the refresh of a maintenance pass: one write each at a time.
Refresh(loop) ==
    /\ run.at = "dispatching"
    /\ ~run.stopping
    /\ \A w \in writes : w.kind # loop
    /\ writes' = writes \cup {Write(loop, 0)}
    /\ UNCHANGED <<run, queued, runs, stops, instance, registered, chain, pendingStop, deletes,
                   row, left>>

\* fail(): a fatal error of a loop stops the run.
Fail ==
    /\ run.at = "dispatching"
    /\ ~run.stopping
    /\ run' = [run EXCEPT !.stopping = TRUE]
    /\ UNCHANGED <<queued, runs, stops, instance, registered, writes, chain, pendingStop,
                   deletes, row, left>>

\* dispatchLoop has drained.
Drained ==
    /\ run.at = "dispatching"
    /\ run.stopping
    /\ Goes("unwinding")
    /\ UNCHANGED <<queued, runs, stops, instance, registered, writes, chain, pendingStop,
                   deletes, row, left>>

\* Faulty: a wait of the unwind has no deadline.
UntilDeadline_unbounded(done) == done

\* untilDeadline: the work is done, or the deadline has passed.
UntilDeadline(done) == done \/ TRUE

\* Both loops have ended, or the unwind deadline has passed.
Unwind ==
    /\ run.at = "unwinding"
    /\ UntilDeadline(\A w \in writes : w.kind \notin {"loop", "maintenance"})
    /\ Goes("closing")
    /\ UNCHANGED <<queued, runs, stops, instance, registered, writes, chain, pendingStop,
                   deletes, row, left>>

\* The heartbeat channel and the subscriptions are closed; deregister() is called.
Close ==
    /\ run.at = "closing"
    /\ deletes' = deletes \cup {[run |-> run.n, instance |-> instance, at |-> "refreshes",
                                 after |-> 0]}
    /\ Goes("deregistering")
    /\ UNCHANGED <<queued, runs, stops, instance, registered, writes, chain, pendingStop, row,
                   left>>

\* run() returns once its deregistration has ended or the deadline has passed.
Return ==
    /\ run.at = "deregistering"
    /\ UntilDeadline(\A d \in deletes : d.run # run.n)
    /\ run' = [run EXCEPT !.at = "idle", !.stopping = FALSE, !.asked = FALSE]
    /\ UNCHANGED <<queued, runs, stops, instance, registered, writes, chain, pendingStop,
                   deletes, row, left>>

\* stop(): a draining, registered worker publishes its state after the refresh before.
Stop ==
    /\ stops < MaxStops
    /\ stops' = stops + 1
    /\ run' = IF run.at = "idle" THEN run
              ELSE [run EXCEPT !.stopping = TRUE, !.asked = TRUE]
    /\ queued' = IF queued = "none" THEN "none" ELSE "stopped"
    /\ IF Running /\ registered
       THEN /\ pendingStop' = stops'
            /\ IF Finished(pendingStop)
               THEN writes' = writes \cup {Write("stop", stops')} /\ UNCHANGED chain
               ELSE chain' = chain \cup {<<stops', pendingStop>>} /\ UNCHANGED writes
       ELSE UNCHANGED <<pendingStop, writes, chain>>
    /\ UNCHANGED <<runs, instance, registered, deletes, row, left>>

\* register_worker_v1 commits: the upsert takes the instance of the statement.
WriteApplies(w) ==
    /\ w.at = "sent"
    /\ row' = w.instance
    /\ writes' = (writes \ {w}) \cup {[w EXCEPT !.at = "applied"]}
    /\ UNCHANGED <<run, queued, runs, stops, instance, registered, chain, pendingStop, deletes,
                   left>>

\* The write is over, and the stop refresh chained after it is sent.
Forget(w) ==
    LET next == {c \in chain : <<w.kind, w.n>> = <<"stop", c[2]>>}
    IN  /\ writes' = (writes \ {w}) \cup {Write("stop", c[1]) : c \in next}
        /\ chain' = chain \ next

WriteAnswers(w) ==
    /\ w.at = "applied"
    /\ Forget(w)
    /\ registered' = TRUE
    /\ UNCHANGED <<run, queued, runs, stops, instance, pendingStop, deletes, row, left>>

\* The statement fails before it commits, or its answer is lost.
WriteFails(w) ==
    /\ Forget(w)
    /\ left' = IF registered THEN left ELSE left \cup {w.instance}
    /\ UNCHANGED <<run, queued, runs, stops, instance, registered, pendingStop, deletes, row>>

\* Faulty: the deregistration waits for the startup write alone.
RefreshesDone_startup(d) == \A w \in writes : w.kind # "startup"

\* deregister() waits for the startup write and every refresh in flight.
RefreshesDone(d) == writes = {}

\* An unregistered worker has nothing to remove; otherwise the stop refresh is awaited.
DeleteWaits(d) ==
    /\ d.at = "refreshes"
    /\ RefreshesDone(d)
    /\ deletes' = (deletes \ {d}) \cup
                  (IF registered THEN {[d EXCEPT !.at = "stop", !.after = pendingStop]} ELSE {})
    /\ UNCHANGED <<run, queued, runs, stops, instance, registered, writes, chain, pendingStop,
                   row, left>>

DeleteSends(d) ==
    /\ d.at = "stop"
    /\ Finished(d.after)
    /\ pendingStop' = 0
    /\ registered' = FALSE
    /\ deletes' = (deletes \ {d}) \cup {[d EXCEPT !.at = "sent"]}
    /\ UNCHANGED <<run, queued, runs, stops, instance, writes, chain, row, left>>

\* deregister_worker_v2 removes the row of the instance it names.
Deleted(i) == IF row = i THEN 0 ELSE row

DeleteApplies(d) ==
    /\ d.at = "sent"
    /\ row' = Deleted(d.instance)
    /\ deletes' = (deletes \ {d}) \cup {[d EXCEPT !.at = "applied"]}
    /\ UNCHANGED <<run, queued, runs, stops, instance, registered, writes, chain, pendingStop,
                   left>>

\* The answer, or a failure: deregister() ends either way.
DeleteEnds(d) ==
    /\ d.at \in {"sent", "applied"}
    /\ deletes' = deletes \ {d}
    /\ left' = IF d.at = "sent" THEN left \cup {d.instance} ELSE left
    /\ UNCHANGED <<run, queued, runs, stops, instance, registered, writes, chain, pendingStop,
                   row>>

RunStep == Begin \/ Settle \/ Check \/ Registered \/ Drained \/ Unwind \/ Close \/ Return

RunNext ==
    \/ RunStep \/ Call \/ Stop \/ Fail
    \/ \E loop \in {"loop", "maintenance"} : Refresh(loop)
    \/ \E w \in writes : WriteApplies(w) \/ WriteAnswers(w) \/ WriteFails(w)
    \/ \E d \in deletes : DeleteWaits(d) \/ DeleteSends(d) \/ DeleteApplies(d) \/ DeleteEnds(d)

RunSpec == RunInit /\ [][RunNext]_runVars

-----------------------------------------------------------------------------
(* Properties.                                                             *)

\* Once no run is active and every registry statement has ended, the worker has no row, unless
\* one of its statements failed for good: a late registration write never brings back the row
\* of a run that has stopped (deregister waits for pendingRegistrationRefreshes).
NoRowComesBack ==
    run.at = "idle" /\ writes = {} /\ deletes = {} => row = 0 \/ row \in left

\* While a run dispatches and none of its writes failed, the registry names that run's
\* instance: no statement that an earlier run left behind deletes or overwrites the row
\* (settlePreviousRun).
RowOfThisRun ==
    run.at = "dispatching" /\ instance \notin left => row = instance

\* The registry tells what runs: a late registration write never brings back the row of a run that
\* has stopped (deregister), and while a run dispatches the registry names its instance
\* (settlePreviousRun).
RegistryTrue == NoRowComesBack /\ RowOfThisRun
=============================================================================
