------------------------------ MODULE MCTiers ------------------------------
(***************************************************************************)
(* Instances of FastTier, and of TaskLifecycle with ticks that recur, for  *)
(* TLC.  `part` is the instance that runs: it is chosen at first and never *)
(* changes.  The tier that does not run stays as it begins.                *)
(***************************************************************************)
EXTENDS FastTier, TLC

CONSTANTS x1, x2, n1, p1, NoWorker, NoName,
    Parts    \* the instances that are checked

VARIABLES part, clock, def, runtime, outcome, history, waits, issued, fenceSeq, readySeq, paused, scanDue

full == <<clock, def, runtime, outcome, history, waits, issued, fenceSeq, readySeq, paused, scanDue>>
mcVars == <<part, vars, full>>

-----------------------------------------------------------------------------
(* The fast tier: the task that is last has a deadline, and is the first   *)
(* in the order of claiming.                                               *)

LastDeadline == [r \in Tasks |-> IF r = N THEN 2 ELSE Never]
LastFirst == [r \in Tasks |-> N - r]

\* Batches that cross each other.
Crossing == Claims \/ Batches \/ Steps

\* Completion batches while the clock runs and nothing is claimed twice.
OneClaim == Crossing \/ Tick

-----------------------------------------------------------------------------
(* The full tier.                                                          *)

Plain == [max |-> 1, deadline |-> 50, timeout |-> 50, priority |-> 0]

\* Two tasks whose starts and leases compete for a tick that takes one row of each kind.
Leases == INSTANCE TaskRefinement WITH
    now <- clock, Tasks <- {1, 2}, Workers <- Workers, Definitions <- {Plain},
    StartDelays <- {0, 1}, RetryDelays <- {1}, WaitNames <- {}, WaitSpans <- {}, Payloads <- {},
    PauseCalls <- {}, Lease <- 1, Limit <- 1, Slip <- 0, Never <- 50, Horizon <- 1, MaxFence <- 2

\* Two tasks of which one, or both, have a deadline: deadlines, timeouts and leases are overdue
\* together, and a tick takes one row.
Crowd == INSTANCE TaskRefinement WITH
    now <- clock, Tasks <- {1, 2}, Workers <- Workers,
    Definitions <- {[Plain EXCEPT !.deadline = 1], [Plain EXCEPT !.timeout = 1]},
    StartDelays <- {0}, RetryDelays <- {0}, WaitNames <- {}, WaitSpans <- {}, Payloads <- {},
    PauseCalls <- {}, Lease <- 1, Limit <- 1, Slip <- 0, Never <- 50, Horizon <- 1, MaxFence <- 1

\* One task that suspends itself, is retried and meets its deadline or its timeout, in a queue that
\* may be paused.
Waiting == INSTANCE TaskRefinement WITH
    now <- clock, Tasks <- {1}, Workers <- Workers,
    Definitions <- {[Plain EXCEPT !.max = 2, !.deadline = 2, !.timeout = 1]},
    StartDelays <- {0}, RetryDelays <- {1}, WaitNames <- {n1}, WaitSpans <- {1}, Payloads <- {p1},
    PauseCalls <- {TRUE}, Lease <- 1, Limit <- 1, Slip <- 0, Never <- 50, Horizon <- 2, MaxFence <- 2

-----------------------------------------------------------------------------

MCInit ==
    /\ part \in Parts
    /\ InitWith(CASE part \in {"locks", "batches"} -> Tasks [] part = "ends" -> {N} [] OTHER -> {})
    /\ IF part = "waiting" THEN Waiting!Init ELSE Leases!Init

MCNext ==
    /\ UNCHANGED part
    /\ \/ part = "locks" /\ Crossing /\ UNCHANGED full
       \/ part = "batches" /\ OneClaim /\ (\A r \in Tasks : row'[r].fence <= 1) /\ UNCHANGED full
       \/ part = "ends" /\ Next /\ UNCHANGED full
       \/ part = "leases" /\ Leases!Next /\ UNCHANGED vars
       \/ part = "crowd" /\ Crowd!Next /\ UNCHANGED vars
       \/ part = "waiting" /\ Waiting!Next /\ UNCHANGED vars

MCSpec == MCInit /\ [][MCNext]_mcVars

Symmetry == Permutations({x1, x2})

-----------------------------------------------------------------------------
(* Fairness.  Only one tier runs, so a condition may speak of both.        *)

Fast(A) == part = "locks" /\ A /\ UNCHANGED <<part, full>>

Advances ==
    /\ UNCHANGED <<part, vars, runtime>>
    /\ \/ part = "leases" /\ Leases!Advance
       \/ part = "crowd" /\ Crowd!Advance
       \/ part = "waiting" /\ Waiting!Advance

ScansBecomeDue == part # "locks" /\ Leases!ScanBecomesDue /\ UNCHANGED <<part, vars>>

CleanTicks ==
    /\ UNCHANGED <<part, vars, clock, issued, paused, waits>>
    /\ \/ part = "leases" /\ Leases!CleanTick
       \/ part = "crowd" /\ Crowd!CleanTick
       \/ part = "waiting" /\ Waiting!CleanTick

\* The full tier: as in TaskLifecycle.  The fast tier: a backend that need not wait goes on, and
\* PostgreSQL grants a row lock to those that wait for it in turn.  Nothing makes a batch begin.
FairSpec ==
    /\ MCSpec
    /\ WF_mcVars(Advances \/ Fast(BatchStep(x1)))
    /\ WF_mcVars(ScansBecomeDue \/ Fast(BatchStep(x2)))
    /\ SF_mcVars(CleanTicks \/ Fast(LockRow(x1)))
    /\ SF_mcVars(Fast(LockRow(x2)))

Unsettled(t) == t \in DOMAIN runtime /\ Leases!Unsettled(t)

\* MaintenanceSettles of TaskLifecycleProps, of the tasks of the instance that runs: what is overdue
\* of a task, ticks alone settle.
MaintenanceSettles == \A t \in {1, 2} : []<>~Unsettled(t)
=============================================================================
