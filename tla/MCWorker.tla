------------------------------ MODULE MCWorker ------------------------------
(***************************************************************************)
(* Instances of TaskAttempt and WorkerDispatch for TLC.  `part` is the     *)
(* instance that runs: it is chosen at first among Parts and never         *)
(* changes.  The variables of an attempt stay as they begin while dispatch *)
(* runs, and those of dispatch stay Unset while an attempt does.           *)
(***************************************************************************)
EXTENDS TaskAttempt

CONSTANTS Parts

VARIABLES
    part,
    todo, ready, notice, execs, claims, reserved, cohort, wholeClaims, activeSlots, empty, loop, ctl

dispatch == <<todo, ready, notice, execs, claims, reserved, cohort, wholeClaims, activeSlots, empty,
              loop, ctl>>
mcvars == <<part, vars, dispatch>>

\* A timer or a boundary that is not set, and a variable that is not used.
Unset == -1

-----------------------------------------------------------------------------
(* Attempts.                                                               *)

\* The attempt of TaskAttempt itself meets every boundary, with a local timer that runs ahead of
\* PostgreSQL.  This one has a lease long enough for late claims and late rounds.
Window == INSTANCE TaskAttempt WITH
    Lease <- 3, Deadline <- Unset, Timeout <- Unset, Lead <- 0, Off <- Unset,
    Outside <- {"cancel", "ghost", "shutdown"}

NoAttempt == Init /\ age = 0

-----------------------------------------------------------------------------
(* The dispatch loop.                                                      *)

\* Plain claims and fused completions of two cohorts, some of which fail.
Shares == INSTANCE WorkerDispatch WITH
    Concurrency <- 3, Cohorts <- 2, RefillShare <- 2, FastTier <- TRUE, Backlog <- 4, Known <- 0,
    Unknown <- 0, Controls <- 0, Polls <- TRUE, Faults <- TRUE

\* Claims for the whole worker next to fused completions, tasks that arrive later, and pauses.
Slots == INSTANCE WorkerDispatch WITH
    Concurrency <- 2, Cohorts <- 1, RefillShare <- 2, FastTier <- TRUE, Backlog <- 2, Known <- 1,
    Unknown <- 0, Controls <- 1, Polls <- TRUE, Faults <- FALSE

\* Tasks without a handler, and failures.
Drain == INSTANCE WorkerDispatch WITH
    Concurrency <- 2, Cohorts <- 1, RefillShare <- 2, FastTier <- FALSE, Backlog <- 1, Known <- 1,
    Unknown <- 1, Controls <- 1, Polls <- TRUE, Faults <- TRUE

NoDispatch ==
    /\ todo = Unset /\ ready = Unset /\ notice = Unset /\ execs = Unset /\ claims = Unset /\ reserved = Unset
    /\ cohort = Unset /\ wholeClaims = Unset /\ activeSlots = Unset /\ empty = Unset /\ loop = Unset /\ ctl = Unset

-----------------------------------------------------------------------------

MCInit ==
    /\ part \in Parts
    /\ \/ part = "races" /\ Init /\ NoDispatch
       \/ part = "window" /\ Window!Init /\ NoDispatch
       \/ part = "shares" /\ Shares!Init /\ NoAttempt
       \/ part = "slots" /\ Slots!Init /\ NoAttempt
       \/ part = "drain" /\ Drain!Init /\ NoAttempt

MCNext ==
    /\ UNCHANGED part
    /\ \/ part = "races" /\ Next /\ UNCHANGED dispatch
       \/ part = "window" /\ Window!Next /\ UNCHANGED dispatch
       \/ part = "shares" /\ Shares!Next /\ UNCHANGED vars
       \/ part = "slots" /\ Slots!Next /\ UNCHANGED vars
       \/ part = "drain" /\ Drain!Next /\ UNCHANGED vars

MCSpec == MCInit /\ [][MCNext]_mcvars

-----------------------------------------------------------------------------
(* Properties, next to those of TaskAttempt.                               *)

\* What dispatchLoop holds is bounded, and given back: the tasks a worker leases never exceed its
\* concurrency (freeSlots), nor those of a cohort its share (reserveCompletionClaim);
\* runtimeState() reports between none and all slots in use, and none after the drain; and when
\* the loop ends, no task that the worker claimed is left.
DispatchKept ==
    /\ part = "shares" => Shares!CohortShare
    /\ part = "slots" => Slots!ClaimsWithinConcurrency /\ Slots!SlotsReported
    /\ part = "drain" => Drain!DrainComplete
=============================================================================
