---------------------------- MODULE WorkerDispatch ----------------------------
(***************************************************************************)
(* The dispatch loop of a running worker: dispatchLoop in                  *)
(* typescript/core/src/worker.ts, with the claims it sends, the executions *)
(* it launches, the fused completions that claim for it (writeCompletion,  *)
(* completeAndClaim) and the wakes that reach it.                          *)
(*                                                                         *)
(* Executions and claims have no identity here: each is a record in a bag. *)
(* A settlement that the loop has not observed yet is a record whose st is *)
(* "settled".  A wake version that was captured becomes stale with the     *)
(* next wake.  The worker has one queue, of a tier that does not change.   *)
(***************************************************************************)
EXTENDS Integers, FiniteSets, FiniteSetsExt, Bags, BagsExt

CONSTANTS
    Concurrency,
    Cohorts,       \* the number of cohorts
    RefillShare,   \* 4 in dispatchRefillBatch
    FastTier,      \* the tier of the queue
    Backlog,       \* a bound: tasks with a handler that are ready at the start
    Known,         \* a bound: tasks with a handler that are enqueued later
    Unknown,       \* a bound: tasks without a handler
    Controls,      \* a bound: pauses, resumes and losses of the gate
    Polls,         \* the fallback poll timer fires
    Faults         \* claims, completions and executions fail

VARIABLES
    todo,        \* tasks that are still to be enqueued, by kind
    ready,       \* ready tasks in the queue, by kind
    notice,      \* a notification of the queue is on its way
    execs,       \* the executions that the loop has not observed to end
    claims,      \* the plain claims that the loop has not settled
    reserved,    \* slots that claims and fused completions reserve
    cohort,      \* of each cohort: active, handed, reserved, claims
    wholeClaims,
    activeSlots, \* the slots in use that runtimeState() reports
    empty,       \* emptyWait, and whether consecutiveEmptyClaims > 0
    loop,        \* where the loop is, and what its current wait hears
    ctl          \* paused, stopping, gate, failed, delay pending, tier known

vars == <<todo, ready, notice, execs, claims, reserved, cohort, wholeClaims, activeSlots,
          empty, loop, ctl>>

Kinds == {"known", "unknown"}
CohortIds == 1..Cohorts
Whole == 0                 \* the cohort of a claim for the whole worker

RefillBatch == (Concurrency + RefillShare - 1) \div RefillShare

\* The first cohorts take the remainder of an uneven split.
Capacity(c) ==
    (Concurrency \div Cohorts) + (IF c <= Concurrency % Cohorts THEN 1 ELSE 0)

NoWait == [on |-> FALSE, stale |-> FALSE, release |-> FALSE, due |-> FALSE]

Total(tasks) == tasks.known + tasks.unknown
Count(bag, P(_)) == MapThenSumSet(LAMBDA x : IF P(x) THEN CopiesIn(x, bag) ELSE 0, BagToSet(bag))
Handed(e) == e.handed

Active == BagCardinality(execs)
HandedOver == Count(execs, Handed)

\* Faulty: one slot too many counts as free.
FreeOneMore == Concurrency - Active + HandedOver - reserved + 1

\* freeSlots() and cohortFree().
Free == Concurrency - Active + HandedOver - reserved
CohortFree(co, c) == Capacity(c) - co[c].active + co[c].handed - co[c].reserved

\* The cohort with the most free slots, the first one on a tie.
Roomiest(co) ==
    CHOOSE c \in CohortIds : \A d \in CohortIds :
        \/ CohortFree(co, c) > CohortFree(co, d)
        \/ CohortFree(co, c) = CohortFree(co, d) /\ c <= d

-----------------------------------------------------------------------------
(* Wakes *)

\* Claims and fused completions captured the wake version when they started.
Outdated(r) == [r EXCEPT !.stale = @ \/ "gave" \notin DOMAIN r \/ r.st = "fused"]
AllStale(bag) ==
    [r \in {Outdated(x) : x \in BagToSet(bag)} |-> Count(bag, LAMBDA x : Outdated(x) = r)]

\* Faulty: the version is read when a claim settles, not when it starts.
WakeDispatchLate ==
    /\ empty' = [empty EXCEPT !.wait.stale = empty.wait.on]
    /\ loop' = [loop EXCEPT !.woken = @ \/ (loop.pc = "next" /\ loop.timed)]
    /\ UNCHANGED <<claims, execs>>

\* wakeDispatch(): what captured the version sees that it changed, and a wait
\* that hears wakes ends.
WakeDispatch ==
    /\ empty' = [empty EXCEPT !.wait.stale = empty.wait.on]
    /\ claims' = AllStale(claims) /\ execs' = AllStale(execs)
    /\ loop' = [loop EXCEPT !.woken = @ \/ (loop.pc = "next" /\ loop.timed)]

\* wakeLoop(): any wait of the loop ends.
Woken == [loop EXCEPT !.woken = @ \/ loop.pc = "next"]

Counters == <<reserved, cohort, wholeClaims, activeSlots>>

Enqueue(kind) ==
    /\ todo[kind] > 0
    /\ todo' = [todo EXCEPT ![kind] = @ - 1] /\ ready' = [ready EXCEPT ![kind] = @ + 1]
    /\ notice' = TRUE
    /\ UNCHANGED <<execs, claims, Counters, empty, loop, ctl>>

Notified ==
    /\ notice /\ notice' = FALSE
    /\ WakeDispatch /\ ctl' = [ctl EXCEPT !.delay = TRUE]
    /\ UNCHANGED <<todo, ready, Counters>>

\* pause(), resume(), and the operator's pause that a registration reads back.
SetPaused ==
    /\ ctl.left > 0
    /\ ctl' = [ctl EXCEPT !.paused = ~@, !.left = @ - 1]
    /\ WakeDispatch /\ UNCHANGED <<todo, ready, notice, Counters>>

\* Faulty: a stop does not wake the loop.
StopSilent ==
    /\ ~ctl.stopping /\ ctl' = [ctl EXCEPT !.stopping = TRUE]
    /\ UNCHANGED <<todo, ready, notice, execs, claims, Counters, empty, loop>>

Stop ==
    /\ ~ctl.stopping /\ ctl' = [ctl EXCEPT !.stopping = TRUE]
    /\ WakeDispatch /\ UNCHANGED <<todo, ready, notice, Counters>>

\* The reserved heartbeat connection is lost; its replacement wakes dispatch.
GateCloses ==
    /\ ctl.gate /\ ctl.left > 0 /\ ctl' = [ctl EXCEPT !.gate = FALSE, !.left = @ - 1]
    /\ UNCHANGED <<todo, ready, notice, execs, claims, Counters, empty, loop>>

GateOpens ==
    /\ ~ctl.gate /\ ctl' = [ctl EXCEPT !.gate = TRUE]
    /\ WakeDispatch /\ UNCHANGED <<todo, ready, notice, Counters>>

\* The deadline of the empty wait passes; the poll timer of its sleep fires.
DeadlinePasses ==
    /\ empty.wait.on /\ ~empty.wait.due /\ (Polls \/ empty.wait.release)
    /\ empty' = [empty EXCEPT !.wait.due = TRUE]
    /\ loop' = [loop EXCEPT !.woken = @ \/ (loop.pc = "next" /\ loop.timed)]
    /\ UNCHANGED <<todo, ready, notice, execs, claims, Counters, ctl>>

\* The poll timer of the wait of a paused worker or of a closed gate.
PollFires ==
    /\ Polls /\ loop.pc = "next" /\ loop.timed /\ ~loop.woken /\ ~empty.wait.on
    /\ loop' = [loop EXCEPT !.woken = TRUE]
    /\ UNCHANGED <<todo, ready, notice, execs, claims, Counters, empty, ctl>>

-----------------------------------------------------------------------------
(* Launching, and what claims find *)

\* Two tasks of a kind are alike: the ready tasks that a statement may claim.
Claimable(limit) ==
    {got \in [known : 0..ready.known, unknown : 0..ready.unknown] :
        Total(got) = Min({limit, Total(ready)})}

NewExec(kind, c) ==
    [st |-> IF kind = "known" THEN "running" ELSE "releasing", cohort |-> c, limit |-> 0,
     handed |-> FALSE, gave |-> FALSE, stale |-> FALSE, failed |-> FALSE]

\* launch(): a task joins the cohort that claimed it, or the roomiest one.
LaunchOne(s, kind, preferred) ==
    LET c == IF preferred # Whole /\ CohortFree(s.cohort, preferred) > 0 THEN preferred
             ELSE Roomiest(s.cohort)
    IN [execs |-> BagAdd(s.execs, NewExec(kind, c)),
        cohort |-> [s.cohort EXCEPT ![c].active = @ + 1]]

\* The tasks of one claim, launched one after the other.
Launch(s, got, preferred) ==
    LET step[n \in 0..Total(got)] ==
            IF n = 0 THEN s
            ELSE LaunchOne(step[n - 1], IF n <= got.known THEN "known" ELSE "unknown", preferred)
    IN step[Total(got)]

\* The wait after a claim that found nothing to run.
EmptyWait(stale, release) == [on |-> TRUE, stale |-> stale, release |-> release, due |-> FALSE]

-----------------------------------------------------------------------------
(* Plain claims *)

\* startClaim(): the notification delay applies to a worker that was idle.
StartClaim(limit, c, cohortLimit) ==
    /\ claims' = BagAdd(claims,
          [st |-> IF ctl.delay /\ empty.some THEN "delay" ELSE "sent", limit |-> limit,
           cohort |-> c, cohortLimit |-> cohortLimit, sent |-> FALSE, error |-> FALSE,
           got |-> [known |-> 0, unknown |-> 0], stale |-> FALSE])
    /\ ctl' = [ctl EXCEPT !.delay = FALSE]
    /\ reserved' = reserved + limit
    /\ wholeClaims' = IF c = Whole THEN wholeClaims + 1 ELSE wholeClaims
    /\ cohort' = IF c = Whole THEN cohort
                 ELSE [cohort EXCEPT ![c].claims = @ + 1, ![c].reserved = @ + cohortLimit]

Becomes(c, d) == claims' = BagAdd(BagRemove(claims, c), d)

\* A claim that slept looks again before it sends anything.
DelayEnds(c) ==
    /\ c.st = "delay"
    /\ Becomes(c, [c EXCEPT !.st = IF ctl.stopping \/ ctl.paused \/ ~ctl.gate
                                   THEN "settled" ELSE "sent"])
    /\ UNCHANGED <<todo, ready, notice, execs, Counters, empty, loop, ctl>>

\* The claim statement runs and its answer arrives.  Behind a closed gate it
\* does not run, and claims nothing.
ClaimAnswered(c) ==
    /\ c.st = "sent"
    /\ \E got \in IF ctl.gate
                  THEN Claimable(IF FastTier /\ c.cohort # Whole THEN c.cohortLimit ELSE c.limit)
                  ELSE {[known |-> 0, unknown |-> 0]} :
          /\ Becomes(c, [c EXCEPT !.st = "settled", !.sent = TRUE, !.got = got])
          /\ ready' = [k \in Kinds |-> ready[k] - got[k]]
    /\ ctl' = [ctl EXCEPT !.tier = @ \/ ctl.gate]
    /\ UNCHANGED <<todo, notice, execs, Counters, empty, loop>>

ClaimFails(c) ==
    /\ Faults /\ c.st = "sent"
    /\ Becomes(c, [c EXCEPT !.st = "settled", !.sent = TRUE, !.error = TRUE])
    /\ UNCHANGED <<todo, ready, notice, execs, Counters, empty, loop, ctl>>

\* settleClaim(): the tasks launch also while the loop stops.
SettleClaim(c) ==
    LET back == IF c.cohort = Whole THEN cohort
                ELSE [cohort EXCEPT ![c.cohort].claims = @ - 1,
                                    ![c.cohort].reserved = @ - c.cohortLimit]
        s == Launch([execs |-> execs, cohort |-> back], c.got, c.cohort)
        found == c.got.known > 0
    IN /\ claims' = BagRemove(claims, c) /\ reserved' = reserved - c.limit
       /\ wholeClaims' = IF c.cohort = Whole THEN wholeClaims - 1 ELSE wholeClaims
       /\ execs' = s.execs /\ cohort' = s.cohort
       /\ activeSlots' = activeSlots + Total(c.got)
       /\ ctl' = [ctl EXCEPT !.failed = @ \/ c.error, !.stopping = @ \/ c.error]
       /\ empty' =
            IF ~c.sent \/ c.error THEN empty
            ELSE IF found THEN [wait |-> NoWait, some |-> FALSE]
            ELSE [some |-> TRUE,
                  wait |-> IF Total(c.got) = 0
                           THEN IF empty.wait.on THEN empty.wait ELSE EmptyWait(c.stale, FALSE)
                           ELSE IF empty.wait.release THEN empty.wait
                           ELSE EmptyWait(c.stale, TRUE)]

-----------------------------------------------------------------------------
(* Executions *)

Goes(e, f) == execs' = BagAdd(BagRemove(execs, e), f)

\* The slot of an execution is free with its end, unless a fused completion
\* gave it to a task that it claimed.
SlotEnds(e) == activeSlots' = IF e.gave THEN activeSlots ELSE activeSlots - 1

\* A task without a handler goes back to its queue, which notifies.
ReleaseAnswered(e) ==
    /\ e.st = "releasing" /\ Goes(e, [e EXCEPT !.st = "settled"]) /\ SlotEnds(e)
    /\ ready' = [ready EXCEPT !.unknown = @ + 1] /\ notice' = TRUE
    /\ UNCHANGED <<todo, claims, reserved, cohort, wholeClaims, empty, loop, ctl>>

\* Faulty: a fused completion reserves the free slots of the whole worker.
FusedLimitWhole(c) == Free + 1

\* A fused completion claims for the free slots of its cohort and its own.
FusedLimit(c) == Min({Free, CohortFree(cohort, c)}) + 1

\* reserveCompletionClaim(): no reservation while the loop does not claim, or
\* while a plain claim may fill the cohort and the batch would be small.
Reserves(e) ==
    /\ loop.pc \in {"top", "next"} /\ ~ctl.stopping /\ ~ctl.paused /\ ~ctl.failed
    /\ ~empty.wait.on /\ ctl.gate
    /\ (wholeClaims > 0 \/ cohort[e.cohort].claims > 0) => FusedLimit(e.cohort) >= RefillBatch

\* The handler ends and its completion leaves; on the fast tier it is fused.
HandlerEnds(e) ==
    /\ e.st = "running"
    /\ IF FastTier /\ Reserves(e)
       THEN LET n == FusedLimit(e.cohort)
            IN /\ Goes(e, [e EXCEPT !.st = "fused", !.limit = n, !.handed = TRUE, !.stale = FALSE])
               /\ reserved' = reserved + n
               /\ cohort' = [cohort EXCEPT ![e.cohort].reserved = @ + n, ![e.cohort].handed = @ + 1]
       ELSE Goes(e, [e EXCEPT !.st = "ending"]) /\ UNCHANGED <<reserved, cohort>>
    /\ UNCHANGED <<todo, ready, notice, claims, wholeClaims, activeSlots, empty, loop, ctl>>

\* Faulty: the slot counts as handed over though nothing was claimed.
StaysHandedAlways(got) == TRUE

\* The slot stays handed over when the completion claimed a task for it.
StaysHanded(got) == Total(got) > 0

\* settle() of the reservation, with the answer of the fused statement.  The
\* statement claims nothing behind a closed gate.
FusedAnswered(e) ==
    /\ e.st = "fused"
    /\ \E got \in IF ctl.gate THEN Claimable(e.limit) ELSE {[known |-> 0, unknown |-> 0]} :
          LET taken == StaysHanded(got)
              f == [e EXCEPT !.st = "ending", !.limit = 0, !.handed = taken,
                             !.stale = FALSE, !.gave = Total(got) > 0]
              back == [cohort EXCEPT ![e.cohort].reserved = @ - e.limit,
                                     ![e.cohort].handed = IF taken THEN @ ELSE @ - 1]
              s == Launch([execs |-> BagAdd(BagRemove(execs, e), f), cohort |-> back],
                          got, e.cohort)
          IN /\ ready' = [k \in Kinds |-> ready[k] - got[k]]
             /\ execs' = s.execs /\ cohort' = s.cohort
             /\ reserved' = reserved - e.limit
             /\ activeSlots' = activeSlots + Total(got) - (IF Total(got) > 0 THEN 1 ELSE 0)
             /\ empty' = IF got.known > 0 THEN [empty EXCEPT !.some = FALSE]
                         ELSE IF Total(got) > 0 THEN empty
                         ELSE [some |-> TRUE, wait |-> IF empty.wait.on THEN empty.wait
                                                       ELSE EmptyWait(e.stale, FALSE)]
    /\ loop' = Woken
    /\ UNCHANGED <<todo, notice, claims, wholeClaims, ctl>>

\* A fused statement that failed claimed nothing that this worker knows of.
FusedFails(e) ==
    /\ Faults /\ e.st = "fused"
    /\ Goes(e, [e EXCEPT !.st = "ending", !.limit = 0, !.handed = FALSE, !.failed = TRUE,
                        !.stale = FALSE])
    /\ reserved' = reserved - e.limit
    /\ cohort' = [cohort EXCEPT ![e.cohort].reserved = @ - e.limit, ![e.cohort].handed = @ - 1]
    /\ loop' = Woken
    /\ UNCHANGED <<todo, ready, notice, claims, wholeClaims, activeSlots, empty, ctl>>

\* The rest of the settlement: also of a completion that was rejected.
ExecutionEnds(e) ==
    /\ e.st = "ending"
    /\ \E failed \in (IF Faults THEN {e.failed, TRUE} ELSE {FALSE}) :
          Goes(e, [e EXCEPT !.st = "settled", !.failed = failed])
    /\ SlotEnds(e)
    /\ UNCHANGED <<todo, ready, notice, claims, reserved, cohort, wholeClaims, empty, loop, ctl>>

\* The hand-over of a slot ends with the execution that gave it.
HandOverEnds(e) == IF e.handed THEN 1 ELSE 0

\* observe(): the loop sees that an execution ended.
Observe(e) ==
    /\ execs' = BagRemove(execs, e)
    /\ cohort' = [cohort EXCEPT ![e.cohort].active = @ - 1,
                                ![e.cohort].handed = @ - HandOverEnds(e)]
    /\ ctl' = [ctl EXCEPT !.failed = @ \/ e.failed, !.stopping = @ \/ e.failed]
    /\ UNCHANGED <<claims, reserved, wholeClaims, activeSlots, empty>>

-----------------------------------------------------------------------------
(* The loop *)

Sleeps(timed) == loop' = [pc |-> "next", timed |-> timed, woken |-> FALSE]

CohortDispatch == Cohorts > 1 /\ FastTier

\* The claims of one pass.  After one the worker has no unreserved free slot,
\* or its cohort claim is the only one.
StartClaims ==
    IF ~CohortDispatch
    THEN IF Free > 0 /\ (claims = EmptyBag \/ Free >= RefillBatch)
         THEN StartClaim(Free, Whole, 0)
         ELSE UNCHANGED <<claims, ctl, reserved, wholeClaims, cohort>>
    ELSE IF claims = EmptyBag /\ Free > 0
         THEN LET c == Roomiest(cohort)
                  n == Min({Free, CohortFree(cohort, c)})
              IN StartClaim(IF ctl.tier THEN n ELSE Free, c, n)
         ELSE UNCHANGED <<claims, ctl, reserved, wholeClaims, cohort>>

\* One pass from the top of the loop to its next wait.
Pass ==
    /\ loop.pc = "top"
    /\ IF ctl.stopping \/ ctl.failed
       THEN /\ loop' = [loop EXCEPT !.pc = "claims"]
            /\ UNCHANGED <<claims, ctl, reserved, wholeClaims, cohort, empty>>
       ELSE IF ctl.paused
       THEN /\ empty' = [empty EXCEPT !.wait = NoWait] /\ Sleeps(TRUE)
            /\ UNCHANGED <<claims, ctl, reserved, wholeClaims, cohort>>
       ELSE IF ~ctl.gate
       THEN Sleeps(TRUE) /\ UNCHANGED <<claims, ctl, reserved, wholeClaims, cohort, empty>>
       ELSE IF empty.wait.on
       THEN /\ IF empty.wait.due \/ (~empty.wait.release /\ empty.wait.stale)
               THEN empty' = [empty EXCEPT !.wait = NoWait] /\ UNCHANGED loop
               ELSE Sleeps(TRUE) /\ UNCHANGED empty
            /\ UNCHANGED <<claims, ctl, reserved, wholeClaims, cohort>>
       ELSE StartClaims /\ Sleeps(FALSE) /\ UNCHANGED empty
    /\ UNCHANGED <<todo, ready, notice, execs, activeSlots>>

Settled(bag) == {r \in BagToSet(bag) : r.st = "settled"}

ToTop == loop' = [pc |-> "top", timed |-> FALSE, woken |-> FALSE]

\* nextEvent(): a settlement, or the end of the wait.
NextEvent ==
    /\ loop.pc = "next"
    /\ \/ \E c \in Settled(claims) : SettleClaim(c)
       \/ \E e \in Settled(execs) : Observe(e)
       \/ /\ loop.woken /\ Settled(claims) = {} /\ Settled(execs) = {}
          /\ UNCHANGED <<execs, claims, Counters, empty, ctl>>
    /\ ToTop /\ UNCHANGED <<todo, ready, notice>>

\* Faulty: the executions drain before the claims have settled.
DrainsClaimsFirstNot == TRUE

\* The claims settle before the executions drain.
DrainsClaimsFirst == claims = EmptyBag

\* The drain: first the claims, then the executions.
Drain ==
    \/ /\ loop.pc = "claims" /\ \E c \in Settled(claims) : SettleClaim(c)
       /\ UNCHANGED <<todo, ready, notice, loop>>
    \/ /\ loop.pc = "claims" /\ DrainsClaimsFirst
       /\ loop' = [loop EXCEPT !.pc = "drain"]
       /\ UNCHANGED <<todo, ready, notice, execs, claims, Counters, empty, ctl>>
    \/ /\ loop.pc = "drain" /\ \E e \in Settled(execs) : Observe(e)
       /\ UNCHANGED <<todo, ready, notice, loop>>
    \/ /\ loop.pc = "drain" /\ execs = EmptyBag /\ loop' = [loop EXCEPT !.pc = "done"]
       /\ UNCHANGED <<todo, ready, notice, execs, claims, Counters, empty, ctl>>

Init ==
    /\ todo = [known |-> Known, unknown |-> Unknown] /\ ready = [known |-> Backlog, unknown |-> 0]
    /\ notice = FALSE /\ execs = EmptyBag /\ claims = EmptyBag
    /\ reserved = 0 /\ wholeClaims = 0 /\ activeSlots = 0
    /\ cohort = [c \in CohortIds |-> [active |-> 0, handed |-> 0, reserved |-> 0, claims |-> 0]]
    /\ empty = [wait |-> NoWait, some |-> FALSE]
    /\ loop = [pc |-> "top", timed |-> FALSE, woken |-> FALSE]
    /\ ctl = [paused |-> FALSE, stopping |-> FALSE, gate |-> TRUE, failed |-> FALSE,
              delay |-> FALSE, tier |-> FALSE, left |-> Controls]

ClaimStep(c) == DelayEnds(c) \/ ClaimAnswered(c)
ExecStep(e) == ReleaseAnswered(e) \/ HandlerEnds(e) \/ FusedAnswered(e) \/ ExecutionEnds(e)

Next ==
    \/ \E kind \in Kinds : Enqueue(kind)
    \/ Notified \/ SetPaused \/ Stop \/ GateCloses \/ GateOpens \/ DeadlinePasses \/ PollFires
    \/ \E c \in BagToSet(claims) : ClaimStep(c) \/ ClaimFails(c)
    \/ \E e \in BagToSet(execs) : ExecStep(e) \/ FusedFails(e)
    \/ Pass \/ NextEvent \/ Drain

Spec == Init /\ [][Next]_vars

-----------------------------------------------------------------------------
(* Properties *)

Unfinished(e) == e.st \in {"running", "releasing"}

\* The tasks that the worker leases and whose handlers have not ended never
\* exceed its concurrency, though claims overlap, fused completions claim
\* before their own slot is free, and executions linger after their handler.
ClaimsWithinConcurrency ==
    Count(execs, Unfinished)
        + MapThenSumSet(LAMBDA c : CopiesIn(c, claims) * Total(c.got), BagToSet(claims))
        <= Concurrency

\* The handlers of a cohort stay within its share of the slots, and the free
\* slots that the loop computes for it are never negative.
CohortShare == \A c \in CohortIds : CohortFree(cohort, c) >= 0

\* runtimeState() reports between none and all slots in use, and none once the
\* loop has drained.
SlotsReported ==
    activeSlots \in 0..Concurrency /\ (loop.pc = "done" => activeSlots = 0)

\* No task that the worker claimed is left when the loop ends: what a claim or
\* a fused completion brings during the drain still runs and settles.
DrainComplete == loop.pc = "done" => execs = EmptyBag /\ claims = EmptyBag /\ reserved = 0

Refusing == ctl.stopping \/ ctl.paused \/ ctl.failed

\* A ready task that a handler of this worker can run is not claimed.
TaskWaits == ready.known > 0 /\ ~Refusing

Ended == loop.pc = "done"
=============================================================================
