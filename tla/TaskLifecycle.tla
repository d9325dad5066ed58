--------------------------- MODULE TaskLifecycle ---------------------------
(***************************************************************************)
(* The life of a full-tier task: from enqueue, through claims, leases,     *)
(* retries, durable waits, cancellation, deadlines and execution timeouts, *)
(* to its one terminal outcome.                                            *)
(*                                                                         *)
(* Every SQL function of sql/schema/current.sql that moves a task is one   *)
(* action: the function is one transaction and locks the runtime row       *)
(* before it decides.  What interleaves is the calls: those of workers,    *)
(* including workers that lost their lease and do not know it yet, of the  *)
(* maintenance tick, and of operators.  Each call reads the clock once;    *)
(* release_owned_v1, which reads it twice, has the second sample as the    *)
(* parameter late.                                                         *)
(*                                                                         *)
(* Times are naturals, and a NULL timestamp is Never, which the clock does *)
(* not reach: "x IS NOT NULL AND x <= now" is then x <= now.  A call that  *)
(* the code answers with stale, false or not_due changes nothing and is a  *)
(* stuttering step.                                                        *)
(***************************************************************************)
EXTENDS Integers, Sequences, FiniteSets

CONSTANTS
    Tasks,        \* task identities, ordered as the uuids are
    Workers,
    Definitions,  \* what an enqueue may ask for, see DefinitionType
    StartDelays,  \* how far ahead of the enqueue run_at may lie
    RetryDelays,  \* the delays retry_delay_v1 may answer
    WaitNames,    \* names of timer, signal and human waits
    WaitSpans,    \* durations of timer waits and timeouts of the others
    Payloads,     \* what a signal or a human decision may carry
    PauseCalls,   \* the values set_queue_paused_v1 may be called with
    Lease,        \* lease length granted by a claim or a heartbeat
    Limit,        \* rows one tick promotes, and rows it recovers
    Slip,         \* how far the clock may move inside release_owned_v1
    Never,        \* the NULL timestamp
    Horizon,      \* bound: the clock stops here
    MaxFence,     \* bound: fence tokens the model hands out
    NoWorker,     \* worker_id IS NULL
    NoName        \* wait_name IS NULL

DefinitionType ==
    [max : Nat \ {0}, deadline : Nat, timeout : Nat \ {0}, priority : Nat]

ASSUME ConstantsAssumption ==
    /\ Tasks \subseteq Nat
    /\ Definitions \subseteq DefinitionType
    /\ StartDelays \subseteq Nat /\ RetryDelays \subseteq Nat
    /\ WaitSpans \subseteq Nat \ {0}
    /\ PauseCalls \subseteq BOOLEAN
    /\ Lease \in Nat \ {0} /\ Limit \in Nat \ {0} /\ Slip \in Nat
    /\ Horizon \in Nat /\ Never \in Nat
    /\ \A d \in StartDelays \union RetryDelays \union WaitSpans \union {0} :
          Horizon + d < Never
    /\ \A d \in Definitions : d.deadline <= Never
    /\ MaxFence \in Nat
    /\ NoWorker \notin Workers /\ NoName \notin WaitNames

\* Tasks is finite: a pass of maintenance can count whatever rows it takes.
ASSUME FiniteAssumption == \A S \in SUBSET Tasks : Cardinality(S) \in Nat

VARIABLES
    now,          \* clock_timestamp() of the database
    def,          \* table task: the immutable definition of each task
    runtime,      \* table task_runtime: the one mutable row of a live task
    outcome,      \* table task_outcome: the verdict on a finished task
    history,      \* table attempt_history: closed attempts, per task in order
    waits,        \* tables task_wait, task_signal_wait and task_human_wait
    issued,       \* the claims workers were handed and may still act on
    fenceSeq,     \* fence_token_seq
    readySeq,     \* ready_sequence_seq
    paused,       \* queue_control.paused
    scanDue       \* the expired-lease scan may run: half an interval passed

vars == <<now, def, runtime, outcome, history, waits, issued, fenceSeq,
          readySeq, paused, scanDue>>

-----------------------------------------------------------------------------
(* Rows *)

NoDefinition == [max |-> 0, deadline |-> Never, timeout |-> Never, priority |-> 0]

NoRow == [state |-> "none", attempt |-> 0, fence |-> 0, worker |-> NoWorker,
          acquired |-> 0, expires |-> 0, deadline |-> Never, used |-> 0,
          timeoutAt |-> Never, runAt |-> 0, seq |-> 0, wait |-> NoName,
          started |-> FALSE, cancel |-> FALSE]

NoOutcome == [state |-> "none", attempt |-> 0, fence |-> 0, at |-> 0]

RowType ==
    [state : {"none", "scheduled", "ready", "active"}, attempt : Nat,
     fence : Nat, worker : Workers \union {NoWorker}, acquired : Nat,
     expires : Nat, deadline : Nat, used : Nat, timeoutAt : Nat, runAt : Nat,
     seq : Nat, wait : WaitNames \union {NoName}, started : BOOLEAN,
     cancel : BOOLEAN]

Verdicts == {"succeeded", "failed", "retry", "lease_expired", "canceled",
             "deadline_exceeded", "timeout"}

OutcomeType == [state : {"none", "succeeded", "failed", "canceled"},
                attempt : Nat, fence : Nat, at : Nat]

HistoryType == [attempt : Nat, fence : Nat, worker : Workers, verdict : Verdicts]

WaitKinds == {"timer", "signal", "human"}

\* answer is the set that holds the accepted payload, empty while pending.
WaitType == [kind : WaitKinds, name : WaitNames, attempt : Nat, fence : Nat,
             worker : Workers, answer : SUBSET Payloads]

Live(t) == runtime[t].state # "none"
Active(t) == runtime[t].state = "active"

\* Faulty: a caller is known by its worker id alone.
OwnsAnyFence(w, t, f) == Active(t) /\ runtime[t].worker = w

\* WHERE state = 'active' AND worker_id = w AND fence_token = f
Owns(w, t, f) ==
    Active(t) /\ runtime[t].worker = w /\ runtime[t].fence = f

PastDeadline(t) == runtime[t].deadline <= now
PastTimeout(t) == runtime[t].timeoutAt <= now
PastExpiry(t) == runtime[t].expires <= now

\* Faulty: a write under the lease that forgets one condition.
HoldsLeaseAnyDeadline(w, t, f) ==
    Owns(w, t, f) /\ ~PastExpiry(t) /\ ~PastTimeout(t) /\ ~runtime[t].cancel
HoldsLeaseAnyCancel(w, t, f) ==
    Owns(w, t, f) /\ ~PastExpiry(t) /\ ~PastDeadline(t) /\ ~PastTimeout(t)

\* The predicate of complete_v1, schedule_wait_v1, wait_for_signal_v1 and
\* every other write a handler makes under its lease.
HoldsLease(w, t, f) ==
    /\ Owns(w, t, f)
    /\ ~PastExpiry(t) /\ ~PastDeadline(t) /\ ~PastTimeout(t)
    /\ ~runtime[t].cancel

-----------------------------------------------------------------------------
(* Settlements: what closing an attempt writes.  row replaces the runtime  *)
(* row, out the outcome, and entries are appended to attempt_history.      *)

Untouched(t) == [row |-> runtime[t], out |-> outcome[t], entries |-> <<>>]

Entry(t, w, f, verdict) ==
    [attempt |-> runtime[t].attempt, fence |-> f, worker |-> w,
     verdict |-> verdict]

Closed(t, state, w, f, verdict) ==
    [row |-> NoRow,
     out |-> [state |-> state, attempt |-> runtime[t].attempt, fence |-> f,
              at |-> now],
     entries |-> <<Entry(t, w, f, verdict)>>]

\* Faulty: the runtime row is not deleted.
ClosedUnattributedKeepsRow(t, state) ==
    [row |-> runtime[t],
     out |-> [state |-> state, attempt |-> runtime[t].attempt, fence |-> 0,
              at |-> now],
     entries |-> <<>>]

\* A close that no worker's execution is charged for.
ClosedUnattributed(t, state) ==
    [row |-> NoRow,
     out |-> [state |-> state, attempt |-> runtime[t].attempt, fence |-> 0,
              at |-> now],
     entries |-> <<>>]

ClosedByOwner(t, state, verdict) ==
    Closed(t, state, runtime[t].worker, runtime[t].fence, verdict)

\* The next attempt, ready when its delay is zero and scheduled otherwise.
Retried(t, delay, seq, verdict) ==
    [row |-> [NoRow EXCEPT
                !.state = IF delay = 0 THEN "ready" ELSE "scheduled",
                !.attempt = runtime[t].attempt + 1,
                !.deadline = runtime[t].deadline,
                !.runAt = now + delay,
                !.seq = IF delay = 0 THEN seq ELSE 0],
     out |-> outcome[t],
     entries |-> <<Entry(t, runtime[t].worker, runtime[t].fence, verdict)>>]

RetriedOrFailed(t, delay, seq, verdict) ==
    IF runtime[t].attempt < def[t].max
    THEN Retried(t, delay, seq, verdict)
    ELSE ClosedByOwner(t, "failed", verdict)

\* The wait rows of the current attempt.  Those of one claim carry the same
\* worker and fence, and later claims have larger fences, so the latest row
\* by created_at is one with the largest fence.
Provenance(t) ==
    {p \in waits[t] :
        /\ p.attempt = runtime[t].attempt
        /\ \A q \in waits[t] :
              q.attempt = runtime[t].attempt => q.fence <= p.fence}

\* cancel_v1 and terminalize_deadline_v1 on a row that no worker owns.
ClosedInactive(t, state, verdict) ==
    IF runtime[t].started /\ Provenance(t) # {}
    THEN LET p == CHOOSE q \in Provenance(t) : TRUE
         IN Closed(t, state, p.worker, p.fence, verdict)
    ELSE ClosedUnattributed(t, state)

\* terminalize_deadline_v1
DeadlineSettlement(t) ==
    IF ~PastDeadline(t) THEN Untouched(t)
    ELSE IF runtime[t].cancel THEN ClosedByOwner(t, "canceled", "canceled")
    ELSE IF Active(t) THEN ClosedByOwner(t, "failed", "deadline_exceeded")
    ELSE ClosedInactive(t, "failed", "deadline_exceeded")

\* timeout_owned_v1, which compares the deadline of the task, not of the row.
TimeoutSettlement(t, delay, seq) ==
    IF ~PastTimeout(t) \/ runtime[t].cancel THEN Untouched(t)
    ELSE IF def[t].deadline <= runtime[t].timeoutAt /\ def[t].deadline <= now
    THEN DeadlineSettlement(t)
    ELSE RetriedOrFailed(t, delay, seq, "timeout")

\* Faulty: a deadline that passed decides even when the timeout came first.
ExpirySettlementDeadlineFirst(t, delay, seq) ==
    IF runtime[t].cancel THEN Untouched(t)
    ELSE IF PastDeadline(t) THEN DeadlineSettlement(t)
    ELSE TimeoutSettlement(t, delay, seq)

\* expire_owned_v1: of the two boundaries the one reached first decides.
ExpirySettlement(t, delay, seq) ==
    IF runtime[t].cancel THEN Untouched(t)
    ELSE IF /\ PastDeadline(t)
            /\ ~PastTimeout(t) \/ runtime[t].deadline <= runtime[t].timeoutAt
    THEN DeadlineSettlement(t)
    ELSE TimeoutSettlement(t, delay, seq)

\* The third scan of recover_expired_v1.
LeaseSettlement(t, delay, seq) ==
    IF runtime[t].cancel
    THEN ClosedByOwner(t, "canceled", "canceled")
    ELSE RetriedOrFailed(t, delay, seq, "lease_expired")

Apply(t, s) ==
    /\ runtime' = [runtime EXCEPT ![t] = s.row]
    /\ outcome' = [outcome EXCEPT ![t] = s.out]
    /\ history' = [history EXCEPT ![t] = @ \o s.entries]
    /\ readySeq' = IF s.row.state = "ready" THEN readySeq + 1 ELSE readySeq

-----------------------------------------------------------------------------
(* Producers and operators *)

\* enqueue_batch_v1 for one request without key or prerequisites.  A task
\* whose deadline already passed is closed in the same transaction.
Enqueue(t, d, delay) ==
    LET ready == delay = 0
        row == [NoRow EXCEPT
                  !.state = IF ready THEN "ready" ELSE "scheduled",
                  !.attempt = 1,
                  !.deadline = d.deadline,
                  !.runAt = now + delay,
                  !.seq = IF ready THEN readySeq + 1 ELSE 0]
        late == d.deadline <= now
    IN /\ def[t] = NoDefinition
       /\ def' = [def EXCEPT ![t] = d]
       /\ runtime' = [runtime EXCEPT ![t] = IF late THEN NoRow ELSE row]
       /\ outcome' = [outcome EXCEPT ![t] =
             IF late
             THEN [state |-> "failed", attempt |-> 1, fence |-> 0, at |-> now]
             ELSE @]
       /\ readySeq' = IF ready THEN readySeq + 1 ELSE readySeq
       /\ UNCHANGED <<now, history, waits, issued, fenceSeq, paused, scanDue>>

\* Faulty: a task that already has an outcome is closed again.
CancelAnyState(t) ==
    /\ def[t] # NoDefinition
    /\ IF ~Live(t)
       THEN /\ outcome' = [outcome EXCEPT ![t].state = "canceled"]
            /\ UNCHANGED <<runtime, history, readySeq>>
       ELSE IF Active(t)
       THEN /\ ~runtime[t].cancel
            /\ runtime' = [runtime EXCEPT ![t].cancel = TRUE]
            /\ UNCHANGED <<outcome, history, readySeq>>
       ELSE Apply(t, ClosedInactive(t, "canceled", "canceled"))
    /\ UNCHANGED <<now, def, waits, issued, fenceSeq, paused, scanDue>>

\* cancel_v1: a request to the owner of an active task, an outcome at once
\* for any other live task, and an answer without effect for a finished one.
Cancel(t) ==
    /\ Live(t)
    /\ IF Active(t)
       THEN /\ ~runtime[t].cancel
            /\ runtime' = [runtime EXCEPT ![t].cancel = TRUE]
            /\ UNCHANGED <<outcome, history, readySeq>>
       ELSE Apply(t, ClosedInactive(t, "canceled", "canceled"))
    /\ UNCHANGED <<now, def, waits, issued, fenceSeq, paused, scanDue>>

\* run_task_now_v1
RunTaskNow(t) ==
    /\ runtime[t].state = "scheduled"
    /\ runtime[t].wait = NoName /\ ~runtime[t].started
    /\ runtime' = [runtime EXCEPT ![t] =
          [@ EXCEPT !.state = "ready", !.runAt = now, !.seq = readySeq + 1]]
    /\ readySeq' = readySeq + 1
    /\ UNCHANGED <<now, def, outcome, history, waits, issued, fenceSeq, paused,
                   scanDue>>

\* set_queue_paused_v1
SetQueuePaused(p) ==
    /\ paused' = p
    /\ UNCHANGED <<now, def, runtime, outcome, history, waits, issued, fenceSeq,
                   readySeq, scanDue>>

-----------------------------------------------------------------------------
(* Calls of workers *)

\* A row the claim may take: past its deadline, or with no execution time
\* left, it may not.
Claimable(t) ==
    /\ runtime[t].state = "ready"
    /\ ~PastDeadline(t)
    /\ def[t].timeout = Never \/ runtime[t].used < def[t].timeout

\* ORDER BY priority DESC, sequence, task_id
Precedes(t, u) ==
    \/ def[t].priority > def[u].priority
    \/ def[t].priority = def[u].priority /\ runtime[t].seq < runtime[u].seq
    \/ def[t].priority = def[u].priority /\ runtime[t].seq = runtime[u].seq /\ t < u

\* Faulty: every claim of an attempt starts a new execution timeout.
GrantedFullBudget(t, w) ==
    [runtime[t] EXCEPT
        !.state = "active", !.fence = fenceSeq + 1, !.worker = w,
        !.acquired = now, !.expires = now + Lease, !.seq = 0, !.wait = NoName,
        !.started = TRUE,
        !.timeoutAt = IF def[t].timeout = Never THEN Never
                      ELSE now + def[t].timeout]

Granted(t, w) ==
    [runtime[t] EXCEPT
        !.state = "active", !.fence = fenceSeq + 1, !.worker = w,
        !.acquired = now, !.expires = now + Lease, !.seq = 0, !.wait = NoName,
        !.started = TRUE,
        !.timeoutAt = IF def[t].timeout = Never THEN Never
                      ELSE now + (def[t].timeout - runtime[t].used)]

\* claim_one_v1 on a queue without policies or budgets.  locked are the rows
\* other transactions hold, which SKIP LOCKED walks past.  A claim that takes
\* nothing only leaves a gap in the fence sequence, which no one can observe.
ClaimOne(w, locked) ==
    LET candidates == {t \in Tasks \ locked : Claimable(t)}
    IN /\ ~paused
       /\ fenceSeq < MaxFence /\ now + Lease <= Horizon
       /\ \E t \in candidates :
             /\ \A u \in candidates \ {t} : Precedes(t, u)
             /\ runtime' = [runtime EXCEPT ![t] = Granted(t, w)]
             /\ issued' = issued \union {<<w, t, fenceSeq + 1>>}
       /\ fenceSeq' = fenceSeq + 1
       /\ UNCHANGED <<now, def, outcome, history, waits, readySeq, paused, scanDue>>

\* heartbeat_v1: a lease that is already lost, canceled or past a boundary is
\* not renewed.
Heartbeat(w, t, f) ==
    /\ HoldsLease(w, t, f)
    /\ now + Lease <= Horizon
    /\ runtime' = [runtime EXCEPT ![t].expires = now + Lease]
    /\ UNCHANGED <<now, def, outcome, history, waits, issued, fenceSeq, readySeq,
                   paused, scanDue>>

\* heartbeat_many_v2: one call renews whatever a worker still holds of the
\* claims it names; a row another transaction has locked is answered busy.
HeartbeatMany(w, beats, locked) ==
    LET renewed == {t \in Tasks \ locked :
                       \E c \in beats : c[2] = t /\ HoldsLease(w, t, c[3])}
    IN /\ renewed # {} /\ now + Lease <= Horizon
       /\ runtime' = [t \in Tasks |->
             IF t \in renewed THEN [runtime[t] EXCEPT !.expires = now + Lease]
             ELSE runtime[t]]
       /\ UNCHANGED <<now, def, outcome, history, waits, issued, fenceSeq, readySeq,
                      paused, scanDue>>

\* complete_v1
Complete(w, t, f) ==
    /\ HoldsLease(w, t, f)
    /\ Apply(t, Closed(t, "succeeded", w, f, "succeeded"))
    /\ UNCHANGED <<now, def, waits, issued, fenceSeq, paused, scanDue>>

\* fail_v1.  retry is false for the delay -1, which asks for no retry.
Fail(w, t, f, retry, delay) ==
    /\ Owns(w, t, f) /\ ~PastExpiry(t) /\ ~runtime[t].cancel
    /\ Apply(t, IF PastDeadline(t) \/ PastTimeout(t)
                THEN ExpirySettlement(t, delay, readySeq + 1)
                ELSE IF runtime[t].attempt < def[t].max /\ retry
                THEN Retried(t, delay, readySeq + 1, "retry")
                ELSE ClosedByOwner(t, "failed", "failed"))
    /\ UNCHANGED <<now, def, waits, issued, fenceSeq, paused, scanDue>>

\* Faulty: a suspension subtracts the wrong way round, or uses an attempt up.
SuspendedSwapped(t, at) ==
    [runtime[t] EXCEPT
        !.fence = 0, !.worker = NoWorker, !.acquired = 0, !.expires = 0,
        !.used = @ + (runtime[t].acquired - at), !.timeoutAt = Never]
SuspendedNextAttempt(t, at) ==
    [runtime[t] EXCEPT
        !.attempt = @ + 1,
        !.fence = 0, !.worker = NoWorker, !.acquired = 0, !.expires = 0,
        !.used = @ + (at - runtime[t].acquired), !.timeoutAt = Never]

\* The suspension of schedule_wait_v1, wait_for_signal_v1, wait_for_human_v1
\* and release_owned_v1: ownership ends, the attempt stays open, and the time
\* held up to the instant at is charged to it.
Suspended(t, at) ==
    [runtime[t] EXCEPT
        !.fence = 0, !.worker = NoWorker, !.acquired = 0, !.expires = 0,
        !.used = @ + (at - runtime[t].acquired), !.timeoutAt = Never]

\* release_owned_v1.  Its WHERE clause and its SET list each read the clock;
\* late is the distance between the two.
ReleaseOwned(w, t, f, delay, late) ==
    /\ Owns(w, t, f) /\ ~PastExpiry(t) /\ ~runtime[t].cancel
    /\ now' = now + late /\ now' <= Horizon
    /\ Apply(t, IF PastDeadline(t) \/ PastTimeout(t)
                THEN ExpirySettlement(t, delay, readySeq + 1)
                ELSE [row |-> [Suspended(t, now + late) EXCEPT
                                 !.state = "ready", !.runAt = now + late,
                                 !.seq = readySeq + 1],
                      out |-> outcome[t], entries |-> <<>>])
    /\ UNCHANGED <<def, waits, issued, fenceSeq, paused, scanDue>>

\* expire_owned_v1, called by the local timer of the worker.
ExpireOwned(w, t, f, delay) ==
    /\ Owns(w, t, f) /\ ~runtime[t].cancel
    /\ PastDeadline(t) \/ PastTimeout(t)
    /\ Apply(t, ExpirySettlement(t, delay, readySeq + 1))
    /\ UNCHANGED <<now, def, waits, issued, fenceSeq, paused, scanDue>>

\* Faulty: a worker acknowledges a cancellation that nobody requested.
AcknowledgeCancelAny(w, t, f) ==
    /\ Owns(w, t, f) /\ ~PastExpiry(t)
    /\ Apply(t, Closed(t, "canceled", w, f, "canceled"))
    /\ UNCHANGED <<now, def, waits, issued, fenceSeq, paused, scanDue>>

\* acknowledge_cancel_v1
AcknowledgeCancel(w, t, f) ==
    /\ Owns(w, t, f) /\ ~PastExpiry(t) /\ runtime[t].cancel
    /\ Apply(t, Closed(t, "canceled", w, f, "canceled"))
    /\ UNCHANGED <<now, def, waits, issued, fenceSeq, paused, scanDue>>

-----------------------------------------------------------------------------
(* Durable waits *)

WaitRow(kind, n, t, answer) ==
    [kind |-> kind, name |-> n, attempt |-> runtime[t].attempt,
     fence |-> runtime[t].fence, worker |-> runtime[t].worker, answer |-> answer]

WaitsNamed(t, kind, n) == {p \in waits[t] : p.kind = kind /\ p.name = n}

\* schedule_wait_v1.  A name already recorded is a replay that elapses at
\* once.  A target that is not ahead, span 0, is recorded and elapses too.
ScheduleWait(w, t, f, n, span) ==
    /\ HoldsLease(w, t, f)
    /\ WaitsNamed(t, "timer", n) = {}
    /\ waits' = [waits EXCEPT ![t] = @ \union {WaitRow("timer", n, t, {})}]
    /\ runtime' = [runtime EXCEPT ![t] =
          IF span = 0 THEN @
          ELSE [Suspended(t, now) EXCEPT
                  !.state = "scheduled", !.runAt = now + span, !.wait = n]]
    /\ UNCHANGED <<now, def, outcome, history, issued, fenceSeq, readySeq, paused,
                   scanDue>>

\* What wait_for_signal_v1 and wait_for_human_v1 do alike.  The deadline of the
\* row becomes the earlier of its deadline and the timeout of the wait.
WaitFor(kind, w, t, f, n, span) ==
    /\ WaitsNamed(t, kind, n) = {}
    /\ HoldsLease(w, t, f)
    /\ waits' = [waits EXCEPT ![t] = @ \union {WaitRow(kind, n, t, {})}]
    /\ runtime' = [runtime EXCEPT ![t] =
          [Suspended(t, now) EXCEPT
             !.state = "scheduled", !.runAt = Never, !.wait = n,
             !.deadline = IF @ <= now + span THEN @ ELSE now + span]]
    /\ UNCHANGED <<now, def, outcome, history, issued, fenceSeq, readySeq, paused,
                   scanDue>>

WaitForSignal(w, t, f, n, span) == WaitFor("signal", w, t, f, n, span)

WaitForHuman(w, t, f, n, span) == WaitFor("human", w, t, f, n, span)

\* Faulty: the deadline of the wait stays with the row.
ResumedOldDeadline(t) ==
    [runtime[t] EXCEPT
        !.state = "ready", !.runAt = now, !.seq = readySeq + 1, !.wait = NoName]

\* The row after a delivery, with the deadline of the task back in force.
Resumed(t) ==
    [runtime[t] EXCEPT
        !.state = "ready", !.runAt = now, !.seq = readySeq + 1, !.wait = NoName,
        !.deadline = def[t].deadline]

\* Faulty: a delivery replaces an earlier one.
DeliverAgain(kind, t, n, payload) ==
    \E p \in WaitsNamed(t, kind, n) :
        /\ runtime[t].state = "scheduled" /\ runtime[t].wait = n
        /\ runtime[t].attempt = p.attempt
        /\ ~PastDeadline(t)
        /\ waits' = [waits EXCEPT ![t] =
              (@ \ {p}) \union {[p EXCEPT !.answer = {payload}]}]
        /\ runtime' = [runtime EXCEPT ![t] = Resumed(t)]
        /\ readySeq' = readySeq + 1
        /\ UNCHANGED <<now, def, outcome, history, issued, fenceSeq, paused, scanDue>>

\* What send_signal_v1 and complete_human_wait_v1 do alike.  A second delivery
\* is answered from the stored row and changes nothing.
Deliver(kind, t, n, payload) ==
    \E p \in WaitsNamed(t, kind, n) :
        /\ p.answer = {}
        /\ runtime[t].state = "scheduled" /\ runtime[t].wait = n
        /\ runtime[t].attempt = p.attempt
        /\ ~PastDeadline(t)
        /\ waits' = [waits EXCEPT ![t] =
              (@ \ {p}) \union {[p EXCEPT !.answer = {payload}]}]
        /\ runtime' = [runtime EXCEPT ![t] = Resumed(t)]
        /\ readySeq' = readySeq + 1
        /\ UNCHANGED <<now, def, outcome, history, issued, fenceSeq, paused, scanDue>>

SendSignal(t, n, payload) == Deliver("signal", t, n, payload)

CompleteHumanWait(t, n, payload) == Deliver("human", t, n, payload)

-----------------------------------------------------------------------------
(* Maintenance *)

\* ORDER BY at, task_id
Rank(S, at, t) ==
    Cardinality({u \in S : at[u] < at[t] \/ (at[u] = at[t] /\ u < t)})

FirstRows(S, at, limit) == {t \in S : Rank(S, at, t) < limit}

Column(field) == [t \in Tasks |-> runtime[t][field]]

\* Faulty: rows that wait for a signal or a decision are promoted too, or a
\* row that is due at this very instant is not.
DuePromotionsAny(locked) ==
    {t \in Tasks \ locked : runtime[t].state = "scheduled"}
DuePromotionsStrict(locked) ==
    {t \in Tasks \ locked : runtime[t].state = "scheduled" /\ runtime[t].runAt < now}

DuePromotions(locked) ==
    {t \in Tasks \ locked : runtime[t].state = "scheduled" /\ runtime[t].runAt <= now}

\* Faulty: the wait name of a promoted row is kept.
PromotedKeepsWait(t, seq) == [runtime[t] EXCEPT !.state = "ready", !.seq = seq]

\* promote_v1 on one row.
Promoted(t, seq) ==
    [runtime[t] EXCEPT !.state = "ready", !.seq = seq, !.wait = NoName]

\* Faulty: the deadline scan leaves suspended tasks to their wait, or owned
\* ones to the lease scan, which leaves them to the deadline scan.
DueDeadlinesNotWaiting(locked) ==
    {t \in Tasks \ locked : Live(t) /\ PastDeadline(t) /\ runtime[t].wait = NoName}
DueDeadlinesUnowned(locked) ==
    {t \in Tasks \ locked : Live(t) /\ PastDeadline(t) /\ ~Active(t)}

\* The three scans of recover_expired_v1, each over the rows not locked.
DueDeadlines(locked) ==
    {t \in Tasks \ locked :
        /\ Live(t) /\ PastDeadline(t)
        /\ ~Active(t) \/ ~PastTimeout(t) \/ runtime[t].deadline <= runtime[t].timeoutAt}

DueTimeouts(locked) ==
    {t \in Tasks \ locked :
        /\ Active(t) /\ PastTimeout(t)
        /\ ~PastDeadline(t) \/ runtime[t].timeoutAt < runtime[t].deadline
        /\ ~runtime[t].cancel \/ PastDeadline(t)}

\* Faulty: the lease scan leaves canceled tasks to their owners.
DueLeasesNotCanceled(locked) ==
    {t \in Tasks \ locked :
        /\ Active(t) /\ PastExpiry(t) /\ ~runtime[t].cancel
        /\ ~PastDeadline(t) /\ ~PastTimeout(t)}

DueLeases(locked) ==
    {t \in Tasks \ locked :
        /\ Active(t) /\ PastExpiry(t)
        /\ runtime[t].cancel \/ ~PastDeadline(t)
        /\ runtime[t].cancel \/ ~PastTimeout(t)}

\* recover_expired_v1: the rows each scan settles, in the order of the scans,
\* which share the limit.  The expired-lease scan runs only when scanDue, and
\* when the two scans before it left room.
Recovery(locked) ==
    LET D == FirstRows(DueDeadlines(locked), Column("deadline"), Limit)
        T == FirstRows(DueTimeouts(locked), Column("timeoutAt"),
                       Limit - Cardinality(D))
        room == Limit - Cardinality(D) - Cardinality(T)
        L == IF scanDue
             THEN FirstRows(DueLeases(locked) \ (D \union T), Column("expires"), room)
             ELSE {}
    IN [deadlines |-> D, timeouts |-> T, leases |-> L,
        spaced |-> room > 0 /\ scanDue /\ Cardinality(L) < room]

NoRecovery == [deadlines |-> {}, timeouts |-> {}, leases |-> {}, spaced |-> FALSE]

\* What a tick writes for row t, promoted in P and settled as R says.
Settlement(t, P, R, delay, seq) ==
    IF t \in R.deadlines \/ (t \in R.timeouts /\ runtime[t].cancel)
    THEN DeadlineSettlement(t)
    ELSE IF t \in R.timeouts THEN TimeoutSettlement(t, delay, seq)
    ELSE IF t \in R.leases THEN LeaseSettlement(t, delay, seq)
    ELSE IF t \in P THEN [Untouched(t) EXCEPT !.row = Promoted(t, seq)]
    ELSE Untouched(t)

\* tick_v1: promotion, then recovery, in one transaction.  failed is the phase
\* whose exception the tick caught and rolled back, if any.  Only a lease scan
\* that did not fill its share of the limit puts the next one off.
Tick(locked, failed, delays) ==
    LET P == IF failed = "promote" THEN {}
             ELSE FirstRows(DuePromotions(locked), Column("runAt"), Limit)
        R == IF failed = "recover" THEN NoRecovery ELSE Recovery(locked)
        Sequenced == P \union R.timeouts \union R.leases
        seq == [t \in Tasks |->
                  readySeq + 1 +
                  (IF t \in P THEN Rank(P, Column("runAt"), t)
                   ELSE Cardinality(P) +
                        (IF t \in R.timeouts THEN Rank(R.timeouts, Column("timeoutAt"), t)
                         ELSE Cardinality(R.timeouts) + Rank(R.leases, Column("expires"), t)))]
        settled == [t \in Tasks |-> Settlement(t, P, R, delays[t], seq[t])]
    IN /\ runtime' = [t \in Tasks |-> settled[t].row]
       /\ outcome' = [t \in Tasks |-> settled[t].out]
       /\ history' = [t \in Tasks |-> history[t] \o settled[t].entries]
       /\ readySeq' = readySeq + Cardinality(Sequenced)
       /\ scanDue' = (scanDue /\ ~R.spaced)
       /\ UNCHANGED <<now, def, waits, issued, fenceSeq, paused>>

\* Half the shortest maintenance interval of the live workers passed.
ScanBecomesDue ==
    /\ ~scanDue /\ scanDue' = TRUE
    /\ UNCHANGED <<now, def, runtime, outcome, history, waits, issued, fenceSeq,
                   readySeq, paused>>

Advance ==
    /\ now < Horizon /\ now' = now + 1
    /\ UNCHANGED <<def, runtime, outcome, history, waits, issued, fenceSeq, readySeq,
                   paused, scanDue>>

-----------------------------------------------------------------------------
Init ==
    /\ now = 0
    /\ def = [t \in Tasks |-> NoDefinition]
    /\ runtime = [t \in Tasks |-> NoRow]
    /\ outcome = [t \in Tasks |-> NoOutcome]
    /\ history = [t \in Tasks |-> <<>>]
    /\ waits = [t \in Tasks |-> {}]
    /\ issued = {}
    /\ fenceSeq = 0 /\ readySeq = 0
    /\ paused = FALSE /\ scanDue = TRUE

\* What a worker may call for a claim <<w, t, f>> it was handed.
HolderCall(w, t, f) ==
    \/ Heartbeat(w, t, f)
    \/ Complete(w, t, f)
    \/ AcknowledgeCancel(w, t, f)
    \/ \E delay \in RetryDelays :
          \/ \E retry \in BOOLEAN : Fail(w, t, f, retry, delay)
          \/ \E late \in 0..Slip : ReleaseOwned(w, t, f, delay, late)
          \/ ExpireOwned(w, t, f, delay)
    \/ \E n \in WaitNames :
          \/ \E span \in WaitSpans \union {0} : ScheduleWait(w, t, f, n, span)
          \/ \E span \in WaitSpans : WaitForSignal(w, t, f, n, span)
          \/ \E span \in WaitSpans : WaitForHuman(w, t, f, n, span)

\* A worker calls with any claim it was ever handed, stale or not.
WorkerCall ==
    \/ \E w \in Workers, locked \in SUBSET Tasks :
          HeartbeatMany(w, {c \in issued : c[1] = w}, locked)
    \/ \E c \in issued : HolderCall(c[1], c[2], c[3])

OperatorCall ==
    \/ \E t \in Tasks :
          \/ \E d \in Definitions, delay \in StartDelays : Enqueue(t, d, delay)
          \/ Cancel(t)
          \/ RunTaskNow(t)
          \/ \E n \in WaitNames, payload \in Payloads :
                SendSignal(t, n, payload) \/ CompleteHumanWait(t, n, payload)
    \/ \E p \in PauseCalls : SetQueuePaused(p)

Claim == \E w \in Workers, locked \in SUBSET Tasks : ClaimOne(w, locked)

Maintenance ==
    \E locked \in SUBSET Tasks, failed \in {"none", "promote", "recover"},
       delays \in [Tasks -> RetryDelays] : Tick(locked, failed, delays)

Next == WorkerCall \/ OperatorCall \/ Claim \/ Maintenance \/ ScanBecomesDue \/ Advance

Spec == Init /\ [][Next]_vars

\* A tick that meets no lock and no failure.
CleanTick == \E delays \in [Tasks -> RetryDelays] : Tick({}, "none", delays)

\* Time passes and the gate of the expired-lease scan opens.  Every worker
\* ticks once per interval and a row lock lasts one short transaction, so of
\* the ticks that have work, not every one meets a lock or a failure: strong
\* fairness, since a tick that skipped a row may close the gate behind it.
\* Nothing is assumed of workers, producers and operators.
FairSpec ==
    Spec /\ WF_vars(Advance) /\ WF_vars(ScanBecomesDue) /\ SF_vars(CleanTick)
=============================================================================
