------------------------ MODULE TaskLifecycleProps -------------------------
(***************************************************************************)
(* What makes the life of a task correct: see TaskLifecycle for the model. *)
(***************************************************************************)
EXTENDS TaskLifecycle

\* Every variable has its type.
TypeOK ==
    /\ now \in 0..Horizon
    /\ def \in [Tasks -> Definitions \union {NoDefinition}]
    /\ runtime \in [Tasks -> RowType]
    /\ outcome \in [Tasks -> OutcomeType]
    /\ history \in [Tasks -> Seq(HistoryType)]
    /\ waits \in [Tasks -> SUBSET WaitType]
    /\ issued \subseteq Workers \X Tasks \X Nat
    /\ fenceSeq \in Nat /\ readySeq \in Nat
    /\ paused \in BOOLEAN /\ scanDue \in BOOLEAN

\* An accepted task is in exactly one place: a runtime row while it lives and
\* an outcome afterwards.  No transition loses it or leaves it in both.
OneHome ==
    \A t \in Tasks :
        /\ def[t] = NoDefinition => ~Live(t) /\ outcome[t] = NoOutcome
        /\ def[t] # NoDefinition => (Live(t) <=> outcome[t].state = "none")

\* The CHECK constraints of task_runtime and task_outcome hold of every row a
\* transition writes, so none of them raises in the middle of a recovery pass.
ConstraintsHold ==
    \A t \in Tasks : LET r == runtime[t]  o == outcome[t] IN
        /\ r.state = "active" =>
              r.fence > 0 /\ r.worker # NoWorker /\ r.wait = NoName /\ r.started
        /\ r.state \in {"scheduled", "ready"} =>
              /\ r.fence = 0 /\ r.worker = NoWorker /\ r.timeoutAt = Never
              /\ ~r.cancel
        /\ r.state = "scheduled" => (r.wait # NoName <=> r.started)
        /\ r.state = "ready" => r.wait = NoName
        /\ o.state = "succeeded" => o.fence > 0
        /\ (o.state = "failed" /\ o.fence = 0) => def[t].deadline <= o.at

\* A token is held by one lease at a time, and the outcome of a task that
\* succeeded is credited to the last claim of that task that was handed out:
\* a worker that lost its lease never decides the task.
SuccessByLatestClaim ==
    \A t \in Tasks :
        /\ outcome[t].state = "succeeded" =>
              \A c \in issued : c[2] = t => c[3] <= outcome[t].fence
        /\ \A u \in Tasks : (Active(t) /\ Active(u) /\ t # u) =>
              runtime[t].fence # runtime[u].fence

\* attempt_history is a gapless ledger: attempt i is closed once, before
\* attempt i+1 starts, under a larger fence each time; a release or a durable
\* wait closes nothing; no task uses more attempts than it was given; and an
\* outcome with a fence is the last entry of the ledger.
AttemptLedger ==
    \A t \in Tasks : LET h == history[t]  o == outcome[t] IN
        /\ Live(t) => /\ Len(h) = runtime[t].attempt - 1
                      /\ runtime[t].attempt <= def[t].max
        /\ o.state # "none" =>
              Len(h) = IF o.fence = 0 THEN o.attempt - 1 ELSE o.attempt
        /\ \A i \in 1..Len(h) : h[i].attempt = i
        /\ \A i \in 2..Len(h) : h[i - 1].fence < h[i].fence
        /\ o.fence # 0 => h[Len(h)].fence = o.fence

\* The deadline of a task is shortened only while it waits for a signal or a
\* decision, and is back in force when it leaves that wait: timeout_owned_v1
\* may compare with task.deadline_at instead of with the row.
DeadlineRestored ==
    \A t \in Tasks : Live(t) =>
        /\ runtime[t].deadline <= def[t].deadline
        /\ runtime[t].runAt # Never => runtime[t].deadline = def[t].deadline

\* The execution time of an attempt is charged piecewise, over any number of
\* claims, waits and releases, and no piece is lost or charged twice.  A task a
\* worker holds has time left, and times out exactly when it is used.  A task
\* no worker holds was charged less than its time and the distance between the
\* two clock readings of one release_owned_v1: these do not add up.
BudgetKept ==
    \A t \in Tasks : (Live(t) /\ def[t].timeout # Never) =>
        IF Active(t)
        THEN /\ runtime[t].used < def[t].timeout
             /\ runtime[t].timeoutAt
                   = runtime[t].acquired + (def[t].timeout - runtime[t].used)
        ELSE runtime[t].used < def[t].timeout + Slip

\* A task that no worker holds always has execution time left, so a claim can
\* take it: no sequence of claims, releases and waits strands it.
BudgetIntact ==
    \A t \in Tasks : (Live(t) /\ def[t].timeout # Never /\ ~Active(t)) =>
        runtime[t].used < def[t].timeout

\* A signal or human wait that is still open belongs to a task that is
\* suspended on it, or that is finished: no task runs past an open wait, and
\* a delivery always finds the row it is meant for.
OpenWaitSuspends ==
    \A t \in Tasks : Live(t) =>
        \A p \in waits[t] : (p.kind # "timer" /\ p.answer = {}) =>
            /\ runtime[t].state = "scheduled"
            /\ runtime[t].wait = p.name
            /\ runtime[t].attempt = p.attempt

\* A completion is accepted only before the deadline the task was given,
\* whatever waits rewrote the deadline of its row.
SucceededInTime ==
    \A t \in Tasks :
        outcome[t].state = "succeeded" => outcome[t].at < def[t].deadline

-----------------------------------------------------------------------------
(* What a step may never do *)

\* An outcome is final: no later call, tick or stale worker changes it.
OutcomeFinalStep ==
    \A t \in Tasks : outcome[t].state # "none" =>
        outcome'[t] = outcome[t] /\ runtime'[t] = NoRow /\ history'[t] = history[t]
OutcomeFinal == [][OutcomeFinalStep]_vars

\* A cancellation that was requested wins: the task stays with its owner under
\* the same claim, or it ends canceled.  It never succeeds, fails or retries.
CancelSticksStep ==
    \A t \in Tasks : runtime[t].cancel =>
        \/ /\ runtime'[t].cancel /\ runtime'[t].fence = runtime[t].fence
           /\ runtime'[t].expires = runtime[t].expires
        \/ outcome'[t].state = "canceled"
CancelSticks == [][CancelSticksStep]_vars

\* An attempt is closed against its owner only when the boundary named in the
\* ledger was reached, and of deadline and timeout only by the earlier one.
FirstBoundaryDecidesStep ==
    \A t \in Tasks : Len(history'[t]) > Len(history[t]) =>
        LET v == history'[t][Len(history'[t])].verdict
            r == runtime[t]
        IN /\ v = "lease_expired" => r.expires <= now /\ r.deadline > now /\ r.timeoutAt > now
           /\ v = "timeout" => r.timeoutAt <= now /\ (r.deadline > now \/ r.timeoutAt < r.deadline)
           /\ v = "deadline_exceeded" =>
                 r.deadline <= now /\ (r.timeoutAt > now \/ r.deadline <= r.timeoutAt)
           /\ v \in {"succeeded", "retry", "failed"} =>
                 r.expires > now /\ r.deadline > now /\ r.timeoutAt > now
FirstBoundaryDecides == [][FirstBoundaryDecidesStep]_vars

\* What a signal or a decision delivered is never replaced or withdrawn, so a
\* handler that replays reads the same answer.
AnswersKeptStep ==
    \A t \in Tasks : \A p \in waits[t] :
        p.answer # {} => p \in waits'[t]
AnswersKept == [][AnswersKeptStep]_vars

-----------------------------------------------------------------------------
(* What must eventually happen, if ticks recur *)

\* Something about the task is for maintenance to settle: its deadline, which
\* while it waits for a signal or a decision is the timeout of that wait, the
\* lease or the execution time of its claim, a cancellation that its owner has
\* not acknowledged, or a start, a retry or a wait whose time has come.
Unsettled(t) ==
    \/ Live(t) /\ PastDeadline(t)
    \/ Active(t) /\ (PastExpiry(t) \/ PastTimeout(t) \/ runtime[t].cancel)
    \/ runtime[t].state = "scheduled" /\ runtime[t].runAt <= now

\* Ticks alone settle what is overdue, with nothing assumed of workers, and
\* even when other overdue rows fill the limit of a tick and while the scan of
\* leases is spaced out.  Only an end of the task undoes a deadline or a
\* cancellation, only an end of the claim a lost lease or a timeout, and only
\* a promotion or an end a time that has come: so each of these happens.
MaintenanceSettles == \A t \in Tasks : []<>~Unsettled(t)
=============================================================================
