---------------------------- MODULE TaskAttempt ----------------------------
(***************************************************************************)
(* One activation of a handler on a TypeScript worker: the TaskAttempt of  *)
(* typescript/core/src/task-attempt.ts, the path of executeTask and        *)
(* settleFailure in worker.ts that drives it, and the row of the claimed   *)
(* task in PostgreSQL, which ticks, operators and other workers change     *)
(* meanwhile.                                                              *)
(*                                                                         *)
(* What interleaves: the handler, the watchdog of the lease window, the    *)
(* expiration timer with its request to PostgreSQL, heartbeat rounds, the  *)
(* shutdown abort, and the statements in flight.  A statement is sent, may *)
(* commit, and then is answered or fails: an answer can be lost after its  *)
(* commit, and a heartbeat round given up may still commit later.          *)
(*                                                                         *)
(* Times are countdowns, so the model needs no horizon: Off is a timer or  *)
(* a boundary that is not set, 0 one that is due.  The code compares only  *)
(* durations measured by one clock, so only those are kept; a timer may    *)
(* fire any time after it is due, as it may behind a blocked event loop.   *)
(***************************************************************************)
EXTENDS Integers

CONSTANTS
    Lease,       \* leaseMs
    Deadline,    \* from the claim to deadline_at, or Off
    Timeout,     \* from the claim to attempt_timeout_at, or Off
    Outside,     \* a bound: which of "cancel", "ghost" and "shutdown" happen
    Lead,        \* how far the expiration timer runs ahead of PostgreSQL
    Off

ASSUME AttemptAssumption ==
    /\ Lease \in Nat /\ Lead \in Nat
    /\ Off \in Int /\ Off < 0
    /\ Deadline \in Nat \union {Off} /\ Timeout \in Nat \union {Off}

VARIABLES
    row,       \* the task_runtime row, as far as this claim is concerned; its
               \* verdict is how PostgreSQL ended the ownership of this claim
    left,      \* time left to deadline_at and attempt_timeout_at
    a,         \* the fields of the TaskAttempt: the outcome of its arbiter, the
               \* reason of its abort signal, its timers and flags
    ask,       \* expirationPromise: its state, its request and its answer
    beat,      \* the heartbeat round that carries this lease
    age,       \* since the claim, later the round, left the worker
    ghost,     \* a round given up by the worker may still commit
    pc,        \* where executeTask stands
    err,       \* what the handler threw
    call,      \* the statement executeTask awaits
    recorded   \* activation.outcome

vars == <<row, left, a, ask, beat, age, ghost, pc, err, call, recorded>>

Boundaries == {"deadline_exceeded", "timeout_exceeded"}

Idle == [op |-> "none", answer |-> "none"]

-----------------------------------------------------------------------------
(* PostgreSQL: each operation as the set of its possible effects *)

Mine == row.state = "mine"
Valid == Mine /\ row.lease > 0
PastDeadline == left.deadline = 0
PastTimeout == left.timeout = 0
DeadlineDecides == PastDeadline /\ (~PastTimeout \/ Deadline <= Timeout)

\* The predicate of complete_v1 and of the durable waits.
HoldsLease == Valid /\ ~PastDeadline /\ ~PastTimeout /\ ~row.cancel

Same(answer) == {[answer |-> answer, row |-> row]}

\* Ownership ends; the task is claimable again, or closed.
Ended(answer, verdict, states) ==
    {[answer |-> answer,
      row |-> [state |-> s, lease |-> 0, cancel |-> FALSE, verdict |-> verdict]] :
        s \in states}

\* expire_owned_v1 does not read expires_at.
ExpireEffects ==
    IF ~Mine THEN Same("stale")
    ELSE IF row.cancel THEN Same("cancel_requested")
    ELSE IF DeadlineDecides
    THEN Ended("deadline_exceeded", "deadline_exceeded", {"closed"})
    ELSE IF PastTimeout
    THEN Ended("timeout_exceeded", "timeout_exceeded", {"open", "closed"})
    ELSE Same("not_due")

\* What fail_v1 and release_owned_v1 check before they write.
Guarded(effects) ==
    IF ~Valid THEN Same("stale")
    ELSE IF row.cancel THEN Same("cancel_requested")
    ELSE IF PastDeadline \/ PastTimeout THEN ExpireEffects
    ELSE effects

FailEffects ==
    Guarded(Ended("retry", "retry", {"open"}) \union Ended("failed", "failed", {"closed"}))

ReleaseEffects == Guarded(Ended("released", "released", {"open"}))

CompleteEffects ==
    IF HoldsLease THEN Ended("accepted", "succeeded", {"closed"}) ELSE Same("refused")

AcknowledgeEffects ==
    IF Valid /\ row.cancel THEN Ended("accepted", "canceled", {"closed"})
    ELSE Same("refused")

\* schedule_wait_v1, wait_for_signal_v1, wait_for_human_v1 and create_child_v1:
\* the task is suspended, or what it waits for is already there.
SuspendEffects ==
    IF HoldsLease THEN Ended("scheduled", "suspended", {"open"}) \union Same("elapsed")
    ELSE Same("refused")

Effects(op) ==
    CASE op = "complete" -> CompleteEffects
      [] op = "ack" -> AcknowledgeEffects
      [] op = "expire" -> ExpireEffects
      [] op = "fail" -> FailEffects
      [] op = "release" -> ReleaseEffects
      [] op \in {"sleep", "signal"} -> SuspendEffects

\* heartbeat_many_v2 on this lease.
HeartbeatVerdict ==
    IF ~Mine THEN "stale"
    ELSE IF row.cancel THEN "cancel_requested"
    ELSE IF PastDeadline THEN "deadline_exceeded"
    ELSE IF PastTimeout THEN "timeout_exceeded"
    ELSE IF row.lease = 0 THEN "stale"
    ELSE "accepted"

Renewed == IF HoldsLease THEN [row EXCEPT !.lease = Lease] ELSE row

-----------------------------------------------------------------------------
(* TaskAttempt: the fields b after each of its private steps *)

Submit(b, o) == IF b.outcome = "none" THEN [b EXCEPT !.outcome = o] ELSE b

Abort(b, r) == IF b.reason = "none" THEN [b EXCEPT !.reason = r] ELSE b

\* Faulty: the heartbeat of the attempt goes on.
StopTimersOnly(b) == [b EXCEPT !.timer = Off, !.window = Off]

\* stop(): the lease leaves the heartbeat rounds and both timers are cleared.
Stop(b) == [b EXCEPT !.stopped = TRUE, !.timer = Off, !.window = Off]

EndLeaseWindow(b) == Abort(Stop(Submit(b, "lease_expired")), "lost")

LoseLease(b) == Abort(Stop(Submit(b, "lease_expired")), "lost")

MarkCancellationRequested(b) == Abort(Stop(Submit(b, "cancelled")), "cancel")

\* Faulty: the window runs from the answer, or a spent window opens again.
RenewLeaseFromAnswer(b, since) ==
    IF b.stopped THEN b
    ELSE IF b.window = 0 THEN EndLeaseWindow(b)
    ELSE [b EXCEPT !.window = Lease]

\* renewLease: since is the age of the request.  A window that ended stays
\* ended, and an answer a full lease old opens none.
RenewLease(b, since) ==
    IF b.stopped THEN b
    ELSE IF b.window = 0 \/ since >= Lease THEN EndLeaseWindow(b)
    ELSE [b EXCEPT !.window = Lease - since]

\* The first half of requireLease and requireSettlementLease.
CheckWindow(b) == IF b.window = 0 THEN EndLeaseWindow(b) ELSE b

StoppedForShutdown(b) == b.shutdown /\ b.outcome = "none"

AbortForShutdown(b) ==
    IF b.outcome # "none" \/ b.reason # "none" THEN b
    ELSE [b EXCEPT !.shutdown = TRUE, !.reason = "shutdown"]

\* finished(): an expiry request answered not_due is not asked again.
Finished(b) ==
    b.outcome # "none" \/ ((b.stopped \/ b.settling) /\ ~b.reported)

\* What follows the answer of the expiry request: expireOwnership, then
\* expireOnConfirmation when the timer asked, then the loss of the lease when
\* a stale heartbeat waits for this answer.
Expired(b, answer, confirm) ==
    LET told == CASE answer = "cancel_requested" -> MarkCancellationRequested(b)
                  [] answer = "deadline_exceeded" -> Submit(b, "deadline_exceeded")
                  [] answer = "timeout_exceeded" -> Submit(b, "attempt_timeout")
                  [] answer = "stale" -> Submit(b, "lease_expired")
                  [] OTHER -> b
        confirmed ==
            CASE confirm /\ answer = "deadline_exceeded" -> Abort(Stop(told), "deadline")
              [] confirm /\ answer = "timeout_exceeded" -> Abort(Stop(told), "timeout")
              [] confirm /\ answer = "stale" -> Abort(Stop(told), "lost")
              [] OTHER -> told
    IN IF b.losing THEN LoseLease(confirmed) ELSE confirmed

NoAsk == [st |-> "none", answer |-> "none", confirm |-> FALSE]
AskPending == ask.st \in {"sent", "answered", "waiting"}
AskSent(confirm) == [st |-> "sent", answer |-> "none", confirm |-> confirm]

\* refreshOwnership: what a heartbeat answer does, and the expiry request it
\* starts in the background when it reports a boundary.
RefreshOwnership(b, status, since) ==
    CASE status = "accepted" -> RenewLease(b, since)
      [] status = "cancel_requested" -> MarkCancellationRequested(b)
      [] status = "deadline_exceeded" ->
            Abort(Stop([b EXCEPT !.reported = TRUE]), "deadline")
      [] status = "timeout_exceeded" ->
            Abort(Stop([b EXCEPT !.reported = TRUE]), "timeout")
      [] status = "stale" /\ ask.st = "none" -> LoseLease(b)
      [] status = "stale" /\ AskPending -> [b EXCEPT !.stopped = TRUE, !.losing = TRUE]
      [] status = "stale" /\ ask.st \in {"done", "failed"} -> LoseLease(b)
      [] OTHER -> b

-----------------------------------------------------------------------------
(* The row meanwhile *)

\* recover_expired_v1 meets the row.
Recovered ==
    /\ Mine
    /\ \E e \in
          IF PastDeadline /\ (row.cancel \/ DeadlineDecides)
          THEN Ended("", IF row.cancel THEN "canceled" ELSE "deadline_exceeded", {"closed"})
          ELSE IF PastTimeout /\ ~row.cancel
          THEN Ended("", "timeout_exceeded", {"open", "closed"})
          ELSE IF row.lease > 0 THEN {}
          ELSE IF row.cancel THEN Ended("", "canceled", {"closed"})
          ELSE Ended("", "lapsed", {"open", "closed"}) :
          row' = e.row
    /\ UNCHANGED <<left, a, ask, beat, age, ghost, pc, err, call, recorded>>

\* cancel_v1
CancelRequested ==
    /\ "cancel" \in Outside /\ Mine /\ ~row.cancel
    /\ row' = [row EXCEPT !.cancel = TRUE]
    /\ UNCHANGED <<left, a, ask, beat, age, ghost, pc, err, call, recorded>>

\* Another worker claims the task.
ClaimedAgain ==
    /\ row.state = "open"
    /\ row' = [row EXCEPT !.state = "other"]
    /\ UNCHANGED <<left, a, ask, beat, age, ghost, pc, err, call, recorded>>

Down(x) == IF x > 0 THEN x - 1 ELSE x

\* The clock.  Ages beyond a lease make no difference.
Elapse ==
    /\ row' = [row EXCEPT !.lease = Down(@)]
    /\ left' = [k \in DOMAIN left |-> Down(left[k])]
    /\ a' = [a EXCEPT !.window = Down(@), !.timer = Down(@)]
    /\ age' = IF age < Lease THEN age + 1 ELSE age
    /\ UNCHANGED <<ask, beat, ghost, pc, err, call, recorded>>

-----------------------------------------------------------------------------
(* Heartbeat rounds and timers *)

\* The next round leaves with this lease in it.
SendHeartbeat ==
    /\ pc # "claiming" /\ ~a.stopped /\ beat = "idle"
    /\ beat' = "sent" /\ age' = 0
    /\ UNCHANGED <<row, left, a, ask, ghost, pc, err, call, recorded>>

\* heartbeat_many_v2 commits, or finds the row locked.
HeartbeatCommits ==
    /\ beat = "sent"
    /\ \/ beat' = HeartbeatVerdict /\ row' = Renewed
       \/ Mine /\ beat' = "busy" /\ UNCHANGED row
    /\ UNCHANGED <<left, a, ask, age, ghost, pc, err, call, recorded>>

\* The answer counts only for a lease that is still registered.
HeartbeatAnswered ==
    /\ beat \notin {"idle", "sent", "claim"}
    /\ beat' = "idle"
    /\ IF a.stopped THEN UNCHANGED <<a, ask>>
       ELSE /\ a' = RefreshOwnership(a, beat, age)
            /\ ask' = IF beat \in Boundaries /\ ask.st = "none" THEN AskSent(FALSE) ELSE ask
    /\ UNCHANGED <<row, left, age, ghost, pc, err, call, recorded>>

\* A failed round proves nothing.  One given up before it committed may
\* commit behind the worker's back.
HeartbeatFails ==
    /\ beat \notin {"idle", "claim"}
    /\ beat' = "idle" /\ ghost' = (ghost \/ ("ghost" \in Outside /\ beat = "sent"))
    /\ UNCHANGED <<row, left, a, ask, age, pc, err, call, recorded>>

GhostCommits ==
    /\ ghost /\ ghost' = FALSE /\ row' = Renewed
    /\ UNCHANGED <<left, a, ask, beat, age, pc, err, call, recorded>>

\* Faulty: the outcome is decided but the handler is not told.
WatchdogSilent ==
    /\ pc # "claiming" /\ a.window = 0
    /\ a' = Stop(Submit(a, "lease_expired"))
    /\ UNCHANGED <<row, left, ask, beat, age, ghost, pc, err, call, recorded>>

Watchdog ==
    /\ pc # "claiming" /\ a.window = 0
    /\ a' = EndLeaseWindow(a)
    /\ UNCHANGED <<row, left, ask, beat, age, ghost, pc, err, call, recorded>>

\* Faulty: the handler is aborted when the local timer fires.
ExpirationTimerAborts ==
    /\ pc # "claiming" /\ a.timer = 0
    /\ a' = Abort([a EXCEPT !.timer = Off],
                  IF Deadline # Off /\ (Timeout = Off \/ Deadline <= Timeout)
                  THEN "deadline" ELSE "timeout")
    /\ ask' = AskSent(TRUE)
    /\ UNCHANGED <<row, left, beat, age, ghost, pc, err, call, recorded>>

\* The local expiry has arrived: PostgreSQL is asked, the handler runs on.
ExpirationTimer ==
    /\ pc # "claiming" /\ a.timer = 0
    /\ a' = [a EXCEPT !.timer = Off]
    /\ ask' = AskSent(TRUE)
    /\ UNCHANGED <<row, left, beat, age, ghost, pc, err, call, recorded>>

ExpireCommits ==
    /\ ask.st = "sent"
    /\ \E e \in ExpireEffects :
          row' = e.row /\ ask' = [ask EXCEPT !.st = "answered", !.answer = e.answer]
    /\ UNCHANGED <<left, a, beat, age, ghost, pc, err, call, recorded>>

\* requestExpiration after an answer, or at the end of a wait between two.
ExpireAnswered ==
    /\ ask.st \in {"answered", "waiting"}
    /\ IF ask.answer # "not_due" \/ Finished(a)
       THEN /\ a' = Expired(a, ask.answer, ask.confirm)
            /\ ask' = [ask EXCEPT !.st = "done"]
       ELSE /\ ask' = IF ask.st = "answered" THEN [ask EXCEPT !.st = "waiting"]
                      ELSE [ask EXCEPT !.st = "sent", !.answer = "none"]
            /\ UNCHANGED a
    /\ UNCHANGED <<row, left, beat, age, ghost, pc, err, call, recorded>>

\* The request fails, before or after its commit.  The timer asks again
\* unless the attempt is finished.
ExpireFails ==
    /\ ask.st \in {"sent", "answered"}
    /\ LET again == ask.confirm /\ ~Finished(a)
           lost == IF a.losing THEN LoseLease(a) ELSE a
       IN /\ ask' = IF again THEN NoAsk ELSE [ask EXCEPT !.st = "failed", !.answer = "none"]
          /\ a' = IF again THEN [lost EXCEPT !.timer = 0] ELSE lost
    /\ UNCHANGED <<row, left, beat, age, ghost, pc, err, call, recorded>>

-----------------------------------------------------------------------------
(* executeTask.  A step runs from one await to the next. *)

\* What the row and the other requests do not change here.
Apart == UNCHANGED <<row, left, ask, beat, age, ghost>>

Send(op) == call' = [op |-> op, answer |-> "sent"]

Record(o) == recorded' = IF recorded = "unknown" THEN o ELSE recorded

Unrecorded == UNCHANGED recorded

\* Faulty: the finally block of the activation clears the timers only.
FinishBeating(b) == a' = StopTimersOnly(b) /\ pc' = "done" /\ call' = Idle /\ UNCHANGED err

\* Every way out of executeTask passes its finally block.
Finish(b) == a' = Stop(b) /\ pc' = "done" /\ call' = Idle /\ UNCHANGED err

\* The claim answer arrives and the attempt is constructed.  With a boundary
\* the expiration timer counts from now what PostgreSQL counted from its own
\* reading of the clock.
Construct ==
    LET due == IF Deadline # Off /\ (Timeout = Off \/ Deadline <= Timeout)
               THEN Deadline ELSE Timeout
    IN /\ pc = "claiming"
       /\ a' = RenewLease([a EXCEPT !.timer = IF due = Off THEN Off
                                              ELSE IF due > Lead THEN due - Lead
                                              ELSE 0], age)
       /\ pc' = "claimed" /\ beat' = "idle"
       /\ UNCHANGED <<row, left, ask, age, ghost, err, call, recorded>>

\* No handler is registered for the type of the task.
ReleaseUnhandled ==
    /\ pc = "claimed"
    /\ pc' = "releasing" /\ Send("release")
    /\ UNCHANGED <<a, err>> /\ Unrecorded /\ Apart

\* Faulty: the handler starts without a look at the window.
StartHandlerUnchecked ==
    /\ pc = "claimed"
    /\ pc' = "running"
    /\ UNCHANGED <<a, err, call>> /\ Unrecorded /\ Apart

\* requireLease, then the handler.
StartHandler ==
    /\ pc = "claimed"
    /\ a' = CheckWindow(a)
    /\ pc' = IF a'.reason # "none" THEN "threw" ELSE "running"
    /\ UNCHANGED <<err, call>> /\ Unrecorded /\ Apart

\* The handler makes a durable wait and awaits it.  requireLease throws into
\* the handler when ownership ended.
AwaitWait ==
    /\ pc = "running"
    /\ a' = CheckWindow(a)
    /\ IF a'.reason # "none" THEN UNCHANGED <<pc, call>>
       ELSE pc' = "waiting" /\ \E op \in {"sleep", "signal"} : Send(op)
    /\ UNCHANGED err /\ Unrecorded /\ Apart

\* A sleep suspends only when no other outcome won; the other waits throw in
\* either case, and the handler may swallow what they throw.
WaitAnswered ==
    /\ pc = "waiting" /\ call.answer # "sent"
    /\ a' = IF call.answer = "scheduled" /\ a.outcome = "none"
            THEN [a EXCEPT !.outcome = "suspended",
                           !.reason = IF @ = "none" THEN "suspend" ELSE @]
            ELSE a
    /\ pc' = "running" /\ call' = Idle
    /\ UNCHANGED err /\ Unrecorded /\ Apart

HandlerReturns ==
    /\ pc = "running" /\ pc' = "returned"
    /\ UNCHANGED <<a, err, call>> /\ Unrecorded /\ Apart

\* The handler throws: the reason of its signal, an error of its own, or an
\* instance of CancellationRequestedError of its own.
HandlerThrows ==
    /\ pc = "running" /\ pc' = "threw"
    /\ err' \in {"error", "cancel"}
    /\ UNCHANGED <<a, call>> /\ Unrecorded /\ Apart

\* After the handler returned: the checks, then complete_v1, or the failure
\* path when the result does not validate.
Returned ==
    /\ pc = "returned"
    /\ \/ /\ a.outcome = "suspended"
          /\ Finish(a) /\ Record("suspended")
       \/ /\ a.outcome = "cancelled"
          /\ pc' = "acknowledging" /\ Send("ack") /\ UNCHANGED <<a, err>> /\ Unrecorded
       \/ /\ a.outcome = "lease_expired"
          /\ Finish(a) /\ Record("lease_lost")
       \/ /\ a.outcome \notin {"suspended", "cancelled", "lease_expired"}
          /\ a' = CheckWindow(a)
          /\ IF a'.reason # "none" /\ ~StoppedForShutdown(a')
             THEN /\ pc' = "threw" /\ UNCHANGED call
                  /\ err' = IF a'.reason = "cancel" THEN "cancel" ELSE "error"
             ELSE \/ pc' = "completing" /\ Send("complete") /\ UNCHANGED err
                  \/ pc' = "threw" /\ err' = "error" /\ UNCHANGED call
          /\ Unrecorded
    /\ Apart

\* An accepted completion counts unless another outcome won while it ran.
CompleteAnswered ==
    /\ pc = "completing" /\ call.answer \in {"accepted", "refused"}
    /\ \/ /\ call.answer = "accepted" /\ a.outcome = "none"
          /\ Finish(Submit(a, "completed")) /\ Record("succeeded")
       \/ /\ call.answer = "accepted" /\ a.outcome # "none"
          /\ Finish(a) /\ Unrecorded
       \/ /\ call.answer = "refused"
          /\ pc' = "refused" /\ Send("ack") /\ UNCHANGED <<a, err>> /\ Unrecorded
    /\ Apart

\* A refused completion was a cancellation, or it is settled as a failure.
RefusalAnswered ==
    /\ pc = "refused" /\ call.answer \in {"accepted", "refused"}
    /\ \/ /\ call.answer = "accepted"
          /\ Finish(Submit(a, "cancelled")) /\ Record("canceled")
       \/ /\ call.answer = "refused"
          /\ pc' = "threw" /\ err' = "error" /\ call' = Idle
          /\ UNCHANGED a /\ Unrecorded
    /\ Apart

-----------------------------------------------------------------------------
(* settleFailure *)

\* The end of settleFailure: a stop is released, anything else fails, unless
\* the retryDelayMs of the application answers no valid delay.
ReleaseOrFail(b) ==
    \/ /\ StoppedForShutdown(b)
       /\ a' = b /\ pc' = "releasing" /\ Send("release") /\ UNCHANGED err
    \/ /\ ~StoppedForShutdown(b)
       /\ a' = b /\ pc' = "failing" /\ Send("fail") /\ UNCHANGED err
    \/ /\ ~StoppedForShutdown(b) /\ Finish(b)

\* An error of the class CancellationRequestedError is put to PostgreSQL first.
SettleError(b) ==
    /\ IF err = "cancel"
       THEN a' = b /\ pc' = "confirming" /\ Send("ack") /\ UNCHANGED err
       ELSE ReleaseOrFail(b)
    /\ Unrecorded

Acknowledge(b) ==
    a' = Submit(b, "cancelled") /\ pc' = "acknowledging" /\ Send("ack")
    /\ UNCHANGED err /\ Unrecorded

\* The order of settleFailure: suspension, lost lease, cancellation, expiry,
\* and what the handler threw only when PostgreSQL said nothing.
Threw ==
    /\ pc = "threw"
    /\ IF a.outcome = "suspended" THEN Finish(a) /\ Record("suspended")
       ELSE IF a.outcome = "lease_expired" THEN Finish(a) /\ Record("lease_lost")
       ELSE IF a.outcome = "cancelled" \/ a.reason = "cancel" THEN Acknowledge(a)
       ELSE IF \/ a.outcome \in {"deadline_exceeded", "attempt_timeout"}
               \/ a.reason \in {"deadline", "timeout"} \/ ask.st # "none"
       THEN a' = [a EXCEPT !.settling = TRUE] /\ pc' = "settling"
            /\ UNCHANGED <<err, call>> /\ Unrecorded
       ELSE SettleError(a)
    /\ Apart

\* Faulty: settlement waits for the expiry request however long it takes.
SettlementMayGoOnUnbounded(over) == ~AskPending

\* settleExpiration waits for the answer, and at most for its budget.
SettlementMayGoOn(over) == over \/ ~AskPending

Settling(over) ==
    /\ pc = "settling" /\ SettlementMayGoOn(over)
    /\ CASE a.outcome = "cancelled" -> Acknowledge(a)
         [] a.outcome = "lease_expired" -> Finish(a) /\ Record("lease_lost")
         [] a.outcome = "attempt_timeout" -> Finish(a) /\ Record("timeout")
         [] a.outcome = "deadline_exceeded" -> Finish(a) /\ Record("deadline_exceeded")
         [] OTHER -> SettleError(a)
    /\ Apart

\* acknowledgeCancellation of an attempt the arbiter calls cancelled.
Acknowledged ==
    /\ pc = "acknowledging" /\ call.answer \in {"accepted", "refused"}
    /\ Finish(a)
    /\ IF call.answer = "accepted" /\ a.outcome = "cancelled" THEN Record("canceled")
       ELSE Unrecorded
    /\ Apart

\* The arbiter takes the handler's own cancellation only once it is accepted.
Confirmed ==
    /\ pc = "confirming" /\ call.answer \in {"accepted", "refused"}
    /\ IF call.answer = "accepted"
       THEN Finish(Submit(a, "cancelled")) /\ Record("canceled")
       ELSE ReleaseOrFail(a) /\ Unrecorded
    /\ Apart

\* recordFailure and recordRelease: the verdict counts when no other outcome
\* won before it.
RecordVerdict(outcome, execution) ==
    /\ Finish(Submit(a, outcome))
    /\ IF a.outcome = "none" THEN Record(execution) ELSE Unrecorded

\* Faulty: the verdict of fail_v1 is taken for a failure of the handler.
VerdictUnread(answer) ==
    CASE answer = "retry" -> RecordVerdict("failed", "retry")
      [] answer \in {"failed"} \union Boundaries -> RecordVerdict("failed", "failed")
      [] answer = "released" -> RecordVerdict("released", "released")

Verdict(answer) ==
    CASE answer = "retry" -> RecordVerdict("failed", "retry")
      [] answer = "failed" -> RecordVerdict("failed", "failed")
      [] answer = "released" -> RecordVerdict("released", "released")
      [] answer = "deadline_exceeded" ->
            RecordVerdict("deadline_exceeded", "deadline_exceeded")
      [] answer = "timeout_exceeded" -> RecordVerdict("attempt_timeout", "timeout")

\* The answer of fail_v1 or release_owned_v1.
SettlementAnswered ==
    /\ pc \in {"failing", "releasing"} /\ call.answer # "sent"
    /\ IF call.answer = "cancel_requested"
       THEN a' = Abort(Stop(a), "cancel") /\ pc' = "requested" /\ Send("ack")
            /\ UNCHANGED err /\ Unrecorded
       ELSE IF call.answer = "stale"
       THEN pc' = "reconciling" /\ call' = Idle /\ UNCHANGED <<a, err>> /\ Unrecorded
       ELSE Verdict(call.answer)
    /\ Apart

\* recordSettled: what PostgreSQL settled is recorded whatever the arbiter says.
RecordSettled(outcome, execution) == Finish(Submit(a, outcome)) /\ Record(execution)

\* acknowledgeRequestedCancellation, and the last step of reconcileStale.
RequestAnswered ==
    /\ pc = "requested" /\ call.answer \in {"accepted", "refused"}
    /\ IF call.answer = "accepted" THEN RecordSettled("cancelled", "canceled")
       ELSE RecordSettled("lease_expired", "lease_lost")
    /\ Apart

Reconciled(status) ==
    CASE status = "deadline_exceeded" ->
            RecordSettled("deadline_exceeded", "deadline_exceeded")
      [] status = "timeout_exceeded" -> RecordSettled("attempt_timeout", "timeout")
      [] status = "cancel_requested" ->
            pc' = "requested" /\ Send("ack") /\ UNCHANGED <<a, err>> /\ Unrecorded
      [] OTHER -> RecordSettled("lease_expired", "lease_lost")

\* reconcileStale: the answer of the request in flight if it comes in time,
\* else one request of its own.
Reconcile(over) ==
    /\ pc = "reconciling" /\ SettlementMayGoOn(over)
    /\ IF ask.st = "done" THEN Reconciled(ask.answer)
       ELSE pc' = "asking" /\ Send("expire") /\ UNCHANGED <<a, err>> /\ Unrecorded
    /\ Apart

\* When its own request finds nothing, the request in flight may have settled
\* the boundary: its answer is read again.
ReconcileAnswered ==
    /\ pc = "asking" /\ call.answer # "sent"
    /\ IF call.answer = "stale"
       THEN pc' = "sharing" /\ call' = Idle /\ UNCHANGED <<a, err>> /\ Unrecorded
       ELSE Reconciled(call.answer)
    /\ Apart

ReconcileShared(over) ==
    /\ pc = "sharing" /\ SettlementMayGoOn(over)
    /\ Reconciled(IF ask.st = "done" THEN ask.answer ELSE "stale")
    /\ Apart

-----------------------------------------------------------------------------
(* Statements of executeTask, and the specification *)

CallCommits ==
    /\ call.answer = "sent"
    /\ \E e \in Effects(call.op) :
          row' = e.row /\ call' = [call EXCEPT !.answer = e.answer]
    /\ UNCHANGED <<left, a, ask, beat, age, ghost, pc, err, recorded>>

\* A statement fails before or after its commit.  A durable call throws into
\* the handler; any other error leaves executeTask, and the task is left to
\* lease recovery.
CallFails ==
    /\ call.op # "none"
    /\ IF pc = "waiting"
       THEN pc' = "running" /\ call' = Idle /\ UNCHANGED <<a, err>>
       ELSE Finish(a)
    /\ Unrecorded /\ Apart

\* The process runner reaches the end of its shutdown grace.
ShutdownAborts ==
    /\ "shutdown" \in Outside
    /\ pc \notin {"claiming", "done"} /\ AbortForShutdown(a) # a
    /\ a' = AbortForShutdown(a)
    /\ UNCHANGED <<row, left, ask, beat, age, ghost, pc, err, call, recorded>>

\* The claim has committed; its request left the worker age ago.
Init ==
    /\ row = [state |-> "mine", lease |-> Lease, cancel |-> FALSE, verdict |-> "none"]
    /\ left = [deadline |-> Deadline, timeout |-> Timeout]
    /\ a = [outcome |-> "none", reason |-> "none", window |-> Off, timer |-> Off,
            stopped |-> FALSE, reported |-> FALSE, settling |-> FALSE,
            shutdown |-> FALSE, losing |-> FALSE]
    /\ ask = NoAsk /\ beat = "claim" /\ age \in 0..Lease /\ ghost = FALSE
    /\ pc = "claiming" /\ err = "error" /\ call = Idle /\ recorded = "unknown"

Database == Recovered \/ CancelRequested \/ ClaimedAgain \/ GhostCommits

Timers == Watchdog \/ ExpirationTimer

Heartbeats == SendHeartbeat \/ HeartbeatCommits \/ HeartbeatAnswered \/ HeartbeatFails

Expiry == ExpireCommits \/ ExpireAnswered \/ ExpireFails

Handler == AwaitWait \/ HandlerReturns \/ HandlerThrows

\* The steps of executeTask outside the handler.
Execute ==
    \/ Construct \/ ReleaseUnhandled \/ StartHandler \/ WaitAnswered
    \/ Returned \/ CompleteAnswered \/ RefusalAnswered
    \/ Threw \/ Acknowledged \/ Confirmed \/ SettlementAnswered \/ RequestAnswered
    \/ ReconcileAnswered
    \/ \E over \in BOOLEAN : Settling(over) \/ Reconcile(over) \/ ReconcileShared(over)

Statements == CallCommits \/ CallFails

Next ==
    \/ Database \/ Elapse \/ Timers \/ Heartbeats \/ Expiry \/ Handler \/ Execute
    \/ Statements \/ ShutdownAborts

Spec == Init /\ [][Next]_vars

-----------------------------------------------------------------------------
(* Properties *)

\* Lease recovery never takes the task from an attempt whose local window is
\* open: renewLease counts the window from the moment the claim or the round
\* left, and a late answer does not reopen it.
LapsedOutsideWindow == row.verdict = "lapsed" => a.window <= 0

\* No handler starts on a task that lease recovery has already taken back: a
\* claim answer that arrives too late is refused by requireLease.
HandlerStartsOwned == [][pc = "claimed" /\ pc' = "running" => row.verdict # "lapsed"]_vars

\* The handler is aborted for its deadline or its execution timeout only once
\* PostgreSQL has reached that boundary, though the local timer may run ahead.
ConfirmedAbort ==
    /\ a.reason = "deadline" => left.deadline = 0
    /\ a.reason = "timeout" => left.timeout = 0

\* What the activation reports of its end is what PostgreSQL did with the
\* task, whichever answers raced; only a lost lease is the worker's own word.
RecordedTruth ==
    CASE recorded \in {"unknown", "lease_lost"} -> TRUE
      [] recorded = "timeout" -> row.verdict = "timeout_exceeded"
      [] OTHER -> row.verdict = recorded

\* The handler has ended and executeTask has not.
Settles == pc \notin {"claiming", "claimed", "running", "waiting", "done"}

\* The activation is over.
Done == pc = "done"

\* A handler runs on a task that lease recovery has taken back, and nothing told it.
RunsLost == pc = "running" /\ row.verdict = "lapsed" /\ a.reason = "none"
=============================================================================
