------------------------- MODULE TaskFencingProofs --------------------------
(***************************************************************************)
(* What a step of TaskLifecycle leaves alone, fencing, and the execution   *)
(* budget.                                                                 *)
(*                                                                         *)
(* Fencing and the budget rest on one fact about a step, Shape: what may   *)
(* become of a row and of an outcome when the step is not a claim. Fencing *)
(* needs that only a claim raises a fence, the budget that only a          *)
(* suspension before the timeout charges time.                             *)
(***************************************************************************)
EXTENDS TaskLifecycleProofs

-----------------------------------------------------------------------------
(* What a step leaves alone: a finished task, and the wish to cancel one    *)
(* that runs                                                              *)

Canceled(t) == outcome'[t].state = "canceled" /\ runtime[t].cancel

\* A worker's call other than acknowledge_cancel_v1 leaves alone each task that
\* is finished or asked to stop.
LEMMA WorkerCallQuiet ==
    ASSUME Inv, WorkerCall, NEW t \in Tasks, ~Live(t) \/ runtime[t].cancel
    PROVE  Kept(t) \/ Canceled(t)
  <1>1. CASE \E w \in Workers, locked \in SUBSET Tasks :
                HeartbeatMany(w, {c \in issued : c[1] = w}, locked)
    BY <1>1 DEF HeartbeatMany, HoldsLease, Owns, Active, Live, Kept
  <1>2. ASSUME NEW c \in issued, HolderCall(c[1], c[2], c[3])
        PROVE  Kept(t) \/ Canceled(t)
    <2> DEFINE w == c[1]
               u == c[2]
               f == c[3]
    <2>1. u \in Tasks
      BY Zenon DEF Inv, TypeOK
    <2> HIDE DEF w, u, f
    <2>2. CASE Heartbeat(w, u, f)
      BY <2>1, <2>2, ZenonT(30) DEF Heartbeat, HoldsLease, Owns, Active, Live, Kept, Inv, TypeOK
    <2>3. CASE Complete(w, u, f)
      BY <2>1, <2>3, ApplyKeeps, ZenonT(30) DEF Complete, HoldsLease, Owns, Active, Live
    <2>4. CASE AcknowledgeCancel(w, u, f)
      <3>1. CASE u # t
        BY <2>1, <2>4, <3>1, ApplyKeeps, ZenonT(30) DEF AcknowledgeCancel
      <3>2. CASE u = t
        <4>1. outcome' = [outcome EXCEPT ![t] = Closed(t, "canceled", w, f, "canceled").out]
          BY <2>4, <3>2, Zenon DEF AcknowledgeCancel, Apply
        <4>2. outcome'[t].state = "canceled"
          BY <4>1, Zenon DEF Closed, Inv, TypeOK
        <4> QED BY <2>4, <3>2, <4>2, ZenonT(30) DEF AcknowledgeCancel, Canceled
      <3> QED BY <3>1, <3>2, Zenon
    <2>5. CASE \E delay \in RetryDelays, retry \in BOOLEAN : Fail(w, u, f, retry, delay)
      BY <2>1, <2>5, ApplyKeeps, ZenonT(30) DEF Fail, Owns, Active, Live
    <2>6. CASE \E delay \in RetryDelays, late \in 0..Slip : ReleaseOwned(w, u, f, delay, late)
      BY <2>1, <2>6, ApplyKeeps, Zenon DEF ReleaseOwned, Owns, Active, Live
    <2>7. CASE \E delay \in RetryDelays : ExpireOwned(w, u, f, delay)
      BY <2>1, <2>7, ApplyKeeps, ZenonT(30) DEF ExpireOwned, Owns, Active, Live
    <2>8. CASE \E n \in WaitNames, span \in WaitSpans \union {0} : ScheduleWait(w, u, f, n, span)
      BY <2>1, <2>8 DEF ScheduleWait, HoldsLease, Owns, Active, Live, Kept, Inv, TypeOK
    <2>9. CASE \E n \in WaitNames, span \in WaitSpans :
                  WaitForSignal(w, u, f, n, span) \/ WaitForHuman(w, u, f, n, span)
      BY <2>1, <2>9, SMTT(30) DEF WaitForSignal, WaitForHuman, WaitFor, HoldsLease, Owns, Active,
                        Live, Kept, Inv, TypeOK
    <2> QED BY <1>2, <2>2, <2>3, <2>4, <2>5, <2>6, <2>7, <2>8, <2>9, Zenon DEF HolderCall, w, u, f
  <1> QED BY <1>1, <1>2, ZenonT(30) DEF WorkerCall

\* A tick leaves a finished task alone, and cancels a task asked to stop if it
\* settles it at all.
LEMMA TickQuiet ==
    ASSUME Inv, NEW locked \in SUBSET Tasks, NEW failed, NEW delays \in [Tasks -> RetryDelays],
           Tick(locked, failed, delays), NEW t \in Tasks, ~Live(t) \/ runtime[t].cancel
    PROVE  Kept(t) \/ Canceled(t)
  <1>1. PICK P, R, n :
           /\ t \in P => runtime[t].state = "scheduled" /\ runtime[t].runAt <= now
           /\ R = Recovery(locked) \/ R = NoRecovery
           /\ runtime'[t] = Settlement(t, P, R, delays[t], n).row
           /\ outcome'[t] = Settlement(t, P, R, delays[t], n).out
           /\ history'[t] = history[t] \o Settlement(t, P, R, delays[t], n).entries
    BY TickSettles, ZenonT(30)
  <1>2. /\ t \in R.deadlines => Live(t) /\ PastDeadline(t)
        /\ t \in R.timeouts => Active(t) /\ (runtime[t].cancel => PastDeadline(t))
        /\ t \in R.leases => Active(t)
    BY <1>1, RecoveryFacts, ZenonT(30)
  <1>3. t \notin P
    BY <1>1, CancelActive, ZenonT(30) DEF Live, Active
  <1>4. CASE t \in R.deadlines \/ t \in R.timeouts \/ t \in R.leases
    <2>1. runtime[t].cancel
      BY <1>2, <1>4, ZenonT(30) DEF Live, Active
    <2>2. Settlement(t, P, R, delays[t], n) = ClosedByOwner(t, "canceled", "canceled")
      BY <1>2, <1>4, <2>1, ZenonT(30) DEF Settlement, DeadlineSettlement, LeaseSettlement
    <2>3. ClosedByOwner(t, "canceled", "canceled").out.state = "canceled"
      BY Zenon DEF ClosedByOwner, Closed
    <2>4. outcome'[t].state = "canceled"
      BY <1>1, <2>2, <2>3, ZenonT(30)
    <2> QED BY <2>1, <2>4, ZenonT(30) DEF Canceled
  <1>5. CASE ~(t \in R.deadlines \/ t \in R.timeouts \/ t \in R.leases)
    <2>1. Settlement(t, P, R, delays[t], n) = Untouched(t)
      BY <1>3, <1>5, ZenonT(30) DEF Settlement
    <2>2. history[t] \o <<>> = history[t]
      BY SeqFacts, ZenonT(30) DEF Inv, TypeOK
    <2>3. /\ Untouched(t).row = runtime[t] /\ Untouched(t).out = outcome[t]
          /\ Untouched(t).entries = <<>>
      BY Zenon DEF Untouched
    <2> QED BY <1>1, <2>1, <2>2, <2>3, ZenonT(30) DEF Kept
  <1> QED BY <1>4, <1>5, Zenon

\* No step changes a finished task, and one asked to stop is only canceled.
LEMMA QuietStep ==
    ASSUME Inv, [Next]_vars, NEW t \in Tasks, def[t] # NoDefinition,
           ~Live(t) \/ runtime[t].cancel
    PROVE  Kept(t) \/ Canceled(t)
  <1>1. CASE WorkerCall
    BY <1>1, WorkerCallQuiet, Zenon
  <1>2. CASE OperatorCall
    <2>1. ASSUME NEW u \in Tasks, NEW d \in Definitions, NEW delay \in StartDelays,
                 Enqueue(u, d, delay)
          PROVE  Kept(t)
      BY <2>1, Zenon DEF Enqueue, Kept, Inv, TypeOK
    <2>2. ASSUME NEW u \in Tasks, Cancel(u)
          PROVE  Kept(t)
      <3>1. u # t
        BY <2>2, CancelActive, Zenon DEF Cancel
      <3>2. CASE Active(u)
        BY <2>2, <3>1, <3>2, ZenonT(30) DEF Cancel, Kept, Inv, TypeOK
      <3>3. CASE ~Active(u)
        BY <2>2, <3>1, <3>3, ApplyKeeps, ZenonT(30) DEF Cancel
      <3> QED BY <3>2, <3>3, Zenon
    <2>3. ASSUME NEW u \in Tasks, RunTaskNow(u)
          PROVE  Kept(t)
      <3>1. u # t
        BY <2>3, CancelActive, ZenonT(30) DEF RunTaskNow, Live, Active
      <3> QED BY <2>3, <3>1, ZenonT(30) DEF RunTaskNow, Kept, Inv, TypeOK
    <2>4. ASSUME NEW u \in Tasks, NEW n \in WaitNames, NEW payload \in Payloads,
                 SendSignal(u, n, payload) \/ CompleteHumanWait(u, n, payload)
          PROVE  Kept(t)
      <3>1. u # t
        BY <2>4, CancelActive, Zenon DEF SendSignal, CompleteHumanWait, Deliver, Live, Active
      <3> QED BY <2>4, <3>1, ZenonT(30) DEF SendSignal, CompleteHumanWait, Deliver, Kept, Inv,
                 TypeOK
    <2>5. CASE \E p \in PauseCalls : SetQueuePaused(p)
      BY <2>5, Zenon DEF SetQueuePaused, Kept
    <2> QED BY <1>2, <2>1, <2>2, <2>3, <2>4, <2>5, ZenonT(30) DEF OperatorCall
  <1>3. CASE Claim
    <2>1. PICK u \in Tasks, w \in Workers :
             /\ Claimable(u) /\ runtime' = [runtime EXCEPT ![u] = Granted(u, w)]
             /\ UNCHANGED <<outcome, history>>
      BY <1>3, ZenonT(30) DEF Claim, ClaimOne
    <2>2. u # t
      BY <2>1, CancelActive, Zenon DEF Claimable, Live, Active
    <2> QED BY <2>1, <2>2, Zenon DEF Kept, Inv, TypeOK
  <1>4. CASE Maintenance
    BY <1>4, TickQuiet, Zenon DEF Maintenance
  <1>5. CASE ScanBecomesDue \/ Advance \/ UNCHANGED vars
    BY <1>5, ZenonT(30) DEF ScanBecomesDue, Advance, vars, Kept
  <1> QED BY <1>1, <1>2, <1>3, <1>4, <1>5, ZenonT(30) DEF Next

\* No late completion, duplicate cancellation or recovery pass rewrites the
\* outcome or the ledger of a finished task, or revives its row.
THEOREM OutcomeFinalAlways == Spec => OutcomeFinal
  <1>1. Inv /\ [Next]_vars => [OutcomeFinalStep]_vars
    <2> SUFFICES ASSUME Inv, [Next]_vars, NEW t \in Tasks, outcome[t].state # "none"
                 PROVE  /\ outcome'[t] = outcome[t] /\ runtime'[t] = NoRow
                        /\ history'[t] = history[t]
      BY Zenon DEF OutcomeFinalStep
    <2>0. Home(def[t], runtime[t], outcome[t]) /\ NoOutcome.state = "none"
      BY Zenon DEF Inv, NoOutcome
    <2>1. def[t] # NoDefinition
      BY <2>0, Zenon DEF Home
    <2>2. ~Live(t)
      BY <2>0, <2>1, ZenonT(30) DEF Home, Live
    <2>3. runtime[t] = NoRow /\ ~runtime[t].cancel
      <3>1. runtime[t] = NoRow
        BY <2>2, TypeFacts, ZenonT(30) DEF RowOK, Live
      <3> QED BY <3>1, SMTT(30) DEF NoRow
    <2>4. Kept(t)
      BY <2>1, <2>2, <2>3, QuietStep, ZenonT(30) DEF Canceled
    <2> QED BY <2>3, <2>4, ZenonT(30) DEF Kept
  <1> QED BY <1>1, Invariance, PTL DEF Spec, OutcomeFinal

\* Between cancel_v1 on an owned task and its outcome no renewal, retry,
\* release, wait or completion is accepted.
THEOREM CancelSticksAlways == Spec => CancelSticks
  <1>1. Inv /\ [Next]_vars => [CancelSticksStep]_vars
    <2> SUFFICES ASSUME Inv, [Next]_vars, NEW t \in Tasks, runtime[t].cancel
                 PROVE  \/ /\ runtime'[t].cancel /\ runtime'[t].fence = runtime[t].fence
                           /\ runtime'[t].expires = runtime[t].expires
                        \/ outcome'[t].state = "canceled"
      BY Zenon DEF CancelSticksStep
    <2>1. def[t] # NoDefinition
      BY CancelActive, Zenon
    <2> QED BY <2>1, QuietStep, ZenonT(30) DEF Kept, Canceled
  <1> QED BY <1>1, Invariance, PTL DEF Spec, CancelSticks

-----------------------------------------------------------------------------
(* What may become of a row and of an outcome                               *)

\* A settlement leaves the charged time, or starts again from zero; it makes
\* no row active; and only the owner's fence is credited with a success.
Mild(t, s) ==
    /\ s.row.used = 0 \/ (Live(t) /\ s.row.used = runtime[t].used)
    /\ s.row.state = "active" => Active(t) /\ s.row.fence = runtime[t].fence
    /\ s.out.state = "succeeded" =>
          s.out = outcome[t] \/ (Active(t) /\ s.out.fence = runtime[t].fence)

Charged(t) ==
    \/ runtime'[t].used = 0
    \/ Live(t) /\ def'[t] = def[t] /\ runtime'[t].used = runtime[t].used
    \/ /\ Active(t) /\ ~PastTimeout(t) /\ def'[t] = def[t] /\ runtime'[t].state # "active"
       /\ runtime'[t].used <= runtime[t].used + ((now + Slip) - runtime[t].acquired)

Credited(t) ==
    outcome'[t].state = "succeeded" =>
        outcome'[t] = outcome[t] \/ (Active(t) /\ outcome'[t].fence = runtime[t].fence)

Unraised(t) ==
    runtime'[t].state = "active" => Active(t) /\ runtime'[t].fence = runtime[t].fence

Shape(t) == Charged(t) /\ Credited(t) /\ Unraised(t)

-----------------------------------------------------------------------------
(* Settlements *)

LEMMA NoRowFacts == NoRow.used = 0 /\ NoRow.state = "none" /\ NoRow.fence = 0
  BY Zenon DEF NoRow

LEMMA ClosedMild ==
    ASSUME NEW t, NEW state \in {"failed", "canceled"}, NEW w, NEW f, NEW verdict
    PROVE  Mild(t, Closed(t, state, w, f, verdict)) /\ Mild(t, ClosedUnattributed(t, state))
  <1> DEFINE s == Closed(t, state, w, f, verdict)
             u == ClosedUnattributed(t, state)
  <1>1. s.row = NoRow /\ s.out.state = state /\ u.row = NoRow /\ u.out.state = state
    BY Zenon DEF Closed, ClosedUnattributed
  <1> HIDE DEF s, u
  <1> QED BY <1>1, NoRowFacts, Zenon DEF Mild, s, u

LEMMA UntouchedMild ==
    ASSUME Inv, NEW t \in Tasks
    PROVE  Mild(t, Untouched(t))
  <1>1. Untouched(t).row = runtime[t] /\ Untouched(t).out = outcome[t]
    BY Zenon DEF Untouched
  <1>2. ~Live(t) => runtime[t] = NoRow
    BY TypeFacts, Zenon DEF RowOK, Live
  <1> QED BY <1>1, <1>2, NoRowFacts, ZenonT(30) DEF Mild, Live, Active

LEMMA RetriedMild ==
    ASSUME Inv, NEW t \in Tasks, NEW delay, NEW seq, NEW verdict
    PROVE  Mild(t, Retried(t, delay, seq, verdict))
  <1> DEFINE s == Retried(t, delay, seq, verdict)
  <1>1. s.row.used = 0 /\ s.row.state \in {"ready", "scheduled"} /\ s.out = outcome[t]
    BY ZenonT(30) DEF Retried, NoRow
  <1> HIDE DEF s
  <1> QED BY <1>1, Zenon DEF Mild, s

LEMMA RetriedOrFailedMild ==
    ASSUME Inv, NEW t \in Tasks, NEW delay, NEW seq, NEW verdict
    PROVE  Mild(t, RetriedOrFailed(t, delay, seq, verdict))
  BY RetriedMild, ClosedMild, ZenonT(30) DEF RetriedOrFailed, ClosedByOwner

LEMMA ClosedInactiveMild ==
    ASSUME NEW t, NEW state \in {"failed", "canceled"}, NEW verdict
    PROVE  Mild(t, ClosedInactive(t, state, verdict))
  BY ClosedMild, Zenon DEF ClosedInactive

LEMMA DeadlineSettlementMild ==
    ASSUME Inv, NEW t \in Tasks
    PROVE  Mild(t, DeadlineSettlement(t))
  BY ClosedMild, ClosedInactiveMild, UntouchedMild, ZenonT(30) DEF DeadlineSettlement, ClosedByOwner

LEMMA TimeoutSettlementMild ==
    ASSUME Inv, NEW t \in Tasks, NEW delay, NEW seq
    PROVE  Mild(t, TimeoutSettlement(t, delay, seq))
  BY RetriedOrFailedMild, DeadlineSettlementMild, UntouchedMild, ZenonT(30) DEF TimeoutSettlement

LEMMA ExpirySettlementMild ==
    ASSUME Inv, NEW t \in Tasks, NEW delay, NEW seq
    PROVE  Mild(t, ExpirySettlement(t, delay, seq))
  BY TimeoutSettlementMild, DeadlineSettlementMild, UntouchedMild, ZenonT(30) DEF ExpirySettlement

LEMMA LeaseSettlementMild ==
    ASSUME Inv, NEW t \in Tasks, NEW delay, NEW seq
    PROVE  Mild(t, LeaseSettlement(t, delay, seq))
  BY RetriedOrFailedMild, ClosedMild, ZenonT(30) DEF LeaseSettlement, ClosedByOwner

LEMMA PromotedMild ==
    ASSUME Inv, NEW t \in Tasks, NEW seq, runtime[t].state = "scheduled"
    PROVE  Mild(t, [Untouched(t) EXCEPT !.row = Promoted(t, seq)])
  <1> DEFINE s == [Untouched(t) EXCEPT !.row = Promoted(t, seq)]
  <1>1. s.row = Promoted(t, seq) /\ s.out = outcome[t]
    BY Zenon DEF Untouched
  <1>2. Promoted(t, seq).state = "ready" /\ Promoted(t, seq).used = runtime[t].used
    BY TypeFacts, ZenonT(30) DEF Promoted, RowType
  <1> HIDE DEF s
  <1> QED BY <1>1, <1>2, ZenonT(30) DEF Mild, Live, s

LEMMA SettlementMild ==
    ASSUME Inv, NEW t \in Tasks, NEW P, NEW R, NEW delay, NEW seq,
           t \in P => runtime[t].state = "scheduled"
    PROVE  Mild(t, Settlement(t, P, R, delay, seq))
  BY DeadlineSettlementMild, TimeoutSettlementMild, LeaseSettlementMild, PromotedMild,
     UntouchedMild, Zenon DEF Settlement

-----------------------------------------------------------------------------
(* The shape of a step *)

LEMMA KeptShape ==
    ASSUME Inv, NEW t \in Tasks, runtime'[t] = runtime[t], outcome'[t] = outcome[t],
           def'[t] = def[t]
    PROVE  Shape(t)
  <1>1. ~Live(t) => runtime[t] = NoRow
    BY TypeFacts, Zenon DEF RowOK, Live
  <1> QED BY <1>1, NoRowFacts, ZenonT(30) DEF Shape, Charged, Credited, Unraised, Active, Live

LEMMA MildShape ==
    ASSUME Inv, NEW t \in Tasks, NEW s, Mild(t, s), runtime'[t] = s.row,
           outcome'[t] = s.out, def'[t] = def[t]
    PROVE  Shape(t)
  BY Zenon DEF Mild, Shape, Charged, Credited, Unraised

LEMMA ApplyShape ==
    ASSUME Inv, NEW u \in Tasks, NEW s, Mild(u, s), Apply(u, s), def' = def,
           NEW t \in Tasks
    PROVE  Shape(t)
  <1>1. CASE t = u
    <2>1. runtime'[t] = s.row /\ outcome'[t] = s.out
      BY <1>1, ZenonT(30) DEF Apply, Inv, TypeOK
    <2> QED BY <1>1, <2>1, MildShape, ZenonT(30)
  <1>2. CASE t # u
    <2>1. runtime'[t] = runtime[t] /\ outcome'[t] = outcome[t]
      BY <1>2, ZenonT(30) DEF Apply, Inv, TypeOK
    <2> QED BY <2>1, KeptShape, ZenonT(30)
  <1> QED BY <1>1, <1>2, ZenonT(30)

\* Row r may follow the row of u: it charges nothing, or a suspension before
\* the timeout charges the time since the claim and at most one slip.
Follows(u, r) ==
    /\ \/ r.used = runtime[u].used /\ Live(u)
       \/ /\ Active(u) /\ ~PastTimeout(u) /\ r.state # "active"
          /\ r.used <= runtime[u].used + ((now + Slip) - runtime[u].acquired)
    /\ r.state = "active" => Active(u) /\ r.fence = runtime[u].fence

LEMMA RowShape ==
    ASSUME Inv, NEW u \in Tasks, NEW r, Follows(u, r), runtime' = [runtime EXCEPT ![u] = r],
           UNCHANGED <<def, outcome>>, NEW t \in Tasks
    PROVE  Shape(t)
  <1>1. CASE t = u
    <2>1. runtime'[t] = r /\ outcome'[t] = outcome[t] /\ def'[t] = def[t]
      BY <1>1, ZenonT(30) DEF Inv, TypeOK
    <2> QED BY <1>1, <2>1, ZenonT(30) DEF Follows, Shape, Charged, Credited, Unraised
  <1>2. CASE t # u
    <2>1. runtime'[t] = runtime[t] /\ outcome'[t] = outcome[t] /\ def'[t] = def[t]
      BY <1>2, ZenonT(30) DEF Inv, TypeOK
    <2> QED BY <2>1, KeptShape, ZenonT(30)
  <1> QED BY <1>1, <1>2, ZenonT(30)

LEMMA SuspendedFollows ==
    ASSUME Inv, NEW u \in Tasks, Active(u), ~PastTimeout(u), NEW r,
           r.used = Suspended(u, now).used, r.state # "active"
    PROVE  Follows(u, r)
  <1>1. Suspended(u, now).used = runtime[u].used + (now - runtime[u].acquired)
    BY ClockFacts, SuspendedFacts
  <1>2. runtime[u].used + (now - runtime[u].acquired)
            <= runtime[u].used + ((now + Slip) - runtime[u].acquired)
    BY TypeFacts, ConstantsAssumption DEF ConstantsAssumption, RowType
  <1> QED BY <1>1, <1>2, ZenonT(30) DEF Follows

LEMMA CompleteShape ==
    ASSUME Inv, NEW w, NEW u \in Tasks, NEW f, Complete(w, u, f) \/ AcknowledgeCancel(w, u, f),
           NEW t \in Tasks
    PROVE  Shape(t)
  <1> DEFINE s == Closed(u, "succeeded", w, f, "succeeded")
  <1>1. /\ Active(u) /\ runtime[u].fence = f /\ def' = def
        /\ Apply(u, s) \/ Apply(u, Closed(u, "canceled", w, f, "canceled"))
    BY Zenon DEF Complete, AcknowledgeCancel, HoldsLease, Owns
  <1>2. Mild(u, s)
    <2>1. s.row = NoRow /\ s.out.fence = f
      BY Zenon DEF Closed
    <2> HIDE DEF s
    <2> QED BY <1>1, <2>1, NoRowFacts, Zenon DEF Mild
  <1> HIDE DEF s
  <1> QED BY <1>1, <1>2, ClosedMild, ApplyShape, Zenon

LEMMA FailShape ==
    ASSUME Inv, NEW w, NEW u \in Tasks, NEW f, NEW retry, NEW delay,
           Fail(w, u, f, retry, delay) \/ ExpireOwned(w, u, f, delay), NEW t \in Tasks
    PROVE  Shape(t)
  <1>1. def' = def /\ \/ Apply(u, ExpirySettlement(u, delay, readySeq + 1))
                      \/ Apply(u, Retried(u, delay, readySeq + 1, "retry"))
                      \/ Apply(u, ClosedByOwner(u, "failed", "failed"))
    BY Zenon DEF Fail, ExpireOwned
  <1>2. Mild(u, ClosedByOwner(u, "failed", "failed"))
    BY ClosedMild, Zenon DEF ClosedByOwner
  <1> QED BY <1>1, <1>2, ExpirySettlementMild, RetriedMild, ApplyShape, ZenonT(30)

LEMMA ReleaseOwnedShape ==
    ASSUME Inv, NEW w, NEW u \in Tasks, NEW f, NEW delay, NEW late \in 0..Slip,
           ReleaseOwned(w, u, f, delay, late), NEW t \in Tasks
    PROVE  Shape(t)
  <1> DEFINE S == Suspended(u, now + late)
             row == [S EXCEPT !.state = "ready", !.runAt = now + late, !.seq = readySeq + 1]
             s == [row |-> row, out |-> outcome[u], entries |-> <<>>]
  <1>1. Active(u) /\ def' = def /\ now \in Nat /\ Slip \in Nat
    BY ClockFacts, ConstantsAssumption, ZenonT(30) DEF ConstantsAssumption, ReleaseOwned, Owns
  <1>2. CASE PastDeadline(u) \/ PastTimeout(u)
    BY <1>1, <1>2, ExpirySettlementMild, ApplyShape, ZenonT(30) DEF ReleaseOwned
  <1>3. CASE ~PastTimeout(u) /\ Apply(u, s)
    <2>1. /\ S \in RowType
          /\ S.used = runtime[u].used + ((now + late) - runtime[u].acquired)
      <3>1. now + late \in Nat /\ now <= now + late
        BY <1>1
      <3> QED BY <1>1, <3>1, SuspendedFacts, ZenonT(30)
    <2> HIDE DEF S
    <2>2. row.state = "ready" /\ row.used = S.used
      BY <2>1, ZenonT(30) DEF RowType
    <2> HIDE DEF row
    <2>3. runtime' = [runtime EXCEPT ![u] = row] /\ outcome' = [outcome EXCEPT ![u] = outcome[u]]
      BY <1>3, ZenonT(30) DEF Apply
    <2>4. outcome'[t] = outcome[t] /\ runtime'[t] = IF t = u THEN row ELSE runtime[t]
      BY <2>3, ZenonT(30) DEF Inv, TypeOK
    <2>5. CASE t # u
      BY <1>1, <2>4, <2>5, KeptShape, ZenonT(30)
    <2>6. CASE t = u
      <3>1. row.used <= runtime[u].used + ((now + Slip) - runtime[u].acquired)
        <4>1. runtime[u].used \in Nat /\ runtime[u].acquired \in Nat /\ late <= Slip /\ late \in Nat
          BY <1>1, TypeFacts DEF RowType
        <4> QED BY <1>1, <2>1, <2>2, <4>1
      <3> QED BY <1>1, <1>3, <2>2, <2>4, <2>6, <3>1, ZenonT(30)
                 DEF Shape, Charged, Credited, Unraised
    <2> QED BY <2>5, <2>6, ZenonT(30)
  <1> QED BY <1>2, <1>3, ZenonT(30) DEF ReleaseOwned

LEMMA HeartbeatShape ==
    ASSUME Inv, NEW t \in Tasks, NEW u \in Tasks, NEW w, NEW f,
           \/ Heartbeat(w, u, f)
           \/ \E locked \in SUBSET Tasks :
                 HeartbeatMany(w, {c \in issued : c[1] = w}, locked)
    PROVE  Shape(t)
  <1> DEFINE r == [runtime[t] EXCEPT !.expires = now + Lease]
  <1>1. r.state = runtime[t].state /\ r.used = runtime[t].used /\ r.fence = runtime[t].fence
    BY TypeFacts, ZenonT(30) DEF RowType
  <1>2. def' = def /\ outcome' = outcome
    BY Zenon DEF Heartbeat, HeartbeatMany
  <1>3. runtime'[t] = runtime[t] \/ (runtime'[t] = r /\ Active(t))
    BY ZenonT(30) DEF Heartbeat, HeartbeatMany, HoldsLease, Owns, Inv, TypeOK
  <1>4. CASE runtime'[t] = runtime[t]
    BY <1>2, <1>4, KeptShape, Zenon
  <1>5. CASE runtime'[t] = r /\ Active(t)
    <2> HIDE DEF r
    <2> QED BY <1>1, <1>2, <1>5, ZenonT(30) DEF Shape, Charged, Credited, Unraised, Active, Live
  <1> QED BY <1>3, <1>4, <1>5, ZenonT(30)

LEMMA WaitShape ==
    ASSUME Inv, NEW w, NEW u \in Tasks, NEW f, NEW n, NEW span, NEW kind,
           ScheduleWait(w, u, f, n, span) \/ WaitFor(kind, w, u, f, n, span), NEW t \in Tasks
    PROVE  Shape(t)
  <1> DEFINE S == Suspended(u, now)
             d == IF S.deadline <= now + span THEN S.deadline ELSE now + span
             timer == [S EXCEPT !.state = "scheduled", !.runAt = now + span, !.wait = n]
             other == [S EXCEPT !.state = "scheduled", !.runAt = Never, !.wait = n, !.deadline = d]
  <1>1. Active(u) /\ ~PastTimeout(u) /\ UNCHANGED <<def, outcome>>
    BY Zenon DEF ScheduleWait, WaitFor, HoldsLease, Owns
  <1>2. \/ runtime' = [runtime EXCEPT ![u] = runtime[u]]
        \/ runtime' = [runtime EXCEPT ![u] = timer]
        \/ runtime' = [runtime EXCEPT ![u] = other]
    BY ZenonT(30) DEF ScheduleWait, WaitFor
  <1>3. S \in RowType
    BY <1>1, ClockFacts, SuspendedFacts
  <1>4. Follows(u, runtime[u])
    BY <1>1, ZenonT(30) DEF Follows, Live, Active
  <1>5. Follows(u, timer) /\ Follows(u, other)
    <2> HIDE DEF S, d
    <2>1. /\ timer.used = S.used /\ timer.state = "scheduled"
          /\ other.used = S.used /\ other.state = "scheduled"
      BY <1>3, Zenon DEF RowType
    <2> HIDE DEF timer, other
    <2> QED BY <1>1, <2>1, SuspendedFollows, Zenon DEF S
  <1> HIDE DEF S, d, timer, other
  <1> QED BY <1>1, <1>2, <1>4, <1>5, RowShape, ZenonT(30)

LEMMA WorkerCallShape ==
    ASSUME Inv, WorkerCall, NEW t \in Tasks
    PROVE  Shape(t)
  <1>1. CASE \E w \in Workers, locked \in SUBSET Tasks :
                HeartbeatMany(w, {c \in issued : c[1] = w}, locked)
    BY <1>1, HeartbeatShape, ZenonT(30)
  <1>2. ASSUME NEW c \in issued, HolderCall(c[1], c[2], c[3])
        PROVE  Shape(t)
    <2> DEFINE w == c[1]
               u == c[2]
               f == c[3]
    <2>1. u \in Tasks /\ f \in Nat
      BY Zenon DEF Inv, TypeOK
    <2> HIDE DEF w, u, f
    <2>2. CASE Heartbeat(w, u, f)
      BY <2>1, <2>2, HeartbeatShape, ZenonT(30)
    <2>3. CASE Complete(w, u, f) \/ AcknowledgeCancel(w, u, f)
      BY <2>1, <2>3, CompleteShape, ZenonT(30)
    <2>4. CASE \E delay \in RetryDelays :
                  \/ \E retry \in BOOLEAN : Fail(w, u, f, retry, delay)
                  \/ ExpireOwned(w, u, f, delay)
      BY <2>1, <2>4, FailShape, ZenonT(30)
    <2>5. CASE \E delay \in RetryDelays, late \in 0..Slip : ReleaseOwned(w, u, f, delay, late)
      BY <2>1, <2>5, ReleaseOwnedShape, ZenonT(30)
    <2>6. CASE \E n \in WaitNames, span \in WaitSpans \union {0} : ScheduleWait(w, u, f, n, span)
      BY <2>1, <2>6, WaitShape, ZenonT(30)
    <2>7. CASE \E n \in WaitNames, span \in WaitSpans :
                  WaitForSignal(w, u, f, n, span) \/ WaitForHuman(w, u, f, n, span)
      BY <2>1, <2>7, WaitShape, ZenonT(30) DEF WaitForSignal, WaitForHuman
    <2> QED BY <1>2, <2>2, <2>3, <2>4, <2>5, <2>6, <2>7, ZenonT(30) DEF HolderCall, w, u, f
  <1> QED BY <1>1, <1>2, Zenon DEF WorkerCall

LEMMA EnqueueShape ==
    ASSUME Inv, NEW u \in Tasks, NEW d, NEW delay, Enqueue(u, d, delay), NEW t \in Tasks
    PROVE  Shape(t)
  <1> DEFINE row == [NoRow EXCEPT
                       !.state = IF delay = 0 THEN "ready" ELSE "scheduled",
                       !.attempt = 1,
                       !.deadline = d.deadline,
                       !.runAt = now + delay,
                       !.seq = IF delay = 0 THEN readySeq + 1 ELSE 0]
  <1>1. row.used = 0 /\ row.state \in {"ready", "scheduled"}
    BY Zenon DEF NoRow
  <1> HIDE DEF row
  <1>2. CASE t # u
    <2>1. runtime'[t] = runtime[t] /\ outcome'[t] = outcome[t] /\ def'[t] = def[t]
      BY <1>2, ZenonT(30) DEF Enqueue, Inv, TypeOK
    <2> QED BY <2>1, KeptShape, ZenonT(30)
  <1>3. CASE t = u
    <2>1. /\ runtime'[t] = NoRow \/ runtime'[t] = row
          /\ outcome'[t] = outcome[t] \/ outcome'[t].state = "failed"
      BY <1>3, Zenon DEF Enqueue, Inv, TypeOK, row
    <2> QED BY <1>1, <2>1, NoRowFacts, ZenonT(30) DEF Shape, Charged, Credited, Unraised
  <1> QED BY <1>2, <1>3, ZenonT(30)

LEMMA OperatorCallShape ==
    ASSUME Inv, OperatorCall, NEW t \in Tasks
    PROVE  Shape(t)
  <1>1. ASSUME NEW u \in Tasks, NEW d \in Definitions, NEW delay \in StartDelays,
               Enqueue(u, d, delay)
        PROVE  Shape(t)
    BY <1>1, EnqueueShape, ZenonT(30)
  <1>2. ASSUME NEW u \in Tasks, Cancel(u)
        PROVE  Shape(t)
    <2>1. CASE Active(u)
      <3> DEFINE r == [runtime[u] EXCEPT !.cancel = TRUE]
      <3>1. runtime' = [runtime EXCEPT ![u] = r] /\ UNCHANGED <<def, outcome>>
        BY <1>2, <2>1, ZenonT(30) DEF Cancel
      <3>2. Follows(u, r)
        BY <2>1, TypeFacts, ZenonT(30) DEF Follows, RowType, Live, Active
      <3> HIDE DEF r
      <3> QED BY <3>1, <3>2, RowShape, ZenonT(30)
    <2>2. CASE ~Active(u)
      BY <1>2, <2>2, ClosedInactiveMild, ApplyShape, ZenonT(30) DEF Cancel
    <2> QED BY <2>1, <2>2, ZenonT(30)
  <1>3. ASSUME NEW u \in Tasks, RunTaskNow(u)
        PROVE  Shape(t)
    <2> DEFINE r == [runtime[u] EXCEPT !.state = "ready", !.runAt = now, !.seq = readySeq + 1]
    <2>1. runtime' = [runtime EXCEPT ![u] = r] /\ UNCHANGED <<def, outcome>>
      BY <1>3, ZenonT(30) DEF RunTaskNow
    <2>2. Follows(u, r)
      BY <1>3, TypeFacts, ZenonT(30) DEF RunTaskNow, Follows, RowType, Live
    <2> HIDE DEF r
    <2> QED BY <2>1, <2>2, RowShape, ZenonT(30)
  <1>4. ASSUME NEW u \in Tasks, NEW n \in WaitNames, NEW payload \in Payloads,
               SendSignal(u, n, payload) \/ CompleteHumanWait(u, n, payload)
        PROVE  Shape(t)
    <2>1. /\ runtime[u].state = "scheduled" /\ UNCHANGED <<def, outcome>>
          /\ runtime' = [runtime EXCEPT ![u] = Resumed(u)]
      BY <1>4, ZenonT(30) DEF SendSignal, CompleteHumanWait, Deliver
    <2>2. Follows(u, Resumed(u))
      BY <2>1, TypeFacts DEF Resumed, Follows, RowType, Live
    <2> QED BY <2>1, <2>2, RowShape, ZenonT(30)
  <1>5. CASE \E p \in PauseCalls : SetQueuePaused(p)
    BY <1>5, KeptShape, Zenon DEF SetQueuePaused
  <1> QED BY <1>1, <1>2, <1>3, <1>4, <1>5, ZenonT(30) DEF OperatorCall

LEMMA TickShape ==
    ASSUME Inv, Maintenance, NEW t \in Tasks
    PROVE  Shape(t)
  <1>1. PICK locked \in SUBSET Tasks, failed \in {"none", "promote", "recover"},
             delays \in [Tasks -> RetryDelays] : Tick(locked, failed, delays)
    BY Zenon DEF Maintenance
  <1>2. PICK P, R, n :
           /\ t \in P => runtime[t].state = "scheduled" /\ runtime[t].runAt <= now
           /\ R = Recovery(locked) \/ R = NoRecovery
           /\ runtime'[t] = Settlement(t, P, R, delays[t], n).row
           /\ outcome'[t] = Settlement(t, P, R, delays[t], n).out
           /\ history'[t] = history[t] \o Settlement(t, P, R, delays[t], n).entries
    BY <1>1, TickSettles, ZenonT(30)
  <1>3. def' = def
    BY <1>1, ZenonT(30) DEF Tick
  <1> QED BY <1>2, <1>3, SettlementMild, MildShape, Zenon

\* Every step but a claim has this shape.
LEMMA StepShape ==
    ASSUME Inv, [Next]_vars, ~Claim, NEW t \in Tasks
    PROVE  Shape(t)
  <1>1. CASE ScanBecomesDue \/ Advance \/ UNCHANGED vars
    BY <1>1, KeptShape, ZenonT(30) DEF ScanBecomesDue, Advance, vars
  <1> QED BY <1>1, WorkerCallShape, OperatorCallShape, TickShape, ZenonT(30) DEF Next

-----------------------------------------------------------------------------
(* Claims *)

LEMMA ClaimFacts ==
    ASSUME Inv, Claim
    PROVE  \E u \in Tasks, w \in Workers :
              /\ runtime[u].state = "ready"
              /\ def[u].timeout # Never => runtime[u].used < def[u].timeout
              /\ runtime'[u].state = "active" /\ runtime'[u].fence = fenceSeq + 1
              /\ runtime'[u].used = runtime[u].used
              /\ \A t \in Tasks : t # u => runtime'[t] = runtime[t]
              /\ issued' = issued \union {<<w, u, fenceSeq + 1>>}
              /\ fenceSeq' = fenceSeq + 1 /\ outcome' = outcome /\ def' = def
  <1>1. PICK w \in Workers, u \in Tasks :
           /\ Claimable(u) /\ runtime' = [runtime EXCEPT ![u] = Granted(u, w)]
           /\ issued' = issued \union {<<w, u, fenceSeq + 1>>}
           /\ fenceSeq' = fenceSeq + 1 /\ outcome' = outcome /\ def' = def
    BY ZenonT(30) DEF Claim, ClaimOne
  <1>2. /\ Granted(u, w).state = "active" /\ Granted(u, w).fence = fenceSeq + 1
        /\ Granted(u, w).used = runtime[u].used
    BY TypeFacts DEF Granted, RowType
  <1>3. runtime'[u] = Granted(u, w) /\ \A t \in Tasks : t # u => runtime'[t] = runtime[t]
    BY <1>1, Zenon DEF Inv, TypeOK
  <1> WITNESS u \in Tasks, w \in Workers
  <1> QED BY <1>1, <1>2, <1>3, ZenonT(30) DEF Claimable

-----------------------------------------------------------------------------
(* Fencing *)

\* No token handed out is ahead of the sequence, and the owner of a task holds
\* the largest token that was handed out for it.
FenceInv ==
    /\ \A c \in issued : c[3] <= fenceSeq
    /\ \A t \in Tasks : Active(t) =>
          /\ runtime[t].fence <= fenceSeq
          /\ \A c \in issued : c[2] = t => c[3] <= runtime[t].fence
    /\ SuccessByLatestClaim

LEMMA FenceNext ==
    ASSUME Inv, FenceInv, [Next]_vars
    PROVE  FenceInv'
  <1>1. CASE Claim
    <2>1. PICK u \in Tasks, w \in Workers :
              /\ runtime[u].state = "ready"
              /\ runtime'[u].state = "active" /\ runtime'[u].fence = fenceSeq + 1
              /\ \A t \in Tasks : t # u => runtime'[t] = runtime[t]
              /\ issued' = issued \union {<<w, u, fenceSeq + 1>>}
              /\ fenceSeq' = fenceSeq + 1 /\ outcome' = outcome
      BY <1>1, ClaimFacts, ZenonT(30)
    <2>2. /\ fenceSeq \in Nat /\ \A c \in issued : c[3] \in Nat
          /\ \A t \in Tasks : runtime[t].fence \in Nat
      BY ZenonT(30) DEF Inv, TypeOK, RowType
    <2>3. outcome[u].state = "none"
      <3>1. NoRow.state = "none" /\ Home(def[u], runtime[u], outcome[u])
        BY NoRowFacts, ZenonT(30) DEF Inv
      <3> QED BY <2>1, <3>1, ZenonT(30) DEF Home
    <2>4. \A c \in issued' : c[3] <= fenceSeq'
      BY <2>1, <2>2 DEF FenceInv
    <2>5. ASSUME NEW t \in Tasks, runtime'[t].state = "active"
          PROVE  /\ runtime'[t].fence <= fenceSeq'
                 /\ \A c \in issued' : c[2] = t => c[3] <= runtime'[t].fence
      BY <2>1, <2>2, <2>5, SMTT(30) DEF FenceInv, Active
    <2>6. ASSUME NEW t \in Tasks, outcome'[t].state = "succeeded"
          PROVE  \A c \in issued' : c[2] = t => c[3] <= outcome'[t].fence
      BY <2>1, <2>3, <2>6, SMTT(30) DEF FenceInv, SuccessByLatestClaim
    <2>7. ASSUME NEW t \in Tasks, NEW v \in Tasks, t # v,
                 runtime'[t].state = "active", runtime'[v].state = "active"
          PROVE  runtime'[t].fence # runtime'[v].fence
      BY <2>1, <2>2, <2>7, SMTT(30) DEF FenceInv, SuccessByLatestClaim, Active
    <2> QED BY <2>4, <2>5, <2>6, <2>7, ZenonT(30) DEF FenceInv, SuccessByLatestClaim, Active
  <1>2. CASE ~Claim
    <2>1. issued' = issued /\ fenceSeq' = fenceSeq
      BY <1>2, IssuedStep, Zenon
    <2>2. ASSUME NEW t \in Tasks PROVE Credited(t) /\ Unraised(t)
      BY <1>2, StepShape, Zenon DEF Shape
    <2>3. ASSUME NEW t \in Tasks, runtime'[t].state = "active"
          PROVE  Active(t) /\ runtime'[t].fence = runtime[t].fence
      BY <2>2, <2>3, Zenon DEF Unraised
    <2>4. ASSUME NEW t \in Tasks, outcome'[t].state = "succeeded"
          PROVE  \A c \in issued : c[2] = t => c[3] <= outcome'[t].fence
      <3>1. outcome'[t] = outcome[t] \/ (Active(t) /\ outcome'[t].fence = runtime[t].fence)
        BY <2>2, <2>4, Zenon DEF Credited
      <3> QED BY <2>4, <3>1, Zenon DEF FenceInv, SuccessByLatestClaim
    <2> QED BY <2>1, <2>3, <2>4, Zenon DEF FenceInv, SuccessByLatestClaim, Active
  <1> QED BY <1>1, <1>2, ZenonT(30)

\* The fence token of claim_one_v1 does its work: a task that succeeded is
\* credited to the last claim handed out for it, and no two owned tasks share
\* a token, whatever stale workers, releases and recoveries did in between.
THEOREM SuccessByLatestClaimAlways == Spec => []SuccessByLatestClaim
  <1>1. Init => FenceInv
    BY NoRowFacts, ZenonT(30) DEF Init, FenceInv, SuccessByLatestClaim, Active, NoOutcome
  <1>2. Inv /\ FenceInv /\ [Next]_vars => FenceInv'
    BY FenceNext, Zenon
  <1>3. FenceInv => SuccessByLatestClaim
    BY Zenon DEF FenceInv
  <1> QED BY <1>1, <1>2, <1>3, Invariance, PTL DEF Spec

-----------------------------------------------------------------------------
(* The execution budget *)

\* A claim starts with execution time left, and what a suspension charged beyond
\* it is less than one slip.
Budget ==
    \A t \in Tasks : (Live(t) /\ def[t].timeout # Never) =>
        /\ runtime[t].used < def[t].timeout + Slip
        /\ Active(t) => runtime[t].used < def[t].timeout

LEMMA TimeoutPositive ==
    ASSUME NEW d \in Definitions \union {NoDefinition}
    PROVE  d.timeout \in Nat /\ d.timeout > 0
  <1>1. Never \in Nat /\ Never > 0
    BY ConstantsAssumption DEF ConstantsAssumption
  <1>2. CASE d \in Definitions
    BY <1>2, ConstantsAssumption DEF ConstantsAssumption, DefinitionType
  <1>3. CASE d = NoDefinition
    BY <1>1, <1>3, Zenon DEF NoDefinition
  <1> QED BY <1>2, <1>3, ZenonT(30)

LEMMA BudgetNext ==
    ASSUME Inv, Inv', Budget, [Next]_vars
    PROVE  Budget'
  <1> SUFFICES ASSUME NEW t \in Tasks, runtime'[t].state # "none", def'[t].timeout # Never
               PROVE  /\ runtime'[t].used < def'[t].timeout + Slip
                      /\ runtime'[t].state = "active" => runtime'[t].used < def'[t].timeout
    BY Zenon DEF Budget, Live, Active
  <1>1. def'[t].timeout \in Nat /\ def'[t].timeout > 0 /\ Slip \in Nat
    BY TimeoutPositive, ConstantsAssumption, Zenon DEF Inv, TypeOK, ConstantsAssumption
  <1>2. runtime[t].used \in Nat /\ runtime'[t].used \in Nat
    BY Zenon DEF Inv, TypeOK, RowType
  <1>3. runtime'[t].used < def'[t].timeout => runtime'[t].used < def'[t].timeout + Slip
    BY <1>1, <1>2
  <1>4. CASE Claim
    BY <1>3, <1>4, ClaimFacts, Zenon DEF Budget, Live, Active
  <1>5. CASE ~Claim
    <2>1. Charged(t) /\ Unraised(t)
      BY <1>5, StepShape, Zenon DEF Shape
    <2>2. CASE runtime'[t].used = 0
      BY <1>1, <1>3, <2>2, Zenon
    <2>3. CASE Live(t) /\ def'[t] = def[t] /\ runtime'[t].used = runtime[t].used
      BY <2>1, <2>3, Zenon DEF Budget, Unraised
    <2>4. CASE /\ Active(t) /\ ~PastTimeout(t) /\ def'[t] = def[t] /\ runtime'[t].state # "active"
               /\ runtime'[t].used <= runtime[t].used + ((now + Slip) - runtime[t].acquired)
      <3>1. /\ now \in Nat /\ runtime[t].used \in Nat /\ runtime[t].acquired \in Nat
            /\ runtime[t].timeoutAt \in Nat
        BY TypeFacts, Zenon DEF RowType
      <3>2. runtime[t].timeoutAt = runtime[t].acquired + (def[t].timeout - runtime[t].used)
        BY <2>4, TypeFacts, Zenon DEF RowOK, Active
      <3>3. runtime'[t].used < def'[t].timeout + Slip
        BY <1>1, <1>2, <2>4, <3>1, <3>2, SMTT(30) DEF PastTimeout
      <3> QED BY <2>4, <3>3, Zenon
    <2> QED BY <2>1, <2>2, <2>3, <2>4, Zenon DEF Charged
  <1> QED BY <1>4, <1>5, Zenon

\* However far the clock moves between the WHERE clause and the SET list of
\* release_owned_v1, no sequence of claims, waits and releases of an attempt
\* loses execution time or charges it twice: an owned task times out exactly
\* when its time is used, and one that is not owned was overcharged by less
\* than that one distance.
THEOREM BudgetKeptAlways == Spec => []BudgetKept
  <1>1. Init => Budget
    BY NoRowFacts, ZenonT(30) DEF Init, Budget, Live
  <1>2. Inv /\ Inv' /\ Budget /\ [Next]_vars => Budget'
    BY BudgetNext, ZenonT(30)
  <1>3. Inv /\ Budget => BudgetKept
    <2> SUFFICES ASSUME Inv, Budget, NEW t \in Tasks, Live(t), def[t].timeout # Never
                 PROVE  IF Active(t)
                        THEN /\ runtime[t].used < def[t].timeout
                             /\ runtime[t].timeoutAt
                                   = runtime[t].acquired + (def[t].timeout - runtime[t].used)
                        ELSE runtime[t].used < def[t].timeout + Slip
      BY Zenon DEF BudgetKept
    <2> QED BY TypeFacts, ZenonT(30) DEF Budget, RowOK, Active
  <1> QED BY <1>1, <1>2, <1>3, Invariance, PTL DEF Spec
=============================================================================
