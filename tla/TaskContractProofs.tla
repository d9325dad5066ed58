------------------------- MODULE TaskContractProofs -------------------------
(***************************************************************************)
(* What a step of TaskLifecycle may write into the ledger and over the     *)
(* waits, and that TaskLifecycle implements TaskContract.                  *)
(*                                                                         *)
(* Each settlement moves the standing of its task as the contract allows   *)
(* (Keeps), hence so does every call that applies one and every tick; the  *)
(* remaining calls replace one row and are looked at one by one.           *)
(***************************************************************************)
EXTENDS TaskLifecycleProofs, TaskRefinement

-----------------------------------------------------------------------------
(* What a step may write *)

\* The attempt of task t may be closed now with verdict v.
Judged(t, v) ==
    LET r == runtime[t]
    IN /\ v = "lease_expired" => r.expires <= now /\ r.deadline > now /\ r.timeoutAt > now
       /\ v = "timeout" => r.timeoutAt <= now /\ (r.deadline > now \/ r.timeoutAt < r.deadline)
       /\ v = "deadline_exceeded" =>
             r.deadline <= now /\ (r.timeoutAt > now \/ r.deadline <= r.timeoutAt)
       /\ v \in {"succeeded", "retry", "failed"} =>
             r.expires > now /\ r.deadline > now /\ r.timeoutAt > now

\* A settlement closes no attempt, or one with a verdict it may have.
Fair(t, s) ==
    s.entries = <<>> \/ \E e : s.entries = <<e>> /\ Judged(t, e.verdict)

LEMMA ClosedFair ==
    ASSUME NEW t, NEW state, NEW w, NEW f, NEW verdict, Judged(t, verdict)
    PROVE  Fair(t, Closed(t, state, w, f, verdict)) /\ Fair(t, ClosedByOwner(t, state, verdict))
  <1>1. \A x, y : /\ Closed(t, state, x, y, verdict).entries = <<Entry(t, x, y, verdict)>>
                  /\ Entry(t, x, y, verdict).verdict = verdict
    BY ZenonT(30) DEF Closed, Entry
  <1>2. \A x, y : Fair(t, Closed(t, state, x, y, verdict))
    BY <1>1, ZenonT(30) DEF Fair
  <1> QED BY <1>2, ZenonT(30) DEF ClosedByOwner

LEMMA RetriedFair ==
    ASSUME NEW t, NEW delay, NEW seq, NEW verdict, Judged(t, verdict)
    PROVE  /\ Fair(t, Retried(t, delay, seq, verdict))
           /\ Fair(t, RetriedOrFailed(t, delay, seq, verdict))
  <1> DEFINE e == Entry(t, runtime[t].worker, runtime[t].fence, verdict)
  <1>1. Retried(t, delay, seq, verdict).entries = <<e>> /\ e.verdict = verdict
    BY ZenonT(30) DEF Retried, Entry
  <1>2. Fair(t, Retried(t, delay, seq, verdict))
    BY <1>1, ZenonT(30) DEF Fair
  <1> QED BY <1>2, ClosedFair, ZenonT(30) DEF RetriedOrFailed

LEMMA UntouchedFair ==
    ASSUME NEW t, NEW state
    PROVE  Fair(t, Untouched(t)) /\ Fair(t, ClosedUnattributed(t, state))
  <1>1. Untouched(t).entries = <<>> /\ ClosedUnattributed(t, state).entries = <<>>
    BY ZenonT(30) DEF Untouched, ClosedUnattributed
  <1> QED BY <1>1, ZenonT(30) DEF Fair

LEMMA ClosedInactiveFair ==
    ASSUME NEW t, NEW state, NEW verdict, Judged(t, verdict)
    PROVE  Fair(t, ClosedInactive(t, state, verdict))
  BY ClosedFair, UntouchedFair, ZenonT(30) DEF ClosedInactive

\* A cancellation needs no boundary.
LEMMA CanceledJudged ==
    ASSUME NEW t
    PROVE  Judged(t, "canceled")
  BY Zenon DEF Judged

\* The times of a row are numbers, and no timeout is pending on a row that no
\* worker owns.
LEMMA RowTimes ==
    ASSUME Inv, NEW t \in Tasks
    PROVE  /\ now \in Nat /\ runtime[t].deadline \in Nat /\ runtime[t].timeoutAt \in Nat
           /\ runtime[t].expires \in Nat /\ runtime[t].runAt \in Nat
           /\ (Live(t) /\ ~Active(t)) => runtime[t].timeoutAt > now
           /\ Active(t) => runtime[t].deadline = def[t].deadline
  <1>1. runtime[t] \in RowType /\ now < Never /\ now \in Nat
    BY TypeFacts, ClockFacts, ZenonT(30)
  <1>2. (Live(t) /\ ~Active(t)) => runtime[t].timeoutAt = Never
    BY <1>1, TypeFacts, ZenonT(30) DEF Live, Active, RowOK, RowType
  <1> QED BY <1>1, <1>2, ActiveFacts, ZenonT(30) DEF RowType

LEMMA DeadlineSettlementFair ==
    ASSUME Inv, NEW t \in Tasks, Live(t),
           \/ runtime[t].cancel \/ ~Active(t) \/ ~PastTimeout(t)
           \/ runtime[t].deadline <= runtime[t].timeoutAt
    PROVE  Fair(t, DeadlineSettlement(t))
  <1>1. CASE ~PastDeadline(t)
    BY <1>1, UntouchedFair, ZenonT(30) DEF DeadlineSettlement
  <1>2. CASE PastDeadline(t) /\ runtime[t].cancel
    BY <1>2, CanceledJudged, ClosedFair, ZenonT(30) DEF DeadlineSettlement
  <1>3. CASE PastDeadline(t) /\ ~runtime[t].cancel
    <2>1. Judged(t, "deadline_exceeded")
      BY <1>3, RowTimes, SMTT(30) DEF Judged, PastDeadline, PastTimeout
    <2> QED BY <1>3, <2>1, ClosedFair, ClosedInactiveFair, ZenonT(30) DEF DeadlineSettlement
  <1> QED BY <1>1, <1>2, <1>3, ZenonT(30)

LEMMA TimeoutSettlementFair ==
    ASSUME Inv, NEW t \in Tasks, Active(t), NEW delay, NEW seq
    PROVE  Fair(t, TimeoutSettlement(t, delay, seq))
  <1>1. CASE ~PastTimeout(t) \/ runtime[t].cancel
    BY <1>1, UntouchedFair, ZenonT(30) DEF TimeoutSettlement
  <1>2. CASE /\ PastTimeout(t) /\ ~runtime[t].cancel
             /\ def[t].deadline <= runtime[t].timeoutAt /\ def[t].deadline <= now
    <2>1. Live(t) /\ runtime[t].deadline <= runtime[t].timeoutAt
      BY <1>2, ActiveFacts, ZenonT(30)
    <2> QED BY <1>2, <2>1, DeadlineSettlementFair, ZenonT(30) DEF TimeoutSettlement
  <1>3. CASE /\ PastTimeout(t) /\ ~runtime[t].cancel
             /\ ~(def[t].deadline <= runtime[t].timeoutAt /\ def[t].deadline <= now)
    <2>1. Judged(t, "timeout")
      BY <1>3, RowTimes, SMTT(30) DEF Judged, PastTimeout
    <2> QED BY <1>3, <2>1, RetriedFair, ZenonT(30) DEF TimeoutSettlement
  <1> QED BY <1>1, <1>2, <1>3, ZenonT(30)

LEMMA ExpirySettlementFair ==
    ASSUME Inv, NEW t \in Tasks, Active(t), NEW delay, NEW seq
    PROVE  Fair(t, ExpirySettlement(t, delay, seq))
  BY ActiveFacts, UntouchedFair, DeadlineSettlementFair, TimeoutSettlementFair, ZenonT(30)
     DEF ExpirySettlement

LEMMA LeaseSettlementFair ==
    ASSUME Inv, NEW t \in Tasks, PastExpiry(t), NEW delay, NEW seq,
           runtime[t].cancel \/ (~PastDeadline(t) /\ ~PastTimeout(t))
    PROVE  Fair(t, LeaseSettlement(t, delay, seq))
  <1>1. CASE runtime[t].cancel
    BY <1>1, CanceledJudged, ClosedFair, ZenonT(30) DEF LeaseSettlement
  <1>2. CASE ~runtime[t].cancel
    <2>1. Judged(t, "lease_expired")
      BY <1>2, RowTimes, SMTT(30) DEF Judged, PastExpiry, PastDeadline, PastTimeout
    <2> QED BY <1>2, <2>1, RetriedFair, ZenonT(30) DEF LeaseSettlement
  <1> QED BY <1>1, <1>2, ZenonT(30)

\* The entries a settlement adds are judged, those it keeps are not new.
LEMMA FairEntry ==
    ASSUME Inv, NEW t \in Tasks, NEW s, Fair(t, s), history'[t] = history[t] \o s.entries
    PROVE  Len(history'[t]) > Len(history[t]) =>
              Judged(t, history'[t][Len(history'[t])].verdict)
  <1> DEFINE last == history'[t][Len(history'[t])]
  <1> SUFFICES ASSUME Len(history'[t]) > Len(history[t])
               PROVE  Judged(t, last.verdict)
    BY ZenonT(30)
  <1>1. history[t] \in Seq(HistoryType) /\ Len(history[t]) \in Nat
    BY SeqFacts, ZenonT(30) DEF Inv, TypeOK
  <1>2. s.entries # <<>>
    <2> DEFINE k == Len(history[t])
    <2>1. s.entries = <<>> => history'[t] = history[t]
      BY <1>1, SeqFacts, ZenonT(30)
    <2>2. s.entries = <<>> => k > k
      BY <2>1, ZenonT(30)
    <2>3. k \in Nat
      BY <1>1, ZenonT(30)
    <2> HIDE DEF k
    <2>4. ~(k > k)
      BY <2>3
    <2> QED BY <2>2, <2>4, ZenonT(30)
  <1>3. PICK e : s.entries = <<e>> /\ Judged(t, e.verdict)
    BY <1>2, ZenonT(30) DEF Fair
  <1>4. Len(history'[t]) = Len(history[t]) + 1 /\ history'[t][Len(history[t]) + 1] = e
    BY <1>1, <1>3, SMTT(30)
  <1>5. last = e
    BY <1>4, ZenonT(30)
  <1> HIDE DEF last
  <1> QED BY <1>3, <1>5, ZenonT(30)

LEMMA ApplyFair ==
    ASSUME Inv, NEW t \in Tasks, NEW s, Fair(t, s), Apply(t, s)
    PROVE  FirstBoundaryDecidesStep
  <1> SUFFICES ASSUME NEW u \in Tasks
               PROVE  Len(history'[u]) > Len(history[u]) =>
                         Judged(u, history'[u][Len(history'[u])].verdict)
    BY ZenonT(30) DEF FirstBoundaryDecidesStep, Judged
  <1>1. CASE u = t
    <2>1. history'[t] = history[t] \o s.entries
      BY ZenonT(30) DEF Apply, Inv, TypeOK
    <2> QED BY <1>1, <2>1, FairEntry, ZenonT(30)
  <1>2. CASE u # t
    <2>1. history'[u] = history[u] /\ Len(history[u]) \in Nat
      BY <1>2, ApplyKeeps, SeqFacts, ZenonT(30) DEF Kept, Inv, TypeOK
    <2> QED BY <2>1, SMTT(30)
  <1> QED BY <1>1, <1>2, ZenonT(30)

LEMMA NothingClosed ==
    ASSUME Inv, UNCHANGED history
    PROVE  FirstBoundaryDecidesStep
  <1>1. \A t \in Tasks : ~(Len(history'[t]) > Len(history[t]))
    BY SeqFacts, SMTT(30) DEF Inv, TypeOK
  <1> QED BY <1>1, ZenonT(30) DEF FirstBoundaryDecidesStep

LEMMA WorkerCallFair ==
    ASSUME Inv, WorkerCall
    PROVE  FirstBoundaryDecidesStep
  <1>1. CASE \E w \in Workers, locked \in SUBSET Tasks :
                HeartbeatMany(w, {c \in issued : c[1] = w}, locked)
    BY <1>1, NothingClosed, ZenonT(30) DEF HeartbeatMany
  <1>2. ASSUME NEW c \in issued, HolderCall(c[1], c[2], c[3])
        PROVE  FirstBoundaryDecidesStep
    <2> DEFINE w == c[1]
               t == c[2]
               f == c[3]
    <2>1. t \in Tasks
      BY ZenonT(30) DEF Inv, TypeOK
    <2> HIDE DEF w, t, f
    <2>2. CASE \/ Heartbeat(w, t, f)
               \/ \E n \in WaitNames, span \in WaitSpans \union {0} : ScheduleWait(w, t, f, n, span)
               \/ \E n \in WaitNames, span \in WaitSpans :
                     WaitForSignal(w, t, f, n, span) \/ WaitForHuman(w, t, f, n, span)
      BY <2>2, NothingClosed, ZenonT(30)
         DEF Heartbeat, ScheduleWait, WaitForSignal, WaitForHuman, WaitFor
    <2>3. CASE Complete(w, t, f)
      <3>1. Judged(t, "succeeded")
        BY <2>1, <2>3, RowTimes, SMTT(30)
           DEF Complete, HoldsLease, Judged, PastExpiry, PastDeadline, PastTimeout
      <3> QED BY <2>1, <2>3, <3>1, ClosedFair, ApplyFair, ZenonT(30) DEF Complete
    <2>4. CASE AcknowledgeCancel(w, t, f)
      BY <2>1, <2>4, CanceledJudged, ClosedFair, ApplyFair, ZenonT(30) DEF AcknowledgeCancel
    <2>5. ASSUME NEW delay \in RetryDelays, NEW retry \in BOOLEAN, Fail(w, t, f, retry, delay)
          PROVE  FirstBoundaryDecidesStep
      <3> DEFINE s == IF PastDeadline(t) \/ PastTimeout(t)
                      THEN ExpirySettlement(t, delay, readySeq + 1)
                      ELSE IF runtime[t].attempt < def[t].max /\ retry
                      THEN Retried(t, delay, readySeq + 1, "retry")
                      ELSE ClosedByOwner(t, "failed", "failed")
      <3>1. Active(t) /\ ~PastExpiry(t) /\ Apply(t, s)
        BY <2>5, ZenonT(30) DEF Fail, Owns
      <3>2. CASE PastDeadline(t) \/ PastTimeout(t)
        <4>1. Fair(t, s)
          BY <2>1, <3>1, <3>2, ExpirySettlementFair, ZenonT(30)
        <4> HIDE DEF s
        <4> QED BY <2>1, <3>1, <4>1, ApplyFair, ZenonT(30)
      <3>3. CASE ~(PastDeadline(t) \/ PastTimeout(t))
        <4>1. Judged(t, "retry") /\ Judged(t, "failed")
          BY <2>1, <3>1, <3>3, RowTimes, SMTT(30) DEF Judged, PastExpiry, PastDeadline, PastTimeout
        <4>2. Fair(t, s)
          BY <3>3, <4>1, RetriedFair, ClosedFair, ZenonT(30)
        <4> HIDE DEF s
        <4> QED BY <2>1, <3>1, <4>2, ApplyFair, ZenonT(30)
      <3> QED BY <3>2, <3>3, ZenonT(30)
    <2>6. ASSUME NEW delay \in RetryDelays, NEW late \in 0..Slip, ReleaseOwned(w, t, f, delay, late)
          PROVE  FirstBoundaryDecidesStep
      <3> DEFINE r == [Suspended(t, now + late) EXCEPT
                         !.state = "ready", !.runAt = now + late, !.seq = readySeq + 1]
                 released == [row |-> r, out |-> outcome[t], entries |-> <<>>]
                 s == IF PastDeadline(t) \/ PastTimeout(t)
                      THEN ExpirySettlement(t, delay, readySeq + 1) ELSE released
      <3>1. Active(t) /\ Apply(t, s)
        BY <2>6, ZenonT(30) DEF ReleaseOwned, Owns
      <3>2. released.entries = <<>>
        BY Zenon
      <3> HIDE DEF released
      <3>3. Fair(t, s)
        BY <2>1, <3>1, <3>2, ExpirySettlementFair, ZenonT(30) DEF Fair
      <3> HIDE DEF s
      <3> QED BY <2>1, <3>1, <3>3, ApplyFair, ZenonT(30)
    <2>7. CASE \E delay \in RetryDelays : ExpireOwned(w, t, f, delay)
      BY <2>1, <2>7, ExpirySettlementFair, ApplyFair, ZenonT(30) DEF ExpireOwned, Owns
    <2> QED BY <1>2, <2>2, <2>3, <2>4, <2>5, <2>6, <2>7, SMTT(30) DEF HolderCall, w, t, f
  <1> QED BY <1>1, <1>2, ZenonT(30) DEF WorkerCall

LEMMA TickFair ==
    ASSUME Inv, NEW locked \in SUBSET Tasks, NEW failed,
           NEW delays \in [Tasks -> RetryDelays], Tick(locked, failed, delays)
    PROVE  FirstBoundaryDecidesStep
  <1> SUFFICES ASSUME NEW t \in Tasks
               PROVE  Len(history'[t]) > Len(history[t]) =>
                         Judged(t, history'[t][Len(history'[t])].verdict)
    BY ZenonT(30) DEF FirstBoundaryDecidesStep, Judged
  <1>1. PICK P, R, n :
           /\ t \in P => runtime[t].state = "scheduled" /\ runtime[t].runAt <= now
           /\ R = Recovery(locked) \/ R = NoRecovery
           /\ runtime'[t] = Settlement(t, P, R, delays[t], n).row
           /\ outcome'[t] = Settlement(t, P, R, delays[t], n).out
           /\ history'[t] = history[t] \o Settlement(t, P, R, delays[t], n).entries
    BY TickSettles, ZenonT(30)
  <1>2. /\ t \in R.deadlines =>
              Live(t) /\ (Active(t) => ~PastTimeout(t) \/ runtime[t].deadline <= runtime[t].timeoutAt)
        /\ t \in R.timeouts => Active(t)
        /\ t \in R.leases =>
              PastExpiry(t) /\ (runtime[t].cancel \/ (~PastDeadline(t) /\ ~PastTimeout(t)))
    BY <1>1, RecoveryFacts, ZenonT(30)
  <1>3. Active(t) => Live(t)
    BY ActiveFacts, ZenonT(30)
  <1>4. Fair(t, [Untouched(t) EXCEPT !.row = Promoted(t, n)])
    <2>1. [Untouched(t) EXCEPT !.row = Promoted(t, n)].entries = <<>>
      BY ZenonT(30) DEF Untouched
    <2> QED BY <2>1, ZenonT(30) DEF Fair
  <1>5. Fair(t, Settlement(t, P, R, delays[t], n))
    BY <1>2, <1>3, <1>4, UntouchedFair, DeadlineSettlementFair, TimeoutSettlementFair,
       LeaseSettlementFair, ZenonT(30) DEF Settlement
  <1> QED BY <1>1, <1>5, FairEntry, ZenonT(30)

\* Every attempt is closed for the reason the ledger gives: no interleaving of
\* the worker's timers with the scans of recover_expired_v1 lets a boundary
\* that was not reached, or was reached second, decide.
THEOREM FirstBoundaryDecidesAlways == Spec => FirstBoundaryDecides
  <1>1. Inv /\ [Next]_vars => [FirstBoundaryDecidesStep]_vars
    <2> SUFFICES ASSUME Inv, [Next]_vars
                 PROVE  FirstBoundaryDecidesStep
      BY Zenon
    <2>1. CASE WorkerCall
      BY <2>1, WorkerCallFair, ZenonT(30)
    <2>2. CASE OperatorCall
      <3>1. ASSUME NEW t \in Tasks, Cancel(t)
            PROVE  FirstBoundaryDecidesStep
        BY <3>1, CanceledJudged, ClosedInactiveFair, ApplyFair, NothingClosed, ZenonT(30) DEF Cancel
      <3>2. ASSUME NEW t \in Tasks,
                   \/ \E d \in Definitions, delay \in StartDelays : Enqueue(t, d, delay)
                   \/ RunTaskNow(t)
                   \/ \E n \in WaitNames, payload \in Payloads :
                         SendSignal(t, n, payload) \/ CompleteHumanWait(t, n, payload)
            PROVE  FirstBoundaryDecidesStep
        BY <3>2, NothingClosed, ZenonT(30)
           DEF Enqueue, RunTaskNow, SendSignal, CompleteHumanWait, Deliver
      <3>3. CASE \E p \in PauseCalls : SetQueuePaused(p)
        BY <3>3, NothingClosed, ZenonT(30) DEF SetQueuePaused
      <3> QED BY <2>2, <3>1, <3>2, <3>3, ZenonT(30) DEF OperatorCall
    <2>3. CASE Maintenance
      BY <2>3, TickFair, ZenonT(30) DEF Maintenance
    <2>4. CASE Claim \/ ScanBecomesDue \/ Advance \/ UNCHANGED vars
      BY <2>4, NothingClosed, ZenonT(30) DEF Claim, ClaimOne, ScanBecomesDue, Advance, vars
    <2> QED BY <2>1, <2>2, <2>3, <2>4, ZenonT(30) DEF Next
  <1> QED BY <1>1, Invariance, PTL DEF Spec, FirstBoundaryDecides

\* Steps that leave the wait rows alone, or add one, keep every answer.
LEMMA MoreWaits ==
    ASSUME Inv, NEW t \in Tasks, NEW p, waits' = [waits EXCEPT ![t] = @ \union {p}]
    PROVE  AnswersKeptStep
  BY ZenonT(30) DEF AnswersKeptStep, Inv, TypeOK

\* The first answer a signal or a decision delivers is never replaced or lost,
\* whatever is delivered again and however often the handler replays.
THEOREM AnswersKeptAlways == Spec => AnswersKept
  <1>1. Inv /\ [Next]_vars => [AnswersKeptStep]_vars
    <2> SUFFICES ASSUME Inv, [Next]_vars
                 PROVE  AnswersKeptStep
      BY Zenon
    <2>1. UNCHANGED waits => AnswersKeptStep
      BY Zenon DEF AnswersKeptStep
    <2>2. CASE WorkerCall
      <3>1. CASE \E w \in Workers, locked \in SUBSET Tasks :
                    HeartbeatMany(w, {c \in issued : c[1] = w}, locked)
        BY <2>1, <3>1, ZenonT(30) DEF HeartbeatMany
      <3>2. ASSUME NEW c \in issued, HolderCall(c[1], c[2], c[3])
            PROVE  AnswersKeptStep
        <4> DEFINE w == c[1]
                   t == c[2]
                   f == c[3]
        <4>1. t \in Tasks
          BY ZenonT(30) DEF Inv, TypeOK
        <4>2. HolderCall(w, t, f)
          BY <3>2, ZenonT(30)
        <4> HIDE DEF w, t, f
        <4> QED BY <2>1, <4>1, <4>2, MoreWaits, ZenonT(30)
            DEF HolderCall, Heartbeat, Complete, AcknowledgeCancel, Fail, ReleaseOwned, ExpireOwned,
                ScheduleWait, WaitForSignal, WaitForHuman, WaitFor
      <3> QED BY <2>2, <3>1, <3>2, ZenonT(30) DEF WorkerCall
    <2>3. ASSUME NEW t \in Tasks, NEW kind, NEW n, NEW payload, Deliver(kind, t, n, payload)
          PROVE  AnswersKeptStep
      <3>1. PICK p :
               /\ p.answer = {}
               /\ waits' = [waits EXCEPT ![t] =
                     (@ \ {p}) \union {[p EXCEPT !.answer = {payload}]}]
        BY <2>3, ZenonT(30) DEF Deliver
      <3> QED BY <3>1, ZenonT(30) DEF AnswersKeptStep, Inv, TypeOK
    <2>4. CASE OperatorCall
      BY <2>1, <2>3, <2>4, ZenonT(30) DEF OperatorCall, Enqueue, Cancel, RunTaskNow, SendSignal,
         CompleteHumanWait, SetQueuePaused
    <2>5. CASE Claim
      BY <2>1, <2>5, ZenonT(30) DEF Claim, ClaimOne
    <2>6. CASE Maintenance
      <3>1. PICK locked, failed, delays : Tick(locked, failed, delays)
        BY <2>6, ZenonT(30) DEF Maintenance
      <3>2. UNCHANGED waits
        BY <3>1, SMTT(30) DEF Tick
      <3> QED BY <2>1, <3>2, Zenon
    <2>7. CASE ScanBecomesDue \/ Advance \/ UNCHANGED vars
      BY <2>1, <2>7, ZenonT(30) DEF ScanBecomesDue, Advance, vars
    <2> QED BY <2>2, <2>4, <2>5, <2>6, <2>7, ZenonT(30) DEF Next
  <1> QED BY <1>1, Invariance, PTL DEF Spec, AnswersKept

-----------------------------------------------------------------------------
(* The contract                                                             *)

Now(t) == Standing(def[t], runtime[t], outcome[t])
Later(t) == Standing(def'[t], runtime'[t], outcome'[t])

\* The contract allows the standing a to become b.
Allowed(a, b) == b = a \/ Contract!Moved(a, b)

\* Settlement s of task t is allowed.
Keeps(t, s) == Allowed(Now(t), Standing(def[t], s.row, s.out))

-----------------------------------------------------------------------------
(* Settlements *)

LEMMA StandingOfRow ==
    ASSUME Inv, NEW t \in Tasks, Live(t)
    PROVE  /\ Now(t) = [status |-> IF Active(t) THEN "running" ELSE "waiting",
                        attempt |-> runtime[t].attempt, limit |-> def[t].max,
                        token |-> runtime[t].fence, stopping |-> runtime[t].cancel]
           /\ ~Active(t) => runtime[t].fence = 0 /\ ~runtime[t].cancel
  <1>1. outcome[t].state = "none"
    BY DEF Inv, Home, Live, NoRow
  <1>2. runtime[t].state \in {"scheduled", "ready", "active"}
    BY TypeFacts, ZenonT(30) DEF RowType, Live
  <1>3. ~Active(t) => runtime[t].fence = 0 /\ ~runtime[t].cancel
    BY <1>2, TypeFacts, ZenonT(30) DEF RowOK, Active
  <1> QED BY <1>1, <1>2, <1>3, ZenonT(30) DEF Now, Standing, Active, Live

LEMMA StandingOfNoRow ==
    ASSUME NEW d, NEW o, o.state # "none"
    PROVE  Standing(d, NoRow, o) = [status |-> o.state, attempt |-> o.attempt, limit |-> d.max,
                                    token |-> 0, stopping |-> FALSE]
  BY ZenonT(30) DEF Standing, NoRow

\* An end the contract allows: the row goes, and the outcome has its attempt.
LEMMA EndedKeeps ==
    ASSUME Inv, NEW t \in Tasks, Live(t), NEW s, s.row = NoRow,
           s.out.state \in {"succeeded", "failed", "canceled"},
           s.out.attempt = runtime[t].attempt,
           s.out.state = "succeeded" => Active(t),
           Active(t) => (s.out.state = "canceled" <=> runtime[t].cancel)
    PROVE  Keeps(t, s)
  <1> DEFINE a == Now(t)
             b == Standing(def[t], s.row, s.out)
             v == s.out.state
  <1>1. b = [status |-> v, attempt |-> runtime[t].attempt, limit |-> def[t].max,
             token |-> 0, stopping |-> FALSE]
    BY StandingOfNoRow, ZenonT(30)
  <1>2. a = [status |-> IF Active(t) THEN "running" ELSE "waiting",
             attempt |-> runtime[t].attempt, limit |-> def[t].max,
             token |-> runtime[t].fence, stopping |-> runtime[t].cancel]
    BY StandingOfRow, ZenonT(30)
  <1> HIDE DEF a, b
  <1>3. Contract!Becomes(a, b, v, a.attempt, 0, FALSE)
    BY <1>1, <1>2, ZenonT(30) DEF Contract!Becomes
  <1>4. /\ a.status = IF Active(t) THEN "running" ELSE "waiting"
        /\ a.stopping = runtime[t].cancel
    BY <1>2, ZenonT(30)
  <1>5. Contract!Ended(a, b)
    BY <1>3, <1>4, ZenonT(30) DEF Contract!Ended
  <1> QED BY <1>5, ZenonT(30) DEF Keeps, Allowed, Contract!Moved, a, b

LEMMA ClosedKeeps ==
    ASSUME Inv, NEW t \in Tasks, Live(t), NEW state \in {"succeeded", "failed", "canceled"},
           NEW w, NEW f, NEW verdict,
           state = "succeeded" => Active(t), Active(t) => (state = "canceled" <=> runtime[t].cancel)
    PROVE  Keeps(t, Closed(t, state, w, f, verdict)) /\ Keeps(t, ClosedUnattributed(t, state))
  <1> DEFINE s == Closed(t, state, w, f, verdict)
             u == ClosedUnattributed(t, state)
  <1>1. /\ s.row = NoRow /\ s.out.state = state /\ s.out.attempt = runtime[t].attempt
        /\ u.row = NoRow /\ u.out.state = state /\ u.out.attempt = runtime[t].attempt
    BY Zenon DEF Closed, ClosedUnattributed
  <1> HIDE DEF s, u
  <1>2. Keeps(t, s) /\ Keeps(t, u)
    BY <1>1, EndedKeeps, ZenonT(30)
  <1> QED BY <1>2, ZenonT(30) DEF s, u

LEMMA UntouchedKeeps ==
    ASSUME NEW t
    PROVE  Keeps(t, Untouched(t))
  <1>1. Untouched(t).row = runtime[t] /\ Untouched(t).out = outcome[t]
    BY ZenonT(30) DEF Untouched
  <1> QED BY <1>1, ZenonT(30) DEF Keeps, Allowed, Now

LEMMA RetriedKeeps ==
    ASSUME Inv, NEW t \in Tasks, Active(t), ~runtime[t].cancel, runtime[t].attempt < def[t].max,
           NEW delay, NEW seq, NEW verdict
    PROVE  Keeps(t, Retried(t, delay, seq, verdict))
  <1> DEFINE s == Retried(t, delay, seq, verdict)
             a == Now(t)
             b == Standing(def[t], s.row, s.out)
  <1>1. /\ s.out = outcome[t] /\ s.row.state \in {"ready", "scheduled"}
        /\ s.row.attempt = runtime[t].attempt + 1 /\ s.row.fence = 0 /\ s.row.cancel = FALSE
    BY ZenonT(30) DEF Retried, NoRow
  <1>2. outcome[t].state = "none" /\ Live(t)
    BY ActiveFacts, ZenonT(30) DEF Inv, Home, Live
  <1> HIDE DEF s
  <1>3. b = [status |-> "waiting", attempt |-> runtime[t].attempt + 1, limit |-> def[t].max,
             token |-> 0, stopping |-> FALSE]
    BY <1>1, <1>2, ZenonT(30) DEF Standing
  <1>4. a = [status |-> "running", attempt |-> runtime[t].attempt, limit |-> def[t].max,
             token |-> runtime[t].fence, stopping |-> FALSE]
    BY <1>2, StandingOfRow, TypeFacts, ZenonT(30) DEF RowType
  <1> HIDE DEF a, b
  <1>5. Contract!Retried(a, b)
    BY <1>3, <1>4, ZenonT(30) DEF Contract!Retried, Contract!Running, Contract!Becomes
  <1> QED BY <1>5, ZenonT(30) DEF Keeps, Allowed, Contract!Moved, a, b, s

LEMMA RetriedOrFailedKeeps ==
    ASSUME Inv, NEW t \in Tasks, Active(t), ~runtime[t].cancel, NEW delay, NEW seq, NEW verdict
    PROVE  Keeps(t, RetriedOrFailed(t, delay, seq, verdict))
  <1>1. Live(t)
    BY ActiveFacts, ZenonT(30)
  <1>2. Keeps(t, ClosedByOwner(t, "failed", verdict))
    BY <1>1, ClosedKeeps, ZenonT(30) DEF ClosedByOwner
  <1> QED BY <1>2, RetriedKeeps, ZenonT(30) DEF RetriedOrFailed

LEMMA ClosedInactiveKeeps ==
    ASSUME Inv, NEW t \in Tasks, Live(t), ~Active(t), NEW state \in {"failed", "canceled"}, NEW verdict
    PROVE  Keeps(t, ClosedInactive(t, state, verdict))
  BY ClosedKeeps, ZenonT(30) DEF ClosedInactive

LEMMA DeadlineSettlementKeeps ==
    ASSUME Inv, NEW t \in Tasks, Live(t)
    PROVE  Keeps(t, DeadlineSettlement(t))
  <1>1. runtime[t].cancel => Active(t)
    BY CancelActive, ZenonT(30)
  <1>2. runtime[t].cancel => Keeps(t, ClosedByOwner(t, "canceled", "canceled"))
    BY ClosedKeeps, ZenonT(30) DEF ClosedByOwner
  <1>3. Active(t) /\ ~runtime[t].cancel => Keeps(t, ClosedByOwner(t, "failed", "deadline_exceeded"))
    BY ClosedKeeps, ZenonT(30) DEF ClosedByOwner
  <1>4. ~Active(t) => Keeps(t, ClosedInactive(t, "failed", "deadline_exceeded"))
    BY ClosedInactiveKeeps, ZenonT(30)
  <1> QED BY <1>1, <1>2, <1>3, <1>4, UntouchedKeeps, ZenonT(30) DEF DeadlineSettlement

LEMMA TimeoutSettlementKeeps ==
    ASSUME Inv, NEW t \in Tasks, Active(t), NEW delay, NEW seq
    PROVE  Keeps(t, TimeoutSettlement(t, delay, seq))
  BY ActiveFacts, UntouchedKeeps, DeadlineSettlementKeeps, RetriedOrFailedKeeps, ZenonT(30)
     DEF TimeoutSettlement

LEMMA ExpirySettlementKeeps ==
    ASSUME Inv, NEW t \in Tasks, Active(t), NEW delay, NEW seq
    PROVE  Keeps(t, ExpirySettlement(t, delay, seq))
  BY ActiveFacts, UntouchedKeeps, DeadlineSettlementKeeps, TimeoutSettlementKeeps, ZenonT(30)
     DEF ExpirySettlement

LEMMA LeaseSettlementKeeps ==
    ASSUME Inv, NEW t \in Tasks, Active(t), NEW delay, NEW seq
    PROVE  Keeps(t, LeaseSettlement(t, delay, seq))
  <1>1. runtime[t].cancel => Keeps(t, ClosedByOwner(t, "canceled", "canceled"))
    BY ActiveFacts, ClosedKeeps, ZenonT(30) DEF ClosedByOwner
  <1> QED BY <1>1, RetriedOrFailedKeeps, ZenonT(30) DEF LeaseSettlement

LEMMA PromotedKeeps ==
    ASSUME Inv, NEW t \in Tasks, NEW seq, runtime[t].state = "scheduled"
    PROVE  Keeps(t, [Untouched(t) EXCEPT !.row = Promoted(t, seq)])
  <1> DEFINE s == [Untouched(t) EXCEPT !.row = Promoted(t, seq)]
             p == Promoted(t, seq)
  <1>1. s.row = p /\ s.out = outcome[t]
    BY Zenon DEF Untouched
  <1>2. /\ p.state = "ready" /\ p.attempt = runtime[t].attempt
        /\ p.fence = runtime[t].fence /\ p.cancel = runtime[t].cancel
    BY TypeFacts, SMTT(30) DEF Promoted, RowType
  <1> HIDE DEF s, p
  <1> QED BY <1>1, <1>2, SMTT(30) DEF Keeps, Allowed, Now, Standing, s

LEMMA SettlementKeeps ==
    ASSUME Inv, NEW t \in Tasks, NEW P, NEW R, NEW delay, NEW seq,
           t \in P => runtime[t].state = "scheduled",
           t \in R.deadlines => Live(t),
           t \in R.timeouts => Active(t), t \in R.leases => Active(t)
    PROVE  Keeps(t, Settlement(t, P, R, delay, seq))
  <1>1. Active(t) => Live(t)
    BY ActiveFacts, ZenonT(30)
  <1> QED BY <1>1, DeadlineSettlementKeeps, TimeoutSettlementKeeps, LeaseSettlementKeeps,
             PromotedKeeps, UntouchedKeeps, ZenonT(30) DEF Settlement

-----------------------------------------------------------------------------
(* Calls *)

LEMMA SameAllowed ==
    ASSUME NEW t, runtime'[t] = runtime[t], outcome'[t] = outcome[t], def'[t] = def[t]
    PROVE  Allowed(Now(t), Later(t))
  BY Zenon DEF Allowed, Now, Later

LEMMA ApplyAllowed ==
    ASSUME Inv, NEW u \in Tasks, NEW s, Keeps(u, s), Apply(u, s), def' = def, NEW t \in Tasks
    PROVE  Allowed(Now(t), Later(t))
  <1>1. CASE t = u
    <2>1. runtime'[t] = s.row /\ outcome'[t] = s.out
      BY <1>1, ZenonT(30) DEF Apply, Inv, TypeOK
    <2> QED BY <1>1, <2>1, ZenonT(30) DEF Keeps, Later
  <1>2. CASE t # u
    <2>1. runtime'[t] = runtime[t] /\ outcome'[t] = outcome[t]
      BY <1>2, ZenonT(30) DEF Apply, Inv, TypeOK
    <2> QED BY <2>1, SameAllowed, ZenonT(30)
  <1> QED BY <1>1, <1>2, ZenonT(30)

\* A row that keeps the standing of its task.
Alike(u, r) ==
    /\ r.state # "none" /\ (r.state = "active" <=> Active(u)) /\ r.attempt = runtime[u].attempt
    /\ r.fence = runtime[u].fence /\ r.cancel = runtime[u].cancel

\* A row that gives a task back without using its attempt up.
GivenBack(u, r) ==
    /\ Active(u) /\ ~runtime[u].cancel
    /\ r.state \in {"ready", "scheduled"} /\ r.attempt = runtime[u].attempt
    /\ r.fence = 0 /\ r.cancel = FALSE

LEMMA RowAllowed ==
    ASSUME Inv, NEW u \in Tasks, Live(u), NEW r, Alike(u, r) \/ GivenBack(u, r),
           runtime' = [runtime EXCEPT ![u] = r], outcome'[u] = outcome[u], def'[u] = def[u]
    PROVE  Allowed(Now(u), Later(u))
  <1>1. runtime'[u] = r
    BY ZenonT(30) DEF Inv, TypeOK
  <1>2. outcome[u].state = "none"
    BY SMTT(30) DEF Inv, Home, Live, NoRow
  <1>3. CASE Alike(u, r)
    BY <1>1, <1>2, <1>3, Zenon DEF Alike, Allowed, Now, Later, Standing, Active, Live
  <1>4. CASE GivenBack(u, r)
    <2> DEFINE a == Now(u)
               b == Later(u)
    <2>1. b = [status |-> "waiting", attempt |-> runtime[u].attempt, limit |-> def[u].max,
               token |-> 0, stopping |-> FALSE]
      BY <1>1, <1>2, <1>4, ZenonT(30) DEF GivenBack, Later, Standing
    <2>2. a.status = "running" /\ a.attempt = runtime[u].attempt /\ a.limit = def[u].max
          /\ ~a.stopping
      BY <1>4, StandingOfRow, SMTT(30) DEF GivenBack
    <2> HIDE DEF a, b
    <2>3. Contract!Suspended(a, b)
      BY <2>1, <2>2, ZenonT(30) DEF Contract!Suspended, Contract!Running, Contract!Becomes
    <2> QED BY <2>3, ZenonT(30) DEF Allowed, Contract!Moved, a, b
  <1> QED BY <1>3, <1>4, ZenonT(30)

\* The same, for every task of a call that replaces one row.
LEMMA OneRowAllowed ==
    ASSUME Inv, NEW u \in Tasks, Live(u), NEW r, Alike(u, r) \/ GivenBack(u, r),
           runtime' = [runtime EXCEPT ![u] = r], outcome' = outcome, def' = def, NEW t \in Tasks
    PROVE  Allowed(Now(t), Later(t))
  <1>1. CASE t = u
    BY <1>1, RowAllowed, ZenonT(30)
  <1>2. CASE t # u
    <2>1. runtime'[t] = runtime[t]
      BY <1>2, ZenonT(30) DEF Inv, TypeOK
    <2> QED BY <2>1, SameAllowed, ZenonT(30)
  <1> QED BY <1>1, <1>2, ZenonT(30)

LEMMA CompleteAllowed ==
    ASSUME Inv, NEW w, NEW u \in Tasks, NEW f, Complete(w, u, f) \/ AcknowledgeCancel(w, u, f),
           NEW t \in Tasks
    PROVE  Allowed(Now(t), Later(t))
  <1>1. Active(u) /\ Live(u) /\ def' = def
    BY ActiveFacts, ZenonT(30) DEF Complete, AcknowledgeCancel, HoldsLease, Owns
  <1>2. CASE Complete(w, u, f)
    <2>1. ~runtime[u].cancel /\ Apply(u, Closed(u, "succeeded", w, f, "succeeded"))
      BY <1>2, ZenonT(30) DEF Complete, HoldsLease
    <2>2. Keeps(u, Closed(u, "succeeded", w, f, "succeeded"))
      BY <1>1, <2>1, ClosedKeeps, ZenonT(30)
    <2> QED BY <1>1, <2>1, <2>2, ApplyAllowed, ZenonT(30)
  <1>3. CASE AcknowledgeCancel(w, u, f)
    <2>1. runtime[u].cancel /\ Apply(u, Closed(u, "canceled", w, f, "canceled"))
      BY <1>3, ZenonT(30) DEF AcknowledgeCancel
    <2>2. Keeps(u, Closed(u, "canceled", w, f, "canceled"))
      BY <1>1, <2>1, ClosedKeeps, ZenonT(30)
    <2> QED BY <1>1, <2>1, <2>2, ApplyAllowed, ZenonT(30)
  <1> QED BY <1>2, <1>3, ZenonT(30)

LEMMA FailAllowed ==
    ASSUME Inv, NEW w, NEW u \in Tasks, NEW f, NEW retry, NEW delay,
           Fail(w, u, f, retry, delay) \/ ExpireOwned(w, u, f, delay), NEW t \in Tasks
    PROVE  Allowed(Now(t), Later(t))
  <1>1. Active(u) /\ Live(u) /\ def' = def /\ ~runtime[u].cancel
    BY ActiveFacts, ZenonT(30) DEF Fail, ExpireOwned, Owns
  <1>2. \/ Apply(u, ExpirySettlement(u, delay, readySeq + 1))
        \/ runtime[u].attempt < def[u].max /\ Apply(u, Retried(u, delay, readySeq + 1, "retry"))
        \/ Apply(u, ClosedByOwner(u, "failed", "failed"))
    BY ZenonT(30) DEF Fail, ExpireOwned
  <1>3. Keeps(u, ClosedByOwner(u, "failed", "failed"))
    BY <1>1, ClosedKeeps, ZenonT(30) DEF ClosedByOwner
  <1> QED BY <1>1, <1>2, <1>3, ExpirySettlementKeeps, RetriedKeeps, ApplyAllowed, SMTT(30)

LEMMA ReleaseOwnedAllowed ==
    ASSUME Inv, NEW w, NEW u \in Tasks, NEW f, NEW delay, NEW late,
           ReleaseOwned(w, u, f, delay, late), NEW t \in Tasks
    PROVE  Allowed(Now(t), Later(t))
  <1> DEFINE S == Suspended(u, now + late)
             row == [S EXCEPT !.state = "ready", !.runAt = now + late, !.seq = readySeq + 1]
             s == [row |-> row, out |-> outcome[u], entries |-> <<>>]
  <1>1. Active(u) /\ Live(u) /\ def' = def /\ ~runtime[u].cancel
    BY ActiveFacts, ZenonT(30) DEF ReleaseOwned, Owns
  <1>2. CASE PastDeadline(u) \/ PastTimeout(u)
    BY <1>1, <1>2, ExpirySettlementKeeps, ApplyAllowed, ZenonT(30) DEF ReleaseOwned
  <1>3. CASE Apply(u, s)
    <2>1. /\ row.state = "ready" /\ row.attempt = runtime[u].attempt /\ row.fence = 0
          /\ row.cancel = runtime[u].cancel
      BY TypeFacts, SMTT(30) DEF Suspended, RowType
    <2>2. runtime[u].cancel \in BOOLEAN
      BY TypeFacts, Zenon DEF RowType
    <2> HIDE DEF row
    <2>3. GivenBack(u, row)
      BY <1>1, <2>1, <2>2, Zenon DEF GivenBack
    <2>4. /\ runtime' = [runtime EXCEPT ![u] = row]
          /\ outcome' = [outcome EXCEPT ![u] = outcome[u]]
      BY <1>3, ZenonT(30) DEF Apply
    <2>5. outcome' = outcome
      BY <2>4, ZenonT(30) DEF Inv, TypeOK
    <2> QED BY <1>1, <2>3, <2>4, <2>5, OneRowAllowed, ZenonT(30)
  <1> QED BY <1>2, <1>3, ZenonT(30) DEF ReleaseOwned

LEMMA HeartbeatAllowed ==
    ASSUME Inv, NEW t \in Tasks, NEW u \in Tasks, NEW w, NEW f,
           \/ Heartbeat(w, u, f)
           \/ \E locked \in SUBSET Tasks :
                 HeartbeatMany(w, {c \in issued : c[1] = w}, locked)
    PROVE  Allowed(Now(t), Later(t))
  <1> DEFINE r == [runtime[t] EXCEPT !.expires = now + Lease]
  <1>1. /\ r.state = runtime[t].state /\ r.attempt = runtime[t].attempt
        /\ r.fence = runtime[t].fence /\ r.cancel = runtime[t].cancel
    BY TypeFacts, ZenonT(30) DEF RowType
  <1>2. def' = def /\ outcome' = outcome
    BY ZenonT(30) DEF Heartbeat, HeartbeatMany
  <1>3. runtime'[t] = runtime[t] \/ runtime'[t] = r
    BY ZenonT(30) DEF Heartbeat, HeartbeatMany, Inv, TypeOK
  <1> HIDE DEF r
  <1> QED BY <1>1, <1>2, <1>3, SMTT(30) DEF Allowed, Now, Later, Standing

LEMMA WaitAllowed ==
    ASSUME Inv, NEW w, NEW u \in Tasks, NEW f, NEW n, NEW span, NEW kind,
           ScheduleWait(w, u, f, n, span) \/ WaitFor(kind, w, u, f, n, span), NEW t \in Tasks
    PROVE  Allowed(Now(t), Later(t))
  <1> DEFINE S == Suspended(u, now)
             d == IF S.deadline <= now + span THEN S.deadline ELSE now + span
             timer == [S EXCEPT !.state = "scheduled", !.runAt = now + span, !.wait = n]
             other == [S EXCEPT !.state = "scheduled", !.runAt = Never, !.wait = n, !.deadline = d]
  <1>1. Active(u) /\ Live(u) /\ ~runtime[u].cancel /\ UNCHANGED <<def, outcome>>
    BY ActiveFacts, ZenonT(30) DEF ScheduleWait, WaitFor, HoldsLease, Owns
  <1>2. \/ runtime' = [runtime EXCEPT ![u] = runtime[u]]
        \/ runtime' = [runtime EXCEPT ![u] = timer]
        \/ runtime' = [runtime EXCEPT ![u] = other]
    BY ZenonT(30) DEF ScheduleWait, WaitFor
  <1>3. /\ S \in RowType /\ S.attempt = runtime[u].attempt /\ S.fence = 0 /\ S.cancel = FALSE
    <2>1. S \in RowType
      BY <1>1, ClockFacts, SuspendedFacts, SMTT(30)
    <2>2. S.attempt = runtime[u].attempt /\ S.fence = 0 /\ S.cancel = runtime[u].cancel
          /\ runtime[u].cancel \in BOOLEAN
      BY TypeFacts, ZenonT(30) DEF Suspended, RowType
    <2> QED BY <1>1, <2>1, <2>2, ZenonT(30)
  <1>4. Alike(u, runtime[u])
    BY <1>1, Zenon DEF Alike, Active, Live
  <1>5. GivenBack(u, timer) /\ GivenBack(u, other)
    <2> HIDE DEF S, d
    <2>1. /\ timer.state = "scheduled" /\ timer.attempt = S.attempt /\ timer.fence = S.fence
          /\ timer.cancel = S.cancel
          /\ other.state = "scheduled" /\ other.attempt = S.attempt /\ other.fence = S.fence
          /\ other.cancel = S.cancel
      BY <1>3, Zenon DEF RowType
    <2> HIDE DEF timer, other
    <2> QED BY <1>1, <1>3, <2>1, Zenon DEF GivenBack
  <1> HIDE DEF S, d, timer, other
  <1> QED BY <1>1, <1>2, <1>4, <1>5, OneRowAllowed, Zenon

LEMMA WorkerCallAllowed ==
    ASSUME Inv, WorkerCall, NEW t \in Tasks
    PROVE  Allowed(Now(t), Later(t))
  <1>1. CASE \E w \in Workers, locked \in SUBSET Tasks :
                HeartbeatMany(w, {c \in issued : c[1] = w}, locked)
    BY <1>1, HeartbeatAllowed, ZenonT(30)
  <1>2. ASSUME NEW c \in issued, HolderCall(c[1], c[2], c[3])
        PROVE  Allowed(Now(t), Later(t))
    <2> DEFINE w == c[1]
               u == c[2]
               f == c[3]
    <2>1. u \in Tasks
      BY ZenonT(30) DEF Inv, TypeOK
    <2>2. HolderCall(w, u, f)
      BY <1>2, Zenon
    <2> HIDE DEF w, u, f
    <2>3. CASE Heartbeat(w, u, f)
      BY <2>1, <2>3, HeartbeatAllowed, SMTT(30)
    <2>4. CASE Complete(w, u, f) \/ AcknowledgeCancel(w, u, f)
      BY <2>1, <2>4, CompleteAllowed, ZenonT(30)
    <2>5. CASE \E delay \in RetryDelays :
                  \/ \E retry \in BOOLEAN : Fail(w, u, f, retry, delay)
                  \/ ExpireOwned(w, u, f, delay)
      BY <2>1, <2>5, FailAllowed, ZenonT(30)
    <2>6. CASE \E delay \in RetryDelays, late \in 0..Slip : ReleaseOwned(w, u, f, delay, late)
      BY <2>1, <2>6, ReleaseOwnedAllowed, ZenonT(30)
    <2>7. CASE \E n \in WaitNames, span \in WaitSpans \union {0} : ScheduleWait(w, u, f, n, span)
      BY <2>1, <2>7, WaitAllowed, ZenonT(30)
    <2>8. CASE \E n \in WaitNames, span \in WaitSpans :
                  WaitForSignal(w, u, f, n, span) \/ WaitForHuman(w, u, f, n, span)
      BY <2>1, <2>8, WaitAllowed, ZenonT(30) DEF WaitForSignal, WaitForHuman
    <2> QED BY <2>2, <2>3, <2>4, <2>5, <2>6, <2>7, <2>8, ZenonT(30) DEF HolderCall
  <1> QED BY <1>1, <1>2, Zenon DEF WorkerCall

-----------------------------------------------------------------------------
(* Operators, ticks and claims *)

LEMMA LimitNat ==
    ASSUME Inv, NEW t \in Tasks
    PROVE  def[t].max \in Nat /\ NoDefinition.max = 0
  BY DefinitionFacts, ZenonT(30) DEF NoDefinition

LEMMA UnknownStanding ==
    ASSUME Inv, NEW t \in Tasks, def[t] = NoDefinition
    PROVE  Now(t) = Contract!Unknown
  <1>1. runtime[t] = NoRow /\ outcome[t] = NoOutcome
    BY ZenonT(30) DEF Inv, Home
  <1> QED BY <1>1, SMTT(30) DEF Now, Standing, NoRow, NoOutcome, NoDefinition, Contract!Unknown

LEMMA EnqueueAllowed ==
    ASSUME Inv, NEW u \in Tasks, NEW d \in Definitions, NEW delay, Enqueue(u, d, delay), NEW t \in Tasks
    PROVE  Allowed(Now(t), Later(t))
  <1> DEFINE row == [NoRow EXCEPT
                       !.state = IF delay = 0 THEN "ready" ELSE "scheduled",
                       !.attempt = 1,
                       !.deadline = d.deadline,
                       !.runAt = now + delay,
                       !.seq = IF delay = 0 THEN readySeq + 1 ELSE 0]
             failed == [state |-> "failed", attempt |-> 1, fence |-> 0, at |-> now]
             late == d.deadline <= now
  <1>1. /\ def[u] = NoDefinition /\ def' = [def EXCEPT ![u] = d]
        /\ runtime' = [runtime EXCEPT ![u] = IF late THEN NoRow ELSE row]
        /\ outcome' = [outcome EXCEPT ![u] = IF late THEN failed ELSE outcome[u]]
    BY ZenonT(30) DEF Enqueue
  <1>2. row.state \in {"ready", "scheduled"} /\ row.attempt = 1 /\ row.fence = 0 /\ row.cancel = FALSE
    BY ZenonT(30) DEF NoRow
  <1>3. CASE t # u
    <2>1. runtime'[t] = runtime[t] /\ outcome'[t] = outcome[t] /\ def'[t] = def[t]
      BY <1>1, <1>3, ZenonT(30) DEF Inv, TypeOK
    <2> QED BY <2>1, SameAllowed, ZenonT(30)
  <1>4. CASE t = u
    <2> HIDE DEF row, late
    <2>1. /\ runtime'[t] = IF late THEN NoRow ELSE row
          /\ outcome'[t] = IF late THEN failed ELSE outcome[t]
          /\ def'[t] = d
      BY <1>1, <1>4, SMTT(30) DEF Inv, TypeOK
    <2>2. d.max \in Nat
      BY ConstantsAssumption, ZenonT(30) DEF ConstantsAssumption, DefinitionType
    <2>3. outcome[t].state = "none"
      BY <1>1, <1>4, SMTT(30) DEF Inv, Home, NoOutcome
    <2>4. Later(t) = [status |-> IF late THEN "failed" ELSE "waiting", attempt |-> 1,
                      limit |-> d.max, token |-> 0, stopping |-> FALSE]
      <3>1. CASE late
        <4>1. runtime'[t] = NoRow /\ outcome'[t] = failed
          BY <2>1, <3>1, SMTT(30)
        <4>2. failed.state = "failed" /\ failed.attempt = 1
          BY ZenonT(30)
        <4> HIDE DEF failed
        <4>3. Later(t) = Standing(d, NoRow, failed)
          BY <2>1, <4>1, ZenonT(30) DEF Later
        <4> QED BY <3>1, <4>2, <4>3, StandingOfNoRow, SMTT(30)
      <3>2. CASE ~late
        <4>1. runtime'[t] = row /\ outcome'[t].state = "none"
          BY <2>1, <2>3, <3>2, ZenonT(30)
        <4>2. runtime'[t].state # "none" /\ runtime'[t].state # "active"
              /\ runtime'[t].attempt = 1 /\ runtime'[t].fence = 0 /\ runtime'[t].cancel = FALSE
          BY <1>2, <4>1, ZenonT(30)
        <4> HIDE DEF failed
        <4> QED BY <2>1, <3>2, <4>1, <4>2, ZenonT(30) DEF Later, Standing
      <3> QED BY <3>1, <3>2, ZenonT(30)
    <2>5. Contract!Submitted(Now(t), Later(t))
      <3>1. Now(t) = Contract!Unknown
        BY <1>1, <1>4, UnknownStanding, ZenonT(30)
      <3>2. (IF late THEN "failed" ELSE "waiting") \in {"waiting", "failed"}
        BY ZenonT(30)
      <3> DEFINE v == IF late THEN "failed" ELSE "waiting"
                 b == Later(t)
      <3>3. b = [status |-> v, attempt |-> 1, limit |-> d.max, token |-> 0, stopping |-> FALSE]
        BY <2>4, ZenonT(30)
      <3> HIDE DEF v, b
      <3>4. b \in [status : {"waiting", "failed"}, attempt : {1}, limit : Nat, token : {0},
                   stopping : {FALSE}]
        BY <2>2, <3>2, <3>3, ZenonT(30) DEF v
      <3> QED BY <3>1, <3>4, ZenonT(30) DEF Contract!Submitted, b
    <2> QED BY <2>5, ZenonT(30) DEF Allowed, Contract!Moved
  <1> QED BY <1>3, <1>4, ZenonT(30)

LEMMA CancelAllowed ==
    ASSUME Inv, NEW u \in Tasks, Cancel(u), NEW t \in Tasks
    PROVE  Allowed(Now(t), Later(t))
  <1>1. Live(u) /\ def' = def
    BY ZenonT(30) DEF Cancel
  <1>2. CASE ~Active(u)
    <2>1. Apply(u, ClosedInactive(u, "canceled", "canceled"))
      BY <1>2, ZenonT(30) DEF Cancel
    <2> QED BY <1>1, <1>2, <2>1, ClosedInactiveKeeps, ApplyAllowed, SMTT(30)
  <1>3. CASE Active(u)
    <2> DEFINE r == [runtime[u] EXCEPT !.cancel = TRUE]
    <2>1. ~runtime[u].cancel /\ runtime' = [runtime EXCEPT ![u] = r] /\ outcome' = outcome
      BY <1>3, ZenonT(30) DEF Cancel
    <2>2. /\ r.state = "active" /\ r.attempt = runtime[u].attempt /\ r.fence = runtime[u].fence
          /\ r.cancel = TRUE
      BY <1>3, TypeFacts, ZenonT(30) DEF RowType, Active
    <2> HIDE DEF r
    <2>3. CASE t # u
      <3>1. runtime'[t] = runtime[t]
        BY <2>1, <2>3, ZenonT(30) DEF Inv, TypeOK
      <3> QED BY <1>1, <2>1, <3>1, SameAllowed, ZenonT(30)
    <2>4. CASE t = u
      <3> DEFINE a == Now(t)
                 b == Later(t)
      <3>1. runtime'[t] = r /\ outcome[t].state = "none"
        BY <1>1, <2>1, <2>4, SMTT(30) DEF Inv, TypeOK, Home, Live, NoRow
      <3>2. b = [status |-> "running", attempt |-> runtime[t].attempt, limit |-> def[t].max,
                 token |-> runtime[t].fence, stopping |-> TRUE]
        BY <1>1, <2>1, <2>2, <2>4, <3>1, ZenonT(30) DEF Later, Standing
      <3>3. /\ a.status = "running" /\ a.attempt = runtime[t].attempt /\ a.limit = def[t].max
            /\ a.token = runtime[t].fence /\ ~a.stopping
        BY <1>1, <1>3, <2>1, <2>4, StandingOfRow, SMTT(30)
      <3> HIDE DEF a, b
      <3>4. Contract!AskedToStop(a, b)
        BY <3>2, <3>3, ZenonT(30) DEF Contract!AskedToStop, Contract!Running, Contract!Becomes
      <3> QED BY <3>4, ZenonT(30) DEF Allowed, Contract!Moved, a, b
    <2> QED BY <2>3, <2>4, ZenonT(30)
  <1> QED BY <1>2, <1>3, ZenonT(30)

\* run_task_now_v1 and the delivery of a signal or a decision.
LEMMA ReadyAllowed ==
    ASSUME Inv, NEW u \in Tasks, NEW n, NEW payload, NEW t \in Tasks,
           RunTaskNow(u) \/ SendSignal(u, n, payload) \/ CompleteHumanWait(u, n, payload)
    PROVE  Allowed(Now(t), Later(t))
  <1> DEFINE r == [runtime[u] EXCEPT !.state = "ready", !.runAt = now, !.seq = readySeq + 1]
             q == Resumed(u)
  <1>1. /\ runtime[u].state = "scheduled" /\ def' = def /\ outcome' = outcome
        /\ runtime' = [runtime EXCEPT ![u] = r] \/ runtime' = [runtime EXCEPT ![u] = q]
    BY ZenonT(30) DEF RunTaskNow, SendSignal, CompleteHumanWait, Deliver
  <1>2. /\ r.state = "ready" /\ r.attempt = runtime[u].attempt /\ r.fence = runtime[u].fence
        /\ r.cancel = runtime[u].cancel
        /\ q.state = "ready" /\ q.attempt = runtime[u].attempt /\ q.fence = runtime[u].fence
        /\ q.cancel = runtime[u].cancel
    BY TypeFacts, SMTT(30) DEF RowType, Resumed
  <1> HIDE DEF r, q
  <1>3. Alike(u, r) /\ Alike(u, q) /\ Live(u)
    BY <1>1, <1>2, Zenon DEF Alike, Active, Live
  <1> QED BY <1>1, <1>3, OneRowAllowed, ZenonT(30)

LEMMA OperatorCallAllowed ==
    ASSUME Inv, OperatorCall, NEW t \in Tasks
    PROVE  Allowed(Now(t), Later(t))
  <1>1. CASE \E u \in Tasks, d \in Definitions, delay \in StartDelays : Enqueue(u, d, delay)
    BY <1>1, EnqueueAllowed, ZenonT(30)
  <1>2. CASE \E u \in Tasks : Cancel(u)
    BY <1>2, CancelAllowed, ZenonT(30)
  <1>3. CASE \E u \in Tasks : RunTaskNow(u)
    BY <1>3, ReadyAllowed, ZenonT(30)
  <1>4. CASE \E u \in Tasks, n \in WaitNames, payload \in Payloads :
                SendSignal(u, n, payload) \/ CompleteHumanWait(u, n, payload)
    BY <1>4, ReadyAllowed, ZenonT(30)
  <1>5. CASE \E p \in PauseCalls : SetQueuePaused(p)
    BY <1>5, SameAllowed, ZenonT(30) DEF SetQueuePaused
  <1> QED BY <1>1, <1>2, <1>3, <1>4, <1>5, ZenonT(30) DEF OperatorCall

LEMMA TickAllowed ==
    ASSUME Inv, Maintenance, NEW t \in Tasks
    PROVE  Allowed(Now(t), Later(t))
  <1>1. PICK locked \in SUBSET Tasks, failed \in {"none", "promote", "recover"},
             delays \in [Tasks -> RetryDelays] : Tick(locked, failed, delays)
    BY ZenonT(30) DEF Maintenance
  <1>2. PICK P, R, n :
           /\ t \in P => runtime[t].state = "scheduled" /\ runtime[t].runAt <= now
           /\ R = Recovery(locked) \/ R = NoRecovery
           /\ runtime'[t] = Settlement(t, P, R, delays[t], n).row
           /\ outcome'[t] = Settlement(t, P, R, delays[t], n).out
           /\ history'[t] = history[t] \o Settlement(t, P, R, delays[t], n).entries
    BY <1>1, TickSettles, ZenonT(30)
  <1>3. def' = def
    BY <1>1, ZenonT(30) DEF Tick
  <1>4. /\ t \in R.deadlines => Live(t) /\ PastDeadline(t)
        /\ t \in R.timeouts => Active(t) /\ (runtime[t].cancel => PastDeadline(t))
        /\ t \in R.leases => Active(t)
    BY <1>2, RecoveryFacts, ZenonT(30)
  <1>5. Keeps(t, Settlement(t, P, R, delays[t], n))
    BY <1>2, <1>4, SettlementKeeps, ZenonT(30)
  <1> QED BY <1>2, <1>3, <1>5, ZenonT(30) DEF Keeps, Later

\* Every step but a claim.
LEMMA StepAllowed ==
    ASSUME Inv, [Next]_vars, ~Claim, NEW t \in Tasks
    PROVE  Allowed(Now(t), Later(t))
  <1>1. CASE ScanBecomesDue \/ Advance \/ UNCHANGED vars
    BY <1>1, SameAllowed, ZenonT(30) DEF ScanBecomesDue, Advance, vars
  <1> QED BY <1>1, WorkerCallAllowed, OperatorCallAllowed, TickAllowed, ZenonT(30) DEF Next

\* claim_one_v1 is the Start of the contract.
LEMMA ClaimStarts ==
    ASSUME Inv, Claim
    PROVE  \E u \in Tasks : /\ Contract!Started(Now(u), Later(u), fenceSeq + 1)
                            /\ \A t \in Tasks : t # u => Later(t) = Now(t)
                            /\ fenceSeq' = fenceSeq + 1
  <1>1. PICK w \in Workers, u \in Tasks :
           /\ Claimable(u) /\ runtime' = [runtime EXCEPT ![u] = Granted(u, w)]
           /\ fenceSeq' = fenceSeq + 1 /\ outcome' = outcome /\ def' = def
    BY ZenonT(30) DEF Claim, ClaimOne
  <1> DEFINE g == Granted(u, w)
             a == Now(u)
             b == Later(u)
  <1>2. /\ g.state = "active" /\ g.fence = fenceSeq + 1
        /\ g.attempt = runtime[u].attempt /\ g.cancel = runtime[u].cancel
    BY TypeFacts, SMTT(30) DEF Granted, RowType
  <1>3. runtime'[u] = g /\ \A t \in Tasks : t # u => runtime'[t] = runtime[t]
    BY <1>1, Zenon DEF Inv, TypeOK
  <1>4. Live(u) /\ ~Active(u) /\ ~runtime[u].cancel /\ runtime[u].cancel \in BOOLEAN
    BY <1>1, CancelActive, TypeFacts, ZenonT(30) DEF Claimable, Live, Active, RowType
  <1>5. outcome[u].state = "none"
    BY <1>4, SMTT(30) DEF Inv, Home, Live, NoRow
  <1> HIDE DEF g
  <1>6. b = [status |-> "running", attempt |-> runtime[u].attempt, limit |-> def[u].max,
             token |-> fenceSeq + 1, stopping |-> FALSE]
    BY <1>1, <1>2, <1>3, <1>4, <1>5, ZenonT(30) DEF Later, Standing
  <1>7. a.status = "waiting" /\ a.attempt = runtime[u].attempt /\ a.limit = def[u].max
    BY <1>4, StandingOfRow, SMTT(30)
  <1> HIDE DEF a, b
  <1>8. Contract!Started(a, b, fenceSeq + 1)
    BY <1>6, <1>7, ZenonT(30) DEF Contract!Started, Contract!Becomes
  <1>9. \A t \in Tasks : t # u => Later(t) = Now(t)
    BY <1>1, <1>3, ZenonT(30) DEF Later, Now
  <1>10. Contract!Started(Now(u), Later(u), fenceSeq + 1)
    BY <1>8, Zenon DEF a, b
  <1> QED BY <1>1, <1>9, <1>10, ZenonT(30)

-----------------------------------------------------------------------------

LEMMA StandingsNow ==
    ASSUME NEW t \in Tasks
    PROVE  Standings[t] = Now(t) /\ Standings'[t] = Later(t)
  BY ZenonT(30) DEF Standings, Now, Later

\* The SQL functions that move a task keep the contract, for any number of
\* tasks and workers, any definitions, and any interleaving of their calls.
THEOREM ContractKeptAlways == Spec => ContractKept
  <1>1. Init => Contract!Init
    <2> SUFFICES ASSUME Init PROVE Contract!Init
      BY ZenonT(30)
    <2>1. \A t \in Tasks : Standing(def[t], runtime[t], outcome[t]) = Contract!Unknown
      BY ZenonT(30) DEF Init, Standing, NoRow, NoOutcome, NoDefinition, Contract!Unknown
    <2>2. Standings = [t \in Tasks |-> Contract!Unknown]
      BY <2>1, ZenonT(30) DEF Standings
    <2>3. fenceSeq = 0
      BY ZenonT(30) DEF Init
    <2> QED BY <2>2, <2>3, ZenonT(30) DEF Contract!Init
  <1>2. Inv /\ [Next]_vars => Contract!Next
    <2> SUFFICES ASSUME Inv, [Next]_vars PROVE Contract!Next
      BY ZenonT(30)
    <2>1. CASE Claim
      <3>1. PICK u \in Tasks : /\ Contract!Started(Now(u), Later(u), fenceSeq + 1)
                               /\ \A t \in Tasks : t # u => Later(t) = Now(t)
                               /\ fenceSeq' = fenceSeq + 1
        BY <2>1, ClaimStarts, ZenonT(30)
      <3>2. /\ Contract!Started(Standings[u], Standings'[u], fenceSeq')
            /\ \A t \in Tasks : t # u => Standings'[t] = Standings[t]
        BY <3>1, StandingsNow, ZenonT(30)
      <3> QED BY <3>1, <3>2, ZenonT(30) DEF Contract!Next, Contract!Start
    <2>2. CASE ~Claim
      <3>1. fenceSeq' = fenceSeq
        BY <2>2, IssuedStep, ZenonT(30)
      <3>2. \A t \in Tasks : Allowed(Now(t), Later(t))
        BY <2>2, StepAllowed, ZenonT(30)
      <3>3. \A t \in Tasks :
               Standings'[t] = Standings[t] \/ Contract!Moved(Standings[t], Standings'[t])
        BY <3>2, StandingsNow, ZenonT(30) DEF Allowed
      <3> QED BY <3>1, <3>3, ZenonT(30) DEF Contract!Next, Contract!Move
    <2> QED BY <2>1, <2>2, ZenonT(30)
  <1> QED BY <1>1, <1>2, Invariance, PTL DEF Spec, ContractKept, Contract!Spec
=============================================================================
