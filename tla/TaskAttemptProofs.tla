------------------------- MODULE TaskAttemptProofs -------------------------
(***************************************************************************)
(* Theorems about one activation, for every lease, deadline, timeout and   *)
(* lead of the local timer.  The invariant Inv is inductive: the lemmas    *)
(* follow the private steps of a TaskAttempt, the row, the requests and    *)
(* executeTask, and the theorems read the run properties off it.           *)
(***************************************************************************)
EXTENDS TaskAttemptInvariant, TLAPS

-----------------------------------------------------------------------------
(* The private steps of a TaskAttempt *)

LEMMA SubmitSound ==
    ASSUME NEW b, NEW o \in Outcomes, Sound(b, row, left),
           o = "suspended" => row.verdict = "suspended",
           o = "deadline_exceeded" => row.verdict = "deadline_exceeded",
           o = "attempt_timeout" => row.verdict = "timeout_exceeded"
    PROVE  Sound(Submit(b, o), row, left) /\ (Closed(b) => Closed(Submit(b, o)))
BY DEF Sound, Submit, Closed, AttemptType, Outcomes

LEMMA AbortSound ==
    ASSUME NEW b, NEW r \in Reasons, r # "none", Sound(b, row, left),
           r = "deadline" => left.deadline = 0,
           r = "timeout" => left.timeout = 0
    PROVE  Sound(Abort(b, r), row, left) /\ Closed(Abort(b, r))
BY DEF Sound, Abort, Closed, AttemptType, Reasons

LEMMA StopSound ==
    ASSUME Inv, NEW b, Sound(b, row, left)
    PROVE  Sound(Stop(b), row, left)
<1>1. Off \in Times /\ Off <= 0 /\ Off <= row.lease
  BY AttemptAssumption DEF Inv, RowType, Times
<1> QED  BY <1>1, Zenon DEF Sound, Stop, AttemptType

\* A lost lease and a requested cancellation stop the attempt and abort it.
LEMMA LoseSound ==
    ASSUME Inv, NEW b, Sound(b, row, left)
    PROVE  /\ Sound(LoseLease(b), row, left) /\ Closed(LoseLease(b))
           /\ Sound(EndLeaseWindow(b), row, left) /\ Closed(EndLeaseWindow(b))
           /\ EndLeaseWindow(b).reason # "none"
           /\ Sound(MarkCancellationRequested(b), row, left)
           /\ Closed(MarkCancellationRequested(b))
<1>1. \A o \in {"lease_expired", "cancelled"} :
         Sound(Submit(b, o), row, left)
  BY SubmitSound, Zenon DEF Outcomes
<1>2. \A o \in {"lease_expired", "cancelled"} :
         Sound(Stop(Submit(b, o)), row, left)
  BY <1>1, StopSound, Zenon
<1>3. \A o \in {"lease_expired", "cancelled"}, r \in {"lost", "cancel"} :
         /\ Sound(Abort(Stop(Submit(b, o)), r), row, left)
         /\ Closed(Abort(Stop(Submit(b, o)), r))
  BY <1>2, AbortSound, Zenon DEF Reasons
<1>4. EndLeaseWindow(b).reason # "none"
  BY <1>2, Zenon DEF EndLeaseWindow, Abort, Sound, AttemptType
<1> QED  BY <1>3, <1>4, Zenon DEF LoseLease, EndLeaseWindow, MarkCancellationRequested

LEMMA RenewSound ==
    ASSUME Inv, NEW b, Sound(b, row, left), NEW g \in 0..Lease,
           Reported("accepted", g, row, left), b.stopped => Closed(b)
    PROVE  Sound(RenewLease(b, g), row, left) /\ Closed(RenewLease(b, g))
<1>1. CASE ~b.stopped /\ b.window # 0 /\ g < Lease
  <2>1. Lease - g \in Nat /\ Lease - g > 0 /\ Lease - g # Off
    BY <1>1, AttemptAssumption
  <2>2. /\ Mine => Lease - g <= row.lease
        /\ row.verdict # "lapsed"
    BY <1>1, AttemptAssumption DEF Reported, Mine
  <2>3. RenewLease(b, g) = [b EXCEPT !.window = Lease - g]
    BY <1>1, AttemptAssumption DEF RenewLease
  <2>4. RenewLease(b, g) \in AttemptType /\ RenewLease(b, g).window = Lease - g
    BY <2>1, <2>3, Zenon DEF Sound, AttemptType, Times
  <2> QED  BY <2>1, <2>2, <2>3, <2>4, Zenon DEF Sound, AttemptType, Closed, Mine
<1>2. CASE b.stopped
  BY <1>2, Zenon DEF RenewLease
<1>3. CASE ~b.stopped /\ (b.window = 0 \/ g >= Lease)
  BY <1>3, LoseSound, Zenon DEF RenewLease
<1> QED  BY <1>1, <1>2, <1>3, AttemptAssumption

\* What passes requireLease has an open window.
LEMMA CheckSound ==
    ASSUME Inv, NEW b, Sound(b, row, left)
    PROVE  /\ Sound(CheckWindow(b), row, left)
           /\ Closed(b) => Closed(CheckWindow(b))
           /\ Closed(b) /\ CheckWindow(b).reason = "none" => row.verdict # "lapsed"
<1>1. CASE b.window = 0
  BY <1>1, LoseSound, Zenon DEF CheckWindow
<1>2. CASE b.window # 0
  <2>1. CheckWindow(b) = b
    BY <1>2, Zenon DEF CheckWindow
  <2>2. b.window \in Times
    BY Zenon DEF Sound, AttemptType
  <2>3. b.window > 0 \/ b.window = Off
    BY <1>2, <2>2 DEF Times
  <2>4. row.verdict = "lapsed" => b.window <= 0
    BY Zenon DEF Sound
  <2> QED  BY <2>1, <2>2, <2>3, <2>4 DEF Closed, Times
<1> QED  BY <1>1, <1>2, Zenon

\* Stopped and aborted for a reason that is confirmed.
LEMMA AbortedSound ==
    ASSUME Inv, NEW b, Sound(b, row, left), NEW r \in Reasons, r # "none",
           r = "deadline" => left.deadline = 0,
           r = "timeout" => left.timeout = 0
    PROVE  Sound(Abort(Stop(b), r), row, left) /\ Closed(Abort(Stop(b), r))
BY StopSound, AbortSound, Zenon

\* The expiry answer and what follows it.
LEMMA ExpiredSound ==
    ASSUME Inv, NEW b, Sound(b, row, left), NEW answer, NEW confirm \in BOOLEAN,
           Told(answer, row.verdict),
           answer = "deadline_exceeded" => left.deadline = 0,
           answer = "timeout_exceeded" => left.timeout = 0
    PROVE  /\ Sound(Expired(b, answer, confirm), row, left)
           /\ Closed(b) => Closed(Expired(b, answer, confirm))
<1> DEFINE told == CASE answer = "cancel_requested" -> MarkCancellationRequested(b)
                     [] answer = "deadline_exceeded" -> Submit(b, "deadline_exceeded")
                     [] answer = "timeout_exceeded" -> Submit(b, "attempt_timeout")
                     [] answer = "stale" -> Submit(b, "lease_expired")
                     [] OTHER -> b
           confirmed ==
             CASE confirm /\ answer = "deadline_exceeded" -> Abort(Stop(told), "deadline")
               [] confirm /\ answer = "timeout_exceeded" -> Abort(Stop(told), "timeout")
               [] confirm /\ answer = "stale" -> Abort(Stop(told), "lost")
               [] OTHER -> told
<1>1. Expired(b, answer, confirm) = IF b.losing THEN LoseLease(confirmed) ELSE confirmed
  BY Zenon DEF Expired
<1>2. Sound(told, row, left) /\ (Closed(b) => Closed(told))
  <2>1. CASE answer = "cancel_requested"
    BY <2>1, LoseSound, Zenon
  <2>2. CASE answer = "deadline_exceeded"
    BY <2>2, SubmitSound, Zenon DEF Told, Outcomes
  <2>3. CASE answer = "timeout_exceeded"
    BY <2>3, SubmitSound, Zenon DEF Told, Outcomes
  <2>4. CASE answer = "stale"
    BY <2>4, SubmitSound, Zenon DEF Outcomes
  <2>5. CASE answer \notin {"cancel_requested", "deadline_exceeded", "timeout_exceeded", "stale"}
    <3>1. told = b
      BY <2>5, Zenon
    <3> QED  BY <3>1, Zenon
  <2> QED  BY <2>1, <2>2, <2>3, <2>4, <2>5, Zenon
<1> HIDE DEF told
<1>3. Sound(confirmed, row, left) /\ (Closed(b) => Closed(confirmed))
  <2>1. CASE ~confirm
    <3>1. confirmed = told
      BY <2>1, Zenon
    <3> QED  BY <1>2, <3>1, Zenon
  <2>2. CASE confirm /\ answer = "deadline_exceeded"
    BY <1>2, <2>2, AbortedSound, Zenon DEF Reasons
  <2>3. CASE confirm /\ answer = "timeout_exceeded"
    BY <1>2, <2>3, AbortedSound, Zenon DEF Reasons
  <2>4. CASE confirm /\ answer = "stale"
    BY <1>2, <2>4, AbortedSound, Zenon DEF Reasons
  <2>5. CASE confirm /\ answer \notin {"deadline_exceeded", "timeout_exceeded", "stale"}
    BY <1>2, <2>5, Zenon
  <2> QED  BY <2>1, <2>2, <2>3, <2>4, <2>5, Zenon
<1> HIDE DEF confirmed
<1> QED  BY <1>1, <1>3, LoseSound, Zenon

\* The answer of a heartbeat round.
LEMMA RefreshSound ==
    ASSUME Inv, ~a.stopped, beat # "claim"
    PROVE  /\ Sound(RefreshOwnership(a, beat, age), row, left)
           /\ Closed(a) => Closed(RefreshOwnership(a, beat, age))
<1>0. Sound(a, row, left) /\ age \in 0..Lease /\ Reported(beat, age, row, left)
  BY Zenon DEF Inv
<1>1. CASE beat = "accepted"
  BY <1>0, <1>1, RenewSound, Zenon DEF RefreshOwnership
<1>2. CASE beat = "cancel_requested"
  BY <1>0, <1>2, LoseSound, Zenon DEF RefreshOwnership
<1>3. CASE beat \in Boundaries
  <2>1. Sound([a EXCEPT !.reported = TRUE], row, left)
    BY <1>0, ZenonT(30) DEF Sound, AttemptType
  <2>2. /\ beat = "deadline_exceeded" => left.deadline = 0
        /\ beat = "timeout_exceeded" => left.timeout = 0
    BY <1>0, Zenon DEF Reported
  <2> QED  BY <1>3, <2>1, <2>2, AbortedSound, Zenon DEF RefreshOwnership, Boundaries, Reasons
<1>4. CASE beat = "stale"
  <2>1. /\ Sound([a EXCEPT !.stopped = TRUE, !.losing = TRUE], row, left)
        /\ Closed(a) => Closed([a EXCEPT !.stopped = TRUE, !.losing = TRUE])
    BY <1>0, ZenonT(30) DEF Sound, AttemptType, Closed
  <2>2. ask.st \in {"none", "done", "failed"} \/ AskPending
    BY Zenon DEF Inv, Asked, AskType, AskPending
  <2>3. CASE AskPending
    BY <1>4, <2>1, <2>3, Zenon DEF RefreshOwnership, AskPending
  <2>4. CASE ask.st \in {"none", "done", "failed"}
    BY <1>0, <1>4, <2>4, LoseSound, ZenonT(30) DEF RefreshOwnership, AskPending
  <2> QED  BY <2>2, <2>3, <2>4, Zenon
<1>5. CASE beat \notin Boundaries \union {"accepted", "cancel_requested", "stale"}
  BY <1>0, <1>5, Zenon DEF RefreshOwnership, Boundaries
<1> QED  BY <1>1, <1>2, <1>3, <1>4, <1>5, Zenon

-----------------------------------------------------------------------------
(* The row *)

\* Row r may follow the row in a step of PostgreSQL: a verdict stays, a lease
\* that is kept is not shortened, and only one that has run out lapses.
Follows(r) ==
    /\ r \in RowType /\ (r.state = "mine" <=> r.verdict = "none")
    /\ row.verdict # "none" => r.verdict = row.verdict
    /\ r.state = "mine" => Mine /\ row.lease <= r.lease
    /\ r.verdict = "lapsed" => row.verdict = "lapsed" \/ (Mine /\ row.lease = 0)

LEMMA SameFollows ==
    ASSUME Inv
    PROVE  Follows(row)
BY AttemptAssumption DEF Inv, Follows, Mine, RowType

LEMMA EndedFollows ==
    ASSUME Inv, Mine, NEW answer, NEW verdict \in RowVerdicts \ {"none"},
           verdict = "lapsed" => row.lease = 0,
           NEW states \in SUBSET {"open", "closed"}, NEW e \in Ended(answer, verdict, states)
    PROVE  Follows(e.row) /\ e.answer = answer /\ e.row.verdict = verdict
<1> DEFINE R(s) == [state |-> s, lease |-> 0, cancel |-> FALSE, verdict |-> verdict]
<1>0. PICK s \in states : e = [answer |-> answer, row |-> R(s)]
  BY Zenon DEF Ended
<1>1. e.answer = answer /\ e.row = R(s)
  BY <1>0, Zenon
<1>2. s \in {"open", "closed"} /\ 0 \in 0..Lease /\ row.verdict = "none"
  BY AttemptAssumption DEF Inv
<1>3. e.row \in RowType
  BY <1>1, <1>2 DEF RowType
<1> QED  BY <1>1, <1>2, <1>3 DEF Follows

LEMMA RenewedFollows ==
    ASSUME Inv
    PROVE  Follows(Renewed) /\ Renewed.verdict = row.verdict
<1>1. CASE HoldsLease
  <2>1. /\ Renewed \in RowType /\ Renewed.state = row.state /\ Renewed.lease = Lease
        /\ Renewed.verdict = row.verdict
    BY <1>1, AttemptAssumption DEF Inv, Renewed, RowType
  <2>2. row.verdict = "none" /\ Mine /\ row.lease <= Lease
    BY <1>1, AttemptAssumption DEF Inv, HoldsLease, Valid, RowType
  <2> QED  BY <2>1, <2>2, Zenon DEF Inv, Follows, Mine
<1>2. CASE ~HoldsLease
  BY <1>2, SameFollows, Zenon DEF Renewed
<1> QED  BY <1>1, <1>2, Zenon

LEMMA ExpireFollows ==
    ASSUME Inv, NEW e \in ExpireEffects
    PROVE  /\ Follows(e.row) /\ e.answer \in ExpireAnswers /\ Told(e.answer, e.row.verdict)
           /\ e.answer = "deadline_exceeded" => left.deadline = 0
           /\ e.answer = "timeout_exceeded" => left.timeout = 0
           /\ PastDeadline \/ PastTimeout => e.answer # "not_due"
<1>0. \A x : e \in Same(x) => e.row = row /\ e.answer = x
  BY DEF Same
<1>1. CASE ~Mine \/ row.cancel
  BY <1>0, <1>1, SameFollows DEF ExpireEffects, ExpireAnswers, Told
<1>2. CASE Mine /\ ~row.cancel /\ DeadlineDecides
  <2>1. e \in Ended("deadline_exceeded", "deadline_exceeded", {"closed"})
    BY <1>2, Zenon DEF ExpireEffects
  <2> QED  BY <1>2, <2>1, EndedFollows
           DEF RowVerdicts, ExpireAnswers, Told, DeadlineDecides, PastDeadline
<1>3. CASE Mine /\ ~row.cancel /\ ~DeadlineDecides /\ PastTimeout
  <2>1. e \in Ended("timeout_exceeded", "timeout_exceeded", {"open", "closed"})
    BY <1>3, Zenon DEF ExpireEffects
  <2> QED  BY <1>3, <2>1, EndedFollows DEF RowVerdicts, ExpireAnswers, Told, PastTimeout
<1>4. CASE Mine /\ ~row.cancel /\ ~DeadlineDecides /\ ~PastTimeout
  BY <1>0, <1>4, SameFollows DEF ExpireEffects, ExpireAnswers, Told, DeadlineDecides
<1> QED  BY <1>1, <1>2, <1>3, <1>4, Zenon

\* The statements of executeTask.
LEMMA EffectsFollow ==
    ASSUME Inv, call.answer = "sent", NEW e \in Effects(call.op)
    PROVE  /\ Follows(e.row) /\ [call EXCEPT !.answer = e.answer] \in CallType
           /\ Answers(call.op, e.answer, e.row.verdict)
<1>0. \A x : e \in Same(x) => e.row = row /\ e.answer = x
  BY DEF Same
<1>1. /\ call.op \in {"complete", "ack", "expire", "fail", "release", "sleep", "signal"}
      /\ call \in CallType
  BY Zenon DEF Inv, Answers, CallType
<1> SUFFICES /\ Follows(e.row) /\ e.answer # "none"
             /\ Answers(call.op, e.answer, e.row.verdict)
  BY <1>1, Zenon DEF CallType, Answers, ExpireAnswers, Boundaries
<1>2. CASE call.op = "complete"
  <2>1. CASE HoldsLease
    <3>1. e \in Ended("accepted", "succeeded", {"closed"}) /\ Mine
      BY <1>2, <2>1, Zenon DEF Effects, CompleteEffects, HoldsLease, Valid
    <3> QED  BY <1>2, <3>1, EndedFollows DEF RowVerdicts, Answers, Told
  <2>2. CASE ~HoldsLease
    <3>1. e \in Same("refused")
      BY <1>2, <2>2, Zenon DEF Effects, CompleteEffects
    <3> QED  BY <1>0, <1>2, <3>1, SameFollows DEF Answers, Told
  <2> QED  BY <2>1, <2>2, Zenon
<1>3. CASE call.op = "ack"
  <2>1. CASE Valid /\ row.cancel
    <3>1. e \in Ended("accepted", "canceled", {"closed"}) /\ Mine
      BY <1>3, <2>1, Zenon DEF Effects, AcknowledgeEffects, Valid
    <3> QED  BY <1>3, <3>1, EndedFollows DEF RowVerdicts, Answers, Told
  <2>2. CASE ~(Valid /\ row.cancel)
    <3>1. e \in Same("refused")
      BY <1>3, <2>2, Zenon DEF Effects, AcknowledgeEffects
    <3> QED  BY <1>0, <1>3, <3>1, SameFollows DEF Answers, Told
  <2> QED  BY <2>1, <2>2, Zenon
<1>4. CASE call.op \in {"sleep", "signal"}
  <2>1. CASE HoldsLease /\ e \in Ended("scheduled", "suspended", {"open"})
    <3>1. Mine
      BY <2>1, Zenon DEF HoldsLease, Valid
    <3> QED  BY <1>4, <2>1, <3>1, EndedFollows DEF RowVerdicts, Answers, Told
  <2>2. CASE e \in Same("elapsed") \union Same("refused")
    BY <1>0, <1>4, <2>2, SameFollows DEF Answers, Told
  <2> QED  BY <1>4, <2>1, <2>2, Zenon DEF Effects, SuspendEffects
<1>5. CASE call.op = "expire"
  <2>1. e \in ExpireEffects
    BY <1>5, Zenon DEF Effects
  <2> QED  BY <1>5, <2>1, ExpireFollows, Zenon DEF Answers, ExpireAnswers, Told
<1>6. CASE call.op \in {"fail", "release"}
  <2>1. CASE ~Valid \/ row.cancel
    <3>1. e \in Same("stale") \union Same("cancel_requested")
      BY <1>6, <2>1, Zenon DEF Effects, FailEffects, ReleaseEffects, Guarded
    <3> QED  BY <1>0, <1>6, <3>1, SameFollows DEF Answers, Told
  <2>2. CASE Valid /\ ~row.cancel /\ (PastDeadline \/ PastTimeout)
    <3>1. e \in ExpireEffects
      BY <1>6, <2>2, Zenon DEF Effects, FailEffects, ReleaseEffects, Guarded
    <3> QED  BY <1>6, <2>2, <3>1, ExpireFollows, Zenon DEF Answers, ExpireAnswers, Boundaries, Told
  <2>3. CASE Valid /\ ~row.cancel /\ ~(PastDeadline \/ PastTimeout)
    <3>1. Mine
      BY <2>3, Zenon DEF Valid
    <3>2. \/ call.op = "fail" /\ e \in Ended("retry", "retry", {"open"})
          \/ call.op = "fail" /\ e \in Ended("failed", "failed", {"closed"})
          \/ call.op = "release" /\ e \in Ended("released", "released", {"open"})
      BY <1>6, <2>3, Zenon DEF Effects, FailEffects, ReleaseEffects, Guarded
    <3> QED  BY <3>1, <3>2, EndedFollows DEF RowVerdicts, Answers, Told
  <2> QED  BY <2>1, <2>2, <2>3, Zenon
<1> QED  BY <1>1, <1>2, <1>3, <1>4, <1>5, <1>6, Zenon

\* What the worker knows stays true of a row that follows.
LEMMA KnownStays ==
    ASSUME Inv, NEW r, Follows(r)
    PROVE  /\ Sound(a, r, left) /\ Reported(beat, age, r, left) /\ Asked(ask, r, left)
           /\ Answers(call.op, call.answer, r.verdict) /\ Recorded(recorded, r.verdict)
<1>1. Sound(a, r, left)
  <2>1. a.window \in Int /\ row.lease \in Int
    BY AttemptAssumption DEF Inv, Sound, AttemptType, RowType, Times
  <2> QED  BY <2>1 DEF Inv, Sound, Follows, Mine, RowType
<1>2. Reported(beat, age, r, left)
  BY AttemptAssumption DEF Inv, Reported, Follows, Mine, RowType
<1>3. Asked(ask, r, left)
  BY Zenon DEF Inv, Asked, Told, Follows
<1>4. Answers(call.op, call.answer, r.verdict)
  BY Zenon DEF Inv, Answers, Told, Follows
<1>5. Recorded(recorded, r.verdict)
  BY Zenon DEF Inv, Recorded, Recordings, Follows
<1> QED  BY <1>1, <1>2, <1>3, <1>4, <1>5, Zenon

-----------------------------------------------------------------------------
(* The invariant holds initially and is kept by the row and the requests *)

LEMMA InitAttempt == Init => Inv
<1> SUFFICES ASSUME Init PROVE Inv
  BY Zenon
<1>1. Lease \in 0..Lease /\ Off \in Times /\ Deadline \in Times /\ Timeout \in Times
  BY AttemptAssumption DEF Times
<1>2. row \in RowType /\ (Mine <=> row.verdict = "none")
  BY <1>1, Zenon DEF Init, RowType, RowVerdicts, Mine
<1>3. left \in [{"deadline", "timeout"} -> Times]
  BY <1>1 DEF Init
<1>4. Sound(a, row, left)
  BY <1>1, AttemptAssumption DEF Init, Sound, AttemptType, Outcomes, Reasons
<1>5. beat \in Beats /\ age \in 0..Lease /\ Reported(beat, age, row, left)
  BY AttemptAssumption DEF Init, Beats, Reported
<1>6. Asked(ask, row, left)
  BY Zenon DEF Init, Asked, AskType, NoAsk, Told
<1>7. call \in CallType /\ Answers(call.op, call.answer, row.verdict) /\ Awaits(pc, call.op)
  BY Zenon DEF Init, CallType, Answers, Awaits, Idle, Told
<1>8. Recorded(recorded, row.verdict) /\ Begun(a, pc, beat, ask)
  BY Zenon DEF Init, Recorded, Recordings, Begun, Places
<1> QED  BY <1>2, <1>3, <1>4, <1>5, <1>6, <1>7, <1>8, Zenon DEF Inv

\* A step of PostgreSQL on the row alone.
LEMMA RowInv ==
    ASSUME Inv, Follows(row'), UNCHANGED <<left, a, ask, beat, age, pc, call, recorded>>
    PROVE  Inv'
<1>1. /\ Sound(a, row', left) /\ Reported(beat, age, row', left) /\ Asked(ask, row', left)
      /\ Answers(call.op, call.answer, row'.verdict) /\ Recorded(recorded, row'.verdict)
  BY KnownStays, Zenon
<1> QED  BY <1>1, Zenon DEF Inv, Follows, Mine

LEMMA DatabaseInv == Inv /\ Database => Inv'
<1> SUFFICES ASSUME Inv, Database PROVE Inv'
  BY Zenon
<1>1. CASE Recovered
  <2>0. Mine /\ row.lease \in Nat
    <3>1. Mine
      BY <1>1, Zenon DEF Recovered
    <3> QED  BY <3>1, AttemptAssumption DEF Inv, RowType
  <2>1. PICK v \in RowVerdicts \ {"none"}, s \in SUBSET {"open", "closed"} :
           (v = "lapsed" => row.lease = 0) /\ \E e \in Ended("", v, s) : row' = e.row
    <3>1. \/ \E v \in {"canceled", "deadline_exceeded"} :
                \E e \in Ended("", v, {"closed"}) : row' = e.row
          \/ \E e \in Ended("", "timeout_exceeded", {"open", "closed"}) : row' = e.row
          \/ \E e \in Ended("", "lapsed", {"open", "closed"}) : row' = e.row /\ ~(row.lease > 0)
      BY <1>1, Zenon DEF Recovered
    <3>2. ~(row.lease > 0) => row.lease = 0
      BY <2>0
    <3>3. /\ {"closed"} \in SUBSET {"open", "closed"}
          /\ {"open", "closed"} \in SUBSET {"open", "closed"}
          /\ \A v \in {"canceled", "deadline_exceeded", "timeout_exceeded", "lapsed"} :
                v \in RowVerdicts \ {"none"}
      BY Zenon DEF RowVerdicts
    <3> QED  BY <3>1, <3>2, <3>3, Zenon
  <2>2. Follows(row')
    <3>1. PICK e \in Ended("", v, s) : row' = e.row
      BY <2>1, Zenon
    <3>2. Follows(e.row)
      BY <2>0, <2>1, EndedFollows, Zenon
    <3> QED  BY <3>1, <3>2, Zenon
  <2> QED  BY <1>1, <2>2, RowInv, Zenon DEF Recovered
<1>2. CASE CancelRequested
  <2>1. /\ row' \in RowType /\ row'.state = row.state /\ row'.lease = row.lease
        /\ row'.verdict = row.verdict
    BY <1>2, Zenon DEF CancelRequested, Inv, RowType
  <2>2. Follows(row')
    BY <2>1, AttemptAssumption DEF Follows, Inv, Mine, RowType
  <2> QED  BY <1>2, <2>2, RowInv, Zenon DEF CancelRequested
<1>3. CASE ClaimedAgain
  <2>1. Follows(row')
    BY <1>3, AttemptAssumption, Zenon DEF ClaimedAgain, Follows, Inv, Mine, RowType
  <2> QED  BY <1>3, <2>1, RowInv, Zenon DEF ClaimedAgain
<1>4. CASE GhostCommits
  BY <1>4, RenewedFollows, RowInv, Zenon DEF GhostCommits
<1> QED  BY <1>1, <1>2, <1>3, <1>4, Zenon DEF Database

LEMMA DownTimes ==
    ASSUME NEW x \in Times
    PROVE  /\ Down(x) \in Times /\ Down(x) <= x
           /\ x <= 0 => Down(x) = x
           /\ x > 0 => Down(x) = x - 1
BY AttemptAssumption DEF Times, Down

LEMMA ElapseInv == Inv /\ Elapse => Inv'
<1> SUFFICES ASSUME Inv, Elapse PROVE Inv'
  BY Zenon
<1>0. /\ row.lease \in Times /\ row.lease \in 0..Lease /\ a.window \in Times /\ a.timer \in Times
      /\ left.deadline \in Times /\ left.timeout \in Times
  BY AttemptAssumption DEF Inv, RowType, Sound, AttemptType, Times
<1>1. /\ row' \in RowType /\ row'.state = row.state /\ row'.verdict = row.verdict
      /\ row'.lease = Down(row.lease)
  BY <1>0, AttemptAssumption DEF Elapse, Inv, RowType, Down
<1>2. /\ left' \in [{"deadline", "timeout"} -> Times]
      /\ left'.deadline = Down(left.deadline) /\ left'.timeout = Down(left.timeout)
  BY <1>0, DownTimes, Zenon DEF Elapse, Inv
<1>3. /\ a' \in AttemptType /\ a'.window = Down(a.window) /\ a'.reason = a.reason
      /\ a'.outcome = a.outcome /\ a'.stopped = a.stopped
  BY <1>0, DownTimes, Zenon DEF Elapse, Inv, Sound, AttemptType
<1>4. left.deadline = 0 => left'.deadline = 0
  BY <1>2 DEF Down
<1>5. left.timeout = 0 => left'.timeout = 0
  BY <1>2 DEF Down
<1>6. Sound(a', row', left')
  <2>1. row.state = "mine" => Down(a.window) <= Down(row.lease)
    <3>1. row.state = "mine" => a.window <= row.lease
      BY ZenonT(30) DEF Inv, Sound
    <3> QED  BY <1>0, <3>1, AttemptAssumption DEF Down, Times
  <2>2. row.verdict = "lapsed" => Down(a.window) <= 0
    BY <1>0, DownTimes, ZenonT(30) DEF Inv, Sound
  <2> QED  BY <1>1, <1>3, <1>4, <1>5, <2>1, <2>2, ZenonT(30) DEF Inv, Sound
<1>7. age' \in 0..Lease /\ Reported(beat, age', row', left')
  <2>1. age \in 0..Lease /\ age' = IF age < Lease THEN age + 1 ELSE age
    BY Zenon DEF Elapse, Inv
  <2>2. age' \in 0..Lease /\ (age >= Lease => age' >= Lease)
    BY <2>1, AttemptAssumption
  <2>3. Lease - age <= row.lease => Lease - age' <= Down(row.lease)
    BY <1>0, <2>1, AttemptAssumption DEF Down
  <2> QED  BY <1>1, <1>4, <1>5, <2>2, <2>3, ZenonT(30) DEF Inv, Reported
<1>8. Asked(ask, row', left')
  BY <1>1, <1>4, <1>5, ZenonT(30) DEF Inv, Asked
<1>9. Begun(a', pc, beat, ask)
  <2>1. a'.window = Off => a.window = Off
    BY <1>0, <1>3, AttemptAssumption DEF Down, Times
  <2> QED  BY <1>3, <2>1, ZenonT(30) DEF Inv, Begun, Closed
<1> QED  BY <1>1, <1>2, <1>6, <1>7, <1>8, <1>9, Zenon DEF Inv, Elapse, Mine

LEMMA HeartbeatsInv == Inv /\ Heartbeats => Inv'
<1> SUFFICES ASSUME Inv, Heartbeats PROVE Inv'
  BY Zenon
<1>1. CASE SendHeartbeat
  <2>1. beat' \in Beats /\ age' \in 0..Lease /\ Reported(beat', age', row, left)
    BY <1>1, AttemptAssumption DEF SendHeartbeat, Beats, Reported
  <2>2. Begun(a, pc, beat', ask)
    BY <1>1, Zenon DEF SendHeartbeat, Inv, Begun
  <2> QED  BY <1>1, <2>1, <2>2, ZenonT(30) DEF SendHeartbeat, Inv, Mine
<1>2. CASE HeartbeatCommits
  <2>0. pc # "claiming" /\ beat' # "claim" /\ beat' \in Beats
    BY <1>2, Zenon DEF HeartbeatCommits, Inv, Begun, HeartbeatVerdict, Beats
  <2>1. Follows(row')
    BY <1>2, SameFollows, RenewedFollows, ZenonT(30) DEF HeartbeatCommits
  <2>2. /\ Sound(a, row', left) /\ Asked(ask, row', left)
        /\ Answers(call.op, call.answer, row'.verdict) /\ Recorded(recorded, row'.verdict)
    BY <2>1, KnownStays, Zenon
  <2>3. Reported(beat', age, row', left)
    <3>1. CASE beat' = "accepted"
      <4>1. HeartbeatVerdict = "accepted" /\ row' = Renewed
        BY <1>2, <3>1, Zenon DEF HeartbeatCommits
      <4>2. HoldsLease
        BY <4>1, AttemptAssumption
           DEF HeartbeatVerdict, HoldsLease, Valid, Inv, RowType
      <4>3. row'.lease = Lease /\ row'.verdict = "none"
        BY <4>1, <4>2, Zenon DEF Renewed, Inv, RowType, HoldsLease, Valid
      <4> QED  BY <3>1, <4>3, AttemptAssumption DEF Reported, Inv
    <3>2. CASE beat' # "accepted"
      BY <1>2, <2>0, <3>2, Zenon DEF Reported, HeartbeatCommits, HeartbeatVerdict, PastDeadline,
         PastTimeout
    <3> QED  BY <3>1, <3>2, Zenon
  <2>4. Begun(a, pc, beat', ask)
    BY <2>0, Zenon DEF Inv, Begun
  <2> QED  BY <1>2, <2>0, <2>1, <2>2, <2>3, <2>4, ZenonT(30)
              DEF HeartbeatCommits, Inv, Follows, Mine
<1>3. CASE HeartbeatAnswered
  <2>0. /\ pc # "claiming" /\ beat' = "idle" /\ beat # "claim" /\ beat' \in Beats
        /\ UNCHANGED <<row, left, age, pc, call, recorded>>
    BY <1>3, Zenon DEF HeartbeatAnswered, Inv, Begun, Beats
  <2>1. Reported(beat', age, row, left)
    BY <2>0, Zenon DEF Reported
  <2>2. Sound(a', row, left) /\ (Closed(a) => Closed(a'))
    <3>1. CASE a.stopped
      BY <1>3, <3>1, ZenonT(30) DEF HeartbeatAnswered, Inv
    <3>2. CASE ~a.stopped
      BY <1>3, <2>0, <3>2, RefreshSound, ZenonT(30) DEF HeartbeatAnswered
    <3> QED  BY <3>1, <3>2, Zenon
  <2>3. Asked(ask', row, left)
    <3>1. ask' = ask \/ ask' = AskSent(FALSE)
      BY <1>3, ZenonT(30) DEF HeartbeatAnswered
    <3>2. Asked(AskSent(FALSE), row, left)
      BY Zenon DEF Asked, AskSent, AskType, Told
    <3> QED  BY <3>1, <3>2, ZenonT(30) DEF Inv
  <2>4. Begun(a', pc, beat', ask')
    BY <2>0, <2>2, Zenon DEF Inv, Begun
  <2> QED  BY <2>0, <2>1, <2>2, <2>3, <2>4, Zenon DEF Inv, Mine
<1>4. CASE HeartbeatFails
  <2>1. beat' \in Beats /\ Reported(beat', age, row, left)
    BY <1>4, Zenon DEF HeartbeatFails, Beats, Reported
  <2>2. Begun(a, pc, beat', ask)
    BY <1>4, Zenon DEF HeartbeatFails, Inv, Begun
  <2> QED  BY <1>4, <2>1, <2>2, Zenon DEF HeartbeatFails, Inv, Mine
<1> QED  BY <1>1, <1>2, <1>3, <1>4, Zenon DEF Heartbeats

\* A step on the attempt and its expiry request alone.
LEMMA RequestInv ==
    ASSUME Inv, UNCHANGED <<row, left, beat, age, pc, call, recorded>>, pc # "claiming",
           Sound(a', row, left), Closed(a) => Closed(a'), Asked(ask', row, left)
    PROVE  Inv'
<1>1. Begun(a', pc, beat, ask')
  BY Zenon DEF Inv, Begun
<1> QED  BY <1>1, Zenon DEF Inv, Mine

LEMMA TimersInv == Inv /\ Timers => Inv'
<1> SUFFICES ASSUME Inv, Timers PROVE Inv'
  BY Zenon
<1>1. CASE Watchdog
  BY <1>1, LoseSound, RequestInv, Zenon DEF Watchdog, Inv
<1>2. CASE ExpirationTimer
  <2>1. Sound(a', row, left) /\ (Closed(a) => Closed(a'))
    <3>1. /\ a' \in AttemptType /\ a'.window = a.window /\ a'.reason = a.reason
          /\ a'.outcome = a.outcome
      BY <1>2, ZenonT(30) DEF ExpirationTimer, Inv, Sound, AttemptType, Times
    <3> QED  BY <3>1, ZenonT(30) DEF Inv, Sound, Closed
  <2>2. Asked(ask', row, left)
    BY <1>2, Zenon DEF ExpirationTimer, Asked, AskSent, AskType, Told
  <2> QED  BY <1>2, <2>1, <2>2, RequestInv, ZenonT(30) DEF ExpirationTimer
<1> QED  BY <1>1, <1>2, Zenon DEF Timers

LEMMA ExpiryInv == Inv /\ Expiry => Inv'
<1> SUFFICES ASSUME Inv, Expiry PROVE Inv'
  BY Zenon
<1>0. pc # "claiming" /\ ask \in AskType /\ Sound(a, row, left) /\ Asked(ask, row, left)
  <2>1. ask.st # "none"
    BY Zenon DEF Expiry, ExpireCommits, ExpireAnswered, ExpireFails
  <2>2. pc = "claiming" => ask.st = "none"
    BY DEF Inv, Begun, NoAsk
  <2> QED  BY <2>1, <2>2, ZenonT(30) DEF Inv, Asked
<1>1. CASE ExpireCommits
  <2>1. PICK e \in ExpireEffects :
           row' = e.row /\ ask' = [ask EXCEPT !.st = "answered", !.answer = e.answer]
    BY <1>1, Zenon DEF ExpireCommits
  <2>2. /\ Follows(row') /\ e.answer \in ExpireAnswers /\ Told(e.answer, row'.verdict)
        /\ e.answer = "deadline_exceeded" => left.deadline = 0
        /\ e.answer = "timeout_exceeded" => left.timeout = 0
    BY <2>1, ExpireFollows, Zenon
  <2>3. /\ Sound(a, row', left) /\ Reported(beat, age, row', left)
        /\ Answers(call.op, call.answer, row'.verdict) /\ Recorded(recorded, row'.verdict)
    BY <2>2, KnownStays, Zenon
  <2>4. ask' \in AskType /\ ask'.answer = e.answer
    BY <1>0, <2>1, <2>2, Zenon DEF AskType
  <2>5. Asked(ask', row', left)
    BY <2>2, <2>4, Zenon DEF Asked
  <2>6. Begun(a, pc, beat, ask')
    BY <1>0, Zenon DEF Inv, Begun
  <2> QED  BY <1>1, <2>2, <2>3, <2>5, <2>6, Zenon DEF ExpireCommits, Inv, Follows, Mine
<1>2. CASE ExpireAnswered
  <2>1. CASE ask.answer # "not_due" \/ Finished(a)
    <3>1. a' = Expired(a, ask.answer, ask.confirm) /\ ask' = [ask EXCEPT !.st = "done"]
      BY <1>2, <2>1, Zenon DEF ExpireAnswered
    <3>2. Sound(a', row, left) /\ (Closed(a) => Closed(a'))
      BY <1>0, <3>1, ExpiredSound, Zenon DEF Asked, AskType
    <3>3. ask' \in AskType /\ ask'.answer = ask.answer
      BY <1>0, <3>1, Zenon DEF AskType
    <3>4. Asked(ask', row, left)
      BY <1>0, <3>3, Zenon DEF Asked
    <3> QED  BY <1>0, <1>2, <3>2, <3>4, RequestInv, Zenon DEF ExpireAnswered
  <2>2. CASE ~(ask.answer # "not_due" \/ Finished(a))
    <3>1. a' = a /\ ask' \in AskType /\ ask'.answer \in {ask.answer, "none"}
      BY <1>0, <1>2, <2>2, Zenon DEF ExpireAnswered, AskType
    <3>2. Asked(ask', row, left)
      BY <1>0, <3>1, Zenon DEF Asked, Told
    <3> QED  BY <1>0, <1>2, <3>1, <3>2, RequestInv, Zenon DEF ExpireAnswered
  <2> QED  BY <2>1, <2>2, Zenon
<1>3. CASE ExpireFails
  <2> DEFINE lost == IF a.losing THEN LoseLease(a) ELSE a
  <2>1. Sound(lost, row, left) /\ (Closed(a) => Closed(lost))
    BY <1>0, LoseSound, Zenon
  <2>2. a' = lost \/ a' = [lost EXCEPT !.timer = 0]
    BY <1>3, Zenon DEF ExpireFails
  <2> HIDE DEF lost
  <2>3. /\ Sound([lost EXCEPT !.timer = 0], row, left)
        /\ Closed(lost) => Closed([lost EXCEPT !.timer = 0])
    BY <2>1, Zenon DEF Sound, AttemptType, Times, Closed
  <2>4. ask' \in AskType /\ ask'.answer = "none"
    BY <1>0, <1>3, Zenon DEF ExpireFails, AskType, NoAsk
  <2>5. Asked(ask', row, left)
    BY <2>4, Zenon DEF Asked, Told
  <2> QED  BY <1>0, <1>3, <2>1, <2>2, <2>3, <2>5, RequestInv, Zenon DEF ExpireFails
<1> QED  BY <1>1, <1>2, <1>3, Zenon DEF Expiry

LEMMA ShutdownInv == Inv /\ ShutdownAborts => Inv'
<1> SUFFICES ASSUME Inv, ShutdownAborts PROVE Inv'
  BY Zenon
<1>1. a' = [a EXCEPT !.shutdown = TRUE, !.reason = "shutdown"]
  BY ZenonT(30) DEF ShutdownAborts, AbortForShutdown
<1>2. Sound(a', row, left) /\ Closed(a')
  BY <1>1, ZenonT(30) DEF Inv, Sound, AttemptType, Reasons, Closed
<1> QED  BY <1>2, RequestInv, ZenonT(30) DEF ShutdownAborts, Inv

-----------------------------------------------------------------------------
(* executeTask keeps the invariant *)

\* A step of executeTask after the construction of the attempt.
LEMMA ExecuteInv ==
    ASSUME Inv, Apart, pc # "claiming", pc' \in Places \ {"claiming"},
           Sound(a', row, left), pc' # "done" => Closed(a'),
           call' \in CallType, Answers(call'.op, call'.answer, row.verdict),
           Awaits(pc', call'.op), Recorded(recorded', row.verdict)
    PROVE  Inv'
<1>1. Begun(a', pc', beat, ask)
  BY ZenonT(30) DEF Inv, Begun
<1> QED  BY <1>1, Zenon DEF Inv, Apart, Mine

LEMMA SendAnswers ==
    ASSUME NEW op \in {"complete", "ack", "expire", "fail", "release", "sleep", "signal"},
           Send(op)
    PROVE  call' \in CallType /\ Answers(op, call'.answer, row.verdict) /\ call'.op = op
BY Zenon DEF Send, CallType, Answers, Told

LEMMA IdleAnswers ==
    ASSUME call' = Idle
    PROVE  /\ call' \in CallType /\ call'.op = "none"
           /\ Answers(call'.op, call'.answer, row.verdict)
BY Zenon DEF Idle, CallType, Answers, Told

\* A statement is sent and awaited at pc'.
LEMMA SendInv ==
    ASSUME Inv, Apart, Unrecorded, pc # "claiming", pc' \in Places \ {"claiming"},
           NEW op \in {"complete", "ack", "expire", "fail", "release", "sleep", "signal"},
           Send(op), Awaits(pc', op), Sound(a', row, left), Closed(a')
    PROVE  Inv'
<1>1. call' \in CallType /\ Answers(call'.op, call'.answer, row.verdict) /\ call'.op = op
  BY SendAnswers, ZenonT(30)
<1>2. Recorded(recorded', row.verdict)
  BY Zenon DEF Unrecorded, Inv
<1> QED  BY <1>1, <1>2, ExecuteInv, Zenon

\* A step to pc' that awaits no statement.
LEMMA MoveInv ==
    ASSUME Inv, Apart, Unrecorded, pc # "claiming", pc' \in Places \ {"claiming"},
           call' = Idle \/ (call' = call /\ call.op = "none"),
           Awaits(pc', "none"), Sound(a', row, left), Closed(a')
    PROVE  Inv'
<1>1. call' \in CallType /\ Answers(call'.op, call'.answer, row.verdict) /\ call'.op = "none"
  BY IdleAnswers, Zenon DEF Inv
<1>2. Recorded(recorded', row.verdict)
  BY Zenon DEF Unrecorded, Inv
<1> QED  BY <1>1, <1>2, ExecuteInv, ZenonT(30)

LEMMA RecordTrue ==
    ASSUME Inv, NEW o, Record(o), Recorded(o, row.verdict)
    PROVE  Recorded(recorded', row.verdict)
BY Zenon DEF Inv, Record

LEMMA FinishInv ==
    ASSUME Inv, Apart, pc # "claiming", NEW b, Sound(b, row, left), Finish(b),
           Recorded(recorded', row.verdict)
    PROVE  Inv'
<1>1. call' \in CallType /\ Answers(call'.op, call'.answer, row.verdict) /\ call'.op = "none"
  BY IdleAnswers, Zenon DEF Finish
<1>2. Sound(a', row, left) /\ pc' = "done"
  BY StopSound, Zenon DEF Finish
<1>3. Awaits(pc', "none") /\ pc' \in Places \ {"claiming"}
  BY <1>2, Zenon DEF Awaits, Places
<1> QED  BY <1>1, <1>2, <1>3, ExecuteInv, Zenon

\* The ends of settleFailure.
LEMMA SettleInv ==
    ASSUME Inv, Apart, pc # "claiming", NEW b, Sound(b, row, left), Closed(b), Unrecorded,
           ReleaseOrFail(b) \/ SettleError(b)
    PROVE  Inv'
<1>1. CASE a' = b /\ \/ pc' = "releasing" /\ Send("release")
                     \/ pc' = "failing" /\ Send("fail")
                     \/ pc' = "confirming" /\ Send("ack")
  <2>1. /\ pc' \in Places \ {"claiming"}
        /\ pc' = "releasing" => Awaits(pc', "release")
        /\ pc' = "failing" => Awaits(pc', "fail")
        /\ pc' = "confirming" => Awaits(pc', "ack")
    BY <1>1, Zenon DEF Places, Awaits
  <2> QED  BY <1>1, <2>1, SendInv, Zenon
<1>2. CASE Finish(b)
  <2>1. Recorded(recorded', row.verdict)
    BY Zenon DEF Unrecorded, Inv
  <2> QED  BY <1>2, <2>1, FinishInv, ZenonT(30)
<1> QED  BY <1>1, <1>2, Zenon DEF ReleaseOrFail, SettleError

LEMMA AcknowledgeInv ==
    ASSUME Inv, Apart, pc # "claiming", NEW b, Sound(b, row, left), Closed(b), Acknowledge(b)
    PROVE  Inv'
<1>1. Sound(a', row, left) /\ Closed(a') /\ pc' = "acknowledging" /\ Send("ack") /\ Unrecorded
  BY SubmitSound, Zenon DEF Acknowledge, Outcomes
<1>2. pc' \in Places \ {"claiming"} /\ Awaits(pc', "ack")
  BY <1>1, Zenon DEF Places, Awaits
<1> QED  BY <1>1, <1>2, SendInv, Zenon

\* An outcome PostgreSQL settled.
LEMMA RecordSettledInv ==
    ASSUME Inv, Apart, pc # "claiming", NEW o \in Outcomes, NEW x,
           o = "suspended" => row.verdict = "suspended",
           o = "deadline_exceeded" => row.verdict = "deadline_exceeded",
           o = "attempt_timeout" => row.verdict = "timeout_exceeded",
           Recorded(x, row.verdict),
           RecordSettled(o, x) \/ RecordVerdict(o, x)
    PROVE  Inv'
<1>1. Finish(Submit(a, o)) /\ (Record(x) \/ Unrecorded)
  BY Zenon DEF RecordSettled, RecordVerdict
<1>2. Recorded(recorded', row.verdict)
  BY <1>1, RecordTrue, ZenonT(30) DEF Unrecorded, Inv
<1>3. Sound(Submit(a, o), row, left)
  BY SubmitSound, ZenonT(30) DEF Inv
<1> QED  BY <1>1, <1>2, <1>3, FinishInv, ZenonT(30)

\* The expiry answer in reconcileStale.
LEMMA ReconciledInv ==
    ASSUME Inv, Apart, pc \notin {"claiming", "done"}, NEW status,
           Told(status, row.verdict), Reconciled(status)
    PROVE  Inv'
<1>1. CASE status = "deadline_exceeded"
  <2>1. RecordSettled("deadline_exceeded", "deadline_exceeded")
    BY <1>1, Zenon DEF Reconciled
  <2> QED  BY <1>1, <2>1, RecordSettledInv, Zenon DEF Told, Outcomes, Recorded, Recordings
<1>2. CASE status = "timeout_exceeded"
  <2>1. RecordSettled("attempt_timeout", "timeout")
    BY <1>2, Zenon DEF Reconciled
  <2> QED  BY <1>2, <2>1, RecordSettledInv, Zenon DEF Told, Outcomes, Recorded, Recordings
<1>3. CASE status = "cancel_requested"
  <2>1. pc' = "requested" /\ Send("ack") /\ a' = a /\ Unrecorded
    BY <1>3, ZenonT(30) DEF Reconciled
  <2>2. Sound(a', row, left) /\ Closed(a')
    BY <2>1, ZenonT(30) DEF Inv, Begun
  <2>3. pc' \in Places \ {"claiming"} /\ Awaits(pc', "ack")
    BY <2>1, Zenon DEF Places, Awaits
  <2> QED  BY <2>1, <2>2, <2>3, SendInv, Zenon
<1>4. CASE status \notin {"deadline_exceeded", "timeout_exceeded", "cancel_requested"}
  <2>1. RecordSettled("lease_expired", "lease_lost")
    BY <1>4, Zenon DEF Reconciled
  <2> QED  BY <2>1, RecordSettledInv, Zenon DEF Outcomes, Recorded, Recordings
<1> QED  BY <1>1, <1>2, <1>3, <1>4, Zenon

LEMMA ConstructInv == Inv /\ Construct => Inv'
<1> SUFFICES ASSUME Inv, Construct PROVE Inv'
  BY Zenon
<1> DEFINE due == IF Deadline # Off /\ (Timeout = Off \/ Deadline <= Timeout)
                  THEN Deadline ELSE Timeout
           b == [a EXCEPT !.timer = IF due = Off THEN Off
                                    ELSE IF due > Lead THEN due - Lead ELSE 0]
<1>1. a' = RenewLease(b, age) /\ pc' = "claimed" /\ beat' = "idle"
  BY Zenon DEF Construct
<1>2. due \in Times
  BY AttemptAssumption, Zenon DEF Times
<1> HIDE DEF due
<1>3. (IF due = Off THEN Off ELSE IF due > Lead THEN due - Lead ELSE 0) \in Times
  BY <1>2, AttemptAssumption DEF Times
<1>4. Sound(b, row, left) /\ ~b.stopped
  BY <1>3 DEF Construct, Inv, Sound, AttemptType, Begun
<1>5. Reported("accepted", age, row, left) /\ age \in 0..Lease
  BY Zenon DEF Construct, Inv, Begun, Reported
<1> HIDE DEF b
<1>6. Sound(a', row, left) /\ Closed(a')
  BY <1>1, <1>4, <1>5, RenewSound, Zenon
<1>7. beat' \in Beats /\ Reported(beat', age, row, left)
  BY <1>1, ZenonT(30) DEF Beats, Reported
<1>8. Begun(a', pc', beat', ask) /\ Awaits(pc', call.op)
  BY <1>1, <1>6, ZenonT(30) DEF Construct, Inv, Begun, Awaits, Places
<1> QED  BY <1>6, <1>7, <1>8, ZenonT(30) DEF Construct, Inv, Mine

\* The handler and the steps before it.
LEMMA HandlerInv ==
    ASSUME Inv, ReleaseUnhandled \/ StartHandler \/ Handler \/ WaitAnswered
    PROVE  Inv'
<1>0. /\ Sound(a, row, left) /\ Apart /\ Unrecorded
      /\ pc \in {"claimed", "running", "waiting"} /\ Closed(a)
  BY Zenon DEF Inv, ReleaseUnhandled, StartHandler, Handler, AwaitWait, HandlerReturns,
     HandlerThrows, WaitAnswered, Begun
<1>1. CASE ReleaseUnhandled
  <2>1. a' = a /\ pc' = "releasing" /\ Send("release")
    BY <1>1, Zenon DEF ReleaseUnhandled
  <2>2. pc' \in Places \ {"claiming"} /\ Awaits(pc', "release")
    BY <2>1, Zenon DEF Places, Awaits
  <2> QED  BY <1>0, <2>1, <2>2, SendInv, Zenon
<1>2. CASE StartHandler
  <2>1. Sound(a', row, left) /\ Closed(a') /\ call' = call
    BY <1>0, <1>2, CheckSound, ZenonT(30) DEF StartHandler
  <2>2. pc' \in {"threw", "running"} /\ call.op = "none"
    BY <1>2, ZenonT(30) DEF StartHandler, Inv, Awaits
  <2>3. pc' \in Places \ {"claiming"} /\ Awaits(pc', "none")
    BY <2>2, Zenon DEF Places, Awaits
  <2> QED  BY <1>0, <2>1, <2>2, <2>3, MoveInv, ZenonT(30)
<1>3. CASE AwaitWait
  <2>1. Sound(a', row, left) /\ Closed(a')
    BY <1>0, <1>3, CheckSound, Zenon DEF AwaitWait
  <2>2. CASE a'.reason # "none"
    <3>1. pc' = "running" /\ call' = call /\ call.op = "none"
      BY <1>3, <2>2, ZenonT(30) DEF AwaitWait, Inv, Awaits
    <3>2. pc' \in Places \ {"claiming"} /\ Awaits(pc', "none")
      BY <3>1, Zenon DEF Places, Awaits
    <3> QED  BY <1>0, <2>1, <3>1, <3>2, MoveInv, ZenonT(30)
  <2>3. CASE a'.reason = "none"
    <3>1. PICK op \in {"sleep", "signal"} : pc' = "waiting" /\ Send(op)
      BY <1>3, <2>3, Zenon DEF AwaitWait
    <3>2. pc' \in Places \ {"claiming"} /\ Awaits(pc', op)
      BY <3>1, Zenon DEF Places, Awaits
    <3> QED  BY <1>0, <2>1, <3>1, <3>2, SendInv, Zenon
  <2> QED  BY <2>2, <2>3, Zenon
<1>4. CASE HandlerReturns \/ HandlerThrows
  <2>1. a' = a /\ pc' \in {"returned", "threw"} /\ call' = call /\ call.op = "none"
    BY <1>4, ZenonT(30) DEF HandlerReturns, HandlerThrows, Inv, Awaits
  <2>2. pc' \in Places \ {"claiming"} /\ Awaits(pc', "none")
    BY <2>1, Zenon DEF Places, Awaits
  <2> QED  BY <1>0, <2>1, <2>2, MoveInv, ZenonT(30)
<1>5. CASE WaitAnswered
  <2>1. Sound(a', row, left) /\ Closed(a')
    <3>1. call.answer = "scheduled" => row.verdict = "suspended"
      BY ZenonT(30) DEF Inv, Answers
    <3>2. CASE call.answer = "scheduled" /\ a.outcome = "none"
      <4>1. a' = [a EXCEPT !.outcome = "suspended",
                           !.reason = IF a.reason = "none" THEN "suspend" ELSE a.reason]
        BY <1>5, <3>2, ZenonT(30) DEF WaitAnswered, Inv, Sound, AttemptType
      <4>2. /\ a' \in AttemptType /\ a'.window = a.window /\ a'.outcome = "suspended"
            /\ a'.reason = IF a.reason = "none" THEN "suspend" ELSE a.reason
        BY <1>0, <4>1, ZenonT(30) DEF Sound, AttemptType, Outcomes, Reasons
      <4> QED  BY <1>0, <3>1, <3>2, <4>2, ZenonT(30) DEF Sound, Closed
    <3>3. CASE ~(call.answer = "scheduled" /\ a.outcome = "none")
      BY <1>0, <1>5, <3>3, Zenon DEF WaitAnswered
    <3> QED  BY <3>2, <3>3, ZenonT(30)
  <2>2. pc' = "running" /\ call' = Idle
    BY <1>5, Zenon DEF WaitAnswered
  <2>3. pc' \in Places \ {"claiming"} /\ Awaits(pc', "none")
    BY <2>2, Zenon DEF Places, Awaits
  <2> QED  BY <1>0, <2>1, <2>2, <2>3, MoveInv, ZenonT(30)
<1> QED  BY <1>1, <1>2, <1>3, <1>4, <1>5, ZenonT(30) DEF Handler

\* After the handler returned.
LEMMA ReturnedInv ==
    ASSUME Inv, Returned
    PROVE  Inv'
<1>0. Sound(a, row, left) /\ Apart /\ pc = "returned" /\ Closed(a) /\ call.op = "none"
  BY ZenonT(30) DEF Inv, Returned, Begun, Awaits
<1>1. CASE a.outcome = "suspended" /\ Finish(a) /\ Record("suspended")
  BY <1>0, <1>1, RecordTrue, FinishInv, ZenonT(30) DEF Sound, Recorded, Recordings
<1>2. CASE pc' = "acknowledging" /\ Send("ack") /\ UNCHANGED <<a, err>> /\ Unrecorded
  <2>1. pc' \in Places \ {"claiming"} /\ Awaits(pc', "ack")
    BY <1>2, Zenon DEF Places, Awaits
  <2> QED  BY <1>0, <1>2, <2>1, SendInv, ZenonT(30)
<1>3. CASE Finish(a) /\ Record("lease_lost")
  BY <1>0, <1>3, RecordTrue, FinishInv, Zenon DEF Recorded, Recordings
<1>4. CASE /\ a' = CheckWindow(a) /\ Unrecorded
           /\ \/ pc' = "threw" /\ UNCHANGED call
              \/ pc' = "completing" /\ Send("complete")
  <2>1. Sound(a', row, left) /\ Closed(a')
    BY <1>0, <1>4, CheckSound, Zenon
  <2>2. CASE pc' = "threw" /\ UNCHANGED call
    <3>1. pc' \in Places \ {"claiming"} /\ Awaits(pc', "none")
      BY <2>2, Zenon DEF Places, Awaits
    <3> QED  BY <1>0, <1>4, <2>1, <2>2, <3>1, MoveInv, Zenon
  <2>3. CASE pc' = "completing" /\ Send("complete")
    <3>1. pc' \in Places \ {"claiming"} /\ Awaits(pc', "complete")
      BY <2>3, Zenon DEF Places, Awaits
    <3> QED  BY <1>0, <1>4, <2>1, <2>3, <3>1, SendInv, Zenon
  <2> QED  BY <1>4, <2>2, <2>3, Zenon
<1> QED  BY <1>1, <1>2, <1>3, <1>4, Zenon DEF Returned

\* The answers to complete_v1 and to an acknowledgement.
LEMMA AnsweredInv ==
    ASSUME Inv, CompleteAnswered \/ RefusalAnswered \/ Acknowledged \/ Confirmed
                \/ RequestAnswered
    PROVE  Inv'
<1>0. /\ Sound(a, row, left) /\ Apart /\ Closed(a)
      /\ pc \in {"completing", "refused", "acknowledging", "confirming", "requested"}
  BY ZenonT(30) DEF Inv, CompleteAnswered, RefusalAnswered, Acknowledged, Confirmed,
     RequestAnswered, Begun
<1>1. /\ \A o \in {"completed", "cancelled", "lease_expired"} : Sound(Submit(a, o), row, left)
      /\ Recorded("lease_lost", row.verdict)
      /\ Unrecorded => Recorded(recorded', row.verdict)
  BY <1>0, SubmitSound, ZenonT(30) DEF Outcomes, Recorded, Recordings, Unrecorded, Inv
<1>2. /\ (pc = "completing" /\ call.answer = "accepted") => row.verdict = "succeeded"
      /\ (pc # "completing" /\ call.answer = "accepted") => row.verdict = "canceled"
  BY <1>0, ZenonT(30) DEF Inv, Awaits, Answers
<1>3. CASE CompleteAnswered
  <2>1. CASE pc' = "refused" /\ Send("ack") /\ UNCHANGED <<a, err>> /\ Unrecorded
    <3>1. pc' \in Places \ {"claiming"} /\ Awaits(pc', "ack")
      BY <2>1, Zenon DEF Places, Awaits
    <3> QED  BY <1>0, <2>1, <3>1, SendInv, Zenon
  <2>2. CASE /\ call.answer = "accepted"
             /\ Finish(Submit(a, "completed")) /\ Record("succeeded")
    <3>1. Recorded("succeeded", row.verdict)
      BY <1>2, <1>3, <2>2, Zenon DEF CompleteAnswered, Recorded, Recordings
    <3>2. Recorded(recorded', row.verdict)
      BY <2>2, <3>1, RecordTrue, Zenon
    <3> QED  BY <1>0, <1>1, <2>2, <3>2, FinishInv, Zenon
  <2>3. CASE Finish(a) /\ Unrecorded
    BY <1>0, <1>1, <2>3, FinishInv, Zenon
  <2> QED  BY <1>3, <2>1, <2>2, <2>3, Zenon DEF CompleteAnswered
<1>4. (pc # "completing" /\ call.answer = "accepted") => Recorded("canceled", row.verdict)
  BY <1>2, Zenon DEF Recorded, Recordings
<1>5. CASE RefusalAnswered
  <2>1. CASE pc' = "threw" /\ call' = Idle /\ UNCHANGED a /\ Unrecorded
    <3>1. pc' \in Places \ {"claiming"} /\ Awaits(pc', "none")
      BY <2>1, Zenon DEF Places, Awaits
    <3> QED  BY <1>0, <2>1, <3>1, MoveInv, Zenon
  <2>2. CASE /\ call.answer = "accepted"
             /\ Finish(Submit(a, "cancelled")) /\ Record("canceled")
    <3>1. Recorded(recorded', row.verdict)
      BY <1>4, <1>5, <2>2, RecordTrue, Zenon DEF RefusalAnswered
    <3> QED  BY <1>0, <1>1, <2>2, <3>1, FinishInv, Zenon
  <2> QED  BY <1>5, <2>1, <2>2, Zenon DEF RefusalAnswered
<1>6. CASE Acknowledged
  <2>1. Finish(a) /\ (Unrecorded \/ (call.answer = "accepted" /\ Record("canceled")))
    BY <1>6, Zenon DEF Acknowledged
  <2>2. Recorded(recorded', row.verdict)
    BY <1>1, <1>4, <1>6, <2>1, RecordTrue, Zenon DEF Acknowledged
  <2> QED  BY <1>0, <2>1, <2>2, FinishInv, Zenon
<1>7. CASE Confirmed
  <2>1. CASE /\ call.answer = "accepted"
             /\ Finish(Submit(a, "cancelled")) /\ Record("canceled")
    <3>1. Recorded(recorded', row.verdict)
      BY <1>4, <1>7, <2>1, RecordTrue, Zenon DEF Confirmed
    <3> QED  BY <1>0, <1>1, <2>1, <3>1, FinishInv, Zenon
  <2>2. CASE ReleaseOrFail(a) /\ Unrecorded
    BY <1>0, <2>2, SettleInv, Zenon
  <2> QED  BY <1>7, <2>1, <2>2, Zenon DEF Confirmed
<1>8. CASE RequestAnswered
  <2>1. CASE call.answer = "accepted" /\ RecordSettled("cancelled", "canceled")
    BY <1>0, <1>4, <1>8, <2>1, RecordSettledInv, Zenon DEF RequestAnswered, Outcomes
  <2>2. CASE RecordSettled("lease_expired", "lease_lost")
    BY <1>0, <1>1, <2>2, RecordSettledInv, Zenon DEF Outcomes
  <2> QED  BY <1>8, <2>1, <2>2, Zenon DEF RequestAnswered
<1> QED  BY <1>3, <1>5, <1>6, <1>7, <1>8, ZenonT(30)

\* settleFailure, up to its statement.
LEMMA FailureInv ==
    ASSUME Inv, Threw \/ \E over \in BOOLEAN : Settling(over)
    PROVE  Inv'
<1>0. /\ Sound(a, row, left) /\ Apart /\ Closed(a) /\ pc \in {"threw", "settling"}
      /\ call.op = "none"
  BY Zenon DEF Inv, Threw, Settling, Begun, Awaits
<1>1. \A x \in {"suspended", "lease_lost", "timeout", "deadline_exceeded"} :
         \/ x = "suspended" /\ a.outcome = "suspended"
         \/ x = "lease_lost"
         \/ x = "timeout" /\ a.outcome = "attempt_timeout"
         \/ x = "deadline_exceeded" /\ a.outcome = "deadline_exceeded"
         => Recorded(x, row.verdict)
  BY <1>0, Zenon DEF Sound, Recorded, Recordings
<1>2. CASE \E x \in {"suspended", "lease_lost", "timeout", "deadline_exceeded"} :
              /\ Finish(a) /\ Record(x)
              /\ \/ x = "suspended" /\ a.outcome = "suspended"
                 \/ x = "lease_lost"
                 \/ x = "timeout" /\ a.outcome = "attempt_timeout"
                 \/ x = "deadline_exceeded" /\ a.outcome = "deadline_exceeded"
  BY <1>0, <1>1, <1>2, RecordTrue, FinishInv, Zenon
<1>3. CASE Acknowledge(a)
  BY <1>0, <1>3, AcknowledgeInv, Zenon
<1>4. CASE SettleError(a)
  BY <1>0, <1>4, SettleInv, Zenon DEF SettleError
<1>5. CASE a' = [a EXCEPT !.settling = TRUE] /\ pc' = "settling" /\ UNCHANGED call /\ Unrecorded
  <2>1. Sound(a', row, left) /\ Closed(a')
    BY <1>0, <1>5, ZenonT(30) DEF Sound, AttemptType, Closed
  <2>2. pc' \in Places \ {"claiming"} /\ Awaits(pc', "none")
    BY <1>5, Zenon DEF Places, Awaits
  <2> QED  BY <1>0, <1>5, <2>1, <2>2, MoveInv, Zenon
<1>6. CASE Threw
  BY <1>2, <1>3, <1>4, <1>5, <1>6, ZenonT(30) DEF Threw
<1>7. CASE \E over \in BOOLEAN : Settling(over)
  <2>1. CASE a.outcome = "cancelled"
    BY <1>3, <1>7, <2>1, Zenon DEF Settling
  <2>2. CASE a.outcome = "lease_expired"
    BY <1>2, <1>7, <2>2, Zenon DEF Settling
  <2>3. CASE a.outcome = "attempt_timeout"
    BY <1>2, <1>7, <2>3, Zenon DEF Settling
  <2>4. CASE a.outcome = "deadline_exceeded"
    BY <1>2, <1>7, <2>4, Zenon DEF Settling
  <2>5. CASE a.outcome \notin {"cancelled", "lease_expired", "attempt_timeout", "deadline_exceeded"}
    BY <1>4, <1>7, <2>5, Zenon DEF Settling
  <2> QED  BY <2>1, <2>2, <2>3, <2>4, <2>5, ZenonT(30)
<1> QED  BY <1>6, <1>7, ZenonT(30)

\* The answers of fail_v1 and release_owned_v1, and reconcileStale.
LEMMA ReconcileInv ==
    ASSUME Inv,
           SettlementAnswered \/ ReconcileAnswered
           \/ \E over \in BOOLEAN : Reconcile(over) \/ ReconcileShared(over)
    PROVE  Inv'
<1>0. /\ Sound(a, row, left) /\ Apart /\ Closed(a)
      /\ pc \in {"failing", "releasing", "reconciling", "asking", "sharing"}
  BY ZenonT(30) DEF Inv, SettlementAnswered, ReconcileAnswered, Reconcile, ReconcileShared, Begun
<1>1. Told(ask.answer, row.verdict) /\ Told(call.answer, row.verdict)
  BY ZenonT(30) DEF Inv, Asked, Answers
<1>2. CASE SettlementAnswered
  <2>0. /\ call.answer \in {"stale", "cancel_requested", "retry", "failed", "released",
                            "deadline_exceeded", "timeout_exceeded"}
        /\ call.answer \in {"retry", "failed", "released"} => row.verdict = call.answer
    BY <1>2, ZenonT(30) DEF SettlementAnswered, Inv, Awaits, Answers, Boundaries
  <2>1. CASE call.answer = "cancel_requested"
    <3>1. a' = Abort(Stop(a), "cancel") /\ pc' = "requested" /\ Send("ack") /\ Unrecorded
      BY <1>2, <2>1, Zenon DEF SettlementAnswered
    <3>2. Sound(a', row, left) /\ Closed(a')
      BY <1>0, <3>1, AbortedSound, Zenon DEF Reasons
    <3>3. pc' \in Places \ {"claiming"} /\ Awaits(pc', "ack")
      BY <3>1, Zenon DEF Places, Awaits
    <3> QED  BY <1>0, <3>1, <3>2, <3>3, SendInv, Zenon
  <2>2. CASE call.answer = "stale"
    <3>1. a' = a /\ pc' = "reconciling" /\ call' = Idle /\ Unrecorded
      BY <1>2, <2>2, Zenon DEF SettlementAnswered
    <3>2. pc' \in Places \ {"claiming"} /\ Awaits(pc', "none")
      BY <3>1, Zenon DEF Places, Awaits
    <3> QED  BY <1>0, <3>1, <3>2, MoveInv, Zenon
  <2>3. CASE call.answer \in {"retry", "failed"}
    <3>1. RecordVerdict("failed", call.answer)
      BY <1>2, <2>3, Zenon DEF SettlementAnswered, Verdict
    <3>2. Recorded(call.answer, row.verdict)
      BY <2>0, <2>3, Zenon DEF Recorded, Recordings
    <3> QED  BY <1>0, <3>1, <3>2, RecordSettledInv, Zenon DEF Outcomes
  <2>4. CASE call.answer = "released"
    <3>1. RecordVerdict("released", "released")
      BY <1>2, <2>4, Zenon DEF SettlementAnswered, Verdict
    <3>2. Recorded("released", row.verdict)
      BY <2>0, <2>4, Zenon DEF Recorded, Recordings
    <3> QED  BY <1>0, <3>1, <3>2, RecordSettledInv, Zenon DEF Outcomes
  <2>5. CASE call.answer = "deadline_exceeded"
    <3>1. RecordVerdict("deadline_exceeded", "deadline_exceeded")
      BY <1>2, <2>5, Zenon DEF SettlementAnswered, Verdict
    <3> QED  BY <1>0, <1>1, <2>5, <3>1, RecordSettledInv, Zenon
                DEF Outcomes, Told, Recorded, Recordings
  <2>6. CASE call.answer = "timeout_exceeded"
    <3>1. RecordVerdict("attempt_timeout", "timeout")
      BY <1>2, <2>6, Zenon DEF SettlementAnswered, Verdict
    <3> QED  BY <1>0, <1>1, <2>6, <3>1, RecordSettledInv, Zenon
                DEF Outcomes, Told, Recorded, Recordings
  <2> QED  BY <2>0, <2>1, <2>2, <2>3, <2>4, <2>5, <2>6, ZenonT(30)
<1>3. CASE ReconcileAnswered
  <2>1. CASE call.answer = "stale"
    <3>1. a' = a /\ pc' = "sharing" /\ call' = Idle /\ Unrecorded
      BY <1>3, <2>1, Zenon DEF ReconcileAnswered
    <3>2. pc' \in Places \ {"claiming"} /\ Awaits(pc', "none")
      BY <3>1, Zenon DEF Places, Awaits
    <3> QED  BY <1>0, <3>1, <3>2, MoveInv, Zenon
  <2>2. CASE call.answer # "stale"
    <3>1. Reconciled(call.answer)
      BY <1>3, <2>2, Zenon DEF ReconcileAnswered
    <3> QED  BY <1>0, <1>1, <3>1, ReconciledInv, Zenon
  <2> QED  BY <2>1, <2>2, Zenon
<1>4. CASE \E over \in BOOLEAN : Reconcile(over)
  <2>1. CASE ask.st = "done"
    <3>1. Reconciled(ask.answer)
      BY <1>4, <2>1, Zenon DEF Reconcile
    <3> QED  BY <1>0, <1>1, <3>1, ReconciledInv, Zenon
  <2>2. CASE ask.st # "done"
    <3>1. a' = a /\ pc' = "asking" /\ Send("expire") /\ Unrecorded
      BY <1>4, <2>2, Zenon DEF Reconcile
    <3>2. pc' \in Places \ {"claiming"} /\ Awaits(pc', "expire")
      BY <3>1, Zenon DEF Places, Awaits
    <3> QED  BY <1>0, <3>1, <3>2, SendInv, Zenon
  <2> QED  BY <2>1, <2>2, Zenon
<1>5. CASE \E over \in BOOLEAN : ReconcileShared(over)
  <2> DEFINE status == IF ask.st = "done" THEN ask.answer ELSE "stale"
  <2>1. Reconciled(status)
    BY <1>5, Zenon DEF ReconcileShared
  <2>2. Told(status, row.verdict)
    BY <1>1, Zenon DEF Told
  <2> QED  BY <1>0, <2>1, <2>2, ReconciledInv, Zenon
<1> QED  BY <1>2, <1>3, <1>4, <1>5, ZenonT(30)

LEMMA StatementsInv == Inv /\ Statements => Inv'
<1> SUFFICES ASSUME Inv, Statements PROVE Inv'
  BY Zenon
<1>1. CASE CallCommits
  <2>1. PICK e \in Effects(call.op) :
           row' = e.row /\ call' = [call EXCEPT !.answer = e.answer]
    BY <1>1, Zenon DEF CallCommits
  <2>2. /\ Follows(row') /\ call' \in CallType /\ Answers(call.op, e.answer, row'.verdict)
    BY <1>1, <2>1, EffectsFollow, Zenon DEF CallCommits
  <2>3. call'.op = call.op /\ call'.answer = e.answer
    BY <2>1, Zenon DEF Inv, CallType
  <2>4. /\ Sound(a, row', left) /\ Reported(beat, age, row', left) /\ Asked(ask, row', left)
        /\ Recorded(recorded, row'.verdict)
    BY <2>2, KnownStays, Zenon
  <2> QED  BY <1>1, <2>2, <2>3, <2>4, ZenonT(30) DEF CallCommits, Inv, Follows, Mine
<1>2. CASE CallFails
  <2>0. Apart /\ Unrecorded /\ pc # "claiming" /\ Sound(a, row, left)
    BY <1>2, ZenonT(30) DEF CallFails, Inv, Awaits
  <2>1. CASE pc = "waiting"
    <3>1. pc' = "running" /\ call' = Idle /\ a' = a
      BY <1>2, <2>1, ZenonT(30) DEF CallFails
    <3>2. pc' \in Places \ {"claiming"} /\ Awaits(pc', "none") /\ Closed(a)
      BY <2>1, <3>1, ZenonT(30) DEF Places, Awaits, Inv, Begun
    <3> QED  BY <2>0, <3>1, <3>2, MoveInv, Zenon
  <2>2. CASE pc # "waiting"
    <3>1. Finish(a)
      BY <1>2, <2>2, Zenon DEF CallFails
    <3>2. Recorded(recorded', row.verdict)
      BY <2>0, Zenon DEF Unrecorded, Inv
    <3> QED  BY <2>0, <3>1, <3>2, FinishInv, Zenon
  <2> QED  BY <2>1, <2>2, ZenonT(30)
<1> QED  BY <1>1, <1>2, Zenon DEF Statements

LEMMA NextAttempt == Inv /\ [Next]_vars => Inv'
<1> SUFFICES ASSUME Inv, [Next]_vars PROVE Inv'
  BY Zenon
<1>1. CASE Database \/ Elapse \/ Timers \/ Heartbeats \/ Expiry
  BY <1>1, DatabaseInv, ElapseInv, TimersInv, HeartbeatsInv, ExpiryInv, Zenon
<1>2. CASE Handler \/ Execute
  BY <1>2, ConstructInv, HandlerInv, ReturnedInv, AnsweredInv, FailureInv, ReconcileInv, Zenon
     DEF Execute
<1>3. CASE Statements \/ ShutdownAborts
  BY <1>3, StatementsInv, ShutdownInv, Zenon
<1>4. CASE UNCHANGED vars
  BY <1>4, Zenon DEF vars, Inv, Mine
<1> QED  BY <1>1, <1>2, <1>3, <1>4, Zenon DEF Next

-----------------------------------------------------------------------------
(* Theorems *)

\* What the worker knows of its claim is true of the row in every reachable
\* state, for any lease, deadline, execution timeout and lead of its timer.
THEOREM AttemptInvariance == Spec => []Inv
<1>1. Init => Inv
  BY InitAttempt, Zenon
<1>2. Inv /\ [Next]_vars => Inv'
  BY NextAttempt, Zenon
<1> QED  BY <1>1, <1>2, PTL DEF Spec

\* recover_expired_v1 never takes a task from an attempt whose lease window is
\* open: renewLease counts the window from the sending of the claim or the
\* round, however late the answer arrives.
THEOREM LapsedOutsideWindowAlways == Spec => []LapsedOutsideWindow
<1>1. Inv => LapsedOutsideWindow
  BY ZenonT(30) DEF Inv, Sound, LapsedOutsideWindow
<1> QED  BY <1>1, AttemptInvariance, PTL

\* The handler is aborted for its deadline or its timeout only after
\* PostgreSQL reached that boundary, however far the local timer runs ahead.
THEOREM ConfirmedAbortAlways == Spec => []ConfirmedAbort
<1>1. Inv => ConfirmedAbort
  BY ZenonT(30) DEF Inv, Sound, ConfirmedAbort
<1> QED  BY <1>1, AttemptInvariance, PTL

\* The outcome an activation records is how PostgreSQL ended its claim,
\* whichever of settlement, expiry, heartbeat and recovery came first.
THEOREM RecordedTruthAlways == Spec => []RecordedTruth
<1>1. Inv => RecordedTruth
  <2> SUFFICES ASSUME Inv PROVE RecordedTruth
    BY Zenon
  <2>1. Recorded(recorded, row.verdict)
    BY Zenon DEF Inv
  <2>2. CASE recorded \in {"unknown", "lease_lost"}
    BY <2>2, Zenon DEF RecordedTruth
  <2>3. CASE recorded = "timeout"
    BY <2>1, <2>3, Zenon DEF RecordedTruth, Recorded
  <2>4. CASE recorded \notin {"unknown", "lease_lost", "timeout"}
    BY <2>1, <2>4, Zenon DEF RecordedTruth, Recorded
  <2> QED  BY <2>2, <2>3, <2>4, Zenon
<1> QED  BY <1>1, AttemptInvariance, PTL

\* requireLease starts no handler on a task that lease recovery took back: the
\* only step to the handler looks at the window first.
THEOREM HandlerStartsOwnedAlways == Spec => HandlerStartsOwned
<1>1. Inv /\ [Next]_vars => [pc = "claimed" /\ pc' = "running" => row.verdict # "lapsed"]_vars
  <2> SUFFICES ASSUME Inv, Next, pc = "claimed", pc' = "running" PROVE row.verdict # "lapsed"
    BY ZenonT(30)
  <2>1. StartHandler
    BY ZenonT(30) DEF Next, Database, Recovered, CancelRequested, ClaimedAgain, GhostCommits,
       Elapse, Timers, Watchdog, ExpirationTimer, Heartbeats, SendHeartbeat, HeartbeatCommits,
       HeartbeatAnswered, HeartbeatFails, Expiry, ExpireCommits, ExpireAnswered, ExpireFails,
       Handler, AwaitWait, HandlerReturns, HandlerThrows, Execute, Construct, ReleaseUnhandled,
       WaitAnswered, Returned, CompleteAnswered, RefusalAnswered, Threw, Acknowledged, Confirmed,
       SettlementAnswered, RequestAnswered, ReconcileAnswered, Settling, Reconcile,
       ReconcileShared, Statements, CallCommits, CallFails, Finish, ShutdownAborts
  <2>2. Closed(a) /\ Sound(a, row, left) /\ CheckWindow(a).reason = "none"
    BY <2>1, ZenonT(30) DEF StartHandler, Inv, Begun
  <2> QED  BY <2>2, CheckSound, ZenonT(30)
<1> QED  BY <1>1, AttemptInvariance, PTL DEF Spec, HandlerStartsOwned

=============================================================================
