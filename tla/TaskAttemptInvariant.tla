----------------------- MODULE TaskAttemptInvariant -----------------------
(***************************************************************************)
(* The inductive invariant of one activation.                              *)
(*                                                                         *)
(* Inv relates what the worker knows to what PostgreSQL did: an answer on  *)
(* its way, a recorded outcome and an abort reason each stand for a        *)
(* verdict or a boundary of the row, which stay once they are there; and   *)
(* the local window never outlasts the lease it was opened for.            *)
(***************************************************************************)
EXTENDS TaskAttempt

Times == Nat \union {Off}

RowVerdicts == {"none", "deadline_exceeded", "timeout_exceeded", "retry", "failed", "released",
                "succeeded", "canceled", "suspended", "lapsed"}

RowType == [state : {"mine", "open", "other", "closed"}, lease : 0..Lease, cancel : BOOLEAN,
            verdict : RowVerdicts]

Outcomes == {"none", "lease_expired", "cancelled", "deadline_exceeded", "attempt_timeout",
             "suspended", "completed", "failed", "released"}

Reasons == {"none", "lost", "cancel", "shutdown", "deadline", "timeout", "suspend"}

AttemptType == [outcome : Outcomes, reason : Reasons, window : Times, timer : Times,
                stopped : BOOLEAN, reported : BOOLEAN, settling : BOOLEAN,
                shutdown : BOOLEAN, losing : BOOLEAN]

ExpireAnswers == {"stale", "cancel_requested", "deadline_exceeded", "timeout_exceeded", "not_due"}

AskType == [st : {"none", "sent", "answered", "waiting", "done", "failed"},
            answer : ExpireAnswers \union {"none"}, confirm : BOOLEAN]

CallType == [op : {"none", "complete", "ack", "expire", "fail", "release", "sleep", "signal"},
             answer : {"none", "sent", "accepted", "refused", "scheduled", "elapsed", "retry",
                       "failed", "released"} \union ExpireAnswers]

Beats == {"claim", "idle", "sent", "busy", "stale", "cancel_requested", "deadline_exceeded",
          "timeout_exceeded", "accepted"}

Recordings == {"unknown", "lease_lost", "timeout", "suspended", "succeeded", "canceled", "retry",
               "failed", "released", "deadline_exceeded"}

\* Verdict v is what an expiry answer tells.
Told(answer, v) ==
    /\ answer = "deadline_exceeded" => v = "deadline_exceeded"
    /\ answer = "timeout_exceeded" => v = "timeout_exceeded"

\* The answer to statement op is one it can give, and tells verdict v.
Answers(op, answer, v) ==
    /\ op = "none" => answer = "none"
    /\ op \in {"complete", "ack"} => answer \in {"sent", "accepted", "refused"}
    /\ op \in {"sleep", "signal"} => answer \in {"sent", "scheduled", "elapsed", "refused"}
    /\ op = "expire" => answer \in ExpireAnswers \union {"sent"}
    /\ op = "fail" =>
          answer \in {"sent", "stale", "cancel_requested", "retry", "failed"} \union Boundaries
    /\ op = "release" =>
          answer \in {"sent", "stale", "cancel_requested", "released"} \union Boundaries
    /\ (op = "complete" /\ answer = "accepted") => v = "succeeded"
    /\ (op = "ack" /\ answer = "accepted") => v = "canceled"
    /\ answer = "scheduled" => v = "suspended"
    /\ answer \in {"retry", "failed", "released"} => v = answer
    /\ Told(answer, v)

\* The statement executeTask awaits at p.
Awaits(p, op) ==
    /\ p = "waiting" => op \in {"sleep", "signal"}
    /\ p = "completing" => op = "complete"
    /\ p \in {"refused", "acknowledging", "confirming", "requested"} => op = "ack"
    /\ p = "failing" => op = "fail"
    /\ p = "releasing" => op = "release"
    /\ p = "asking" => op = "expire"
    /\ p \in {"claiming", "claimed", "running", "returned", "threw", "settling", "reconciling",
              "sharing", "done"} => op = "none"

Places == {"claiming", "claimed", "running", "waiting", "returned", "threw", "completing",
           "refused", "acknowledging", "confirming", "settling", "failing", "releasing",
           "requested", "reconciling", "asking", "sharing", "done"}

\* Fields b of the attempt, next to a row r and the times l that are left: the
\* window is within the lease, the abort reason and the outcome are confirmed.
Sound(b, r, l) ==
    /\ b \in AttemptType
    /\ r.state = "mine" => b.window <= r.lease
    /\ r.verdict = "lapsed" => b.window <= 0
    /\ b.reason = "deadline" => l.deadline = 0
    /\ b.reason = "timeout" => l.timeout = 0
    /\ b.outcome = "suspended" => r.verdict = "suspended"
    /\ b.outcome = "deadline_exceeded" => r.verdict = "deadline_exceeded"
    /\ b.outcome = "attempt_timeout" => r.verdict = "timeout_exceeded"

\* A round x that left g ago opens no window beyond the lease, and reports a
\* boundary only when it was reached.
Reported(x, g, r, l) ==
    /\ x \in {"claim", "accepted"} =>
          /\ r.state = "mine" => Lease - g <= r.lease
          /\ r.verdict = "lapsed" => g >= Lease
    /\ x = "deadline_exceeded" => l.deadline = 0
    /\ x = "timeout_exceeded" => l.timeout = 0

\* An expiry request k tells a verdict, and its boundary was reached.
Asked(k, r, l) ==
    /\ k \in AskType /\ Told(k.answer, r.verdict)
    /\ k.answer = "deadline_exceeded" => l.deadline = 0
    /\ k.answer = "timeout_exceeded" => l.timeout = 0

\* Recording x tells verdict v.
Recorded(x, v) ==
    /\ x \in Recordings
    /\ x = "timeout" => v = "timeout_exceeded"
    /\ x \notin {"unknown", "lease_lost", "timeout"} => v = x

\* A window that is closed has aborted the handler.
Closed(b) == b.window = Off => b.reason # "none"

\* Between the construction of an attempt and its end that holds, and nothing happens to an
\* attempt before it is constructed.
Begun(b, p, x, k) ==
    /\ p \in Places
    /\ p \notin {"claiming", "done"} => Closed(b)
    /\ p = "claiming" => ~b.stopped /\ x = "claim" /\ k = NoAsk
    /\ x = "claim" => p = "claiming"

Inv ==
    /\ row \in RowType /\ (Mine <=> row.verdict = "none")
    /\ left \in [{"deadline", "timeout"} -> Times]
    /\ beat \in Beats /\ age \in 0..Lease
    /\ Sound(a, row, left)
    /\ Reported(beat, age, row, left)
    /\ Asked(ask, row, left)
    /\ call \in CallType
    /\ Answers(call.op, call.answer, row.verdict) /\ Awaits(pc, call.op)
    /\ Recorded(recorded, row.verdict)
    /\ Begun(a, pc, beat, ask)
=============================================================================
