---------------------------- MODULE TaskContract ----------------------------
(***************************************************************************)
(* What the queue promises of a task, whatever rows, clocks, leases and    *)
(* recovery passes bring it about.                                         *)
(*                                                                         *)
(* A task is submitted once.  It waits until one worker is started on it   *)
(* under a token that no start before it had.  A start ends in a           *)
(* suspension, which keeps the attempt, in a retry, which uses the attempt *)
(* up and needs another one, or in the one outcome of the task.  A worker  *)
(* may be asked to stop; then nothing but cancellation ends the start.     *)
(***************************************************************************)
EXTENDS Naturals

CONSTANT Tasks

VARIABLES
    task,     \* the standing of each task
    granted   \* tokens handed out so far

cvars == <<task, granted>>

Unknown == [status |-> "unknown", attempt |-> 0, limit |-> 0, token |-> 0, stopping |-> FALSE]

Init ==
    /\ task = [t \in Tasks |-> Unknown]
    /\ granted = 0

-----------------------------------------------------------------------------
(* How the standing of a task may change, from a to b *)

Submitted(a, b) ==
    /\ a = Unknown
    /\ b \in [status : {"waiting", "failed"}, attempt : {1}, limit : Nat, token : {0}, stopping : {FALSE}]

\* The standing of the same task with another status, attempt, token and wish.
Becomes(a, b, status, attempt, token, stopping) ==
    b = [status |-> status, attempt |-> attempt, limit |-> a.limit, token |-> token,
         stopping |-> stopping]

Running(a) == a.status = "running" /\ ~a.stopping

Suspended(a, b) == Running(a) /\ Becomes(a, b, "waiting", a.attempt, 0, FALSE)

Retried(a, b) ==
    Running(a) /\ a.attempt < a.limit /\ Becomes(a, b, "waiting", a.attempt + 1, 0, FALSE)

AskedToStop(a, b) == Running(a) /\ Becomes(a, b, "running", a.attempt, a.token, TRUE)

\* Only a worker makes a task succeed.  A task that runs is canceled exactly
\* when its worker was asked to stop.
Ended(a, b) ==
    \E verdict \in {"succeeded", "failed", "canceled"} :
        /\ a.status \in {"waiting", "running"}
        /\ verdict = "succeeded" => a.status = "running"
        /\ a.status = "running" => (verdict = "canceled" <=> a.stopping)
        /\ Becomes(a, b, verdict, a.attempt, 0, FALSE)

Moved(a, b) ==
    Submitted(a, b) \/ Suspended(a, b) \/ Retried(a, b) \/ AskedToStop(a, b) \/ Ended(a, b)

Started(a, b, token) == a.status = "waiting" /\ Becomes(a, b, "running", a.attempt, token, FALSE)

-----------------------------------------------------------------------------

\* A worker starts on one task, under a new token.
Start ==
    /\ granted' = granted + 1
    /\ \E t \in Tasks :
          /\ Started(task[t], task'[t], granted')
          /\ \A u \in Tasks : u # t => task'[u] = task[u]

\* A call or a recovery pass moves any number of tasks.
Move ==
    /\ granted' = granted
    /\ \A t \in Tasks : task'[t] = task[t] \/ Moved(task[t], task'[t])

Next == Start \/ Move

Spec == Init /\ [][Next]_cvars
=============================================================================
