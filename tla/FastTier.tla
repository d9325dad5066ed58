------------------------------ MODULE FastTier ------------------------------
(***************************************************************************)
(* The fast tier: one runtime row per live task, claimed, renewed,         *)
(* completed and recovered in batches.  A batch is a transaction that      *)
(* locks rows one by one; what it wrote is visible when it commits.  A     *)
(* call about one row takes its only lock and commits, in one step.        *)
(*                                                                         *)
(* A claim skips locked rows, with one exception: a row of its snapshot    *)
(* that another worker leased and committed since.  It follows that row to *)
(* its newest version, waits for whoever holds it, and keeps the lock on   *)
(* it.  Only a claim has a lock timeout.                                   *)
(*                                                                         *)
(* Payloads, attempt history, and retry delays are left out: a retried     *)
(* task is ready at once, at its old place in the order of claiming.  A    *)
(* closed task keeps its row here, with how it was closed, in place of its *)
(* outcome row.                                                            *)
(***************************************************************************)
EXTENDS Integers, FiniteSets, FiniteSetsExt

CONSTANTS
    N,           \* tasks are 1..N, in the order of identity
    ClaimOrder,  \* the place of each task in the order of claiming, by priority and time
    Workers,
    Tx,          \* concurrent batch transactions
    Lease,
    Timeout,     \* execution timeout of an attempt, Never for none
    Deadlines,   \* the deadline of each task, Never for none
    MaxAttempts,
    MaxClaims,   \* bound on the claims of one task
    MaxTime,
    Never

Tasks == 1..N
None == "none"

ASSUME FastAssumption ==
    /\ N \in Nat /\ Lease \in Nat /\ Timeout \in Nat /\ Never \in Nat
    /\ Deadlines \in [Tasks -> Nat] /\ ClaimOrder \in [Tasks -> Nat]

VARIABLES
    row,    \* committed rows
    tx,     \* the transactions in progress
    leases, \* the leases <<worker, task, fence>> that workers were given and have not answered
    now

vars == <<row, tx, leases, now>>

NoWrites == [r \in {} |-> None]

\* A transaction: its locks, what it wrote, the rows it has yet to lock, and what it was asked.
NewTx(op, worker, clock, todo) ==
    [op |-> op, worker |-> worker, held |-> {}, w |-> NoWrites, todo |-> todo, clock |-> clock,
     picked |-> {}, batch |-> {}, big |-> {}, failed |-> FALSE]

NoTx == NewTx("idle", None, 0, {})

\* The live tasks are ready; the others have no row to claim.
InitWith(live) ==
    /\ row = [r \in Tasks |-> [state |-> IF r \in live THEN "ready" ELSE "closed", worker |-> None,
                               fence |-> 0, expires |-> Never, timeout |-> Never, attempt |-> 1,
                               cancel |-> FALSE, as |-> None]]
    /\ tx = [x \in Tx |-> NoTx]
    /\ leases = {}
    /\ now = 0

Init == \E live \in SUBSET Tasks : InitWith(live)

Idle(x) == tx[x].op = "idle"
Free(r) == \A x \in Tx : r \notin tx[x].held
Holder(r) == CHOOSE x \in Tx : r \in tx[x].held

\* A row as transaction x sees it.
Seen(x, r) == IF r \in DOMAIN tx[x].w THEN tx[x].w[r] ELSE row[r]

\* The writes f laid over the rows g.
Over(f, g) == [r \in DOMAIN f \union DOMAIN g |-> IF r \in DOMAIN f THEN f[r] ELSE g[r]]

Begin(x, record) ==
    /\ Idle(x)
    /\ tx' = [tx EXCEPT ![x] = record]
    /\ UNCHANGED <<row, leases, now>>

\* x commits its writes and the given ones.
Commit(x, writes) ==
    /\ row' = Over(writes, Over(tx[x].w, row))
    /\ tx' = [tx EXCEPT ![x] = NoTx]

----------------------------------------------------------------------------
(* How rows change *)

\* fast_retry_v1
Retried(a) ==
    [a EXCEPT !.state = "ready", !.attempt = @ + 1, !.worker = None, !.expires = Never, !.timeout = Never]

\* fast_finish_v1
Finished(a, as) == [a EXCEPT !.state = "closed", !.as = as]

AgainOr(a, as) == IF a.attempt < MaxAttempts THEN Retried(a) ELSE Finished(a, as)

\* fast_terminalize_deadline_v1
AtDeadline(a) == Finished(a, IF a.cancel THEN "canceled" ELSE "deadline")

\* The deadline comes first: fast_timeout_owned_v1 and fast_expire_owned_v1.
DeadlineFirst(r, a) == Deadlines[r] <= now /\ (a.timeout > now \/ Deadlines[r] <= a.timeout)

\* fast_expire_owned_v1, for a row that crossed its deadline or its timeout.
Expired(r, a) == IF DeadlineFirst(r, a) THEN AtDeadline(a) ELSE AgainOr(a, "timeout")

PastBoundary(r, a) == Deadlines[r] <= now \/ a.timeout <= now

Owned(a, w, f) == a.state = "active" /\ a.worker = w /\ a.fence = f

\* fast_fail_v1 on a row that is locked; the failure may forbid another attempt.
Failed(r, a, w, f, retryable) ==
    IF ~Owned(a, w, f) \/ a.expires <= now \/ a.cancel THEN a
    ELSE IF PastBoundary(r, a) THEN Expired(r, a)
    ELSE IF retryable THEN AgainOr(a, "failed") ELSE Finished(a, "failed")

----------------------------------------------------------------------------
(* fast_claim_v1 *)

Claimable(r, a, clock) == a.state = "ready" /\ Deadlines[r] > clock

\* The claim of worker w when the rows are as seen.
ClaimOf(w, seen) ==
    NewTx("claim", w, now, {r \in Tasks : Claimable(r, seen[r], now) /\ seen[r].fence < MaxClaims})

BeginClaim(x, w) == Begin(x, ClaimOf(w, row))

\* The row that is next in the order of claiming.
NextClaimed(rows) == CHOOSE r \in rows : \A q \in rows : ClaimOrder[r] <= ClaimOrder[q]

\* Someone else holds the row.
Taken(x, r) == ~Free(r) /\ Holder(r) # x

\* The next row of the snapshot: picked, skipped, or followed and kept although it is rejected.
ClaimRow(x) ==
    /\ tx[x].op = "claim" /\ tx[x].todo # {}
    /\ LET r == NextClaimed(tx[x].todo)
           a == Seen(x, r)
           fresh == Claimable(r, a, tx[x].clock)
       IN  /\ ~Taken(x, r) \/ fresh
           /\ tx' = [tx EXCEPT ![x] =
                  [tx[x] EXCEPT !.todo = @ \ {r},
                            !.picked = IF ~Taken(x, r) /\ fresh THEN @ \cup {r} ELSE @,
                            !.held = IF ~Taken(x, r) /\ a.state # "closed" THEN @ \cup {r} ELSE @]]
    /\ UNCHANGED <<row, leases, now>>

Claimed(x, r) ==
    [Seen(x, r) EXCEPT !.state = "active", !.worker = tx[x].worker, !.fence = @ + 1,
                       !.expires = tx[x].clock + Lease,
                       !.timeout = IF Timeout = Never THEN Never ELSE tx[x].clock + Timeout]

EndClaim(x) ==
    /\ tx[x].op = "claim" /\ tx[x].todo = {}
    /\ Commit(x, [r \in tx[x].picked |-> Claimed(x, r)])
    /\ leases' = (leases \ tx[x].batch) \cup {<<tx[x].worker, r, Seen(x, r).fence + 1>> : r \in tx[x].picked}
    /\ UNCHANGED now

\* The claim waits for a row.
Follows(x) ==
    /\ tx[x].op = "claim" /\ tx[x].todo # {}
    /\ LET r == NextClaimed(tx[x].todo) IN Taken(x, r) /\ ~Claimable(r, row[r], tx[x].clock)

\* Faulty: a claim that waits for a row has no lock timeout.
ClaimTimesOut_never(x) == FALSE

\* lock_timeout: the subtransaction rolls back and claims nothing.  A completion before it stays.
ClaimTimesOut(x) ==
    /\ Follows(x)
    /\ Commit(x, NoWrites)
    /\ leases' = leases \ tx[x].batch
    /\ UNCHANGED now

----------------------------------------------------------------------------
(* fast_heartbeat_many_v1 and fast_complete_many_v1 *)

\* Faulty: a heartbeat locks its rows the other way round.
NextLocked_backwards(op, rows) == IF op = "heartbeat" THEN Max(rows) ELSE Min(rows)

\* Both lock the worker's rows in the order of identity.
NextLocked(op, rows) == Min(rows)

Rows(batch) == {l[2] : l \in batch}

\* The batch holds leases that the worker was given, at most one of each task.
BeginBatch(x, op, w, batch, big) ==
    /\ batch # {} /\ batch \subseteq {l \in leases : l[1] = w}
    /\ \A l \in batch, k \in batch : l[2] = k[2] => l = k
    /\ big \subseteq batch
    /\ LET todo == {r \in Rows(batch) : row[r].worker = w /\ row[r].state = "active"}
       IN  Begin(x, [NewTx(op, w, 0, todo) EXCEPT !.batch = batch, !.big = big])

Batch == {"heartbeat", "complete"}

\* A row that changed hands while the batch waited for it is not the worker's any more; PostgreSQL
\* keeps its lock all the same.  A row that was deleted has none.
LockRow(x) ==
    /\ tx[x].op \in Batch /\ tx[x].todo # {}
    /\ LET r == NextLocked(tx[x].op, tx[x].todo)
           kept == row[r].state # "closed"
       IN  /\ Free(r)
           /\ tx' = [tx EXCEPT ![x] = [tx[x] EXCEPT !.todo = @ \ {r}, !.held = IF kept THEN @ \cup {r} ELSE @]]
    /\ UNCHANGED <<row, leases, now>>

FenceIn(batch, r) == (CHOOSE l \in batch : l[2] = r)[3]

\* Oversized results fail first, each by the clock of its own call; that may take time.
FailOversized(x) ==
    /\ tx[x].op = "complete" /\ tx[x].todo = {} /\ ~tx[x].failed
    /\ LET big == Rows(tx[x].big)
           write(r) == Failed(r, row[r], tx[x].worker, FenceIn(tx[x].big, r), TRUE)
       IN  tx' = [tx EXCEPT ![x] = [tx[x] EXCEPT !.failed = TRUE, !.clock = now,
                                             !.w = [r \in big \cap tx[x].held |-> write(r)]]]
    /\ UNCHANGED <<row, leases, now>>

\* Faulty: the leases are judged by the clock from before the failures.
CompletionClock_early(x) == tx[x].clock

\* The clock is read again after the failures.
CompletionClock(x) == now

\* The DELETE.  The row may be completed: its fence, lease, boundaries and cancellation allow it.
Completes(x, r) ==
    LET a == Seen(x, r)
    IN  /\ Owned(a, tx[x].worker, FenceIn(tx[x].batch, r))
        /\ a.expires > CompletionClock(x) /\ Deadlines[r] > CompletionClock(x) /\ a.timeout > CompletionClock(x)
        /\ ~a.cancel

Completed(x) ==
    [r \in {q \in tx[x].held \ Rows(tx[x].big) : Completes(x, q)} |-> Finished(Seen(x, r), "succeeded")]

EndComplete(x) ==
    /\ tx[x].op = "complete" /\ tx[x].todo = {} /\ tx[x].failed
    /\ Commit(x, Completed(x))
    /\ leases' = leases \ tx[x].batch
    /\ UNCHANGED now

\* complete_many_and_claim_v1: the transaction goes on to claim, and keeps its locks.  The worker
\* has its answer when the claim ends.
CompleteAndClaim(x) ==
    /\ tx[x].op = "complete" /\ tx[x].todo = {} /\ tx[x].failed
    /\ LET w == Over(Completed(x), tx[x].w)
       IN  tx' = [tx EXCEPT ![x] = [ClaimOf(@.worker, Over(w, row)) EXCEPT !.held = tx[x].held, !.w = w,
                                                                         !.batch = tx[x].batch]]
    /\ UNCHANGED <<row, leases, now>>

\* The UPDATE renews what may be renewed.
Renews(x, r) ==
    /\ Owned(row[r], tx[x].worker, FenceIn(tx[x].batch, r))
    /\ row[r].expires > now /\ ~row[r].cancel /\ ~PastBoundary(r, row[r])

EndHeartbeat(x) ==
    /\ tx[x].op = "heartbeat" /\ tx[x].todo = {}
    /\ Commit(x, [r \in {q \in tx[x].held : Renews(x, q)} |-> [row[r] EXCEPT !.expires = now + Lease]])
    /\ UNCHANGED <<leases, now>>

----------------------------------------------------------------------------
(* fast_recover_expired_v1 *)

\* The scan reads an unlocked snapshot at the time of the tick.
Due(r, a, clock) ==
    \/ a.state = "ready" /\ Deadlines[r] <= clock
    \/ /\ a.state = "active" /\ Min({a.expires, a.timeout, Deadlines[r]}) <= clock
       /\ a.cancel => a.expires <= clock \/ Deadlines[r] <= clock

BeginRecover(x) ==
    /\ \E r \in Tasks : Due(r, row[r], now)
    /\ Begin(x, NewTx("recover", None, now, {r \in Tasks : Due(r, row[r], now)}))

\* Faulty: what the scan found is recovered without another look at the lease.
LeaseLapsed_scan(a, clock) == a.state = "active"

\* Judged again under the row's lock, by the clock of the scan.
LeaseLapsed(a, clock) == a.state = "active" /\ a.expires <= clock

\* Faulty: a lapsed lease is retried whether or not a cancellation was requested.
AtLapse_retry(a) == AgainOr(a, "lease")

AtLapse(a) == IF a.cancel THEN Finished(a, "canceled") ELSE AgainOr(a, "lease")

Recovered(r, a, clock) ==
    CASE a.state = "closed" -> a
      [] /\ a.state # "closed" /\ Deadlines[r] <= clock
         /\ a.state = "ready" \/ a.cancel \/ a.timeout > clock \/ Deadlines[r] <= a.timeout -> AtDeadline(a)
      [] OTHER -> IF a.state = "active" /\ a.timeout <= clock /\ ~a.cancel
                  THEN AgainOr(a, "timeout")
                  ELSE IF LeaseLapsed(a, clock) THEN AtLapse(a) ELSE a

RecoverRow(x, r) ==
    /\ tx[x].op = "recover" /\ r \in tx[x].todo
    /\ LET new == Recovered(r, row[r], tx[x].clock)
       IN  tx' = [tx EXCEPT ![x] =
               [tx[x] EXCEPT !.todo = @ \ {r},
                         !.held = IF Free(r) THEN @ \cup {r} ELSE @,
                         !.w = IF Free(r) /\ new # row[r] THEN Over([q \in {r} |-> new], @) ELSE @]]
    /\ UNCHANGED <<row, leases, now>>

EndRecover(x) ==
    /\ tx[x].op = "recover" /\ tx[x].todo = {}
    /\ Commit(x, NoWrites)
    /\ UNCHANGED <<leases, now>>

----------------------------------------------------------------------------
(* Calls about one row *)

Write(r, new) ==
    /\ Free(r)
    /\ row' = [row EXCEPT ![r] = new]

\* fast_fail_v1
Fail(l, retryable) ==
    /\ l \in leases
    /\ Write(l[2], Failed(l[2], row[l[2]], l[1], l[3], retryable))
    /\ leases' = leases \ {l}
    /\ UNCHANGED <<tx, now>>

\* fast_expire_owned_v1, called by the worker whose boundary passed.
Expire(l) ==
    LET a == row[l[2]]
    IN  /\ l \in leases
        /\ Write(l[2], IF Owned(a, l[1], l[3]) /\ ~a.cancel /\ PastBoundary(l[2], a) THEN Expired(l[2], a) ELSE a)
        /\ leases' = leases \ {l}
        /\ UNCHANGED <<tx, now>>

\* fast_release_owned_v1
Release(l) ==
    LET r == l[2]
        a == row[r]
    IN  /\ l \in leases
        /\ Write(r, IF ~Owned(a, l[1], l[3]) \/ a.expires <= now \/ a.cancel THEN a
                    ELSE IF PastBoundary(r, a) THEN Expired(r, a)
                    ELSE [Retried(a) EXCEPT !.attempt = a.attempt])
        /\ leases' = leases \ {l}
        /\ UNCHANGED <<tx, now>>

\* fast_acknowledge_cancel_v1
AcknowledgeCancel(l) ==
    LET a == row[l[2]]
    IN  /\ l \in leases /\ a.cancel
        /\ Write(l[2], IF Owned(a, l[1], l[3]) /\ a.expires > now THEN Finished(a, "canceled") ELSE a)
        /\ leases' = leases \ {l}
        /\ UNCHANGED <<tx, now>>

\* fast_cancel_v1
Cancel(r) ==
    /\ row[r].state # "closed" /\ ~row[r].cancel
    /\ Write(r, IF row[r].state = "active" THEN [row[r] EXCEPT !.cancel = TRUE] ELSE Finished(row[r], "canceled"))
    /\ UNCHANGED <<tx, leases, now>>

Tick ==
    /\ now < MaxTime
    /\ now' = now + 1
    /\ UNCHANGED <<row, tx, leases>>

BatchStep(x) ==
    ClaimRow(x) \/ EndClaim(x) \/ ClaimTimesOut(x) \/ LockRow(x) \/ FailOversized(x) \/ EndComplete(x)
        \/ CompleteAndClaim(x) \/ EndHeartbeat(x) \/ (\E r \in tx[x].todo : RecoverRow(x, r)) \/ EndRecover(x)

\* Calls about the lease of one row.
Call(l) == (\E retryable \in BOOLEAN : Fail(l, retryable)) \/ Release(l) \/ Expire(l) \/ AcknowledgeCancel(l)

Claims == \E x \in Tx, w \in Workers : BeginClaim(x, w)

Batches ==
    \E x \in Tx, op \in Batch, w \in Workers :
        \E batch \in SUBSET leases : \E big \in SUBSET batch :
            (op = "heartbeat" => big = {}) /\ BeginBatch(x, op, w, batch, big)

Steps == \E x \in Tx : BatchStep(x)

Next ==
    \/ Claims \/ Batches \/ Steps \/ Tick
    \/ \E x \in Tx : BeginRecover(x)
    \/ \E l \in leases : Call(l)
    \/ \E r \in Tasks : Cancel(r)

Spec == Init /\ [][Next]_vars

----------------------------------------------------------------------------

\* x waits for a row that y holds.
Waits(x, y) ==
    /\ x # y
    /\ \/ Follows(x) /\ Holder(NextClaimed(tx[x].todo)) = y
       \/ tx[x].op \in Batch /\ tx[x].todo # {} /\ NextLocked(tx[x].op, tx[x].todo) \in tx[y].held

(***************************************************************************)
(* The only transactions that may wait for each other in a circle are ones *)
(* with a claim among them, and a claim gives up after its lock timeout:   *)
(* heartbeats and completions share a lock order, and recovery skips.  Any *)
(* transactions have one among them that waits for none of the others, or  *)
(* is such a claim.                                                        *)
(***************************************************************************)
OnlyClaimsDeadlock ==
    \A D \in (SUBSET Tx) \ {{}} : \E x \in D : Follows(x) \/ \A y \in D : ~Waits(x, y)

(***************************************************************************)
(* Every batch ends: no claim, heartbeat, completion or recovery waits for *)
(* ever for a row.  Where a claim follows a leased row to a transaction    *)
(* that waits for the claim in turn, the lock timeout of fast_claim_v1     *)
(* breaks the circle.                                                      *)
(***************************************************************************)
BatchesEnd == \A x \in Tx : []<>Idle(x)

(***************************************************************************)
(* fast_complete_many_v1: a task succeeds only while its lease, deadline   *)
(* and timeout have not passed, although other results of the batch fail   *)
(* first and the locks and failures take time.                             *)
(***************************************************************************)
SucceedsInTime ==
    \A x \in Tx : tx[x].op = "complete" /\ tx'[x].op # "complete" =>
        LET written == IF tx'[x].op = "claim" THEN Over(tx'[x].w, row) ELSE row'
        IN  \A r \in Tasks : written[r].as = "succeeded" /\ row[r].as # "succeeded" =>
                row[r].expires > now /\ Deadlines[r] > now /\ row[r].timeout > now

(***************************************************************************)
(* fast_recover_expired_v1: recovery never takes a task whose lease was    *)
(* renewed, released or claimed again after the scan.  An active row is    *)
(* ended or retried by a transaction that recovers only past one of its    *)
(* boundaries.                                                             *)
(***************************************************************************)
RecoversWhenDue ==
    \A x \in Tx, r \in Tasks :
        tx[x].op = "recover" /\ Idle(x)' /\ row'[r] # row[r] =>
            \/ row[r].expires <= now \/ Deadlines[r] <= now \/ row[r].timeout <= now

(***************************************************************************)
(* fast_cancel_v1: a cancellation that was answered "cancel_requested" is  *)
(* never lost.  The task does not run again and ends canceled, whichever   *)
(* of its worker, a late answer and recovery ends it.                      *)
(***************************************************************************)
KeepsCancellation ==
    \A r \in Tasks : row[r].cancel =>
        /\ row'[r].cancel /\ row'[r].state # "ready" /\ row'[r].fence = row[r].fence
        /\ row'[r].state = "closed" => row'[r].as = "canceled"

(***************************************************************************)
(* The fast tier decides under the lock of a row: the three above, of      *)
(* every step.                                                             *)
(***************************************************************************)
FastTierDecides == [][RecoversWhenDue /\ KeepsCancellation /\ SucceedsInTime]_vars
=============================================================================
