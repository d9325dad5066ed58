--------------------------- MODULE FastTierProofs ---------------------------
(***************************************************************************)
(* Theorems about the fast tier, for any number of tasks, workers and      *)
(* transactions, and any lease, timeout and deadlines.                     *)
(*                                                                         *)
(* FastInv says what a transaction knows of the rows it holds while others *)
(* run: no two transactions hold a row, a transaction writes only rows     *)
(* that it holds and only as they may change, a claim has picked ready     *)
(* rows, recovery has written rows that were past a boundary, and a        *)
(* heartbeat or completion holds only rows below those it has still to     *)
(* lock.                                                                   *)
(***************************************************************************)
EXTENDS FastTier, WellFoundedInduction, TLAPS

Endings == {None, "canceled", "deadline", "timeout", "failed", "lease", "succeeded"}

FastRow ==
    [state : {"ready", "active", "closed"}, worker : Workers \union {None}, fence : Nat,
     expires : Nat, timeout : Nat, attempt : Nat, cancel : BOOLEAN, as : Endings]

LeaseType == (Workers \union {None}) \X Tasks \X Nat

\* What KeepsCancellation asks of a row that becomes another.
Keeps(a, b) ==
    a.cancel =>
        /\ b.cancel /\ b.state # "ready" /\ b.fence = a.fence
        /\ b.state = "closed" => b.as = "canceled"

\* Row a may become row b.
May(a, b) == b \in FastRow /\ Keeps(a, b) /\ Keeps(b, b)

Writes == UNION {[S -> FastRow] : S \in SUBSET Tasks}

TxType ==
    [op : {"idle", "claim", "heartbeat", "complete", "recover"}, worker : Workers \union {None},
     held : SUBSET Tasks, w : Writes, todo : SUBSET Tasks, clock : Nat, picked : SUBSET Tasks,
     batch : SUBSET LeaseType, big : SUBSET LeaseType, failed : BOOLEAN]

\* A transaction writes rows that it holds, and only as they may change.
TxWrites(t, rows) ==
    /\ DOMAIN t.w \subseteq t.held
    /\ \A r \in DOMAIN t.w : May(rows[r], t.w[r])

\* A row as transaction t sees it.
SeenBy(t, rows, r) == IF r \in DOMAIN t.w THEN t.w[r] ELSE rows[r]

\* A boundary of the row has passed.
Passed(r, a, clock) == a.expires <= clock \/ Deadlines[r] <= clock \/ a.timeout <= clock

\* What each operation knows of the rows it holds: a claim picked rows that are ready; a completion
\* wrote results that are too large, and none of them succeeded; recovery wrote rows that were due;
\* batches lock in the order of identity.
TxKnows(t, rows, clock) ==
    /\ t.clock <= clock
    /\ t.op = "idle" => t.held = {}
    /\ t.op = "claim" =>
          /\ t.picked \subseteq t.held
          /\ \A r \in t.picked : SeenBy(t, rows, r).state = "ready"
    /\ t.op = "complete" =>
          \A r \in DOMAIN t.w : r \in Rows(t.big) /\ (t.w[r].as = "succeeded" => rows[r].as = "succeeded")
    /\ t.op = "recover" => \A r \in DOMAIN t.w : Passed(r, rows[r], clock)
    /\ t.op \in Batch => \A h \in t.held, q \in t.todo : h < q

TxSound(t, rows, clock) == t \in TxType /\ TxWrites(t, rows) /\ TxKnows(t, rows, clock)

\* No two transactions hold a row.
Apart(m) == \A x, y \in Tx : x # y => m[x].held \intersect m[y].held = {}

RowsSound(rows) ==
    /\ rows = [r \in Tasks |-> rows[r]]
    /\ \A r \in Tasks : May(rows[r], rows[r])

FastInv ==
    /\ now \in Nat /\ leases \subseteq LeaseType
    /\ RowsSound(row)
    /\ tx = [x \in Tx |-> tx[x]] /\ Apart(tx)
    /\ \A x \in Tx : TxSound(tx[x], row, now)

\* A set of naturals that is not empty has a least element.
LEMMA LeastNatural ==
    ASSUME NEW S \in SUBSET Nat, S # {}
    PROVE  \E x \in S : \A y \in S : x <= y
  <1> DEFINE less == {ss \in Nat \X Nat : ss[1] < ss[2]}
  <1>1. IsWellFoundedOn(less, Nat)
    BY NatLessThanWellFounded, Zenon DEF OpToRel
  <1>2. \A x, y \in Nat : <<y, x>> \in less \/ x <= y
    OBVIOUS
  <1> HIDE DEF less
  <1>3. PICK x \in S : \A y \in S : ~(<<y, x>> \in less)
    BY <1>1, WFMin, Zenon
  <1> QED BY <1>2, <1>3, Zenon

-----------------------------------------------------------------------------
(* How rows change *)

LEMMA RetriedRow ==
    ASSUME NEW a \in FastRow, ~a.cancel
    PROVE  /\ May(a, Retried(a)) /\ Retried(a).as = a.as
           /\ May(a, [Retried(a) EXCEPT !.attempt = a.attempt])
  <1>1. /\ Never \in Nat /\ None \in Workers \union {None} /\ a.attempt + 1 \in Nat
        /\ a.attempt \in Nat
    BY FastAssumption DEF FastAssumption, FastRow
  <1>2. Retried(a) \in FastRow
    BY <1>1, Zenon DEF Retried, FastRow
  <1>3. Retried(a).cancel = a.cancel /\ Retried(a).as = a.as
    BY Zenon DEF Retried, FastRow
  <1>4. LET b == [Retried(a) EXCEPT !.attempt = a.attempt]
        IN  b \in FastRow /\ b.cancel = Retried(a).cancel
    BY <1>1, <1>2, Zenon DEF FastRow
  <1> QED BY <1>2, <1>3, <1>4, Zenon DEF May, Keeps

LEMMA FinishedRow ==
    ASSUME NEW a \in FastRow, NEW as \in Endings, a.cancel => as = "canceled"
    PROVE  May(a, Finished(a, as)) /\ Finished(a, as).as = as
  <1>1. /\ Finished(a, as) \in FastRow /\ Finished(a, as).cancel = a.cancel
        /\ Finished(a, as).as = as /\ Finished(a, as).fence = a.fence
        /\ Finished(a, as).state = "closed"
    BY Zenon DEF Finished, FastRow
  <1> QED BY <1>1, Zenon DEF May, Keeps

LEMMA AgainRow ==
    ASSUME NEW a \in FastRow, ~a.cancel, NEW as \in Endings \ {"succeeded"}
    PROVE  /\ May(a, AgainOr(a, as))
           /\ AgainOr(a, as).as = "succeeded" => a.as = "succeeded"
  <1>1. CASE a.attempt < MaxAttempts
    BY <1>1, RetriedRow, ZenonT(30) DEF AgainOr
  <1>2. CASE ~(a.attempt < MaxAttempts)
    BY <1>2, FinishedRow, ZenonT(30) DEF AgainOr
  <1> QED BY <1>1, <1>2, Zenon

LEMMA ExpiredRow ==
    ASSUME NEW a \in FastRow, ~a.cancel, NEW r
    PROVE  /\ May(a, Expired(r, a))
           /\ Expired(r, a).as = "succeeded" => a.as = "succeeded"
BY AgainRow, FinishedRow, Zenon DEF Expired, AtDeadline, Endings

LEMMA FailedRow ==
    ASSUME NEW a \in FastRow, May(a, a), NEW r, NEW w, NEW f, NEW retryable
    PROVE  /\ May(a, Failed(r, a, w, f, retryable))
           /\ Failed(r, a, w, f, retryable).as = "succeeded" => a.as = "succeeded"
BY AgainRow, ExpiredRow, FinishedRow, Zenon DEF Failed, Endings

LEMMA RecoveredRow ==
    ASSUME NEW a \in FastRow, May(a, a), NEW r \in Tasks, NEW clock \in Nat
    PROVE  /\ May(a, Recovered(r, a, clock))
           /\ Recovered(r, a, clock) # a => Passed(r, a, clock)
  <1>1. May(a, AtDeadline(a))
    BY FinishedRow, Zenon DEF AtDeadline, Endings
  <1>2. May(a, AtLapse(a))
    BY FinishedRow, AgainRow, Zenon DEF AtLapse, Endings
  <1>3. ~a.cancel => May(a, AgainOr(a, "timeout"))
    BY AgainRow, Zenon DEF Endings
  <1> QED BY <1>1, <1>2, <1>3, Zenon DEF Recovered, LeaseLapsed, Passed

-----------------------------------------------------------------------------
(* What a step leaves alone *)

Decides == RecoversWhenDue /\ KeepsCancellation /\ SucceedsInTime

LEMMA TxStays ==
    ASSUME NEW t, NEW rows, NEW new, NEW c \in Nat, NEW d \in Nat, c <= d,
           TxSound(t, rows, c), RowsSound(rows), \A r \in t.held : new[r] = rows[r]
    PROVE  TxSound(t, new, d)
  <1>1. t \in TxType
    BY Zenon DEF TxSound
  <1>2. t.held \subseteq Tasks /\ t.clock \in Nat /\ DOMAIN t.w \subseteq t.held
    BY Zenon DEF TxSound, TxType, TxWrites
  <1>3. TxWrites(t, new)
    BY <1>2, Zenon DEF TxSound, TxWrites
  <1>4. \A r \in DOMAIN t.w : Passed(r, rows[r], c) => Passed(r, new[r], d)
    <2> SUFFICES ASSUME NEW r \in DOMAIN t.w, Passed(r, rows[r], c) PROVE Passed(r, new[r], d)
      BY Zenon
    <2>1. r \in Tasks /\ new[r] = rows[r] /\ rows[r] \in FastRow
      BY <1>2, Zenon DEF RowsSound, May
    <2> QED BY <2>1, FastAssumption DEF Passed, FastRow, FastAssumption
  <1>5. \A r \in t.held : SeenBy(t, new, r) = SeenBy(t, rows, r)
    BY Zenon DEF SeenBy
  <1>6. t.clock <= d
    BY <1>2 DEF TxSound, TxKnows
  <1>7. TxKnows(t, new, d)
    BY <1>2, <1>4, <1>5, <1>6, Zenon DEF TxSound, TxKnows
  <1> QED BY <1>1, <1>3, <1>7, ZenonT(30) DEF TxSound

\* One transaction moves on.  It changes rows that it holds, and takes only rows that are free.
LEMMA TxMoves ==
    ASSUME FastInv, NEW x \in Tx, NEW t, tx' = [tx EXCEPT ![x] = t], now' = now,
           leases' \subseteq LeaseType, RowsSound(row'), TxSound(t, row', now),
           \A r \in Tasks \ tx[x].held : row'[r] = row[r],
           \A r \in t.held : r \in tx[x].held \/ Free(r)
    PROVE  FastInv'
  <1>1. tx' = [y \in Tx |-> tx'[y]] /\ tx'[x] = t /\ \A y \in Tx \ {x} : tx'[y] = tx[y]
    BY Zenon DEF FastInv
  <1>2. Apart(tx')
    <2> SUFFICES ASSUME NEW y \in Tx, NEW z \in Tx, y # z, NEW r, r \in tx'[y].held, r \in tx'[z].held
                 PROVE  FALSE
      BY Zenon DEF Apart
    <2> QED BY <1>1, ZenonT(30) DEF FastInv, Apart, Free
  <1>3. ASSUME NEW y \in Tx PROVE TxSound(tx'[y], row', now)
    <2>1. CASE y = x
      BY <1>1, <2>1, Zenon
    <2>2. CASE y # x
      <3>1. TxSound(tx[y], row, now) /\ RowsSound(row) /\ now \in Nat
        BY Zenon DEF FastInv
      <3>2. tx[y].held \subseteq Tasks /\ tx[y].held \intersect tx[x].held = {}
        BY <2>2, Zenon DEF FastInv, Apart, TxSound, TxType
      <3>3. \A r \in tx[y].held : row'[r] = row[r]
        BY <3>2, Zenon
      <3> QED BY <1>1, <2>2, <3>1, <3>3, TxStays
    <2> QED BY <2>1, <2>2, Zenon
  <1> QED BY <1>1, <1>2, <1>3, ZenonT(30) DEF FastInv

\* Nothing is decided by a step that changes no row and ends no transaction.
LEMMA NothingDecided ==
    ASSUME FastInv, row' = row, \A x \in Tx : ~Idle(x) => tx'[x].op = tx[x].op
    PROVE  Decides
  <1>1. RecoversWhenDue /\ SucceedsInTime
    BY Zenon DEF RecoversWhenDue, SucceedsInTime, Idle
  <1>2. KeepsCancellation
    BY Zenon DEF FastInv, RowsSound, May, Keeps, KeepsCancellation
  <1> QED BY <1>1, <1>2, Zenon DEF Decides

\* A transaction that holds no more rows, and wrote none, is sound when it begins.
LEMMA BeginKeeps ==
    ASSUME FastInv, NEW x \in Tx, NEW t, Begin(x, t), t \in TxType, t.clock <= now,
           t.op # "idle", t.held = {}, DOMAIN t.w = {}, t.picked = {}
    PROVE  FastInv' /\ Decides
  <1>1. TxSound(t, row, now)
    BY Zenon DEF TxSound, TxWrites, TxKnows
  <1>2. FastInv'
    BY <1>1, TxMoves, Zenon DEF Begin, FastInv
  <1>3. \A y \in Tx : ~Idle(y) => tx'[y].op = tx[y].op
    BY Zenon DEF Begin, Idle, FastInv
  <1> QED BY <1>2, <1>3, NothingDecided, Zenon DEF Begin

\* A call changes one row that no transaction holds.
LEMMA WriteKeeps ==
    ASSUME FastInv, NEW r \in Tasks, NEW b, Write(r, b), May(row[r], b),
           UNCHANGED <<tx, now>>, leases' \subseteq leases
    PROVE  FastInv' /\ Decides
  <1>1. RowsSound(row) /\ now \in Nat
    BY Zenon DEF FastInv
  <1>2. row'[r] = b /\ (\A q \in Tasks \ {r} : row'[q] = row[q]) /\ RowsSound(row')
    BY <1>1, Zenon DEF Write, RowsSound, May
  <1>3. ASSUME NEW y \in Tx PROVE TxSound(tx[y], row', now)
    <2>1. \A q \in tx[y].held : row'[q] = row[q]
      BY <1>2, Zenon DEF Write, Free, FastInv, TxSound, TxType
    <2> QED BY <1>1, <2>1, TxStays DEF FastInv
  <1>4. FastInv'
    BY <1>2, <1>3, Zenon DEF FastInv
  <1>5. KeepsCancellation
    BY <1>1, <1>2, Zenon DEF KeepsCancellation, RowsSound, May, Keeps
  <1>6. RecoversWhenDue /\ SucceedsInTime
    BY Zenon DEF RecoversWhenDue, SucceedsInTime, Idle
  <1> QED BY <1>4, <1>5, <1>6, Zenon DEF Decides

-----------------------------------------------------------------------------
(* Transactions that begin and end *)

LEMMA FreshTx ==
    ASSUME NEW op \in {"idle", "claim", "heartbeat", "complete", "recover"},
           NEW w \in Workers \union {None}, NEW clock \in Nat, NEW todo \in SUBSET Tasks, NEW t,
           t = NewTx(op, w, clock, todo)
    PROVE  /\ t \in TxType /\ t.op = op /\ t.worker = w /\ t.clock = clock /\ t.todo = todo
           /\ t.held = {} /\ t.w = NoWrites /\ DOMAIN t.w = {} /\ t.picked = {}
  <1>1. /\ t \in TxType /\ t.op = op /\ t.worker = w /\ t.clock = clock /\ t.todo = todo
        /\ t.held = {} /\ t.w = NoWrites /\ t.picked = {}
    <2>1. NoWrites \in Writes
      BY DEF Writes, NoWrites
    <2> QED BY <2>1, Zenon DEF TxType, NewTx
  <1> QED BY <1>1, Zenon DEF NoWrites

LEMMA BeginClaimKeeps ==
    ASSUME FastInv, NEW x \in Tx, NEW w \in Workers, BeginClaim(x, w)
    PROVE  FastInv' /\ Decides
  <1> DEFINE todo == {r \in Tasks : Claimable(r, row[r], now) /\ row[r].fence < MaxClaims}
  <1>1. Begin(x, NewTx("claim", w, now, todo)) /\ todo \in SUBSET Tasks /\ now \in Nat
    BY Zenon DEF BeginClaim, ClaimOf, FastInv
  <1> QED BY <1>1, FreshTx, BeginKeeps

LEMMA BeginBatchKeeps ==
    ASSUME FastInv, NEW x \in Tx, NEW op \in Batch, NEW w \in Workers, NEW batch, NEW big,
           BeginBatch(x, op, w, batch, big)
    PROVE  FastInv' /\ Decides
  <1> DEFINE todo == {r \in Rows(batch) : row[r].worker = w /\ row[r].state = "active"}
             s == NewTx(op, w, 0, todo)
             t == [s EXCEPT !.batch = batch, !.big = big]
  <1>1. now \in Nat /\ batch \subseteq LeaseType /\ big \subseteq LeaseType /\ Begin(x, t)
    BY Zenon DEF FastInv, BeginBatch
  <1>2. todo \in SUBSET Tasks
    BY <1>1, Zenon DEF Rows, LeaseType
  <1> HIDE DEF todo
  <1>3. /\ s \in TxType /\ s.op = op /\ s.clock = 0 /\ s.held = {} /\ DOMAIN s.w = {}
        /\ s.picked = {}
    BY <1>2, FreshTx DEF Batch
  <1> HIDE DEF s
  <1>4. /\ t \in TxType /\ t.op = s.op /\ t.clock = s.clock /\ t.held = s.held /\ t.w = s.w
        /\ t.picked = s.picked
    BY <1>1, <1>3, Zenon DEF TxType
  <1> HIDE DEF t
  <1> QED BY <1>1, <1>3, <1>4, BeginKeeps DEF Batch

LEMMA BeginRecoverKeeps ==
    ASSUME FastInv, NEW x \in Tx, BeginRecover(x)
    PROVE  FastInv' /\ Decides
  <1> DEFINE todo == {r \in Tasks : Due(r, row[r], now)}
  <1>1. Begin(x, NewTx("recover", None, now, todo)) /\ todo \in SUBSET Tasks /\ now \in Nat
    BY Zenon DEF BeginRecover, FastInv
  <1> QED BY <1>1, FreshTx, BeginKeeps

\* A commit leaves the rows as the transaction wrote them.
LEMMA CommitKeeps ==
    ASSUME FastInv, NEW x \in Tx, NEW writes, Commit(x, writes), now' = now,
           leases' \subseteq LeaseType, DOMAIN writes \subseteq tx[x].held,
           \A r \in DOMAIN writes : May(row[r], writes[r])
    PROVE  /\ FastInv' /\ KeepsCancellation
           /\ \A r \in Tasks : row'[r] = IF r \in DOMAIN writes THEN writes[r]
                                         ELSE SeenBy(tx[x], row, r)
           /\ tx'[x].op = "idle" /\ \A y \in Tx \ {x} : tx'[y] = tx[y]
  <1>1. RowsSound(row) /\ TxSound(tx[x], row, now) /\ now \in Nat
    BY Zenon DEF FastInv
  <1>2. DOMAIN tx[x].w \subseteq tx[x].held /\ tx[x].held \subseteq Tasks /\ DOMAIN row = Tasks
    BY <1>1, Zenon DEF TxSound, TxType, TxWrites, RowsSound
  <1> DEFINE base == Over(tx[x].w, row)
  <1>3. DOMAIN base = Tasks /\ \A r \in Tasks : base[r] = SeenBy(tx[x], row, r)
    BY <1>2, ZenonT(30) DEF Over, SeenBy
  <1>4. row' = Over(writes, base)
    BY Zenon DEF Commit
  <1> HIDE DEF base
  <1>5. /\ row' = [r \in Tasks |-> row'[r]]
        /\ \A r \in Tasks : row'[r] = IF r \in DOMAIN writes THEN writes[r]
                                      ELSE SeenBy(tx[x], row, r)
    BY <1>2, <1>3, <1>4, ZenonT(30) DEF Over
  <1>6. \A r \in Tasks : May(row[r], row'[r])
    BY <1>1, <1>5, ZenonT(30) DEF SeenBy, TxSound, TxWrites, RowsSound
  <1>7. RowsSound(row')
    BY <1>5, <1>6, ZenonT(30) DEF RowsSound, May
  <1>8. \A r \in Tasks \ tx[x].held : row'[r] = row[r]
    BY <1>2, <1>5, ZenonT(30) DEF SeenBy
  <1>9. /\ NoTx \in TxType /\ NoTx.held = {} /\ DOMAIN NoTx.w = {} /\ NoTx.op = "idle"
        /\ NoTx.clock = 0
    BY FreshTx DEF NoTx
  <1>11. TxSound(NoTx, row', now)
    BY <1>1, <1>9 DEF TxSound, TxWrites, TxKnows, Batch
  <1>12. tx' = [tx EXCEPT ![x] = NoTx]
    BY Zenon DEF Commit
  <1>13. FastInv'
    BY <1>7, <1>8, <1>9, <1>11, <1>12, TxMoves, Zenon
  <1>14. KeepsCancellation
    BY <1>6, Zenon DEF KeepsCancellation, May, Keeps
  <1>15. tx'[x].op = "idle" /\ \A y \in Tx \ {x} : tx'[y] = tx[y]
    BY <1>9, <1>12, Zenon DEF FastInv
  <1> QED BY <1>5, <1>13, <1>14, <1>15, ZenonT(30)

\* Only the end of a recovery and of a completion decides more.
LEMMA CommitDecides ==
    ASSUME NEW x \in Tx, \A y \in Tx \ {x} : tx'[y] = tx[y], tx[x].op \notin {"recover", "complete"},
           KeepsCancellation
    PROVE  Decides
BY Zenon DEF Decides, RecoversWhenDue, SucceedsInTime, Idle

LEMMA ClaimTimesOutKeeps ==
    ASSUME FastInv, NEW x \in Tx, ClaimTimesOut(x)
    PROVE  FastInv' /\ Decides
  <1>1. Commit(x, NoWrites) /\ now' = now /\ leases' \subseteq leases /\ tx[x].op = "claim"
    BY Zenon DEF ClaimTimesOut, Follows
  <1>2. DOMAIN NoWrites = {} /\ leases \subseteq LeaseType
    BY Zenon DEF NoWrites, FastInv
  <1> QED BY <1>1, <1>2, CommitKeeps, CommitDecides, Zenon

LEMMA EndRecoverKeeps ==
    ASSUME FastInv, NEW x \in Tx, EndRecover(x)
    PROVE  FastInv' /\ Decides
  <1>1. Commit(x, NoWrites) /\ now' = now /\ leases' = leases /\ tx[x].op = "recover"
    BY Zenon DEF EndRecover
  <1>2. DOMAIN NoWrites = {} /\ leases \subseteq LeaseType
    BY Zenon DEF NoWrites, FastInv
  <1>3. /\ FastInv' /\ KeepsCancellation
        /\ \A r \in Tasks : row'[r] = SeenBy(tx[x], row, r)
        /\ tx'[x].op = "idle" /\ \A y \in Tx \ {x} : tx'[y] = tx[y]
    BY <1>1, <1>2, CommitKeeps, ZenonT(30)
  <1>4. \A r \in DOMAIN tx[x].w : Passed(r, row[r], now)
    BY <1>1, Zenon DEF FastInv, TxSound, TxKnows
  <1>5. RecoversWhenDue
    BY <1>3, <1>4, ZenonT(30) DEF RecoversWhenDue, SeenBy, Idle, Passed
  <1>6. SucceedsInTime
    BY <1>1, <1>3, Zenon DEF SucceedsInTime
  <1> QED BY <1>3, <1>5, <1>6, Zenon DEF Decides

LEMMA EndHeartbeatKeeps ==
    ASSUME FastInv, NEW x \in Tx, EndHeartbeat(x)
    PROVE  FastInv' /\ Decides
  <1> DEFINE renewed == {q \in tx[x].held : Renews(x, q)}
             writes == [r \in renewed |-> [row[r] EXCEPT !.expires = now + Lease]]
  <1>1. Commit(x, writes) /\ now' = now /\ leases' = leases /\ tx[x].op = "heartbeat"
    BY Zenon DEF EndHeartbeat
  <1>2. DOMAIN writes = renewed /\ renewed \subseteq tx[x].held /\ leases \subseteq LeaseType
    BY Zenon DEF FastInv
  <1>3. tx[x].held \subseteq Tasks /\ RowsSound(row) /\ now + Lease \in Nat
    BY FastAssumption DEF FastInv, TxSound, TxType, FastAssumption
  <1>4. ASSUME NEW r \in renewed PROVE May(row[r], writes[r])
    <2>1. row[r] \in FastRow /\ Keeps(row[r], row[r])
      BY <1>3, Zenon DEF RowsSound, May
    <2>2. /\ writes[r] \in FastRow /\ writes[r].cancel = row[r].cancel
          /\ writes[r].state = row[r].state /\ writes[r].fence = row[r].fence
          /\ writes[r].as = row[r].as
      BY <1>3, <2>1, Zenon DEF FastRow
    <2> QED BY <2>1, <2>2, Zenon DEF May, Keeps
  <1> HIDE DEF writes, renewed
  <1> QED BY <1>1, <1>2, <1>4, CommitKeeps, CommitDecides, ZenonT(30)

LEMMA EndClaimKeeps ==
    ASSUME FastInv, NEW x \in Tx, EndClaim(x)
    PROVE  FastInv' /\ Decides
  <1> DEFINE writes == [r \in tx[x].picked |-> Claimed(x, r)]
  <1>1. Commit(x, writes) /\ now' = now /\ tx[x].op = "claim"
    BY Zenon DEF EndClaim
  <1>2. /\ DOMAIN writes = tx[x].picked /\ tx[x].picked \subseteq tx[x].held
        /\ tx[x].held \subseteq Tasks /\ tx[x].worker \in Workers \union {None}
        /\ tx[x].clock \in Nat /\ RowsSound(row) /\ TxWrites(tx[x], row)
        /\ \A r \in tx[x].picked : Seen(x, r).state = "ready"
    BY <1>1, Zenon DEF FastInv, TxSound, TxType, TxKnows, Seen, SeenBy
  <1>3. ASSUME NEW r \in tx[x].picked
        PROVE  May(row[r], writes[r]) /\ Seen(x, r).fence + 1 \in Nat
    <2>1. May(row[r], Seen(x, r)) /\ Seen(x, r).state = "ready" /\ Seen(x, r) \in FastRow
      BY <1>2, Zenon DEF Seen, TxWrites, RowsSound, May
    <2>2. ~row[r].cancel /\ ~Seen(x, r).cancel
      BY <2>1, Zenon DEF May, Keeps
    <2>3. Claimed(x, r) \in FastRow /\ Claimed(x, r).cancel = Seen(x, r).cancel
      <3> DEFINE a == Seen(x, r)
                 end == IF Timeout = Never THEN Never ELSE tx[x].clock + Timeout
      <3>1. tx[x].clock + Lease \in Nat /\ end \in Nat /\ a \in FastRow
        BY <1>2, <2>1, FastAssumption DEF FastAssumption
      <3>2. Claimed(x, r) = [a EXCEPT !.state = "active", !.worker = tx[x].worker, !.fence = @ + 1,
                                      !.expires = tx[x].clock + Lease, !.timeout = end]
        BY Zenon DEF Claimed
      <3> HIDE DEF a, end
      <3>3. Claimed(x, r) = [state |-> "active", worker |-> tx[x].worker, fence |-> a.fence + 1,
                             expires |-> tx[x].clock + Lease, timeout |-> end,
                             attempt |-> a.attempt, cancel |-> a.cancel, as |-> a.as]
        BY <3>1, <3>2, ZenonT(30) DEF FastRow
      <3>4. a.fence + 1 \in Nat /\ a.attempt \in Nat /\ a.cancel \in BOOLEAN /\ a.as \in Endings
        BY <3>1 DEF FastRow
      <3>5. Claimed(x, r) \in FastRow /\ Claimed(x, r).cancel = a.cancel
        BY <1>2, <3>1, <3>3, <3>4 DEF FastRow
      <3> QED BY <3>5, Zenon DEF a
    <2>4. Seen(x, r).fence + 1 \in Nat
      BY <2>1 DEF FastRow
    <2> QED BY <2>2, <2>3, <2>4, Zenon DEF May, Keeps
  <1>4. leases' \subseteq LeaseType
    BY <1>2, <1>3 DEF EndClaim, FastInv, LeaseType
  <1> HIDE DEF writes
  <1> QED BY <1>1, <1>2, <1>3, <1>4, CommitKeeps, CommitDecides, Zenon

-----------------------------------------------------------------------------
(* Steps of a transaction *)

LEMMA LeastRow ==
    ASSUME NEW S \in SUBSET Tasks, S # {}
    PROVE  Min(S) \in S /\ \A q \in S : Min(S) <= q
  <1>1. S \in SUBSET Nat
    BY FastAssumption DEF FastAssumption, Tasks
  <1> QED BY <1>1, LeastNatural, ZenonT(30) DEF Min

LEMMA FirstRow ==
    ASSUME NEW S \in SUBSET Tasks, S # {}
    PROVE  NextClaimed(S) \in S
  <1> DEFINE places == {ClaimOrder[r] : r \in S}
  <1>1. places \in SUBSET Nat /\ places # {}
    BY FastAssumption, Zenon DEF FastAssumption
  <1>2. PICK k \in places : \A j \in places : k <= j
    BY <1>1, LeastNatural, Zenon
  <1> QED BY <1>2, ZenonT(30) DEF NextClaimed

\* A row that is not taken is free, or held by the transaction itself.
LEMMA NotTaken ==
    ASSUME NEW x \in Tx, NEW r, ~Taken(x, r)
    PROVE  Free(r) \/ r \in tx[x].held
BY Zenon DEF Taken, Free, Holder

LEMMA ClaimRowKeeps ==
    ASSUME FastInv, NEW x \in Tx, ClaimRow(x)
    PROVE  FastInv' /\ Decides
  <1> DEFINE s == tx[x]
             r == NextClaimed(s.todo)
             mine == ~Taken(x, r)
             fresh == Claimable(r, Seen(x, r), s.clock)
             picked == IF mine /\ fresh THEN s.picked \union {r} ELSE s.picked
             held == IF mine /\ Seen(x, r).state # "closed" THEN s.held \union {r} ELSE s.held
             t == [s EXCEPT !.todo = s.todo \ {r}, !.picked = picked, !.held = held]
  <1>1. /\ tx' = [tx EXCEPT ![x] = t] /\ s.op = "claim" /\ s.todo # {}
        /\ row' = row /\ leases' = leases /\ now' = now
    BY Zenon DEF ClaimRow
  <1>2. s \in TxType /\ TxWrites(s, row) /\ TxKnows(s, row, now)
    BY Zenon DEF FastInv, TxSound
  <1>3. r \in Tasks /\ s.held \subseteq Tasks /\ s.picked \subseteq Tasks
    BY <1>1, <1>2, FirstRow, ZenonT(30) DEF TxType
  <1>4. mine => Free(r) \/ r \in s.held
    BY NotTaken, Zenon
  <1>5. fresh => Seen(x, r).state = "ready"
    BY Zenon DEF Claimable
  <1> HIDE DEF mine, fresh, r
  <1>6. picked \subseteq Tasks /\ held \subseteq Tasks /\ s.todo \ {r} \subseteq Tasks
    BY <1>2, <1>3, Zenon DEF TxType
  <1>7. s.picked \subseteq s.held /\ picked \subseteq held
    BY <1>1, <1>2, <1>5, ZenonT(30) DEF TxKnows
  <1>8. \A q \in picked : SeenBy(s, row, q).state = "ready"
    BY <1>1, <1>2, <1>5, ZenonT(30) DEF TxKnows, Seen, SeenBy
  <1>9. \A q \in held : q \in s.held \/ Free(q)
    BY <1>4, ZenonT(30)
  <1>10. s.held \subseteq held
    BY Zenon
  <1> HIDE DEF picked, held, s
  <1>11. /\ t \in TxType /\ t.op = s.op /\ t.w = s.w /\ t.clock = s.clock
         /\ t.picked = picked /\ t.held = held
    BY <1>2, <1>6, Zenon DEF TxType
  <1> HIDE DEF t
  <1>12. TxWrites(t, row)
    BY <1>2, <1>10, <1>11, ZenonT(30) DEF TxWrites
  <1>13. TxKnows(t, row, now)
    BY <1>1, <1>2, <1>7, <1>8, <1>11, ZenonT(30) DEF TxKnows, SeenBy, Batch
  <1>14. TxSound(t, row, now)
    BY <1>11, <1>12, <1>13, ZenonT(30) DEF TxSound
  <1>15. FastInv'
    BY <1>1, <1>9, <1>11, <1>14, TxMoves, ZenonT(30) DEF FastInv, s
  <1>16. \A y \in Tx : tx'[y].op = tx[y].op
    BY <1>1, <1>11, ZenonT(30) DEF FastInv, s
  <1> QED BY <1>1, <1>15, <1>16, NothingDecided, ZenonT(30)

LEMMA LockRowKeeps ==
    ASSUME FastInv, NEW x \in Tx, LockRow(x)
    PROVE  FastInv' /\ Decides
  <1> DEFINE s == tx[x]
             r == Min(s.todo)
             kept == row[r].state # "closed"
             held == IF kept THEN s.held \union {r} ELSE s.held
             t == [s EXCEPT !.todo = s.todo \ {r}, !.held = held]
  <1>1. /\ tx' = [tx EXCEPT ![x] = t] /\ s.op \in Batch /\ s.todo # {} /\ Free(r)
        /\ row' = row /\ leases' = leases /\ now' = now
    BY ZenonT(30) DEF LockRow, NextLocked
  <1>2. s \in TxType /\ TxWrites(s, row) /\ TxKnows(s, row, now)
    BY Zenon DEF FastInv, TxSound
  <1>3. r \in s.todo /\ (\A q \in s.todo : r <= q) /\ s.todo \subseteq Tasks /\ s.held \subseteq Tasks
    BY <1>1, <1>2, LeastRow, ZenonT(30) DEF TxType
  <1> HIDE DEF kept, r
  <1>4. held \subseteq Tasks /\ s.todo \ {r} \subseteq Tasks /\ s.held \subseteq held
    BY <1>3, Zenon
  <1>5. \A q \in held : q \in s.held \/ Free(q)
    BY <1>1, Zenon
  <1>6. \A h \in held, q \in s.todo \ {r} : h < q
    <2>1. \A h \in s.held, q \in s.todo : h < q
      BY <1>1, <1>2, ZenonT(30) DEF TxKnows
    <2>2. \A q \in s.todo \ {r} : r < q
      BY <1>3, FastAssumption DEF FastAssumption, Tasks
    <2> QED BY <2>1, <2>2, ZenonT(30)
  <1> HIDE DEF held, s
  <1>7. /\ t \in TxType /\ t.op = s.op /\ t.w = s.w /\ t.clock = s.clock /\ t.big = s.big
        /\ t.todo = s.todo \ {r} /\ t.held = held
    BY <1>2, <1>4, Zenon DEF TxType
  <1> HIDE DEF t
  <1>8. TxWrites(t, row)
    BY <1>2, <1>4, <1>7, Zenon DEF TxWrites
  <1>9. TxKnows(t, row, now)
    BY <1>1, <1>2, <1>6, <1>7, Zenon DEF TxKnows, Batch
  <1>10. TxSound(t, row, now)
    BY <1>7, <1>8, <1>9, Zenon DEF TxSound
  <1>11. FastInv'
    BY <1>1, <1>5, <1>7, <1>10, TxMoves, Zenon DEF FastInv, s
  <1>12. \A y \in Tx : tx'[y].op = tx[y].op
    BY <1>1, <1>7, Zenon DEF FastInv, s
  <1> QED BY <1>1, <1>11, <1>12, NothingDecided, ZenonT(30)

LEMMA FailOversizedKeeps ==
    ASSUME FastInv, NEW x \in Tx, FailOversized(x)
    PROVE  FastInv' /\ Decides
  <1> DEFINE s == tx[x]
             failed(r) == Failed(r, row[r], s.worker, FenceIn(s.big, r), TRUE)
             rows == Rows(s.big) \intersect s.held
             w == [r \in rows |-> failed(r)]
             t == [s EXCEPT !.failed = TRUE, !.clock = now, !.w = w]
  <1>1. /\ tx' = [tx EXCEPT ![x] = t] /\ s.op = "complete" /\ s.todo = {}
        /\ row' = row /\ leases' = leases /\ now' = now
    BY Zenon DEF FailOversized
  <1>2. s \in TxType /\ TxKnows(s, row, now) /\ now \in Nat /\ RowsSound(row)
    BY Zenon DEF FastInv, TxSound
  <1>3. rows \subseteq Tasks /\ rows \subseteq s.held /\ s.held \subseteq Tasks
    BY <1>2, ZenonT(30) DEF TxType
  <1>4. \A r \in rows : /\ May(row[r], failed(r))
                        /\ failed(r).as = "succeeded" => row[r].as = "succeeded"
    <2> SUFFICES ASSUME NEW r \in rows
                 PROVE  /\ May(row[r], failed(r))
                        /\ failed(r).as = "succeeded" => row[r].as = "succeeded"
      BY Zenon
    <2>1. row[r] \in FastRow /\ May(row[r], row[r])
      BY <1>2, <1>3, ZenonT(30) DEF RowsSound, May
    <2> QED BY <2>1, FailedRow, ZenonT(30)
  <1> HIDE DEF failed
  <1>5. w \in [rows -> FastRow]
    BY <1>4, Zenon DEF May
  <1>6. /\ w \in Writes /\ DOMAIN w = rows
        /\ \A r \in rows : /\ May(row[r], w[r]) /\ r \in Rows(s.big)
                           /\ w[r].as = "succeeded" => row[r].as = "succeeded"
    BY <1>3, <1>4, <1>5, ZenonT(30) DEF Writes
  <1> HIDE DEF w, rows, s
  <1>7. /\ t \in TxType /\ t.op = s.op /\ t.w = w /\ t.clock = now /\ t.big = s.big
        /\ t.todo = s.todo /\ t.held = s.held
    BY <1>2, <1>6, Zenon DEF TxType
  <1> HIDE DEF t
  <1>8. TxWrites(t, row)
    BY <1>3, <1>6, <1>7, ZenonT(30) DEF TxWrites
  <1>9. TxKnows(t, row, now)
    BY <1>1, <1>2, <1>6, <1>7 DEF TxKnows, Batch
  <1>10. TxSound(t, row, now)
    BY <1>7, <1>8, <1>9, Zenon DEF TxSound
  <1>11. FastInv'
    BY <1>1, <1>7, <1>10, TxMoves, ZenonT(30) DEF FastInv, s
  <1>12. \A y \in Tx : tx'[y].op = tx[y].op
    BY <1>1, <1>7, ZenonT(30) DEF FastInv, s
  <1> QED BY <1>1, <1>11, <1>12, NothingDecided, ZenonT(30)

LEMMA RecoverRowKeeps ==
    ASSUME FastInv, NEW x \in Tx, NEW r \in tx[x].todo, RecoverRow(x, r)
    PROVE  FastInv' /\ Decides
  <1> DEFINE s == tx[x]
             new == Recovered(r, row[r], s.clock)
             held == IF Free(r) THEN s.held \union {r} ELSE s.held
             more == [q \in {r} |-> new]
             w == IF Free(r) /\ new # row[r] THEN Over(more, s.w) ELSE s.w
             t == [s EXCEPT !.todo = s.todo \ {r}, !.held = held, !.w = w]
  <1>1. /\ tx' = [tx EXCEPT ![x] = t] /\ s.op = "recover"
        /\ row' = row /\ leases' = leases /\ now' = now
    BY Zenon DEF RecoverRow
  <1>2. /\ s \in TxType /\ TxWrites(s, row) /\ TxKnows(s, row, now) /\ now \in Nat
        /\ RowsSound(row)
    BY Zenon DEF FastInv, TxSound
  <1>3. r \in Tasks /\ s.held \subseteq Tasks /\ s.todo \subseteq Tasks /\ s.clock \in Nat
    BY <1>2, Zenon DEF TxType
  <1>4. row[r] \in FastRow /\ May(row[r], row[r])
    BY <1>2, <1>3, ZenonT(30) DEF RowsSound, May
  <1>5. May(row[r], new) /\ (new # row[r] => Passed(r, row[r], s.clock))
    BY <1>3, <1>4, RecoveredRow, ZenonT(30)
  <1>6. Passed(r, row[r], s.clock) => Passed(r, row[r], now)
    <2>1. s.clock <= now
      BY <1>2, Zenon DEF TxKnows
    <2> QED BY <1>2, <1>3, <1>4, <2>1, FastAssumption, SMTT(30) DEF Passed, FastRow, FastAssumption
  <1>7. DOMAIN s.w \subseteq s.held /\ \A q \in DOMAIN s.w : Passed(q, row[q], now)
    BY <1>1, <1>2, Zenon DEF TxWrites, TxKnows
  <1> HIDE DEF new
  <1>8. /\ DOMAIN Over(more, s.w) = {r} \union DOMAIN s.w
        /\ \A q \in {r} \union DOMAIN s.w : Over(more, s.w)[q] = IF q = r THEN new ELSE s.w[q]
    BY Zenon DEF Over
  <1>9. Over(more, s.w) \in [{r} \union DOMAIN s.w -> FastRow]
    BY <1>2, <1>5, Zenon DEF Over, TxWrites, May
  <1> HIDE DEF more
  <1>10. w \in Writes
    BY <1>2, <1>3, <1>7, <1>9, SMTT(30) DEF Writes, TxType
  <1>11. /\ DOMAIN w \subseteq held
         /\ \A q \in DOMAIN w : May(row[q], w[q]) /\ Passed(q, row[q], now)
    BY <1>2, <1>5, <1>6, <1>7, <1>8, Zenon DEF TxWrites
  <1>12. held \subseteq Tasks /\ s.todo \ {r} \subseteq Tasks /\ \A q \in held : q \in s.held \/ Free(q)
    BY <1>3, Zenon
  <1> HIDE DEF w, held, s
  <1>13. /\ t \in TxType /\ t.op = s.op /\ t.w = w /\ t.clock = s.clock /\ t.held = held
    BY <1>2, <1>10, <1>12, Zenon DEF TxType
  <1> HIDE DEF t
  <1>14. TxWrites(t, row)
    BY <1>11, <1>13, ZenonT(30) DEF TxWrites
  <1>15. TxKnows(t, row, now)
    BY <1>1, <1>2, <1>11, <1>13, ZenonT(30) DEF TxKnows, Batch
  <1>16. TxSound(t, row, now)
    BY <1>13, <1>14, <1>15, ZenonT(30) DEF TxSound
  <1>17. FastInv'
    BY <1>1, <1>12, <1>13, <1>16, TxMoves, ZenonT(30) DEF FastInv, s
  <1>18. \A y \in Tx : tx'[y].op = tx[y].op
    BY <1>1, <1>13, ZenonT(30) DEF FastInv, s
  <1> QED BY <1>1, <1>17, <1>18, NothingDecided, ZenonT(30)

\* What a completion writes: rows it holds, that may succeed by their lease and boundaries.
LEMMA CompletedWrites ==
    ASSUME FastInv, NEW x \in Tx, tx[x].op = "complete"
    PROVE  /\ DOMAIN Completed(x) \subseteq tx[x].held
           /\ \A r \in DOMAIN Completed(x) :
                 /\ May(row[r], Completed(x)[r])
                 /\ row[r].expires > now /\ Deadlines[r] > now /\ row[r].timeout > now
           /\ \A r \in DOMAIN tx[x].w : tx[x].w[r].as = "succeeded" => row[r].as = "succeeded"
  <1> DEFINE done == {q \in tx[x].held \ Rows(tx[x].big) : Completes(x, q)}
  <1>1. DOMAIN Completed(x) = done
    BY ZenonT(30) DEF Completed
  <1>2. /\ RowsSound(row) /\ tx[x].held \subseteq Tasks
        /\ \A r \in DOMAIN tx[x].w : /\ r \in Rows(tx[x].big)
                                     /\ tx[x].w[r].as = "succeeded" => row[r].as = "succeeded"
    BY Zenon DEF FastInv, TxSound, TxType, TxKnows
  <1>3. ASSUME NEW r \in done
        PROVE  /\ May(row[r], Completed(x)[r])
               /\ row[r].expires > now /\ Deadlines[r] > now /\ row[r].timeout > now
    <2>1. Seen(x, r) = row[r] /\ row[r] \in FastRow
      BY <1>2, Zenon DEF Seen, RowsSound, May
    <2>2. /\ ~row[r].cancel /\ row[r].expires > now /\ Deadlines[r] > now /\ row[r].timeout > now
      BY <2>1, Zenon DEF Completes, CompletionClock
    <2>3. Completed(x)[r] = Finished(row[r], "succeeded")
      BY <2>1, ZenonT(30) DEF Completed
    <2> QED BY <2>1, <2>2, <2>3, FinishedRow, ZenonT(30) DEF Endings
  <1> QED BY <1>1, <1>2, <1>3, ZenonT(30)

LEMMA EndCompleteKeeps ==
    ASSUME FastInv, NEW x \in Tx, EndComplete(x)
    PROVE  FastInv' /\ Decides
  <1>1. /\ Commit(x, Completed(x)) /\ now' = now /\ leases' \subseteq LeaseType
        /\ tx[x].op = "complete"
    BY ZenonT(30) DEF EndComplete, FastInv
  <1>2. /\ DOMAIN Completed(x) \subseteq tx[x].held
        /\ \A r \in DOMAIN Completed(x) :
              /\ May(row[r], Completed(x)[r])
              /\ row[r].expires > now /\ Deadlines[r] > now /\ row[r].timeout > now
        /\ \A r \in DOMAIN tx[x].w : tx[x].w[r].as = "succeeded" => row[r].as = "succeeded"
    BY <1>1, CompletedWrites, ZenonT(30)
  <1>3. /\ FastInv' /\ KeepsCancellation
        /\ \A r \in Tasks : row'[r] = IF r \in DOMAIN Completed(x) THEN Completed(x)[r]
                                      ELSE SeenBy(tx[x], row, r)
        /\ tx'[x].op = "idle" /\ \A y \in Tx \ {x} : tx'[y] = tx[y]
    BY <1>1, <1>2, CommitKeeps, ZenonT(30)
  <1>4. RecoversWhenDue
    BY <1>1, <1>3, ZenonT(30) DEF RecoversWhenDue, Idle
  <1>5. \A r \in Tasks : row'[r].as = "succeeded" /\ row[r].as # "succeeded" =>
            row[r].expires > now /\ Deadlines[r] > now /\ row[r].timeout > now
    BY <1>2, <1>3, ZenonT(30) DEF SeenBy
  <1>6. SucceedsInTime
    BY <1>3, <1>5, ZenonT(30) DEF SucceedsInTime
  <1> QED BY <1>3, <1>4, <1>6, ZenonT(30) DEF Decides

LEMMA CompleteAndClaimKeeps ==
    ASSUME FastInv, NEW x \in Tx, CompleteAndClaim(x)
    PROVE  FastInv' /\ Decides
  <1> DEFINE s == tx[x]
             w == Over(Completed(x), s.w)
             c == ClaimOf(s.worker, Over(w, row))
             t == [c EXCEPT !.held = s.held, !.w = w, !.batch = s.batch]
  <1>1. /\ tx' = [tx EXCEPT ![x] = t] /\ s.op = "complete"
        /\ row' = row /\ leases' \subseteq LeaseType /\ now' = now
    BY ZenonT(30) DEF CompleteAndClaim, FastInv
  <1>2. /\ s \in TxType /\ TxWrites(s, row) /\ now \in Nat /\ RowsSound(row)
    BY Zenon DEF FastInv, TxSound
  <1>3. /\ DOMAIN Completed(x) \subseteq s.held
        /\ \A r \in DOMAIN Completed(x) :
              /\ May(row[r], Completed(x)[r])
              /\ row[r].expires > now /\ Deadlines[r] > now /\ row[r].timeout > now
        /\ \A r \in DOMAIN s.w : s.w[r].as = "succeeded" => row[r].as = "succeeded"
    BY <1>1, CompletedWrites, ZenonT(30)
  <1>4. /\ DOMAIN w = DOMAIN Completed(x) \union DOMAIN s.w
        /\ \A r \in DOMAIN w : w[r] = IF r \in DOMAIN Completed(x) THEN Completed(x)[r] ELSE s.w[r]
        /\ w = [r \in DOMAIN w |-> w[r]]
    BY Zenon DEF Over
  <1>5. /\ DOMAIN row = Tasks /\ s.held \subseteq Tasks /\ s.worker \in Workers \union {None}
        /\ s.batch \in SUBSET LeaseType
    BY <1>2, Zenon DEF RowsSound, TxType
  <1>6. DOMAIN w \subseteq s.held /\ \A r \in DOMAIN w : May(row[r], w[r])
    BY <1>2, <1>3, <1>4, ZenonT(30) DEF TxWrites
  <1>7. \A r \in Tasks : Over(w, row)[r] = IF r \in DOMAIN w THEN w[r] ELSE row[r]
    BY <1>5, ZenonT(30) DEF Over
  <1>8. \A r \in Tasks : Over(w, row)[r].as = "succeeded" /\ row[r].as # "succeeded" =>
            row[r].expires > now /\ Deadlines[r] > now /\ row[r].timeout > now
    BY <1>3, <1>4, <1>7, SMTT(30)
  <1>9. w \in [DOMAIN w -> FastRow]
    BY <1>4, <1>6, Zenon DEF May
  <1> HIDE DEF w, s
  <1>10. w \in Writes
    BY <1>5, <1>6, <1>9, Zenon DEF Writes
  <1>11. c \in TxType /\ c.op = "claim" /\ c.clock = now /\ c.picked = {}
    <2> DEFINE todo == {r \in Tasks : /\ Claimable(r, Over(w, row)[r], now)
                                      /\ Over(w, row)[r].fence < MaxClaims}
    <2>1. c = NewTx("claim", s.worker, now, todo) /\ todo \in SUBSET Tasks
      BY Zenon DEF ClaimOf
    <2> HIDE DEF todo, c
    <2> QED BY <1>2, <1>5, <2>1, FreshTx, SMTT(30)
  <1> HIDE DEF c
  <1>12. t \in TxType /\ t.op = "claim" /\ t.clock = now /\ t.picked = {} /\ t.held = s.held /\ t.w = w
    BY <1>5, <1>10, <1>11, Zenon DEF TxType
  <1> HIDE DEF t
  <1>13. TxSound(t, row, now)
    BY <1>2, <1>6, <1>12 DEF TxSound, TxWrites, TxKnows, Batch
  <1>14. FastInv'
    BY <1>1, <1>2, <1>12, <1>13, TxMoves, ZenonT(30) DEF s
  <1>15. tx'[x] = t /\ \A y \in Tx \ {x} : tx'[y] = tx[y]
    BY <1>1, Zenon DEF FastInv
  <1>16. RecoversWhenDue
    BY <1>1, Zenon DEF RecoversWhenDue
  <1>17. KeepsCancellation
    BY <1>1, <1>2, Zenon DEF KeepsCancellation, RowsSound, May, Keeps
  <1>18. SucceedsInTime
    BY <1>8, <1>12, <1>15, Zenon DEF SucceedsInTime
  <1> QED BY <1>14, <1>16, <1>17, <1>18, ZenonT(30) DEF Decides

LEMMA BatchStepKeeps ==
    ASSUME FastInv, NEW x \in Tx, BatchStep(x)
    PROVE  FastInv' /\ Decides
BY ClaimRowKeeps, EndClaimKeeps, ClaimTimesOutKeeps, LockRowKeeps, FailOversizedKeeps,
   EndCompleteKeeps, CompleteAndClaimKeeps, EndHeartbeatKeeps, RecoverRowKeeps, EndRecoverKeeps,
   SMTT(30)
   DEF BatchStep

-----------------------------------------------------------------------------
(* Calls, and every step *)

LEMMA CallKeeps ==
    ASSUME FastInv, NEW l \in leases, Call(l)
    PROVE  FastInv' /\ Decides
  <1> DEFINE r == l[2]
             a == row[l[2]]
  <1>1. r \in Tasks /\ RowsSound(row)
    BY Zenon DEF FastInv, LeaseType
  <1>2. a \in FastRow /\ May(a, a)
    BY <1>1, ZenonT(30) DEF RowsSound, May
  <1>3. ASSUME NEW retryable \in BOOLEAN, Fail(l, retryable) PROVE FastInv' /\ Decides
    <2>1. May(a, Failed(r, a, l[1], l[3], retryable))
      BY <1>2, FailedRow, ZenonT(30)
    <2> QED BY <1>1, <1>3, <2>1, WriteKeeps, ZenonT(30) DEF Fail
  <1>4. CASE Release(l)
    <2> DEFINE b == IF ~Owned(a, l[1], l[3]) \/ a.expires <= now \/ a.cancel THEN a
                    ELSE IF PastBoundary(r, a) THEN Expired(r, a)
                    ELSE [Retried(a) EXCEPT !.attempt = a.attempt]
    <2>1. May(a, b)
      BY <1>2, ExpiredRow, RetriedRow, ZenonT(30)
    <2>2. Write(r, b) /\ UNCHANGED <<tx, now>> /\ leases' \subseteq leases
      BY <1>4, ZenonT(30) DEF Release
    <2> HIDE DEF b
    <2> QED BY <1>1, <2>1, <2>2, WriteKeeps, ZenonT(30)
  <1>5. CASE Expire(l)
    <2> DEFINE b == IF Owned(a, l[1], l[3]) /\ ~a.cancel /\ PastBoundary(r, a) THEN Expired(r, a) ELSE a
    <2>1. May(a, b)
      BY <1>2, ExpiredRow, ZenonT(30)
    <2>2. Write(r, b) /\ UNCHANGED <<tx, now>> /\ leases' \subseteq leases
      BY <1>5, ZenonT(30) DEF Expire
    <2> HIDE DEF b
    <2> QED BY <1>1, <2>1, <2>2, WriteKeeps, ZenonT(30)
  <1>6. CASE AcknowledgeCancel(l)
    <2> DEFINE b == IF Owned(a, l[1], l[3]) /\ a.expires > now THEN Finished(a, "canceled") ELSE a
    <2>1. May(a, b)
      BY <1>2, FinishedRow, ZenonT(30) DEF Endings
    <2>2. Write(r, b) /\ UNCHANGED <<tx, now>> /\ leases' \subseteq leases
      BY <1>6, ZenonT(30) DEF AcknowledgeCancel
    <2> HIDE DEF b
    <2> QED BY <1>1, <2>1, <2>2, WriteKeeps, ZenonT(30)
  <1> QED BY <1>3, <1>4, <1>5, <1>6, ZenonT(30) DEF Call

LEMMA CancelKeeps ==
    ASSUME FastInv, NEW r \in Tasks, Cancel(r)
    PROVE  FastInv' /\ Decides
  <1> DEFINE a == row[r]
             asked == [a EXCEPT !.cancel = TRUE]
             b == IF a.state = "active" THEN asked ELSE Finished(a, "canceled")
  <1>1. a \in FastRow /\ ~a.cancel
    BY Zenon DEF Cancel, FastInv, RowsSound, May
  <1>2. asked \in FastRow /\ asked.state = a.state /\ asked.cancel
    BY <1>1, Zenon DEF FastRow
  <1>3. a.state = "active" => May(a, asked)
    BY <1>1, <1>2, ZenonT(30) DEF May, Keeps
  <1>4. May(a, Finished(a, "canceled"))
    BY <1>1, FinishedRow, ZenonT(30) DEF Endings
  <1>5. Write(r, b) /\ UNCHANGED <<tx, now>> /\ leases' \subseteq leases
    BY Zenon DEF Cancel
  <1> HIDE DEF asked, a
  <1>6. May(a, b)
    BY <1>3, <1>4, Zenon
  <1> HIDE DEF b
  <1> QED BY <1>5, <1>6, WriteKeeps, ZenonT(30) DEF a

LEMMA TickKeeps ==
    ASSUME FastInv, Tick
    PROVE  FastInv' /\ Decides
  <1>1. now \in Nat /\ now + 1 \in Nat /\ now <= now + 1 /\ RowsSound(row)
    BY DEF FastInv
  <1>2. now' = now + 1 /\ row' = row /\ tx' = tx /\ leases' = leases
    BY Zenon DEF Tick
  <1>3. \A x \in Tx : TxSound(tx[x], row, now + 1)
    BY <1>1, TxStays, ZenonT(30) DEF FastInv
  <1>4. FastInv'
    BY <1>1, <1>2, <1>3, ZenonT(30) DEF FastInv
  <1> QED BY <1>2, <1>4, NothingDecided, ZenonT(30)

LEMMA StutterKeeps ==
    ASSUME FastInv, UNCHANGED vars
    PROVE  FastInv' /\ Decides
  <1>1. row' = row /\ tx' = tx /\ leases' = leases /\ now' = now
    BY Zenon DEF vars
  <1> QED BY <1>1, NothingDecided, ZenonT(30) DEF FastInv

LEMMA NextFast ==
    ASSUME FastInv, [Next]_vars
    PROVE  FastInv' /\ Decides
  <1>1. CASE Claims
    BY <1>1, BeginClaimKeeps, ZenonT(30) DEF Claims
  <1>2. CASE Batches
    BY <1>2, BeginBatchKeeps, Zenon DEF Batches
  <1>3. CASE Steps
    BY <1>3, BatchStepKeeps, ZenonT(30) DEF Steps
  <1>4. CASE Tick
    BY <1>4, TickKeeps, ZenonT(30)
  <1>5. CASE \E x \in Tx : BeginRecover(x)
    BY <1>5, BeginRecoverKeeps, Zenon
  <1>6. CASE \E l \in leases : Call(l)
    BY <1>6, CallKeeps, Zenon
  <1>7. CASE \E r \in Tasks : Cancel(r)
    BY <1>7, CancelKeeps, ZenonT(30)
  <1> QED BY <1>1, <1>2, <1>3, <1>4, <1>5, <1>6, <1>7, StutterKeeps, ZenonT(30) DEF Next

LEMMA InitFast == Init => FastInv
  <1> SUFFICES ASSUME NEW live \in SUBSET Tasks, InitWith(live) PROVE FastInv
    BY Zenon DEF Init
  <1>1. RowsSound(row)
    <2>1. row = [r \in Tasks |-> row[r]]
      BY Zenon DEF InitWith
    <2>2. ASSUME NEW r \in Tasks PROVE row[r] \in FastRow /\ ~row[r].cancel
      BY FastAssumption, Zenon DEF InitWith, FastRow, FastAssumption, Endings
    <2> QED BY <2>1, <2>2, Zenon DEF RowsSound, May, Keeps
  <1>2. TxSound(NoTx, row, 0) /\ NoTx.held = {}
    <2>1. /\ NoTx \in TxType /\ NoTx.held = {} /\ DOMAIN NoTx.w = {} /\ NoTx.op = "idle"
          /\ NoTx.clock = 0
      BY FreshTx DEF NoTx
    <2> QED BY <2>1 DEF TxSound, TxWrites, TxKnows, Batch
  <1>3. tx = [x \in Tx |-> NoTx] /\ now = 0 /\ leases = {}
    BY Zenon DEF InitWith
  <1> QED BY <1>1, <1>2, <1>3, ZenonT(30) DEF FastInv, Apart

\* The lock order leaves no circle: among transactions that wait for each other, the one whose next
\* row is the greatest waits for one that has passed that row.
LEMMA NoCircle == FastInv => OnlyClaimsDeadlock
  <1> SUFFICES ASSUME FastInv, NEW D \in (SUBSET Tx) \ {{}},
                      \A x \in D : ~Follows(x) /\ \E y \in D : Waits(x, y)
               PROVE  FALSE
    BY Zenon DEF OnlyClaimsDeadlock
  <1>1. \A x \in D : tx[x].op \in Batch /\ tx[x].todo # {} /\ tx[x].todo \subseteq Tasks
    BY Zenon DEF Waits, FastInv, TxSound, TxType
  <1>2. \A x \in D : Min(tx[x].todo) \in tx[x].todo /\ Min(tx[x].todo) \in Tasks
    BY <1>1, LeastRow, Zenon
  <1> DEFINE left(x) == N - Min(tx[x].todo)
             after == {left(x) : x \in D}
  <1>3. PICK x \in D : \A y \in D : left(x) <= left(y)
    <2>1. ASSUME NEW x \in D PROVE left(x) \in Nat
      <3>1. Min(tx[x].todo) \in 1..N /\ N \in Nat
        BY <1>2, FastAssumption, Zenon DEF FastAssumption, Tasks
      <3> QED BY <3>1
    <2> HIDE DEF left
    <2>2. after \in SUBSET Nat /\ after # {}
      BY <2>1, Zenon
    <2>3. PICK k \in after : \A j \in after : k <= j
      BY <2>2, LeastNatural, Zenon
    <2> QED BY <2>3, ZenonT(30)
  <1>4. PICK y \in D : Min(tx[x].todo) \in tx[y].held
    BY Zenon DEF Waits, NextLocked
  <1>5. Min(tx[x].todo) < Min(tx[y].todo)
    BY <1>1, <1>2, <1>4, Zenon DEF FastInv, TxSound, TxKnows
  <1> QED BY <1>2, <1>3, <1>5, FastAssumption DEF FastAssumption, Tasks

\* FastInv holds in every state of the fast tier.
LEMMA FastInvariance == Spec => []FastInv
BY InitFast, NextFast, PTL DEF Spec

\* fast_heartbeat_many_v1 and fast_complete_many_v1 lock in the order of identity and
\* fast_recover_expired_v1 skips what is locked: of any number of batches over any number of tasks,
\* none wait for each other in a circle without a claim among them, which has a lock timeout.
THEOREM FastLocksInOrder == Spec => []OnlyClaimsDeadlock
BY FastInvariance, NoCircle, PTL

\* What a batch of the fast tier decides, it decides under the lock of the row and by the clock of
\* the decision: fast_recover_expired_v1 ends or retries a task only past a boundary, no step loses
\* a cancellation that fast_cancel_v1 accepted, and fast_complete_many_v1 and
\* complete_many_and_claim_v1 let no task succeed past its lease, deadline or timeout.
THEOREM FastDecisions == Spec => FastTierDecides
  <1>1. FastInv /\ [Next]_vars => [Decides]_vars
    BY NextFast, Zenon
  <1> QED BY <1>1, FastInvariance, PTL DEF Spec, FastTierDecides, Decides
=============================================================================
