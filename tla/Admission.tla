----------------------------- MODULE Admission -----------------------------
(***************************************************************************)
(* How claims share the limits of a queue and of the budgets its tasks     *)
(* name.  A queue's max_active and rate burst are divided over admission   *)
(* shards, each guarded by an advisory lock.  A claim takes one shard,     *)
(* borrows the free ones it needs, and never waits while it holds a shard. *)
(* A release of a lease wakes a worker only where a limit may have held a  *)
(* claim back.                                                             *)
(*                                                                         *)
(* A claim is a transaction under READ COMMITTED: its statements read the  *)
(* committed rows and its own, and nobody reads its starts before it       *)
(* commits.  Tasks are numbered in the order in which they are claimed.    *)
(* One unit of time refills a whole burst.  Per-key limits (which reduce a *)
(* queue to one shard), rates of budgets, pauses, deadlines, and the       *)
(* rebalance of a stored rate bucket are left out.                         *)
(***************************************************************************)
EXTENDS Integers, FiniteSets, FiniteSetsExt, Sequences, SequencesExt, Relation, TLC

CONSTANTS
    Line,      \* the tasks in claim order, each [queue, budget], budget 0 for none
    Given,     \* how many of them are queued at first
    Queues,
    Claims,    \* numbers of the backends that claim
    Limit,     \* p_limit
    MaxShards, \* 8 in the code
    FirstCaps, \* the max_active of each queue at first, 0 for no policy
    Caps,      \* those a synchronization may install
    Burst,     \* rate burst of each queue, 0 for no policy
    BudgetMax, \* max_active of each budget
    Ending,    \* tasks that end while the model runs
    Expiring,  \* tasks whose worker may lose them
    Fused,     \* whether claims may also ride on a completion
    MaxTime

Tasks == 1..Len(Line)

VARIABLES
    task,    \* committed rows: [state, shard, expired]
    policy,  \* max_active of each queue
    bucket,  \* stored tokens of each shard: [tokens, at]; at first used up
    claim,   \* the claims in progress
    release, \* the releases in progress
    wake,    \* a worker of the queue was told to claim, or will claim again, and has not yet
    now

vars == <<task, policy, bucket, claim, release, wake, now>>

QueueOf(t) == Line[t].queue
BudgetOf(t) == Line[t].budget

\* admission_shard_count_v1
ShardCount(cap) ==
    LET rules == {limit \in {cap, Burst} : limit > 0}
    IN  IF rules = {} THEN 0 ELSE Min(rules \cup {MaxShards})

\* admission_share_v1
Share(total, n, s) == total \div n + (IF s < total % n THEN 1 ELSE 0)

ShardIds(n) == 0..n - 1

NoClaim == [at |-> "idle"]
NoRelease == [at |-> "none"]

Init ==
    /\ task = [t \in Tasks |-> [state |-> IF t <= Given THEN "ready" ELSE "new",
                              shard |-> 0, expired |-> FALSE]]
    /\ policy = FirstCaps
    /\ bucket = [q \in Queues |-> [s \in ShardIds(ShardCount(FirstCaps[q])) |-> [tokens |-> 0, at |-> 0]]]
    /\ claim = [c \in Claims |-> NoClaim]
    /\ release = [t \in Tasks |-> NoRelease]
    /\ wake = [q \in Queues |-> \E t \in 1..Given : Line[t].queue = q]
    /\ now = 0

InState(state) == {t \in Tasks : task[t].state = state}
Claiming(c) == claim[c].at # "idle"
ClaimsOf(q) == {c \in Claims : Claiming(c) /\ claim[c].queue = q}
Picked(c) == IF Claiming(c) THEN DOMAIN claim[c].started ELSE {}

\* Locks.  Claims hold shards exclusively, releases share them.
HoldsShard(c, q, s) == Claiming(c) /\ claim[c].queue = q /\ s \in Range(claim[c].held)
SharesShard(t, q, s) == release[t].at \in {"budget", "commit"} /\ QueueOf(t) = q /\ s \in release[t].shares
ShardFree(q, s) ==
    /\ \A c \in Claims : ~HoldsShard(c, q, s)
    /\ \A t \in Tasks : ~SharesShard(t, q, s)
BudgetFree(b) == \A c \in Claims : Claiming(c) => b \notin claim[c].budgets

----------------------------------------------------------------------------
(* A claim *)

\* The ready tasks of the claim's queue, as its statements see them.
ReadyFor(c) == {t \in InState("ready") : QueueOf(t) = claim[c].queue} \ Picked(c)

SampledBudgets(q) == {BudgetOf(t) : t \in {u \in InState("ready") : QueueOf(u) = q}} \ {0}

\* The rooms and tokens that a claim read, while it needs them.
Unread == [room |-> <<>>, tokens |-> <<>>, mine |-> 0, want |-> 0]

\* claim_many_v1 waits for locks; the claim of a completion does not.
BeginClaim(c, q, waits) ==
    /\ ~Claiming(c)
    /\ waits \/ Fused
    /\ claim' = [claim EXCEPT ![c] =
           [at |-> "budgets", queue |-> q, waits |-> waits, first |-> TRUE,
            todo |-> SampledBudgets(q), budgets |-> {}, held |-> <<>>, gone |-> {},
            clock |-> 0, read |-> Unread, started |-> <<>>, charged |-> <<>>,
            skipped |-> FALSE, short |-> FALSE, capped |-> FALSE]]
    /\ wake' = IF waits THEN [wake EXCEPT ![q] = FALSE] ELSE wake
    /\ UNCHANGED <<task, policy, bucket, release, now>>

Shards(c) == ShardCount(policy[claim[c].queue])
Home(c) == c % Shards(c)
FromHome(c) == [i \in 1..Shards(c) |-> (Home(c) + i - 1) % Shards(c)]

\* Faulty: a claim waits for its budgets in any order.
NextBudget_any(c) == claim[c].todo

\* Budgets are locked in the order of their names.
NextBudget(c) == {Min(claim[c].todo)}

LockBudget(c) ==
    /\ claim[c].at = "budgets" /\ claim[c].todo # {}
    /\ \E b \in NextBudget(c) :
           LET left == [claim[c] EXCEPT !.todo = @ \ {b}]
           IN  \/ /\ b \in claim[c].budgets \/ BudgetFree(b)
                  /\ claim' = [claim EXCEPT ![c] = [left EXCEPT !.budgets = @ \cup {b}]]
               \/ /\ b \notin claim[c].budgets /\ ~BudgetFree(b)
                  /\ ~(claim[c].first /\ claim[c].waits)
                  /\ claim' = [claim EXCEPT ![c] = left]
    /\ UNCHANGED <<task, policy, bucket, release, wake, now>>

\* The first free shard from home on; when all are busy, wait for home or give up.
TakeShard(c) ==
    /\ claim[c].at = "budgets" /\ claim[c].todo = {}
    /\ LET free == SelectSeq(FromHome(c), LAMBDA s : ShardFree(claim[c].queue, s))
       IN  claim' = [claim EXCEPT ![c] =
               CASE ~claim[c].first \/ Shards(c) = 0 -> [@ EXCEPT !.at = "clock"]
                 [] claim[c].first /\ Shards(c) > 0 /\ free # <<>> ->
                        [@ EXCEPT !.at = "clock", !.held = <<Head(free)>>]
                 [] claim[c].first /\ Shards(c) > 0 /\ free = <<>> /\ claim[c].waits ->
                        [@ EXCEPT !.at = "wait"]
                 [] OTHER -> [@ EXCEPT !.at = "end", !.skipped = TRUE, !.short = TRUE, !.capped = TRUE]]
    /\ UNCHANGED <<task, policy, bucket, release, wake, now>>

WaitForHome(c) ==
    /\ claim[c].at = "wait" /\ ShardFree(claim[c].queue, Home(c))
    /\ claim' = [claim EXCEPT ![c].at = "clock", ![c].held = <<Home(c)>>]
    /\ UNCHANGED <<task, policy, bucket, release, wake, now>>

\* The leases that had not expired by the claim's clock.
Leases(c) ==
    ({t \in InState("active") : QueueOf(t) = claim[c].queue} \ claim[c].gone) \cup Picked(c)

ShardOfLease(c, t) ==
    (IF t \in Picked(c) THEN claim[c].started[t] ELSE task[t].shard) % Shards(c)

RoomOf(c, s) ==
    Share(policy[claim[c].queue], Shards(c), s)
        - Cardinality({t \in Leases(c) : ShardOfLease(c, t) = s})

\* A bucket is full again one unit of time after its last charge.
TokensOf(c, s) ==
    LET stored == bucket[claim[c].queue][s]
    IN  IF s \in DOMAIN claim[c].charged THEN claim[c].charged[s]
        ELSE IF claim[c].clock > stored.at THEN Share(Burst, Shards(c), s) ELSE stored.tokens

Total(f, S) == MapThenSumSet(LAMBDA s : f[s], S)
Positive(f, S) == Total(f, {s \in S : f[s] > 0})
Overdraft(f, S) == Total(f, {s \in S : f[s] < 0})

\* Faulty: the shards that a claim does not hold are taken to be within their share.
HeldRoom_own(room, held) == Positive(room, held)

\* The room of the held shards less the overdraft of the others.
HeldRoom(room, held) ==
    Min({Positive(room, held), Total(room, held) + Overdraft(room, DOMAIN room \ held)})

\* What the rules of the queue leave of an amount; a rule that is absent limits nothing.
Capped(c, amount, room, tokens) ==
    Min({amount} \cup (IF policy[claim[c].queue] > 0 THEN {room} ELSE {})
                 \cup (IF Burst > 0 THEN {tokens} ELSE {}))

Unbounded == Len(Line) + 1
Left(c) == Limit - Cardinality(Picked(c))

\* One read of every shard's room and tokens.
Read(c) ==
    LET room == [s \in ShardIds(Shards(c)) |-> RoomOf(c, s)]
        tokens == [s \in ShardIds(Shards(c)) |-> TokensOf(c, s)]
        held == Range(claim[c].held)
        mine == Capped(c, Unbounded, HeldRoom(room, held), Total(tokens, held))
        want == Capped(c, Left(c), Total(room, DOMAIN room), Total(tokens, DOMAIN room))
    IN  [room |-> room, tokens |-> tokens, mine |-> mine, want |-> want]

\* v_now
ReadClock(c) ==
    /\ claim[c].at = "clock"
    /\ claim' = [claim EXCEPT ![c] =
           [@ EXCEPT !.at = "read", !.first = FALSE, !.clock = now,
                     !.gone = {t \in Tasks : task[t].expired}]]
    /\ UNCHANGED <<task, policy, bucket, release, wake, now>>

\* The first read, after which the claim may borrow, and the second, after which it does not.
ReadShards(c) ==
    /\ claim[c].at \in {"read", "again"}
    /\ LET read == Read(c)
           short == Shards(c) > 0 /\ read.mine < read.want
           borrows == claim[c].at = "read" /\ short /\ Len(claim[c].held) < Shards(c)
       IN  claim' = [claim EXCEPT ![c] =
               [@ EXCEPT !.at = IF borrows THEN "borrow" ELSE "pick", !.short = short, !.read = read]]
    /\ UNCHANGED <<task, policy, bucket, release, wake, now>>

\* Shards worth borrowing, in order from home.
Borrowable(c) ==
    SelectSeq(FromHome(c), LAMBDA s :
        /\ s \notin Range(claim[c].held)
        /\ policy[claim[c].queue] > 0 => claim[c].read.room[s] > 0
        /\ Burst > 0 => claim[c].read.tokens[s] > 0)

\* Try them one after the other until the gain covers what the claim wants.
Tries(c) ==
    LET read == claim[c].read
        line == Borrowable(c)
        free(s) == ShardFree(claim[c].queue, s)
        got(i) == Range(claim[c].held) \cup {s \in Range(SubSeq(line, 1, i)) : free(s)}
        enough(i) ==
            Capped(c, Unbounded,
                   HeldRoom(read.room, Range(claim[c].held)) + Total(read.room, got(i) \ Range(claim[c].held)),
                   Total(read.tokens, got(i))) >= read.want
        stops == {i \in 1..Len(line) : free(line[i]) /\ enough(i)}
    IN  SubSeq(line, 1, IF stops = {} THEN Len(line) ELSE Min(stops))

Borrow(c) ==
    /\ claim[c].at = "borrow"
    /\ claim' = [claim EXCEPT ![c] =
           [@ EXCEPT !.at = "again",
                     !.held = @ \o SelectSeq(Tries(c), LAMBDA s : ShardFree(claim[c].queue, s)),
                     !.skipped = @ \/ \E s \in Range(Tries(c)) : ~ShardFree(claim[c].queue, s)]]
    /\ UNCHANGED <<task, policy, bucket, release, wake, now>>

Take(c) == Min({Left(c), claim[c].read.mine})

Unlocked(t) == \A c \in Claims : t \notin Picked(c)
InOrder(S) == SetToSortSeq(S, <)
FirstOf(n, S) == LET line == InOrder(S) IN Range(SubSeq(line, 1, Min({n, Len(line)})))

\* Rows named by no budget, up to the first that names one.
Direct(c) ==
    LET locked == FirstOf(Take(c), {t \in ReadyFor(c) : Unlocked(t)})
    IN  {t \in locked : \A u \in locked : u <= t => BudgetOf(u) = 0}

BudgetLeases(c, b) ==
    ({t \in InState("active") : BudgetOf(t) = b} \ claim[c].gone)
        \cup {t \in Picked(c) : BudgetOf(t) = b}

\* Faulty: the window trusts a budget that it could not lock.
BudgetRoom_unlocked(c, b) == BudgetMax - Cardinality(BudgetLeases(c, b))

\* A budget that this claim never locked has no room.
BudgetRoom(c, b) ==
    IF b \in claim[c].budgets THEN BudgetMax - Cardinality(BudgetLeases(c, b)) ELSE 0

\* The ready rows within the room of their budget.
Fitting(c) ==
    {t \in ReadyFor(c) :
        BudgetOf(t) # 0 =>
            Cardinality({u \in ReadyFor(c) : u <= t /\ BudgetOf(u) = BudgetOf(t)})
                <= BudgetRoom(c, BudgetOf(t))}

Rows(c) ==
    IF claim[c].budgets = {} THEN Direct(c)
    ELSE FirstOf(Take(c), {t \in Fitting(c) : Unlocked(t)})

\* The i-th picked row goes to the held shard whose room covers position i.
Slot(c, i) ==
    LET held == claim[c].held
        upTo(k) == Positive(claim[c].read.room, Range(SubSeq(held, 1, k)))
    IN  IF Shards(c) = 0 THEN 0
        ELSE IF policy[claim[c].queue] = 0 THEN Head(held)
        ELSE held[Min({k \in 1..Len(held) : upTo(k) >= i})]

\* The held shards pay for n starts in order.
Charged(c, n) ==
    LET held == claim[c].held
        tokens == claim[c].read.tokens
        before(k) == Total(tokens, Range(SubSeq(held, 1, k - 1)))
        place(s) == CHOOSE k \in 1..Len(held) : held[k] = s
    IN  [s \in {u \in Range(held) : tokens[u] > 0 /\ before(place(u)) < n} |->
            tokens[s] - Min({tokens[s], n - before(place(s))})]

\* Pick, activate and charge one round, and decide whether there is another.
Pick(c) ==
    /\ claim[c].at = "pick"
    /\ LET rows == InOrder(Rows(c))
           capped == claim[c].read.mine <= Left(c) /\ Shards(c) > 0
           started == claim[c].started @@ [t \in Range(rows) |-> Slot(c, CHOOSE i \in DOMAIN rows : rows[i] = t)]
           full == capped /\ Len(rows) >= Take(c)
           done == \/ claim[c].budgets = {} \/ Len(rows) = Left(c) \/ full
                   \/ Len(rows) >= Cardinality(Fitting(c))
           round == [claim[c] EXCEPT !.read = Unread, !.gone = {}]
       IN  claim' = [claim EXCEPT ![c] =
               CASE Take(c) <= 0 -> [round EXCEPT !.at = "end", !.capped = TRUE]
                 [] Take(c) > 0 /\ rows = <<>> -> [round EXCEPT !.at = "end"]
                 [] OTHER -> [round EXCEPT !.at = IF done THEN "end" ELSE "budgets",
                                       !.todo = SampledBudgets(claim[c].queue),
                                       !.started = started, !.capped = full,
                                       !.charged = IF Burst > 0 THEN Charged(c, Len(rows)) @@ @ ELSE @]]
    /\ UNCHANGED <<task, policy, bucket, release, wake, now>>

\* Faulty: the claim's own clock becomes the time of the charge.
ChargedAt_own(c, s) == claim[c].clock

\* Refill never runs from a clock ahead of an earlier charge.
ChargedAt(c, s) == Max({claim[c].clock, bucket[claim[c].queue][s].at})

\* Faulty: a claim that was kept from a busy shard tells nobody.
Unreached_silent(c) == FALSE

\* Room that the claim could not reach sat in a shard another transaction held.
Unreached(c) == claim[c].skipped /\ claim[c].short /\ claim[c].capped

\* Commit.  A worker whose claim filled its limit claims again.
EndClaim(c) ==
    /\ claim[c].at = "end"
    /\ task' = [t \in Tasks |-> IF t \in Picked(c)
                                THEN [state |-> "active", shard |-> claim[c].started[t], expired |-> FALSE]
                                ELSE task[t]]
    /\ bucket' = [bucket EXCEPT ![claim[c].queue] =
           [s \in DOMAIN @ |-> IF s \in DOMAIN claim[c].charged
                               THEN [tokens |-> claim[c].charged[s], at |-> ChargedAt(c, s)] ELSE @[s]]]
    /\ wake' = [wake EXCEPT ![claim[c].queue] = @ \/ Unreached(c) \/ Left(c) = 0]
    /\ claim' = [claim EXCEPT ![c] = NoClaim]
    /\ UNCHANGED <<policy, release, now>>

----------------------------------------------------------------------------
(* The release of a lease: a completion, or the recovery of an expired one *)

\* Only a task that names a budget fires the budget's trigger.
Checked(t, shares, wakes) ==
    [at |-> IF BudgetOf(t) = 0 THEN "commit" ELSE "budget", shares |-> shares, wakes |-> wakes]

\* The trigger's first read of the policy.
BeginRelease(t) ==
    /\ t \in Ending /\ task[t].state = "active" /\ release[t].at = "none"
    /\ LET n == ShardCount(policy[QueueOf(t)])
           s == task[t].shard % n
       IN  release' = [release EXCEPT ![t] =
               IF policy[QueueOf(t)] = 0 THEN Checked(t, {}, {})
               ELSE [at |-> "check", n |-> n, shard |-> s, share |-> Share(policy[QueueOf(t)], n, s)]]
    /\ UNCHANGED <<task, policy, bucket, claim, wake, now>>

ActiveIn(q) == {t \in InState("active") : QueueOf(t) = q}

\* What a claim may have counted when it found the shard full: expired leases too.
\* The shard of the released lease, or its queue, was full.
WasFull(t) ==
    LET r == release[t]
        q == QueueOf(t)
    IN  \/ Cardinality({u \in ActiveIn(q) : task[u].shard % r.n = r.shard}) >= r.share
        \/ Cardinality(ActiveIn(q)) >= policy[q]

\* Share the lock of the shard or wake; wake if the shards changed; wake if it was full.
CheckRelease(t) ==
    /\ release[t].at = "check"
    /\ LET q == QueueOf(t)
           busy == \E c \in Claims : HoldsShard(c, q, release[t].shard)
           changed == policy[q] = 0 \/ ShardCount(policy[q]) # release[t].n
       IN  release' = [release EXCEPT ![t] =
               Checked(t, IF busy THEN {} ELSE {release[t].shard},
                       IF busy \/ changed \/ WasFull(t) THEN {q} ELSE {})]
    /\ UNCHANGED <<task, policy, bucket, claim, wake, now>>

\* The queues with a ready task that names the budget of the released one.
WaitingOn(t) == {q \in Queues : BudgetOf(t) \in SampledBudgets(q)}

\* notify_budget_capacity_v1 and the end of the releasing statement.
CheckBudget(t) ==
    /\ release[t].at = "budget"
    /\ release' = [release EXCEPT ![t].at = "commit", ![t].wakes = @ \cup WaitingOn(t)]
    /\ UNCHANGED <<task, policy, bucket, claim, wake, now>>

\* A completed task is gone; a recovered one is ready, and its queue is told.
CommitRelease(t) ==
    /\ release[t].at = "commit"
    /\ LET back == task[t].expired
       IN  /\ task' = [task EXCEPT ![t] = [state |-> IF back THEN "ready" ELSE "gone",
                                           shard |-> 0, expired |-> FALSE]]
           /\ wake' = [q \in Queues |-> wake[q] \/ q \in release[t].wakes \/ (back /\ q = QueueOf(t))]
    /\ claim' = [c \in Claims |-> IF Claiming(c) THEN [claim[c] EXCEPT !.gone = @ \ {t}] ELSE claim[c]]
    /\ release' = [release EXCEPT ![t] = NoRelease]
    /\ UNCHANGED <<policy, bucket, now>>

----------------------------------------------------------------------------
(* The rest of the system *)

Enqueue(t) ==
    /\ task[t].state = "new" /\ \A u \in 1..t - 1 : task[u].state # "new"
    /\ task' = [task EXCEPT ![t].state = "ready"]
    /\ wake' = [wake EXCEPT ![QueueOf(t)] = TRUE]
    /\ UNCHANGED <<policy, bucket, claim, release, now>>

\* A lease passes its expiry; a release under way has already checked it.
Expire(t) ==
    /\ t \in Expiring /\ task[t].state = "active" /\ ~task[t].expired /\ release[t].at = "none"
    /\ task' = [task EXCEPT ![t].expired = TRUE]
    /\ UNCHANGED <<policy, bucket, claim, release, wake, now>>

\* sync_concurrency_policies_v1 excludes the queue's claims and waits for every shard.
SyncPolicy(q, cap) ==
    /\ cap # policy[q] /\ ClaimsOf(q) = {}
    /\ \A s \in ShardIds(MaxShards) : ShardFree(q, s)
    /\ policy' = [policy EXCEPT ![q] = cap]
    /\ bucket' = [bucket EXCEPT ![q] = [s \in ShardIds(ShardCount(cap)) |-> [tokens |-> 0, at |-> now]]]
    /\ wake' = [wake EXCEPT ![q] = TRUE]
    /\ UNCHANGED <<task, claim, release, now>>

Tick ==
    /\ Burst > 0 /\ now < MaxTime
    /\ now' = now + 1
    /\ UNCHANGED <<task, policy, bucket, claim, release, wake>>

Next ==
    \/ \E c \in Claims, q \in Queues, waits \in BOOLEAN : BeginClaim(c, q, waits)
    \/ \E c \in Claims : LockBudget(c)
    \/ \E c \in Claims : TakeShard(c)
    \/ \E c \in Claims : WaitForHome(c)
    \/ \E c \in Claims : ReadClock(c)
    \/ \E c \in Claims : ReadShards(c)
    \/ \E c \in Claims : Borrow(c)
    \/ \E c \in Claims : Pick(c)
    \/ \E c \in Claims : EndClaim(c)
    \/ \E t \in Tasks : BeginRelease(t)
    \/ \E t \in Tasks : CheckRelease(t)
    \/ \E t \in Tasks : CheckBudget(t)
    \/ \E t \in Tasks : CommitRelease(t)
    \/ \E t \in Tasks : Enqueue(t)
    \/ \E t \in Tasks : Expire(t)
    \/ \E q \in Queues, cap \in Caps : SyncPolicy(q, cap)
    \/ Tick

Spec == Init /\ [][Next]_vars

----------------------------------------------------------------------------

Held(S) == Cardinality({t \in S : ~task[t].expired})

(***************************************************************************)
(* claim_policy_batch_v1: a claim never lifts the unexpired leases of a    *)
(* queue above max_active, although it counts shards that other claims     *)
(* hold and fill, a lowered cap leaves shards overdrawn, and a changed     *)
(* shard count moves leases between shards.                                *)
(***************************************************************************)
ClaimsWithinCap ==
    \A q \in Queues : policy[q] > 0 /\ Held(ActiveIn(q))' > Held(ActiveIn(q))
                          => Held(ActiveIn(q))' <= policy[q]

Naming(b) == {t \in InState("active") : BudgetOf(t) = b}

(***************************************************************************)
(* budget_admission and the budget locks of claim_policy_batch_v1: the     *)
(* claims of all queues together never start more tasks that name a        *)
(* budget than it allows.                                                  *)
(***************************************************************************)
BudgetHolds ==
    \A b \in {BudgetOf(t) : t \in Tasks} \ {0} : Held(Naming(b)) <= BudgetMax

(***************************************************************************)
(* The shard buckets, from a time at which they are used up: the queue     *)
(* starts at most what the rate refills, although a claim charges borrowed *)
(* shards by a clock that it read before another claim charged them.       *)
(***************************************************************************)
RateHolds ==
    \A q \in Queues : Burst > 0 =>
        Cardinality({t \in Tasks : QueueOf(t) = q /\ task[t].state \in {"active", "gone"}})
            <= Burst * now

\* c waits for a lock that d holds.
WaitsFor(c, d) ==
    /\ c # d /\ Claiming(c) /\ Claiming(d)
    /\ \/ /\ claim[c].at = "budgets" /\ claim[c].todo # {} /\ claim[c].first /\ claim[c].waits
          /\ \A b \in NextBudget(c) : b \in claim[d].budgets
       \/ claim[c].at = "wait" /\ HoldsShard(d, claim[c].queue, Home(c))

(***************************************************************************)
(* Claims wait for budgets in name order and for a shard only while they   *)
(* hold none, so no two of them, of whatever queues, wait for each other.  *)
(***************************************************************************)
NoClaimDeadlock ==
    LET waits == TransitiveClosure([p \in Claims \X Claims |-> WaitsFor(p[1], p[2])], Claims)
    IN  \A c \in Claims : ~waits[c, c]

Settled(q) ==
    /\ ~wake[q] /\ ClaimsOf(q) = {}
    /\ \A t \in Tasks : QueueOf(t) = q => release[t].at = "none"

(***************************************************************************)
(* notify_concurrency_capacity_v1 wakes nobody when nothing was full, and  *)
(* claims are kept from shards that others hold; still, a queue with a     *)
(* ready task and no worker on its way to claim it is full.  "Other        *)
(* releases wake no worker, because no claim waits for them."              *)
(***************************************************************************)
NoIdleRoom ==
    \A t \in InState("ready") :
        Settled(QueueOf(t)) /\ Burst = 0 /\ BudgetOf(t) = 0 =>
            policy[QueueOf(t)] > 0 /\ Cardinality(ActiveIn(QueueOf(t))) >= policy[QueueOf(t)]
=============================================================================
