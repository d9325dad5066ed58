----------------------------- MODULE TaskGroups -----------------------------
(***************************************************************************)
(* One task group at the level of statements and row locks.  Its members   *)
(* are counted in shards; an outcome is recorded on the membership row by  *)
(* the statement that writes it and applied to the shard, and perhaps to   *)
(* the group, when its transaction commits.  Whoever empties the last      *)
(* pending shard of a sealed group finishes it and enqueues its callbacks. *)
(*                                                                         *)
(* Transactions run under READ COMMITTED: a statement reads the committed  *)
(* rows db and the writes tx[x].w of its own transaction.  Every lock      *)
(* modelled here excludes every other.  Member task t has position t.      *)
(*                                                                         *)
(* Prerequisites and idempotency of the added tasks, the member limit, and *)
(* the fence and times of a member that adds tasks are left out.           *)
(***************************************************************************)
EXTENDS Naturals, FiniteSets, FiniteSetsExt, Sequences, SequencesExt, Relation, TLC

CONSTANTS
    N,          \* member tasks are 1..N, in the order of identity and of position
    Shards,     \* shard_count
    Tx,         \* concurrent transactions
    Given,      \* the states of the member tasks that exist at first
    Drifted,    \* those whose outcome a version without the shards left uncounted
    MaxRetries, \* attempts that end without an outcome
    Outcomes    \* how a worker may end a task

Tasks == 1..N

Terminal == {"succeeded", "failed", "canceled"}

\* Row identities.
Runtime(t) == <<"runtime", t>>
Member(t) == <<"member", t>>
Shard(s) == <<"shard", s>>
Group == <<"group", 0>>

AllShards == [i \in 1..Shards |-> Shard(i - 1)]

Rows == {Runtime(t) : t \in Tasks} \cup {Member(t) : t \in Tasks} \cup Range(AllShards) \cup {Group}

VARIABLES
    db,         \* committed rows
    tx,         \* the transactions in progress
    callbacks,  \* the kinds of callback tasks that were enqueued, in order
    retries

vars == <<db, tx, callbacks, retries>>

ShardOf(t) == (t - 1) % Shards

\* The counts of one shard over given membership rows.
Tally(s, outcome) ==
    LET of(states) == Cardinality({t \in DOMAIN outcome : ShardOf(t) = s /\ outcome[t] \in states})
    IN  [total |-> of(Terminal \cup {"pending"}), succeeded |-> of({"succeeded"}),
         unsuccessful |-> of({"failed", "canceled"})]

PendingIn(count) == count.total - count.succeeded - count.unsuccessful

\* The number of shards with pending members.
PendingShards(count) == Cardinality({s \in 0..Shards - 1 : PendingIn(count[s]) > 0})

Idle == [at |-> "idle", op |-> <<>>, todo |-> <<>>, locks |-> {}, w |-> <<>>, list |-> {},
         rest |-> {}, calls |-> {}]

Init ==
    /\ LET state(t) == IF t \in DOMAIN Given THEN Given[t] ELSE "none"
           member(t) == IF t \notin DOMAIN Given THEN "none"
                        ELSE IF t \in Drifted \/ Given[t] \notin Terminal THEN "pending"
                        ELSE Given[t]
           count == [s \in 0..Shards - 1 |-> Tally(s, [t \in Tasks |-> member(t)])]
       IN  db = [r \in {Runtime(t) : t \in Tasks} |-> state(r[2])]
                @@ [r \in {Member(t) : t \in Tasks} |-> member(r[2])]
                @@ [r \in Range(AllShards) |-> count[r[2]]]
                @@ (Group :> [state |-> "open", canceled |-> FALSE, result |-> "none",
                              pending |-> PendingShards(count)])
    /\ tx = [x \in Tx |-> Idle]
    /\ callbacks = <<>>
    /\ retries = 0

\* What a statement of transaction x reads.
Read(x, r) == IF r \in DOMAIN tx[x].w THEN tx[x].w[r] ELSE db[r]

Live(x, t) == Read(x, Runtime(t)) \in {"ready", "active"}

\* The members without an outcome whose tasks have not ended.
LiveMembers(x) == {t \in Tasks : Read(x, Member(t)) = "pending" /\ Live(x, t)}

\* The rows of a table whose identifiers are in the set, in the order of the identifiers.
InOrder(set, table) == LET s == SetToSortSeq(set, <) IN [i \in DOMAIN s |-> <<table, s[i]>>]

-----------------------------------------------------------------------------
(* Row locks.                                                              *)

Locked(r) == \E y \in Tx : r \in tx[y].locks

Blockers(x) == IF tx[x].todo = <<>> THEN {} ELSE {y \in Tx \ {x} : Head(tx[x].todo) \in tx[y].locks}

Waits == [xy \in Tx \X Tx |-> xy[2] \in Blockers(xy[1])]

Deadlocked(x) == Blockers(x) # {} /\ TransitiveClosure(Waits, Tx)[x, x]

LockRow(x) ==
    /\ tx[x].todo # <<>>
    /\ Blockers(x) = {}
    /\ tx' = [tx EXCEPT ![x].todo = Tail(@), ![x].locks = @ \cup {Head(tx[x].todo)}]
    /\ UNCHANGED <<db, callbacks, retries>>

\* The deadlock detector aborts x; its writes are gone.
Deadlock(x) ==
    /\ Deadlocked(x)
    /\ tx' = [tx EXCEPT ![x] = Idle]
    /\ UNCHANGED <<db, callbacks, retries>>

\* Transaction x goes on with statement `at`, which locks the rows `todo` first.
Then(x, at, todo, new) == tx' = [tx EXCEPT ![x] = new @@ [@ EXCEPT !.at = at, !.todo = todo]]

\* The operation that x runs.
Operation(x) == IF tx[x].op = <<>> THEN "none" ELSE tx[x].op[1]

Begin(x, op, at, todo) ==
    /\ tx[x].at = "idle"
    /\ Then(x, at, todo, [op |-> op])
    /\ UNCHANGED <<db, callbacks, retries>>

\* Statement `at` of x has its locks.
Runs(x, at) == tx[x].at = at /\ tx[x].todo = <<>>

-----------------------------------------------------------------------------
(* Tasks outside of settlements.                                           *)

\* A claim and a retry change only the runtime row; a retry writes no outcome.
Claim(t) ==
    /\ db[Runtime(t)] = "ready"
    /\ ~Locked(Runtime(t))
    /\ db' = [db EXCEPT ![Runtime(t)] = "active"]
    /\ UNCHANGED <<tx, callbacks, retries>>

Retry(t) ==
    /\ db[Runtime(t)] = "active"
    /\ ~Locked(Runtime(t))
    /\ retries < MaxRetries
    /\ db' = [db EXCEPT ![Runtime(t)] = "ready"]
    /\ retries' = retries + 1
    /\ UNCHANGED <<tx, callbacks>>

-----------------------------------------------------------------------------
(* Outcomes.                                                               *)

\* Completion of a set of running tasks, or the end of queued ones: a cancellation, or a purge,
\* which deletes the tasks and counts them as canceled.
BeginSettle(x, tasks, from, to) ==
    /\ tasks # {}
    /\ \A t \in tasks : db[Runtime(t)] = from
    /\ Begin(x, <<"settle", tasks, from, to>>, "settle", InOrder(tasks, "runtime"))

\* The outcome rows of the tasks that are still as the caller saw them; the trigger locks the
\* membership rows that have no outcome yet.
Settle(x) ==
    /\ Runs(x, "settle")
    /\ LET ended == {t \in tx[x].op[2] : Read(x, Runtime(t)) = tx[x].op[3]}
           members == {t \in ended : Read(x, Member(t)) = "pending"}
       IN  Then(x, IF members = {} THEN "commit" ELSE "record", InOrder(members, "member"),
                [w |-> [r \in {Runtime(t) : t \in ended} |-> tx[x].op[4]] @@ tx[x].w,
                 rest |-> members])
    /\ UNCHANGED <<db, callbacks, retries>>

\* The members that still have no outcome, under the locks of their rows.
Recorded(x) == {t \in tx[x].rest : Read(x, Member(t)) = "pending"}

\* record_task_group_outcomes_internal_v1: outcomes on the membership rows, members on the list;
\* the deferred trigger then locks the shards of the list.
Record(x) ==
    /\ Runs(x, "record")
    /\ LET shards == {ShardOf(t) : t \in Recorded(x)}
       IN  Then(x, IF shards = {} THEN "commit" ELSE "apply", InOrder(shards, "shard"),
                [w |-> [r \in {Member(t) : t \in Recorded(x)} |->
                            Read(x, Runtime(r[2]))] @@ tx[x].w,
                 list |-> tx[x].list \cup Recorded(x)])
    /\ UNCHANGED <<db, callbacks, retries>>

\* The shard counts with the listed outcomes added, in view w of transaction x.
Counted(x, w, list, s) ==
    LET now == IF Shard(s) \in DOMAIN w THEN w[Shard(s)] ELSE db[Shard(s)]
        new == Tally(s, [t \in list |-> w[Member(t)]])
    IN  IF now.succeeded + now.unsuccessful + new.total <= now.total
        THEN [now EXCEPT !.succeeded = @ + new.succeeded, !.unsuccessful = @ + new.unsuccessful]
        ELSE now

\* The shards of the list whose pending count became 0.
Emptied(x, w, list) == {s \in {ShardOf(t) : t \in list} : PendingIn(Counted(x, w, list, s)) = 0}

\* Faulty: the count of an open group is left for the seal.
Decremented_sealed(group, emptied) ==
    [group EXCEPT !.pending = IF group.state = "sealed" /\ @ > emptied THEN @ - emptied
                              ELSE IF group.state = "sealed" THEN 0 ELSE @]

\* pending_shard_count after `emptied` shards emptied, not below zero.
Decremented(group, emptied) ==
    [group EXCEPT !.pending = IF @ > emptied THEN @ - emptied ELSE 0]

\* apply_task_group_outcomes_internal_v1, the shard rows.
Apply(x) ==
    /\ Runs(x, "apply")
    /\ LET t == tx[x]
           shards == {ShardOf(m) : m \in t.list}
           emptied == Emptied(x, t.w, t.list)
       IN  Then(x, IF emptied = {} THEN "commit" ELSE "group",
                IF emptied = {} THEN <<>> ELSE <<Group>>,
                [w |-> [r \in {Shard(s) : s \in shards} |-> Counted(x, t.w, t.list, r[2])] @@ t.w,
                 list |-> {}, rest |-> emptied])
    /\ UNCHANGED <<db, callbacks, retries>>

-----------------------------------------------------------------------------
(* The finish, in the transaction that holds the group row.                *)

\* Faulty: members that did not succeed do not count as finished.
Finishable_succeeded(group, count) ==
    /\ group.state = "sealed"
    /\ group.pending = 0
    /\ \A s \in DOMAIN count : count[s].succeeded = count[s].total

\* The condition of the UPDATE in finish_task_group_internal_v1.
Finishable(group, count) ==
    /\ group.state = "sealed"
    /\ group.pending = 0
    /\ \A s \in DOMAIN count : PendingIn(count[s]) = 0

\* The shard rows that transaction x with the writes w reads without a lock.
CountsRead(w) ==
    [s \in 0..Shards - 1 |-> IF Shard(s) \in DOMAIN w THEN w[Shard(s)] ELSE db[Shard(s)]]

\* Faulty: the callbacks follow the result of the shards that emptied, here the first one.
Result_first(count) == IF count[0].unsuccessful = 0 THEN "succeeded" ELSE "failed"

Result(count) ==
    IF \A s \in DOMAIN count : count[s].succeeded = count[s].total THEN "succeeded" ELSE "failed"

\* finish_task_group_internal_v1 on the group row, as x with the writes w sees it.
Finished(group, w) ==
    IF Finishable(group, CountsRead(w))
    THEN [group EXCEPT !.state = "finished", !.result = Result(CountsRead(w))]
    ELSE group

\* The last statement of x writes `group`; each callback enqueue may fail by itself.
Close(x, before, group, w) ==
    LET finishes == Finishable(before, CountsRead(w))
        kinds == {"on_finish", "on_" \o group.result}
    IN  \E enqueued \in SUBSET kinds :
            /\ ~finishes => enqueued = {}
            /\ Then(x, "commit", <<>>, [w |-> (Group :> group) @@ w, calls |-> enqueued])
            /\ UNCHANGED <<db, callbacks, retries>>

\* The group row after the shards emptied: only a sealed group without pending shards finishes.
ApplyGroup(x) ==
    /\ Runs(x, "group")
    /\ LET group == Decremented(Read(x, Group), Cardinality(tx[x].rest))
       IN  Close(x, group, Finished(group, tx[x].w), tx[x].w)

-----------------------------------------------------------------------------
(* Adding, sealing, canceling.                                             *)

Unused(t) ==
    /\ db[Runtime(t)] = "none"
    /\ \A y \in Tx : Operation(y) = "add" => tx[y].op[2] # t

\* add_task_group_members_v1 of the next task, by anyone or (by # 0) by a running member, whose
\* runtime row is locked before the shards.  `state` is "ready", or the outcome of the enqueue.
BeginAdd(x, t, by, state) ==
    /\ \A u \in 1..t - 1 : db[Runtime(u)] # "none"
    /\ Unused(t)
    /\ by # 0 => db[Runtime(by)] = "active"
    /\ Begin(x, <<"add", t, by, state>>, "add",
             (IF by = 0 THEN <<>> ELSE <<Runtime(by)>>) \o AllShards \o <<Group>>)

\* Faulty: a running member may add although the group was canceled.
Refused_running(x, group, by) ==
    IF by = 0 THEN group.state # "open" ELSE group.state = "gone" \/ Read(x, Runtime(by)) # "active"

\* The refusals, and a group that does not exist any more.
Refused(x, group, by) ==
    \/ group.canceled
    \/ group.state \in {"finished", "gone"}
    \/ by # 0 /\ Read(x, Runtime(by)) # "active"
    \/ group.state = "sealed" /\ by = 0

\* 1 when the shard had no pending member.
Opened(count) == IF PendingIn(count) = 0 THEN 1 ELSE 0

\* The task, its membership, its shard and the group; an outcome that came before the membership
\* row is recorded and applied at once.
Add(x) ==
    /\ Runs(x, "add")
    /\ LET t == tx[x].op[2]
           state == tx[x].op[4]
           group == Read(x, Group)
           s == ShardOf(t)
           count == Read(x, Shard(s))
       IN  IF Refused(x, group, tx[x].op[3]) THEN Then(x, "commit", <<>>, <<>>)
           ELSE Then(x, IF state \in Terminal THEN "record" ELSE "commit", <<>>,
                     [w |-> (Runtime(t) :> state) @@ (Member(t) :> "pending")
                            @@ (Shard(s) :> [count EXCEPT !.total = @ + 1])
                            @@ (Group :> [group EXCEPT !.pending = @ + Opened(count)]),
                      rest |-> IF state \in Terminal THEN {t} ELSE {}])
    /\ UNCHANGED <<db, callbacks, retries>>

\* Faulty: a group that is sealed or finished is sealed again.
Sealable_any(group) == group.state # "gone"

\* Sealing any other group changes nothing.
Sealable(group) == group.state = "open"

BeginSeal(x) == Begin(x, <<"seal">>, "seal", <<Group>>)

\* seal_task_group_internal_v1 reads the shards without locks.
Seal(x) ==
    /\ Runs(x, "seal")
    /\ LET group == Read(x, Group)
           sealed == [group EXCEPT !.state = "sealed"]
       IN  IF ~Sealable(group)
           THEN Then(x, "commit", <<>>, <<>>) /\ UNCHANGED <<db, callbacks, retries>>
           ELSE Close(x, sealed, Finished(sealed, tx[x].w), tx[x].w)

\* Faulty: the runtime rows are locked one by one by cancel_v1 only.
CancelLocks_late(x) == AllShards \o <<Group>>

\* The live members that its first statement sees, then the shards and the group.
CancelLocks(x) == InOrder(LiveMembers(x), "runtime") \o AllShards \o <<Group>>

\* cancel_task_group_v1.
BeginCancel(x) == Begin(x, <<"cancel">>, "cancel", CancelLocks(x))

Cancel(x) ==
    /\ Runs(x, "cancel")
    /\ LET group == Read(x, Group)
       IN  IF group.state \in {"finished", "gone"} THEN Then(x, "commit", <<>>, <<>>)
           ELSE Then(x, "members", <<>>,
                     [w |-> Group :> [group EXCEPT !.state = "sealed", !.canceled = TRUE],
                      rest |-> LiveMembers(x)])
    /\ UNCHANGED <<db, callbacks, retries>>

\* The loop over the live members of a second snapshot: cancel_v1 locks the next one.
CancelNext(x) ==
    /\ Runs(x, "members")
    /\ tx[x].rest # {}
    /\ Then(x, "member", <<Runtime(Min(tx[x].rest))>>, <<>>)
    /\ UNCHANGED <<db, callbacks, retries>>

\* A queued member ends and is recorded; a running one only learns of the request.
CancelMember(x) ==
    /\ Runs(x, "member")
    /\ LET t == Min(tx[x].rest)
       IN  IF Read(x, Runtime(t)) = "ready" /\ Member(t) \notin tx[x].locks
           THEN Then(x, "member", <<Member(t)>>, <<>>)
           ELSE Then(x, "members", <<>>,
                     [rest |-> tx[x].rest \ {t}] @@
                     (IF Read(x, Runtime(t)) = "ready"
                      THEN [list |-> tx[x].list \cup {t},
                            w |-> (Runtime(t) :> "canceled") @@ (Member(t) :> "canceled")
                                  @@ tx[x].w]
                      ELSE <<>>))
    /\ UNCHANGED <<db, callbacks, retries>>

\* After the loop, under the locks taken before it: the list is applied and the group finished.
CancelEnds(x) ==
    /\ Runs(x, "members")
    /\ tx[x].rest = {}
    /\ LET list == tx[x].list
           w == [r \in {Shard(ShardOf(t)) : t \in list} |-> Counted(x, tx[x].w, list, r[2])]
                @@ tx[x].w
           group == Decremented(w[Group], Cardinality(Emptied(x, tx[x].w, list)))
       IN  Close(x, group, Finished(group, w), w)

-----------------------------------------------------------------------------
(* Maintenance.                                                            *)

\* maintain_task_groups_v1 repairs a sealed group without live pending members, and an operator's
\* repair any group that the drift listing names.
BeginRepair(x) ==
    /\ \/ db[Group].state = "sealed" /\ LiveMembers(x) = {}
       \/ \E t \in Tasks : db[Member(t)] = "pending" /\ db[Runtime(t)] \in Terminal
    /\ Begin(x, <<"repair">>, "repair", AllShards \o <<Group>>)

\* Faulty: the repair only recounts.
Repairable_never(x, t) == FALSE

\* A finished member without outcome whose row no other transaction holds (SKIP LOCKED).
Repairable(x, t) ==
    /\ Read(x, Member(t)) = "pending"
    /\ ~Live(x, t)
    /\ \A y \in Tx \ {x} : Member(t) \notin tx[y].locks

\* repair_task_group_internal_v1: the counts are set from the membership rows.
Repair(x) ==
    /\ Runs(x, "repair")
    /\ LET group == Read(x, Group)
           outcome == [t \in Tasks |-> IF Repairable(x, t) THEN db[Runtime(t)]
                                       ELSE db[Member(t)]]
           count == [s \in 0..Shards - 1 |-> Tally(s, outcome)]
           w == [r \in {Member(t) : t \in {u \in Tasks : Repairable(x, u)}} |-> outcome[r[2]]]
                @@ [r \in Range(AllShards) |-> count[r[2]]]
           repaired == [group EXCEPT !.pending = PendingShards(count)]
       IN  IF group.state \in {"finished", "gone"}
           THEN Then(x, "commit", <<>>, <<>>) /\ UNCHANGED <<db, callbacks, retries>>
           ELSE Close(x, repaired, Finished(repaired, w), w)

\* The deletion of an old finished group skips one that somebody has locked.
Delete ==
    /\ db[Group].state = "finished"
    /\ \A r \in Range(AllShards) \cup {Group} : ~Locked(r)
    /\ db' = [db EXCEPT ![Group].state = "gone"]
    /\ UNCHANGED <<tx, callbacks, retries>>

\* The rows that x wrote become visible, and the callbacks that it enqueued exist.
Commit(x) ==
    /\ Runs(x, "commit")
    /\ db' = [r \in Rows |-> Read(x, r)]
    /\ callbacks' = callbacks \o SetToSeq(tx[x].calls)
    /\ tx' = [tx EXCEPT ![x] = Idle]
    /\ UNCHANGED retries

Statement(x) ==
    \/ LockRow(x) \/ Deadlock(x) \/ Settle(x) \/ Record(x) \/ Apply(x) \/ ApplyGroup(x)
    \/ Add(x) \/ Seal(x) \/ Cancel(x) \/ CancelNext(x) \/ CancelMember(x) \/ CancelEnds(x)
    \/ Repair(x) \/ Commit(x)

Next ==
    \/ \E x \in Tx : Statement(x) \/ BeginSeal(x) \/ BeginCancel(x) \/ BeginRepair(x)
    \/ \E x \in Tx, tasks \in SUBSET Tasks : \/ BeginSettle(x, tasks, "ready", "canceled")
                                           \/ \E to \in Outcomes : BeginSettle(x, tasks, "active", to)
    \/ \E x \in Tx, t \in Tasks, by \in 0..N, state \in {"ready", "failed"} : BeginAdd(x, t, by, state)
    \/ \E t \in Tasks : Claim(t) \/ Retry(t)
    \/ Delete

Spec == Init /\ [][Next]_vars

\* A worker ends the member that it runs.
WorkerEnds(t) == \E x \in Tx, to \in Outcomes : BeginSettle(x, {t}, "active", to)

-----------------------------------------------------------------------------
(* Properties.                                                             *)

Unfinished == db[Group].state \in {"open", "sealed"}

\* In every committed state the sharded counters of an unfinished group agree with its membership
\* rows, and pending_shard_count with the shards, whatever adds, outcomes, cancellations and
\* repairs ran at the same time.
CountsMatch ==
    Unfinished =>
        /\ \A s \in 0..Shards - 1 : db[Shard(s)] = Tally(s, [t \in Tasks |-> db[Member(t)]])
        /\ db[Group].pending = PendingShards([s \in 0..Shards - 1 |-> db[Shard(s)]])

\* A sealed group has a pending member: no interleaving of the seal, which reads the shards
\* without locks, with the last outcomes leaves a sealed group that nobody finishes.
SealedIsPending ==
    db[Group].state = "sealed" => \E t \in Tasks : db[Member(t)] = "pending"

\* A finished group has only members with outcomes, and its result says whether all succeeded.
FinishedIsWhole ==
    db[Group].state = "finished" =>
        /\ \A t \in Tasks : db[Member(t)] # "pending"
        /\ db[Group].result = IF \A t \in Tasks : db[Member(t)] \in {"none", "succeeded"}
                              THEN "succeeded" ELSE "failed"

\* Each callback is enqueued at most once, for a finished group, and for its result.
CallbacksOnce ==
    /\ IsInjective(callbacks)
    /\ callbacks # <<>> => ~Unfinished
    /\ Range(callbacks) \subseteq {"on_finish", "on_" \o db[Group].result}

\* No task joins a canceled or finished group, not even one that a running member adds.
StaysClosed ==
    (db[Group].canceled \/ ~Unfinished) =>
        \A t \in Tasks : db[Member(t)] = "none" => db'[Member(t)] = "none"

\* Without concurrent adds, no two of the operations on a group wait for each other.
NoDeadlock == \A x \in Tx : ~Deadlocked(x)

Sealed == db[Group].state = "sealed"

Ended == db[Group].state \in {"finished", "gone"}
=============================================================================
