---------------------------- MODULE Dependencies ----------------------------
(***************************************************************************)
(* Task dependencies at the level of statements and row locks: a task      *)
(* waits for its prerequisites, each outcome resolves the edges of its     *)
(* dependents in its own transaction, and a dependent that fails or is     *)
(* canceled by its policy, or is released past its deadline, cascades to   *)
(* the next level in the same transaction.                                 *)
(*                                                                         *)
(* Transactions run under READ COMMITTED: a statement reads what was       *)
(* committed when it began, plus the writes of its own transaction.  A     *)
(* transaction keeps its writes in tx[x].rows and tx[x].edges until it     *)
(* commits.  Locks on task_runtime rows are taken in identity order and    *)
(* held to the end.  PostgreSQL aborts a transaction on a cycle of waits.  *)
(*                                                                         *)
(* The fence checks of a settlement are in TaskLifecycle.  Counter repair  *)
(* is left out: it changes nothing where the counters match the edges.     *)
(***************************************************************************)
EXTENDS Naturals, Sequences, FiniteSets, FiniteSetsExt, Relation, TLC

CONSTANTS
    N,          \* task ids are 1..N, in identity order
    Tx,         \* concurrent transactions
    Policies,   \* dependency policies that an enqueue may choose
    Outcomes,   \* how a settlement may end a task
    Deadlined,  \* the tasks whose deadline may pass while they wait
    Given       \* the tasks that exist at first, each with its prerequisites

Tasks == 1..N

Terminal == {"succeeded", "failed", "canceled"}

\* create_child_v1 and a plain prerequisiteTaskId.
DefaultPolicy == [succeeded |-> "release", failed |-> "fail", canceled |-> "cancel"]

VARIABLES
    task,     \* committed rows: state, pending_prerequisites, dependency_rejected, policy
    edge,     \* committed edges: [dependent -> [prerequisite -> resolution]]
    tx,       \* the transactions in progress
    late      \* the tasks whose deadline has passed

vars == <<task, edge, tx, late>>

Row(state, pending, policy) ==
    [state |-> state, pending |-> pending, rejected |-> FALSE, policy |-> policy]

NoTask == Row("none", 0, DefaultPolicy)

NoEdges == [p \in Tasks |-> "none"]

\* A transaction that has not begun.  `at` is its next statement; todo holds the rows it still
\* has to lock in `mode`; got the rows it locked in this statement; level the tasks that ended;
\* overdue the released dependents that it still has to end, the innermost release first.
Idle == [at |-> "idle", op |-> <<>>, todo |-> {}, mode |-> "none", got |-> {}, level |-> {},
         overdue |-> <<>>, locks |-> {}, rows |-> <<>>, edges |-> <<>>]

Init ==
    /\ task = [t \in Tasks |->
                 IF t \notin DOMAIN Given THEN NoTask
                 ELSE Row(IF Given[t] = {} THEN "active" ELSE "blocked", Cardinality(Given[t]),
                          DefaultPolicy)]
    /\ edge = [d \in Tasks |-> [p \in Tasks |->
                 IF d \in DOMAIN Given /\ p \in Given[d] THEN "pending" ELSE "none"]]
    /\ tx = [x \in Tx |-> Idle]
    /\ late = {}

\* What a statement of transaction x reads.
TaskOf(x, t) == IF t \in DOMAIN tx[x].rows THEN tx[x].rows[t] ELSE task[t]
EdgesOf(x, d) == IF d \in DOMAIN tx[x].edges THEN tx[x].edges[d] ELSE edge[d]

\* The pending and the rejecting edges of one dependent.
Pending(edges) == {p \in Tasks : edges[p] = "pending"}

Rejecting(edges) == {p \in Tasks : edges[p] \in {"fail", "cancel"}}

-----------------------------------------------------------------------------
(* Row locks.                                                              *)

Conflicts == {{"share", "update"}, {"nokey"}, {"nokey", "update"}, {"update"}}

\* The transactions that x waits for, for the next row of its statement.
Blockers(x) ==
    IF tx[x].todo = {} THEN {}
    ELSE {y \in Tx \ {x} : \E held \in tx[y].locks :
              held[1] = Min(tx[x].todo) /\ {held[2], tx[x].mode} \in Conflicts}

Waits == [xy \in Tx \X Tx |-> xy[2] \in Blockers(xy[1])]

\* The condition on the row, tested again on its newest version once it is locked.
StillMeant(x, t) ==
    IF tx[x].at = "dependents" THEN TaskOf(x, t).state = "blocked"
    ELSE TaskOf(x, t).state \notin Terminal

\* The next row in identity order; a row that no longer exists takes no lock.
LockRow(x) ==
    /\ tx[x].todo # {}
    /\ Blockers(x) = {}
    /\ LET t == Min(tx[x].todo)
       IN  tx' = [tx EXCEPT ![x].todo = @ \ {t},
                            ![x].got = IF StillMeant(x, t) THEN @ \cup {t} ELSE @,
                            ![x].locks = @ \cup {<<t, tx[x].mode>>}]
    /\ UNCHANGED <<task, edge, late>>

\* The deadlock detector aborts x; its writes are gone, and the client may send it again.
Deadlock(x) ==
    /\ Blockers(x) # {}
    /\ TransitiveClosure(Waits, Tx)[x, x]
    /\ tx' = [tx EXCEPT ![x] = Idle]
    /\ UNCHANGED <<task, edge, late>>

\* tx[x] goes on with statement `at`, which locks the rows `todo` first.
Then(x, at, todo, mode, new) ==
    tx' = [tx EXCEPT ![x] = new @@ [@ EXCEPT !.at = at, !.todo = todo, !.mode = mode, !.got = {}]]

-----------------------------------------------------------------------------
(* Operations begin.                                                       *)

\* The deadline of a task passes while it waits.
DeadlinePasses(t) ==
    /\ t \in Deadlined \ late
    /\ task[t].state = "blocked"
    /\ late' = late \cup {t}
    /\ UNCHANGED <<task, edge, tx>>

\* A claim takes a ready row in time that nobody has locked (SKIP LOCKED).
Claim(t) ==
    /\ task[t].state = "ready"
    /\ t \notin late
    /\ \A x \in Tx : \A held \in tx[x].locks : held[1] # t
    /\ task' = [task EXCEPT ![t].state = "active"]
    /\ UNCHANGED <<edge, tx, late>>

\* A worker settles its task, or cancellation or maintenance ends a task that nobody runs.
BeginSettle(x, t, state) ==
    /\ tx[x].at = "idle"
    /\ \/ task[t].state = "active"
       \/ task[t].state \in {"blocked", "ready"} /\ state = "canceled"
       \/ task[t].state \in {"blocked", "ready"} /\ t \in late /\ state = "failed"
    /\ Then(x, "own", {t}, "update", [op |-> <<"settle", t, state, task[t].state>>])
    /\ UNCHANGED <<task, edge, late>>

Unused(d) ==
    /\ task[d].state = "none"
    /\ \A y \in Tx : tx[y].op # <<>> => tx[y].op[2] # d

\* enqueue_many_v1 of one request: every prerequisite row is locked against its outcome.
BeginEnqueue(x, d, prerequisites, policy) ==
    /\ tx[x].at = "idle"
    /\ Unused(d)
    /\ prerequisites # {}
    /\ \A p \in prerequisites : task[p].state # "none"
    /\ Then(x, "insert", prerequisites, "share", [op |-> <<"enqueue", d, prerequisites, policy>>])
    /\ UNCHANGED <<task, edge, late>>

EnqueuePlain(d) ==
    /\ Unused(d)
    /\ task' = [task EXCEPT ![d] = Row("ready", 0, DefaultPolicy)]
    /\ UNCHANGED <<edge, tx, late>>

\* create_child_v1 by the owner of the parent; a child past its deadline is finished at once.
BeginChild(x, parent, child, expired) ==
    /\ tx[x].at = "idle"
    /\ task[parent].state = "active"
    /\ edge[parent] = NoEdges
    /\ Unused(child)
    /\ Then(x, "child", {parent}, "update", [op |-> <<"child", child, parent, expired>>])
    /\ UNCHANGED <<task, edge, late>>

-----------------------------------------------------------------------------
(* Statements.                                                             *)

\* The settlement under the row lock: stale when the row has moved on.  A passed deadline ends
\* the task wherever it waits.
Settle(x) ==
    /\ tx[x].at = "own"
    /\ tx[x].todo = {}
    /\ LET t == tx[x].op[2]
           row == task[t]
       IN  IF \/ row.state = tx[x].op[4]
              \/ t \in late /\ tx[x].op[3] = "failed" /\ row.state \in {"blocked", "ready"}
           THEN Then(x, "outcome", {}, "none",
                     [level |-> {t}, rows |-> t :> [row EXCEPT !.state = tx[x].op[3],
                                                               !.pending = 0,
                                                               !.rejected = FALSE]])
           ELSE Then(x, "commit", {}, "none", <<>>)
    /\ UNCHANGED <<task, edge, late>>

\* An edge to a finished prerequisite starts resolved only when its policy releases.
NewEdge(x, policy, p) ==
    LET state == TaskOf(x, p).state
    IN  IF state \in Terminal /\ policy[state] = "release" THEN "release" ELSE "pending"

\* The finished prerequisites whose edges the enqueue itself resolves.
EndedPrerequisites(x, prerequisites) ==
    {p \in prerequisites : TaskOf(x, p).state \in Terminal}

\* The rows of the new task and its edges; the edges to finished prerequisites are resolved next.
Insert(x) ==
    /\ tx[x].at = "insert"
    /\ tx[x].todo = {}
    /\ LET d == tx[x].op[2]
           prerequisites == tx[x].op[3]
           policy == tx[x].op[4]
           edges == [p \in Tasks |-> IF p \in prerequisites THEN NewEdge(x, policy, p)
                                     ELSE "none"]
           pending == {p \in Tasks : edges[p] = "pending"}
       IN  Then(x, "candidates", {}, "none",
                [level |-> EndedPrerequisites(x, prerequisites),
                 rows |-> d :> Row(IF pending = {} THEN "ready" ELSE "blocked",
                                   Cardinality(pending), policy),
                 edges |-> d :> edges])
    /\ UNCHANGED <<task, edge, late>>

\* Faulty: the outcome that a child reached inside its enqueue resolves nothing.
EndedChild_none(child, expired) == {}

\* A child that ended inside the enqueue had no edge yet: its outcome is resolved afterwards.
EndedChild(child, expired) == IF expired THEN {child} ELSE {}

\* The child, its edge and the suspension of the parent, which still has to own its lease.
CreateChild(x) ==
    /\ tx[x].at = "child"
    /\ tx[x].todo = {}
    /\ LET child == tx[x].op[2]
           parent == tx[x].op[3]
           expired == tx[x].op[4]
       IN  IF task[parent].state # "active" THEN Then(x, "commit", {}, "none", <<>>)
           ELSE Then(x, "candidates", {}, "none",
                     [level |-> EndedChild(child, expired),
                      rows |-> parent :> Row("blocked", 1, DefaultPolicy) @@
                               child :> Row(IF expired THEN "failed" ELSE "ready", 0,
                                            DefaultPolicy),
                      edges |-> parent :> [edge[parent] EXCEPT ![child] = "pending"]])
    /\ UNCHANGED <<task, edge, late>>

\* resolve_task_outcome_dependencies_v1: the edges that enter the ended tasks are released.
ReleaseOwn(x) ==
    /\ tx[x].at = "outcome"
    /\ LET released(d) == [p \in Tasks |-> IF EdgesOf(x, d)[p] = "pending" THEN "release"
                                           ELSE EdgesOf(x, d)[p]]
       IN  Then(x, "candidates", {}, "none",
                [edges |-> [d \in tx[x].level |-> released(d)] @@ tx[x].edges])
    /\ UNCHANGED <<task, edge, late>>

\* resolve_dependents_many_v1 chooses the blocked dependents and locks them.
Candidates(x) ==
    /\ tx[x].at = "candidates"
    /\ LET found == {d \in Tasks : /\ TaskOf(x, d).state = "blocked"
                                   /\ Pending(EdgesOf(x, d)) \cap tx[x].level # {}}
       IN  Then(x, IF found = {} THEN "commit" ELSE "dependents", found,
                "nokey", <<>>)
    /\ UNCHANGED <<task, edge, late>>

\* pending_prerequisites of the locked row.
Recorded(x, d) == TaskOf(x, d).pending

\* The edges of dependent d after the outcomes of this level.
Resolved(x, d) ==
    [p \in Tasks |->
        IF p \in tx[x].level /\ EdgesOf(x, d)[p] = "pending"
        THEN TaskOf(x, d).policy[TaskOf(x, p).state]
        ELSE EdgesOf(x, d)[p]]

\* Faulty: a dependent that still waits keeps its counter.
Remaining_kept(recorded, decrement) == IF recorded = decrement THEN 0 ELSE recorded

\* The decremented counter is written although the dependent does not settle yet.
Remaining(recorded, decrement) == recorded - decrement

\* Faulty: only the edges of this call can reject.
RejectedBefore_not(x, d) == FALSE

\* dependency_rejected of the locked row.
RejectedBefore(x, d) == TaskOf(x, d).rejected

\* The counters of d: the resolved edges are subtracted, and a counter that disagrees with the
\* edges when it would settle d is replaced by a recount.
Counted(x, d) ==
    LET before == Pending(EdgesOf(x, d))
        edges == Resolved(x, d)
        left == Pending(edges)
        decrement == Cardinality(before \ left)
        repaired == \/ Recorded(x, d) < decrement
                    \/ Recorded(x, d) = decrement /\ left # {}
    IN  [pending |-> IF repaired THEN Cardinality(left) ELSE Remaining(Recorded(x, d), decrement),
         rejected |-> IF repaired THEN Rejecting(edges) # {}
                      ELSE RejectedBefore(x, d) \/ \E p \in before \ left :
                                                     edges[p] \in {"fail", "cancel"}]

\* Edges and counters of this level; dependents without pending edges are released or, after a
\* rejection, locked for their end.  Those released past their deadline end after that.
Resolve(x) ==
    /\ tx[x].at = "dependents"
    /\ tx[x].todo = {}
    /\ LET found == {d \in tx[x].got : Pending(EdgesOf(x, d)) \cap tx[x].level # {}}
           counted == [d \in found |-> Counted(x, d)]
           settled == {d \in found : counted[d].pending = 0}
           ended == {d \in settled : counted[d].rejected}
           overdue == (settled \ ended) \cap late
           row(d) == [TaskOf(x, d) EXCEPT
                        !.state = IF d \in settled \ ended THEN "ready" ELSE @,
                        !.pending = counted[d].pending,
                        !.rejected = counted[d].rejected]
       IN  Then(x, IF ended = {} THEN "commit" ELSE "rejected", ended, "update",
                [edges |-> [d \in found |-> Resolved(x, d)] @@ tx[x].edges,
                 rows |-> [d \in found |-> row(d)] @@ tx[x].rows,
                 overdue |-> IF overdue = {} THEN tx[x].overdue ELSE <<overdue>> \o tx[x].overdue])
    /\ UNCHANGED <<task, edge, late>>

\* Faulty: the rejection that resolved last decides.
Fate_any(x, d) == IF \E p \in Tasks : EdgesOf(x, d)[p] = "cancel" THEN "canceled" ELSE "failed"

\* A rejecting resolution `fail` comes before `cancel`.
Fate(x, d) == IF \E p \in Tasks : EdgesOf(x, d)[p] = "fail" THEN "failed" ELSE "canceled"

\* Faulty: the outcomes of rejected dependents resolve nothing.
NextLevel_none(x) == {}

\* The outcome trigger fires for the rejected dependents too.
NextLevel(x) == tx[x].got

\* settle_dependents_v1 ends the rejected dependents (their outcomes say so: rejected stays), and
\* their outcomes resolve the next level.
EndRejected(x) ==
    /\ tx[x].at = "rejected"
    /\ tx[x].todo = {}
    /\ LET row(d) == [TaskOf(x, d) EXCEPT !.state = Fate(x, d), !.pending = 0]
       IN  Then(x, "outcome", {}, "none",
                [level |-> NextLevel(x), rows |-> [d \in tx[x].got |-> row(d)] @@ tx[x].rows])
    /\ UNCHANGED <<task, edge, late>>

\* settle_dependents_v1 ends what it released past its deadline, one by one in identity order.
NextOverdue(x) ==
    /\ tx[x].at = "commit"
    /\ tx[x].overdue # <<>>
    /\ LET d == Min(Head(tx[x].overdue))
           rest == Head(tx[x].overdue) \ {d}
       IN  Then(x, "overdue", {d}, "update",
                [overdue |-> IF rest = {} THEN Tail(tx[x].overdue) ELSE <<rest>> \o Tail(tx[x].overdue)])
    /\ UNCHANGED <<task, edge, late>>

\* Faulty: the outcome of an overdue dependent resolves nothing.
AfterOverdue_none(d) == {}

\* The outcome trigger fires for an overdue dependent too.
AfterOverdue(d) == {d}

\* terminalize_deadline_v1: the dependent fails, and its outcome resolves the next level.
EndOverdue(x) ==
    /\ tx[x].at = "overdue"
    /\ tx[x].todo = {}
    /\ LET d == CHOOSE t \in tx[x].got : TRUE
       IN  Then(x, "outcome", {}, "none",
                [level |-> AfterOverdue(d),
                 rows |-> d :> [TaskOf(x, d) EXCEPT !.state = "failed"] @@ tx[x].rows])
    /\ UNCHANGED <<task, edge, late>>

Commit(x) ==
    /\ tx[x].at = "commit"
    /\ tx[x].overdue = <<>>
    /\ task' = [t \in Tasks |-> TaskOf(x, t)]
    /\ edge' = [d \in Tasks |-> EdgesOf(x, d)]
    /\ tx' = [tx EXCEPT ![x] = Idle]
    /\ UNCHANGED late

Statement(x) ==
    \/ LockRow(x) \/ Deadlock(x) \/ Settle(x) \/ Insert(x) \/ CreateChild(x) \/ ReleaseOwn(x)
    \/ Candidates(x) \/ Resolve(x) \/ EndRejected(x) \/ NextOverdue(x) \/ EndOverdue(x) \/ Commit(x)

Next ==
    \/ \E x \in Tx : Statement(x)
    \/ \E t \in Tasks : Claim(t) \/ EnqueuePlain(t) \/ DeadlinePasses(t)
    \/ \E x \in Tx, t \in Tasks, s \in Outcomes : BeginSettle(x, t, s)
    \/ \E x \in Tx, d \in Tasks, ps \in SUBSET Tasks, policy \in Policies :
          BeginEnqueue(x, d, ps, policy)
    \/ \E x \in Tx, parent, child \in Tasks, expired \in BOOLEAN :
          BeginChild(x, parent, child, expired)

Spec == Init /\ [][Next]_vars

\* A transaction gets the row t that it waits for.
Gets(x, t) == tx[x].todo # {} /\ Min(tx[x].todo) = t /\ LockRow(x)

\* A worker ends the task that it runs.
WorkerEnds == \E x \in Tx, t \in Tasks, s \in Outcomes : task[t].state = "active" /\ BeginSettle(x, t, s)

-----------------------------------------------------------------------------
(* Properties.                                                             *)

\* The counters of a blocked task agree with its edges in every committed state, whatever
\* transactions resolved them concurrently (pending_prerequisites, dependency_rejected): the
\* repair functions find no drift that the resolver itself caused.
CountersMatch ==
    \A d \in Tasks : task[d].state = "blocked" =>
        /\ task[d].pending = Cardinality(Pending(edge[d]))
        /\ task[d].rejected = (Rejecting(edge[d]) # {})

\* A blocked task waits for a prerequisite that has not ended: no outcome is missed, neither one
\* that commits while the dependent is being enqueued, nor one that a child reached before its
\* edge existed.
BlockedHasCause ==
    \A d \in Tasks : task[d].state = "blocked" =>
        \E p \in Pending(edge[d]) : task[p].state \notin Terminal

\* A task runs only when every one of its edges resolved as `release`: no early release, and no
\* rejection lost between concurrent resolutions.
RunsWhenReleased ==
    \A d \in Tasks : task[d].state \in {"ready", "active", "succeeded"} =>
        \A p \in Tasks : edge[d][p] \in {"none", "release"}

\* A dependent that was ended by its edges has the fate they chose, whichever of them resolved
\* last: failed if one of them says `fail`, canceled if the rejecting ones all say `cancel`.
FateOfEdges ==
    \A d \in Tasks : task[d].state \in Terminal /\ task[d].rejected =>
        /\ Rejecting(edge[d]) # {}
        /\ task[d].state = IF \E p \in Tasks : edge[d][p] = "fail" THEN "failed" ELSE "canceled"

NoneBlocked == \A d \in Tasks : task[d].state # "blocked"
=============================================================================
