----------------------------- MODULE MCRelations -----------------------------
(***************************************************************************)
(* Instances of Dependencies and TaskGroups for TLC.  `part` is the        *)
(* instance that runs: it is chosen at first among Parts and never         *)
(* changes.  The variables of the other component stay Off.                *)
(***************************************************************************)
EXTENDS Naturals, TLC

CONSTANTS Parts, x1, x2

VARIABLES part, task, edge, late, tx, db, callbacks, retries

vars == <<part, task, edge, late, tx, db, callbacks, retries>>

Off == "off"

Tx == {x1, x2}

Symmetry == Permutations(Tx)

-----------------------------------------------------------------------------
(* Dependencies.                                                           *)

\* The default policy, and one that cancels on failure and ignores a cancellation.
Policies == {[succeeded |-> "release", failed |-> "fail", canceled |-> "cancel"],
             [succeeded |-> "release", failed |-> "cancel", canceled |-> "release"]}

\* Two tasks run; a third is enqueued later.
Resolution == INSTANCE Dependencies WITH
    N <- 3, Outcomes <- {"succeeded", "failed", "canceled"}, Given <- [t \in 1..2 |-> {}],
    Deadlined <- {}

\* Tasks 2 and 3 wait for 1, and 4 for both: an outcome of 1 may release them past their deadlines.
Overdue == INSTANCE Dependencies WITH
    N <- 4, Policies <- {}, Outcomes <- {"succeeded", "failed", "canceled"}, Deadlined <- {2, 3},
    Given <- [t \in 1..4 |-> CASE t = 1 -> {} [] t = 4 -> {2, 3} [] OTHER -> {1}]

\* Tasks 1 and 2 end by themselves.  3 and 4 wait for 1; 5 and 6 wait for 2; 4 decides 5 and 6
\* decides 3: the cascades of 1 and 2 lock 3 and 5 in opposite orders.
Crossings == [t \in 1..6 |-> CASE t = 3 -> {1, 6} [] t = 4 -> {1}
                               [] t = 5 -> {2, 4} [] t = 6 -> {2} [] OTHER -> {}]

Crossed == INSTANCE Dependencies WITH
    N <- 6, Policies <- {}, Outcomes <- {"failed"}, Given <- Crossings, Deadlined <- {}

NoDependencies == task = Off /\ edge = Off /\ late = Off

-----------------------------------------------------------------------------
(* Task groups.                                                            *)

Results == {"succeeded", "failed"}

\* One member runs; another is added later.
Counts == INSTANCE TaskGroups WITH
    N <- 2, Shards <- 2, Given <- [t \in {1} |-> "active"], Drifted <- {},
    MaxRetries <- 1, Outcomes <- Results

\* One member runs and another is queued: no more of them are added.
Locks == INSTANCE TaskGroups WITH
    N <- 2, Shards <- 2, Given <- [t \in 1..2 |-> IF t = 1 THEN "active" ELSE "ready"],
    Drifted <- {}, MaxRetries <- 1, Outcomes <- Results

\* The outcome of the first member was never counted.
Drift == INSTANCE TaskGroups WITH
    N <- 2, Shards <- 2, Given <- [t \in 1..2 |-> IF t = 1 THEN "failed" ELSE "active"],
    Drifted <- {1}, MaxRetries <- 0, Outcomes <- {"succeeded"}

NoGroups == db = Off /\ callbacks = Off /\ retries = Off

-----------------------------------------------------------------------------

Init ==
    /\ part \in Parts
    /\ \/ part = "resolution" /\ Resolution!Init /\ NoGroups
       \/ part = "overdue" /\ Overdue!Init /\ NoGroups
       \/ part = "crossed" /\ Crossed!Init /\ NoGroups
       \/ part = "counts" /\ Counts!Init /\ NoDependencies
       \/ part = "locks" /\ Locks!Init /\ NoDependencies
       \/ part = "drift" /\ Drift!Init /\ NoDependencies

Next ==
    /\ UNCHANGED part
    /\ \/ part = "resolution" /\ Resolution!Next /\ UNCHANGED <<db, callbacks, retries>>
       \/ part = "overdue" /\ Overdue!Next /\ UNCHANGED <<db, callbacks, retries>>
       \/ part = "crossed" /\ Crossed!Next /\ UNCHANGED <<db, callbacks, retries>>
       \/ part = "counts" /\ Counts!Next /\ UNCHANGED <<task, edge, late>>
       \/ part = "locks" /\ Locks!Next /\ UNCHANGED <<task, edge, late>>
       \/ part = "drift" /\ Drift!Next /\ UNCHANGED <<task, edge, late>>

Spec == Init /\ [][Next]_vars

InCrossed(A) == part = "crossed" /\ A /\ UNCHANGED <<part, db, callbacks, retries>>

InDrift(A) == part = "drift" /\ A /\ UNCHANGED <<part, task, edge, late>>

\* Statements go on; a transaction that waits for a row gets it at some time, although others take
\* it again and again; tasks are claimed and the running ones end at some time; maintenance looks
\* at the group now and then.  Only one of the two instances runs, so each condition is about
\* a step of the one or of the other.
FairSpec ==
    /\ Spec
    /\ \A x \in Tx : WF_vars(InCrossed(Crossed!Statement(x)) \/ InDrift(Drift!Statement(x)))
    /\ WF_vars(InCrossed(\E t \in 1..6 : Crossed!Claim(t)))
    /\ SF_vars(InCrossed(Crossed!Gets(x1, 3)) \/ InDrift(Drift!LockRow(x1)))
    /\ SF_vars(InCrossed(Crossed!Gets(x2, 3)) \/ InDrift(Drift!LockRow(x2)))
    /\ \A t \in 1..2 : SF_vars(InCrossed(Crossed!Gets(x1, t + 3)) \/ InDrift(Drift!Claim(t)))
    /\ \A t \in 1..2 : SF_vars(InCrossed(Crossed!Gets(x2, t + 3)) \/ InDrift(Drift!WorkerEnds(t)))
    /\ \A x \in Tx : SF_vars(InCrossed(Crossed!Gets(x, 6)))
    /\ SF_vars(InCrossed(Crossed!WorkerEnds) \/ InDrift(\E x \in Tx : Drift!BeginRepair(x)))

-----------------------------------------------------------------------------
(* Properties.                                                             *)

\* A dependent follows its edges: its counters agree with them (resolve_dependents_many_v1), it is
\* blocked only on a prerequisite that has not ended (create_single_child_v2), it runs only when
\* every edge resolved as `release`, and otherwise has the fate that they chose
\* (settle_dependents_v1).
DependentsFollowEdges ==
    /\ part = "resolution" =>
        /\ Resolution!CountersMatch /\ Resolution!BlockedHasCause
        /\ Resolution!RunsWhenReleased /\ Resolution!FateOfEdges
    /\ part = "overdue" =>
        /\ Overdue!CountersMatch /\ Overdue!BlockedHasCause
        /\ Overdue!RunsWhenReleased /\ Overdue!FateOfEdges

\* A group counts its members and ends with them: the counters of an unfinished one agree with its
\* members, and a sealed one has a pending member, so nobody waits for a finish that never comes
\* (apply_task_group_outcomes_internal_v1); a finished one has only members with outcomes, its
\* result says what they are, and each callback is enqueued at most once and for that result
\* (finish_task_group_internal_v1).
GroupCountsMembers ==
    part = "counts" =>
        /\ Counts!CountsMatch
        /\ Counts!SealedIsPending
        /\ Counts!FinishedIsWhole
        /\ Counts!CallbacksOnce

\* No task joins a canceled or finished group (add_task_group_members_v1).
ClosedToMembers == [][part = "counts" => Counts!StaysClosed]_vars

\* With a fixed set of members, no operations on a group wait for each other.
NoDeadlock == part = "locks" => Locks!NoDeadlock

\* Once no more tasks are enqueued, no task stays blocked, although cascades that meet at
\* different levels deadlock and one of them is aborted and sent again.
BlockedEnds == <>[](part = "crossed" => Crossed!NoneBlocked)

\* A sealed group finishes, also one that starts with a member whose outcome was never counted
\* (repair_task_group_internal_v1).
SealedFinishes == (part = "drift" /\ Drift!Sealed) ~> (part = "drift" => Drift!Ended)

\* Nothing waits for ever on related tasks: dependents end, and sealed groups finish.
RelationsSettle == BlockedEnds /\ SealedFinishes
=============================================================================
