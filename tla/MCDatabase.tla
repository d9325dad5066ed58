----------------------------- MODULE MCDatabase -----------------------------
(***************************************************************************)
(* Instances of Admission and HandlerReplay for TLC: what the claims of a  *)
(* queue share in PostgreSQL, and what the activations of a handler store  *)
(* there.  `part` is the instance that runs: it is chosen among Parts at   *)
(* first and never changes.  The variables of the other component stay     *)
(* Off; task is of the one that runs.                                      *)
(***************************************************************************)
EXTENDS Naturals

CONSTANTS
    Parts,
    None, Past,     \* no value, and a time that has passed
    n1, n2,         \* two names
    p1, p2, T       \* two requests and a time to come

VARIABLES
    part, task,
    policy, bucket, claim, release, wake, now,
    store, fence, flying, running, held, state, r, calls, last

admission == <<policy, bucket, claim, release, wake, now>>
replay == <<store, fence, flying, running, held, state, r, calls, last>>
vars == <<part, task, admission, replay>>

Off == "off"

-----------------------------------------------------------------------------
(* Admission.                                                              *)

One == {"a"}
Two == {"a", "b"}
Backends == {0, 1}
OneQueue(k) == [t \in 1..k |-> [queue |-> "a", budget |-> 0]]
TwoTasks == OneQueue(2)
ThreeTasks == OneQueue(3)
FourTasks == OneQueue(4)
Capped(k) == [name \in Two |-> k]
Uncapped == Capped(0)
CapOne == Capped(1)
CapTwo == Capped(2)
CapThree == Capped(3)

\* Two queues, whose tasks name two budgets.
Budgeted ==
    <<[queue |-> "a", budget |-> 1], [queue |-> "a", budget |-> 2], [queue |-> "b", budget |-> 1]>>

\* A lease expires, and a synchronization takes one shard away and gives it back.
Wakes == INSTANCE Admission WITH
    Line <- TwoTasks, Given <- 0, Queues <- One, Claims <- Backends, Limit <- 1, MaxShards <- 2,
    FirstCaps <- CapOne, Caps <- {1, 2}, Burst <- 0, BudgetMax <- 1,
    Ending <- {1, 2}, Expiring <- {1}, Fused <- FALSE, MaxTime <- 0

\* Claims of two tasks on two shards, under a changing cap.
Shards == INSTANCE Admission WITH
    Line <- ThreeTasks, Given <- 0, Queues <- One, Claims <- Backends, Limit <- 2, MaxShards <- 2,
    FirstCaps <- CapTwo, Caps <- {2, 3}, Burst <- 0, BudgetMax <- 1,
    Ending <- {1, 2, 3}, Expiring <- {}, Fused <- FALSE, MaxTime <- 0

\* A lowered cap leaves a shard overdrawn.
Lowered == INSTANCE Admission WITH
    Line <- ThreeTasks, Given <- 3, Queues <- One, Claims <- Backends, Limit <- 1, MaxShards <- 2,
    FirstCaps <- CapThree, Caps <- {2}, Burst <- 0, BudgetMax <- 1,
    Ending <- {1, 2}, Expiring <- {}, Fused <- FALSE, MaxTime <- 0

\* Plain and fused claims of two queues share budgets.
Budgets == INSTANCE Admission WITH
    Line <- Budgeted, Given <- 3, Queues <- Two, Claims <- Backends, Limit <- 1, MaxShards <- 2,
    FirstCaps <- Uncapped, Caps <- {}, Burst <- 0, BudgetMax <- 1,
    Ending <- {1}, Expiring <- {}, Fused <- TRUE, MaxTime <- 0

\* A rate of three tokens in each unit of time, over two shards.
Rate == INSTANCE Admission WITH
    Line <- FourTasks, Given <- 1, Queues <- One, Claims <- Backends, Limit <- 2, MaxShards <- 2,
    FirstCaps <- Uncapped, Caps <- {}, Burst <- 3, BudgetMax <- 1,
    Ending <- {1}, Expiring <- {}, Fused <- FALSE, MaxTime <- 1

NoAdmission ==
    /\ policy = Off /\ bucket = Off /\ claim = Off /\ release = Off /\ wake = Off /\ now = Off

-----------------------------------------------------------------------------
(* Replays.                                                                *)

Made(op, name, req, join) == [op |-> op, name |-> name, req |-> req, join |-> join]

\* Checkpoints with inputs, decisions with contexts, a signal.
StepCalls ==
    {Made("checkpoint", n1, i, None) : i \in {None, p1, p2}}
    \cup {Made("checkpoint", n2, None, None), Made("getCheckpoint", n1, None, None)}
    \cup {Made("humanWait", n1, i, None) : i \in {p1, p2}}
    \cup {Made("signal", n1, None, None)}

\* Timers, relative and absolute, and a checkpoint.
TimerCalls ==
    {Made("wait", k, i, None) :
        k \in {n1, n2}, i \in {<<"relative", None>>, <<"absolute", T>>, <<"absolute", Past>>}}
    \cup {Made("checkpoint", n1, None, None), Made("getWait", n1, None, None)}

ChildSets == {[k \in s |-> p1] : s \in SUBSET {n1, n2}} \cup {[k \in {n1, n2} |-> IF k = n1 THEN p1 ELSE p2]}

\* Children and child sets.
ChildCalls ==
    {Made("child", k, i, None) : k \in {n1, n2}, i \in {p1, p2}}
    \cup {Made("children", None, s, j) : s \in ChildSets, j \in {"settled", "all_success"}}
    \cup {Made("checkpoint", n1, None, None)}

Results == {"x", "y"}

Steps == INSTANCE HandlerReplay WITH
    Calls <- StepCalls, Values <- Results, AllowNew <- {n2}, MaxCalls <- 3, MaxFence <- 3

Timers == INSTANCE HandlerReplay WITH
    Calls <- TimerCalls, Values <- Results, AllowNew <- {}, MaxCalls <- 3, MaxFence <- 3

Children == INSTANCE HandlerReplay WITH
    Calls <- ChildCalls, Values <- Results, AllowNew <- {}, MaxCalls <- 3, MaxFence <- 3

NoReplay ==
    /\ store = Off /\ fence = Off /\ flying = Off /\ running = Off /\ held = Off
    /\ state = Off /\ r = Off /\ calls = Off /\ last = Off

-----------------------------------------------------------------------------

Init ==
    /\ part \in Parts
    /\ \/ part = "wakes" /\ Wakes!Init /\ NoReplay
       \/ part = "shards" /\ Shards!Init /\ NoReplay
       \/ part = "caps" /\ Lowered!Init /\ NoReplay
       \/ part = "budgets" /\ Budgets!Init /\ NoReplay
       \/ part = "rate" /\ Rate!Init /\ NoReplay
       \/ part = "steps" /\ Steps!Init /\ NoAdmission
       \/ part = "timers" /\ Timers!Init /\ NoAdmission
       \/ part = "children" /\ Children!Init /\ NoAdmission

Next ==
    /\ UNCHANGED part
    /\ \/ part = "wakes" /\ Wakes!Next /\ UNCHANGED replay
       \/ part = "shards" /\ Shards!Next /\ UNCHANGED replay
       \/ part = "caps" /\ Lowered!Next /\ UNCHANGED replay
       \/ part = "budgets" /\ Budgets!Next /\ UNCHANGED replay
       \/ part = "rate" /\ Rate!Next /\ UNCHANGED replay
       \/ part = "steps" /\ Steps!Next /\ UNCHANGED admission
       \/ part = "timers" /\ Timers!Next /\ UNCHANGED admission
       \/ part = "children" /\ Children!Next /\ UNCHANGED admission

Spec == Init /\ [][Next]_vars

-----------------------------------------------------------------------------
(* Properties.                                                             *)

\* A ready task that no worker is on its way to claim waits for room in a full queue.
NoIdleRoom == part = "wakes" => Wakes!NoIdleRoom

\* "Other releases wake no worker, because no claim waits for them": the same where
\* synchronizations change max_active and not the number of shards.
NoIdleShare == part = "shards" => Shards!NoIdleRoom

\* A claim never lifts the unexpired leases of a queue above its max_active.
CapHolds == [][part = "caps" => Lowered!ClaimsWithinCap]_vars

\* What several claims share is not overdrawn: the claims of all queues together keep to what a
\* budget allows (budget_admission_v1), a queue starts at most what its rate refills, and no two
\* claims wait for each other over them.
LimitsHold ==
    /\ part = "budgets" => Budgets!BudgetHolds /\ Budgets!NoClaimDeadlock
    /\ part = "rate" => Rate!RateHolds

\* A replay tells what the live task does: what the live context refuses, it reports; a call that
\* both answer has one value; a call that suspends the task stops the replay; and a replay
\* without a problem asked for every stored name before the first new one (ask).
ReplayFaithful ==
    /\ part = "steps" => Steps!RefusalFound /\ Steps!AnswersAgree /\ Steps!StopsWithLive /\ Steps!NewNamesLast
    /\ part = "timers" => Timers!RefusalFound /\ Timers!AnswersAgree /\ Timers!StopsWithLive /\ Timers!NewNamesLast
    /\ part = "children" =>
        Children!RefusalFound /\ Children!AnswersAgree /\ Children!StopsWithLive /\ Children!NewNamesLast
=============================================================================
