-------------------------- MODULE HeartbeatSchedule --------------------------
(***************************************************************************)
(* When a worker sends its heartbeat rounds and what an answer does:       *)
(* scheduleHeartbeatBatch, takeBusyRetry, runHeartbeatBatch and            *)
(* addHeartbeatLease in typescript/core/src/worker.ts.                     *)
(*                                                                         *)
(* A round renews every registered lease, one interval after the start of  *)
(* the previous one.  Leases whose rows were locked are tried again in     *)
(* between by a busy retry.  Leases come, go and are replaced while a      *)
(* round is in flight.                                                     *)
(*                                                                         *)
(* Times are countdowns in units of the clock.  A timer that is due fires, *)
(* and a round settles by its bound, before the clock moves on: the        *)
(* worker's event loop is not blocked and its rounds run on the reserved   *)
(* connection, which bounds them (see ReservedConnection).                 *)
(***************************************************************************)
EXTENDS Integers, FiniteSets, FiniteSetsExt

CONSTANTS
    Tasks,
    Objects,       \* identities of lease objects; one in use is not taken again
    Interval,      \* heartbeatMs
    RoundMs,       \* heartbeatRoundMs
    LeaseMs,       \* leaseMs
    RetryDelays,   \* busyRetryDelayMs
    ClaimAges      \* how long claims take until their leases register

\* heartbeatRoundBoundMs is positive and at most heartbeatMs.
ASSUME ScheduleAssumption ==
    /\ Interval \in Nat /\ LeaseMs \in Nat /\ RoundMs \in 1..Interval
    /\ RetryDelays \subseteq Nat
    /\ ClaimAges \subseteq Nat /\ ClaimAges # {}

VARIABLES
    leases,      \* heartbeatLeases: lease objects with the time left to
                 \* leaseEndsAt and the regular rounds in a row, at most 2,
                 \* that did not renew them
    nextAt,      \* time left to nextHeartbeatAt, {} while it is undefined
    timer,       \* heartbeatTimer and heartbeatTimerIsRetry
    retry,       \* busyRetryLeases and the time left to busyRetryAt
    flight,      \* the round in flight
    since        \* since the last regular round left, or the schedule began

scheduleVars == <<leases, nextAt, timer, retry, flight, since>>

NoTimer == [set |-> FALSE, left |-> 0, retry |-> FALSE]
NoRetry == [objects |-> {}, left |-> 0]
NoFlight == [on |-> FALSE, retry |-> FALSE, objects |-> {}, age |-> 0, left |-> 0]

Ids(s) == {l.object : l \in s}

\* The registered leases of a round that were not replaced since it left.
Current(objects) == {l \in leases : l.object \in objects}

\* A time of {} is undefined.
Due(at) == at = {0}

-----------------------------------------------------------------------------
(* Scheduling *)

\* The earlier of the busy retry and the regular slot.
DueAt(next, busy) ==
    IF busy.objects # {} /\ busy.left < next
    THEN [set |-> TRUE, left |-> busy.left, retry |-> TRUE]
    ELSE [set |-> TRUE, left |-> next, retry |-> FALSE]

\* scheduleHeartbeatBatch with the registered leases ls: a first lease sets
\* the regular slot also while an old round is in flight.
Schedule(ls, next, busy, inFlight, t) ==
    IF t.set \/ ls = {} THEN nextAt' = next /\ timer' = t
    ELSE LET slot == IF next = {} THEN {Interval} ELSE next
         IN /\ nextAt' = slot
            /\ timer' = IF inFlight THEN t ELSE DueAt(Max(slot), busy)

\* What the lease of a task leaves in the map.
Others(task) == {l \in leases : l.task # task}

\* The identities that no lease, round or retry refers to.
Fresh == Objects \ (Ids(leases) \union flight.objects \union retry.objects)

\* The identity of a new lease object.
NewObject == CHOOSE o \in Fresh : TRUE

\* addHeartbeatLease, also of a task that this worker had claimed before.
Register(task) ==
    /\ Fresh # {}
    /\ \E age \in ClaimAges :
          leases' = Others(task) \union
              {[task |-> task, object |-> NewObject, window |-> LeaseMs - age, missed |-> 0]}
    /\ Schedule(leases', nextAt, retry, flight.on, timer)
    /\ since' = IF nextAt = {} THEN 0 ELSE since
    /\ UNCHANGED <<retry, flight>>

\* Faulty: the timer stays when the last lease leaves.
RemovedKeepsTimer(ls, next, busy, t) ==
    [next |-> IF ls = {} THEN {} ELSE next,
     retry |-> IF ls = {} THEN NoRetry ELSE busy,
     timer |-> t]

\* The end of a schedule with its last lease.
Removed(ls, next, busy, t) ==
    IF ls = {} THEN [next |-> {}, retry |-> NoRetry, timer |-> NoTimer]
    ELSE [next |-> next, retry |-> busy, timer |-> t]

\* The attempt stops: its lease leaves the rounds.
Remove(l) ==
    /\ leases' = leases \ {l}
    /\ LET r == Removed(leases', nextAt, retry, timer)
       IN nextAt' = r.next /\ retry' = r.retry /\ timer' = r.timer
    /\ UNCHANGED <<flight, since>>

-----------------------------------------------------------------------------
(* Rounds *)

\* takeBusyRetry: what a retry may still renew.
BusySelection ==
    IF Due(nextAt) THEN {}
    ELSE {l.object : l \in {k \in Current(retry.objects) : k.window > 0}}

\* Faulty: a busy retry may run as long as any round.
RetryBoundFull(selection) == RoundMs

\* A busy retry ends by the next regular slot and by the end of the earliest
\* window in it.
RetryBound(selection) ==
    Min({RoundMs} \union nextAt \union {l.window : l \in Current(selection)})

\* Faulty: a busy retry starts a new interval.
RegularSlotMoved(isRetry) == {Interval}

\* A regular round starts the next interval, a busy retry does not.
RegularSlot(isRetry) == IF isRetry THEN nextAt ELSE {Interval}

\* runHeartbeatBatch sends a round of the given leases.
Send(objects, isRetry, bound) ==
    /\ flight' = [on |-> TRUE, retry |-> isRetry, objects |-> objects, age |-> 0,
                  left |-> bound]
    /\ nextAt' = RegularSlot(isRetry)
    /\ retry' = NoRetry /\ timer' = NoTimer
    /\ since' = IF isRetry THEN since ELSE 0
    /\ UNCHANGED leases

RegularRound ==
    /\ timer.set /\ timer.left = 0 /\ ~timer.retry
    /\ Send(Ids(leases), FALSE, RoundMs)

\* A retry with nothing to renew, or with too little time for a round, sends
\* nothing and leaves the leases to the regular slot.
BusyRetry(short) ==
    /\ timer.set /\ timer.left = 0 /\ timer.retry
    /\ LET selection == BusySelection
           bound == RetryBound(selection)
       IN IF selection = {} \/ (short /\ bound <= 1)
          THEN /\ retry' = NoRetry
               /\ Schedule(leases, nextAt, NoRetry, FALSE, NoTimer)
               /\ UNCHANGED <<leases, flight, since>>
          ELSE Send(selection, TRUE, bound)

\* Faulty: an answer counts for the task, whichever lease object it has now.
AnsweredLeasesByTask == leases

\* An answer counts only for the lease object that the round sent.
AnsweredLeases == Current(flight.objects)

\* The round ends and the next one is scheduled.
RoundEnds(ls, next, busy, t) ==
    /\ leases' = ls /\ flight' = NoFlight /\ retry' = busy
    /\ Schedule(ls, next, busy, FALSE, t)
    /\ UNCHANGED since

\* What a round leaves of a lease that it did not renew.
Unrenewed(l) ==
    IF flight.retry \/ l \notin AnsweredLeases THEN l
    ELSE [l EXCEPT !.missed = Min({2, @ + 1})]

\* Faulty: the window counts from the slot before the round.
RenewedWindowEarly == LeaseMs - Interval

\* A renewed window counts from the moment the round left.
RenewedWindow == LeaseMs - flight.age

\* The answer: accepted leases are renewed from the moment the round left,
\* busy ones are tried again, lost ones and those past a boundary leave, and
\* one whose cancellation is requested stays as it is.
RoundAnswered ==
    /\ flight.on
    /\ \E accepted \in SUBSET AnsweredLeases :
       \E busy \in SUBSET (AnsweredLeases \ accepted) :
       \E gone \in SUBSET (AnsweredLeases \ (accepted \union busy)) :
       \E delay \in RetryDelays :
          LET kept == {IF l \in accepted
                       THEN [l EXCEPT !.window = RenewedWindow, !.missed = 0]
                       ELSE Unrenewed(l) : l \in leases \ gone}
              r == Removed(kept, nextAt, retry, timer)
              again == IF busy = {} THEN r.retry
                       ELSE [objects |-> Ids(busy), left |-> delay]
          IN RoundEnds(kept, r.next, again, r.timer)

\* A failed or expired round proves nothing.
RoundFails ==
    flight.on /\ RoundEnds({Unrenewed(l) : l \in leases}, nextAt, retry, timer)

-----------------------------------------------------------------------------
(* The clock, and the specification *)

Down(n) == IF n > 0 THEN n - 1 ELSE n

ScheduleElapses ==
    /\ ~(timer.set /\ timer.left = 0) /\ ~(flight.on /\ flight.left = 0)
    /\ leases # {} \/ flight.on
    /\ leases' = {[l EXCEPT !.window = Down(@)] : l \in leases}
    /\ nextAt' = {Down(n) : n \in nextAt}
    /\ timer' = [timer EXCEPT !.left = Down(@)]
    /\ retry' = [retry EXCEPT !.left = Down(@)]
    /\ flight' = IF flight.on THEN [flight EXCEPT !.age = @ + 1, !.left = Down(@)] ELSE flight
    /\ since' = IF leases = {} THEN since ELSE since + 1

ScheduleInit ==
    /\ leases = {} /\ nextAt = {} /\ timer = NoTimer /\ retry = NoRetry
    /\ flight = NoFlight /\ since = 0

ScheduleNext ==
    \/ \E task \in Tasks : Register(task)
    \/ \E l \in leases : Remove(l)
    \/ RegularRound \/ (\E short \in BOOLEAN : BusyRetry(short))
    \/ RoundAnswered \/ RoundFails \/ ScheduleElapses

ScheduleSpec == ScheduleInit /\ [][ScheduleNext]_scheduleVars

-----------------------------------------------------------------------------
(* Properties *)

\* While leases are registered a regular round leaves every interval: neither
\* a busy retry, a failed round, nor leases that come and go while a round is
\* in flight move the regular slot or lose its timer.
RegularRoundsOnTime == leases # {} => since <= Interval

\* A busy retry in flight is over before the window of any lease in it and
\* before the next regular slot, so it never renews a lease given up.
BusyRetryInTime ==
    flight.on /\ flight.retry =>
        \A l \in Current(flight.objects) : flight.left <= l.window

\* Two intervals and a round are shorter than what a claim leaves of the lease,
\* as with the defaults of the constructor.
LeaseOutlastsLoss == \A age \in ClaimAges : 2 * Interval + RoundMs < LeaseMs - age

\* One regular round that fails, times out or finds the row busy costs no
\* lease then: the next one ends before the lease does.
SurvivesOneLostRound ==
    LeaseOutlastsLoss =>
        \A l \in leases : l.missed <= 1 => l.window > 0

\* No round leaves without a lease: the timer goes with the last lease.
NoEmptyRound == flight.on => flight.objects # {}

\* A lease that was registered after a round had left, for the same task or
\* another, gets nothing from the answer of that round.
AnswersItsLeases ==
    flight.on /\ ~flight'.on => leases \ Current(flight.objects) \subseteq leases'

\* Rounds leave in time: while leases are registered a regular round leaves every interval
\* (scheduleHeartbeatBatch) and none leaves without a lease; a busy retry in flight is over before
\* the window of any lease in it (takeBusyRetry); and with the proportions of the defaults one
\* regular round that fails costs no lease.
RoundsInTime == RegularRoundsOnTime /\ BusyRetryInTime /\ NoEmptyRound /\ SurvivesOneLostRound

\* A lease registered after a round had left gets nothing from its answer (runHeartbeatBatch).
AnswerForItsLease == [][AnswersItsLeases]_scheduleVars
=============================================================================
