---------------------------- MODULE WorkerProofs ----------------------------
(***************************************************************************)
(* Theorems about the process of a worker and its runs, for any finite set *)
(* of workers, with and without a probe server, and for any number of      *)
(* runs.                                                                   *)
(*                                                                         *)
(* ProcessInv follows the phases of a process: before the runs nothing is  *)
(* shared, while it serves every worker is starting, up or leaving, from   *)
(* the shutdown on none is, and once the adapter closes all of them have   *)
(* settled and their failures have been collected.                         *)
(*                                                                         *)
(* RegistryInv follows the statements of a run to the registry: until its  *)
(* deregistration has settled a run starts no other, and what it sent      *)
(* before is applied or lost by then.                                      *)
(***************************************************************************)
EXTENDS WorkerProcess, WorkerRun, TLAPS

-----------------------------------------------------------------------------
(* The process                                                               *)

Serving == {"starting", "up", "leaving"}

WorkerStates == Serving \union {"off", "failing", "draining", "ended", "rejected"}

ProcessType ==
    /\ boot \in {"adapter", "probe", "running", "aborting"}
    /\ worker \in [Workers -> WorkerStates]
    /\ started \in SUBSET Workers
    /\ shuttingDown \in BOOLEAN /\ failed \in BOOLEAN /\ probe \in BOOLEAN
    /\ firstSignal \in BOOLEAN
    /\ adapter \in {"none", "open", "closing", "closed"}
    /\ completed \in {"pending", "resolved", "rejected"}
    /\ unwind \in {"off", "open", "over"}
    /\ exit \in {NoExit, ForcedOne, ForcedSignal, "returned", "thrown"}

\* Before the runs: no worker, no probe, nothing to complete.
BootInv ==
    /\ boot # "running" =>
          /\ ~probe /\ ~shuttingDown /\ completed = "pending" /\ started = {}
          /\ \A w \in Workers : worker[w] = "off"
    /\ boot = "adapter" => adapter = "none"
    /\ boot = "probe" => adapter = "open"

\* While the runs exist: they serve until the shutdown begins, and not after.
RunInv ==
    boot = "running" =>
        /\ \A w \in Workers : IF shuttingDown THEN worker[w] \notin Serving \union {"off"}
                              ELSE worker[w] \in Serving
        /\ \A w \in started : worker[w] # "starting"

\* From the close of the adapter on, the runs have settled and a failure of
\* one of them is known.
CloseInv ==
    /\ boot = "running" /\ adapter \in {"closing", "closed"} =>
          \A w \in Workers : Settled(w) /\ (worker[w] = "rejected" => failed)
    /\ completed = "resolved" => adapter = "closed" /\ \A w \in Workers : worker[w] = "ended"
    /\ exit = "returned" => completed = "resolved"

ProcessInv == ProcessType /\ BootInv /\ RunInv /\ CloseInv /\ ExpiredIsNotClean

LEMMA InitProcess == Init => ProcessInv
BY Zenon DEF Init, ProcessInv, ProcessType, BootInv, RunInv, CloseInv, ExpiredIsNotClean,
   WorkerStates, NoExit

\* Worker.stop leaves no worker serving and none that has settled changes.
LEMMA StoppedStates ==
    ASSUME NEW state \in [Workers -> WorkerStates]
    PROVE  /\ Stopped(state) \in [Workers -> WorkerStates]
           /\ \A w \in Workers : /\ Stopped(state)[w] \notin Serving
                                 /\ state[w] # "off" => Stopped(state)[w] # "off"
                                 /\ state[w] \in {"ended", "rejected", "failing", "draining", "off"}
                                       => Stopped(state)[w] = state[w]
BY ZenonT(30) DEF Stopped, Serving, WorkerStates

\* Nothing of a start happens to a process whose runs exist, nor the reverse.
LEMMA BootStep ==
    ASSUME ProcessInv, AdapterReady \/ AdapterFails \/ BuildFails
    PROVE  ProcessInv'
<1>1. /\ ProcessType' /\ boot # "running" /\ boot' # "running"
      /\ UNCHANGED <<worker, started, shuttingDown, failed, probe, completed, unwind, exit>>
  BY DEF AdapterReady, AdapterFails, BuildFails, runner, ProcessInv, ProcessType
<1>2. BootInv' /\ RunInv'
  BY <1>1, Zenon DEF AdapterReady, AdapterFails, BuildFails, ProcessInv, BootInv, RunInv
<1>3. CloseInv' /\ ExpiredIsNotClean'
  BY <1>1, Zenon DEF ProcessInv, BootInv, CloseInv, ExpiredIsNotClean
<1> QED  BY <1>1, <1>2, <1>3, Zenon DEF ProcessInv

LEMMA RunsStartStep ==
    ASSUME ProcessInv, RunsStart
    PROVE  ProcessInv'
<1>1. ProcessType'
  BY ProcessAssumption DEF RunsStart, runner, ProcessInv, ProcessType, WorkerStates, Serving
<1>2. BootInv' /\ CloseInv' /\ ExpiredIsNotClean'
  BY Zenon DEF RunsStart, runner, ProcessInv, BootInv, CloseInv, ExpiredIsNotClean
<1>3. RunInv'
  BY Zenon DEF RunsStart, runner, ProcessInv, BootInv, RunInv, Serving
<1> QED  BY <1>1, <1>2, <1>3, Zenon DEF ProcessInv

\* A worker that serves changes its state.
LEMMA ServingStep ==
    ASSUME ProcessInv, NEW w \in Workers, WorkerStarts(w) \/ WorkerLeaves(w)
    PROVE  ProcessInv'
<1>1. /\ worker[w] \in {"starting", "up"} /\ boot = "running" /\ ~shuttingDown
      /\ adapter \notin {"closing", "closed"} /\ completed # "resolved"
  BY ZenonT(30) DEF WorkerStarts, WorkerLeaves, ProcessInv, BootInv, RunInv, CloseInv, Serving,
     Settled, ProcessType
<1>2. ProcessType'
  BY DEF WorkerStarts, WorkerLeaves, runner, ProcessInv, ProcessType, WorkerStates, Serving
<1>3. RunInv'
  BY <1>1 DEF WorkerStarts, WorkerLeaves, runner, ProcessInv, ProcessType, RunInv, Serving
<1>4. BootInv' /\ CloseInv' /\ ExpiredIsNotClean'
  BY <1>1, Zenon DEF WorkerStarts, WorkerLeaves, runner, ProcessInv, BootInv, CloseInv,
     ExpiredIsNotClean
<1> QED  BY <1>2, <1>3, <1>4, Zenon DEF ProcessInv

\* A failure shuts the process down.
LEMMA FailureStep ==
    ASSUME ProcessInv, NEW w \in Workers, NEW to \in {"failing", "ended", "rejected"},
           worker[w] \notin {"off", "ended", "rejected"},
           FailureShutdown([worker EXCEPT ![w] = to]),
           UNCHANGED <<boot, started, adapter, probe, completed, firstSignal, unwind, exit>>
    PROVE  ProcessInv'
<1> DEFINE state == [worker EXCEPT ![w] = to]
<1>1. boot = "running" /\ adapter \notin {"closing", "closed"} /\ completed # "resolved"
  BY Zenon DEF ProcessInv, BootInv, CloseInv, Settled
<1>2. state \in [Workers -> WorkerStates] /\ \A v \in Workers : state[v] # "off"
  BY <1>1, ZenonT(30) DEF ProcessInv, ProcessType, RunInv, WorkerStates, Serving
<1>3. worker' = Stopped(state) /\ shuttingDown' = TRUE /\ failed' = TRUE
  BY Zenon DEF FailureShutdown
<1> HIDE DEF state
<1>4. /\ worker' \in [Workers -> WorkerStates]
      /\ \A v \in Workers : worker'[v] \notin Serving \union {"off"}
  BY <1>2, <1>3, StoppedStates, ZenonT(30)
<1>5. ProcessType' /\ BootInv'
  BY <1>1, <1>3, <1>4 DEF ProcessInv, ProcessType, BootInv
<1>6. RunInv'
  BY <1>3, <1>4, Zenon DEF ProcessInv, ProcessType, RunInv, Serving
<1>7. CloseInv' /\ ExpiredIsNotClean'
  BY <1>1, Zenon DEF ProcessInv, CloseInv, ExpiredIsNotClean
<1> QED  BY <1>5, <1>6, <1>7, Zenon DEF ProcessInv

LEMMA SettlesStep ==
    ASSUME ProcessInv, NEW w \in Workers, NEW to \in {"ended", "rejected"}, RunSettles(w, to)
    PROVE  ProcessInv'
<1>0. worker[w] \in {"draining", "leaving", "failing", "starting"}
  BY Zenon DEF RunSettles
<1>1. CASE ~shuttingDown
  <2>1. FailureShutdown([worker EXCEPT ![w] = to])
    BY <1>1, Zenon DEF RunSettles
  <2> QED  BY <1>0, <2>1, FailureStep, ZenonT(30) DEF RunSettles
<1>2. CASE shuttingDown
  <2>1. /\ worker' = [worker EXCEPT ![w] = to]
        /\ UNCHANGED <<shuttingDown, failed, boot, started, adapter, probe, completed, firstSignal,
                       unwind, exit>>
    BY <1>2, Zenon DEF RunSettles
  <2>2. boot = "running" /\ adapter \notin {"closing", "closed"} /\ completed # "resolved"
    BY <1>0, ZenonT(30) DEF ProcessInv, BootInv, CloseInv, Settled
  <2>3. ProcessType' /\ BootInv'
    BY <2>1, <2>2 DEF ProcessInv, ProcessType, BootInv, WorkerStates
  <2>4. RunInv'
    BY <1>2, <2>1, Zenon DEF ProcessInv, ProcessType, RunInv, Serving
  <2>5. CloseInv' /\ ExpiredIsNotClean'
    BY <2>1, <2>2, Zenon DEF ProcessInv, CloseInv, ExpiredIsNotClean
  <2> QED  BY <2>3, <2>4, <2>5, Zenon DEF ProcessInv
<1> QED  BY <1>1, <1>2, Zenon DEF ProcessInv, ProcessType

\* The runs have settled; the adapter and then the probe server close.
LEMMA CloseStep ==
    ASSUME ProcessInv, ShutdownSettles \/ (\E rejects \in BOOLEAN : AdapterCloses(rejects)) \/ ShutdownEnds
    PROVE  ProcessInv'
<1>1. CASE ShutdownSettles
  <2>1. ProcessType'
    BY <1>1 DEF ShutdownSettles, runner, ProcessInv, ProcessType, Collected
  <2>2. BootInv' /\ RunInv' /\ ExpiredIsNotClean'
    BY <1>1, Zenon DEF ShutdownSettles, runner, ProcessInv, BootInv, RunInv, ExpiredIsNotClean
  <2>3. CloseInv'
    BY <1>1, Zenon DEF ShutdownSettles, runner, ProcessInv, CloseInv, RunsSettled, Settled,
       Collected
  <2> QED  BY <2>1, <2>2, <2>3, Zenon DEF ProcessInv
<1>2. CASE \E rejects \in BOOLEAN : AdapterCloses(rejects)
  <2>1. ProcessType' /\ (failed => failed')
    BY <1>2 DEF AdapterCloses, runner, ProcessInv, ProcessType
  <2>2. BootInv' /\ RunInv' /\ ExpiredIsNotClean'
    BY <1>2 DEF AdapterCloses, runner, ProcessInv, BootInv, RunInv, ExpiredIsNotClean
  <2>3. CloseInv'
    BY <1>2, <2>1, ZenonT(30) DEF AdapterCloses, runner, ProcessInv, CloseInv, Settled
  <2> QED  BY <2>1, <2>2, <2>3, Zenon DEF ProcessInv
<1>3. CASE ShutdownEnds
  <2>1. ProcessType'
    BY <1>3, Zenon DEF ShutdownEnds, runner, ProcessInv, ProcessType
  <2>2. BootInv' /\ RunInv' /\ ExpiredIsNotClean'
    BY <1>3, ZenonT(30) DEF ShutdownEnds, runner, ProcessInv, BootInv, RunInv, ExpiredIsNotClean
  <2>3. CloseInv'
    BY <1>3, ZenonT(30) DEF ShutdownEnds, runner, Alive, NoExit, ProcessInv, CloseInv, Settled,
       ProcessType
  <2> QED  BY <2>1, <2>2, <2>3, Zenon DEF ProcessInv
<1> QED  BY <1>1, <1>2, <1>3, Zenon

LEMMA FirstSignalStep ==
    ASSUME ProcessInv, FirstSignal
    PROVE  ProcessInv'
<1>1. CASE boot = "running"
  <2>1. shuttingDown' = TRUE /\ worker' = Stopped(worker)
    BY <1>1, Zenon DEF FirstSignal
  <2>2. worker \in [Workers -> WorkerStates] /\ \A w \in Workers : worker[w] # "off"
    BY <1>1, Zenon DEF ProcessInv, ProcessType, RunInv, Serving
  <2>3. /\ worker' \in [Workers -> WorkerStates]
        /\ \A w \in Workers : worker'[w] \notin Serving \union {"off"}
        /\ \A w \in Workers : worker[w] \in {"ended", "rejected"} => worker'[w] = worker[w]
    BY <2>1, <2>2, StoppedStates, ZenonT(30)
  <2>4. ProcessType' /\ BootInv'
    BY <1>1, <2>1, <2>3 DEF FirstSignal, ProcessInv, ProcessType, BootInv
  <2>5. RunInv'
    BY <2>1, <2>3, Zenon DEF FirstSignal, ProcessInv, ProcessType, RunInv, Serving
  <2>6. CloseInv' /\ ExpiredIsNotClean'
    BY <1>1, <2>3, Zenon DEF FirstSignal, ProcessInv, CloseInv, ExpiredIsNotClean, Settled
  <2> QED  BY <2>4, <2>5, <2>6, Zenon DEF ProcessInv
<1>2. CASE boot # "running"
  BY <1>2 DEF FirstSignal, ProcessInv, ProcessType, BootInv, RunInv, CloseInv, ExpiredIsNotClean, Settled
<1> QED  BY <1>1, <1>2, Zenon

\* The runner's own steps.
LEMMA RunnerStep ==
    ASSUME ProcessInv, SecondSignal \/ Expire \/ ExpiryExits \/ RunnerEnds
    PROVE  ProcessInv'
<1>1. UNCHANGED runtime /\ Alive
  BY Zenon DEF SecondSignal, Expire, ExpiryExits, RunnerEnds
<1>2. /\ firstSignal' = firstSignal /\ unwind' \in {"off", "open", "over"}
      /\ exit' \in {NoExit, ForcedOne, ForcedSignal, "returned", "thrown"}
      /\ exit' = "returned" => completed = "resolved"
      /\ unwind' # "off" => exit' \in {NoExit, ForcedOne, ForcedSignal}
  BY <1>1, Zenon DEF SecondSignal, Expire, ExpiryExits, RunnerEnds, AwaitsExpiry, Alive, NoExit,
     ForcedOne,
              ForcedSignal, ProcessInv, ProcessType
<1> QED  BY <1>1, <1>2 DEF runtime, ProcessInv, ProcessType, BootInv, RunInv, CloseInv, ExpiredIsNotClean, Settled

LEMMA NextProcess == ProcessInv /\ [Next]_vars => ProcessInv'
<1> SUFFICES ASSUME ProcessInv, [Next]_vars PROVE ProcessInv'
  BY Zenon
<1>1. CASE AdapterReady \/ AdapterFails \/ BuildFails \/ RunsStart
  BY <1>1, BootStep, RunsStartStep, Zenon
<1>2. ASSUME NEW w \in Workers, WorkerStarts(w) \/ WorkerFails(w) \/ WorkerLeaves(w) PROVE ProcessInv'
  <2>1. CASE WorkerFails(w)
    BY <2>1, FailureStep, Zenon DEF WorkerFails, Observe
  <2> QED  BY <1>2, <2>1, ServingStep, Zenon
<1>3. ASSUME NEW w \in Workers, NEW to \in {"ended", "rejected"}, RunSettles(w, to) PROVE ProcessInv'
  BY <1>3, SettlesStep, Zenon
<1>4. CASE ShutdownSettles \/ (\E rejects \in BOOLEAN : AdapterCloses(rejects)) \/ ShutdownEnds
  BY <1>4, CloseStep, Zenon
<1>5. CASE FirstSignal \/ SecondSignal \/ Expire \/ ExpiryExits \/ RunnerEnds
  BY <1>5, FirstSignalStep, RunnerStep, Zenon
<1>6. CASE UNCHANGED vars
  BY <1>6 DEF vars, ProcessInv, ProcessType, BootInv, RunInv, CloseInv, ExpiredIsNotClean, Settled
<1> QED  BY <1>1, <1>2, <1>3, <1>4, <1>5, <1>6, Zenon DEF Next

-----------------------------------------------------------------------------
(* Theorems *)

\* The phases of a process are kept in every reachable state, for any finite
\* set of workers.
THEOREM ProcessInvariance == Spec => []ProcessInv
<1>1. Init => ProcessInv
  BY InitProcess, Zenon
<1>2. ProcessInv /\ [Next]_vars => ProcessInv'
  BY NextProcess, Zenon
<1> QED  BY <1>1, <1>2, PTL DEF Spec

\* beginShutdown closes the adapter only under runs that have settled, the
\* readiness probe answers 200 only while every worker serves, an expired
\* shutdown never ends as a clean exit, and runWorkerProcess returns normally
\* only when every run ended without an error.
THEOREM ProcessPromisesAlways == Spec => []ProcessPromises
<1>1. ProcessInv => ProcessPromises
  <2> SUFFICES ASSUME ProcessInv PROVE ProcessPromises
    BY Zenon
  <2>1. AdapterOutlivesRuns
    BY Zenon DEF ProcessInv, ProcessType, BootInv, CloseInv, AdapterOutlivesRuns
  <2>2. ReadyIsServing
    <3> SUFFICES ASSUME probe, ~shuttingDown, Cardinality(started) = Cardinality(Workers)
                 PROVE  \A w \in Workers : worker[w] \in {"up", "leaving"}
      BY Zenon DEF ReadyIsServing
    <3>1. started = Workers
      BY ProcessAssumption, Zenon DEF ProcessAssumption, ProcessInv, ProcessType
    <3> QED  BY <3>1, Zenon DEF ProcessInv, BootInv, RunInv, Serving
  <2>3. ExpiredIsNotClean /\ CleanMeansClean
    BY Zenon DEF ProcessInv, CloseInv, CleanMeansClean
  <2> QED  BY <2>1, <2>2, <2>3, Zenon DEF ProcessPromises
<1> QED  BY <1>1, ProcessInvariance, PTL

-----------------------------------------------------------------------------
(* The registry row                                                          *)

Steps == {"idle", "settling", "checking", "registering", "dispatching", "unwinding", "closing",
          "deregistering"}

\* Every statement in flight is about the current instance: a new one is taken only when none is.
RegistryType ==
    /\ run \in [n : Nat, at : Steps, stopping : BOOLEAN, asked : BOOLEAN]
    /\ registered \in BOOLEAN /\ stops \in Nat
    /\ writes \subseteq [kind : {"startup", "loop", "maintenance", "stop"}, n : Nat,
                         instance : {instance}, at : {"sent", "applied"}]
    /\ chain \subseteq Nat \X Nat
    /\ deletes \subseteq [run : Nat, instance : {instance}, after : Nat,
                          at : {"refreshes", "stop", "sent", "applied"}]
    /\ pendingStop \in Nat

\* deregister() is still to be called.
ToDeregister ==
    \/ run.at \in {"checking", "registering", "dispatching", "unwinding", "closing"}
    \/ run.at = "settling" /\ run.stopping

\* What may write a row is followed by a deregistration that waits for it.
Covered ==
    /\ writes # {} => ToDeregister \/ \E d \in deletes : d.at = "refreshes"
    /\ registered => ToDeregister \/ \E d \in deletes : d.at \in {"refreshes", "stop"}

\* A row that no failure explains is that of the current instance, and somebody knows of it.
Known ==
    (row # 0 /\ row \notin left) =>
        /\ row = instance
        /\ \/ registered
           \/ \E w \in writes : w.at = "applied"
           \/ \E d \in deletes : d.at = "sent"

\* From its readiness check on a run is alone, and its row is there once it is registered.
Alone ==
    /\ run.at = "checking" => ~registered /\ writes = {} /\ deletes = {}
    /\ run.at \in {"registering", "dispatching"} =>
          /\ deletes = {}
          /\ registered => row = instance
          /\ \A w \in writes : w.at = "applied" => row = instance
    /\ run.at = "registering" =>
          registered \/ instance \in left \/ \E w \in writes : w.kind = "startup"
    /\ RowOfThisRun

RegistryInv == RegistryType /\ Covered /\ Known /\ Alone

LEMMA InitRun == RunInit => RegistryInv
  <1> SUFFICES ASSUME RunInit PROVE RegistryInv
    BY Zenon
  <1>1. RegistryType /\ run.at = "idle"
    BY Zenon DEF RunInit, RegistryType, Steps
  <1> QED BY <1>1, Zenon DEF RunInit, RegistryInv, Covered, Known, Alone, RowOfThisRun

LEMMA NextRun ==
    ASSUME RegistryInv, [RunNext]_runVars
    PROVE  RegistryInv'
  <1> RegistryType /\ Covered /\ Known /\ Alone
    BY Zenon DEF RegistryInv
  <1> USE DEF RegistryInv, RegistryType, Steps, Goes, Write
  <1>1. CASE Begin
    <2> USE <1>1 DEF Begin, Turn
    <2>1. RegistryType'
      OBVIOUS
    <2>2. Covered'
      BY Zenon DEF Covered, ToDeregister
    <2>3. Known'
      BY Zenon DEF Covered, ToDeregister, Known
    <2>4. Alone'
      BY Zenon DEF Covered, ToDeregister, Alone, RowOfThisRun, Known
    <2> QED BY <2>1, <2>2, <2>3, <2>4, Zenon
  <1>2. CASE Settle
    <2> USE <1>2 DEF Settle, PreviousSettled
    <2>1. RegistryType'
      BY ZenonT(30)
    <2>2. Covered'
      BY Zenon DEF Covered, ToDeregister
    <2>3. Known'
      BY Zenon DEF Covered, ToDeregister, Known
    <2>4. Alone'
      BY Zenon DEF Covered, ToDeregister, Alone, RowOfThisRun, Known
    <2> QED BY <2>1, <2>2, <2>3, <2>4, Zenon
  <1>3. CASE Check
    <2> USE <1>3 DEF Check
    <2>1. RegistryType'
      OBVIOUS
    <2>2. Covered'
      BY Zenon DEF ToDeregister, Covered
    <2>3. Known'
      BY Zenon DEF Known
    <2>4. CASE Goes("closing") /\ UNCHANGED writes
      <3>1. run'.at = "closing"
        BY <2>4, Zenon
      <3> QED BY <2>1, <2>2, <2>3, <3>1, Zenon DEF Alone, RowOfThisRun
    <2>5. CASE Goes("registering") /\ writes' = writes \cup {Write("startup", 0)}
      <3>1. run'.at = "registering" /\ run.at = "checking"
        BY <2>5, Zenon
      <3>2. writes' = {Write("startup", 0)} /\ deletes' = {} /\ ~registered'
        BY <2>5, <3>1, Zenon DEF Alone
      <3>3. Write("startup", 0).kind = "startup" /\ Write("startup", 0).at = "sent"
        BY Zenon
      <3>4. Alone'
        BY <3>1, <3>2, <3>3, Zenon DEF Alone, RowOfThisRun
      <3> QED BY <2>1, <2>2, <2>3, <3>4, Zenon
    <2> QED BY <2>4, <2>5, Zenon
  <1>4. CASE Registered
    <2> USE <1>4 DEF Registered
    <2>1. RegistryType'
      BY ZenonT(30)
    <2>2. Covered'
      BY Zenon DEF Covered, ToDeregister
    <2>3. Known'
      BY Zenon DEF Covered, ToDeregister, Known
    <2>4. Alone'
      BY ZenonT(30) DEF Covered, ToDeregister, Alone, RowOfThisRun, Known
    <2> QED BY <2>1, <2>2, <2>3, <2>4, Zenon
  <1>5. CASE Drained \/ Unwind \/ Return
    <2> USE <1>5 DEF Drained, Unwind, Return, UntilDeadline
    <2>1. RegistryType'
      <3>1. CASE Return
        BY <3>1, Zenon
      <3> QED BY <3>1, ZenonT(30)
    <2>2. Covered'
      BY DEF Covered, ToDeregister
    <2>3. Known'
      BY DEF Known
    <2>4. Alone'
      BY Zenon DEF Alone, RowOfThisRun
    <2> QED BY <2>1, <2>2, <2>3, <2>4, Zenon
  <1>17. CASE Close
    <2> DEFINE call == [run |-> run.n, instance |-> instance, at |-> "refreshes", after |-> 0]
    <2>1. /\ run' = [run EXCEPT !.at = "deregistering"]
          /\ deletes' = deletes \cup {call}
          /\ UNCHANGED <<queued, runs, stops, instance, registered, writes, chain, pendingStop,
                         row, left>>
      BY <1>17, Zenon DEF Close
    <2>2. /\ call \in [run : Nat, instance : {instance}, after : Nat,
                       at : {"refreshes", "stop", "sent", "applied"}]
          /\ call.at = "refreshes"
      BY Zenon
    <2> HIDE DEF call
    <2>3. run'.at = "deregistering"
      BY <2>1, Zenon
    <2>4. RegistryType'
      BY <2>1, <2>2, ZenonT(30)
    <2>5. Covered'
      BY <2>1, <2>2, Zenon DEF Covered
    <2> QED BY <2>1, <2>3, <2>4, <2>5, Zenon DEF Known, Alone, RowOfThisRun
  <1>6. CASE Call \/ Fail
    <2> USE <1>6 DEF Call, Fail
    <2>1. RegistryType'
      BY Zenon
    <2>2. Covered'
      BY DEF Covered, ToDeregister
    <2>3. Known'
      BY DEF Covered, ToDeregister, Known
    <2>4. Alone'
      BY DEF Covered, ToDeregister, Alone, RowOfThisRun, Known
    <2> QED BY <2>1, <2>2, <2>3, <2>4, Zenon
  <1>7. CASE Stop
    <2> USE <1>7 DEF Stop, Running
    <2>0. run' \in [n : Nat, at : Steps, stopping : BOOLEAN, asked : BOOLEAN] /\ run'.at = run.at
      BY Zenon
    <2>1. RegistryType'
      <3>1. stops' \in Nat /\ pendingStop' \in Nat /\ chain' \subseteq Nat \X Nat
        OBVIOUS
      <3>2. Write("stop", stops') \in [kind : {"startup", "loop", "maintenance", "stop"}, n : Nat,
                                       instance : {instance}, at : {"sent", "applied"}]
        BY <3>1, Zenon
      <3> QED BY <2>0, <3>1, <3>2
    <2>2. Covered'
      BY ZenonT(30) DEF Covered, ToDeregister
    <2>3. Known'
      BY Zenon DEF Known
    <2>4. Alone'
      <3>1. Write("stop", stops').at = "sent"
        BY Zenon
      <3> QED BY <2>0, <3>1, ZenonT(30) DEF Alone, RowOfThisRun
    <2> QED BY <2>1, <2>2, <2>3, <2>4, Zenon
  <1>8. ASSUME NEW loop \in {"loop", "maintenance"}, Refresh(loop) PROVE RegistryInv'
    <2> USE <1>8 DEF Refresh
    <2>1. RegistryType'
      OBVIOUS
    <2>2. Covered'
      BY Zenon DEF Covered, ToDeregister
    <2>3. Known'
      BY Zenon DEF Covered, ToDeregister, Known
    <2>4. Alone'
      BY DEF Covered, ToDeregister, Alone, RowOfThisRun, Known
    <2> QED BY <2>1, <2>2, <2>3, <2>4, Zenon
  <1>9. ASSUME NEW w \in writes, WriteApplies(w) PROVE RegistryInv'
    <2> DEFINE done == [w EXCEPT !.at = "applied"]
    <2>1. /\ row' = instance
          /\ writes' = (writes \ {w}) \cup {done}
          /\ UNCHANGED <<run, queued, runs, stops, instance, registered, chain, pendingStop,
                         deletes, left>>
      BY <1>9, Zenon DEF WriteApplies
    <2>2. /\ done \in [kind : {"startup", "loop", "maintenance", "stop"}, n : Nat,
                       instance : {instance}, at : {"sent", "applied"}]
          /\ done.at = "applied" /\ done.kind = w.kind
      BY ZenonT(30)
    <2> HIDE DEF done
    <2>3. RegistryType'
      BY <2>1, <2>2, ZenonT(30)
    <2>4. Covered'
      BY <2>1, ZenonT(30) DEF Covered, ToDeregister
    <2>5. Known'
      BY <2>1, <2>2, Zenon DEF Known
    <2>6. Alone'
      BY <2>1, <2>2, ZenonT(30) DEF Alone, RowOfThisRun
    <2> QED BY <2>3, <2>4, <2>5, <2>6, Zenon
  <1>10. ASSUME NEW w \in writes, WriteAnswers(w) PROVE RegistryInv'
    <2> USE <1>10 DEF WriteAnswers, Forget
    <2>1. RegistryType'
      OBVIOUS
    <2>2. Covered'
      BY Zenon DEF Covered, ToDeregister
    <2>3. Known'
      BY Zenon DEF Covered, ToDeregister, Known
    <2>4. Alone'
      BY Zenon DEF Covered, ToDeregister, Alone, RowOfThisRun, Known
    <2> QED BY <2>1, <2>2, <2>3, <2>4, Zenon
  <1>11. ASSUME NEW w \in writes, WriteFails(w) PROVE RegistryInv'
    <2> USE <1>11 DEF WriteFails, Forget
    <2>1. RegistryType'
      OBVIOUS
    <2>2. Covered'
      BY Zenon DEF Covered, ToDeregister
    <2>3. Known'
      BY Zenon DEF Covered, ToDeregister, Known
    <2>4. Alone'
      BY DEF Covered, ToDeregister, Alone, RowOfThisRun, Known
    <2> QED BY <2>1, <2>2, <2>3, <2>4, Zenon
  <1>12. ASSUME NEW d \in deletes, DeleteWaits(d) PROVE RegistryInv'
    <2> DEFINE next == [d EXCEPT !.at = "stop", !.after = pendingStop]
    <2>1. /\ d.at = "refreshes" /\ writes = {}
          /\ deletes' = (deletes \ {d}) \cup (IF registered THEN {next} ELSE {})
          /\ UNCHANGED <<run, queued, runs, stops, instance, registered, writes, chain,
                         pendingStop, row, left>>
      BY <1>12, Zenon DEF DeleteWaits, RefreshesDone
    <2>2. /\ next \in [run : Nat, instance : {instance}, after : Nat,
                       at : {"refreshes", "stop", "sent", "applied"}]
          /\ next.at = "stop"
      BY ZenonT(30)
    <2> HIDE DEF next
    <2>3. RegistryType'
      BY <2>1, <2>2, ZenonT(30)
    <2>4. Covered'
      BY <2>1, <2>2, ZenonT(30) DEF Covered, ToDeregister
    <2>5. Known'
      BY <2>1, <2>2, ZenonT(30) DEF Known
    <2>6. Alone'
      BY <2>1, <2>2, Zenon DEF Alone, RowOfThisRun
    <2> QED BY <2>3, <2>4, <2>5, <2>6, Zenon
  <1>13. ASSUME NEW d \in deletes, DeleteSends(d) PROVE RegistryInv'
    <2> DEFINE next == [d EXCEPT !.at = "sent"]
    <2>1. /\ d.at = "stop" /\ pendingStop' = 0 /\ registered' = FALSE
          /\ deletes' = (deletes \ {d}) \cup {next}
          /\ UNCHANGED <<run, queued, runs, stops, instance, writes, chain, row, left>>
      BY <1>13, Zenon DEF DeleteSends
    <2>2. /\ next \in [run : Nat, instance : {instance}, after : Nat,
                       at : {"refreshes", "stop", "sent", "applied"}]
          /\ next.at = "sent"
      OBVIOUS
    <2> HIDE DEF next
    <2>3. RegistryType'
      BY <2>1, <2>2, Zenon
    <2>4. Covered'
      BY <2>1, <2>2, Zenon DEF Covered, ToDeregister
    <2>5. Known'
      BY <2>1, <2>2, Zenon DEF Known
    <2>6. Alone'
      BY <2>1, <2>2, Zenon DEF Alone, RowOfThisRun
    <2> QED BY <2>3, <2>4, <2>5, <2>6, Zenon
  <1>14. ASSUME NEW d \in deletes, DeleteApplies(d) PROVE RegistryInv'
    <2> USE <1>14 DEF DeleteApplies, Deleted
    <2>1. RegistryType'
      BY ZenonT(30)
    <2>2. Covered'
      BY ZenonT(30) DEF Covered, ToDeregister
    <2>3. Known'
      BY Zenon DEF Covered, ToDeregister, Known
    <2>4. Alone'
      BY Zenon DEF Covered, ToDeregister, Alone, RowOfThisRun, Known
    <2> QED BY <2>1, <2>2, <2>3, <2>4, ZenonT(30)
  <1>15. ASSUME NEW d \in deletes, DeleteEnds(d) PROVE RegistryInv'
    <2> USE <1>15 DEF DeleteEnds
    <2>1. RegistryType'
      BY Zenon
    <2>2. Covered'
      BY ZenonT(30) DEF Covered, ToDeregister
    <2>3. Known'
      BY ZenonT(30) DEF Covered, ToDeregister, Known
    <2>4. Alone'
      BY Zenon DEF Covered, ToDeregister, Alone, RowOfThisRun, Known
    <2> QED BY <2>1, <2>2, <2>3, <2>4, Zenon
  <1>16. CASE UNCHANGED runVars
    BY <1>16 DEF runVars, Covered, Known, Alone, ToDeregister, RowOfThisRun
  <1> QED
    BY <1>1, <1>2, <1>3, <1>4, <1>5, <1>6, <1>7, <1>8, <1>9, <1>10, <1>11, <1>12, <1>13, <1>14,
       <1>15, <1>16, <1>17, ZenonT(30)
    DEF RunNext, RunStep

\* RegistryInv holds in every reachable state: what start, register, refresh and deregister rely on
\* when they read the state of the run before.
THEOREM RegistryInvariance == RunSpec => []RegistryInv
  <1> QED BY InitRun, NextRun, PTL DEF RunSpec

\* However often a worker runs and stops, and however late its statements are applied or answered:
\* no registration brings back the row of a run that has stopped, and a run that dispatches finds
\* its own instance in the registry (deregister, settlePreviousRun).
THEOREM RegistryAlways == RunSpec => []RegistryTrue
  <1>1. RegistryInv => RegistryTrue
    BY Zenon DEF RegistryInv, RegistryTrue, Covered, Known, Alone, NoRowComesBack, ToDeregister
  <1> QED BY <1>1, RegistryInvariance, PTL
=============================================================================
