---------------------------- MODULE MCHeartbeats ----------------------------
(***************************************************************************)
(* Instances of ReservedConnection and HeartbeatSchedule for TLC.  `part`  *)
(* is the instance that runs: it is chosen at first among Parts and never  *)
(* changes.  The variables of the other component stay as they begin.      *)
(***************************************************************************)
EXTENDS HeartbeatSchedule, ReservedConnection, TLC

CONSTANTS Parts, w1, w2, w3, t1, t2

VARIABLE part

mcVars == <<part, vars, scheduleVars>>

Symmetry == Permutations({w1, w2, w3}) \union Permutations({t1, t2})

-----------------------------------------------------------------------------
(* The heartbeat connection.  Those of ReservedConnection itself hold the  *)
(* connection, close and hold it again.                                    *)

\* Rounds of different sizes share transactions.
Sizes == INSTANCE ReservedConnection WITH
    Workers <- {w1, w2}, RoundTimes <- {1}, BatchCounts <- {1, 2}, Lasting <- {w1, w2}, Attempts <- 1

\* The rounds of workers that keep holding it.
Queue == INSTANCE ReservedConnection WITH
    Workers <- {w1, w2, w3}, RoundTimes <- {1, 2}, BatchCounts <- {1},
    Lasting <- {w1, w2, w3}, Attempts <- 1

-----------------------------------------------------------------------------

MCInit ==
    /\ part \in Parts
    /\ ScheduleInit
    /\ IF part = "sizes" THEN Sizes!Init ELSE IF part = "queue" THEN Queue!Init ELSE Init

MCNext ==
    /\ UNCHANGED part
    /\ \/ part = "rounds" /\ ScheduleNext /\ UNCHANGED vars
       \/ part = "sessions" /\ Next /\ UNCHANGED scheduleVars
       \/ part = "sizes" /\ Sizes!Next /\ UNCHANGED scheduleVars
       \/ part = "queue" /\ Queue!Next /\ UNCHANGED scheduleVars

MCSpec == MCInit /\ [][MCNext]_mcVars
=============================================================================
