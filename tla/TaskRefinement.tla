--------------------------- MODULE TaskRefinement ---------------------------
(***************************************************************************)
(* TaskLifecycle implements TaskContract: how the standing of a task is    *)
(* read off its definition, its runtime row and its outcome.               *)
(***************************************************************************)
EXTENDS TaskLifecycleProps

Standing(d, r, o) ==
    [status |-> IF o.state # "none" THEN o.state
                ELSE IF r.state = "active" THEN "running"
                ELSE IF r.state # "none" THEN "waiting"
                ELSE "unknown",
     attempt |-> IF r.state # "none" THEN r.attempt ELSE o.attempt,
     limit |-> d.max,
     token |-> r.fence,
     stopping |-> r.cancel]

Standings == [t \in Tasks |-> Standing(def[t], runtime[t], outcome[t])]

Contract == INSTANCE TaskContract WITH task <- Standings, granted <- fenceSeq

\* Every step of the SQL functions is a step of the contract or changes no
\* standing: one outcome per task, one start at a time under a new token, no
\* attempt beyond the limit, and nothing but cancellation after cancel_v1.
ContractKept == Contract!Spec
=============================================================================
