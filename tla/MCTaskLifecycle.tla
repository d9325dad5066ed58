-------------------------- MODULE MCTaskLifecycle --------------------------
(***************************************************************************)
(* Small instances of TaskLifecycle for TLC.                               *)
(***************************************************************************)
EXTENDS TaskRefinement

MCNever == 50

\* Deadline, execution timeout and lease all bite inside the horizon, and each
\* of them first; two attempts let a retry end in a failure.
BoundedDefinitions ==
    {[max |-> 2, deadline |-> 3, timeout |-> 2, priority |-> 0],
     [max |-> 2, deadline |-> MCNever, timeout |-> 3, priority |-> 0]}
=============================================================================
