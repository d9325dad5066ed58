---------------------------- MODULE DurableStore ----------------------------
(***************************************************************************)
(* The durable state of one task and the SQL functions that a handler      *)
(* reaches through its context, with the answer that the queue modules of  *)
(* the client make of each status.                                         *)
(*                                                                         *)
(* A store maps <<kind, name>> to an entry.  What tells two requests apart *)
(* is `req`: the input of a checkpoint, the mode and target of a wait, the *)
(* context of a decision, the request of a child.  Every function takes    *)
(* `owns`, whether its caller still holds the lease, and returns a status, *)
(* a value and the store it leaves.  Limits on sizes, counts and names are *)
(* left out.                                                               *)
(***************************************************************************)
EXTENDS Naturals, FiniteSets

CONSTANTS None,     \* no request, no value
          Past      \* a target that has passed when it is asked for

Entry(req, join, pending, value) ==
    [req |-> req, join |-> join, pending |-> pending, value |-> value, seen |-> 0]

Put(store, at, e) == [x \in (DOMAIN store) \cup {at} |-> IF x = at THEN e ELSE store[x]]

Children(store) == {at \in DOMAIN store : at[1] = "child"}

Reply(status, value, store) == [status |-> status, value |-> value, store |-> store]

Stale(store) == Reply("stale", None, store)

-----------------------------------------------------------------------------
(* SQL functions *)

\* Two inputs conflict only when both sides carry a fingerprint.
InputsConflict(a, b) == a # None /\ b # None /\ a # b

save_checkpoint_v2(store, owns, name, input, v) ==
    LET at == <<"checkpoint", name>>
    IN  IF ~owns THEN Stale(store)
        ELSE IF at \notin DOMAIN store
             THEN Reply("saved", v, Put(store, at, Entry(input, None, FALSE, v)))
        ELSE IF InputsConflict(store[at].req, input) THEN Reply("input_conflict", None, store)
        ELSE IF store[at].value = v THEN Reply("existing", v, store)
        ELSE Reply("conflict", None, store)

\* A stored wait is over for whoever asks again: only a running task asks.
schedule_wait_v1(store, owns, name, mode, target) ==
    LET at == <<"wait", name>>
    IN  IF ~owns THEN Stale(store)
        ELSE IF at \in DOMAIN store
             THEN IF \/ store[at].req[1] # mode
                     \/ mode = "absolute" /\ store[at].req[2] # target
                  THEN Reply("conflict", None, store)
                  ELSE Reply("elapsed", None, store)
        ELSE IF target = Past
             THEN Reply("elapsed", None, Put(store, at, Entry(<<mode, target>>, None, FALSE, None)))
        ELSE Reply("scheduled", None, Put(store, at, Entry(<<mode, target>>, None, TRUE, None)))

\* `seen` is the fence of the claim that made the wait.  That claim ended with
\* it, but may not have heard so.
wait_for_signal_v1(store, owns, fence, name) ==
    LET at == <<"signal", name>>
    IN  IF at \in DOMAIN store /\ store[at].pending
        THEN IF store[at].seen # fence THEN Stale(store) ELSE Reply("already_waiting", None, store)
        ELSE IF ~owns THEN Stale(store)
        ELSE IF at \in DOMAIN store THEN Reply("delivered", store[at].value, store)
        ELSE Reply("waiting", None,
                   Put(store, at, [Entry(None, None, TRUE, None) EXCEPT !.seen = fence]))

wait_for_human_v1(store, owns, fence, name, context) ==
    LET at == <<"humanWait", name>>
    IN  IF at \in DOMAIN store /\ store[at].pending
        THEN IF store[at].seen # fence THEN Stale(store)
             ELSE IF store[at].req # context THEN Reply("conflict", None, store)
             ELSE Reply("already_waiting", None, store)
        ELSE IF ~owns THEN Stale(store)
        ELSE IF at \notin DOMAIN store
             THEN Reply("waiting", None,
                        Put(store, at, [Entry(context, None, TRUE, None) EXCEPT !.seen = fence]))
        ELSE IF store[at].req # context THEN Reply("conflict", None, store)
        ELSE Reply("completed", store[at].value, store)

\* For a child, `seen` is last_seen_fence_token: the run that created or last joined it.
create_single_child_v2(store, owns, fence, name, req) ==
    LET at == <<"child", name>>
        other == Children(store) \ {at}
    IN  IF ~owns THEN Stale(store)
        ELSE IF other # {}
             THEN IF \E x \in other : store[x].seen = fence
                  THEN Reply("limit_exceeded", None, store)
                  ELSE Reply("conflict", None, store)
        ELSE IF at \notin DOMAIN store
             THEN Reply("created", None,
                        Put(store, at, [Entry(req, None, TRUE, None) EXCEPT !.seen = fence]))
        ELSE IF store[at].req # req THEN Reply("conflict", None, store)
        ELSE IF store[at].pending \/ store[at].value # "succeeded" THEN Stale(store)
        ELSE Reply("completed", store[at].value, [store EXCEPT ![at].seen = fence])

create_child_v2(store, owns, fence, name, req) ==
    IF \E x \in Children(store) : store[x].join # None
    THEN Reply("limit_exceeded", None, store)
    ELSE create_single_child_v2(store, owns, fence, name, req)

\* `reqs` maps each name of the set to its request.
create_children_v1(store, owns, reqs, mode) ==
    LET asked == {<<"child", n>> : n \in DOMAIN reqs}
    IN  IF ~owns THEN Stale(store)
        ELSE IF Children(store) # {}
             THEN IF \/ asked # Children(store)
                     \/ \E at \in asked : store[at].req # reqs[at[2]] \/ store[at].join # mode
                  THEN Reply("conflict", None, store)
                  ELSE IF \E at \in asked : \/ store[at].pending
                                            \/ mode = "all_success" /\ store[at].value # "succeeded"
                  THEN Stale(store)
                  ELSE Reply("completed", [n \in DOMAIN reqs |-> store[<<"child", n>>].value], store)
        ELSE IF asked = {} THEN Reply("completed", reqs, store)
        ELSE Reply("created", None,
                   [x \in (DOMAIN store) \cup asked |->
                       IF x \in asked THEN Entry(reqs[x[2]], mode, TRUE, None) ELSE store[x]])

-----------------------------------------------------------------------------
(* What the client makes of a status: a value, a suspension, a refusal that *)
(* is raised as an error, or a lost lease                                   *)

Meaning(reply, answered, suspends) ==
    [reply EXCEPT !.status = IF reply.status \in answered THEN "value"
                             ELSE IF reply.status \in suspends THEN "suspended"
                             ELSE IF reply.status = "stale" THEN "lost"
                             ELSE "refused"]

saveCheckpoint(store, owns, name, input, v) ==
    Meaning(save_checkpoint_v2(store, owns, name, input, v), {"saved", "existing"}, {})

scheduleWait(store, owns, name, mode, target) ==
    Meaning(schedule_wait_v1(store, owns, name, mode, target), {"elapsed"}, {"scheduled"})

waitForSignal(store, owns, fence, name) ==
    Meaning(wait_for_signal_v1(store, owns, fence, name), {"delivered"}, {"waiting"})

waitForHuman(store, owns, fence, name, context) ==
    Meaning(wait_for_human_v1(store, owns, fence, name, context), {"completed"}, {"waiting"})

createChild(store, owns, fence, name, req) ==
    Meaning(create_child_v2(store, owns, fence, name, req), {"completed"}, {"created"})

createChildrenWithMode(store, owns, reqs, mode) ==
    Meaning(create_children_v1(store, owns, reqs, mode), {"completed"}, {"created"})
=============================================================================
