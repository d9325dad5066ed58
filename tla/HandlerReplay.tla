--------------------------- MODULE HandlerReplay ---------------------------
(***************************************************************************)
(* replayHandler beside the live worker that it stands for.                *)
(*                                                                         *)
(* A task runs in activations.  Each activation makes any calls of its     *)
(* context; the live answer comes from the store, and the replay answers   *)
(* the same call from the state that was exported when the activation      *)
(* began: what the store holds now, or what it held while the task was     *)
(* still suspended.  A handler may make one more call while the call that  *)
(* suspended the task is in flight, and any calls while the operation of a *)
(* checkpoint runs.  One operation runs at a time, the replay runs it with *)
(* the same result, and a stored checkpoint is read in one step.           *)
(***************************************************************************)
EXTENDS DurableStore

CONSTANTS
    Calls,       \* calls of a handler: [op, name, req, join]
    Values,      \* results of operations, payloads and decisions
    AllowNew,    \* options.allowNew
    MaxCalls,    \* bound: calls of an activation
    MaxFence     \* bound: activations

VARIABLES
    store,    \* the durable state of the task
    task,     \* "running", "suspended", "ready" or "ended"
    fence,    \* activations so far
    flying,   \* the call in flight that suspended the task, or None
    running,  \* the checkpoint whose operation runs, and whether the replay runs it, or None
    held,     \* the store before what was delivered since the last call
    state,    \* the DurableState that the replay reads
    r,        \* the fields of Replay
    calls,    \* calls left to this activation
    last      \* the two answers to the latest call

vars == <<store, task, fence, flying, running, held, state, r, calls, last>>

Empty == [x \in {} |-> None]

NewReplay == [seen |-> {}, added |-> {}, cps |-> Empty, kids |-> Empty, set |-> None,
              contexts |-> Empty, problem |-> None, at |-> None]

NoAnswer == [live |-> "none", value |-> None, replay |-> "none", copy |-> None, over |-> FALSE]

Init ==
    /\ store = Empty /\ held = Empty /\ state = Empty
    /\ task = "running" /\ fence = 1 /\ flying = None /\ running = None
    /\ r = NewReplay /\ calls = MaxCalls /\ last = NoAnswer

At(c) == <<CASE c.op = "children" -> "child"
             [] c.op = "getCheckpoint" -> "checkpoint"
             [] c.op = "getWait" -> "wait"
             [] OTHER -> c.op, c.name>>

Reads == {"getCheckpoint", "getWait"}

-----------------------------------------------------------------------------
(* The live context *)

\* Overlapping calls of one name join the call in flight.  Waits and signals
\* do so whatever they ask for; decisions and children only when they ask for
\* the same.  There is one child set in flight.
SameFlight(c) == flying.op = c.op /\ (c.op = "children" \/ flying.name = c.name)

Joins(c) == c.op \in {"wait", "signal"} \/ (flying.req = c.req /\ flying.join = c.join)

Joined(c) == [status |-> IF Joins(c) THEN "suspended" ELSE "clash", value |-> None, store |-> store]

\* What a read returns of an entry: a checkpoint has a value, a wait its mode and target.
Row(c, e) == IF c.op = "getWait" THEN e.req ELSE e.value

\* The operation of this checkpoint runs: inFlightCheckpoints holds the name.
Overlaps(c) == c.op = "checkpoint" /\ running # None /\ running.call.name = c.name

\* A call that overlaps the operation shares its result, unless the inputs conflict.
liveCheckpoint(c) ==
    LET at == At(c)
    IN  IF Overlaps(c)
        THEN Reply(IF InputsConflict(running.call.req, c.req) THEN "refused" ELSE "running", None, store)
        ELSE IF at \in DOMAIN store
        THEN IF InputsConflict(store[at].req, c.req) THEN Reply("refused", None, store)
             ELSE Reply("value", store[at].value, store)
        ELSE Reply("running", None, store)

\* The answer of the live context to call c.
Live(c) ==
    LET owns == flying = None
    IN  IF flying # None /\ SameFlight(c) THEN Joined(c)
        ELSE CASE c.op \in Reads ->
                    Reply("value", IF At(c) \in DOMAIN store THEN Row(c, store[At(c)]) ELSE None, store)
               [] c.op = "checkpoint" -> liveCheckpoint(c)
               [] c.op = "wait" -> scheduleWait(store, owns, c.name, c.req[1], c.req[2])
               [] c.op = "signal" -> waitForSignal(store, owns, fence, c.name)
               [] c.op = "humanWait" -> waitForHuman(store, owns, fence, c.name, c.req)
               [] c.op = "child" -> createChild(store, owns, fence, c.name, c.req)
               [] c.op = "children" -> createChildrenWithMode(store, owns, c.req, c.join)

-----------------------------------------------------------------------------
(* The replay.  Each operator returns the answer and the fields it leaves. *)

Answer(status, value, s) == [status |-> status, value |-> value, r |-> s]

unused(s) == (DOMAIN state) \ s.seen

\* The first problem stays, and the handler cannot hide it.
fail(s, reason) ==
    Answer("problem", None, [s EXCEPT !.problem = IF @ = None THEN reason ELSE @])

suspend(s, at) == Answer("suspended", None, [s EXCEPT !.at = IF @ = None THEN at ELSE @])

Stopped(s) == s.problem # None \/ s.at # None

stop(s) == Answer(IF s.problem # None THEN "problem" ELSE "suspended", None, s)

\* A new name that was not announced, while a stored one was not asked for.
\* Faulty: reports only the names.
NewTooEarly_never(s, at) == FALSE
NewTooEarly(s, at) == at \notin DOMAIN state /\ at \notin s.seen /\ at[2] \notin AllowNew
                      /\ unused(s) # {}

Asked(s, at) == [s EXCEPT !.seen = @ \cup {at},
                          !.added = IF at \in DOMAIN state THEN @ ELSE @ \cup {at}]

\* ask, then `then` for a stored name and `else` for a new one.
ask(s, at, then, else) ==
    IF Stopped(s) THEN stop(s)
    ELSE IF NewTooEarly(s, at) THEN fail(Asked(s, at), "new_before_stored")
    ELSE IF at \in DOMAIN state THEN then ELSE else

Added(c) == c.name \in DOMAIN r.cps

\* The replay runs the operation too.  It compares an overlapping call even
\* when it was suspended since.
\* Faulty: compares no inputs of overlapping calls.
checkpoint_joins(c) ==
    LET at == At(c)
        s == Asked(r, at)
        checkInput(t, input, status, value) ==
            IF InputsConflict(input, c.req) THEN fail(t, "conflict") ELSE Answer(status, value, t)
    IN  IF Overlaps(c) /\ running.copy THEN Answer("running", None, r)
        ELSE ask(r, at,
                 checkInput(s, state[at].req, "value", state[at].value),
                 IF Added(c) THEN checkInput(s, r.cps[c.name].req, "value", r.cps[c.name].value)
                 ELSE Answer("running", None, s))
checkpoint(c) ==
    LET at == At(c)
        s == Asked(r, at)
        checkInput(t, input, status, value) ==
            IF InputsConflict(input, c.req) THEN fail(t, "conflict") ELSE Answer(status, value, t)
    IN  IF Overlaps(c) /\ running.copy
        THEN IF r.problem # None THEN stop(r) ELSE checkInput(r, running.call.req, "running", None)
        ELSE ask(r, at,
                 checkInput(s, state[at].req, "value", state[at].value),
                 IF Added(c) THEN checkInput(s, r.cps[c.name].req, "value", r.cps[c.name].value)
                 ELSE Answer("running", None, s))

\* The operation of checkpoint c yields v.
newCheckpoint(c, v) ==
    IF Stopped(r) THEN stop(r)
    ELSE Answer("value", v, [r EXCEPT !.cps = Put(@, c.name, [value |-> v, req |-> c.req])])

\* getCheckpoint and getWait: a stored name counts as asked for, another does not.
\* Only a checkpoint can have been added by this replay.
\* Faulty: a checkpoint that this replay added reads as absent.
readName_stored(c) ==
    LET at == At(c)
    IN  IF Stopped(r) THEN stop(r)
        ELSE IF at \in DOMAIN state
             THEN Answer("value", Row(c, state[at]), [r EXCEPT !.seen = @ \cup {at}])
        ELSE Answer("value", None, r)
\* Faulty: a wait that is not stored reads as the checkpoint of its name.
readName_added(c) ==
    LET at == At(c)
    IN  IF Stopped(r) THEN stop(r)
        ELSE IF at \in DOMAIN state
             THEN Answer("value", Row(c, state[at]), [r EXCEPT !.seen = @ \cup {at}])
        ELSE Answer("value", IF Added(c) THEN r.cps[c.name].value ELSE None, r)
readName(c) ==
    LET at == At(c)
    IN  IF Stopped(r) THEN stop(r)
        ELSE IF at \in DOMAIN state
             THEN Answer("value", Row(c, state[at]), [r EXCEPT !.seen = @ \cup {at}])
        ELSE Answer("value", IF c.op = "getCheckpoint" /\ Added(c) THEN r.cps[c.name].value ELSE None, r)

\* Faulty: accepts another target.
TimerDiffers_mode(at, req) == state[at].req[1] # req[1]
TimerDiffers(at, req) ==
    state[at].req[1] # req[1] \/ (req[1] = "absolute" /\ state[at].req[2] # req[2])

\* Faulty: a wait that is not stored has elapsed.
NewTimer_elapsed(s, at) == Answer("value", None, s)
NewTimer(s, at) == suspend(s, at)

timer(c) ==
    LET at == At(c)
        s == Asked(r, at)
    IN  ask(r, at,
            IF TimerDiffers(at, c.req) THEN fail(s, "conflict")
            ELSE IF state[at].pending THEN suspend(s, at) ELSE Answer("value", None, s),
            NewTimer(s, at))

replaySignal(c) ==
    LET at == At(c)
        s == Asked(r, at)
    IN  ask(r, at,
            IF state[at].pending THEN suspend(s, at) ELSE Answer("value", state[at].value, s),
            suspend(s, at))

\* A decision is compared with an earlier call even when the replay stopped.
HumanDiffers(s, c) == s.contexts[c.name] # c.req

human(c) ==
    LET at == At(c)
        s == [r EXCEPT !.contexts = IF c.name \in DOMAIN @ THEN @ ELSE Put(@, c.name, c.req)]
        t == Asked(s, at)
    IN  IF r.problem # None THEN stop(r)
        ELSE IF HumanDiffers(s, c) THEN fail(s, "conflict")
        ELSE ask(s, at,
                 IF state[at].req # c.req THEN fail(t, "conflict")
                 ELSE IF state[at].pending THEN suspend(t, at) ELSE Answer("value", state[at].value, t),
                 suspend(t, at))

\* The request and the join call of a stored child differ from these.
checkChildRequest(at, req, join) ==
    at \in DOMAIN state /\ (state[at].req # req \/ state[at].join # join)

\* A task creates one child through runChild.
OtherChild(s, at) == (Children(state) \ {at} # {}) \/ ((DOMAIN s.kids) \ {at[2]} # {})

child(c) ==
    LET at == At(c)
        s == [r EXCEPT !.kids = IF c.name \in DOMAIN @ THEN @ ELSE Put(@, c.name, c.req)]
        t == Asked(s, at)
    IN  IF r.problem # None THEN stop(r)
        ELSE IF \/ s.kids[c.name] # c.req
                \/ checkChildRequest(at, c.req, None)
                \/ OtherChild(s, at)
             THEN fail(s, "conflict")
        ELSE ask(s, at,
                 IF state[at].pending THEN suspend(t, at) ELSE Answer("value", state[at].value, t),
                 suspend(t, at))

\* A stored set is asked for as a whole.  The names of a new one are new.
childSet(c) ==
    LET names == {<<"child", n>> : n \in DOMAIN c.req}
        s == [r EXCEPT !.set = IF @ = None THEN <<c.req, c.join>> ELSE @]
        t == [s EXCEPT !.seen = @ \cup names,
                       !.added = IF Children(state) = {} THEN @ \cup names ELSE @]
        waiting == {at \in names : at \notin DOMAIN state \/ state[at].pending}
    IN  IF r.problem # None THEN stop(r)
        ELSE IF \/ s.set # <<c.req, c.join>>
                \/ Children(state) # {} /\ names # Children(state)
                \/ \E at \in names : checkChildRequest(at, c.req[at[2]], c.join)
             THEN fail(s, "conflict")
        ELSE IF names # {} /\ Stopped(s) THEN stop(s)
        ELSE IF \E at \in names : NewTooEarly(s, at) THEN fail(t, "new_before_stored")
        ELSE IF waiting # {} THEN suspend(t, CHOOSE at \in waiting : TRUE)
        ELSE Answer("value", [n \in DOMAIN c.req |-> state[<<"child", n>>].value], t)

Replayed(c) ==
    CASE c.op \in Reads -> readName(c)
      [] c.op = "checkpoint" -> checkpoint(c)
      [] c.op = "wait" -> timer(c)
      [] c.op = "signal" -> replaySignal(c)
      [] c.op = "humanWait" -> human(c)
      [] c.op = "child" -> child(c)
      [] c.op = "children" -> childSet(c)

-----------------------------------------------------------------------------
(* Activations *)

\* The handler goes on: it was refused nothing.
Going == task = "running" /\ r.problem = None /\ last.live \notin {"refused", "clash"}

\* `over` is whether the replay had stopped before this call, or before the
\* checkpoint whose operation this call overlaps.
Answers(live, copy, over) ==
    [live |-> live.status, value |-> live.value, replay |-> copy.status, copy |-> copy.value, over |-> over]

Call(c) ==
    LET live == Live(c)
        copy == Replayed(c)
        begins == live.status = "running" /\ ~Overlaps(c)
    IN  /\ Going /\ calls > 0
        /\ begins => running = None
        /\ store' = live.store /\ held' = live.store
        /\ flying' = IF flying = None /\ live.status = "suspended" THEN c ELSE flying
        /\ running' = IF begins THEN [call |-> c, copy |-> copy.status = "running"] ELSE running
        /\ calls' = IF flying' # None THEN (IF flying = None /\ calls > 1 THEN 1 ELSE 0) ELSE calls - 1
        /\ r' = copy.r
        /\ last' = Answers(live, copy, IF Overlaps(c) THEN ~running.copy ELSE Stopped(r))
        /\ UNCHANGED <<task, fence, state>>

\* The operation of the checkpoint ends: the live context saves its result.
EndOperation(v) ==
    LET c == running.call
        live == saveCheckpoint(store, flying = None, c.name, c.req, v)
        copy == IF running.copy THEN newCheckpoint(c, v) ELSE stop(r)
    IN  /\ Going /\ running # None
        /\ store' = live.store /\ held' = live.store /\ running' = None
        /\ r' = copy.r /\ last' = Answers(live, copy, Stopped(r))
        /\ UNCHANGED <<task, fence, flying, state, calls>>

\* The operation throws in both: nothing is stored, and the handler may go on.
FailOperation ==
    /\ Going /\ running # None
    /\ running' = None /\ last' = NoAnswer
    /\ UNCHANGED <<store, task, fence, flying, held, state, r, calls>>

\* The worker hears that the task is suspended.  An operation that still runs
\* finds its lease gone.
Suspend ==
    /\ task = "running" /\ flying # None
    /\ task' = "suspended" /\ flying' = None /\ running' = None /\ calls' = 0
    /\ UNCHANGED <<store, fence, held, state, r, last>>

Pending == {at \in DOMAIN store : store[at].pending}

\* The timer is due, a signal or a decision is delivered, a child ends.
Deliver(at, v) ==
    /\ task = "suspended" /\ at \in Pending
    /\ v \in IF at[1] = "child" THEN {"succeeded", "failed"} ELSE IF at[1] = "wait" THEN {None} ELSE Values
    /\ store' = [store EXCEPT ![at].pending = FALSE, ![at].value = v]
    /\ task' = IF v = "failed" /\ store[at].join # "settled" THEN "ended"
               ELSE IF Pending = {at} THEN "ready" ELSE task
    /\ UNCHANGED <<fence, flying, running, held, state, r, calls, last>>

\* A claim of the resumed task, or a retry after the activation failed.  The
\* replay reads the store, or an export made before the task resumed.
Activate(s) ==
    /\ task = "ready" \/ (task = "running" /\ flying = None /\ calls < MaxCalls)
    /\ fence < MaxFence
    /\ s \in {store, held}
    /\ task' = "running" /\ fence' = fence + 1 /\ calls' = MaxCalls
    /\ state' = s /\ held' = store /\ r' = NewReplay /\ last' = NoAnswer /\ running' = None
    /\ UNCHANGED <<store, flying>>

Next ==
    \/ \E c \in Calls : Call(c)
    \/ \E v \in Values : EndOperation(v)
    \/ FailOperation
    \/ Suspend
    \/ \E at \in DOMAIN store, v \in Values \cup {"succeeded", "failed", None} : Deliver(at, v)
    \/ \E s \in {store, held} : Activate(s)

Spec == Init /\ [][Next]_vars

-----------------------------------------------------------------------------
(* Properties *)

\* What the live context refuses, the replay reports: a request that differs
\* from the stored one, a second child, or a call that differs from the call in
\* flight or from the checkpoint whose operation runs.  Only calls after the
\* replay stopped are not compared, and those in flight are compared even then.
RefusalFound ==
    /\ last.live = "refused" /\ ~last.over => last.replay = "problem"
    /\ last.live = "clash" => last.replay = "problem"

\* A call that both answer has one value, stored or new.
AnswersAgree ==
    last.live = "value" /\ last.replay = "value" => last.value = last.copy

\* A call that suspends the live task also stops the replay.
StopsWithLive == last.live = "suspended" => last.replay \in {"suspended", "problem"}

\* A replay that finds no problem asked for every stored name before the first
\* new one that it was not told of.
NewNamesLast ==
    r.problem = None /\ (\E at \in r.added : at[2] \notin AllowNew) => unused(r) = {}
=============================================================================
