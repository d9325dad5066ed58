------------------------ MODULE TaskLifecycleProofs -------------------------
(***************************************************************************)
(* Theorems about TaskLifecycle, for every number of tasks and workers and *)
(* every choice of delays, limits and bounds.                              *)
(*                                                                         *)
(* Inv has three parts: the types, the shape of each row next to the       *)
(* definition of its task, and that each task has one home.  The lemmas    *)
(* show that each settlement writes rows of that shape, that a step which  *)
(* replaces the row of one task by such a row keeps Inv, and, one by one,  *)
(* that every action does; the theorems say what follows about a state.    *)
(***************************************************************************)
EXTENDS TaskLifecycleProps, TLAPS

\* What the histories are made of.
LEMMA SeqFacts ==
    ASSUME NEW S, NEW s \in Seq(S)
    PROVE  /\ Len(s) \in Nat /\ DOMAIN s = 1..Len(s) /\ s \in [1..Len(s) -> S]
           /\ s \o <<>> = s
  <1>1. Len(s) \in Nat /\ DOMAIN s = 1..Len(s) /\ s \in [1..Len(s) -> S]
    OBVIOUS
  <1>2. s \o <<>> = s
    OBVIOUS
  <1> QED BY <1>1, <1>2, Zenon

LEMMA SeqElement ==
    ASSUME NEW S, NEW s \in Seq(S), NEW i \in 1..Len(s)
    PROVE  s[i] \in S
OBVIOUS

LEMMA SeqConcat ==
    ASSUME NEW S, NEW s \in Seq(S), NEW t \in Seq(S)
    PROVE  /\ s \o t \in Seq(S) /\ Len(s \o t) = Len(s) + Len(t)
           /\ \A i \in 1..(Len(s) + Len(t)) :
                 (s \o t)[i] = IF i <= Len(s) THEN s[i] ELSE t[i - Len(s)]
OBVIOUS

\* The shape of row r of a task defined by d, at time n: what a claim, a
\* suspension and a settlement leave behind for the next call to rely on.
RowOK(d, r, n) ==
    /\ r.state = "none" => r = NoRow
    /\ r.state = "active" =>
          /\ r.worker \in Workers /\ r.fence > 0 /\ r.wait = NoName /\ r.started
          /\ r.acquired <= n /\ r.runAt # Never
          /\ d.timeout = Never => r.timeoutAt = Never
          /\ d.timeout # Never =>
                r.used < d.timeout /\ r.timeoutAt = r.acquired + (d.timeout - r.used)
    /\ r.state \in {"scheduled", "ready"} =>
          /\ r.worker = NoWorker /\ r.fence = 0 /\ r.timeoutAt = Never /\ ~r.cancel
    /\ r.state = "scheduled" => (r.wait # NoName <=> r.started)
    /\ (r.state = "scheduled" /\ r.runAt = Never) => r.wait # NoName
    /\ r.state = "ready" => r.wait = NoName /\ r.runAt # Never
    /\ r.state # "none" =>
          r.deadline <= d.deadline /\ (r.runAt # Never => r.deadline = d.deadline)

\* A task has a row or an outcome, and neither before it is enqueued.
Home(d, r, o) ==
    /\ d = NoDefinition => r = NoRow /\ o = NoOutcome
    /\ d # NoDefinition => (r.state # "none" <=> o.state = "none")

Inv ==
    /\ TypeOK
    /\ \A t \in Tasks :
          RowOK(def[t], runtime[t], now) /\ Home(def[t], runtime[t], outcome[t])

\* A settlement that may replace the row, the outcome and the end of the
\* history of task t.
Good(t, s) ==
    /\ s.row \in RowType /\ s.out \in OutcomeType /\ s.entries \in Seq(HistoryType)
    /\ RowOK(def[t], s.row, now)
    /\ s.row.state # "none" <=> s.out.state = "none"

-----------------------------------------------------------------------------

LEMMA NoRowType == NoRow \in RowType
  BY ConstantsAssumption, Zenon DEF NoRow, RowType, ConstantsAssumption

LEMMA DefinitionFacts ==
    ASSUME Inv, NEW t \in Tasks
    PROVE  /\ def[t] \in [max : Nat, deadline : Nat, timeout : Nat, priority : Nat]
           /\ def[t].deadline <= Never
  BY ConstantsAssumption
     DEF Inv, TypeOK, ConstantsAssumption, DefinitionType, NoDefinition

LEMMA ClosedGood ==
    ASSUME Inv, NEW t \in Tasks, Live(t),
           NEW state \in {"succeeded", "failed", "canceled"},
           NEW w \in Workers, NEW f \in Nat, NEW verdict \in Verdicts
    PROVE  Good(t, Closed(t, state, w, f, verdict))
  <1> DEFINE s == Closed(t, state, w, f, verdict)
             e == Entry(t, w, f, verdict)
  <1>1. s.row = NoRow /\ s.out = [state |-> state, attempt |-> runtime[t].attempt,
                                  fence |-> f, at |-> now] /\ s.entries = <<e>>
    BY Zenon DEF Closed
  <1>2. runtime[t].attempt \in Nat /\ now \in Nat
    BY DEF Inv, TypeOK, RowType
  <1>3. e \in HistoryType
    BY <1>2, Zenon DEF Entry, HistoryType
  <1>4. s.entries \in Seq(HistoryType)
    BY <1>1, <1>3
  <1>5. s.out \in OutcomeType
    BY <1>1, <1>2 DEF OutcomeType
  <1>6. RowOK(def[t], NoRow, now) /\ NoRow.state = "none"
    BY Zenon DEF RowOK, NoRow
  <1> QED BY <1>1, <1>4, <1>5, <1>6, NoRowType DEF Good

LEMMA TypeFacts ==
    ASSUME Inv, NEW t \in Tasks
    PROVE  /\ now \in Nat /\ now <= Horizon /\ Horizon \in Nat /\ Never \in Nat
           /\ runtime[t] \in RowType /\ outcome[t] \in OutcomeType
           /\ RowOK(def[t], runtime[t], now)
  BY ConstantsAssumption DEF Inv, TypeOK, ConstantsAssumption

LEMMA UntouchedGood ==
    ASSUME Inv, NEW t \in Tasks, def[t] # NoDefinition
    PROVE  Good(t, Untouched(t))
  <1>1. <<>> \in Seq(HistoryType)
    OBVIOUS
  <1>2. runtime[t].state # "none" <=> outcome[t].state = "none"
    BY Zenon DEF Inv, Home
  <1> QED BY <1>1, <1>2, TypeFacts, Zenon DEF Good, Untouched

LEMMA ClosedUnattributedGood ==
    ASSUME Inv, NEW t \in Tasks, NEW state \in {"succeeded", "failed", "canceled"}
    PROVE  Good(t, ClosedUnattributed(t, state))
  <1> DEFINE s == ClosedUnattributed(t, state)
  <1>1. s.row = NoRow /\ s.out = [state |-> state, attempt |-> runtime[t].attempt,
                                  fence |-> 0, at |-> now] /\ s.entries = <<>>
    BY ZenonT(30) DEF ClosedUnattributed
  <1>2. runtime[t].attempt \in Nat /\ now \in Nat
    BY TypeFacts, Zenon DEF RowType
  <1>3. s.out \in OutcomeType
    BY <1>1, <1>2 DEF OutcomeType
  <1>4. RowOK(def[t], NoRow, now) /\ NoRow.state = "none"
    BY ZenonT(30) DEF RowOK, NoRow
  <1>5. s.entries \in Seq(HistoryType)
    BY <1>1
  <1> QED BY <1>1, <1>3, <1>4, <1>5, NoRowType DEF Good

LEMMA ActiveFacts ==
    ASSUME Inv, NEW t \in Tasks, Active(t)
    PROVE  /\ Live(t) /\ def[t] # NoDefinition
           /\ runtime[t].worker \in Workers /\ runtime[t].fence \in Nat
           /\ runtime[t].deadline = def[t].deadline
  <1>1. runtime[t].state = "active" /\ NoRow.state = "none"
    BY Zenon DEF Active, NoRow
  <1>2. Live(t) /\ def[t] # NoDefinition
    BY <1>1, ZenonT(30) DEF Inv, Live, Home
  <1>3. runtime[t].worker \in Workers /\ runtime[t].deadline = def[t].deadline
    BY <1>1, TypeFacts, ZenonT(30) DEF RowOK
  <1>4. runtime[t].fence \in Nat
    BY TypeFacts, ZenonT(30) DEF RowType
  <1> QED BY <1>2, <1>3, <1>4, ZenonT(30)

LEMMA ClosedByOwnerGood ==
    ASSUME Inv, NEW t \in Tasks, Active(t),
           NEW state \in {"succeeded", "failed", "canceled"}, NEW verdict \in Verdicts
    PROVE  Good(t, ClosedByOwner(t, state, verdict))
  BY ActiveFacts, ClosedGood, ZenonT(30) DEF ClosedByOwner

LEMMA RetriedGood ==
    ASSUME Inv, NEW t \in Tasks, Active(t), NEW delay \in RetryDelays,
           NEW seq \in Nat, NEW verdict \in Verdicts
    PROVE  Good(t, Retried(t, delay, seq, verdict))
  <1> DEFINE s == Retried(t, delay, seq, verdict)
             e == Entry(t, runtime[t].worker, runtime[t].fence, verdict)
             r == [NoRow EXCEPT
                     !.state = IF delay = 0 THEN "ready" ELSE "scheduled",
                     !.attempt = runtime[t].attempt + 1,
                     !.deadline = runtime[t].deadline,
                     !.runAt = now + delay,
                     !.seq = IF delay = 0 THEN seq ELSE 0]
  <1>1. s.row = r /\ s.out = outcome[t] /\ s.entries = <<e>>
    BY ZenonT(30) DEF Retried
  <1>2. /\ runtime[t].attempt \in Nat /\ runtime[t].deadline \in Nat
        /\ runtime[t].deadline = def[t].deadline /\ def[t] # NoDefinition
    BY TypeFacts, ActiveFacts, ZenonT(30) DEF RowType
  <1>3. now + delay \in Nat /\ now + delay # Never
    BY TypeFacts, ConstantsAssumption DEF ConstantsAssumption
  <1>4. e \in HistoryType
    BY <1>2, ActiveFacts, ZenonT(30) DEF Entry, HistoryType
  <1>5. r \in RowType
    <2>1. /\ (IF delay = 0 THEN "ready" ELSE "scheduled") \in {"ready", "scheduled"}
          /\ (IF delay = 0 THEN seq ELSE 0) \in Nat /\ runtime[t].attempt + 1 \in Nat
      BY <1>2
    <2> QED BY <2>1, <1>2, <1>3, NoRowType, ZenonT(30) DEF RowType
  <1>6. RowOK(def[t], r, now) /\ r.state # "none"
    BY <1>2, <1>3 DEF NoRow, RowOK
  <1>7. outcome[t] \in OutcomeType /\ outcome[t].state = "none"
    BY <1>2, TypeFacts, Zenon DEF Inv, Home, Active
  <1>8. <<e>> \in Seq(HistoryType)
    BY <1>4
  <1> QED BY <1>1, <1>5, <1>6, <1>7, <1>8, SMTT(30) DEF Good

LEMMA RetriedOrFailedGood ==
    ASSUME Inv, NEW t \in Tasks, Active(t), NEW delay \in RetryDelays,
           NEW seq \in Nat, NEW verdict \in Verdicts
    PROVE  Good(t, RetriedOrFailed(t, delay, seq, verdict))
  BY RetriedGood, ClosedByOwnerGood, Zenon DEF RetriedOrFailed

LEMMA ClosedInactiveGood ==
    ASSUME Inv, NEW t \in Tasks, Live(t),
           NEW state \in {"succeeded", "failed", "canceled"}, NEW verdict \in Verdicts
    PROVE  Good(t, ClosedInactive(t, state, verdict))
  <1>1. CASE runtime[t].started /\ Provenance(t) # {}
    <2> DEFINE p == CHOOSE q \in Provenance(t) : TRUE
    <2>1. p \in Provenance(t)
      BY <1>1, Zenon
    <2>2. p \in WaitType
      BY <2>1, ZenonT(30) DEF Provenance, Inv, TypeOK
    <2>3. p.worker \in Workers /\ p.fence \in Nat
      BY <2>2, Zenon DEF WaitType
    <2>4. Good(t, Closed(t, state, p.worker, p.fence, verdict))
      BY <2>3, ClosedGood, Zenon
    <2> QED BY <1>1, <2>4, ZenonT(30) DEF ClosedInactive
  <1>2. CASE ~(runtime[t].started /\ Provenance(t) # {})
    BY <1>2, ClosedUnattributedGood, Zenon DEF ClosedInactive
  <1> QED BY <1>1, <1>2, ZenonT(30)

LEMMA DeadlineSettlementGood ==
    ASSUME Inv, NEW t \in Tasks, Live(t)
    PROVE  Good(t, DeadlineSettlement(t))
  <1>1. def[t] # NoDefinition
    BY DEF Inv, Home, Live, NoRow
  <1>2. runtime[t].cancel => Active(t)
    BY TypeFacts, ZenonT(30) DEF RowOK, Active, Live, RowType
  <1>3. {"failed", "canceled", "succeeded"} = {"succeeded", "failed", "canceled"}
        /\ "canceled" \in Verdicts /\ "deadline_exceeded" \in Verdicts
    BY Zenon DEF Verdicts
  <1> QED BY <1>1, <1>2, <1>3, UntouchedGood, ClosedByOwnerGood, ClosedInactiveGood, ZenonT(30)
             DEF DeadlineSettlement

LEMMA TimeoutSettlementGood ==
    ASSUME Inv, NEW t \in Tasks, Active(t), NEW delay \in RetryDelays, NEW seq \in Nat
    PROVE  Good(t, TimeoutSettlement(t, delay, seq))
  <1>1. "timeout" \in Verdicts
    BY Zenon DEF Verdicts
  <1> QED BY <1>1, ActiveFacts, UntouchedGood, DeadlineSettlementGood, RetriedOrFailedGood,
             ZenonT(30) DEF TimeoutSettlement

LEMMA ExpirySettlementGood ==
    ASSUME Inv, NEW t \in Tasks, Active(t), NEW delay \in RetryDelays, NEW seq \in Nat
    PROVE  Good(t, ExpirySettlement(t, delay, seq))
  BY ActiveFacts, UntouchedGood, DeadlineSettlementGood, TimeoutSettlementGood, Zenon
     DEF ExpirySettlement

LEMMA LeaseSettlementGood ==
    ASSUME Inv, NEW t \in Tasks, Active(t), NEW delay \in RetryDelays, NEW seq \in Nat
    PROVE  Good(t, LeaseSettlement(t, delay, seq))
  <1>1. "canceled" \in Verdicts /\ "lease_expired" \in Verdicts
    BY Zenon DEF Verdicts
  <1> QED BY <1>1, ClosedByOwnerGood, RetriedOrFailedGood, Zenon DEF LeaseSettlement

-----------------------------------------------------------------------------
(* Steps *)

LEMMA RowOKLater ==
    ASSUME NEW d, NEW r \in RowType, NEW n \in Nat, NEW m \in Nat, n <= m,
           RowOK(d, r, n)
    PROVE  RowOK(d, r, m)
  <1>1. r.acquired \in Nat
    BY Zenon DEF RowType
  <1>2. r.acquired <= n => r.acquired <= m
    BY <1>1
  <1> QED BY <1>2, Zenon DEF RowOK

LEMMA ApplyPreserves ==
    ASSUME Inv, NEW t \in Tasks, def[t] # NoDefinition, NEW s, Good(t, s), Apply(t, s),
           now' \in Nat, now <= now', now' <= Horizon,
           UNCHANGED <<def, waits, issued, fenceSeq, paused, scanDue>>
    PROVE  Inv'
  <1>1. /\ runtime' = [runtime EXCEPT ![t] = s.row]
        /\ outcome' = [outcome EXCEPT ![t] = s.out]
        /\ history' = [history EXCEPT ![t] = @ \o s.entries]
        /\ s.row \in RowType /\ s.out \in OutcomeType /\ s.entries \in Seq(HistoryType)
        /\ RowOK(def[t], s.row, now) /\ (s.row.state # "none" <=> s.out.state = "none")
    BY Zenon DEF Apply, Good
  <1>2. now' \in 0..Horizon /\ now \in Nat /\ Horizon \in Nat
    BY TypeFacts
  <1>3. readySeq' \in Nat
    BY DEF Apply, Inv, TypeOK
  <1>4. history' \in [Tasks -> Seq(HistoryType)]
    <2>1. history \in [Tasks -> Seq(HistoryType)]
      BY Zenon DEF Inv, TypeOK
    <2>2. history[t] \o s.entries \in Seq(HistoryType)
      BY <1>1, <2>1, SeqConcat, Zenon
    <2> QED BY <1>1, <2>1, <2>2, Zenon
  <1>5. runtime' \in [Tasks -> RowType] /\ outcome' \in [Tasks -> OutcomeType]
    BY <1>1, Zenon DEF Inv, TypeOK
  <1>6. TypeOK'
    BY <1>2, <1>3, <1>4, <1>5, Zenon DEF Inv, TypeOK
  <1>7. ASSUME NEW u \in Tasks
        PROVE  RowOK(def'[u], runtime'[u], now') /\ Home(def'[u], runtime'[u], outcome'[u])
    <2>1. CASE u = t
      <3>1. runtime'[u] = s.row /\ outcome'[u] = s.out /\ def'[u] = def[t]
        BY <1>1, <2>1, Zenon DEF Inv, TypeOK
      <3>2. RowOK(def[t], s.row, now')
        BY <1>1, <1>2, RowOKLater, Zenon
      <3> QED BY <1>1, <3>1, <3>2, Zenon DEF Home
    <2>2. CASE u # t
      <3>1. runtime'[u] = runtime[u] /\ outcome'[u] = outcome[u] /\ def'[u] = def[u]
        BY <1>1, <2>2, ZenonT(30) DEF Inv, TypeOK
      <3>2. /\ RowOK(def[u], runtime[u], now) /\ Home(def[u], runtime[u], outcome[u])
            /\ runtime[u] \in RowType
        BY ZenonT(30) DEF Inv, TypeOK
      <3>3. RowOK(def[u], runtime[u], now')
        BY <1>2, <3>2, RowOKLater, ZenonT(30)
      <3> QED BY <3>1, <3>2, <3>3, ZenonT(30)
    <2> QED BY <2>1, <2>2, Zenon
  <1> QED BY <1>6, <1>7, ZenonT(30) DEF Inv

LEMMA RowPreserves ==
    ASSUME Inv, NEW t \in Tasks, Live(t), NEW r \in RowType, r.state # "none",
           RowOK(def[t], r, now), runtime' = [runtime EXCEPT ![t] = r],
           UNCHANGED <<now, def, outcome, history>>,
           waits' \in [Tasks -> SUBSET WaitType],
           issued' \subseteq Workers \X Tasks \X Nat,
           fenceSeq' \in Nat, readySeq' \in Nat, UNCHANGED <<paused, scanDue>>
    PROVE  Inv'
  <1>1. TypeOK'
    BY ZenonT(30) DEF Inv, TypeOK
  <1>2. ASSUME NEW u \in Tasks
        PROVE  RowOK(def'[u], runtime'[u], now') /\ Home(def'[u], runtime'[u], outcome'[u])
    <2>1. RowOK(def[u], runtime[u], now) /\ Home(def[u], runtime[u], outcome[u])
      BY ZenonT(30) DEF Inv
    <2>2. CASE u = t
      <3>1. runtime'[u] = r /\ outcome'[u] = outcome[u] /\ def'[u] = def[u]
        BY <2>2, Zenon DEF Inv, TypeOK
      <3>2. NoRow.state = "none"
        BY Zenon DEF NoRow
      <3> QED BY <2>1, <2>2, <3>1, <3>2, ZenonT(30) DEF Home, Live
    <2>3. CASE u # t
      <3>1. runtime'[u] = runtime[u] /\ outcome'[u] = outcome[u] /\ def'[u] = def[u]
        BY <2>3, ZenonT(30) DEF Inv, TypeOK
      <3> QED BY <2>1, <3>1, ZenonT(30)
    <2> QED BY <2>2, <2>3, Zenon
  <1> QED BY <1>1, <1>2, ZenonT(30) DEF Inv

-----------------------------------------------------------------------------
(* Enqueues, cancellations, claims and heartbeats keep the invariant *)

LEMMA InitInv == Init => Inv
  <1> SUFFICES ASSUME Init PROVE Inv
    BY Zenon
  <1>1. now = 0 /\ Horizon \in Nat /\ 0 \in 0..Horizon
    BY ConstantsAssumption DEF Init, ConstantsAssumption
  <1>2. NoOutcome \in OutcomeType
    BY Zenon DEF NoOutcome, OutcomeType
  <1>3. <<>> \in Seq(HistoryType)
    OBVIOUS
  <1>4. TypeOK
    BY <1>1, <1>2, <1>3, NoRowType, ZenonT(30) DEF Init, TypeOK
  <1>5. ASSUME NEW t \in Tasks
        PROVE  RowOK(def[t], runtime[t], now) /\ Home(def[t], runtime[t], outcome[t])
    <2>1. runtime[t] = NoRow /\ outcome[t] = NoOutcome /\ def[t] = NoDefinition
      BY Zenon DEF Init
    <2>2. RowOK(def[t], NoRow, now)
      BY ZenonT(30) DEF RowOK, NoRow
    <2> QED BY <2>1, <2>2, ZenonT(30) DEF Home
  <1> QED BY <1>4, <1>5, ZenonT(30) DEF Inv

LEMMA EnqueueInv ==
    ASSUME Inv, NEW t \in Tasks, NEW d \in Definitions, NEW delay \in StartDelays,
           Enqueue(t, d, delay)
    PROVE  Inv'
  <1> DEFINE row == [NoRow EXCEPT
                       !.state = IF delay = 0 THEN "ready" ELSE "scheduled",
                       !.attempt = 1,
                       !.deadline = d.deadline,
                       !.runAt = now + delay,
                       !.seq = IF delay = 0 THEN readySeq + 1 ELSE 0]
             late == d.deadline <= now
             failed == [state |-> "failed", attempt |-> 1, fence |-> 0, at |-> now]
  <1>1. /\ def[t] = NoDefinition /\ def' = [def EXCEPT ![t] = d]
        /\ runtime' = [runtime EXCEPT ![t] = IF late THEN NoRow ELSE row]
        /\ outcome' = [outcome EXCEPT ![t] = IF late THEN failed ELSE outcome[t]]
        /\ readySeq' \in Nat
        /\ UNCHANGED <<now, history, waits, issued, fenceSeq, paused, scanDue>>
    BY DEF Enqueue, Inv, TypeOK
  <1>2. /\ runtime[t] = NoRow /\ outcome[t] = NoOutcome /\ now \in Nat /\ readySeq \in Nat
        /\ NoOutcome.state = "none"
    BY <1>1, TypeFacts, Zenon DEF Inv, Home, TypeOK, NoOutcome
  <1>3. d.deadline \in Nat /\ d # NoDefinition /\ now + delay \in Nat /\ now + delay # Never
    <2>1. d \in DefinitionType /\ d.max # 0
      BY ConstantsAssumption, Zenon DEF ConstantsAssumption, DefinitionType
    <2>2. NoDefinition.max = 0 /\ d.deadline \in Nat
      BY <2>1, Zenon DEF NoDefinition, DefinitionType
    <2>3. delay \in Nat /\ Horizon + delay < Never
      BY ConstantsAssumption, Zenon DEF ConstantsAssumption
    <2>4. now \in Nat /\ now <= Horizon /\ Horizon \in Nat /\ Never \in Nat
      BY TypeFacts, Zenon
    <2>5. now + delay \in Nat /\ now + delay # Never
      BY <2>3, <2>4
    <2>6. d # NoDefinition
      BY <2>1, <2>2, Zenon
    <2> QED BY <2>2, <2>5, <2>6, Zenon
  <1>4. row \in RowType
    <2>1. /\ (IF delay = 0 THEN "ready" ELSE "scheduled") \in {"ready", "scheduled"}
          /\ (IF delay = 0 THEN readySeq + 1 ELSE 0) \in Nat
      BY <1>2
    <2> QED BY <2>1, <1>3, NoRowType, ZenonT(30) DEF RowType
  <1>5. RowOK(d, row, now) /\ row.state # "none" /\ RowOK(d, NoRow, now) /\ NoRow.state = "none"
    BY <1>3 DEF RowOK, NoRow
  <1>6. failed \in OutcomeType /\ failed.state = "failed"
    BY <1>2, Zenon DEF OutcomeType
  <1>7. /\ runtime' \in [Tasks -> RowType] /\ outcome' \in [Tasks -> OutcomeType]
        /\ def' \in [Tasks -> Definitions \union {NoDefinition}]
    BY <1>1, <1>4, <1>6, NoRowType, ZenonT(30) DEF Inv, TypeOK
  <1>8. TypeOK'
    BY <1>1, <1>7, ZenonT(30) DEF Inv, TypeOK
  <1>9. ASSUME NEW u \in Tasks
        PROVE  RowOK(def'[u], runtime'[u], now') /\ Home(def'[u], runtime'[u], outcome'[u])
    <2>1. CASE u = t
      <3>1. /\ def'[u] = d /\ runtime'[u] = (IF late THEN NoRow ELSE row)
            /\ outcome'[u] = IF late THEN failed ELSE outcome[t]
        BY <1>1, <2>1, ZenonT(30) DEF Inv, TypeOK
      <3>2. CASE late
        BY <1>1, <1>3, <1>5, <1>6, <3>1, <3>2, ZenonT(30) DEF Home
      <3>3. CASE ~late
        BY <1>1, <1>2, <1>3, <1>5, <3>1, <3>3, ZenonT(30) DEF Home
      <3> QED BY <3>2, <3>3, Zenon
    <2>2. CASE u # t
      <3>1. runtime'[u] = runtime[u] /\ outcome'[u] = outcome[u] /\ def'[u] = def[u]
        BY <1>1, <2>2, Zenon DEF Inv, TypeOK
      <3> QED BY <1>1, <3>1, Zenon DEF Inv
    <2> QED BY <2>1, <2>2, Zenon
  <1> QED BY <1>8, <1>9, ZenonT(30) DEF Inv

LEMMA CancelInv ==
    ASSUME Inv, NEW t \in Tasks, Cancel(t)
    PROVE  Inv'
  <1>1. CASE Active(t)
    <2> DEFINE r == [runtime[t] EXCEPT !.cancel = TRUE]
    <2>1. runtime' = [runtime EXCEPT ![t] = r]
      BY <1>1, ZenonT(30) DEF Cancel
    <2>2. r \in RowType
      BY TypeFacts, ZenonT(30) DEF RowType
    <2>3. RowOK(def[t], r, now) /\ r.state # "none"
      BY <1>1, TypeFacts DEF RowOK, Active, RowType
    <2>4. UNCHANGED <<now, def, outcome, history, waits, issued, fenceSeq, readySeq, paused, scanDue>>
      BY <1>1, Zenon DEF Cancel
    <2>5. /\ waits' \in [Tasks -> SUBSET WaitType] /\ issued' \subseteq Workers \X Tasks \X Nat
          /\ fenceSeq' \in Nat /\ readySeq' \in Nat
      BY <2>4, Zenon DEF Inv, TypeOK
    <2> HIDE DEF r
    <2> QED BY <2>1, <2>2, <2>3, <2>4, <2>5, <1>1, ActiveFacts, RowPreserves, ZenonT(30)
  <1>2. CASE ~Active(t)
    <2>1. Live(t) /\ def[t] # NoDefinition
      BY DEF Cancel, Inv, Home, Live, NoRow
    <2>2. Good(t, ClosedInactive(t, "canceled", "canceled"))
      BY <2>1, ClosedInactiveGood, ZenonT(30) DEF Verdicts
    <2>3. /\ Apply(t, ClosedInactive(t, "canceled", "canceled"))
          /\ UNCHANGED <<now, def, waits, issued, fenceSeq, paused, scanDue>>
      BY <1>2, ZenonT(30) DEF Cancel
    <2>4. now' \in Nat /\ now <= now' /\ now' <= Horizon
      BY <2>3, TypeFacts
    <2> QED BY <2>1, <2>2, <2>3, <2>4, ApplyPreserves, Zenon
  <1> QED BY <1>1, <1>2, Zenon

\* now differs from the NULL timestamp, and so does every instant ahead of it
\* that a delay or a wait may name.
LEMMA ClockFacts ==
    ASSUME Inv
    PROVE  /\ now \in Nat /\ Never \in Nat /\ now < Never /\ Lease \in Nat
           /\ \A d \in RetryDelays \union WaitSpans : d \in Nat /\ now + d < Never
           /\ readySeq \in Nat /\ fenceSeq \in Nat
  BY ConstantsAssumption DEF ConstantsAssumption, Inv, TypeOK

LEMMA RunTaskNowInv ==
    ASSUME Inv, NEW t \in Tasks, RunTaskNow(t)
    PROVE  Inv'
  <1> DEFINE r == [runtime[t] EXCEPT !.state = "ready", !.runAt = now, !.seq = readySeq + 1]
  <1>1. /\ runtime' = [runtime EXCEPT ![t] = r] /\ readySeq' \in Nat
        /\ UNCHANGED <<now, def, outcome, history, waits, issued, fenceSeq, paused, scanDue>>
    BY ClockFacts DEF RunTaskNow, Inv, TypeOK
  <1>2. r \in RowType
    <2>1. now \in Nat /\ readySeq + 1 \in Nat /\ runtime[t] \in RowType
      BY TypeFacts, ClockFacts, SMTT(30)
    <2> QED BY <2>1, ZenonT(30) DEF RowType
  <1>3. RowOK(def[t], r, now) /\ r.state # "none" /\ Live(t)
    BY TypeFacts, ClockFacts DEF RowOK, RowType, RunTaskNow, Live
  <1>4. /\ waits' \in [Tasks -> SUBSET WaitType] /\ issued' \subseteq Workers \X Tasks \X Nat
        /\ fenceSeq' \in Nat
    BY <1>1, Zenon DEF Inv, TypeOK
  <1> HIDE DEF r
  <1> QED BY <1>1, <1>2, <1>3, <1>4, RowPreserves, ZenonT(30)

LEMMA ClaimOneInv ==
    ASSUME Inv, NEW w \in Workers, NEW locked \in SUBSET Tasks, ClaimOne(w, locked)
    PROVE  Inv'
  <1>1. PICK t \in Tasks : /\ Claimable(t)
                           /\ runtime' = [runtime EXCEPT ![t] = Granted(t, w)]
                           /\ issued' = issued \union {<<w, t, fenceSeq + 1>>}
    BY ZenonT(30) DEF ClaimOne
  <1>2. /\ fenceSeq' = fenceSeq + 1
        /\ UNCHANGED <<now, def, outcome, history, waits, readySeq, paused, scanDue>>
    BY Zenon DEF ClaimOne
  <1> DEFINE at == IF def[t].timeout = Never THEN Never
                   ELSE now + (def[t].timeout - runtime[t].used)
             r == [runtime[t] EXCEPT
                     !.state = "active", !.fence = fenceSeq + 1, !.worker = w,
                     !.acquired = now, !.expires = now + Lease, !.seq = 0,
                     !.wait = NoName, !.started = TRUE, !.timeoutAt = at]
  <1>3. r = Granted(t, w)
    BY Zenon DEF Granted
  <1>4. runtime[t].used \in Nat /\ def[t].timeout \in Nat
    BY TypeFacts, DefinitionFacts, Zenon DEF RowType
  <1>5. def[t].timeout # Never => runtime[t].used < def[t].timeout
    BY <1>1, Zenon DEF Claimable
  <1>6. at \in Nat
    BY <1>4, <1>5, ClockFacts
  <1>7. r \in RowType
    <2>1. /\ now \in Nat /\ fenceSeq + 1 \in Nat /\ now + Lease \in Nat
          /\ runtime[t] \in RowType /\ w \in Workers \union {NoWorker}
          /\ NoName \in WaitNames \union {NoName}
      BY TypeFacts, ClockFacts, SMTT(30)
    <2> HIDE DEF at
    <2> QED BY <1>6, <2>1, ZenonT(30) DEF RowType
  <1>8. RowOK(def[t], r, now) /\ r.state # "none" /\ Live(t)
    <2>1. runtime[t].state = "ready"
      BY <1>1, ZenonT(30) DEF Claimable
    <2>2. /\ runtime[t].runAt # Never
          /\ runtime[t].deadline <= def[t].deadline /\ runtime[t].deadline = def[t].deadline
      BY <2>1, TypeFacts, ZenonT(30) DEF RowOK
    <2>3. /\ r.state = "active" /\ r.worker = w /\ r.fence = fenceSeq + 1 /\ r.wait = NoName
          /\ r.started /\ r.acquired = now /\ r.runAt = runtime[t].runAt
          /\ r.deadline = runtime[t].deadline /\ r.used = runtime[t].used /\ r.timeoutAt = at
      BY TypeFacts, SMTT(30) DEF RowType
    <2> HIDE DEF r
    <2> QED BY <2>1, <2>2, <2>3, <1>4, <1>5, ClockFacts, SMTT(30) DEF RowOK, Live
  <1>9. /\ waits' \in [Tasks -> SUBSET WaitType] /\ readySeq' \in Nat /\ fenceSeq' \in Nat
        /\ issued' \subseteq Workers \X Tasks \X Nat
    BY <1>1, <1>2, ClockFacts, SMTT(30) DEF Inv, TypeOK
  <1> HIDE DEF r
  <1> QED BY <1>1, <1>2, <1>3, <1>7, <1>8, <1>9, RowPreserves, ZenonT(30)

LEMMA RenewedRow ==
    ASSUME Inv, NEW t \in Tasks, Active(t)
    PROVE  LET r == [runtime[t] EXCEPT !.expires = now + Lease]
           IN r \in RowType /\ RowOK(def[t], r, now) /\ r.state # "none"
  BY TypeFacts, ClockFacts DEF RowType, RowOK, Active

LEMMA HeartbeatInv ==
    ASSUME Inv, NEW w, NEW t \in Tasks, NEW f, Heartbeat(w, t, f)
    PROVE  Inv'
  <1> DEFINE r == [runtime[t] EXCEPT !.expires = now + Lease]
  <1>1. /\ runtime' = [runtime EXCEPT ![t] = r] /\ Active(t)
        /\ UNCHANGED <<now, def, outcome, history, waits, issued, fenceSeq, readySeq, paused, scanDue>>
    BY Zenon DEF Heartbeat, HoldsLease, Owns
  <1>2. r \in RowType /\ RowOK(def[t], r, now) /\ r.state # "none" /\ Live(t)
    BY <1>1, RenewedRow, Zenon DEF Live, Active
  <1>3. /\ waits' \in [Tasks -> SUBSET WaitType] /\ issued' \subseteq Workers \X Tasks \X Nat
        /\ fenceSeq' \in Nat /\ readySeq' \in Nat
    BY <1>1, Zenon DEF Inv, TypeOK
  <1> HIDE DEF r
  <1> QED BY <1>1, <1>2, <1>3, RowPreserves, ZenonT(30)

LEMMA HeartbeatManyInv ==
    ASSUME Inv, NEW w, NEW beats, NEW locked, HeartbeatMany(w, beats, locked)
    PROVE  Inv'
  <1> DEFINE renewed == {t \in Tasks \ locked :
                           \E c \in beats : c[2] = t /\ HoldsLease(w, t, c[3])}
             r(t) == IF t \in renewed THEN [runtime[t] EXCEPT !.expires = now + Lease]
                     ELSE runtime[t]
  <1>1. /\ runtime' = [t \in Tasks |-> r(t)]
        /\ UNCHANGED <<now, def, outcome, history, waits, issued, fenceSeq, readySeq, paused, scanDue>>
    BY Zenon DEF HeartbeatMany
  <1>2. ASSUME NEW t \in Tasks
        PROVE  /\ r(t) \in RowType /\ RowOK(def[t], r(t), now)
               /\ Home(def[t], r(t), outcome[t])
    <2>1. CASE t \in renewed
      <3>1. Active(t)
        BY <2>1, Zenon DEF HoldsLease, Owns
      <3> DEFINE q == [runtime[t] EXCEPT !.expires = now + Lease]
      <3>2. q \in RowType /\ RowOK(def[t], q, now) /\ q.state # "none"
        BY <3>1, RenewedRow, Zenon
      <3>3. Home(def[t], runtime[t], outcome[t]) /\ def[t] # NoDefinition /\ runtime[t].state # "none"
        BY <3>1, ActiveFacts, Zenon DEF Inv, Live
      <3>4. r(t) = q
        BY <2>1, ZenonT(30)
      <3> HIDE DEF q, r
      <3> QED BY <3>2, <3>3, <3>4, Zenon DEF Home
    <2>2. CASE t \notin renewed
      BY <2>2, TypeFacts, ZenonT(30) DEF Inv
    <2> QED BY <2>1, <2>2, Zenon
  <1> HIDE DEF r
  <1>3. runtime' \in [Tasks -> RowType] /\ \A t \in Tasks : runtime'[t] = r(t)
    BY <1>1, <1>2, ZenonT(30)
  <1>4. TypeOK'
    BY <1>1, <1>3, ZenonT(30) DEF Inv, TypeOK
  <1> QED BY <1>1, <1>2, <1>3, <1>4, Zenon DEF Inv

-----------------------------------------------------------------------------
(* The calls of a worker, and the tick                                      *)

\* complete_v1 and acknowledge_cancel_v1 close the attempt of the caller.
LEMMA CompleteInv ==
    ASSUME Inv, NEW w \in Workers, NEW t \in Tasks, NEW f \in Nat,
           Complete(w, t, f) \/ AcknowledgeCancel(w, t, f)
    PROVE  Inv'
  <1> DEFINE c(state) == Closed(t, state, w, f, state)
  <1>1. Active(t) /\ UNCHANGED <<now, def, waits, issued, fenceSeq, paused, scanDue>>
    BY Zenon DEF Complete, AcknowledgeCancel, HoldsLease, Owns
  <1>2. Apply(t, c("succeeded")) \/ Apply(t, c("canceled"))
    BY Zenon DEF Complete, AcknowledgeCancel
  <1>3. "succeeded" \in Verdicts /\ "canceled" \in Verdicts
    BY Zenon DEF Verdicts
  <1>4. Good(t, c("succeeded")) /\ Good(t, c("canceled"))
    BY <1>1, <1>3, ActiveFacts, ClosedGood, ZenonT(30)
  <1>5. now' \in Nat /\ now <= now' /\ now' <= Horizon /\ def[t] # NoDefinition
    BY <1>1, TypeFacts, ActiveFacts, SMTT(30)
  <1> HIDE DEF c
  <1> QED BY <1>1, <1>2, <1>4, <1>5, ApplyPreserves, ZenonT(30)

LEMMA FailInv ==
    ASSUME Inv, NEW w, NEW t \in Tasks, NEW f, NEW retry, NEW delay \in RetryDelays,
           Fail(w, t, f, retry, delay)
    PROVE  Inv'
  <1> DEFINE s == IF PastDeadline(t) \/ PastTimeout(t)
                  THEN ExpirySettlement(t, delay, readySeq + 1)
                  ELSE IF runtime[t].attempt < def[t].max /\ retry
                  THEN Retried(t, delay, readySeq + 1, "retry")
                  ELSE ClosedByOwner(t, "failed", "failed")
  <1>1. /\ Active(t) /\ Apply(t, s)
        /\ UNCHANGED <<now, def, waits, issued, fenceSeq, paused, scanDue>>
    BY Zenon DEF Fail, Owns
  <1>2. "retry" \in Verdicts /\ "failed" \in Verdicts /\ readySeq + 1 \in Nat
    BY ClockFacts, SMTT(30) DEF Verdicts
  <1>3. Good(t, s)
    BY <1>1, <1>2, ExpirySettlementGood, RetriedGood, ClosedByOwnerGood, ZenonT(30)
  <1>4. now' \in Nat /\ now <= now' /\ now' <= Horizon /\ def[t] # NoDefinition
    BY <1>1, TypeFacts, ActiveFacts, SMTT(30)
  <1> HIDE DEF s
  <1> QED BY <1>1, <1>3, <1>4, ApplyPreserves, ZenonT(30)

\* What a suspension leaves behind, whatever state the row moves to.
LEMMA SuspendedFacts ==
    ASSUME Inv, NEW t \in Tasks, Active(t), NEW at \in Nat, now <= at
    PROVE  LET s == Suspended(t, at) IN
           /\ s \in RowType /\ s.worker = NoWorker /\ s.fence = 0 /\ s.timeoutAt = Never
           /\ s.cancel = runtime[t].cancel /\ s.deadline = def[t].deadline
           /\ s.started /\ s.runAt = runtime[t].runAt /\ s.attempt = runtime[t].attempt
           /\ s.used = runtime[t].used + (at - runtime[t].acquired)
  <1>1. /\ runtime[t].acquired \in Nat /\ runtime[t].used \in Nat /\ runtime[t] \in RowType
        /\ runtime[t].acquired <= now /\ runtime[t].started
    BY TypeFacts, ZenonT(30) DEF RowType, RowOK, Active
  <1>2. runtime[t].used + (at - runtime[t].acquired) \in Nat /\ Never \in Nat
    BY <1>1, ClockFacts
  <1>3. Suspended(t, at) \in RowType
    BY <1>1, <1>2, ZenonT(30) DEF Suspended, RowType
  <1>4. runtime[t].deadline = def[t].deadline
    BY ActiveFacts, Zenon
  <1> QED BY <1>1, <1>3, <1>4, ZenonT(30) DEF Suspended, RowType

LEMMA ReleaseOwnedInv ==
    ASSUME Inv, NEW w, NEW t \in Tasks, NEW f, NEW delay \in RetryDelays,
           NEW late \in Nat, ReleaseOwned(w, t, f, delay, late)
    PROVE  Inv'
  <1> DEFINE S == Suspended(t, now + late)
             row == [S EXCEPT !.state = "ready", !.runAt = now + late, !.seq = readySeq + 1]
             released == [row |-> row, out |-> outcome[t], entries |-> <<>>]
             s == IF PastDeadline(t) \/ PastTimeout(t)
                  THEN ExpirySettlement(t, delay, readySeq + 1) ELSE released
  <1>1. /\ Active(t) /\ Apply(t, s) /\ now' = now + late /\ now' <= Horizon /\ ~runtime[t].cancel
        /\ UNCHANGED <<def, waits, issued, fenceSeq, paused, scanDue>>
    BY ZenonT(30) DEF ReleaseOwned, Owns
  <1>2. now + late \in Nat /\ now <= now + late /\ readySeq + 1 \in Nat /\ now + late # Never
    <2>1. now + late <= Horizon
      BY <1>1, Zenon
    <2>2. now \in Nat /\ readySeq \in Nat
      BY ClockFacts, Zenon
    <2>3. Horizon \in Nat /\ Never \in Nat /\ Horizon + 0 < Never
      BY ConstantsAssumption, ZenonT(30) DEF ConstantsAssumption
    <2> QED BY <2>1, <2>2, <2>3, SMTT(30)
  <1>3. /\ S \in RowType /\ S.worker = NoWorker /\ S.fence = 0 /\ S.timeoutAt = Never
        /\ ~S.cancel /\ S.deadline = def[t].deadline /\ S.wait = NoName
    <2>1. runtime[t].wait = NoName
      BY <1>1, TypeFacts, Zenon DEF RowOK, Active
    <2>2. S.wait = runtime[t].wait
      BY TypeFacts, Zenon DEF Suspended, RowType
    <2> HIDE DEF S
    <2> QED BY <1>1, <1>2, <2>1, <2>2, SuspendedFacts DEF S
  <1> HIDE DEF S
  <1>4. row \in RowType
    BY <1>2, <1>3, ZenonT(30) DEF RowType
  <1>5. RowOK(def[t], row, now) /\ row.state # "none"
    <2>1. def[t].deadline \in Nat
      BY DefinitionFacts, Zenon
    <2> QED BY <1>2, <1>3, <2>1, SMTT(30) DEF RowOK, RowType
  <1>6. outcome[t].state = "none" /\ outcome[t] \in OutcomeType /\ <<>> \in Seq(HistoryType)
    BY <1>1, ActiveFacts, TypeFacts, SMTT(30) DEF Inv, Home, Live
  <1> HIDE DEF row
  <1>7. Good(t, released)
    BY <1>4, <1>5, <1>6, Zenon DEF Good
  <1>8. Good(t, s)
    BY <1>1, <1>2, <1>7, ExpirySettlementGood, Zenon
  <1>9. def[t] # NoDefinition
    BY <1>1, ActiveFacts, Zenon
  <1> HIDE DEF s
  <1> QED BY <1>1, <1>2, <1>8, <1>9, ApplyPreserves, SMTT(30)

LEMMA ExpireOwnedInv ==
    ASSUME Inv, NEW w, NEW t \in Tasks, NEW f, NEW delay \in RetryDelays,
           ExpireOwned(w, t, f, delay)
    PROVE  Inv'
  <1> DEFINE s == ExpirySettlement(t, delay, readySeq + 1)
  <1>1. /\ Active(t) /\ Apply(t, s)
        /\ UNCHANGED <<now, def, waits, issued, fenceSeq, paused, scanDue>>
    BY Zenon DEF ExpireOwned, Owns
  <1>2. Good(t, s)
    BY <1>1, ClockFacts, ExpirySettlementGood, SMTT(30)
  <1>3. now' \in Nat /\ now <= now' /\ now' <= Horizon /\ def[t] # NoDefinition
    BY <1>1, TypeFacts, ActiveFacts, SMTT(30)
  <1> HIDE DEF s
  <1> QED BY <1>1, <1>2, <1>3, ApplyPreserves, Zenon

LEMMA WaitRowType ==
    ASSUME Inv, NEW t \in Tasks, Active(t), NEW kind \in WaitKinds, NEW n \in WaitNames
    PROVE  /\ WaitRow(kind, n, t, {}) \in WaitType
           /\ [waits EXCEPT ![t] = @ \union {WaitRow(kind, n, t, {})}] \in [Tasks -> SUBSET WaitType]
  <1>1. runtime[t].attempt \in Nat /\ runtime[t].fence \in Nat /\ runtime[t].worker \in Workers
    BY TypeFacts, ActiveFacts, ZenonT(30) DEF RowType
  <1>2. WaitRow(kind, n, t, {}) \in WaitType
    BY <1>1, Zenon DEF WaitRow, WaitType
  <1> QED BY <1>2, ZenonT(30) DEF Inv, TypeOK

\* A row suspended on wait n until at, with deadline d.
LEMMA WaitingRow ==
    ASSUME Inv, NEW t \in Tasks, Active(t), ~runtime[t].cancel, NEW n \in WaitNames,
           NEW at \in Nat, NEW d \in Nat, d <= def[t].deadline,
           at # Never => d = def[t].deadline
    PROVE  LET r == [Suspended(t, now) EXCEPT
                       !.state = "scheduled", !.runAt = at, !.wait = n, !.deadline = d]
           IN r \in RowType /\ RowOK(def[t], r, now) /\ r.state # "none"
  <1> DEFINE S == Suspended(t, now)
             r == [S EXCEPT !.state = "scheduled", !.runAt = at, !.wait = n, !.deadline = d]
  <1>1. n # NoName /\ n \in WaitNames \union {NoName} /\ now \in Nat /\ now <= now
    BY ClockFacts, ConstantsAssumption, SMTT(30) DEF ConstantsAssumption
  <1>2. /\ S \in RowType /\ S.worker = NoWorker /\ S.fence = 0 /\ S.timeoutAt = Never
        /\ ~S.cancel /\ S.started
    BY <1>1, SuspendedFacts, ZenonT(30)
  <1> HIDE DEF S
  <1>3. r \in RowType
    BY <1>1, <1>2, ZenonT(30) DEF RowType
  <1>4. RowOK(def[t], r, now) /\ r.state # "none"
    BY <1>1, <1>2, Zenon DEF RowOK, RowType
  <1> QED BY <1>3, <1>4, ZenonT(30) DEF S

LEMMA ScheduleWaitInv ==
    ASSUME Inv, NEW w, NEW t \in Tasks, NEW f, NEW n \in WaitNames,
           NEW span \in WaitSpans \union {0}, ScheduleWait(w, t, f, n, span)
    PROVE  Inv'
  <1> DEFINE S == Suspended(t, now)
             q == [S EXCEPT !.state = "scheduled", !.runAt = now + span, !.wait = n]
             q2 == [S EXCEPT !.state = "scheduled", !.runAt = now + span, !.wait = n,
                             !.deadline = def[t].deadline]
             r == IF span = 0 THEN runtime[t] ELSE q
  <1>1. /\ Active(t) /\ ~runtime[t].cancel /\ runtime' = [runtime EXCEPT ![t] = r]
        /\ waits' = [waits EXCEPT ![t] = @ \union {WaitRow("timer", n, t, {})}]
        /\ UNCHANGED <<now, def, outcome, history, issued, fenceSeq, readySeq, paused, scanDue>>
    BY ZenonT(30) DEF ScheduleWait, HoldsLease, Owns, Inv, TypeOK
  <1>2. waits' \in [Tasks -> SUBSET WaitType]
    BY <1>1, WaitRowType, ZenonT(30) DEF WaitKinds
  <1>3. /\ issued' \subseteq Workers \X Tasks \X Nat /\ fenceSeq' \in Nat /\ readySeq' \in Nat
    BY <1>1, ZenonT(30) DEF Inv, TypeOK
  <1>4. r \in RowType /\ RowOK(def[t], r, now) /\ r.state # "none"
    <2>1. CASE span = 0
      BY <1>1, <2>1, TypeFacts, ZenonT(30) DEF Active
    <2>2. CASE span # 0
      <3>1. now + span \in Nat /\ def[t].deadline \in Nat /\ def[t].deadline <= def[t].deadline
        BY <2>2, ClockFacts, DefinitionFacts, SMTT(30)
      <3>2. q2 \in RowType /\ RowOK(def[t], q2, now) /\ q2.state # "none"
        BY <1>1, <3>1, WaitingRow, ZenonT(30)
      <3>3. S \in RowType /\ S.deadline = def[t].deadline
        BY <1>1, ClockFacts, SuspendedFacts
      <3> HIDE DEF S
      <3>4. q = q2
        BY <3>3, ZenonT(30) DEF RowType
      <3> HIDE DEF q, q2
      <3> QED BY <2>2, <3>2, <3>4, ZenonT(30)
    <2> QED BY <2>1, <2>2, ZenonT(30)
  <1>5. Live(t)
    BY <1>1, ActiveFacts, Zenon
  <1> HIDE DEF r
  <1> QED BY <1>1, <1>2, <1>3, <1>4, <1>5, RowPreserves, ZenonT(30)

LEMMA WaitForInv ==
    ASSUME Inv, NEW kind \in WaitKinds, NEW w, NEW t \in Tasks, NEW f,
           NEW n \in WaitNames, NEW span \in WaitSpans, WaitFor(kind, w, t, f, n, span)
    PROVE  Inv'
  <1> DEFINE S == Suspended(t, now)
             d == IF S.deadline <= now + span THEN S.deadline ELSE now + span
             r == [S EXCEPT !.state = "scheduled", !.runAt = Never, !.wait = n, !.deadline = d]
  <1>1. /\ Active(t) /\ ~runtime[t].cancel
        /\ runtime' = [runtime EXCEPT ![t] = r]
        /\ waits' = [waits EXCEPT ![t] = @ \union {WaitRow(kind, n, t, {})}]
        /\ UNCHANGED <<now, def, outcome, history, issued, fenceSeq, readySeq, paused, scanDue>>
    BY Zenon DEF WaitFor, HoldsLease, Owns
  <1>2. waits' \in [Tasks -> SUBSET WaitType]
    BY <1>1, WaitRowType, Zenon
  <1>3. /\ issued' \subseteq Workers \X Tasks \X Nat /\ fenceSeq' \in Nat /\ readySeq' \in Nat
    BY <1>1, Zenon DEF Inv, TypeOK
  <1>4. d \in Nat /\ d <= def[t].deadline /\ Never \in Nat
    <2>1. S.deadline = def[t].deadline
      BY <1>1, ClockFacts, SuspendedFacts, SMTT(30)
    <2> HIDE DEF S
    <2> QED BY <2>1, ClockFacts, DefinitionFacts, SMTT(30)
  <1> HIDE DEF d
  <1>5. r \in RowType /\ RowOK(def[t], r, now) /\ r.state # "none"
    BY <1>1, <1>4, WaitingRow, ZenonT(30)
  <1>6. Live(t)
    BY <1>1, ActiveFacts, Zenon
  <1> HIDE DEF r
  <1> QED BY <1>1, <1>2, <1>3, <1>5, <1>6, RowPreserves, ZenonT(30)

LEMMA DeliverInv ==
    ASSUME Inv, NEW kind, NEW t \in Tasks, NEW n, NEW payload \in Payloads,
           Deliver(kind, t, n, payload)
    PROVE  Inv'
  <1>1. PICK p \in waits[t] :
           /\ runtime[t].state = "scheduled"
           /\ waits' = [waits EXCEPT ![t] = (@ \ {p}) \union {[p EXCEPT !.answer = {payload}]}]
           /\ runtime' = [runtime EXCEPT ![t] = Resumed(t)]
           /\ readySeq' = readySeq + 1
           /\ UNCHANGED <<now, def, outcome, history, issued, fenceSeq, paused, scanDue>>
    BY ZenonT(30) DEF Deliver, WaitsNamed
  <1>2. waits' \in [Tasks -> SUBSET WaitType]
    <2>1. p \in WaitType
      BY Zenon DEF Inv, TypeOK
    <2>2. [p EXCEPT !.answer = {payload}] \in WaitType
      BY <2>1, ZenonT(30) DEF WaitType
    <2> QED BY <1>1, <2>2, ZenonT(30) DEF Inv, TypeOK
  <1>3. issued' \subseteq Workers \X Tasks \X Nat /\ fenceSeq' \in Nat /\ readySeq' \in Nat
    BY <1>1, ClockFacts DEF Inv, TypeOK
  <1> DEFINE r == Resumed(t)
  <1>4. r \in RowType
    <2>1. /\ now \in Nat /\ readySeq + 1 \in Nat /\ def[t].deadline \in Nat
          /\ runtime[t] \in RowType
      BY TypeFacts, ClockFacts, DefinitionFacts, SMTT(30)
    <2> QED BY <2>1, ZenonT(30) DEF Resumed, RowType
  <1>5. RowOK(def[t], r, now) /\ r.state # "none"
    BY <1>1, TypeFacts, ClockFacts, DefinitionFacts, SMTT(30) DEF Resumed, RowOK, RowType
  <1>6. Live(t)
    BY <1>1, Zenon DEF Live
  <1> HIDE DEF r
  <1> QED BY <1>1, <1>2, <1>3, <1>4, <1>5, <1>6, RowPreserves, ZenonT(30) DEF r

LEMMA RankType ==
    ASSUME NEW S \in SUBSET Tasks, NEW at, NEW t
    PROVE  Rank(S, at, t) \in Nat
  <1>1. {u \in S : at[u] < at[t] \/ (at[u] = at[t] /\ u < t)} \in SUBSET Tasks
    BY Zenon
  <1> QED BY <1>1, FiniteAssumption, ZenonT(30) DEF Rank

\* Each scan of a tick settles only rows in the state it selects.
LEMMA RecoveryFacts ==
    ASSUME NEW locked, NEW R, R = Recovery(locked) \/ R = NoRecovery
    PROVE  /\ R.deadlines \in SUBSET Tasks /\ \A t \in R.deadlines : Live(t) /\ PastDeadline(t)
           /\ R.timeouts \in SUBSET Tasks /\ \A t \in R.timeouts : Active(t) /\ PastTimeout(t)
           /\ R.leases \in SUBSET Tasks /\ \A t \in R.leases : Active(t) /\ PastExpiry(t)
           /\ \A t \in R.timeouts : runtime[t].cancel => PastDeadline(t)
           /\ \A t \in R.deadlines : Active(t) =>
                 ~PastTimeout(t) \/ runtime[t].deadline <= runtime[t].timeoutAt
           /\ \A t \in R.leases : runtime[t].cancel \/ (~PastDeadline(t) /\ ~PastTimeout(t))
  <1>1. CASE R = NoRecovery
    BY <1>1, ZenonT(30) DEF NoRecovery
  <1>2. CASE R = Recovery(locked)
    <2> DEFINE D == FirstRows(DueDeadlines(locked), Column("deadline"), Limit)
               T == FirstRows(DueTimeouts(locked), Column("timeoutAt"), Limit - Cardinality(D))
               room == Limit - Cardinality(D) - Cardinality(T)
               L == IF scanDue
                    THEN FirstRows(DueLeases(locked) \ (D \union T), Column("expires"), room)
                    ELSE {}
    <2>1. R.deadlines = D /\ R.timeouts = T /\ R.leases = L
      BY <1>2, ZenonT(30) DEF Recovery
    <2>2. D \subseteq DueDeadlines(locked) /\ T \subseteq DueTimeouts(locked)
          /\ L \subseteq DueLeases(locked)
      BY Zenon DEF FirstRows
    <2> HIDE DEF D, T, L
    <2> QED BY <2>1, <2>2, ZenonT(30) DEF DueDeadlines, DueTimeouts, DueLeases
  <1> QED BY <1>1, <1>2, ZenonT(30)

LEMMA PromotedGood ==
    ASSUME Inv, NEW t \in Tasks, NEW seq \in Nat, runtime[t].state = "scheduled",
           runtime[t].runAt <= now
    PROVE  Good(t, [Untouched(t) EXCEPT !.row = Promoted(t, seq)])
  <1> DEFINE r == Promoted(t, seq)
             s == [Untouched(t) EXCEPT !.row = r]
  <1>1. r \in RowType
    BY TypeFacts, ZenonT(30) DEF Promoted, RowType
  <1>2. RowOK(def[t], r, now) /\ r.state # "none"
    <2>1. runtime[t].runAt # Never /\ runtime[t].runAt \in Nat
      BY TypeFacts, ClockFacts, SMTT(30) DEF RowType
    <2>2. /\ r.state = "ready" /\ r.wait = NoName /\ r.worker = runtime[t].worker
          /\ r.fence = runtime[t].fence /\ r.timeoutAt = runtime[t].timeoutAt
          /\ r.cancel = runtime[t].cancel /\ r.runAt = runtime[t].runAt
          /\ r.deadline = runtime[t].deadline
      BY TypeFacts, SMTT(30) DEF Promoted, RowType
    <2> HIDE DEF r
    <2> QED BY <2>1, <2>2, TypeFacts, Zenon DEF RowOK
  <1>3. outcome[t].state = "none" /\ outcome[t] \in OutcomeType /\ <<>> \in Seq(HistoryType)
    <2>1. NoRow.state = "none" /\ Home(def[t], runtime[t], outcome[t])
      BY Zenon DEF Inv, NoRow
    <2> QED BY <2>1, TypeFacts, SMTT(30) DEF Home
  <1> HIDE DEF r
  <1>4. s.row = r /\ s.out = outcome[t] /\ s.entries = <<>>
    BY Zenon DEF Untouched
  <1> QED BY <1>1, <1>2, <1>3, <1>4, ZenonT(30) DEF Good, r

\* What a tick writes for one task, enqueued or not.
LEMMA SettlementGood ==
    ASSUME Inv, NEW t \in Tasks, NEW P, NEW R, NEW delay \in RetryDelays, NEW seq \in Nat,
           t \in P => runtime[t].state = "scheduled" /\ runtime[t].runAt <= now,
           t \in R.deadlines => Live(t),
           t \in R.timeouts => Active(t),
           t \in R.leases => Active(t)
    PROVE  LET s == Settlement(t, P, R, delay, seq) IN
           /\ s.row \in RowType /\ s.out \in OutcomeType /\ s.entries \in Seq(HistoryType)
           /\ RowOK(def[t], s.row, now) /\ Home(def[t], s.row, s.out)
  <1> DEFINE s == Settlement(t, P, R, delay, seq)
  <1>1. CASE def[t] # NoDefinition
    <2>1. Good(t, s)
      BY <1>1, DeadlineSettlementGood, TimeoutSettlementGood, LeaseSettlementGood,
         PromotedGood, UntouchedGood, ActiveFacts, SMTT(30) DEF Settlement
    <2> QED BY <1>1, <2>1, ZenonT(30) DEF Good, Home
  <1>2. CASE def[t] = NoDefinition
    <2>1. runtime[t] = NoRow /\ NoRow.state = "none"
      BY <1>2, ZenonT(30) DEF Inv, Home, NoRow
    <2>2. s = Untouched(t)
      BY <2>1, ZenonT(30) DEF Settlement, Live, Active
    <2> HIDE DEF s
    <2>3. s.row = runtime[t] /\ s.out = outcome[t] /\ s.entries = <<>>
      BY <2>2, ZenonT(30) DEF Untouched
    <2>4. /\ RowOK(def[t], runtime[t], now) /\ Home(def[t], runtime[t], outcome[t])
          /\ runtime[t] \in RowType /\ outcome[t] \in OutcomeType /\ <<>> \in Seq(HistoryType)
      BY TypeFacts, SMTT(30) DEF Inv
    <2> QED BY <2>3, <2>4, ZenonT(30) DEF s
  <1> QED BY <1>1, <1>2, ZenonT(30)

LEMMA TickInv ==
    ASSUME Inv, NEW locked \in SUBSET Tasks, NEW failed, NEW delays \in [Tasks -> RetryDelays],
           Tick(locked, failed, delays)
    PROVE  Inv'
  <1> DEFINE P == IF failed = "promote" THEN {}
                  ELSE FirstRows(DuePromotions(locked), Column("runAt"), Limit)
             R == IF failed = "recover" THEN NoRecovery ELSE Recovery(locked)
             seq == [t \in Tasks |->
                  readySeq + 1 +
                  (IF t \in P THEN Rank(P, Column("runAt"), t)
                   ELSE Cardinality(P) +
                        (IF t \in R.timeouts THEN Rank(R.timeouts, Column("timeoutAt"), t)
                         ELSE Cardinality(R.timeouts) + Rank(R.leases, Column("expires"), t)))]
             settled == [t \in Tasks |-> Settlement(t, P, R, delays[t], seq[t])]
  <1>1. /\ runtime' = [t \in Tasks |-> settled[t].row]
        /\ outcome' = [t \in Tasks |-> settled[t].out]
        /\ history' = [t \in Tasks |-> history[t] \o settled[t].entries]
        /\ readySeq' = readySeq + Cardinality(P \union R.timeouts \union R.leases)
        /\ scanDue' = (scanDue /\ ~R.spaced)
        /\ UNCHANGED <<now, def, waits, issued, fenceSeq, paused>>
    BY ZenonT(30) DEF Tick
  <1>2. P \in SUBSET Tasks /\ \A t \in P : runtime[t].state = "scheduled" /\ runtime[t].runAt <= now
    BY ZenonT(30) DEF FirstRows, DuePromotions
  <1>3. R = Recovery(locked) \/ R = NoRecovery
    BY ZenonT(30)
  <1> HIDE DEF P, R
  <1>4. /\ R.deadlines \in SUBSET Tasks /\ R.timeouts \in SUBSET Tasks /\ R.leases \in SUBSET Tasks
        /\ \A t \in R.deadlines : Live(t)
        /\ \A t \in R.timeouts : Active(t) 
        /\ \A t \in R.leases : Active(t) 
    BY <1>3, RecoveryFacts, ZenonT(30)
  <1>5. ASSUME NEW t \in Tasks PROVE seq[t] \in Nat
    <2>1. /\ Rank(P, Column("runAt"), t) \in Nat /\ Cardinality(P) \in Nat
          /\ Rank(R.timeouts, Column("timeoutAt"), t) \in Nat /\ Cardinality(R.timeouts) \in Nat
          /\ Rank(R.leases, Column("expires"), t) \in Nat
      BY <1>2, <1>4, RankType, FiniteAssumption, Zenon
    <2> QED BY <2>1, ClockFacts, SMTT(30)
  <1> HIDE DEF seq
  <1>6. ASSUME NEW t \in Tasks
        PROVE  LET s == settled[t] IN
               /\ s.row \in RowType /\ s.out \in OutcomeType /\ s.entries \in Seq(HistoryType)
               /\ RowOK(def[t], s.row, now) /\ Home(def[t], s.row, s.out)
    <2>1. settled[t] = Settlement(t, P, R, delays[t], seq[t]) /\ delays[t] \in RetryDelays
      BY Zenon
    <2> QED BY <1>2, <1>4, <1>5, <2>1, SettlementGood, ZenonT(30)
  <1> HIDE DEF settled
  <1>7. readySeq' \in Nat
    <2>1. P \union R.timeouts \union R.leases \in SUBSET Tasks
      BY <1>2, <1>4, Zenon
    <2> HIDE DEF P, R
    <2> QED BY <1>1, <2>1, FiniteAssumption, ClockFacts, SMTT(30)
  <1>8. history' \in [Tasks -> Seq(HistoryType)]
    <2>1. ASSUME NEW t \in Tasks PROVE history[t] \o settled[t].entries \in Seq(HistoryType)
      <3>1. history[t] \in Seq(HistoryType) /\ settled[t].entries \in Seq(HistoryType)
        BY <1>6, Zenon DEF Inv, TypeOK
      <3> QED BY <3>1, SeqConcat, Zenon
    <2> QED BY <1>1, <2>1, Zenon
  <1>9. runtime' \in [Tasks -> RowType] /\ outcome' \in [Tasks -> OutcomeType] /\ scanDue' \in BOOLEAN
    BY <1>1, <1>6, Zenon
  <1>10. TypeOK'
    BY <1>1, <1>7, <1>8, <1>9, ZenonT(30) DEF Inv, TypeOK
  <1>11. ASSUME NEW t \in Tasks
         PROVE  RowOK(def'[t], runtime'[t], now') /\ Home(def'[t], runtime'[t], outcome'[t])
    <2>1. runtime'[t] = settled[t].row /\ outcome'[t] = settled[t].out /\ def' = def /\ now' = now
      BY <1>1, ZenonT(30)
    <2> QED BY <2>1, <1>6, ZenonT(30)
  <1> QED BY <1>10, <1>11, ZenonT(30) DEF Inv

\* Steps that touch no task.
LEMMA OutsideInv ==
    ASSUME Inv,
           \/ \E p \in PauseCalls : SetQueuePaused(p)
           \/ ScanBecomesDue \/ Advance \/ UNCHANGED vars
    PROVE  Inv'
  <1>1. UNCHANGED <<def, runtime, outcome, history, waits, issued, fenceSeq, readySeq>>
    BY ZenonT(30) DEF SetQueuePaused, ScanBecomesDue, Advance, vars
  <1>2. /\ paused' \in BOOLEAN /\ scanDue' \in BOOLEAN
    BY ConstantsAssumption, ZenonT(30)
       DEF ConstantsAssumption, Inv, TypeOK, SetQueuePaused, ScanBecomesDue, Advance, vars
  <1>3. now \in Nat /\ now' \in Nat /\ now <= now' /\ now' \in 0..Horizon
    BY ConstantsAssumption, SMTT(30)
       DEF ConstantsAssumption, Inv, TypeOK, SetQueuePaused, ScanBecomesDue, Advance, vars
  <1>4. TypeOK'
    BY <1>1, <1>2, <1>3, Zenon DEF Inv, TypeOK
  <1>5. ASSUME NEW t \in Tasks
        PROVE  RowOK(def[t], runtime[t], now') /\ Home(def[t], runtime[t], outcome[t])
    BY <1>3, TypeFacts, RowOKLater, Zenon DEF Inv
  <1> QED BY <1>1, <1>4, <1>5, ZenonT(30) DEF Inv

LEMMA WorkerCallInv ==
    ASSUME Inv, WorkerCall
    PROVE  Inv'
  <1>1. CASE \E w \in Workers, locked \in SUBSET Tasks :
                HeartbeatMany(w, {c \in issued : c[1] = w}, locked)
    BY <1>1, HeartbeatManyInv, Zenon
  <1>2. ASSUME NEW c \in issued, HolderCall(c[1], c[2], c[3])
        PROVE  Inv'
    <2> DEFINE w == c[1]
               t == c[2]
               f == c[3]
    <2>1. w \in Workers /\ t \in Tasks /\ f \in Nat
      BY ZenonT(30) DEF Inv, TypeOK
    <2> HIDE DEF w, t, f
    <2>2. CASE Heartbeat(w, t, f)
      BY <2>1, <2>2, HeartbeatInv, ZenonT(30)
    <2>3. CASE Complete(w, t, f) \/ AcknowledgeCancel(w, t, f)
      BY <2>1, <2>3, CompleteInv, ZenonT(30)
    <2>4. CASE \E delay \in RetryDelays, retry \in BOOLEAN : Fail(w, t, f, retry, delay)
      BY <2>1, <2>4, FailInv, ZenonT(30)
    <2>5. CASE \E delay \in RetryDelays, late \in 0..Slip : ReleaseOwned(w, t, f, delay, late)
      <3>1. 0..Slip \subseteq Nat
        BY ConstantsAssumption DEF ConstantsAssumption
      <3> QED BY <2>1, <2>5, <3>1, ReleaseOwnedInv, ZenonT(30)
    <2>6. CASE \E delay \in RetryDelays : ExpireOwned(w, t, f, delay)
      BY <2>1, <2>6, ExpireOwnedInv, Zenon
    <2>7. CASE \E n \in WaitNames, span \in WaitSpans \union {0} : ScheduleWait(w, t, f, n, span)
      BY <2>1, <2>7, ScheduleWaitInv, Zenon
    <2>8. CASE \E n \in WaitNames, span \in WaitSpans :
                  WaitForSignal(w, t, f, n, span) \/ WaitForHuman(w, t, f, n, span)
      BY <2>1, <2>8, WaitForInv, Zenon DEF WaitForSignal, WaitForHuman, WaitKinds
    <2> QED BY <1>2, <2>2, <2>3, <2>4, <2>5, <2>6, <2>7, <2>8, Zenon DEF HolderCall, w, t, f
  <1> QED BY <1>1, <1>2, Zenon DEF WorkerCall

LEMMA NextInv ==
    ASSUME Inv, [Next]_vars
    PROVE  Inv'
  <1>1. CASE WorkerCall
    BY <1>1, WorkerCallInv, Zenon
  <1>2. CASE OperatorCall
    <2>1. ASSUME NEW t \in Tasks, NEW d \in Definitions, NEW delay \in StartDelays,
                 Enqueue(t, d, delay)
          PROVE  Inv'
      BY <2>1, EnqueueInv, Zenon
    <2>2. ASSUME NEW t \in Tasks, Cancel(t)
          PROVE  Inv'
      BY <2>2, CancelInv, Zenon
    <2>3. ASSUME NEW t \in Tasks, RunTaskNow(t)
          PROVE  Inv'
      BY <2>3, RunTaskNowInv, Zenon
    <2>4. ASSUME NEW t \in Tasks, NEW n \in WaitNames, NEW payload \in Payloads,
                 SendSignal(t, n, payload) \/ CompleteHumanWait(t, n, payload)
          PROVE  Inv'
      BY <2>4, DeliverInv, ZenonT(30) DEF SendSignal, CompleteHumanWait
    <2>5. CASE \E p \in PauseCalls : SetQueuePaused(p)
      BY <2>5, OutsideInv, ZenonT(30)
    <2> QED BY <1>2, <2>1, <2>2, <2>3, <2>4, <2>5, Zenon DEF OperatorCall
  <1>3. CASE Claim
    BY <1>3, ClaimOneInv, ZenonT(30) DEF Claim
  <1>4. CASE Maintenance
    BY <1>4, TickInv, ZenonT(30) DEF Maintenance
  <1>5. CASE ScanBecomesDue \/ Advance \/ UNCHANGED vars
    BY <1>5, OutsideInv, ZenonT(30)
  <1> QED BY <1>1, <1>2, <1>3, <1>4, <1>5, Zenon DEF Next

\* Inv holds in every reachable state of the model.
THEOREM Invariance == Spec => []Inv
  <1>1. Init => Inv
    BY InitInv, ZenonT(30)
  <1>2. Inv /\ [Next]_vars => Inv'
    BY NextInv, ZenonT(30)
  <1> QED BY <1>1, <1>2, PTL DEF Spec

\* No call and no tick writes a value of the wrong type, whatever the order.
THEOREM TypeCorrect == Spec => []TypeOK
  <1>1. Inv => TypeOK
    BY ZenonT(30) DEF Inv
  <1> QED BY <1>1, Invariance, PTL

\* enqueue, settlement and cancellation keep each accepted task in exactly one
\* of task_runtime and task_outcome.
THEOREM OneHomeAlways == Spec => []OneHome
  <1>1. Inv => OneHome
    <2> SUFFICES ASSUME Inv, NEW t \in Tasks
                 PROVE  /\ def[t] = NoDefinition => ~Live(t) /\ outcome[t] = NoOutcome
                        /\ def[t] # NoDefinition => (Live(t) <=> outcome[t].state = "none")
      BY Zenon DEF OneHome
    <2>1. Home(def[t], runtime[t], outcome[t]) /\ NoRow.state = "none"
      BY Zenon DEF Inv, NoRow
    <2> QED BY <2>1, Zenon DEF Home, Live
  <1> QED BY <1>1, Invariance, PTL

\* A wait for a signal or a decision hands the deadline of the task back.
THEOREM DeadlineRestoredAlways == Spec => []DeadlineRestored
  <1>1. Inv => DeadlineRestored
    <2> SUFFICES ASSUME Inv, NEW t \in Tasks, Live(t)
                 PROVE  /\ runtime[t].deadline <= def[t].deadline
                        /\ runtime[t].runAt # Never => runtime[t].deadline = def[t].deadline
      BY ZenonT(30) DEF DeadlineRestored
    <2> QED BY TypeFacts, ZenonT(30) DEF RowOK, Live
  <1> QED BY <1>1, Invariance, PTL

-----------------------------------------------------------------------------
(* What a step leaves alone *)

\* A step leaves the row, the outcome and the ledger of task t as they are.
Kept(t) == runtime'[t] = runtime[t] /\ outcome'[t] = outcome[t] /\ history'[t] = history[t]

\* A settlement of u leaves every other task alone.
LEMMA ApplyKeeps ==
    ASSUME Inv, NEW t \in Tasks, NEW u \in Tasks, t # u, NEW s, Apply(u, s)
    PROVE  Kept(t)
  <1>1. /\ runtime \in [Tasks -> RowType] /\ outcome \in [Tasks -> OutcomeType]
        /\ history \in [Tasks -> Seq(HistoryType)]
    BY ZenonT(30) DEF Inv, TypeOK
  <1>2. /\ runtime' = [runtime EXCEPT ![u] = s.row] /\ outcome' = [outcome EXCEPT ![u] = s.out]
        /\ history' = [history EXCEPT ![u] = history[u] \o s.entries]
    BY ZenonT(30) DEF Apply
  <1>3. runtime'[t] = runtime[t]
    BY <1>1, <1>2, ZenonT(30)
  <1>4. outcome'[t] = outcome[t]
    BY <1>1, <1>2, ZenonT(30)
  <1>5. history'[t] = history[t]
    BY <1>1, <1>2, ZenonT(30)
  <1> QED BY <1>3, <1>4, <1>5, ZenonT(30) DEF Kept

\* What a tick does to one task.
LEMMA TickSettles ==
    ASSUME Inv, NEW locked \in SUBSET Tasks, NEW failed, NEW delays \in [Tasks -> RetryDelays],
           Tick(locked, failed, delays), NEW t \in Tasks
    PROVE  \E P, R, n :
              /\ t \in P => runtime[t].state = "scheduled" /\ runtime[t].runAt <= now
              /\ R = Recovery(locked) \/ R = NoRecovery
              /\ runtime'[t] = Settlement(t, P, R, delays[t], n).row
              /\ outcome'[t] = Settlement(t, P, R, delays[t], n).out
              /\ history'[t] = history[t] \o Settlement(t, P, R, delays[t], n).entries
  <1> DEFINE P == IF failed = "promote" THEN {}
                  ELSE FirstRows(DuePromotions(locked), Column("runAt"), Limit)
             R == IF failed = "recover" THEN NoRecovery ELSE Recovery(locked)
             seq == [u \in Tasks |->
                  readySeq + 1 +
                  (IF u \in P THEN Rank(P, Column("runAt"), u)
                   ELSE Cardinality(P) +
                        (IF u \in R.timeouts THEN Rank(R.timeouts, Column("timeoutAt"), u)
                         ELSE Cardinality(R.timeouts) + Rank(R.leases, Column("expires"), u)))]
             settled == [u \in Tasks |-> Settlement(u, P, R, delays[u], seq[u])]
  <1>1. /\ runtime' = [u \in Tasks |-> settled[u].row]
        /\ outcome' = [u \in Tasks |-> settled[u].out]
        /\ history' = [u \in Tasks |-> history[u] \o settled[u].entries]
    BY ZenonT(30) DEF Tick
  <1>2. t \in P => runtime[t].state = "scheduled" /\ runtime[t].runAt <= now
    BY ZenonT(30) DEF FirstRows, DuePromotions
  <1>3. R = Recovery(locked) \/ R = NoRecovery
    BY ZenonT(30)
  <1> HIDE DEF P, R, seq
  <1>4. settled[t] = Settlement(t, P, R, delays[t], seq[t])
    BY ZenonT(30)
  <1> HIDE DEF settled
  <1>5. /\ runtime'[t] = settled[t].row /\ outcome'[t] = settled[t].out
        /\ history'[t] = history[t] \o settled[t].entries
    BY <1>1, ZenonT(30)
  <1>6. runtime'[t] = Settlement(t, P, R, delays[t], seq[t]).row
    BY <1>4, <1>5, ZenonT(30)
  <1>7. outcome'[t] = Settlement(t, P, R, delays[t], seq[t]).out
    BY <1>4, <1>5, ZenonT(30)
  <1>8. history'[t] = history[t] \o Settlement(t, P, R, delays[t], seq[t]).entries
    BY <1>4, <1>5, ZenonT(30)
  <1> HIDE DEF P, R, seq
  <1> QED BY <1>2, <1>3, <1>6, <1>7, <1>8, ZenonT(30)

-----------------------------------------------------------------------------
(* Facts about rows and steps that several proofs use *)

\* A canceled row is owned: only an active task is asked to stop.
LEMMA CancelActive ==
    ASSUME Inv, NEW t \in Tasks, runtime[t].cancel
    PROVE  Active(t) /\ def[t] # NoDefinition
  <1>1. runtime[t] # NoRow
    BY DEF NoRow
  <1>2. runtime[t].state \in {"none", "scheduled", "ready", "active"}
    BY TypeFacts, ZenonT(30) DEF RowType
  <1>3. Active(t)
    BY <1>1, <1>2, TypeFacts, ZenonT(30) DEF RowOK, Active
  <1> QED BY <1>3, ActiveFacts, ZenonT(30)

\* Only a claim issues a fencing token.
LEMMA IssuedStep ==
    ASSUME [Next]_vars, ~Claim
    PROVE  issued' = issued /\ fenceSeq' = fenceSeq
  <1>1. CASE WorkerCall
    <2>1. ASSUME NEW w, NEW t, NEW f, HolderCall(w, t, f)
          PROVE  issued' = issued /\ fenceSeq' = fenceSeq
      BY <2>1, ZenonT(30) DEF HolderCall, Heartbeat, Complete, AcknowledgeCancel, Fail, ReleaseOwned,
                  ExpireOwned, ScheduleWait, WaitForSignal, WaitForHuman, WaitFor
    <2>2. ASSUME NEW w, NEW beats, NEW locked, HeartbeatMany(w, beats, locked)
          PROVE  issued' = issued /\ fenceSeq' = fenceSeq
      BY <2>2, ZenonT(30) DEF HeartbeatMany
    <2>3. CASE \E w \in Workers, locked \in SUBSET Tasks :
                  HeartbeatMany(w, {c \in issued : c[1] = w}, locked)
      BY <2>2, <2>3, ZenonT(30)
    <2>4. CASE \E c \in issued : HolderCall(c[1], c[2], c[3])
      BY <2>1, <2>4, ZenonT(30)
    <2> QED BY <1>1, <2>3, <2>4, ZenonT(30) DEF WorkerCall
  <1>2. CASE OperatorCall
    <2>1. ASSUME NEW t \in Tasks, NEW d, NEW delay, Enqueue(t, d, delay)
          PROVE  issued' = issued /\ fenceSeq' = fenceSeq
      BY <2>1, ZenonT(30) DEF Enqueue
    <2>2. ASSUME NEW t \in Tasks, Cancel(t) \/ RunTaskNow(t)
          PROVE  issued' = issued /\ fenceSeq' = fenceSeq
      BY <2>2, ZenonT(30) DEF Cancel, RunTaskNow
    <2>3. ASSUME NEW t \in Tasks, NEW n, NEW payload,
                 SendSignal(t, n, payload) \/ CompleteHumanWait(t, n, payload)
          PROVE  issued' = issued /\ fenceSeq' = fenceSeq
      BY <2>3, ZenonT(30) DEF SendSignal, CompleteHumanWait, Deliver
    <2>4. CASE \E p \in PauseCalls : SetQueuePaused(p)
      BY <2>4, ZenonT(30) DEF SetQueuePaused
    <2> QED BY <1>2, <2>1, <2>2, <2>3, <2>4, ZenonT(30) DEF OperatorCall
  <1>3. CASE Maintenance
    <2>1. ASSUME NEW locked, NEW failed, NEW delays, Tick(locked, failed, delays)
          PROVE  issued' = issued /\ fenceSeq' = fenceSeq
      BY <2>1, ZenonT(30) DEF Tick
    <2> QED BY <1>3, <2>1, ZenonT(30) DEF Maintenance
  <1>4. CASE ScanBecomesDue \/ Advance \/ UNCHANGED vars
    BY <1>4, Zenon DEF ScanBecomesDue, Advance, vars
  <1> QED BY <1>1, <1>2, <1>3, <1>4, ZenonT(30) DEF Next
=============================================================================
