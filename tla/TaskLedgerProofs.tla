-------------------------- MODULE TaskLedgerProofs --------------------------
(***************************************************************************)
(* The attempt ledger, outcomes and durable waits of TaskLifecycle.        *)
(*                                                                         *)
(* An attempt that is suspended has no fence of its own; when a deadline   *)
(* or a cancellation closes it, the fence in the ledger comes from a wait  *)
(* row.  So the ledger depends on the wait rows, and LedgerInv relates the *)
(* three tables: the fences of the current attempt, on the row or on its   *)
(* waits, exceed those of the closed ones, and a suspended row has a wait  *)
(* row to be charged to.  One lemma per operation shows that it is kept;   *)
(* the theorems say what it means for a task.                              *)
(***************************************************************************)
EXTENDS TaskLifecycleProofs

\* A signal or a human wait that nobody answered.
Open(p) == p.kind # "timer" /\ p.answer = {}

\* Attempts are numbered without a gap: d the definition, r the row, o the
\* outcome and h the closed attempts of a task.
Numbered(d, r, o, h) ==
    /\ r.state # "none" => Len(h) = r.attempt - 1 /\ r.attempt <= d.max
    /\ o.state # "none" => Len(h) = IF o.fence = 0 THEN o.attempt - 1 ELSE o.attempt
    /\ \A i \in 1..Len(h) : h[i].attempt = i

\* Fence f is newer than every closed attempt.
Newer(f, h) == \A i \in 1..Len(h) : h[i].fence < f

\* Fences grow along the ledger, and those of the open attempt exceed them; W
\* are the wait rows and n is the last fence that was drawn.
Fenced(r, o, h, W, n) ==
    /\ \A i \in 1..Len(h) : h[i].fence <= n
    /\ \A i \in 2..Len(h) : h[i - 1].fence < h[i].fence
    /\ o.fence # 0 => Len(h) > 0 /\ h[Len(h)].fence = o.fence
    /\ r.state = "active" =>
          Newer(r.fence, h) /\ r.fence <= n /\ \A p \in W : p.fence <= r.fence
    /\ \A p \in W : 0 < p.fence /\ p.fence <= n
    /\ r.state # "none" =>
          \A p \in W : /\ p.attempt <= r.attempt
                       /\ p.attempt = r.attempt => Newer(p.fence, h)

\* A row on a wait has a wait row of its attempt with the largest fence, and
\* an open wait has the row to itself until it is answered.
Waiting(r, W) ==
    /\ (r.state = "scheduled" /\ r.wait # NoName) =>
          \E p \in W : /\ p.attempt = r.attempt
                       /\ \A q \in W : q.attempt = r.attempt => q.fence <= p.fence
    /\ r.state # "none" =>
          \A p \in W : Open(p) =>
              /\ r.state = "scheduled" /\ r.runAt = Never
              /\ r.wait = p.name /\ r.attempt = p.attempt
              /\ \A q \in W : Open(q) => q = p

\* A success is owned and in time, and only a deadline fails a task that no
\* worker is charged for.
Decided(d, o) ==
    /\ o.state = "none" => o.fence = 0
    /\ o.state = "succeeded" => o.fence > 0 /\ o.at < d.deadline
    /\ (o.state = "failed" /\ o.fence = 0) => d.deadline <= o.at

Ledger(d, r, o, h, W, n) ==
    /\ Numbered(d, r, o, h) /\ Fenced(r, o, h, W, n)
    /\ Waiting(r, W) /\ Decided(d, o)

LedgerInv ==
    \A t \in Tasks :
        /\ def[t] = NoDefinition => history[t] = <<>> /\ waits[t] = {}
        /\ Ledger(def[t], runtime[t], outcome[t], history[t], waits[t], fenceSeq)

\* A settlement after which the ledger of task t is still in order.
Fits(t, s) ==
    Ledger(def[t], s.row, s.out, history[t] \o s.entries, waits[t], fenceSeq)

-----------------------------------------------------------------------------
(* Settlements *)

LEMMA LedgerFacts ==
    ASSUME Inv, LedgerInv, NEW t \in Tasks
    PROVE  /\ Numbered(def[t], runtime[t], outcome[t], history[t])
           /\ Fenced(runtime[t], outcome[t], history[t], waits[t], fenceSeq)
           /\ Waiting(runtime[t], waits[t]) /\ Decided(def[t], outcome[t])
           /\ history[t] \in Seq(HistoryType) /\ Len(history[t]) \in Nat
           /\ waits[t] \subseteq WaitType /\ fenceSeq \in Nat
  BY SeqFacts, ZenonT(30) DEF LedgerInv, Ledger, Inv, TypeOK

LEMMA UntouchedFits ==
    ASSUME Inv, LedgerInv, NEW t \in Tasks
    PROVE  Fits(t, Untouched(t))
  <1>1. history[t] \o <<>> = history[t]
    BY LedgerFacts, SeqFacts, ZenonT(30)
  <1>2. /\ Untouched(t).row = runtime[t] /\ Untouched(t).out = outcome[t]
        /\ Untouched(t).entries = <<>>
    BY Zenon DEF Untouched
  <1> QED BY <1>1, <1>2, LedgerFacts, ZenonT(30) DEF Fits, Ledger

\* One more entry at the end of the ledger.
LEMMA AppendedEntry ==
    ASSUME NEW h \in Seq(HistoryType), NEW e \in HistoryType
    PROVE  /\ Len(h \o <<e>>) = Len(h) + 1 /\ Len(h) \in Nat
           /\ \A i \in 1..Len(h) : (h \o <<e>>)[i] = h[i]
           /\ (h \o <<e>>)[Len(h) + 1] = e
  OBVIOUS

\* The ledger grows by an entry whose fence is the newest.
LEMMA LongerLedger ==
    ASSUME Inv, LedgerInv, NEW t \in Tasks, Live(t), NEW e \in HistoryType,
           e.attempt = runtime[t].attempt, Newer(e.fence, history[t]), e.fence <= fenceSeq
    PROVE  LET h == history[t] \o <<e>> IN
           /\ Len(h) = runtime[t].attempt /\ Len(h) \in Nat /\ Len(h) > 0
           /\ \A i \in 1..Len(h) : h[i].attempt = i /\ h[i].fence <= fenceSeq
           /\ \A i \in 2..Len(h) : h[i - 1].fence < h[i].fence
           /\ h[Len(h)] = e
           /\ \A i \in 1..Len(h) : h[i].fence <= e.fence
  <1> DEFINE g == history[t]
             h == g \o <<e>>
             k == Len(g)
  <1>1. g \in Seq(HistoryType) /\ k \in Nat
    BY LedgerFacts, ZenonT(30)
  <1>2. /\ Len(h) = k + 1
        /\ \A i \in 1..k : h[i] = g[i]
        /\ h[k + 1] = e
    BY <1>1, AppendedEntry, ZenonT(30)
  <1>3. k + 1 = runtime[t].attempt
    <2>1. Len(g) = runtime[t].attempt - 1
      BY LedgerFacts, ZenonT(30) DEF Numbered, Live
    <2>2. runtime[t].attempt \in Nat
      BY TypeFacts, ZenonT(30) DEF RowType
    <2> QED BY <1>1, <2>1, <2>2
  <1>4. /\ \A i \in 1..k : g[i].attempt = i /\ g[i].fence <= fenceSeq /\ g[i].fence < e.fence
        /\ \A i \in 2..k : g[i - 1].fence < g[i].fence
    BY LedgerFacts, ZenonT(30) DEF Numbered, Fenced, Newer
  <1>5. \A i \in 1..k : g[i].fence \in Nat
    <2>1. \A i \in 1..k : g[i] \in HistoryType
      BY <1>1, SeqElement, ZenonT(30)
    <2> QED BY <2>1, ZenonT(30) DEF HistoryType
  <1>6. e.fence \in Nat
    BY Zenon DEF HistoryType
  <1> HIDE DEF g, h, k
  <1>7. ASSUME NEW i \in 1..Len(h)
        PROVE  h[i].attempt = i /\ h[i].fence <= fenceSeq /\ h[i].fence <= e.fence
    BY <1>1, <1>2, <1>3, <1>4, <1>5, <1>6
  <1>8. ASSUME NEW i \in 2..Len(h)
        PROVE  h[i - 1].fence < h[i].fence
    BY <1>1, <1>2, <1>4, <1>5, <1>6
  <1>9. Len(h) = runtime[t].attempt /\ Len(h) \in Nat /\ Len(h) > 0 /\ h[Len(h)] = e
    BY <1>1, <1>2, <1>3
  <1> QED BY <1>7, <1>8, <1>9, ZenonT(30) DEF g, h

\* A close that charges the newest fence.
LEMMA ClosedFits ==
    ASSUME Inv, LedgerInv, NEW t \in Tasks, Live(t),
           NEW state \in {"succeeded", "failed", "canceled"},
           NEW w \in Workers, NEW f \in Nat, NEW verdict \in Verdicts,
           f > 0, f <= fenceSeq, Newer(f, history[t]),
           state = "succeeded" => now < def[t].deadline
    PROVE  Fits(t, Closed(t, state, w, f, verdict))
  <1> DEFINE s == Closed(t, state, w, f, verdict)
             e == Entry(t, w, f, verdict)
             o == [state |-> state, attempt |-> runtime[t].attempt, fence |-> f, at |-> now]
             h == history[t] \o <<e>>
  <1>1. s.row = NoRow /\ s.out = o /\ s.entries = <<e>>
    BY ZenonT(30) DEF Closed
  <1>2. e \in HistoryType /\ e.attempt = runtime[t].attempt /\ e.fence = f
    <2>1. runtime[t].attempt \in Nat
      BY TypeFacts, ZenonT(30) DEF RowType
    <2> QED BY <2>1, ZenonT(30) DEF Entry, HistoryType
  <1>3. o.state = state /\ o.fence = f /\ o.at = now /\ o.attempt = runtime[t].attempt
    BY Zenon
  <1>4. NoRow.state = "none"
    BY Zenon DEF NoRow
  <1> HIDE DEF e, o, s
  <1>5. /\ Len(h) = runtime[t].attempt /\ Len(h) \in Nat /\ Len(h) > 0
        /\ \A i \in 1..Len(h) : h[i].attempt = i /\ h[i].fence <= fenceSeq
        /\ \A i \in 2..Len(h) : h[i - 1].fence < h[i].fence
        /\ h[Len(h)] = e
    BY <1>2, LongerLedger, ZenonT(30)
  <1> HIDE DEF h
  <1>6. Numbered(def[t], NoRow, o, h)
    BY <1>3, <1>4, <1>5, SMTT(30) DEF Numbered
  <1>7. Fenced(NoRow, o, h, waits[t], fenceSeq)
    <2>1. \A p \in waits[t] : 0 < p.fence /\ p.fence <= fenceSeq
      BY LedgerFacts, ZenonT(30) DEF Fenced
    <2> QED BY <1>2, <1>3, <1>4, <1>5, <2>1, ZenonT(30) DEF Fenced
  <1>8. Waiting(NoRow, waits[t])
    BY <1>4, Zenon DEF Waiting
  <1>9. Decided(def[t], o)
    BY <1>3 DEF Decided
  <1> QED BY <1>1, <1>6, <1>7, <1>8, <1>9, ZenonT(30) DEF Fits, Ledger, h, s

\* The fence of an owned row is the newest of its task.
LEMMA OwnerNewest ==
    ASSUME Inv, LedgerInv, NEW t \in Tasks, Active(t)
    PROVE  /\ runtime[t].fence \in Nat /\ runtime[t].fence > 0
           /\ runtime[t].fence <= fenceSeq /\ Newer(runtime[t].fence, history[t])
           /\ runtime[t].worker \in Workers /\ Live(t)
           /\ \A p \in waits[t] : p.fence <= runtime[t].fence /\ ~Open(p)
  BY ActiveFacts, TypeFacts, LedgerFacts, ZenonT(30) DEF Active, RowOK, Fenced, Waiting, Live

LEMMA ClosedByOwnerFits ==
    ASSUME Inv, LedgerInv, NEW t \in Tasks, Active(t),
           NEW state \in {"failed", "canceled"}, NEW verdict \in Verdicts
    PROVE  Fits(t, ClosedByOwner(t, state, verdict))
  BY OwnerNewest, ClosedFits, ZenonT(30) DEF ClosedByOwner

LEMMA ClosedUnattributedFits ==
    ASSUME Inv, LedgerInv, NEW t \in Tasks, Live(t), NEW state \in {"failed", "canceled"},
           state = "failed" => def[t].deadline <= now
    PROVE  Fits(t, ClosedUnattributed(t, state))
  <1> DEFINE s == ClosedUnattributed(t, state)
             o == [state |-> state, attempt |-> runtime[t].attempt, fence |-> 0, at |-> now]
  <1>1. s.row = NoRow /\ s.out = o /\ s.entries = <<>>
    BY ZenonT(30) DEF ClosedUnattributed
  <1>2. o.state = state /\ o.fence = 0 /\ o.at = now /\ o.attempt = runtime[t].attempt
    BY Zenon
  <1>3. NoRow.state = "none"
    BY Zenon DEF NoRow
  <1>4. history[t] \o <<>> = history[t]
    BY LedgerFacts, SeqFacts, ZenonT(30)
  <1> HIDE DEF s, o
  <1>5. Numbered(def[t], NoRow, o, history[t])
    BY <1>2, <1>3, LedgerFacts, ZenonT(30) DEF Numbered, Live
  <1>6. Fenced(NoRow, o, history[t], waits[t], fenceSeq)
    BY <1>2, <1>3, LedgerFacts, ZenonT(30) DEF Fenced
  <1>7. Waiting(NoRow, waits[t]) /\ Decided(def[t], o)
    BY <1>2, <1>3, ZenonT(30) DEF Waiting, Decided
  <1> QED BY <1>1, <1>4, <1>5, <1>6, <1>7, ZenonT(30) DEF Fits, Ledger, s

LEMMA RetriedFits ==
    ASSUME Inv, LedgerInv, NEW t \in Tasks, Active(t), runtime[t].attempt < def[t].max,
           NEW delay \in RetryDelays, NEW seq, NEW verdict \in Verdicts
    PROVE  Fits(t, Retried(t, delay, seq, verdict))
  <1> DEFINE s == Retried(t, delay, seq, verdict)
             e == Entry(t, runtime[t].worker, runtime[t].fence, verdict)
             h == history[t] \o <<e>>
             r == s.row
  <1>1. s.out = outcome[t] /\ s.entries = <<e>>
    BY Zenon DEF Retried
  <1>2. /\ r.state \in {"ready", "scheduled"} /\ r.attempt = runtime[t].attempt + 1
        /\ r.wait = NoName
    BY ZenonT(30) DEF Retried, NoRow
  <1>3. /\ e \in HistoryType /\ e.attempt = runtime[t].attempt /\ e.fence = runtime[t].fence
        /\ runtime[t].attempt \in Nat
    <2>1. runtime[t].attempt \in Nat
      BY TypeFacts, ZenonT(30) DEF RowType
    <2> QED BY <2>1, OwnerNewest, ZenonT(30) DEF Entry, HistoryType
  <1>4. outcome[t].state = "none"
    BY ActiveFacts, ZenonT(30) DEF Inv, Home, Live
  <1> HIDE DEF e, s, r
  <1>5. /\ Len(h) = runtime[t].attempt /\ Len(h) \in Nat /\ Len(h) > 0
        /\ \A i \in 1..Len(h) : h[i].attempt = i /\ h[i].fence <= fenceSeq
        /\ \A i \in 2..Len(h) : h[i - 1].fence < h[i].fence
        /\ h[Len(h)] = e
    BY <1>3, OwnerNewest, LongerLedger, ZenonT(30)
  <1> HIDE DEF h
  <1>6. Numbered(def[t], r, outcome[t], h)
    <2>1. def[t].max \in Nat
      BY DefinitionFacts, Zenon
    <2> QED BY <1>2, <1>3, <1>4, <1>5, <2>1, SMTT(30) DEF Numbered
  <1>7. \A p \in waits[t] : p.attempt <= runtime[t].attempt /\ p.attempt \in Nat
    BY OwnerNewest, LedgerFacts, Zenon DEF Fenced, Live, WaitType
  <1>8. Fenced(r, outcome[t], h, waits[t], fenceSeq)
    <2>1. outcome[t].fence = 0
      BY <1>4, LedgerFacts, ZenonT(30) DEF Decided
    <2>2. \A p \in waits[t] : p.attempt <= r.attempt /\ p.attempt # r.attempt
      BY <1>2, <1>3, <1>7, SMTT(30)
    <2>3. \A p \in waits[t] : 0 < p.fence /\ p.fence <= fenceSeq
      BY LedgerFacts, ZenonT(30) DEF Fenced
    <2> QED BY <1>2, <1>5, <2>1, <2>2, <2>3, ZenonT(30) DEF Fenced
  <1>9. Waiting(r, waits[t])
    BY <1>2, OwnerNewest, ZenonT(30) DEF Waiting
  <1> QED BY <1>1, <1>6, <1>8, <1>9, LedgerFacts, ZenonT(30) DEF Fits, Ledger, h, r, s

LEMMA RetriedOrFailedFits ==
    ASSUME Inv, LedgerInv, NEW t \in Tasks, Active(t), NEW delay \in RetryDelays,
           NEW seq, NEW verdict \in Verdicts
    PROVE  Fits(t, RetriedOrFailed(t, delay, seq, verdict))
  BY RetriedFits, ClosedByOwnerFits, ZenonT(30) DEF RetriedOrFailed

\* A row that no worker owns is charged to its latest wait, if it started.
LEMMA ClosedInactiveFits ==
    ASSUME Inv, LedgerInv, NEW t \in Tasks, Live(t), ~Active(t),
           NEW state \in {"failed", "canceled"}, NEW verdict \in Verdicts,
           state = "failed" => PastDeadline(t)
    PROVE  Fits(t, ClosedInactive(t, state, verdict))
  <1>1. CASE runtime[t].started /\ Provenance(t) # {}
    <2> DEFINE p == CHOOSE q \in Provenance(t) : TRUE
    <2>1. p \in waits[t] /\ p.attempt = runtime[t].attempt
      BY <1>1, ZenonT(30) DEF Provenance
    <2> HIDE DEF p
    <2>2. p.worker \in Workers /\ p.fence \in Nat
      BY <2>1, LedgerFacts, ZenonT(30) DEF WaitType
    <2>3. p.fence > 0 /\ p.fence <= fenceSeq /\ Newer(p.fence, history[t])
      BY <2>1, <2>2, LedgerFacts, ZenonT(30) DEF Fenced, Live
    <2>4. Fits(t, Closed(t, state, p.worker, p.fence, verdict))
      BY <2>2, <2>3, ClosedFits, ZenonT(30)
    <2> QED BY <1>1, <2>4, ZenonT(30) DEF ClosedInactive, p
  <1>2. CASE ~(runtime[t].started /\ Provenance(t) # {})
    <2>1. ~runtime[t].started \/ Provenance(t) = {}
      BY <1>2, ZenonT(30)
    <2>2. ~(runtime[t].state = "scheduled" /\ runtime[t].wait # NoName)
      <3>1. (runtime[t].state = "scheduled" /\ runtime[t].wait # NoName) => runtime[t].started
        BY TypeFacts, ZenonT(30) DEF RowOK
      <3>2. (runtime[t].state = "scheduled" /\ runtime[t].wait # NoName) => Provenance(t) # {}
        BY LedgerFacts, ZenonT(30) DEF Waiting, Provenance
      <3> QED BY <2>1, <3>1, <3>2, ZenonT(30)
    <2>3. runtime[t].runAt # Never /\ runtime[t].state # "none"
      BY <2>2, TypeFacts, ZenonT(30) DEF RowOK, RowType, Live, Active
    <2>4. state = "failed" => def[t].deadline <= now
      BY <2>3, TypeFacts, ZenonT(30) DEF PastDeadline, RowOK
    <2> QED BY <1>2, <2>4, ClosedUnattributedFits, ZenonT(30) DEF ClosedInactive
  <1> QED BY <1>1, <1>2, ZenonT(30)

LEMMA DeadlineSettlementFits ==
    ASSUME Inv, LedgerInv, NEW t \in Tasks, Live(t)
    PROVE  Fits(t, DeadlineSettlement(t))
  <1>1. runtime[t].cancel => Active(t)
    BY TypeFacts, ZenonT(30) DEF RowOK, Active, Live, RowType
  <1>2. "canceled" \in Verdicts /\ "deadline_exceeded" \in Verdicts
    BY ZenonT(30) DEF Verdicts
  <1>3. CASE ~PastDeadline(t)
    BY <1>3, UntouchedFits, ZenonT(30) DEF DeadlineSettlement
  <1>4. CASE PastDeadline(t) /\ Active(t)
    BY <1>2, <1>4, ClosedByOwnerFits, ZenonT(30) DEF DeadlineSettlement
  <1>5. CASE PastDeadline(t) /\ ~Active(t)
    BY <1>1, <1>2, <1>5, ClosedInactiveFits, ZenonT(30) DEF DeadlineSettlement
  <1> QED BY <1>3, <1>4, <1>5, ZenonT(30)

LEMMA TimeoutSettlementFits ==
    ASSUME Inv, LedgerInv, NEW t \in Tasks, Active(t), NEW delay \in RetryDelays, NEW seq
    PROVE  Fits(t, TimeoutSettlement(t, delay, seq))
  <1>1. "timeout" \in Verdicts /\ Live(t)
    BY ActiveFacts, ZenonT(30) DEF Verdicts
  <1> QED BY <1>1, UntouchedFits, DeadlineSettlementFits, RetriedOrFailedFits, ZenonT(30)
          DEF TimeoutSettlement

LEMMA ExpirySettlementFits ==
    ASSUME Inv, LedgerInv, NEW t \in Tasks, Active(t), NEW delay \in RetryDelays, NEW seq
    PROVE  Fits(t, ExpirySettlement(t, delay, seq))
  BY ActiveFacts, UntouchedFits, DeadlineSettlementFits, TimeoutSettlementFits, ZenonT(30)
     DEF ExpirySettlement

LEMMA LeaseSettlementFits ==
    ASSUME Inv, LedgerInv, NEW t \in Tasks, Active(t), NEW delay \in RetryDelays, NEW seq
    PROVE  Fits(t, LeaseSettlement(t, delay, seq))
  <1>1. "canceled" \in Verdicts /\ "lease_expired" \in Verdicts
    BY Zenon DEF Verdicts
  <1> QED BY <1>1, ClosedByOwnerFits, RetriedOrFailedFits, ZenonT(30) DEF LeaseSettlement

-----------------------------------------------------------------------------
(* Rows *)

\* Every fence of the ledger was drawn, and later ones are larger.
LEMMA DrawnFences ==
    ASSUME Inv, LedgerInv, NEW t \in Tasks, NEW n \in Nat, fenceSeq <= n
    PROVE  \A i \in 1..Len(history[t]) :
              /\ history[t][i].fence \in Nat
              /\ history[t][i].fence <= fenceSeq /\ history[t][i].fence <= n
  <1> SUFFICES ASSUME NEW i \in 1..Len(history[t])
               PROVE  /\ history[t][i].fence \in Nat
                      /\ history[t][i].fence <= fenceSeq /\ history[t][i].fence <= n
    BY Zenon
  <1>1. history[t][i] \in HistoryType
    BY LedgerFacts, SeqElement, ZenonT(30)
  <1>2. history[t][i].fence \in Nat
    BY <1>1, ZenonT(30) DEF HistoryType
  <1>3. history[t][i].fence <= fenceSeq
    BY LedgerFacts, ZenonT(30) DEF Fenced
  <1> QED BY <1>2, <1>3, LedgerFacts, SMTT(30)

\* Row r, wait rows W and last fence n may follow those of live task t.
LEMMA RowFits ==
    ASSUME Inv, LedgerInv, NEW t \in Tasks, Live(t), NEW r, NEW W, NEW n \in Nat,
           fenceSeq <= n, r.state # "none", r.attempt = runtime[t].attempt,
           r.state = "active" =>
              Newer(r.fence, history[t]) /\ r.fence <= n /\ \A p \in W : p.fence <= r.fence,
           \A p \in W : /\ 0 < p.fence /\ p.fence <= n /\ p.attempt <= r.attempt
                        /\ p.attempt = r.attempt => Newer(p.fence, history[t]),
           Waiting(r, W)
    PROVE  Ledger(def[t], r, outcome[t], history[t], W, n)
  <1>1. outcome[t].state = "none"
    BY DEF Inv, Home, Live, NoRow
  <1>2. outcome[t].fence = 0
    BY <1>1, LedgerFacts, ZenonT(30) DEF Decided
  <1>3. Numbered(def[t], r, outcome[t], history[t])
    BY <1>1, LedgerFacts, ZenonT(30) DEF Numbered, Live
  <1>4. \A i \in 1..Len(history[t]) : history[t][i].fence <= n
    BY DrawnFences, ZenonT(30)
  <1>5. \A i \in 2..Len(history[t]) : history[t][i - 1].fence < history[t][i].fence
    BY LedgerFacts, ZenonT(30) DEF Fenced
  <1>6. Fenced(r, outcome[t], history[t], W, n)
    BY <1>2, <1>4, <1>5, ZenonT(30) DEF Fenced
  <1> QED BY <1>3, <1>6, LedgerFacts, ZenonT(30) DEF Ledger

\* What the wait rows of a live task satisfy.
LEMMA WaitFacts ==
    ASSUME Inv, LedgerInv, NEW t \in Tasks, Live(t), NEW p \in waits[t]
    PROVE  /\ p \in WaitType /\ p.fence \in Nat /\ p.attempt \in Nat
           /\ 0 < p.fence /\ p.fence <= fenceSeq /\ p.attempt <= runtime[t].attempt
           /\ p.attempt = runtime[t].attempt => Newer(p.fence, history[t])
           /\ fenceSeq \in Nat /\ runtime[t].attempt \in Nat
  <1>1. p \in WaitType /\ fenceSeq \in Nat
    BY LedgerFacts, ZenonT(30)
  <1>2. /\ 0 < p.fence /\ p.fence <= fenceSeq /\ p.attempt <= runtime[t].attempt
        /\ p.attempt = runtime[t].attempt => Newer(p.fence, history[t])
    BY LedgerFacts, ZenonT(30) DEF Fenced, Live
  <1> QED BY <1>1, <1>2, TypeFacts, ZenonT(30) DEF WaitType, RowType

\* A row that becomes ready: promoted, run now or released.
LEMMA ReadyFits ==
    ASSUME Inv, LedgerInv, NEW t \in Tasks, Live(t), NEW r, r.state = "ready",
           r.attempt = runtime[t].attempt, \A p \in waits[t] : ~Open(p)
    PROVE  Ledger(def[t], r, outcome[t], history[t], waits[t], fenceSeq)
  <1>1. Waiting(r, waits[t])
    BY ZenonT(30) DEF Waiting
  <1>2. \A p \in waits[t] :
           /\ 0 < p.fence /\ p.fence <= fenceSeq /\ p.attempt <= r.attempt
           /\ p.attempt = r.attempt => Newer(p.fence, history[t])
    BY WaitFacts, ZenonT(30)
  <1>3. fenceSeq \in Nat /\ fenceSeq <= fenceSeq
    BY LedgerFacts
  <1> QED BY <1>1, <1>2, <1>3, RowFits, ZenonT(30)

\* A row that stays with its owner: renewed, or asked to stop.
LEMMA OwnedFits ==
    ASSUME Inv, LedgerInv, NEW t \in Tasks, Active(t), NEW r, r.state = "active",
           r.attempt = runtime[t].attempt, r.fence = runtime[t].fence
    PROVE  Ledger(def[t], r, outcome[t], history[t], waits[t], fenceSeq)
  <1>1. Waiting(r, waits[t])
    BY OwnerNewest, ZenonT(30) DEF Waiting
  <1>2. \A p \in waits[t] :
           /\ 0 < p.fence /\ p.fence <= fenceSeq /\ p.attempt <= r.attempt
           /\ p.attempt = r.attempt => Newer(p.fence, history[t])
    BY OwnerNewest, WaitFacts, ZenonT(30)
  <1>3. fenceSeq \in Nat /\ fenceSeq <= fenceSeq
    BY LedgerFacts
  <1> QED BY <1>1, <1>2, <1>3, OwnerNewest, RowFits, ZenonT(30)

-----------------------------------------------------------------------------
(* Steps *)

\* The last fence only grows, so a task that a step leaves alone stays in order.
LEMMA LedgerLater ==
    ASSUME Inv, LedgerInv, NEW t \in Tasks, NEW n \in Nat, fenceSeq <= n
    PROVE  Ledger(def[t], runtime[t], outcome[t], history[t], waits[t], n)
  <1>1. CASE Live(t)
    <2>1. /\ runtime[t].fence \in Nat /\ fenceSeq \in Nat
      BY TypeFacts, LedgerFacts, ZenonT(30) DEF RowType
    <2>2. \A p \in waits[t] :
             /\ 0 < p.fence /\ p.fence <= n /\ p.attempt <= runtime[t].attempt
             /\ p.attempt = runtime[t].attempt => Newer(p.fence, history[t])
      BY <1>1, WaitFacts, SMTT(30)
    <2>3. Active(t) => /\ Newer(runtime[t].fence, history[t]) /\ runtime[t].fence <= n
                       /\ \A p \in waits[t] : p.fence <= runtime[t].fence
      BY <2>1, OwnerNewest, SMTT(30)
    <2> QED BY <1>1, <2>2, <2>3, LedgerFacts, RowFits, ZenonT(30) DEF Live, Active
  <1>2. CASE ~Live(t)
    <2>1. \A i \in 1..Len(history[t]) : history[t][i].fence <= n
      BY DrawnFences, ZenonT(30)
    <2>2. \A p \in waits[t] : 0 < p.fence /\ p.fence <= n
      <3> SUFFICES ASSUME NEW p \in waits[t]
                   PROVE  0 < p.fence /\ p.fence <= n
        BY ZenonT(30)
      <3>1. p.fence \in Nat /\ fenceSeq \in Nat
        BY LedgerFacts, ZenonT(30) DEF WaitType
      <3>2. 0 < p.fence /\ p.fence <= fenceSeq
        BY LedgerFacts, ZenonT(30) DEF Fenced
      <3> QED BY <3>1, <3>2
    <2>3. Fenced(runtime[t], outcome[t], history[t], waits[t], n)
      BY <1>2, <2>1, <2>2, LedgerFacts, ZenonT(30) DEF Fenced, Live
    <2> QED BY <2>3, LedgerFacts, ZenonT(30) DEF Ledger
  <1> QED BY <1>1, <1>2, ZenonT(30)

\* A step that settles task t keeps every ledger in order.
LEMMA ApplyLedger ==
    ASSUME Inv, LedgerInv, NEW t \in Tasks, def[t] # NoDefinition, NEW s, Fits(t, s),
           Apply(t, s), UNCHANGED <<def, waits, fenceSeq>>
    PROVE  LedgerInv'
  <1>1. ASSUME NEW u \in Tasks
        PROVE  /\ def'[u] = NoDefinition => history'[u] = <<>> /\ waits'[u] = {}
               /\ Ledger(def'[u], runtime'[u], outcome'[u], history'[u], waits'[u], fenceSeq')
    <2>1. CASE u = t
      <3>1. /\ runtime'[u] = s.row /\ outcome'[u] = s.out
            /\ history'[u] = history[t] \o s.entries
        BY <2>1, ZenonT(30) DEF Apply, Inv, TypeOK
      <3> QED BY <2>1, <3>1, ZenonT(30) DEF Fits
    <2>2. CASE u # t
      <3>1. Kept(u)
        BY <2>2, ApplyKeeps, ZenonT(30)
      <3> QED BY <3>1, ZenonT(30) DEF Kept, LedgerInv
    <2> QED BY <2>1, <2>2, ZenonT(30)
  <1> QED BY <1>1, ZenonT(30) DEF LedgerInv

\* A step that replaces the row of task t, and perhaps adds a wait or draws a
\* fence for it, keeps every ledger in order.
LEMMA RowLedger ==
    ASSUME Inv, LedgerInv, NEW t \in Tasks, def[t] # NoDefinition, NEW r,
           runtime' = [runtime EXCEPT ![t] = r], UNCHANGED <<def, outcome, history>>,
           NEW W, waits' = [waits EXCEPT ![t] = W], fenceSeq' \in Nat, fenceSeq <= fenceSeq',
           Ledger(def[t], r, outcome[t], history[t], W, fenceSeq')
    PROVE  LedgerInv'
  <1>1. ASSUME NEW u \in Tasks
        PROVE  /\ def'[u] = NoDefinition => history'[u] = <<>> /\ waits'[u] = {}
               /\ Ledger(def'[u], runtime'[u], outcome'[u], history'[u], waits'[u], fenceSeq')
    <2>1. CASE u = t
      <3>1. runtime'[u] = r /\ waits'[u] = W
        BY <2>1, ZenonT(30) DEF Inv, TypeOK
      <3> QED BY <2>1, <3>1, ZenonT(30)
    <2>2. CASE u # t
      <3>1. runtime'[u] = runtime[u] /\ waits'[u] = waits[u]
        BY <2>2, ZenonT(30) DEF Inv, TypeOK
      <3>2. Ledger(def[u], runtime[u], outcome[u], history[u], waits[u], fenceSeq')
        BY LedgerLater, ZenonT(30)
      <3> QED BY <3>1, <3>2, ZenonT(30) DEF LedgerInv
    <2> QED BY <2>1, <2>2, ZenonT(30)
  <1> QED BY <1>1, ZenonT(30) DEF LedgerInv

\* The same when the wait rows and the last fence stay.
LEMMA PlainRowLedger ==
    ASSUME Inv, LedgerInv, NEW t \in Tasks, def[t] # NoDefinition, NEW r,
           runtime' = [runtime EXCEPT ![t] = r],
           UNCHANGED <<def, outcome, history, waits, fenceSeq>>,
           Ledger(def[t], r, outcome[t], history[t], waits[t], fenceSeq)
    PROVE  LedgerInv'
  <1>1. waits' = [waits EXCEPT ![t] = waits[t]]
    BY ZenonT(30) DEF Inv, TypeOK
  <1>2. fenceSeq' \in Nat /\ fenceSeq <= fenceSeq'
    BY LedgerFacts
  <1> QED BY <1>1, <1>2, RowLedger, ZenonT(30)

-----------------------------------------------------------------------------
(* The initial state, the calls of producers and operators, and claims *)

LEMMA InitLedger == Init => LedgerInv
  <1> SUFFICES ASSUME Init, NEW t \in Tasks
               PROVE  /\ history[t] = <<>> /\ waits[t] = {}
                      /\ Ledger(def[t], runtime[t], outcome[t], history[t], waits[t], fenceSeq)
    BY ZenonT(30) DEF LedgerInv
  <1>1. /\ runtime[t] = NoRow /\ outcome[t] = NoOutcome /\ history[t] = <<>> /\ waits[t] = {}
    BY ZenonT(30) DEF Init
  <1>2. NoRow.state = "none" /\ NoOutcome.state = "none" /\ NoOutcome.fence = 0
    BY Zenon DEF NoRow, NoOutcome
  <1>3. Len(history[t]) = 0
    BY <1>1
  <1>4. Numbered(def[t], runtime[t], outcome[t], history[t])
    BY <1>1, <1>2, <1>3, SMTT(30) DEF Numbered
  <1>5. Fenced(runtime[t], outcome[t], history[t], waits[t], fenceSeq)
    BY <1>1, <1>2, <1>3, SMTT(30) DEF Fenced
  <1>6. Waiting(runtime[t], waits[t]) /\ Decided(def[t], outcome[t])
    BY <1>1, <1>2, ZenonT(30) DEF Waiting, Decided
  <1> QED BY <1>1, <1>4, <1>5, <1>6, ZenonT(30) DEF Ledger

LEMMA EnqueueLedger ==
    ASSUME Inv, LedgerInv, NEW t \in Tasks, NEW d \in Definitions, NEW delay,
           Enqueue(t, d, delay)
    PROVE  LedgerInv'
  <1> DEFINE late == d.deadline <= now
             row == [NoRow EXCEPT
                  !.state = IF delay = 0 THEN "ready" ELSE "scheduled",
                  !.attempt = 1,
                  !.deadline = d.deadline,
                  !.runAt = now + delay,
                  !.seq = IF delay = 0 THEN readySeq + 1 ELSE 0]
             r == IF late THEN NoRow ELSE row
             o == IF late THEN [state |-> "failed", attempt |-> 1, fence |-> 0, at |-> now]
                  ELSE outcome[t]
  <1>1. /\ def[t] = NoDefinition /\ def' = [def EXCEPT ![t] = d]
        /\ runtime' = [runtime EXCEPT ![t] = r]
        /\ outcome' = [outcome EXCEPT ![t] = o]
        /\ UNCHANGED <<history, waits, fenceSeq>>
    BY ZenonT(30) DEF Enqueue, Inv, TypeOK
  <1>2. history[t] = <<>> /\ waits[t] = {} /\ outcome[t] = NoOutcome
    BY <1>1, ZenonT(30) DEF LedgerInv, Inv, Home
  <1>3. Ledger(d, r, o, <<>>, {}, fenceSeq)
    <2>0. NoRow.state = "none" /\ NoOutcome.state = "none" /\ NoOutcome.fence = 0
      BY ZenonT(30) DEF NoRow, NoOutcome
    <2>1. r.state # "none" =>
             r.attempt = 1 /\ r.wait = NoName /\ r.state \in {"ready", "scheduled"}
      BY ZenonT(30) DEF NoRow
    <2>2. o.fence = 0 /\ (o.state # "none" => late /\ o.attempt = 1 /\ o.at = now)
      BY <1>2, <2>0, ZenonT(30)
    <2>3. o.state # "succeeded"
      BY <1>2, <2>0, ZenonT(30)
    <2>4. Len(<<>>) = 0 /\ 1 <= d.max
      BY ConstantsAssumption, SMTT(30) DEF ConstantsAssumption, DefinitionType
    <2> HIDE DEF r, o
    <2>5. Numbered(d, r, o, <<>>)
      BY <2>1, <2>2, <2>4, SMTT(30) DEF Numbered
    <2>6. Fenced(r, o, <<>>, {}, fenceSeq)
      BY <2>1, <2>2, <2>4, SMTT(30) DEF Fenced
    <2>7. Waiting(r, {})
      BY <2>1, Zenon DEF Waiting
    <2>8. Decided(d, o)
      BY <2>2, <2>3, Zenon DEF Decided
    <2> QED BY <2>5, <2>6, <2>7, <2>8, ZenonT(30) DEF Ledger
  <1> HIDE DEF r, o
  <1>4. ASSUME NEW u \in Tasks
        PROVE  /\ def'[u] = NoDefinition => history'[u] = <<>> /\ waits'[u] = {}
               /\ Ledger(def'[u], runtime'[u], outcome'[u], history'[u], waits'[u], fenceSeq')
    <2>1. CASE u = t
      <3>1. runtime'[u] = r /\ outcome'[u] = o /\ def'[u] = d
        BY <1>1, <2>1, Zenon DEF Inv, TypeOK
      <3> QED BY <1>1, <1>2, <1>3, <2>1, <3>1, ZenonT(30)
    <2>2. CASE u # t
      <3>1. runtime'[u] = runtime[u] /\ outcome'[u] = outcome[u] /\ def'[u] = def[u]
        BY <1>1, <2>2, ZenonT(30) DEF Inv, TypeOK
      <3> QED BY <1>1, <3>1, ZenonT(30) DEF LedgerInv
    <2> QED BY <2>1, <2>2, Zenon
  <1> QED BY <1>4, ZenonT(30) DEF LedgerInv

LEMMA CancelLedger ==
    ASSUME Inv, LedgerInv, NEW t \in Tasks, Cancel(t)
    PROVE  LedgerInv'
  <1>1. Live(t) /\ def[t] # NoDefinition /\ "canceled" \in Verdicts
    BY SMTT(30) DEF Cancel, Inv, Home, Live, NoRow, Verdicts
  <1>2. CASE Active(t)
    <2> DEFINE r == [runtime[t] EXCEPT !.cancel = TRUE]
    <2>1. /\ runtime' = [runtime EXCEPT ![t] = r]
          /\ UNCHANGED <<def, outcome, history, waits, fenceSeq>>
      BY <1>2, ZenonT(30) DEF Cancel
    <2>2. r.state = "active" /\ r.attempt = runtime[t].attempt /\ r.fence = runtime[t].fence
      BY <1>2, TypeFacts, ZenonT(30) DEF Active, RowType
    <2> HIDE DEF r
    <2> QED BY <1>1, <1>2, <2>1, <2>2, OwnedFits, PlainRowLedger, ZenonT(30)
  <1>3. CASE ~Active(t)
    BY <1>1, <1>3, ClosedInactiveFits, ApplyLedger, ZenonT(30) DEF Cancel
  <1> QED BY <1>2, <1>3, ZenonT(30)

LEMMA RunTaskNowLedger ==
    ASSUME Inv, LedgerInv, NEW t \in Tasks, RunTaskNow(t)
    PROVE  LedgerInv'
  <1> DEFINE r == [runtime[t] EXCEPT !.state = "ready", !.runAt = now, !.seq = readySeq + 1]
  <1>1. /\ runtime[t].state = "scheduled" /\ runtime[t].wait = NoName
        /\ runtime' = [runtime EXCEPT ![t] = r]
        /\ UNCHANGED <<def, outcome, history, waits, fenceSeq>>
    BY ZenonT(30) DEF RunTaskNow
  <1>2. Live(t) /\ def[t] # NoDefinition
    BY <1>1, SMTT(30) DEF Inv, Home, Live, NoRow
  <1>3. r.state = "ready" /\ r.attempt = runtime[t].attempt
    BY TypeFacts, ZenonT(30) DEF RowType
  <1>4. \A p \in waits[t] : ~Open(p)
    <2>1. \A p \in waits[t] : p.name # NoName
      BY LedgerFacts, ConstantsAssumption, ZenonT(30) DEF ConstantsAssumption, WaitType
    <2> QED BY <1>1, <1>2, <2>1, LedgerFacts, ZenonT(30) DEF Waiting, Live
  <1> HIDE DEF r
  <1> QED BY <1>1, <1>2, <1>3, <1>4, ReadyFits, PlainRowLedger, ZenonT(30)

\* A delivery answers the one open wait of the task, and the row is ready.
LEMMA DeliverLedger ==
    ASSUME Inv, LedgerInv, NEW kind, NEW t \in Tasks, NEW n, NEW payload \in Payloads,
           Deliver(kind, t, n, payload), kind # "timer"
    PROVE  LedgerInv'
  <1>1. PICK p \in WaitsNamed(t, kind, n) :
           /\ p.answer = {} /\ runtime[t].state = "scheduled"
           /\ waits' = [waits EXCEPT ![t] = (@ \ {p}) \union {[p EXCEPT !.answer = {payload}]}]
           /\ runtime' = [runtime EXCEPT ![t] = Resumed(t)]
           /\ UNCHANGED <<def, outcome, history, fenceSeq>>
    BY ZenonT(30) DEF Deliver
  <1> DEFINE a == [p EXCEPT !.answer = {payload}]
             W == (waits[t] \ {p}) \union {a}
             r == Resumed(t)
  <1>2. p \in waits[t] /\ Open(p)
    BY <1>1, ZenonT(30) DEF WaitsNamed, Open
  <1>3. Live(t) /\ def[t] # NoDefinition
    BY <1>1, SMTT(30) DEF Inv, Home, Live, NoRow
  <1>4. r.state = "ready" /\ r.attempt = runtime[t].attempt
    BY TypeFacts, ZenonT(30) DEF RowType, Resumed
  <1>5. a.fence = p.fence /\ a.attempt = p.attempt /\ ~Open(a)
    <2>1. p \in WaitType
      BY <1>2, <1>3, WaitFacts, ZenonT(30)
    <2> QED BY <2>1, Zenon DEF WaitType, Open
  <1> HIDE DEF a, r
  <1>6. \A q \in W : ~Open(q)
    <2>1. \A q \in waits[t] : Open(q) => q = p
      BY <1>2, <1>3, LedgerFacts, ZenonT(30) DEF Waiting, Live
    <2> QED BY <1>5, <2>1, ZenonT(30)
  <1>7. \A q \in W :
           /\ 0 < q.fence /\ q.fence <= fenceSeq /\ q.attempt <= r.attempt
           /\ q.attempt = r.attempt => Newer(q.fence, history[t])
    <2>1. \A q \in waits[t] :
             /\ 0 < q.fence /\ q.fence <= fenceSeq /\ q.attempt <= r.attempt
             /\ q.attempt = r.attempt => Newer(q.fence, history[t])
      BY <1>3, <1>4, WaitFacts, ZenonT(30)
    <2> QED BY <1>2, <1>5, <2>1, ZenonT(30)
  <1>8. Waiting(r, W)
    BY <1>4, <1>6, ZenonT(30) DEF Waiting
  <1>9. fenceSeq \in Nat /\ fenceSeq <= fenceSeq
    BY LedgerFacts
  <1>10. waits' = [waits EXCEPT ![t] = W]
    BY <1>1, ZenonT(30) DEF a
  <1> HIDE DEF W
  <1>11. Ledger(def[t], r, outcome[t], history[t], W, fenceSeq)
    BY <1>3, <1>4, <1>7, <1>8, <1>9, RowFits, ZenonT(30)
  <1> QED BY <1>1, <1>3, <1>9, <1>10, <1>11, RowLedger, ZenonT(30) DEF r

LEMMA ClaimLedger ==
    ASSUME Inv, LedgerInv, NEW w \in Workers, NEW locked, ClaimOne(w, locked)
    PROVE  LedgerInv'
  <1>1. PICK t \in Tasks :
           /\ Claimable(t) /\ runtime' = [runtime EXCEPT ![t] = Granted(t, w)]
           /\ fenceSeq' = fenceSeq + 1 /\ UNCHANGED <<def, outcome, history, waits>>
    BY ZenonT(30) DEF ClaimOne
  <1> DEFINE r == Granted(t, w)
  <1>2. /\ runtime[t].state = "ready" /\ Live(t) /\ def[t] # NoDefinition
    BY <1>1, SMTT(30) DEF Claimable, Inv, Home, Live, NoRow
  <1>3. r.state = "active" /\ r.attempt = runtime[t].attempt /\ r.fence = fenceSeq + 1
    BY TypeFacts, SMTT(30) DEF Granted, RowType
  <1>4. fenceSeq \in Nat /\ fenceSeq' \in Nat /\ fenceSeq <= fenceSeq'
    BY <1>1, LedgerFacts, SMTT(30)
  <1> HIDE DEF r
  <1>5. \A p \in waits[t] :
           /\ 0 < p.fence /\ p.fence <= fenceSeq' /\ p.fence <= r.fence
           /\ p.attempt <= r.attempt
           /\ p.attempt = r.attempt => Newer(p.fence, history[t])
    BY <1>1, <1>2, <1>3, <1>4, WaitFacts, SMTT(30)
  <1>6. Newer(r.fence, history[t]) /\ r.fence <= fenceSeq'
    BY <1>1, <1>3, <1>4, DrawnFences, SMTT(30) DEF Newer
  <1>7. Waiting(r, waits[t])
    BY <1>2, <1>3, LedgerFacts, ZenonT(30) DEF Waiting
  <1>8. Ledger(def[t], r, outcome[t], history[t], waits[t], fenceSeq')
    BY <1>2, <1>3, <1>4, <1>5, <1>6, <1>7, RowFits, ZenonT(30)
  <1>9. waits' = [waits EXCEPT ![t] = waits[t]]
    BY <1>1, ZenonT(30) DEF Inv, TypeOK
  <1> QED BY <1>1, <1>2, <1>4, <1>8, <1>9, RowLedger, ZenonT(30) DEF r

-----------------------------------------------------------------------------
(* The calls of a worker, and the tick                                      *)

LEMMA HeartbeatLedger ==
    ASSUME Inv, LedgerInv, NEW w, NEW t \in Tasks, NEW f, Heartbeat(w, t, f)
    PROVE  LedgerInv'
  <1> DEFINE r == [runtime[t] EXCEPT !.expires = now + Lease]
  <1>1. /\ Active(t) /\ runtime' = [runtime EXCEPT ![t] = r]
        /\ UNCHANGED <<def, outcome, history, waits, fenceSeq>>
    BY ZenonT(30) DEF Heartbeat, HoldsLease, Owns
  <1>2. r.state = "active" /\ r.attempt = runtime[t].attempt /\ r.fence = runtime[t].fence
    BY <1>1, TypeFacts, ZenonT(30) DEF Active, RowType
  <1>3. def[t] # NoDefinition
    BY <1>1, ActiveFacts, ZenonT(30)
  <1> HIDE DEF r
  <1> QED BY <1>1, <1>2, <1>3, OwnedFits, PlainRowLedger, ZenonT(30)

LEMMA HeartbeatManyLedger ==
    ASSUME Inv, LedgerInv, NEW w, NEW beats, NEW locked, HeartbeatMany(w, beats, locked)
    PROVE  LedgerInv'
  <1>1. UNCHANGED <<def, outcome, history, waits, fenceSeq>>
    BY ZenonT(30) DEF HeartbeatMany
  <1>2. ASSUME NEW t \in Tasks
        PROVE  Ledger(def[t], runtime'[t], outcome[t], history[t], waits[t], fenceSeq)
    <2> DEFINE r == [runtime[t] EXCEPT !.expires = now + Lease]
    <2>1. runtime'[t] = runtime[t] \/ (Active(t) /\ runtime'[t] = r)
      BY ZenonT(30) DEF HeartbeatMany, HoldsLease, Owns
    <2>2. CASE runtime'[t] = runtime[t]
      BY <2>2, ZenonT(30) DEF LedgerInv
    <2>3. CASE Active(t) /\ runtime'[t] = r
      <3>1. r.state = "active" /\ r.attempt = runtime[t].attempt /\ r.fence = runtime[t].fence
        BY <2>3, TypeFacts, ZenonT(30) DEF Active, RowType
      <3> HIDE DEF r
      <3> QED BY <2>3, <3>1, OwnedFits, ZenonT(30)
    <2> QED BY <2>1, <2>2, <2>3, ZenonT(30)
  <1> QED BY <1>1, <1>2, ZenonT(30) DEF LedgerInv

\* complete_v1 and acknowledge_cancel_v1, under the fence of the owner.
LEMMA CompleteLedger ==
    ASSUME Inv, LedgerInv, NEW w, NEW t \in Tasks, NEW f,
           Complete(w, t, f) \/ AcknowledgeCancel(w, t, f)
    PROVE  LedgerInv'
  <1>1. /\ Active(t) /\ w = runtime[t].worker /\ f = runtime[t].fence
        /\ UNCHANGED <<def, waits, fenceSeq>>
    BY ZenonT(30) DEF Complete, AcknowledgeCancel, HoldsLease, Owns
  <1>2. /\ w \in Workers /\ f \in Nat /\ f > 0 /\ f <= fenceSeq /\ Newer(f, history[t])
        /\ Live(t) /\ def[t] # NoDefinition
    BY <1>1, OwnerNewest, ActiveFacts, ZenonT(30)
  <1>3. "succeeded" \in Verdicts /\ "canceled" \in Verdicts
    BY ZenonT(30) DEF Verdicts
  <1>4. CASE Complete(w, t, f)
    <2>1. now < def[t].deadline
      BY <1>1, <1>4, ActiveFacts, TypeFacts, DefinitionFacts, SMTT(30)
         DEF Complete, HoldsLease, PastDeadline
    <2>2. Fits(t, Closed(t, "succeeded", w, f, "succeeded"))
      BY <1>2, <1>3, <2>1, ClosedFits
    <2> QED BY <1>1, <1>2, <1>4, <2>2, ApplyLedger, ZenonT(30) DEF Complete
  <1>5. CASE AcknowledgeCancel(w, t, f)
    <2>1. Fits(t, Closed(t, "canceled", w, f, "canceled"))
      BY <1>2, <1>3, ClosedFits, ZenonT(30)
    <2> QED BY <1>1, <1>2, <1>5, <2>1, ApplyLedger, ZenonT(30) DEF AcknowledgeCancel
  <1> QED BY <1>4, <1>5, ZenonT(30)

LEMMA FailLedger ==
    ASSUME Inv, LedgerInv, NEW w, NEW t \in Tasks, NEW f, NEW retry, NEW delay \in RetryDelays,
           Fail(w, t, f, retry, delay)
    PROVE  LedgerInv'
  <1> DEFINE s == IF PastDeadline(t) \/ PastTimeout(t)
                  THEN ExpirySettlement(t, delay, readySeq + 1)
                  ELSE IF runtime[t].attempt < def[t].max /\ retry
                  THEN Retried(t, delay, readySeq + 1, "retry")
                  ELSE ClosedByOwner(t, "failed", "failed")
  <1>1. Active(t) /\ Apply(t, s) /\ UNCHANGED <<def, waits, fenceSeq>>
    BY ZenonT(30) DEF Fail, Owns
  <1>2. "retry" \in Verdicts /\ "failed" \in Verdicts /\ def[t] # NoDefinition
    BY <1>1, ActiveFacts, ZenonT(30) DEF Verdicts
  <1>3. Fits(t, s)
    BY <1>1, <1>2, ExpirySettlementFits, RetriedFits, ClosedByOwnerFits, ZenonT(30)
  <1> HIDE DEF s
  <1> QED BY <1>1, <1>2, <1>3, ApplyLedger, ZenonT(30)

LEMMA ReleaseOwnedLedger ==
    ASSUME Inv, LedgerInv, NEW w, NEW t \in Tasks, NEW f, NEW delay \in RetryDelays,
           NEW late \in Nat, ReleaseOwned(w, t, f, delay, late)
    PROVE  LedgerInv'
  <1> DEFINE S == Suspended(t, now + late)
             r == [S EXCEPT !.state = "ready", !.runAt = now + late, !.seq = readySeq + 1]
             released == [row |-> r, out |-> outcome[t], entries |-> <<>>]
             s == IF PastDeadline(t) \/ PastTimeout(t)
                  THEN ExpirySettlement(t, delay, readySeq + 1) ELSE released
  <1>1. Active(t) /\ Apply(t, s) /\ UNCHANGED <<def, waits, fenceSeq>>
    BY ZenonT(30) DEF ReleaseOwned, Owns
  <1>2. S \in RowType /\ S.attempt = runtime[t].attempt
    <2>1. now + late \in Nat /\ now <= now + late
      BY ClockFacts, SMTT(30)
    <2> QED BY <1>1, <2>1, SuspendedFacts, ZenonT(30)
  <1> HIDE DEF S
  <1>3. r.state = "ready" /\ r.attempt = runtime[t].attempt
    BY <1>2, ZenonT(30) DEF RowType
  <1> HIDE DEF r
  <1>4. Ledger(def[t], r, outcome[t], history[t], waits[t], fenceSeq)
    BY <1>1, <1>3, OwnerNewest, ReadyFits, ZenonT(30)
  <1>5. history[t] \o <<>> = history[t]
    BY LedgerFacts, SeqFacts, ZenonT(30)
  <1>6. Fits(t, released)
    <2>1. released.row = r /\ released.out = outcome[t] /\ released.entries = <<>>
      BY ZenonT(30)
    <2> HIDE DEF released
    <2> QED BY <1>4, <1>5, <2>1, ZenonT(30) DEF Fits
  <1> HIDE DEF released
  <1>7. Fits(t, s) /\ def[t] # NoDefinition
    BY <1>1, <1>6, ActiveFacts, ExpirySettlementFits, ZenonT(30)
  <1> HIDE DEF s
  <1> QED BY <1>1, <1>7, ApplyLedger, ZenonT(30)

LEMMA ExpireOwnedLedger ==
    ASSUME Inv, LedgerInv, NEW w, NEW t \in Tasks, NEW f, NEW delay \in RetryDelays,
           ExpireOwned(w, t, f, delay)
    PROVE  LedgerInv'
  BY ActiveFacts, ExpirySettlementFits, ApplyLedger, ZenonT(30) DEF ExpireOwned, Owns

\* The row is suspended on a wait that its owner has just recorded, or stays
\* with its owner when the time of a timer has already come.
LEMMA RecordedWait ==
    ASSUME Inv, LedgerInv, NEW t \in Tasks, Active(t), NEW kind, NEW n, NEW r,
           r.attempt = runtime[t].attempt,
           \/ /\ r.state = "scheduled" /\ r.wait = n
              /\ kind # "timer" => r.runAt = Never
           \/ r.state = "active" /\ r.fence = runtime[t].fence /\ kind = "timer",
           runtime' = [runtime EXCEPT ![t] = r], UNCHANGED <<def, outcome, history, fenceSeq>>,
           waits' = [waits EXCEPT ![t] = @ \union {WaitRow(kind, n, t, {})}]
    PROVE  LedgerInv'
  <1> DEFINE p == WaitRow(kind, n, t, {})
             W == waits[t] \union {p}
  <1>1. /\ p.kind = kind /\ p.name = n /\ p.attempt = runtime[t].attempt
        /\ p.fence = runtime[t].fence
    BY ZenonT(30) DEF WaitRow
  <1> HIDE DEF p
  <1>2. /\ runtime[t].fence \in Nat /\ runtime[t].fence > 0 /\ runtime[t].fence <= fenceSeq
        /\ Newer(runtime[t].fence, history[t]) /\ Live(t) /\ def[t] # NoDefinition
        /\ \A q \in waits[t] : q.fence <= runtime[t].fence /\ ~Open(q)
        /\ runtime[t].attempt \in Nat /\ fenceSeq \in Nat
    BY OwnerNewest, ActiveFacts, LedgerFacts, TypeFacts, ZenonT(30) DEF RowType
  <1>3. \A q \in W : /\ 0 < q.fence /\ q.fence <= fenceSeq /\ q.attempt <= r.attempt
                     /\ q.attempt = r.attempt => Newer(q.fence, history[t])
    <2>1. \A q \in waits[t] :
             /\ 0 < q.fence /\ q.fence <= fenceSeq /\ q.attempt <= r.attempt
             /\ q.attempt = r.attempt => Newer(q.fence, history[t])
      BY <1>2, WaitFacts, ZenonT(30)
    <2>2. 0 < runtime[t].fence /\ runtime[t].attempt <= runtime[t].attempt
      BY <1>2
    <2>3. /\ 0 < p.fence /\ p.fence <= fenceSeq /\ p.attempt <= r.attempt
          /\ p.attempt = r.attempt => Newer(p.fence, history[t])
      BY <1>1, <1>2, <2>2, ZenonT(30)
    <2> QED BY <2>1, <2>3, ZenonT(30)
  <1>4. \A q \in W : q.fence <= p.fence /\ (Open(q) => q = p)
    BY <1>1, <1>2, SMTT(30)
  <1>5. Open(p) => kind # "timer"
    BY <1>1, Zenon DEF Open
  <1>6. Waiting(r, W)
    <2>1. CASE r.state = "scheduled"
      <3>1. p \in W /\ p.attempt = r.attempt
        BY <1>1, Zenon
      <3>2. \A q \in W : q.attempt = r.attempt => q.fence <= p.fence
        BY <1>4, ZenonT(30)
      <3>3. Open(p) => r.runAt = Never /\ r.wait = p.name
        BY <1>1, <1>5, <2>1, Zenon
      <3> QED BY <1>4, <2>1, <3>1, <3>2, <3>3, ZenonT(30) DEF Waiting
    <2>2. CASE r.state = "active"
      <3>1. \A q \in W : ~Open(q)
        BY <1>4, <1>5, <2>2, ZenonT(30)
      <3> QED BY <2>2, <3>1, ZenonT(30) DEF Waiting
    <2> QED BY <2>1, <2>2, Zenon
  <1>7. r.state = "active" => /\ Newer(r.fence, history[t]) /\ r.fence <= fenceSeq
                              /\ \A q \in W : q.fence <= r.fence
    BY <1>1, <1>2, <1>4, ZenonT(30)
  <1>8. waits' = [waits EXCEPT ![t] = W] /\ fenceSeq <= fenceSeq /\ r.state # "none"
    BY <1>2 DEF p
  <1> HIDE DEF W
  <1>9. Ledger(def[t], r, outcome[t], history[t], W, fenceSeq)
    BY <1>2, <1>3, <1>6, <1>7, <1>8, RowFits, ZenonT(30)
  <1> QED BY <1>2, <1>8, <1>9, RowLedger, ZenonT(30)

LEMMA ScheduleWaitLedger ==
    ASSUME Inv, LedgerInv, NEW w, NEW t \in Tasks, NEW f, NEW n, NEW span,
           ScheduleWait(w, t, f, n, span)
    PROVE  LedgerInv'
  <1> DEFINE S == Suspended(t, now)
             r == IF span = 0 THEN runtime[t]
                  ELSE [S EXCEPT !.state = "scheduled", !.runAt = now + span, !.wait = n]
  <1>1. /\ Active(t) /\ runtime' = [runtime EXCEPT ![t] = r]
        /\ waits' = [waits EXCEPT ![t] = @ \union {WaitRow("timer", n, t, {})}]
        /\ UNCHANGED <<def, outcome, history, fenceSeq>>
    BY ZenonT(30) DEF ScheduleWait, HoldsLease, Owns
  <1>2. S \in RowType /\ S.attempt = runtime[t].attempt
    BY <1>1, ClockFacts, SuspendedFacts, SMTT(30)
  <1> HIDE DEF S
  <1>3. /\ r.attempt = runtime[t].attempt
        /\ \/ r.state = "scheduled" /\ r.wait = n
           \/ r.state = "active" /\ r.fence = runtime[t].fence
    BY <1>1, <1>2, Zenon DEF RowType, Active
  <1> HIDE DEF r
  <1> QED BY <1>1, <1>3, RecordedWait, ZenonT(30)

LEMMA WaitForLedger ==
    ASSUME Inv, LedgerInv, NEW kind, NEW w, NEW t \in Tasks, NEW f, NEW n, NEW span,
           WaitFor(kind, w, t, f, n, span)
    PROVE  LedgerInv'
  <1> DEFINE S == Suspended(t, now)
             r == [S EXCEPT !.state = "scheduled", !.runAt = Never, !.wait = n,
                            !.deadline = IF @ <= now + span THEN @ ELSE now + span]
  <1>1. /\ Active(t) /\ runtime' = [runtime EXCEPT ![t] = r]
        /\ waits' = [waits EXCEPT ![t] = @ \union {WaitRow(kind, n, t, {})}]
        /\ UNCHANGED <<def, outcome, history, fenceSeq>>
    BY ZenonT(30) DEF WaitFor, HoldsLease, Owns
  <1>2. S \in RowType /\ S.attempt = runtime[t].attempt
    BY <1>1, ClockFacts, SuspendedFacts, SMTT(30)
  <1> HIDE DEF S
  <1>3. /\ r.attempt = runtime[t].attempt /\ r.state = "scheduled" /\ r.wait = n
        /\ r.runAt = Never
    BY <1>2, Zenon DEF RowType
  <1> HIDE DEF r
  <1> QED BY <1>1, <1>3, RecordedWait, ZenonT(30)

LEMMA TickLedger ==
    ASSUME Inv, LedgerInv, NEW locked \in SUBSET Tasks, NEW failed,
           NEW delays \in [Tasks -> RetryDelays], Tick(locked, failed, delays)
    PROVE  LedgerInv'
  <1>1. UNCHANGED <<def, waits, fenceSeq>>
    BY Zenon DEF Tick
  <1>2. ASSUME NEW t \in Tasks
        PROVE  /\ def[t] = NoDefinition => history'[t] = <<>>
               /\ Ledger(def[t], runtime'[t], outcome'[t], history'[t], waits[t], fenceSeq)
    <2>1. PICK P, R, n :
             /\ t \in P => runtime[t].state = "scheduled" /\ runtime[t].runAt <= now
             /\ R = Recovery(locked) \/ R = NoRecovery
             /\ runtime'[t] = Settlement(t, P, R, delays[t], n).row
             /\ outcome'[t] = Settlement(t, P, R, delays[t], n).out
             /\ history'[t] = history[t] \o Settlement(t, P, R, delays[t], n).entries
      BY TickSettles, ZenonT(30)
    <2> DEFINE s == Settlement(t, P, R, delays[t], n)
    <2>2. /\ t \in R.deadlines => Live(t)
          /\ t \in R.timeouts => Active(t)
          /\ t \in R.leases => Active(t)
      BY <2>1, RecoveryFacts, ZenonT(30)
    <2>3. Active(t) => Live(t)
      BY ActiveFacts, Zenon
    <2>4. delays[t] \in RetryDelays
      BY Zenon
    <2>5. t \in P => Fits(t, [Untouched(t) EXCEPT !.row = Promoted(t, n)])
      <3> SUFFICES ASSUME t \in P
                   PROVE  Fits(t, [Untouched(t) EXCEPT !.row = Promoted(t, n)])
        BY ZenonT(30)
      <3> DEFINE r == Promoted(t, n)
                 g == [Untouched(t) EXCEPT !.row = r]
      <3>1. g.row = r /\ g.out = outcome[t] /\ g.entries = <<>>
        BY ZenonT(30) DEF Untouched
      <3>2. r.state = "ready" /\ r.attempt = runtime[t].attempt
        BY TypeFacts, ZenonT(30) DEF Promoted, RowType
      <3>3. Live(t) /\ runtime[t].runAt # Never
        BY <2>1, TypeFacts, ClockFacts, ConstantsAssumption, SMTT(30) DEF Live, ConstantsAssumption
      <3>4. \A p \in waits[t] : ~Open(p)
        BY <3>3, LedgerFacts, ZenonT(30) DEF Waiting, Live
      <3>5. history[t] \o <<>> = history[t]
        BY LedgerFacts, SeqFacts, Zenon
      <3> HIDE DEF r, g
      <3>6. Ledger(def[t], r, outcome[t], history[t], waits[t], fenceSeq)
        BY <3>2, <3>3, <3>4, ReadyFits, ZenonT(30)
      <3>7. Fits(t, g)
        BY <3>1, <3>5, <3>6, ZenonT(30) DEF Fits
      <3> QED BY <3>7, ZenonT(30) DEF g, r
    <2>6. Fits(t, s)
      BY <2>2, <2>3, <2>4, <2>5, UntouchedFits, DeadlineSettlementFits, TimeoutSettlementFits,
         LeaseSettlementFits, ZenonT(30) DEF Settlement
    <2>7. def[t] = NoDefinition => history'[t] = <<>>
      <3> SUFFICES ASSUME def[t] = NoDefinition
                   PROVE  history'[t] = <<>>
        BY ZenonT(30)
      <3>1. ~Live(t) /\ NoRow.state = "none"
        BY SMTT(30) DEF Inv, Home, Live, NoRow
      <3>2. t \notin P /\ ~Active(t)
        BY <2>1, <3>1, ZenonT(30) DEF Live, Active
      <3>3. s = Untouched(t)
        BY <2>2, <3>1, <3>2, ZenonT(30) DEF Settlement
      <3>4. Untouched(t).entries = <<>> /\ history[t] = <<>>
        BY ZenonT(30) DEF Untouched, LedgerInv
      <3>5. <<>> \o <<>> = <<>>
        OBVIOUS
      <3> QED BY <2>1, <3>3, <3>4, <3>5, ZenonT(30)
    <2> HIDE DEF s
    <2> QED BY <2>1, <2>6, <2>7, ZenonT(30) DEF Fits, s
  <1> QED BY <1>1, <1>2, ZenonT(30) DEF LedgerInv

LEMMA WorkerCallLedger ==
    ASSUME Inv, LedgerInv, WorkerCall
    PROVE  LedgerInv'
  <1>1. CASE \E w \in Workers, locked \in SUBSET Tasks :
                HeartbeatMany(w, {c \in issued : c[1] = w}, locked)
    BY <1>1, HeartbeatManyLedger, ZenonT(30)
  <1>2. ASSUME NEW c \in issued, HolderCall(c[1], c[2], c[3])
        PROVE  LedgerInv'
    <2> DEFINE w == c[1]
               t == c[2]
               f == c[3]
    <2>1. t \in Tasks
      BY ZenonT(30) DEF Inv, TypeOK
    <2>2. HolderCall(w, t, f)
      BY <1>2, Zenon
    <2> HIDE DEF w, t, f
    <2>3. CASE Heartbeat(w, t, f)
      BY <2>1, <2>3, HeartbeatLedger, ZenonT(30)
    <2>4. CASE Complete(w, t, f) \/ AcknowledgeCancel(w, t, f)
      BY <2>1, <2>4, CompleteLedger, ZenonT(30)
    <2>5. CASE \E delay \in RetryDelays, retry \in BOOLEAN : Fail(w, t, f, retry, delay)
      BY <2>1, <2>5, FailLedger, ZenonT(30)
    <2>6. CASE \E delay \in RetryDelays, late \in 0..Slip : ReleaseOwned(w, t, f, delay, late)
      <3>1. 0..Slip \subseteq Nat
        BY ConstantsAssumption DEF ConstantsAssumption
      <3> QED BY <2>1, <2>6, <3>1, ReleaseOwnedLedger, ZenonT(30)
    <2>7. CASE \E delay \in RetryDelays : ExpireOwned(w, t, f, delay)
      BY <2>1, <2>7, ExpireOwnedLedger, ZenonT(30)
    <2>8. CASE \E n \in WaitNames, span \in WaitSpans \union {0} : ScheduleWait(w, t, f, n, span)
      BY <2>1, <2>8, ScheduleWaitLedger, ZenonT(30)
    <2>9. CASE \E n \in WaitNames, span \in WaitSpans :
                  WaitForSignal(w, t, f, n, span) \/ WaitForHuman(w, t, f, n, span)
      BY <2>1, <2>9, WaitForLedger, ZenonT(30) DEF WaitForSignal, WaitForHuman
    <2> QED BY <2>2, <2>3, <2>4, <2>5, <2>6, <2>7, <2>8, <2>9, ZenonT(30) DEF HolderCall
  <1> QED BY <1>1, <1>2, ZenonT(30) DEF WorkerCall

LEMMA NextLedger ==
    ASSUME Inv, LedgerInv, [Next]_vars
    PROVE  LedgerInv'
  <1>1. CASE WorkerCall
    BY <1>1, WorkerCallLedger, Zenon
  <1>2. CASE OperatorCall
    <2>1. ASSUME NEW t \in Tasks, NEW d \in Definitions, NEW delay \in StartDelays,
                 Enqueue(t, d, delay)
          PROVE  LedgerInv'
      BY <2>1, EnqueueLedger, ZenonT(30)
    <2>2. ASSUME NEW t \in Tasks, Cancel(t) \/ RunTaskNow(t)
          PROVE  LedgerInv'
      BY <2>2, CancelLedger, RunTaskNowLedger, ZenonT(30)
    <2>3. ASSUME NEW t \in Tasks, NEW n \in WaitNames, NEW payload \in Payloads,
                 SendSignal(t, n, payload) \/ CompleteHumanWait(t, n, payload)
          PROVE  LedgerInv'
      BY <2>3, DeliverLedger, ZenonT(30) DEF SendSignal, CompleteHumanWait
    <2>4. CASE \E p \in PauseCalls : SetQueuePaused(p)
      BY <2>4, ZenonT(30) DEF SetQueuePaused, LedgerInv
    <2> QED BY <1>2, <2>1, <2>2, <2>3, <2>4, ZenonT(30) DEF OperatorCall
  <1>3. CASE Claim
    BY <1>3, ClaimLedger, ZenonT(30) DEF Claim
  <1>4. CASE Maintenance
    BY <1>4, TickLedger, ZenonT(30) DEF Maintenance
  <1>5. CASE ScanBecomesDue \/ Advance \/ UNCHANGED vars
    BY <1>5, ZenonT(30) DEF ScanBecomesDue, Advance, vars, LedgerInv
  <1> QED BY <1>1, <1>2, <1>3, <1>4, <1>5, ZenonT(30) DEF Next

\* The ledger, the row and the waits of every task agree in every reachable
\* state: what each settlement relies on when it picks the fence to charge.
THEOREM LedgerInvariance == Spec => []LedgerInv
  <1>1. Init => LedgerInv
    BY InitLedger, ZenonT(30)
  <1>2. Inv /\ LedgerInv /\ [Next]_vars => LedgerInv'
    BY NextLedger, ZenonT(30)
  <1> QED BY <1>1, <1>2, Invariance, PTL DEF Spec

\* attempt_history is a gapless ledger with growing fences: no interleaving of
\* retries, releases, waits, recovery and late calls skips an attempt, closes
\* one twice, or runs more attempts than the task was given.
THEOREM AttemptLedgerAlways == Spec => []AttemptLedger
  <1>1. Inv /\ LedgerInv => AttemptLedger
    <2> SUFFICES ASSUME Inv, LedgerInv, NEW t \in Tasks
                 PROVE  LET h == history[t]  o == outcome[t] IN
                        /\ Live(t) => /\ Len(h) = runtime[t].attempt - 1
                                      /\ runtime[t].attempt <= def[t].max
                        /\ o.state # "none" =>
                              Len(h) = IF o.fence = 0 THEN o.attempt - 1 ELSE o.attempt
                        /\ \A i \in 1..Len(h) : h[i].attempt = i
                        /\ \A i \in 2..Len(h) : h[i - 1].fence < h[i].fence
                        /\ o.fence # 0 => h[Len(h)].fence = o.fence
      BY ZenonT(30) DEF AttemptLedger
    <2> QED BY LedgerFacts, ZenonT(30) DEF Numbered, Fenced, Live
  <1> QED BY <1>1, Invariance, LedgerInvariance, PTL

\* The CHECK constraints of task_runtime and task_outcome hold of every row
\* that any sequence of calls writes, so none of them aborts a recovery pass.
THEOREM ConstraintsHoldAlways == Spec => []ConstraintsHold
  <1>1. Inv /\ LedgerInv => ConstraintsHold
    <2> SUFFICES ASSUME Inv, LedgerInv, NEW t \in Tasks
                 PROVE  LET r == runtime[t]  o == outcome[t] IN
                        /\ r.state = "active" =>
                              r.fence > 0 /\ r.worker # NoWorker /\ r.wait = NoName /\ r.started
                        /\ r.state \in {"scheduled", "ready"} =>
                              /\ r.fence = 0 /\ r.worker = NoWorker /\ r.timeoutAt = Never
                              /\ ~r.cancel
                        /\ r.state = "scheduled" => (r.wait # NoName <=> r.started)
                        /\ r.state = "ready" => r.wait = NoName
                        /\ o.state = "succeeded" => o.fence > 0
                        /\ (o.state = "failed" /\ o.fence = 0) => def[t].deadline <= o.at
      BY ZenonT(30) DEF ConstraintsHold
    <2>1. NoWorker \notin Workers
      BY ConstantsAssumption, ZenonT(30) DEF ConstantsAssumption
    <2>2. RowOK(def[t], runtime[t], now) /\ Decided(def[t], outcome[t])
      BY TypeFacts, LedgerFacts, SMTT(30)
    <2> QED BY <2>1, <2>2, ZenonT(30) DEF RowOK, Decided
  <1> QED BY <1>1, Invariance, LedgerInvariance, PTL

\* No task runs past a signal or a decision it still waits for, and a delivery
\* to an open wait of a live task finds the row suspended on it.
THEOREM OpenWaitSuspendsAlways == Spec => []OpenWaitSuspends
  <1>1. Inv /\ LedgerInv => OpenWaitSuspends
    BY LedgerFacts, ZenonT(30) DEF OpenWaitSuspends, Waiting, Open, Live
  <1> QED BY <1>1, Invariance, LedgerInvariance, PTL

\* complete_v1 is never accepted at or after the deadline the task was given,
\* whatever waits rewrote the deadline of its row before.
THEOREM SucceededInTimeAlways == Spec => []SucceededInTime
  <1>1. Inv /\ LedgerInv => SucceededInTime
    BY LedgerFacts, ZenonT(30) DEF SucceededInTime, Decided
  <1> QED BY <1>1, Invariance, LedgerInvariance, PTL
=============================================================================
