------------------------- MODULE ReservedConnection -------------------------
(***************************************************************************)
(* The pooled connection that the workers on one pool share for their      *)
(* heartbeats: ReservedConnection and holdHeartbeatConnection in           *)
(* typescript/core/src/heartbeat-connection.ts.                            *)
(*                                                                         *)
(* Every worker has at most one round in flight.  A round leads a          *)
(* transaction or joins the one in flight; the deadline of the leader      *)
(* bounds the transaction.  The last holder to close returns the           *)
(* connection, and a connect that is still pending then stays parked.      *)
(*                                                                         *)
(* Deadlines are countdowns.  A step of the model runs from one await to   *)
(* the next.  A transaction that has ended sends nothing more, because     *)
(* each of its sends looks at that first, so only the one in flight is     *)
(* kept.                                                                   *)
(***************************************************************************)
EXTENDS Naturals, Sequences, FiniteSets

CONSTANTS
    Workers,       \* the workers on the pool
    RoundTimes,    \* heartbeatRoundMs of the rounds they send
    BatchCounts,   \* batches of at most 100 leases that a round carries
    Attempts,      \* FENCED_WRITE_DEADLOCK_ATTEMPTS
    Lasting        \* a bound: workers that hold the connection all the time

ASSUME RoundAssumption == RoundTimes \subseteq Nat /\ BatchCounts \subseteq Nat

VARIABLES
    round,     \* of each worker: its latest RenewalRequest
    waiting,   \* the rounds that wait for a transaction, in order of arrival
    tx,        \* the transaction in flight
    conn,      \* client, connected, lost, the retry timer, and the session
    closed,    \* close() without a later reopen()
    holders,   \* the workers that hold the connection
    closing,   \* of each worker: the progress of its close()
    entry      \* sharedConnections holds this reservation

vars == <<round, waiting, tx, conn, closed, holders, closing, entry>>

NoTx == [st |-> "none", members |-> <<>>, lent |-> FALSE, mine |-> FALSE,
         stray |-> FALSE, sent |-> FALSE, err |-> "none", attempt |-> 1]

NoConn == [client |-> "none", lost |-> TRUE, retry |-> FALSE, session |-> "idle",
           parked |-> FALSE]

NoRound == [st |-> "idle", left |-> 0, batches |-> 0, rows |-> <<>>, passed |-> 0]

NewRound(time, n) ==
    [st |-> "waiting", left |-> time, batches |-> n, rows |-> <<>>, passed |-> 0]

NotClosing == [st |-> "none", awaits |-> {}, held |-> FALSE]

Unsettled(w) == round[w].st \in {"waiting", "member"}

Leader == tx.members[1].worker

\* A round that reached its deadline.  The clock can reach it before its timer
\* fires, and a round too short for a heartbeat counts as late.
Late == round[Leader].left = 0

\* MINIMUM_REMAINING_MS is less than one unit of the clock.
TooShort(short) == Late \/ (short /\ round[Leader].left = 1)

Usable == ~closed /\ conn.client # "none" /\ (conn.client = "connected" \/ ~conn.lost)

-----------------------------------------------------------------------------
(* The connection: acquire, discard *)

\* acquire() and reserve(): at most one connect at a time.
Acquired(c, isClosed) ==
    IF isClosed \/ c.client # "none" THEN c
    ELSE [c EXCEPT !.client = "connecting", !.retry = FALSE]

\* discard(): the connection is destroyed, with whatever runs on it.
Discarded(c) == [c EXCEPT !.client = "none", !.session = "idle"]

Connected(c) == [c EXCEPT !.client = "connected", !.session = "idle", !.parked = FALSE,
                          !.lost = IF closed THEN @ ELSE FALSE]

\* Faulty: a failed connect waits for the next round to try again.
ConnectFailedIdle(c) == [c EXCEPT !.client = "none", !.lost = TRUE, !.parked = FALSE]

ConnectFailed(c) == [c EXCEPT !.client = "none", !.lost = TRUE, !.parked = FALSE,
                              !.retry = ~closed]

-----------------------------------------------------------------------------
(* Transactions: startNext, join, endTransaction *)

\* Faulty: the round that arrived last leads.
NextLeaderNewest(r, queue) == Len(queue)

\* The waiting round with the earliest deadline, of equal ones the first.
NextLeader(r, queue) ==
    CHOOSE i \in DOMAIN queue :
        \A j \in DOMAIN queue :
            \/ r[queue[i]].left < r[queue[j]].left
            \/ r[queue[i]].left = r[queue[j]].left /\ i <= j

\* The rounds of the queue that are in S, in the order of the queue.
Only(queue, S) ==
    LET kept[i \in 0..Len(queue)] ==
            IF i = 0 THEN <<>>
            ELSE IF queue[i] \in S THEN Append(kept[i - 1], queue[i]) ELSE kept[i - 1]
    IN kept[Len(queue)]

Without(queue, w) == Only(queue, Workers \ {w})

Member(r, w) == [worker |-> w, live |-> TRUE, batches |-> r[w].batches]

\* startNext() with the rounds r, the queue and the connection c.  A closed
\* reservation refuses the connect, and the transaction fails at once.
StartNext(r, queue, c) ==
    IF queue = <<>> THEN /\ round' = r /\ waiting' = queue /\ tx' = NoTx /\ conn' = c
    ELSE LET i == NextLeader(r, queue)
             w == queue[i]
         IN /\ round' = [r EXCEPT ![w].st = "member"]
            /\ waiting' = Without(queue, w)
            /\ tx' = [NoTx EXCEPT !.st = IF closed THEN "refused" ELSE "connect",
                                  !.members = <<Member(r, w)>>]
            /\ conn' = Acquired(c, closed)

\* join(): rounds whose deadline is not earlier than the leader's.
Joins(w) == round[w].left >= round[Leader].left

Joined == Only(waiting, {w \in Workers : Joins(w)})

\* The statement holds the batches of the members one after the other.
Offset(members, i) ==
    LET before[j \in 0..Len(members)] ==
            IF j = 0 THEN 0 ELSE before[j - 1] + members[j].batches
    IN before[i]

\* The rows of the statement, each with the worker whose batch it answers.
Rows(members) ==
    [b \in 1..Offset(members, Len(members)) |->
        members[CHOOSE i \in DOMAIN members :
            Offset(members, i - 1) < b /\ b <= Offset(members, i)].worker]

\* Faulty: the offset does not move on from member to member.
RowsOfFirst(members, i) == [b \in 1..members[i].batches |-> Rows(members)[b]]

\* The rows that endTransaction gives to member i.
RowsOf(members, i) ==
    [b \in 1..members[i].batches |-> Rows(members)[Offset(members, i - 1) + b]]

\* A round with the rows that renew its leases.
Renewed(r, rows) ==
    [st |-> "resolved", left |-> r.left, batches |-> r.batches, rows |-> rows, passed |-> r.passed]

Resolved(members) ==
    [w \in Workers |->
        LET own == {i \in DOMAIN members : members[i].live /\ members[i].worker = w}
        IN IF own = {} THEN round[w]
           ELSE Renewed(round[w], RowsOf(members, CHOOSE i \in own : TRUE))]

Rejected(members) ==
    [w \in Workers |->
        IF \E i \in DOMAIN members : members[i].live /\ members[i].worker = w
        THEN [round[w] EXCEPT !.st = "rejected"] ELSE round[w]]

\* A transaction that sent its heartbeat has passed the rounds still waiting.
Passed(r) ==
    [w \in Workers |->
        IF tx.sent /\ \E i \in DOMAIN waiting : waiting[i] = w
        THEN [r[w] EXCEPT !.passed = @ + 1] ELSE r[w]]

\* The rounds that close() waits for settle.
Settle(r) ==
    closing' = [w \in Workers |->
        [closing[w] EXCEPT !.awaits = {v \in @ : r[v].st \in {"waiting", "member"}}]]

EndWithRows(c) ==
    LET r == Passed(Resolved(tx.members)) IN StartNext(r, waiting, c) /\ Settle(r)

\* Faulty: a session whose round expired is kept in any case.
EndWithErrorKept(c, clean) ==
    LET r == Passed(Rejected(tx.members))
    IN StartNext(r, waiting, Acquired(c, closed)) /\ Settle(r)

\* A failed transaction destroys the connection it sent a statement on, unless
\* it expired cleanly or the connection was replaced, and opens the next one.
EndWithError(c, clean) ==
    LET r == Passed(Rejected(tx.members))
        kept == IF tx.lent /\ tx.mine /\ ~clean THEN Discarded(c) ELSE c
    IN StartNext(r, waiting, Acquired(kept, closed)) /\ Settle(r)

Shared == UNCHANGED <<closed, holders, entry>>

-----------------------------------------------------------------------------
(* Holders: holdHeartbeatConnection *)

\* A new holder reopens the reservation and reserves the connection.  Without
\* an entry it makes a new reservation, here only once the old one is idle.
Hold(w) ==
    /\ w \notin holders /\ (entry \/ tx.st = "none")
    /\ holders' = holders \union {w} /\ closed' = FALSE /\ entry' = TRUE
    /\ LET old == IF entry THEN conn ELSE NoConn
           open == IF holders = {} /\ old.client = "connected"
                   THEN [old EXCEPT !.lost = FALSE] ELSE old
       IN conn' = Acquired(open, FALSE)
    /\ closing' = IF entry THEN closing
                  ELSE [v \in Workers |-> [closing[v] EXCEPT !.held = FALSE]]
    /\ UNCHANGED <<round, waiting, tx>>

\* The last holder closes the reservation and waits for its rounds.
Close(w) ==
    /\ w \in holders \ Lasting /\ closing[w].st = "none"
    /\ holders' = holders \ {w}
    /\ IF holders' = {}
       THEN /\ closed' = TRUE /\ conn' = [conn EXCEPT !.retry = FALSE]
            /\ closing' = [closing EXCEPT ![w] =
                  [st |-> "settling", awaits |-> {v \in Workers : Unsettled(v)}, held |-> TRUE]]
       ELSE UNCHANGED <<closed, conn, closing>>
    /\ UNCHANGED <<round, waiting, tx, entry>>

\* Faulty: the entry goes though another worker holds the reservation again.
ForgottenHeld(held) == entry /\ ~held

\* What is left of the entry after a close() that parked nothing.
Forgotten(held) == entry /\ ~(held /\ holders = {})

\* The client goes back to the pool while a transaction uses or awaits it: one
\* of a holder that came and closed after the close() that returns the client.
\* The transaction goes on with it.
Stray == IF tx.st \in {"none", "refused"} THEN tx
         ELSE [tx EXCEPT !.stray = TRUE, !.mine = FALSE]

\* Every round close() waited for has settled.  A client that arrived goes back
\* to the pool; a connect that did not stays parked, and the entry with it.  A
\* reservation that was reopened meanwhile, or replaced, is left alone.
CloseSettled(w) ==
    /\ closing[w].st = "settling" /\ closing[w].awaits = {}
    /\ LET ours == closing[w].held /\ closed
           parks == ours /\ conn.client = "connecting"
       IN /\ conn' = IF parks THEN [conn EXCEPT !.parked = TRUE]
                     ELSE IF ours /\ conn.client = "connected"
                     THEN [Discarded(conn) EXCEPT !.lost = TRUE]
                     ELSE conn
          /\ tx' = IF ours /\ conn.client = "connected" THEN Stray ELSE tx
          /\ entry' = IF parks THEN entry ELSE Forgotten(closing[w].held)
    /\ closing' = [closing EXCEPT ![w] = NotClosing]
    /\ UNCHANGED <<round, waiting, closed, holders>>

\* drained(): a parked connect settled while nobody holds the reservation.
Drained == entry' = (entry /\ holders # {})

-----------------------------------------------------------------------------
(* The connect *)

\* A connect that close() parked goes back to the pool when it arrives while
\* the reservation is closed, though a round of a later holder may await it:
\* that round then goes on with the returned client.
ConnectArrives ==
    /\ conn.client = "connecting"
    /\ IF conn.parked /\ closed
       THEN /\ conn' = [conn EXCEPT !.client = "none", !.lost = TRUE, !.parked = FALSE]
            /\ tx' = Stray
            /\ Drained
       ELSE conn' = Connected(conn) /\ UNCHANGED <<tx, entry>>
    /\ UNCHANGED <<round, waiting, closed, holders, closing>>

\* The transaction that awaits the connect fails with it.
ConnectFails ==
    /\ conn.client = "connecting"
    /\ IF tx.st = "connect" THEN EndWithError(ConnectFailed(conn), FALSE)
       ELSE conn' = ConnectFailed(conn) /\ UNCHANGED <<round, waiting, tx, closing>>
    /\ IF conn.parked /\ closed THEN Drained ELSE UNCHANGED entry
    /\ UNCHANGED <<closed, holders>>

\* The retry timer of scheduleRetry.
RetryConnect ==
    /\ conn.retry
    /\ conn' = Acquired([conn EXCEPT !.retry = FALSE], closed)
    /\ UNCHANGED <<round, waiting, tx, closed, holders, closing, entry>>

\* The connection fails: an error event reaches the reservation, which replaces
\* it at once.  Statements of the transaction on it fail from now on.
ConnectionFails ==
    /\ conn.client = "connected" /\ tx.st # "connect"
    /\ conn' = Acquired([Discarded(conn) EXCEPT !.lost = TRUE], closed)
    /\ tx' = [tx EXCEPT !.mine = FALSE]
    /\ UNCHANGED <<round, waiting, closed, holders, closing, entry>>

-----------------------------------------------------------------------------
(* Rounds *)

\* renew(): the round waits, and leads at once when nothing is in flight.
Renew(w) ==
    /\ w \in holders /\ ~Unsettled(w)
    /\ \E time \in RoundTimes, n \in BatchCounts :
          LET r == [round EXCEPT ![w] = NewRound(time, n)]
          IN IF tx.st = "none" THEN StartNext(r, Append(waiting, w), conn)
             ELSE round' = r /\ waiting' = Append(waiting, w) /\ UNCHANGED <<tx, conn>>
    /\ UNCHANGED closing /\ Shared

\* The members of a transaction after the round of w has timed out in it.
Dropped(members, w) ==
    [i \in DOMAIN members |->
        IF members[i].worker = w THEN [members[i] EXCEPT !.live = FALSE] ELSE members[i]]

\* timedOut(): the leader ends its transaction, any other round only itself.
TimedOut(w) ==
    /\ Unsettled(w) /\ round[w].left = 0
    /\ IF tx.st # "none" /\ Leader = w THEN EndWithError(conn, FALSE)
       ELSE LET r == [round EXCEPT ![w].st = "rejected"]
            IN /\ round' = r /\ waiting' = Without(waiting, w)
               /\ tx' = [tx EXCEPT !.members = Dropped(@, w)]
               /\ Settle(r) /\ UNCHANGED conn
    /\ Shared

\* A transaction started while the reservation is closed.
Refused == tx.st = "refused" /\ EndWithError(conn, FALSE) /\ Shared

\* transactOnce up to BEGIN.  With too little time left it sends nothing.
SendBegin(short) ==
    /\ tx.st = "connect" /\ (conn.client = "connected" \/ tx.stray)
    /\ IF TooShort(short) THEN EndWithError(conn, ~tx.sent)
       ELSE /\ tx' = [tx EXCEPT !.st = "begin", !.lent = TRUE, !.mine = ~tx.stray]
            /\ UNCHANGED <<round, waiting, conn, closing>>
    /\ Shared

\* The client still answers: it is the reservation's, or it went back to the
\* pool alive.
Answers == tx.mine \/ tx.stray

Session(s) == [conn EXCEPT !.session = IF tx.mine THEN s ELSE @]

\* The catch of transactOnce: ROLLBACK, if the deadline has not passed.
Rollback(err, s) ==
    IF Late THEN EndWithError(Session(s), FALSE)
    ELSE /\ tx' = [tx EXCEPT !.st = "rollback", !.err = err]
         /\ conn' = Session(s) /\ UNCHANGED <<round, waiting, closing>>

\* The heartbeat has not been sent by any attempt of the transaction.
Expiry == IF tx.sent THEN "expired" ELSE "clean"

BeginAnswered(short) ==
    /\ tx.st = "begin" /\ Answers
    /\ IF TooShort(short) THEN Rollback(Expiry, "open")
       ELSE /\ tx' = [tx EXCEPT !.st = "settings"]
            /\ conn' = Session("open") /\ UNCHANGED <<round, waiting, closing>>
    /\ Shared

\* After ROUND_TIMEOUTS: the waiting rounds join and the heartbeat leaves,
\* unless the settings took too long.
SettingsAnswered(slow) ==
    /\ tx.st = "settings" /\ Answers
    /\ IF Late \/ slow THEN Rollback(Expiry, "open")
       ELSE /\ tx' = [tx EXCEPT !.st = "heartbeat", !.sent = TRUE,
                         !.members = @ \o [i \in DOMAIN Joined |-> Member(round, Joined[i])]]
            /\ round' = [w \in Workers |->
                  IF \E i \in DOMAIN Joined : Joined[i] = w
                  THEN [round[w] EXCEPT !.st = "member"] ELSE round[w]]
            /\ waiting' = Only(waiting, {w \in Workers : ~Joins(w)})
            /\ UNCHANGED <<conn, closing>>
    /\ Shared

\* heartbeat_pool_v1 answers; COMMIT leaves only before the deadline.
HeartbeatAnswered ==
    /\ tx.st = "heartbeat" /\ Answers
    /\ IF Late THEN Rollback("expired", "open")
       ELSE tx' = [tx EXCEPT !.st = "commit"] /\ UNCHANGED <<round, waiting, conn, closing>>
    /\ Shared

\* A COMMIT that ends after the deadline is no renewal.
CommitAnswered ==
    /\ tx.st = "commit" /\ Answers
    /\ IF Late THEN EndWithError(Session("idle"), FALSE) ELSE EndWithRows(Session("idle"))
    /\ Shared

\* A statement fails: the server timeout, a deadlock, or the connection.
StatementFails(err) ==
    /\ tx.st \in {"settings", "heartbeat", "commit"} /\ Answers
    /\ err = "deadlock" => tx.st = "heartbeat"
    /\ Rollback(err, "aborted") /\ Shared

\* On a connection that is gone every statement fails, ROLLBACK included.
StatementLost ==
    /\ tx.lent /\ ~Answers
    /\ EndWithError(conn, FALSE) /\ Shared

\* A clean expiry whose ROLLBACK ends late is not clean.  A deadlock sends the
\* whole transaction again.
RollbackAnswered ==
    /\ tx.st = "rollback" /\ Answers
    /\ IF tx.err = "deadlock" /\ tx.attempt < Attempts
       THEN /\ tx' = [tx EXCEPT !.st = "connect", !.err = "none", !.attempt = @ + 1]
            /\ conn' = Session("idle") /\ UNCHANGED <<round, waiting, closing>>
       ELSE EndWithError(Session("idle"), tx.err = "clean" /\ ~Late)
    /\ Shared

Elapse ==
    /\ round' = [w \in Workers |->
          IF Unsettled(w) /\ round[w].left > 0 THEN [round[w] EXCEPT !.left = @ - 1]
          ELSE round[w]]
    /\ UNCHANGED <<waiting, tx, conn, closed, holders, closing, entry>>

Init ==
    /\ round = [w \in Workers |-> NoRound] /\ waiting = <<>> /\ tx = NoTx
    /\ holders = Lasting /\ entry = (Lasting # {}) /\ closed = (Lasting = {})
    /\ conn = Acquired(NoConn, closed)
    /\ closing = [w \in Workers |-> NotClosing]

\* The steps of the transaction when the database answers.
Answered ==
    \/ \E short \in BOOLEAN : SendBegin(short) \/ BeginAnswered(short) \/ SettingsAnswered(short)
    \/ HeartbeatAnswered \/ CommitAnswered \/ RollbackAnswered

Failed == StatementLost \/ \E err \in {"failed", "deadlock"} : StatementFails(err)

Next ==
    \/ \E w \in Workers : Hold(w) \/ Close(w) \/ CloseSettled(w)
    \/ \E w \in Workers : Renew(w) \/ TimedOut(w)
    \/ ConnectArrives \/ ConnectFails \/ RetryConnect \/ ConnectionFails
    \/ Refused \/ Answered \/ Failed \/ Elapse

Spec == Init /\ [][Next]_vars

-----------------------------------------------------------------------------
(* Properties *)

\* Between two transactions the session of the connection is outside any
\* transaction: endTransaction keeps a client only when nothing of the ended
\* transaction can still be open on it, so no BEGIN meets an open one.
SessionIdle ==
    conn.client = "connected" /\ ~(tx.lent /\ tx.mine) => conn.session = "idle"

\* A round is given the rows of its own batches, all of them and no others,
\* whichever rounds joined its statement or timed out in it.
RowsReachTheirRound ==
    \A w \in DOMAIN round : round[w].st = "resolved" =>
        round[w].rows = [b \in 1..round[w].batches |-> w]

\* No round waits for more heartbeats than that of the transaction in flight
\* when it arrives: it leads or joins the next one.
NotPassedTwice == \A w \in DOMAIN round : Unsettled(w) => round[w].passed <= 1

\* Rounds that share a transaction get the rows of their own batches (endTransaction), and no round
\* waits for more heartbeats than the one in flight when it arrives (startNext, join).
RoundsShare == RowsReachTheirRound /\ NotPassedTwice

\* A reservation leaves sharedConnections only when it has no holder and no
\* connection, so the workers of a pool never hold two heartbeat connections.
OneReservation == ~entry => holders = {} /\ conn.client = "none"

\* The heartbeat connection is whole between its uses: its session is in no transaction
\* (endTransaction), and a reservation leaves sharedConnections without holder and connection
\* (holdHeartbeatConnection).
ConnectionKept == SessionIdle /\ OneReservation

\* Somebody holds the reservation and the claim gate is closed.
GateClosed == holders # {} /\ ~Usable

\* close() returns the client to its pool only once every round in flight has
\* settled: no transaction sends statements on a client that went back.
NoStrayTransaction == ~(tx.stray /\ tx.lent)
=============================================================================
