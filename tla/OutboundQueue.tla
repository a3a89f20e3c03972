--------------------------- MODULE OutboundQueue ---------------------------
(***************************************************************************)
(* The durable outbound queue of whatsrust: the `outbound_queue` table of  *)
(* storage.rs, the worker `handle_outbound`, the shutdown drain inside     *)
(* `run_bot_session`, and the part of `run_bridge` that starts, ends and   *)
(* restarts sessions (bridge.rs).                                          *)
(*                                                                         *)
(* A step is what happens between two await points.  Time is relative: a   *)
(* row carries its age (now - updated_at) and its wait (retry_after - now),*)
(* both moved by Tick, so behaviours are not cut off by a clock bound.     *)
(*                                                                         *)
(* A future dropped by tokio::select! does not cancel the spawn_blocking   *)
(* closure it was waiting for (Store::run), so a database operation that   *)
(* is pending at the drop may still take effect: see Abandon.              *)
(***************************************************************************)
EXTENDS Naturals

CONSTANTS
    NumJobs,        \* enqueue calls in a behaviour (bound)
    BadJid,         \* jobs whose jid does not parse
    Polls,          \* jobs of kind Poll: their key must be stored after the send
    NoId,           \* jobs of kind Edit or Revoke: sent without a message id
    MaxRetries,     \* config.max_outbound_retries
    StaleSecs,      \* 30 in run_bridge's loop, scaled down
    StartStaleSecs, \* 60 at the start of run_bridge, scaled down
    PruneSecs,      \* 86400 in the prune task, scaled down
    MaxDelay,       \* longest schedule of enqueue_job_at (bound)
    Receipts,       \* delivery states the server's receipts report
    MaxFaults       \* session ends, process deaths and database errors (bound)

Jobs == 1 .. NumJobs

ASSUME QueueAssumption ==
    /\ NumJobs \in Nat \ {0}
    /\ BadJid \subseteq Jobs /\ Polls \subseteq Jobs /\ NoId \subseteq Jobs
    /\ Polls \cap NoId = {}
    /\ MaxRetries \in Nat \ {0}
    /\ StaleSecs \in Nat /\ StartStaleSecs \in Nat /\ PruneSecs \in Nat
    /\ StaleSecs <= StartStaleSecs /\ StartStaleSecs <= PruneSecs
    /\ MaxDelay \in Nat /\ MaxFaults \in Nat
    /\ Receipts \subseteq {"sent", "delivered", "read", "played", "failed", "unknown"}

VARIABLES
    rows,      \* the table: a row for every job id handed out so far
    bridge,    \* where run_bridge stands
    cancel,    \* the CancellationToken
    client,    \* does client_handle hold a client
    worker,    \* handle_outbound, or the drain while bridge = "draining"
    waiter,    \* callers of enqueue_and_wait
    pollKeys,  \* jobs whose poll key is in poll_keys, with the send it belongs to
    delivered, \* messages of a job that reached the server
    lost,      \* of these, the ones the table never learnt of
    acked,     \* of these, the ones recorded as sent
    attempts,  \* executions of a job that were reported as failed
    faults     \* faults so far

vars == <<rows, bridge, cancel, client, worker, waiter, pollKeys,
          delivered, lost, acked, attempts, faults>>

ghosts == <<delivered, lost, acked, attempts>>

----------------------------------------------------------------------------
(* Data *)

NoJob == 0
None == "none"

\* "absent": the id was not handed out yet; "pruned": the row was deleted.
RowStatus == {"absent", "queued", "inflight", "sent", "failed", "pruned"}
Delivery == {None, "sent", "delivered", "read", "played", "failed", "unknown"}

AgeCap == PruneSecs + 1

Row == [status: RowStatus, retries: Nat, wait: Nat, age: 0 .. AgeCap,
        wa: Nat, delivery: Delivery]

BlankRow == [status |-> "absent", retries |-> 0, wait |-> 0, age |-> 0,
             wa |-> 0, delivery |-> None]

WorkerPc == {"idle", "claiming", "claimed", "sending", "unmarked", "erred", "announce"}
IdleWorker == [pc |-> "idle", job |-> NoJob]

\* 1i64 << retries.min(6)
Backoff(retries) ==
    IF retries >= 6 THEN 64 ELSE <<1, 2, 4, 8, 16, 32>>[retries + 1]

----------------------------------------------------------------------------
(* The statements of storage.rs, as functions from a table to a table *)

Insert(t, j, delay) ==
    [t EXCEPT ![j] = [status |-> "queued", retries |-> 0, wait |-> delay, age |-> 0,
                      wa |-> 0, delivery |-> None]]

Claimable(t) == {j \in Jobs : t[j].status = "queued" /\ t[j].wait = 0}

\* Mutant: the claim selects the row but does not update it.
ClaimSelectOnly(t, j) == t

Claim(t, j) == [t EXCEPT ![j] = [t[j] EXCEPT !.status = "inflight", !.age = 0]]

\* Mutant: the message id is written, the status in a later statement.
MarkSentIdOnly(t, j, wa) == [t EXCEPT ![j].wa = wa, ![j].age = 0]

MarkSent(t, j, wa) ==
    [t EXCEPT ![j] = [t[j] EXCEPT !.status = "sent",
                                  !.wa = IF wa = 0 THEN t[j].wa ELSE wa,
                                  !.age = 0]]

MarkFailed(t, j, max) ==
    LET n == t[j].retries + 1
    IN  [t EXCEPT ![j] = [t[j] EXCEPT
            !.retries = n,
            !.status = IF n >= max THEN "failed" ELSE "queued",
            !.wait = IF n >= max THEN 0 ELSE Backoff(t[j].retries),
            !.age = 0]]

\* Mutant: the status is forgotten.
RequeueTouchOnly(t, j) == [t EXCEPT ![j].age = 0]

Requeue(t, j) == [t EXCEPT ![j] = [t[j] EXCEPT !.status = "queued", !.age = 0]]

RequeueStale(t, secs) ==
    [j \in Jobs |-> IF t[j].status = "inflight" /\ t[j].age > secs
                    THEN [t[j] EXCEPT !.status = "queued", !.age = 0]
                    ELSE t[j]]

SetDelivery(t, j, wa, st) ==
    IF t[j].status # "pruned" /\ t[j].wa = wa
    THEN [t EXCEPT ![j] = [t[j] EXCEPT !.delivery = st, !.age = 0]]
    ELSE t

\* Mutant: old rows are deleted whatever their status.
PruneAnyStatus(t) ==
    [j \in Jobs |-> IF t[j].status # "absent" /\ t[j].age > PruneSecs
                    THEN [BlankRow EXCEPT !.status = "pruned"]
                    ELSE t[j]]

PruneOld(t) ==
    [j \in Jobs |-> IF t[j].status \in {"sent", "failed"} /\ t[j].age > PruneSecs
                    THEN [BlankRow EXCEPT !.status = "pruned"]
                    ELSE t[j]]

\* A second passes: updated_at and retry_after are compared with the clock.
Aged(t) ==
    [j \in Jobs |-> IF t[j].status \in {"absent", "pruned"} THEN t[j]
                    ELSE [t[j] EXCEPT !.age = IF @ < AgeCap THEN @ + 1 ELSE @,
                                      !.wait = IF @ > 0 THEN @ - 1 ELSE 0]]

----------------------------------------------------------------------------
(* Statements the worker (or the drain) waits for, with their bookkeeping *)

Draining == bridge = "draining"

Count(f, j) == [f EXCEPT ![j] = @ + 1]

\* ORDER BY id LIMIT 1
First(j) == j \in Claimable(rows) /\ \A k \in Claimable(rows) : j <= k

ClaimStmt(j) ==
    /\ First(j)
    /\ rows' = Claim(rows, j)
    /\ UNCHANGED <<pollKeys, ghosts>>

\* The worker passes max_retries 0, the drain the configured budget.
RejectStmt(j) ==
    /\ j \in BadJid
    /\ rows' = MarkFailed(rows, j, IF Draining THEN MaxRetries ELSE 0)
    /\ UNCHANGED <<pollKeys, ghosts>>

\* Mutant: a lost connection burns the retry budget.
RequeueBurningRetry(j) ==
    /\ rows' = MarkFailed(rows, j, MaxRetries)
    /\ UNCHANGED <<pollKeys, ghosts>>

RequeueStmt(j) ==
    /\ rows' = Requeue(rows, j)
    /\ UNCHANGED <<pollKeys, ghosts>>

SentStmt(j) ==
    /\ rows' = MarkSent(rows, j, IF j \in NoId THEN 0 ELSE delivered[j])
    /\ acked' = Count(acked, j)
    /\ UNCHANGED <<pollKeys, delivered, lost, attempts>>

FailStmt(j) ==
    /\ rows' = MarkFailed(rows, j, MaxRetries)
    /\ UNCHANGED <<pollKeys, ghosts>>

\* Mutant: the key is stored under an empty message id.
KeyUnderEmptyId(j) ==
    /\ pollKeys' = IF j \in Polls THEN pollKeys \cup {<<j, 0>>} ELSE pollKeys
    /\ UNCHANGED <<rows, ghosts>>

KeyStmt(j) ==
    /\ pollKeys' = IF j \in Polls THEN pollKeys \cup {<<j, delivered[j]>>} ELSE pollKeys
    /\ UNCHANGED <<rows, ghosts>>

NoStmt == UNCHANGED <<rows, pollKeys, ghosts>>

\* The message was sent, and the table will not learn of it.
ForgetSend(j) ==
    /\ lost' = Count(lost, j)
    /\ UNCHANGED <<rows, pollKeys, delivered, acked, attempts>>

\* The message reached the server, but its sender is not told so.
BlindSend(j) ==
    /\ delivered' = Count(delivered, j)
    /\ lost' = Count(lost, j)
    /\ UNCHANGED <<rows, pollKeys, acked, attempts>>

\* The worker's future is dropped wherever it stands: by tokio::select! when
\* the session ends or shutdown begins, by the drain's timeout, or with the
\* process.  The statement it waits for happens or not.
Abandon ==
    LET j == worker.job
    IN  \/ worker.pc # "unmarked" /\ NoStmt
        \/ worker.pc = "claiming" /\ \E k \in Jobs : ClaimStmt(k)
        \/ worker.pc = "claimed" /\ RejectStmt(j)
        \/ worker.pc = "claimed" /\ ~Draining /\ ~client /\ j \notin BadJid /\ RequeueStmt(j)
        \/ worker.pc = "sending" /\ BlindSend(j)
        \/ worker.pc = "unmarked" /\ (SentStmt(j) \/ ForgetSend(j))
        \/ worker.pc = "erred" /\ (IF Draining THEN RequeueStmt(j) ELSE FailStmt(j))
        \/ worker.pc = "announce" /\ KeyStmt(j)

Fault == faults < MaxFaults /\ faults' = faults + 1

----------------------------------------------------------------------------
(* Callers *)

Alive == bridge # "dead"

NextId(j) == rows[j].status = "absent" /\ \A k \in Jobs : k < j => rows[k].status # "absent"

\* enqueue_op; sync callers went through enqueue_and_wait, which subscribes to
\* the event bus before it inserts the row.
EnqueueOp(j, sync) ==
    /\ Alive
    /\ NextId(j)
    /\ rows' = Insert(rows, j, 0)
    /\ waiter' = [waiter EXCEPT ![j] = IF sync THEN "waiting" ELSE None]
    /\ UNCHANGED <<bridge, cancel, client, worker, pollKeys, ghosts, faults>>

EnqueueOpAt(j, delay) ==
    /\ Alive
    /\ NextId(j)
    /\ rows' = Insert(rows, j, delay)
    /\ UNCHANGED <<bridge, cancel, client, worker, waiter, pollKeys, ghosts, faults>>

\* SYNC_SEND_WAIT is over: SendTimedOut
WaiterTimeout(j) ==
    /\ waiter[j] = "waiting"
    /\ waiter' = [waiter EXCEPT ![j] = "timedout"]
    /\ UNCHANGED <<rows, bridge, cancel, client, worker, pollKeys, ghosts, faults>>

\* An OutboundStatus event for job j; a receiver that lags behind misses it.
Announce(j, verdict) ==
    waiter' \in {waiter, [waiter EXCEPT ![j] = IF @ = "waiting" THEN verdict ELSE @]}

Stop ==
    /\ Alive /\ ~cancel
    /\ cancel' = TRUE
    /\ UNCHANGED <<rows, bridge, client, worker, waiter, pollKeys, ghosts, faults>>

----------------------------------------------------------------------------
(* handle_outbound *)

WorkerVars == <<bridge, cancel, client>>

Serving == bridge = "session"

WorkerCheck ==
    /\ Serving /\ worker.pc = "idle" /\ ~cancel /\ client
    /\ worker' = [pc |-> "claiming", job |-> NoJob]
    /\ NoStmt /\ UNCHANGED <<WorkerVars, waiter, faults>>

WorkerClaim ==
    /\ Serving /\ worker.pc = "claiming"
    /\ \/ /\ \E j \in Jobs : ClaimStmt(j) /\ worker' = [pc |-> "claimed", job |-> j]
          /\ UNCHANGED faults
       \/ Claimable(rows) = {} /\ NoStmt /\ worker' = IdleWorker /\ UNCHANGED faults
       \/ NoStmt /\ worker' = IdleWorker /\ Fault
    /\ UNCHANGED <<WorkerVars, waiter>>

WorkerReject ==
    LET j == worker.job
    IN  /\ Serving /\ worker.pc = "claimed" /\ j \in BadJid
        /\ \/ RejectStmt(j) /\ UNCHANGED faults
           \/ NoStmt /\ Fault
        /\ Announce(j, "failed")
        /\ worker' = IdleWorker
        /\ UNCHANGED WorkerVars

\* send_pacer.wait_turn is over; the client is looked up again.
WorkerPaced ==
    LET j == worker.job
    IN  /\ Serving /\ worker.pc = "claimed" /\ j \notin BadJid
        /\ \/ /\ client
              /\ worker' = [worker EXCEPT !.pc = "sending"]
              /\ NoStmt /\ UNCHANGED faults
           \/ /\ ~client
              /\ worker' = IdleWorker
              /\ \/ RequeueStmt(j) /\ UNCHANGED faults
                 \/ NoStmt /\ Fault
        /\ UNCHANGED <<WorkerVars, waiter>>

\* execute_job returned Ok
SendOk(j) ==
    /\ delivered' = Count(delivered, j)
    /\ worker' = [worker EXCEPT !.pc = "unmarked"]
    /\ UNCHANGED <<rows, pollKeys, lost, acked, attempts>>

\* execute_job returned Err: the message may have reached the server
SendErr(j) ==
    /\ attempts' = Count(attempts, j)
    /\ \/ UNCHANGED <<delivered, lost>>
       \/ delivered' = Count(delivered, j) /\ lost' = Count(lost, j)
    /\ worker' = [worker EXCEPT !.pc = "erred"]
    /\ UNCHANGED <<rows, pollKeys, acked>>

WorkerExecute ==
    /\ Serving /\ worker.pc = "sending"
    /\ SendOk(worker.job) \/ SendErr(worker.job)
    /\ UNCHANGED <<WorkerVars, waiter, faults>>

\* Up to three tries of mark_outbound_sent_with_id; a fault is three failures.
WorkerMarkSent ==
    LET j == worker.job
    IN  /\ Serving /\ worker.pc = "unmarked"
        /\ \/ SentStmt(j) /\ UNCHANGED faults
           \/ ForgetSend(j) /\ Fault
        /\ worker' = [worker EXCEPT !.pc = "announce"]
        /\ UNCHANGED <<WorkerVars, waiter>>

\* Store the poll key, then emit Sent.
WorkerAnnounce ==
    LET j == worker.job
    IN  /\ Serving /\ worker.pc = "announce"
        /\ \/ KeyStmt(j) /\ UNCHANGED faults
           \/ j \in Polls /\ NoStmt /\ Fault
        /\ Announce(j, "ok")
        /\ worker' = IdleWorker
        /\ UNCHANGED WorkerVars

\* The claimed row's copy of retries decides whether Failed is emitted.
WorkerMarkFailed ==
    LET j == worker.job
    IN  /\ Serving /\ worker.pc = "erred"
        /\ \/ FailStmt(j) /\ UNCHANGED faults
           \/ NoStmt /\ Fault
        /\ IF rows[j].retries + 1 >= MaxRetries
           THEN Announce(j, "failed")
           ELSE UNCHANGED waiter
        /\ worker' = IdleWorker
        /\ UNCHANGED WorkerVars

WorkerStep ==
    \/ WorkerCheck \/ WorkerClaim \/ WorkerReject \/ WorkerPaced
    \/ WorkerExecute \/ WorkerMarkSent \/ WorkerAnnounce \/ WorkerMarkFailed

----------------------------------------------------------------------------
(* The drain: the cancelled() arm of run_bot_session's select *)

DrainHome == [pc |-> "claiming", job |-> NoJob]

BeginDrain ==
    /\ Serving /\ cancel
    /\ Abandon
    /\ bridge' = IF client THEN "draining" ELSE "stopped"
    /\ worker' = IF client THEN DrainHome ELSE IdleWorker
    /\ UNCHANGED <<cancel, client, waiter, faults>>

FinishDrain == bridge' = "stopped" /\ worker' = IdleWorker

DrainClaim ==
    /\ Draining /\ worker.pc = "claiming"
    /\ \/ /\ \E j \in Jobs : ClaimStmt(j) /\ worker' = [pc |-> "claimed", job |-> j]
          /\ UNCHANGED <<bridge, faults>>
       \/ Claimable(rows) = {} /\ NoStmt /\ FinishDrain /\ UNCHANGED faults
       \/ NoStmt /\ FinishDrain /\ Fault
    /\ UNCHANGED <<cancel, client, waiter>>

DrainReject ==
    /\ Draining /\ worker.pc = "claimed" /\ worker.job \in BadJid
    /\ \/ RejectStmt(worker.job) /\ UNCHANGED faults
       \/ NoStmt /\ Fault
    /\ worker' = DrainHome
    /\ UNCHANGED <<WorkerVars, waiter>>

DrainPaced ==
    /\ Draining /\ worker.pc = "claimed" /\ worker.job \notin BadJid
    /\ worker' = [worker EXCEPT !.pc = "sending"]
    /\ NoStmt /\ UNCHANGED <<WorkerVars, waiter, faults>>

DrainExecute ==
    /\ Draining /\ worker.pc = "sending"
    /\ SendOk(worker.job) \/ SendErr(worker.job)
    /\ UNCHANGED <<WorkerVars, waiter, faults>>

\* outcome.poll_key is not looked at, and no event is emitted.
DrainMarkSent ==
    /\ Draining /\ worker.pc = "unmarked"
    /\ \/ SentStmt(worker.job) /\ UNCHANGED faults
       \/ ForgetSend(worker.job) /\ Fault
    /\ worker' = DrainHome
    /\ UNCHANGED <<WorkerVars, waiter>>

DrainRequeue ==
    /\ Draining /\ worker.pc = "erred"
    /\ \/ RequeueStmt(worker.job) /\ UNCHANGED faults
       \/ NoStmt /\ Fault
    /\ FinishDrain
    /\ UNCHANGED <<cancel, client, waiter>>

\* config.drain_timeout_secs
DrainTimeout ==
    /\ Draining
    /\ Abandon
    /\ FinishDrain
    /\ UNCHANGED <<cancel, client, waiter, faults>>

DrainStep ==
    \/ DrainClaim \/ DrainReject \/ DrainPaced \/ DrainExecute
    \/ DrainMarkSent \/ DrainRequeue \/ DrainTimeout

----------------------------------------------------------------------------
(* run_bridge and the process around it *)

\* A new process: run_bridge runs up to its reconnect loop.
Start ==
    /\ bridge = "dead"
    /\ bridge' = "between"
    /\ \/ rows' = RequeueStale(rows, StartStaleSecs) /\ UNCHANGED faults
       \/ UNCHANGED rows /\ Fault
    /\ UNCHANGED <<cancel, client, worker, waiter, pollKeys, ghosts>>

\* One turn of the loop: recover stale rows, clear the client handle, run.
StartSession ==
    /\ bridge = "between" /\ ~cancel
    /\ bridge' = "session"
    /\ client' = FALSE
    /\ \/ rows' = RequeueStale(rows, StaleSecs) /\ UNCHANGED faults
       \/ UNCHANGED rows /\ Fault
    /\ UNCHANGED <<cancel, worker, waiter, pollKeys, ghosts>>

\* Mutant: the backoff sleep does not watch the token.
StopBetweenUnwatched == FALSE

\* The loop, or the backoff sleep, sees the token.
StopBetween ==
    /\ bridge = "between" /\ cancel
    /\ bridge' = "stopped"
    /\ NoStmt /\ UNCHANGED <<cancel, client, worker, waiter, faults>>

\* handle_outbound returns because of the token, and wins the select: no drain.
WorkerBreak ==
    /\ Serving /\ worker.pc = "idle" /\ cancel
    /\ bridge' = "stopped"
    /\ NoStmt /\ UNCHANGED <<cancel, client, worker, waiter, faults>>

\* The bot task ends: reconnect, or stop (ban, outdated client, replacements).
SessionEnds ==
    /\ Serving
    /\ Fault
    /\ Abandon
    /\ worker' = IdleWorker
    /\ bridge' \in IF cancel THEN {"stopped"} ELSE {"between", "stopped"}
    /\ UNCHANGED <<cancel, client, waiter>>

\* The process exits or crashes; only the database survives.
Die ==
    /\ Alive
    /\ Fault
    /\ Abandon
    /\ worker' = IdleWorker
    /\ bridge' = "dead"
    /\ cancel' = FALSE
    /\ client' = FALSE
    /\ waiter' = [j \in Jobs |-> IF waiter[j] = "waiting" THEN None ELSE waiter[j]]

\* Event::Connected, and the events that clear the handle
Connect ==
    /\ Serving /\ ~client
    /\ client' = TRUE
    /\ NoStmt /\ UNCHANGED <<bridge, cancel, worker, waiter, faults>>

Disconnect ==
    /\ Alive /\ client
    /\ client' = FALSE
    /\ NoStmt /\ UNCHANGED <<bridge, cancel, worker, waiter, faults>>

\* Event::Receipt for one message id.  Its OutboundStatus event carries job id
\* 0, so no waiter takes it for its own.
Receipt(j, wa, st) ==
    /\ Alive
    /\ j \notin NoId
    /\ rows' = SetDelivery(rows, j, wa, st)
    /\ UNCHANGED <<bridge, cancel, client, worker, waiter, pollKeys, ghosts, faults>>

Prune ==
    /\ Alive /\ ~cancel
    /\ rows' = PruneOld(rows)
    /\ UNCHANGED <<bridge, cancel, client, worker, waiter, pollKeys, ghosts, faults>>

Tick ==
    /\ rows' = Aged(rows)
    /\ UNCHANGED <<bridge, cancel, client, worker, waiter, pollKeys, ghosts, faults>>

----------------------------------------------------------------------------
(* The specification *)

Init ==
    /\ rows = [j \in Jobs |-> BlankRow]
    /\ bridge = "dead"
    /\ cancel = FALSE
    /\ client = FALSE
    /\ worker = IdleWorker
    /\ waiter = [j \in Jobs |-> None]
    /\ pollKeys = {}
    /\ delivered = [j \in Jobs |-> 0]
    /\ lost = [j \in Jobs |-> 0]
    /\ acked = [j \in Jobs |-> 0]
    /\ attempts = [j \in Jobs |-> 0]
    /\ faults = 0

CallerStep ==
    \/ \E j \in Jobs, sync \in BOOLEAN : EnqueueOp(j, sync)
    \/ \E j \in Jobs, delay \in 0 .. MaxDelay : EnqueueOpAt(j, delay)
    \/ \E j \in Jobs : WaiterTimeout(j)
    \/ Stop

LifecycleStep ==
    \/ Start \/ StartSession \/ StopBetween \/ WorkerBreak \/ BeginDrain
    \/ SessionEnds \/ Die \/ Connect \/ Disconnect

TableStep ==
    \/ \E j \in Jobs : \E wa \in 1 .. delivered[j], st \in Receipts : Receipt(j, wa, st)
    \/ Prune
    \/ Tick

Next == CallerStep \/ WorkerStep \/ DrainStep \/ LifecycleStep \/ TableStep

Spec == Init /\ [][Next]_vars

----------------------------------------------------------------------------
(* Properties *)

\* Rows, worker record, ledgers and the rest have their types.
TypeOK ==
    /\ rows \in [Jobs -> Row]
    /\ bridge \in {"dead", "between", "session", "draining", "stopped"}
    /\ cancel \in BOOLEAN /\ client \in BOOLEAN
    /\ worker \in [pc: WorkerPc, job: Jobs \cup {NoJob}]
    /\ waiter \in [Jobs -> {None, "waiting", "ok", "failed", "timedout"}]
    /\ pollKeys \subseteq Jobs \X Nat
    /\ delivered \in [Jobs -> Nat] /\ lost \in [Jobs -> Nat]
    /\ acked \in [Jobs -> Nat] /\ attempts \in [Jobs -> Nat]
    /\ faults \in 0 .. MaxFaults

Holding == worker.pc \in {"claimed", "sending", "unmarked", "erred"}

InHand(j) == IF worker.pc = "unmarked" /\ worker.job = j THEN 1 ELSE 0

\* Nothing else moves the row of the job being executed: between the claim and
\* the statement that settles it the row stays inflight, although the requeue,
\* mark and prune statements of storage.rs do not check who holds the row.
HeldRowInflight == Holding => rows[worker.job].status = "inflight"

\* A row says 'sent' only for a job whose message reached the server.
SentWasDelivered ==
    \A j \in Jobs : rows[j].status = "sent" => delivered[j] > 0 /\ acked[j] = 1

\* A receipt never marks a row that is not 'sent': mark_outbound_sent_with_id
\* writes the status and the message id together.
DeliveryImpliesSent ==
    \A j \in Jobs : rows[j].delivery # None => rows[j].status = "sent"

\* What a row says is so: it is inflight for as long as somebody executes its
\* job, and it says sent, or shows a delivery state, only of a message that
\* reached the server.
RowsTrue == TypeOK /\ HeldRowInflight /\ SentWasDelivered /\ DeliveryImpliesSent

\* Every message that reached the server is either recorded as sent, in the
\* hands of the worker on its way to being recorded, or counted as lost to a
\* fault; and none is recorded twice.  So a job whose send was recorded is
\* never executed again, and duplicates only follow a lost acknowledgement.
SendsAccounted ==
    \A j \in Jobs : /\ delivered[j] = lost[j] + acked[j] + InHand(j)
                    /\ acked[j] <= 1

\* A job with a valid jid is dropped as 'failed' only after max_retries failed
\* executions: requeues for lost connections, stale rows and drains are free.
DroppedOnlyAfterBudget ==
    \A j \in Jobs \ BadJid : rows[j].status = "failed" => attempts[j] >= MaxRetries

\* A caller told that its poll was sent can rely on its votes being readable:
\* without faults the key is stored before Sent is emitted.
AnnouncedPollHasKey ==
    \A j \in Polls : waiter[j] = "ok" /\ faults = 0 => <<j, delivered[j]>> \in pollKeys

\* What enqueue_and_wait tells its caller is true of the server and of the
\* database: the message got there, and the key of a poll is stored.
WaiterToldTruth ==
    /\ \A j \in Jobs : waiter[j] = "ok" => delivered[j] > 0
    /\ AnnouncedPollHasKey

\* The inductive invariant behind the properties above: where the worker may
\* stand, and for every job what its row, the ledger of sends and the worker's
\* hold say of one another.
WorkerShape ==
    /\ worker.pc \in {"idle", "claiming"} <=> worker.job = NoJob
    /\ worker.pc # "idle" => bridge \in {"session", "draining"}

Erring(k) == IF worker.pc = "erred" /\ worker.job = k THEN 1 ELSE 0

JobInv(k) ==
    /\ Holding /\ worker.job = k => rows[k].status = "inflight"
    /\ delivered[k] = lost[k] + acked[k] + InHand(k)
    /\ rows[k].status \in {"absent", "queued", "inflight", "failed"} => acked[k] = 0
    /\ rows[k].status = "sent" => acked[k] = 1
    /\ acked[k] <= 1
    /\ rows[k].wa # 0 \/ rows[k].delivery # None => rows[k].status = "sent"
    /\ k \notin BadJid => /\ rows[k].retries + Erring(k) <= attempts[k]
                          /\ rows[k].status = "failed" => rows[k].retries >= MaxRetries
    /\ worker.pc \in {"unmarked", "announce"} /\ worker.job = k => delivered[k] > 0
    /\ waiter[k] = "ok" => delivered[k] > 0

IInv == TypeOK /\ WorkerShape /\ \A k \in Jobs : JobInv(k)

\* The abstract stage of a job, as its row shows it
Stage(j) ==
    CASE rows[j].status = "absent" -> "new"
      [] rows[j].status \in {"queued", "inflight"} -> "pending"
      [] rows[j].status = "sent" -> "done"
      [] rows[j].status = "failed" -> "dropped"
      [] rows[j].status = "pruned" -> "purged"

Abstract == INSTANCE Outbox WITH stage <- [j \in Jobs |-> Stage(j)], sends <- delivered

\* The queue, its worker, the drain and every crash implement the outbox: no
\* accepted job is forgotten, none is completed unsent, and nothing is sent for
\* a job that was settled.
ImplementsOutbox == Abstract!Spec

----------------------------------------------------------------------------
(* Liveness *)

\* Tokio polls every ready task: the worker, the drain, the bridge loop and
\* the timers.  Nothing is assumed of callers, the network or the process.
Fairness ==
    /\ WF_vars(WorkerStep) /\ WF_vars(DrainStep)
    /\ WF_vars(Start) /\ WF_vars(StartSession) /\ WF_vars(StopBetween)
    /\ WF_vars(BeginDrain \/ WorkerBreak)
    /\ WF_vars(Tick)
    /\ \A j \in Jobs : WF_vars(WaiterTimeout(j))

FairSpec == Spec /\ Fairness

Settled(j) == rows[j].status \in {"sent", "failed", "pruned"}

\* Once the bridge stays connected, every accepted job is settled, whatever
\* its schedule and however its neighbours fail: no head-of-line blocking.
ConnectedQueueDrains ==
    <>[](Serving /\ client /\ ~cancel) =>
        \A j \in Jobs : rows[j].status = "queued" ~> Settled(j)

\* A requested shutdown completes, from every point of the loop.
CancelStops == cancel ~> ~cancel \/ bridge \in {"stopped", "dead"}
====
