------------------------------ MODULE Backfill ------------------------------
(***************************************************************************)
(* The history backfill of src/src/backfill.rs: its durable job table and   *)
(* cursor table (storage.rs), the single worker that claims a job and pages *)
(* a chat backwards (process_job, run_worker_loop), the session-id          *)
(* correlator between the worker and Event::HistorySync, the detached tasks *)
(* that store answers nobody waits for (bridge.rs), and the REST and        *)
(* chat-state handlers that seed a cursor, enqueue or cancel (api.rs).      *)
(*                                                                         *)
(* A chat's messages are its positions 1 (oldest) .. H (newest): a position *)
(* stands for the message's id and its timestamp.  An anchor is a position, *)
(* NoPos is a missing or unusable one.  The phone answers a request for     *)
(* "older than a" with a run of positions ending at a - 1, with the anchor  *)
(* again, or with nothing when nothing is older; it denies that more        *)
(* remains only when nothing older does.                                    *)
(***************************************************************************)
EXTENDS Naturals, FiniteSets, Sequences, FiniteSetsExt

CONSTANTS Chats, H,
          Batch,        \* batch_size: the messages asked for in one request
          Backstop,     \* messages after which "all" and "since" park
          MaxMessages,  \* the clamp on a "count" target
          QueueDepth,   \* active jobs allowed
          Targets,      \* the fetch targets callers ask for
          Handlers,     \* requests and chat-state events handled at once
          MaxJobs,      \* bound of the model: rows of the job table
          MaxFaults     \* bound of the model: lost writes, disconnects, exits and chat-state events, together

FetchTarget == [kind : {"all", "since", "count"}, value : Nat]

ASSUME BackfillAssumption ==
    /\ {H, Batch, MaxMessages, QueueDepth} \subseteq Nat \ {0}
    /\ {Backstop, MaxJobs, MaxFaults} \subseteq Nat
    /\ Targets \subseteq FetchTarget

Pos == 1 .. H
NoPos == 0
NoJob == 0

VARIABLES stored,     \* messages: the positions of each chat that have a row
          cursor,     \* backfill_cursor
          jobs,       \* backfill_jobs, by id
          worker,     \* run_worker_loop and the process_job it runs
          req,        \* the handlers of api.rs and of chat-state events
          stale,      \* a request that timed out and may still be answered
          late,       \* inserts owed by detached storing tasks
          connected,  \* the client handle is set
          cancel,     \* the shutdown token
          up,         \* the process runs
          missed,     \* history: messages whose insert failed
          owed,       \* history: messages delivered and not yet written
          faults      \* how much of MaxFaults is spent

vars == <<stored, cursor, jobs, worker, req, stale, late, connected, cancel, up, missed, owed, faults>>

Active == {"queued", "running", "paused"}
Settled == {"done", "paused", "failed", "cancelled"}

\* A row that was never written reads as the defaults the callers use.  `base` is history: the
\* position paging started from when the anchor was last seeded.
NoCursor == [anchor |-> NoPos, more |-> TRUE, exhausted |-> FALSE, recent |-> FALSE, base |-> NoPos]
IdleWorker == [pc |-> "idle", job |-> NoJob, anchor |-> NoPos, base |-> NoPos, fetched |-> 0, same |-> 0,
               batch |-> {}, left |-> {}, more |-> TRUE, answered |-> FALSE, end |-> ""]
IdleReq == [pc |-> "idle", kind |-> "none", chat |-> CHOOSE c \in Chats : TRUE, target |-> 0, anchor |-> NoPos,
            more |-> TRUE, hint |-> NoPos]

Init ==
    /\ stored \in [Chats -> {{}, {H}}]
    /\ cursor = [c \in Chats |-> NoCursor]
    /\ jobs = <<>>
    /\ worker = IdleWorker
    /\ req = [h \in Handlers |-> IdleReq]
    /\ stale = {}
    /\ late = {}
    /\ connected = FALSE
    /\ cancel = FALSE
    /\ up = TRUE
    /\ missed = [c \in Chats |-> {}]
    /\ owed = [c \in Chats |-> {}]
    /\ faults = 0

Spend == faults' = faults + 1

-----------------------------------------------------------------------------
(* Tables *)

\* get_oldest_message.
OldestStored(c) == IF stored[c] = {} THEN NoPos ELSE Min(stored[c])

\* resolve_anchor for a cursor row already read: its own anchor, else the oldest stored message.
ResolveAnchor(c, row) == IF row.anchor # NoPos THEN row.anchor ELSE OldestStored(c)

\* upsert_backfill_cursor; a stamp of FALSE leaves last_backfill_at as it is.
UpsertCursor(c, anchor, base, more, exhausted, stamp) ==
    cursor' = [cursor EXCEPT ![c] = [anchor |-> anchor, base |-> base, more |-> more, exhausted |-> exhausted,
                                     recent |-> IF stamp THEN TRUE ELSE cursor[c].recent]]

\* The chat's history is exhausted only on the phone's word that no more remains.
Exhausted(more) == ~more

\* A write whose error the worker ignores (`let _ =`) either lands or, within the bound, does not.
Attempt(write, unchanged) ==
    \/ write /\ UNCHANGED faults
    \/ faults < MaxFaults /\ unchanged /\ Spend

\* mark_backfill_job: only "cancelled" may overwrite "cancelled".
JobWith(job, status, fetched) ==
    [chat |-> job.chat, target |-> job.target, status |-> status, fetched |-> fetched]
Marked(table, j, status) == [table EXCEPT ![j] = JobWith(table[j], status, table[j].fetched)]
MarkJobUnguarded(table, j, status) == Marked(table, j, status)
MarkJob(table, j, status) ==
    IF status = "cancelled" \/ table[j].status # "cancelled" THEN Marked(table, j, status) ELSE table

ActiveJobs(table, cs) == {j \in DOMAIN table : table[j].status \in Active /\ table[j].chat \in cs}

\* enqueue_backfill_job's answer, its checks in order (the embedder backlog check is in EmbedDrain's tables).
EnqueueOutcome(c) ==
    IF ActiveJobs(jobs, {c}) # {} THEN "already_active"
    ELSE IF cursor[c].recent THEN "cooldown"
    ELSE IF Cardinality(ActiveJobs(jobs, Chats)) >= QueueDepth THEN "queue_full"
    ELSE "accepted"

Clamp(t) == IF t.kind = "count" /\ t.value > MaxMessages THEN [kind |-> "count", value |-> MaxMessages] ELSE t

-----------------------------------------------------------------------------
(* Handlers: POST /api/history-fetch, its cancel, and chat-state seeding *)

Finish(h) == req' = [req EXCEPT ![h] = IdleReq]
Continue(h, pc, anchor) ==
    req' = [req EXCEPT ![h] = [pc |-> pc, kind |-> req[h].kind, chat |-> req[h].chat, target |-> req[h].target,
                               anchor |-> anchor, more |-> req[h].more, hint |-> req[h].hint]]
HandlerVars == <<stored, jobs, worker, stale, late, connected, cancel, up, missed, owed, faults>>

\* handle_history_fetch_trigger, first await: read the cursor; an exhausted one answers at once.
TriggerRead(h, c, t) ==
    /\ up /\ req[h].pc = "idle" /\ Len(jobs) < MaxJobs
    /\ ~cursor[c].exhausted
    /\ req' = [req EXCEPT ![h] = [pc |-> "resolve", kind |-> "trigger", chat |-> c, target |-> t,
                                  anchor |-> cursor[c].anchor, more |-> cursor[c].more, hint |-> NoPos]]
    /\ UNCHANGED <<cursor, HandlerVars>>

\* seed_cursor_if_no_anchor, first await: the event carries the position `p` of a message.
SeedRead(h, c, p) ==
    /\ up /\ req[h].pc = "idle" /\ faults < MaxFaults
    /\ ~cursor[c].exhausted
    /\ req' = [req EXCEPT ![h] = [pc |-> "resolve", kind |-> "seed", chat |-> c, target |-> 0,
                                  anchor |-> cursor[c].anchor, more |-> TRUE, hint |-> p]]
    /\ Spend
    /\ UNCHANGED <<cursor, stored, jobs, worker, stale, late, connected, cancel, up, missed, owed>>

\* resolve_anchor on the row read before (only its anchor counts), and what each caller does with the three resolutions.
Resolve(h) ==
    LET q == req[h] found == ResolveAnchor(q.chat, [anchor |-> q.anchor]) IN
    /\ up /\ q.pc = "resolve"
    /\ \/ q.kind = "trigger" /\ q.anchor # NoPos
          /\ Continue(h, "enqueue", q.anchor)
       \/ q.kind = "trigger" /\ q.anchor = NoPos /\ found # NoPos
          /\ Continue(h, "write", found)
       \/ q.kind = "seed" /\ found = NoPos
          /\ Continue(h, "write", q.hint)
       \/ (IF q.kind = "trigger" THEN found = NoPos ELSE found # NoPos) /\ Finish(h)
    /\ UNCHANGED <<cursor, HandlerVars>>

\* The seeding write: an anchor paging will start from.
WriteSeed(h) ==
    LET q == req[h] IN
    /\ up /\ q.pc = "write"
    /\ UpsertCursor(q.chat, q.anchor, q.anchor, q.more, FALSE, FALSE)
    /\ IF q.kind = "trigger" THEN Continue(h, "enqueue", q.anchor) ELSE Finish(h)
    /\ UNCHANGED HandlerVars

\* enqueue_backfill_job in its transaction, and the answer.
Enqueue(h) ==
    LET q == req[h] IN
    /\ up /\ q.pc = "enqueue"
    /\ jobs' = IF EnqueueOutcome(q.chat) = "accepted" /\ Len(jobs) < MaxJobs
               THEN Append(jobs, [chat |-> q.chat, target |-> Clamp(q.target), status |-> "queued", fetched |-> 0])
               ELSE jobs
    /\ Finish(h)
    /\ UNCHANGED <<cursor, stored, worker, stale, late, connected, cancel, up, missed, owed, faults>>

\* handle_history_fetch_cancel: one unconditional write, whatever the job is doing.
CancelJob(j) ==
    /\ up /\ jobs[j].status # "cancelled"
    /\ jobs' = MarkJob(jobs, j, "cancelled")
    /\ UNCHANGED <<stored, cursor, worker, req, stale, late, connected, cancel, up, missed, owed, faults>>

-----------------------------------------------------------------------------
(* The worker *)

wjob == jobs[worker.job]
wchat == wjob.chat
WorkerVars == <<req, stale, late, connected, cancel, up, owed>>

\* The select at the top of the loop, the connection gate and claim_next_backfill_job (first by id).
Claim ==
    LET queued == {j \in DOMAIN jobs : jobs[j].status = "queued"} IN
    /\ up /\ worker.pc = "idle" /\ ~cancel /\ connected /\ queued # {}
    /\ jobs' = Marked(jobs, Min(queued), "running")
    /\ worker' = [IdleWorker EXCEPT !.pc = "start", !.job = Min(queued), !.fetched = jobs[Min(queued)].fetched]
    /\ UNCHANGED <<stored, cursor, missed, faults, WorkerVars>>

End(how) == worker' = [IdleWorker EXCEPT !.pc = "ended", !.job = worker.job, !.end = how]

\* process_job before its loop: an exhausted cursor, no anchor at all, or the anchor to start from.
StartJob ==
    LET row == cursor[wchat] a == ResolveAnchor(wchat, row) IN
    /\ up /\ worker.pc = "start"
    /\ \/ row.exhausted /\ End("done")
       \/ ~row.exhausted /\ a = NoPos /\ End("failed")
       \/ ~row.exhausted /\ a # NoPos
          /\ worker' = [worker EXCEPT !.pc = "loop", !.anchor = a, !.base = IF row.anchor = NoPos THEN a ELSE row.base]
    /\ UNCHANGED <<stored, cursor, jobs, missed, faults, WorkerVars>>

\* The head of the loop with the token fired: save the anchor, then leave the job for requeueing.
LoopCancelled ==
    /\ up /\ worker.pc = "loop" /\ cancel
    /\ Attempt(UpsertCursor(wchat, worker.anchor, worker.base, TRUE, FALSE, FALSE), UNCHANGED cursor)
    /\ End("cancelled")
    /\ UNCHANGED <<stored, jobs, missed, WorkerVars>>

LoopDeferred ==
    /\ up /\ worker.pc = "loop" /\ ~cancel /\ ~connected
    /\ End("deferred")
    /\ UNCHANGED <<stored, cursor, jobs, missed, faults, WorkerVars>>

\* fetch_older up to the await that yields the session id.
SendRequest ==
    /\ up /\ worker.pc = "loop" /\ ~cancel /\ connected
    /\ worker' = [worker EXCEPT !.pc = "sent", !.answered = FALSE]
    /\ UNCHANGED <<stored, cursor, jobs, missed, faults, WorkerVars>>

\* HistoryCorrelator::register, after the session id is known.
Register ==
    /\ up /\ worker.pc = "sent"
    /\ worker' = [worker EXCEPT !.pc = "waiting"]
    /\ UNCHANGED <<stored, cursor, jobs, missed, faults, WorkerVars>>

\* What the phone may answer to "older than a".
Answers(a) ==
    {[msgs |-> q .. (a - 1), more |-> m] : q \in {p \in Pos : p < a /\ p + Batch >= a}, m \in BOOLEAN}
       \cup {[msgs |-> {a}, more |-> TRUE], [msgs |-> {}, more |-> a > 1]}
HonestAnswers(a) ==
    {r \in Answers(a) : /\ ~r.more => \A p \in Pos : p < a => p \in r.msgs
                        /\ r.msgs = {} => a = 1}

\* Event::HistorySync: fulfill hands the chunk to the waiting worker; a chunk nobody waits for goes
\* to spawn_store_unmatched_history.  Between the deadline and the drop of the receiver a send
\* still succeeds, and the chunk goes with the receiver.
ReceivesFor(pc) == pc \in {"waiting", "closing"}
UnmatchedDropped(c, r) == late' = late
Unmatched(c, r) == late' = late \cup ({c} \X r.msgs)
AnswerArrives ==
    /\ up /\ connected
    /\ worker.pc \in {"sent", "waiting", "closing"} /\ ~worker.answered
    /\ \E r \in HonestAnswers(worker.anchor) :
          /\ worker' = [worker EXCEPT !.answered = TRUE,
                                      !.pc = IF @ = "waiting" THEN "persist" ELSE @,
                                      !.batch = IF worker.pc = "waiting" THEN r.msgs ELSE @,
                                      !.left = IF worker.pc = "waiting" THEN r.msgs ELSE @,
                                      !.more = IF worker.pc = "waiting" THEN r.more ELSE @]
          /\ IF ReceivesFor(worker.pc) THEN UNCHANGED late ELSE Unmatched(wchat, r)
          /\ owed' = IF worker.pc = "closing" THEN owed ELSE [owed EXCEPT ![wchat] = @ \cup r.msgs]
    /\ UNCHANGED <<stored, cursor, jobs, req, stale, connected, cancel, up, missed, faults>>

\* An answer to a request that timed out earlier: its sender is still registered, its receiver gone.
StaleAnswerArrives ==
    /\ up /\ connected
    /\ \E s \in stale : \E r \in HonestAnswers(s.anchor) :
          /\ Unmatched(s.chat, r)
          /\ owed' = [owed EXCEPT ![s.chat] = @ \cup r.msgs]
          /\ stale' = stale \ {s}
    /\ UNCHANGED <<stored, cursor, jobs, worker, req, connected, cancel, up, missed, faults>>

\* HISTORY_FETCH_WAIT elapses; the receiver is dropped after that.
Timeout ==
    /\ up /\ worker.pc = "waiting"
    /\ worker' = [worker EXCEPT !.pc = "closing"]
    /\ UNCHANGED <<stored, cursor, jobs, missed, faults, WorkerVars>>

\* fetch_older has failed, by the deadline or because the request could not be sent: transient when
\* the client is gone by now, else the job fails.
FetchError ==
    /\ up /\ worker.pc \in {"sent", "closing"}
    /\ stale' = IF worker.answered THEN stale ELSE {[chat |-> wchat, anchor |-> worker.anchor]}
    /\ End(IF connected THEN "failed" ELSE "deferred")
    /\ UNCHANGED <<stored, cursor, jobs, req, late, connected, cancel, up, missed, owed, faults>>

\* persist_history_messages, one insert per message; a failed insert is counted and not raised.
Persist(m) ==
    /\ \/ stored' = [stored EXCEPT ![m[1]] = @ \cup {m[2]}] /\ UNCHANGED <<missed, faults>>
       \/ /\ faults < MaxFaults /\ m[2] \notin stored[m[1]]
          /\ missed' = [missed EXCEPT ![m[1]] = @ \cup {m[2]}]
          /\ Spend /\ UNCHANGED stored
    /\ owed' = [owed EXCEPT ![m[1]] = @ \ {m[2]}]

\* LiveBatchSink::persist_batch on the batch the worker received.
PersistNext ==
    /\ up /\ worker.pc = "persist" /\ worker.left # {}
    /\ Persist(<<wchat, Max(worker.left)>>)
    /\ worker' = [worker EXCEPT !.left = @ \ {Max(@)}]
    /\ UNCHANGED <<cursor, jobs, req, stale, late, connected, cancel, up>>

\* store_unmatched_history, in its own task.
StoreLate ==
    /\ up
    /\ \E m \in late : Persist(m) /\ late' = late \ {m}
    /\ UNCHANGED <<cursor, jobs, worker, req, stale, connected, cancel, up>>

PersistedSoon == up /\ worker.pc = "persist"
Persisted == up /\ worker.pc = "persist" /\ worker.left = {}

\* A batch without an anchor: the history is over.
NoProgress ==
    /\ Persisted /\ worker.batch = {}
    /\ Attempt(UpsertCursor(wchat, worker.anchor, worker.base, FALSE, TRUE, TRUE), UNCHANGED cursor)
    /\ End("done")
    /\ UNCHANGED <<stored, jobs, missed, WorkerVars>>

STUCK_K == 2

\* oldest_anchor: the oldest message of a batch, where the next request starts.
OldestAnchor(batch) == Min(batch)

\* The stuck-anchor guard: the batch's oldest message is the anchor again, STUCK_K times running.
Stuck ==
    /\ Persisted /\ worker.batch # {}
    /\ OldestAnchor(worker.batch) = worker.anchor /\ worker.same + 1 >= STUCK_K
    /\ End("failed")
    /\ UNCHANGED <<stored, cursor, jobs, missed, faults, WorkerVars>>

\* record_backfill_progress: the cursor and the job's tally in one transaction.
RecordProgress ==
    LET oldest == OldestAnchor(worker.batch)
        same == IF oldest = worker.anchor THEN worker.same + 1 ELSE 0
        tally == worker.fetched + Cardinality(worker.batch) IN
    /\ Persisted /\ worker.batch # {} /\ same < STUCK_K
    /\ Attempt(/\ UpsertCursor(wchat, oldest, worker.base, worker.more, Exhausted(worker.more), FALSE)
               /\ jobs' = [jobs EXCEPT ![worker.job] = JobWith(wjob, wjob.status, tally)],
               UNCHANGED <<cursor, jobs>>)
    /\ worker' = [worker EXCEPT !.pc = "evaluate", !.batch = {}, !.answered = FALSE, !.anchor = oldest, !.same = same, !.fetched = tally]
    /\ UNCHANGED <<stored, missed, WorkerVars>>

\* evaluate_target: completion before the backstop; a count never parks.
EvaluateTarget(t, fetched, oldest, more) ==
    CASE t.kind = "count" -> IF fetched >= t.value THEN "done" ELSE "continue"
      [] ~more \/ (t.kind = "since" /\ oldest <= t.value) -> "done"
      [] Backstop > 0 /\ fetched >= Backstop -> "parked"
      [] OTHER -> "continue"

Step == EvaluateTarget(wjob.target, worker.fetched, worker.anchor, worker.more)
AtTarget == up /\ worker.pc = "evaluate"

\* Every completion stamps the cooldown.
TargetReached ==
    /\ AtTarget /\ Step = "done"
    /\ Attempt(UpsertCursor(wchat, worker.anchor, worker.base, worker.more, Exhausted(worker.more), TRUE), UNCHANGED cursor)
    /\ End("done")
    /\ UNCHANGED <<stored, jobs, missed, WorkerVars>>

Park ==
    /\ AtTarget /\ Step = "parked"
    /\ End("parked")
    /\ UNCHANGED <<stored, cursor, jobs, missed, faults, WorkerVars>>

\* The pacing sleep, which the token cuts short.
Pace ==
    /\ AtTarget /\ Step = "continue"
    /\ IF cancel THEN End("cancelled") ELSE worker' = [worker EXCEPT !.pc = "loop", !.more = TRUE]
    /\ UNCHANGED <<stored, cursor, jobs, missed, faults, WorkerVars>>

\* run_worker_loop: what each JobEnd leaves in the row.
StatusOfRetry(end) == IF end = "parked" THEN "paused" ELSE IF end = "done" THEN "done" ELSE "queued"
StatusOf(end) ==
    CASE end = "done" -> "done" [] end = "parked" -> "paused" [] end = "failed" -> "failed"
      [] end \in {"cancelled", "deferred"} -> "queued"

\* The final mark; a failed write is only logged, and the worker forgets the job.
MarkOutcome ==
    /\ up /\ worker.pc = "ended"
    /\ Attempt(jobs' = MarkJob(jobs, worker.job, StatusOf(worker.end)), UNCHANGED jobs)
    /\ worker' = IdleWorker
    /\ UNCHANGED <<stored, cursor, missed, WorkerVars>>

-----------------------------------------------------------------------------
(* The world around it *)

LiveMessage(c) ==
    /\ up /\ connected /\ H \notin stored[c]
    /\ stored' = [stored EXCEPT ![c] = @ \cup {H}]
    /\ UNCHANGED <<cursor, jobs, worker, req, stale, late, connected, cancel, up, missed, owed, faults>>

Connect ==
    /\ up /\ ~connected /\ ~cancel
    /\ connected' = TRUE
    /\ UNCHANGED <<stored, cursor, jobs, worker, req, stale, late, cancel, up, missed, owed, faults>>

Disconnect ==
    /\ up /\ connected /\ faults < MaxFaults
    /\ connected' = FALSE /\ Spend
    /\ UNCHANGED <<stored, cursor, jobs, worker, req, stale, late, cancel, up, missed, owed>>

CooldownExpires(c) ==
    /\ cursor[c].recent
    /\ cursor' = [cursor EXCEPT ![c] = [anchor |-> cursor[c].anchor, base |-> cursor[c].base, more |-> cursor[c].more,
                                     exhausted |-> cursor[c].exhausted, recent |-> FALSE]]
    /\ UNCHANGED <<stored, jobs, worker, req, stale, late, connected, cancel, up, missed, owed, faults>>

Shutdown ==
    /\ up /\ ~cancel /\ faults < MaxFaults
    /\ cancel' = TRUE /\ Spend
    /\ UNCHANGED <<stored, cursor, jobs, worker, req, stale, late, connected, up, missed, owed>>

\* The process ends: by a crash, or after Shutdown, which nothing makes wait for the worker.
Exit ==
    /\ up /\ IF cancel THEN UNCHANGED faults ELSE faults < MaxFaults /\ Spend
    /\ up' = FALSE /\ cancel' = FALSE /\ connected' = FALSE
    /\ worker' = IdleWorker /\ stale' = {} /\ late' = {}
    /\ req' = [h \in Handlers |-> IdleReq]
    /\ owed' = [c \in Chats |-> {}]
    /\ UNCHANGED <<stored, cursor, jobs, missed>>

\* A new process: a fresh worker and correlator; nothing rewrites the job table.
Restart ==
    /\ ~up
    /\ up' = TRUE
    /\ UNCHANGED <<stored, cursor, jobs, worker, req, stale, late, connected, cancel, missed, owed, faults>>

WorkerStep ==
    \/ Claim \/ StartJob \/ LoopCancelled \/ LoopDeferred \/ SendRequest \/ Register \/ Timeout \/ FetchError
    \/ PersistNext \/ NoProgress \/ Stuck \/ RecordProgress \/ TargetReached \/ Park \/ Pace
    \/ MarkOutcome

HandlerStep(h) == Resolve(h) \/ WriteSeed(h) \/ Enqueue(h)

Next ==
    \/ WorkerStep \/ AnswerArrives \/ StaleAnswerArrives \/ StoreLate
    \/ \E h \in Handlers : HandlerStep(h) \/ (\E c \in Chats : \/ \E t \in Targets : TriggerRead(h, c, t)
                                                             \/ \E p \in Pos : SeedRead(h, c, p))
    \/ \E j \in DOMAIN jobs : CancelJob(j)
    \/ \E c \in Chats : LiveMessage(c) \/ CooldownExpires(c)
    \/ Connect \/ Disconnect \/ Shutdown \/ Exit \/ Restart

\* The runtime polls the worker, the timers fire, the session loop reconnects, the supervisor restarts.
Fairness == /\ WF_vars(WorkerStep) /\ WF_vars(Connect) /\ WF_vars(Restart)
            /\ WF_vars(cancel /\ Exit)

Spec == Init /\ [][Next]_vars /\ Fairness

-----------------------------------------------------------------------------
(* Properties *)

\* The state stays within its types.
TypeOK ==
    /\ stored \in [Chats -> SUBSET Pos] /\ missed \in [Chats -> SUBSET Pos] /\ owed \in [Chats -> SUBSET Pos]
    /\ cursor \in [Chats -> [anchor : 0 .. H, base : 0 .. H, more : BOOLEAN, exhausted : BOOLEAN, recent : BOOLEAN]]
    /\ jobs \in Seq([chat : Chats, target : FetchTarget,
                     status : Active \cup Settled, fetched : Nat])
    /\ worker.job \in 0 .. Len(jobs) /\ worker.batch \subseteq Pos /\ worker.left \subseteq worker.batch
    /\ worker.pc \in {"idle", "start", "loop", "sent", "waiting", "closing", "persist", "evaluate", "ended"}
    /\ late \subseteq Chats \X Pos /\ {connected, cancel, up} \subseteq BOOLEAN

\* A chat has at most one job that is queued, running or paused, whatever the callers cancel and
\* trigger again while the worker still runs the job they cancelled.
OneActivePerChat == \A c \in Chats : Cardinality(ActiveJobs(jobs, {c})) <= 1

\* A cursor never runs ahead of the table, across crashes and lost writes: every message between
\* where paging started and the saved frontier has a row, or its own insert failed.
CursorBacked ==
    \A c \in Chats : \A p \in Pos :
        cursor[c].anchor <= p /\ p < cursor[c].base => p \in stored[c] \cup missed[c]

\* The flag that ends a chat's paging for good is true: nothing older than the start is unfetched.
ExhaustedIsTrue ==
    \A c \in Chats : \A p \in Pos :
        cursor[c].exhausted /\ p < cursor[c].base => p \in stored[c] \cup missed[c]

\* What the cursors and their flags say of the history is backed by rows, through crashes, lost
\* writes, late answers and re-triggers.
HistoryBacked == TypeOK /\ CursorBacked /\ ExhaustedIsTrue

\* A chunk delivered for a request is not lost, however late: its messages are written, or the
\* worker or a storing task holds them.
AnswersKept ==
    \A c \in Chats : \A p \in owed[c] :
        \/ p \in stored[c] \/ <<c, p>> \in late
        \/ worker.pc = "persist" /\ wchat = c /\ p \in worker.left

Orphaned(j) == jobs[j].status = "running" /\ worker.job # j

\* A queued job is settled in the end, through deferrals, cancels and restarts, unless an exit or a
\* lost mark left its row running with no worker behind it.
JobSettles ==
    \A j \in 1 .. MaxJobs :
        (j \in DOMAIN jobs /\ jobs[j].status = "queued")
            ~> (j \in DOMAIN jobs /\ (jobs[j].status \in Settled \/ Orphaned(j)))
=============================================================================
