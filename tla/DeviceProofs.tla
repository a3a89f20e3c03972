---------------------------- MODULE DeviceProofs ----------------------------
(***************************************************************************)
(* The two components on WhatsApp's side, for every value of their         *)
(* constants.                                                              *)
(*                                                                         *)
(* Backfill: a chat has one active job at most, what the cursors say of    *)
(* the history is backed by rows, and no delivered chunk is lost.          *)
(*                                                                         *)
(* LinkedDevice: the name of a pairing is fixed for its life; downloads    *)
(* are safe; what is forwarded or kept is true to the conversation; and    *)
(* the library's calls are whole.                                          *)
(***************************************************************************)
EXTENDS Backfill, LinkedDevice, FiniteSetTheorems, WellFoundedInduction, TLAPS

-----------------------------------------------------------------------------
(* Sets of positions *)

LEMMA LeastExists ==
  ASSUME NEW S \in SUBSET Nat, S # {}
  PROVE  \E x \in S : \A y \in S : x <= y
  <1>1. PICK x \in S : \A y \in S : ~(<<y, x>> \in OpToRel(<, Nat))
    BY NatLessThanWellFounded, WFMin
  <1>2. \A y \in S : ~(y < x) BY <1>1 DEF OpToRel
  <1> QED BY <1>2

LEMMA MinIsLeast ==
  ASSUME NEW S \in SUBSET Nat, S # {}
  PROVE  Min(S) \in S /\ \A y \in S : Min(S) <= y
  BY LeastExists DEF Min

LEMMA GreatestExists ==
  ASSUME NEW n \in Nat, NEW S \in SUBSET (1 .. n), S # {}
  PROVE  Max(S) \in S
  <1> DEFINE D == {n - x : x \in S}
  <1>1. D # {} /\ D \in SUBSET Nat
    <2>1. PICK x \in S : TRUE OBVIOUS
    <2>2. n - x \in D BY <2>1
    <2>3. \A y \in S : n - y \in Nat OBVIOUS
    <2> QED BY <2>2, <2>3
  <1>2. PICK d \in D : \A y \in D : d <= y BY <1>1, LeastExists
  <1>3. PICK x \in S : d = n - x BY <1>2
  <1>4. \A y \in S : x >= y
    <2>1. ASSUME NEW y \in S PROVE x >= y
      <3>1. d <= n - y BY <1>2
      <3> QED BY <3>1, <1>3
    <2> QED BY <2>1
  <1> QED BY <1>4 DEF Max

-----------------------------------------------------------------------------
(* The invariant *)

Job == [chat : Chats, target : FetchTarget, status : Active \cup Settled, fetched : Nat]
CursorRow == [anchor : 0 .. H, base : 0 .. H, more : BOOLEAN, exhausted : BOOLEAN, recent : BOOLEAN]
TriggerReq == [pc : {"resolve", "write", "enqueue"}, kind : {"trigger"}, chat : Chats, target : Targets,
               anchor : 0 .. H, more : BOOLEAN, hint : {NoPos}]
SeedReq == [pc : {"resolve", "write"}, kind : {"seed"}, chat : Chats, target : {0},
            anchor : 0 .. H, more : BOOLEAN, hint : Pos]
Fields == {"pc", "job", "anchor", "base", "fetched", "same", "batch", "left", "more", "answered", "end"}
Paging == {"loop", "sent", "waiting", "closing", "persist", "evaluate"}
WorkerPcs == {"idle", "start", "ended"} \cup Paging
Ends == {"done", "parked", "failed", "cancelled", "deferred"}

WorkerTyped ==
    /\ DOMAIN worker = Fields
    /\ worker.pc \in WorkerPcs /\ worker.job \in Nat
    /\ worker.batch \in SUBSET Pos /\ worker.left \in SUBSET worker.batch
    /\ worker.more \in BOOLEAN /\ worker.fetched \in Nat
    /\ worker.pc = "ended" => worker.end \in Ends

TablesTyped ==
    /\ stored \in [Chats -> SUBSET Pos] /\ missed \in [Chats -> SUBSET Pos] /\ owed \in [Chats -> SUBSET Pos]
    /\ cursor \in [Chats -> CursorRow]
    /\ jobs \in Seq(Job)
    /\ connected \in BOOLEAN /\ cancel \in BOOLEAN /\ up \in BOOLEAN

InFlightTyped ==
    /\ late \in SUBSET (Chats \X Pos)
    /\ stale \in SUBSET [chat : Chats, anchor : Pos]
    /\ req \in [Handlers -> {IdleReq} \cup TriggerReq \cup SeedReq]

(* Active jobs of one chat are one job, and the worker holds a row that was  *)
(* running when it claimed it and that only a cancel has changed since.      *)
JobsKept ==
    /\ \A i, j \in 1 .. Len(jobs) :
          jobs[i].status \in Active /\ jobs[j].status \in Active /\ jobs[i].chat = jobs[j].chat => i = j
    /\ worker.pc = "idle" => worker.job = 0
    /\ worker.pc # "idle" =>
          worker.job \in 1 .. Len(jobs) /\ jobs[worker.job].status \in {"running", "cancelled"}

Backed(c, p) == p \in stored[c] \/ p \in missed[c]

(* The worker's anchor is as well backed as a cursor must be; what it holds  *)
(* of a batch is a run that ends at the anchor, or the anchor again.         *)
PagingBacked ==
    worker.pc \in Paging =>
        /\ worker.anchor \in Pos /\ worker.base \in 0 .. H
        /\ \A p \in Pos : worker.anchor <= p /\ p < worker.base => Backed(wchat, p)
BatchHonest ==
    worker.pc = "persist" =>
        /\ \A p \in worker.batch : p \in worker.left \/ Backed(wchat, p)
        /\ worker.batch = {} => worker.anchor = 1
        /\ worker.batch # {} =>
              \E q \in worker.batch :
                  /\ q <= worker.anchor /\ \A p \in worker.batch : q <= p
                  /\ \A p \in Pos : q <= p /\ p < worker.anchor => p \in worker.batch
        /\ ~worker.more => \A p \in Pos : p < worker.anchor => p \in worker.batch
EndKnown ==
    worker.pc = "evaluate" /\ ~worker.more => \A p \in Pos : p < worker.base => Backed(wchat, p)

HistoryInv == PagingBacked /\ BatchHonest /\ EndKnown /\ CursorBacked /\ ExhaustedIsTrue

BInv == WorkerTyped /\ TablesTyped /\ InFlightTyped /\ JobsKept /\ HistoryInv /\ AnswersKept

-----------------------------------------------------------------------------
(* What the actions share *)

LEMMA Sizes ==
  /\ H \in Nat /\ H > 0 /\ MaxMessages \in Nat /\ Batch \in Nat
  /\ NoPos \in 0 .. H /\ NoPos \notin Pos /\ NoJob = 0 /\ Pos \in SUBSET Nat
  /\ \A p \in Pos : p \in 0 .. H /\ p \in Nat
  BY BackfillAssumption DEF NoPos, NoJob, Pos

LEMMA JobAt ==
  ASSUME TablesTyped, NEW j \in 1 .. Len(jobs)
  PROVE  jobs[j] \in Job /\ jobs[j].chat \in Chats /\ jobs[j].fetched \in Nat
         /\ jobs[j].target \in FetchTarget
  <1>1. jobs[j] \in Job BY DEF TablesTyped
  <1> QED BY <1>1 DEF Job

(* A job keeps its chat and its target. *)
LEMMA JobChanges ==
  ASSUME TablesTyped, NEW j \in 1 .. Len(jobs), NEW s \in Active \cup Settled, NEW n \in Nat,
         jobs' = [jobs EXCEPT ![j] = JobWith(jobs[j], s, n)]
  PROVE  /\ jobs' \in Seq(Job) /\ Len(jobs') = Len(jobs)
         /\ \A i \in 1 .. Len(jobs) : jobs'[i].chat = jobs[i].chat /\ (i # j => jobs'[i] = jobs[i])
         /\ jobs'[j].status = s
  <1>1. jobs[j] \in Job BY JobAt
  <1>2. JobWith(jobs[j], s, n) \in Job BY <1>1 DEF Job, JobWith
  <1>3. jobs \in Seq(Job) BY DEF TablesTyped
  <1>4. jobs' \in Seq(Job) /\ Len(jobs') = Len(jobs) BY <1>2, <1>3
  <1>5. jobs'[j] = JobWith(jobs[j], s, n) /\ \A i \in 1 .. Len(jobs) : i # j => jobs'[i] = jobs[i]
    BY <1>3
  <1> QED BY <1>4, <1>5 DEF JobWith

LEMMA IdleTyped ==
  ASSUME worker' = IdleWorker PROVE WorkerTyped' /\ worker'.pc = "idle" /\ worker'.job = 0
  BY DEF IdleWorker, WorkerTyped, Fields, WorkerPcs, NoJob

LEMMA Ended ==
  ASSUME WorkerTyped, NEW how \in Ends, End(how)
  PROVE  WorkerTyped' /\ worker'.pc = "ended" /\ worker'.job = worker.job /\ worker'.end = how
  BY DEF End, IdleWorker, WorkerTyped, Fields, WorkerPcs

CursorsSound == cursor \in [Chats -> CursorRow] /\ CursorBacked /\ ExhaustedIsTrue

(* A cursor write is sound when what it claims is backed. *)
LEMMA UpsertSound ==
  ASSUME BInv, NEW c \in Chats, NEW a \in 0 .. H, NEW b \in 0 .. H,
         NEW more \in BOOLEAN, NEW ex \in BOOLEAN, NEW stamp \in BOOLEAN,
         UpsertCursor(c, a, b, more, ex, stamp), UNCHANGED <<stored, missed>>,
         \A p \in Pos : a <= p /\ p < b => Backed(c, p),
         ex => \A p \in Pos : p < b => Backed(c, p)
  PROVE  CursorsSound'
  <1> DEFINE row == [anchor |-> a, base |-> b, more |-> more, exhausted |-> ex,
                     recent |-> IF stamp THEN TRUE ELSE cursor[c].recent]
  <1>1. cursor \in [Chats -> CursorRow] BY DEF BInv, TablesTyped
  <1>2. cursor[c].recent \in BOOLEAN BY <1>1 DEF CursorRow
  <1>3. row \in CursorRow
    <2>1. (IF stamp THEN TRUE ELSE cursor[c].recent) \in BOOLEAN BY <1>2
    <2> QED BY <2>1 DEF CursorRow
  <1>4. cursor' = [cursor EXCEPT ![c] = row] BY DEF UpsertCursor
  <1>5. /\ cursor' \in [Chats -> CursorRow] /\ cursor'[c] = row
        /\ \A d \in Chats : d # c => cursor'[d] = cursor[d]
    BY <1>1, <1>3, <1>4
  <1>6. CursorBacked'
    BY <1>5 DEF BInv, HistoryInv, CursorBacked, Backed
  <1>7. ExhaustedIsTrue'
    BY <1>5 DEF BInv, HistoryInv, ExhaustedIsTrue, Backed
  <1> QED BY <1>5, <1>6, <1>7 DEF CursorsSound

LEMMA CursorsSame ==
  ASSUME BInv, UNCHANGED <<stored, missed, cursor>> PROVE CursorsSound'
  BY DEF BInv, HistoryInv, TablesTyped, CursorsSound, CursorBacked, ExhaustedIsTrue

(* A step of the worker that leaves the tables to others and drops nothing   *)
(* of a batch.                                                               *)
LEMMA WorkerMoves ==
  ASSUME BInv, UNCHANGED <<stored, missed, owed, jobs, req, late, connected, cancel, up>>,
         stale' = stale \/ stale' \in SUBSET [chat : Chats, anchor : Pos],
         CursorsSound', WorkerTyped', worker'.job = worker.job,
         worker.pc # "idle", worker'.pc # "idle",
         worker.pc = "persist" => worker.left = {},
         PagingBacked' /\ BatchHonest' /\ EndKnown'
  PROVE  BInv'
  <1>1. TablesTyped' BY DEF BInv, TablesTyped, CursorsSound
  <1>2. InFlightTyped' BY DEF BInv, InFlightTyped
  <1>3. JobsKept' BY DEF BInv, JobsKept
  <1>4. HistoryInv' BY DEF HistoryInv, CursorsSound
  <1>5. AnswersKept' BY DEF BInv, AnswersKept
  <1> QED BY <1>1, <1>2, <1>3, <1>4, <1>5 DEF BInv

(* The end of a job: nothing is claimed of its paging any more. *)
LEMMA EndMoves ==
  ASSUME BInv, NEW how \in Ends, End(how),
         UNCHANGED <<stored, missed, owed, jobs, req, late, connected, cancel, up>>,
         stale' = stale \/ stale' \in SUBSET [chat : Chats, anchor : Pos],
         CursorsSound', worker.pc # "idle", worker.pc = "persist" => worker.left = {}
  PROVE  BInv'
  <1>1. WorkerTyped' /\ worker'.pc = "ended" /\ worker'.job = worker.job BY Ended DEF BInv
  <1>2. PagingBacked' /\ BatchHonest' /\ EndKnown'
    BY <1>1 DEF PagingBacked, BatchHonest, EndKnown, Paging
  <1> QED BY <1>1, <1>2, WorkerMoves

(* Steps that touch neither the history nor the worker. *)
LEMMA OthersMove ==
  ASSUME BInv, UNCHANGED <<stored, missed, owed, jobs, worker, late>>, InFlightTyped', CursorsSound',
         connected' \in BOOLEAN, cancel' \in BOOLEAN, up' \in BOOLEAN
  PROVE  BInv'
  <1>1. WorkerTyped' BY DEF BInv, WorkerTyped
  <1>2. TablesTyped' BY DEF BInv, TablesTyped, CursorsSound
  <1>3. JobsKept' BY DEF BInv, JobsKept
  <1>4. HistoryInv'
    BY DEF BInv, HistoryInv, CursorsSound, PagingBacked, BatchHonest, EndKnown, Backed, wchat, wjob
  <1>5. AnswersKept' BY DEF BInv, AnswersKept, wchat, wjob
  <1> QED BY <1>1, <1>2, <1>3, <1>4, <1>5 DEF BInv

(* The job table changes, the worker's row stays what it was to the worker.  *)
LEMMA JobsMove ==
  ASSUME BInv, UNCHANGED <<stored, missed, owed, worker, late, stale, cursor, connected, cancel, up>>,
         req' \in [Handlers -> {IdleReq} \cup TriggerReq \cup SeedReq],
         jobs' \in Seq(Job), JobsKept', Len(jobs) <= Len(jobs'),
         \A i \in 1 .. Len(jobs) : jobs'[i].chat = jobs[i].chat
  PROVE  BInv'
  <1>1. WorkerTyped' BY DEF BInv, WorkerTyped
  <1>2. TablesTyped' BY DEF BInv, TablesTyped
  <1>3. InFlightTyped' BY DEF BInv, InFlightTyped
  <1>4. worker.pc # "idle" => wchat' = wchat BY DEF BInv, JobsKept, wchat, wjob
  <1>5. HistoryInv'
    <2>1. CursorsSound' BY CursorsSame
    <2>2. PagingBacked' BY <1>4 DEF BInv, HistoryInv, PagingBacked, Backed, Paging
    <2>3. BatchHonest' BY <1>4 DEF BInv, HistoryInv, BatchHonest, Backed
    <2>4. EndKnown' BY <1>4 DEF BInv, HistoryInv, EndKnown, Backed
    <2> QED BY <2>1, <2>2, <2>3, <2>4 DEF HistoryInv, CursorsSound
  <1>6. AnswersKept' BY <1>4 DEF BInv, AnswersKept
  <1> QED BY <1>1, <1>2, <1>3, <1>5, <1>6 DEF BInv

-----------------------------------------------------------------------------
(* Handlers *)

Reqs == {IdleReq} \cup TriggerReq \cup SeedReq

(* A handler's step on its own request. *)
LEMMA ReqMoves ==
  ASSUME BInv, NEW h \in Handlers, NEW q \in Reqs, req' = [req EXCEPT ![h] = q],
         UNCHANGED <<stored, missed, owed, jobs, worker, late, stale, connected, cancel, up>>,
         CursorsSound'
  PROVE  BInv'
  <1>1. InFlightTyped' BY DEF BInv, InFlightTyped, Reqs
  <1> QED BY <1>1, OthersMove DEF BInv, TablesTyped

LEMMA CursorAt ==
  ASSUME BInv, NEW c \in Chats
  PROVE  /\ cursor[c] \in CursorRow /\ cursor[c].anchor \in 0 .. H /\ cursor[c].base \in 0 .. H
         /\ cursor[c].more \in BOOLEAN /\ cursor[c].exhausted \in BOOLEAN /\ cursor[c].recent \in BOOLEAN
         /\ stored[c] \in SUBSET Pos
  <1>1. cursor[c] \in CursorRow /\ stored[c] \in SUBSET Pos BY DEF BInv, TablesTyped
  <1> QED BY <1>1 DEF CursorRow

LEMMA OldestIsPos ==
  ASSUME BInv, NEW c \in Chats
  PROVE  OldestStored(c) \in 0 .. H /\ (OldestStored(c) # NoPos => OldestStored(c) \in Pos)
  <1>1. CASE stored[c] = {} BY <1>1, Sizes DEF OldestStored
  <1>2. CASE stored[c] # {}
    <2>1. stored[c] \in SUBSET Pos /\ stored[c] \in SUBSET Nat BY CursorAt, Sizes
    <2>2. Min(stored[c]) \in Pos BY <1>2, <2>1, MinIsLeast
    <2> QED BY <1>2, <2>2, Sizes DEF OldestStored
  <1> QED BY <1>1, <1>2

LEMMA TriggerReadKeeps ==
  ASSUME BInv, NEW h \in Handlers, NEW c \in Chats, NEW t \in Targets, TriggerRead(h, c, t)
  PROVE  BInv'
  <1> DEFINE q == [pc |-> "resolve", kind |-> "trigger", chat |-> c, target |-> t,
                   anchor |-> cursor[c].anchor, more |-> cursor[c].more, hint |-> NoPos]
  <1>1. q \in Reqs BY CursorAt DEF Reqs, TriggerReq
  <1>2. req' = [req EXCEPT ![h] = q] /\ UNCHANGED <<cursor, HandlerVars>> BY DEF TriggerRead
  <1>3. CursorsSound' BY <1>2, CursorsSame DEF HandlerVars
  <1> QED BY <1>1, <1>2, <1>3, ReqMoves DEF HandlerVars

LEMMA SeedReadKeeps ==
  ASSUME BInv, NEW h \in Handlers, NEW c \in Chats, NEW p \in Pos, SeedRead(h, c, p)
  PROVE  BInv'
  <1> DEFINE q == [pc |-> "resolve", kind |-> "seed", chat |-> c, target |-> 0,
                   anchor |-> cursor[c].anchor, more |-> TRUE, hint |-> p]
  <1>1. q \in Reqs BY CursorAt DEF Reqs, SeedReq
  <1>2. /\ req' = [req EXCEPT ![h] = q]
        /\ UNCHANGED <<cursor, stored, jobs, worker, stale, late, connected, cancel, up, missed, owed>>
    BY DEF SeedRead
  <1>3. CursorsSound' BY <1>2, CursorsSame
  <1> QED BY <1>1, <1>2, <1>3, ReqMoves

(* A request that is being handled, and what it may become. *)
LEMMA ReqAt ==
  ASSUME BInv, NEW h \in Handlers, req[h].pc # "idle"
  PROVE  /\ req[h] \in TriggerReq \cup SeedReq /\ req[h].chat \in Chats
         /\ req[h].anchor \in 0 .. H /\ req[h].more \in BOOLEAN /\ req[h].hint \in 0 .. H
         /\ req[h].kind = "trigger" => req[h] \in TriggerReq
         /\ req[h].kind # "trigger" => req[h] \in SeedReq
  <1>1. req[h] \in {IdleReq} \cup TriggerReq \cup SeedReq BY DEF BInv, InFlightTyped
  <1>2. req[h] # IdleReq BY DEF IdleReq
  <1>3. CASE req[h] \in TriggerReq BY <1>3, Sizes DEF TriggerReq
  <1>4. CASE req[h] \in SeedReq BY <1>4, Sizes DEF SeedReq
  <1> QED BY <1>1, <1>2, <1>3, <1>4

LEMMA ContinueKeeps ==
  ASSUME BInv, NEW h \in Handlers, req[h].pc # "idle", NEW pc \in {"write", "enqueue"},
         NEW a \in 0 .. H, Continue(h, pc, a), pc = "enqueue" => req[h].kind = "trigger",
         UNCHANGED HandlerVars, CursorsSound'
  PROVE  BInv'
  <1> DEFINE q == [pc |-> pc, kind |-> req[h].kind, chat |-> req[h].chat, target |-> req[h].target,
                   anchor |-> a, more |-> req[h].more, hint |-> req[h].hint]
  <1>1. q \in Reqs
    <2>1. CASE req[h].kind = "trigger"
      <3>1. req[h] \in TriggerReq BY <2>1, ReqAt
      <3>2. q \in TriggerReq BY <3>1 DEF TriggerReq
      <3> QED BY <3>2 DEF Reqs
    <2>2. CASE req[h].kind # "trigger"
      <3>1. req[h] \in SeedReq /\ pc = "write" BY <2>2, ReqAt
      <3>2. q \in SeedReq BY <3>1 DEF SeedReq
      <3> QED BY <3>2 DEF Reqs
    <2> QED BY <2>1, <2>2
  <1>2. req' = [req EXCEPT ![h] = q] BY DEF Continue
  <1> QED BY <1>1, <1>2, ReqMoves DEF HandlerVars

LEMMA FinishKeeps ==
  ASSUME BInv, NEW h \in Handlers, Finish(h), UNCHANGED HandlerVars, CursorsSound'
  PROVE  BInv'
  <1>1. IdleReq \in Reqs BY DEF Reqs
  <1> QED BY <1>1, ReqMoves DEF Finish, HandlerVars

LEMMA ResolveKeeps ==
  ASSUME BInv, NEW h \in Handlers, Resolve(h)
  PROVE  BInv'
  <1> DEFINE q == req[h] found == ResolveAnchor(q.chat, [anchor |-> q.anchor])
  <1>1. q.pc = "resolve" /\ UNCHANGED <<cursor, HandlerVars>> BY DEF Resolve
  <1>2. q.pc # "idle" /\ q.chat \in Chats /\ q.anchor \in 0 .. H /\ q.hint \in 0 .. H
    BY <1>1, ReqAt
  <1>3. CursorsSound' BY <1>1, CursorsSame DEF HandlerVars
  <1>4. found \in 0 .. H BY <1>2, OldestIsPos DEF ResolveAnchor
  <1>5. CASE q.kind = "trigger" /\ Continue(h, "enqueue", q.anchor)
    BY <1>1, <1>2, <1>3, <1>5, ContinueKeeps
  <1>6. CASE Continue(h, "write", found) BY <1>1, <1>2, <1>3, <1>4, <1>6, ContinueKeeps
  <1>7. CASE Continue(h, "write", q.hint) BY <1>1, <1>2, <1>3, <1>7, ContinueKeeps
  <1>8. CASE Finish(h) BY <1>1, <1>3, <1>8, FinishKeeps
  <1> QED BY <1>5, <1>6, <1>7, <1>8 DEF Resolve

LEMMA WriteSeedKeeps ==
  ASSUME BInv, NEW h \in Handlers, WriteSeed(h)
  PROVE  BInv'
  <1> DEFINE q == req[h]
  <1>1. q.pc = "write" /\ UNCHANGED HandlerVars
        /\ UpsertCursor(q.chat, q.anchor, q.anchor, q.more, FALSE, FALSE)
    BY DEF WriteSeed
  <1>2. q.pc # "idle" /\ q.chat \in Chats /\ q.anchor \in 0 .. H /\ q.more \in BOOLEAN
    BY <1>1, ReqAt
  <1>3. \A p \in Pos : ~(q.anchor <= p /\ p < q.anchor) BY <1>2, Sizes
  <1>4. CursorsSound' BY <1>1, <1>2, <1>3, UpsertSound DEF HandlerVars
  <1>5. CASE q.kind = "trigger" /\ Continue(h, "enqueue", q.anchor)
    BY <1>1, <1>2, <1>4, <1>5, ContinueKeeps
  <1>6. CASE Finish(h) BY <1>1, <1>4, <1>6, FinishKeeps
  <1> QED BY <1>5, <1>6 DEF WriteSeed

LEMMA EnqueueKeeps ==
  ASSUME BInv, NEW h \in Handlers, Enqueue(h)
  PROVE  BInv'
  <1> DEFINE q == req[h]
             new == [chat |-> q.chat, target |-> Clamp(q.target), status |-> "queued", fetched |-> 0]
  <1>1. /\ q.pc = "enqueue" /\ Finish(h)
        /\ UNCHANGED <<cursor, stored, worker, stale, late, connected, cancel, up, missed, owed>>
    BY DEF Enqueue
  <1>2. q \in TriggerReq
    <2>1. q \in TriggerReq \cup SeedReq BY <1>1, ReqAt
    <2> QED BY <2>1, <1>1 DEF SeedReq
  <1>3. q.chat \in Chats /\ q.target \in FetchTarget BY <1>2, BackfillAssumption DEF TriggerReq
  <1>4. new \in Job
    <2>1. Clamp(q.target) \in FetchTarget BY <1>3, Sizes DEF Clamp, FetchTarget
    <2> QED BY <2>1, <1>3 DEF Job, Active
  <1>5. jobs \in Seq(Job) BY DEF BInv, TablesTyped
  <1>6. req' \in [Handlers -> {IdleReq} \cup TriggerReq \cup SeedReq]
    BY <1>1 DEF Finish, BInv, InFlightTyped
  <1>7. CASE jobs' = jobs
    <2>1. JobsKept' BY <1>1, <1>7 DEF BInv, JobsKept
    <2> QED BY <1>1, <1>5, <1>6, <1>7, <2>1, JobsMove
  <1>8. CASE EnqueueOutcome(q.chat) = "accepted" /\ jobs' = Append(jobs, new)
    <2>1. ActiveJobs(jobs, {q.chat}) = {} BY <1>8 DEF EnqueueOutcome
    <2>2. \A i \in 1 .. Len(jobs) : jobs[i].status \in Active => jobs[i].chat # q.chat
      BY <2>1, <1>5 DEF ActiveJobs
    <2>3. /\ jobs' \in Seq(Job) /\ Len(jobs') = Len(jobs) + 1 /\ jobs'[Len(jobs) + 1] = new
          /\ \A i \in 1 .. Len(jobs) : jobs'[i] = jobs[i]
      BY <1>4, <1>5, <1>8
    <2>4. JobsKept'
      <3>1. \A i \in 1 .. Len(jobs') : i \in 1 .. Len(jobs) \/ i = Len(jobs) + 1 BY <2>3, <1>5
      <3>2. new.chat = q.chat OBVIOUS
      <3> HIDE DEF new
      <3> QED BY <3>1, <3>2, <2>2, <2>3, <1>1, <1>5 DEF BInv, JobsKept
    <2>5. Len(jobs) <= Len(jobs') BY <2>3, <1>5
    <2> QED BY <1>1, <1>6, <2>3, <2>4, <2>5, JobsMove
  <1> QED BY <1>7, <1>8 DEF Enqueue

LEMMA CancelJobKeeps ==
  ASSUME BInv, NEW j \in DOMAIN jobs, CancelJob(j)
  PROVE  BInv'
  <1>1. /\ jobs' = Marked(jobs, j, "cancelled")
        /\ UNCHANGED <<stored, cursor, worker, req, stale, late, connected, cancel, up, missed, owed>>
    BY DEF CancelJob, MarkJob
  <1>2. TablesTyped /\ jobs \in Seq(Job) /\ j \in 1 .. Len(jobs) BY DEF BInv, TablesTyped
  <1>3. jobs[j].fetched \in Nat BY <1>2, JobAt
  <1>4. /\ jobs' \in Seq(Job) /\ Len(jobs') = Len(jobs) /\ jobs'[j].status = "cancelled"
        /\ \A i \in 1 .. Len(jobs) : jobs'[i].chat = jobs[i].chat /\ (i # j => jobs'[i] = jobs[i])
    <2>1. "cancelled" \in Active \cup Settled BY DEF Settled
    <2> QED BY <1>1, <1>2, <1>3, <2>1, JobChanges DEF Marked
  <1>5. JobsKept' BY <1>1, <1>2, <1>4 DEF BInv, JobsKept, Active
  <1>6. Len(jobs) <= Len(jobs') BY <1>2, <1>4
  <1> QED BY <1>1, <1>4, <1>5, <1>6, JobsMove DEF BInv, InFlightTyped

-----------------------------------------------------------------------------
(* The worker *)

LEMMA AtWork ==
  ASSUME BInv, worker.pc # "idle"
  PROVE  /\ worker.job \in 1 .. Len(jobs) /\ jobs[worker.job] \in Job /\ wchat \in Chats
         /\ wjob.status \in {"running", "cancelled"}
  <1>1. worker.job \in 1 .. Len(jobs) /\ jobs[worker.job].status \in {"running", "cancelled"}
    BY DEF BInv, JobsKept
  <1>2. jobs[worker.job] \in Job /\ jobs[worker.job].chat \in Chats BY <1>1, JobAt DEF BInv
  <1> QED BY <1>1, <1>2 DEF wchat, wjob

LEMMA WorkerFields ==
  ASSUME BInv
  PROVE  /\ DOMAIN worker = Fields /\ worker.pc \in WorkerPcs /\ worker.job \in Nat
         /\ worker.batch \in SUBSET Pos /\ worker.left \in SUBSET worker.batch
         /\ worker.more \in BOOLEAN /\ worker.fetched \in Nat
  BY DEF BInv, WorkerTyped

(* A step that moves the worker on within its paging and leaves what it      *)
(* claims of the history as it was.                                          *)
LEMMA PcMoves ==
  ASSUME BInv, NEW pc \in {"sent", "waiting", "closing"}, worker.pc \in {"loop", "sent", "waiting"},
         worker' = [worker EXCEPT !.pc = pc] \/ worker' = [worker EXCEPT !.pc = pc, !.answered = FALSE],
         UNCHANGED <<stored, cursor, jobs, missed, WorkerVars>>
  PROVE  BInv'
  <1>1. DOMAIN worker = Fields BY WorkerFields
  <1>2. /\ DOMAIN worker' = Fields /\ worker'.pc = pc /\ worker'.job = worker.job
        /\ worker'.anchor = worker.anchor /\ worker'.base = worker.base
        /\ worker'.batch = worker.batch /\ worker'.left = worker.left /\ worker'.more = worker.more
        /\ worker'.fetched = worker.fetched
    <2>1. CASE worker' = [worker EXCEPT !.pc = pc] BY <1>1, <2>1 DEF Fields
    <2>2. CASE worker' = [worker EXCEPT !.pc = pc, !.answered = FALSE] BY <1>1, <2>2 DEF Fields
    <2> QED BY <2>1, <2>2
  <1>3. WorkerTyped' BY <1>2, WorkerFields DEF WorkerTyped, WorkerPcs, Paging
  <1>4. CursorsSound' BY CursorsSame
  <1>5. PagingBacked' BY <1>2 DEF BInv, HistoryInv, PagingBacked, Backed, Paging, wchat, wjob
  <1>6. BatchHonest' /\ EndKnown' BY <1>2 DEF BatchHonest, EndKnown
  <1> QED BY <1>2, <1>3, <1>4, <1>5, <1>6, WorkerMoves DEF WorkerVars

LEMMA SendRequestKeeps == ASSUME BInv, SendRequest PROVE BInv'
  BY PcMoves DEF SendRequest

LEMMA RegisterKeeps == ASSUME BInv, Register PROVE BInv'
  BY PcMoves DEF Register

LEMMA TimeoutKeeps == ASSUME BInv, Timeout PROVE BInv'
  BY PcMoves DEF Timeout

LEMMA ClaimKeeps ==
  ASSUME BInv, Claim
  PROVE  BInv'
  <1> DEFINE queued == {j \in DOMAIN jobs : jobs[j].status = "queued"} j == Min(queued)
  <1>1. /\ worker.pc = "idle" /\ queued # {} /\ jobs' = Marked(jobs, j, "running")
        /\ worker' = [IdleWorker EXCEPT !.pc = "start", !.job = j, !.fetched = jobs[j].fetched]
        /\ UNCHANGED <<stored, cursor, missed, WorkerVars>>
    BY DEF Claim
  <1>2. TablesTyped /\ jobs \in Seq(Job) BY DEF BInv, TablesTyped
  <1>3. queued \in SUBSET Nat BY <1>2
  <1>4. j \in queued BY <1>1, <1>3, MinIsLeast
  <1>5. j \in 1 .. Len(jobs) /\ jobs[j].status = "queued" /\ jobs[j].fetched \in Nat /\ j \in Nat
    <2>1. j \in 1 .. Len(jobs) /\ jobs[j].status = "queued" BY <1>4, <1>2
    <2> QED BY <2>1, <1>2, JobAt
  <1> HIDE DEF j, queued
  <1>6. /\ jobs' \in Seq(Job) /\ Len(jobs') = Len(jobs) /\ jobs'[j].status = "running"
        /\ \A i \in 1 .. Len(jobs) : jobs'[i].chat = jobs[i].chat /\ (i # j => jobs'[i] = jobs[i])
    <2>1. "running" \in Active \cup Settled BY DEF Active
    <2> QED BY <1>1, <1>2, <1>5, <2>1, JobChanges DEF Marked
  <1>7. WorkerTyped' /\ worker'.pc = "start" /\ worker'.job = j
    BY <1>1, <1>5 DEF IdleWorker, WorkerTyped, Fields, WorkerPcs
  <1>8. TablesTyped' BY <1>1, <1>2, <1>6 DEF TablesTyped, WorkerVars
  <1>9. InFlightTyped' BY <1>1 DEF BInv, InFlightTyped, WorkerVars
  <1>10. JobsKept'
    <2>1. \A i \in 1 .. Len(jobs) : jobs'[i].status \in Active => jobs[i].status \in Active
      BY <1>5, <1>6 DEF Active
    <2> QED BY <2>1, <1>2, <1>5, <1>6, <1>7 DEF BInv, JobsKept
  <1>11. HistoryInv'
    <2>1. CursorsSound' BY <1>1, CursorsSame
    <2> QED BY <2>1, <1>7 DEF HistoryInv, CursorsSound, PagingBacked, BatchHonest, EndKnown, Paging
  <1>12. AnswersKept' BY <1>1 DEF BInv, AnswersKept, WorkerVars
  <1> QED BY <1>7, <1>8, <1>9, <1>10, <1>11, <1>12 DEF BInv

LEMMA StartJobKeeps ==
  ASSUME BInv, StartJob
  PROVE  BInv'
  <1> DEFINE row == cursor[wchat] a == ResolveAnchor(wchat, row)
             b == IF row.anchor = NoPos THEN a ELSE row.base
  <1>1. worker.pc = "start" /\ UNCHANGED <<stored, cursor, jobs, missed, WorkerVars>> BY DEF StartJob
  <1>2. wchat \in Chats BY <1>1, AtWork
  <1>3. CursorsSound' BY <1>1, CursorsSame
  <1>4. ASSUME NEW how \in Ends, End(how) PROVE BInv'
    BY <1>1, <1>3, <1>4, EndMoves DEF WorkerVars
  <1>5. CASE a # NoPos /\ worker' = [worker EXCEPT !.pc = "loop", !.anchor = a, !.base = b]
    <2>1. DOMAIN worker = Fields BY WorkerFields
    <2>2. /\ DOMAIN worker' = Fields /\ worker'.pc = "loop" /\ worker'.job = worker.job
          /\ worker'.anchor = a /\ worker'.base = b
          /\ worker'.batch = worker.batch /\ worker'.left = worker.left /\ worker'.more = worker.more
          /\ worker'.fetched = worker.fetched
      BY <2>1, <1>5 DEF Fields
    <2>3. WorkerTyped' BY <2>2, WorkerFields DEF WorkerTyped, WorkerPcs, Paging
    <2>4. row.anchor \in 0 .. H /\ row.base \in 0 .. H BY <1>2, CursorAt
    <2>5. a \in Pos
      <3>1. CASE row.anchor = NoPos BY <3>1, <1>2, <1>5, OldestIsPos DEF ResolveAnchor
      <3>2. CASE row.anchor # NoPos BY <3>2, <2>4, Sizes DEF ResolveAnchor, Pos, NoPos
      <3> QED BY <3>1, <3>2
    <2>6. \A p \in Pos : a <= p /\ p < b => Backed(wchat, p)
      <3>1. CASE row.anchor = NoPos
        <4>1. a = b BY <3>1
        <4> HIDE DEF a, b
        <4>2. a \in Nat BY <2>5, Sizes
        <4> QED BY <4>1, <4>2, Sizes
      <3>2. CASE row.anchor # NoPos
        <4>1. a = row.anchor /\ b = row.base BY <3>2 DEF ResolveAnchor
        <4> QED BY <4>1, <1>2 DEF BInv, HistoryInv, CursorBacked, Backed
      <3> QED BY <3>1, <3>2
    <2>7. b \in 0 .. H BY <2>4, <2>5, Sizes
    <2> HIDE DEF a, b, row
    <2>8. wchat' = wchat /\ (\A p : Backed(wchat, p)' = Backed(wchat, p))
      BY <1>1, <2>2 DEF wchat, wjob, Backed
    <2>9. PagingBacked' BY <2>2, <2>5, <2>6, <2>7, <2>8 DEF PagingBacked
    <2>10. BatchHonest' /\ EndKnown' BY <2>2 DEF BatchHonest, EndKnown
    <2> QED BY <1>1, <1>3, <2>2, <2>3, <2>9, <2>10, WorkerMoves DEF WorkerVars
  <1>6. "done" \in Ends /\ "failed" \in Ends BY DEF Ends
  <1> QED BY <1>4, <1>5, <1>6 DEF StartJob

(* What the worker claims while it pages. *)
LEMMA AtPaging ==
  ASSUME BInv, worker.pc \in Paging
  PROVE  /\ worker.pc # "idle" /\ wchat \in Chats
         /\ worker.anchor \in Pos /\ worker.anchor \in 0 .. H /\ worker.base \in 0 .. H
         /\ \A p \in Pos : worker.anchor <= p /\ p < worker.base => Backed(wchat, p)
  <1>1. worker.pc # "idle" BY DEF Paging
  <1>2. wchat \in Chats BY <1>1, AtWork
  <1> QED BY <1>1, <1>2, Sizes DEF BInv, HistoryInv, PagingBacked

(* A job that ends after a last write of its cursor, landed or lost. *)
LEMMA EndAfterWrite ==
  ASSUME BInv, NEW how \in Ends, End(how), worker.pc \in Paging,
         worker.pc = "persist" => worker.left = {},
         NEW more \in BOOLEAN, NEW ex \in BOOLEAN, NEW stamp \in BOOLEAN,
         ex => \A p \in Pos : p < worker.base => Backed(wchat, p),
         UpsertCursor(wchat, worker.anchor, worker.base, more, ex, stamp) \/ UNCHANGED cursor,
         UNCHANGED <<stored, jobs, missed, WorkerVars>>
  PROVE  BInv'
  <1>1. CursorsSound'
    <2>1. CASE UNCHANGED cursor BY <2>1, CursorsSame
    <2>2. CASE UpsertCursor(wchat, worker.anchor, worker.base, more, ex, stamp)
      BY <2>2, AtPaging, UpsertSound
    <2> QED BY <2>1, <2>2
  <1> QED BY <1>1, AtPaging, EndMoves DEF WorkerVars

LEMMA LoopCancelledKeeps == ASSUME BInv, LoopCancelled PROVE BInv'
  <1>1. /\ worker.pc = "loop" /\ End("cancelled") /\ UNCHANGED <<stored, jobs, missed, WorkerVars>>
        /\ UpsertCursor(wchat, worker.anchor, worker.base, TRUE, FALSE, FALSE) \/ UNCHANGED cursor
    BY DEF LoopCancelled, Attempt
  <1>2. "cancelled" \in Ends /\ worker.pc \in Paging BY <1>1 DEF Ends, Paging
  <1> QED BY <1>1, <1>2, EndAfterWrite

LEMMA LoopDeferredKeeps == ASSUME BInv, LoopDeferred PROVE BInv'
  <1>1. worker.pc = "loop" /\ End("deferred") /\ UNCHANGED <<stored, cursor, jobs, missed, WorkerVars>>
    BY DEF LoopDeferred
  <1>2. "deferred" \in Ends BY DEF Ends
  <1> QED BY <1>1, <1>2, EndMoves, CursorsSame DEF WorkerVars

LEMMA FetchErrorKeeps == ASSUME BInv, FetchError PROVE BInv'
  <1> DEFINE how == IF connected THEN "failed" ELSE "deferred"
  <1>1. /\ worker.pc \in {"sent", "closing"} /\ End(how)
        /\ stale' = stale \/ stale' = {[chat |-> wchat, anchor |-> worker.anchor]}
        /\ UNCHANGED <<stored, cursor, jobs, req, late, connected, cancel, up, missed, owed>>
    BY DEF FetchError
  <1>2. worker.pc \in Paging BY <1>1 DEF Paging
  <1>3. stale' = stale \/ stale' \in SUBSET [chat : Chats, anchor : Pos]
    <2>1. [chat |-> wchat, anchor |-> worker.anchor] \in [chat : Chats, anchor : Pos] BY <1>2, AtPaging
    <2> QED BY <1>1, <2>1
  <1>4. how \in Ends BY DEF Ends
  <1>5. CursorsSound' BY <1>1, CursorsSame
  <1> HIDE DEF how
  <1> QED BY <1>1, <1>3, <1>4, <1>5, EndMoves

LEMMA NoProgressKeeps == ASSUME BInv, NoProgress PROVE BInv'
  <1>1. /\ worker.pc = "persist" /\ worker.left = {} /\ worker.batch = {} /\ End("done")
        /\ UNCHANGED <<stored, jobs, missed, WorkerVars>>
        /\ UpsertCursor(wchat, worker.anchor, worker.base, FALSE, TRUE, TRUE) \/ UNCHANGED cursor
    BY DEF NoProgress, Persisted, Attempt
  <1>2. "done" \in Ends /\ worker.pc \in Paging BY <1>1 DEF Ends, Paging
  <1>3. worker.anchor = 1 BY <1>1 DEF BInv, HistoryInv, BatchHonest
  <1>4. \A p \in Pos : p < worker.base => Backed(wchat, p)
    <2>1. \A p \in Pos : worker.anchor <= p BY <1>3 DEF Pos
    <2> QED BY <2>1, <1>2, AtPaging
  <1> QED BY <1>1, <1>2, <1>4, EndAfterWrite

LEMMA StuckKeeps == ASSUME BInv, Stuck PROVE BInv'
  <1>1. /\ worker.pc = "persist" /\ worker.left = {} /\ End("failed")
        /\ UNCHANGED <<stored, cursor, jobs, missed, WorkerVars>>
    BY DEF Stuck, Persisted
  <1>2. "failed" \in Ends BY DEF Ends
  <1> QED BY <1>1, <1>2, EndMoves, CursorsSame DEF WorkerVars

LEMMA TargetReachedKeeps == ASSUME BInv, TargetReached PROVE BInv'
  <1>1. /\ worker.pc = "evaluate" /\ End("done") /\ UNCHANGED <<stored, jobs, missed, WorkerVars>>
        /\ \/ UpsertCursor(wchat, worker.anchor, worker.base, worker.more, Exhausted(worker.more), TRUE)
           \/ UNCHANGED cursor
    BY DEF TargetReached, AtTarget, Attempt
  <1>2. "done" \in Ends /\ worker.pc \in Paging /\ worker.more \in BOOLEAN
    BY <1>1, WorkerFields DEF Ends, Paging
  <1>3. Exhausted(worker.more) \in BOOLEAN BY DEF Exhausted
  <1>4. Exhausted(worker.more) => \A p \in Pos : p < worker.base => Backed(wchat, p)
    BY <1>1 DEF Exhausted, BInv, HistoryInv, EndKnown
  <1> QED BY <1>1, <1>2, <1>3, <1>4, EndAfterWrite

LEMMA ParkKeeps == ASSUME BInv, Park PROVE BInv'
  <1>1. worker.pc = "evaluate" /\ End("parked") /\ UNCHANGED <<stored, cursor, jobs, missed, WorkerVars>>
    BY DEF Park, AtTarget
  <1>2. "parked" \in Ends BY DEF Ends
  <1> QED BY <1>1, <1>2, EndMoves, CursorsSame DEF WorkerVars

LEMMA PaceKeeps == ASSUME BInv, Pace PROVE BInv'
  <1>1. worker.pc = "evaluate" /\ UNCHANGED <<stored, cursor, jobs, missed, WorkerVars>>
    BY DEF Pace, AtTarget
  <1>2. CursorsSound' BY <1>1, CursorsSame
  <1>3. CASE End("cancelled")
    <2>1. "cancelled" \in Ends BY DEF Ends
    <2> QED BY <1>1, <1>2, <1>3, <2>1, EndMoves DEF WorkerVars
  <1>4. CASE worker' = [worker EXCEPT !.pc = "loop", !.more = TRUE]
    <2>1. DOMAIN worker = Fields BY WorkerFields
    <2>2. /\ DOMAIN worker' = Fields /\ worker'.pc = "loop" /\ worker'.job = worker.job
          /\ worker'.anchor = worker.anchor /\ worker'.base = worker.base
          /\ worker'.batch = worker.batch /\ worker'.left = worker.left /\ worker'.more = TRUE
          /\ worker'.fetched = worker.fetched
      BY <2>1, <1>4 DEF Fields
    <2>3. WorkerTyped' BY <2>2, WorkerFields DEF WorkerTyped, WorkerPcs, Paging
    <2>4. PagingBacked' BY <1>1, <2>2 DEF BInv, HistoryInv, PagingBacked, Backed, Paging, wchat, wjob
    <2>5. BatchHonest' /\ EndKnown' BY <2>2 DEF BatchHonest, EndKnown
    <2> QED BY <1>1, <1>2, <2>2, <2>3, <2>4, <2>5, WorkerMoves DEF WorkerVars
  <1> QED BY <1>3, <1>4 DEF Pace

-----------------------------------------------------------------------------
(* Answers and what is written of them *)

(* One insert, landed or counted as failed. *)
LEMMA PersistSound ==
  ASSUME BInv, NEW c \in Chats, NEW p \in Pos, Persist(<<c, p>>)
  PROVE  /\ stored' \in [Chats -> SUBSET Pos] /\ missed' \in [Chats -> SUBSET Pos]
         /\ owed' \in [Chats -> SUBSET Pos]
         /\ \A d \in Chats : stored[d] \subseteq stored'[d] /\ missed[d] \subseteq missed'[d]
         /\ Backed(c, p)'
         /\ \A d \in Chats : owed'[d] \subseteq owed[d]
         /\ p \notin owed'[c]
  <1>1. /\ stored \in [Chats -> SUBSET Pos] /\ missed \in [Chats -> SUBSET Pos]
        /\ owed \in [Chats -> SUBSET Pos]
    BY DEF BInv, TablesTyped
  <1>2. <<c, p>>[1] = c /\ <<c, p>>[2] = p OBVIOUS
  <1>3. owed' = [owed EXCEPT ![c] = owed[c] \ {p}] BY <1>2 DEF Persist
  <1>4. CASE stored' = [stored EXCEPT ![c] = stored[c] \cup {p}] /\ missed' = missed
    BY <1>1, <1>3, <1>4 DEF Backed
  <1>5. CASE missed' = [missed EXCEPT ![c] = missed[c] \cup {p}] /\ stored' = stored
    BY <1>1, <1>3, <1>5 DEF Backed
  <1> QED BY <1>2, <1>4, <1>5 DEF Persist

(* More rows back what fewer backed. *)
LEMMA RowsGrow ==
  ASSUME BInv, UNCHANGED cursor,
         \A d \in Chats : stored[d] \subseteq stored'[d] /\ missed[d] \subseteq missed'[d]
  PROVE  /\ CursorsSound'
         /\ \A d \in Chats : \A p \in Pos : Backed(d, p) => Backed(d, p)'
  <1>1. \A d \in Chats : \A p \in Pos : Backed(d, p) => Backed(d, p)' BY DEF Backed
  <1>2. CursorsSound'
    BY DEF BInv, HistoryInv, TablesTyped, CursorsSound, CursorBacked, ExhaustedIsTrue
  <1> QED BY <1>1, <1>2

(* Rows are added, the worker stays as it is. *)
LEMMA RowsMove ==
  ASSUME BInv, UNCHANGED <<cursor, jobs, worker, connected, cancel, up>>,
         stored' \in [Chats -> SUBSET Pos], missed' \in [Chats -> SUBSET Pos],
         owed' \in [Chats -> SUBSET Pos],
         \A d \in Chats : stored[d] \subseteq stored'[d] /\ missed[d] \subseteq missed'[d],
         InFlightTyped', AnswersKept'
  PROVE  BInv'
  <1>1. CursorsSound' /\ \A d \in Chats : \A p \in Pos : Backed(d, p) => Backed(d, p)'
    BY RowsGrow
  <1>2. WorkerTyped' BY DEF BInv, WorkerTyped
  <1>3. TablesTyped' BY DEF BInv, TablesTyped
  <1>4. JobsKept' BY DEF BInv, JobsKept
  <1>5. worker.pc # "idle" => wchat \in Chats /\ wchat' = wchat
    <2>1. wchat' = wchat BY DEF wchat, wjob
    <2> QED BY <2>1, AtWork
  <1>6. PagingBacked' BY <1>1, <1>5 DEF BInv, HistoryInv, PagingBacked, Paging
  <1>7. BatchHonest'
    <2>1. worker.batch \in SUBSET Pos BY WorkerFields
    <2> QED BY <2>1, <1>1, <1>5 DEF BInv, HistoryInv, BatchHonest
  <1>8. EndKnown' BY <1>1, <1>5 DEF BInv, HistoryInv, EndKnown
  <1>9. HistoryInv' BY <1>1, <1>6, <1>7, <1>8 DEF HistoryInv, CursorsSound
  <1> QED BY <1>2, <1>3, <1>4, <1>9 DEF BInv

LEMMA StoreLateKeeps == ASSUME BInv, StoreLate PROVE BInv'
  <1>1. PICK m \in late : Persist(m) /\ late' = late \ {m} BY DEF StoreLate
  <1>2. UNCHANGED <<cursor, jobs, worker, req, stale, connected, cancel, up>> BY DEF StoreLate
  <1>3. late \in SUBSET (Chats \X Pos) BY DEF BInv, InFlightTyped
  <1>4. PICK c \in Chats, p \in Pos : m = <<c, p>> BY <1>3
  <1>5. Persist(<<c, p>>) /\ late' = late \ {<<c, p>>} BY <1>1, <1>4
  <1>6. InFlightTyped' BY <1>2, <1>5 DEF BInv, InFlightTyped
  <1>7. AnswersKept'
    <2>1. wchat' = wchat BY <1>2 DEF wchat, wjob
    <2>2. /\ \A d \in Chats : stored[d] \subseteq stored'[d] /\ owed'[d] \subseteq owed[d]
          /\ p \notin owed'[c]
      BY <1>5, PersistSound
    <2>3. ASSUME NEW d \in Chats, NEW x \in owed'[d]
          PROVE  \/ x \in stored'[d] \/ <<d, x>> \in late'
                 \/ worker'.pc = "persist" /\ wchat' = d /\ x \in worker'.left
      <3>1. x \in owed[d] BY <2>2
      <3>2. <<d, x>> # <<c, p>> BY <2>2
      <3> QED BY <3>1, <3>2, <2>1, <2>2, <1>2, <1>5 DEF BInv, AnswersKept
    <2> QED BY <2>3 DEF AnswersKept
  <1> QED BY <1>2, <1>5, <1>6, <1>7, PersistSound, RowsMove

LEMMA PersistNextKeeps == ASSUME BInv, PersistNext PROVE BInv'
  <1> DEFINE m == Max(worker.left)
  <1>1. /\ worker.pc = "persist" /\ worker.left # {} /\ Persist(<<wchat, m>>)
        /\ worker' = [worker EXCEPT !.left = worker.left \ {m}]
        /\ UNCHANGED <<cursor, jobs, req, stale, late, connected, cancel, up>>
    BY DEF PersistNext
  <1>2. worker.batch \in SUBSET Pos /\ worker.left \in SUBSET worker.batch /\ DOMAIN worker = Fields
    BY WorkerFields
  <1>3. m \in worker.left /\ m \in Pos
    <2>1. worker.left \in SUBSET (1 .. H) BY <1>2 DEF Pos
    <2>2. m \in worker.left BY <2>1, <1>1, Sizes, GreatestExists
    <2> QED BY <2>2, <1>2
  <1> HIDE DEF m
  <1>4. worker.pc \in Paging /\ wchat \in Chats BY <1>1, AtWork DEF Paging
  <1>5. /\ DOMAIN worker' = Fields /\ worker'.pc = "persist" /\ worker'.job = worker.job
        /\ worker'.anchor = worker.anchor /\ worker'.base = worker.base
        /\ worker'.batch = worker.batch /\ worker'.left = worker.left \ {m}
        /\ worker'.more = worker.more /\ worker'.fetched = worker.fetched
    BY <1>1, <1>2 DEF Fields
  <1>6. wchat' = wchat BY <1>1, <1>5 DEF wchat, wjob
  <1>7. /\ stored' \in [Chats -> SUBSET Pos] /\ missed' \in [Chats -> SUBSET Pos]
        /\ owed' \in [Chats -> SUBSET Pos]
        /\ \A d \in Chats : stored[d] \subseteq stored'[d] /\ missed[d] \subseteq missed'[d]
        /\ m \in stored'[wchat] \cup missed'[wchat] /\ m \notin owed'[wchat]
        /\ \A d \in Chats : owed'[d] \subseteq owed[d]
    <2>1. PICK c \in Chats, p \in Pos : c = wchat /\ p = m BY <1>3, <1>4
    <2>2. Persist(<<c, p>>) BY <1>1, <2>1
    <2> QED BY <2>1, <2>2, PersistSound DEF Backed
  <1>8. CursorsSound' /\ \A d \in Chats : \A p \in Pos : Backed(d, p) => Backed(d, p)'
    BY <1>1, <1>7, RowsGrow
  <1>9. WorkerTyped' BY <1>5, WorkerFields DEF WorkerTyped, WorkerPcs, Paging
  <1>10. TablesTyped' BY <1>1, <1>7 DEF BInv, TablesTyped
  <1>11. InFlightTyped' BY <1>1 DEF BInv, InFlightTyped
  <1>12. JobsKept' BY <1>1, <1>5 DEF BInv, JobsKept
  <1>13. PagingBacked' BY <1>4, <1>5, <1>6, <1>8 DEF BInv, HistoryInv, PagingBacked
  <1>14. BatchHonest'
    <2>1. ASSUME NEW p \in worker.batch PROVE p \in worker'.left \/ Backed(wchat, p)'
      <3>1. CASE p = m BY <3>1, <1>6, <1>7 DEF Backed
      <3>2. CASE p # m
        <4>1. p \in worker.left \/ Backed(wchat, p) BY <1>1 DEF BInv, HistoryInv, BatchHonest
        <4>2. CASE p \in worker.left BY <3>2, <4>2, <1>5
        <4>3. CASE Backed(wchat, p)
          <5>1. p \in stored[wchat] \/ p \in missed[wchat] BY <4>3 DEF Backed
          <5> QED BY <5>1, <1>4, <1>6, <1>7 DEF Backed
        <4> QED BY <4>1, <4>2, <4>3
      <3> QED BY <3>1, <3>2
    <2> QED BY <2>1, <1>1, <1>5, <1>6 DEF BInv, HistoryInv, BatchHonest, Backed
  <1>15. EndKnown' BY <1>5 DEF EndKnown
  <1>16. HistoryInv' BY <1>8, <1>13, <1>14, <1>15 DEF HistoryInv, CursorsSound
  <1>17. AnswersKept'
    <2>1. ASSUME NEW d \in Chats, NEW x \in owed'[d]
          PROVE  \/ x \in stored'[d] \/ <<d, x>> \in late'
                 \/ worker'.pc = "persist" /\ wchat' = d /\ x \in worker'.left
      <3>1. x \in owed[d] BY <1>7
      <3>2. x \in stored[d] \/ <<d, x>> \in late \/ (wchat = d /\ x \in worker.left)
        BY <3>1 DEF BInv, AnswersKept
      <3>3. ~(wchat = d /\ x = m) BY <1>7
      <3> QED BY <3>2, <3>3, <1>1, <1>5, <1>6, <1>7
    <2> QED BY <2>1 DEF AnswersKept
  <1> QED BY <1>9, <1>10, <1>11, <1>12, <1>16, <1>17 DEF BInv

LEMMA LiveMessageKeeps == ASSUME BInv, NEW c \in Chats, LiveMessage(c) PROVE BInv'
  <1>1. /\ stored' = [stored EXCEPT ![c] = stored[c] \cup {H}]
        /\ UNCHANGED <<cursor, jobs, worker, req, stale, late, connected, cancel, up, missed, owed>>
    BY DEF LiveMessage
  <1>2. H \in Pos BY Sizes DEF Pos
  <1>3. stored \in [Chats -> SUBSET Pos] BY DEF BInv, TablesTyped
  <1>4. stored' \in [Chats -> SUBSET Pos] /\ \A d \in Chats : stored[d] \subseteq stored'[d]
    BY <1>1, <1>2, <1>3
  <1>5. InFlightTyped' BY <1>1 DEF BInv, InFlightTyped
  <1>6. AnswersKept' BY <1>1, <1>4 DEF BInv, AnswersKept, wchat, wjob
  <1>7. missed' \in [Chats -> SUBSET Pos] /\ owed' \in [Chats -> SUBSET Pos]
    BY <1>1 DEF BInv, TablesTyped
  <1> QED BY <1>1, <1>4, <1>5, <1>6, <1>7, RowsMove

(* An honest answer to "older than a": a run that ends at a - 1, the anchor  *)
(* again, or nothing when nothing is older.                                  *)
LEMMA AnswerShape ==
  ASSUME NEW a \in Pos, NEW r \in HonestAnswers(a)
  PROVE  /\ r.msgs \in SUBSET Pos /\ r.more \in BOOLEAN
         /\ r.msgs = {} => a = 1
         /\ r.msgs # {} =>
               \E q \in r.msgs :
                  /\ q <= a /\ \A p \in r.msgs : q <= p
                  /\ \A p \in Pos : q <= p /\ p < a => p \in r.msgs
         /\ ~r.more => \A p \in Pos : p < a => p \in r.msgs
  <1>1. /\ r \in Answers(a) /\ (~r.more => \A p \in Pos : p < a => p \in r.msgs)
        /\ (r.msgs = {} => a = 1)
    BY DEF HonestAnswers
  <1>2. CASE \E q \in Pos, m \in BOOLEAN : q < a /\ r = [msgs |-> q .. (a - 1), more |-> m]
    <2>1. PICK q \in Pos, m \in BOOLEAN : q < a /\ r = [msgs |-> q .. (a - 1), more |-> m] BY <1>2
    <2>2. r.msgs = q .. (a - 1) /\ r.more = m BY <2>1
    <2>3. r.msgs \in SUBSET Pos BY <2>1, <2>2, Sizes DEF Pos
    <2>4. q \in r.msgs /\ q <= a BY <2>1, <2>2, Sizes DEF Pos
    <2>5. (\A p \in r.msgs : q <= p) /\ \A p \in Pos : q <= p /\ p < a => p \in r.msgs
      BY <2>1, <2>2, Sizes DEF Pos
    <2> QED BY <1>1, <2>2, <2>3, <2>4, <2>5
  <1>3. CASE r = [msgs |-> {a}, more |-> TRUE]
    <2>1. r.msgs = {a} /\ r.more = TRUE BY <1>3
    <2>2. a <= a /\ \A p \in Pos : ~(a <= p /\ p < a) BY Sizes
    <2> QED BY <1>1, <2>1, <2>2
  <1>4. CASE r = [msgs |-> {}, more |-> a > 1] BY <1>1, <1>4, Sizes
  <1> QED BY <1>1, <1>2, <1>3, <1>4 DEF Answers

(* A chunk of an answer that a storing task takes over. *)
LEMMA StaleAnswerArrivesKeeps == ASSUME BInv, StaleAnswerArrives PROVE BInv'
  <1>1. PICK s \in stale : \E r \in HonestAnswers(s.anchor) :
          /\ Unmatched(s.chat, r) /\ owed' = [owed EXCEPT ![s.chat] = owed[s.chat] \cup r.msgs]
          /\ stale' = stale \ {s}
    BY DEF StaleAnswerArrives
  <1>2. UNCHANGED <<stored, cursor, jobs, worker, req, connected, cancel, up, missed>>
    BY DEF StaleAnswerArrives
  <1>3. s \in [chat : Chats, anchor : Pos] /\ stale \in SUBSET [chat : Chats, anchor : Pos]
    BY DEF BInv, InFlightTyped
  <1>4. PICK c \in Chats, a \in Pos : c = s.chat /\ a = s.anchor BY <1>3
  <1>5. PICK r \in HonestAnswers(a) :
          late' = late \cup ({c} \X r.msgs) /\ owed' = [owed EXCEPT ![c] = owed[c] \cup r.msgs]
    BY <1>1, <1>4 DEF Unmatched
  <1>6. r.msgs \in SUBSET Pos BY AnswerShape
  <1>7. owed \in [Chats -> SUBSET Pos] /\ late \in SUBSET (Chats \X Pos)
    BY DEF BInv, TablesTyped, InFlightTyped
  <1>8. owed' \in [Chats -> SUBSET Pos] /\ late' \in SUBSET (Chats \X Pos)
    BY <1>5, <1>6, <1>7
  <1>9. InFlightTyped' BY <1>1, <1>2, <1>3, <1>8 DEF BInv, InFlightTyped
  <1>10. AnswersKept'
    <2>1. wchat' = wchat BY <1>2 DEF wchat, wjob
    <2>2. ASSUME NEW d \in Chats, NEW x \in owed'[d]
          PROVE  \/ x \in stored'[d] \/ <<d, x>> \in late'
                 \/ worker'.pc = "persist" /\ wchat' = d /\ x \in worker'.left
      <3>1. x \in owed[d] \/ (d = c /\ x \in r.msgs) BY <1>5, <1>7
      <3> QED BY <3>1, <2>1, <1>2, <1>5 DEF BInv, AnswersKept
    <2> QED BY <2>2 DEF AnswersKept
  <1>11. stored' \in [Chats -> SUBSET Pos] /\ missed' \in [Chats -> SUBSET Pos]
    BY <1>2 DEF BInv, TablesTyped
  <1> QED BY <1>2, <1>8, <1>9, <1>10, <1>11, RowsMove

(* The worker takes the answer it waits for. *)
LEMMA AnswerTaken ==
  ASSUME BInv, worker.pc = "waiting", NEW c \in Chats, c = wchat,
         NEW a \in Pos, a = worker.anchor, NEW r \in HonestAnswers(a),
         worker' = [worker EXCEPT !.answered = TRUE, !.pc = "persist", !.batch = r.msgs,
                                  !.left = r.msgs, !.more = r.more],
         owed' = [owed EXCEPT ![c] = owed[c] \cup r.msgs],
         UNCHANGED <<stored, cursor, jobs, req, stale, late, connected, cancel, up, missed>>
  PROVE  BInv'
  <1>1. DOMAIN worker = Fields BY WorkerFields
  <1>2. /\ DOMAIN worker' = Fields /\ worker'.pc = "persist" /\ worker'.job = worker.job
        /\ worker'.anchor = worker.anchor /\ worker'.base = worker.base
        /\ worker'.batch = r.msgs /\ worker'.left = r.msgs
        /\ worker'.more = r.more /\ worker'.fetched = worker.fetched
    BY <1>1 DEF Fields
  <1>3. wchat' = wchat BY <1>2 DEF wchat, wjob
  <1>4. owed \in [Chats -> SUBSET Pos] BY DEF BInv, TablesTyped
  <1>5. r.msgs \in SUBSET Pos /\ r.more \in BOOLEAN BY AnswerShape
  <1>6. WorkerTyped' BY <1>2, <1>5, WorkerFields DEF WorkerTyped, WorkerPcs, Paging
  <1>7. TablesTyped'
    <2>1. owed' \in [Chats -> SUBSET Pos] BY <1>4, <1>5
    <2> QED BY <2>1 DEF BInv, TablesTyped
  <1>8. InFlightTyped' BY DEF BInv, InFlightTyped
  <1>9. JobsKept' BY <1>2 DEF BInv, JobsKept
  <1>10. CursorsSound' BY CursorsSame
  <1>11. PagingBacked' BY <1>2, <1>3 DEF BInv, HistoryInv, PagingBacked, Paging, Backed
  <1>12. BatchHonest' BY <1>2, AnswerShape DEF BatchHonest
  <1>13. EndKnown' BY <1>2 DEF EndKnown
  <1>14. HistoryInv' BY <1>10, <1>11, <1>12, <1>13 DEF HistoryInv, CursorsSound
  <1>15. AnswersKept'
    <2>1. ASSUME NEW d \in Chats, NEW x \in owed'[d]
          PROVE  \/ x \in stored'[d] \/ <<d, x>> \in late'
                 \/ worker'.pc = "persist" /\ wchat' = d /\ x \in worker'.left
      <3>1. x \in owed[d] \/ (d = c /\ x \in r.msgs) BY <1>4
      <3> QED BY <3>1, <1>2, <1>3 DEF BInv, AnswersKept
    <2> QED BY <2>1 DEF AnswersKept
  <1> QED BY <1>6, <1>7, <1>8, <1>9, <1>14, <1>15 DEF BInv

(* The answer comes before the worker waits or after it gave up. *)
LEMMA AnswerPassedOn ==
  ASSUME BInv, worker.pc \in {"sent", "closing"}, NEW c \in Chats, c = wchat,
         NEW msgs \in SUBSET Pos, worker' = [worker EXCEPT !.answered = TRUE],
         \/ late' = late /\ owed' = owed
         \/ late' = late \cup ({c} \X msgs) /\ owed' = [owed EXCEPT ![c] = owed[c] \cup msgs],
         UNCHANGED <<stored, cursor, jobs, req, stale, connected, cancel, up, missed>>
  PROVE  BInv'
  <1>1. DOMAIN worker = Fields BY WorkerFields
  <1>2. /\ DOMAIN worker' = Fields /\ worker'.pc = worker.pc /\ worker'.job = worker.job
        /\ worker'.anchor = worker.anchor /\ worker'.base = worker.base
        /\ worker'.batch = worker.batch /\ worker'.left = worker.left
        /\ worker'.more = worker.more /\ worker'.fetched = worker.fetched
    BY <1>1 DEF Fields
  <1>3. wchat' = wchat BY <1>2 DEF wchat, wjob
  <1>4. owed \in [Chats -> SUBSET Pos] /\ late \in SUBSET (Chats \X Pos)
    BY DEF BInv, TablesTyped, InFlightTyped
  <1>5. owed' \in [Chats -> SUBSET Pos] /\ late' \in SUBSET (Chats \X Pos) BY <1>4
  <1>6. WorkerTyped' BY <1>2, WorkerFields DEF WorkerTyped
  <1>7. TablesTyped' BY <1>5 DEF BInv, TablesTyped
  <1>8. InFlightTyped' BY <1>5 DEF BInv, InFlightTyped
  <1>9. JobsKept' BY <1>2 DEF BInv, JobsKept
  <1>10. CursorsSound' BY CursorsSame
  <1>11. PagingBacked' BY <1>2, <1>3 DEF BInv, HistoryInv, PagingBacked, Backed
  <1>12. BatchHonest' /\ EndKnown' BY <1>2 DEF BatchHonest, EndKnown
  <1>13. HistoryInv' BY <1>10, <1>11, <1>12 DEF HistoryInv, CursorsSound
  <1>14. AnswersKept'
    <2>1. ASSUME NEW d \in Chats, NEW x \in owed'[d]
          PROVE  x \in stored'[d] \/ <<d, x>> \in late'
      <3>1. x \in owed[d] \/ (d = c /\ x \in msgs /\ late' = late \cup ({c} \X msgs)) BY <1>4
      <3>2. x \in owed[d] => x \in stored[d] \/ <<d, x>> \in late BY DEF BInv, AnswersKept
      <3>3. late \subseteq late' OBVIOUS
      <3> QED BY <3>1, <3>2, <3>3
    <2> QED BY <2>1 DEF AnswersKept
  <1> QED BY <1>6, <1>7, <1>8, <1>9, <1>13, <1>14 DEF BInv

LEMMA AnswerArrivesKeeps == ASSUME BInv, AnswerArrives PROVE BInv'
  <1>1. worker.pc \in {"sent", "waiting", "closing"} BY DEF AnswerArrives
  <1>2. worker.pc \in Paging BY <1>1 DEF Paging
  <1>3. PICK a \in Pos, c \in Chats : a = worker.anchor /\ c = wchat BY <1>2, AtPaging
  <1>4. UNCHANGED <<stored, cursor, jobs, req, stale, connected, cancel, up, missed>>
    BY DEF AnswerArrives
  <1>5. PICK r \in HonestAnswers(a) :
          /\ worker' = [worker EXCEPT !.answered = TRUE,
                                      !.pc = IF worker.pc = "waiting" THEN "persist" ELSE worker.pc,
                                      !.batch = IF worker.pc = "waiting" THEN r.msgs ELSE worker.batch,
                                      !.left = IF worker.pc = "waiting" THEN r.msgs ELSE worker.left,
                                      !.more = IF worker.pc = "waiting" THEN r.more ELSE worker.more]
          /\ IF worker.pc \in {"waiting", "closing"} THEN late' = late
             ELSE late' = late \cup ({c} \X r.msgs)
          /\ owed' = IF worker.pc = "closing" THEN owed
                     ELSE [owed EXCEPT ![c] = owed[c] \cup r.msgs]
    BY <1>3 DEF AnswerArrives, Unmatched, ReceivesFor
  <1>6. CASE worker.pc = "waiting"
    <2>1. worker' = [worker EXCEPT !.answered = TRUE, !.pc = "persist", !.batch = r.msgs,
                                   !.left = r.msgs, !.more = r.more]
      BY <1>5, <1>6
    <2>2. late' = late /\ owed' = [owed EXCEPT ![c] = owed[c] \cup r.msgs] BY <1>5, <1>6
    <2> QED BY <2>1, <2>2, <1>3, <1>4, <1>6, AnswerTaken
  <1>7. CASE worker.pc \in {"sent", "closing"}
    <2>1. worker.pc # "waiting" /\ DOMAIN worker = Fields BY <1>7, WorkerFields
    <2>2. worker' = [worker EXCEPT !.answered = TRUE, !.pc = worker.pc, !.batch = worker.batch,
                                   !.left = worker.left, !.more = worker.more]
      BY <1>5, <2>1
    <2>3. worker' = [worker EXCEPT !.answered = TRUE] BY <2>1, <2>2 DEF Fields
    <2>4. r.msgs \in SUBSET Pos BY AnswerShape
    <2>5. \/ late' = late /\ owed' = owed
          \/ late' = late \cup ({c} \X r.msgs) /\ owed' = [owed EXCEPT ![c] = owed[c] \cup r.msgs]
      BY <1>5, <1>7
    <2> QED BY <2>3, <2>4, <2>5, <1>3, <1>4, <1>7, AnswerPassedOn
  <1> QED BY <1>1, <1>6, <1>7

LEMMA RecordProgressKeeps == ASSUME BInv, RecordProgress PROVE BInv'
  <1> DEFINE oldest == OldestAnchor(worker.batch)
             same == IF oldest = worker.anchor THEN worker.same + 1 ELSE 0
             tally == worker.fetched + Cardinality(worker.batch)
             ex == Exhausted(worker.more)
             landed == /\ UpsertCursor(wchat, oldest, worker.base, worker.more, ex, FALSE)
                       /\ jobs' = [jobs EXCEPT ![worker.job] = JobWith(wjob, wjob.status, tally)]
  <1>1. /\ worker.pc = "persist" /\ worker.left = {} /\ worker.batch # {}
        /\ landed \/ UNCHANGED <<cursor, jobs>>
        /\ worker' = [worker EXCEPT !.pc = "evaluate", !.batch = {}, !.answered = FALSE,
                                    !.anchor = oldest, !.same = same, !.fetched = tally]
        /\ UNCHANGED <<stored, missed, WorkerVars>>
    BY DEF RecordProgress, Persisted, Attempt
  <1>2. /\ worker.batch \in SUBSET Pos /\ DOMAIN worker = Fields /\ worker.more \in BOOLEAN
        /\ worker.fetched \in Nat
    BY WorkerFields
  <1>3. worker.pc \in Paging BY <1>1 DEF Paging
  <1>4. /\ worker.pc # "idle" /\ wchat \in Chats /\ worker.anchor \in Pos /\ worker.base \in 0 .. H
        /\ \A p \in Pos : worker.anchor <= p /\ p < worker.base => Backed(wchat, p)
    BY <1>3, AtPaging
  <1>5. oldest \in worker.batch /\ \A p \in worker.batch : oldest <= p
    <2>1. worker.batch \in SUBSET Nat BY <1>2, Sizes
    <2> QED BY <2>1, <1>1, MinIsLeast DEF OldestAnchor
  <1>6. oldest \in Pos /\ oldest \in 0 .. H BY <1>2, <1>5, Sizes
  <1>7. tally \in Nat
    <2>1. IsFiniteSet(1 .. H) BY Sizes, FS_Interval
    <2>2. IsFiniteSet(worker.batch) BY <1>2, <2>1, FS_Subset DEF Pos
    <2>3. Cardinality(worker.batch) \in Nat BY <2>2, FS_CardinalityType
    <2> QED BY <2>3, <1>2
  <1>8. \A p \in Pos : oldest <= p /\ p < worker.base => Backed(wchat, p)
    <2>1. \A p \in worker.batch : Backed(wchat, p) BY <1>1 DEF BInv, HistoryInv, BatchHonest
    <2>2. PICK q \in worker.batch :
             /\ q <= worker.anchor /\ \A p \in worker.batch : q <= p
             /\ \A p \in Pos : q <= p /\ p < worker.anchor => p \in worker.batch
      BY <1>1 DEF BInv, HistoryInv, BatchHonest
    <2> HIDE DEF oldest
    <2>3. q = oldest
      <3>1. q \in Nat /\ oldest \in Nat /\ q <= oldest /\ oldest <= q BY <2>2, <1>2, <1>5, <1>6, Sizes
      <3> QED BY <3>1
    <2>4. ASSUME NEW p \in Pos, oldest <= p, p < worker.base PROVE Backed(wchat, p)
      <3>1. CASE p < worker.anchor BY <3>1, <2>1, <2>2, <2>3, <2>4
      <3>2. CASE worker.anchor <= p BY <3>2, <2>4, <1>4
      <3>3. p \in Nat /\ worker.anchor \in Nat BY <1>4, Sizes
      <3> QED BY <3>1, <3>2, <3>3
    <2> QED BY <2>4
  <1>9. ex \in BOOLEAN /\ (ex => \A p \in Pos : p < worker.base => Backed(wchat, p))
    <2>1. ASSUME ~worker.more, NEW p \in Pos, p < worker.base PROVE Backed(wchat, p)
      <3>1. CASE p < worker.anchor
        <4>1. p \in worker.batch BY <3>1, <2>1, <1>1 DEF BInv, HistoryInv, BatchHonest
        <4> QED BY <4>1, <1>1 DEF BInv, HistoryInv, BatchHonest
      <3>2. CASE worker.anchor <= p BY <3>2, <2>1, <1>4
      <3>3. p < worker.anchor \/ worker.anchor <= p
        <4>1. p \in Nat /\ worker.anchor \in Nat BY <1>4, Sizes
        <4> QED BY <4>1
      <3> QED BY <3>1, <3>2, <3>3
    <2> QED BY <2>1 DEF Exhausted
  <1> HIDE DEF oldest, same, tally, ex
  <1>10. /\ DOMAIN worker' = Fields /\ worker'.pc = "evaluate" /\ worker'.job = worker.job
         /\ worker'.anchor = oldest /\ worker'.base = worker.base
         /\ worker'.batch = {} /\ worker'.left = {} /\ worker'.more = worker.more
         /\ worker'.fetched = tally
    BY <1>1, <1>2 DEF Fields
  <1>11. CursorsSound'
    <2>1. CASE UNCHANGED <<cursor, jobs>> BY <1>1, <2>1, CursorsSame
    <2>2. CASE landed
      <3>1. PICK c \in Chats : c = wchat BY <1>4
      <3>2. UpsertCursor(c, oldest, worker.base, worker.more, ex, FALSE) BY <2>2, <3>1
      <3> QED BY <3>1, <3>2, <1>1, <1>2, <1>4, <1>6, <1>8, <1>9, UpsertSound
    <2> QED BY <1>1, <2>1, <2>2
  <1>12. /\ jobs' \in Seq(Job) /\ Len(jobs') = Len(jobs)
         /\ \A i \in 1 .. Len(jobs) : jobs'[i].chat = jobs[i].chat /\ jobs'[i].status = jobs[i].status
    <2>1. jobs \in Seq(Job) /\ worker.job \in 1 .. Len(jobs) /\ wjob.status \in Active \cup Settled
      BY <1>4, AtWork DEF BInv, TablesTyped, Active, Settled
    <2>2. CASE UNCHANGED <<cursor, jobs>> BY <2>1, <2>2
    <2>3. CASE landed
      <3>1. jobs' = [jobs EXCEPT ![worker.job] = JobWith(jobs[worker.job], wjob.status, tally)]
        BY <2>3 DEF wjob
      <3>2. TablesTyped BY DEF BInv
      <3>3. /\ jobs' \in Seq(Job) /\ Len(jobs') = Len(jobs) /\ jobs'[worker.job].status = wjob.status
            /\ \A i \in 1 .. Len(jobs) :
                  jobs'[i].chat = jobs[i].chat /\ (i # worker.job => jobs'[i] = jobs[i])
        BY <2>1, <3>1, <3>2, <1>7, JobChanges
      <3> QED BY <3>3 DEF wjob
    <2> QED BY <1>1, <2>2, <2>3
  <1>13. WorkerTyped' BY <1>2, <1>7, <1>10, WorkerFields DEF WorkerTyped, WorkerPcs, Paging
  <1>14. TablesTyped' BY <1>1, <1>11, <1>12 DEF BInv, TablesTyped, CursorsSound, WorkerVars
  <1>15. InFlightTyped' BY <1>1 DEF BInv, InFlightTyped, WorkerVars
  <1>16. JobsKept' BY <1>4, <1>10, <1>12 DEF BInv, JobsKept
  <1>17. wchat' = wchat BY <1>4, <1>10, <1>12, AtWork DEF wchat, wjob
  <1>18. PagingBacked' BY <1>1, <1>4, <1>6, <1>8, <1>10, <1>17 DEF PagingBacked, Backed
  <1>19. BatchHonest' BY <1>10 DEF BatchHonest
  <1>20. EndKnown' BY <1>1, <1>9, <1>10, <1>17 DEF EndKnown, Exhausted, Backed, ex
  <1>21. HistoryInv' BY <1>11, <1>18, <1>19, <1>20 DEF HistoryInv, CursorsSound
  <1>22. AnswersKept' BY <1>1 DEF BInv, AnswersKept, WorkerVars
  <1> QED BY <1>13, <1>14, <1>15, <1>16, <1>21, <1>22 DEF BInv

LEMMA MarkOutcomeKeeps == ASSUME BInv, MarkOutcome PROVE BInv'
  <1> DEFINE s == StatusOf(worker.end)
  <1>1. /\ worker.pc = "ended" /\ worker' = IdleWorker
        /\ jobs' = MarkJob(jobs, worker.job, s) \/ jobs' = jobs
        /\ UNCHANGED <<stored, cursor, missed, WorkerVars>>
    BY DEF MarkOutcome, Attempt
  <1>2. s \in {"done", "paused", "failed", "queued"}
    BY <1>1 DEF BInv, WorkerTyped, Ends, StatusOf
  <1> HIDE DEF s
  <1>3. /\ TablesTyped /\ jobs \in Seq(Job) /\ worker.job \in 1 .. Len(jobs)
        /\ jobs[worker.job].status \in {"running", "cancelled"}
    BY <1>1, AtWork DEF BInv, TablesTyped, JobsKept
  <1>4. WorkerTyped' /\ worker'.pc = "idle" /\ worker'.job = 0 BY <1>1, IdleTyped
  <1>5. /\ jobs' \in Seq(Job) /\ Len(jobs') = Len(jobs)
        /\ \A i \in 1 .. Len(jobs) : /\ jobs'[i].chat = jobs[i].chat
                                     /\ jobs'[i].status \in Active => jobs[i].status \in Active
    <2>1. CASE jobs' = jobs BY <1>3, <2>1
    <2>2. CASE jobs[worker.job].status # "cancelled" /\ jobs' = Marked(jobs, worker.job, s)
      <3>1. s \in Active \cup Settled BY <1>2 DEF Active, Settled
      <3>2. jobs[worker.job].fetched \in Nat BY <1>3, JobAt
      <3>3. /\ jobs' \in Seq(Job) /\ Len(jobs') = Len(jobs)
            /\ \A i \in 1 .. Len(jobs) :
                  jobs'[i].chat = jobs[i].chat /\ (i # worker.job => jobs'[i] = jobs[i])
        BY <1>3, <2>2, <3>1, <3>2, JobChanges DEF Marked
      <3>4. jobs[worker.job].status \in Active BY <1>3, <2>2 DEF Active
      <3> QED BY <3>3, <3>4
    <2> QED BY <1>1, <1>2, <2>1, <2>2 DEF MarkJob
  <1>6. TablesTyped' BY <1>1, <1>5 DEF BInv, TablesTyped, WorkerVars
  <1>7. InFlightTyped' BY <1>1 DEF BInv, InFlightTyped, WorkerVars
  <1>8. JobsKept' BY <1>4, <1>5 DEF BInv, JobsKept
  <1>9. CursorsSound' BY <1>1, CursorsSame
  <1>10. HistoryInv'
    BY <1>4, <1>9 DEF HistoryInv, CursorsSound, PagingBacked, BatchHonest, EndKnown, Paging
  <1>11. AnswersKept' BY <1>1 DEF BInv, AnswersKept, WorkerVars
  <1> QED BY <1>4, <1>6, <1>7, <1>8, <1>10, <1>11 DEF BInv

-----------------------------------------------------------------------------
(* The world around it *)

LEMMA CooldownExpiresKeeps == ASSUME BInv, NEW c \in Chats, CooldownExpires(c) PROVE BInv'
  <1> DEFINE row == [anchor |-> cursor[c].anchor, base |-> cursor[c].base, more |-> cursor[c].more,
                     exhausted |-> cursor[c].exhausted, recent |-> FALSE]
  <1>1. /\ cursor' = [cursor EXCEPT ![c] = row]
        /\ UNCHANGED <<stored, jobs, worker, req, stale, late, connected, cancel, up, missed, owed>>
    BY DEF CooldownExpires
  <1>2. row \in CursorRow BY CursorAt DEF CursorRow
  <1>3. cursor \in [Chats -> CursorRow] BY DEF BInv, TablesTyped
  <1>4. /\ cursor' \in [Chats -> CursorRow] /\ cursor'[c] = row
        /\ \A d \in Chats : d # c => cursor'[d] = cursor[d]
    BY <1>1, <1>2, <1>3
  <1>5. CursorBacked' BY <1>1, <1>4 DEF BInv, HistoryInv, CursorBacked
  <1>6. ExhaustedIsTrue' BY <1>1, <1>4 DEF BInv, HistoryInv, ExhaustedIsTrue
  <1>7. CursorsSound' BY <1>4, <1>5, <1>6 DEF CursorsSound
  <1>8. InFlightTyped' BY <1>1 DEF BInv, InFlightTyped
  <1> QED BY <1>1, <1>7, <1>8, OthersMove DEF BInv, TablesTyped

LEMMA LinkKeeps == ASSUME BInv, Connect \/ Disconnect \/ Shutdown \/ Restart PROVE BInv'
  <1>1. /\ UNCHANGED <<stored, cursor, jobs, worker, req, stale, late, missed, owed>>
        /\ connected' \in BOOLEAN /\ cancel' \in BOOLEAN /\ up' \in BOOLEAN
    BY DEF Connect, Disconnect, Shutdown, Restart, BInv, TablesTyped
  <1>2. InFlightTyped' BY <1>1 DEF BInv, InFlightTyped
  <1> QED BY <1>1, <1>2, CursorsSame, OthersMove

LEMMA ExitKeeps == ASSUME BInv, Exit PROVE BInv'
  <1>1. /\ up' = FALSE /\ cancel' = FALSE /\ connected' = FALSE
        /\ worker' = IdleWorker /\ stale' = {} /\ late' = {}
        /\ req' = [h \in Handlers |-> IdleReq] /\ owed' = [c \in Chats |-> {}]
        /\ UNCHANGED <<stored, cursor, jobs, missed>>
    BY DEF Exit
  <1>2. WorkerTyped' /\ worker'.pc = "idle" /\ worker'.job = 0 BY <1>1, IdleTyped
  <1>3. TablesTyped' BY <1>1 DEF BInv, TablesTyped
  <1>4. InFlightTyped' BY <1>1 DEF InFlightTyped
  <1>5. JobsKept' BY <1>1, <1>2 DEF BInv, JobsKept
  <1>6. CursorsSound' BY <1>1, CursorsSame
  <1>7. HistoryInv'
    BY <1>2, <1>6 DEF HistoryInv, CursorsSound, PagingBacked, BatchHonest, EndKnown, Paging
  <1>8. AnswersKept' BY <1>1 DEF AnswersKept
  <1> QED BY <1>2, <1>3, <1>4, <1>5, <1>7, <1>8 DEF BInv

-----------------------------------------------------------------------------
(* The invariant holds *)

LEMMA InitBInv == ASSUME Init PROVE BInv
  <1>1. /\ stored \in [Chats -> {{}, {H}}] /\ cursor = [c \in Chats |-> NoCursor] /\ jobs = <<>>
        /\ worker = IdleWorker /\ req = [h \in Handlers |-> IdleReq] /\ stale = {} /\ late = {}
        /\ connected = FALSE /\ cancel = FALSE /\ up = TRUE
        /\ missed = [c \in Chats |-> {}] /\ owed = [c \in Chats |-> {}]
    BY DEF Init
  <1>2. WorkerTyped /\ worker.pc = "idle" /\ worker.job = 0
    BY <1>1 DEF IdleWorker, WorkerTyped, Fields, WorkerPcs, NoJob
  <1>3. NoCursor \in CursorRow BY Sizes DEF NoCursor, CursorRow
  <1>4. TablesTyped
    <2>1. {H} \in SUBSET Pos BY Sizes DEF Pos
    <2>2. stored \in [Chats -> SUBSET Pos] BY <1>1, <2>1
    <2>3. jobs \in Seq(Job) BY <1>1
    <2> QED BY <1>1, <1>3, <2>2, <2>3 DEF TablesTyped
  <1>5. InFlightTyped BY <1>1 DEF InFlightTyped
  <1>6. JobsKept BY <1>1, <1>2 DEF JobsKept
  <1>7. CursorBacked /\ ExhaustedIsTrue
    <2>1. \A c \in Chats : cursor[c].base = 0 /\ cursor[c].exhausted = FALSE
      BY <1>1 DEF NoCursor, NoPos
    <2> QED BY <2>1, Sizes DEF CursorBacked, ExhaustedIsTrue
  <1>8. HistoryInv BY <1>2, <1>7 DEF HistoryInv, PagingBacked, BatchHonest, EndKnown, Paging
  <1>9. AnswersKept BY <1>1 DEF AnswersKept
  <1> QED BY <1>2, <1>4, <1>5, <1>6, <1>8, <1>9 DEF BInv

LEMMA StutterKeeps == ASSUME BInv, UNCHANGED vars PROVE BInv'
  <1>1. UNCHANGED <<stored, cursor, jobs, worker, req, stale, late, connected, cancel, up, missed, owed>>
    BY DEF vars
  <1>2. InFlightTyped' BY <1>1 DEF BInv, InFlightTyped
  <1> QED BY <1>1, <1>2, CursorsSame, OthersMove DEF BInv, TablesTyped

LEMMA NextKeeps == ASSUME BInv, [Next]_vars PROVE BInv'
  <1>1. CASE WorkerStep
    BY <1>1, ClaimKeeps, StartJobKeeps, LoopCancelledKeeps, LoopDeferredKeeps, SendRequestKeeps,
       RegisterKeeps, TimeoutKeeps, FetchErrorKeeps, PersistNextKeeps, NoProgressKeeps, StuckKeeps,
       RecordProgressKeeps, TargetReachedKeeps, ParkKeeps, PaceKeeps, MarkOutcomeKeeps
    DEF WorkerStep
  <1>2. CASE AnswerArrives \/ StaleAnswerArrives \/ StoreLate
    BY <1>2, AnswerArrivesKeeps, StaleAnswerArrivesKeeps, StoreLateKeeps
  <1>3. ASSUME NEW h \in Handlers, HandlerStep(h) PROVE BInv'
    BY <1>3, ResolveKeeps, WriteSeedKeeps, EnqueueKeeps DEF HandlerStep
  <1>4. ASSUME NEW h \in Handlers, NEW c \in Chats, NEW t \in Targets, TriggerRead(h, c, t) PROVE BInv'
    BY <1>4, TriggerReadKeeps
  <1>5. ASSUME NEW h \in Handlers, NEW c \in Chats, NEW p \in Pos, SeedRead(h, c, p) PROVE BInv'
    BY <1>5, SeedReadKeeps
  <1>6. ASSUME NEW j \in DOMAIN jobs, CancelJob(j) PROVE BInv' BY <1>6, CancelJobKeeps
  <1>7. ASSUME NEW c \in Chats, LiveMessage(c) \/ CooldownExpires(c) PROVE BInv'
    BY <1>7, LiveMessageKeeps, CooldownExpiresKeeps
  <1>8. CASE Connect \/ Disconnect \/ Shutdown \/ Restart BY <1>8, LinkKeeps
  <1>9. CASE Exit BY <1>9, ExitKeeps
  <1>10. CASE UNCHANGED vars BY <1>10, StutterKeeps
  <1> QED BY <1>1, <1>2, <1>3, <1>4, <1>5, <1>6, <1>7, <1>8, <1>9, <1>10 DEF Next

(* The state keeps its types, a worker its row and its frontier: the         *)
(* strengthening the properties below follow from.                           *)
THEOREM BackfillInvariant == Spec => []BInv
  <1>1. Init => BInv BY InitBInv
  <1>2. BInv /\ [Next]_vars => BInv' BY NextKeeps
  <1> QED BY <1>1, <1>2, PTL DEF Spec

(* However callers cancel and trigger again while a worker still holds the   *)
(* job they cancelled (api.rs, storage.rs enqueue_backfill_job and           *)
(* mark_backfill_job), a chat never has two active jobs.                     *)
THEOREM OneActive == Spec => []OneActivePerChat
  <1>1. BInv => OneActivePerChat
    <2> SUFFICES ASSUME BInv, NEW c \in Chats PROVE Cardinality(ActiveJobs(jobs, {c})) <= 1
      BY DEF OneActivePerChat
    <2> DEFINE A == ActiveJobs(jobs, {c})
    <2>1. \A i, j \in A : i = j BY DEF ActiveJobs, BInv, JobsKept, TablesTyped
    <2> HIDE DEF A
    <2>2. CASE A = {} BY <2>2, FS_EmptySet DEF A
    <2>3. CASE A # {}
      <3>1. PICK x \in A : TRUE BY <2>3
      <3>2. A = {x} BY <2>1, <3>1
      <3>3. Cardinality({x}) = 1 BY FS_Singleton
      <3>4. Cardinality(A) = 1 BY <3>2, <3>3
      <3> QED BY <3>4 DEF A
    <2> QED BY <2>2, <2>3
  <1> QED BY <1>1, BackfillInvariant, PTL

(* What a cursor and its flag say of the history has a row behind it, or a   *)
(* failed insert, whatever answers come late, writes fail or processes die   *)
(* (backfill.rs process_job, storage.rs record_backfill_progress).           *)
THEOREM HistoryIsBacked == Spec => []HistoryBacked
  <1>1. BInv => HistoryBacked
    <2> SUFFICES ASSUME BInv PROVE TypeOK /\ CursorBacked /\ ExhaustedIsTrue BY DEF HistoryBacked
    <2>1. worker.job \in 0 .. Len(jobs)
      <3>1. jobs \in Seq(Job) BY DEF BInv, TablesTyped
      <3> QED BY <3>1 DEF BInv, JobsKept
    <2>2. TypeOK
      BY <2>1 DEF TypeOK, BInv, WorkerTyped, TablesTyped, InFlightTyped, WorkerPcs, Paging, CursorRow, Job
    <2> QED BY <2>2 DEF BInv, HistoryInv
  <1> QED BY <1>1, BackfillInvariant, PTL

(* A chunk the phone delivered is written, or someone still holds it, until  *)
(* the process ends (backfill.rs HistoryCorrelator, bridge.rs                *)
(* spawn_store_unmatched_history).                                           *)
THEOREM ChunksKept == Spec => []AnswersKept
  <1>1. BInv => AnswersKept BY DEF BInv
  <1> QED BY <1>1, BackfillInvariant, PTL

-----------------------------------------------------------------------------
(* The pairing and its name *)

Devices == [there: BOOLEAN, identity: Nat, paired: BOOLEAN]
Reports == Names \cup {None, Legacy}
Sessions == [pc: {"down", "paired?", "name?", "resolve", "build", "running", "ending"},
             configured: Names \cup {None}, sawPaired: BOOLEAN, sawName: Reports, effective: Reports,
             client: Devices, claims: BOOLEAN]
Phone == [linked: Nat, name: Reports, last: Nat]

\* What resolve_device_name reports of a paired device with this name.
Reported(saved) == IF saved = None THEN Legacy ELSE saved

\* The row and the client's copy are devices that were created, and a session that runs has one.
DevicesTyped ==
    /\ device \in Devices /\ name \in Reports /\ session \in Sessions /\ phone \in Phone
    /\ device.paired => device.there
    /\ device.there => device.identity # 0
    /\ Running => session.client.there /\ session.client.identity # 0
    /\ session.pc # "down" => session.configured \in Names
    /\ clears \in Nat /\ excused \in BOOLEAN

\* While a session runs, the row is its client's or gone.
RowIsClients ==
    Running => device = NoDevice \/ (device.identity = session.client.identity
                                     /\ (device.paired => session.client.paired))

\* A device that believes to be paired was linked last, or is not linked.
LinkedLast ==
    /\ device.paired => phone.linked \in {0, device.identity}
    /\ Running /\ session.client.paired => phone.linked \in {0, session.client.identity}

\* No logout of the pairing that is listed is waiting to be handled, and the name kept is the one listed.
NameKept ==
    ~excused /\ phone.linked # 0 =>
        /\ clears = 0
        /\ device.paired /\ device.identity = phone.linked => Reported(name) = phone.name
        /\ Running /\ session.client.paired /\ session.client.identity = phone.linked =>
               Reported(name) = phone.name

\* What a session has read of the row and its name on its way to the client is still so.
ReadTruly ==
    ~excused /\ device.paired =>
        /\ session.pc \in {"name?", "resolve"} => session.sawPaired
        /\ session.pc = "resolve" => session.sawName = name
        /\ session.pc = "build" /\ device.identity = phone.linked => session.effective = phone.name

\* What a session reports is a name.
Named == session.pc \in {"build", "running"} => session.effective # None

PairInv == DevicesTyped /\ RowIsClients /\ LinkedLast /\ NameKept /\ ReadTruly /\ Named /\ NameTrue

LEMMA InitPairInv == LinkedInit => PairInv
  <1> SUFFICES ASSUME LinkedInit PROVE PairInv OBVIOUS
  <1>1. session = Down /\ name = None /\ clears = 0 /\ excused = FALSE BY DEF LinkedInit
  <1>2. \/ device = NoDevice /\ phone = [linked |-> 0, name |-> None, last |-> 0]
        \/ /\ device = [there |-> TRUE, identity |-> 1, paired |-> TRUE]
           /\ phone = [linked |-> 1, name |-> Legacy, last |-> 1]
    BY DEF LinkedInit
  <1>3. session.pc = "down" BY <1>1 DEF Down
  <1>4. DevicesTyped
    <2>1. NoDevice \in Devices BY DEF NoDevice, Devices
    <2>2. session \in Sessions BY <1>1, <2>1 DEF Sessions, Down, Reports
    <2>3. name \in Reports BY <1>1 DEF Reports
    <2>4. device \in Devices /\ phone \in Phone /\ (device.paired => device.there)
          /\ (device.there => device.identity # 0)
      <3>1. CASE device = NoDevice /\ phone = [linked |-> 0, name |-> None, last |-> 0]
        BY <3>1, <2>1 DEF Phone, Reports, NoDevice
      <3>2. CASE /\ device = [there |-> TRUE, identity |-> 1, paired |-> TRUE]
                 /\ phone = [linked |-> 1, name |-> Legacy, last |-> 1]
        <4>1. Legacy \in Reports BY DEF Reports
        <4> QED BY <3>2, <4>1 DEF Phone, Devices
      <3> QED BY <1>2, <3>1, <3>2
    <2>5. clears \in Nat /\ excused \in BOOLEAN BY <1>1
    <2> QED BY <1>3, <2>2, <2>3, <2>4, <2>5 DEF DevicesTyped, Running
  <1>5. LinkedLast /\ NameKept
    BY <1>1, <1>2, <1>3 DEF LinkedLast, NameKept, NoDevice, Running, Reported
  <1> QED BY <1>3, <1>4, <1>5 DEF PairInv, RowIsClients, ReadTruly, Named, NameTrue, Running

\* Steps that leave the session where it is before or after its client, and what they read
LEMMA PairingQuiet ==
  ASSUME PairInv, UNCHANGED <<device, name, session, phone, clears, excused>>
  PROVE  PairInv'
  BY DEF PairInv, DevicesTyped, RowIsClients, LinkedLast, NameKept, ReadTruly, Named, NameTrue, Running

LEMMA PairingPreserves ==
  ASSUME PairInv, PairingStep
  PROVE  PairInv'
  <1>0. /\ device \in Devices /\ name \in Reports /\ session \in Sessions /\ phone \in Phone
        /\ clears \in Nat /\ excused \in BOOLEAN
    BY DEF PairInv, DevicesTyped
  <1> USE DEF PairInv
  <1>d. Down \in Sessions /\ Down.pc = "down" /\ NoDevice \in Devices /\ ~NoDevice.paired /\ ~NoDevice.there
    BY DEF Down, Sessions, NoDevice, Devices, Reports
  <1>1. CASE StartProcess
    <2>1. PICK n \in Names : session' = [Down EXCEPT !.pc = "paired?", !.configured = n]
      BY <1>1 DEF StartProcess
    <2>2. session' \in Sessions /\ session'.pc = "paired?" /\ session'.configured = n
      BY <2>1, <1>d DEF Sessions
    <2>3. UNCHANGED <<device, name, phone, clears, excused>> BY <1>1 DEF StartProcess
    <2> QED BY <2>2, <2>3
        DEF DevicesTyped, RowIsClients, LinkedLast, NameKept, ReadTruly, Named, NameTrue, Running
  <1>2. CASE Crash
    <2>1. session' = Down /\ clears' = 0 /\ UNCHANGED <<device, name, phone, excused>> BY <1>2 DEF Crash
    <2> QED BY <2>1, <1>d
        DEF DevicesTyped, RowIsClients, LinkedLast, NameKept, ReadTruly, Named, NameTrue, Running
  <1>3. CASE ReadPaired
    <2>1. /\ session.pc = "paired?" /\ UNCHANGED <<device, name, phone, clears>>
          /\ excused' \in BOOLEAN /\ (excused => excused')
          /\ \E b \in BOOLEAN : session' = [session EXCEPT !.pc = "name?", !.sawPaired = b]
                                 /\ (~excused' => b = device.paired)
      BY <1>3, <1>0 DEF ReadPaired, Devices
    <2>2. PICK b \in BOOLEAN : session' = [session EXCEPT !.pc = "name?", !.sawPaired = b]
                               /\ (~excused' => b = device.paired)
      BY <2>1
    <2>3. session' \in Sessions /\ session'.pc = "name?" /\ session'.configured = session.configured
          /\ session'.sawPaired = b
      BY <2>2, <1>0 DEF Sessions
    <2> QED BY <2>1, <2>2, <2>3
        DEF DevicesTyped, RowIsClients, LinkedLast, NameKept, ReadTruly, Named, NameTrue, Running
  <1>4. CASE ReadName
    <2>1. /\ session.pc = "name?" /\ UNCHANGED <<device, name, phone, clears>>
          /\ excused' \in BOOLEAN /\ (excused => excused')
          /\ \E v \in Reports : session' = [session EXCEPT !.pc = "resolve", !.sawName = v]
                                 /\ (~excused' => v = name)
      BY <1>4, <1>0 DEF ReadName, Reports
    <2>2. PICK v \in Reports : session' = [session EXCEPT !.pc = "resolve", !.sawName = v]
                               /\ (~excused' => v = name)
      BY <2>1
    <2>3. session' \in Sessions /\ session'.pc = "resolve" /\ session'.configured = session.configured
          /\ session'.sawPaired = session.sawPaired /\ session'.sawName = v
      BY <2>2, <1>0 DEF Sessions
    <2> QED BY <2>1, <2>2, <2>3
        DEF DevicesTyped, RowIsClients, LinkedLast, NameKept, ReadTruly, Named, NameTrue, Running
  <1>5. CASE ResolveName
    <2> DEFINE r == ResolveDeviceName(session.sawPaired, session.sawName, session.configured)
    <2>1. /\ session.pc = "resolve" /\ UNCHANGED <<device, phone, clears>>
          /\ session' = [session EXCEPT !.pc = "build", !.effective = r.use]
          /\ excused' \in BOOLEAN /\ (excused => excused')
          /\ name' = name \/ name' = r.persist
          /\ ~excused' => name' = IF r.persist = None THEN name ELSE r.persist
      BY <1>5, <1>0 DEF ResolveName
    <2>2. session.configured \in Names /\ session.sawName \in Reports /\ session.configured # None
      BY <2>1, <1>0, MessagesAssumption DEF DevicesTyped, Sessions
    <2>3. /\ r.use \in Reports /\ r.use # None /\ r.persist \in Reports
          /\ session.sawPaired => r.use = Reported(session.sawName)
                                  /\ r.persist = IF session.sawName = None THEN Legacy ELSE None
      BY <2>2 DEF ResolveDeviceName, Reported, Reports, Legacy, None
    <2> HIDE DEF r
    <2>4. /\ session' \in Sessions /\ session'.pc = "build" /\ session'.configured = session.configured
          /\ session'.effective = r.use
      BY <2>1, <2>3, <1>0 DEF Sessions
    <2>5. ~excused' /\ device.paired => /\ session'.effective = Reported(name)
                                        /\ Reported(name') = Reported(name)
      BY <2>1, <2>3, <2>4 DEF ReadTruly, Reported, Legacy, None
    <2>6. name' \in Reports BY <2>1, <2>3, <1>0
    <2> QED BY <2>1, <2>2, <2>3, <2>4, <2>5, <2>6
        DEF DevicesTyped, RowIsClients, LinkedLast, NameKept, ReadTruly, Named, NameTrue, Running
  <1>6. CASE BuildBot
    <2>1. /\ session.pc = "build" /\ device' = Create(device, phone.last + 1)
          /\ phone' = [phone EXCEPT !.last = IF device.there THEN @ ELSE @ + 1]
          /\ session' = [session EXCEPT !.pc = "running", !.client = device', !.claims = ServerHasPrekeys(db)]
          /\ UNCHANGED <<name, clears, excused>>
      BY <1>6 DEF BuildBot
    <2>2. /\ device' \in Devices /\ device'.there /\ device'.identity # 0
          /\ IF device.there THEN device' = device ELSE ~device'.paired
      BY <2>1, <1>0 DEF Create, Devices, DevicesTyped, Phone
    <2>3. phone' \in Phone /\ phone'.linked = phone.linked /\ phone'.name = phone.name
      BY <2>1, <1>0 DEF Phone
    <2>4. PICK b \in BOOLEAN : session' = [session EXCEPT !.pc = "running", !.client = device', !.claims = b]
      BY <2>1 DEF ServerHasPrekeys
    <2>5. session' \in Sessions /\ session'.pc = "running" /\ session'.configured = session.configured
          /\ session'.client = device' /\ session'.effective = session.effective
      BY <2>2, <2>4, <1>0 DEF Sessions
    <2> QED BY <2>1, <2>2, <2>3, <2>5
        DEF DevicesTyped, RowIsClients, LinkedLast, NameKept, ReadTruly, Named, NameTrue, Running
  <1>7. CASE Link
    <2>1. /\ Running /\ ~session.client.paired /\ UNCHANGED <<device, name, clears>>
          /\ session' = [session EXCEPT !.client.paired = TRUE]
          /\ phone' = [phone EXCEPT !.linked = session.client.identity, !.name = session.effective]
          /\ excused' = (name # session.effective \/ clears > 0)
      BY <1>7 DEF Link
    <2>2. /\ session' \in Sessions /\ session'.pc = "running" /\ session'.configured = session.configured
          /\ session'.client.paired /\ session'.client.identity = session.client.identity
          /\ session'.effective = session.effective
      BY <2>1, <1>0 DEF Sessions, Devices, Running
    <2>3. phone' \in Phone /\ phone'.linked = session.client.identity /\ phone'.name = session.effective
      BY <2>1, <1>0 DEF Phone, Sessions, Devices
    <2>4. session.effective # None BY <2>1 DEF Named, Running
    <2>5. ~device.paired BY <2>1 DEF RowIsClients, NoDevice
    <2>6. excused' \in BOOLEAN BY <2>1
    <2>7. session'.client.there BY <2>1, <1>0 DEF Sessions, Devices, DevicesTyped, Running
    <2>8. DevicesTyped' /\ RowIsClients'
      BY <2>1, <2>2, <2>3, <2>5, <2>6, <2>7 DEF DevicesTyped, RowIsClients, Running
    <2>9. LinkedLast' /\ ReadTruly' /\ Named'
      BY <2>1, <2>2, <2>3, <2>4, <2>5 DEF LinkedLast, ReadTruly, Named, Running
    <2>10. ASSUME ~excused' PROVE clears' = 0 /\ Reported(name') = phone'.name
      <3>1. ~(name # session.effective) /\ ~(clears > 0) BY <2>1, <2>10
      <3> QED BY <3>1, <2>1, <2>3, <2>4, <1>0 DEF Reported
    <2> QED BY <2>2, <2>3, <2>5, <2>8, <2>9, <2>10, <2>1 DEF NameKept, NameTrue, Running
  <1>8. CASE Save
    <2>1. Running /\ device' = session.client /\ UNCHANGED <<name, phone, session, clears, excused>>
      BY <1>8 DEF Save
    <2> QED BY <2>1, <1>0
        DEF DevicesTyped, RowIsClients, LinkedLast, NameKept, ReadTruly, Named, NameTrue, Running, Sessions
  <1>9. CASE UploadPrekeys
    <2>1. session' = [session EXCEPT !.claims = TRUE] /\ UNCHANGED <<device, name, phone, clears, excused>>
      BY <1>9 DEF UploadPrekeys
    <2>2. /\ session' \in Sessions /\ session'.pc = session.pc /\ session'.configured = session.configured
          /\ session'.client = session.client /\ session'.effective = session.effective
          /\ session'.sawPaired = session.sawPaired /\ session'.sawName = session.sawName
      BY <2>1, <1>0 DEF Sessions
    <2> QED BY <2>1, <2>2
        DEF DevicesTyped, RowIsClients, LinkedLast, NameKept, ReadTruly, Named, NameTrue, Running
  <1>10. CASE Unlink
    <2>1. phone' = [phone EXCEPT !.linked = 0] /\ UNCHANGED <<device, name, session, clears, excused>>
      BY <1>10 DEF Unlink
    <2>2. phone' \in Phone /\ phone'.linked = 0 /\ phone'.name = phone.name BY <2>1, <1>0 DEF Phone
    <2> QED BY <2>1, <2>2
        DEF DevicesTyped, RowIsClients, LinkedLast, NameKept, ReadTruly, Named, NameTrue, Running
  <1>11. CASE LoggedOut
    <2>1. /\ Running /\ session.client.paired /\ phone.linked # session.client.identity
          /\ clears' = clears + 1 /\ session' = [session EXCEPT !.pc = "ending"]
          /\ UNCHANGED <<device, name, phone, excused>>
      BY <1>11 DEF LoggedOut
    <2>2. session' \in Sessions /\ session'.pc = "ending" /\ session'.configured = session.configured
      BY <2>1, <1>0 DEF Sessions
    <2>3. phone.linked = 0 BY <2>1 DEF LinkedLast
    <2>4. clears' \in Nat BY <2>1, <1>0
    <2> QED BY <2>1, <2>2, <2>3, <2>4
        DEF DevicesTyped, RowIsClients, LinkedLast, NameKept, ReadTruly, Named, NameTrue, Running
  <1>12. CASE ClearDevice
    <2>1. /\ clears > 0 /\ clears' = clears - 1 /\ UNCHANGED <<session, phone, excused>>
          /\ \/ device' = NoDevice /\ name' = None
             \/ UNCHANGED <<device, name>>
      BY <1>12 DEF ClearDevice
    <2>2. clears' \in Nat BY <2>1, <1>0
    <2>3. device' \in Devices /\ name' \in Reports BY <2>1, <1>0, <1>d DEF Reports
    <2>4. excused \/ phone.linked = 0 BY <2>1, <1>0 DEF NameKept
    <2> QED BY <2>1, <2>2, <2>3, <2>4, <1>d
        DEF DevicesTyped, RowIsClients, LinkedLast, NameKept, ReadTruly, Named, NameTrue, Running
  <1>13. CASE SessionEnds
    <2>1. /\ session' = [Down EXCEPT !.pc = "paired?", !.configured = session.configured]
          /\ session.pc \in {"running", "ending"} /\ UNCHANGED <<device, name, phone, clears, excused>>
      BY <1>13 DEF SessionEnds
    <2>2. session' \in Sessions /\ session'.pc = "paired?" /\ session'.configured = session.configured
      BY <2>1, <1>0, <1>d DEF Sessions
    <2> QED BY <2>1, <2>2
        DEF DevicesTyped, RowIsClients, LinkedLast, NameKept, ReadTruly, Named, NameTrue, Running
  <1> QED BY <1>1, <1>2, <1>3, <1>4, <1>5, <1>6, <1>7, <1>8, <1>9, <1>10, <1>11, <1>12, <1>13 DEF PairingStep

\* What the name of a pairing rests on: the row is the running client's or gone, who believes to be paired was
\* linked last, and what was read on the way to the client is still so (bridge.rs run_bot_session).
THEOREM PairingInvariant == LinkedSpec => []PairInv
  <1>1. PairInv /\ [LinkedNext]_linkedVars => PairInv'
    <2> SUFFICES ASSUME PairInv, [LinkedNext]_linkedVars PROVE PairInv' OBVIOUS
    <2>1. CASE UNCHANGED linkedVars \/ InboundStep \/ TableStep
      <3>1. UNCHANGED <<device, name, session, phone, clears, excused>>
        BY <2>1 DEF linkedVars, InboundStep, TableStep, pairing
      <3> QED BY <3>1, PairingQuiet
    <2> QED BY <2>1, PairingPreserves DEF LinkedNext
  <1> QED BY <1>1, InitPairInv, PTL DEF LinkedSpec

\* Through restarts, other configurations, logouts and re-pairings the bridge reports the name that the phone
\* lists (bridge.rs resolve_device_name, storage.rs clear_device), for any set of names.
THEOREM NameIsTrue == LinkedSpec => []NameTrue
  <1>1. PairInv => NameTrue BY DEF PairInv
  <1> QED BY <1>1, PairingInvariant, PTL

-----------------------------------------------------------------------------
(* The record of a handler *)

Hand(pc, sender, chat, kind, selected, alt, h) ==
    [pc |-> pc, sender |-> sender, chat |-> chat, kind |-> kind, selected |-> selected, alt |-> alt,
     readable |-> h.readable, known |-> h.known]
Shaped(h) == h = Hand(h.pc, h.sender, h.chat, h.kind, h.selected, h.alt, h)

\* The fields of a handler's record.
LEMMA HandFields ==
  ASSUME NEW pc, NEW sender, NEW chat, NEW kind, NEW selected, NEW alt, NEW g
  PROVE  LET h == Hand(pc, sender, chat, kind, selected, alt, g)
         IN  /\ Shaped(h) /\ h.pc = pc /\ h.sender = sender /\ h.chat = chat /\ h.kind = kind
             /\ h.selected = selected /\ h.alt = alt /\ h.readable = g.readable /\ h.known = g.known
  BY DEF Hand, Shaped

\* What the update of one field makes of it.
LEMMA OneField ==
  ASSUME NEW h, Shaped(h), NEW v
  PROVE  /\ [h EXCEPT !.pc = v] = Hand(v, h.sender, h.chat, h.kind, h.selected, h.alt, h)
         /\ [h EXCEPT !.sender = v] = Hand(h.pc, v, h.chat, h.kind, h.selected, h.alt, h)
         /\ [h EXCEPT !.chat = v] = Hand(h.pc, h.sender, v, h.kind, h.selected, h.alt, h)
         /\ [h EXCEPT !.kind = v] = Hand(h.pc, h.sender, h.chat, v, h.selected, h.alt, h)
         /\ [h EXCEPT !.selected = v] = Hand(h.pc, h.sender, h.chat, h.kind, v, h.alt, h)
         /\ [h EXCEPT !.alt = v] = Hand(h.pc, h.sender, h.chat, h.kind, h.selected, v, h)
  <1>1. [h EXCEPT !.pc = v] = Hand(v, h.sender, h.chat, h.kind, h.selected, h.alt, h) BY DEF Shaped, Hand
  <1>2. [h EXCEPT !.sender = v] = Hand(h.pc, v, h.chat, h.kind, h.selected, h.alt, h) BY DEF Shaped, Hand
  <1>3. [h EXCEPT !.chat = v] = Hand(h.pc, h.sender, v, h.kind, h.selected, h.alt, h) BY DEF Shaped, Hand
  <1>4. [h EXCEPT !.kind = v] = Hand(h.pc, h.sender, h.chat, v, h.selected, h.alt, h) BY DEF Shaped, Hand
  <1>5. [h EXCEPT !.selected = v] = Hand(h.pc, h.sender, h.chat, h.kind, v, h.alt, h) BY DEF Shaped, Hand
  <1>6. [h EXCEPT !.alt = v] = Hand(h.pc, h.sender, h.chat, h.kind, h.selected, v, h) BY DEF Shaped, Hand
  <1> QED BY <1>1, <1>2, <1>3, <1>4, <1>5, <1>6

\* The same for the updates of several fields that handlers make.
LEMMA SetSender ==
  ASSUME NEW g, Shaped(g), NEW pc, NEW u
  PROVE  [g EXCEPT !.pc = pc, !.sender = u] = Hand(pc, u, g.chat, g.kind, g.selected, g.alt, g)
  <1> DEFINE h == [g EXCEPT !.pc = pc]
  <1>1. h = Hand(pc, g.sender, g.chat, g.kind, g.selected, g.alt, g) BY OneField
  <1>2. [g EXCEPT !.pc = pc, !.sender = u] = [h EXCEPT !.sender = u] OBVIOUS
  <1> HIDE DEF h
  <1>3. /\ Shaped(h) /\ h.pc = pc /\ h.sender = g.sender /\ h.chat = g.chat /\ h.kind = g.kind
        /\ h.selected = g.selected /\ h.alt = g.alt /\ h.readable = g.readable /\ h.known = g.known
    BY <1>1, HandFields
  <1>4. [h EXCEPT !.sender = u] = Hand(h.pc, u, h.chat, h.kind, h.selected, h.alt, h) BY <1>3, OneField
  <1> QED BY <1>2, <1>3, <1>4 DEF Hand

LEMMA SetAlt ==
  ASSUME NEW g, Shaped(g), NEW pc, NEW u
  PROVE  [g EXCEPT !.pc = pc, !.alt = u] = Hand(pc, g.sender, g.chat, g.kind, g.selected, u, g)
  <1> DEFINE h == [g EXCEPT !.pc = pc]
  <1>1. h = Hand(pc, g.sender, g.chat, g.kind, g.selected, g.alt, g) BY OneField
  <1>2. [g EXCEPT !.pc = pc, !.alt = u] = [h EXCEPT !.alt = u] OBVIOUS
  <1> HIDE DEF h
  <1>3. /\ Shaped(h) /\ h.pc = pc /\ h.sender = g.sender /\ h.chat = g.chat /\ h.kind = g.kind
        /\ h.selected = g.selected /\ h.alt = g.alt /\ h.readable = g.readable /\ h.known = g.known
    BY <1>1, HandFields
  <1>4. [h EXCEPT !.alt = u] = Hand(h.pc, h.sender, h.chat, h.kind, h.selected, u, h) BY <1>3, OneField
  <1> QED BY <1>2, <1>3, <1>4 DEF Hand

LEMMA SetChat ==
  ASSUME NEW g, Shaped(g), NEW pc, NEW u
  PROVE  [g EXCEPT !.pc = pc, !.chat = u] = Hand(pc, g.sender, u, g.kind, g.selected, g.alt, g)
  <1> DEFINE h == [g EXCEPT !.pc = pc]
  <1>1. h = Hand(pc, g.sender, g.chat, g.kind, g.selected, g.alt, g) BY OneField
  <1>2. [g EXCEPT !.pc = pc, !.chat = u] = [h EXCEPT !.chat = u] OBVIOUS
  <1> HIDE DEF h
  <1>3. /\ Shaped(h) /\ h.pc = pc /\ h.sender = g.sender /\ h.chat = g.chat /\ h.kind = g.kind
        /\ h.selected = g.selected /\ h.alt = g.alt /\ h.readable = g.readable /\ h.known = g.known
    BY <1>1, HandFields
  <1>4. [h EXCEPT !.chat = u] = Hand(h.pc, h.sender, u, h.kind, h.selected, h.alt, h) BY <1>3, OneField
  <1> QED BY <1>2, <1>3, <1>4 DEF Hand

LEMMA SetKind ==
  ASSUME NEW g, Shaped(g), NEW pc, NEW u
  PROVE  [g EXCEPT !.pc = pc, !.kind = u] = Hand(pc, g.sender, g.chat, u, g.selected, g.alt, g)
  <1> DEFINE h == [g EXCEPT !.pc = pc]
  <1>1. h = Hand(pc, g.sender, g.chat, g.kind, g.selected, g.alt, g) BY OneField
  <1>2. [g EXCEPT !.pc = pc, !.kind = u] = [h EXCEPT !.kind = u] OBVIOUS
  <1> HIDE DEF h
  <1>3. /\ Shaped(h) /\ h.pc = pc /\ h.sender = g.sender /\ h.chat = g.chat /\ h.kind = g.kind
        /\ h.selected = g.selected /\ h.alt = g.alt /\ h.readable = g.readable /\ h.known = g.known
    BY <1>1, HandFields
  <1>4. [h EXCEPT !.kind = u] = Hand(h.pc, h.sender, h.chat, u, h.selected, h.alt, h) BY <1>3, OneField
  <1> QED BY <1>2, <1>3, <1>4 DEF Hand

LEMMA SetChatKind ==
  ASSUME NEW g, Shaped(g), NEW pc, NEW u, NEW v
  PROVE  [g EXCEPT !.pc = pc, !.chat = u, !.kind = v] = Hand(pc, g.sender, u, v, g.selected, g.alt, g)
  <1> DEFINE h == [g EXCEPT !.pc = pc, !.chat = u]
  <1>1. h = Hand(pc, g.sender, u, g.kind, g.selected, g.alt, g) BY SetChat
  <1>2. [g EXCEPT !.pc = pc, !.chat = u, !.kind = v] = [h EXCEPT !.kind = v] OBVIOUS
  <1> HIDE DEF h
  <1>3. /\ Shaped(h) /\ h.pc = pc /\ h.sender = g.sender /\ h.chat = u
        /\ h.kind = g.kind /\ h.selected = g.selected /\ h.alt = g.alt
        /\ h.readable = g.readable /\ h.known = g.known
    BY <1>1, HandFields
  <1>4. [h EXCEPT !.kind = v] = Hand(h.pc, h.sender, h.chat, v, h.selected, h.alt, h) BY <1>3, OneField
  <1> QED BY <1>2, <1>3, <1>4 DEF Hand

LEMMA SetKindSelected ==
  ASSUME NEW g, Shaped(g), NEW pc, NEW u, NEW v
  PROVE  [g EXCEPT !.pc = pc, !.kind = u, !.selected = v] = Hand(pc, g.sender, g.chat, u, v, g.alt, g)
  <1> DEFINE h == [g EXCEPT !.pc = pc, !.kind = u]
  <1>1. h = Hand(pc, g.sender, g.chat, u, g.selected, g.alt, g) BY SetKind
  <1>2. [g EXCEPT !.pc = pc, !.kind = u, !.selected = v] = [h EXCEPT !.selected = v] OBVIOUS
  <1> HIDE DEF h
  <1>3. /\ Shaped(h) /\ h.pc = pc /\ h.sender = g.sender /\ h.chat = g.chat
        /\ h.kind = u /\ h.selected = g.selected /\ h.alt = g.alt
        /\ h.readable = g.readable /\ h.known = g.known
    BY <1>1, HandFields
  <1>4. [h EXCEPT !.selected = v] = Hand(h.pc, h.sender, h.chat, h.kind, v, h.alt, h) BY <1>3, OneField
  <1> QED BY <1>2, <1>3, <1>4 DEF Hand

-----------------------------------------------------------------------------
(* Identities: what resolution makes of a sender and a chat *)

\* The directory and the poll keys hold what was put there.
Stored(d) ==
    /\ d = [t \in Tables |-> d[t]]
    /\ IsFiniteSet(DOMAIN d["lidMap"])
    /\ \A l \in DOMAIN d["lidMap"] :
         l \in Lids /\ d["lidMap"][l].data = Owner[l] /\ d["lidMap"][l].n \in Nat
    /\ \A key \in DOMAIN d["pollKeys"] :
         key = <<key[1], key[2]>> /\ IsChat(key[1]) /\ d["pollKeys"][key].data = Options

\* The numbers behind the sender and the chat can be found.
Given(m, d) == \A j \in {m.sender, m.chat} : j.form = "lid" => m.alt # None \/ PhoneOf(d, j.user) # None

\* A key of the vote's poll, under a chat known to be the vote's.
Leads(m, d, key) ==
    /\ key \in DOMAIN d["pollKeys"] /\ key[2] = m.body.vote.poll
    /\ Contact(key[1].user) = Contact(m.body.vote.remote.user)
    /\ \A jid \in {key[1], m.body.vote.remote} : jid.form = "lid" => PhoneOf(d, jid.user) # None

\* Tables that only grow.
Grew(d, e) ==
    /\ \A l \in DOMAIN d["lidMap"] : l \in DOMAIN e["lidMap"] /\ e["lidMap"][l].data = d["lidMap"][l].data
    /\ DOMAIN d["pollKeys"] \subseteq DOMAIN e["pollKeys"]

LEMMA UserForms ==
  ASSUME NEW user
  PROVE  /\ FormOf(user) = "lid" <=> user \in Lids
         /\ FormOf(user) = "pn" <=> user \in Phones
         /\ user \in Lids => user \notin Phones /\ Contact(user) = Owner[user] /\ Owner[user] \in Phones
         /\ user \notin Lids => Contact(user) = user
         /\ \A l \in Lids : Owner[l] # None /\ Owner[l] \notin Lids
  BY IdentitiesAssumption DEF FormOf, Contact

LEMMA Phonebook ==
  ASSUME NEW d, Stored(d), NEW user
  PROVE  PhoneOf(d, user) # None => user \in Lids /\ PhoneOf(d, user) = Owner[user] /\ user \in DOMAIN d["lidMap"]
  BY DEF Stored, PhoneOf, None

LEMMA SenderResolved ==
  ASSUME NEW d, Stored(d), NEW m, IsMessage(m), NEW known \in {PhoneOf(d, m.sender.user), None}
  PROVE  /\ Contact(ResolvedSender(m, known)) = Contact(m.sender.user)
         /\ Given(m, d) /\ known = PhoneOf(d, m.sender.user) => ResolvedSender(m, known) \notin Lids
  <1> DEFINE user == m.sender.user
             p == PhoneBehind(m.alt, known)
  <1>1. m.sender.form = FormOf(user) BY DEF IsMessage, IsJid
  <1>2. m.sender.form = "lid" => (m.alt # None => m.alt = Owner[user]) BY DEF IsMessage
  <1>3. m.sender.form = "lid" /\ p # None => p = Owner[user] BY <1>2, Phonebook DEF PhoneBehind
  <1>4. Given(m, d) /\ known = PhoneOf(d, user) /\ m.sender.form = "lid" => p # None
    BY DEF Given, PhoneBehind
  <1>5. ResolvedSender(m, known) = IF m.sender.form = "lid" /\ p # None THEN Owner[user] ELSE user
    BY <1>3 DEF ResolvedSender
  <1> HIDE DEF p, user
  <1>6. CASE m.sender.form = "lid" /\ p # None
    <2>1. user \in Lids /\ Owner[user] \in Phones /\ Owner[user] \notin Lids BY <1>1, <1>6, UserForms
    <2>2. Contact(Owner[user]) = Contact(user) BY <2>1, UserForms
    <2> QED BY <1>5, <1>6, <2>1, <2>2 DEF user
  <1>7. CASE ~(m.sender.form = "lid" /\ p # None)
    <2>1. m.sender.form # "lid" => user \notin Lids BY <1>1, UserForms
    <2> QED BY <1>4, <1>5, <1>7, <2>1 DEF user
  <1> QED BY <1>6, <1>7

LEMMA ChatResolved ==
  ASSUME NEW d, Stored(d), NEW m, IsMessage(m), NEW known \in {PhoneOf(d, m.chat.user), None}
  PROVE  /\ IsChat(ResolvedChat(m, known))
         /\ Contact(ResolvedChat(m, known).user) = Contact(m.chat.user)
         /\ Given(m, d) /\ known = PhoneOf(d, m.chat.user) => ResolvedChat(m, known).form # "lid"
  <1> DEFINE user == m.chat.user
             p == PhoneBehind(m.alt, known)
  <1>1. m.chat.form = FormOf(user) /\ IsChat(m.chat) BY DEF IsMessage, IsChat, Jid
  <1>2. m.chat.form = "lid" => (m.alt # None => m.alt = Owner[user]) BY DEF IsMessage
  <1>3. m.chat.form = "lid" /\ p # None => p = Owner[user] BY <1>2, Phonebook DEF PhoneBehind
  <1>4. Given(m, d) /\ known = PhoneOf(d, user) /\ m.chat.form = "lid" => p # None
    BY DEF Given, PhoneBehind
  <1>5. ResolvedChat(m, known) = IF m.chat.form = "lid" /\ p # None THEN Jid("pn", Owner[user]) ELSE m.chat
    BY <1>3 DEF ResolvedChat
  <1> HIDE DEF p
  <1>6. CASE m.chat.form = "lid" /\ p # None
    <2> HIDE DEF user
    <2>1. user \in Lids /\ Owner[user] \in Phones /\ Owner[user] \notin Lids BY <1>1, <1>6, UserForms
    <2>2. Contact(Owner[user]) = Contact(user) /\ FormOf(Owner[user]) = "pn" BY <2>1, UserForms
    <2>3. Jid("pn", Owner[user]).form = "pn" /\ Jid("pn", Owner[user]).user = Owner[user] BY DEF Jid
    <2>4. IsChat(Jid("pn", Owner[user])) BY <2>2, <2>3 DEF IsChat
    <2> QED BY <1>5, <1>6, <2>2, <2>3, <2>4 DEF user
  <1>7. CASE ~(m.chat.form = "lid" /\ p # None)
    BY <1>1, <1>4, <1>5, <1>7
  <1> QED BY <1>6, <1>7

\* The filter lets pass whoever is on the list, and nobody else.
LEMMA Filtered ==
  ASSUME NEW m, IsMessage(m), NEW sender, Contact(sender) = Contact(m.sender.user),
         NEW chat, IsChat(chat), Contact(chat.user) = Contact(m.chat.user)
  PROVE  /\ AllowedToPass(m, sender, chat) => OnTheList(m)
         /\ sender \notin Lids /\ chat.form # "lid" /\ OnTheList(m) => AllowedToPass(m, sender, chat)
  <1>1. sender \in Allowed => Contact(m.sender.user) \in Allowed
    BY UserForms, IdentitiesAssumption
  <1>2. chat.form = FormOf(chat.user) BY DEF IsChat, Jid
  <1>3. chat.form = "pn" /\ chat.user \in Allowed => Contact(m.chat.user) \in Allowed
    BY <1>2, UserForms, IdentitiesAssumption
  <1>4. sender \notin Lids => sender = Contact(m.sender.user) BY UserForms
  <1>5. chat.form # "lid" => chat.user = Contact(m.chat.user) BY <1>2, UserForms
  <1>6. chat.user \in Allowed => chat.form = "pn" BY <1>2, UserForms, IdentitiesAssumption
  <1> QED BY <1>1, <1>3, <1>4, <1>5, <1>6 DEF AllowedToPass, OnTheList

\* The other form of the vote's chat is where its key is.
LEMMA OtherForm ==
  ASSUME NEW d, Stored(d), NEW m, IsMessage(m), NEW key, Leads(m, d, key), key[1] # m.body.vote.remote
  PROVE  LET remote == m.body.vote.remote
         IN  \/ remote.form = "lid" /\ PhoneOf(d, remote.user) # None /\ key[1] = Jid("pn", PhoneOf(d, remote.user))
             \/ remote.form = "pn" /\ {Jid("lid", l) : l \in LidsOf(d, remote.user)} = {key[1]}
  <1> DEFINE remote == m.body.vote.remote
             a == key[1].user
             b == remote.user
  <1>1. IsChat(key[1]) /\ IsChat(remote) BY DEF Leads, Stored, IsMessage
  <1>2. key[1] = Jid(FormOf(a), a) /\ remote = Jid(FormOf(b), b) /\ key[1].form = FormOf(a) /\ remote.form = FormOf(b)
    BY <1>1 DEF IsChat, Jid
  <1>3. Contact(a) = Contact(b) /\ a # b BY <1>2 DEF Leads
  <1>4. /\ a \in Lids => PhoneOf(d, a) # None
        /\ b \in Lids => PhoneOf(d, b) # None
    BY <1>2, UserForms DEF Leads
  <1>5. a \in Lids \/ b \in Lids BY <1>3, UserForms
  <1>6. ~(a \in Lids /\ b \in Lids) BY <1>3, UserForms, IdentitiesAssumption
  <1>7. CASE b \in Lids
    <2>1. PhoneOf(d, b) = Owner[b] BY <1>4, <1>7, Phonebook
    <2>2. a = Owner[b] /\ a \in Phones BY <1>3, <1>6, <1>7, UserForms
    <2>3. FormOf(a) = "pn" /\ FormOf(b) = "lid" BY <2>2, <1>7, UserForms
    <2> QED BY <1>2, <1>4, <1>7, <2>1, <2>2, <2>3
  <1>8. CASE a \in Lids
    <2>1. PhoneOf(d, a) = Owner[a] /\ a \in DOMAIN d["lidMap"] BY <1>4, <1>8, Phonebook
    <2>2. b = Owner[a] /\ b \in Phones BY <1>3, <1>6, <1>8, UserForms
    <2>3. FormOf(b) = "pn" /\ FormOf(a) = "lid" BY <2>2, <1>8, UserForms
    <2>4. {l \in DOMAIN d["lidMap"] : d["lidMap"][l].data = b} = {a}
      <3>1. \A l \in DOMAIN d["lidMap"] : l \in Lids /\ d["lidMap"][l].data = Owner[l] BY DEF Stored
      <3>2. \A l \in Lids : Owner[l] = Owner[a] => l = a BY <1>8, IdentitiesAssumption
      <3> QED BY <2>1, <2>2, <3>1, <3>2
    <2>5. d["lidMap"][a].n \in Nat BY <2>1 DEF Stored
    <2>6. LidsOf(d, b) = {a} BY <2>4, <2>5 DEF LidsOf
    <2>7. {Jid("lid", l) : l \in LidsOf(d, b)} = {Jid("lid", a)} BY <2>6
    <2> QED BY <1>2, <2>3, <2>7
  <1> QED BY <1>5, <1>7, <1>8

LEMMA StillGiven ==
  ASSUME NEW d, NEW e, Stored(d), Stored(e), Grew(d, e), NEW m
  PROVE  /\ Given(m, d) => Given(m, e)
         /\ \A key : Leads(m, d, key) => Leads(m, e, key)
  <1>1. \A user : PhoneOf(d, user) # None => PhoneOf(e, user) # None
    BY DEF Grew, PhoneOf, None
  <1> QED BY <1>1 DEF Given, Leads, Grew

-----------------------------------------------------------------------------
(* Branches *)

\* A body takes the branch of a field that it has.
LEMMA TakenHits ==
  ASSUME NEW body, NEW readable
  PROVE  \/ Taken(body, readable) = "none"
         \/ /\ Taken(body, readable) \in BodyFields /\ Taken(body, readable) \in body.has
            /\ Taken(body, readable) = "vote" => readable
  <1> DEFINE Hit(x) == /\ x \in body.has
                       /\ x \in NeedParts => body.parts
                       /\ x = "vote" => readable
             hits == {i \in DOMAIN Order : Hit(Order[i])}
             first == CHOOSE i \in hits : \A j \in hits : i <= j
  <1>1. Taken(body, readable) = IF hits = {} THEN "none" ELSE Order[first] BY DEF Taken
  <1>2. DOMAIN Order = 1 .. 20 BY DEF Order
  <1>3. hits \in SUBSET Nat BY <1>2
  <1>4. hits # {} => first \in hits BY <1>3, LeastExists
  <1>5. first \in hits => Order[first] \in BodyFields /\ Hit(Order[first]) BY DEF BodyFields
  <1> HIDE DEF hits, first
  <1> QED BY <1>1, <1>4, <1>5

LEMMA VoteBranches ==
  ASSUME NEW m
  PROVE  /\ Kind(m.body, Branch(m, FALSE)) # "poll-vote"
         /\ LooksAtVote(m) => "vote" \in m.body.has /\ Branch(m, TRUE) = "vote"
  <1>1. "poll-vote" \notin BodyFields
    <2>1. DOMAIN Order = 1 .. 20 /\ \A i \in 1 .. 20 : Order[i] # "poll-vote" BY DEF Order
    <2> QED BY <2>1 DEF BodyFields
  <1>2. Branch(m, FALSE) \notin {"vote", "poll-vote"} BY <1>1, TakenHits DEF Branch
  <1>3. Kind(m.body, Branch(m, FALSE)) = "poll-vote" => Branch(m, FALSE) \in {"vote", "poll-vote"}
    <2> DEFINE b == Branch(m, FALSE)
    <2> HIDE DEF b
    <2>1. Kind(m.body, b) = "poll-vote" => b \in {"vote", "poll-vote"} BY DEF Kind
    <2> QED BY <2>1 DEF b
  <1>4. LooksAtVote(m) => "vote" \in m.body.has BY TakenHits DEF LooksAtVote, Branch
  <1> QED BY <1>2, <1>3, <1>4 DEF LooksAtVote

-----------------------------------------------------------------------------
(* The stages of a handler *)

AfterSender == {"chat", "key", "alternate", "altKey", "permit", "downloading", "storeKey", "record", "forward"}
AfterChat == AfterSender \ {"chat"}
Reading == {"key", "alternate", "altKey"}

\* What extraction makes sure of before a download.
Cleared(m) == m.body.file.place = "path" /\ m.body.file.declared # "over" /\ ~TooDeep(m)

\* A chat as it was resolved for a message.
ChatFound(m, chat, sure) ==
    /\ IsChat(chat) /\ Contact(chat.user) = Contact(m.chat.user)
    /\ sure => chat.form # "lid"

\* How far the handler of a vote that can be read has come.
Reads(h, m, d) ==
    /\ Decrypts(m) /\ OnTheList(m) /\ LooksAtVote(m)
    /\ \/ h.pc \in {"sender", "chat", "key"} /\ \E key : Leads(m, d, key)
       \/ h.pc = "alternate" /\ \E key : Leads(m, d, key) /\ key[1] # m.body.vote.remote
       \/ h.pc = "altKey" /\ HasPollKey(d, h.alt, m.body.vote.poll)
       \/ h.pc \in {"record", "forward"} /\ h.kind = "poll-vote"

Sure(h, f) == h.known /\ f = 0

\* The vote has to be read.
MustRead(h, f) == h.readable /\ Sure(h, f)

\* What a handler's record h says of its message m, whose entry is e, with the tables d after f failures.
At(h, m, e, d, f) ==
    /\ h.pc \in {"idle", "sender"} \cup AfterSender
    /\ h.pc # "idle" <=> e = "inflight"
    /\ h.known => Given(m, d)
    /\ h.pc \in AfterSender => /\ Contact(h.sender) = Contact(m.sender.user)
                               /\ Sure(h, f) => h.sender \notin Lids
    /\ h.pc \in AfterChat => ChatFound(m, h.chat, Sure(h, f)) /\ OnTheList(m)
    /\ h.pc \in {"permit", "downloading"} => Cleared(m)
    /\ h.pc \in Reading => LooksAtVote(m)
    /\ h.pc \in AfterChat \ Reading /\ h.kind = "poll-vote" => h.selected = m.body.vote.choice
    /\ MustRead(h, f) /\ h.pc # "idle" => Reads(h, m, d)

LEMMA AtStays ==
  ASSUME NEW h, NEW m, NEW e, NEW d, NEW f, At(h, m, e, d, f),
         NEW d2, NEW f2, Stored(d), Stored(d2), Grew(d, d2), f2 = 0 => f = 0
  PROVE  At(h, m, e, d2, f2)
  <1>1. Given(m, d) => Given(m, d2) BY StillGiven
  <1>2. \A key : Leads(m, d, key) => Leads(m, d2, key) BY StillGiven
  <1>3. HasPollKey(d, h.alt, m.body.vote.poll) => HasPollKey(d2, h.alt, m.body.vote.poll)
    BY DEF HasPollKey, Grew
  <1>4. Sure(h, f2) => Sure(h, f) BY DEF Sure, MustRead
  <1>5. Reads(h, m, d) => Reads(h, m, d2) BY <1>2, <1>3 DEF Reads
  <1>6. ChatFound(m, h.chat, Sure(h, f)) => ChatFound(m, h.chat, Sure(h, f2)) BY <1>4 DEF ChatFound
  <1> QED BY <1>1, <1>4, <1>5, <1>6 DEF At, MustRead

\* A handler that has left.
LEMMA AtLeave ==
  ASSUME NEW h, NEW m, NEW e, NEW d, NEW f, At(h, m, e, d, f),
         NEW g, g.pc = "idle", g.known = h.known, NEW e2 \in {"absent", "done"}, NEW f2
  PROVE  At(g, m, e2, d, f2)
  BY DEF At, MustRead, AfterSender, AfterChat, Reading

LEMMA AtSender ==
  ASSUME NEW h, NEW m, NEW e, NEW d, NEW f, At(h, m, e, d, f), Stored(d), IsMessage(m), h.pc = "sender",
         NEW known \in {PhoneOf(d, m.sender.user), None}, NEW f2,
         f2 = 0 => f = 0 /\ known = PhoneOf(d, m.sender.user),
         NEW g, g = Hand("chat", ResolvedSender(m, known), h.chat, h.kind, h.selected, h.alt, h)
  PROVE  At(g, m, e, d, f2)
  <1> DEFINE sender == ResolvedSender(m, known)
  <1>1. Contact(sender) = Contact(m.sender.user)
        /\ (Given(m, d) /\ known = PhoneOf(d, m.sender.user) => sender \notin Lids)
    BY SenderResolved
  <1> HIDE DEF sender
  <1>2. g.pc = "chat" /\ g.sender = sender /\ g.known = h.known /\ g.readable = h.readable
    BY HandFields DEF sender
  <1>3. Sure(g, f2) => Sure(h, f) /\ sender \notin Lids BY <1>1, <1>2 DEF Sure, MustRead, At
  <1>4. Reads(h, m, d) => Reads(g, m, d) BY <1>2 DEF Reads
  <1> QED BY <1>1, <1>2, <1>3, <1>4 DEF At, MustRead, AfterSender, AfterChat, Reading

\* The chat of a message, and whether it passes.
LEMMA AtChat ==
  ASSUME NEW h, NEW m, NEW e, NEW d, NEW f, At(h, m, e, d, f), Stored(d), IsMessage(m), h.pc = "chat",
         NEW known \in {PhoneOf(d, m.chat.user), None}, NEW f2,
         f2 = 0 => f = 0 /\ known = PhoneOf(d, m.chat.user)
  PROVE  /\ ChatFound(m, ResolvedChat(m, known), Sure(h, f2))
         /\ AllowedToPass(m, h.sender, ResolvedChat(m, known)) => OnTheList(m)
         /\ MustRead(h, f2) =>
              AllowedToPass(m, h.sender, ResolvedChat(m, known)) /\ LooksAtVote(m) /\ Reads(h, m, d)
  <1> DEFINE chat == ResolvedChat(m, known)
  <1>1. /\ IsChat(chat) /\ Contact(chat.user) = Contact(m.chat.user)
        /\ Given(m, d) /\ known = PhoneOf(d, m.chat.user) => chat.form # "lid"
    BY ChatResolved
  <1>2. Contact(h.sender) = Contact(m.sender.user) BY DEF At, AfterSender
  <1> HIDE DEF chat
  <1>3. Sure(h, f2) => Sure(h, f) /\ chat.form # "lid" /\ h.sender \notin Lids
    BY <1>1 DEF At, Sure, MustRead, AfterSender
  <1>4. MustRead(h, f2) => Reads(h, m, d) BY <1>3 DEF At, MustRead
  <1>5. /\ AllowedToPass(m, h.sender, chat) => OnTheList(m)
        /\ h.sender \notin Lids /\ chat.form # "lid" /\ OnTheList(m) => AllowedToPass(m, h.sender, chat)
    BY <1>1, <1>2, Filtered
  <1>6. MustRead(h, f2) => AllowedToPass(m, h.sender, chat) /\ LooksAtVote(m)
    BY <1>3, <1>4, <1>5 DEF Reads, MustRead
  <1> QED BY <1>1, <1>3, <1>4, <1>5, <1>6 DEF ChatFound, chat

LEMMA AtKey ==
  ASSUME NEW h, NEW m, NEW e, NEW d, NEW f, At(h, m, e, d, f), h.pc = "chat", NEW f2, f2 = 0 => f = 0,
         NEW chat, ChatFound(m, chat, Sure(h, f2)), OnTheList(m), LooksAtVote(m),
         NEW g, g = Hand("key", h.sender, chat, h.kind, h.selected, h.alt, h)
  PROVE  At(g, m, e, d, f2)
  <1>1. /\ g.pc = "key" /\ g.sender = h.sender /\ g.chat = chat
        /\ g.known = h.known /\ g.readable = h.readable
    BY HandFields
  <1>2. Sure(g, f2) = Sure(h, f2) /\ (Sure(h, f2) => Sure(h, f)) BY <1>1 DEF Sure, MustRead
  <1>3. Reads(h, m, d) => Reads(g, m, d) BY <1>1 DEF Reads
  <1> QED BY <1>1, <1>2, <1>3 DEF At, MustRead, AfterSender, AfterChat, Reading

\* Where extraction sends a message that is not read as a vote.
LEMMA AtProceed ==
  ASSUME NEW h, NEW m, NEW e, NEW d, NEW f, At(h, m, e, d, f), h.pc \in {"chat"} \cup Reading,
         NEW f2, f2 = 0 => f = 0, ~MustRead(h, f2),
         NEW chat, ChatFound(m, chat, Sure(h, f2)), OnTheList(m),
         NEW pc \in {"permit", "storeKey", "record"}, pc = "permit" => Cleared(m),
         NEW kind, kind # "poll-vote",
         NEW g, g = Hand(pc, h.sender, chat, kind, h.selected, h.alt, h)
  PROVE  At(g, m, e, d, f2)
  <1>1. /\ g.pc = pc /\ g.sender = h.sender /\ g.chat = chat /\ g.kind = kind
        /\ g.known = h.known /\ g.readable = h.readable
    BY HandFields
  <1>3. Sure(g, f2) = Sure(h, f2) /\ (Sure(h, f2) => Sure(h, f)) BY <1>1 DEF Sure, MustRead
  <1>4. Contact(h.sender) = Contact(m.sender.user) /\ (Sure(h, f) => h.sender \notin Lids)
    BY DEF At, AfterSender, Reading
  <1>5. e = "inflight" BY DEF At, Reading
  <1>6. pc \in AfterChat \ Reading /\ pc \in AfterSender /\ pc # "downloading"
    BY DEF AfterChat, AfterSender, Reading
  <1> QED BY <1>1, <1>3, <1>4, <1>5, <1>6 DEF At, MustRead

\* A vote is read with a key of its poll.
LEMMA AtRead ==
  ASSUME NEW h, NEW m, NEW e, NEW d, NEW f, At(h, m, e, d, f), Stored(d), IsMessage(m), h.pc \in Reading,
         NEW f2, f2 = 0 => f = 0, NEW s, s = m.body.vote.choice,
         NEW g, g = Hand("record", h.sender, h.chat, "poll-vote", s, h.alt, h)
  PROVE  At(g, m, e, d, f2)
  <1>1. /\ g.pc = "record" /\ g.sender = h.sender /\ g.chat = h.chat /\ g.kind = "poll-vote" /\ g.selected = s
        /\ g.known = h.known /\ g.readable = h.readable
    BY HandFields
  <1>3. Sure(g, f2) = Sure(h, f2) /\ (Sure(h, f2) => Sure(h, f)) BY <1>1 DEF Sure, MustRead
  <1>4. Reads(h, m, d) => Reads(g, m, d) BY <1>1 DEF Reads
  <1>5. ChatFound(m, h.chat, Sure(h, f)) => ChatFound(m, h.chat, Sure(h, f2)) BY <1>3 DEF ChatFound
  <1>6. h.pc \in AfterSender /\ h.pc \in AfterChat /\ h.pc # "idle" BY DEF Reading, AfterSender, AfterChat
  <1> QED BY <1>1, <1>3, <1>4, <1>5, <1>6 DEF At, MustRead, AfterSender, AfterChat, Reading

LEMMA AtMiss ==
  ASSUME NEW h, NEW m, NEW e, NEW d, NEW f, At(h, m, e, d, f), Stored(d), h.pc = "key",
         NEW f2, f2 = 0 => f = 0 /\ ~HasPollKey(d, m.body.vote.remote, m.body.vote.poll),
         NEW g, g = Hand("alternate", h.sender, h.chat, h.kind, h.selected, h.alt, h)
  PROVE  At(g, m, e, d, f2)
  <1>1. /\ g.pc = "alternate" /\ g.sender = h.sender /\ g.chat = h.chat
        /\ g.known = h.known /\ g.readable = h.readable
    BY HandFields
  <1>3. Sure(g, f2) = Sure(h, f2) /\ (Sure(h, f2) => Sure(h, f) /\ f2 = 0) BY <1>1 DEF Sure, MustRead
  <1>4. ASSUME Reads(h, m, d), f2 = 0 PROVE Reads(g, m, d)
    <2>1. PICK key : Leads(m, d, key) BY <1>4 DEF Reads
    <2>2. key = <<key[1], m.body.vote.poll>> /\ key \in DOMAIN d["pollKeys"] BY <2>1 DEF Leads, Stored
    <2>3. key[1] # m.body.vote.remote BY <1>4, <2>2 DEF HasPollKey
    <2> QED BY <1>1, <1>4, <2>1, <2>3 DEF Reads
  <1>5. ChatFound(m, h.chat, Sure(h, f)) => ChatFound(m, h.chat, Sure(h, f2)) BY <1>3 DEF ChatFound
  <1> QED BY <1>1, <1>3, <1>4, <1>5 DEF At, MustRead, AfterSender, AfterChat, Reading

LEMMA AtAlternate ==
  ASSUME NEW h, NEW m, NEW e, NEW d, NEW f, At(h, m, e, d, f), h.pc = "alternate",
         NEW f2, f2 = 0 => f = 0, NEW a,
         MustRead(h, f2) => HasPollKey(d, a, m.body.vote.poll),
         NEW g, g = Hand("altKey", h.sender, h.chat, h.kind, h.selected, a, h)
  PROVE  At(g, m, e, d, f2)
  <1>1. /\ g.pc = "altKey" /\ g.sender = h.sender /\ g.chat = h.chat /\ g.alt = a
        /\ g.known = h.known /\ g.readable = h.readable
    BY HandFields
  <1>3. Sure(g, f2) = Sure(h, f2) /\ (Sure(h, f2) => Sure(h, f)) BY <1>1 DEF Sure, MustRead
  <1>4. Reads(h, m, d) /\ HasPollKey(d, a, m.body.vote.poll) => Reads(g, m, d) BY <1>1 DEF Reads
  <1>5. ChatFound(m, h.chat, Sure(h, f)) => ChatFound(m, h.chat, Sure(h, f2)) BY <1>3 DEF ChatFound
  <1> QED BY <1>1, <1>3, <1>4, <1>5 DEF At, MustRead, AfterSender, AfterChat, Reading

\* A handler that only goes on, once its message is read.
LEMMA AtGo ==
  ASSUME NEW h, NEW m, NEW e, NEW d, NEW f, At(h, m, e, d, f), NEW pc,
         h.pc \in {"permit", "downloading", "storeKey", "record"}, pc \in {"downloading", "record", "forward"},
         pc = "downloading" => h.pc = "permit",
         NEW f2, f2 = 0 => f = 0
  PROVE  At(Hand(pc, h.sender, h.chat, h.kind, h.selected, h.alt, h), m, e, d, f2)
  <1> DEFINE g == Hand(pc, h.sender, h.chat, h.kind, h.selected, h.alt, h)
  <1>1. /\ g.pc = pc /\ g.sender = h.sender /\ g.chat = h.chat /\ g.kind = h.kind /\ g.selected = h.selected
        /\ g.known = h.known /\ g.readable = h.readable
    BY HandFields
  <1> HIDE DEF g
  <1>3. Sure(g, f2) = Sure(h, f2) /\ (Sure(h, f2) => Sure(h, f)) BY <1>1 DEF Sure, MustRead
  <1>4. Reads(h, m, d) => Reads(g, m, d) BY <1>1 DEF Reads
  <1>5. ChatFound(m, h.chat, Sure(h, f)) => ChatFound(m, h.chat, Sure(h, f2)) BY <1>3 DEF ChatFound
  <1>6. At(g, m, e, d, f2)
    BY <1>1, <1>3, <1>4, <1>5 DEF At, MustRead, AfterSender, AfterChat, Reading
  <1> QED BY <1>6 DEF g

-----------------------------------------------------------------------------
(* The steps of a handler *)

HandlersTyped ==
    /\ hand = [id \in Ids |-> hand[id]] /\ \A id \in Ids : Shaped(hand[id])
    /\ dedup \in [Ids -> {"absent", "inflight", "done"}]

\* The handler of one message gets the record g and its entry becomes e; the others stay as they are.
Becomes(id, g, e) ==
    /\ HandlersTyped' /\ hand'[id] = g /\ dedup'[id] = e
    /\ \A i \in Ids \ {id} : hand'[i] = hand[i] /\ dedup'[i] = dedup[i]

LEMMA PutHand ==
  ASSUME HandlersTyped, NEW id \in Ids, NEW g, Shaped(g), hand' = [hand EXCEPT ![id] = g], UNCHANGED dedup
  PROVE  Becomes(id, g, dedup[id])
  <1>1. hand' = [i \in Ids |-> IF i = id THEN g ELSE hand[i]] BY DEF HandlersTyped
  <1>2. hand'[id] = g /\ \A i \in Ids \ {id} : hand'[i] = hand[i] BY <1>1
  <1>3. hand' = [i \in Ids |-> hand'[i]] BY <1>1
  <1>4. \A i \in Ids : Shaped(hand'[i]) BY <1>2 DEF HandlersTyped
  <1>5. HandlersTyped' BY <1>3, <1>4 DEF HandlersTyped, Shaped
  <1> QED BY <1>2, <1>5 DEF Becomes

LEMMA PutBoth ==
  ASSUME HandlersTyped, NEW id \in Ids, NEW g, Shaped(g), NEW e \in {"absent", "inflight", "done"},
         hand' = [hand EXCEPT ![id] = g], dedup' = [dedup EXCEPT ![id] = e]
  PROVE  Becomes(id, g, e)
  <1>1. hand' = [i \in Ids |-> IF i = id THEN g ELSE hand[i]] BY DEF HandlersTyped
  <1>2. hand'[id] = g /\ \A i \in Ids \ {id} : hand'[i] = hand[i] BY <1>1
  <1>3. hand' = [i \in Ids |-> hand'[i]] BY <1>1
  <1>4. \A i \in Ids : Shaped(hand'[i]) BY <1>2 DEF HandlersTyped
  <1>5. dedup' \in [Ids -> {"absent", "inflight", "done"}] /\ dedup'[id] = e
        /\ \A i \in Ids \ {id} : dedup'[i] = dedup[i]
    BY DEF HandlersTyped
  <1>6. HandlersTyped' BY <1>3, <1>4, <1>5 DEF HandlersTyped, Shaped
  <1> QED BY <1>2, <1>5, <1>6 DEF Becomes

\* A handler leaves its message.
Gone(h) == Hand("idle", h.sender, h.chat, h.kind, h.selected, h.alt, h)

LEMMA LeaveFacts ==
  ASSUME HandlersTyped, NEW id \in Ids, NEW e \in {"absent", "done"}, Leave(id, e)
  PROVE  Becomes(id, Gone(hand[id]), e)
  <1>1. [hand[id] EXCEPT !.pc = "idle"] = Gone(hand[id]) BY OneField DEF HandlersTyped, Gone
  <1>2. hand' = [hand EXCEPT ![id] = Gone(hand[id])] /\ dedup' = [dedup EXCEPT ![id] = e]
    BY <1>1 DEF Leave
  <1>3. Shaped(Gone(hand[id])) BY HandFields DEF Gone
  <1> QED BY <1>2, <1>3, PutBoth

LEMMA GoFacts ==
  ASSUME HandlersTyped, NEW id \in Ids, NEW pc, Go(id, pc), UNCHANGED dedup
  PROVE  LET h == hand[id]
         IN  Becomes(id, Hand(pc, h.sender, h.chat, h.kind, h.selected, h.alt, h), dedup[id])
  <1> DEFINE h == hand[id]
             g == Hand(pc, h.sender, h.chat, h.kind, h.selected, h.alt, h)
  <1>1. [h EXCEPT !.pc = pc] = g BY OneField DEF HandlersTyped
  <1>2. hand' = [hand EXCEPT ![id] = g] BY <1>1 DEF Go
  <1>3. Shaped(g) BY HandFields
  <1> HIDE DEF g
  <1>4. Becomes(id, g, dedup[id]) BY <1>2, <1>3, PutHand
  <1> QED BY <1>4 DEF g

LEMMA ToFacts ==
  ASSUME HandlersTyped, NEW id \in Ids, NEW pc, NEW chat, NEW kind, UNCHANGED dedup,
         hand' = [hand EXCEPT ![id] = [@ EXCEPT !.pc = pc, !.chat = chat, !.kind = kind]]
  PROVE  LET h == hand[id]
         IN  Becomes(id, Hand(pc, h.sender, chat, kind, h.selected, h.alt, h), dedup[id])
  <1> DEFINE h == hand[id]
             g == Hand(pc, h.sender, chat, kind, h.selected, h.alt, h)
  <1>0. Shaped(h) BY DEF HandlersTyped
  <1>1. [h EXCEPT !.pc = pc, !.chat = chat, !.kind = kind] = g BY <1>0, SetChatKind
  <1>2. hand' = [hand EXCEPT ![id] = g] BY <1>1
  <1>3. Shaped(g) BY HandFields
  <1> HIDE DEF g
  <1>4. Becomes(id, g, dedup[id]) BY <1>2, <1>3, PutHand
  <1> QED BY <1>4 DEF g

\* Where Proceed sends a handler.
LEMMA ProceedFacts ==
  ASSUME HandlersTyped, NEW id \in Ids, NEW chat, Proceed(id, chat, FALSE)
  PROVE  LET h == hand[id]
         IN  \/ Becomes(id, Gone(h), "done")
             \/ \E pc \in {"permit", "storeKey", "record"} : \E kind :
                  /\ kind # "poll-vote"
                  /\ pc = "permit" => Cleared(msg[id])
                  /\ Becomes(id, Hand(pc, h.sender, chat, kind, h.selected, h.alt, h), dedup[id])
  <1> DEFINE h == hand[id]
             m == msg[id]
             branch == Branch(m, FALSE)
             kind == Kind(m.body, branch)
             To(pc) == /\ hand' = [hand EXCEPT ![id] = [@ EXCEPT !.pc = pc, !.chat = chat, !.kind = kind]]
                       /\ UNCHANGED dedup
             g(pc) == Hand(pc, h.sender, chat, kind, h.selected, h.alt, h)
  <1>1. \/ Unhandled(id)
        \/ branch # "none" /\ Refusal(m.body.file) = "none" /\ To("permit")
        \/ \E pc \in {"storeKey", "record"} : To(pc)
    BY DEF Proceed
  <1>2. Unhandled(id) => Becomes(id, Gone(h), "done") BY LeaveFacts DEF Unhandled
  <1>3. kind # "poll-vote" BY VoteBranches
  <1>4. branch # "none" /\ Refusal(m.body.file) = "none" => Cleared(m)
    <2>1. branch # "none" => ~TooDeep(m) BY DEF Branch
    <2>2. Refusal(m.body.file) = "none" => m.body.file.place = "path" /\ m.body.file.declared # "over"
      BY DEF Refusal, SafePlace
    <2> QED BY <2>1, <2>2 DEF Cleared
  <1> HIDE DEF kind
  <1>5. ASSUME NEW pc, To(pc) PROVE Becomes(id, g(pc), dedup[id])
    BY <1>5, ToFacts
  <1>6. \/ Becomes(id, Gone(h), "done")
        \/ \E pc \in {"permit", "storeKey", "record"} :
             /\ pc = "permit" => Cleared(m)
             /\ Becomes(id, g(pc), dedup[id])
    <2> HIDE DEF To, branch, g, m
    <2> QED BY <1>1, <1>2, <1>4, <1>5
  <1> QED BY <1>3, <1>6

-----------------------------------------------------------------------------
(* The invariant of the handlers and what they leave *)

WorkTyped ==
    /\ msg \in Corpus /\ failures \in Nat /\ permits \in Nat
    /\ HandlersTyped
    /\ traffic = "inbound" => Stored(db)
    /\ traffic # "inbound" => \A id \in Ids : hand[id] = Idle

AllAt == \A id \in Ids : At(hand[id], msg[id], dedup[id], db, failures)

Slots == Cardinality(Downloading) + permits = MaxDownloads

\* An event tells what happened in the conversation.
TrueEvent(ev, m, h, f) ==
    /\ Contact(ev.sender) = Contact(m.sender.user) /\ Contact(ev.chat.user) = Contact(m.chat.user)
    /\ Sure(h, f) => ev.sender \notin Lids /\ ev.chat.form # "lid"
    /\ OnTheList(m)
    /\ ev.kind = "poll-vote" => ev.selected = m.body.vote.choice
TrueRow(r, m) ==
    Contact(r.chat.user) = Contact(m.chat.user) /\ Contact(r.sender) = Contact(m.sender.user)

Filed ==
    /\ \A ev \in events : /\ ev.id \in Ids /\ dedup[ev.id] = "done"
                          /\ TrueEvent(ev, msg[ev.id], hand[ev.id], failures)
    /\ \A id \in DOMAIN history : id \in Ids /\ TrueRow(history[id], msg[id])

VotesForwarded ==
    \A id \in Ids : MustRead(hand[id], failures) /\ dedup[id] = "done" =>
        \E ev \in events : ev.id = id /\ ev.kind = "poll-vote"

WorkInv == WorkTyped /\ AllAt /\ Slots /\ Filed /\ VotesForwarded

LEMMA Messages == WorkTyped => \A id \in Ids : IsMessage(msg[id])
  BY MessagesAssumption DEF WorkTyped

\* What the steps of one handler have in common.
LEMMA HandMoves ==
  ASSUME WorkInv, traffic = "inbound", NEW id \in Ids, NEW g, NEW e, Becomes(id, g, e), dedup[id] # "done",
         UNCHANGED <<msg, traffic>>, failures' \in Nat, failures' = 0 => failures = 0,
         Stored(db'), Grew(db, db'), At(g, msg[id], e, db', failures'),
         permits' \in Nat, Slots',
         events \subseteq events',
         \A ev \in events' \ events : ev.id = id /\ e = "done" /\ TrueEvent(ev, msg[id], g, failures'),
         e = "done" /\ MustRead(g, failures') => \E ev \in events' : ev.id = id /\ ev.kind = "poll-vote",
         \A i \in DOMAIN history' : \/ i \in DOMAIN history /\ history'[i] = history[i]
                                    \/ i = id /\ TrueRow(history'[i], msg[i])
  PROVE  WorkInv'
  <1>1. WorkTyped' BY DEF WorkInv, WorkTyped, Becomes
  <1>2. Stored(db) BY DEF WorkInv, WorkTyped
  <1>3. \A i \in Ids : At(hand[i], msg[i], dedup[i], db', failures')
    BY <1>2, AtStays DEF WorkInv, AllAt
  <1>4. \A i \in Ids \ {id} : hand'[i] = hand[i] /\ dedup'[i] = dedup[i] BY DEF Becomes
  <1>5. hand'[id] = g /\ dedup'[id] = e BY DEF Becomes
  <1>6. AllAt'
    <2> SUFFICES ASSUME NEW i \in Ids PROVE At(hand'[i], msg'[i], dedup'[i], db', failures')
      BY DEF AllAt
    <2>1. CASE i = id BY <2>1, <1>5
    <2>2. CASE i # id BY <2>2, <1>3, <1>4
    <2> QED BY <2>1, <2>2
  <1>7. ASSUME NEW ev \in events'
        PROVE  ev.id \in Ids /\ dedup'[ev.id] = "done" /\ TrueEvent(ev, msg'[ev.id], hand'[ev.id], failures')
    <2>1. CASE ev \in events
      <3>1. ev.id \in Ids /\ dedup[ev.id] = "done" /\ TrueEvent(ev, msg[ev.id], hand[ev.id], failures)
        BY <2>1 DEF WorkInv, Filed
      <3>2. hand'[ev.id] = hand[ev.id] /\ dedup'[ev.id] = dedup[ev.id] BY <3>1, <1>4
      <3>3. Sure(hand[ev.id], failures') => Sure(hand[ev.id], failures) BY DEF Sure
      <3> QED BY <3>1, <3>2, <3>3 DEF TrueEvent
    <2>2. CASE ev \notin events BY <2>2, <1>5
    <2> QED BY <2>1, <2>2
  <1>8. \A i \in DOMAIN history' : i \in Ids /\ TrueRow(history'[i], msg'[i]) BY DEF WorkInv, Filed
  <1>9. Filed' BY <1>7, <1>8 DEF Filed
  <1>10. VotesForwarded'
    <2> SUFFICES ASSUME NEW i \in Ids, MustRead(hand'[i], failures'), dedup'[i] = "done"
                 PROVE  \E ev \in events' : ev.id = i /\ ev.kind = "poll-vote"
      BY DEF VotesForwarded
    <2>1. CASE i = id BY <2>1, <1>5
    <2>2. CASE i # id
      <3>1. MustRead(hand[i], failures) /\ dedup[i] = "done" BY <2>2, <1>4 DEF MustRead, Sure
      <3> QED BY <3>1 DEF WorkInv, VotesForwarded
    <2> QED BY <2>1, <2>2
  <1> QED BY <1>1, <1>6, <1>9, <1>10 DEF WorkInv

\* The slots are not touched.
LEMMA SlotsStay ==
  ASSUME WorkInv, NEW id \in Ids, NEW g, NEW e, Becomes(id, g, e), UNCHANGED permits,
         hand[id].pc # "downloading", g.pc # "downloading"
  PROVE  permits' \in Nat /\ Slots'
  <1>1. Downloading' = Downloading BY DEF Downloading, Becomes
  <1> QED BY <1>1 DEF WorkInv, WorkTyped, Slots

LEMMA GrewSame == ASSUME NEW d PROVE Grew(d, d)
  BY DEF Grew

\* Steps that move one handler on and touch nothing else.
LEMMA QuietStep ==
  ASSUME WorkInv, traffic = "inbound", NEW id \in Ids, NEW g, NEW e, Becomes(id, g, e), dedup[id] # "done",
         UNCHANGED <<msg, traffic, db, permits, events, history>>,
         failures' \in Nat, failures' = 0 => failures = 0,
         At(g, msg[id], e, db, failures'), hand[id].pc # "downloading", g.pc # "downloading",
         e = "done" => ~MustRead(g, failures')
  PROVE  WorkInv'
  <1>1. Stored(db) BY DEF WorkInv, WorkTyped
  <1>2. permits' \in Nat /\ Slots' BY SlotsStay
  <1>3. Grew(db, db') BY GrewSame
  <1>4. \A i \in DOMAIN history' : i \in DOMAIN history /\ history'[i] = history[i] OBVIOUS
  <1> QED BY <1>1, <1>2, <1>3, <1>4, HandMoves

-----------------------------------------------------------------------------
(* The actions of a handler *)

LEMMA Failing ==
  ASSUME failures \in Nat
  PROVE  /\ NoFault => failures' \in Nat /\ failures' = failures
         /\ Fault => failures' \in Nat /\ failures' # 0
  BY DEF NoFault, Fault

\* A handler at work holds its message's entry, and what it knows is so.
LEMMA AtStage ==
  ASSUME WorkInv, traffic = "inbound", NEW id \in Ids, hand[id].pc # "idle"
  PROVE  /\ At(hand[id], msg[id], dedup[id], db, failures) /\ dedup[id] = "inflight"
         /\ Stored(db) /\ IsMessage(msg[id]) /\ failures \in Nat /\ HandlersTyped /\ Shaped(hand[id])
  <1>1. At(hand[id], msg[id], dedup[id], db, failures) BY DEF WorkInv, AllAt
  <1>2. dedup[id] = "inflight" BY <1>1 DEF At
  <1> QED BY <1>1, <1>2, Messages DEF WorkInv, WorkTyped, HandlersTyped

LEMMA FindSenderStep ==
  ASSUME WorkInv, traffic = "inbound", UNCHANGED traffic, NEW id \in Ids, FindSender(id)
  PROVE  WorkInv'
  <1> DEFINE h == hand[id]
             m == msg[id]
  <1>1. h.pc = "sender" /\ UNCHANGED <<msg, dedup, permits, events, history, db>> BY DEF FindSender
  <1>2. /\ At(h, m, dedup[id], db, failures) /\ dedup[id] = "inflight" /\ Stored(db) /\ IsMessage(m)
        /\ failures \in Nat /\ HandlersTyped /\ Shaped(h)
    BY <1>1, AtStage
  <1>3. PICK known \in {Known(m.sender), None} :
           /\ Lookup(Known(m.sender), known)
           /\ hand' = [hand EXCEPT ![id] = [@ EXCEPT !.pc = "chat", !.sender = ResolvedSender(m, known)]]
    BY DEF FindSender
  <1>4. known \in {PhoneOf(db, m.sender.user), None} BY <1>3 DEF Known, BareLidUser
  <1>5. /\ failures' \in Nat
        /\ failures' = 0 => failures = 0 /\ known = PhoneOf(db, m.sender.user)
    BY <1>2, <1>3, Failing DEF Lookup, Known, BareLidUser
  <1> DEFINE g == Hand("chat", ResolvedSender(m, known), h.chat, h.kind, h.selected, h.alt, h)
  <1>6. At(g, m, dedup[id], db, failures') BY <1>1, <1>2, <1>4, <1>5, AtSender
  <1>7. Becomes(id, g, dedup[id])
    <2>1. [h EXCEPT !.pc = "chat", !.sender = ResolvedSender(m, known)] = g BY <1>2, SetSender
    <2>2. hand' = [hand EXCEPT ![id] = g] BY <1>3, <2>1
    <2>3. Shaped(g) BY HandFields
    <2> HIDE DEF g
    <2> QED BY <1>1, <1>2, <2>2, <2>3, PutHand
  <1>8. g.pc = "chat" BY HandFields
  <1> HIDE DEF g
  <1> QED BY <1>1, <1>2, <1>5, <1>6, <1>7, <1>8, QuietStep

\* A handler leaves without forwarding.
LEMMA LeavingStep ==
  ASSUME WorkInv, traffic = "inbound", UNCHANGED traffic, NEW id \in Ids, hand[id].pc \notin {"idle", "downloading"},
         UNCHANGED <<msg, permits, events, history, db>>, failures' \in Nat, failures' = 0 => failures = 0,
         NEW e \in {"absent", "done"}, Becomes(id, Gone(hand[id]), e), e = "done" => ~MustRead(hand[id], failures')
  PROVE  WorkInv'
  <1> DEFINE h == hand[id]
             g == Gone(h)
  <1>1. At(h, msg[id], dedup[id], db, failures) /\ dedup[id] = "inflight" BY AtStage
  <1>2. g.pc = "idle" /\ g.known = h.known /\ g.readable = h.readable BY HandFields DEF Gone
  <1> HIDE DEF g
  <1>3. At(g, msg[id], e, db, failures') BY <1>1, <1>2, AtLeave
  <1>4. MustRead(g, failures') => MustRead(h, failures') BY <1>2 DEF MustRead, Sure
  <1>5. Becomes(id, g, e) BY DEF g
  <1> QED BY <1>1, <1>2, <1>3, <1>4, <1>5, QuietStep

\* A message that is not read as a vote goes where its content belongs.
LEMMA ProceedStep ==
  ASSUME WorkInv, traffic = "inbound", UNCHANGED traffic, NEW id \in Ids, hand[id].pc \in {"chat"} \cup Reading,
         UNCHANGED <<msg, permits, events, history, db>>, failures' \in Nat, failures' = 0 => failures = 0,
         NEW chat, ChatFound(msg[id], chat, Sure(hand[id], failures')), OnTheList(msg[id]),
         ~MustRead(hand[id], failures'), Proceed(id, chat, FALSE)
  PROVE  WorkInv'
  <1> DEFINE h == hand[id]
             m == msg[id]
  <1>0. h.pc \notin {"idle", "downloading"} BY DEF Reading
  <1>1. /\ At(h, m, dedup[id], db, failures) /\ dedup[id] = "inflight" /\ HandlersTyped
    BY <1>0, AtStage
  <1>2. CASE Becomes(id, Gone(h), "done") BY <1>0, <1>2, LeavingStep
  <1>3. ASSUME NEW pc \in {"permit", "storeKey", "record"}, NEW kind, kind # "poll-vote",
               pc = "permit" => Cleared(m),
               Becomes(id, Hand(pc, h.sender, chat, kind, h.selected, h.alt, h), dedup[id])
        PROVE  WorkInv'
    <2> DEFINE g == Hand(pc, h.sender, chat, kind, h.selected, h.alt, h)
    <2>1. At(g, m, dedup[id], db, failures') BY <1>1, <1>3, AtProceed
    <2>2. g.pc = pc BY HandFields
    <2>3. Becomes(id, g, dedup[id]) BY <1>3
    <2> HIDE DEF g
    <2> QED BY <1>0, <1>1, <2>1, <2>2, <2>3, QuietStep
  <1> QED BY <1>1, <1>2, <1>3, ProceedFacts

LEMMA FindChatStep ==
  ASSUME WorkInv, traffic = "inbound", UNCHANGED traffic, NEW id \in Ids, FindChat(id)
  PROVE  WorkInv'
  <1> DEFINE h == hand[id]
             m == msg[id]
  <1>1. h.pc = "chat" /\ UNCHANGED <<msg, permits, events, history, db>> BY DEF FindChat
  <1>2. /\ At(h, m, dedup[id], db, failures) /\ dedup[id] = "inflight" /\ Stored(db) /\ IsMessage(m)
        /\ failures \in Nat /\ HandlersTyped /\ Shaped(h)
    BY <1>1, AtStage
  <1>3. PICK known \in {Known(m.chat), None} :
          /\ Lookup(Known(m.chat), known)
          /\ IF ~AllowedToPass(m, h.sender, ResolvedChat(m, known)) THEN Unhandled(id)
             ELSE IF LooksAtVote(m)
             THEN /\ hand' = [hand EXCEPT ![id] = [@ EXCEPT !.pc = "key", !.chat = ResolvedChat(m, known)]]
                  /\ UNCHANGED dedup
             ELSE Proceed(id, ResolvedChat(m, known), FALSE)
    BY DEF FindChat
  <1>4. known \in {PhoneOf(db, m.chat.user), None} BY <1>3 DEF Known, BareLidUser
  <1>5. /\ failures' \in Nat
        /\ failures' = 0 => failures = 0 /\ known = PhoneOf(db, m.chat.user)
    BY <1>2, <1>3, Failing DEF Lookup, Known, BareLidUser
  <1> DEFINE chat == ResolvedChat(m, known)
  <1>6. /\ ChatFound(m, chat, Sure(h, failures'))
        /\ AllowedToPass(m, h.sender, chat) => OnTheList(m)
        /\ MustRead(h, failures') =>
             AllowedToPass(m, h.sender, chat) /\ LooksAtVote(m) /\ Reads(h, m, db)
    BY <1>1, <1>2, <1>4, <1>5, AtChat
  <1>7. \/ ~AllowedToPass(m, h.sender, chat) /\ Unhandled(id)
        \/ /\ AllowedToPass(m, h.sender, chat) /\ LooksAtVote(m)
           /\ hand' = [hand EXCEPT ![id] = [@ EXCEPT !.pc = "key", !.chat = chat]] /\ UNCHANGED dedup
        \/ AllowedToPass(m, h.sender, chat) /\ ~LooksAtVote(m) /\ Proceed(id, chat, FALSE)
    BY <1>3
  <1> HIDE DEF chat
  <1>8. CASE ~AllowedToPass(m, h.sender, chat) /\ Unhandled(id)
    <2>1. Becomes(id, Gone(h), "done") BY <1>2, <1>8, LeaveFacts DEF Unhandled
    <2> QED BY <1>1, <1>5, <1>6, <1>8, <2>1, LeavingStep
  <1>9. CASE AllowedToPass(m, h.sender, chat) /\ ~LooksAtVote(m) /\ Proceed(id, chat, FALSE)
    BY <1>1, <1>5, <1>6, <1>9, ProceedStep
  <1>10. CASE /\ AllowedToPass(m, h.sender, chat) /\ LooksAtVote(m)
              /\ hand' = [hand EXCEPT ![id] = [@ EXCEPT !.pc = "key", !.chat = chat]] /\ UNCHANGED dedup
    <2> DEFINE g == Hand("key", h.sender, chat, h.kind, h.selected, h.alt, h)
    <2>1. At(g, m, dedup[id], db, failures') BY <1>1, <1>2, <1>5, <1>6, <1>10, AtKey
    <2>2. [h EXCEPT !.pc = "key", !.chat = chat] = g BY <1>2, SetChat
    <2>3. Shaped(g) /\ g.pc = "key" BY HandFields
    <2>4. hand' = [hand EXCEPT ![id] = g] BY <1>10, <2>2
    <2> HIDE DEF g
    <2>5. Becomes(id, g, dedup[id]) BY <1>2, <1>10, <2>3, <2>4, PutHand
    <2> QED BY <1>1, <1>2, <1>5, <2>1, <2>3, <2>5, QuietStep
  <1> QED BY <1>7, <1>8, <1>9, <1>10

\* A vote is read with the key that is stored under one form of its chat.
LEMMA ReadVoteStep ==
  ASSUME WorkInv, traffic = "inbound", UNCHANGED traffic, NEW id \in Ids, hand[id].pc \in Reading,
         UNCHANGED <<msg, permits, events, history, db>>, failures' \in Nat, failures' = 0 => failures = 0,
         NEW chat, KeyUnder(msg[id], chat), ReadVote(id, chat)
  PROVE  WorkInv'
  <1> DEFINE h == hand[id]
             m == msg[id]
  <1>0. h.pc \notin {"idle", "downloading", "sender", "chat"} BY DEF Reading
  <1>1. /\ At(h, m, dedup[id], db, failures) /\ dedup[id] = "inflight" /\ Stored(db) /\ IsMessage(m)
        /\ failures \in Nat /\ HandlersTyped /\ Shaped(h)
    BY <1>0, AtStage
  <1>2. LooksAtVote(m) /\ OnTheList(m) /\ ChatFound(m, h.chat, Sure(h, failures))
    BY <1>1 DEF At, Reading, AfterChat, AfterSender
  <1>3. CASE ~Decrypts(m)
    <2>1. Proceed(id, h.chat, FALSE) BY <1>3 DEF ReadVote
    <2>2. Sure(h, failures') => Sure(h, failures) BY DEF Sure
    <2>3. ChatFound(m, h.chat, Sure(h, failures')) BY <1>2, <2>2 DEF ChatFound
    <2>4. ~MustRead(h, failures')
      <3>1. MustRead(h, failures') => MustRead(h, failures) BY <2>2 DEF MustRead
      <3>2. MustRead(h, failures) => Reads(h, m, db) BY <1>0, <1>1 DEF At
      <3> QED BY <1>3, <3>1, <3>2 DEF Reads
    <2> QED BY <1>2, <2>1, <2>3, <2>4, ProceedStep
  <1>4. CASE Decrypts(m)
    <2> DEFINE s == Selected(m, chat)
               g == Hand("record", h.sender, h.chat, "poll-vote", s, h.alt, h)
    <2>1. hand' = [hand EXCEPT ![id] = [@ EXCEPT !.pc = "record", !.kind = "poll-vote", !.selected = s]]
          /\ UNCHANGED dedup
      BY <1>4 DEF ReadVote
    <2>2. s = m.body.vote.choice
      <3>1. "vote" \in m.body.has BY <1>2, VoteBranches
      <3>2. m.body.vote.choice \in Options BY <1>1, <3>1 DEF IsMessage
      <3>3. db["pollKeys"][<<chat, m.body.vote.poll>>].data = Options BY <1>1 DEF KeyUnder, HasPollKey, Stored
      <3> QED BY <3>2, <3>3 DEF Selected
    <2> HIDE DEF s
    <2>3. At(g, m, dedup[id], db, failures') BY <1>1, <2>2, AtRead
    <2>4. [h EXCEPT !.pc = "record", !.kind = "poll-vote", !.selected = s] = g BY <1>1, SetKindSelected
    <2>5. Shaped(g) /\ g.pc = "record" BY HandFields
    <2>6. hand' = [hand EXCEPT ![id] = g] BY <2>1, <2>4
    <2> HIDE DEF g
    <2>7. Becomes(id, g, dedup[id]) BY <1>1, <2>1, <2>5, <2>6, PutHand
    <2> QED BY <1>0, <1>1, <2>3, <2>5, <2>7, QuietStep
  <1> QED BY <1>3, <1>4

\* Without a key, the message is read as one of another kind.
LEMMA NoKeyStep ==
  ASSUME WorkInv, traffic = "inbound", UNCHANGED traffic, NEW id \in Ids, hand[id].pc \in Reading,
         UNCHANGED <<msg, permits, events, history, db>>, failures' \in Nat, failures' = 0 => failures = 0,
         ~MustRead(hand[id], failures'), Proceed(id, hand[id].chat, FALSE)
  PROVE  WorkInv'
  <1> DEFINE h == hand[id]
             m == msg[id]
  <1>1. At(h, m, dedup[id], db, failures) BY AtStage DEF Reading
  <1>2. OnTheList(m) /\ ChatFound(m, h.chat, Sure(h, failures))
    BY <1>1 DEF At, Reading, AfterChat, AfterSender
  <1>3. ChatFound(m, h.chat, Sure(h, failures')) BY <1>2 DEF ChatFound, Sure
  <1> QED BY <1>2, <1>3, ProceedStep

LEMMA FindKeyStep ==
  ASSUME WorkInv, traffic = "inbound", UNCHANGED traffic, NEW id \in Ids, FindKey(id)
  PROVE  WorkInv'
  <1> DEFINE h == hand[id]
             m == msg[id]
             remote == m.body.vote.remote
  <1>1. h.pc = "key" /\ UNCHANGED <<msg, permits, events, history, db>> BY DEF FindKey
  <1>2. /\ At(h, m, dedup[id], db, failures) /\ dedup[id] = "inflight" /\ Stored(db)
        /\ failures \in Nat /\ HandlersTyped /\ Shaped(h)
    BY <1>1, AtStage
  <1>3. \/ NoFault /\ KeyUnder(m, remote) /\ ReadVote(id, remote)
        \/ NoFault /\ ~KeyUnder(m, remote) /\ Go(id, "alternate") /\ UNCHANGED dedup
        \/ Fault /\ Go(id, "alternate") /\ UNCHANGED dedup
    BY DEF FindKey
  <1>4. CASE NoFault /\ KeyUnder(m, remote) /\ ReadVote(id, remote)
    BY <1>1, <1>2, <1>4, Failing, ReadVoteStep DEF Reading
  <1>5. CASE /\ Go(id, "alternate") /\ UNCHANGED dedup
             /\ Fault \/ (NoFault /\ ~KeyUnder(m, remote))
    <2> DEFINE g == Hand("alternate", h.sender, h.chat, h.kind, h.selected, h.alt, h)
    <2>1. /\ failures' \in Nat
          /\ failures' = 0 => failures = 0 /\ ~HasPollKey(db, remote, m.body.vote.poll)
      BY <1>2, <1>5, Failing DEF KeyUnder
    <2>2. At(g, m, dedup[id], db, failures') BY <1>1, <1>2, <2>1, AtMiss
    <2>3. Becomes(id, g, dedup[id]) BY <1>2, <1>5, GoFacts
    <2>4. g.pc = "alternate" BY HandFields
    <2> HIDE DEF g
    <2> QED BY <1>1, <1>2, <2>1, <2>2, <2>3, <2>4, QuietStep
  <1> QED BY <1>3, <1>4, <1>5

LEMMA FindAlternateStep ==
  ASSUME WorkInv, traffic = "inbound", UNCHANGED traffic, NEW id \in Ids, FindAlternate(id)
  PROVE  WorkInv'
  <1> DEFINE h == hand[id]
             m == msg[id]
             remote == m.body.vote.remote
             alts == Alternates(remote)
  <1>1. h.pc = "alternate" /\ UNCHANGED <<msg, permits, events, history, db>> BY DEF FindAlternate
  <1>2. /\ At(h, m, dedup[id], db, failures) /\ dedup[id] = "inflight" /\ Stored(db) /\ IsMessage(m)
        /\ failures \in Nat /\ HandlersTyped /\ Shaped(h)
    BY <1>1, AtStage
  <1>3. MustRead(h, failures) => \E a : alts = {a} /\ HasPollKey(db, a, m.body.vote.poll)
    <2> SUFFICES ASSUME MustRead(h, failures) PROVE \E a : alts = {a} /\ HasPollKey(db, a, m.body.vote.poll)
      OBVIOUS
    <2>1. Reads(h, m, db) BY <1>1, <1>2 DEF At
    <2>2. PICK key : Leads(m, db, key) /\ key[1] # remote BY <1>1, <2>1 DEF Reads
    <2>3. \/ remote.form = "lid" /\ PhoneOf(db, remote.user) # None /\ key[1] = Jid("pn", PhoneOf(db, remote.user))
          \/ remote.form = "pn" /\ {Jid("lid", l) : l \in LidsOf(db, remote.user)} = {key[1]}
      BY <1>2, <2>2, OtherForm
    <2>4. alts = {key[1]} BY <2>3 DEF Alternates, Known, BareLidUser
    <2>5. HasPollKey(db, key[1], m.body.vote.poll)
      <3>1. key = <<key[1], m.body.vote.poll>> /\ key \in DOMAIN db["pollKeys"] BY <1>2, <2>2 DEF Leads, Stored
      <3> QED BY <3>1 DEF HasPollKey
    <2> QED BY <2>4, <2>5
  <1>4. \/ NoFault /\ alts = {} /\ Proceed(id, h.chat, FALSE)
        \/ /\ NoFault /\ UNCHANGED dedup
           /\ \E a \in alts : hand' = [hand EXCEPT ![id] = [@ EXCEPT !.pc = "altKey", !.alt = a]]
        \/ Fault /\ Proceed(id, h.chat, FALSE)
    BY DEF FindAlternate
  <1> HIDE DEF alts
  <1>5. CASE Proceed(id, h.chat, FALSE) /\ (Fault \/ (NoFault /\ alts = {}))
    <2>1. failures' \in Nat /\ (failures' = 0 => failures = 0) BY <1>2, <1>5, Failing
    <2>2. ~MustRead(h, failures')
      <3>1. MustRead(h, failures') => failures' = 0 BY DEF MustRead, Sure
      <3>2. CASE Fault BY <1>2, <3>1, <3>2, Failing
      <3>3. CASE NoFault /\ alts = {} BY <1>2, <1>3, <3>3, Failing
      <3> QED BY <1>5, <3>2, <3>3
    <2> QED BY <1>1, <1>5, <2>1, <2>2, NoKeyStep DEF Reading
  <1>6. ASSUME NoFault, UNCHANGED dedup, NEW a \in alts,
               hand' = [hand EXCEPT ![id] = [@ EXCEPT !.pc = "altKey", !.alt = a]]
        PROVE  WorkInv'
    <2> DEFINE g == Hand("altKey", h.sender, h.chat, h.kind, h.selected, a, h)
    <2>1. failures' \in Nat /\ failures' = failures BY <1>2, <1>6, Failing
    <2>2. MustRead(h, failures') => HasPollKey(db, a, m.body.vote.poll) BY <1>3, <1>6, <2>1
    <2>3. At(g, m, dedup[id], db, failures') BY <1>1, <1>2, <2>1, <2>2, AtAlternate
    <2>4. [h EXCEPT !.pc = "altKey", !.alt = a] = g BY <1>2, SetAlt
    <2>5. Shaped(g) /\ g.pc = "altKey" BY HandFields
    <2>6. hand' = [hand EXCEPT ![id] = g] BY <1>6, <2>4
    <2> HIDE DEF g
    <2>7. Becomes(id, g, dedup[id]) BY <1>2, <1>6, <2>5, <2>6, PutHand
    <2> QED BY <1>1, <1>2, <2>1, <2>3, <2>5, <2>7, QuietStep
  <1> QED BY <1>4, <1>5, <1>6

LEMMA FindAltKeyStep ==
  ASSUME WorkInv, traffic = "inbound", UNCHANGED traffic, NEW id \in Ids, FindAltKey(id)
  PROVE  WorkInv'
  <1> DEFINE h == hand[id]
             m == msg[id]
  <1>1. h.pc = "altKey" /\ UNCHANGED <<msg, permits, events, history, db>> BY DEF FindAltKey
  <1>2. At(h, m, dedup[id], db, failures) /\ failures \in Nat BY <1>1, AtStage
  <1>3. \/ NoFault /\ KeyUnder(m, h.alt) /\ ReadVote(id, h.alt)
        \/ Proceed(id, h.chat, FALSE) /\ (Fault \/ (NoFault /\ ~KeyUnder(m, h.alt)))
    BY DEF FindAltKey
  <1>4. CASE NoFault /\ KeyUnder(m, h.alt) /\ ReadVote(id, h.alt)
    BY <1>1, <1>2, <1>4, Failing, ReadVoteStep DEF Reading
  <1>5. CASE Proceed(id, h.chat, FALSE) /\ (Fault \/ (NoFault /\ ~KeyUnder(m, h.alt)))
    <2>1. failures' \in Nat /\ (failures' = 0 => failures = 0) BY <1>2, <1>5, Failing
    <2>2. ~MustRead(h, failures')
      <3>1. MustRead(h, failures') => failures' = 0 BY DEF MustRead, Sure
      <3>2. MustRead(h, failures) => KeyUnder(m, h.alt) BY <1>1, <1>2 DEF At, Reads, KeyUnder
      <3>3. CASE Fault BY <1>2, <3>1, <3>3, Failing
      <3>4. CASE NoFault /\ ~KeyUnder(m, h.alt) BY <1>2, <3>2, <3>4, Failing
      <3> QED BY <1>5, <3>3, <3>4
    <2> QED BY <1>1, <1>5, <2>1, <2>2, NoKeyStep DEF Reading
  <1> QED BY <1>3, <1>4, <1>5

-----------------------------------------------------------------------------
(* What is stored *)

LEMMA RowPut ==
  ASSUME NEW d, d = [u \in Tables |-> d[u]], NEW t \in Tables, NEW k, NEW data, NEW n
  PROVE  LET e == Effect(One(Upsert(t, k, data, n)), d)
         IN  /\ e = [u \in Tables |-> e[u]] /\ \A u \in Tables \ {t} : e[u] = d[u]
             /\ e[t] = With(d[t], k, Row(data, n))
  <1> DEFINE s == Upsert(t, k, data, n)
             e == Effect(One(s), d)
  <1>1. Head(One(s).todo) = s BY DEF One
  <1>2. s.t = t /\ s.op = "upsert" /\ s.keys = {k} /\ s.row = Row(data, n) BY DEF Upsert
  <1> HIDE DEF s
  <1>3. e = [d EXCEPT ![t] = Result(s, d[t])] BY <1>1, <1>2 DEF Effect, Execute
  <1>4. Key(s) = k BY <1>2 DEF Key
  <1>5. Result(s, d[t]) = With(d[t], k, Row(data, n)) BY <1>2, <1>4 DEF Result
  <1>6. e = [u \in Tables |-> IF u = t THEN With(d[t], k, Row(data, n)) ELSE d[u]] BY <1>3, <1>5
  <1> HIDE DEF e
  <1>7. /\ e = [u \in Tables |-> e[u]] /\ \A u \in Tables \ {t} : e[u] = d[u]
        /\ e[t] = With(d[t], k, Row(data, n))
    BY <1>6
  <1> QED BY <1>7 DEF e, s

LEMMA KeyKept ==
  ASSUME NEW d, Stored(d), NEW chat, IsChat(chat), NEW poll
  PROVE  LET e == Effect(StorePollKey(chat, poll, Options), d) IN Stored(e) /\ Grew(d, e)
  <1> DEFINE e == Effect(StorePollKey(chat, poll, Options), d)
             k == <<chat, poll>>
  <1>0. "pollKeys" \in Tables /\ "lidMap" \in Tables BY DEF Tables
  <1>1. /\ e = [u \in Tables |-> e[u]] /\ \A u \in Tables \ {"pollKeys"} : e[u] = d[u]
        /\ e["pollKeys"] = With(d["pollKeys"], k, Row(Options, 0))
    BY <1>0, RowPut DEF StorePollKey, Stored
  <1> HIDE DEF e
  <1>2. e["lidMap"] = d["lidMap"] BY <1>0, <1>1
  <1>3. DOMAIN e["pollKeys"] = DOMAIN d["pollKeys"] \cup {k} BY <1>1 DEF With
  <1>4. ASSUME NEW key \in DOMAIN e["pollKeys"]
        PROVE  key = <<key[1], key[2]>> /\ IsChat(key[1]) /\ e["pollKeys"][key].data = Options
    <2>1. e["pollKeys"][key] = IF key = k THEN Row(Options, 0) ELSE d["pollKeys"][key] BY <1>1, <1>3, <1>4 DEF With
    <2>2. CASE key = k
      BY <2>1, <2>2 DEF Row
    <2>3. CASE key # k BY <1>3, <1>4, <2>1, <2>3 DEF Stored
    <2> QED BY <2>2, <2>3
  <1> QED BY <1>1, <1>2, <1>3, <1>4 DEF Stored, Grew, e

LEMMA MappingLearnt ==
  ASSUME NEW d, Stored(d), NEW lid \in Lids, lid \notin DOMAIN d["lidMap"]
  PROVE  LET e == Effect(PutLidMapping(lid, Owner[lid], Cardinality(DOMAIN d["lidMap"])), d)
         IN Stored(e) /\ Grew(d, e)
  <1> DEFINE n == Cardinality(DOMAIN d["lidMap"])
             e == Effect(PutLidMapping(lid, Owner[lid], n), d)
  <1>0. "pollKeys" \in Tables /\ "lidMap" \in Tables BY DEF Tables
  <1>n. n \in Nat BY FS_CardinalityType DEF Stored
  <1> HIDE DEF n
  <1>1. /\ e = [u \in Tables |-> e[u]] /\ \A u \in Tables \ {"lidMap"} : e[u] = d[u]
        /\ e["lidMap"] = With(d["lidMap"], lid, Row(Owner[lid], n))
    BY <1>0, RowPut DEF PutLidMapping, Stored
  <1> HIDE DEF e
  <1>2. e["pollKeys"] = d["pollKeys"] BY <1>0, <1>1
  <1>3. DOMAIN e["lidMap"] = DOMAIN d["lidMap"] \cup {lid} BY <1>1 DEF With
  <1>4. \A l \in DOMAIN e["lidMap"] : e["lidMap"][l] = IF l = lid THEN Row(Owner[lid], n) ELSE d["lidMap"][l]
    BY <1>1, <1>3 DEF With
  <1>5. Row(Owner[lid], n).data = Owner[lid] /\ Row(Owner[lid], n).n = n BY DEF Row
  <1>6. IsFiniteSet(DOMAIN e["lidMap"]) BY <1>3, FS_AddElement DEF Stored
  <1>7. Stored(e) BY <1>1, <1>2, <1>3, <1>4, <1>5, <1>6, <1>n DEF Stored
  <1>8. Grew(d, e) BY <1>2, <1>3, <1>4 DEF Grew
  <1> QED BY <1>7, <1>8 DEF e, n

-----------------------------------------------------------------------------
(* Downloads, rows and events *)

LEMMA SlotTaken ==
  ASSUME WorkInv, NEW id \in Ids, NEW g, NEW e, Becomes(id, g, e), hand[id].pc # "downloading",
         g.pc = "downloading", permits > 0, permits' = permits - 1
  PROVE  permits' \in Nat /\ Slots'
  <1>1. permits \in Nat BY DEF WorkInv, WorkTyped
  <1>2. IsFiniteSet(Downloading) BY MessagesAssumption, FS_Subset DEF Downloading
  <1>3. Downloading' = Downloading \cup {id} /\ id \notin Downloading BY DEF Downloading, Becomes
  <1>4. Cardinality(Downloading') = Cardinality(Downloading) + 1 BY <1>2, <1>3, FS_AddElement
  <1>5. Cardinality(Downloading) \in Nat BY <1>2, FS_CardinalityType
  <1>6. Cardinality(Downloading) + permits = MaxDownloads BY DEF WorkInv, Slots
  <1> QED BY <1>1, <1>4, <1>5, <1>6 DEF Slots

LEMMA SlotGivenBack ==
  ASSUME WorkInv, NEW id \in Ids, NEW g, NEW e, Becomes(id, g, e), hand[id].pc = "downloading",
         g.pc # "downloading", permits' = permits + 1
  PROVE  permits' \in Nat /\ Slots'
  <1>1. permits \in Nat BY DEF WorkInv, WorkTyped
  <1>2. IsFiniteSet(Downloading) BY MessagesAssumption, FS_Subset DEF Downloading
  <1>3. Downloading' = Downloading \ {id} /\ id \in Downloading BY DEF Downloading, Becomes
  <1>4. Cardinality(Downloading') = Cardinality(Downloading) - 1 BY <1>2, <1>3, FS_RemoveElement
  <1>5. Cardinality(Downloading) \in Nat BY <1>2, FS_CardinalityType
  <1>6. Cardinality(Downloading) + permits = MaxDownloads BY DEF WorkInv, Slots
  <1> QED BY <1>1, <1>4, <1>5, <1>6 DEF Slots

LEMMA GoAt ==
  ASSUME NEW id \in Ids, At(hand[id], msg[id], dedup[id], db, failures), NEW pc, failures' = 0 => failures = 0,
         hand[id].pc \in {"permit", "downloading", "storeKey", "record"}, pc \in {"downloading", "record", "forward"},
         pc = "downloading" => hand[id].pc = "permit"
  PROVE  LET h == hand[id]
         IN  At(Hand(pc, h.sender, h.chat, h.kind, h.selected, h.alt, h), msg[id], dedup[id], db, failures')
  <1>1. PICK x, y, e : x = hand[id] /\ y = msg[id] /\ e = dedup[id] OBVIOUS
  <1>2. At(x, y, e, db, failures) /\ x.pc \in {"permit", "downloading", "storeKey", "record"}
        /\ (pc = "downloading" => x.pc = "permit")
    BY <1>1
  <1>3. At(Hand(pc, x.sender, x.chat, x.kind, x.selected, x.alt, x), y, e, db, failures') BY <1>2, AtGo
  <1> QED BY <1>1, <1>3

\* Steps on the way of a message that is read.
LEMMA GoStep ==
  ASSUME WorkInv, traffic = "inbound", UNCHANGED traffic, NEW id \in Ids, NEW pc,
         hand[id].pc \in {"permit", "downloading", "storeKey", "record"}, pc \in {"downloading", "record", "forward"},
         pc = "downloading" => hand[id].pc = "permit",
         Go(id, pc), UNCHANGED <<msg, dedup, events>>,
         failures' \in Nat, failures' = 0 => failures = 0, Stored(db'), Grew(db, db'),
         \/ pc = "downloading" /\ permits > 0 /\ permits' = permits - 1
         \/ hand[id].pc = "downloading" /\ permits' = permits + 1
         \/ pc # "downloading" /\ hand[id].pc # "downloading" /\ UNCHANGED permits,
         \A i \in DOMAIN history' : \/ i \in DOMAIN history /\ history'[i] = history[i]
                                    \/ i = id /\ TrueRow(history'[i], msg[i])
  PROVE  WorkInv'
  <1> DEFINE h == hand[id]
             m == msg[id]
             g == Hand(pc, h.sender, h.chat, h.kind, h.selected, h.alt, h)
  <1>0. /\ h.pc \in {"permit", "downloading", "storeKey", "record"} /\ pc \in {"downloading", "record", "forward"}
        /\ pc = "downloading" => h.pc = "permit"
        /\ h.pc # "idle"
    OBVIOUS
  <1>1. /\ At(h, m, dedup[id], db, failures) /\ dedup[id] = "inflight" /\ Stored(db) /\ HandlersTyped
    BY <1>0, AtStage
  <1>2. At(g, m, dedup[id], db, failures')
    BY <1>0, <1>1, GoAt
  <1>3. At(g, m, dedup[id], db', failures')
    <2> HIDE DEF g
    <2> QED BY <1>1, <1>2, AtStays
  <1>4. Becomes(id, g, dedup[id]) BY <1>1, GoFacts
  <1>5. g.pc = pc BY HandFields
  <1> HIDE DEF g
  <1>6. permits' \in Nat /\ Slots'
    <2>1. CASE pc = "downloading" /\ permits > 0 /\ permits' = permits - 1
      BY <1>0, <1>4, <1>5, <2>1, SlotTaken
    <2>2. CASE h.pc = "downloading" /\ permits' = permits + 1
      BY <1>0, <1>4, <1>5, <2>2, SlotGivenBack
    <2>3. CASE pc # "downloading" /\ h.pc # "downloading" /\ UNCHANGED permits
      BY <1>4, <1>5, <2>3, SlotsStay
    <2> QED BY <2>1, <2>2, <2>3
  <1> QED BY <1>1, <1>3, <1>4, <1>6, HandMoves

LEMMA TakePermitStep ==
  ASSUME WorkInv, traffic = "inbound", UNCHANGED traffic, NEW id \in Ids, TakePermit(id)
  PROVE  WorkInv'
  <1>1. Stored(db) /\ failures \in Nat BY DEF WorkInv, WorkTyped
  <1>2. Grew(db, db') BY GrewSame DEF TakePermit
  <1> QED BY <1>1, <1>2, GoStep DEF TakePermit

LEMMA DownloadEndsStep ==
  ASSUME WorkInv, traffic = "inbound", UNCHANGED traffic, NEW id \in Ids, DownloadEnds(id)
  PROVE  WorkInv'
  <1> DEFINE h == hand[id]
             m == msg[id]
  <1>1. h.pc = "downloading" /\ permits' = permits + 1 /\ UNCHANGED <<msg, events, history, db>>
    BY DEF DownloadEnds
  <1>2. /\ At(h, m, dedup[id], db, failures) /\ dedup[id] = "inflight" /\ Stored(db)
        /\ failures \in Nat /\ HandlersTyped
    BY <1>1, AtStage
  <1>3. Stored(db') /\ Grew(db, db') BY <1>1, <1>2, GrewSame
  <1>4. \/ NoFault /\ Go(id, "record") /\ UNCHANGED dedup
        \/ NoFault /\ Unhandled(id)
        \/ Fault /\ TransientFailure(id)
    BY DEF DownloadEnds
  <1>5. failures' \in Nat /\ (failures' = 0 => failures = 0) BY <1>2, <1>4, Failing
  <1>6. CASE Go(id, "record") /\ UNCHANGED dedup BY <1>1, <1>3, <1>5, <1>6, GoStep
  <1>7. ASSUME NEW e \in {"absent", "done"}, Leave(id, e)
        PROVE  WorkInv'
    <2> DEFINE g == Gone(h)
    <2>1. Becomes(id, g, e) BY <1>2, <1>7, LeaveFacts
    <2>2. g.pc = "idle" /\ g.known = h.known /\ g.readable = h.readable BY HandFields DEF Gone
    <2> HIDE DEF g
    <2>3. At(g, m, e, db', failures') BY <1>1, <1>2, <2>2, AtLeave
    <2>4. ~MustRead(g, failures')
      <3>1. MustRead(g, failures') => MustRead(h, failures) BY <1>5, <2>2 DEF MustRead, Sure
      <3>2. MustRead(h, failures) => Reads(h, m, db) BY <1>1, <1>2 DEF At
      <3> QED BY <1>1, <3>1, <3>2 DEF Reads
    <2>5. permits' \in Nat /\ Slots' BY <1>1, <2>1, <2>2, SlotGivenBack
    <2> QED BY <1>1, <1>2, <1>3, <1>5, <2>1, <2>3, <2>4, <2>5, HandMoves
  <1> QED BY <1>4, <1>6, <1>7 DEF Unhandled, TransientFailure

LEMMA KeepKeyStep ==
  ASSUME WorkInv, traffic = "inbound", UNCHANGED traffic, NEW id \in Ids, KeepKey(id)
  PROVE  WorkInv'
  <1> DEFINE h == hand[id]
  <1>1. h.pc = "storeKey" /\ Go(id, "record") /\ UNCHANGED <<msg, dedup, permits, events, history>>
    BY DEF KeepKey
  <1>2. /\ At(h, msg[id], dedup[id], db, failures) /\ Stored(db) /\ failures \in Nat BY <1>1, AtStage
  <1>3. IsChat(h.chat) BY <1>1, <1>2 DEF At, ChatFound, AfterChat, AfterSender
  <1>4. \/ NoFault /\ db' = Effect(StorePollKey(h.chat, id, Options), db)
        \/ Fault /\ UNCHANGED db
    BY DEF KeepKey
  <1>5. failures' \in Nat /\ (failures' = 0 => failures = 0) BY <1>2, <1>4, Failing
  <1>6. Stored(db') /\ Grew(db, db') BY <1>2, <1>3, <1>4, KeyKept, GrewSame
  <1> QED BY <1>1, <1>5, <1>6, GoStep

LEMMA RecordStep ==
  ASSUME WorkInv, traffic = "inbound", UNCHANGED traffic, NEW id \in Ids, Record(id)
  PROVE  WorkInv'
  <1> DEFINE h == hand[id]
             m == msg[id]
  <1>1. h.pc = "record" /\ Go(id, "forward") /\ UNCHANGED <<msg, dedup, permits, events, db>>
    BY DEF Record
  <1>2. /\ At(h, m, dedup[id], db, failures) /\ Stored(db) /\ failures \in Nat BY <1>1, AtStage
  <1>3. Contact(h.chat.user) = Contact(m.chat.user) /\ Contact(h.sender) = Contact(m.sender.user)
    BY <1>1, <1>2 DEF At, ChatFound, AfterChat, AfterSender, Reading
  <1> DEFINE r == [chat |-> h.chat, sender |-> h.sender, kind |-> h.kind, body |-> HasDisplayText(h.kind, m.body.text),
                   embed |-> EmbedStatus(h.kind, m.body.text)]
  <1>4. \/ NoFault /\ (UNCHANGED history \/ history' = With(history, id, r))
        \/ Fault /\ UNCHANGED history
    BY DEF Record
  <1>r. r.chat = h.chat /\ r.sender = h.sender OBVIOUS
  <1> HIDE DEF r
  <1>5. failures' \in Nat /\ (failures' = 0 => failures = 0) BY <1>2, <1>4, Failing
  <1>6. Stored(db') /\ Grew(db, db') BY <1>1, <1>2, GrewSame
  <1>7. \A i \in DOMAIN history' : \/ i \in DOMAIN history /\ history'[i] = history[i]
                                   \/ i = id /\ TrueRow(history'[i], m)
    <2>1. CASE UNCHANGED history BY <2>1
    <2>2. CASE history' = With(history, id, r)
      <3>1. DOMAIN history' = DOMAIN history \cup {id} BY <2>2 DEF With
      <3>2. \A i \in DOMAIN history' : history'[i] = IF i = id THEN r ELSE history[i] BY <2>2, <3>1 DEF With
      <3>3. TrueRow(r, m) BY <1>3, <1>r DEF TrueRow
      <3> QED BY <3>1, <3>2, <3>3
    <2> QED BY <1>4, <2>1, <2>2
  <1> QED BY <1>1, <1>5, <1>6, <1>7, GoStep

LEMMA ForwardStep ==
  ASSUME WorkInv, traffic = "inbound", UNCHANGED traffic, NEW id \in Ids, Forward(id)
  PROVE  WorkInv'
  <1> DEFINE h == hand[id]
             m == msg[id]
             g == Gone(h)
  <1>1. h.pc = "forward" /\ UNCHANGED <<msg, permits, history, db, failures>> BY DEF Forward
  <1>2. /\ At(h, m, dedup[id], db, failures) /\ dedup[id] = "inflight" /\ Stored(db)
        /\ failures \in Nat /\ HandlersTyped
    BY <1>1, AtStage
  <1>3. /\ Contact(h.sender) = Contact(m.sender.user) /\ (Sure(h, failures) => h.sender \notin Lids)
        /\ ChatFound(m, h.chat, Sure(h, failures)) /\ OnTheList(m)
        /\ (h.kind = "poll-vote" => h.selected = m.body.vote.choice)
        /\ (MustRead(h, failures) => h.kind = "poll-vote")
    BY <1>1, <1>2 DEF At, AfterChat, AfterSender, Reading, Reads
  <1>4. g.pc = "idle" /\ g.known = h.known /\ g.readable = h.readable BY HandFields DEF Gone
  <1>5. CASE ~open
    <2>1. Leave(id, "absent") /\ UNCHANGED events BY <1>5 DEF Forward, TransientFailure
    <2>2. Becomes(id, g, "absent") BY <1>2, <2>1, LeaveFacts
    <2> HIDE DEF g
    <2>3. Becomes(id, Gone(h), "absent") BY <2>2 DEF g
    <2> QED BY <1>1, <1>2, <2>1, <2>3, LeavingStep
  <1>6. CASE open
    <2> DEFINE ev == [id |-> id, chat |-> h.chat, sender |-> h.sender, kind |-> h.kind, selected |-> h.selected,
                      viewOnce |-> FlaggedViewOnce(m), context |-> HasContext(m)]
    <2>1. events' = events \cup {ev} /\ Leave(id, "done") BY <1>6 DEF Forward
    <2>2. ev.id = id /\ ev.chat = h.chat /\ ev.sender = h.sender /\ ev.kind = h.kind /\ ev.selected = h.selected
      OBVIOUS
    <2> HIDE DEF ev
    <2>3. Becomes(id, g, "done") BY <1>2, <2>1, LeaveFacts
    <2> HIDE DEF g
    <2>4. Sure(g, failures) => Sure(h, failures) BY <1>4 DEF Sure
    <2>5. TrueEvent(ev, m, g, failures') BY <1>1, <1>3, <2>2, <2>4 DEF TrueEvent, ChatFound
    <2>6. At(g, m, "done", db, failures) BY <1>2, <1>4, AtLeave
    <2>7. MustRead(g, failures) => MustRead(h, failures) BY <1>4 DEF MustRead, Sure
    <2>8. permits' \in Nat /\ Slots' BY <1>1, <1>4, <2>3, SlotsStay
    <2>9. Grew(db, db') BY <1>1, GrewSame
    <2>10. \A x \in events' \ events : x.id = id /\ TrueEvent(x, m, g, failures') BY <2>1, <2>2, <2>5
    <2>11. MustRead(g, failures') => \E x \in events' : x.id = id /\ x.kind = "poll-vote"
      BY <1>1, <1>3, <2>1, <2>2, <2>7
    <2> QED BY <1>1, <1>2, <2>1, <2>3, <2>6, <2>8, <2>9, <2>10, <2>11, HandMoves
  <1> QED BY <1>5, <1>6

Flagged(h, readable, known) ==
    [pc |-> h.pc, sender |-> h.sender, chat |-> h.chat, kind |-> h.kind, selected |-> h.selected, alt |-> h.alt,
     readable |-> readable, known |-> known]

LEMMA OneFlag ==
  ASSUME NEW h, Shaped(h), NEW v
  PROVE  /\ [h EXCEPT !.readable = v] = Flagged(h, v, h.known)
         /\ [h EXCEPT !.known = v] = Flagged(h, h.readable, v)
  <1>1. [h EXCEPT !.readable = v] = Flagged(h, v, h.known) BY DEF Shaped, Hand, Flagged
  <1>2. [h EXCEPT !.known = v] = Flagged(h, h.readable, v) BY DEF Shaped, Hand, Flagged
  <1> QED BY <1>1, <1>2

LEMMA FlaggedFields ==
  ASSUME NEW h, NEW r, NEW k
  PROVE  LET g == Flagged(h, r, k)
         IN  /\ Shaped(g) /\ g.pc = h.pc /\ g.sender = h.sender /\ g.chat = h.chat /\ g.kind = h.kind
             /\ g.selected = h.selected /\ g.alt = h.alt /\ g.readable = r /\ g.known = k
  BY DEF Flagged, Shaped, Hand

LEMMA Started ==
  ASSUME NEW r, NEW k
  PROVE  LET g == [Idle EXCEPT !.pc = "sender", !.readable = r, !.known = k]
         IN  Shaped(g) /\ g.pc = "sender" /\ g.readable = r /\ g.known = k
  <1> DEFINE h == [Idle EXCEPT !.pc = "sender"]
             i == [h EXCEPT !.readable = r]
             g == [i EXCEPT !.known = k]
  <1>1. Shaped(Idle) BY DEF Idle, Shaped, Hand
  <1>2. Shaped(h) /\ h.pc = "sender"
    <2>1. h = Hand("sender", Idle.sender, Idle.chat, Idle.kind, Idle.selected, Idle.alt, Idle) BY <1>1, OneField
    <2> QED BY <2>1, HandFields
  <1>3. [Idle EXCEPT !.pc = "sender", !.readable = r, !.known = k] = g OBVIOUS
  <1> HIDE DEF h
  <1>4. Shaped(i) /\ i.pc = "sender" /\ i.readable = r
    <2>1. i = Flagged(h, r, h.known) BY <1>2, OneFlag
    <2> QED BY <1>2, <2>1, FlaggedFields
  <1> HIDE DEF i
  <1>5. Shaped(g) /\ g.pc = "sender" /\ g.readable = r /\ g.known = k
    <2>1. g = Flagged(i, i.readable, k) BY <1>4, OneFlag
    <2> QED BY <1>4, <2>1, FlaggedFields
  <1> HIDE DEF g
  <1> QED BY <1>3, <1>5

\* A handler starts with what can be read and is known then.
LEMMA AdmitStep ==
  ASSUME WorkInv, traffic = "inbound", UNCHANGED traffic, NEW id \in Ids, Admit(id)
  PROVE  WorkInv'
  <1> DEFINE h == hand[id]
             m == msg[id]
             readable == ReadableNow(m)
             known == \A j \in {m.sender, m.chat} : j.form = "lid" => m.alt # None \/ Known(j) # None
             g == [Idle EXCEPT !.pc = "sender", !.readable = readable, !.known = known]
  <1>1. /\ dedup[id] = "absent" /\ dedup' = [dedup EXCEPT ![id] = "inflight"]
        /\ hand' = [hand EXCEPT ![id] = g]
        /\ UNCHANGED <<msg, permits, events, history, db, failures>>
    BY DEF Admit
  <1>2. At(h, m, dedup[id], db, failures) /\ Stored(db) /\ failures \in Nat /\ HandlersTyped /\ IsMessage(m)
    BY Messages DEF WorkInv, AllAt, WorkTyped
  <1>3. h.pc = "idle" BY <1>1, <1>2 DEF At
  <1>4. g.pc = "sender" /\ (g.readable = readable) /\ (g.known = known) /\ Shaped(g)
    <2> HIDE DEF readable, known
    <2> QED BY Started
  <1>5. readable => /\ Decrypts(m) /\ OnTheList(m) /\ LooksAtVote(m)
                    /\ \E key : Leads(m, db, key)
    BY DEF ReadableNow, Leads, Known, BareLidUser
  <1>6. known => Given(m, db) BY DEF Given, Known, BareLidUser
  <1> HIDE DEF readable, known, g
  <1>7. g.pc = "sender" /\ (g.readable = readable) /\ (g.known = known) /\ Shaped(g) BY <1>4
  <1>8. (g.readable => readable) /\ (g.known => known) BY <1>7
  <1>9. MustRead(g, failures) => Reads(g, m, db) BY <1>5, <1>7, <1>8 DEF MustRead, Reads
  <1>10. g.known => Given(m, db) BY <1>6, <1>8
  <1>11. At(g, m, "inflight", db, failures)
    BY <1>7, <1>9, <1>10 DEF At, AfterSender, AfterChat, Reading
  <1>12. Becomes(id, g, "inflight") BY <1>1, <1>2, <1>7, PutBoth
  <1> QED BY <1>1, <1>2, <1>3, <1>7, <1>11, <1>12, QuietStep

\* Steps that leave the handlers where they are.
LEMMA StoreStep ==
  ASSUME WorkInv, traffic = "inbound", Stored(db'), Grew(db, db'),
         UNCHANGED <<traffic, msg, dedup, hand, permits, events, history, failures>>
  PROVE  WorkInv'
  <1>1. Stored(db) /\ failures \in Nat BY DEF WorkInv, WorkTyped
  <1>2. \A i \in Ids : At(hand[i], msg[i], dedup[i], db', failures')
    BY <1>1, AtStays DEF WorkInv, AllAt
  <1>3. AllAt' BY <1>2 DEF AllAt
  <1>4. WorkTyped' /\ Filed' /\ VotesForwarded' /\ Slots'
    BY DEF WorkInv, WorkTyped, HandlersTyped, Filed, VotesForwarded, Slots, Downloading
  <1> QED BY <1>3, <1>4 DEF WorkInv

\* Where no messages are handled, a handler is idle whatever is stored.
LEMMA ElsewhereStep ==
  ASSUME WorkInv, traffic # "inbound", UNCHANGED <<traffic, inbound>>,
         failures' \in Nat, failures' = 0 => failures = 0
  PROVE  WorkInv'
  <1>0. UNCHANGED <<msg, dedup, hand, permits, events, history>> BY DEF inbound
  <1>1. \A i \in Ids : At(hand[i], msg[i], dedup[i], db, failures) /\ hand[i] = Idle
    BY DEF WorkInv, AllAt, WorkTyped
  <1>2. Idle.pc = "idle" /\ ~Idle.known /\ ~Idle.readable BY DEF Idle
  <1>3. \A i \in Ids : At(hand[i], msg[i], dedup[i], db', failures')
    BY <1>1, <1>2 DEF At, AfterSender, AfterChat, Reading, MustRead
  <1>4. AllAt' BY <1>0, <1>3 DEF AllAt
  <1>5. WorkTyped' /\ Slots' BY <1>0 DEF WorkInv, WorkTyped, HandlersTyped, Slots, Downloading
  <1>6. \A i \in Ids : Sure(hand[i], failures') => Sure(hand[i], failures) BY DEF Sure
  <1>7. Filed' BY <1>0, <1>6 DEF WorkInv, Filed, TrueEvent
  <1>8. VotesForwarded' BY <1>0, <1>6 DEF WorkInv, VotesForwarded, MustRead
  <1> QED BY <1>4, <1>5, <1>7, <1>8 DEF WorkInv

LEMMA WorkPreserved ==
  ASSUME WorkInv, [LinkedNext]_linkedVars
  PROVE  WorkInv'
  <1>1. CASE UNCHANGED linkedVars
    BY <1>1 DEF linkedVars, inbound, WorkInv, WorkTyped, HandlersTyped, AllAt, Slots, Downloading, Filed, VotesForwarded
  <1>2. CASE InboundStep
    <2>1. traffic = "inbound" /\ UNCHANGED traffic BY <1>2 DEF InboundStep
    <2>2. ASSUME NEW id \in Ids, Admit(id) \/ Handle(id) PROVE WorkInv'
      BY <2>1, <2>2, AdmitStep, FindSenderStep, FindChatStep, FindKeyStep, FindAlternateStep, FindAltKeyStep,
         TakePermitStep, DownloadEndsStep, KeepKeyStep, RecordStep, ForwardStep DEF Handle
    <2>3. ASSUME NEW l \in Lids, Learn(l) PROVE WorkInv'
      <3>1. Stored(db) BY <2>1 DEF WorkInv, WorkTyped
      <3>2. Stored(db') /\ Grew(db, db') BY <2>3, <3>1, MappingLearnt DEF Learn
      <3> QED BY <2>1, <2>3, <3>2, StoreStep DEF Learn, inbound
    <2>4. ASSUME NEW p \in DOMAIN OwnPolls, KeepOwnKey(p) PROVE WorkInv'
      <3>1. Stored(db) BY <2>1 DEF WorkInv, WorkTyped
      <3>2. IsChat(OwnPolls[p]) BY MessagesAssumption
      <3>3. Stored(db') /\ Grew(db, db') BY <2>4, <3>1, <3>2, KeyKept DEF KeepOwnKey
      <3> QED BY <2>1, <2>4, <3>3, StoreStep DEF KeepOwnKey, inbound
    <2>5. CASE CloseInbound
      <3>1. Stored(db) BY <2>1 DEF WorkInv, WorkTyped
      <3>2. Grew(db, db') BY <2>5, GrewSame DEF CloseInbound
      <3> QED BY <2>1, <2>5, <3>1, <3>2, StoreStep DEF CloseInbound
    <2> QED BY <1>2, <2>2, <2>3, <2>4, <2>5 DEF InboundStep
  <1>3. CASE TableStep \/ PairingStep
    <2>1. traffic # "inbound" /\ UNCHANGED <<traffic, inbound>>
      BY <1>3, MessagesAssumption DEF TableStep, PairingStep
    <2>2. failures \in Nat BY DEF WorkInv, WorkTyped
    <2>3. failures' = failures \/ Fault
      BY <1>3 DEF TableStep, PairingStep, Begin, Statement, Return, CallFails, Tick, StartProcess, Crash, ReadPaired,
                  ReadName, ResolveName, BuildBot, Link, Save, UploadPrekeys, Unlink, LoggedOut, ClearDevice,
                  SessionEnds, NoFault
    <2>4. failures' \in Nat /\ (failures' = 0 => failures = 0) BY <2>2, <2>3, Failing
    <2> QED BY <2>1, <2>4, ElsewhereStep
  <1> QED BY <1>1, <1>2, <1>3 DEF LinkedNext

LEMMA WorkStarts == LinkedInit => WorkInv
  <1> SUFFICES ASSUME LinkedInit PROVE WorkInv OBVIOUS
  <1>1. /\ failures = 0 /\ dedup = [i \in Ids |-> "absent"] /\ hand = [i \in Ids |-> Idle]
        /\ permits = MaxDownloads /\ events = {} /\ history = << >> /\ db = EmptyStore
    BY DEF LinkedInit
  <1>2. msg \in Corpus BY MessagesAssumption DEF LinkedInit
  <1>3. Shaped(Idle) /\ Idle.pc = "idle" /\ ~Idle.known /\ ~Idle.readable BY DEF Idle, Shaped, Hand
  <1>4. Stored(db)
    <2>1. "lidMap" \in Tables /\ "pollKeys" \in Tables BY DEF Tables
    <2>2. DOMAIN db["lidMap"] = {} /\ DOMAIN db["pollKeys"] = {} /\ db = [u \in Tables |-> db[u]]
      BY <1>1, <2>1 DEF EmptyStore, Empty
    <2> QED BY <2>2, FS_EmptySet DEF Stored
  <1>5. WorkTyped BY <1>1, <1>2, <1>3, <1>4, MessagesAssumption DEF WorkTyped, HandlersTyped, Shaped
  <1>6. AllAt BY <1>1, <1>3 DEF AllAt, At, AfterSender, AfterChat, Reading, MustRead
  <1>7. Slots
    <2>1. Downloading = {} BY <1>1, <1>3 DEF Downloading
    <2> QED BY <1>1, <2>1, FS_EmptySet, MessagesAssumption DEF Slots
  <1>8. Filed /\ VotesForwarded BY <1>1 DEF Filed, VotesForwarded
  <1> QED BY <1>5, <1>6, <1>7, <1>8 DEF WorkInv

\* Where a handler is tells what it has established of its message, and what was forwarded or kept is true
\* to it (bridge.rs handle_event, extract_content_inner).
THEOREM WorkInvariant == LinkedSpec => []WorkInv
  BY WorkStarts, WorkPreserved, PTL DEF LinkedSpec

\* No download is begun of media whose place or size was not checked, through any wrapper, and the slots of
\* dl_semaphore add up, for any set of messages (bridge.rs MediaMode::bytes).
THEOREM DownloadsAreSafe == LinkedSpec => []DownloadsSafe
  <1>1. WorkInv => DownloadsSafe
    <2> SUFFICES ASSUME WorkInv PROVE DownloadsSafe OBVIOUS
    <2>1. ASSUME NEW id \in Downloading
          PROVE  /\ msg[id].body.file.place = "path" /\ msg[id].body.file.declared # "over"
                 /\ Len(msg[id].wraps) <= MaxExtractDepth
      <3>1. id \in Ids /\ hand[id].pc = "downloading" BY DEF Downloading
      <3>2. Cleared(msg[id]) BY <3>1 DEF WorkInv, AllAt, At
      <3>3. msg[id].wraps \in Seq(STRING) BY <3>1, Messages DEF WorkInv, IsMessage
      <3>4. Len(msg[id].wraps) \in Nat BY <3>3
      <3> QED BY <3>2, <3>4 DEF Cleared, TooDeep, MaxExtractDepth
    <2>2. permits >= 0 BY DEF WorkInv, WorkTyped
    <2> QED BY <2>1, <2>2 DEF DownloadsSafe, WorkInv, Slots
  <1> QED BY <1>1, WorkInvariant, PTL

\* Whatever the handlers' order, what is learnt between their lookups and which lookup fails, what is forwarded
\* or kept names its contact and chat, and a readable vote is forwarded as the voter cast it (bridge.rs
\* resolve_sender, resolve_chat_jid, the poll vote branch).
THEOREM ConversationsAreTrue == LinkedSpec => []ConversationsTrue
  <1>1. WorkInv => ConversationsTrue
    <2> SUFFICES ASSUME WorkInv PROVE ConversationsTrue OBVIOUS
    <2>1. ASSUME NEW e \in events
          PROVE  /\ Contact(e.sender) = Contact(msg[e.id].sender.user)
                 /\ Contact(e.chat.user) = Contact(msg[e.id].chat.user)
                 /\ hand[e.id].known /\ failures = 0 => e.sender \notin Lids /\ e.chat.form # "lid"
                 /\ OnTheList(msg[e.id])
                 /\ e.kind = "poll-vote" => e.selected = msg[e.id].body.vote.choice
      BY DEF WorkInv, Filed, TrueEvent, Sure
    <2>2. ASSUME NEW id \in DOMAIN history
          PROVE  /\ Contact(history[id].chat.user) = Contact(msg[id].chat.user)
                 /\ Contact(history[id].sender) = Contact(msg[id].sender.user)
      BY DEF WorkInv, Filed, TrueRow
    <2>3. FiledTrue BY <2>1, <2>2 DEF FiledTrue
    <2>4. VotesTrue BY <2>1 DEF WorkInv, VotesForwarded, MustRead, Sure, VotesTrue
    <2> QED BY <2>3, <2>4 DEF ConversationsTrue
  <1> QED BY <1>1, WorkInvariant, PTL

-----------------------------------------------------------------------------
(* The calls of the library *)

\* Every key of a batch's table was written by a call, and rows of one name carry one number.
BatchKept(t, table) ==
    /\ \A x \in DOMAIN table : \E o \in AllCalls : x \in Writes(o) /\ o.todo[1].t = t
    /\ \A x, y \in DOMAIN table : x[1] = y[1] => table[x].n = table[y].n

\* The promise about a message kept for retries is the row that keeps it.
SentKept(table, copies) ==
    /\ copies = [k \in SentKeys |-> copies[k]] /\ DOMAIN table \subseteq SentKeys
    /\ \A k \in SentKeys :
         IF k \in DOMAIN table THEN table[k].n \in Nat /\ copies[k] = table[k].n ELSE copies[k] = -1

\* The copy a batch works on: rows of the table it leaves as they were, rows it wrote, and the rest of its
\* rows are still to be written.
Halfway(c, todo, work, table) ==
    /\ \A x \in DOMAIN work :
         \/ x \in DOMAIN table /\ work[x].n = table[x].n
         \/ x \in Writes(c) /\ \A s \in Statements(c) : work[x].n = s.row.n
    /\ \A x \in Writes(c) :
         \/ \E i \in DOMAIN todo : x \in todo[i].keys
         \/ x \in DOMAIN work /\ \A s \in Statements(c) : work[x].n = s.row.n

\* The call that runs is one of the library's, as far as it has come.
Carries(c) ==
    /\ call.tx = c.tx /\ call.todo \in Seq(Statements(c))
    /\ call.todo # << >> =>
         LET t == Head(call.todo).t
         IN  /\ t \in Batches => (c.tx \/ Len(call.todo) = 1) /\ Halfway(c, call.todo, call.work, db[t])
             /\ t = "sent" => call.work = db["sent"] /\ call.want = c.want /\ call.todo = c.todo

TablesInv ==
    /\ db = [t \in Tables |-> db[t]] /\ now \in 0 .. MaxTime
    /\ \A t \in Batches : BatchKept(t, db[t])
    /\ SentKept(db["sent"], copy) /\ again = {}
    /\ call.busy => \E c \in AllCalls : Carries(c)

LEMMA OneTable ==
  ASSUME NEW c \in AllCalls, NEW s \in Statements(c)
  PROVE  /\ s.t \in Tables /\ \A r \in Statements(c) : r.t = s.t
         /\ s.op = "upsert" => \E k \in s.keys : s.keys = {k}
         /\ s.t \in Batches => IsBatch(c)
         /\ s.t = "sent" => IsRetryCall(c)
         /\ c.todo \in Seq(Statements(c))
  BY CallsAssumption

LEMMA KeyIs ==
  ASSUME NEW s, \E k \in s.keys : s.keys = {k}
  PROVE  \A y : y \in s.keys <=> y = Key(s)
  BY DEF Key

LEMMA WithIs ==
  ASSUME NEW table, NEW k, NEW row
  PROVE  /\ \A x : x \in DOMAIN With(table, k, row) <=> x \in DOMAIN table \/ x = k
         /\ With(table, k, row)[k] = row
         /\ \A x \in DOMAIN table : x # k => With(table, k, row)[x] = table[x]
  BY DEF With

LEMMA RemovalIs ==
  ASSUME NEW s, NEW table, s.op \in {"delete", "expire"}
  PROVE  \A x : /\ x \in DOMAIN Result(s, table) <=>
                     /\ x \in DOMAIN table
                     /\ s.op = "delete" => x \notin s.keys
                     /\ s.op = "expire" => ~(table[x].n < s.row.n)
                /\ x \in DOMAIN Result(s, table) => Result(s, table)[x] = table[x]
  <1>1. CASE s.op = "delete"
    <2>1. Result(s, table) = Without(table, s.keys) BY <1>1 DEF Result
    <2> QED BY <1>1, <2>1 DEF Without, Restrict
  <1>2. CASE s.op = "expire"
    <2>1. Result(s, table) = Without(table, {k \in DOMAIN table : table[k].n < s.row.n}) BY <1>2 DEF Result
    <2> QED BY <1>2, <2>1 DEF Without, Restrict
  <1> QED BY <1>1, <1>2

\* What a call of one statement leaves
LEMMA OneStatement ==
  ASSUME NEW s
  PROVE  \E v : Effect(One(s), db) = [db EXCEPT ![s.t] = v]
  <1>1. Head(One(s).todo) = s BY DEF One
  <1> QED BY <1>1 DEF Effect, Execute

\* The database after a write of one table
LEMMA OneWrite ==
  ASSUME db = [t \in Tables |-> db[t]], NEW u \in Tables, NEW v, db' = [db EXCEPT ![u] = v]
  PROVE  /\ (db = [t \in Tables |-> db[t]])'
         /\ db'[u] = v /\ \A t \in Tables : t # u => db'[t] = db[t]
  <1>1. DOMAIN db = Tables OBVIOUS
  <1> QED BY <1>1

LEMMA InitTables == LinkedInit => TablesInv
  <1> SUFFICES ASSUME LinkedInit PROVE TablesInv OBVIOUS
  <1>1. db = EmptyStore /\ call = NoCall /\ now = 0 /\ copy = [k \in SentKeys |-> -1] /\ again = {}
    BY DEF LinkedInit
  <1>2. \A t \in Tables : db[t] = Empty BY <1>1 DEF EmptyStore
  <1>3. DOMAIN Empty = {} BY DEF Empty
  <1>4. "sent" \in Tables /\ Batches \subseteq Tables BY DEF Tables, Batches
  <1>5. \A t \in Batches : BatchKept(t, db[t]) BY <1>2, <1>3, <1>4 DEF BatchKept
  <1>6. SentKept(db["sent"], copy) BY <1>1, <1>2, <1>3, <1>4 DEF SentKept
  <1>7. db = [t \in Tables |-> db[t]] BY <1>1 DEF EmptyStore
  <1>8. ~call.busy BY <1>1 DEF NoCall
  <1>9. now \in 0 .. MaxTime BY <1>1, CallsAssumption
  <1> QED BY <1>1, <1>5, <1>6, <1>7, <1>8, <1>9 DEF TablesInv

-----------------------------------------------------------------------------
(* Steps of others *)

\* A write of a table that is neither a batch's nor that of the messages kept
LEMMA OtherTable ==
  ASSUME TablesInv, NEW u \in Tables \ (Batches \cup {"sent"}), NEW v, db' = [db EXCEPT ![u] = v],
         UNCHANGED <<call, now, copy, again>>
  PROVE  TablesInv'
  <1>1. /\ (db = [t \in Tables |-> db[t]])'
        /\ \A t \in Tables : t # u => db'[t] = db[t]
    BY OneWrite DEF TablesInv
  <1>2. "sent" \in Tables /\ Batches \subseteq Tables BY DEF Tables, Batches
  <1>3. \A t \in Batches \cup {"sent"} : db'[t] = db[t] BY <1>1, <1>2
  <1>4. call.busy => (\E c \in AllCalls : Carries(c))'
    BY <1>3 DEF TablesInv, Carries
  <1> QED BY <1>1, <1>3, <1>4 DEF TablesInv

LEMMA TablesQuiet ==
  ASSUME TablesInv, UNCHANGED <<db, call, now, copy, again>>
  PROVE  TablesInv'
  BY DEF TablesInv, Carries

-----------------------------------------------------------------------------
(* Statements of a call *)

\* The numbers of a batch
LEMMA BatchWrites ==
  ASSUME NEW c \in AllCalls, NEW s \in Statements(c), s.t \in Batches
  PROVE  /\ s.op \in {"upsert", "delete", "expire"}
         /\ s.op = "upsert" => s.keys \subseteq Writes(c) /\ \A r \in Statements(c) : r.row.n = s.row.n
         /\ s.op # "upsert" => Writes(c) = {}
  <1>1. IsBatch(c) BY OneTable
  <1>2. s.op = "upsert" => s.keys \subseteq Writes(c) /\ s.keys # {} BY OneTable DEF Writes
  <1> QED BY <1>1, <1>2 DEF IsBatch

\* A statement takes the copy of a batch one step on.
LEMMA BatchGoesOn ==
  ASSUME NEW c \in AllCalls, NEW todo \in Seq(Statements(c)), todo # << >>,
         NEW s, s = Head(todo), s.t \in Batches, NEW work, NEW table, Halfway(c, todo, work, table)
  PROVE  Halfway(c, Tail(todo), Result(s, work), table)
  <1>1. s \in Statements(c) /\ s = todo[1] OBVIOUS
  <1>2. \A i \in DOMAIN todo : i = 1 \/ (i - 1 \in DOMAIN Tail(todo) /\ Tail(todo)[i - 1] = todo[i])
    OBVIOUS
  <1>3. CASE s.op = "upsert"
    <2> DEFINE k == Key(s)
               made == With(work, k, s.row)
    <2>0. \A y : y \in s.keys <=> y = k BY <1>1, <1>3, OneTable, KeyIs
    <2>a. Result(s, work) = made BY <1>3 DEF Result
    <2>1. /\ \A x : x \in DOMAIN made <=> x \in DOMAIN work \/ x = k
          /\ made[k] = s.row
          /\ \A x \in DOMAIN work : x # k => made[x] = work[x]
      BY WithIs
    <2> HIDE DEF k, made
    <2>2. k \in Writes(c) /\ \A r \in Statements(c) : r.row.n = s.row.n
      BY <1>1, <1>3, <2>0, BatchWrites
    <2>3. ASSUME NEW x \in DOMAIN made
          PROVE  \/ x \in DOMAIN table /\ made[x].n = table[x].n
                 \/ x \in Writes(c) /\ \A r \in Statements(c) : made[x].n = r.row.n
      <3>1. CASE x = k BY <3>1, <2>1, <2>2
      <3>2. CASE x # k
        <4>1. x \in DOMAIN work /\ made[x] = work[x] BY <3>2, <2>1, <2>3
        <4> QED BY <4>1 DEF Halfway
      <3> QED BY <3>1, <3>2
    <2>4. ASSUME NEW x \in Writes(c)
          PROVE  \/ \E i \in DOMAIN Tail(todo) : x \in Tail(todo)[i].keys
                 \/ x \in DOMAIN made /\ \A r \in Statements(c) : made[x].n = r.row.n
      <3>1. CASE x = k BY <3>1, <2>1, <2>2
      <3>2. CASE x # k /\ \E i \in DOMAIN todo : x \in todo[i].keys
        <4>1. PICK i \in DOMAIN todo : x \in todo[i].keys BY <3>2
        <4>2. i # 1 BY <4>1, <3>2, <2>0, <1>1
        <4> QED BY <4>1, <4>2, <1>2
      <3>3. CASE x # k /\ ~\E i \in DOMAIN todo : x \in todo[i].keys
        <4>1. x \in DOMAIN work /\ \A r \in Statements(c) : work[x].n = r.row.n BY <3>3 DEF Halfway
        <4> QED BY <4>1, <3>3, <2>1
      <3> QED BY <3>1, <3>2, <3>3
    <2> QED BY <2>a, <2>3, <2>4 DEF Halfway
  <1>4. CASE s.op \in {"delete", "expire"}
    <2>1. Writes(c) = {} BY <1>1, <1>4, BatchWrites
    <2>2. \A x \in DOMAIN Result(s, work) : x \in DOMAIN work /\ Result(s, work)[x] = work[x]
      BY <1>4, RemovalIs
    <2> QED BY <2>1, <2>2 DEF Halfway
  <1> QED BY <1>1, <1>3, <1>4, BatchWrites

\* What the last statement of a batch leaves is a table with the whole of it.
LEMMA BatchEnds ==
  ASSUME NEW c \in AllCalls, NEW s \in Statements(c), s.t \in Batches,
         NEW table, BatchKept(s.t, table), NEW made, Halfway(c, << >>, made, table)
  PROVE  BatchKept(s.t, made)
  <1>0. c.todo[1].t = s.t
    <2>1. c.todo \in Seq(Statements(c)) /\ \A r \in Statements(c) : r.t = s.t BY OneTable
    <2>2. PICK i \in DOMAIN c.todo : s = c.todo[i] BY DEF Statements
    <2>3. 1 \in DOMAIN c.todo BY <2>1, <2>2
    <2> QED BY <2>1, <2>3
  <1>1. \A x \in Writes(c) : x \in DOMAIN made /\ \A r \in Statements(c) : made[x].n = r.row.n
    BY DEF Halfway
  <1>2. \A x \in DOMAIN made :
           \/ x \in DOMAIN table /\ made[x].n = table[x].n
           \/ x \in Writes(c)
    BY DEF Halfway
  <1>3. ASSUME NEW x \in DOMAIN made
        PROVE  \E o \in AllCalls : x \in Writes(o) /\ o.todo[1].t = s.t
    BY <1>0, <1>2 DEF BatchKept
  <1>4. ASSUME NEW x \in DOMAIN made, NEW y \in DOMAIN made, x[1] = y[1], x \in Writes(c)
        PROVE  made[x].n = made[y].n
    <2>1. PICK o \in AllCalls : y \in Writes(o) /\ o.todo[1].t = s.t BY <1>3
    <2>2. y \in Writes(c) BY <1>0, <1>4, <2>1, CallsAssumption
    <2> QED BY <1>1, <1>4, <2>2
  <1>5. ASSUME NEW x \in DOMAIN made, NEW y \in DOMAIN made, x[1] = y[1]
        PROVE  made[x].n = made[y].n
    <2>1. CASE x \in Writes(c) BY <2>1, <1>4, <1>5
    <2>2. CASE y \in Writes(c)
      <3>1. y[1] = x[1] BY <1>5
      <3>2. made[y].n = made[x].n BY <2>2, <1>4, <3>1
      <3> QED BY <3>2
    <2>3. CASE x \notin Writes(c) /\ y \notin Writes(c) BY <2>3, <1>2, <1>5 DEF BatchKept
    <2> QED BY <2>1, <2>2, <2>3
  <1> QED BY <1>3, <1>5 DEF BatchKept

\* A statement on the messages kept for retries keeps the promise.
LEMMA PromiseKept ==
  ASSUME NEW c \in AllCalls, NEW s \in Statements(c), s.t = "sent", NEW table, SentKept(table, copy),
         NEW got, got = (IF c.want # None /\ c.want \in DOMAIN table THEN c.want ELSE None),
         again = {}, CountCopies(s, got)
  PROVE  SentKept(Result(s, table), copy') /\ again' = {}
  <1>1. IsRetryCall(c) BY OneTable
  <1>2. c.todo \in Seq(Statements(c)) /\ Len(c.todo) = 1 BY <1>1, OneTable DEF IsRetryCall
  <1>3. s = c.todo[1] BY <1>2 DEF Statements
  <1>4. \/ s.op = "upsert" /\ s.keys \subseteq SentKeys /\ s.row.n \in Nat /\ c.want = None
        \/ s.op = "delete" /\ s.keys = {c.want} /\ c.want \in SentKeys
        \/ s.op = "expire" /\ s.row.n \in Int /\ c.want = None
    BY <1>1, <1>3 DEF IsRetryCall
  <1>5. None \notin SentKeys BY CallsAssumption
  <1>6. copy' = [k \in SentKeys |->
                   CASE s.op = "upsert" /\ k \in s.keys -> s.row.n
                     [] k = got -> -1
                     [] s.op = "expire" /\ copy[k] < s.row.n -> -1
                     [] OTHER -> copy[k]]
        /\ again' = {k \in SentKeys : k = got /\ copy[k] = -1}
    BY DEF CountCopies
  <1>7. \A k \in SentKeys : IF k \in DOMAIN table THEN table[k].n \in Nat /\ copy[k] = table[k].n
                            ELSE copy[k] = -1
    BY DEF SentKept
  <1>8. \A k \in DOMAIN table : k \in SentKeys BY DEF SentKept
  <1>9. again' = {}
    <2>1. \A k \in SentKeys : k = got => k \in DOMAIN table BY <1>5
    <2>2. \A k \in SentKeys : k \in DOMAIN table => copy[k] # -1 BY <1>7
    <2> QED BY <1>6, <2>1, <2>2
  <1>10. copy' = [k \in SentKeys |-> copy'[k]] BY <1>6
  <1>11. CASE s.op = "upsert"
    <2> DEFINE u == Key(s)
               made == With(table, u, s.row)
    <2>0. \A y : y \in s.keys <=> y = u
      <3>1. \E k \in s.keys : s.keys = {k} BY <1>11, OneTable
      <3> QED BY <3>1, KeyIs
    <2>1. Result(s, table) = made BY <1>11 DEF Result
    <2>2. /\ \A x : x \in DOMAIN made <=> x \in DOMAIN table \/ x = u
          /\ made[u] = s.row
          /\ \A x \in DOMAIN table : x # u => made[x] = table[x]
      BY WithIs
    <2>3. u \in SentKeys /\ s.row.n \in Nat /\ c.want = None BY <1>4, <1>11, <2>0
    <2> HIDE DEF u, made
    <2>4. got = None BY <2>3
    <2>5. \A k \in SentKeys : copy'[k] = IF k = u THEN s.row.n ELSE copy[k]
      BY <1>5, <1>6, <1>11, <2>0, <2>4
    <2>6. \A k \in SentKeys : IF k \in DOMAIN made THEN made[k].n \in Nat /\ copy'[k] = made[k].n
                              ELSE copy'[k] = -1
      BY <1>7, <2>2, <2>3, <2>5
    <2>7. \A k \in DOMAIN made : k \in SentKeys BY <1>8, <2>2, <2>3
    <2> QED BY <1>9, <1>10, <2>1, <2>6, <2>7 DEF SentKept
  <1>12. CASE s.op \in {"delete", "expire"}
    <2> DEFINE made == Result(s, table)
    <2>1. \A x : /\ x \in DOMAIN made <=>
                     /\ x \in DOMAIN table
                     /\ s.op = "delete" => x \notin s.keys
                     /\ s.op = "expire" => ~(table[x].n < s.row.n)
                 /\ x \in DOMAIN made => made[x] = table[x]
      BY <1>12, RemovalIs
    <2> HIDE DEF made
    <2>2. \A k \in DOMAIN made : k \in SentKeys BY <1>8, <2>1
    <2>3. CASE s.op = "delete"
      <3>1. s.keys = {c.want} /\ c.want \in SentKeys BY <1>4, <2>3
      <3>2. \A k \in SentKeys : copy'[k] = IF k = got THEN -1 ELSE copy[k] BY <1>6, <2>3
      <3>3. \A k \in SentKeys : k = got <=> k = c.want /\ k \in DOMAIN table BY <3>1, <1>5
      <3>4. \A k \in SentKeys : IF k \in DOMAIN made THEN made[k].n \in Nat /\ copy'[k] = made[k].n
                                ELSE copy'[k] = -1
        BY <1>7, <2>1, <2>3, <3>1, <3>2, <3>3
      <3> QED BY <1>9, <1>10, <2>2, <3>4 DEF SentKept, made
    <2>4. CASE s.op = "expire"
      <3>1. s.row.n \in Int /\ c.want = None BY <1>4, <2>4
      <3>2. got = None BY <3>1
      <3>3. \A k \in SentKeys : copy'[k] = IF copy[k] < s.row.n THEN -1 ELSE copy[k]
        BY <1>5, <1>6, <2>4, <3>2
      <3>4. \A k \in SentKeys : IF k \in DOMAIN made THEN made[k].n \in Nat /\ copy'[k] = made[k].n
                                ELSE copy'[k] = -1
        BY <1>7, <2>1, <2>4, <3>1, <3>3
      <3> QED BY <1>9, <1>10, <2>2, <3>4 DEF SentKept, made
    <2> QED BY <1>12, <2>3, <2>4
  <1> QED BY <1>4, <1>11, <1>12

LEMMA BeginTables ==
  ASSUME TablesInv, NEW c \in AllCalls, Begin(c)
  PROVE  TablesInv'
  <1>1. /\ UNCHANGED <<db, now, copy, again>>
        /\ call' = [tx |-> c.tx, todo |-> c.todo, want |-> c.want,
                    work |-> IF c.todo = << >> THEN Empty ELSE db[Head(c.todo).t], busy |-> TRUE]
    BY DEF Begin
  <1>2. c.todo \in Seq(Statements(c)) BY CallsAssumption
  <1>3. Carries(c)'
    <2>1. call'.tx = c.tx /\ call'.todo = c.todo /\ call'.want = c.want BY <1>1
    <2>2. ASSUME c.todo # << >>
          PROVE  LET t == Head(c.todo).t
                 IN  /\ t \in Batches => (c.tx \/ Len(c.todo) = 1) /\ Halfway(c, c.todo, call'.work, db[t])
                     /\ t = "sent" => call'.work = db["sent"]
      <3> DEFINE t == Head(c.todo).t
      <3>1. call'.work = db[t] BY <1>1, <2>2
      <3>2. Head(c.todo) \in Statements(c) BY <1>2, <2>2
      <3>3. ASSUME t \in Batches PROVE c.tx \/ Len(c.todo) = 1
        BY <3>2, <3>3, OneTable DEF IsBatch
      <3>4. Halfway(c, c.todo, db[t], db[t])
        <4>1. \A x \in Writes(c) : \E s \in Statements(c) : x \in s.keys BY DEF Writes
        <4>2. \A s \in Statements(c) : \E i \in DOMAIN c.todo : c.todo[i] = s BY DEF Statements
        <4> QED BY <4>1, <4>2 DEF Halfway
      <3> QED BY <3>1, <3>3, <3>4
    <2> QED BY <1>1, <1>2, <2>1, <2>2 DEF Carries
  <1> QED BY <1>1, <1>3 DEF TablesInv

LEMMA StatementTables ==
  ASSUME TablesInv, Statement
  PROVE  TablesInv'
  <1> DEFINE s == Head(call.todo)
             made == Result(s, call.work)
             got == IF call.want # None /\ call.want \in DOMAIN call.work THEN call.want ELSE None
  <1>1. PICK c \in AllCalls : Carries(c) BY DEF TablesInv, Statement
  <1>2. /\ call.todo # << >> /\ UNCHANGED now
        /\ call' = [tx |-> call.tx, todo |-> Tail(call.todo), work |-> made, busy |-> TRUE, want |-> got]
        /\ db' = Committed(s, made)
        /\ IF s.t = "sent" THEN CountCopies(s, call'.want) ELSE UNCHANGED <<copy, again>>
    BY DEF Statement
  <1>3. /\ call'.tx = call.tx /\ call'.todo = Tail(call.todo) /\ call'.work = made /\ call'.want = got
    BY <1>2
  <1> HIDE DEF made, got
  <1>4. call.todo \in Seq(Statements(c)) /\ call.tx = c.tx BY <1>1 DEF Carries
  <1>5. s \in Statements(c) BY <1>2, <1>4
  <1>6. Tail(call.todo) \in Seq(Statements(c)) BY <1>2, <1>4
  <1> DEFINE t == s.t
  <1>7. t \in Tables BY <1>5, OneTable
  <1>8. Tail(call.todo) # << >> => Head(Tail(call.todo)).t = t
    <2>1. Tail(call.todo) # << >> => Head(Tail(call.todo)) \in Statements(c) BY <1>6
    <2> QED BY <2>1, <1>5, OneTable
  <1>9. \/ db' = db /\ c.tx /\ Tail(call.todo) # << >>
        \/ db' = [db EXCEPT ![t] = made] /\ ~(c.tx /\ Tail(call.todo) # << >>)
    BY <1>2, <1>4 DEF Committed
  <1>10. /\ (db = [u \in Tables |-> db[u]])' /\ \A u \in Tables : u # t => db'[u] = db[u]
         /\ db'[t] = IF c.tx /\ Tail(call.todo) # << >> THEN db[t] ELSE made
    <2>1. CASE db' = db /\ c.tx /\ Tail(call.todo) # << >>
      <3>1. (db = [u \in Tables |-> db[u]])' BY <2>1 DEF TablesInv
      <3> QED BY <2>1, <3>1
    <2>2. CASE db' = [db EXCEPT ![t] = made] /\ ~(c.tx /\ Tail(call.todo) # << >>)
      BY <1>7, <2>2, OneWrite DEF TablesInv
    <2> QED BY <1>9, <2>1, <2>2
  <1>11. "sent" \in Tables /\ Batches \subseteq Tables /\ "sent" \notin Batches BY DEF Tables, Batches
  <1>t. t = Head(call.todo).t OBVIOUS
  <1> HIDE DEF t
  <1>12. CASE t \in Batches
    <2>1. (c.tx \/ Len(call.todo) = 1) /\ Halfway(c, call.todo, call.work, db[t])
      BY <1>1, <1>2, <1>12, <1>t DEF Carries
    <2>2. Halfway(c, Tail(call.todo), made, db[t])
      BY <1>2, <1>4, <1>12, <1>t, <2>1, BatchGoesOn DEF made
    <2>3. Tail(call.todo) # << >> => c.tx
      <3>1. Len(call.todo) = 1 => Tail(call.todo) = << >> BY <1>4, <1>2
      <3> QED BY <2>1, <3>1
    <2>4. BatchKept(t, db'[t])
      <3>1. CASE Tail(call.todo) # << >> BY <1>10, <1>12, <2>3, <3>1 DEF TablesInv
      <3>2. CASE Tail(call.todo) = << >>
        <4>1. Halfway(c, << >>, made, db[t]) BY <2>2, <3>2
        <4>2. BatchKept(t, db[t]) BY <1>12 DEF TablesInv
        <4>3. BatchKept(t, made) BY <1>5, <1>12, <4>1, <4>2, BatchEnds DEF t
        <4> QED BY <1>10, <3>2, <4>3
      <3> QED BY <3>1, <3>2
    <2>5. \A u \in Batches : BatchKept(u, db'[u])
      BY <1>10, <1>11, <2>4 DEF TablesInv
    <2>6. db'["sent"] = db["sent"] /\ UNCHANGED <<copy, again>>
      BY <1>2, <1>10, <1>11, <1>12, <1>t
    <2>7. Carries(c)'
      <3>1. call'.tx = c.tx /\ call'.todo = Tail(call.todo) /\ call'.work = made BY <1>3, <1>4
      <3>2. ASSUME Tail(call.todo) # << >>
            PROVE  /\ Head(call'.todo).t = t
                   /\ (c.tx \/ Len(call'.todo) = 1) /\ Halfway(c, call'.todo, call'.work, db'[t])
        BY <1>8, <1>10, <2>2, <2>3, <3>1, <3>2
      <3> QED BY <1>6, <1>11, <1>12, <3>1, <3>2 DEF Carries
    <2>8. SentKept(db["sent"], copy) /\ again = {} BY DEF TablesInv
    <2> QED BY <1>1, <1>2, <1>10, <2>5, <2>6, <2>7, <2>8 DEF TablesInv
  <1>13. CASE t = "sent"
    <2>1. call.work = db["sent"] /\ call.want = c.want /\ call.todo = c.todo
      BY <1>1, <1>2, <1>13, <1>t DEF Carries
    <2>2. Len(call.todo) = 1
      <3>1. IsRetryCall(c) BY <1>5, <1>13, OneTable DEF t
      <3> QED BY <2>1, <3>1 DEF IsRetryCall
    <2>3. Tail(call.todo) = << >> BY <1>2, <1>4, <2>2
    <2>4. db'["sent"] = made BY <1>10, <1>13, <2>3
    <2>5. SentKept(made, copy') /\ again' = {}
      <3>1. SentKept(db["sent"], copy) /\ again = {} BY DEF TablesInv
      <3>2. CountCopies(s, got) BY <1>2, <1>3, <1>13 DEF t
      <3>3. got = (IF c.want # None /\ c.want \in DOMAIN db["sent"] THEN c.want ELSE None) BY <2>1 DEF got
      <3>4. s \in Statements(c) /\ s.t = "sent" BY <1>5, <1>13 DEF t
      <3>5. SentKept(Result(s, db["sent"]), copy') /\ again' = {}
        BY <3>1, <3>2, <3>3, <3>4, PromiseKept
      <3> QED BY <3>5, <2>1 DEF made
    <2>6. \A u \in Batches : db'[u] = db[u] BY <1>10, <1>11, <1>13
    <2>7. \A u \in Batches : BatchKept(u, db'[u]) BY <2>6 DEF TablesInv
    <2>8. Carries(c)'
      <3>1. call'.tx = c.tx /\ call'.todo = << >> BY <1>3, <1>4, <2>3
      <3>2. << >> \in Seq(Statements(c)) OBVIOUS
      <3> QED BY <3>1, <3>2 DEF Carries
    <2> QED BY <1>1, <1>2, <1>10, <2>4, <2>5, <2>7, <2>8 DEF TablesInv
  <1>14. CASE t \notin Batches /\ t # "sent"
    <2>1. \A u \in Batches \cup {"sent"} : db'[u] = db[u] BY <1>10, <1>11, <1>14
    <2>2. UNCHANGED <<copy, again>> BY <1>2, <1>14 DEF t
    <2>3. Carries(c)'
      <3>1. call'.tx = c.tx /\ call'.todo = Tail(call.todo) BY <1>3, <1>4
      <3> QED BY <1>6, <1>8, <1>14, <3>1 DEF Carries
    <2> QED BY <1>1, <1>2, <1>10, <2>1, <2>2, <2>3 DEF TablesInv
  <1> QED BY <1>12, <1>13, <1>14

LEMMA TableStepTables ==
  ASSUME TablesInv, TableStep
  PROVE  TablesInv'
  <1>1. ASSUME NEW c \in Calls[traffic][now], Begin(c), traffic \in DOMAIN Calls PROVE TablesInv'
    <2>1. c \in AllCalls BY <1>1 DEF AllCalls, TablesInv
    <2> QED BY <1>1, <2>1, BeginTables
  <1>2. ASSUME call' = NoCall, UNCHANGED <<db, now, copy, again>> PROVE TablesInv'
    BY <1>2 DEF TablesInv, NoCall
  <1>3. CASE Return BY <1>2, <1>3 DEF Return
  <1>4. CASE CallFails BY <1>2, <1>4 DEF CallFails
  <1>5. CASE Tick
    <2>1. now' \in 0 .. MaxTime BY <1>5, CallsAssumption DEF Tick, TablesInv
    <2> QED BY <1>5, <2>1 DEF Tick, TablesInv, Carries
  <1> QED BY <1>1, <1>3, <1>4, <1>5, StatementTables DEF TableStep

\* Every step keeps it.
LEMMA TablesPreserved ==
  ASSUME TablesInv, [LinkedNext]_linkedVars
  PROVE  TablesInv'
  <1>0. {"lidMap", "pollKeys", "prekeys"} \subseteq Tables \ (Batches \cup {"sent"})
    BY DEF Tables, Batches
  <1>1. CASE InboundStep
    <2>1. UNCHANGED <<call, now, copy, again>> BY <1>1 DEF InboundStep, tables
    <2>2. \/ UNCHANGED db
          \/ \E u \in {"lidMap", "pollKeys"} : \E v : db' = [db EXCEPT ![u] = v]
      <3>1. \A id \in Ids : Admit(id) => UNCHANGED db BY DEF Admit
      <3>2. \A id \in Ids : Handle(id) =>
               UNCHANGED db \/ db' = Effect(StorePollKey(hand[id].chat, id, Options), db)
        BY DEF Handle, FindSender, FindChat, FindKey, FindAlternate, FindAltKey, TakePermit, DownloadEnds,
               KeepKey, Record, Forward
      <3>3. \A l \in Lids : Learn(l) =>
               db' = Effect(PutLidMapping(l, Owner[l], Cardinality(DOMAIN db["lidMap"])), db)
        BY DEF Learn
      <3>4. \A p \in DOMAIN OwnPolls : KeepOwnKey(p) => db' = Effect(StorePollKey(OwnPolls[p], p, Options), db)
        BY DEF KeepOwnKey
      <3>5. CloseInbound => UNCHANGED db BY DEF CloseInbound
      <3>6. \A x, p : \E v : Effect(StorePollKey(x, p, Options), db) = [db EXCEPT !["pollKeys"] = v]
        <4> TAKE x, p
        <4> DEFINE s == Upsert("pollKeys", <<x, p>>, Options, 0)
        <4>1. s.t = "pollKeys" BY DEF Upsert
        <4>2. StorePollKey(x, p, Options) = One(s) BY DEF StorePollKey
        <4> HIDE DEF s
        <4>3. PICK v : Effect(One(s), db) = [db EXCEPT ![s.t] = v] BY OneStatement
        <4> QED BY <4>1, <4>2, <4>3
      <3>7. \A x, p, n : \E v : Effect(PutLidMapping(x, p, n), db) = [db EXCEPT !["lidMap"] = v]
        <4> TAKE x, p, n
        <4> DEFINE s == Upsert("lidMap", x, p, n)
        <4>1. s.t = "lidMap" BY DEF Upsert
        <4>2. PutLidMapping(x, p, n) = One(s) BY DEF PutLidMapping
        <4> HIDE DEF s
        <4>3. PICK v : Effect(One(s), db) = [db EXCEPT ![s.t] = v] BY OneStatement
        <4> QED BY <4>1, <4>2, <4>3
      <3> QED BY <1>1, <3>1, <3>2, <3>3, <3>4, <3>5, <3>6, <3>7 DEF InboundStep
    <2> QED BY <1>0, <2>1, <2>2, OtherTable, TablesQuiet
  <1>2. CASE PairingStep
    <2>1. UNCHANGED <<call, now, copy, again>> BY <1>2 DEF PairingStep, tables
    <2>2. UNCHANGED db \/ \E v : db' = [db EXCEPT !["prekeys"] = v]
      <3>1. \A k : \E v : Effect(StorePrekey(k, "key", 1), db) = [db EXCEPT !["prekeys"] = v]
        <4> TAKE k
        <4> DEFINE s == Upsert("prekeys", k, "key", 1)
        <4>1. s.t = "prekeys" BY DEF Upsert
        <4>2. StorePrekey(k, "key", 1) = One(s) BY DEF StorePrekey
        <4> HIDE DEF s
        <4>3. PICK v : Effect(One(s), db) = [db EXCEPT ![s.t] = v] BY OneStatement
        <4> QED BY <4>1, <4>2, <4>3
      <3> QED BY <1>2, <3>1 DEF PairingStep, StartProcess, Crash, ReadPaired, ReadName, ResolveName, BuildBot,
            Link, Save, UploadPrekeys, Unlink, LoggedOut, ClearDevice, SessionEnds
    <2> QED BY <1>0, <2>1, <2>2, OtherTable, TablesQuiet
  <1>3. CASE UNCHANGED linkedVars BY <1>3, TablesQuiet DEF linkedVars, tables
  <1> QED BY <1>1, <1>2, <1>3, TableStepTables DEF LinkedNext

\* What CallsWhole rests on: the copy a transaction works on is the table as it was, what the call has written
\* so far, and nothing else (Store::run and the transactions of the store methods in storage.rs).
THEOREM CallsInvariant == LinkedSpec => []TablesInv
  <1>1. TablesInv /\ [LinkedNext]_linkedVars => TablesInv' BY TablesPreserved
  <1> QED BY InitTables, <1>1, PTL DEF LinkedSpec

\* CallsWhole, for every set of calls of the kinds the store makes: no state of the database shows a part
\* of a batch, and a message kept for retries is handed out once for every time it was stored.
THEOREM CallsAreWhole == LinkedSpec => []CallsWhole
  <1>1. TablesInv => CallsWhole
    <2> SUFFICES ASSUME TablesInv PROVE CallsWhole OBVIOUS
    <2>1. \A t \in {"macs", "skDevices"} : BatchKept(t, db[t]) BY DEF TablesInv, Batches
    <2>2. \A x, y \in DOMAIN db["macs"] : x[1] = y[1] => db["macs"][x].n = db["macs"][y].n
      BY <2>1 DEF BatchKept
    <2>3. \A x, y \in DOMAIN db["skDevices"] : x[1] = y[1] => db["skDevices"][x].n = db["skDevices"][y].n
      BY <2>1 DEF BatchKept
    <2>4. again = {} /\ {k \in SentKeys : copy[k] >= 0} = DOMAIN db["sent"]
      BY DEF TablesInv, SentKept
    <2> QED BY <2>2, <2>3, <2>4 DEF CallsWhole
  <1> QED BY <1>1, CallsInvariant, PTL
=============================================================================
