------------------------ MODULE OutboundQueueProofs ------------------------
(***************************************************************************)
(* Proofs about OutboundQueue, for every number of jobs, retry budget,     *)
(* threshold and fault bound: first its invariants, then that it           *)
(* implements Outbox.  Every step of the queue, its worker, the drain, the *)
(* bridge and every fault is a step of the abstract outbox or leaves it as *)
(* it is, and from the same case analysis follows what a caller of         *)
(* enqueue_and_wait may rely on.                                           *)
(***************************************************************************)
EXTENDS OutboundQueue, TLAPS

Table == [Jobs -> Row]

\* A statement that names row j leaves the table well-formed and every other
\* row as it was.
Frame(t, u, j) == u \in Table /\ \A k \in Jobs \ {j} : u[k] = t[k]

----------------------------------------------------------------------------
(* The statements of storage.rs *)

\* The delay of a retry, 1 << min(retries, 6), is a number of seconds.
LEMMA BackoffType == ASSUME NEW n \in Nat PROVE Backoff(n) \in Nat
  <1>1. CASE n >= 6 BY <1>1 DEF Backoff
  <1>2. CASE n < 6
    <2>1. n \in {0, 1, 2, 3, 4, 5} BY <1>2
    <2> QED BY <2>1 DEF Backoff
  <1> QED BY <1>1, <1>2

\* An age of zero, which every statement writes, is within the cap.
LEMMA AgeZero == 0 \in 0 .. AgeCap
  BY QueueAssumption DEF AgeCap

\* Replacing one row by a row is a framed update.
LEMMA FrameUpdate ==
  ASSUME NEW t \in Table, NEW j \in Jobs, NEW r \in Row
  PROVE  Frame(t, [t EXCEPT ![j] = r], j) /\ [t EXCEPT ![j] = r][j] = r
  BY DEF Table, Frame

\* INSERT makes a queued row with nothing tried.
LEMMA InsertFacts ==
  ASSUME NEW t \in Table, NEW j \in Jobs, NEW d \in Nat
  PROVE  /\ Frame(t, Insert(t, j, d), j)
         /\ Insert(t, j, d)[j].status = "queued"
         /\ Insert(t, j, d)[j].retries = 0
         /\ Insert(t, j, d)[j].wa = 0
         /\ Insert(t, j, d)[j].delivery = None
  <1> DEFINE r == [status |-> "queued", retries |-> 0, wait |-> d, age |-> 0,
                   wa |-> 0, delivery |-> None]
  <1>1. r \in Row BY AgeZero DEF Row, RowStatus, Delivery
  <1>2. Frame(t, Insert(t, j, d), j) /\ Insert(t, j, d)[j] = r
    BY <1>1, FrameUpdate DEF Insert
  <1> QED BY <1>2

\* The claim only moves the status.
LEMMA ClaimFacts ==
  ASSUME NEW t \in Table, NEW j \in Jobs
  PROVE  /\ Frame(t, Claim(t, j), j)
         /\ Claim(t, j)[j].status = "inflight"
         /\ Claim(t, j)[j].retries = t[j].retries
         /\ Claim(t, j)[j].wa = t[j].wa
         /\ Claim(t, j)[j].delivery = t[j].delivery
  <1> DEFINE r == [t[j] EXCEPT !.status = "inflight", !.age = 0]
  <1>1. t[j] \in Row BY DEF Table
  <1>2. r \in Row BY <1>1, AgeZero DEF Row, RowStatus
  <1>3. Frame(t, Claim(t, j), j) /\ Claim(t, j)[j] = r
    BY <1>2, FrameUpdate DEF Claim
  <1>4. /\ r.status = "inflight"
        /\ r.retries = t[j].retries
        /\ r.wa = t[j].wa
        /\ r.delivery = t[j].delivery
    BY <1>1 DEF Row
  <1> HIDE DEF r
  <1> QED BY <1>3, <1>4

\* A requeue costs no retry.
LEMMA RequeueFacts ==
  ASSUME NEW t \in Table, NEW j \in Jobs
  PROVE  /\ Frame(t, Requeue(t, j), j)
         /\ Requeue(t, j)[j].status = "queued"
         /\ Requeue(t, j)[j].retries = t[j].retries
         /\ Requeue(t, j)[j].wa = t[j].wa
         /\ Requeue(t, j)[j].delivery = t[j].delivery
  <1> DEFINE r == [t[j] EXCEPT !.status = "queued", !.age = 0]
  <1>1. t[j] \in Row BY DEF Table
  <1>2. r \in Row BY <1>1, AgeZero DEF Row, RowStatus
  <1>3. Frame(t, Requeue(t, j), j) /\ Requeue(t, j)[j] = r
    BY <1>2, FrameUpdate DEF Requeue
  <1>4. /\ r.status = "queued"
        /\ r.retries = t[j].retries
        /\ r.wa = t[j].wa
        /\ r.delivery = t[j].delivery
    BY <1>1 DEF Row
  <1> HIDE DEF r
  <1> QED BY <1>3, <1>4

\* A sent row keeps its retry count.
LEMMA MarkSentFacts ==
  ASSUME NEW t \in Table, NEW j \in Jobs, NEW wa \in Nat
  PROVE  /\ Frame(t, MarkSent(t, j, wa), j)
         /\ MarkSent(t, j, wa)[j].status = "sent"
         /\ MarkSent(t, j, wa)[j].retries = t[j].retries
  <1> DEFINE w == IF wa = 0 THEN t[j].wa ELSE wa
             r == [t[j] EXCEPT !.status = "sent", !.wa = w, !.age = 0]
  <1>1. t[j] \in Row BY DEF Table
  <1>2. w \in Nat BY <1>1 DEF Row
  <1>3. MarkSent(t, j, wa) = [t EXCEPT ![j] = r] BY DEF MarkSent
  <1> HIDE DEF w
  <1>4. r \in Row /\ r.status = "sent" /\ r.retries = t[j].retries
    BY <1>1, <1>2, AgeZero DEF Row, RowStatus
  <1>5. Frame(t, MarkSent(t, j, wa), j) /\ MarkSent(t, j, wa)[j] = r
    BY <1>3, <1>4 DEF Table, Frame
  <1> HIDE DEF r
  <1> QED BY <1>4, <1>5

\* A failed execution costs one retry, and the last one fails the row.
LEMMA MarkFailedFacts ==
  ASSUME NEW t \in Table, NEW j \in Jobs, NEW max \in Nat
  PROVE  /\ Frame(t, MarkFailed(t, j, max), j)
         /\ MarkFailed(t, j, max)[j].status
              = IF t[j].retries + 1 >= max THEN "failed" ELSE "queued"
         /\ MarkFailed(t, j, max)[j].retries = t[j].retries + 1
         /\ MarkFailed(t, j, max)[j].wa = t[j].wa
         /\ MarkFailed(t, j, max)[j].delivery = t[j].delivery
  <1> DEFINE n == t[j].retries + 1
             s == IF n >= max THEN "failed" ELSE "queued"
             w == IF n >= max THEN 0 ELSE Backoff(t[j].retries)
             r == [t[j] EXCEPT !.retries = n, !.status = s, !.wait = w, !.age = 0]
  <1>1. t[j] \in Row BY DEF Table
  <1>2. t[j].retries \in Nat BY <1>1 DEF Row
  <1>3. n \in Nat /\ s \in RowStatus /\ w \in Nat
    BY <1>2, BackoffType DEF RowStatus
  <1>4. MarkFailed(t, j, max) = [t EXCEPT ![j] = r] BY DEF MarkFailed
  <1>5. s = IF t[j].retries + 1 >= max THEN "failed" ELSE "queued" OBVIOUS
  <1>6. n = t[j].retries + 1 OBVIOUS
  <1> HIDE DEF n, s, w
  <1>7. /\ r \in Row /\ r.status = s /\ r.retries = n
        /\ r.wa = t[j].wa /\ r.delivery = t[j].delivery
    BY <1>1, <1>3, AgeZero DEF Row
  <1>8. Frame(t, MarkFailed(t, j, max), j) /\ MarkFailed(t, j, max)[j] = r
    BY <1>4, <1>7 DEF Table, Frame
  <1> HIDE DEF r
  <1> QED BY <1>5, <1>6, <1>7, <1>8

\* Stale recovery moves inflight rows to queued and nothing else.
LEMMA RequeueStaleFacts ==
  ASSUME NEW t \in Table, NEW secs \in Nat
  PROVE  /\ RequeueStale(t, secs) \in Table
         /\ \A k \in Jobs : /\ \/ RequeueStale(t, secs)[k].status = t[k].status
                               \/ /\ t[k].status = "inflight"
                                  /\ RequeueStale(t, secs)[k].status = "queued"
                            /\ RequeueStale(t, secs)[k].retries = t[k].retries
                            /\ RequeueStale(t, secs)[k].wa = t[k].wa
                            /\ RequeueStale(t, secs)[k].delivery = t[k].delivery
  <1> DEFINE r(k) == [t[k] EXCEPT !.status = "queued", !.age = 0]
  <1>1. ASSUME NEW k \in Jobs
        PROVE  /\ t[k] \in Row /\ r(k) \in Row
               /\ r(k).status = "queued" /\ r(k).retries = t[k].retries
               /\ r(k).wa = t[k].wa /\ r(k).delivery = t[k].delivery
    <2>1. t[k] \in Row BY DEF Table
    <2>2. r(k) \in Row BY <2>1, AgeZero DEF Row, RowStatus
    <2> QED BY <2>1, <2>2 DEF Row
  <1>2. RequeueStale(t, secs)
          = [k \in Jobs |-> IF t[k].status = "inflight" /\ t[k].age > secs
                            THEN r(k) ELSE t[k]]
    BY DEF RequeueStale
  <1> HIDE DEF r
  <1>3. RequeueStale(t, secs) \in Table BY <1>1, <1>2 DEF Table
  <1> QED BY <1>1, <1>2, <1>3

\* A receipt moves the delivery state of the row that carries its message id.
LEMMA SetDeliveryFacts ==
  ASSUME NEW t \in Table, NEW j \in Jobs, NEW wa \in Nat, NEW st \in Receipts
  PROVE  /\ Frame(t, SetDelivery(t, j, wa, st), j)
         /\ SetDelivery(t, j, wa, st)[j].status = t[j].status
         /\ SetDelivery(t, j, wa, st)[j].retries = t[j].retries
         /\ SetDelivery(t, j, wa, st)[j].wa = t[j].wa
         /\ SetDelivery(t, j, wa, st)[j].delivery = t[j].delivery \/ t[j].wa = wa
  <1> DEFINE r == [t[j] EXCEPT !.delivery = st, !.age = 0]
  <1>1. t[j] \in Row BY DEF Table
  <1>0. st \in Delivery BY QueueAssumption DEF Delivery
  <1>2. r \in Row BY <1>1, AgeZero, <1>0 DEF Row
  <1>3. /\ r.status = t[j].status /\ r.retries = t[j].retries /\ r.wa = t[j].wa
    BY <1>1 DEF Row
  <1>4. CASE t[j].status # "pruned" /\ t[j].wa = wa
    <2>2. Frame(t, SetDelivery(t, j, wa, st), j) /\ SetDelivery(t, j, wa, st)[j] = r
      BY <1>4, <1>2, FrameUpdate DEF SetDelivery
    <2> HIDE DEF r
    <2> QED BY <2>2, <1>3, <1>4
  <1>5. CASE ~(t[j].status # "pruned" /\ t[j].wa = wa)
    <2>1. SetDelivery(t, j, wa, st) = t BY <1>5 DEF SetDelivery
    <2> QED BY <2>1 DEF Frame
  <1> QED BY <1>4, <1>5

\* Pruning deletes settled rows only.
LEMMA PruneOldFacts ==
  ASSUME NEW t \in Table
  PROVE  /\ PruneOld(t) \in Table
         /\ \A k \in Jobs : \/ PruneOld(t)[k] = t[k]
                            \/ /\ t[k].status \in {"sent", "failed"}
                               /\ PruneOld(t)[k].status = "pruned"
                               /\ PruneOld(t)[k].retries = 0
                               /\ PruneOld(t)[k].wa = 0
                               /\ PruneOld(t)[k].delivery = None
  BY QueueAssumption DEF Table, PruneOld, Row, RowStatus, BlankRow, AgeCap, Delivery, None

\* A second of time moves ages and waits only.
LEMMA TickFacts ==
  ASSUME NEW t \in Table
  PROVE  /\ Aged(t) \in Table
         /\ \A k \in Jobs : /\ Aged(t)[k].status = t[k].status
                            /\ Aged(t)[k].retries = t[k].retries
                            /\ Aged(t)[k].wa = t[k].wa
                            /\ Aged(t)[k].delivery = t[k].delivery
  <1> DEFINE r(k) == [t[k] EXCEPT !.age = IF @ < AgeCap THEN @ + 1 ELSE @,
                                  !.wait = IF @ > 0 THEN @ - 1 ELSE 0]
  <1>1. ASSUME NEW k \in Jobs
        PROVE  /\ t[k] \in Row /\ r(k) \in Row
               /\ r(k).status = t[k].status /\ r(k).retries = t[k].retries
               /\ r(k).wa = t[k].wa /\ r(k).delivery = t[k].delivery
    <2>1. t[k] \in Row BY DEF Table
    <2>2. AgeCap \in Nat BY QueueAssumption DEF AgeCap
    <2>3. (IF t[k].age < AgeCap THEN t[k].age + 1 ELSE t[k].age) \in 0 .. AgeCap
      BY <2>1, <2>2 DEF Row
    <2>4. (IF t[k].wait > 0 THEN t[k].wait - 1 ELSE 0) \in Nat
      BY <2>1 DEF Row
    <2>5. r(k) \in Row BY <2>1, <2>3, <2>4 DEF Row
    <2> QED BY <2>1, <2>5 DEF Row
  <1>2. Aged(t) = [k \in Jobs |-> IF t[k].status \in {"absent", "pruned"}
                                  THEN t[k] ELSE r(k)]
    BY DEF Aged
  <1> HIDE DEF r
  <1>3. Aged(t) \in Table BY <1>1, <1>2 DEF Table
  <1> QED BY <1>1, <1>2, <1>3

----------------------------------------------------------------------------
(* What a statement makes of the ledger of sends *)

Verdicts == {None, "waiting", "ok", "failed", "timedout"}
Bridges == {"dead", "between", "session", "draining", "stopped"}

\* What the invariant says of a job that nobody has in hand.
Quiet(k) ==
    /\ delivered[k] = lost[k] + acked[k]
    /\ rows[k].status \in {"absent", "queued", "inflight", "failed"} => acked[k] = 0
    /\ rows[k].status = "sent" => acked[k] = 1
    /\ acked[k] <= 1
    /\ rows[k].wa # 0 \/ rows[k].delivery # None => rows[k].status = "sent"
    /\ k \notin BadJid => /\ rows[k].retries <= attempts[k]
                          /\ rows[k].status = "failed" => rows[k].retries >= MaxRetries

StmtTypes ==
    /\ rows \in Table
    /\ pollKeys \subseteq Jobs \X Nat
    /\ delivered \in [Jobs -> Nat] /\ lost \in [Jobs -> Nat]
    /\ acked \in [Jobs -> Nat] /\ attempts \in [Jobs -> Nat]

\* A statement after which every job may be put down.
Settles ==
    /\ StmtTypes'
    /\ \A k \in Jobs : Quiet(k)' /\ delivered'[k] >= delivered[k]

\* Counting one more keeps a counter a counter.
LEMMA CountFacts ==
  ASSUME NEW f \in [Jobs -> Nat], NEW j \in Jobs
  PROVE  /\ Count(f, j) \in [Jobs -> Nat]
         /\ Count(f, j)[j] = f[j] + 1
         /\ \A k \in Jobs \ {j} : Count(f, j)[k] = f[k]
  BY DEF Count

\* The parts of the invariant a single job's step needs.
LEMMA InvFacts ==
  ASSUME IInv
  PROVE  /\ StmtTypes
         /\ worker.pc \in WorkerPc
         /\ worker.pc \notin {"idle", "claiming"} => worker.job \in Jobs
         /\ \A k \in Jobs : rows[k].status \in RowStatus /\ rows[k].retries \in Nat
                            /\ delivered[k] \in Nat /\ lost[k] \in Nat
                            /\ acked[k] \in Nat /\ attempts[k] \in Nat
  <1>1. StmtTypes BY DEF IInv, TypeOK, StmtTypes, Table
  <1>2. worker.pc \in WorkerPc /\ worker.job \in Jobs \cup {NoJob}
    BY DEF IInv, TypeOK
  <1>3. worker.pc \notin {"idle", "claiming"} => worker.job \in Jobs
    BY <1>2 DEF IInv, WorkerShape
  <1>4. ASSUME NEW k \in Jobs
        PROVE rows[k].status \in RowStatus /\ rows[k].retries \in Nat
    BY <1>1 DEF StmtTypes, Table, Row
  <1> QED BY <1>1, <1>2, <1>3, <1>4 DEF StmtTypes

\* Unless a message waits to be recorded, doing nothing settles every job.
LEMMA NoStmtSettles ==
  ASSUME IInv, NoStmt, worker.pc # "unmarked"
  PROVE  Settles
  <1>1. StmtTypes' BY InvFacts DEF NoStmt, ghosts, StmtTypes
  <1>2. ASSUME NEW k \in Jobs
        PROVE Quiet(k)' /\ delivered'[k] >= delivered[k]
    <2>1. JobInv(k) BY DEF IInv
    <2>2. /\ rows' = rows /\ delivered' = delivered /\ lost' = lost
          /\ acked' = acked /\ attempts' = attempts
      BY DEF NoStmt, ghosts
    <2>3. InHand(k) = 0 /\ Erring(k) \in Nat BY DEF InHand, Erring
    <2> QED BY <2>1, <2>2, <2>3, InvFacts DEF JobInv, Quiet
  <1> QED BY <1>1, <1>2 DEF Settles

\* A claim touches one queued row.
LEMMA ClaimSettles ==
  ASSUME IInv, NEW j \in Jobs, ClaimStmt(j), worker.pc = "claiming"
  PROVE  Settles /\ rows'[j].status = "inflight"
  <1>1. rows \in Table BY InvFacts DEF StmtTypes
  <1>2. /\ Frame(rows, rows', j)
        /\ rows'[j].status = "inflight" /\ rows'[j].retries = rows[j].retries
        /\ rows'[j].wa = rows[j].wa /\ rows'[j].delivery = rows[j].delivery
    BY <1>1, ClaimFacts DEF ClaimStmt
  <1>3. rows[j].status = "queued" BY DEF ClaimStmt, First, Claimable
  <1>4. /\ pollKeys' = pollKeys /\ delivered' = delivered /\ lost' = lost
        /\ acked' = acked /\ attempts' = attempts
    BY DEF ClaimStmt, ghosts
  <1>5. StmtTypes' BY <1>2, <1>4, InvFacts DEF StmtTypes, Frame
  <1>6. ASSUME NEW k \in Jobs
        PROVE Quiet(k)' /\ delivered'[k] >= delivered[k]
    <2>1. JobInv(k) BY DEF IInv
    <2>2. InHand(k) = 0 /\ Erring(k) = 0 BY DEF InHand, Erring
    <2>3. CASE k = j
      BY <1>2, <1>3, <1>4, <2>1, <2>2, <2>3, InvFacts DEF JobInv, Quiet
    <2>4. CASE k # j
      <3>1. rows'[k] = rows[k] BY <1>2, <2>4 DEF Frame
      <3> QED BY <3>1, <1>4, <2>1, <2>2, InvFacts DEF JobInv, Quiet
    <2> QED BY <2>3, <2>4
  <1> QED BY <1>2, <1>5, <1>6 DEF Settles

\* A job that is not in the worker's hands and that a statement does not touch
\* is quiet after it.
LEMMA OtherJobs ==
  ASSUME IInv, NEW k \in Jobs, worker.job # k, rows'[k] = rows[k],
         delivered'[k] = delivered[k], lost'[k] = lost[k],
         acked'[k] = acked[k], attempts'[k] = attempts[k]
  PROVE  Quiet(k)' /\ delivered'[k] >= delivered[k]
  <1>1. JobInv(k) BY DEF IInv
  <1>2. InHand(k) = 0 /\ Erring(k) = 0 BY DEF InHand, Erring
  <1> QED BY <1>1, <1>2, InvFacts DEF JobInv, Quiet

\* A jid that does not parse fails the row, or in the drain costs a retry.
LEMMA RejectSettles ==
  ASSUME IInv, NEW j \in Jobs, worker.job = j, RejectStmt(j),
         worker.pc = "claimed"
  PROVE  Settles
  <1>1. rows \in Table /\ delivered[j] \in Nat BY InvFacts DEF StmtTypes
  <1>m. PICK max \in Nat : rows' = MarkFailed(rows, j, max)
    BY QueueAssumption DEF RejectStmt
  <1>2. /\ Frame(rows, rows', j)
        /\ rows'[j].status \in {"failed", "queued"}
        /\ rows'[j].wa = rows[j].wa /\ rows'[j].delivery = rows[j].delivery
    BY <1>1, <1>m, MarkFailedFacts
  <1>3. /\ pollKeys' = pollKeys /\ delivered' = delivered /\ lost' = lost
        /\ acked' = acked /\ attempts' = attempts
    BY DEF RejectStmt, ghosts
  <1>4. StmtTypes' BY <1>2, <1>3, InvFacts DEF StmtTypes, Frame
  <1>5. ASSUME NEW k \in Jobs, k # j PROVE Quiet(k)' /\ delivered'[k] >= delivered[k]
    <2>1. rows'[k] = rows[k] BY <1>2, <1>5 DEF Frame
    <2> QED BY <2>1, <1>3, <1>5, OtherJobs
  <1>6. Quiet(j)' /\ delivered'[j] >= delivered[j]
    <2>1. JobInv(j) BY DEF IInv
    <2>2. InHand(j) = 0 /\ rows[j].status = "inflight"
      BY <2>1 DEF InHand, JobInv, Holding
    <2> QED BY <2>1, <2>2, <1>2, <1>3, InvFacts DEF JobInv, Quiet, RejectStmt
  <1> QED BY <1>4, <1>5, <1>6 DEF Settles

\* A requeue frees the row and costs nothing.
LEMMA RequeueSettles ==
  ASSUME IInv, NEW j \in Jobs, worker.job = j, RequeueStmt(j),
         worker.pc \in {"claimed", "erred"}
  PROVE  Settles
  <1>1. rows \in Table /\ delivered[j] \in Nat BY InvFacts DEF StmtTypes
  <1>2. /\ Frame(rows, rows', j)
        /\ rows'[j].status = "queued" /\ rows'[j].retries = rows[j].retries
        /\ rows'[j].wa = rows[j].wa /\ rows'[j].delivery = rows[j].delivery
    BY <1>1, RequeueFacts DEF RequeueStmt
  <1>3. /\ pollKeys' = pollKeys /\ delivered' = delivered /\ lost' = lost
        /\ acked' = acked /\ attempts' = attempts
    BY DEF RequeueStmt, ghosts
  <1>4. StmtTypes' BY <1>2, <1>3, InvFacts DEF StmtTypes, Frame
  <1>5. ASSUME NEW k \in Jobs, k # j PROVE Quiet(k)' /\ delivered'[k] >= delivered[k]
    <2>1. rows'[k] = rows[k] BY <1>2, <1>5 DEF Frame
    <2> QED BY <2>1, <1>3, <1>5, OtherJobs
  <1>6. Quiet(j)' /\ delivered'[j] >= delivered[j]
    <2>1. JobInv(j) BY DEF IInv
    <2>2. InHand(j) = 0 /\ Erring(j) \in Nat /\ rows[j].status = "inflight"
      BY <2>1 DEF InHand, Erring, JobInv, Holding
    <2> QED BY <2>1, <2>2, <1>2, <1>3, InvFacts DEF JobInv, Quiet
  <1> QED BY <1>4, <1>5, <1>6 DEF Settles

\* A failed execution was counted before its retry is.
LEMMA FailSettles ==
  ASSUME IInv, NEW j \in Jobs, worker.job = j, FailStmt(j),
         worker.pc = "erred"
  PROVE  Settles
  <1>1. rows \in Table /\ delivered[j] \in Nat BY InvFacts DEF StmtTypes
  <1>0. MaxRetries \in Nat BY QueueAssumption
  <1>2. /\ Frame(rows, rows', j)
        /\ rows'[j].status = IF rows[j].retries + 1 >= MaxRetries THEN "failed" ELSE "queued"
        /\ rows'[j].retries = rows[j].retries + 1
        /\ rows'[j].wa = rows[j].wa /\ rows'[j].delivery = rows[j].delivery
    BY <1>0, <1>1, MarkFailedFacts DEF FailStmt
  <1>3. /\ pollKeys' = pollKeys /\ delivered' = delivered /\ lost' = lost
        /\ acked' = acked /\ attempts' = attempts
    BY DEF FailStmt, ghosts
  <1>4. StmtTypes' BY <1>2, <1>3, InvFacts DEF StmtTypes, Frame
  <1>5. ASSUME NEW k \in Jobs, k # j PROVE Quiet(k)' /\ delivered'[k] >= delivered[k]
    <2>1. rows'[k] = rows[k] BY <1>2, <1>5 DEF Frame
    <2> QED BY <2>1, <1>3, <1>5, OtherJobs
  <1>6. Quiet(j)' /\ delivered'[j] >= delivered[j]
    <2>1. JobInv(j) BY DEF IInv
    <2>2. InHand(j) = 0 /\ Erring(j) = 1 /\ rows[j].status = "inflight"
      BY <2>1 DEF InHand, Erring, JobInv, Holding
    <2> QED BY <2>1, <2>2, <1>0, <1>2, <1>3, InvFacts DEF JobInv, Quiet
  <1> QED BY <1>4, <1>5, <1>6 DEF Settles

\* Recording a send moves it from the hand to the ledger.
LEMMA SentSettles ==
  ASSUME IInv, NEW j \in Jobs, worker.job = j, SentStmt(j),
         worker.pc = "unmarked"
  PROVE  Settles
  <1>1. rows \in Table /\ delivered[j] \in Nat BY InvFacts DEF StmtTypes
  <1>2. /\ Frame(rows, rows', j)
        /\ rows'[j].status = "sent" /\ rows'[j].retries = rows[j].retries
    <2>1. CASE j \in NoId BY <1>1, <2>1, MarkSentFacts DEF SentStmt
    <2>2. CASE j \notin NoId BY <1>1, <2>2, MarkSentFacts DEF SentStmt
    <2> QED BY <2>1, <2>2
  <1>3. /\ pollKeys' = pollKeys /\ delivered' = delivered /\ lost' = lost
        /\ attempts' = attempts
        /\ acked' \in [Jobs -> Nat] /\ acked'[j] = acked[j] + 1
        /\ \A k \in Jobs \ {j} : acked'[k] = acked[k]
    BY CountFacts, InvFacts DEF SentStmt, StmtTypes
  <1>4. StmtTypes' BY <1>2, <1>3, InvFacts DEF StmtTypes, Frame
  <1>5. ASSUME NEW k \in Jobs, k # j PROVE Quiet(k)' /\ delivered'[k] >= delivered[k]
    <2>1. rows'[k] = rows[k] BY <1>2, <1>5 DEF Frame
    <2> QED BY <2>1, <1>3, <1>5, OtherJobs
  <1>6. Quiet(j)' /\ delivered'[j] >= delivered[j]
    <2>1. JobInv(j) BY DEF IInv
    <2>2. /\ InHand(j) = 1 /\ Erring(j) = 0 /\ rows[j].status = "inflight"
      BY <2>1 DEF InHand, Erring, JobInv, Holding
    <2> QED BY <2>1, <2>2, <1>2, <1>3, InvFacts DEF JobInv, Quiet
  <1> QED BY <1>4, <1>5, <1>6 DEF Settles

\* A send the table does not learn of is written off.
LEMMA ForgetSettles ==
  ASSUME IInv, NEW j \in Jobs, worker.job = j, ForgetSend(j),
         worker.pc = "unmarked"
  PROVE  Settles
  <1>1. rows \in Table /\ delivered[j] \in Nat BY InvFacts DEF StmtTypes
  <1>2. Frame(rows, rows', j) /\ rows'[j] = rows[j]
    BY <1>1 DEF ForgetSend, Frame
  <1>3. /\ pollKeys' = pollKeys /\ delivered' = delivered
        /\ acked' = acked /\ attempts' = attempts
        /\ lost' \in [Jobs -> Nat] /\ lost'[j] = lost[j] + 1
        /\ \A k \in Jobs \ {j} : lost'[k] = lost[k]
    BY CountFacts, InvFacts DEF ForgetSend, StmtTypes
  <1>4. StmtTypes' BY <1>2, <1>3, InvFacts DEF StmtTypes, Frame
  <1>5. ASSUME NEW k \in Jobs, k # j PROVE Quiet(k)' /\ delivered'[k] >= delivered[k]
    <2>1. rows'[k] = rows[k] BY <1>2, <1>5 DEF Frame
    <2> QED BY <2>1, <1>3, <1>5, OtherJobs
  <1>6. Quiet(j)' /\ delivered'[j] >= delivered[j]
    <2>1. JobInv(j) BY DEF IInv
    <2>2. /\ InHand(j) = 1 /\ Erring(j) = 0
      BY <2>1 DEF InHand, Erring
    <2> QED BY <2>1, <2>2, <1>2, <1>3, InvFacts DEF JobInv, Quiet
  <1> QED BY <1>4, <1>5, <1>6 DEF Settles

\* A send nobody waits for is delivered and written off at once.
LEMMA BlindSettles ==
  ASSUME IInv, NEW j \in Jobs, worker.job = j, BlindSend(j),
         worker.pc = "sending"
  PROVE  Settles
  <1>1. rows \in Table /\ delivered[j] \in Nat BY InvFacts DEF StmtTypes
  <1>2. Frame(rows, rows', j) /\ rows'[j] = rows[j]
    BY <1>1 DEF BlindSend, Frame
  <1>3. /\ pollKeys' = pollKeys /\ acked' = acked /\ attempts' = attempts
        /\ lost' \in [Jobs -> Nat] /\ lost'[j] = lost[j] + 1
        /\ delivered' \in [Jobs -> Nat] /\ delivered'[j] = delivered[j] + 1
        /\ \A k \in Jobs \ {j} : lost'[k] = lost[k] /\ delivered'[k] = delivered[k]
    BY CountFacts, InvFacts DEF BlindSend, StmtTypes
  <1>4. StmtTypes' BY <1>2, <1>3, InvFacts DEF StmtTypes, Frame
  <1>5. ASSUME NEW k \in Jobs, k # j PROVE Quiet(k)' /\ delivered'[k] >= delivered[k]
    <2>1. rows'[k] = rows[k] BY <1>2, <1>5 DEF Frame
    <2> QED BY <2>1, <1>3, <1>5, OtherJobs
  <1>6. Quiet(j)' /\ delivered'[j] >= delivered[j]
    <2>1. JobInv(j) BY DEF IInv
    <2>2. /\ InHand(j) = 0 /\ Erring(j) = 0
      BY <2>1 DEF InHand, Erring
    <2> QED BY <2>1, <2>2, <1>2, <1>3, InvFacts DEF JobInv, Quiet
  <1> QED BY <1>4, <1>5, <1>6 DEF Settles

\* Storing a poll key touches neither the table nor the ledger.
LEMMA KeySettles ==
  ASSUME IInv, NEW j \in Jobs, worker.job = j, KeyStmt(j),
         worker.pc = "announce"
  PROVE  Settles
  <1>1. rows \in Table /\ delivered[j] \in Nat BY InvFacts DEF StmtTypes
  <1>2. Frame(rows, rows', j) /\ rows'[j] = rows[j]
    BY <1>1 DEF KeyStmt, Frame
  <1>3. /\ delivered' = delivered /\ lost' = lost
        /\ acked' = acked /\ attempts' = attempts
        /\ pollKeys' \subseteq Jobs \X Nat
    BY <1>1, InvFacts DEF KeyStmt, ghosts, StmtTypes
  <1>4. StmtTypes' BY <1>2, <1>3, InvFacts DEF StmtTypes, Frame
  <1>5. ASSUME NEW k \in Jobs, k # j PROVE Quiet(k)' /\ delivered'[k] >= delivered[k]
    <2>1. rows'[k] = rows[k] BY <1>2, <1>5 DEF Frame
    <2> QED BY <2>1, <1>3, <1>5, OtherJobs
  <1>6. Quiet(j)' /\ delivered'[j] >= delivered[j]
    <2>1. JobInv(j) BY DEF IInv
    <2>2. /\ InHand(j) = 0 /\ Erring(j) = 0
      BY <2>1 DEF InHand, Erring
    <2> QED BY <2>1, <2>2, <1>2, <1>3, InvFacts DEF JobInv, Quiet
  <1> QED BY <1>4, <1>5, <1>6 DEF Settles

\* Wherever the worker's future is dropped, the job it held may be put down.
LEMMA AbandonSettles ==
  ASSUME IInv, Abandon
  PROVE  Settles
  <1> DEFINE j == worker.job
  <1>1. worker.pc \notin {"idle", "claiming"} => j \in Jobs BY InvFacts
  <1>2. CASE worker.pc # "unmarked" /\ NoStmt BY <1>2, NoStmtSettles
  <1>3. CASE worker.pc = "claiming" /\ \E k \in Jobs : ClaimStmt(k)
    BY <1>3, ClaimSettles
  <1>4. CASE worker.pc = "claimed" /\ RejectStmt(j) BY <1>1, <1>4, RejectSettles
  <1>5. CASE worker.pc = "claimed" /\ RequeueStmt(j) BY <1>1, <1>5, RequeueSettles
  <1>6. CASE worker.pc = "sending" /\ BlindSend(j) BY <1>1, <1>6, BlindSettles
  <1>7. CASE worker.pc = "unmarked" /\ (SentStmt(j) \/ ForgetSend(j))
    BY <1>1, <1>7, SentSettles, ForgetSettles
  <1>8. CASE worker.pc = "erred" /\ (RequeueStmt(j) \/ FailStmt(j))
    BY <1>1, <1>8, RequeueSettles, FailSettles
  <1>9. CASE worker.pc = "announce" /\ KeyStmt(j) BY <1>1, <1>9, KeySettles
  <1> QED BY <1>2, <1>3, <1>4, <1>5, <1>6, <1>7, <1>8, <1>9 DEF Abandon

----------------------------------------------------------------------------
(* The steps *)

\* After a statement that settles every job the worker may take its next turn.
LEMMA PutDown ==
  ASSUME IInv, Settles,
         worker' \in {IdleWorker, DrainHome},
         bridge' \in Bridges,
         worker' # IdleWorker => bridge' \in {"session", "draining"},
         cancel' \in BOOLEAN, client' \in BOOLEAN,
         waiter' \in [Jobs -> Verdicts],
         \A k \in Jobs : waiter'[k] = "ok" => delivered'[k] > 0,
         faults' \in 0 .. MaxFaults
  PROVE  IInv'
  <1>1. /\ worker'.pc \in {"idle", "claiming"} /\ worker'.job = NoJob
        /\ worker' \in [pc: WorkerPc, job: Jobs \cup {NoJob}]
    BY DEF IdleWorker, DrainHome, WorkerPc
  <1>2. WorkerShape'
    BY <1>1 DEF WorkerShape, IdleWorker, DrainHome
  <1>3. TypeOK'
    BY <1>1 DEF TypeOK, Settles, StmtTypes, Table, Bridges, Verdicts
  <1>4. ASSUME NEW k \in Jobs PROVE JobInv(k)'
    <2>1. Quiet(k)' BY DEF Settles
    <2>2. InHand(k)' = 0 /\ Erring(k)' = 0 BY <1>1 DEF InHand, Erring
    <2>3. delivered'[k] \in Nat /\ lost'[k] \in Nat /\ acked'[k] \in Nat
          /\ attempts'[k] \in Nat /\ rows'[k].retries \in Nat
      BY DEF Settles, StmtTypes, Table, Row
    <2> QED BY <1>1, <2>1, <2>2, <2>3 DEF Quiet, JobInv, Holding
  <1> QED BY <1>2, <1>3, <1>4 DEF IInv

\* One more fault stays within the bound.
LEMMA FaultType == ASSUME IInv, Fault PROVE faults' \in 0 .. MaxFaults
  BY QueueAssumption DEF IInv, TypeOK, Fault

\* The event of a settled job reaches its own waiter at most.
LEMMA AnnounceFacts ==
  ASSUME IInv, NEW j \in Jobs, NEW v \in {"ok", "failed"}, Announce(j, v)
  PROVE  /\ waiter' \in [Jobs -> Verdicts]
         /\ \A k \in Jobs : waiter'[k] = "ok" => waiter[k] = "ok" \/ (k = j /\ v = "ok")
  <1>1. waiter \in [Jobs -> Verdicts] BY DEF IInv, TypeOK, Verdicts
  <1> QED BY <1>1 DEF Announce, Verdicts

\* A caller who was told ok stays right.
LEMMA OldVerdicts ==
  ASSUME IInv, Settles, NEW k \in Jobs, waiter[k] = "ok"
  PROVE  delivered'[k] > 0
  <1>1. JobInv(k) BY DEF IInv
  <1>2. delivered[k] \in Nat /\ delivered'[k] \in Nat /\ delivered'[k] >= delivered[k]
    BY InvFacts DEF Settles, StmtTypes
  <1> QED BY <1>1, <1>2 DEF JobInv

\* The worker or the drain finishes with its job, and tells nobody.
LEMMA QuietEnd ==
  ASSUME IInv, Settles, UNCHANGED waiter,
         worker' \in {IdleWorker, DrainHome},
         bridge' \in Bridges,
         worker' # IdleWorker => bridge' \in {"session", "draining"},
         cancel' \in BOOLEAN, client' \in BOOLEAN,
         faults' = faults \/ Fault
  PROVE  IInv'
  <1>1. waiter' \in [Jobs -> Verdicts] BY DEF IInv, TypeOK, Verdicts
  <1>2. \A k \in Jobs : waiter'[k] = "ok" => delivered'[k] > 0 BY OldVerdicts
  <1>3. faults' \in 0 .. MaxFaults BY FaultType DEF IInv, TypeOK
  <1> QED BY <1>1, <1>2, <1>3, PutDown

\* The worker picks up job k, or goes on with it: what is left to show.
LEMMA Moves ==
  ASSUME IInv, NEW j \in Jobs, NEW pc \in WorkerPc \ {"idle", "claiming"},
         worker' = [pc |-> pc, job |-> j],
         StmtTypes', bridge \in {"session", "draining"},
         UNCHANGED <<bridge, cancel, client, waiter>>,
         faults' = faults \/ Fault,
         JobInv(j)',
         \A k \in Jobs \ {j} : Quiet(k)' /\ delivered'[k] >= delivered[k]
  PROVE  IInv'
  <1>1. worker'.pc = pc /\ worker'.job = j OBVIOUS
  <1>2. NoJob \notin Jobs BY DEF Jobs, NoJob
  <1>3. WorkerShape' BY <1>1, <1>2 DEF WorkerShape
  <1>4. faults' \in 0 .. MaxFaults BY FaultType DEF IInv, TypeOK
  <1>5. TypeOK'
    BY <1>4 DEF IInv, TypeOK, StmtTypes, Table
  <1>6. ASSUME NEW k \in Jobs, k # j PROVE JobInv(k)'
    <2>1. Quiet(k)' /\ delivered'[k] >= delivered[k] BY <1>6
    <2>2. InHand(k)' = 0 /\ Erring(k)' = 0 BY <1>1, <1>6 DEF InHand, Erring
    <2>3. delivered'[k] \in Nat /\ lost'[k] \in Nat /\ acked'[k] \in Nat
          /\ attempts'[k] \in Nat /\ rows'[k].retries \in Nat
      BY DEF StmtTypes, Table, Row
    <2>4. waiter'[k] = "ok" => delivered'[k] > 0
      <3>1. JobInv(k) /\ delivered[k] \in Nat BY InvFacts DEF IInv
      <3> QED BY <3>1, <2>1, <2>3 DEF JobInv
    <2> QED BY <1>1, <1>6, <2>1, <2>2, <2>3, <2>4 DEF Quiet, JobInv, Holding
  <1> QED BY <1>3, <1>5, <1>6 DEF IInv

\* What the bridge variables may be while nothing of theirs changes.
LEMMA BridgeTypes ==
  ASSUME IInv
  PROVE  bridge \in Bridges /\ cancel \in BOOLEAN /\ client \in BOOLEAN
  BY DEF IInv, TypeOK, Bridges

\* execute_job returns: the send is in hand, or it is an error.
LEMMA ExecutePreserves ==
  ASSUME IInv, worker.pc = "sending", bridge \in {"session", "draining"},
         SendOk(worker.job) \/ SendErr(worker.job),
         UNCHANGED <<bridge, cancel, client, waiter, faults>>
  PROVE  IInv'
  <1>p. PICK j \in Jobs : j = worker.job BY InvFacts
  <1>j. SendOk(j) \/ SendErr(j) BY <1>p
  <1>h. JobInv(j) BY DEF IInv
  <1>w. worker \in [pc: WorkerPc, job: Jobs \cup {NoJob}] BY DEF IInv, TypeOK
  <1>0. InHand(j) = 0 /\ Erring(j) = 0 BY DEF InHand, Erring
  <1>1. CASE SendOk(j)
    <2>1. /\ rows' = rows /\ pollKeys' = pollKeys /\ lost' = lost /\ acked' = acked
          /\ attempts' = attempts
          /\ delivered' \in [Jobs -> Nat] /\ delivered'[j] = delivered[j] + 1
          /\ \A k \in Jobs \ {j} : delivered'[k] = delivered[k]
          /\ worker' = [pc |-> "unmarked", job |-> j]
      BY <1>1, <1>p, <1>w, CountFacts, InvFacts DEF SendOk, StmtTypes
    <2>2. StmtTypes' BY <2>1, InvFacts DEF StmtTypes
    <2>3. \A k \in Jobs \ {j} : Quiet(k)' /\ delivered'[k] >= delivered[k]
      BY <1>p, <2>1, OtherJobs
    <2>4. JobInv(j)'
      <3>1. InHand(j)' = 1 /\ Erring(j)' = 0 BY <2>1 DEF InHand, Erring
      <3> QED BY <1>0, <1>p, <1>h, <2>1, <3>1, InvFacts DEF JobInv, Holding
    <2> QED BY <2>1, <2>2, <2>3, <2>4, Moves DEF WorkerPc
  <1>2. CASE SendErr(j)
    <2>1. /\ rows' = rows /\ pollKeys' = pollKeys /\ acked' = acked
          /\ attempts' \in [Jobs -> Nat] /\ attempts'[j] = attempts[j] + 1
          /\ \A k \in Jobs \ {j} : attempts'[k] = attempts[k]
      BY <1>2, CountFacts, InvFacts DEF SendErr, StmtTypes
    <2>w. worker' = [pc |-> "erred", job |-> j] BY <1>2, <1>p, <1>w DEF SendErr
    <2>2. /\ delivered' \in [Jobs -> Nat] /\ lost' \in [Jobs -> Nat]
          /\ \A k \in Jobs \ {j} : delivered'[k] = delivered[k] /\ lost'[k] = lost[k]
          /\ \/ delivered'[j] = delivered[j] /\ lost'[j] = lost[j]
             \/ delivered'[j] = delivered[j] + 1 /\ lost'[j] = lost[j] + 1
      <3>1. CASE UNCHANGED <<delivered, lost>> BY <3>1, InvFacts DEF StmtTypes
      <3>2. CASE delivered' = Count(delivered, j) /\ lost' = Count(lost, j)
        BY <3>2, CountFacts, InvFacts DEF StmtTypes
      <3> QED BY <1>2, <3>1, <3>2 DEF SendErr
    <2>3. StmtTypes' BY <2>1, <2>2, InvFacts DEF StmtTypes
    <2>4. \A k \in Jobs \ {j} : Quiet(k)' /\ delivered'[k] >= delivered[k]
      BY <1>p, <2>1, <2>2, OtherJobs
    <2>5. JobInv(j)'
      <3>1. InHand(j)' = 0 /\ Erring(j)' = 1 BY <2>w DEF InHand, Erring
      <3> QED BY <1>0, <1>p, <1>h, <2>1, <2>2, <2>w, <3>1, InvFacts DEF JobInv, Holding
    <2> QED BY <2>w, <2>3, <2>4, <2>5, Moves DEF WorkerPc
  <1> QED BY <1>j, <1>1, <1>2

\* Every step of handle_outbound preserves the invariant.
LEMMA WorkerPreserves == ASSUME IInv, WorkerStep PROVE IInv'
  <1>p. PICK j \in Jobs \cup {NoJob} : j = worker.job BY DEF IInv, TypeOK
  <1> USE DEF WorkerVars, Serving
  <1>j. worker.pc \notin {"idle", "claiming"} => j \in Jobs BY <1>p, InvFacts
  <1>h. \A k \in Jobs : JobInv(k) BY DEF IInv
  <1>1. CASE WorkerCheck
    <2>1. Settles BY <1>1, NoStmtSettles DEF WorkerCheck
    <2> QED BY <1>1, <2>1, QuietEnd, BridgeTypes DEF WorkerCheck, DrainHome, Bridges
  <1>2. CASE WorkerClaim
    <2>1. ASSUME NEW k \in Jobs, ClaimStmt(k), worker' = [pc |-> "claimed", job |-> k],
                 UNCHANGED faults
          PROVE  IInv'
      <3>1. Settles /\ rows'[k].status = "inflight" BY <1>2, <2>1, ClaimSettles DEF WorkerClaim
      <3>2. JobInv(k)'
        <4>1. Quiet(k)' /\ waiter' = waiter BY <1>2, <3>1 DEF Settles, WorkerClaim
        <4>2. InHand(k)' = 0 /\ Erring(k)' = 0 BY <2>1 DEF InHand, Erring
        <4>3. /\ delivered'[k] \in Nat /\ lost'[k] \in Nat /\ acked'[k] \in Nat
              /\ attempts'[k] \in Nat /\ rows'[k].retries \in Nat
          BY <3>1 DEF Settles, StmtTypes, Table, Row
        <4>4. waiter'[k] = "ok" => delivered'[k] > 0 BY <4>1, <3>1, OldVerdicts
        <4> QED BY <2>1, <3>1, <4>1, <4>2, <4>3, <4>4 DEF Quiet, JobInv, Holding
      <3> QED BY <1>2, <2>1, <3>1, <3>2, Moves DEF WorkerClaim, Settles, WorkerPc
    <2>2. ASSUME NoStmt, worker' = IdleWorker, faults' = faults \/ Fault PROVE IInv'
      <3>1. Settles BY <1>2, <2>2, NoStmtSettles DEF WorkerClaim
      <3> QED BY <1>2, <2>2, <3>1, QuietEnd, BridgeTypes DEF WorkerClaim
    <2> QED BY <1>2, <2>1, <2>2 DEF WorkerClaim
  <1>3. CASE WorkerReject
    <2>1. Settles BY <1>3, <1>p, <1>j, RejectSettles, NoStmtSettles DEF WorkerReject
    <2>2. waiter' \in [Jobs -> Verdicts] /\ \A k \in Jobs : waiter'[k] = "ok" => waiter[k] = "ok"
      BY <1>3, <1>p, <1>j, AnnounceFacts DEF WorkerReject
    <2>3. \A k \in Jobs : waiter'[k] = "ok" => delivered'[k] > 0 BY <2>1, <2>2, OldVerdicts
    <2>4. faults' \in 0 .. MaxFaults BY <1>3, FaultType DEF WorkerReject, IInv, TypeOK
    <2> QED BY <1>3, <2>1, <2>2, <2>3, <2>4, PutDown, BridgeTypes DEF WorkerReject
  <1>4. CASE WorkerPaced
    <2>1. ASSUME client, worker' = [worker EXCEPT !.pc = "sending"], NoStmt, UNCHANGED faults
          PROVE  IInv'
      <3>1. Settles BY <1>4, <2>1, NoStmtSettles DEF WorkerPaced
      <3>2. worker' = [pc |-> "sending", job |-> j]
        BY <1>p, <2>1 DEF IInv, TypeOK
      <3>3. j \in Jobs /\ JobInv(j) BY <1>4, <1>p, <1>j, <1>h DEF WorkerPaced
      <3>4. JobInv(j)'
        <4>1. InHand(j) = 0 /\ Erring(j) = 0 /\ InHand(j)' = 0 /\ Erring(j)' = 0
          BY <1>p, <1>4, <3>2 DEF InHand, Erring, WorkerPaced
        <4> QED BY <1>p, <1>4, <2>1, <3>2, <3>3, <4>1
             DEF JobInv, Holding, WorkerPaced, NoStmt, ghosts
      <3> QED BY <1>4, <2>1, <3>1, <3>2, <3>3, <3>4, Moves DEF WorkerPaced, Settles, WorkerPc
    <2>2. ASSUME worker' = IdleWorker, RequeueStmt(j) \/ NoStmt, faults' = faults \/ Fault
          PROVE  IInv'
      <3>1. Settles BY <1>4, <2>2, <1>p, <1>j, RequeueSettles, NoStmtSettles DEF WorkerPaced
      <3> QED BY <1>4, <2>2, <3>1, QuietEnd, BridgeTypes DEF WorkerPaced
    <2> QED BY <1>p, <1>4, <2>1, <2>2 DEF WorkerPaced
  <1>5. CASE WorkerExecute
    BY <1>5, ExecutePreserves DEF WorkerExecute
  <1>6. CASE WorkerMarkSent
    <2>1. Settles BY <1>6, <1>p, <1>j, SentSettles, ForgetSettles DEF WorkerMarkSent
    <2>2. worker' = [pc |-> "announce", job |-> j]
      BY <1>p, <1>6 DEF IInv, TypeOK, WorkerMarkSent
    <2>3. j \in Jobs /\ JobInv(j) BY <1>6, <1>p, <1>j, <1>h DEF WorkerMarkSent
    <2>4. JobInv(j)'
      <3>1. InHand(j)' = 0 /\ Erring(j)' = 0 BY <2>2 DEF InHand, Erring
      <3>2. /\ delivered'[j] \in Nat /\ lost'[j] \in Nat /\ acked'[j] \in Nat
            /\ attempts'[j] \in Nat /\ rows'[j].retries \in Nat
        BY <2>1, <2>3 DEF Settles, StmtTypes, Table, Row
      <3>3. delivered'[j] > 0 /\ Quiet(j)'
        <4>1. delivered[j] > 0 BY <1>p, <1>6, <2>3 DEF JobInv, WorkerMarkSent
        <4>2. Quiet(j)' /\ delivered'[j] >= delivered[j] BY <2>1, <2>3 DEF Settles
        <4> QED BY <4>1, <4>2, <2>3, <3>2, InvFacts
      <3> QED BY <2>2, <3>1, <3>2, <3>3 DEF Quiet, JobInv, Holding
    <2> QED BY <1>6, <2>1, <2>2, <2>3, <2>4, Moves DEF WorkerMarkSent, Settles, WorkerPc
  <1>7. CASE WorkerAnnounce
    <2>1. Settles BY <1>7, <1>p, <1>j, KeySettles, NoStmtSettles DEF WorkerAnnounce
    <2>2. /\ waiter' \in [Jobs -> Verdicts]
          /\ \A k \in Jobs : waiter'[k] = "ok" => waiter[k] = "ok" \/ k = j
      BY <1>7, <1>p, <1>j, AnnounceFacts DEF WorkerAnnounce
    <2>3. j \in Jobs /\ delivered'[j] > 0
      <3>1. j \in Jobs /\ delivered[j] > 0 BY <1>7, <1>p, <1>j, <1>h DEF JobInv, WorkerAnnounce
      <3> QED BY <2>1, <3>1, InvFacts DEF Settles, StmtTypes
    <2>4. \A k \in Jobs : waiter'[k] = "ok" => delivered'[k] > 0
      BY <2>1, <2>2, <2>3, OldVerdicts
    <2>5. faults' \in 0 .. MaxFaults BY <1>7, FaultType DEF WorkerAnnounce, IInv, TypeOK
    <2> QED BY <1>7, <2>1, <2>2, <2>4, <2>5, PutDown, BridgeTypes DEF WorkerAnnounce
  <1>8. CASE WorkerMarkFailed
    <2>1. Settles BY <1>8, <1>p, <1>j, FailSettles, NoStmtSettles DEF WorkerMarkFailed
    <2>2. waiter' \in [Jobs -> Verdicts] /\ \A k \in Jobs : waiter'[k] = "ok" => waiter[k] = "ok"
      <3>1. CASE Announce(j, "failed") BY <1>8, <3>1, <1>p, <1>j, AnnounceFacts DEF WorkerMarkFailed
      <3>2. CASE UNCHANGED waiter BY <3>2 DEF IInv, TypeOK, Verdicts
      <3> QED BY <1>p, <1>8, <3>1, <3>2 DEF WorkerMarkFailed
    <2>3. \A k \in Jobs : waiter'[k] = "ok" => delivered'[k] > 0 BY <2>1, <2>2, OldVerdicts
    <2>4. faults' \in 0 .. MaxFaults BY <1>8, FaultType DEF WorkerMarkFailed, IInv, TypeOK
    <2> QED BY <1>8, <2>1, <2>2, <2>3, <2>4, PutDown, BridgeTypes DEF WorkerMarkFailed
  <1> QED BY <1>1, <1>2, <1>3, <1>4, <1>5, <1>6, <1>7, <1>8 DEF WorkerStep

\* Every step of the shutdown drain preserves the invariant.
LEMMA DrainPreserves == ASSUME IInv, DrainStep PROVE IInv'
  <1>p. PICK j \in Jobs \cup {NoJob} : j = worker.job BY DEF IInv, TypeOK
  <1> USE DEF WorkerVars, Draining
  <1>j. worker.pc \notin {"idle", "claiming"} => j \in Jobs BY <1>p, InvFacts
  <1>h. \A k \in Jobs : JobInv(k) BY DEF IInv
  <1>1. CASE DrainClaim
    <2>1. ASSUME NEW k \in Jobs, ClaimStmt(k), worker' = [pc |-> "claimed", job |-> k],
                 UNCHANGED <<bridge, faults>>
          PROVE  IInv'
      <3>1. Settles /\ rows'[k].status = "inflight" BY <1>1, <2>1, ClaimSettles DEF DrainClaim
      <3>2. JobInv(k)'
        <4>1. Quiet(k)' /\ waiter' = waiter BY <1>1, <3>1 DEF Settles, DrainClaim
        <4>2. InHand(k)' = 0 /\ Erring(k)' = 0 BY <2>1 DEF InHand, Erring
        <4>3. /\ delivered'[k] \in Nat /\ lost'[k] \in Nat /\ acked'[k] \in Nat
              /\ attempts'[k] \in Nat /\ rows'[k].retries \in Nat
          BY <3>1 DEF Settles, StmtTypes, Table, Row
        <4>4. waiter'[k] = "ok" => delivered'[k] > 0 BY <4>1, <3>1, OldVerdicts
        <4> QED BY <2>1, <3>1, <4>1, <4>2, <4>3, <4>4 DEF Quiet, JobInv, Holding
      <3> QED BY <1>1, <2>1, <3>1, <3>2, Moves DEF DrainClaim, Settles, WorkerPc
    <2>2. ASSUME NoStmt, FinishDrain, faults' = faults \/ Fault PROVE IInv'
      <3>1. Settles BY <1>1, <2>2, NoStmtSettles DEF DrainClaim
      <3> QED BY <1>1, <2>2, <3>1, QuietEnd, BridgeTypes DEF DrainClaim, FinishDrain, Bridges
    <2> QED BY <1>1, <2>1, <2>2 DEF DrainClaim
  <1>2. CASE DrainReject
    <2>1. Settles BY <1>2, <1>p, <1>j, RejectSettles, NoStmtSettles DEF DrainReject
    <2> QED BY <1>2, <2>1, QuietEnd, BridgeTypes DEF DrainReject
  <1>3. CASE DrainPaced
    <2>1. Settles BY <1>3, NoStmtSettles DEF DrainPaced
    <2>2. worker' = [pc |-> "sending", job |-> j]
      BY <1>p, <1>3 DEF IInv, TypeOK, DrainPaced
    <2>3. j \in Jobs /\ JobInv(j) BY <1>3, <1>p, <1>j, <1>h DEF DrainPaced
    <2>4. JobInv(j)'
      <3>1. InHand(j) = 0 /\ Erring(j) = 0 /\ InHand(j)' = 0 /\ Erring(j)' = 0
        BY <1>p, <1>3, <2>2 DEF InHand, Erring, DrainPaced
      <3> QED BY <1>p, <1>3, <2>2, <2>3, <3>1 DEF JobInv, Holding, DrainPaced, NoStmt, ghosts
    <2> QED BY <1>3, <2>1, <2>2, <2>3, <2>4, Moves DEF DrainPaced, Settles, WorkerPc
  <1>4. CASE DrainExecute
    BY <1>4, ExecutePreserves DEF DrainExecute
  <1>5. CASE DrainMarkSent
    <2>1. Settles BY <1>5, <1>p, <1>j, SentSettles, ForgetSettles DEF DrainMarkSent
    <2> QED BY <1>5, <2>1, QuietEnd, BridgeTypes DEF DrainMarkSent
  <1>6. CASE DrainRequeue
    <2>1. Settles BY <1>6, <1>p, <1>j, RequeueSettles, NoStmtSettles DEF DrainRequeue
    <2> QED BY <1>6, <2>1, QuietEnd, BridgeTypes DEF DrainRequeue, FinishDrain, Bridges
  <1>7. CASE DrainTimeout
    <2>1. Settles BY <1>7, AbandonSettles DEF DrainTimeout
    <2> QED BY <1>7, <2>1, QuietEnd, BridgeTypes DEF DrainTimeout, FinishDrain, Bridges
  <1> QED BY <1>1, <1>2, <1>3, <1>4, <1>5, <1>6, <1>7 DEF DrainStep

\* While the worker is idle, recovering stale rows settles every job.
LEMMA RecoverSettles ==
  ASSUME IInv, worker.pc = "idle", NEW secs \in Nat,
         rows' = RequeueStale(rows, secs) \/ UNCHANGED rows,
         UNCHANGED <<pollKeys, ghosts>>
  PROVE  Settles
  <1>1. CASE UNCHANGED rows
    <2>1. NoStmt BY <1>1 DEF NoStmt
    <2> QED BY <2>1, NoStmtSettles
  <1>2. CASE rows' = RequeueStale(rows, secs)
    <2>1. rows \in Table BY InvFacts DEF StmtTypes
    <2>2. /\ rows' \in Table
          /\ \A k \in Jobs : /\ \/ rows'[k].status = rows[k].status
                                \/ rows[k].status = "inflight" /\ rows'[k].status = "queued"
                             /\ rows'[k].retries = rows[k].retries
                             /\ rows'[k].wa = rows[k].wa
                             /\ rows'[k].delivery = rows[k].delivery
      BY <1>2, <2>1, RequeueStaleFacts
    <2>3. /\ pollKeys' = pollKeys /\ delivered' = delivered /\ lost' = lost
          /\ acked' = acked /\ attempts' = attempts
      BY DEF ghosts
    <2>4. StmtTypes' BY <2>2, <2>3, InvFacts DEF StmtTypes
    <2>5. ASSUME NEW k \in Jobs PROVE Quiet(k)' /\ delivered'[k] >= delivered[k]
      <3>1. JobInv(k) BY DEF IInv
      <3>2. InHand(k) = 0 /\ Erring(k) = 0 BY DEF InHand, Erring
      <3> QED BY <2>2, <2>3, <3>1, <3>2, InvFacts DEF JobInv, Quiet
    <2> QED BY <2>4, <2>5 DEF Settles
  <1> QED BY <1>1, <1>2

\* Outside a session nothing is in the worker's hands.
LEMMA IdleOutside ==
  ASSUME IInv, bridge \in {"dead", "between", "stopped"}
  PROVE  worker.pc = "idle" /\ worker = IdleWorker
  <1>1. worker.pc = "idle" BY InvFacts DEF IInv, WorkerShape
  <1>2. worker.job = NoJob BY <1>1 DEF IInv, WorkerShape
  <1> QED BY <1>1, <1>2 DEF IInv, TypeOK, IdleWorker

\* A step that leaves the worker, the table and the ledger alone.
LEMMA BridgeMoves ==
  ASSUME IInv, NoStmt, UNCHANGED <<worker, waiter, faults>>,
         bridge' \in Bridges, cancel' \in BOOLEAN, client' \in BOOLEAN,
         bridge' = bridge \/ worker.pc = "idle"
  PROVE  IInv'
  <1>1. /\ rows' = rows /\ pollKeys' = pollKeys /\ delivered' = delivered
        /\ lost' = lost /\ acked' = acked /\ attempts' = attempts
    BY DEF NoStmt, ghosts
  <1>2. TypeOK' BY <1>1 DEF IInv, TypeOK, Bridges
  <1>3. WorkerShape' BY DEF IInv, WorkerShape
  <1>4. ASSUME NEW k \in Jobs PROVE JobInv(k)'
    <2>1. JobInv(k) BY DEF IInv
    <2>2. InHand(k)' = InHand(k) /\ Erring(k)' = Erring(k) /\ Holding' = Holding
      BY DEF InHand, Erring, Holding
    <2> QED BY <1>1, <2>1, <2>2 DEF JobInv
  <1> QED BY <1>2, <1>3, <1>4 DEF IInv

\* Every step of run_bridge, and every death of the process, preserves the
\* invariant.
LEMMA LifecyclePreserves == ASSUME IInv, LifecycleStep PROVE IInv'
  <1> USE DEF Bridges, Serving, Draining
  <1>1. CASE Start
    <2>1. StartStaleSecs \in Nat BY QueueAssumption
    <2>2. worker.pc = "idle" /\ worker = IdleWorker BY <1>1, IdleOutside DEF Start
    <2>3. Settles BY <1>1, <2>1, <2>2, RecoverSettles DEF Start
    <2> QED BY <1>1, <2>2, <2>3, QuietEnd, BridgeTypes DEF Start
  <1>2. CASE StartSession
    <2>1. StaleSecs \in Nat BY QueueAssumption
    <2>2. worker.pc = "idle" /\ worker = IdleWorker BY <1>2, IdleOutside DEF StartSession
    <2>3. Settles BY <1>2, <2>1, <2>2, RecoverSettles DEF StartSession
    <2> QED BY <1>2, <2>2, <2>3, QuietEnd, BridgeTypes DEF StartSession
  <1>3. CASE StopBetween
    <2>1. worker.pc = "idle" BY <1>3, IdleOutside DEF StopBetween
    <2> QED BY <1>3, <2>1, BridgeMoves, BridgeTypes DEF StopBetween
  <1>4. CASE WorkerBreak BY <1>4, BridgeMoves, BridgeTypes DEF WorkerBreak
  <1>5. CASE BeginDrain
    <2>1. Settles BY <1>5, AbandonSettles DEF BeginDrain
    <2> QED BY <1>5, <2>1, QuietEnd, BridgeTypes DEF BeginDrain
  <1>6. CASE SessionEnds
    <2>1. Settles BY <1>6, AbandonSettles DEF SessionEnds
    <2> QED BY <1>6, <2>1, QuietEnd, BridgeTypes DEF SessionEnds
  <1>7. CASE Die
    <2>1. Settles BY <1>7, AbandonSettles DEF Die
    <2>2. /\ waiter' \in [Jobs -> Verdicts]
          /\ \A k \in Jobs : waiter'[k] = "ok" => waiter[k] = "ok"
      BY <1>7 DEF Die, IInv, TypeOK, Verdicts, None
    <2>3. \A k \in Jobs : waiter'[k] = "ok" => delivered'[k] > 0 BY <2>1, <2>2, OldVerdicts
    <2>4. faults' \in 0 .. MaxFaults BY <1>7, FaultType DEF Die
    <2> QED BY <1>7, <2>1, <2>2, <2>3, <2>4, PutDown DEF Die
  <1>8. CASE Connect BY <1>8, BridgeMoves, BridgeTypes DEF Connect
  <1>9. CASE Disconnect BY <1>9, BridgeMoves, BridgeTypes DEF Disconnect
  <1> QED BY <1>1, <1>2, <1>3, <1>4, <1>5, <1>6, <1>7, <1>8, <1>9 DEF LifecycleStep

\* How a row may change under the worker's feet.
RowStep(k) ==
    \/ /\ rows'[k].status = rows[k].status
       /\ rows'[k].retries = rows[k].retries
       /\ rows'[k].wa # 0 \/ rows'[k].delivery # None => rows[k].status = "sent"
    \/ /\ rows[k].status = "absent" /\ rows'[k].status = "queued"
       /\ rows'[k].retries = 0 /\ rows'[k].wa = 0 /\ rows'[k].delivery = None
    \/ /\ rows[k].status \in {"sent", "failed"} /\ rows'[k].status = "pruned"
       /\ rows'[k].retries = 0 /\ rows'[k].wa = 0 /\ rows'[k].delivery = None

\* Statements of callers, receipts, the prune task and the clock.
LEMMA TableMoves ==
  ASSUME IInv, rows' \in Table,
         UNCHANGED <<bridge, cancel, client, worker, pollKeys, ghosts, faults>>,
         waiter' \in [Jobs -> Verdicts],
         \A k \in Jobs : waiter'[k] = "ok" => waiter[k] = "ok",
         \A k \in Jobs : RowStep(k)
  PROVE  IInv'
  <1>1. /\ pollKeys' = pollKeys /\ delivered' = delivered
        /\ lost' = lost /\ acked' = acked /\ attempts' = attempts
    BY DEF ghosts
  <1>2. TypeOK' BY <1>1 DEF IInv, TypeOK, Table, Verdicts
  <1>3. WorkerShape' BY DEF IInv, WorkerShape
  <1>4. ASSUME NEW k \in Jobs PROVE JobInv(k)'
    <2>1. JobInv(k) /\ RowStep(k) BY DEF IInv
    <2>2. InHand(k)' = InHand(k) /\ Erring(k)' = Erring(k) /\ Holding' = Holding
      BY DEF InHand, Erring, Holding
    <2>3. InHand(k) \in Nat /\ Erring(k) \in Nat
          /\ (Erring(k) # 0 => Holding /\ worker.job = k)
      BY DEF InHand, Erring, Holding
    <2>4. rows'[k].status \in RowStatus /\ rows'[k].retries \in Nat
      BY DEF Table, Row
    <2> QED BY <1>1, <2>1, <2>2, <2>3, <2>4, InvFacts DEF JobInv, RowStep
  <1> QED BY <1>2, <1>3, <1>4 DEF IInv

\* A row that no message id was written to shows no delivery.
LEMMA RowKept ==
  ASSUME IInv, NEW k \in Jobs,
         rows'[k].status = rows[k].status, rows'[k].retries = rows[k].retries,
         rows'[k].wa = rows[k].wa,
         rows'[k].delivery = rows[k].delivery \/ rows[k].wa # 0
  PROVE  RowStep(k)
  BY DEF IInv, JobInv, RowStep

\* Enqueueing, timing out and asking for shutdown preserve the invariant.
LEMMA CallerPreserves == ASSUME IInv, CallerStep PROVE IInv'
  <1>t. rows \in Table /\ waiter \in [Jobs -> Verdicts]
    BY DEF IInv, TypeOK, Table, Verdicts
  <1>i. ASSUME NEW j \in Jobs, NEW d \in Nat, NextId(j), rows' = Insert(rows, j, d)
        PROVE  rows' \in Table /\ \A k \in Jobs : RowStep(k)
    <2>1. /\ Frame(rows, rows', j)
          /\ rows'[j].status = "queued" /\ rows'[j].retries = 0
          /\ rows'[j].wa = 0 /\ rows'[j].delivery = None
      BY <1>t, <1>i, InsertFacts
    <2>2. RowStep(j) BY <1>i, <2>1 DEF RowStep, NextId
    <2>3. ASSUME NEW k \in Jobs, k # j PROVE RowStep(k)
      BY <2>1, <2>3, RowKept DEF Frame
    <2> QED BY <2>1, <2>2, <2>3 DEF Frame
  <1>1. ASSUME NEW j \in Jobs, NEW sync \in BOOLEAN, EnqueueOp(j, sync) PROVE IInv'
    <2>1. rows' \in Table /\ \A k \in Jobs : RowStep(k) BY <1>1, <1>i DEF EnqueueOp
    <2>2. waiter' = [waiter EXCEPT ![j] = IF sync THEN "waiting" ELSE None]
      BY <1>1 DEF EnqueueOp
    <2>3. /\ waiter' \in [Jobs -> Verdicts]
          /\ \A k \in Jobs : waiter'[k] = "ok" => waiter[k] = "ok"
      BY <1>t, <2>2 DEF Verdicts, None
    <2> QED BY <1>1, <2>1, <2>3, TableMoves DEF EnqueueOp
  <1>2. ASSUME NEW j \in Jobs, NEW d \in 0 .. MaxDelay, EnqueueOpAt(j, d) PROVE IInv'
    <2>1. d \in Nat BY QueueAssumption
    <2>2. rows' \in Table /\ \A k \in Jobs : RowStep(k) BY <1>2, <2>1, <1>i DEF EnqueueOpAt
    <2> QED BY <1>2, <1>t, <2>2, TableMoves DEF EnqueueOpAt
  <1>3. ASSUME NEW j \in Jobs, WaiterTimeout(j) PROVE IInv'
    <2>1. /\ waiter' \in [Jobs -> Verdicts]
          /\ \A k \in Jobs : waiter'[k] = "ok" => waiter[k] = "ok"
      BY <1>t, <1>3 DEF WaiterTimeout, Verdicts
    <2>2. rows' = rows BY <1>3 DEF WaiterTimeout
    <2>3. \A k \in Jobs : RowStep(k) BY <2>2, RowKept
    <2> QED BY <1>t, <1>3, <2>1, <2>2, <2>3, TableMoves DEF WaiterTimeout
  <1>4. CASE Stop
    <2>1. NoStmt BY <1>4 DEF Stop, NoStmt
    <2> QED BY <1>4, <2>1, BridgeMoves, BridgeTypes DEF Stop
  <1> QED BY <1>1, <1>2, <1>3, <1>4 DEF CallerStep

\* Receipts, pruning and the clock preserve the invariant.
LEMMA TablePreserves == ASSUME IInv, TableStep PROVE IInv'
  <1>t. rows \in Table /\ waiter \in [Jobs -> Verdicts] /\ delivered \in [Jobs -> Nat]
    BY DEF IInv, TypeOK, Table, Verdicts
  <1>1. ASSUME NEW j \in Jobs, NEW wa \in 1 .. delivered[j], NEW st \in Receipts,
               Receipt(j, wa, st)
        PROVE  IInv'
    <2>1. wa \in Nat /\ wa # 0 BY <1>t
    <2>2. /\ Frame(rows, rows', j)
          /\ rows'[j].status = rows[j].status /\ rows'[j].retries = rows[j].retries
          /\ rows'[j].wa = rows[j].wa
          /\ rows'[j].delivery = rows[j].delivery \/ rows[j].wa = wa
      BY <1>t, <1>1, <2>1, SetDeliveryFacts DEF Receipt
    <2>3. ASSUME NEW k \in Jobs PROVE RowStep(k)
      <3>1. CASE k = j BY <2>1, <2>2, <3>1, RowKept
      <3>2. CASE k # j BY <2>2, <3>2, RowKept DEF Frame
      <3> QED BY <3>1, <3>2
    <2> QED BY <1>t, <1>1, <2>2, <2>3, TableMoves DEF Receipt, Frame
  <1>2. CASE Prune
    <2>1. rows' \in Table /\ \A k \in Jobs : RowStep(k)
      <3>1. rows' = PruneOld(rows) BY <1>2 DEF Prune
      <3>2. rows' \in Table BY <1>t, <3>1, PruneOldFacts
      <3>3. ASSUME NEW k \in Jobs PROVE RowStep(k)
        <4>1. CASE rows'[k] = rows[k] BY <4>1, RowKept
        <4>2. CASE rows'[k] # rows[k] BY <1>t, <3>1, <4>2, PruneOldFacts DEF RowStep
        <4> QED BY <4>1, <4>2
      <3> QED BY <3>2, <3>3
    <2> QED BY <1>t, <1>2, <2>1, TableMoves DEF Prune
  <1>3. CASE Tick
    <2>1. rows' = Aged(rows) BY <1>3 DEF Tick
    <2>2. rows' \in Table /\ \A k \in Jobs : RowStep(k)
      BY <1>t, <2>1, TickFacts, RowKept
    <2> QED BY <1>t, <1>3, <2>2, TableMoves DEF Tick
  <1> QED BY <1>1, <1>2, <1>3 DEF TableStep

\* A new installation satisfies the invariant.
LEMMA InitInv == Init => IInv
  <1> SUFFICES ASSUME Init PROVE IInv OBVIOUS
  <1>1. TypeOK
    <2>1. BlankRow \in Row BY AgeZero DEF BlankRow, Row, RowStatus, Delivery
    <2>2. worker \in [pc: WorkerPc, job: Jobs \cup {NoJob}]
      BY DEF Init, IdleWorker, WorkerPc
    <2>3. faults \in 0 .. MaxFaults BY QueueAssumption DEF Init
    <2> QED BY <2>1, <2>2, <2>3 DEF Init, TypeOK
  <1>2. WorkerShape BY DEF Init, IdleWorker, WorkerShape
  <1>3. ASSUME NEW k \in Jobs PROVE JobInv(k)
    BY QueueAssumption
    DEF Init, JobInv, IdleWorker, BlankRow, InHand, Erring, Holding, None
  <1> QED BY <1>1, <1>2, <1>3 DEF IInv

\* A step that changes nothing preserves the invariant.
LEMMA StutterPreserves == ASSUME IInv, UNCHANGED vars PROVE IInv'
  <1>1. NoStmt /\ UNCHANGED <<worker, waiter, faults, bridge, cancel, client>>
    BY DEF vars, NoStmt, ghosts
  <1> QED BY <1>1, BridgeMoves, BridgeTypes

\* IInv is an invariant of every behaviour of the queue, whatever the number
\* of jobs, the retry budget, the thresholds and the number of faults.
THEOREM QueueInvariant == Spec => []IInv
  <1>1. IInv /\ [Next]_vars => IInv'
    BY WorkerPreserves, DrainPreserves, LifecyclePreserves, CallerPreserves,
       TablePreserves, StutterPreserves DEF Next
  <1> QED BY InitInv, <1>1, PTL DEF Spec

----------------------------------------------------------------------------
(* The properties the runs check *)

\* The row of an executing job is inflight, and a row shows sent, or a delivery
\* state, only of a message that reached the server.
THEOREM RowsAreTrue == Spec => []RowsTrue
  <1>1. ASSUME IInv PROVE HeldRowInflight
    <2> SUFFICES ASSUME Holding PROVE rows[worker.job].status = "inflight"
      BY DEF HeldRowInflight
    <2>1. worker.job \in Jobs BY <1>1, InvFacts DEF Holding
    <2> QED BY <1>1, <2>1 DEF IInv, JobInv
  <1>2. ASSUME IInv PROVE SentWasDelivered
    <2> SUFFICES ASSUME NEW j \in Jobs, rows[j].status = "sent"
                 PROVE  delivered[j] > 0 /\ acked[j] = 1
      BY DEF SentWasDelivered
    <2>1. JobInv(j) BY <1>2 DEF IInv
    <2>2. InHand(j) \in Nat BY DEF InHand
    <2> QED BY <1>2, <2>1, <2>2, InvFacts DEF JobInv
  <1>3. ASSUME IInv PROVE DeliveryImpliesSent
    BY <1>3 DEF IInv, JobInv, DeliveryImpliesSent
  <1>4. IInv => RowsTrue BY <1>1, <1>2, <1>3 DEF IInv, RowsTrue
  <1> QED BY <1>4, QueueInvariant, PTL

\* No send is recorded twice, and none disappears from the books.
THEOREM SendsAreAccounted == Spec => []SendsAccounted
  <1>1. IInv => SendsAccounted BY DEF IInv, JobInv, SendsAccounted
  <1> QED BY <1>1, QueueInvariant, PTL

\* A job is dropped only once its budget of failed executions is used up.
THEOREM BudgetRespected == Spec => []DroppedOnlyAfterBudget
  <1>1. IInv => DroppedOnlyAfterBudget
    <2> SUFFICES ASSUME IInv, NEW j \in Jobs \ BadJid, rows[j].status = "failed"
                 PROVE  attempts[j] >= MaxRetries
      BY DEF DroppedOnlyAfterBudget
    <2>1. JobInv(j) BY DEF IInv
    <2>2. Erring(j) \in Nat BY DEF Erring
    <2> QED BY <2>1, <2>2, InvFacts, QueueAssumption DEF JobInv
  <1> QED BY <1>1, QueueInvariant, PTL

----------------------------------------------------------------------------
(* The refinement: the stages of the abstract outbox *)

\* Row k stays in its stage.
Stays(k) ==
    \/ rows'[k].status = rows[k].status
    \/ rows[k].status \in {"queued", "inflight"} /\ rows'[k].status \in {"queued", "inflight"}

\* The four kinds of steps the queue takes.
Quiets == delivered' = delivered /\ \A k \in Jobs : Stays(k)

Settling(j) ==
    /\ delivered' = delivered
    /\ \A k \in Jobs \ {j} : Stays(k)
    /\ \/ rows[j].status = "absent" /\ rows'[j].status = "queued"
       \/ rows[j].status = "inflight" /\ rows'[j].status = "failed"
       \/ rows[j].status = "inflight" /\ rows'[j].status = "sent" /\ delivered[j] > 0

Sending(j) ==
    /\ delivered' = Count(delivered, j)
    /\ rows' = rows
    /\ rows[j].status = "inflight"

Pruning ==
    /\ delivered' = delivered
    /\ \A k \in Jobs : \/ rows'[k].status = rows[k].status
                       \/ rows[k].status \in {"sent", "failed"} /\ rows'[k].status = "pruned"

QueueStep == Quiets \/ Pruning \/ \E j \in Jobs : Settling(j) \/ Sending(j)

----------------------------------------------------------------------------
(* The statements *)

\* A statement that touches neither the rows nor the sends.
LEMMA IdleStmt == ASSUME rows' = rows, delivered' = delivered PROVE QueueStep
  BY DEF QueueStep, Quiets, Stays

\* A claim keeps its row pending.
LEMMA ClaimStep == ASSUME IInv, NEW j \in Jobs, ClaimStmt(j) PROVE QueueStep
  <1>1. Frame(rows, rows', j) /\ rows'[j].status = "inflight" /\ delivered' = delivered
    BY InvFacts, ClaimFacts DEF ClaimStmt, ghosts, StmtTypes
  <1>2. rows[j].status = "queued" BY DEF ClaimStmt, First, Claimable
  <1>3. Quiets BY <1>1, <1>2 DEF Quiets, Stays, Frame
  <1> QED BY <1>3 DEF QueueStep

\* The row of a job in the worker's hands is inflight.
LEMMA HeldRow ==
  ASSUME IInv, NEW j \in Jobs, worker.job = j, Holding
  PROVE  rows[j].status = "inflight"
  BY DEF IInv, JobInv

\* A statement that settles the held job, or puts it back.
LEMMA SettleStep ==
  ASSUME IInv, NEW j \in Jobs, worker.job = j, Holding,
         Frame(rows, rows', j), delivered' = delivered,
         rows'[j].status \in {"queued", "failed", "sent"},
         rows'[j].status = "sent" => delivered[j] > 0
  PROVE  QueueStep
  <1>1. rows[j].status = "inflight" BY HeldRow
  <1>2. \A k \in Jobs \ {j} : Stays(k) BY DEF Frame, Stays
  <1>3. CASE rows'[j].status = "queued"
    <2>1. Quiets BY <1>1, <1>2, <1>3 DEF Quiets, Stays
    <2> QED BY <2>1 DEF QueueStep
  <1>4. CASE rows'[j].status \in {"failed", "sent"}
    <2>1. Settling(j) BY <1>1, <1>2, <1>4 DEF Settling
    <2> QED BY <2>1 DEF QueueStep
  <1> QED BY <1>3, <1>4

\* Rejecting, failing, requeueing and recording the held job.
LEMMA HeldSteps ==
  ASSUME IInv, NEW j \in Jobs, worker.job = j, Holding,
         \/ RejectStmt(j) \/ FailStmt(j) \/ RequeueStmt(j)
         \/ SentStmt(j) /\ worker.pc = "unmarked"
  PROVE  QueueStep
  <1>t. rows \in Table /\ delivered[j] \in Nat BY InvFacts DEF StmtTypes
  <1>1. CASE RejectStmt(j) \/ FailStmt(j)
    <2>1. PICK max \in Nat : rows' = MarkFailed(rows, j, max)
      BY <1>1, QueueAssumption DEF RejectStmt, FailStmt
    <2>2. Frame(rows, rows', j) /\ rows'[j].status \in {"queued", "failed"}
      BY <1>t, <2>1, MarkFailedFacts
    <2>s. rows'[j].status \in {"queued", "failed", "sent"} /\ rows'[j].status # "sent"
      BY <2>2
    <2>3. delivered' = delivered BY <1>1 DEF RejectStmt, FailStmt, ghosts
    <2> QED BY <2>2, <2>3, <2>s, SettleStep
  <1>2. CASE RequeueStmt(j)
    <2>1. Frame(rows, rows', j) /\ rows'[j].status = "queued"
      BY <1>t, <1>2, RequeueFacts DEF RequeueStmt
    <2>2. delivered' = delivered BY <1>2 DEF RequeueStmt, ghosts
    <2> QED BY <2>1, <2>2, SettleStep
  <1>3. CASE SentStmt(j) /\ worker.pc = "unmarked"
    <2>1. PICK wa \in Nat : rows' = MarkSent(rows, j, wa) BY <1>t, <1>3 DEF SentStmt
    <2>2. Frame(rows, rows', j) /\ rows'[j].status = "sent" BY <1>t, <2>1, MarkSentFacts
    <2>3. delivered' = delivered BY <1>3 DEF SentStmt
    <2>4. delivered[j] > 0 BY <1>3 DEF IInv, JobInv
    <2> QED BY <2>2, <2>3, <2>4, SettleStep
  <1> QED BY <1>1, <1>2, <1>3

\* A transmission of the held job.
LEMMA SendStep ==
  ASSUME IInv, NEW j \in Jobs, worker.job = j, worker.pc = "sending",
         rows' = rows, delivered' = Count(delivered, j)
  PROVE  QueueStep
  <1>1. rows[j].status = "inflight" BY HeldRow DEF Holding
  <1> QED BY <1>1 DEF QueueStep, Sending

\* execute_job returns.
LEMMA ExecuteStep ==
  ASSUME IInv, worker.pc = "sending", SendOk(worker.job) \/ SendErr(worker.job)
  PROVE  QueueStep
  <1>1. worker.job \in Jobs BY InvFacts
  <1> QED BY <1>1, SendStep, IdleStmt DEF SendOk, SendErr

\* The worker is dropped wherever it stands.
LEMMA AbandonStep == ASSUME IInv, Abandon PROVE QueueStep
  <1> DEFINE j == worker.job
  <1>1. worker.pc \notin {"idle", "claiming"} => j \in Jobs BY InvFacts
  <1>2. CASE NoStmt BY <1>2, IdleStmt DEF NoStmt, ghosts
  <1>3. CASE \E k \in Jobs : ClaimStmt(k) BY <1>3, ClaimStep
  <1>4. CASE worker.pc = "claimed" /\ (RejectStmt(j) \/ RequeueStmt(j))
    BY <1>1, <1>4, HeldSteps DEF Holding
  <1>5. CASE worker.pc = "sending" /\ BlindSend(j) BY <1>1, <1>5, SendStep DEF BlindSend
  <1>6. CASE worker.pc = "unmarked" /\ SentStmt(j) BY <1>1, <1>6, HeldSteps DEF Holding
  <1>7. CASE ForgetSend(j) BY <1>7, IdleStmt DEF ForgetSend
  <1>8. CASE worker.pc = "erred" /\ (RequeueStmt(j) \/ FailStmt(j))
    BY <1>1, <1>8, HeldSteps DEF Holding
  <1>9. CASE KeyStmt(j) BY <1>9, IdleStmt DEF KeyStmt, ghosts
  <1> QED BY <1>2, <1>3, <1>4, <1>5, <1>6, <1>7, <1>8, <1>9 DEF Abandon

----------------------------------------------------------------------------
(* The steps *)

\* handle_outbound
LEMMA WorkerQueueStep == ASSUME IInv, WorkerStep PROVE QueueStep
  <1> DEFINE j == worker.job
  <1>j. worker.pc \notin {"idle", "claiming"} => j \in Jobs BY InvFacts
  <1>n. NoStmt => QueueStep BY IdleStmt DEF NoStmt, ghosts
  <1>1. CASE WorkerCheck BY <1>1, <1>n DEF WorkerCheck
  <1>2. CASE WorkerClaim BY <1>2, <1>n, ClaimStep DEF WorkerClaim
  <1>3. CASE WorkerReject BY <1>3, <1>j, <1>n, HeldSteps DEF WorkerReject, Holding
  <1>4. CASE WorkerPaced BY <1>4, <1>j, <1>n, HeldSteps DEF WorkerPaced, Holding
  <1>5. CASE WorkerExecute BY <1>5, ExecuteStep DEF WorkerExecute
  <1>6. CASE WorkerMarkSent
    <2>1. CASE SentStmt(j) BY <1>6, <1>j, <2>1, HeldSteps DEF WorkerMarkSent, Holding
    <2>2. CASE ForgetSend(j) BY <2>2, IdleStmt DEF ForgetSend
    <2> QED BY <1>6, <2>1, <2>2 DEF WorkerMarkSent
  <1>7. CASE WorkerAnnounce
    <2>1. rows' = rows /\ delivered' = delivered
      BY <1>7 DEF WorkerAnnounce, KeyStmt, NoStmt, ghosts
    <2> QED BY <2>1, IdleStmt
  <1>8. CASE WorkerMarkFailed BY <1>8, <1>j, <1>n, HeldSteps DEF WorkerMarkFailed, Holding
  <1> QED BY <1>1, <1>2, <1>3, <1>4, <1>5, <1>6, <1>7, <1>8 DEF WorkerStep

\* The shutdown drain
LEMMA DrainQueueStep == ASSUME IInv, DrainStep PROVE QueueStep
  <1> DEFINE j == worker.job
  <1>j. worker.pc \notin {"idle", "claiming"} => j \in Jobs BY InvFacts
  <1>n. NoStmt => QueueStep BY IdleStmt DEF NoStmt, ghosts
  <1>1. CASE DrainClaim BY <1>1, <1>n, ClaimStep DEF DrainClaim
  <1>2. CASE DrainReject BY <1>2, <1>j, <1>n, HeldSteps DEF DrainReject, Holding
  <1>3. CASE DrainPaced BY <1>3, <1>n DEF DrainPaced
  <1>4. CASE DrainExecute BY <1>4, ExecuteStep DEF DrainExecute
  <1>5. CASE DrainMarkSent
    <2>1. CASE SentStmt(j) BY <1>5, <1>j, <2>1, HeldSteps DEF DrainMarkSent, Holding
    <2>2. CASE ForgetSend(j) BY <2>2, IdleStmt DEF ForgetSend
    <2> QED BY <1>5, <2>1, <2>2 DEF DrainMarkSent
  <1>6. CASE DrainRequeue BY <1>6, <1>j, <1>n, HeldSteps DEF DrainRequeue, Holding
  <1>7. CASE DrainTimeout BY <1>7, AbandonStep DEF DrainTimeout
  <1> QED BY <1>1, <1>2, <1>3, <1>4, <1>5, <1>6, <1>7 DEF DrainStep

\* run_bridge and the process
LEMMA LifecycleQueueStep == ASSUME IInv, LifecycleStep PROVE QueueStep
  <1>n. NoStmt => QueueStep BY IdleStmt DEF NoStmt, ghosts
  <1>r. ASSUME NEW secs \in Nat, rows' = RequeueStale(rows, secs), delivered' = delivered
        PROVE  QueueStep
    <2>t. rows \in Table BY InvFacts DEF StmtTypes
    <2>1. ASSUME NEW k \in Jobs PROVE Stays(k)
      <3>1. \/ RequeueStale(rows, secs)[k].status = rows[k].status
            \/ /\ rows[k].status = "inflight"
               /\ RequeueStale(rows, secs)[k].status = "queued"
        BY <2>t, RequeueStaleFacts
      <3> QED BY <1>r, <3>1 DEF Stays
    <2> QED BY <1>r, <2>1 DEF QueueStep, Quiets
  <1>1. CASE Start \/ StartSession
    <2>1. StartStaleSecs \in Nat /\ StaleSecs \in Nat BY QueueAssumption
    <2>2. delivered' = delivered BY <1>1 DEF Start, StartSession, ghosts
    <2>3. CASE UNCHANGED rows BY <2>2, <2>3, IdleStmt
    <2>4. CASE \E secs \in Nat : rows' = RequeueStale(rows, secs) BY <1>r, <2>2, <2>4
    <2> QED BY <1>1, <2>1, <2>3, <2>4 DEF Start, StartSession
  <1>2. CASE StopBetween \/ WorkerBreak \/ Connect \/ Disconnect
    BY <1>2, <1>n DEF StopBetween, WorkerBreak, Connect, Disconnect
  <1>3. CASE BeginDrain \/ SessionEnds \/ Die
    BY <1>3, AbandonStep DEF BeginDrain, SessionEnds, Die
  <1> QED BY <1>1, <1>2, <1>3 DEF LifecycleStep

\* Callers
LEMMA CallerQueueStep == ASSUME IInv, CallerStep PROVE QueueStep
  <1>i. ASSUME NEW j \in Jobs, NEW d \in Nat, NextId(j), rows' = Insert(rows, j, d),
               delivered' = delivered
        PROVE  QueueStep
    <2>1. Frame(rows, rows', j) /\ rows'[j].status = "queued"
      BY <1>i, InvFacts, InsertFacts DEF StmtTypes
    <2>2. Settling(j) BY <1>i, <2>1 DEF Settling, Stays, Frame, NextId
    <2> QED BY <2>2 DEF QueueStep
  <1>1. ASSUME NEW j \in Jobs, NEW sync \in BOOLEAN, EnqueueOp(j, sync) PROVE QueueStep
    BY <1>1, <1>i DEF EnqueueOp, ghosts
  <1>2. ASSUME NEW j \in Jobs, NEW d \in 0 .. MaxDelay, EnqueueOpAt(j, d) PROVE QueueStep
    BY <1>2, <1>i, QueueAssumption DEF EnqueueOpAt, ghosts
  <1>3. ASSUME NEW j \in Jobs, WaiterTimeout(j) PROVE QueueStep
    BY <1>3, IdleStmt DEF WaiterTimeout, ghosts
  <1>4. CASE Stop BY <1>4, IdleStmt DEF Stop, ghosts
  <1> QED BY <1>1, <1>2, <1>3, <1>4 DEF CallerStep

\* Receipts, pruning and the clock
LEMMA TableQueueStep == ASSUME IInv, TableStep PROVE QueueStep
  <1>t. rows \in Table /\ delivered \in [Jobs -> Nat] BY InvFacts DEF StmtTypes
  <1>1. ASSUME NEW j \in Jobs, NEW wa \in 1 .. delivered[j], NEW st \in Receipts,
               Receipt(j, wa, st)
        PROVE  QueueStep
    <2>1. wa \in Nat BY <1>t
    <2>2. Frame(rows, rows', j) /\ rows'[j].status = rows[j].status
      BY <1>t, <1>1, <2>1, SetDeliveryFacts DEF Receipt
    <2>3. delivered' = delivered BY <1>1 DEF Receipt, ghosts
    <2> QED BY <2>2, <2>3 DEF QueueStep, Quiets, Stays, Frame
  <1>2. CASE Prune
    <2>1. Pruning BY <1>t, <1>2, PruneOldFacts DEF Prune, Pruning, ghosts
    <2> QED BY <2>1 DEF QueueStep
  <1>3. CASE Tick
    <2>1. Quiets BY <1>t, <1>3, TickFacts DEF Tick, Quiets, Stays, ghosts
    <2> QED BY <2>1 DEF QueueStep
  <1> QED BY <1>1, <1>2, <1>3 DEF TableStep

\* Every step of the queue is of one of the four kinds.
LEMMA EveryStep == ASSUME IInv, [Next]_vars PROVE QueueStep
  <1>1. CASE UNCHANGED vars BY <1>1, IdleStmt DEF vars
  <1> QED BY <1>1, WorkerQueueStep, DrainQueueStep, LifecycleQueueStep, CallerQueueStep,
             TableQueueStep DEF Next

----------------------------------------------------------------------------
(* The refinement *)

\* The queue starts as an empty outbox.
LEMMA InitMaps == Init => Abstract!Init
  <1> SUFFICES ASSUME Init PROVE Abstract!Init OBVIOUS
  <1>1. \A j \in Jobs : Stage(j) = "new" BY DEF Init, BlankRow, Stage
  <1> QED BY <1>1 DEF Init, Abstract!Init

\* The four kinds of steps are steps of the outbox, or none.
LEMMA StepMaps == ASSUME IInv, QueueStep PROVE [Abstract!Next]_(Abstract!vars)
  <1>s. \A k \in Jobs : Stays(k) => Stage(k)' = Stage(k) BY DEF Stays, Stage
  <1>d. delivered \in [Jobs -> Nat] BY InvFacts DEF StmtTypes
  <1>1. CASE Quiets
    <2>1. \A k \in Jobs : Stage(k)' = Stage(k) BY <1>1, <1>s DEF Quiets
    <2> QED BY <1>1, <2>1 DEF Quiets, Abstract!vars
  <1>2. CASE Pruning
    <2> DEFINE S == {k \in Jobs : rows'[k].status # rows[k].status}
    <2>1. \A k \in S : Stage(k) \in {"done", "dropped"} /\ Stage(k)' = "purged"
      BY <1>2 DEF Pruning, Stage
    <2>2. \A k \in Jobs \ S : Stage(k)' = Stage(k) BY DEF Stage
    <2>3. S \in SUBSET Jobs OBVIOUS
    <2> HIDE DEF S
    <2>4. Abstract!Purge(S) BY <1>2, <2>1, <2>2, <2>3 DEF Pruning, Abstract!Purge
    <2> QED BY <2>3, <2>4 DEF Abstract!Next
  <1>3. ASSUME NEW j \in Jobs, Settling(j) PROVE Abstract!Next
    <2>1. delivered' = delivered /\ \A k \in Jobs \ {j} : Stage(k)' = Stage(k)
      BY <1>s, <1>3 DEF Settling
    <2>2. \/ Stage(j) = "new" /\ Stage(j)' = "pending"
          \/ Stage(j) = "pending" /\ Stage(j)' = "dropped"
          \/ Stage(j) = "pending" /\ Stage(j)' = "done" /\ delivered[j] > 0
      BY <1>3 DEF Settling, Stage
    <2>3. [k \in Jobs |-> Stage(k)'] = [[k \in Jobs |-> Stage(k)] EXCEPT ![j] = Stage(j)']
      BY <2>1
    <2>4. Abstract!Accept(j) \/ Abstract!GiveUp(j) \/ Abstract!Complete(j)
      BY <2>1, <2>2, <2>3
      DEF Abstract!Accept, Abstract!GiveUp, Abstract!Complete, Abstract!Move
    <2> QED BY <2>4 DEF Abstract!Next
  <1>4. ASSUME NEW j \in Jobs, Sending(j) PROVE Abstract!Next
    <2>1. Stage(j) = "pending" /\ \A k \in Jobs : Stage(k)' = Stage(k)
      BY <1>4 DEF Sending, Stage
    <2>2. Abstract!Transmit(j) BY <1>4, <2>1 DEF Sending, Count, Abstract!Transmit
    <2> QED BY <2>2 DEF Abstract!Next
  <1> QED BY <1>1, <1>2, <1>3, <1>4 DEF QueueStep

\* The queue, whatever the number of jobs, the budget, the thresholds and the
\* number of faults, implements the outbox: no accepted job is forgotten, none
\* is completed unsent, and nothing is sent for a job that was settled.
THEOREM QueueImplementsOutbox == Spec => ImplementsOutbox
  <1>1. IInv /\ [Next]_vars => [Abstract!Next]_(Abstract!vars) BY EveryStep, StepMaps
  <1> QED BY InitMaps, <1>1, QueueInvariant, PTL DEF Spec, ImplementsOutbox, Abstract!Spec

----------------------------------------------------------------------------
(* What enqueue_and_wait tells its caller *)

\* The job is settled as sent.
Done(k) == rows[k].status \in {"sent", "pruned"}

\* Without faults, a caller told ok and a worker about to say so speak of a
\* sent job, which is never transmitted again: the key stored for it stays
\* that of its last send.
TellInv ==
    /\ faults = 0 /\ worker.pc = "announce" => Done(worker.job)
    /\ \A k \in Jobs : faults = 0 /\ waiter[k] = "ok" =>
           /\ Done(k)
           /\ k \in Polls => <<k, delivered[k]>> \in pollKeys

\* A step that tells nobody anything.
Silent ==
    /\ pollKeys \subseteq pollKeys'
    /\ faults' \in {faults, faults + 1}
    /\ worker' = worker \/ worker'.pc # "announce"
    /\ \A k \in Jobs : waiter'[k] = "ok" => waiter[k] = "ok"

\* A sent job stays sent, and is not sent again.
LEMMA DoneStays ==
  ASSUME IInv, QueueStep, NEW k \in Jobs, Done(k)
  PROVE  Done(k)' /\ delivered'[k] = delivered[k]
  <1>d. delivered \in [Jobs -> Nat] BY InvFacts DEF StmtTypes
  <1>1. CASE Quiets \/ Pruning BY <1>1 DEF Quiets, Pruning, Stays, Done
  <1>2. ASSUME NEW j \in Jobs, Settling(j) PROVE Done(k)' /\ delivered'[k] = delivered[k]
    <2>1. j # k \/ rows'[k].status = rows[k].status BY <1>2 DEF Settling, Done
    <2> QED BY <1>2, <2>1 DEF Settling, Stays, Done
  <1>3. ASSUME NEW j \in Jobs, Sending(j) PROVE Done(k)' /\ delivered'[k] = delivered[k]
    <2>1. j # k BY <1>3 DEF Sending, Done
    <2> QED BY <1>3, <2>1, <1>d DEF Sending, Count, Done
  <1> QED BY <1>1, <1>2, <1>3 DEF QueueStep

\* Whatever statement happens when the worker is dropped, no key is lost.
LEMMA AbandonKeeps == ASSUME Abandon PROVE pollKeys \subseteq pollKeys'
  BY DEF Abandon, NoStmt, ClaimStmt, RejectStmt, RequeueStmt, BlindSend, SentStmt,
         ForgetSend, FailStmt, KeyStmt

\* A failure announced is no ok.
LEMMA FailureAnnounced ==
  ASSUME IInv, NEW j \in Jobs, Announce(j, "failed"), NEW k \in Jobs, waiter'[k] = "ok"
  PROVE  waiter[k] = "ok"
  BY DEF Announce, IInv, TypeOK

\* Of the worker's steps only the announcement, and the one before it, say
\* anything.
LEMMA WorkerTells == ASSUME IInv, WorkerStep PROVE Silent \/ WorkerMarkSent \/ WorkerAnnounce
  <1> DEFINE j == worker.job
  <1>w. worker \in [pc: WorkerPc, job: Jobs \cup {NoJob}] BY DEF IInv, TypeOK
  <1>j. worker.pc \notin {"idle", "claiming"} => j \in Jobs BY InvFacts
  <1>1. CASE WorkerCheck BY <1>1 DEF WorkerCheck, NoStmt, Silent, WorkerVars
  <1>2. CASE WorkerClaim
    BY <1>2 DEF WorkerClaim, ClaimStmt, NoStmt, Fault, Silent, IdleWorker, WorkerVars
  <1>3. CASE WorkerReject
    <2>1. \A k \in Jobs : waiter'[k] = "ok" => waiter[k] = "ok"
      BY <1>3, <1>j, FailureAnnounced DEF WorkerReject
    <2> QED BY <1>3, <2>1 DEF WorkerReject, RejectStmt, NoStmt, Fault, Silent, IdleWorker
  <1>4. CASE WorkerPaced
    BY <1>4, <1>w DEF WorkerPaced, RequeueStmt, NoStmt, Fault, Silent, IdleWorker
  <1>5. CASE WorkerExecute
    BY <1>5, <1>w DEF WorkerExecute, SendOk, SendErr, Silent
  <1>8. CASE WorkerMarkFailed
    <2>1. \A k \in Jobs : waiter'[k] = "ok" => waiter[k] = "ok"
      BY <1>8, <1>j, FailureAnnounced DEF WorkerMarkFailed
    <2> QED BY <1>8, <2>1 DEF WorkerMarkFailed, FailStmt, NoStmt, Fault, Silent, IdleWorker
  <1> QED BY <1>1, <1>2, <1>3, <1>4, <1>5, <1>8 DEF WorkerStep

\* The drain tells nobody: it emits no event.
LEMMA DrainTells == ASSUME IInv, DrainStep PROVE Silent
  <1>w. worker \in [pc: WorkerPc, job: Jobs \cup {NoJob}] BY DEF IInv, TypeOK
  <1>1. CASE DrainClaim
    BY <1>1 DEF DrainClaim, ClaimStmt, NoStmt, Fault, FinishDrain, Silent, IdleWorker
  <1>2. CASE DrainReject
    BY <1>2 DEF DrainReject, RejectStmt, NoStmt, Fault, Silent, DrainHome
  <1>3. CASE DrainPaced BY <1>3, <1>w DEF DrainPaced, NoStmt, Silent
  <1>4. CASE DrainExecute BY <1>4, <1>w DEF DrainExecute, SendOk, SendErr, Silent
  <1>5. CASE DrainMarkSent
    BY <1>5 DEF DrainMarkSent, SentStmt, ForgetSend, Fault, Silent, DrainHome
  <1>6. CASE DrainRequeue
    BY <1>6 DEF DrainRequeue, RequeueStmt, NoStmt, Fault, FinishDrain, Silent, IdleWorker
  <1>7. CASE DrainTimeout
    BY <1>7, AbandonKeeps DEF DrainTimeout, FinishDrain, Silent, IdleWorker
  <1> QED BY <1>1, <1>2, <1>3, <1>4, <1>5, <1>6, <1>7 DEF DrainStep

\* Neither do run_bridge, the callers, the receipts or the clock.
LEMMA OthersTell ==
  ASSUME IInv, LifecycleStep \/ CallerStep \/ TableStep
  PROVE  Silent
  <1>t. waiter \in [Jobs -> {None, "waiting", "ok", "failed", "timedout"}]
    BY DEF IInv, TypeOK
  <1>1. CASE Start \/ StartSession
    BY <1>1 DEF Start, StartSession, Fault, Silent
  <1>2. CASE StopBetween \/ WorkerBreak \/ Connect \/ Disconnect
    BY <1>2 DEF StopBetween, WorkerBreak, Connect, Disconnect, NoStmt, Silent
  <1>3. CASE BeginDrain
    BY <1>3, AbandonKeeps DEF BeginDrain, Silent, DrainHome, IdleWorker
  <1>4. CASE SessionEnds BY <1>4, AbandonKeeps DEF SessionEnds, Fault, Silent, IdleWorker
  <1>5. CASE Die BY <1>5, AbandonKeeps DEF Die, Fault, Silent, IdleWorker, None
  <1>6. CASE CallerStep
    BY <1>6, <1>t DEF CallerStep, EnqueueOp, EnqueueOpAt, WaiterTimeout, Stop, Silent, None
  <1>7. CASE TableStep BY <1>7 DEF TableStep, Receipt, Prune, Tick, Silent
  <1> QED BY <1>1, <1>2, <1>3, <1>4, <1>5, <1>6, <1>7 DEF LifecycleStep

\* A silent step breaks no promise.
LEMMA SilentKeeps ==
  ASSUME IInv, TellInv, QueueStep, Silent
  PROVE  TellInv'
  <1>f. faults \in Nat BY DEF IInv, TypeOK
  <1>1. ASSUME faults' = 0, worker'.pc = "announce" PROVE Done(worker.job)'
    <2>1. faults = 0 /\ worker' = worker BY <1>1, <1>f DEF Silent
    <2>2. worker.job \in Jobs BY <1>1, <2>1, InvFacts
    <2>3. Done(worker.job) BY <1>1, <2>1 DEF TellInv
    <2>4. rows'[worker.job].status \in {"sent", "pruned"} BY <2>2, <2>3, DoneStays DEF Done
    <2> QED BY <2>1, <2>4 DEF Done
  <1>2. ASSUME NEW k \in Jobs, faults' = 0, waiter'[k] = "ok"
        PROVE  Done(k)' /\ (k \in Polls => <<k, delivered'[k]>> \in pollKeys')
    <2>1. faults = 0 /\ waiter[k] = "ok" BY <1>2, <1>f DEF Silent
    <2>2. Done(k) /\ (k \in Polls => <<k, delivered[k]>> \in pollKeys)
      BY <2>1 DEF TellInv
    <2> QED BY <2>2, DoneStays DEF Silent
  <1> QED BY <1>1, <1>2 DEF TellInv

\* Recording the send makes the announcement to come true.
LEMMA MarkSentKeeps == ASSUME IInv, TellInv, QueueStep, WorkerMarkSent PROVE TellInv'
  <1> DEFINE j == worker.job
  <1>f. faults \in Nat /\ j \in Jobs /\ rows \in Table /\ delivered \in [Jobs -> Nat]
    BY InvFacts DEF IInv, TypeOK, WorkerMarkSent, Table
  <1>1. ASSUME faults' = 0 PROVE Done(worker.job)'
    <2>1. SentStmt(j) BY <1>1, <1>f DEF WorkerMarkSent, Fault
    <2>2. PICK wa \in Nat : rows' = MarkSent(rows, j, wa) BY <1>f, <2>1 DEF SentStmt
    <2>3. rows'[j].status = "sent" BY <1>f, <2>2, MarkSentFacts
    <2>4. worker'.job = j BY DEF WorkerMarkSent
    <2> QED BY <2>3, <2>4 DEF Done
  <1>2. ASSUME NEW k \in Jobs, faults' = 0, waiter'[k] = "ok"
        PROVE  Done(k)' /\ (k \in Polls => <<k, delivered'[k]>> \in pollKeys')
    <2>1. faults = 0 /\ waiter[k] = "ok" /\ pollKeys' = pollKeys
      BY <1>2, <1>f DEF WorkerMarkSent, Fault, SentStmt, ForgetSend
    <2>2. Done(k) /\ (k \in Polls => <<k, delivered[k]>> \in pollKeys)
      BY <2>1 DEF TellInv
    <2> QED BY <2>1, <2>2, DoneStays
  <1> QED BY <1>1, <1>2 DEF TellInv

\* The announcement is made of a sent job whose key was just stored.
LEMMA AnnounceKeeps == ASSUME IInv, TellInv, QueueStep, WorkerAnnounce PROVE TellInv'
  <1> DEFINE j == worker.job
  <1>f. /\ faults \in Nat /\ j \in Jobs
        /\ waiter \in [Jobs -> {None, "waiting", "ok", "failed", "timedout"}]
    BY InvFacts DEF IInv, TypeOK, WorkerAnnounce
  <1>1. worker'.pc # "announce" BY DEF WorkerAnnounce, IdleWorker
  <1>2. ASSUME NEW k \in Jobs, faults' = 0, waiter'[k] = "ok"
        PROVE  Done(k)' /\ (k \in Polls => <<k, delivered'[k]>> \in pollKeys')
    <2>1. faults = 0 BY <1>2, <1>f DEF WorkerAnnounce, Fault
    <2>2. pollKeys \subseteq pollKeys' /\ delivered' = delivered
      BY DEF WorkerAnnounce, KeyStmt, NoStmt, ghosts
    <2>3. CASE k = j
      <3>1. Done(j) BY <2>1 DEF TellInv, WorkerAnnounce
      <3>2. KeyStmt(j) BY <1>2, <2>1 DEF WorkerAnnounce, Fault
      <3> QED BY <1>f, <2>3, <3>1, <3>2, <2>2, DoneStays DEF KeyStmt
    <2>4. CASE k # j
      <3>1. waiter[k] = "ok" BY <1>f, <1>2, <2>4 DEF WorkerAnnounce, Announce
      <3>2. Done(k) /\ (k \in Polls => <<k, delivered[k]>> \in pollKeys)
        BY <2>1, <3>1 DEF TellInv
      <3> QED BY <2>2, <3>2, DoneStays
    <2> QED BY <2>3, <2>4
  <1> QED BY <1>1, <1>2 DEF TellInv

\* A caller of enqueue_and_wait that is told ok is told the truth: the message
\* reached the server and, as long as nothing failed, the key its votes are
\* read with is stored, whatever the queue, the drain and the sessions do later.
THEOREM CallersToldTruth == Spec => []WaiterToldTruth
  <1>1. Init => TellInv BY DEF Init, TellInv, IdleWorker, None
  <1>2. IInv /\ TellInv /\ [Next]_vars => TellInv'
    <2> SUFFICES ASSUME IInv, TellInv, [Next]_vars PROVE TellInv' OBVIOUS
    <2>1. QueueStep BY EveryStep
    <2>2. Silent \/ WorkerMarkSent \/ WorkerAnnounce
      <3>1. CASE UNCHANGED vars BY <3>1 DEF vars, Silent
      <3>2. CASE Next BY <3>2, WorkerTells, DrainTells, OthersTell DEF Next
      <3> QED BY <3>1, <3>2
    <2> QED BY <2>1, <2>2, SilentKeeps, MarkSentKeeps, AnnounceKeeps
  <1>3. IInv /\ TellInv => WaiterToldTruth
    <2> SUFFICES ASSUME IInv, TellInv PROVE WaiterToldTruth OBVIOUS
    <2>1. \A j \in Jobs : waiter[j] = "ok" => delivered[j] > 0 BY DEF IInv, JobInv
    <2>2. AnnouncedPollHasKey BY QueueAssumption DEF TellInv, AnnouncedPollHasKey
    <2> QED BY <2>1, <2>2 DEF WaiterToldTruth
  <1> QED BY <1>1, <1>2, <1>3, QueueInvariant, PTL DEF Spec
====
