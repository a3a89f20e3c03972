----------------------------- MODULE EmbedDrain -----------------------------
(***************************************************************************)
(* The users of the embedding sidecar and the tables they share: the drain  *)
(* worker of src/src/embed_drain.rs, which turns pending messages into      *)
(* vectors, and WhatsAppBridge::search, which embeds a query within a time  *)
(* budget.  Both call the one client of EmbedderClient, and share the       *)
(* circuit breaker SemanticCooldown.                                        *)
(*                                                                         *)
(* A message is its row number; Kind says what its text is: "plain", or     *)
(* "bare", classified pending by the v8 migration's default but with        *)
(* nothing to embed once prepare_text_for_embedding has stripped its label. *)
(* A message of Poison has a text the sidecar cannot embed.  A vector is    *)
(* the message whose text it was made of.                                   *)
(***************************************************************************)
EXTENDS EmbedderClient

CONSTANTS Messages, Kind,
          Configured,    \* embedder_batch_size
          MaxBatch,      \* the sidecar's max_batch, 0 when it advertises none
          BisectAfter,   \* failures of one batch before it is halved (3 in the code)
          Threshold,     \* failure_threshold
          Budget,        \* semantic_query_timeout, in polls of the health
          MaxWindow,     \* doublings of the cool-down before its cap
          Matches,       \* messages the query finds by its words
          Score,         \* similarity of each message to the query
          MinScore, ScanCap, Limit

ASSUME EmbedDrainAssumption ==
    /\ Messages \subseteq Nat /\ IsFiniteSet(Messages)
    /\ Poison \subseteq Messages /\ Matches \subseteq Messages
    /\ Kind \in [Messages -> {"plain", "bare"}] /\ Score \in [Messages -> Nat]
    /\ {Configured, BisectAfter, Threshold} \subseteq Nat \ {0}
    /\ {MaxBatch, Budget, MaxWindow, MinScore, ScanCap, Limit, MaxFaults} \subseteq Nat

VARIABLES status,      \* messages.embed_status, "none" when there is no row
          vec,         \* embeddings for the active model
          permit,      \* embed_notify holds a wake-up
          w,           \* run_embedding_drain_worker
          s,           \* one search
          cool,        \* SemanticCooldown.until lies ahead
          window,      \* SemanticCooldown.next_window, as a number of doublings
          cancel       \* the shutdown token

drainVars == <<status, vec, permit, w, s, cool, window, cancel>>
vars == <<clientVars, drainVars>>

Drain == "drain"
Search == "search"
NoVec == 0
ASSUME CallersAssumption == Callers = {Drain, Search} /\ NoVec \notin Messages

\* min(configured, max_batch).
Clamped == IF MaxBatch > 0 /\ Configured > MaxBatch THEN MaxBatch ELSE Configured

Worker0 == [pc |-> "boot", rows |-> <<>>, vecs |-> <<>>, size |-> Clamped, fails |-> 0, notifyOnly |-> FALSE,
            loading |-> FALSE, last |-> <<>>, same |-> 0]
Search0 == [pc |-> "idle", left |-> Budget, mode |-> "", lex |-> {}, hits |-> <<>>]

\* run_bridge asks for the model before anything else; the tables hold the rows of an older schema.
Init ==
    /\ pipe = <<[id |-> 1, method |-> "model_info", texts |-> <<>>]>>
    /\ pending = {1} /\ dead = FALSE
    /\ waits = [c \in Callers |-> IF c = Drain THEN 1 ELSE NoId]
    /\ got = [c \in Callers |-> NoReply]
    /\ faults = 0
    /\ status = [m \in Messages |-> IF Kind[m] = "bare" THEN "pending" ELSE "none"]
    /\ vec = [m \in Messages |-> NoVec]
    /\ permit = FALSE
    /\ w = Worker0
    /\ s = Search0
    /\ cool = FALSE /\ window = 0
    /\ cancel = FALSE

-----------------------------------------------------------------------------
(* The tables *)

\* fetch_pending_embeddings' anti-join, and the oldest `n` of it.
PendingRows == {m \in Messages : status[m] = "pending" /\ vec[m] = NoVec}
Oldest(rows, n) == {m \in rows : Cardinality({k \in rows : k < m}) < n}

\* A set of rows as the sequence its order makes of it.
Sorted(rows, order) ==
    [k \in 1 .. Cardinality(rows) |->
        CHOOSE m \in rows : Cardinality({n \in rows : <<n, m>> \in order}) = k - 1]
ById == {p \in Messages \X Messages : p[1] < p[2]}

\* A message is ingested live or by a backfill and classified; a "bare" one only exists since the migration.
Arrives(m) ==
    /\ status[m] = "none" /\ Kind[m] = "plain"
    /\ status' = [status EXCEPT ![m] = "pending"]
    /\ permit' = TRUE
    /\ UNCHANGED <<clientVars, vec, w, s, cool, window, cancel>>

\* delete_inbound_message and delete_inbound_chat leave the vectors where they are.
Deleted(m) ==
    /\ status[m] # "none" /\ Spend
    /\ status' = [status EXCEPT ![m] = "none"]
    /\ UNCHANGED <<pipe, pending, dead, waits, got, vec, permit, w, s, cool, window, cancel>>

\* purge_embeddings: every row becomes work again, and nobody is woken.
Purge ==
    /\ \E m \in Messages : vec[m] # NoVec
    /\ Spend
    /\ vec' = [m \in Messages |-> NoVec]
    /\ UNCHANGED <<pipe, pending, dead, waits, got, status, permit, w, s, cool, window, cancel>>

\* write_embedding_batch: one transaction, ids and vectors paired by position.
WriteBatch(ids, vectors) ==
    vec' = [m \in Messages |->
        LET at == {i \in DOMAIN ids : i <= Len(vectors) /\ ids[i] = m}
        IN IF at = {} THEN vec[m] ELSE vectors[CHOOSE i \in at : TRUE]]

-----------------------------------------------------------------------------
(* The worker *)

WorkerOnly == UNCHANGED <<status, vec, s, cool, window, cancel>>

\* consecutive_failures + 1: past the threshold only a notification wakes the worker, until then it backs off.
Failing(x) == [x EXCEPT !.pc = "select", !.rows = <<>>, !.vecs = <<>>, !.fails = @ + 1,
                        !.notifyOnly = x.fails + 1 >= Threshold]
Reset(x) == [x EXCEPT !.fails = 0]

\* The sidecar's model_info arrived: the worker and the search may use it.
BootDone ==
    /\ w.pc = "boot" /\ Answered(Drain)
    /\ w' = [w EXCEPT !.pc = IF got[Drain].tag = "error" THEN "off" ELSE "select"]
    /\ Release(Drain)
    /\ WorkerOnly /\ UNCHANGED <<permit, faults>>

\* MODEL_INFO_TIMEOUT: the child is killed and the feature is off.
BootTimesOut ==
    /\ w.pc = "boot" /\ ~Answered(Drain)
    /\ w' = [w EXCEPT !.pc = "off"]
    /\ pipe' = <<>> /\ pending' = {} /\ dead' = TRUE
    /\ waits' = [waits EXCEPT ![Drain] = NoId]
    /\ WorkerOnly /\ UNCHANGED <<got, permit, faults>>

Stop ==
    /\ w.pc = "select" /\ cancel
    /\ w' = [w EXCEPT !.pc = "stopped"]
    /\ WorkerOnly /\ UNCHANGED <<clientVars, permit>>

\* The three arms of the select!: the timer is deaf in notify-only mode, a notification leaves that mode.
Wakes(x) ==
    IF x.notifyOnly THEN [Reset(x) EXCEPT !.pc = "health", !.notifyOnly = FALSE] ELSE [x EXCEPT !.pc = "health"]
Wake ==
    /\ w.pc = "select" /\ ~cancel
    /\ \E notified \in BOOLEAN :
         /\ notified => permit
         /\ w.notifyOnly => notified
         /\ w' = Wakes(w)
         /\ permit' = (permit /\ ~notified)
    /\ Call(Drain, "health", <<>>)
    /\ WorkerOnly /\ UNCHANGED faults

\* LoadingTimer::observe: only a sidecar already loading at the last look can be past the timeout.
HealthSeen ==
    /\ w.pc = "health" /\ Answered(Drain)
    /\ \/ /\ got[Drain].tag = "ok"
          /\ w' = [w EXCEPT !.pc = "fetch", !.loading = FALSE]
       \/ /\ got[Drain].tag = "loading"
          /\ w' = [w EXCEPT !.pc = "select", !.loading = TRUE]
       \/ /\ got[Drain].tag = "loading" /\ w.loading
          /\ w' = Failing(w)
       \/ /\ got[Drain].tag = "error"
          /\ w' = Failing([w EXCEPT !.loading = FALSE])
    /\ Release(Drain)
    /\ WorkerOnly /\ UNCHANGED <<permit, faults>>

\* A row with nothing to embed is retired on the spot; the rest goes to the sidecar in one request.
Valid(rows) == {m \in rows : Kind[m] = "plain"}
Fetch ==
    /\ w.pc = "fetch"
    /\ LET rows == Oldest(PendingRows, w.size)
           texts == Sorted(Valid(rows), ById)
       IN /\ status' = [m \in Messages |->
                           IF Kind[m] = "bare" /\ m \in rows THEN "failed" ELSE status[m]]
          /\ IF texts = <<>>
             THEN w' = [w EXCEPT !.pc = "select"] /\ UNCHANGED clientVars
             ELSE /\ w' = [w EXCEPT !.pc = "embed", !.rows = texts]
                  /\ Call(Drain, "embed", texts) /\ UNCHANGED faults
    /\ UNCHANGED <<vec, permit, s, cool, window, cancel>>
FetchFails ==
    /\ w.pc = "fetch" /\ Spend
    /\ w' = Failing(w)
    /\ WorkerOnly /\ UNCHANGED <<permit, pipe, pending, dead, waits, got>>

\* A request for one row failed: the row stays pending, for the sidecar may simply be down.
KeepsRow(x) == status

\* BisectionTracker: the same batch failed too often, so the next one is half as long.
Observed(x) == IF x.last = x.rows THEN [x EXCEPT !.same = @ + 1] ELSE [x EXCEPT !.last = x.rows, !.same = 1]
NeverBisects(x) == Failing(Observed(x))
Bisects(x) ==
    LET seen == Observed(x) IN
    IF x.last = x.rows /\ seen.same >= BisectAfter
    THEN [Reset(x) EXCEPT !.pc = "select", !.rows = <<>>, !.last = <<>>, !.same = 0,
                          !.size = IF @ > 1 THEN @ \div 2 ELSE 1]
    ELSE Failing(seen)

EmbedFails ==
    /\ w.pc = "embed" /\ got[Drain].tag = "error"
    /\ IF Len(w.rows) = 1
       THEN w' = Failing([w EXCEPT !.last = <<>>, !.same = 0]) /\ status' = KeepsRow(w)
       ELSE w' = Bisects(w) /\ UNCHANGED status
    /\ Release(Drain)
    /\ UNCHANGED <<vec, s, cool, window, cancel, permit, faults>>

\* SemanticCooldown::reset.
CooldownReset == cool' = FALSE /\ window' = 0

EmbedWorks ==
    /\ w.pc = "embed" /\ got[Drain].tag = "result"
    /\ w' = [Reset(w) EXCEPT !.pc = "write", !.last = <<>>, !.same = 0, !.vecs = got[Drain].vectors]
    /\ Release(Drain) /\ CooldownReset
    /\ UNCHANGED <<status, vec, s, cancel, permit, faults>>

\* After a drain the batch doubles back towards the configured size.
Grown(n) ==
    LET double == IF n * 2 < Configured THEN n * 2 ELSE Configured
    IN IF n < Configured /\ (MaxBatch = 0 \/ double <= MaxBatch) THEN double ELSE n
Write ==
    /\ w.pc = "write"
    /\ \/ /\ WriteBatch(w.rows, w.vecs)
          /\ w' = [w EXCEPT !.pc = "select", !.rows = <<>>, !.vecs = <<>>, !.size = Grown(@)]
          /\ UNCHANGED faults
       \/ Spend /\ w' = Failing(w) /\ UNCHANGED vec
    /\ UNCHANGED <<status, permit, s, cool, window, cancel, pipe, pending, dead, waits, got>>

-----------------------------------------------------------------------------
(* WhatsAppBridge::search *)

SearchOnly == UNCHANGED <<status, vec, permit, w, cancel, faults>>
\* Every fallback answers with what the words find.
Lexical == [s EXCEPT !.pc = "answered", !.mode = "lexical", !.lex = {}, !.hits = <<>>]
\* SemanticCooldown::on_cap_hit.
CapHit == cool' = TRUE /\ window' = IF window < MaxWindow THEN window + 1 ELSE MaxWindow
KeepCool == UNCHANGED <<cool, window>>

\* With no sidecar, or during a cool-down, the answer is lexical and nothing is asked.
SearchBegins ==
    /\ s.pc = "idle" /\ w.pc \notin {"boot", "off"} /\ ~cool
    /\ s' = [Search0 EXCEPT !.pc = "health"]
    /\ Call(Search, "health", <<>>)
    /\ KeepCool /\ SearchOnly

SearchHealth ==
    /\ s.pc = "health" /\ Answered(Search)
    /\ \/ /\ got[Search].tag = "ok"
          /\ s' = [s EXCEPT !.pc = "embed"]
          /\ Call(Search, "embed", <<NoVec>>) /\ KeepCool
       \/ /\ got[Search].tag = "error"
          /\ s' = Lexical /\ Release(Search) /\ KeepCool
       \/ /\ got[Search].tag = "loading" /\ s.left > 0
          /\ s' = [s EXCEPT !.left = @ - 1]
          /\ Call(Search, "health", <<>>) /\ KeepCool
       \/ /\ got[Search].tag = "loading" /\ s.left <= 0
          /\ s' = Lexical /\ Release(Search) /\ CapHit
    /\ SearchOnly

\* Time passes while the search waits.  The wait for the vector ends at the deadline; the wait for a
\* health answer does not (the query is past its budget at -1).
Tick ==
    /\ \/ s.pc = "health" /\ s.left >= 0
       \/ s.pc = "embed" /\ s.left > 0
    /\ ~Answered(Search)
    /\ s' = [s EXCEPT !.left = @ - 1]
    /\ UNCHANGED <<clientVars, status, vec, permit, w, cool, window, cancel>>

\* wait_for_query_embed: the budget is spent and the request is given up, not sent again.
SearchTimesOut ==
    /\ s.pc = "embed" /\ s.left <= 0
    /\ s' = Lexical
    /\ Release(Search) /\ CapHit /\ SearchOnly

SearchEmbedded ==
    /\ s.pc = "embed" /\ Answered(Search)
    /\ IF got[Search].tag = "result"
       THEN s' = [s EXCEPT !.pc = "count"] /\ CooldownReset
       ELSE s' = Lexical /\ KeepCool
    /\ Release(Search) /\ SearchOnly

Vectored == {m \in Messages : status[m] # "none" /\ vec[m] # NoVec}

\* count_scoped_vectors chooses between no vectors, too many to scan, and the hybrid recall.
SearchCounts ==
    /\ s.pc = "count"
    /\ s' = IF Vectored = {} THEN Lexical
            ELSE [s EXCEPT !.pc = "lexical", !.mode = IF Cardinality(Vectored) > ScanCap THEN "rerank" ELSE "hybrid"]
    /\ UNCHANGED <<clientVars, status, vec, permit, w, cool, window, cancel>>

SearchMatches ==
    /\ s.pc = "lexical"
    /\ s' = [s EXCEPT !.pc = "vectors", !.lex = {m \in Matches : status[m] # "none"}]
    /\ UNCHANGED <<clientVars, status, vec, permit, w, cool, window, cancel>>

VectorsOf(rows) == {m \in rows : vec[m] # NoVec}

\* Scored rows by their similarity, then the rows found by words that have no vector, cut at the limit.
ByScore ==
    {p \in Messages \X Messages : Score[p[1]] > Score[p[2]] \/ (Score[p[1]] = Score[p[2]] /\ p[1] < p[2])}
Recalled(mode) == IF mode = "hybrid" THEN {m \in Vectored \ s.lex : Score[m] >= MinScore} ELSE {}
Ranked(lex, vectored, found) ==
    Sorted((lex \cap vectored) \cup found, ByScore) \o Sorted(lex \ vectored, ById)
SearchRanks ==
    /\ s.pc = "vectors"
    /\ LET all == Ranked(s.lex, VectorsOf(s.lex), Recalled(s.mode))
       IN s' = [s EXCEPT !.pc = "answered", !.hits = SubSeq(all, 1, IF Limit < Len(all) THEN Limit ELSE Len(all))]
    /\ UNCHANGED <<clientVars, status, vec, permit, w, cool, window, cancel>>

SearchReturns ==
    /\ s.pc = "answered"
    /\ s' = Search0
    /\ UNCHANGED <<clientVars, status, vec, permit, w, cool, window, cancel>>

CoolsOff == cool /\ cool' = FALSE /\ UNCHANGED <<clientVars, status, vec, permit, w, s, window, cancel>>

Shutdown == ~cancel /\ cancel' = TRUE /\ UNCHANGED <<clientVars, status, vec, permit, w, s, cool, window>>

-----------------------------------------------------------------------------
TheWorker == BootDone \/ Stop \/ Wake \/ HealthSeen \/ Fetch \/ EmbedFails \/ EmbedWorks \/ Write
TheSearch == SearchBegins \/ SearchHealth \/ SearchTimesOut \/ SearchEmbedded \/ SearchCounts \/ SearchMatches
             \/ SearchRanks \/ SearchReturns
Next ==
    \/ TheWorker \/ TheSearch
    \/ BootTimesOut \/ FetchFails \/ Tick \/ CoolsOff \/ Shutdown \/ Purge
    \/ Sidecar /\ UNCHANGED drainVars
    \/ \E m \in Messages : Arrives(m) \/ Deleted(m)

\* The worker's task and the sidecar get their turns; nothing makes a search, a fault or a stop happen.
Spec == Init /\ [][Next]_vars /\ WF_vars(TheWorker) /\ WF_vars(Answer /\ UNCHANGED drainVars)

-----------------------------------------------------------------------------
TypeOK ==
    /\ ClientTypeOK
    /\ status \in [Messages -> {"none", "pending", "failed"}]
    /\ vec \in [Messages -> Messages \cup {NoVec}]
    /\ {permit, cool, cancel} \subseteq BOOLEAN
    /\ w.pc \in {"boot", "off", "select", "health", "fetch", "embed", "write", "stopped"}
    /\ w.size \in 1 .. Clamped /\ w.fails \in 0 .. Threshold + 1
    /\ s.pc \in {"idle", "health", "embed", "count", "lexical", "vectors", "answered"}
    /\ s.left \in -1 .. Budget /\ window \in 0 .. MaxWindow

\* A vector is stored under the message whose text it was made of, whatever the sidecar answers, and
\* whichever rows of the batch had nothing to embed (verify_embed_response, valid_row_indices).
VectorsTrue == \A m \in Messages : vec[m] \in {NoVec, m}

\* An outage never retires a message: only one with nothing to embed is marked failed (the comment at the
\* solo-batch arm: "This avoids wrongly retiring good rows to 'failed' during sidecar outages").
NeverWronglyFailed == \A m \in Messages : status[m] = "failed" => Kind[m] = "bare"

\* Additive only: an answer that is not full holds every match that was found by its words, once.
MatchesKept ==
    s.pc = "answered" /\ s.mode # "lexical" =>
        /\ Cardinality(ToSet(s.hits)) = Len(s.hits)
        /\ Len(s.hits) < Limit => s.lex \subseteq ToSet(s.hits)

\* What the drain and the search leave behind is true through outages, restarts of the sidecar,
\* deletions and model changes: vectors, failure marks and answers.
EmbeddingsTrue == TypeOK /\ VectorsTrue /\ NeverWronglyFailed /\ MatchesKept

\* The sidecar works and nothing else will go wrong.
Quiet == faults = MaxFaults /\ ~dead /\ \A c \in Callers : ~Forgotten(c)
Done(m) == status[m] # "pending" \/ vec[m] # NoVec \/ cancel \/ w.pc = "off"
Polling == ~w.notifyOnly /\ w.fails = 0

\* Bisection: once the worker polls and the sidecar works, a pending row with no poisonous row before it
\* is embedded, although a poisonous row after it fails every batch they share.
OldestDrain ==
    \A m \in Messages \ Poison :
        (Quiet /\ Polling /\ ~Done(m) /\ \A p \in Poison : p > m \/ Done(p)) ~> Done(m)
=============================================================================
