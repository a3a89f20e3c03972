-------------------------- MODULE EmbedDrainProofs --------------------------
(***************************************************************************)
(* Proofs about the embedding client and its two users, for any messages,  *)
(* batch sizes, thresholds and budgets.                                    *)
(***************************************************************************)
EXTENDS EmbedDrain, FiniteSetTheorems, TLAPS

Rows == Seq(Messages)
Texts == Seq(Messages \cup {NoVec})
Methods == {"model_info", "health", "embed"}
Requests == [id: Nat \ {NoId}, method: Methods, texts: Texts]
Replies == [tag: {"none", "error", "result", "ok", "loading"}, of: Nat, vectors: Texts]

----------------------------------------------------------------------------
(* The invariant of the client *)

ClientShape ==
    /\ pipe \in Seq(Requests)
    /\ \A i \in DOMAIN pipe : pipe[i].method = "embed" => pipe[i].texts # <<>>
    /\ waits \in [Callers -> Nat] /\ got \in [Callers -> Replies]
    /\ dead \in BOOLEAN /\ faults \in 0 .. MaxFaults
    /\ NoId \notin pending /\ \A id \in pending : \E c \in Callers : waits[c] = id

\* Nothing is in flight or expected over a dead transport.
DeadIsEmpty == dead => pending = {} /\ pipe = <<>>

\* A registered id is awaited, and a reply taken is one to it; nobody awaits another's id.
CallerInv(c) ==
    /\ Waiting(c) => waits[c] \in pending
    /\ waits[c] \in pending => got[c] = NoReply
    /\ Answered(c) => got[c].of = waits[c]
    /\ \A d \in Callers \ {c} : waits[c] # NoId => waits[c] # waits[d]

CInv == ClientShape /\ DeadIsEmpty /\ \A c \in Callers : CallerInv(c)

\* What the caller's last call asked, as the request and its answer have it.
Asked(c, method, texts) ==
    /\ \A i \in DOMAIN pipe : pipe[i].id = waits[c] => pipe[i].method = method /\ pipe[i].texts = texts
    /\ got[c].tag = "result" => method = "embed" /\ got[c].vectors = texts

\* A caller whose call, and what it asked, a step of somebody else leaves alone.
Unmoved(c) ==
    /\ waits'[c] = waits[c]
    /\ \A method, texts : Asked(c, method, texts) => Asked(c, method, texts)'

----------------------------------------------------------------------------
(* The invariant of the worker, the search and the tables *)

Workers == [pc: {"boot", "off", "select", "health", "fetch", "embed", "write", "stopped"},
            rows: Rows, vecs: Texts, size: 1 .. Clamped, fails: 0 .. Threshold, notifyOnly: BOOLEAN,
            loading: BOOLEAN, last: Rows, same: Nat]

\* In notify-only mode the worker sleeps; otherwise it has failures to spare.  What it embeds is what it
\* asked for, and what it writes is what it got for those rows.
WorkerInv ==
    /\ w \in Workers
    /\ IF w.notifyOnly THEN w.pc \in {"select", "stopped"} ELSE w.fails < Threshold
    /\ w.pc = "embed" => Asked(Drain, "embed", w.rows)
    /\ w.pc = "write" => w.vecs = w.rows

Searches == [pc: {"idle", "health", "embed", "count", "lexical", "vectors", "answered"}, left: -1 .. Budget,
             mode: {"", "lexical", "rerank", "hybrid"}, lex: SUBSET Messages, hits: Rows]

\* Nothing is searched before the sidecar has said what it is.
SearchInv ==
    /\ s \in Searches
    /\ w.pc = "boot" => s.pc = "idle" /\ waits[Search] = NoId
    /\ MatchesKept

TablesInv ==
    /\ status \in [Messages -> {"none", "pending", "failed"}]
    /\ vec \in [Messages -> Messages \cup {NoVec}]
    /\ permit \in BOOLEAN /\ cool \in BOOLEAN /\ cancel \in BOOLEAN /\ window \in 0 .. MaxWindow
    /\ VectorsTrue /\ NeverWronglyFailed

EInv == CInv /\ WorkerInv /\ SearchInv /\ TablesInv

----------------------------------------------------------------------------
(* Calls *)

LEMMA TheCallers ==
    /\ Drain \in Callers /\ Search \in Callers /\ Drain # Search /\ Callers = {Drain, Search}
    /\ IsFiniteSet(Callers) /\ Cardinality(Callers) \in Nat
  <1>1. Callers = {Drain, Search} BY CallersAssumption
  <1>2. IsFiniteSet(Callers)
    <2>1. IsFiniteSet({} \cup {Drain}) BY FS_EmptySet, FS_AddElement
    <2>2. IsFiniteSet(({} \cup {Drain}) \cup {Search}) BY <2>1, FS_AddElement
    <2>3. ({} \cup {Drain}) \cup {Search} = {Drain, Search} OBVIOUS
    <2> QED BY <1>1, <2>2, <2>3
  <1> QED BY <1>1, <1>2, FS_CardinalityType DEF Drain, Search

LEMMA UpTo ==
  ASSUME NEW n \in Nat
  PROVE  IsFiniteSet(1 .. n) /\ Cardinality(1 .. n) = n
  BY FS_Interval

\* There are more candidates than ids in use, so a fresh one is found.
LEMMA FreshFacts ==
  ASSUME CInv
  PROVE  /\ FreshId \in Nat \ {NoId} /\ FreshId \notin pending
         /\ \A i \in DOMAIN pipe : pipe[i].id # FreshId
         /\ \A c \in Callers : waits[c] # FreshId
  <1> DEFINE N == Len(pipe) + Cardinality(Callers) + 1
             Ids == {pipe[i].id : i \in DOMAIN pipe}
             Ws == {waits[c] : c \in Callers}
             f == [i \in 1 .. Len(pipe) |-> pipe[i].id]
             g == [c \in Callers |-> waits[c]]
             Fresh(n) == (\A i \in DOMAIN pipe : pipe[i].id # n) /\ \A c \in Callers : waits[c] # n
  <1>1. Len(pipe) \in Nat /\ DOMAIN pipe = 1 .. Len(pipe) BY DEF CInv, ClientShape
  <1>2. IsFiniteSet(1 .. Len(pipe)) /\ Cardinality(1 .. Len(pipe)) = Len(pipe) BY <1>1, UpTo
  <1>3. f \in Surjection(1 .. Len(pipe), Ids) BY <1>1 DEF Surjection
  <1>4. IsFiniteSet(Ids) /\ Cardinality(Ids) <= Len(pipe) BY <1>2, <1>3, FS_Surjection
  <1>5. g \in Surjection(Callers, Ws) BY DEF Surjection
  <1>6. IsFiniteSet(Ws) /\ Cardinality(Ws) <= Cardinality(Callers) BY <1>5, TheCallers, FS_Surjection
  <1>7. \E n \in 1 .. N : Fresh(n)
    <2> SUFFICES ASSUME \A n \in 1 .. N : ~Fresh(n) PROVE FALSE OBVIOUS
    <2>1. 1 .. N \subseteq Ids \cup Ws OBVIOUS
    <2>2. IsFiniteSet(Ids \cup Ws)
          /\ Cardinality(Ids \cup Ws) = Cardinality(Ids) + Cardinality(Ws) - Cardinality(Ids \cap Ws)
      BY <1>4, <1>6, FS_Union
    <2>3. /\ Cardinality(Ids) \in Nat /\ Cardinality(Ws) \in Nat /\ Cardinality(Ids \cap Ws) \in Nat
      <3>1. IsFiniteSet(Ids \cap Ws) BY <1>4, FS_Subset
      <3> QED BY <3>1, <1>4, <1>6, FS_CardinalityType
    <2>4. Cardinality(1 .. N) <= Cardinality(Ids \cup Ws) BY <2>1, <2>2, FS_Subset
    <2>n. N \in Nat BY <1>1, TheCallers
    <2>5. Cardinality(1 .. N) = N BY <2>n, UpTo
    <2> HIDE DEF Ids, Ws
    <2> QED BY <2>2, <2>3, <2>4, <2>5, <1>1, <1>4, <1>6, TheCallers
  <1>8. FreshId \in 1 .. N /\ Fresh(FreshId) BY <1>7 DEF FreshId
  <1>9. FreshId \in Nat \ {NoId} BY <1>1, <1>8, TheCallers DEF NoId
  <1> QED BY <1>8, <1>9 DEF CInv, ClientShape

\* The end of a call is nothing to the other caller.
LEMMA ReleaseKeeps ==
  ASSUME CInv, NEW c \in Callers, Release(c), UNCHANGED faults
  PROVE  /\ CInv' /\ waits'[c] = NoId /\ pipe' = pipe
         /\ \A d \in Callers \ {c} : Unmoved(d)
  <1>1. /\ pending' = pending \ {waits[c]} /\ waits' = [waits EXCEPT ![c] = NoId]
        /\ got' = [got EXCEPT ![c] = NoReply] /\ UNCHANGED <<pipe, dead, faults>>
    BY DEF Release
  <1>2. NoReply \in Replies BY DEF NoReply, Replies, NoId, Texts
  <1>3. waits \in [Callers -> Nat] /\ got \in [Callers -> Replies] BY DEF CInv, ClientShape
  <1>4. \A d \in Callers \ {c} : waits'[d] = waits[d] /\ got'[d] = got[d] BY <1>1, <1>3
  <1>5. waits'[c] = NoId /\ got'[c] = NoReply BY <1>1, <1>3
  <1>6. ClientShape'
    <2>1. waits' \in [Callers -> Nat] /\ got' \in [Callers -> Replies] BY <1>1, <1>2, <1>3 DEF NoId
    <2>2. \A id \in pending' : \E d \in Callers : waits'[d] = id
      <3> SUFFICES ASSUME NEW id \in pending' PROVE \E d \in Callers : waits'[d] = id OBVIOUS
      <3>1. PICK d \in Callers : waits[d] = id BY <1>1 DEF CInv, ClientShape
      <3>2. d # c BY <1>1, <3>1
      <3> QED BY <1>4, <3>1, <3>2
    <2> QED BY <1>1, <2>1, <2>2 DEF CInv, ClientShape
  <1>7. DeadIsEmpty' BY <1>1 DEF CInv, DeadIsEmpty
  <1>8. ASSUME NEW d \in Callers PROVE CallerInv(d)'
    <2>1. CASE d = c
      BY <2>1, <1>5, <1>6 DEF CallerInv, Waiting, Answered, ClientShape
    <2>2. CASE d # c
      <3>1. CallerInv(d) BY DEF CInv
      <3>2. waits[d] # NoId => waits[d] # waits[c] BY <2>2, <3>1 DEF CallerInv
      <3>3. waits'[d] = waits[d] /\ got'[d] = got[d] BY <2>2, <1>4
      <3>4. waits[d] # NoId => (waits[d] \in pending' <=> waits[d] \in pending) BY <1>1, <3>2
      <3>5. NoId \notin pending /\ NoId \notin pending' BY <1>6 DEF CInv, ClientShape
      <3>6. \A e \in Callers \ {d} : waits'[d] # NoId => waits'[d] # waits'[e]
        <4> SUFFICES ASSUME NEW e \in Callers \ {d}, waits'[d] # NoId PROVE waits'[d] # waits'[e] OBVIOUS
        <4>1. CASE e = c BY <4>1, <1>5
        <4>2. CASE e # c BY <4>2, <1>4, <3>1, <3>3 DEF CallerInv
        <4> QED BY <4>1, <4>2
      <3> QED BY <3>1, <3>3, <3>4, <3>5, <3>6 DEF CallerInv, Waiting, Answered
    <2> QED BY <2>1, <2>2
  <1>9. \A d \in Callers \ {c} : Unmoved(d)
    <2> SUFFICES ASSUME NEW d \in Callers \ {c} PROVE Unmoved(d) OBVIOUS
    <2> QED BY <1>1, <1>4 DEF Unmoved, Asked
  <1> QED BY <1>1, <1>5, <1>6, <1>7, <1>8, <1>9 DEF CInv

\* A call ends the last one and asks under a fresh id, or fails at once.
LEMMA CallKeeps ==
  ASSUME CInv, NEW c \in Callers, NEW method \in Methods, NEW texts \in Texts,
         method = "embed" => texts # <<>>, Call(c, method, texts), UNCHANGED faults
  PROVE  /\ CInv' /\ Asked(c, method, texts)'
         /\ \A d \in Callers \ {c} : Unmoved(d)
  <1>3. waits \in [Callers -> Nat] /\ got \in [Callers -> Replies] BY DEF CInv, ClientShape
  <1>d. CASE dead
    <2>1. /\ pending' = pending \ {waits[c]} /\ waits' = [waits EXCEPT ![c] = NoId]
          /\ got' = [got EXCEPT ![c] = Failed(NoId)] /\ UNCHANGED <<pipe, dead, faults>>
      BY <1>d DEF Call
    <2>2. pending' = {} /\ pending = {} /\ pipe = <<>> BY <1>d, <2>1 DEF CInv, DeadIsEmpty
    <2>3. Failed(NoId) \in Replies /\ Failed(NoId).of = NoId /\ Failed(NoId) # NoReply
          /\ Failed(NoId).tag = "error"
      BY DEF Failed, NoReply, Replies, NoId, Texts
    <2>4. \A d \in Callers \ {c} : waits'[d] = waits[d] /\ got'[d] = got[d] BY <2>1, <1>3
    <2>5. waits'[c] = NoId /\ got'[c] = Failed(NoId) BY <2>1, <1>3
    <2>6. ClientShape'
      <3>1. waits' \in [Callers -> Nat] /\ got' \in [Callers -> Replies] BY <2>1, <2>3, <1>3 DEF NoId
      <3> QED BY <2>1, <2>2, <3>1 DEF CInv, ClientShape
    <2>7. DeadIsEmpty' BY <2>1, <2>2 DEF DeadIsEmpty
    <2>8. ASSUME NEW d \in Callers PROVE CallerInv(d)'
      <3>1. CASE d = c BY <3>1, <2>2, <2>3, <2>5 DEF CallerInv, Waiting, Answered
      <3>2. CASE d # c
        <4>1. CallerInv(d) BY DEF CInv
        <4>2. \A e \in Callers \ {d} : waits'[d] # NoId => waits'[d] # waits'[e]
          <5> SUFFICES ASSUME NEW e \in Callers \ {d}, waits'[d] # NoId PROVE waits'[d] # waits'[e] OBVIOUS
          <5>1. CASE e = c BY <5>1, <2>5
          <5>2. CASE e # c BY <5>2, <2>4, <4>1, <3>2 DEF CallerInv
          <5> QED BY <5>1, <5>2
        <4> QED BY <3>2, <4>1, <4>2, <2>2, <2>4 DEF CallerInv, Waiting, Answered
      <3> QED BY <3>1, <3>2
    <2>9. \A d \in Callers \ {c} : Unmoved(d) BY <2>1, <2>4 DEF Unmoved, Asked
    <2>10. Asked(c, method, texts)' BY <2>1, <2>2, <2>3, <2>5 DEF Asked
    <2> QED BY <2>6, <2>7, <2>8, <2>9, <2>10 DEF CInv
  <1>l. CASE ~dead
    <2> DEFINE r == [id |-> FreshId, method |-> method, texts |-> texts]
    <2>1. /\ pending' = (pending \ {waits[c]}) \cup {FreshId} /\ waits' = [waits EXCEPT ![c] = FreshId]
          /\ got' = [got EXCEPT ![c] = NoReply] /\ pipe' = Append(pipe, r) /\ UNCHANGED <<dead, faults>>
      BY <1>l DEF Call
    <2>2. PICK id \in Nat \ {NoId} : id = FreshId BY FreshFacts
    <2>3. /\ id \notin pending /\ \A i \in DOMAIN pipe : pipe[i].id # id
          /\ \A d \in Callers : waits[d] # id
      BY <2>2, FreshFacts
    <2>4. NoReply \in Replies /\ NoReply.tag = "none" BY DEF NoReply, Replies, NoId, Texts
    <2>5. \A d \in Callers \ {c} : waits'[d] = waits[d] /\ got'[d] = got[d] BY <2>1, <1>3
    <2>6. waits'[c] = id /\ got'[c] = NoReply BY <2>1, <2>2, <1>3
    <2>7. r \in Requests /\ r.id = id /\ r.method = method /\ r.texts = texts BY <2>2 DEF Requests
    <2>8. pipe \in Seq(Requests) BY DEF CInv, ClientShape
    <2> HIDE DEF r
    <2>9. /\ pipe' \in Seq(Requests) /\ DOMAIN pipe' = DOMAIN pipe \cup {Len(pipe) + 1}
          /\ pipe'[Len(pipe) + 1] = r /\ \A i \in DOMAIN pipe : pipe'[i] = pipe[i]
      BY <2>1, <2>7, <2>8
    <2>10. ClientShape'
      <3>1. waits' \in [Callers -> Nat] /\ got' \in [Callers -> Replies] BY <2>1, <2>2, <2>4, <1>3
      <3>2. \A i \in DOMAIN pipe' : pipe'[i].method = "embed" => pipe'[i].texts # <<>>
        BY <2>7, <2>9 DEF CInv, ClientShape
      <3>3. ASSUME NEW k \in pending' PROVE \E d \in Callers : waits'[d] = k
        <4>1. CASE k = id BY <4>1, <2>6
        <4>2. CASE k # id
          <5>1. k \in pending /\ k # waits[c] BY <2>1, <2>2, <4>2
          <5>2. PICK d \in Callers : waits[d] = k BY <5>1 DEF CInv, ClientShape
          <5> QED BY <5>1, <5>2, <2>5
        <4> QED BY <4>1, <4>2
      <3>4. NoId \notin pending' BY <2>1, <2>2 DEF CInv, ClientShape
      <3> QED BY <3>1, <3>2, <3>3, <3>4, <2>1, <2>9 DEF CInv, ClientShape
    <2>11. DeadIsEmpty' BY <2>1, <1>l DEF DeadIsEmpty
    <2>12. ASSUME NEW d \in Callers PROVE CallerInv(d)'
      <3>1. CASE d = c
        <4>1. waits'[d] \in pending' BY <3>1, <2>1, <2>2, <2>6
        <4> QED BY <3>1, <4>1, <2>3, <2>5, <2>6 DEF CallerInv, Waiting, Answered
      <3>2. CASE d # c
        <4>1. CallerInv(d) BY DEF CInv
        <4>2. waits'[d] = waits[d] /\ got'[d] = got[d] /\ waits[d] # id BY <3>2, <2>3, <2>5
        <4>3. waits[d] # NoId => waits[d] # waits[c] BY <3>2, <4>1 DEF CallerInv
        <4>4. waits[d] # NoId => (waits[d] \in pending' <=> waits[d] \in pending)
          BY <2>1, <2>2, <4>2, <4>3
        <4>5. NoId \notin pending /\ NoId \notin pending' BY <2>10 DEF CInv, ClientShape
        <4>6. \A e \in Callers \ {d} : waits'[d] # NoId => waits'[d] # waits'[e]
          <5> SUFFICES ASSUME NEW e \in Callers \ {d}, waits'[d] # NoId PROVE waits'[d] # waits'[e] OBVIOUS
          <5>1. CASE e = c BY <5>1, <2>6, <4>2
          <5>2. CASE e # c BY <5>2, <2>5, <4>1, <4>2 DEF CallerInv
          <5> QED BY <5>1, <5>2
        <4> QED BY <4>1, <4>2, <4>4, <4>5, <4>6 DEF CallerInv, Waiting, Answered
      <3> QED BY <3>1, <3>2
    <2>13. ASSUME NEW d \in Callers \ {c} PROVE Unmoved(d)
      <3>1. waits'[d] = waits[d] /\ got'[d] = got[d] /\ waits[d] # id BY <2>3, <2>5
      <3>2. \A i \in DOMAIN pipe' : pipe'[i].id = waits'[d] => i \in DOMAIN pipe /\ pipe'[i] = pipe[i]
        BY <2>7, <2>9, <3>1
      <3> QED BY <3>1, <3>2 DEF Unmoved, Asked
    <2>14. Asked(c, method, texts)'
      <3>1. \A i \in DOMAIN pipe' : pipe'[i].id = id => pipe'[i] = r BY <2>3, <2>9
      <3> QED BY <3>1, <2>4, <2>6, <2>7 DEF Asked
    <2> QED BY <2>10, <2>11, <2>12, <2>13, <2>14 DEF CInv
  <1> QED BY <1>d, <1>l

----------------------------------------------------------------------------
(* The sidecar *)

\* What embed() or health() reads is a reply to the request, whose vectors are those of its texts.
Reads(r, reply) ==
    /\ Read(r, reply) \in Replies
    /\ Read(r, reply).of = r.id /\ Read(r, reply).tag # "none"
    /\ Read(r, reply).tag = "result" => r.method = "embed" /\ Read(r, reply).vectors = r.texts

LEMMA ReplyFacts ==
  ASSUME NEW r \in Requests, r.method = "embed" => r.texts # <<>>
  PROVE  Reads(r, Right(r)) /\ \A reply \in Wrong(r) : Reads(r, reply)
  <1>1. r.id \in Nat /\ r.texts \in Texts /\ r.method \in Methods BY DEF Requests
  <1>2. /\ Failed(r.id) \in Replies /\ Failed(r.id).tag = "error" /\ Failed(r.id).of = r.id
        /\ \A m \in Methods : Read([r EXCEPT !.method = m], Failed(r.id)) = Failed(r.id)
    BY <1>1 DEF Failed, Replies, Texts, Read
  <1>3. Read(r, Failed(r.id)) = Failed(r.id) BY <1>2 DEF Read
  <1>4. Reads(r, Failed(r.id)) BY <1>2, <1>3 DEF Reads
  <1>5. ASSUME r.method = "embed", NEW tag \in {"result", "model", "shape"}, NEW vectors \in Texts,
               tag = "result" => vectors = r.texts \/ Len(vectors) # Len(r.texts)
        PROVE  Reads(r, [tag |-> tag, of |-> r.id, vectors |-> vectors])
    <2> DEFINE q == [tag |-> tag, of |-> r.id, vectors |-> vectors]
    <2>1. q.tag = tag /\ q.vectors = vectors /\ q.of = r.id OBVIOUS
    <2>2. CASE Verify(q, r.texts)
      <3>1. tag = "result" /\ vectors = r.texts BY <1>5, <2>1, <2>2 DEF Verify
      <3>2. q \in Replies BY <1>1, <3>1 DEF Replies
      <3>3. Read(r, q) = q BY <2>2 DEF Read
      <3> QED BY <1>5, <2>1, <3>1, <3>2, <3>3 DEF Reads
    <2>3. CASE ~Verify(q, r.texts)
      <3>1. q.tag # "error" BY <2>1
      <3>2. Read(r, q) = Failed(r.id) BY <1>5, <2>3, <3>1 DEF Read
      <3> QED BY <3>2, <1>2 DEF Reads
    <2> QED BY <2>2, <2>3
  <1>6. ASSUME r.method # "embed", NEW tag \in {"ok", "loading"}
        PROVE  Reads(r, [tag |-> tag, of |-> r.id, vectors |-> <<>>])
    BY <1>1, <1>6 DEF Reads, Read, Replies, Texts
  <1>7. Reads(r, Right(r)) BY <1>1, <1>4, <1>5, <1>6 DEF Right
  <1>8. ASSUME NEW reply \in Wrong(r) PROVE Reads(r, reply)
    <2>1. CASE reply = Failed(r.id) BY <2>1, <1>4
    <2>2. CASE r.method = "embed" /\ reply # Failed(r.id)
      <3>1. r.texts # <<>> BY <2>2
      <3>2. Tail(r.texts) \in Texts /\ Len(Tail(r.texts)) # Len(r.texts) BY <3>1, <1>1 DEF Texts
      <3>3. \/ reply = [tag |-> "result", of |-> r.id, vectors |-> Tail(r.texts)]
            \/ reply = [tag |-> "model", of |-> r.id, vectors |-> r.texts]
            \/ reply = [tag |-> "shape", of |-> r.id, vectors |-> r.texts]
        BY <2>2 DEF Wrong
      <3> QED BY <3>2, <3>3, <1>1, <1>5, <2>2
    <2>3. CASE r.method # "embed" /\ reply # Failed(r.id)
      <3>1. reply = [tag |-> "loading", of |-> r.id, vectors |-> <<>>] BY <2>3 DEF Wrong
      <3> QED BY <3>1, <2>3, <1>6
    <2> QED BY <2>1, <2>2, <2>3
  <1> QED BY <1>7, <1>8

\* A request leaves the pipe, and the others keep their order.
LEMMA PipeFacts ==
  ASSUME CInv, pipe # <<>>, pipe' = Tail(pipe)
  PROVE  /\ Head(pipe) \in Requests /\ Head(pipe) = pipe[1] /\ 1 \in DOMAIN pipe
         /\ Head(pipe).method = "embed" => Head(pipe).texts # <<>>
         /\ pipe' \in Seq(Requests)
         /\ \A i \in DOMAIN pipe' : i + 1 \in DOMAIN pipe /\ pipe'[i] = pipe[i + 1]
  BY DEF CInv, ClientShape

\* The reader hands a reply to the one caller whose call it answers.
LEMMA DispatchKeeps ==
  ASSUME CInv, pipe # <<>>, pipe' = Tail(pipe), NEW r \in Requests, r = Head(pipe), NEW reply,
         Reads(r, reply), Dispatch(r, reply), UNCHANGED <<dead, waits>>, faults' \in 0 .. MaxFaults
  PROVE  CInv' /\ \A c \in Callers : Unmoved(c)
  <1>1. waits \in [Callers -> Nat] /\ got \in [Callers -> Replies] BY DEF CInv, ClientShape
  <1>2. /\ r = pipe[1] /\ 1 \in DOMAIN pipe /\ pipe' \in Seq(Requests)
        /\ \A i \in DOMAIN pipe' : i + 1 \in DOMAIN pipe /\ pipe'[i] = pipe[i + 1]
    BY PipeFacts
  <1>3. \A i \in DOMAIN pipe' : pipe'[i].method = "embed" => pipe'[i].texts # <<>>
    BY <1>2 DEF CInv, ClientShape
  <1>4. DeadIsEmpty' BY DEF CInv, DeadIsEmpty
  <1>5. CASE r.id \notin pending
    <2>1. UNCHANGED <<pending, got, waits, dead>> BY <1>5 DEF Dispatch
    <2>2. ClientShape' BY <1>2, <1>3, <2>1 DEF CInv, ClientShape
    <2>3. \A c \in Callers : CallerInv(c)' BY <2>1 DEF CInv, CallerInv, Waiting, Answered
    <2>4. \A c \in Callers : Unmoved(c) BY <1>2, <2>1 DEF Unmoved, Asked
    <2> QED BY <1>4, <2>2, <2>3, <2>4 DEF CInv
  <1>6. CASE r.id \in pending
    <2>1. PICK c \in Callers : c = Route(r) /\ waits[c] = r.id
      BY <1>6 DEF CInv, ClientShape, Route
    <2>2. PICK q \in Replies : q = Read(r, reply) BY DEF Reads
    <2>3. /\ q.of = r.id /\ q.tag # "none"
          /\ q.tag = "result" => r.method = "embed" /\ q.vectors = r.texts
      BY <2>2 DEF Reads
    <2>4. /\ pending' = pending \ {r.id} /\ got' = [got EXCEPT ![c] = q]
      BY <1>6, <2>1, <2>2 DEF Dispatch
    <2>5. /\ got'[c] = q /\ \A d \in Callers \ {c} : got'[d] = got[d] /\ waits[d] # r.id
      <3>1. r.id # NoId BY DEF Requests
      <3> QED BY <1>1, <2>1, <2>4, <3>1 DEF CInv, CallerInv
    <2>6. q # NoReply BY <2>3 DEF NoReply
    <2>7. ClientShape'
      <3>1. got' \in [Callers -> Replies] BY <1>1, <2>4
      <3> QED BY <1>2, <1>3, <2>4, <3>1 DEF CInv, ClientShape
    <2>8. ASSUME NEW d \in Callers PROVE CallerInv(d)'
      <3>1. CASE d = c
        BY <3>1, <2>1, <2>3, <2>4, <2>5, <2>6 DEF CInv, CallerInv, Waiting, Answered
      <3>2. CASE d # c
        <4>1. waits[d] \in pending' <=> waits[d] \in pending BY <3>2, <2>4, <2>5
        <4> QED BY <3>2, <4>1, <2>5 DEF CInv, CallerInv, Waiting, Answered
      <3> QED BY <3>1, <3>2
    <2>9. ASSUME NEW d \in Callers PROVE Unmoved(d)
      <3>1. ASSUME NEW method, NEW texts, Asked(d, method, texts) PROVE Asked(d, method, texts)'
        <4>1. \A i \in DOMAIN pipe' :
                  pipe'[i].id = waits'[d] => pipe'[i].method = method /\ pipe'[i].texts = texts
          BY <3>1, <1>2 DEF Asked
        <4>2. got'[d].tag = "result" => method = "embed" /\ got'[d].vectors = texts
          <5>1. CASE d = c BY <5>1, <3>1, <1>2, <2>1, <2>3, <2>5 DEF Asked
          <5>2. CASE d # c BY <5>2, <3>1, <2>5 DEF Asked
          <5> QED BY <5>1, <5>2
        <4> QED BY <4>1, <4>2 DEF Asked
      <3> QED BY <3>1 DEF Unmoved
    <2> QED BY <1>4, <2>7, <2>8, <2>9 DEF CInv
  <1> QED BY <1>5, <1>6

LEMMA SpendFacts ==
  ASSUME CInv, Spend
  PROVE  faults' \in 0 .. MaxFaults
  <1>1. MaxFaults \in Nat BY EmbedDrainAssumption
  <1> QED BY <1>1 DEF CInv, ClientShape, Spend

\* Whatever the sidecar does, a caller's call is answered, pending or failed.
LEMMA SidecarKeeps ==
  ASSUME CInv, Sidecar
  PROVE  CInv' /\ \A c \in Callers : Unmoved(c)
  <1>1. CASE Answer
    <2>1. pipe # <<>> /\ pipe' = Tail(pipe) /\ UNCHANGED <<dead, waits, faults>> BY <1>1 DEF Answer
    <2>2. PICK r \in Requests : r = Head(pipe) BY <2>1, PipeFacts
    <2>3. Dispatch(r, Right(r)) BY <1>1, <2>2 DEF Answer
    <2>4. Reads(r, Right(r)) BY <2>1, <2>2, PipeFacts, ReplyFacts
    <2>5. faults' \in 0 .. MaxFaults BY <2>1 DEF CInv, ClientShape
    <2> QED BY <2>1, <2>2, <2>3, <2>4, <2>5, DispatchKeeps
  <1>2. CASE Misbehave
    <2>1. pipe # <<>> /\ pipe' = Tail(pipe) /\ UNCHANGED <<dead, waits>> BY <1>2 DEF Misbehave
    <2>2. PICK r \in Requests : r = Head(pipe) BY <2>1, PipeFacts
    <2>3. PICK reply \in Wrong(r) : Dispatch(r, reply) BY <1>2, <2>2 DEF Misbehave
    <2>4. Reads(r, reply) BY <2>1, <2>2, PipeFacts, ReplyFacts
    <2>5. faults' \in 0 .. MaxFaults BY <1>2, SpendFacts DEF Misbehave
    <2> QED BY <2>1, <2>2, <2>3, <2>4, <2>5, DispatchKeeps
  <1>3. CASE Garble
    <2>1. pipe # <<>> /\ pipe' = Tail(pipe) /\ UNCHANGED <<pending, dead, waits, got>> BY <1>3 DEF Garble
    <2>2. faults' \in 0 .. MaxFaults BY <1>3, SpendFacts DEF Garble
    <2>3. /\ pipe' \in Seq(Requests)
          /\ \A i \in DOMAIN pipe' : i + 1 \in DOMAIN pipe /\ pipe'[i] = pipe[i + 1]
      BY <2>1, PipeFacts
    <2>4. ClientShape' BY <2>1, <2>2, <2>3 DEF CInv, ClientShape
    <2>5. DeadIsEmpty' BY <2>1 DEF CInv, DeadIsEmpty
    <2>6. \A c \in Callers : CallerInv(c)' BY <2>1 DEF CInv, CallerInv, Waiting, Answered
    <2>7. \A c \in Callers : Unmoved(c) BY <2>1, <2>3 DEF Unmoved, Asked
    <2> QED BY <2>4, <2>5, <2>6, <2>7 DEF CInv
  <1>4. CASE Die
    <2>1. /\ dead' = TRUE /\ pipe' = <<>> /\ pending' = {} /\ waits' = waits
          /\ got' = [c \in Callers |-> IF waits[c] \in pending THEN Failed(waits[c]) ELSE got[c]]
      BY <1>4 DEF Die, MarkDead
    <2>2. faults' \in 0 .. MaxFaults BY <1>4, SpendFacts DEF Die
    <2>3. \A c \in Callers : waits[c] \in Nat /\ got[c] \in Replies BY DEF CInv, ClientShape
    <2>4. ASSUME NEW c \in Callers
          PROVE  /\ Failed(waits[c]) \in Replies /\ Failed(waits[c]).tag = "error"
                 /\ Failed(waits[c]).of = waits[c] /\ Failed(waits[c]) # NoReply
      BY <2>3 DEF Failed, Replies, Texts, NoReply
    <2>5. ClientShape'
      <3>1. got' \in [Callers -> Replies] BY <2>1, <2>3, <2>4
      <3> QED BY <2>1, <2>2, <3>1 DEF CInv, ClientShape
    <2>6. DeadIsEmpty' BY <2>1 DEF DeadIsEmpty
    <2>7. ASSUME NEW c \in Callers PROVE CallerInv(c)'
      BY <2>1, <2>4 DEF CInv, CallerInv, Waiting, Answered
    <2>8. ASSUME NEW c \in Callers PROVE Unmoved(c)
      BY <2>1, <2>4 DEF Unmoved, Asked
    <2> QED BY <2>5, <2>6, <2>7, <2>8 DEF CInv
  <1> QED BY <1>1, <1>2, <1>3, <1>4 DEF Sidecar

----------------------------------------------------------------------------
(* Sizes and orders *)

LEMMA Sizes ==
    /\ Threshold \in Nat \ {0} /\ BisectAfter \in Nat \ {0} /\ Configured \in Nat \ {0}
    /\ MaxBatch \in Nat /\ Budget \in Nat /\ MaxWindow \in Nat /\ Limit \in Nat /\ MaxFaults \in Nat
    /\ Clamped \in Nat \ {0} /\ Clamped <= Configured /\ (MaxBatch = 0 => Clamped = Configured)
    /\ (MaxBatch > 0 => Clamped <= MaxBatch)
    /\ Configured <= MaxBatch => Clamped = Configured
    /\ Configured > MaxBatch /\ MaxBatch > 0 => Clamped = MaxBatch
  BY EmbedDrainAssumption DEF Clamped

LEMMA RowTypes ==
    /\ Messages \subseteq Nat /\ IsFiniteSet(Messages) /\ NoVec \notin Messages
    /\ \A m \in Messages : Kind[m] \in {"plain", "bare"} /\ Score[m] \in Nat
  BY EmbedDrainAssumption, CallersAssumption

\* Both orders compare any two rows, one way only.
LEMMA OrderFacts ==
  ASSUME NEW order, order = ById \/ order = ByScore,
         NEW a \in Messages, NEW b \in Messages, NEW c \in Messages
  PROVE  /\ <<a, a>> \notin order
         /\ a # b => <<a, b>> \in order \/ <<b, a>> \in order
         /\ <<a, b>> \in order /\ <<b, c>> \in order => <<a, c>> \in order
  <1>1. a \in Nat /\ b \in Nat /\ c \in Nat /\ Score[a] \in Nat /\ Score[b] \in Nat /\ Score[c] \in Nat
    BY RowTypes
  <1>2. \A x, y \in Messages : <<x, y>> \in ById <=> x < y BY DEF ById
  <1>3. \A x, y \in Messages :
            <<x, y>> \in ByScore <=> (Score[x] > Score[y] \/ (Score[x] = Score[y] /\ x < y))
    BY DEF ByScore
  <1>4. CASE order = ById BY <1>1, <1>2, <1>4
  <1>5. CASE order = ByScore BY <1>1, <1>3, <1>5
  <1> QED BY <1>4, <1>5

\* A sorted set has each of its rows at one position.
LEMMA SortedFacts ==
  ASSUME NEW S, S \subseteq Messages, NEW order, order = ById \/ order = ByScore
  PROVE  /\ IsFiniteSet(S) /\ Cardinality(S) \in Nat
         /\ Sorted(S, order) \in Seq(S) /\ Len(Sorted(S, order)) = Cardinality(S)
         /\ \A i, j \in 1 .. Cardinality(S) : Sorted(S, order)[i] = Sorted(S, order)[j] => i = j
         /\ \A m \in S : \E i \in 1 .. Cardinality(S) : Sorted(S, order)[i] = m
  <1> DEFINE n == Cardinality(S)
             Before(m) == {k \in S : <<k, m>> \in order}
             rank(m) == Cardinality(Before(m)) + 1
             f == [m \in S |-> rank(m)]
             nth(k) == CHOOSE m \in S : Cardinality({j \in S : <<j, m>> \in order}) = k - 1
  <1>f. IsFiniteSet(S) /\ n \in Nat BY RowTypes, FS_Subset, FS_CardinalityType
  <1>b. ASSUME NEW m \in S
        PROVE  IsFiniteSet(Before(m)) /\ Cardinality(Before(m)) \in Nat /\ Cardinality(Before(m)) < n
    <2>1. m \notin Before(m) BY OrderFacts
    <2>2. IsFiniteSet(Before(m)) /\ Cardinality(Before(m)) <= n /\ Cardinality(Before(m)) # n
      BY <2>1, <1>f, FS_Subset
    <2> QED BY <2>2, <1>f, FS_CardinalityType
  <1>1. ASSUME NEW m \in S PROVE rank(m) \in 1 .. n
    <2>1. Cardinality(Before(m)) \in Nat /\ Cardinality(Before(m)) < n BY <1>b
    <2> HIDE DEF Before, n
    <2> QED BY <2>1, <1>f
  <1>2. ASSUME NEW a \in S, NEW b \in S, <<a, b>> \in order PROVE rank(a) # rank(b)
    <2>1. Before(a) \subseteq Before(b)
      <3> SUFFICES ASSUME NEW k \in S, <<k, a>> \in order PROVE <<k, b>> \in order OBVIOUS
      <3> QED BY <1>2, OrderFacts
    <2>2. a \in Before(b) /\ a \notin Before(a) BY <1>2, OrderFacts
    <2>3. Cardinality(Before(a)) # Cardinality(Before(b)) BY <2>1, <2>2, <1>b, FS_Subset
    <2> HIDE DEF Before
    <2> QED BY <2>3, <1>b
  <1>3. ASSUME NEW a \in S, NEW b \in S, rank(a) = rank(b) PROVE a = b
    <2>1. a \in Messages /\ b \in Messages OBVIOUS
    <2>2. a # b => <<a, b>> \in order \/ <<b, a>> \in order BY <2>1, OrderFacts
    <2> HIDE DEF rank
    <2> QED BY <1>2, <1>3, <2>2
  <1>4. f \in Injection(S, 1 .. n) BY <1>1, <1>3 DEF Injection, IsInjective
  <1>5. IsFiniteSet(1 .. n) /\ Cardinality(1 .. n) = n BY <1>f, UpTo
  <1>6. f \in Surjection(S, 1 .. n) BY <1>4, <1>5, FS_Injection
  <1>7. \A k \in 1 .. n : \E m \in S : rank(m) = k BY <1>6 DEF Surjection
  <1>8. ASSUME NEW k \in 1 .. n PROVE nth(k) \in S /\ rank(nth(k)) = k
    <2>1. PICK m \in S : rank(m) = k BY <1>7
    <2>2. Cardinality(Before(m)) = k - 1 BY <2>1, <1>b
    <2>3. nth(k) \in S /\ Cardinality(Before(nth(k))) = k - 1 BY <2>2
    <2> HIDE DEF nth, Before
    <2> QED BY <2>3
  <1>9. ASSUME NEW m \in S PROVE nth(rank(m)) = m /\ rank(m) \in 1 .. n
    BY <1>1, <1>3, <1>8
  <1>10. Sorted(S, order) = [k \in 1 .. n |-> nth(k)] BY DEF Sorted
  <1> HIDE DEF nth, rank
  <1>11. Sorted(S, order) \in [1 .. n -> S] BY <1>8, <1>10
  <1>12. Sorted(S, order) \in Seq(S) /\ Len(Sorted(S, order)) = n BY <1>11, <1>f
  <1>13. \A i, j \in 1 .. n : Sorted(S, order)[i] = Sorted(S, order)[j] => i = j BY <1>8, <1>10
  <1>14. \A m \in S : \E i \in 1 .. n : Sorted(S, order)[i] = m BY <1>9, <1>10
  <1> QED BY <1>f, <1>12, <1>13, <1>14

\* What is cut from a list without repetitions has none.
LEMMA PrefixFacts ==
  ASSUME NEW q \in Rows, \A i, j \in 1 .. Len(q) : q[i] = q[j] => i = j, NEW n \in Nat, n <= Len(q)
  PROVE  /\ SubSeq(q, 1, n) \in Rows /\ Len(SubSeq(q, 1, n)) = n
         /\ Cardinality(ToSet(SubSeq(q, 1, n))) = n
         /\ n = Len(q) => SubSeq(q, 1, n) = q
  <1>1. PICK p : p = SubSeq(q, 1, n) OBVIOUS
  <1>2. p \in Rows /\ Len(p) = n /\ DOMAIN p = 1 .. n /\ \A i \in 1 .. n : p[i] = q[i] BY <1>1 DEF Rows
  <1> DEFINE T == ToSet(p)
             f == [i \in 1 .. n |-> p[i]]
  <1>3. f \in Surjection(1 .. n, T) BY <1>2 DEF Surjection, ToSet
  <1>4. f \in Injection(1 .. n, T)
    <2>1. f \in [1 .. n -> T] BY <1>2 DEF ToSet
    <2>2. ASSUME NEW i \in 1 .. n, NEW j \in 1 .. n, f[i] = f[j] PROVE i = j
      <3>1. i \in 1 .. Len(q) /\ j \in 1 .. Len(q) /\ q[i] = q[j] BY <2>2, <1>2 DEF Rows
      <3> QED BY <3>1
    <2> QED BY <2>1, <2>2 DEF Injection, IsInjective
  <1>5. Cardinality(T) = n BY <1>3, <1>4, UpTo, FS_Surjection
  <1>6. n = Len(q) => p = q BY <1>2 DEF Rows
  <1> QED BY <1>1, <1>2, <1>5, <1>6

----------------------------------------------------------------------------
(* What the steps leave alone *)

\* A step of somebody else leaves the worker's part.
LEMMA WorkerKept ==
  ASSUME WorkerInv, w' = w, Unmoved(Drain)
  PROVE  WorkerInv'
  BY DEF WorkerInv, Unmoved

\* A step of somebody else leaves the search's part; the worker's first one lets it begin.
LEMMA SearchKept ==
  ASSUME SearchInv, s' = s, w'.pc = "boot" => w.pc = "boot", waits'[Search] = waits[Search]
  PROVE  SearchInv'
  BY DEF SearchInv, MatchesKept

\* A step of the search keeps its part when what it answers is right.
LEMMA SearchMoves ==
  ASSUME s' \in Searches, w'.pc # "boot", s'.pc = "answered" => s'.mode = "lexical"
  PROVE  SearchInv'
  BY DEF SearchInv, MatchesKept

LEMMA TablesKept ==
  ASSUME TablesInv, UNCHANGED <<status, vec, permit, cool, window, cancel>>
  PROVE  TablesInv'
  BY DEF TablesInv, VectorsTrue, NeverWronglyFailed

\* Another step of the tables keeps their part when it retires and embeds the right rows.
LEMMA TablesMove ==
  ASSUME TablesInv, status' \in [Messages -> {"none", "pending", "failed"}],
         \A m \in Messages : vec'[m] \in {NoVec, m}, vec' \in [Messages -> Messages \cup {NoVec}],
         \A m \in Messages : status'[m] = "failed" => Kind[m] = "bare",
         permit' \in BOOLEAN, cool' \in BOOLEAN, cancel' \in BOOLEAN, window' \in 0 .. MaxWindow
  PROVE  TablesInv'
  BY DEF TablesInv, VectorsTrue, NeverWronglyFailed

LEMMA ClientKept ==
  ASSUME CInv, UNCHANGED clientVars
  PROVE  CInv' /\ \A c \in Callers : Unmoved(c)
  <1>1. UNCHANGED <<pipe, pending, dead, waits, got, faults>> BY DEF clientVars
  <1> QED BY <1>1 DEF CInv, ClientShape, DeadIsEmpty, CallerInv, Waiting, Answered, Unmoved, Asked

\* A fault elsewhere leaves the client.
LEMMA ClientSpends ==
  ASSUME CInv, Spend, UNCHANGED <<pipe, pending, dead, waits, got>>
  PROVE  CInv' /\ \A c \in Callers : Unmoved(c)
  <1>1. faults' \in 0 .. MaxFaults BY SpendFacts
  <1> QED BY <1>1 DEF CInv, ClientShape, DeadIsEmpty, CallerInv, Waiting, Answered, Unmoved, Asked

----------------------------------------------------------------------------
(* The tables' own steps *)

LEMMA TableSteps ==
  ASSUME EInv, \/ \E m \in Messages : Arrives(m) \/ Deleted(m)
               \/ Purge \/ CoolsOff \/ Shutdown \/ (Sidecar /\ UNCHANGED drainVars) \/ UNCHANGED vars
  PROVE  EInv'
  <1>0. CInv /\ WorkerInv /\ SearchInv /\ TablesInv BY DEF EInv
  <1>t. /\ status \in [Messages -> {"none", "pending", "failed"}]
        /\ vec \in [Messages -> Messages \cup {NoVec}]
        /\ permit \in BOOLEAN /\ cool \in BOOLEAN /\ cancel \in BOOLEAN /\ window \in 0 .. MaxWindow
        /\ \A m \in Messages : vec[m] \in {NoVec, m} /\ (status[m] = "failed" => Kind[m] = "bare")
    BY <1>0 DEF TablesInv, VectorsTrue, NeverWronglyFailed
  <1>k. ASSUME CInv', \A c \in Callers : Unmoved(c), w' = w, s' = s, TablesInv' PROVE EInv'
    <2>1. Unmoved(Drain) /\ waits'[Search] = waits[Search] BY <1>k, TheCallers DEF Unmoved
    <2> QED BY <1>0, <1>k, <2>1, WorkerKept, SearchKept DEF EInv
  <1>1. ASSUME NEW m \in Messages, Arrives(m) PROVE EInv'
    <2>1. /\ UNCHANGED <<clientVars, vec, w, s, cool, window, cancel>>
          /\ status' = [status EXCEPT ![m] = "pending"] /\ permit' = TRUE
      BY <1>1 DEF Arrives
    <2>2. status' \in [Messages -> {"none", "pending", "failed"}]
          /\ \A k \in Messages : status'[k] = "failed" => Kind[k] = "bare"
      BY <2>1, <1>t
    <2>3. TablesInv' BY <2>1, <2>2, <1>0, <1>t, TablesMove
    <2> QED BY <2>1, <2>3, <1>0, <1>k, ClientKept
  <1>2. ASSUME NEW m \in Messages, Deleted(m) PROVE EInv'
    <2>1. /\ UNCHANGED <<pipe, pending, dead, waits, got, vec, permit, w, s, cool, window, cancel>>
          /\ status' = [status EXCEPT ![m] = "none"] /\ Spend
      BY <1>2 DEF Deleted
    <2>2. status' \in [Messages -> {"none", "pending", "failed"}]
          /\ \A k \in Messages : status'[k] = "failed" => Kind[k] = "bare"
      BY <2>1, <1>t
    <2>3. TablesInv' BY <2>1, <2>2, <1>0, <1>t, TablesMove
    <2> QED BY <2>1, <2>3, <1>0, <1>k, ClientSpends
  <1>3. CASE Purge
    <2>1. /\ UNCHANGED <<pipe, pending, dead, waits, got, status, permit, w, s, cool, window, cancel>>
          /\ vec' = [m \in Messages |-> NoVec] /\ Spend
      BY <1>3 DEF Purge
    <2>2. vec' \in [Messages -> Messages \cup {NoVec}] /\ \A m \in Messages : vec'[m] \in {NoVec, m}
      BY <2>1
    <2>3. TablesInv' BY <2>1, <2>2, <1>0, <1>t, TablesMove
    <2> QED BY <2>1, <2>3, <1>0, <1>k, ClientSpends
  <1>4. CASE CoolsOff
    <2>1. UNCHANGED <<clientVars, status, vec, permit, w, s, window, cancel>> /\ cool' = FALSE
      BY <1>4 DEF CoolsOff
    <2>2. TablesInv' BY <2>1, <1>0, <1>t, TablesMove
    <2> QED BY <2>1, <2>2, <1>0, <1>k, ClientKept
  <1>5. CASE Shutdown
    <2>1. UNCHANGED <<clientVars, status, vec, permit, w, s, cool, window>> /\ cancel' = TRUE
      BY <1>5 DEF Shutdown
    <2>2. TablesInv' BY <2>1, <1>0, <1>t, TablesMove
    <2> QED BY <2>1, <2>2, <1>0, <1>k, ClientKept
  <1>6. CASE Sidecar /\ UNCHANGED drainVars
    <2>1. UNCHANGED <<status, vec, permit, w, s, cool, window, cancel>> BY <1>6 DEF drainVars
    <2> QED BY <2>1, <1>0, <1>6, <1>k, SidecarKeeps, TablesKept
  <1>7. CASE UNCHANGED vars
    <2>1. UNCHANGED <<clientVars, status, vec, permit, w, s, cool, window, cancel>>
      BY <1>7 DEF vars, drainVars
    <2> QED BY <2>1, <1>0, <1>k, ClientKept, TablesKept
  <1> QED BY <1>1, <1>2, <1>3, <1>4, <1>5, <1>6, <1>7

----------------------------------------------------------------------------
(* The worker *)

\* A failure puts the worker back to sleep, in notify-only mode when it was one too many.
LEMMA FailingFacts ==
  ASSUME NEW x \in Workers, x.fails < Threshold
  PROVE  /\ Failing(x) \in Workers /\ Failing(x).pc = "select"
         /\ ~Failing(x).notifyOnly => Failing(x).fails < Threshold
  <1>1. x.fails \in Nat /\ Threshold \in Nat BY Sizes DEF Workers
  <1>2. <<>> \in Rows /\ <<>> \in Texts BY DEF Rows, Texts
  <1> DEFINE b == x.fails + 1 >= Threshold
  <1>3. b \in BOOLEAN OBVIOUS
  <1>4. Failing(x) = [x EXCEPT !.pc = "select", !.rows = <<>>, !.vecs = <<>>, !.fails = @ + 1, !.notifyOnly = b]
    BY DEF Failing
  <1>5. x.fails + 1 \in 0 .. Threshold BY <1>1
  <1>7. ~b => x.fails + 1 < Threshold BY <1>1
  <1> HIDE DEF b
  <1>6. /\ Failing(x) \in Workers /\ Failing(x).pc = "select"
        /\ Failing(x).notifyOnly = b /\ Failing(x).fails = x.fails + 1
    BY <1>2, <1>3, <1>4, <1>5 DEF Workers
  <1> QED BY <1>6, <1>7

\* A worker that neither embeds nor writes has nothing in its hands.
LEMMA WorkerRests ==
  ASSUME w' \in Workers, w'.pc \notin {"embed", "write"},
         w'.notifyOnly => w'.pc \in {"select", "stopped"}, ~w'.notifyOnly => w'.fails < Threshold
  PROVE  WorkerInv'
  BY DEF WorkerInv

\* A step of the worker that the search does not see.
LEMMA WorkerMoves ==
  ASSUME EInv, CInv', WorkerInv', TablesInv', s' = s, w'.pc # "boot"
  PROVE  EInv'
  BY DEF EInv, SearchInv, MatchesKept

LEMMA WorkerAlone ==
  ASSUME EInv, Stop \/ FetchFails \/ Write
  PROVE  EInv'
  <1>0. CInv /\ WorkerInv /\ SearchInv /\ TablesInv /\ w \in Workers BY DEF EInv, WorkerInv
  <1>e. <<>> \in Rows /\ <<>> \in Texts BY DEF Rows, Texts
  <1>1. CASE Stop
    <2>1. /\ w.pc = "select" /\ w' = [w EXCEPT !.pc = "stopped"]
          /\ UNCHANGED <<clientVars, permit, status, vec, s, cool, window, cancel>>
      BY <1>1 DEF Stop, WorkerOnly
    <2>2. w' \in Workers /\ w'.pc = "stopped" /\ w'.notifyOnly = w.notifyOnly /\ w'.fails = w.fails
      BY <2>1, <1>0 DEF Workers
    <2>3. WorkerInv' BY <2>2, <1>0, WorkerRests DEF WorkerInv
    <2>4. CInv' /\ TablesInv' BY <2>1, <1>0, ClientKept, TablesKept
    <2> QED BY <2>1, <2>2, <2>3, <2>4, WorkerMoves
  <1>2. CASE FetchFails
    <2>1. /\ w.pc = "fetch" /\ w' = Failing(w) /\ Spend
          /\ UNCHANGED <<permit, pipe, pending, dead, waits, got, status, vec, s, cool, window, cancel>>
      BY <1>2 DEF FetchFails, WorkerOnly
    <2>2. w.fails < Threshold BY <2>1, <1>0 DEF WorkerInv
    <2>3. WorkerInv' /\ w'.pc # "boot" BY <2>1, <2>2, <1>0, FailingFacts, WorkerRests
    <2>4. CInv' /\ TablesInv' BY <2>1, <1>0, ClientSpends, TablesKept
    <2> QED BY <2>1, <2>3, <2>4, WorkerMoves
  <1>3. CASE Write
    <2>1. /\ w.pc = "write" /\ ~w.notifyOnly /\ w.fails < Threshold /\ w.vecs = w.rows
          /\ UNCHANGED <<status, permit, s, cool, window, cancel, pipe, pending, dead, waits, got>>
      BY <1>3, <1>0 DEF Write, WorkerInv
    <2>2. CASE WriteBatch(w.rows, w.vecs) /\ UNCHANGED faults
               /\ w' = [w EXCEPT !.pc = "select", !.rows = <<>>, !.vecs = <<>>, !.size = Grown(@)]
      <3>1. w.size \in 1 .. Clamped /\ w.rows \in Rows BY <1>0 DEF Workers
      <3>2. Grown(w.size) \in 1 .. Clamped BY <3>1, Sizes DEF Grown
      <3>3. /\ w' \in Workers /\ w'.pc = "select" /\ w'.notifyOnly = w.notifyOnly /\ w'.fails = w.fails
        BY <2>2, <3>2, <1>0, <1>e DEF Workers
      <3>4. WorkerInv' BY <3>3, <2>1, WorkerRests
      <3>5. CInv'
        <4>1. UNCHANGED clientVars BY <2>1, <2>2 DEF clientVars
        <4> QED BY <4>1, <1>0, ClientKept
      <3>6. ASSUME NEW m \in Messages PROVE vec'[m] \in {NoVec, m}
        <4> DEFINE at == {i \in DOMAIN w.rows : i <= Len(w.vecs) /\ w.rows[i] = m}
        <4>1. vec'[m] = IF at = {} THEN vec[m] ELSE w.vecs[CHOOSE i \in at : TRUE]
          BY <2>2 DEF WriteBatch
        <4>2. CASE at = {} BY <4>1, <4>2, <1>0 DEF TablesInv, VectorsTrue
        <4>3. CASE at # {}
          <5>1. PICK i \in at : vec'[m] = w.vecs[i] BY <4>1, <4>3
          <5>2. w.rows[i] = m BY <5>1
          <5> QED BY <5>1, <5>2, <2>1
        <4> QED BY <4>2, <4>3
      <3>7. vec' \in [Messages -> Messages \cup {NoVec}]
        <4>1. vec' = [m \in Messages |-> vec'[m]] BY <2>2 DEF WriteBatch
        <4> QED BY <3>6, <4>1
      <3>8. TablesInv'
        <4>1. /\ status \in [Messages -> {"none", "pending", "failed"}]
              /\ \A m \in Messages : status[m] = "failed" => Kind[m] = "bare"
              /\ permit \in BOOLEAN /\ cool \in BOOLEAN /\ cancel \in BOOLEAN /\ window \in 0 .. MaxWindow
          BY <1>0 DEF TablesInv, NeverWronglyFailed
        <4> QED BY <2>1, <3>6, <3>7, <4>1, <1>0, TablesMove
      <3> QED BY <2>1, <3>3, <3>4, <3>5, <3>8, WorkerMoves
    <2>3. CASE Spend /\ w' = Failing(w) /\ UNCHANGED vec
      <3>1. WorkerInv' /\ w'.pc # "boot" BY <2>1, <2>3, <1>0, FailingFacts, WorkerRests
      <3>2. CInv' /\ TablesInv' BY <2>1, <2>3, <1>0, ClientSpends, TablesKept
      <3> QED BY <2>1, <3>1, <3>2, WorkerMoves
    <2> QED BY <1>3, <2>2, <2>3 DEF Write
  <1> QED BY <1>1, <1>2, <1>3

LEMMA WorkerBoots ==
  ASSUME EInv, BootDone \/ BootTimesOut
  PROVE  EInv'
  <1>0. CInv /\ WorkerInv /\ SearchInv /\ TablesInv /\ w \in Workers BY DEF EInv, WorkerInv
  <1>1. w.pc = "boot" /\ ~w.notifyOnly /\ w.fails < Threshold
    BY <1>0 DEF BootDone, BootTimesOut, WorkerInv
  <1>2. UNCHANGED <<status, vec, s, cool, window, cancel, permit, faults>>
    BY DEF BootDone, BootTimesOut, WorkerOnly
  <1>3. PICK pc \in {"off", "select"} : w' = [w EXCEPT !.pc = pc] BY DEF BootDone, BootTimesOut
  <1>4. w' \in Workers /\ w'.pc = pc /\ w'.notifyOnly = w.notifyOnly /\ w'.fails = w.fails
    BY <1>0, <1>3 DEF Workers
  <1>5. WorkerInv' BY <1>1, <1>4, WorkerRests
  <1>6. TablesInv' BY <1>0, <1>2, TablesKept
  <1>7. CASE BootDone
    <2>1. Release(Drain) BY <1>7 DEF BootDone
    <2>2. CInv' BY <2>1, <1>0, <1>2, TheCallers, ReleaseKeeps
    <2> QED BY <2>2, <1>2, <1>4, <1>5, <1>6, WorkerMoves
  <1>8. CASE BootTimesOut
    <2>1. /\ got[Drain] = NoReply /\ pipe' = <<>> /\ pending' = {} /\ dead' = TRUE /\ got' = got
          /\ waits' = [waits EXCEPT ![Drain] = NoId]
      BY <1>8 DEF BootTimesOut, Answered
    <2>2. waits \in [Callers -> Nat] BY <1>0 DEF CInv, ClientShape
    <2>3. waits' \in [Callers -> Nat] /\ waits'[Drain] = NoId /\ waits'[Search] = NoId
          /\ waits[Search] = NoId
      BY <2>1, <2>2, <1>0, <1>1, TheCallers DEF SearchInv, NoId
    <2>4. ClientShape' BY <2>1, <2>3, <1>0, <1>2 DEF CInv, ClientShape
    <2>5. DeadIsEmpty' BY <2>1 DEF DeadIsEmpty
    <2>6. CallerInv(Drain)' /\ CallerInv(Search)'
      BY <2>1, <2>3, <1>0, TheCallers DEF CInv, CallerInv, Waiting, Answered
    <2>7. CInv' BY <2>4, <2>5, <2>6, TheCallers DEF CInv
    <2> QED BY <2>7, <1>2, <1>4, <1>5, <1>6, WorkerMoves
  <1> QED BY <1>7, <1>8

LEMMA WorkerWakes ==
  ASSUME EInv, Wake \/ HealthSeen
  PROVE  EInv'
  <1>0. CInv /\ WorkerInv /\ SearchInv /\ TablesInv /\ w \in Workers BY DEF EInv, WorkerInv
  <1>1. UNCHANGED <<status, vec, s, cool, window, cancel, faults>>
    BY DEF Wake, HealthSeen, WorkerOnly
  <1>t. /\ status \in [Messages -> {"none", "pending", "failed"}] /\ permit \in BOOLEAN
        /\ vec \in [Messages -> Messages \cup {NoVec}]
        /\ cool \in BOOLEAN /\ cancel \in BOOLEAN /\ window \in 0 .. MaxWindow
        /\ \A m \in Messages : vec[m] \in {NoVec, m} /\ (status[m] = "failed" => Kind[m] = "bare")
    BY <1>0 DEF TablesInv, VectorsTrue, NeverWronglyFailed
  <1>2. CASE Wake
    <2>1. w.pc = "select" /\ w' = Wakes(w) /\ Call(Drain, "health", <<>>) BY <1>2 DEF Wake
    <2>2. CInv'
      <3>1. <<>> \in Texts BY DEF Texts
      <3> QED BY <2>1, <3>1, <1>0, <1>1, TheCallers, CallKeeps DEF Methods
    <2>3. w' \in Workers /\ w'.pc = "health" /\ ~w'.notifyOnly /\ w'.fails < Threshold
      <3>1. w.fails \in 0 .. Threshold /\ Threshold \in Nat \ {0} BY <1>0, Sizes DEF Workers
      <3>2. CASE w.notifyOnly
        <4>1. w' = [w EXCEPT !.fails = 0, !.pc = "health", !.notifyOnly = FALSE]
          BY <2>1, <3>2, <1>0 DEF Wakes, Reset, Workers
        <4>2. 0 \in 0 .. Threshold /\ 0 < Threshold BY <3>1
        <4>3. w' \in Workers /\ w'.pc = "health" /\ w'.notifyOnly = FALSE /\ w'.fails = 0
          BY <4>1, <4>2, <1>0 DEF Workers
        <4> QED BY <4>2, <4>3
      <3>3. CASE ~w.notifyOnly
        <4>1. w' = [w EXCEPT !.pc = "health"] BY <2>1, <3>3 DEF Wakes
        <4> QED BY <4>1, <3>3, <1>0 DEF Workers, WorkerInv
      <3> QED BY <3>2, <3>3
    <2>4. WorkerInv' BY <2>3, WorkerRests
    <2>5. permit' \in BOOLEAN
      <3>1. PICK notified \in BOOLEAN : permit' = (permit /\ ~notified) BY <1>2 DEF Wake
      <3> QED BY <3>1, <1>t
    <2>6. TablesInv' BY <2>5, <1>0, <1>1, <1>t, TablesMove
    <2> QED BY <1>1, <2>2, <2>3, <2>4, <2>6, WorkerMoves
  <1>3. CASE HealthSeen
    <2>1. w.pc = "health" /\ ~w.notifyOnly /\ w.fails < Threshold /\ Release(Drain) /\ permit' = permit
      BY <1>0, <1>3 DEF HealthSeen, WorkerInv
    <2>2. CInv' BY <2>1, <1>0, <1>1, TheCallers, ReleaseKeeps
    <2>3. TablesInv' BY <2>1, <1>0, <1>1, TablesKept
    <2>4. /\ w' \in Workers /\ w'.pc \in {"fetch", "select"}
          /\ w'.notifyOnly => w'.pc = "select"
          /\ ~w'.notifyOnly => w'.fails < Threshold
      <3>1. CASE w' = [w EXCEPT !.pc = "fetch", !.loading = FALSE] BY <2>1, <3>1, <1>0 DEF Workers
      <3>2. CASE w' = [w EXCEPT !.pc = "select", !.loading = TRUE] BY <2>1, <3>2, <1>0 DEF Workers
      <3>3. CASE w' = Failing(w) BY <2>1, <3>3, <1>0, FailingFacts
      <3>4. CASE w' = Failing([w EXCEPT !.loading = FALSE])
        <4>1. PICK x : x = [w EXCEPT !.loading = FALSE] OBVIOUS
        <4>2. x \in Workers /\ x.fails = w.fails BY <4>1, <1>0 DEF Workers
        <4> QED BY <2>1, <3>4, <4>1, <4>2, FailingFacts
      <3> QED BY <1>3, <3>1, <3>2, <3>3, <3>4 DEF HealthSeen
    <2>5. WorkerInv' BY <2>4, WorkerRests
    <2> QED BY <1>1, <2>2, <2>3, <2>4, <2>5, WorkerMoves
  <1> QED BY <1>2, <1>3

LEMMA WorkerFetches ==
  ASSUME EInv, Fetch
  PROVE  EInv'
  <1>0. CInv /\ WorkerInv /\ SearchInv /\ TablesInv /\ w \in Workers BY DEF EInv, WorkerInv
  <1>1. /\ w.pc = "fetch" /\ ~w.notifyOnly /\ w.fails < Threshold
        /\ UNCHANGED <<vec, permit, s, cool, window, cancel>>
    BY <1>0 DEF Fetch, WorkerInv
  <1>t. /\ status \in [Messages -> {"none", "pending", "failed"}] /\ permit \in BOOLEAN
        /\ vec \in [Messages -> Messages \cup {NoVec}]
        /\ cool \in BOOLEAN /\ cancel \in BOOLEAN /\ window \in 0 .. MaxWindow
        /\ \A m \in Messages : vec[m] \in {NoVec, m} /\ (status[m] = "failed" => Kind[m] = "bare")
    BY <1>0 DEF TablesInv, VectorsTrue, NeverWronglyFailed
  <1> DEFINE rows == Oldest(PendingRows, w.size)
             texts == Sorted(Valid(rows), ById)
  <1>2. /\ status' = [m \in Messages |-> IF Kind[m] = "bare" /\ m \in rows THEN "failed" ELSE status[m]]
        /\ IF texts = <<>>
           THEN w' = [w EXCEPT !.pc = "select"] /\ UNCHANGED clientVars
           ELSE /\ w' = [w EXCEPT !.pc = "embed", !.rows = texts]
                /\ Call(Drain, "embed", texts) /\ UNCHANGED faults
    BY DEF Fetch
  <1>3. Valid(rows) \subseteq Messages BY DEF Valid, Oldest, PendingRows
  <1>4. texts \in Rows /\ texts \in Texts
    <2>1. texts \in Seq(Valid(rows)) BY <1>3, SortedFacts
    <2> HIDE DEF texts, rows
    <2> QED BY <2>1, <1>3 DEF Rows, Texts
  <1>5. TablesInv'
    <2> HIDE DEF rows
    <2>1. /\ status' \in [Messages -> {"none", "pending", "failed"}]
          /\ \A m \in Messages : status'[m] = "failed" => Kind[m] = "bare"
      BY <1>2, <1>t
    <2> QED BY <2>1, <1>0, <1>1, <1>t, TablesMove
  <1> HIDE DEF texts, rows
  <1>6. CASE texts = <<>>
    <2>1. w' = [w EXCEPT !.pc = "select"] /\ UNCHANGED clientVars BY <1>2, <1>6
    <2>2. w' \in Workers /\ w'.pc = "select" /\ w'.notifyOnly = w.notifyOnly /\ w'.fails = w.fails
      BY <2>1, <1>0 DEF Workers
    <2>3. WorkerInv' BY <2>2, <1>1, WorkerRests
    <2>4. CInv' BY <2>1, <1>0, ClientKept
    <2> QED BY <1>1, <1>5, <2>2, <2>3, <2>4, WorkerMoves
  <1>7. CASE texts # <<>>
    <2>1. /\ w' = [w EXCEPT !.pc = "embed", !.rows = texts]
          /\ Call(Drain, "embed", texts) /\ UNCHANGED faults
      BY <1>2, <1>7
    <2>2. PICK q \in Rows : q = texts BY <1>4
    <2>3. CInv' /\ Asked(Drain, "embed", q)'
      BY <2>1, <2>2, <1>0, <1>4, <1>7, TheCallers, CallKeeps DEF Methods
    <2>4. /\ w' \in Workers /\ w'.pc = "embed" /\ w'.notifyOnly = w.notifyOnly
          /\ w'.fails = w.fails /\ w'.rows = q
      BY <2>1, <2>2, <1>0 DEF Workers
    <2>5. WorkerInv' BY <2>3, <2>4, <1>1 DEF WorkerInv, Asked
    <2> QED BY <1>1, <1>5, <2>3, <2>4, <2>5, WorkerMoves
  <1> QED BY <1>6, <1>7

\* The tracker of failed batches keeps no more than the batch and its count.
LEMMA BisectsFacts ==
  ASSUME NEW x \in Workers, x.fails < Threshold, ~x.notifyOnly
  PROVE  /\ Bisects(x) \in Workers /\ Bisects(x).pc = "select"
         /\ ~Bisects(x).notifyOnly => Bisects(x).fails < Threshold
  <1>e. <<>> \in Rows /\ <<>> \in Texts BY DEF Rows, Texts
  <1>1. PICK y : y = Observed(x) OBVIOUS
  <1>2. y \in Workers /\ y.fails = x.fails
    <2>1. y = [x EXCEPT !.same = @ + 1] \/ y = [x EXCEPT !.last = x.rows, !.same = 1]
      BY <1>1 DEF Observed
    <2>2. x.same + 1 \in Nat /\ 1 \in Nat BY DEF Workers
    <2>3. CASE y = [x EXCEPT !.same = @ + 1] BY <2>2, <2>3 DEF Workers
    <2>4. CASE y = [x EXCEPT !.last = x.rows, !.same = 1] BY <2>2, <2>4 DEF Workers
    <2> QED BY <2>1, <2>3, <2>4
  <1>3. CASE x.last = x.rows /\ y.same >= BisectAfter
    <2>1. PICK n : n = (IF x.size > 1 THEN x.size \div 2 ELSE 1) OBVIOUS
    <2>2. n \in 1 .. Clamped
      <3>1. x.size \in 1 .. Clamped /\ Clamped \in Nat BY Sizes DEF Workers
      <3> QED BY <2>1, <3>1
    <2>3. Bisects(x) = [[x EXCEPT !.fails = 0] EXCEPT !.pc = "select", !.rows = <<>>, !.last = <<>>, !.same = 0,
                          !.size = IF @ > 1 THEN @ \div 2 ELSE 1]
      BY <1>1, <1>3 DEF Bisects, Reset
    <2>4. Bisects(x) = [x EXCEPT !.fails = 0, !.pc = "select", !.rows = <<>>, !.last = <<>>, !.same = 0, !.size = n]
      BY <2>1, <2>3 DEF Workers
    <2>5. 0 \in 0 .. Threshold /\ 0 < Threshold BY Sizes
    <2>6. Bisects(x) = [pc |-> "select", rows |-> <<>>, vecs |-> x.vecs, size |-> n, fails |-> 0,
                        notifyOnly |-> x.notifyOnly, loading |-> x.loading, last |-> <<>>, same |-> 0]
      BY <2>4 DEF Workers
    <2>7. x.vecs \in Texts /\ x.notifyOnly \in BOOLEAN /\ x.loading \in BOOLEAN BY DEF Workers
    <2>8. Bisects(x) \in Workers /\ Bisects(x).pc = "select" /\ Bisects(x).fails = 0
      BY <2>2, <2>5, <2>6, <2>7, <1>e DEF Workers
    <2> QED BY <2>5, <2>8
  <1>4. CASE ~(x.last = x.rows /\ y.same >= BisectAfter)
    <2>1. Bisects(x) = Failing(y) BY <1>1, <1>4 DEF Bisects
    <2> QED BY <2>1, <1>2, FailingFacts
  <1> QED BY <1>3, <1>4

LEMMA WorkerEmbeds ==
  ASSUME EInv, EmbedFails \/ EmbedWorks
  PROVE  EInv'
  <1>0. CInv /\ WorkerInv /\ SearchInv /\ TablesInv /\ w \in Workers BY DEF EInv, WorkerInv
  <1>e. <<>> \in Rows /\ <<>> \in Texts BY DEF Rows, Texts
  <1>1. /\ w.pc = "embed" /\ ~w.notifyOnly /\ w.fails < Threshold /\ Asked(Drain, "embed", w.rows)
        /\ Release(Drain) /\ UNCHANGED <<vec, s, cancel, permit, faults>>
    BY <1>0 DEF EmbedFails, EmbedWorks, WorkerInv
  <1>2. CInv' BY <1>0, <1>1, TheCallers, ReleaseKeeps
  <1>3. CASE EmbedFails
    <2>1. status' = status /\ UNCHANGED <<cool, window>> BY <1>3 DEF EmbedFails, KeepsRow
    <2>2. TablesInv' BY <2>1, <1>0, <1>1, TablesKept
    <2>3. w' \in Workers /\ w'.pc = "select" /\ (~w'.notifyOnly => w'.fails < Threshold)
      <3>1. CASE Len(w.rows) = 1
        <4>1. PICK x : x = [w EXCEPT !.last = <<>>, !.same = 0] OBVIOUS
        <4>2. x \in Workers /\ x.fails = w.fails BY <4>1, <1>0, <1>e DEF Workers
        <4>3. w' = Failing(x) BY <1>3, <3>1, <4>1 DEF EmbedFails
        <4> QED BY <1>1, <4>2, <4>3, FailingFacts
      <3>2. CASE Len(w.rows) # 1
        <4>1. w' = Bisects(w) BY <1>3, <3>2 DEF EmbedFails
        <4> QED BY <1>0, <1>1, <4>1, BisectsFacts
      <3> QED BY <3>1, <3>2
    <2>4. WorkerInv' BY <2>3, WorkerRests
    <2> QED BY <1>1, <1>2, <2>2, <2>3, <2>4, WorkerMoves
  <1>4. CASE EmbedWorks
    <2>1. /\ got[Drain].tag = "result" /\ status' = status /\ cool' = FALSE /\ window' = 0
          /\ w' = [Reset(w) EXCEPT !.pc = "write", !.last = <<>>, !.same = 0, !.vecs = got[Drain].vectors]
      BY <1>4 DEF EmbedWorks, CooldownReset
    <2>2. PICK q \in Texts : q = got[Drain].vectors /\ q = w.rows
      <3>1. got[Drain].vectors = w.rows BY <1>1, <2>1 DEF Asked
      <3>2. w.rows \in Texts BY <1>0 DEF Workers, Rows, Texts
      <3> QED BY <3>1, <3>2
    <2>3. /\ w' \in Workers /\ w'.pc = "write" /\ w'.vecs = q /\ w'.rows = w.rows
          /\ w'.notifyOnly = w.notifyOnly /\ w'.fails = 0
      <3>1. 0 \in 0 .. Threshold /\ 0 < Threshold BY Sizes
      <3>2. w' = [w EXCEPT !.fails = 0, !.pc = "write", !.last = <<>>, !.same = 0, !.vecs = q]
        BY <2>1, <2>2, <1>0 DEF Workers, Reset
      <3> QED BY <3>1, <3>2, <1>0, <1>e DEF Workers
    <2>4. WorkerInv' BY <2>2, <2>3, <1>1, Sizes DEF WorkerInv
    <2>5. TablesInv'
      <3>1. /\ status \in [Messages -> {"none", "pending", "failed"}] /\ permit \in BOOLEAN
            /\ vec \in [Messages -> Messages \cup {NoVec}] /\ cancel \in BOOLEAN /\ 0 \in 0 .. MaxWindow
            /\ \A m \in Messages : vec[m] \in {NoVec, m} /\ (status[m] = "failed" => Kind[m] = "bare")
        BY <1>0, Sizes DEF TablesInv, VectorsTrue, NeverWronglyFailed
      <3> QED BY <2>1, <3>1, <1>0, <1>1, TablesMove
    <2> QED BY <1>1, <1>2, <2>3, <2>4, <2>5, WorkerMoves
  <1> QED BY <1>3, <1>4

----------------------------------------------------------------------------
(* The search *)

LEMMA SearchStep ==
  ASSUME EInv, CInv', Unmoved(Drain), w' = w, SearchInv', TablesInv'
  PROVE  EInv'
  BY WorkerKept DEF EInv

\* The circuit breaker stays within its doublings.
LEMMA CoolingFacts ==
  ASSUME TablesInv, KeepCool \/ CapHit \/ CooldownReset, UNCHANGED <<status, vec, permit, cancel>>
  PROVE  TablesInv'
  <1>1. /\ status \in [Messages -> {"none", "pending", "failed"}] /\ permit \in BOOLEAN
        /\ vec \in [Messages -> Messages \cup {NoVec}] /\ cancel \in BOOLEAN
        /\ cool \in BOOLEAN /\ window \in 0 .. MaxWindow
        /\ \A m \in Messages : vec[m] \in {NoVec, m} /\ (status[m] = "failed" => Kind[m] = "bare")
    BY DEF TablesInv, VectorsTrue, NeverWronglyFailed
  <1>2. cool' \in BOOLEAN /\ window' \in 0 .. MaxWindow
    <2>1. CASE KeepCool BY <2>1, <1>1 DEF KeepCool
    <2>2. CASE CapHit BY <2>2, <1>1, Sizes DEF CapHit
    <2>3. CASE CooldownReset
      <3>1. 0 \in 0 .. MaxWindow /\ FALSE \in BOOLEAN BY Sizes
      <3> QED BY <2>3, <3>1 DEF CooldownReset
    <2> QED BY <2>1, <2>2, <2>3
  <1> QED BY <1>1, <1>2, TablesMove

\* A record of the search under another place, and its fallback.
LEMMA SearchTypes ==
  ASSUME s \in Searches
  PROVE  /\ Lexical \in Searches /\ Lexical.pc = "answered" /\ Lexical.mode = "lexical"
         /\ \A pc \in {"health", "embed", "count", "lexical", "vectors", "answered"} :
                [s EXCEPT !.pc = pc] \in Searches /\ [s EXCEPT !.pc = pc].pc = pc
         /\ s.left \in -1 .. Budget
         /\ s.left >= 0 => [s EXCEPT !.left = @ - 1] \in Searches /\ [s EXCEPT !.left = @ - 1].pc = s.pc
         /\ Search0 \in Searches /\ Search0.pc = "idle"
         /\ [Search0 EXCEPT !.pc = "health"] \in Searches /\ [Search0 EXCEPT !.pc = "health"].pc = "health"
  <1>1. <<>> \in Rows BY DEF Rows
  <1>b. Budget \in Nat BY Sizes
  <1>l. s.left \in -1 .. Budget BY DEF Searches
  <1>2. Budget \in -1 .. Budget /\ s.left \in -1 .. Budget /\ Budget \in Nat BY <1>b, <1>l
  <1>3. s.left >= 0 => s.left - 1 \in -1 .. Budget BY <1>2
  <1>4. Lexical \in Searches /\ Lexical.pc = "answered" /\ Lexical.mode = "lexical"
    BY <1>1 DEF Searches, Lexical
  <1>5. \A pc \in {"health", "embed", "count", "lexical", "vectors", "answered"} :
            [s EXCEPT !.pc = pc] \in Searches /\ [s EXCEPT !.pc = pc].pc = pc
    BY DEF Searches
  <1>6. s.left >= 0 => [s EXCEPT !.left = @ - 1] \in Searches /\ [s EXCEPT !.left = @ - 1].pc = s.pc
    BY <1>3 DEF Searches
  <1>7. /\ Search0 \in Searches /\ Search0.pc = "idle"
        /\ [Search0 EXCEPT !.pc = "health"] \in Searches /\ [Search0 EXCEPT !.pc = "health"].pc = "health"
    BY <1>1, <1>2 DEF Searches, Search0
  <1> QED BY <1>2, <1>4, <1>5, <1>6, <1>7

LEMMA SearchCalls ==
  ASSUME EInv, SearchBegins \/ SearchHealth
  PROVE  EInv'
  <1>0. CInv /\ WorkerInv /\ SearchInv /\ TablesInv /\ s \in Searches BY DEF EInv, SearchInv
  <1>1. UNCHANGED <<status, vec, permit, w, cancel, faults>> BY DEF SearchBegins, SearchHealth, SearchOnly
  <1>2. w.pc # "boot" BY <1>0 DEF SearchBegins, SearchHealth, SearchInv
  <1>3. <<>> \in Texts /\ <<NoVec>> \in Texts /\ <<NoVec>> # <<>> BY DEF Texts
  <1>c. ASSUME NEW method \in {"health", "embed"}, NEW texts \in {<<>>, <<NoVec>>},
               method = "embed" => texts # <<>>, Call(Search, method, texts)
        PROVE  CInv' /\ Unmoved(Drain)
    <2>1. method \in Methods /\ texts \in Texts BY <1>3 DEF Methods
    <2> QED BY <2>1, <1>c, <1>0, <1>1, TheCallers, CallKeeps
  <1>r. Release(Search) => CInv' /\ Unmoved(Drain) BY <1>0, <1>1, TheCallers, ReleaseKeeps
  <1>l. s.left \in -1 .. Budget BY <1>0 DEF Searches
  <1>4. CASE SearchBegins
    <2>1. Call(Search, "health", <<>>) /\ KeepCool /\ s' = [Search0 EXCEPT !.pc = "health"]
      BY <1>4 DEF SearchBegins
    <2>2. s' \in Searches /\ s'.pc = "health" BY <2>1, <1>0, SearchTypes
    <2>3. SearchInv' BY <2>2, <1>1, <1>2, SearchMoves
    <2> QED BY <2>1, <2>3, <1>0, <1>1, <1>c, CoolingFacts, SearchStep
  <1>5. CASE SearchHealth
    <2>1. \/ /\ s' = [s EXCEPT !.pc = "embed"]
             /\ Call(Search, "embed", <<NoVec>>) /\ KeepCool
          \/ s' = Lexical /\ Release(Search) /\ (KeepCool \/ CapHit)
          \/ /\ s.left > 0 /\ s' = [s EXCEPT !.left = @ - 1]
             /\ Call(Search, "health", <<>>) /\ KeepCool /\ s.pc = "health"
      BY <1>5 DEF SearchHealth
    <2>2. CASE s' = [s EXCEPT !.pc = "embed"] /\ Call(Search, "embed", <<NoVec>>) /\ KeepCool
      <3>1. s' \in Searches /\ s'.pc = "embed" BY <2>2, <1>0, SearchTypes
      <3>2. SearchInv' BY <3>1, <1>1, <1>2, SearchMoves
      <3> QED BY <2>2, <3>2, <1>0, <1>1, <1>3, <1>c, CoolingFacts, SearchStep
    <2>3. CASE s' = Lexical /\ Release(Search) /\ (KeepCool \/ CapHit)
      <3>1. s' \in Searches /\ s'.mode = "lexical" BY <2>3, <1>0, SearchTypes
      <3>2. SearchInv' BY <3>1, <1>1, <1>2, SearchMoves
      <3> QED BY <2>3, <3>2, <1>0, <1>1, <1>r, CoolingFacts, SearchStep
    <2>4. CASE /\ s.left > 0 /\ s' = [s EXCEPT !.left = @ - 1]
               /\ Call(Search, "health", <<>>) /\ KeepCool /\ s.pc = "health"
      <3>1. s.left >= 0 BY <2>4, <1>l
      <3>2. s' \in Searches /\ s'.pc = "health" BY <2>4, <3>1, <1>0, SearchTypes
      <3>3. SearchInv' BY <3>2, <1>1, <1>2, SearchMoves
      <3> QED BY <2>4, <3>3, <1>0, <1>1, <1>c, CoolingFacts, SearchStep
    <2> QED BY <2>1, <2>2, <2>3, <2>4
  <1> QED BY <1>4, <1>5

LEMMA SearchWaits ==
  ASSUME EInv, Tick \/ SearchTimesOut \/ SearchEmbedded
  PROVE  EInv'
  <1>0. CInv /\ WorkerInv /\ SearchInv /\ TablesInv /\ s \in Searches BY DEF EInv, SearchInv
  <1>1. UNCHANGED <<status, vec, permit, w, cancel>> BY DEF Tick, SearchTimesOut, SearchEmbedded, SearchOnly
  <1>2. w.pc # "boot" BY <1>0 DEF Tick, SearchTimesOut, SearchEmbedded, SearchInv
  <1>3. CASE Tick
    <2>1. UNCHANGED <<clientVars, cool, window>> /\ s' = [s EXCEPT !.left = @ - 1]
          /\ s.left >= 0 /\ s.pc \in {"health", "embed"}
      <3>1. s.left \in -1 .. Budget BY <1>0 DEF Searches
      <3> QED BY <1>3, <3>1 DEF Tick
    <2>3. s' \in Searches /\ s'.pc # "answered" BY <2>1, <1>0, SearchTypes
    <2>4. SearchInv' BY <2>3, <1>1, <1>2, SearchMoves
    <2>5. TablesInv' BY <2>1, <1>0, <1>1, TablesKept
    <2>6. CInv' /\ Unmoved(Drain) BY <2>1, <1>0, TheCallers, ClientKept
    <2> QED BY <2>4, <2>5, <2>6, <1>1, SearchStep
  <1>4. CASE SearchTimesOut \/ SearchEmbedded
    <2>1. /\ Release(Search) /\ (CapHit \/ CooldownReset \/ KeepCool) /\ faults' = faults
          /\ s' = Lexical \/ s' = [s EXCEPT !.pc = "count"]
      BY <1>4 DEF SearchTimesOut, SearchEmbedded, SearchOnly
    <2>2. s' \in Searches /\ (s'.pc = "answered" => s'.mode = "lexical")
      <3>1. CASE s' = Lexical BY <3>1, <1>0, SearchTypes
      <3>2. CASE s' = [s EXCEPT !.pc = "count"] BY <3>2, <1>0, SearchTypes
      <3> QED BY <2>1, <3>1, <3>2
    <2>3. SearchInv' BY <2>2, <1>1, <1>2, SearchMoves
    <2>4. CInv' /\ Unmoved(Drain) BY <2>1, <1>0, TheCallers, ReleaseKeeps
    <2>5. TablesInv' BY <2>1, <1>0, <1>1, CoolingFacts
    <2> QED BY <2>3, <2>4, <2>5, <1>1, SearchStep
  <1> QED BY <1>3, <1>4

\* The merge lists every match once, those with a vector by their score and the others after them.
LEMMA RankedFacts ==
  ASSUME NEW lex, lex \subseteq Messages, NEW vectored, NEW found, found \subseteq Messages,
         found \cap lex = {}
  PROVE  /\ Ranked(lex, vectored, found) \in Rows
         /\ \A i, j \in 1 .. Len(Ranked(lex, vectored, found)) :
                Ranked(lex, vectored, found)[i] = Ranked(lex, vectored, found)[j] => i = j
         /\ lex \subseteq ToSet(Ranked(lex, vectored, found))
  <1> DEFINE A == (lex \cap vectored) \cup found
             B == lex \ vectored
  <1>1. A \subseteq Messages /\ B \subseteq Messages /\ A \cap B = {} /\ lex \subseteq A \cup B OBVIOUS
  <1> HIDE DEF A, B
  <1>2. PICK a : a = Sorted(A, ByScore) OBVIOUS
  <1>b. PICK b : b = Sorted(B, ById) OBVIOUS
  <1>3. PICK m \in Nat : m = Cardinality(A) BY <1>1, SortedFacts
  <1>n. PICK n \in Nat : n = Cardinality(B) BY <1>1, SortedFacts
  <1>4. /\ a \in Seq(A) /\ Len(a) = m /\ \A i, j \in 1 .. m : a[i] = a[j] => i = j
        /\ \A k \in A : \E i \in 1 .. m : a[i] = k
    BY <1>1, <1>2, <1>3, SortedFacts
  <1>5. /\ b \in Seq(B) /\ Len(b) = n /\ \A i, j \in 1 .. n : b[i] = b[j] => i = j
        /\ \A k \in B : \E i \in 1 .. n : b[i] = k
    BY <1>1, <1>b, <1>n, SortedFacts
  <1>6. Ranked(lex, vectored, found) = a \o b BY <1>2, <1>b DEF Ranked, A, B
  <1>7. PICK q : q = a \o b OBVIOUS
  <1>8. a \in Rows /\ b \in Rows BY <1>1, <1>4, <1>5 DEF Rows
  <1>9. /\ q \in Rows /\ Len(q) = m + n /\ DOMAIN q = 1 .. m + n
        /\ \A i \in 1 .. m : q[i] = a[i] /\ a[i] \in A
        /\ \A i \in m + 1 .. m + n : q[i] = b[i - m] /\ i - m \in 1 .. n /\ b[i - m] \in B
    <2>s. q \in Rows /\ Len(q) = Len(a) + Len(b) BY <1>7, <1>8 DEF Rows
    <2>d. DOMAIN q = 1 .. Len(q) BY <2>s DEF Rows
    <2>1. q \in Rows /\ Len(q) = m + n /\ DOMAIN q = 1 .. m + n BY <1>4, <1>5, <2>s, <2>d
    <2>2. ASSUME NEW i \in 1 .. m PROVE q[i] = a[i] /\ a[i] \in A BY <1>4, <1>5, <1>7, <1>8 DEF Rows
    <2>3. ASSUME NEW i \in m + 1 .. m + n PROVE q[i] = b[i - m] /\ i - m \in 1 .. n /\ b[i - m] \in B
      BY <1>4, <1>5, <1>7, <1>8 DEF Rows
    <2> QED BY <2>1, <2>2, <2>3
  <1>10. ASSUME NEW i \in 1 .. m + n, NEW j \in 1 .. m + n, q[i] = q[j] PROVE i = j
    <2>1. CASE i <= m /\ j <= m BY <2>1, <1>4, <1>9, <1>10
    <2>2. CASE i > m /\ j > m
      <3>1. i \in m + 1 .. m + n /\ j \in m + 1 .. m + n BY <2>2
      <3>2. i - m = j - m BY <3>1, <1>5, <1>9, <1>10
      <3> QED BY <3>2
    <2>3. CASE i <= m /\ j > m
      <3>1. i \in 1 .. m /\ j \in m + 1 .. m + n BY <2>3
      <3> QED BY <3>1, <1>1, <1>9, <1>10
    <2>4. CASE i > m /\ j <= m
      <3>1. j \in 1 .. m /\ i \in m + 1 .. m + n BY <2>4
      <3> QED BY <3>1, <1>1, <1>9, <1>10
    <2> QED BY <2>1, <2>2, <2>3, <2>4
  <1>11. ASSUME NEW k \in lex PROVE k \in ToSet(q)
    <2>1. CASE k \in A
      <3>1. PICK i \in 1 .. m : a[i] = k BY <2>1, <1>4
      <3>2. i \in DOMAIN q /\ q[i] = k BY <3>1, <1>9
      <3> QED BY <3>2 DEF ToSet
    <2>2. CASE k \in B
      <3>1. PICK i \in 1 .. n : b[i] = k BY <2>2, <1>5
      <3>2. m + i \in m + 1 .. m + n /\ (m + i) - m = i OBVIOUS
      <3>3. q[m + i] = k /\ m + i \in DOMAIN q BY <3>1, <3>2, <1>9
      <3> QED BY <3>3 DEF ToSet
    <2> QED BY <2>1, <2>2, <1>1
  <1> QED BY <1>6, <1>7, <1>9, <1>10, <1>11

LEMMA SearchEnds ==
  ASSUME EInv, SearchCounts \/ SearchMatches \/ SearchRanks \/ SearchReturns
  PROVE  EInv'
  <1>0. CInv /\ WorkerInv /\ SearchInv /\ TablesInv /\ s \in Searches BY DEF EInv, SearchInv
  <1>1. UNCHANGED <<clientVars, status, vec, permit, w, cool, window, cancel>>
    BY DEF SearchCounts, SearchMatches, SearchRanks, SearchReturns
  <1>2. w.pc # "boot" BY <1>0 DEF SearchCounts, SearchMatches, SearchRanks, SearchReturns, SearchInv
  <1>3. CInv' /\ Unmoved(Drain) /\ TablesInv' BY <1>0, <1>1, TheCallers, ClientKept, TablesKept
  <1>4. CASE SearchCounts
    <2>1. s' \in Searches /\ (s'.pc = "answered" => s'.mode = "lexical")
      <3>1. CASE s' = Lexical BY <3>1, <1>0, SearchTypes
      <3>2. CASE s' # Lexical
        <4>1. PICK mode \in {"rerank", "hybrid"} : s' = [s EXCEPT !.pc = "lexical", !.mode = mode]
          BY <1>4, <3>2 DEF SearchCounts
        <4> QED BY <4>1, <1>0 DEF Searches
      <3> QED BY <3>1, <3>2
    <2>2. SearchInv' BY <2>1, <1>1, <1>2, SearchMoves
    <2> QED BY <2>2, <1>1, <1>3, SearchStep
  <1>5. CASE SearchMatches
    <2>1. PICK lex \in SUBSET Messages : s' = [s EXCEPT !.pc = "vectors", !.lex = lex]
      <3>1. {m \in Matches : status[m] # "none"} \subseteq Messages BY EmbedDrainAssumption
      <3> QED BY <1>5, <3>1 DEF SearchMatches
    <2>2. s' \in Searches /\ s'.pc = "vectors" BY <2>1, <1>0 DEF Searches
    <2>3. SearchInv' BY <2>2, <1>1, <1>2, SearchMoves
    <2> QED BY <2>3, <1>1, <1>3, SearchStep
  <1>6. CASE SearchReturns
    <2>1. s' \in Searches /\ s'.pc = "idle" BY <1>6, <1>0, SearchTypes DEF SearchReturns
    <2>2. SearchInv' BY <2>1, <1>1, <1>2, SearchMoves
    <2> QED BY <2>2, <1>1, <1>3, SearchStep
  <1>7. CASE SearchRanks
    <2>1. PICK q : q = Ranked(s.lex, VectorsOf(s.lex), Recalled(s.mode)) OBVIOUS
    <2>2. PICK n : n = (IF Limit < Len(q) THEN Limit ELSE Len(q)) OBVIOUS
    <2>3. s' = [s EXCEPT !.pc = "answered", !.hits = SubSeq(q, 1, n)] BY <1>7, <2>1, <2>2 DEF SearchRanks
    <2>4. s.lex \subseteq Messages BY <1>0 DEF Searches
    <2>5. /\ q \in Rows /\ \A i, j \in 1 .. Len(q) : q[i] = q[j] => i = j
          /\ s.lex \subseteq ToSet(q)
      <3>1. Recalled(s.mode) \subseteq Messages /\ Recalled(s.mode) \cap s.lex = {}
        BY DEF Recalled, Vectored
      <3> QED BY <2>1, <2>4, <3>1, RankedFacts
    <2>6. n \in Nat /\ n <= Len(q) /\ n <= Limit /\ (n < Limit => n = Len(q))
      <3>1. Len(q) \in Nat /\ Limit \in Nat BY <2>5, Sizes DEF Rows
      <3> QED BY <2>2, <3>1
    <2>7. PICK h \in Rows : h = SubSeq(q, 1, n) /\ Len(h) = n /\ Cardinality(ToSet(h)) = n
                            /\ (n = Len(q) => h = q)
      BY <2>5, <2>6, PrefixFacts
    <2>8. s' = [s EXCEPT !.pc = "answered", !.hits = h] BY <2>3, <2>7
    <2>9. s' \in Searches /\ s'.hits = h /\ s'.lex = s.lex BY <2>8, <1>0 DEF Searches
    <2>10. MatchesKept' BY <2>5, <2>6, <2>7, <2>9 DEF MatchesKept
    <2>11. SearchInv' BY <2>9, <2>10, <1>1, <1>2 DEF SearchInv
    <2> QED BY <2>11, <1>1, <1>3, SearchStep
  <1> QED BY <1>4, <1>5, <1>6, <1>7

----------------------------------------------------------------------------
(* The theorems *)

LEMMA StartsRight == Init => EInv
  <1> SUFFICES ASSUME Init PROVE EInv OBVIOUS
  <1>e. <<>> \in Rows /\ <<>> \in Texts BY DEF Rows, Texts
  <1>1. /\ pending = {1} /\ dead = FALSE /\ faults = 0
        /\ waits = [c \in Callers |-> IF c = Drain THEN 1 ELSE NoId]
        /\ got = [c \in Callers |-> NoReply]
    BY DEF Init
  <1>2. PICK r : r = [id |-> 1, method |-> "model_info", texts |-> <<>>] OBVIOUS
  <1>3. r \in Requests /\ r.method = "model_info" BY <1>2, <1>e DEF Requests, Methods, NoId
  <1>4. pipe = <<r>> BY <1>2 DEF Init
  <1>5. pipe \in Seq(Requests) /\ \A i \in DOMAIN pipe : pipe[i] = r BY <1>3, <1>4
  <1>6. NoReply \in Replies /\ NoReply.tag = "none" BY <1>e DEF NoReply, Replies, NoId
  <1>7. ClientShape
    <2>1. waits \in [Callers -> Nat] /\ got \in [Callers -> Replies] BY <1>1, <1>6 DEF NoId
    <2>2. waits[Drain] = 1 BY <1>1, TheCallers
    <2>3. \A id \in pending : \E c \in Callers : waits[c] = id BY <1>1, <2>2, TheCallers
    <2>4. faults \in 0 .. MaxFaults BY <1>1, Sizes
    <2>5. NoId \notin pending BY <1>1 DEF NoId
    <2>6. \A i \in DOMAIN pipe : pipe[i].method # "embed" BY <1>3, <1>5
    <2> QED BY <1>1, <1>5, <2>1, <2>3, <2>4, <2>5, <2>6 DEF ClientShape
  <1>8. DeadIsEmpty BY <1>1 DEF DeadIsEmpty
  <1>9. ASSUME NEW c \in Callers PROVE CallerInv(c)
    <2>1. got[c] = NoReply BY <1>1
    <2>2. waits[c] # NoId => c = Drain /\ waits[c] = 1 BY <1>1
    <2>3. \A d \in Callers \ {Drain} : waits[d] = NoId BY <1>1
    <2> QED BY <1>1, <2>1, <2>2, <2>3 DEF CallerInv, Waiting, Answered
  <1>10. CInv BY <1>7, <1>8, <1>9 DEF CInv
  <1>11. w = Worker0 /\ s = Search0 BY DEF Init
  <1>12. WorkerInv
    <2>1. 0 \in 0 .. Threshold /\ 0 < Threshold /\ Clamped \in 1 .. Clamped BY Sizes
    <2>2. w \in Workers BY <1>11, <2>1, <1>e DEF Worker0, Workers
    <2>3. w.pc = "boot" /\ w.notifyOnly = FALSE /\ w.fails = 0 BY <1>11 DEF Worker0
    <2> QED BY <2>1, <2>2, <2>3 DEF WorkerInv
  <1>13. SearchInv
    <2>1. Budget \in Nat BY Sizes
    <2>2. Budget \in -1 .. Budget BY <2>1
    <2>3. s \in Searches /\ s.pc = "idle" BY <1>11, <2>2, <1>e DEF Search0, Searches
    <2>4. waits[Search] = NoId BY <1>1, TheCallers
    <2> QED BY <2>3, <2>4 DEF SearchInv, MatchesKept
  <1>14. TablesInv
    <2>1. /\ status = [m \in Messages |-> IF Kind[m] = "bare" THEN "pending" ELSE "none"]
          /\ vec = [m \in Messages |-> NoVec]
          /\ permit = FALSE /\ cool = FALSE /\ window = 0 /\ cancel = FALSE
      BY DEF Init
    <2>2. 0 \in 0 .. MaxWindow BY Sizes
    <2> QED BY <2>1, <2>2 DEF TablesInv, VectorsTrue, NeverWronglyFailed
  <1> QED BY <1>10, <1>12, <1>13, <1>14 DEF EInv

\* The inductive invariant: a registered id is awaited by one caller over a live transport, the worker's
\* request in flight and its answer are about the rows it holds, and a search ends with all it found.
THEOREM DrainInvariant == Spec => []EInv
  <1>1. EInv /\ [Next]_vars => EInv'
    <2> SUFFICES ASSUME EInv, [Next]_vars PROVE EInv' OBVIOUS
    <2>1. CASE UNCHANGED vars BY <2>1, TableSteps
    <2>2. CASE TheWorker
      BY <2>2, WorkerBoots, WorkerAlone, WorkerWakes, WorkerFetches, WorkerEmbeds DEF TheWorker
    <2>3. CASE TheSearch BY <2>3, SearchCalls, SearchWaits, SearchEnds DEF TheSearch
    <2>4. CASE BootTimesOut BY <2>4, WorkerBoots
    <2>5. CASE FetchFails BY <2>5, WorkerAlone
    <2>6. CASE Tick BY <2>6, SearchWaits
    <2>7. CASE \/ CoolsOff \/ Shutdown \/ Purge \/ (Sidecar /\ UNCHANGED drainVars)
               \/ \E m \in Messages : Arrives(m) \/ Deleted(m)
      BY <2>7, TableSteps
    <2> QED BY <2>1, <2>2, <2>3, <2>4, <2>5, <2>6, <2>7 DEF Next
  <1> QED BY <1>1, StartsRight, PTL DEF Spec

\* No caller waits for an answer that cannot come to it over a broken transport, and no reply is taken
\* by a call it was not made for (call_rpc, PendingGuard, mark_dead, run_reader_task).
THEOREM RepliesAreRouted == Spec => []RepliesReachTheirCall
  <1>1. EInv => RepliesReachTheirCall
    <2> SUFFICES ASSUME EInv, NEW c \in Callers
                 PROVE  /\ Waiting(c) => ~dead /\ waits[c] \in pending
                        /\ Answered(c) => got[c].of = waits[c]
                        /\ \A d \in Callers \ {c} : waits[c] # NoId => waits[c] # waits[d]
      BY DEF RepliesReachTheirCall
    <2>1. CallerInv(c) /\ DeadIsEmpty BY DEF EInv, CInv
    <2> QED BY <2>1 DEF CallerInv, DeadIsEmpty
  <1> QED BY <1>1, DrainInvariant, PTL

\* Through outages, garbled answers, deletions and model changes a stored vector is that of its message,
\* only rows with nothing to embed are retired, and an answer keeps every match its words found.
THEOREM EmbeddingsAreTrue == Spec => []EmbeddingsTrue
  <1>1. EInv => EmbeddingsTrue
    <2> SUFFICES ASSUME EInv PROVE EmbeddingsTrue OBVIOUS
    <2>0. CInv /\ WorkerInv /\ SearchInv /\ TablesInv BY DEF EInv
    <2>1. ClientTypeOK
      <3>1. ASSUME NEW i \in DOMAIN pipe PROVE pipe[i].id \in Nat \ {NoId} /\ pipe[i].method \in Methods
        <4>1. pipe[i] \in Requests BY <2>0 DEF CInv, ClientShape
        <4> QED BY <4>1 DEF Requests
      <3>2. \A c \in Callers : got[c].tag \in {"none", "error", "result", "ok", "loading"}
        BY <2>0 DEF CInv, ClientShape, Replies
      <3>3. pending \subseteq {waits[c] : c \in Callers} \ {NoId} BY <2>0 DEF CInv, ClientShape
      <3> QED BY <2>0, <3>1, <3>2, <3>3 DEF ClientTypeOK, CInv, ClientShape, Methods
    <2>2. /\ w.pc \in {"boot", "off", "select", "health", "fetch", "embed", "write", "stopped"}
          /\ w.size \in 1 .. Clamped /\ w.fails \in 0 .. Threshold + 1
      <3>1. w \in Workers BY <2>0 DEF WorkerInv
      <3>2. w.fails \in 0 .. Threshold /\ Threshold \in Nat BY <3>1, Sizes DEF Workers
      <3>3. w.fails \in 0 .. Threshold + 1 BY <3>2
      <3> QED BY <3>1, <3>3 DEF Workers
    <2>3. /\ s.pc \in {"idle", "health", "embed", "count", "lexical", "vectors", "answered"}
          /\ s.left \in -1 .. Budget
      BY <2>0 DEF SearchInv, Searches
    <2>4. TypeOK BY <2>0, <2>1, <2>2, <2>3 DEF TypeOK, TablesInv
    <2> QED BY <2>0, <2>4 DEF EmbeddingsTrue, TablesInv, SearchInv
  <1> QED BY <1>1, DrainInvariant, PTL
=============================================================================
