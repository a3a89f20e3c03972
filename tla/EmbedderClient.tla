--------------------------- MODULE EmbedderClient ---------------------------
(***************************************************************************)
(* The stdio client of the embedding sidecar, src/src/embedder.rs: call_rpc *)
(* registers a request and queues it for the writer task, the reader task   *)
(* routes each reply line by its id, PendingGuard deregisters a caller that *)
(* gives up, and mark_dead fails every caller when the pipe breaks.         *)
(*                                                                         *)
(* The writer's channel, the pipe and the sidecar's standard input are one  *)
(* queue: the sidecar takes one request at a time and answers in order.     *)
(* Its answer and the reader's dispatch of it are one step, for a caller    *)
(* that gives up between the two is not told apart from one that gave up    *)
(* before.  The channel holds 64 requests and a caller has one in flight,   *)
(* so queueing never waits.  An id is the least one not in use any more:    *)
(* the code counts up, and an id nothing refers to is as good as a new one. *)
(***************************************************************************)
EXTENDS Integers, Sequences, FiniteSets, SequencesExt

CONSTANTS Callers,
          Poison,      \* texts the sidecar cannot embed
          MaxFaults    \* bound of the model: failures of sidecar and database, deletions and purges, together

VARIABLES pipe,        \* requests on their way to the sidecar, or being answered
          pending,     \* SharedState.pending: the ids somebody waits for
          dead,        \* SharedState.dead
          waits,       \* the id each caller awaits, NoId when it awaits none
          got,         \* the reply each caller has not taken yet
          faults       \* how much of MaxFaults is spent

clientVars == <<pipe, pending, dead, waits, got, faults>>

NoId == 0
NoReply == [tag |-> "none", of |-> NoId, vectors |-> <<>>]
Failed(id) == [tag |-> "error", of |-> id, vectors |-> <<>>]

Spend == faults < MaxFaults /\ faults' = faults + 1

FreshId == CHOOSE n \in 1 .. Len(pipe) + Cardinality(Callers) + 1 :
               /\ \A i \in DOMAIN pipe : pipe[i].id # n
               /\ \A c \in Callers : waits[c] # n

\* The caller's future ends or is dropped: PendingGuard removes its id.
Release(c) ==
    /\ pending' = pending \ {waits[c]}
    /\ waits' = [waits EXCEPT ![c] = NoId]
    /\ got' = [got EXCEPT ![c] = NoReply]
    /\ UNCHANGED <<pipe, dead>>

\* call_rpc, after the caller's last call is over: a dead transport fails it at once, else the id is
\* registered before the request is queued.
Call(c, method, texts) ==
    IF dead
    THEN /\ pending' = pending \ {waits[c]}
         /\ waits' = [waits EXCEPT ![c] = NoId]
         /\ got' = [got EXCEPT ![c] = Failed(NoId)]
         /\ UNCHANGED <<pipe, dead>>
    ELSE /\ pipe' = Append(pipe, [id |-> FreshId, method |-> method, texts |-> texts])
         /\ pending' = (pending \ {waits[c]}) \cup {FreshId}
         /\ waits' = [waits EXCEPT ![c] = FreshId]
         /\ got' = [got EXCEPT ![c] = NoReply]
         /\ UNCHANGED dead

Waiting(c) == waits[c] # NoId /\ got[c] = NoReply
Answered(c) == got[c] # NoReply

-----------------------------------------------------------------------------
(* The sidecar and the reader task *)

\* verify_embed_response: the echoed model, the number of vectors and their length.
VerifyModelOnly(reply, texts) == reply.tag # "model"
Verify(reply, texts) == reply.tag = "result" /\ Len(reply.vectors) = Len(texts)

\* What embed() and health() make of a reply to the request `r`.
Read(r, reply) ==
    IF r.method = "embed" /\ reply.tag # "error" /\ ~Verify(reply, r.texts) THEN Failed(r.id) ELSE reply

\* run_reader_task: a reply goes to whoever is registered under its id, an unknown id is discarded.
Route(r) == CHOOSE c \in Callers : waits[c] = r.id
Dispatch(r, reply) ==
    IF r.id \in pending
    THEN /\ pending' = pending \ {r.id}
         /\ got' = [got EXCEPT ![Route(r)] = Read(r, reply)]
    ELSE UNCHANGED <<pending, got>>

Cannot(texts) == \E i \in DOMAIN texts : texts[i] \in Poison

\* The sidecar does what it is asked: health is "ok", and a text it cannot embed fails the whole request.
Right(r) ==
    CASE r.method = "embed" /\ Cannot(r.texts) -> Failed(r.id)
      [] r.method = "embed" -> [tag |-> "result", of |-> r.id, vectors |-> r.texts]
      [] OTHER -> [tag |-> "ok", of |-> r.id, vectors |-> <<>>]

\* Or it does not: an error, a health other than "ok", a vector missing, another model, vectors of another length.
Wrong(r) ==
    {Failed(r.id)} \cup
    IF r.method = "embed" THEN {[tag |-> "result", of |-> r.id, vectors |-> Tail(r.texts)],
                                [tag |-> "model", of |-> r.id, vectors |-> r.texts],
                                [tag |-> "shape", of |-> r.id, vectors |-> r.texts]}
    ELSE {[tag |-> "loading", of |-> r.id, vectors |-> <<>>]}

Answer ==
    /\ pipe # <<>>
    /\ pipe' = Tail(pipe)
    /\ Dispatch(Head(pipe), Right(Head(pipe)))
    /\ UNCHANGED <<dead, waits, faults>>

Misbehave ==
    /\ pipe # <<>> /\ Spend
    /\ pipe' = Tail(pipe)
    /\ \E reply \in Wrong(Head(pipe)) : Dispatch(Head(pipe), reply)
    /\ UNCHANGED <<dead, waits>>

\* A malformed line, or one with no usable id, is dropped: nobody is told.
Garble ==
    /\ pipe # <<>> /\ Spend
    /\ pipe' = Tail(pipe)
    /\ UNCHANGED <<pending, dead, waits, got>>

\* mark_dead: the end of the file, a line over the cap, or a failed write.
MarkDeadQuietly == pending' = {} /\ UNCHANGED got
MarkDead ==
    /\ pending' = {}
    /\ got' = [c \in Callers |-> IF waits[c] \in pending THEN Failed(waits[c]) ELSE got[c]]
Die ==
    /\ ~dead /\ Spend
    /\ dead' = TRUE /\ pipe' = <<>>
    /\ MarkDead
    /\ UNCHANGED waits

Sidecar == Answer \/ Misbehave \/ Garble \/ Die

\* A caller waits for an answer that will not come: its request left the pipe unanswered.
Forgotten(c) == Waiting(c) /\ \A i \in DOMAIN pipe : pipe[i].id # waits[c]

-----------------------------------------------------------------------------
ClientTypeOK ==
    /\ \A i \in DOMAIN pipe : pipe[i].id \in Nat \ {NoId} /\ pipe[i].method \in {"model_info", "health", "embed"}
    /\ pending \subseteq {waits[c] : c \in Callers} \ {NoId}
    /\ dead \in BOOLEAN
    /\ waits \in [Callers -> Nat]
    /\ \A c \in Callers : got[c].tag \in {"none", "error", "result", "ok", "loading"}
    /\ faults \in 0 .. MaxFaults

\* Nobody is left behind by a broken pipe, and no reply reaches a call it was not made for: whoever
\* still waits is registered with a live transport, and a reply taken is the one to the caller's own id
\* (SharedState: "no window where a request is registered after the drain and is never resolved").
RepliesReachTheirCall ==
    \A c \in Callers :
        /\ Waiting(c) => ~dead /\ waits[c] \in pending
        /\ Answered(c) => got[c].of = waits[c]
        /\ \A d \in Callers \ {c} : waits[c] # NoId => waits[c] # waits[d]
=============================================================================
