------------------------------ MODULE RestApi ------------------------------
(* The REST listener (api.rs) and the bridge behind it: requests checked and *)
(* routed, jobs queued, sync sends that wait on the event bus, event streams *)
(* that read it at their own pace, and the cache of group metadata.          *)
EXTENDS CliClient, McpRegistry

CONSTANTS
  Conn,            \* connections served at once
  Requests,        \* the requests clients send, by name: records [head, body],
                   \* with the MCP tool or the command they are sent for
  Mixes,           \* bounds of behaviours: the requests sent and how many, [names, most]
  Settings,        \* the listener's settings, as in HttpGate
  Capacity,        \* EVENT_BUS_CAPACITY
  SsePermits,      \* SSE_MAX_CONNECTIONS
  MostOther, MostVersions    \* bounds: unrelated events, changes of the group

ASSUME RestConstants == Capacity \in Nat \ {0} /\ SsePermits \in Nat

VARIABLES
  conn, req,   \* conn[c]: what serve_connection of c is doing, for request req[c]
  answer,      \* answer[c]: the last response on slot c, kept until the slot is reused
  promised,    \* responses that named a job (history)
  jobs,        \* the state of each outbound job: "queued", "sent" or "failed"
  announced,   \* jobs whose end was published
  bus,         \* every event published: a job's id, or Other
  rx,          \* rx[c]: the receiver c reads the bus with: its next position, or 0
  job,         \* job[c]: the job the handler of c queued, or 0
  frames,      \* frames[c]: the events written on c's stream, Gap for a gap frame
  first,       \* first[c]: where c's stream began
  sseFree,
  group,       \* the group's version on the server
  own,         \* its version after our last completed change (history)
  cache,       \* the cached entry, or Empty
  fetched,     \* fetched[c]: the metadata c is about to cache, or Empty
  cancelled, arrivals,
  mix          \* the bounds of this behaviour

requestVars == <<conn, req, answer, promised, arrivals>>
queueVars   == <<jobs, announced, job>>
busVars     == <<bus, rx, frames, first, sseFree>>
groupVars   == <<group, own, cache, fetched>>
vars == <<requestVars, queueVars, busVars, groupVars, cancelled, mix>>

Stages == {"closed", "head", "body", "enqueueing", "waiting", "calling", "changed", "fetching", "streaming"}
Gap == 0
Other == 0
Empty == [version |-> 0, overlapped |-> FALSE, since |-> 0]
NoReq == "none"
NoAnswer == [status |-> 0, job |-> 0]
BodyOf(c) == Requests[req[c]].body
Op(c) == LET h == Requests[req[c]].head IN OpOf(h.method, h.path)

Init ==
  /\ conn = [c \in Conn |-> "closed"] /\ req = [c \in Conn |-> NoReq]
  /\ answer = [c \in Conn |-> NoAnswer] /\ promised = 0 /\ arrivals = 0
  /\ jobs = <<>> /\ announced = {} /\ job = [c \in Conn |-> 0]
  /\ bus = <<>> /\ rx = [c \in Conn |-> 0] /\ sseFree = SsePermits
  /\ frames = [c \in Conn |-> <<>>] /\ first = [c \in Conn |-> 1]
  /\ group = 1 /\ own = 1 /\ cache = Empty /\ fetched = [c \in Conn |-> Empty]
  /\ cancelled = FALSE /\ mix \in Mixes

(* The event bus, a tokio broadcast channel: a receiver that fell behind by  *)
(* more than Capacity is told so and moved to the oldest event still held; an *)
(* event sent while nobody listens is dropped.                               *)
Pending(c) == rx[c] # 0 /\ rx[c] <= Len(bus)
Lagged(c)  == rx[c] # 0 /\ rx[c] + Capacity <= Len(bus)
OldestHeld == Len(bus) - Capacity + 1
Sent(e) == bus' = IF \E c \in Conn : rx[c] # 0 THEN Append(bus, e) ELSE bus
Subscribe(c) == rx' = [rx EXCEPT ![c] = Len(bus) + 1]

(* The response is written and the connection closed; a stream's permit and  *)
(* receiver are dropped with it.                                             *)
Close(c, status, j) ==
  /\ conn' = [conn EXCEPT ![c] = "closed"]
  /\ answer' = [answer EXCEPT ![c] = [status |-> status, job |-> j]]
  /\ promised' = promised + IF j # 0 THEN 1 ELSE 0
  /\ UNCHANGED <<req, arrivals>>
Stage(c, s) == conn' = [conn EXCEPT ![c] = s] /\ UNCHANGED <<req, answer, promised, arrivals>>

(* serve_with_listener: accept, below the cap of connections. *)
Accept(c) ==
  /\ ~cancelled /\ arrivals < mix.most
  /\ conn[c] = "closed"
  /\ conn' = [conn EXCEPT ![c] = "head"] /\ req' = [req EXCEPT ![c] = NoReq]
  /\ answer' = [answer EXCEPT ![c] = NoAnswer] /\ arrivals' = arrivals + 1
  /\ frames' = [frames EXCEPT ![c] = <<>>] /\ first' = [first EXCEPT ![c] = 1]
  /\ UNCHANGED <<promised, queueVars, bus, rx, sseFree, groupVars, cancelled, mix>>

(* serve_connection: the head, then the body, each read in time or not. *)
Unreadable(c) ==
  /\ conn[c] \in {"head", "body"}
  /\ Close(c, 400, 0)
  /\ UNCHANGED <<queueVars, busVars, groupVars, cancelled, mix>>

HeadRead(c) ==
  /\ conn[c] = "head"
  /\ \E r \in mix.names :
       LET h == Requests[r].head
           s == RestRefusal(h, Settings)
           stream == h.method = "GET" /\ h.path = "/api/events"
       IN  CASE s # 0 -> Close(c, s, 0) /\ UNCHANGED <<rx, first, sseFree>>
             [] s = 0 /\ stream /\ sseFree = 0 -> Close(c, 503, 0) /\ UNCHANGED <<rx, first, sseFree>>
             [] s = 0 /\ stream /\ sseFree > 0 ->
                  /\ Stage(c, "streaming")
                  /\ sseFree' = sseFree - 1
                  /\ Subscribe(c)
                  /\ first' = [first EXCEPT ![c] = Len(bus) + 1]
             [] OTHER -> /\ conn' = [conn EXCEPT ![c] = "body"]
                         /\ req' = [req EXCEPT ![c] = r]
                         /\ UNCHANGED <<answer, promised, arrivals, rx, first, sseFree>>
  /\ UNCHANGED <<queueVars, bus, frames, groupVars, cancelled, mix>>

(* handle_request, up to the handler's first effect.  A client is there or   *)
(* not: the session comes and goes at any time (BridgeSession).              *)
BodyRead(c) ==
  /\ conn[c] = "body"
  /\ \E connected \in BOOLEAN :
     LET h == Requests[req[c]].head
         b == BodyOf(c)
         refusal == HandlerRefusal(Op(c), b, Settings.loopback, connected, cache # Empty)
         effect == Effect(Op(c), b)
     IN  IF ~Routed(h.method, h.path) THEN Close(c, 404, 0) /\ UNCHANGED <<rx, fetched>>
         ELSE IF refusal # 0 THEN Close(c, refusal, 0) /\ UNCHANGED <<rx, fetched>>
         ELSE CASE effect = "wait" -> Stage(c, "enqueueing") /\ Subscribe(c) /\ UNCHANGED fetched
                [] effect = "enqueue" -> Stage(c, "enqueueing") /\ UNCHANGED <<rx, fetched>>
                [] effect \in {"client", "change"} -> Stage(c, "calling") /\ UNCHANGED <<rx, fetched>>
                [] Op(c) = "groups" \/ (Op(c) = "group_info" /\ cache = Empty) ->
                     /\ Stage(c, "fetching")
                     /\ fetched' = [fetched EXCEPT ![c] = [Empty EXCEPT !.since = own]]
                     /\ UNCHANGED rx
                [] OTHER -> /\ \E s \in StoreAnswers(Op(c)) : Close(c, s, 0)
                            /\ UNCHANGED <<rx, fetched>>
  /\ UNCHANGED <<queueVars, bus, frames, first, sseFree, group, own, cache, cancelled, mix>>

(* enqueue_op: the row is inserted and the worker woken, or the store fails. *)
EnqueueOp(c) ==
  /\ conn[c] = "enqueueing"
  /\ LET waits == Effect(Op(c), BodyOf(c)) = "wait"
         j == Len(jobs) + 1
     IN  \/ /\ jobs' = Append(jobs, "queued")
            /\ IF waits THEN /\ Stage(c, "waiting") /\ job' = [job EXCEPT ![c] = j]
                             /\ UNCHANGED rx
                        ELSE Close(c, 200, j) /\ UNCHANGED <<job, rx>>
         \/ /\ Close(c, 500, 0)
            /\ rx' = [rx EXCEPT ![c] = 0]
            /\ UNCHANGED <<jobs, job>>
  /\ UNCHANGED <<announced, bus, frames, first, sseFree, groupVars, cancelled, mix>>

(* The outbound worker (OutboundQueue): it ends a job, then publishes it. *)
JobEnds ==
  /\ \E j \in DOMAIN jobs, s \in {"sent", "failed"} : jobs[j] = "queued" /\ jobs' = [jobs EXCEPT ![j] = s]
  /\ UNCHANGED <<requestVars, announced, job, busVars, groupVars, cancelled, mix>>

Announce ==
  /\ \E j \in DOMAIN jobs \ announced :
       /\ jobs[j] # "queued"
       /\ announced' = announced \cup {j}
       /\ Sent(j)
  /\ UNCHANGED <<requestVars, jobs, job, rx, frames, first, sseFree, groupVars, cancelled, mix>>

Publish ==
  /\ Len(SelectSeq(bus, LAMBDA e : e = Other)) < MostOther
  /\ \E c \in Conn : rx[c] # 0
  /\ Sent(Other)
  /\ UNCHANGED <<requestVars, queueVars, rx, frames, first, sseFree, groupVars, cancelled, mix>>

(* Mutant: any job's end is taken for one's own. *)
AnyEndsWait(e, j) == e # Other

(* Whether an event ends the wait for job j. *)
EndsWait(e, j) == e = j

(* enqueue_and_wait, an event received: a lag is not noticed. *)
WaiterReceives(c) ==
  /\ conn[c] = "waiting" /\ Pending(c)
  /\ CASE Lagged(c) -> rx' = [rx EXCEPT ![c] = OldestHeld] /\ UNCHANGED <<requestVars, job>>
       [] ~Lagged(c) /\ EndsWait(bus[rx[c]], job[c]) ->
            /\ Close(c, IF bus[rx[c]] # Other /\ jobs[bus[rx[c]]] = "sent" THEN 200 ELSE 500, job[c])
            /\ rx' = [rx EXCEPT ![c] = 0]
            /\ job' = [job EXCEPT ![c] = 0]
       [] OTHER -> rx' = [rx EXCEPT ![c] = @ + 1] /\ UNCHANGED <<requestVars, job>>
  /\ UNCHANGED <<jobs, announced, bus, frames, first, sseFree, groupVars, cancelled, mix>>

(* SYNC_SEND_WAIT passes: 504, with the id of the job that stays queued. *)
WaitTimesOut(c) ==
  /\ conn[c] = "waiting"
  /\ Close(c, 504, job[c])
  /\ rx' = [rx EXCEPT ![c] = 0] /\ job' = [job EXCEPT ![c] = 0]
  /\ UNCHANGED <<jobs, announced, bus, frames, first, sseFree, groupVars, cancelled, mix>>

(* A direct call of the client: refused, failed, or done; a change of the    *)
(* group is then followed by the invalidation of its cached entry.           *)
ClientReturns(c) ==
  /\ conn[c] = "calling"
  /\ \/ Close(c, 500, 0) /\ UNCHANGED group
     \/ /\ Effect(Op(c), BodyOf(c)) = "change" /\ group < MostVersions
        /\ group' = group + 1
        /\ Stage(c, "changed")
     \/ Effect(Op(c), BodyOf(c)) = "client" /\ Close(c, 200, 0) /\ UNCHANGED group
  /\ UNCHANGED <<queueVars, busVars, own, cache, fetched, cancelled, mix>>

(* Mutant: a change leaves the entry cached. *)
Kept(entry) == entry

(* GroupCache::invalidate. *)
Invalidated(entry) == Empty

Invalidate(c) ==
  /\ conn[c] = "changed"
  /\ cache' = Invalidated(cache)
  /\ own' = group
  /\ Close(c, 200, 0)
  /\ UNCHANGED <<queueVars, busVars, group, fetched, cancelled, mix>>

(* get_group_info and get_joined_groups past a miss: the metadata arrives,   *)
(* and is cached some time later.  overlapped records that a change of ours  *)
(* completed in between.                                                     *)
Fetched(c) ==
  /\ conn[c] = "fetching" /\ fetched[c].version = 0
  /\ \/ /\ fetched' = [fetched EXCEPT ![c].version = group]
        /\ UNCHANGED requestVars
     \/ /\ Close(c, 500, 0)
        /\ fetched' = [fetched EXCEPT ![c] = Empty]
  /\ UNCHANGED <<queueVars, busVars, group, own, cache, cancelled, mix>>

(* GroupCache::insert. *)
CacheInsert(c) ==
  /\ conn[c] = "fetching" /\ fetched[c].version # 0
  /\ cache' = [fetched[c] EXCEPT !.overlapped = own > fetched[c].since]
  /\ fetched' = [fetched EXCEPT ![c] = Empty]
  /\ Close(c, 200, 0)
  /\ UNCHANGED <<queueVars, busVars, group, own, cancelled, mix>>

(* GROUP_CACHE_TTL passes: get and insert drop the entry. *)
CacheExpires ==
  /\ cache # Empty /\ cache' = Empty
  /\ UNCHANGED <<requestVars, queueVars, busVars, group, own, fetched, cancelled, mix>>

(* Another member changes the group; left out where nothing here could tell. *)
GroupChanges ==
  /\ cache # Empty \/ \E c \in Conn : conn[c] \in {"fetching", "calling", "changed"}
  /\ group < MostVersions /\ group' = group + 1
  /\ UNCHANGED <<requestVars, queueVars, busVars, own, cache, fetched, cancelled, mix>>

(* handle_sse. *)
StreamEnds(c) ==
  /\ Close(c, 200, 0)
  /\ sseFree' = sseFree + 1
  /\ rx' = [rx EXCEPT ![c] = 0]

(* Mutant: the stream goes on from the oldest event held, without a word. *)
StreamSkips(c) ==
  /\ rx' = [rx EXCEPT ![c] = OldestHeld]
  /\ UNCHANGED <<requestVars, sseFree, frames>>

(* What the stream does on a lag: a gap frame, and the stream closes. *)
StreamLags(c) ==
  /\ frames' = [frames EXCEPT ![c] = Append(@, Gap)]
  /\ StreamEnds(c)

StreamReceives(c) ==
  /\ conn[c] = "streaming" /\ Pending(c)
  /\ IF Lagged(c) THEN StreamLags(c)
     ELSE /\ frames' = [frames EXCEPT ![c] = Append(@, rx[c])]
          /\ rx' = [rx EXCEPT ![c] = @ + 1]
          /\ UNCHANGED <<requestVars, sseFree>>
  /\ UNCHANGED <<queueVars, bus, first, groupVars, cancelled, mix>>

(* A frame or heartbeat cannot be written in SSE_WRITE_TIMEOUT. *)
StreamWriteFails(c) ==
  /\ conn[c] = "streaming"
  /\ StreamEnds(c)
  /\ UNCHANGED <<queueVars, bus, frames, first, groupVars, cancelled, mix>>

StreamCancelled(c) ==
  /\ conn[c] = "streaming" /\ cancelled
  /\ StreamEnds(c)
  /\ UNCHANGED <<queueVars, bus, frames, first, groupVars, cancelled, mix>>

Cancel ==
  /\ ~cancelled /\ cancelled' = TRUE
  /\ UNCHANGED <<requestVars, queueVars, busVars, groupVars, mix>>

Next ==
  \/ \E c \in Conn :
       \/ Accept(c) \/ Unreadable(c) \/ HeadRead(c) \/ BodyRead(c) \/ EnqueueOp(c)
       \/ WaiterReceives(c) \/ WaitTimesOut(c) \/ ClientReturns(c) \/ Invalidate(c)
       \/ Fetched(c) \/ CacheInsert(c)
       \/ StreamReceives(c) \/ StreamWriteFails(c) \/ StreamCancelled(c)
  \/ JobEnds \/ Announce \/ Publish \/ CacheExpires \/ GroupChanges \/ Cancel

Spec == Init /\ [][Next]_vars

-----------------------------------------------------------------------------
Streams == {c \in Conn : conn[c] = "streaming"}

(* Every variable keeps its type, and the SSE permits stay within theirs.    *)
TypeOK ==
  /\ conn \in [Conn -> Stages]
  /\ DOMAIN answer = Conn /\ \A c \in Conn : answer[c].job \in 0..Len(jobs)
  /\ \A j \in DOMAIN jobs : jobs[j] \in {"queued", "sent", "failed"}
  /\ announced \subseteq DOMAIN jobs
  /\ \A c \in Conn : rx[c] \in 0..(Len(bus) + 1)
  /\ sseFree \in 0..SsePermits /\ sseFree + Cardinality(Streams) = SsePermits
  /\ cache.version \in 0..group /\ own \in 1..group

(* A client reads events without a hole: an event stream is contiguous from  *)
(* its subscription, and where the bus overtook it a gap frame ends it; a    *)
(* stream holds its permit until then (api.rs, handle_sse).                  *)
StreamGapless ==
  /\ TypeOK
  /\ \A c \in Conn : \A i \in DOMAIN frames[c] :
       \/ frames[c][i] = first[c] + i - 1
       \/ frames[c][i] = Gap /\ i = Len(frames[c]) /\ conn[c] = "closed"

Waited(c) == req[c] # NoReq /\ Effect(Op(c), BodyOf(c)) = "wait"

(* What a client is told of its message is true, however late, lost or mixed *)
(* up with others' its event was: a command succeeds only when it was sent,  *)
(* a failure is told only of one that failed, every 504 names its job, and   *)
(* every job queued is one that some client was or will be told of, so a     *)
(* refused request queued nothing (bridge.rs, enqueue_and_wait; api.rs,      *)
(* bridge_err).                                                              *)
AnswersTrue ==
  /\ \A c \in Conn : conn[c] = "closed" /\ Waited(c) =>
       /\ ExitCode(answer[c].status) = 0 => answer[c].job # 0 /\ jobs[answer[c].job] = "sent"
       /\ answer[c].status = 500 /\ answer[c].job # 0 => jobs[answer[c].job] = "failed"
       /\ answer[c].status = 504 => answer[c].job # 0
  /\ Len(jobs) = promised + Cardinality({c \in Conn : job[c] # 0})

(* After a change of ours was answered, a cached group is older than it only *)
(* when it was fetched while the change was under way (bridge.rs, group      *)
(* cache); the entry then lives until its TTL or our next change.            *)
OwnChangesSeen == cache # Empty /\ cache.version < own => cache.overlapped

HandlerOf(caller) == FieldsOf(OpOf(caller.method, caller.path), caller.path)
Calling(t) == \E c \in Conn : conn[c] = "body" /\ t = Requests[req[c]].caller

(* Every MCP tool and every command of the client reaches a handler that gets *)
(* the fields it needs, every field a command sends is one its handler reads, *)
(* and the tools a read-only listener runs are exactly those whose handler   *)
(* changes nothing (mcp_registry.rs, REGISTRY; main.rs, cli_main; against    *)
(* api.rs, handle_request).                                                  *)
CallersServed ==
  /\ \A t \in REGISTRY : Calling(t) =>
       /\ Routed(t.method, t.path)
       /\ Allowed(t, TRUE) <=> Effect(OpOf(t.method, t.path), [sync |-> TRUE]) = "none"
       /\ HandlerOf(t).needs \subseteq Mapped(t, t.required)
  /\ \A k \in COMMANDS : Calling(k) =>
       /\ Routed(k.method, k.path)
       /\ HandlerOf(k).needs \subseteq k.always
       /\ k.always \cup k.given \subseteq HandlerOf(k).needs \cup HandlerOf(k).may
=============================================================================
