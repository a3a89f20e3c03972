------------------------------ MODULE McpHttp ------------------------------
(* The MCP listener (mcp_http.rs): connections under a cap, each serving one *)
(* stateless request; the large-body permit taken from the head; the read    *)
(* and write lanes; tool calls that run as tasks of their own and outlive    *)
(* the response when the 40 s budget runs out; the counters of /api/status.  *)
EXTENDS McpEnvelope

CONSTANTS
  Conn,            \* connection slots, MAX_CONNECTIONS of them
  Task,            \* identities of tool tasks, reused: one per arrival is enough
  ReadPermits, WritePermits, LargePermits,
  MostArrivals,    \* connections that arrive, in all (bound)
  Heads, Bodies,   \* the heads, by name, and the bodies that clients send
  Settings         \* the listener's settings, as in HttpGate

ASSUME McpAssumption ==
  /\ {ReadPermits, WritePermits, LargePermits, MostArrivals} \subseteq Nat
  /\ IsFiniteSet(Conn) /\ IsFiniteSet(Task) /\ Conn \cap Task = {}
  /\ MostArrivals <= Cardinality(Task)
  /\ "none" \notin Task \cup DOMAIN Heads
  /\ \A b \in Bodies :
       /\ {b.envelope, b.id} \subseteq BOOLEAN
       /\ {b.mcpMethod, b.mcpName} \subseteq {"none", "same", "other", "unusable"}
       /\ b.tool \in REGISTRY \cup {NoTool}    \* find_tool

VARIABLES
  conn,      \* conn[c]: what serve_connection of c is doing
  req,       \* req[c]: the name of its head, once read
  call,      \* call[c]: its body, while it waits for a lane
  avail,     \* avail[l]: free permits of lane l
  task,      \* task[t]: the tool task, with the lane whose permit it owns
  taskOf,    \* taskOf[c]: the task c waits for
  metrics,   \* McpMetrics
  ends,      \* requests answered that are in no counter of their own (history)
  arrivals,  \* connections accepted or refused so far
  cancelled,
  readOnly   \* WHATSRUST_MCP_HTTP_READ_ONLY

vars == <<conn, req, call, readOnly, avail, task, taskOf, metrics, ends, arrivals, cancelled>>

Lanes == {"Read", "Write", "large"}
Permits == [l \in Lanes |-> CASE l = "Read" -> ReadPermits [] l = "Write" -> WritePermits [] OTHER -> LargePermits]
Stages == {"closed", "head", "wantsLarge", "body", "wantsLane", "running", "timedOut", "counted", "uncount"}
NoTask == "none"
NoReq == "none"
NoCall == [method |-> "none"]
HeadOf(c) == Heads[req[c]]

(* A tool task: `flag` is its AtomicU8; `phase` is "working" until the call  *)
(* has returned or panicked, then "returned" until the guard is dropped,     *)
(* "decrement" between its swap and its fetch_sub, "releasing" until the     *)
(* permit is back, and "over".                                               *)
Phases == {"working", "returned", "decrement", "releasing", "over"}
FreeTask == [lane |-> "none", flag |-> "ENDED", phase |-> "over"]

(* The counters that must add up; called, timeouts and the 503s only grow.   *)
Metrics0 == [requests |-> 0, errors |-> 0, rejects |-> 0, outlived |-> 0]

Init ==
  /\ conn = [c \in Conn |-> "closed"]
  /\ req = [c \in Conn |-> NoReq] /\ call = [c \in Conn |-> NoCall]
  /\ readOnly \in BOOLEAN
  /\ avail = Permits
  /\ task = [t \in Task |-> FreeTask]
  /\ taskOf = [c \in Conn |-> NoTask]
  /\ metrics = Metrics0
  /\ ends = 0
  /\ arrivals = 0
  /\ cancelled = FALSE

HoldsLarge(c) == conn[c] \in {"body"} /\ HeadOf(c).mib > 1

Close(c) == /\ conn' = [conn EXCEPT ![c] = "closed"]
            /\ req' = [req EXCEPT ![c] = NoReq]
            /\ call' = [call EXCEPT ![c] = NoCall]
            /\ taskOf' = [taskOf EXCEPT ![c] = NoTask]

(* McpConfig::end_request: count the request and close. *)
EndRequest(c, kind, m) ==
  /\ metrics' = CountEnd(kind, m)
  /\ ends' = ends + IF kind \in {"ok", "noLarge"} THEN 1 ELSE 0
  /\ Close(c)

(* accept_loop. *)
Accept(c) ==
  /\ ~cancelled /\ arrivals < MostArrivals
  /\ conn[c] = "closed"
  /\ conn' = [conn EXCEPT ![c] = "head"]
  /\ arrivals' = arrivals + 1
  /\ UNCHANGED <<req, call, avail, task, taskOf, metrics, ends, cancelled, readOnly>>

AcceptRefused ==
  /\ ~cancelled /\ arrivals < MostArrivals
  /\ \A c \in Conn : conn[c] # "closed"
  /\ arrivals' = arrivals + 1
  /\ UNCHANGED <<conn, req, call, avail, task, taskOf, metrics, ends, cancelled, readOnly>>

Cancel == /\ ~cancelled /\ cancelled' = TRUE
          /\ UNCHANGED <<conn, req, call, avail, task, taskOf, metrics, ends, arrivals, readOnly>>

(* serve_connection: the head, read in time and parsed, or not. *)
HeadUnreadable(c) ==
  /\ conn[c] = "head"
  /\ Close(c)
  /\ UNCHANGED <<avail, task, metrics, ends, arrivals, cancelled, readOnly>>

HeadRead(c) ==
  /\ conn[c] = "head"
  /\ \E r \in DOMAIN Heads :
       LET m == [metrics EXCEPT !.requests = @ + 1]
           s == McpRefusal(Heads[r], Settings)
       IN  IF s # 0 THEN EndRequest(c, "reject", m)
           ELSE /\ conn' = [conn EXCEPT ![c] = IF Heads[r].mib > 1 THEN "wantsLarge" ELSE "body"]
                /\ req' = [req EXCEPT ![c] = r]
                /\ metrics' = m
                /\ UNCHANGED <<call, taskOf, ends>>
  /\ UNCHANGED <<avail, task, arrivals, cancelled, readOnly>>

(* Lanes::acquire on the large-body lane, for LANE_WAIT at most. *)
TakeLarge(c) ==
  /\ conn[c] = "wantsLarge" /\ avail["large"] > 0
  /\ avail' = [avail EXCEPT !["large"] = @ - 1]
  /\ conn' = [conn EXCEPT ![c] = "body"]
  /\ UNCHANGED <<req, call, task, taskOf, metrics, ends, arrivals, cancelled, readOnly>>

LargeTimesOut(c) ==
  /\ conn[c] = "wantsLarge" /\ avail["large"] = 0
  /\ EndRequest(c, "noLarge", metrics)
  /\ UNCHANGED <<avail, task, arrivals, cancelled, readOnly>>

(* The permit is dropped when the request holds it and does not move it. *)
DropLarge(c) == avail' = IF HoldsLarge(c) THEN [avail EXCEPT !["large"] = @ + 1] ELSE avail

(* The client left at 100 Continue, or the body did not arrive in time. *)
BodyUnreadable(c) ==
  /\ conn[c] = "body"
  /\ EndRequest(c, "reject", metrics)
  /\ DropLarge(c)
  /\ UNCHANGED <<task, arrivals, cancelled, readOnly>>

(* An identity no task has and no connection waits for. *)
Free(t) == task[t] = FreeTask /\ \A c \in Conn : taskOf[c] # t

(* run_with_budget, up to the wait: spawn the task, which owns the permit. *)
Spawn(c, lane) ==
  /\ LET t == CHOOSE t \in Task : Free(t)
     IN  /\ task' = [task EXCEPT ![t] = [lane |-> lane, flag |-> "RUNNING", phase |-> "working"]]
         /\ taskOf' = [taskOf EXCEPT ![c] = t]
  /\ conn' = [conn EXCEPT ![c] = "running"] /\ call' = [call EXCEPT ![c] = NoCall]

BodyRead(c) ==
  /\ conn[c] = "body"
  /\ \E b \in Bodies :
       LET v == HandleBody(b, readOnly)
       IN  IF v.kind # "run"
           THEN EndRequest(c, v.kind, metrics) /\ DropLarge(c) /\ UNCHANGED task
           ELSE /\ IF HoldsLarge(c) THEN Spawn(c, "large")
                   ELSE /\ conn' = [conn EXCEPT ![c] = "wantsLane"] /\ call' = [call EXCEPT ![c] = b]
                        /\ UNCHANGED <<task, taskOf>>
                /\ UNCHANGED <<req, avail, ends, metrics>>
  /\ UNCHANGED <<arrivals, cancelled, readOnly>>

TakeLane(c) ==
  LET lane == call[c].tool.access
  IN  /\ conn[c] = "wantsLane" /\ avail[lane] > 0
      /\ avail' = [avail EXCEPT ![lane] = @ - 1]
      /\ Spawn(c, lane)
      /\ UNCHANGED <<req, metrics, ends, arrivals, cancelled, readOnly>>

(* Mutant: the wait for a lane has no limit. *)
LaneWaits(c) == FALSE /\ UNCHANGED <<vars, conn[c]>>

LaneTimesOut(c) ==
  /\ conn[c] = "wantsLane" /\ avail[call[c].tool.access] = 0
  /\ EndRequest(c, "capacity", metrics)
  /\ UNCHANGED <<avail, task, arrivals, cancelled, readOnly>>

(* The task: the call returns, or panics, or never does. *)
Returns(t) ==
  /\ task[t].phase = "working"
  /\ task' = [task EXCEPT ![t].phase = "returned"]
  /\ UNCHANGED <<conn, req, call, avail, taskOf, metrics, ends, arrivals, cancelled, readOnly>>

(* TaskEnd::drop: the swap, and the decrement when the swap saw OUTLIVED. *)
TaskEndSwaps(t) ==
  /\ task[t].phase = "returned"
  /\ task' = [task EXCEPT ![t].flag = "ENDED",
                          ![t].phase = IF task[t].flag = "OUTLIVED" THEN "decrement" ELSE "releasing"]
  /\ UNCHANGED <<conn, req, call, avail, taskOf, metrics, ends, arrivals, cancelled, readOnly>>

TaskEndDecrements(t) ==
  /\ task[t].phase = "decrement"
  /\ metrics' = [metrics EXCEPT !.outlived = @ - 1]
  /\ task' = [task EXCEPT ![t].phase = "releasing"]
  /\ UNCHANGED <<conn, req, call, avail, taskOf, ends, arrivals, cancelled, readOnly>>

(* Then the permit is dropped, and the JoinHandle becomes ready. *)
PermitDropped(t) ==
  /\ task[t].phase = "releasing"
  /\ avail' = [avail EXCEPT ![task[t].lane] = @ + 1]
  /\ task' = [task EXCEPT ![t] = FreeTask]
  /\ UNCHANGED <<conn, req, call, taskOf, metrics, ends, arrivals, cancelled, readOnly>>

(* The wait of run_with_budget ends with the task: a result, or an error for *)
(* a status of 400 and more and for a panic...                               *)
Answer(c) ==
  /\ conn[c] = "running" /\ task[taskOf[c]].phase = "over"
  /\ \E kind \in {"ok", "error"} : EndRequest(c, kind, metrics)
  /\ UNCHANGED <<avail, task, arrivals, cancelled, readOnly>>

(* ... or the budget runs out first: count the timeout and the survivor, and *)
(* only then tell the task, or take the survivor back when it has ended.     *)
BudgetRunsOut(c) ==
  /\ conn[c] = "running" /\ task[taskOf[c]].phase # "over"
  /\ conn' = [conn EXCEPT ![c] = "timedOut"]
  /\ UNCHANGED <<req, call, avail, task, taskOf, metrics, ends, arrivals, cancelled, readOnly>>

CountOutlived(c) ==
  /\ conn[c] = "timedOut"
  /\ conn' = [conn EXCEPT ![c] = "counted"]
  /\ metrics' = [metrics EXCEPT !.outlived = @ + 1]
  /\ UNCHANGED <<req, call, avail, task, taskOf, ends, arrivals, cancelled, readOnly>>

(* Mutant: a task that has just ended is counted as outlived for good. *)
MarkAlways(c) ==
  LET t == taskOf[c]
  IN  /\ conn[c] = "counted"
      /\ task' = IF task[t].flag = "RUNNING" THEN [task EXCEPT ![t].flag = "OUTLIVED"] ELSE task
      /\ EndRequest(c, "error", metrics)
      /\ UNCHANGED <<avail, arrivals, cancelled, readOnly>>

MarkOutlived(c) ==
  LET t == taskOf[c]
  IN  /\ conn[c] = "counted"
      /\ IF task[t].flag = "RUNNING"
         THEN /\ task' = [task EXCEPT ![t].flag = "OUTLIVED"]
              /\ EndRequest(c, "error", metrics)
         ELSE /\ conn' = [conn EXCEPT ![c] = "uncount"]
              /\ UNCHANGED <<req, call, task, taskOf, metrics, ends>>
      /\ UNCHANGED <<avail, arrivals, cancelled, readOnly>>

Uncount(c) ==
  /\ conn[c] = "uncount"
  /\ EndRequest(c, "error", [metrics EXCEPT !.outlived = @ - 1])
  /\ UNCHANGED <<avail, task, arrivals, cancelled, readOnly>>

Serves(c) == \/ HeadUnreadable(c) \/ HeadRead(c) \/ TakeLarge(c) \/ LargeTimesOut(c)
             \/ BodyUnreadable(c) \/ BodyRead(c) \/ TakeLane(c) \/ LaneTimesOut(c)
             \/ Answer(c) \/ BudgetRunsOut(c) \/ CountOutlived(c) \/ MarkOutlived(c) \/ Uncount(c)
Ends(t) == TaskEndSwaps(t) \/ TaskEndDecrements(t) \/ PermitDropped(t)

Next == \/ \E c \in Conn : Accept(c) \/ Serves(c)
        \/ \E t \in Task : Returns(t) \/ Ends(t)
        \/ AcceptRefused \/ Cancel

(* Every wait of a connection has a timeout of its own and every drop runs   *)
(* to its end; a tool call may never return.                                 *)
Fairness == /\ \A c \in Conn : WF_vars(Serves(c))
            /\ \A t \in Task : WF_vars(Ends(t))

Spec == Init /\ [][Next]_vars /\ Fairness

-----------------------------------------------------------------------------
(* Every variable keeps its type. *)
TypeOK ==
  /\ conn \in [Conn -> Stages]
  /\ \A c \in Conn : req[c] = NoReq <=> conn[c] \in {"closed", "head"}
  /\ avail \in [Lanes -> Nat]
  /\ task \in [Task -> [lane : Lanes \cup {"none"}, flag : {"RUNNING", "OUTLIVED", "ENDED"},
                       phase : Phases]]
  /\ taskOf \in [Conn -> Task \cup {NoTask}]
  /\ ends \in Nat
  /\ cancelled \in BOOLEAN

Owners(l) == {c \in Conn : l = "large" /\ HoldsLarge(c)}
             \cup {t \in Task : task[t].lane = l /\ task[t].phase # "over"}

(* A permit of a lane is free or owned by exactly one request that reads its *)
(* body or one tool task that has not ended, whoever still waits for it: no  *)
(* exit leaks a permit, and calls that outlived their response still count   *)
(* against their lane (mcp_http.rs, run_with_budget and serve_connection).   *)
PermitsConserved == \A l \in Lanes : avail[l] + Cardinality(Owners(l)) = Permits[l]

InFlight == {c \in Conn : conn[c] \notin {"closed", "head"}}

(* The numbers of /api/status add up: every request whose head was read is   *)
(* in flight or in exactly one of the counters, and the gauge of outlived    *)
(* calls is the number of calls still running after their timeout response,  *)
(* but for the bookkeeping in progress, so it never wraps below zero.        *)
CountersTellTruth ==
  /\ metrics.requests = Cardinality(InFlight) + metrics.rejects + metrics.errors
                          + ends
  /\ metrics.outlived = Cardinality({t \in Task : task[t].flag = "OUTLIVED" \/ task[t].phase = "decrement"})
                          + Cardinality({c \in Conn : conn[c] \in {"counted", "uncount"}})

(* Whatever times out, is refused, outlives its response or is cut off, the  *)
(* permits and the numbers of /api/status balance.                           *)
BooksBalance == TypeOK /\ PermitsConserved /\ CountersTellTruth

(* What a tool call that was let through claims agrees with itself, however  *)
(* many of its parts are wrong: it names one supported version everywhere,   *)
(* its headers name its method and tool, its arguments are exactly of the    *)
(* declared keys, a read-only listener runs only reads, and the stdio server *)
(* would run it too (mcp_http.rs, handle_body to call_tool; mcp_registry.rs, *)
(* validated_args; mcp.rs).                                                  *)
CallsAgree ==
  \A c \in Conn : LET b == call[c] IN b # NoCall =>
    /\ b.json = "object" /\ b.id /\ b.method = "tools/call"
    /\ {b.version, b.meta} \ {"none"} \in {{v} : v \in SUPPORTED_VERSIONS}
    /\ {b.mcpMethod, b.mcpName} \subseteq {"none", "same"}
    /\ b.version = MODERN_VERSION => b.meta = b.version /\ {b.mcpMethod, b.mcpName} = {"same"}
    /\ b.tool \in REGISTRY /\ (readOnly => b.tool.access = "Read")
    /\ b.tool.required \subseteq {k \in DOMAIN b.given : b.given[k] = "typed"}
    /\ DOMAIN b.given \subseteq Declared(b.tool)
    /\ StdioAnswer(b) = Run

(* Every connection is answered and closed, though lanes are full, bodies    *)
(* stall and tool calls never return.                                        *)
RequestEnds == \A c \in Conn : conn[c] # "closed" ~> conn[c] = "closed"
=============================================================================
