--------------------------- MODULE McpHttpProofs ---------------------------
(***************************************************************************)
(* Theorems about McpHttp, for every number of connections, tasks and      *)
(* permits: the books of the listener balance, and a call that waits for   *)
(* its lane agrees with its headers and its tool's arguments.              *)
(***************************************************************************)
EXTENDS McpHttp, FiniteSetTheorems, TLAPS

One(p) == IF p THEN 1 ELSE 0

\* The sets the books count.
Holders(l) == {c \in Conn : l = "large" /\ HoldsLarge(c)}
Running(l) == {t \in Task : task[t].lane = l /\ task[t].phase # "over"}
Outlived == {t \in Task : task[t].flag = "OUTLIVED" \/ task[t].phase = "decrement"}
Counting == {c \in Conn : conn[c] \in {"counted", "uncount"}}
Busy == {t \in Task : ~Free(t)}
Young == {c \in Conn : conn[c] \in {"head", "wantsLarge", "body", "wantsLane"}}

TaskRec == [lane : Lanes \cup {"none"}, flag : {"RUNNING", "OUTLIVED", "ENDED"}, phase : Phases]

Typed ==
  /\ conn \in [Conn -> Stages] /\ req \in [Conn -> DOMAIN Heads \cup {NoReq}]
  /\ call \in [Conn -> Bodies \cup {NoCall}] /\ avail \in [Lanes -> Nat]
  /\ task \in [Task -> TaskRec] /\ taskOf \in [Conn -> Task \cup {NoTask}]
  /\ metrics \in [requests : Int, errors : Int, rejects : Int, outlived : Int]
  /\ ends \in Nat /\ arrivals \in 0 .. MostArrivals
  /\ cancelled \in BOOLEAN /\ readOnly \in BOOLEAN

\* What the stage of a connection says of its head, its call and its task.
ConnShape(c) ==
  /\ req[c] = NoReq <=> conn[c] \in {"closed", "head"}
  /\ conn[c] = "wantsLarge" => HeadOf(c).mib > 1
  /\ conn[c] = "wantsLane" => call[c] # NoCall
  /\ conn[c] \in {"running", "timedOut", "counted", "uncount"} => taskOf[c] \in Task

TaskShape(t) ==
  /\ task[t].phase # "over" => task[t].lane \in Lanes
  /\ task[t].phase \in {"decrement", "releasing", "over"} => task[t].flag = "ENDED"

Permitted == \A l \in Lanes : avail[l] + Cardinality(Holders(l)) + Cardinality(Running(l)) = Permits[l]
Requested == metrics.requests = Cardinality(InFlight) + metrics.rejects + metrics.errors + ends
Gauged == metrics.outlived = Cardinality(Outlived) + Cardinality(Counting)

\* A connection that has no task yet has one in store: each arrival takes one at most.
Spare == Cardinality(Busy) + Cardinality(Young) <= arrivals

Books == Permitted /\ Requested /\ Gauged /\ Spare
MInv == /\ Typed /\ (\A c \in Conn : ConnShape(c)) /\ (\A t \in Task : TaskShape(t))
        /\ CallsAgree /\ Books

-----------------------------------------------------------------------------
(* Counting *)

LEMMA OneDiffers ==
  ASSUME NEW D, IsFiniteSet(D), NEW S \in SUBSET D, NEW T \in SUBSET D, NEW x,
         \A y \in D : y # x => (y \in S <=> y \in T)
  PROVE  /\ Cardinality(S) \in Nat /\ Cardinality(T) \in Nat
         /\ Cardinality(T) = Cardinality(S) + One(x \in T) - One(x \in S)
  <1>1. IsFiniteSet(S) /\ IsFiniteSet(T) BY FS_Subset
  <1>2. Cardinality(S) \in Nat /\ Cardinality(T) \in Nat BY <1>1, FS_CardinalityType
  <1>3. CASE x \in S /\ x \in T
    <2>1. S = T BY <1>3
    <2> QED BY <2>1, <1>2, <1>3 DEF One
  <1>4. CASE x \in S /\ x \notin T
    <2>1. T = S \ {x} BY <1>4
    <2> QED BY <2>1, <1>1, <1>2, <1>4, FS_RemoveElement DEF One
  <1>5. CASE x \notin S /\ x \in T
    <2>1. T = S \cup {x} BY <1>5
    <2> QED BY <2>1, <1>1, <1>2, <1>5, FS_AddElement DEF One
  <1>6. CASE x \notin S /\ x \notin T
    <2>1. S = T BY <1>6
    <2> QED BY <2>1, <1>2, <1>6 DEF One
  <1> QED BY <1>3, <1>4, <1>5, <1>6

LEMMA SubsetSized ==
  /\ \A S : S \in SUBSET Conn => Cardinality(S) \in Nat
  /\ \A S : S \in SUBSET Task => Cardinality(S) \in Nat
  BY McpAssumption, FS_Subset, FS_CardinalityType

LEMMA Sized ==
  /\ \A l \in Lanes : Cardinality(Holders(l)) \in Nat /\ Cardinality(Running(l)) \in Nat
  /\ Cardinality(Outlived) \in Nat /\ Cardinality(Counting) \in Nat
  /\ Cardinality(Busy) \in Nat /\ Cardinality(Young) \in Nat /\ Cardinality(InFlight) \in Nat
  BY SubsetSized DEF Holders, Running, Outlived, Counting, Busy, Young, InFlight

\* A step that changes one connection changes what is counted of the connections by that one.
LEMMA ConnCounts ==
  ASSUME NEW c \in Conn,
         \A d \in Conn : d # c => conn'[d] = conn[d] /\ req'[d] = req[d]
  PROVE  /\ \A l \in Lanes :
              Cardinality(Holders(l)') = Cardinality(Holders(l))
                                         + One(c \in Holders(l)') - One(c \in Holders(l))
         /\ Cardinality(InFlight') = Cardinality(InFlight) + One(c \in InFlight') - One(c \in InFlight)
         /\ Cardinality(Counting') = Cardinality(Counting) + One(c \in Counting') - One(c \in Counting)
         /\ Cardinality(Young') = Cardinality(Young) + One(c \in Young') - One(c \in Young)
  <1> USE McpAssumption
  <1>1. ASSUME NEW l \in Lanes
        PROVE  Cardinality(Holders(l)') = Cardinality(Holders(l))
                                          + One(c \in Holders(l)') - One(c \in Holders(l))
    <2>1. Holders(l) \in SUBSET Conn /\ Holders(l)' \in SUBSET Conn BY DEF Holders
    <2>2. \A d \in Conn : d # c => (d \in Holders(l) <=> d \in Holders(l)')
      BY DEF Holders, HoldsLarge, HeadOf
    <2> QED BY <2>1, <2>2, OneDiffers
  <1>2. Cardinality(InFlight') = Cardinality(InFlight) + One(c \in InFlight') - One(c \in InFlight)
    <2>1. InFlight \in SUBSET Conn /\ InFlight' \in SUBSET Conn BY DEF InFlight
    <2>2. \A d \in Conn : d # c => (d \in InFlight <=> d \in InFlight') BY DEF InFlight
    <2> QED BY <2>1, <2>2, OneDiffers
  <1>3. Cardinality(Counting') = Cardinality(Counting) + One(c \in Counting') - One(c \in Counting)
    <2>1. Counting \in SUBSET Conn /\ Counting' \in SUBSET Conn BY DEF Counting
    <2>2. \A d \in Conn : d # c => (d \in Counting <=> d \in Counting') BY DEF Counting
    <2> QED BY <2>1, <2>2, OneDiffers
  <1>4. Cardinality(Young') = Cardinality(Young) + One(c \in Young') - One(c \in Young)
    <2>1. Young \in SUBSET Conn /\ Young' \in SUBSET Conn BY DEF Young
    <2>2. \A d \in Conn : d # c => (d \in Young <=> d \in Young') BY DEF Young
    <2> QED BY <2>1, <2>2, OneDiffers
  <1> QED BY <1>1, <1>2, <1>3, <1>4

LEMMA TaskCounts ==
  ASSUME NEW t \in Task, \A u \in Task : u # t => task'[u] = task[u]
  PROVE  /\ \A l \in Lanes :
              Cardinality(Running(l)') = Cardinality(Running(l))
                                         + One(t \in Running(l)') - One(t \in Running(l))
         /\ Cardinality(Outlived') = Cardinality(Outlived) + One(t \in Outlived') - One(t \in Outlived)
  <1> USE McpAssumption
  <1>1. ASSUME NEW l \in Lanes
        PROVE  Cardinality(Running(l)') = Cardinality(Running(l))
                                          + One(t \in Running(l)') - One(t \in Running(l))
    <2>1. Running(l) \in SUBSET Task /\ Running(l)' \in SUBSET Task BY DEF Running
    <2>2. \A u \in Task : u # t => (u \in Running(l) <=> u \in Running(l)') BY DEF Running
    <2> QED BY <2>1, <2>2, OneDiffers
  <1>2. Cardinality(Outlived') = Cardinality(Outlived) + One(t \in Outlived') - One(t \in Outlived)
    <2>1. Outlived \in SUBSET Task /\ Outlived' \in SUBSET Task BY DEF Outlived
    <2>2. \A u \in Task : u # t => (u \in Outlived <=> u \in Outlived') BY DEF Outlived
    <2> QED BY <2>1, <2>2, OneDiffers
  <1> QED BY <1>1, <1>2

\* A step that frees no more than it leaves free uses up no task.
LEMMA BusyShrinks ==
  ASSUME \A t \in Task : Free(t) => Free(t)'
  PROVE  Cardinality(Busy') <= Cardinality(Busy)
  <1>1. Busy' \in SUBSET Busy /\ Busy \in SUBSET Task BY DEF Busy
  <1>2. IsFiniteSet(Busy) BY <1>1, McpAssumption, FS_Subset
  <1> QED BY <1>1, <1>2, FS_Subset

LEMMA SameTasks ==
  ASSUME task' = task
  PROVE  /\ \A l \in Lanes : Cardinality(Running(l)') = Cardinality(Running(l))
         /\ Cardinality(Outlived') = Cardinality(Outlived)
  BY DEF Running, Outlived

LEMMA SameConns ==
  ASSUME conn' = conn, req' = req
  PROVE  /\ \A l \in Lanes : Cardinality(Holders(l)') = Cardinality(Holders(l))
         /\ Cardinality(InFlight') = Cardinality(InFlight)
         /\ Cardinality(Counting') = Cardinality(Counting)
         /\ Cardinality(Young') = Cardinality(Young)
  BY DEF Holders, HoldsLarge, HeadOf, InFlight, Counting, Young

-----------------------------------------------------------------------------
(* What the checks of a body let through *)

LEMMA Versions == ToSet(LEGACY_VERSIONS) = {"2025-11-25", "2025-06-18"}
  <1>1. DOMAIN LEGACY_VERSIONS = 1 .. 2 BY DEF LEGACY_VERSIONS
  <1>2. ToSet(LEGACY_VERSIONS) = {LEGACY_VERSIONS[i] : i \in 1 .. 2} BY <1>1 DEF ToSet
  <1> QED BY <1>2 DEF LEGACY_VERSIONS

\* What CallsAgree says of one call.
Agrees(b, ro) ==
  /\ b.json = "object" /\ b.id /\ b.method = "tools/call"
  /\ {b.version, b.meta} \ {"none"} \in {{v} : v \in SUPPORTED_VERSIONS}
  /\ {b.mcpMethod, b.mcpName} \subseteq {"none", "same"}
  /\ b.version = MODERN_VERSION => b.meta = b.version /\ {b.mcpMethod, b.mcpName} = {"same"}
  /\ b.tool \in REGISTRY /\ (ro => b.tool.access = "Read")
  /\ b.tool.required \subseteq {k \in DOMAIN b.given : b.given[k] = "typed"}
  /\ DOMAIN b.given \subseteq Declared(b.tool)
  /\ StdioAnswer(b) = Run

LEMMA Eras ==
  ASSUME NEW b
  PROVE  DetectEra(b) \in {"mismatch", "legacy", "modern", "unsupported"}
  BY DEF DetectEra

LEMMA Kinds ==
  ASSUME NEW b, NEW ro
  PROVE  HandleBody(b, ro).kind \in {"reject", "ok", "error", "run"}
  <1>1. CallTool(b, ro).kind \in {"error", "run"} BY DEF CallTool, Run, Error
  <1>2. DispatchLegacy(b, ro).kind \in {"reject", "ok", "error", "run"}
    BY <1>1 DEF DispatchLegacy, Ok, Error
  <1>3. DispatchModern(b, ro).kind \in {"reject", "ok", "error", "run"}
    BY <1>1 DEF DispatchModern, Ok, Error
  <1> QED BY <1>2, <1>3, Eras DEF HandleBody, Reject, Ok

LEMMA LetThrough ==
  ASSUME NEW b \in Bodies, HandleBody(b, readOnly).kind = "run"
  PROVE  Agrees(b, readOnly)
  <1> DEFINE era == DetectEra(b)
  <1>1. /\ b.json = "object" /\ b.envelope /\ b.method # "notifications/initialized" /\ b.id
        /\ era \in {"legacy", "modern"} /\ HeadersAgree(era, b)
        /\ \/ era = "legacy" /\ DispatchLegacy(b, readOnly).kind = "run"
           \/ era = "modern" /\ DispatchModern(b, readOnly).kind = "run"
    BY Eras, McpAssumption DEF HandleBody, Reject, Ok
  <1>2. b.method = "tools/call" /\ CallTool(b, readOnly).kind = "run"
    BY <1>1 DEF DispatchLegacy, DispatchModern, Ok, Error
  <1>3. /\ b.tool # NoTool /\ Allowed(b.tool, readOnly) /\ b.given # NoObject
        /\ ValidatedArgs(b.tool, b.given).ok
    BY <1>2 DEF CallTool, Error
  <1>4. b.version \in {"2025-11-25", "2025-06-18", MODERN_VERSION}
        /\ (era = "modern" <=> b.version = MODERN_VERSION)
    BY <1>1, <1>2, Versions DEF DetectEra, MODERN_VERSION
  <1>5. /\ b.version \in SUPPORTED_VERSIONS /\ b.version # "none"
        /\ b.meta # "none" => b.meta = b.version
    BY <1>1, <1>4, Versions DEF SUPPORTED_VERSIONS, MODERN_VERSION, HeadersAgree
  <1>6. {b.version, b.meta} \ {"none"} = {b.version} BY <1>5
  <1>7. /\ {b.mcpMethod, b.mcpName} \subseteq {"none", "same"}
        /\ b.version = MODERN_VERSION => b.meta = b.version /\ {b.mcpMethod, b.mcpName} = {"same"}
    <2>1. b.method \in Named BY <1>2 DEF Named
    <2>2. /\ b.mcpMethod \in {"none", "same", "other", "unusable"}
          /\ b.mcpName \in {"none", "same", "other", "unusable"}
      BY McpAssumption
    <2>3. b.mcpMethod \in {"none", "same"} /\ b.mcpName \in {"none", "same"}
      BY <1>1, <2>1, <2>2 DEF HeadersAgree
    <2>4. ASSUME b.version = MODERN_VERSION
          PROVE  b.meta # "none" /\ b.mcpMethod # "none" /\ b.mcpName # "none"
      BY <2>4, <1>1, <1>4, <2>1 DEF HeadersAgree
    <2> QED BY <1>5, <2>3, <2>4
  <1>8. /\ b.tool.required \subseteq {k \in DOMAIN b.given : b.given[k] = "typed"}
        /\ DOMAIN b.given \subseteq Declared(b.tool)
    BY <1>3 DEF ValidatedArgs
  <1>9. StdioAnswer(b) = Run BY <1>1, <1>2, <1>3 DEF StdioAnswer
  <1>10. b.tool \in REGISTRY /\ (readOnly => b.tool.access = "Read")
    BY <1>3, McpAssumption DEF Allowed
  <1> QED BY <1>1, <1>2, <1>5, <1>6, <1>7, <1>8, <1>9, <1>10 DEF Agrees

LEMMA ToolLanes == \A tool \in REGISTRY : tool.access \in {"Read", "Write"}
  BY DEF REGISTRY, Read, Write, Tool, OfMessage, JidOnly

-----------------------------------------------------------------------------
(* What the actions have in common *)

MetricsType == [requests : Int, errors : Int, rejects : Int, outlived : Int]

LEMMA CallsKept ==
  ASSUME CallsAgree, readOnly' = readOnly,
         \A d \in Conn : call'[d] = call[d] \/ call'[d] = NoCall \/ Agrees(call'[d], readOnly)
  PROVE  CallsAgree'
  <1>1. \A d \in Conn : call[d] # NoCall => Agrees(call[d], readOnly) BY DEF CallsAgree, Agrees
  <1>2. \A d \in Conn : call'[d] # NoCall => Agrees(call'[d], readOnly') BY <1>1
  <1> QED BY <1>2 DEF CallsAgree, Agrees

LEMMA EndCounts ==
  ASSUME NEW c \in Conn, NEW kind \in {"reject", "ok", "error", "capacity", "noLarge"},
         NEW m \in MetricsType, ends \in Nat, EndRequest(c, kind, m)
  PROVE  /\ Close(c) /\ metrics' \in MetricsType /\ ends' \in Nat
         /\ metrics'.requests = m.requests /\ metrics'.outlived = m.outlived
         /\ metrics'.rejects + metrics'.errors + ends' = m.rejects + m.errors + ends + 1
  <1>1. Close(c) BY DEF EndRequest
  <1>2. /\ metrics' = [m EXCEPT !.rejects = @ + IF kind = "reject" THEN 1 ELSE 0,
                              !.errors = @ + IF kind \in {"error", "capacity"} THEN 1 ELSE 0]
        /\ ends' = ends + (IF kind \in {"ok", "noLarge"} THEN 1 ELSE 0)
    BY DEF EndRequest, CountEnd
  <1>3. m.requests \in Int /\ m.errors \in Int /\ m.rejects \in Int /\ m.outlived \in Int
    BY DEF MetricsType
  <1> DEFINE r == IF kind = "reject" THEN 1 ELSE 0
             x == IF kind \in {"error", "capacity"} THEN 1 ELSE 0
             o == IF kind \in {"ok", "noLarge"} THEN 1 ELSE 0
  <1>4. r \in Int /\ x \in Int /\ o \in Nat /\ r + x + o = 1 OBVIOUS
  <1>5. metrics' = [m EXCEPT !.rejects = @ + r, !.errors = @ + x] /\ ends' = ends + o BY <1>2
  <1> HIDE DEF r, x, o
  <1>6. /\ metrics' \in MetricsType
        /\ metrics'.requests = m.requests /\ metrics'.outlived = m.outlived
        /\ metrics'.rejects = m.rejects + r /\ metrics'.errors = m.errors + x
    <2>1. m.rejects + r \in Int /\ m.errors + x \in Int BY <1>3, <1>4
    <2>2. metrics' = [m EXCEPT !.rejects = m.rejects + r, !.errors = m.errors + x] BY <1>5
    <2>3. DOMAIN m = {"requests", "errors", "rejects", "outlived"} BY DEF MetricsType
    <2>4. /\ metrics'.requests = m.requests /\ metrics'.outlived = m.outlived
          /\ metrics'.rejects = m.rejects + r /\ metrics'.errors = m.errors + x
      BY <2>2, <2>3
    <2>5. metrics' \in MetricsType
      <3> DEFINE n == [m EXCEPT !.rejects = m.rejects + r]
      <3>1. n \in MetricsType BY <2>1 DEF MetricsType
      <3>2. [n EXCEPT !.errors = m.errors + x] \in MetricsType BY <2>1, <3>1 DEF MetricsType
      <3> QED BY <2>2, <3>2
    <2> QED BY <2>4, <2>5
  <1> QED BY <1>1, <1>3, <1>4, <1>5, <1>6

LEMMA Closing ==
  ASSUME MInv, NEW c \in Conn, Close(c), readOnly' = readOnly
  PROVE  /\ conn' \in [Conn -> Stages] /\ req' \in [Conn -> DOMAIN Heads \cup {NoReq}]
         /\ call' \in [Conn -> Bodies \cup {NoCall}] /\ taskOf' \in [Conn -> Task \cup {NoTask}]
         /\ \A d \in Conn : ConnShape(d)'
         /\ CallsAgree'
         /\ \A l \in Lanes : Cardinality(Holders(l)') = Cardinality(Holders(l)) - One(l = "large" /\ HoldsLarge(c))
         /\ Cardinality(InFlight') = Cardinality(InFlight) - One(conn[c] \notin {"closed", "head"})
         /\ Cardinality(Counting') = Cardinality(Counting) - One(conn[c] \in {"counted", "uncount"})
         /\ Cardinality(Young') <= Cardinality(Young)
         /\ \A t \in Task : taskOf'[c] # t
         /\ \A d \in Conn : d # c => taskOf'[d] = taskOf[d]
  <1> USE DEF MInv, Typed, Close
  <1>1. /\ conn' \in [Conn -> Stages] /\ req' \in [Conn -> DOMAIN Heads \cup {NoReq}]
        /\ call' \in [Conn -> Bodies \cup {NoCall}] /\ taskOf' \in [Conn -> Task \cup {NoTask}]
    BY DEF Stages
  <1>2. conn'[c] = "closed" /\ req'[c] = NoReq /\ call'[c] = NoCall /\ taskOf'[c] = NoTask OBVIOUS
  <1>3. \A d \in Conn : d # c => /\ conn'[d] = conn[d] /\ req'[d] = req[d]
                                 /\ call'[d] = call[d] /\ taskOf'[d] = taskOf[d]
    OBVIOUS
  <1>4. ASSUME NEW d \in Conn PROVE ConnShape(d)'
    <2>1. CASE d = c BY <2>1, <1>2 DEF ConnShape
    <2>2. CASE d # c BY <2>2, <1>3 DEF ConnShape, HeadOf
    <2> QED BY <2>1, <2>2
  <1>5. CallsAgree' BY <1>2, <1>3, CallsKept
  <1>6. \A l \in Lanes : (c \in Holders(l) <=> l = "large" /\ HoldsLarge(c)) /\ c \notin Holders(l)'
    BY <1>2 DEF Holders, HoldsLarge
  <1>7. (c \in InFlight <=> conn[c] \notin {"closed", "head"}) /\ c \notin InFlight'
    BY <1>2 DEF InFlight
  <1>8. (c \in Counting <=> conn[c] \in {"counted", "uncount"}) /\ c \notin Counting'
    BY <1>2 DEF Counting
  <1>9. c \notin Young' BY <1>2 DEF Young
  <1>10. \A t \in Task : taskOf'[c] # t BY <1>2, McpAssumption DEF NoTask
  <1> HIDE DEF MInv, Typed, Close
  <1>11. /\ \A l \in Lanes :
              Cardinality(Holders(l)') = Cardinality(Holders(l))
                                         + One(c \in Holders(l)') - One(c \in Holders(l))
         /\ Cardinality(InFlight') = Cardinality(InFlight) + One(c \in InFlight') - One(c \in InFlight)
         /\ Cardinality(Counting') = Cardinality(Counting) + One(c \in Counting') - One(c \in Counting)
         /\ Cardinality(Young') = Cardinality(Young) + One(c \in Young') - One(c \in Young)
    BY <1>3, ConnCounts
  <1>12. \A l \in Lanes : Cardinality(Holders(l)') = Cardinality(Holders(l)) - One(l = "large" /\ HoldsLarge(c))
    BY <1>6, <1>11, Sized DEF One
  <1>13. /\ Cardinality(InFlight') = Cardinality(InFlight) - One(conn[c] \notin {"closed", "head"})
         /\ Cardinality(Counting') = Cardinality(Counting) - One(conn[c] \in {"counted", "uncount"})
         /\ Cardinality(Young') <= Cardinality(Young)
    BY <1>7, <1>8, <1>9, <1>11, Sized DEF One
  <1> QED BY <1>1, <1>3, <1>4, <1>5, <1>10, <1>12, <1>13

\* Closing a connection frees what it waited for and takes up nothing.
LEMMA ClosingSpares ==
  ASSUME MInv, NEW c \in Conn, Close(c), readOnly' = readOnly, arrivals' = arrivals,
         \A t \in Task : task[t] = FreeTask => task'[t] = FreeTask
  PROVE  Spare'
  <1>1. \A t \in Task : Free(t) => Free(t)' BY Closing DEF Free
  <1>2. Cardinality(Busy') <= Cardinality(Busy) BY <1>1, BusyShrinks
  <1>3. Cardinality(Busy') \in Nat /\ Cardinality(Young') \in Nat BY SubsetSized DEF Busy, Young
  <1> QED BY <1>2, <1>3, Sized, Closing DEF MInv, Books, Spare, Typed

-----------------------------------------------------------------------------
(* The ends of a request *)

Same == arrivals' = arrivals /\ cancelled' = cancelled /\ readOnly' = readOnly

LEMMA Leaves ==
  ASSUME MInv, NEW c \in Conn, NEW kind \in {"reject", "ok", "error", "capacity", "noLarge"},
         NEW m \in MetricsType, EndRequest(c, kind, m), task' = task, Same,
         m.rejects = metrics.rejects, m.errors = metrics.errors,
         m.requests = metrics.requests + One(conn[c] \in {"closed", "head"}),
         m.outlived = metrics.outlived - One(conn[c] \in {"counted", "uncount"}),
         avail' \in [Lanes -> Nat],
         \A l \in Lanes : avail'[l] = avail[l] + One(l = "large" /\ HoldsLarge(c))
  PROVE  MInv'
  <1>1. ends \in Nat /\ readOnly' = readOnly /\ arrivals' = arrivals BY DEF MInv, Typed, Same
  <1>2. /\ Close(c) /\ metrics' \in MetricsType /\ ends' \in Nat
        /\ metrics'.requests = m.requests /\ metrics'.outlived = m.outlived
        /\ metrics'.rejects + metrics'.errors + ends' = m.rejects + m.errors + ends + 1
    BY <1>1, EndCounts
  <1>3. Typed'
    BY <1>1, <1>2, Closing DEF MInv, Typed, Same, MetricsType
  <1>4. \A t \in Task : TaskShape(t)' BY DEF MInv, TaskShape
  <1>5. Permitted'
    <2> SUFFICES ASSUME NEW l \in Lanes
                 PROVE  avail'[l] + Cardinality(Holders(l)') + Cardinality(Running(l)') = Permits[l]
      BY DEF Permitted
    <2>1. Cardinality(Running(l)') = Cardinality(Running(l)) BY SameTasks
    <2>2. Cardinality(Holders(l)') = Cardinality(Holders(l)) - One(l = "large" /\ HoldsLarge(c))
      BY <1>1, <1>2, Closing
    <2>3. avail[l] + Cardinality(Holders(l)) + Cardinality(Running(l)) = Permits[l]
      BY DEF MInv, Books, Permitted
    <2>4. avail[l] \in Nat BY DEF MInv, Typed
    <2> QED BY <2>1, <2>2, <2>3, <2>4, Sized DEF One
  <1>6. Requested'
    <2>1. Cardinality(InFlight') = Cardinality(InFlight) - One(conn[c] \notin {"closed", "head"})
      BY <1>1, <1>2, Closing
    <2>2. metrics.requests = Cardinality(InFlight) + metrics.rejects + metrics.errors + ends
      BY DEF MInv, Books, Requested
    <2>3. /\ metrics.requests \in Int /\ metrics.rejects \in Int /\ metrics.errors \in Int
          /\ metrics'.rejects \in Int /\ metrics'.errors \in Int
      BY <1>2 DEF MInv, Typed, MetricsType
    <2> QED BY <1>1, <1>2, <2>1, <2>2, <2>3, Sized DEF Requested, One
  <1>7. Gauged'
    <2>1. Cardinality(Counting') = Cardinality(Counting) - One(conn[c] \in {"counted", "uncount"})
      BY <1>1, <1>2, Closing
    <2>2. Cardinality(Outlived') = Cardinality(Outlived) BY SameTasks
    <2>3. metrics.outlived = Cardinality(Outlived) + Cardinality(Counting) BY DEF MInv, Books, Gauged
    <2> QED BY <1>2, <2>1, <2>2, <2>3, Sized DEF Gauged, One
  <1>8. Spare' BY <1>1, <1>2, ClosingSpares
  <1> QED BY <1>1, <1>2, <1>3, <1>4, <1>5, <1>6, <1>7, <1>8, Closing DEF MInv, Books

LEMMA KeptHeadUnreadable ==
  ASSUME MInv, NEW c \in Conn, HeadUnreadable(c) PROVE MInv'
  <1> USE DEF HeadUnreadable
  <1>1. Typed' BY Closing DEF MInv, Typed
  <1>2. \A t \in Task : TaskShape(t)' BY DEF MInv, TaskShape
  <1>3. Permitted' BY SameTasks, Closing, Sized DEF MInv, Books, Permitted, Typed, HoldsLarge, One
  <1>4. Requested' BY Closing, Sized DEF MInv, Books, Requested, One
  <1>5. Gauged' BY Closing, SameTasks, Sized DEF MInv, Books, Gauged, One
  <1>6. Spare' BY ClosingSpares
  <1> QED BY <1>1, <1>2, <1>3, <1>4, <1>5, <1>6, Closing DEF MInv, Books

LEMMA KeptRefusals ==
  ASSUME MInv, NEW c \in Conn,
         LargeTimesOut(c) \/ BodyUnreadable(c) \/ LaneTimesOut(c) \/ Answer(c) \/ Uncount(c)
  PROVE  MInv'
  <1>0. metrics \in MetricsType /\ metrics.outlived \in Int /\ metrics.requests \in Int
    BY DEF MInv, Typed, MetricsType
  <1>1. avail \in [Lanes -> Nat] BY DEF MInv, Typed
  <1>2. ASSUME avail' = avail, conn[c] # "body"
        PROVE  /\ avail' \in [Lanes -> Nat]
               /\ \A l \in Lanes : avail'[l] = avail[l] + One(l = "large" /\ HoldsLarge(c))
    BY <1>1, <1>2 DEF HoldsLarge, One
  <1>3. CASE LargeTimesOut(c)
    <2>1. conn[c] = "wantsLarge" /\ EndRequest(c, "noLarge", metrics) /\ avail' = avail /\ task' = task /\ Same
      BY <1>3 DEF LargeTimesOut, Same
    <2> QED BY <1>0, <1>2, <2>1, Leaves DEF One
  <1>4. CASE BodyUnreadable(c)
    <2>1. conn[c] = "body" /\ EndRequest(c, "reject", metrics) /\ DropLarge(c) /\ task' = task /\ Same
      BY <1>4 DEF BodyUnreadable, Same
    <2>2. /\ avail' \in [Lanes -> Nat]
          /\ \A l \in Lanes : avail'[l] = avail[l] + One(l = "large" /\ HoldsLarge(c))
      BY <1>1, <2>1 DEF DropLarge, One, Lanes
    <2> QED BY <1>0, <2>1, <2>2, Leaves DEF One
  <1>5. CASE LaneTimesOut(c)
    <2>1. conn[c] = "wantsLane" /\ EndRequest(c, "capacity", metrics) /\ avail' = avail /\ task' = task /\ Same
      BY <1>5 DEF LaneTimesOut, Same
    <2> QED BY <1>0, <1>2, <2>1, Leaves DEF One
  <1>6. CASE Answer(c)
    <2>1. /\ conn[c] = "running" /\ avail' = avail /\ task' = task /\ Same
          /\ \E kind \in {"ok", "error"} : EndRequest(c, kind, metrics)
      BY <1>6 DEF Answer, Same
    <2> QED BY <1>0, <1>2, <2>1, Leaves DEF One
  <1>7. CASE Uncount(c)
    <2> DEFINE m == [metrics EXCEPT !.outlived = metrics.outlived - 1]
    <2>1. conn[c] = "uncount" /\ EndRequest(c, "error", m) /\ avail' = avail /\ task' = task /\ Same
      BY <1>7 DEF Uncount, Same
    <2>2. /\ m \in MetricsType /\ m.rejects = metrics.rejects /\ m.errors = metrics.errors
          /\ m.requests = metrics.requests /\ m.outlived = metrics.outlived - 1
      BY <1>0 DEF MetricsType
    <2> HIDE DEF m
    <2> QED BY <1>0, <1>2, <2>1, <2>2, Leaves DEF One
  <1> QED BY <1>3, <1>4, <1>5, <1>6, <1>7

-----------------------------------------------------------------------------

(* Connections on their way *)

\* What a step that moves one connection, and no task, has to show.
LEMMA Moving ==
  ASSUME MInv, NEW c \in Conn, NEW s \in Stages, conn' = [conn EXCEPT ![c] = s],
         \A d \in Conn : d # c => req'[d] = req[d],
         task' = task, taskOf' = taskOf, call' = call, readOnly' = readOnly
  PROVE  /\ conn' \in [Conn -> Stages] /\ conn'[c] = s
         /\ \A d \in Conn : d # c => ConnShape(d)'
         /\ \A t \in Task : TaskShape(t)'
         /\ CallsAgree'
         /\ \A l \in Lanes : Cardinality(Running(l)') = Cardinality(Running(l))
         /\ Cardinality(Outlived') = Cardinality(Outlived)
         /\ Cardinality(Busy') = Cardinality(Busy)
         /\ (HoldsLarge(c)' <=> HoldsLarge(c))
              => \A l \in Lanes : Cardinality(Holders(l)') = Cardinality(Holders(l))
         /\ HoldsLarge(c)' /\ ~HoldsLarge(c)
              => \A l \in Lanes : Cardinality(Holders(l)')
                                    = IF l = "large" THEN Cardinality(Holders(l)) + 1
                                                     ELSE Cardinality(Holders(l))
         /\ (s \in {"closed", "head"} <=> conn[c] \in {"closed", "head"})
              => Cardinality(InFlight') = Cardinality(InFlight)
         /\ s \notin {"closed", "head"} /\ conn[c] \in {"closed", "head"}
              => Cardinality(InFlight') = Cardinality(InFlight) + 1
         /\ (s \in {"counted", "uncount"} <=> conn[c] \in {"counted", "uncount"})
              => Cardinality(Counting') = Cardinality(Counting)
         /\ s \in {"counted", "uncount"} /\ conn[c] \notin {"counted", "uncount"}
              => Cardinality(Counting') = Cardinality(Counting) + 1
         /\ (s \in {"head", "wantsLarge", "body", "wantsLane"}
               <=> conn[c] \in {"head", "wantsLarge", "body", "wantsLane"})
              => Cardinality(Young') = Cardinality(Young)
         /\ s \in {"head", "wantsLarge", "body", "wantsLane"}
               /\ conn[c] \notin {"head", "wantsLarge", "body", "wantsLane"}
              => Cardinality(Young') = Cardinality(Young) + 1
  <1>1. /\ conn' \in [Conn -> Stages] /\ conn'[c] = s
        /\ \A d \in Conn : d # c => conn'[d] = conn[d]
    BY DEF MInv, Typed
  <1>2. ASSUME NEW d \in Conn, d # c PROVE ConnShape(d)'
    BY <1>1, <1>2 DEF MInv, ConnShape, HeadOf
  <1>3. \A t \in Task : TaskShape(t)' BY DEF MInv, TaskShape
  <1>4. CallsAgree' BY CallsKept DEF MInv
  <1>5. Busy' = Busy BY DEF Busy, Free
  <1>6. /\ \A l \in Lanes : /\ c \in Holders(l)' <=> l = "large" /\ HoldsLarge(c)'
                            /\ c \in Holders(l) <=> l = "large" /\ HoldsLarge(c)
        /\ c \in InFlight' <=> s \notin {"closed", "head"}
        /\ c \in InFlight <=> conn[c] \notin {"closed", "head"}
        /\ c \in Counting' <=> s \in {"counted", "uncount"}
        /\ c \in Counting <=> conn[c] \in {"counted", "uncount"}
        /\ c \in Young' <=> s \in {"head", "wantsLarge", "body", "wantsLane"}
        /\ c \in Young <=> conn[c] \in {"head", "wantsLarge", "body", "wantsLane"}
    BY <1>1 DEF Holders, InFlight, Counting, Young
  <1>7. /\ \A l \in Lanes :
              Cardinality(Holders(l)') = Cardinality(Holders(l))
                                         + One(c \in Holders(l)') - One(c \in Holders(l))
        /\ Cardinality(InFlight') = Cardinality(InFlight) + One(c \in InFlight') - One(c \in InFlight)
        /\ Cardinality(Counting') = Cardinality(Counting) + One(c \in Counting') - One(c \in Counting)
        /\ Cardinality(Young') = Cardinality(Young) + One(c \in Young') - One(c \in Young)
    BY <1>1, ConnCounts
  <1>8. /\ (HoldsLarge(c)' <=> HoldsLarge(c))
             => \A l \in Lanes : Cardinality(Holders(l)') = Cardinality(Holders(l))
        /\ HoldsLarge(c)' /\ ~HoldsLarge(c)
             => \A l \in Lanes : Cardinality(Holders(l)')
                                   = IF l = "large" THEN Cardinality(Holders(l)) + 1
                                                    ELSE Cardinality(Holders(l))
    BY <1>6, <1>7, Sized DEF One
  <1>9. /\ (c \in InFlight' <=> c \in InFlight) => Cardinality(InFlight') = Cardinality(InFlight)
        /\ c \in InFlight' /\ c \notin InFlight => Cardinality(InFlight') = Cardinality(InFlight) + 1
    BY <1>7, Sized DEF One
  <1>10. /\ (c \in Counting' <=> c \in Counting) => Cardinality(Counting') = Cardinality(Counting)
         /\ c \in Counting' /\ c \notin Counting => Cardinality(Counting') = Cardinality(Counting) + 1
    BY <1>7, Sized DEF One
  <1>11. /\ (c \in Young' <=> c \in Young) => Cardinality(Young') = Cardinality(Young)
         /\ c \in Young' /\ c \notin Young => Cardinality(Young') = Cardinality(Young) + 1
    BY <1>7, Sized DEF One
  <1> QED BY <1>1, <1>2, <1>3, <1>4, <1>5, <1>6, <1>8, <1>9, <1>10, <1>11, SameTasks

\* The equations of the books, with the types they need.
LEMMA Balances ==
  ASSUME MInv
  PROVE  /\ \A l \in Lanes : /\ avail[l] \in Nat
                             /\ avail[l] + Cardinality(Holders(l)) + Cardinality(Running(l)) = Permits[l]
         /\ metrics.requests = Cardinality(InFlight) + metrics.rejects + metrics.errors + ends
         /\ metrics.outlived = Cardinality(Outlived) + Cardinality(Counting)
         /\ Cardinality(Busy) + Cardinality(Young) <= arrivals
         /\ metrics.requests \in Int /\ metrics.rejects \in Int
         /\ metrics.errors \in Int /\ metrics.outlived \in Int
         /\ ends \in Nat /\ arrivals \in Nat
  BY McpAssumption DEF MInv, Books, Permitted, Requested, Gauged, Spare, Typed

LEMMA KeptAccept ==
  ASSUME MInv, NEW c \in Conn, Accept(c) PROVE MInv'
  <1>1. /\ conn' = [conn EXCEPT ![c] = "head"] /\ "head" \in Stages
        /\ \A d \in Conn : d # c => req'[d] = req[d]
        /\ task' = task /\ taskOf' = taskOf /\ call' = call /\ readOnly' = readOnly
        /\ req' = req /\ avail' = avail /\ metrics' = metrics /\ ends' = ends /\ cancelled' = cancelled
        /\ conn[c] = "closed" /\ arrivals' = arrivals + 1 /\ arrivals < MostArrivals
    BY DEF Stages, Accept
  <1>2. Typed' BY <1>1, Moving, McpAssumption DEF MInv, Typed
  <1>3. ConnShape(c)' BY <1>1, Moving DEF MInv, ConnShape
  <1>4. /\ \A l \in Lanes : /\ Cardinality(Running(l)') = Cardinality(Running(l))
                            /\ Cardinality(Holders(l)') = Cardinality(Holders(l))
        /\ Cardinality(Outlived') = Cardinality(Outlived)
        /\ Cardinality(Busy') = Cardinality(Busy)
        /\ Cardinality(InFlight') = Cardinality(InFlight)
        /\ Cardinality(Counting') = Cardinality(Counting)
        /\ Cardinality(Young') = Cardinality(Young) + 1
    <2>1. ~HoldsLarge(c) /\ ~HoldsLarge(c)' BY <1>1, Moving DEF HoldsLarge
    <2> QED BY <1>1, <2>1, Moving
  <1>5. Permitted' /\ Requested' /\ Gauged' BY <1>1, <1>4, Balances DEF Permitted, Requested, Gauged
  <1>6. Spare' BY <1>1, <1>4, Balances, Sized DEF Spare
  <1> QED BY <1>1, <1>2, <1>3, <1>5, <1>6, Moving DEF MInv, Books

LEMMA KeptTakeLarge ==
  ASSUME MInv, NEW c \in Conn, TakeLarge(c) PROVE MInv'
  <1>1. /\ conn' = [conn EXCEPT ![c] = "body"] /\ "body" \in Stages
        /\ \A d \in Conn : d # c => req'[d] = req[d]
        /\ task' = task /\ taskOf' = taskOf /\ call' = call /\ readOnly' = readOnly
        /\ req' = req /\ metrics' = metrics /\ ends' = ends /\ arrivals' = arrivals
        /\ cancelled' = cancelled /\ conn[c] = "wantsLarge" /\ "large" \in Lanes
        /\ avail["large"] > 0 /\ avail' = [avail EXCEPT !["large"] = avail["large"] - 1]
    BY DEF Stages, Lanes, TakeLarge
  <1>2. /\ avail' \in [Lanes -> Nat]
        /\ \A l \in Lanes : /\ l = "large" => avail'[l] = avail[l] - 1
                            /\ l # "large" => avail'[l] = avail[l]
    <2>1. avail \in [Lanes -> Nat] BY DEF MInv, Typed
    <2>2. avail["large"] - 1 \in Nat BY <1>1, <2>1
    <2> QED BY <1>1, <2>1, <2>2
  <1>3. Typed' BY <1>1, <1>2, Moving DEF MInv, Typed
  <1>4. ConnShape(c)' BY <1>1, Moving DEF MInv, ConnShape
  <1>5. /\ \A l \in Lanes : /\ Cardinality(Running(l)') = Cardinality(Running(l))
                            /\ l = "large" => Cardinality(Holders(l)') = Cardinality(Holders(l)) + 1
                            /\ l # "large" => Cardinality(Holders(l)') = Cardinality(Holders(l))
        /\ Cardinality(Outlived') = Cardinality(Outlived)
        /\ Cardinality(Busy') = Cardinality(Busy)
        /\ Cardinality(InFlight') = Cardinality(InFlight)
        /\ Cardinality(Counting') = Cardinality(Counting)
        /\ Cardinality(Young') = Cardinality(Young)
    <2>1. ~HoldsLarge(c) /\ HoldsLarge(c)'
      BY <1>1, Moving DEF HoldsLarge, HeadOf, MInv, ConnShape
    <2> QED BY <1>1, <2>1, Moving
  <1>6. Permitted'
    <2> SUFFICES ASSUME NEW l \in Lanes
                 PROVE  avail'[l] + Cardinality(Holders(l)') + Cardinality(Running(l)') = Permits[l]
      BY DEF Permitted
    <2>1. /\ avail[l] \in Nat /\ Cardinality(Holders(l)) \in Nat /\ Cardinality(Running(l)) \in Nat
          /\ avail[l] + Cardinality(Holders(l)) + Cardinality(Running(l)) = Permits[l]
      BY Balances, Sized
    <2>2. CASE l = "large"
      <3>1. /\ avail'[l] = avail[l] - 1 /\ Cardinality(Holders(l)') = Cardinality(Holders(l)) + 1
            /\ Cardinality(Running(l)') = Cardinality(Running(l))
        BY <1>2, <1>5, <2>2
      <3> QED BY <2>1, <3>1
    <2>3. CASE l # "large"
      <3>1. /\ avail'[l] = avail[l] /\ Cardinality(Holders(l)') = Cardinality(Holders(l))
            /\ Cardinality(Running(l)') = Cardinality(Running(l))
        BY <1>2, <1>5, <2>3
      <3> QED BY <2>1, <3>1
    <2> QED BY <2>2, <2>3
  <1>7. Requested' /\ Gauged' /\ Spare' BY <1>1, <1>5, Balances DEF Requested, Gauged, Spare
  <1> QED BY <1>1, <1>3, <1>4, <1>6, <1>7, Moving DEF MInv, Books

LEMMA KeptBudgetRunsOut ==
  ASSUME MInv, NEW c \in Conn, BudgetRunsOut(c) PROVE MInv'
  <1>1. /\ conn' = [conn EXCEPT ![c] = "timedOut"] /\ "timedOut" \in Stages
        /\ \A d \in Conn : d # c => req'[d] = req[d]
        /\ task' = task /\ taskOf' = taskOf /\ call' = call /\ readOnly' = readOnly
        /\ req' = req /\ avail' = avail /\ metrics' = metrics /\ ends' = ends
        /\ arrivals' = arrivals /\ cancelled' = cancelled /\ conn[c] = "running"
    BY DEF Stages, BudgetRunsOut
  <1>2. Typed' BY <1>1, Moving DEF MInv, Typed
  <1>3. ConnShape(c)' BY <1>1, Moving DEF MInv, ConnShape
  <1>4. /\ \A l \in Lanes : /\ Cardinality(Running(l)') = Cardinality(Running(l))
                            /\ Cardinality(Holders(l)') = Cardinality(Holders(l))
        /\ Cardinality(Outlived') = Cardinality(Outlived)
        /\ Cardinality(Busy') = Cardinality(Busy)
        /\ Cardinality(InFlight') = Cardinality(InFlight)
        /\ Cardinality(Counting') = Cardinality(Counting)
        /\ Cardinality(Young') = Cardinality(Young)
    <2>1. ~HoldsLarge(c) /\ ~HoldsLarge(c)' BY <1>1, Moving DEF HoldsLarge
    <2> QED BY <1>1, <2>1, Moving
  <1>5. Permitted' /\ Requested' /\ Gauged' /\ Spare'
    BY <1>1, <1>4, Balances DEF Permitted, Requested, Gauged, Spare
  <1> QED BY <1>1, <1>2, <1>3, <1>5, Moving DEF MInv, Books

LEMMA KeptCountOutlived ==
  ASSUME MInv, NEW c \in Conn, CountOutlived(c) PROVE MInv'
  <1>1. /\ conn' = [conn EXCEPT ![c] = "counted"] /\ "counted" \in Stages
        /\ \A d \in Conn : d # c => req'[d] = req[d]
        /\ task' = task /\ taskOf' = taskOf /\ call' = call /\ readOnly' = readOnly
        /\ req' = req /\ avail' = avail /\ ends' = ends /\ arrivals' = arrivals
        /\ cancelled' = cancelled /\ conn[c] = "timedOut"
        /\ metrics' = [metrics EXCEPT !.outlived = metrics.outlived + 1]
    BY DEF Stages, CountOutlived
  <1>2. /\ metrics' \in [requests : Int, errors : Int, rejects : Int, outlived : Int]
        /\ metrics'.requests = metrics.requests /\ metrics'.errors = metrics.errors
        /\ metrics'.rejects = metrics.rejects /\ metrics'.outlived = metrics.outlived + 1
    BY <1>1 DEF MInv, Typed
  <1>3. Typed' BY <1>1, <1>2, Moving DEF MInv, Typed
  <1>4. ConnShape(c)' BY <1>1, Moving DEF MInv, ConnShape
  <1>5. /\ \A l \in Lanes : /\ Cardinality(Running(l)') = Cardinality(Running(l))
                            /\ Cardinality(Holders(l)') = Cardinality(Holders(l))
        /\ Cardinality(Outlived') = Cardinality(Outlived)
        /\ Cardinality(Busy') = Cardinality(Busy)
        /\ Cardinality(InFlight') = Cardinality(InFlight)
        /\ Cardinality(Counting') = Cardinality(Counting) + 1
        /\ Cardinality(Young') = Cardinality(Young)
    <2>1. ~HoldsLarge(c) /\ ~HoldsLarge(c)' BY <1>1, Moving DEF HoldsLarge
    <2> QED BY <1>1, <2>1, Moving
  <1>6. Permitted' /\ Spare' BY <1>1, <1>5, Balances DEF Permitted, Spare
  <1>7. Requested' /\ Gauged' BY <1>1, <1>2, <1>5, Balances, Sized DEF Requested, Gauged
  <1> QED BY <1>1, <1>3, <1>4, <1>6, <1>7, Moving DEF MInv, Books

\* A head is read: refused at once, or the request is counted and goes on.
LEMMA KeptHeadRead ==
  ASSUME MInv, NEW c \in Conn, HeadRead(c) PROVE MInv'
  <1> DEFINE m == [metrics EXCEPT !.requests = metrics.requests + 1]
  <1>1. /\ m \in MetricsType /\ m.rejects = metrics.rejects /\ m.errors = metrics.errors
        /\ m.requests = metrics.requests + 1 /\ m.outlived = metrics.outlived
    BY DEF MInv, Typed, MetricsType
  <1>2. /\ conn[c] = "head" /\ task' = task /\ avail' = avail /\ Same
        /\ \E r \in DOMAIN Heads :
             \/ EndRequest(c, "reject", m)
             \/ /\ conn' = [conn EXCEPT ![c] = IF Heads[r].mib > 1 THEN "wantsLarge" ELSE "body"]
                /\ req' = [req EXCEPT ![c] = r] /\ metrics' = m
                /\ call' = call /\ taskOf' = taskOf /\ ends' = ends
    BY DEF HeadRead, Same
  <1> HIDE DEF m
  <1>3. metrics.requests \in Int /\ metrics.outlived \in Int /\ avail \in [Lanes -> Nat]
    BY DEF MInv, Typed
  <1>4. CASE EndRequest(c, "reject", m)
    <2>1. \A l \in Lanes : avail'[l] = avail[l] + One(l = "large" /\ HoldsLarge(c))
      BY <1>2, <1>3 DEF HoldsLarge, One
    <2> QED BY <1>1, <1>2, <1>3, <1>4, <2>1, Leaves DEF One
  <1>5. ASSUME NEW r \in DOMAIN Heads, NEW s \in {"wantsLarge", "body"},
               s = IF Heads[r].mib > 1 THEN "wantsLarge" ELSE "body",
               conn' = [conn EXCEPT ![c] = s], req' = [req EXCEPT ![c] = r], metrics' = m,
               call' = call, taskOf' = taskOf, ends' = ends
        PROVE  MInv'
    <2>1. /\ s \in Stages /\ \A d \in Conn : d # c => req'[d] = req[d]
          /\ readOnly' = readOnly /\ arrivals' = arrivals /\ cancelled' = cancelled
      BY <1>2, <1>5 DEF Stages, MInv, Typed, Same
    <2>2. req' \in [Conn -> DOMAIN Heads \cup {NoReq}] /\ req'[c] = r /\ r # NoReq
      BY <1>5, McpAssumption DEF MInv, Typed, NoReq
    <2>3. Typed' BY <1>1, <1>2, <1>5, <2>1, <2>2, Moving DEF MInv, Typed, MetricsType
    <2>4. conn'[c] = s BY <1>2, <1>5, <2>1, Moving
    <2>5. ConnShape(c)' BY <1>5, <2>2, <2>4 DEF ConnShape, HeadOf
    <2>6. /\ \A l \in Lanes : /\ Cardinality(Running(l)') = Cardinality(Running(l))
                              /\ Cardinality(Holders(l)') = Cardinality(Holders(l))
          /\ Cardinality(Outlived') = Cardinality(Outlived)
          /\ Cardinality(Busy') = Cardinality(Busy)
          /\ Cardinality(InFlight') = Cardinality(InFlight) + 1
          /\ Cardinality(Counting') = Cardinality(Counting)
          /\ Cardinality(Young') = Cardinality(Young)
      <3>1. ~HoldsLarge(c) /\ ~HoldsLarge(c)' BY <1>2, <1>5, <2>2, <2>4 DEF HoldsLarge, HeadOf
      <3> QED BY <1>2, <1>5, <2>1, <3>1, Moving
    <2>7. Permitted' /\ Gauged' /\ Spare' BY <1>1, <1>2, <1>5, <2>1, <2>6, Balances DEF Permitted, Gauged, Spare
    <2>8. Requested' BY <1>1, <1>5, <2>6, Balances, Sized DEF Requested
    <2> QED BY <1>2, <1>5, <2>1, <2>3, <2>5, <2>7, <2>8, Moving DEF MInv, Books
  <1> QED BY <1>2, <1>4, <1>5

-----------------------------------------------------------------------------
(* Tool tasks *)

\* A connection that has no task yet finds a free one.
LEMMA SomeFree ==
  ASSUME MInv, NEW c \in Conn, c \in Young PROVE \E t \in Task : Free(t)
  <1> SUFFICES ASSUME \A t \in Task : ~Free(t) PROVE FALSE OBVIOUS
  <1>1. Busy = Task BY DEF Busy
  <1>2. Young \in SUBSET Conn /\ IsFiniteSet(Young) BY McpAssumption, FS_Subset DEF Young
  <1>3. Cardinality(Young) \in Nat /\ Cardinality(Young) # 0
    BY <1>2, FS_EmptySet, FS_CardinalityType
  <1>4. arrivals \in Nat /\ arrivals <= MostArrivals /\ MostArrivals \in Nat
    BY McpAssumption DEF MInv, Typed
  <1>5. MostArrivals <= Cardinality(Task) BY McpAssumption
  <1>6. Cardinality(Busy) + Cardinality(Young) <= arrivals /\ Cardinality(Busy) \in Nat
    BY Balances, Sized
  <1> QED BY <1>1, <1>3, <1>4, <1>5, <1>6

LEMMA Spawning ==
  ASSUME MInv, NEW c \in Conn, conn[c] \in {"body", "wantsLane"}, NEW lane \in Lanes, Spawn(c, lane),
         req' = req, metrics' = metrics, ends' = ends, Same,
         avail' \in [Lanes -> Nat],
         \A l \in Lanes : avail'[l] + One(l = lane) = avail[l] + One(l = "large" /\ HoldsLarge(c))
  PROVE  MInv'
  <1>0. readOnly' = readOnly /\ arrivals' = arrivals /\ cancelled' = cancelled BY DEF Same
  <1>1. PICK t \in Task :
          /\ Free(t)
          /\ task' = [task EXCEPT ![t] = [lane |-> lane, flag |-> "RUNNING", phase |-> "working"]]
          /\ taskOf' = [taskOf EXCEPT ![c] = t]
    <2>1. \E t \in Task : Free(t) BY SomeFree DEF Young
    <2>2. (CHOOSE t \in Task : Free(t)) \in Task /\ Free(CHOOSE t \in Task : Free(t)) BY <2>1
    <2> QED BY <2>2 DEF Spawn
  <1>2. /\ task \in [Task -> TaskRec] /\ taskOf \in [Conn -> Task \cup {NoTask}]
        /\ conn \in [Conn -> Stages] /\ call \in [Conn -> Bodies \cup {NoCall}]
    BY DEF MInv, Typed
  <1>3. conn' = [conn EXCEPT ![c] = "running"] /\ call' = [call EXCEPT ![c] = NoCall] BY DEF Spawn
  <1>4. /\ task'[t] = [lane |-> lane, flag |-> "RUNNING", phase |-> "working"]
        /\ task' \in [Task -> TaskRec] /\ \A u \in Task : u # t => task'[u] = task[u]
    <2>1. [lane |-> lane, flag |-> "RUNNING", phase |-> "working"] \in TaskRec
      BY DEF TaskRec, Phases
    <2> QED BY <1>1, <1>2, <2>1
  <1>5. /\ taskOf'[c] = t /\ taskOf' \in [Conn -> Task \cup {NoTask}]
        /\ \A d \in Conn : d # c => taskOf'[d] = taskOf[d]
    BY <1>1, <1>2
  <1>6. /\ conn'[c] = "running" /\ conn' \in [Conn -> Stages]
        /\ call'[c] = NoCall /\ call' \in [Conn -> Bodies \cup {NoCall}]
        /\ \A d \in Conn : d # c => conn'[d] = conn[d] /\ call'[d] = call[d]
    BY <1>2, <1>3 DEF Stages
  <1>7. Typed' BY <1>0, <1>4, <1>5, <1>6 DEF MInv, Typed
  <1>8. ASSUME NEW d \in Conn PROVE ConnShape(d)'
    <2>1. CASE d = c BY <2>1, <1>5, <1>6 DEF MInv, ConnShape
    <2>2. CASE d # c BY <2>2, <1>5, <1>6 DEF MInv, ConnShape, HeadOf
    <2> QED BY <2>1, <2>2
  <1>9. ASSUME NEW u \in Task PROVE TaskShape(u)'
    <2>1. CASE u = t BY <2>1, <1>4 DEF TaskShape
    <2>2. CASE u # t BY <2>2, <1>4 DEF MInv, TaskShape
    <2> QED BY <2>1, <2>2
  <1>10. CallsAgree' BY <1>0, <1>6, CallsKept DEF MInv
  <1>11. ~HoldsLarge(c)' BY <1>6 DEF HoldsLarge
  <1>12. /\ \A l \in Lanes : Cardinality(Holders(l)') = Cardinality(Holders(l)) - One(l = "large" /\ HoldsLarge(c))
         /\ Cardinality(InFlight') = Cardinality(InFlight)
         /\ Cardinality(Counting') = Cardinality(Counting)
         /\ Cardinality(Young') = Cardinality(Young) - 1
    <2>1. /\ \A l \in Lanes : c \notin Holders(l)' /\ (c \in Holders(l) <=> l = "large" /\ HoldsLarge(c))
          /\ c \in InFlight' /\ c \in InFlight /\ c \notin Counting' /\ c \notin Counting
          /\ c \notin Young' /\ c \in Young
      BY <1>6, <1>11 DEF Holders, InFlight, Counting, Young
    <2>2. \A d \in Conn : d # c => conn'[d] = conn[d] /\ req'[d] = req[d] BY <1>6
    <2> QED BY <2>1, <2>2, ConnCounts, Sized DEF One
  <1>13. /\ \A l \in Lanes : Cardinality(Running(l)') = Cardinality(Running(l)) + One(l = lane)
         /\ Cardinality(Outlived') = Cardinality(Outlived)
    <2>1. /\ \A l \in Lanes : t \notin Running(l) /\ (t \in Running(l)' <=> l = lane)
          /\ t \notin Outlived /\ t \notin Outlived'
      BY <1>1, <1>4 DEF Running, Outlived, Free, FreeTask
    <2> QED BY <1>4, <2>1, TaskCounts, Sized DEF One
  <1>14. Cardinality(Busy') <= Cardinality(Busy) + 1
    <2>1. ASSUME NEW u \in Task, u # t, Free(u) PROVE Free(u)'
      BY <2>1, <1>4, <1>5 DEF Free
    <2>2. Busy' \in SUBSET (Busy \cup {t}) BY <2>1 DEF Busy
    <2>3. Busy \in SUBSET Task /\ IsFiniteSet(Busy) BY McpAssumption, FS_Subset DEF Busy
    <2>4. t \notin Busy BY <1>1 DEF Busy
    <2>5. IsFiniteSet(Busy \cup {t}) /\ Cardinality(Busy \cup {t}) = Cardinality(Busy) + 1
      BY <2>3, <2>4, FS_AddElement
    <2>6. Cardinality(Busy') <= Cardinality(Busy \cup {t}) BY <2>2, <2>5, FS_Subset
    <2> QED BY <2>5, <2>6
  <1>15. Permitted'
    <2> SUFFICES ASSUME NEW l \in Lanes
                 PROVE  avail'[l] + Cardinality(Holders(l)') + Cardinality(Running(l)') = Permits[l]
      BY DEF Permitted
    <2>1. avail'[l] \in Nat /\ avail[l] \in Nat BY DEF MInv, Typed
    <2>2. avail'[l] + One(l = lane) = avail[l] + One(l = "large" /\ HoldsLarge(c)) OBVIOUS
    <2>3. One(l = lane) \in Int /\ One(l = "large" /\ HoldsLarge(c)) \in Int BY DEF One
    <2>4. /\ Cardinality(Holders(l)') = Cardinality(Holders(l)) - One(l = "large" /\ HoldsLarge(c))
          /\ Cardinality(Running(l)') = Cardinality(Running(l)) + One(l = lane)
          /\ avail[l] + Cardinality(Holders(l)) + Cardinality(Running(l)) = Permits[l]
          /\ Cardinality(Holders(l)) \in Nat /\ Cardinality(Running(l)) \in Nat
      BY <1>12, <1>13, Balances, Sized
    <2> QED BY <2>1, <2>2, <2>3, <2>4
  <1>16. Requested' /\ Gauged' BY <1>12, <1>13, Balances DEF Requested, Gauged
  <1>17. Spare'
    <2>1. Cardinality(Busy') \in Nat BY SubsetSized DEF Busy
    <2> QED BY <2>1, <1>0, <1>12, <1>14, Balances, Sized DEF Spare
  <1> QED BY <1>7, <1>8, <1>9, <1>10, <1>15, <1>16, <1>17 DEF MInv, Books

\* The body is read: the request ends, becomes a task with the permit it holds, or waits for a lane.
LEMMA KeptBodyRead ==
  ASSUME MInv, NEW c \in Conn, BodyRead(c) PROVE MInv'
  <1>1. conn[c] = "body" /\ Same BY DEF BodyRead, Same
  <1>2. PICK b \in Bodies :
          \/ /\ HandleBody(b, readOnly).kind # "run"
             /\ EndRequest(c, HandleBody(b, readOnly).kind, metrics) /\ DropLarge(c) /\ task' = task
          \/ /\ HandleBody(b, readOnly).kind = "run" /\ HoldsLarge(c) /\ Spawn(c, "large")
             /\ req' = req /\ avail' = avail /\ ends' = ends /\ metrics' = metrics
          \/ /\ HandleBody(b, readOnly).kind = "run" /\ ~HoldsLarge(c)
             /\ conn' = [conn EXCEPT ![c] = "wantsLane"] /\ call' = [call EXCEPT ![c] = b]
             /\ task' = task /\ taskOf' = taskOf
             /\ req' = req /\ avail' = avail /\ ends' = ends /\ metrics' = metrics
    BY DEF BodyRead
  <1>3. /\ metrics \in MetricsType /\ metrics.outlived \in Int /\ metrics.requests \in Int
        /\ avail \in [Lanes -> Nat] /\ "large" \in Lanes
    BY DEF MInv, Typed, MetricsType, Lanes
  <1>4. ASSUME NEW kind, kind = HandleBody(b, readOnly).kind, kind # "run",
               EndRequest(c, kind, metrics), DropLarge(c), task' = task
        PROVE  MInv'
    <2>1. /\ avail' \in [Lanes -> Nat]
          /\ \A l \in Lanes : avail'[l] = avail[l] + One(l = "large" /\ HoldsLarge(c))
      BY <1>3, <1>4 DEF DropLarge, One, Lanes
    <2>2. kind \in {"reject", "ok", "error", "capacity", "noLarge"} BY <1>4, Kinds
    <2> QED BY <1>1, <1>3, <1>4, <2>1, <2>2, Leaves DEF One
  <1>5. CASE /\ HoldsLarge(c) /\ Spawn(c, "large")
             /\ req' = req /\ avail' = avail /\ ends' = ends /\ metrics' = metrics
    <2>1. \A l \in Lanes : avail'[l] + One(l = "large") = avail[l] + One(l = "large" /\ HoldsLarge(c))
      BY <1>3, <1>5 DEF One
    <2> QED BY <1>1, <1>3, <1>5, <2>1, Spawning
  <1>6. CASE /\ HandleBody(b, readOnly).kind = "run" /\ ~HoldsLarge(c)
             /\ conn' = [conn EXCEPT ![c] = "wantsLane"] /\ call' = [call EXCEPT ![c] = b]
             /\ task' = task /\ taskOf' = taskOf
             /\ req' = req /\ avail' = avail /\ ends' = ends /\ metrics' = metrics
    <2>1. Agrees(b, readOnly) BY <1>6, LetThrough
    <2>2. /\ conn'[c] = "wantsLane" /\ conn' \in [Conn -> Stages]
          /\ call'[c] = b /\ call' \in [Conn -> Bodies \cup {NoCall}]
          /\ \A d \in Conn : d # c => conn'[d] = conn[d] /\ call'[d] = call[d]
      BY <1>6 DEF MInv, Typed, Stages
    <2>3. Typed' BY <1>1, <1>6, <2>2 DEF MInv, Typed, Same
    <2>4. b # NoCall
      <3>1. b.method = "tools/call" BY <2>1 DEF Agrees
      <3> QED BY <3>1 DEF NoCall
    <2>5. ASSUME NEW d \in Conn PROVE ConnShape(d)'
      <3>1. CASE d = c BY <3>1, <1>1, <1>6, <2>2, <2>4 DEF MInv, ConnShape
      <3>2. CASE d # c BY <3>2, <1>6, <2>2 DEF MInv, ConnShape, HeadOf
      <3> QED BY <3>1, <3>2
    <2>6. \A t \in Task : TaskShape(t)' BY <1>6 DEF MInv, TaskShape
    <2>7. CallsAgree' BY <1>1, <2>1, <2>2, CallsKept DEF MInv, Same
    <2>8. /\ \A l \in Lanes : c \notin Holders(l)' /\ c \notin Holders(l)
          /\ c \in InFlight' /\ c \in InFlight /\ c \notin Counting' /\ c \notin Counting
          /\ c \in Young' /\ c \in Young
      BY <1>1, <1>6, <2>2 DEF Holders, HoldsLarge, InFlight, Counting, Young
    <2>9. \A d \in Conn : d # c => conn'[d] = conn[d] /\ req'[d] = req[d] BY <1>6, <2>2
    <2>10. /\ \A l \in Lanes : Cardinality(Holders(l)') = Cardinality(Holders(l))
           /\ Cardinality(InFlight') = Cardinality(InFlight)
           /\ Cardinality(Counting') = Cardinality(Counting)
           /\ Cardinality(Young') = Cardinality(Young)
      BY <2>8, <2>9, ConnCounts, Sized DEF One
    <2>11. Busy' = Busy BY <1>6 DEF Busy, Free
    <2>12. Books'
      BY <1>1, <1>6, <2>10, <2>11, SameTasks, Balances
      DEF Books, Permitted, Requested, Gauged, Spare, Same
    <2> QED BY <2>3, <2>5, <2>6, <2>7, <2>12 DEF MInv
  <1> QED BY <1>2, <1>4, <1>5, <1>6

LEMMA KeptTakeLane ==
  ASSUME MInv, NEW c \in Conn, TakeLane(c) PROVE MInv'
  <1> DEFINE lane == call[c].tool.access
  <1>1. /\ conn[c] = "wantsLane" /\ avail[lane] > 0
        /\ avail' = [avail EXCEPT ![lane] = avail[lane] - 1] /\ Spawn(c, lane)
        /\ req' = req /\ metrics' = metrics /\ ends' = ends /\ Same
    BY DEF TakeLane, Same
  <1>2. call[c] # NoCall BY <1>1 DEF MInv, ConnShape
  <1>3. call[c].tool \in REGISTRY BY <1>2 DEF MInv, CallsAgree
  <1>4. lane \in Lanes BY <1>3, ToolLanes DEF Lanes
  <1> HIDE DEF lane
  <1>5. avail \in [Lanes -> Nat] BY DEF MInv, Typed
  <1>6. avail[lane] - 1 \in Nat BY <1>1, <1>4, <1>5
  <1>7. avail' \in [Lanes -> Nat] BY <1>1, <1>5, <1>6
  <1>8. ~HoldsLarge(c) BY <1>1 DEF HoldsLarge
  <1>9. \A l \in Lanes : avail'[l] + One(l = lane) = avail[l] + One(l = "large" /\ HoldsLarge(c))
    BY <1>1, <1>5, <1>6, <1>8 DEF One
  <1> QED BY <1>1, <1>4, <1>7, <1>9, Spawning

\* What a step of one task, and of no connection, has to show.
LEMMA TaskMoves ==
  ASSUME MInv, NEW t \in Task, NEW r \in TaskRec, task' = [task EXCEPT ![t] = r],
         task[t] = FreeTask => r = FreeTask,
         r.phase # "over" => r.lane \in Lanes,
         r.phase \in {"decrement", "releasing", "over"} => r.flag = "ENDED",
         UNCHANGED <<conn, req, call, taskOf, ends, arrivals, cancelled, readOnly>>
  PROVE  /\ task' \in [Task -> TaskRec] /\ task'[t] = r
         /\ \A d \in Conn : ConnShape(d)'
         /\ \A u \in Task : TaskShape(u)'
         /\ CallsAgree'
         /\ r.lane = task[t].lane /\ r.phase # "over" /\ task[t].phase # "over"
              => \A l \in Lanes : Cardinality(Running(l)') = Cardinality(Running(l))
         /\ r.phase = "over" /\ task[t].phase # "over"
              => \A l \in Lanes : Cardinality(Running(l)') = IF l = task[t].lane
                                                             THEN Cardinality(Running(l)) - 1
                                                             ELSE Cardinality(Running(l))
         /\ ((r.flag = "OUTLIVED" \/ r.phase = "decrement")
              <=> (task[t].flag = "OUTLIVED" \/ task[t].phase = "decrement"))
              => Cardinality(Outlived') = Cardinality(Outlived)
         /\ r.flag # "OUTLIVED" /\ r.phase # "decrement" /\ task[t].phase = "decrement"
              => Cardinality(Outlived') = Cardinality(Outlived) - 1
         /\ Spare'
  <1>1. /\ task' \in [Task -> TaskRec] /\ task'[t] = r
        /\ \A u \in Task : u # t => task'[u] = task[u]
    BY DEF MInv, Typed
  <1>2. \A d \in Conn : ConnShape(d)' BY DEF MInv, ConnShape, HeadOf
  <1>3. ASSUME NEW u \in Task PROVE TaskShape(u)'
    <2>1. CASE u = t BY <2>1, <1>1 DEF TaskShape
    <2>2. CASE u # t BY <2>2, <1>1 DEF MInv, TaskShape
    <2> QED BY <2>1, <2>2
  <1>4. CallsAgree' BY CallsKept DEF MInv
  <1>5. /\ \A l \in Lanes : /\ t \in Running(l)' <=> r.lane = l /\ r.phase # "over"
                            /\ t \in Running(l) <=> task[t].lane = l /\ task[t].phase # "over"
        /\ t \in Outlived' <=> r.flag = "OUTLIVED" \/ r.phase = "decrement"
        /\ t \in Outlived <=> task[t].flag = "OUTLIVED" \/ task[t].phase = "decrement"
    BY <1>1 DEF Running, Outlived
  <1>6. /\ \A l \in Lanes : Cardinality(Running(l)') = Cardinality(Running(l))
                                         + One(t \in Running(l)') - One(t \in Running(l))
        /\ Cardinality(Outlived') = Cardinality(Outlived) + One(t \in Outlived') - One(t \in Outlived)
    BY <1>1, TaskCounts
  <1>8. /\ (t \in Outlived' <=> t \in Outlived) => Cardinality(Outlived') = Cardinality(Outlived)
        /\ t \notin Outlived' /\ t \in Outlived => Cardinality(Outlived') = Cardinality(Outlived) - 1
    BY <1>6, Sized DEF One
  <1>9. \A l \in Lanes :
          /\ (t \in Running(l)' <=> t \in Running(l)) => Cardinality(Running(l)') = Cardinality(Running(l))
          /\ t \notin Running(l)' /\ t \in Running(l)
               => Cardinality(Running(l)') = Cardinality(Running(l)) - 1
    BY <1>6, Sized DEF One
  <1>7. Spare'
    <2>1. \A u \in Task : Free(u) => Free(u)' BY <1>1 DEF Free
    <2>2. Cardinality(Busy') <= Cardinality(Busy) BY <2>1, BusyShrinks
    <2>3. Cardinality(Busy') \in Nat BY SubsetSized DEF Busy
    <2> QED BY <2>2, <2>3, SameConns, Balances, Sized DEF Spare
  <1>10. /\ r.lane = task[t].lane /\ r.phase # "over" /\ task[t].phase # "over"
              => \A l \in Lanes : Cardinality(Running(l)') = Cardinality(Running(l))
         /\ r.phase = "over" /\ task[t].phase # "over"
              => \A l \in Lanes : Cardinality(Running(l)') = IF l = task[t].lane
                                                             THEN Cardinality(Running(l)) - 1
                                                             ELSE Cardinality(Running(l))
    BY <1>5, <1>9
  <1> QED BY <1>1, <1>2, <1>3, <1>4, <1>5, <1>7, <1>8, <1>10

LEMMA KeptReturns ==
  ASSUME MInv, NEW t \in Task, Returns(t) PROVE MInv'
  <1> DEFINE r == [task[t] EXCEPT !.phase = "returned"]
  <1>1. /\ task[t].phase = "working" /\ task' = [task EXCEPT ![t] = r] /\ task[t] \in TaskRec
        /\ UNCHANGED <<conn, req, call, avail, taskOf, metrics, ends, arrivals, cancelled, readOnly>>
    BY DEF Returns, MInv, Typed
  <1>2. r \in TaskRec /\ r.phase = "returned" /\ r.flag = task[t].flag /\ r.lane = task[t].lane
    BY <1>1 DEF TaskRec, Phases
  <1>3. task[t] # FreeTask /\ task[t].lane \in Lanes BY <1>1 DEF FreeTask, MInv, TaskShape
  <1> HIDE DEF r
  <1>4. /\ task' \in [Task -> TaskRec] /\ (\A d \in Conn : ConnShape(d)') /\ (\A u \in Task : TaskShape(u)')
        /\ CallsAgree' /\ Spare'
        /\ \A l \in Lanes : Cardinality(Running(l)') = Cardinality(Running(l))
        /\ Cardinality(Outlived') = Cardinality(Outlived)
    BY <1>1, <1>2, <1>3, TaskMoves
  <1>5. Typed' BY <1>1, <1>4 DEF MInv, Typed
  <1>6. Permitted' /\ Requested' /\ Gauged'
    BY <1>1, <1>4, SameConns, Balances DEF Permitted, Requested, Gauged
  <1> QED BY <1>4, <1>5, <1>6 DEF MInv, Books

LEMMA KeptTaskEndSwaps ==
  ASSUME MInv, NEW t \in Task, TaskEndSwaps(t) PROVE MInv'
  <1> DEFINE ph == IF task[t].flag = "OUTLIVED" THEN "decrement" ELSE "releasing"
             r == [task[t] EXCEPT !.flag = "ENDED", !.phase = ph]
  <1>1. /\ task[t].phase = "returned" /\ task' = [task EXCEPT ![t] = r] /\ task[t] \in TaskRec
        /\ UNCHANGED <<conn, req, call, avail, taskOf, metrics, ends, arrivals, cancelled, readOnly>>
    BY DEF TaskEndSwaps, MInv, Typed
  <1>2. r \in TaskRec /\ r.phase = ph /\ r.flag = "ENDED" /\ r.lane = task[t].lane
    BY <1>1 DEF TaskRec, Phases
  <1>3. task[t] # FreeTask /\ task[t].lane \in Lanes BY <1>1 DEF FreeTask, MInv, TaskShape
  <1>4. ph # "over" /\ (ph = "decrement" <=> task[t].flag = "OUTLIVED") OBVIOUS
  <1> HIDE DEF r, ph
  <1>5. /\ task' \in [Task -> TaskRec] /\ (\A d \in Conn : ConnShape(d)') /\ (\A u \in Task : TaskShape(u)')
        /\ CallsAgree' /\ Spare'
        /\ \A l \in Lanes : Cardinality(Running(l)') = Cardinality(Running(l))
        /\ Cardinality(Outlived') = Cardinality(Outlived)
    BY <1>1, <1>2, <1>3, <1>4, TaskMoves
  <1>6. Typed' BY <1>1, <1>5 DEF MInv, Typed
  <1>7. Permitted' /\ Requested' /\ Gauged'
    BY <1>1, <1>5, SameConns, Balances DEF Permitted, Requested, Gauged
  <1> QED BY <1>5, <1>6, <1>7 DEF MInv, Books

LEMMA KeptTaskEndDecrements ==
  ASSUME MInv, NEW t \in Task, TaskEndDecrements(t) PROVE MInv'
  <1> DEFINE r == [task[t] EXCEPT !.phase = "releasing"]
  <1>1. /\ task[t].phase = "decrement" /\ task' = [task EXCEPT ![t] = r] /\ task[t] \in TaskRec
        /\ metrics' = [metrics EXCEPT !.outlived = metrics.outlived - 1]
        /\ UNCHANGED <<conn, req, call, avail, taskOf, ends, arrivals, cancelled, readOnly>>
    BY DEF TaskEndDecrements, MInv, Typed
  <1>2. r \in TaskRec /\ r.phase = "releasing" /\ r.flag = task[t].flag /\ r.lane = task[t].lane
    BY <1>1 DEF TaskRec, Phases
  <1>3. task[t] # FreeTask /\ task[t].lane \in Lanes /\ task[t].flag = "ENDED"
    BY <1>1 DEF FreeTask, MInv, TaskShape
  <1> HIDE DEF r
  <1>4. /\ task' \in [Task -> TaskRec] /\ (\A d \in Conn : ConnShape(d)') /\ (\A u \in Task : TaskShape(u)')
        /\ CallsAgree' /\ Spare'
        /\ \A l \in Lanes : Cardinality(Running(l)') = Cardinality(Running(l))
        /\ Cardinality(Outlived') = Cardinality(Outlived) - 1
    BY <1>1, <1>2, <1>3, TaskMoves
  <1>5. /\ metrics' \in [requests : Int, errors : Int, rejects : Int, outlived : Int]
        /\ metrics'.requests = metrics.requests /\ metrics'.errors = metrics.errors
        /\ metrics'.rejects = metrics.rejects /\ metrics'.outlived = metrics.outlived - 1
    BY <1>1 DEF MInv, Typed
  <1>6. Typed' BY <1>1, <1>4, <1>5 DEF MInv, Typed
  <1>7. Permitted' /\ Requested' BY <1>1, <1>4, <1>5, SameConns, Balances DEF Permitted, Requested
  <1>8. Gauged' BY <1>1, <1>4, <1>5, SameConns, Balances, Sized DEF Gauged
  <1> QED BY <1>4, <1>6, <1>7, <1>8 DEF MInv, Books

LEMMA KeptPermitDropped ==
  ASSUME MInv, NEW t \in Task, PermitDropped(t) PROVE MInv'
  <1> DEFINE lane == task[t].lane
  <1>1. /\ task[t].phase = "releasing" /\ task' = [task EXCEPT ![t] = FreeTask]
        /\ avail' = [avail EXCEPT ![lane] = avail[lane] + 1]
        /\ UNCHANGED <<conn, req, call, taskOf, metrics, ends, arrivals, cancelled, readOnly>>
    BY DEF PermitDropped
  <1>2. /\ FreeTask \in TaskRec /\ FreeTask.phase = "over" /\ FreeTask.flag = "ENDED"
        /\ FreeTask.lane = "none"
    BY DEF TaskRec, FreeTask, Phases
  <1>3. lane \in Lanes /\ task[t].flag = "ENDED" BY <1>1 DEF MInv, TaskShape
  <1>4. avail' \in [Lanes -> Nat]
        /\ \A l \in Lanes : avail'[l] = IF l = lane THEN avail[l] + 1 ELSE avail[l]
    <2>1. avail \in [Lanes -> Nat] BY DEF MInv, Typed
    <2> QED BY <1>1, <1>3, <2>1
  <1>5. /\ task' \in [Task -> TaskRec] /\ (\A d \in Conn : ConnShape(d)') /\ (\A u \in Task : TaskShape(u)')
        /\ CallsAgree' /\ Spare'
        /\ \A l \in Lanes : Cardinality(Running(l)') = IF l = lane THEN Cardinality(Running(l)) - 1
                                                             ELSE Cardinality(Running(l))
        /\ Cardinality(Outlived') = Cardinality(Outlived)
    BY <1>1, <1>2, <1>3, TaskMoves
  <1>6. Typed' BY <1>1, <1>4, <1>5 DEF MInv, Typed
  <1>7. Permitted'
    <2> SUFFICES ASSUME NEW l \in Lanes
                 PROVE  avail'[l] + Cardinality(Holders(l)') + Cardinality(Running(l)') = Permits[l]
      BY DEF Permitted
    <2>1. CASE l = lane
      <3>1. /\ avail'[l] = avail[l] + 1 /\ Cardinality(Running(l)') = Cardinality(Running(l)) - 1
            /\ Cardinality(Holders(l)') = Cardinality(Holders(l))
        BY <1>1, <1>4, <1>5, <2>1, SameConns
      <3> QED BY <3>1, Balances, Sized
    <2>2. CASE l # lane
      <3>1. /\ avail'[l] = avail[l] /\ Cardinality(Running(l)') = Cardinality(Running(l))
            /\ Cardinality(Holders(l)') = Cardinality(Holders(l))
        BY <1>1, <1>4, <1>5, <2>2, SameConns
      <3> QED BY <3>1, Balances
    <2> QED BY <2>1, <2>2
  <1>8. Requested' /\ Gauged' BY <1>1, <1>5, SameConns, Balances DEF Requested, Gauged
  <1> QED BY <1>5, <1>6, <1>7, <1>8 DEF MInv, Books

-----------------------------------------------------------------------------
(* The end of the wait and the listener as a whole *)

\* The task is told that it outlived the response, or has ended and is taken back.
LEMMA KeptMarkOutlived ==
  ASSUME MInv, NEW c \in Conn, MarkOutlived(c) PROVE MInv'
  <1> DEFINE t == taskOf[c]
  <1>1. conn[c] = "counted" /\ avail' = avail /\ Same BY DEF MarkOutlived, Same
  <1>2. t \in Task /\ task \in [Task -> TaskRec] /\ task[t] \in TaskRec /\ avail \in [Lanes -> Nat]
    BY <1>1 DEF MInv, Typed, ConnShape
  <1>3. CASE task[t].flag # "RUNNING"
    <2>1. /\ conn' = [conn EXCEPT ![c] = "uncount"] /\ "uncount" \in Stages
          /\ \A d \in Conn : d # c => req'[d] = req[d]
          /\ task' = task /\ taskOf' = taskOf /\ call' = call /\ readOnly' = readOnly
          /\ req' = req /\ metrics' = metrics /\ ends' = ends
          /\ arrivals' = arrivals /\ cancelled' = cancelled
      BY <1>3 DEF Stages, MarkOutlived
    <2>2. Typed' BY <1>1, <2>1, Moving DEF MInv, Typed
    <2>3. ConnShape(c)' BY <1>1, <2>1, Moving DEF MInv, ConnShape
    <2>4. /\ \A l \in Lanes : /\ Cardinality(Running(l)') = Cardinality(Running(l))
                              /\ Cardinality(Holders(l)') = Cardinality(Holders(l))
          /\ Cardinality(Outlived') = Cardinality(Outlived)
          /\ Cardinality(Busy') = Cardinality(Busy)
          /\ Cardinality(InFlight') = Cardinality(InFlight)
          /\ Cardinality(Counting') = Cardinality(Counting)
          /\ Cardinality(Young') = Cardinality(Young)
      <3>1. ~HoldsLarge(c) /\ ~HoldsLarge(c)' BY <1>1, <2>1, Moving DEF HoldsLarge
      <3> QED BY <1>1, <2>1, <3>1, Moving
    <2>5. Permitted' /\ Requested' /\ Gauged' /\ Spare'
      BY <1>1, <2>1, <2>4, Balances DEF Permitted, Requested, Gauged, Spare
    <2> QED BY <2>1, <2>2, <2>3, <2>5, Moving DEF MInv, Books
  <1>4. CASE task[t].flag = "RUNNING"
    <2> DEFINE r == [task[t] EXCEPT !.flag = "OUTLIVED"]
    <2>1. task' = [task EXCEPT ![t] = r] /\ EndRequest(c, "error", metrics)
      BY <1>2, <1>4 DEF MarkOutlived
    <2>2. r \in TaskRec /\ r.flag = "OUTLIVED" /\ r.phase = task[t].phase /\ r.lane = task[t].lane
      BY <1>2 DEF TaskRec
    <2>3. task[t].phase \in {"working", "returned"}
      BY <1>2, <1>4 DEF MInv, TaskShape, TaskRec, Phases
    <2> HIDE DEF r
    <2>4. /\ task' \in [Task -> TaskRec] /\ task'[t] = r /\ \A u \in Task : u # t => task'[u] = task[u]
      BY <1>2, <2>1, <2>2
    <2>5. /\ ends \in Nat /\ metrics \in MetricsType /\ metrics.requests \in Int /\ metrics.rejects \in Int
          /\ metrics.errors \in Int /\ metrics.outlived \in Int
          /\ readOnly' = readOnly /\ arrivals' = arrivals /\ cancelled' = cancelled
      BY <1>1 DEF MInv, Typed, MetricsType, Same
    <2>6. /\ Close(c) /\ metrics' \in MetricsType /\ ends' \in Nat
          /\ metrics'.requests = metrics.requests /\ metrics'.outlived = metrics.outlived
          /\ metrics'.rejects + metrics'.errors + ends' = metrics.rejects + metrics.errors + ends + 1
      BY <2>1, <2>5, EndCounts
    <2>7. Typed' BY <1>1, <2>4, <2>5, <2>6, Closing DEF MInv, Typed, MetricsType
    <2>8. ASSUME NEW u \in Task PROVE TaskShape(u)'
      <3>1. CASE u = t BY <3>1, <2>2, <2>3, <2>4 DEF MInv, TaskShape
      <3>2. CASE u # t BY <3>2, <2>4 DEF MInv, TaskShape
      <3> QED BY <3>1, <3>2
    <2>9. /\ \A l \in Lanes : Cardinality(Running(l)') = Cardinality(Running(l))
          /\ Cardinality(Outlived') = Cardinality(Outlived) + 1
      <3>1. /\ \A l \in Lanes : t \in Running(l)' <=> t \in Running(l)
            /\ t \in Outlived' /\ t \notin Outlived
        BY <1>2, <1>4, <2>2, <2>3, <2>4 DEF Running, Outlived
      <3>2. /\ \A l \in Lanes : Cardinality(Running(l)') = Cardinality(Running(l))
                                       + One(t \in Running(l)') - One(t \in Running(l))
            /\ Cardinality(Outlived') = Cardinality(Outlived) + One(t \in Outlived') - One(t \in Outlived)
        BY <1>2, <2>4, TaskCounts
      <3> QED BY <3>1, <3>2, Sized DEF One
    <2>10. /\ \A l \in Lanes : Cardinality(Holders(l)') = Cardinality(Holders(l))
           /\ Cardinality(InFlight') = Cardinality(InFlight) - 1
           /\ Cardinality(Counting') = Cardinality(Counting) - 1
      <3>1. ~HoldsLarge(c) BY <1>1 DEF HoldsLarge
      <3>2. /\ \A l \in Lanes : Cardinality(Holders(l)') = Cardinality(Holders(l)) - One(l = "large" /\ HoldsLarge(c))
            /\ Cardinality(InFlight') = Cardinality(InFlight) - One(conn[c] \notin {"closed", "head"})
            /\ Cardinality(Counting') = Cardinality(Counting) - One(conn[c] \in {"counted", "uncount"})
        BY <2>5, <2>6, Closing
      <3> QED BY <1>1, <3>1, <3>2, Sized DEF One
    <2>11. Permitted' BY <1>1, <2>9, <2>10, Balances DEF Permitted
    <2>12. Requested'
      <3>1. metrics'.rejects \in Int /\ metrics'.errors \in Int BY <2>6 DEF MetricsType
      <3>2. /\ metrics.requests = Cardinality(InFlight) + metrics.rejects + metrics.errors + ends
            /\ Cardinality(InFlight) \in Nat
        BY Balances, Sized
      <3>3. metrics'.requests = Cardinality(InFlight') + (metrics'.rejects + metrics'.errors + ends')
        BY <2>5, <2>6, <2>10, <3>2
      <3> QED BY <2>5, <2>6, <2>10, <3>1, <3>2, <3>3 DEF Requested
    <2>13. Gauged' BY <2>6, <2>9, <2>10, Balances, Sized DEF Gauged
    <2>14. Spare'
      <3>1. \A u \in Task : task[u] = FreeTask => task'[u] = FreeTask
        BY <1>4, <2>4 DEF FreeTask
      <3> QED BY <2>5, <2>6, <3>1, ClosingSpares
    <2> QED BY <2>5, <2>6, <2>7, <2>8, <2>11, <2>12, <2>13, <2>14, Closing DEF MInv, Books
  <1> QED BY <1>3, <1>4

LEMMA KeptIdle ==
  ASSUME MInv, AcceptRefused \/ Cancel \/ UNCHANGED vars PROVE MInv'
  <1>1. /\ conn' = conn /\ req' = req /\ call' = call /\ avail' = avail /\ task' = task
        /\ taskOf' = taskOf /\ metrics' = metrics /\ ends' = ends /\ readOnly' = readOnly
    BY DEF AcceptRefused, Cancel, vars
  <1>2. arrivals' \in 0 .. MostArrivals /\ arrivals <= arrivals' /\ cancelled' \in BOOLEAN
    <2>1. arrivals \in 0 .. MostArrivals /\ MostArrivals \in Nat /\ cancelled \in BOOLEAN
      BY McpAssumption DEF MInv, Typed
    <2>2. CASE AcceptRefused BY <2>1, <2>2 DEF AcceptRefused
    <2>3. CASE Cancel \/ UNCHANGED vars
      <3>1. arrivals' = arrivals /\ cancelled' \in BOOLEAN BY <2>1, <2>3 DEF Cancel, vars
      <3> QED BY <2>1, <3>1
    <2> QED BY <2>2, <2>3
  <1>3. Typed' BY <1>1, <1>2 DEF MInv, Typed
  <1>4. \A d \in Conn : ConnShape(d)' BY <1>1 DEF MInv, ConnShape, HeadOf
  <1>5. \A t \in Task : TaskShape(t)' BY <1>1 DEF MInv, TaskShape
  <1>6. CallsAgree' BY <1>1, CallsKept DEF MInv
  <1>7. Busy' = Busy BY <1>1 DEF Busy, Free
  <1>8. Permitted' /\ Requested' /\ Gauged'
    BY <1>1, SameTasks, SameConns, Balances DEF Permitted, Requested, Gauged
  <1>9. Spare' BY <1>1, <1>2, <1>7, SameConns, Balances, Sized DEF Spare
  <1> QED BY <1>3, <1>4, <1>5, <1>6, <1>8, <1>9 DEF MInv, Books

LEMMA Starts == Init => MInv
  <1> SUFFICES ASSUME Init PROVE MInv OBVIOUS
  <1> USE DEF Init
  <1>1. Permits \in [Lanes -> Nat] BY McpAssumption DEF Permits, Lanes
  <1>2. FreeTask \in TaskRec BY DEF FreeTask, TaskRec, Phases
  <1>3. Typed
    <2>1. metrics \in [requests : Int, errors : Int, rejects : Int, outlived : Int] BY DEF Metrics0
    <2>2. conn \in [Conn -> Stages] BY DEF Stages
    <2>3. /\ req \in [Conn -> DOMAIN Heads \cup {NoReq}] /\ call \in [Conn -> Bodies \cup {NoCall}]
          /\ taskOf \in [Conn -> Task \cup {NoTask}]
      OBVIOUS
    <2>4. task \in [Task -> TaskRec] BY <1>2
    <2>5. arrivals \in 0 .. MostArrivals /\ ends \in Nat BY McpAssumption
    <2> QED BY <1>1, <2>1, <2>2, <2>3, <2>4, <2>5 DEF Typed
  <1>4. \A c \in Conn : ConnShape(c) BY DEF ConnShape
  <1>5. \A t \in Task : TaskShape(t) BY DEF TaskShape, FreeTask
  <1>6. CallsAgree BY DEF CallsAgree
  <1>7. /\ \A l \in Lanes : Holders(l) = {} /\ Running(l) = {}
        /\ InFlight = {} /\ Counting = {} /\ Outlived = {} /\ Young = {}
    BY DEF Holders, HoldsLarge, Running, InFlight, Counting, Outlived, Young, FreeTask
  <1>8. Busy = {} BY McpAssumption DEF Busy, Free, NoTask
  <1>9. Permitted
    <2>1. Cardinality({}) = 0 BY FS_EmptySet
    <2>2. \A l \in Lanes : Permits[l] \in Nat /\ Permits[l] + 0 + 0 = Permits[l] BY <1>1
    <2> QED BY <1>7, <2>1, <2>2 DEF Permitted
  <1>10. Requested /\ Gauged /\ Spare BY <1>7, <1>8, FS_EmptySet DEF Requested, Gauged, Spare, Metrics0
  <1> QED BY <1>3, <1>4, <1>5, <1>6, <1>9, <1>10 DEF MInv, Books

LEMMA Keeps == MInv /\ [Next]_vars => MInv'
  <1> SUFFICES ASSUME MInv, [Next]_vars PROVE MInv' OBVIOUS
  <1>1. CASE \E c \in Conn : Accept(c) BY <1>1, KeptAccept
  <1>2. CASE \E c \in Conn : HeadUnreadable(c) \/ HeadRead(c) \/ TakeLarge(c)
    BY <1>2, KeptHeadUnreadable, KeptHeadRead, KeptTakeLarge
  <1>3. CASE \E c \in Conn : LargeTimesOut(c) \/ BodyUnreadable(c) \/ LaneTimesOut(c) \/ Answer(c) \/ Uncount(c)
    BY <1>3, KeptRefusals
  <1>4. CASE \E c \in Conn : BodyRead(c) \/ TakeLane(c) BY <1>4, KeptBodyRead, KeptTakeLane
  <1>5. CASE \E c \in Conn : BudgetRunsOut(c) \/ CountOutlived(c) \/ MarkOutlived(c)
    BY <1>5, KeptBudgetRunsOut, KeptCountOutlived, KeptMarkOutlived
  <1>6. CASE \E t \in Task : Returns(t) \/ TaskEndSwaps(t) \/ TaskEndDecrements(t) \/ PermitDropped(t)
    BY <1>6, KeptReturns, KeptTaskEndSwaps, KeptTaskEndDecrements, KeptPermitDropped
  <1>7. CASE AcceptRefused \/ Cancel \/ UNCHANGED vars BY <1>7, KeptIdle
  <1> QED BY <1>1, <1>2, <1>3, <1>4, <1>5, <1>6, <1>7 DEF Next, Serves, Ends

\* In every state the books balance in the counting sense, a request without a task
\* finds one, and the calls that wait agree (serve_connection, run_with_budget, TaskEnd).
THEOREM McpInvariant == Spec => []MInv
  BY Starts, Keeps, PTL DEF Spec

\* The permits of every lane are all there, free or owned, and the numbers of /api/status
\* add up, however many connections, tasks and permits (McpMetrics, Lanes, run_with_budget).
THEOREM BooksAreBalanced == Spec => []BooksBalance
  <1>1. ASSUME MInv PROVE BooksBalance
    <2>1. ASSUME NEW l \in Lanes PROVE Cardinality(Owners(l)) = Cardinality(Holders(l)) + Cardinality(Running(l))
      <3>1. Holders(l) \in SUBSET Conn /\ Running(l) \in SUBSET Task BY DEF Holders, Running
      <3>2. IsFiniteSet(Holders(l)) /\ IsFiniteSet(Running(l)) BY <3>1, McpAssumption, FS_Subset
      <3>3. Holders(l) \cap Running(l) = {} BY <3>1, McpAssumption
      <3>4. Owners(l) = Holders(l) \cup Running(l) BY DEF Owners, Holders, Running
      <3>5. Cardinality(Holders(l) \cup Running(l))
              = Cardinality(Holders(l)) + Cardinality(Running(l)) - Cardinality(Holders(l) \cap Running(l))
        BY <3>2, FS_Union
      <3>6. Cardinality({}) = 0 BY FS_EmptySet
      <3>7. Cardinality(Holders(l)) \in Nat /\ Cardinality(Running(l)) \in Nat BY <2>1, Sized
      <3>8. Cardinality(Holders(l) \cap Running(l)) = 0 BY <3>3, <3>6
      <3>9. Cardinality(Owners(l)) = Cardinality(Holders(l) \cup Running(l)) BY <3>4
      <3> QED BY <3>5, <3>7, <3>8, <3>9
    <2>2. PermitsConserved BY <1>1, <2>1, Balances, Sized DEF PermitsConserved
    <2>3. CountersTellTruth BY <1>1, Balances DEF CountersTellTruth, Outlived, Counting
    <2>4. TypeOK BY <1>1 DEF MInv, Typed, TaskRec, ConnShape, TypeOK
    <2> QED BY <2>2, <2>3, <2>4 DEF BooksBalance
  <1> QED BY <1>1, McpInvariant, PTL

\* Every call that waits for its lane agrees with its headers, its version and its tool's
\* arguments, whatever bodies arrive (mcp_http.rs, handle_body to call_tool).
THEOREM CallsAreAgreed == Spec => []CallsAgree
  <1>1. MInv => CallsAgree BY DEF MInv
  <1> QED BY <1>1, McpInvariant, PTL

=============================================================================
