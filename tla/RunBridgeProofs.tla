--------------------------- MODULE RunBridgeProofs ---------------------------
(***************************************************************************)
(* Proofs about run_bridge: its sessions, events and registers             *)
(* (BridgeSession), for every number of sessions and events, and the waits *)
(* and limits between them (Reconnect), for every cap, window and limit.   *)
(***************************************************************************)
EXTENDS BridgeSession, Reconnect, FiniteSetTheorems, WellFoundedInduction, TLAPS

-----------------------------------------------------------------------------
(* Sessions *)

Flags == [Sessions -> [stop: BOOLEAN, replaced: BOOLEAN]]

\* What the steps of the bridge rely on: a handler belongs to a session that was
\* started, and its flags can be written.
Shape ==
    /\ loop \in Loops /\ cancel \in BOOLEAN
    /\ session \in 0 .. MaxSessions
    /\ loop = "build" => session < MaxSessions
    /\ loop \in {"session", "drain"} => session > 0
    /\ flags \in Flags
    /\ \A t \in tasks : t.session \in 1 .. session
    /\ final \subseteq 1 .. session

\* A client that runs has its session, or the bridge is on its way out.
ClientAttended ==
    bot => /\ session > 0
           /\ \/ loop \in {"session", "drain", "closing", "stopped"}
              \/ loop = "ended" /\ cancel

\* The end of the bridge is decided, or will be when the session's flags are read.
Ending ==
    \/ loop \in {"session", "drain", "closing", "stopped"}
    \/ loop = "ended" /\ (cancel \/ result = "stop")

\* A hard stop is in the flags of its session, and the session is the last one,
\* unless it was replaced as well.
HardStopKept ==
    /\ loop = "drain" => cancel
    /\ \A s \in final : /\ flags[s].stop
                        /\ flags[s].replaced \/ (s = session /\ Ending)

SInv == Shape /\ ClientAttended /\ HardStopKept

----------------------------------------------------------------------------

\* No session, no client.
LEMMA InitSInv == Init => SInv
  <1> SUFFICES ASSUME Init PROVE SInv OBVIOUS
  <1>1. flags \in Flags BY DEF Init, Flags
  <1>2. Shape
    <2>1. session = 0 /\ tasks = {} /\ final = {} /\ loop = "check" BY DEF Init
    <2>2. 0 \in 0 .. MaxSessions BY SessionAssumption
    <2>3. cancel \in BOOLEAN BY DEF Init
    <2> QED BY <1>1, <2>1, <2>2, <2>3 DEF Shape, Loops
  <1> QED BY <1>2 DEF Init, SInv, ClientAttended, HardStopKept

\* The client's own steps
LEMMA ClientPreserves ==
  ASSUME SInv, BotEnds \/ Pair \/ Cancel \/ \E k \in Kinds : Event(k)
  PROVE  SInv'
  <1>1. CASE BotEnds
    BY <1>1 DEF BotEnds, registers, history, SInv, Shape, ClientAttended, HardStopKept, Ending
  <1>2. CASE Pair
    BY <1>2
    DEF Pair, client, registers, history, SInv, Shape, ClientAttended, HardStopKept, Ending
  <1>3. CASE Cancel
    BY <1>3
    DEF Cancel, client, registers, history, SInv, Shape, ClientAttended, HardStopKept, Ending
  <1>4. ASSUME NEW k \in Kinds, Event(k) PROVE SInv'
    <2>1. session \in 1 .. session BY <1>4, SessionAssumption
          DEF Event, SInv, Shape, ClientAttended
    <2>2. \A t \in tasks' : t.session \in 1 .. session
      BY <1>4, <2>1 DEF Event, SInv, Shape
    <2> QED BY <1>4, <2>2
        DEF Event, registers, SInv, Shape, ClientAttended, HardStopKept, Ending
  <1> QED BY <1>1, <1>2, <1>3, <1>4

\* Moving a handler on, or ending it, keeps its session.
LEMMA HandlerTasks ==
  ASSUME Shape, NEW t \in tasks, UNCHANGED session,
         (\E pc \in {"receipts", "device", "state"} : Step(t, pc)) \/ Finish(t)
  PROVE  \A u \in tasks' : u.session \in 1 .. session'
  BY DEF Shape, Step, Finish

\* handle_event's arms
LEMMA HandlerPreserves == ASSUME SInv, NEW t \in tasks, Handler(t) PROVE SInv'
  <1>1. ASSUME (\E pc \in {"receipts", "device", "state"} : Step(t, pc)),
               UNCHANGED <<loop, cancel, session, result, bot, flags, final>>
        PROVE  SInv'
    <2>1. \A u \in tasks' : u.session \in 1 .. session'
      BY <1>1, HandlerTasks DEF SInv
    <2> QED BY <1>1, <2>1 DEF SInv, Shape, ClientAttended, HardStopKept, Ending
  <1>2. CASE SetHandle(t) BY <1>1, <1>2 DEF SetHandle, client, history
  <1>3. CASE SetReceipts(t) BY <1>1, <1>3 DEF SetReceipts, client, history
  <1>4. CASE ClearDevice(t) BY <1>1, <1>4 DEF ClearDevice, client, history
  <1>5. CASE SetState(t)
    <2>u. UNCHANGED <<loop, cancel, session, result>> BY <1>5 DEF SetState
    <2>t. t.session \in Sessions BY SessionAssumption DEF SInv, Shape, Sessions
    <2>1. \A u \in tasks' : u.session \in 1 .. session'
      BY <1>5, HandlerTasks DEF SInv, SetState
    <2>2. /\ flags' \in Flags
          /\ \A s \in Sessions : /\ flags[s].stop => flags'[s].stop
                                 /\ flags[s].replaced => flags'[s].replaced
          /\ t.kind = "hardstop" => flags'[t.session].stop
      BY <1>5, <2>t DEF SetState, FlagsAfter, SInv, Shape, Flags
    <2>3. bot' => bot BY <1>5 DEF SetState, Disconnect
    <2>4. \A s \in final' : s \in final \/ (s = t.session /\ t.kind = "hardstop" /\ s = session /\ bot)
      BY <1>5 DEF SetState
    <2>5. final' \subseteq 1 .. session BY <2>4 DEF SInv, Shape
    <2>6. Shape' BY <2>u, <2>1, <2>2, <2>5 DEF SInv, Shape
    <2>7. ClientAttended' BY <2>u, <2>3 DEF SInv, ClientAttended
    <2>8. ASSUME NEW s \in final'
          PROVE  flags'[s].stop /\ (flags'[s].replaced \/ (s = session /\ Ending))
      <3>1. s \in Sessions BY <2>5, SessionAssumption DEF SInv, Shape, Sessions
      <3>2. CASE s \in final BY <2>2, <3>1, <3>2 DEF SInv, HardStopKept
      <3>3. CASE s = t.session /\ t.kind = "hardstop" /\ s = session /\ bot
        BY <2>2, <3>3 DEF SInv, ClientAttended, Ending
      <3> QED BY <2>4, <3>2, <3>3
    <2>9. HardStopKept' BY <2>u, <2>8 DEF SInv, HardStopKept, Ending
    <2> QED BY <2>6, <2>7, <2>9 DEF SInv
  <1> QED BY <1>2, <1>3, <1>4, <1>5 DEF Handler

\* run_bridge and run_bot_session
LEMMA BridgePreserves == ASSUME SInv, Bridge PROVE SInv'
  <1> USE DEF SInv, Shape, ClientAttended, HardStopKept, Ending, Loops
  <1>1. CASE Check BY <1>1 DEF Check, client, registers, history
  <1>2. CASE Start
    <2>1. /\ loop = "build" /\ session' = session + 1 /\ loop' \in {"session", "ended"}
          /\ UNCHANGED <<cancel, flags, tasks, final>>
          /\ loop' = "ended" => result' = "error" /\ UNCHANGED bot
      BY <1>2 DEF Start
    <2>2. Shape' BY <2>1, SessionAssumption
    <2>3. ~bot BY <2>1
    <2>s. session' > 0 BY <2>1, SessionAssumption
    <2>b. loop' = "session" \/ ~bot' BY <2>1, <2>3
    <2>4. ClientAttended' BY <2>s, <2>b
    <2>5. \A s \in final : flags[s].stop /\ flags[s].replaced BY <2>1
    <2>6. HardStopKept' BY <2>1, <2>5
    <2> QED BY <2>2, <2>4, <2>6
  <1>3. CASE SessionOver
    <2>1. /\ loop = "session" /\ loop' = "ended" /\ ~bot
          /\ UNCHANGED <<cancel, session, bot, flags, tasks, final>>
          /\ result' = Verdict(flags[session])
      BY <1>3 DEF SessionOver, client, history
    <2>r. ~flags[session].replaced /\ flags[session].stop => result' = "stop"
      BY <2>1 DEF Verdict
    <2>2. Shape' BY <2>1
    <2>3. ClientAttended' BY <2>1
    <2>4. HardStopKept' BY <2>1, <2>r
    <2> QED BY <2>2, <2>3, <2>4
  <1>4. CASE SessionCancelled
    BY <1>4 DEF SessionCancelled, client, registers, history
  <1>5. CASE DrainEnds
    <2>1. /\ loop = "drain" /\ loop' = "ended" /\ bot' \in {bot, FALSE}
          /\ UNCHANGED <<cancel, session, result, flags, tasks, final>>
      BY <1>5 DEF DrainEnds, Disconnect, registers, history
    <2> QED BY <2>1
  <1>6. CASE AfterSession
    <2>1. /\ loop = "ended" /\ UNCHANGED <<cancel, session, result, bot, flags, tasks, final>>
          /\ loop' = "closing" \/ (loop' = "pause" /\ ~cancel /\ result # "stop")
      BY <1>6 DEF AfterSession, client
    <2> QED BY <2>1
  <1>7. CASE PauseEnds BY <1>7 DEF PauseEnds, client, registers, history
  <1>8. CASE Close BY <1>8 DEF Close, client, history
  <1> QED BY <1>1, <1>2, <1>3, <1>4, <1>5, <1>6, <1>7, <1>8 DEF Bridge

LEMMA SStep == SInv /\ [Next]_vars => SInv'
  <1> SUFFICES ASSUME SInv, [Next]_vars PROVE SInv' OBVIOUS
  <1>1. CASE UNCHANGED vars
    BY <1>1 DEF vars, client, registers, history, SInv, Shape, ClientAttended, HardStopKept, Ending
  <1>2. CASE Next BY <1>2, ClientPreserves, HandlerPreserves, BridgePreserves DEF Next
  <1> QED BY <1>1, <1>2

\* A client that runs has its session, and a hard stop is in the flags of its own.
THEOREM SessionInvariant == Spec => []SInv
  BY InitSInv, SStep, PTL DEF Spec

----------------------------------------------------------------------------
(* What the registers say at rest *)

TasksInv == IsFiniteSet(tasks) /\ Cardinality(tasks) <= events

\* Between sessions nothing is left over.  In a session at most one handler is at
\* work, on the last event, and what it has come to is written.
RestInv ==
  /\ loop \in {"check", "build", "pause"} /\ ~overlap => tasks = {} /\ state # "Connected"
  /\ loop = "session" /\ bot /\ ~overlap =>
       /\ \A t, u \in tasks : t = u
       /\ \A t \in tasks : t.session = session /\ (t.kind = "connected" <=> link)
       /\ (\A t \in tasks : t.pc # "handle") => handle = IF link THEN session ELSE 0
       /\ (\A t \in tasks : t.pc \in {"device", "state"}) /\ link => receipts = session
       /\ tasks = {} => (state = "Connected" <=> link)

RInv == SInv /\ TypeOK /\ TasksInv /\ RestInv

\* A set of numbers has a least one.
LEMMA Least ==
  ASSUME NEW T, T \subseteq Nat, T # {}
  PROVE  \E x \in T : \A y \in T : x <= y
  <1> DEFINE R == {ss \in Nat \X Nat : ss[1] < ss[2]}
  <1>1. IsWellFoundedOn(R, Nat) BY NatLessThanWellFounded DEF OpToRel
  <1> HIDE DEF R
  <1>2. PICK x \in T : \A y \in T : ~ (<<y, x>> \in R) BY <1>1, WFMin
  <1>3. ASSUME NEW y \in T PROVE x <= y
    <2>1. x \in Nat /\ y \in Nat OBVIOUS
    <2>2. <<y, x>> \in Nat \X Nat BY <2>1
    <2>3. ~ (y < x) BY <1>2, <2>2 DEF R
    <2> QED BY <2>1, <2>3
  <1> QED BY <1>3

\* There are fewer handlers than events, so one more has an id.
LEMMA FreshIdExists ==
  ASSUME TasksInv, events \in Nat, events < MaxEvents, NEW kind
  PROVE  FreshId(kind) \in 1 .. MaxEvents
  <1> DEFINE T == {u \in tasks : u.kind = kind /\ u.session = session}
             used == {t.id : t \in T}
             free == {i \in 1 .. MaxEvents : i \notin used}
             f == [t \in T |-> t.id]
  <1>1. MaxEvents \in Nat BY SessionAssumption
  <1>2. IsFiniteSet(T) /\ Cardinality(T) <= Cardinality(tasks) BY FS_Subset DEF TasksInv
  <1>3. f \in Surjection(T, used) BY DEF Surjection
  <1>4. IsFiniteSet(used) /\ Cardinality(used) <= Cardinality(T) BY <1>2, <1>3, FS_Surjection
  <1>5. Cardinality(used) \in Nat /\ Cardinality(T) \in Nat /\ Cardinality(tasks) \in Nat
    BY <1>2, <1>4, FS_CardinalityType DEF TasksInv
  <1>6. Cardinality(used) < MaxEvents BY <1>1, <1>2, <1>4, <1>5 DEF TasksInv
  <1>7. Cardinality(1 .. MaxEvents) = MaxEvents BY <1>1, FS_Interval
  <1>8. free # {}
    <2> SUFFICES ASSUME free = {} PROVE FALSE OBVIOUS
    <2>1. 1 .. MaxEvents \in SUBSET used OBVIOUS
    <2>2. Cardinality(1 .. MaxEvents) <= Cardinality(used) BY <1>4, <2>1, FS_Subset
    <2> QED BY <1>1, <1>5, <1>6, <1>7, <2>2
  <1>9. free \subseteq Nat BY <1>1
  <1> HIDE DEF free
  <1>10. PICK i \in free : \A j \in free : i <= j BY <1>8, <1>9, Least
  <1>11. i \in 1 .. MaxEvents /\ i \notin used /\ \A j \in 1 .. i - 1 : j \in used
    <2>1. i \in 1 .. MaxEvents /\ i \notin used BY <1>10 DEF free
    <2>2. ASSUME NEW j \in 1 .. i - 1, j \notin used PROVE FALSE
      <3>1. j \in 1 .. MaxEvents /\ j < i BY <1>1, <2>1
      <3>2. j \in free BY <2>2, <3>1 DEF free
      <3> QED BY <1>10, <2>1, <3>1, <3>2
    <2> QED BY <2>1, <2>2
  <1> HIDE DEF used
  <1>12. FreshId(kind) = CHOOSE k \in 1 .. MaxEvents : k \notin used /\ \A j \in 1 .. k - 1 : j \in used
    BY DEF FreshId, used
  <1> QED BY <1>11, <1>12

\* A handler that moves on, or ends, is one handler still.
LEMMA TasksMove ==
  ASSUME TasksInv, events \in Nat, NEW t \in tasks, UNCHANGED events, (\E pc : Step(t, pc)) \/ Finish(t)
  PROVE  TasksInv'
  <1>1. IsFiniteSet(tasks \ {t}) /\ Cardinality(tasks \ {t}) = Cardinality(tasks) - 1
    BY FS_RemoveElement DEF TasksInv
  <1>2. Cardinality(tasks) \in Nat BY FS_CardinalityType DEF TasksInv
  <1>3. ASSUME NEW x
        PROVE  /\ IsFiniteSet((tasks \ {t}) \cup {x})
               /\ Cardinality((tasks \ {t}) \cup {x}) \in {Cardinality(tasks) - 1, Cardinality(tasks)}
    <2> DEFINE rest == tasks \ {t}
    <2>1. IsFiniteSet(rest) /\ Cardinality(rest) = Cardinality(tasks) - 1 BY <1>1
    <2> HIDE DEF rest
    <2>2. /\ IsFiniteSet(rest \cup {x})
          /\ Cardinality(rest \cup {x}) = IF x \in rest THEN Cardinality(rest) ELSE Cardinality(rest) + 1
      BY <2>1, FS_AddElement
    <2>3. Cardinality(rest \cup {x}) \in {Cardinality(tasks) - 1, Cardinality(tasks)} BY <1>2, <2>1, <2>2
    <2> QED BY <2>2, <2>3 DEF rest
  <1>4. CASE Finish(t)
    <2>1. tasks' = tasks \ {t} BY <1>4 DEF Finish
    <2> QED BY <1>1, <1>2, <2>1 DEF TasksInv
  <1>5. CASE \E pc : Step(t, pc)
    <2>1. PICK x : tasks' = (tasks \ {t}) \cup {x} BY <1>5 DEF Step
    <2>2. IsFiniteSet(tasks') /\ Cardinality(tasks') \in {Cardinality(tasks) - 1, Cardinality(tasks)}
      BY <1>3, <2>1
    <2> QED BY <1>2, <2>2 DEF TasksInv
  <1> QED BY <1>4, <1>5

LEMMA EventKeepsRest == ASSUME RInv, NEW k \in Kinds, Event(k) PROVE TypeOK' /\ TasksInv' /\ RestInv'
  <1> DEFINE e == [id |-> FreshId(k), session |-> session, kind |-> k,
                   pc |-> IF k = "pairing" THEN "state" ELSE "handle"]
  <1>1. /\ bot /\ events < MaxEvents /\ events' = events + 1 /\ tasks' = tasks \cup {e}
        /\ k \in {"connected", "pairing"} => ~link
        /\ link' = (k = "connected") /\ overlap' = (tasks # {} \/ (k = "pairing" /\ overlap))
        /\ UNCHANGED <<loop, cancel, session, result, bot, handle, receipts, state, flags, device, final>>
    BY DEF Event, registers
  <1>2. events \in Nat /\ events' \in 0 .. MaxEvents BY <1>1, SessionAssumption DEF RInv, TypeOK
  <1>3. FreshId(k) \in 1 .. MaxEvents BY <1>1, <1>2, FreshIdExists DEF RInv
  <1>4. session \in Sessions BY <1>1, SessionAssumption DEF RInv, SInv, Shape, ClientAttended, Sessions
  <1>5. e \in Task BY <1>3, <1>4 DEF Task
  <1> HIDE DEF e
  <1>6. TypeOK' BY <1>1, <1>2, <1>5 DEF RInv, TypeOK
  <1>7. TasksInv'
    <2>1. IsFiniteSet(tasks') /\ Cardinality(tasks') \in {Cardinality(tasks), Cardinality(tasks) + 1}
      BY <1>1, FS_AddElement DEF RInv, TasksInv
    <2>2. Cardinality(tasks) \in Nat BY FS_CardinalityType DEF RInv, TasksInv
    <2> QED BY <1>1, <1>2, <2>1, <2>2 DEF RInv, TasksInv
  <1>8. RestInv'
    <2>1. loop \notin {"check", "build", "pause"} BY <1>1 DEF RInv, SInv, ClientAttended
    <2>2. ASSUME loop = "session", ~overlap'
          PROVE  /\ tasks' = {e} /\ (k = "pairing" => ~overlap)
      BY <1>1, <2>2
    <2>3. e.session = session /\ e.kind = k /\ e.pc = (IF k = "pairing" THEN "state" ELSE "handle") BY DEF e
    <2>4. CASE k = "pairing"
      <3>1. ASSUME loop = "session", ~overlap' PROVE handle = 0 /\ ~link'
        BY <1>1, <2>2, <2>4, <3>1 DEF RInv, RestInv
      <3> QED BY <1>1, <2>1, <2>2, <2>3, <2>4, <3>1 DEF RestInv
    <2>5. CASE k # "pairing" BY <1>1, <2>1, <2>2, <2>3, <2>5 DEF RestInv
    <2> QED BY <2>4, <2>5
  <1> QED BY <1>6, <1>7, <1>8

LEMMA HandlerKeepsRest == ASSUME RInv, NEW t \in tasks, Handler(t) PROVE TypeOK' /\ TasksInv' /\ RestInv'
  <1> DEFINE At(pc) == [id |-> t.id, session |-> t.session, kind |-> t.kind, pc |-> pc]
  <1>0. t \in Task /\ events \in Nat BY SessionAssumption DEF RInv, TypeOK
  <1>1. /\ t.session \in Sessions /\ t.session \in Clients /\ 0 \in Clients
        /\ UNCHANGED <<loop, cancel, session, result, events, overlap>>
    <2>1. UNCHANGED <<loop, cancel, session, result, events, overlap>>
      BY DEF Handler, SetHandle, SetReceipts, ClearDevice, SetState, history
    <2> QED BY <1>0, <2>1, SessionAssumption DEF Task, Sessions, Clients
  <1>2. \A pc \in {"receipts", "device", "state"} : At(pc) \in Task BY <1>0 DEF Task
  <1>3. loop \notin {"check", "build", "pause"} \/ overlap BY DEF RInv, RestInv
  <1>4. ASSUME loop = "session", bot, ~overlap
        PROVE  tasks = {t} /\ t.session = session /\ (t.kind = "connected" <=> link)
    BY <1>4 DEF RInv, RestInv
  <1>5. CASE SetHandle(t)
    <2>1. /\ t.pc = "handle" /\ handle' = (IF t.kind = "connected" THEN t.session ELSE 0)
          /\ tasks' = (tasks \ {t}) \cup {At("receipts")} /\ Step(t, "receipts")
          /\ UNCHANGED <<bot, link, receipts, state, flags, device, final>>
      BY <1>5 DEF SetHandle, Step, client, history
    <2>2. handle' \in Clients BY <1>1, <2>1
    <2>3. TypeOK' BY <1>0, <1>1, <1>2, <2>1, <2>2 DEF RInv, TypeOK
    <2>4. TasksInv' BY <1>0, <1>1, <2>1, TasksMove DEF RInv
    <2>5. ASSUME loop = "session", bot, ~overlap
          PROVE  /\ tasks' = {At("receipts")} /\ handle' = IF link THEN session ELSE 0
                 /\ t.session = session /\ (t.kind = "connected" <=> link)
      BY <1>4, <2>1, <2>5
    <2>6. At("receipts").pc = "receipts" OBVIOUS
    <2>7. At("receipts").session = t.session /\ At("receipts").kind = t.kind OBVIOUS
    <2> HIDE DEF At
    <2>8. RestInv' BY <1>1, <1>3, <2>1, <2>5, <2>6, <2>7 DEF RestInv
    <2> QED BY <2>3, <2>4, <2>8
  <1>6. CASE SetReceipts(t)
    <2> DEFINE pc == IF t.kind = "loggedout" THEN "device" ELSE "state"
    <2>1. /\ t.pc = "receipts" /\ receipts' = (IF t.kind = "connected" THEN t.session ELSE 0)
          /\ tasks' = (tasks \ {t}) \cup {At(pc)} /\ Step(t, pc)
          /\ UNCHANGED <<bot, link, handle, state, flags, device, final>>
      BY <1>6 DEF SetReceipts, Step, client, history
    <2>2. receipts' \in Clients BY <1>1, <2>1
    <2>3. TypeOK' BY <1>0, <1>1, <1>2, <2>1, <2>2 DEF RInv, TypeOK
    <2>4. TasksInv' BY <1>0, <1>1, <2>1, TasksMove DEF RInv
    <2>5. ASSUME loop = "session", bot, ~overlap PROVE handle = IF link THEN session ELSE 0
      BY <1>4, <2>1, <2>5 DEF RInv, RestInv
    <2>6. ASSUME loop = "session", bot, ~overlap
          PROVE  /\ tasks' = {At(pc)} /\ (link => receipts' = session)
                 /\ t.session = session /\ (t.kind = "connected" <=> link)
      BY <1>4, <2>1, <2>6
    <2>7. At(pc).pc # "handle" OBVIOUS
    <2>8. At(pc).session = t.session /\ At(pc).kind = t.kind OBVIOUS
    <2> HIDE DEF At, pc
    <2>9. RestInv' BY <1>1, <1>3, <2>1, <2>5, <2>6, <2>7, <2>8 DEF RestInv
    <2> QED BY <2>3, <2>4, <2>9
  <1>7. CASE ClearDevice(t)
    <2>1. /\ t.pc = "device" /\ device' \in {device, FALSE}
          /\ tasks' = (tasks \ {t}) \cup {At("state")} /\ Step(t, "state")
          /\ UNCHANGED <<bot, link, handle, receipts, state, flags, final>>
      BY <1>7 DEF ClearDevice, Step, client, registers, history
    <2>2. TypeOK' BY <1>0, <1>1, <1>2, <2>1 DEF RInv, TypeOK
    <2>3. TasksInv' BY <1>0, <1>1, <2>1, TasksMove DEF RInv
    <2>4. ASSUME loop = "session", bot, ~overlap
          PROVE  handle = (IF link THEN session ELSE 0) /\ (link => receipts = session)
      BY <1>4, <2>1, <2>4 DEF RInv, RestInv
    <2>5. ASSUME loop = "session", bot, ~overlap
          PROVE  /\ tasks' = {At("state")} /\ t.session = session /\ (t.kind = "connected" <=> link)
      BY <1>4, <2>1, <2>5
    <2>6. At("state").pc # "handle" OBVIOUS
    <2>7. At("state").session = t.session /\ At("state").kind = t.kind OBVIOUS
    <2> HIDE DEF At
    <2>8. RestInv' BY <1>1, <1>3, <2>1, <2>4, <2>5, <2>6, <2>7 DEF RestInv
    <2> QED BY <2>2, <2>3, <2>8
  <1>8. CASE SetState(t)
    <2>1. /\ t.pc = "state" /\ state' = Announced(t.kind) /\ flags' = FlagsAfter(t)
          /\ tasks' = tasks \ {t} /\ Finish(t) /\ UNCHANGED <<handle, receipts, device>>
          /\ bot' \in BOOLEAN /\ (bot' => bot /\ link' = link) /\ link' \in BOOLEAN /\ (link' => bot')
          /\ final' \subseteq final \cup {t.session}
      BY <1>8 DEF SetState, Finish, Disconnect, RInv, TypeOK
    <2>2. state' \in BridgeStates /\ (state' = "Connected" <=> t.kind = "connected")
      BY <2>1 DEF Announced, BridgeStates
    <2>3. flags' \in [Sessions -> [stop: BOOLEAN, replaced: BOOLEAN]] BY <1>1, <2>1 DEF FlagsAfter, RInv, TypeOK
    <2>4. TypeOK' BY <1>0, <1>1, <2>1, <2>2, <2>3 DEF RInv, TypeOK
    <2>5. TasksInv' BY <1>0, <1>1, <2>1, TasksMove DEF RInv
    <2>6. ASSUME loop = "session", bot, ~overlap
          PROVE  handle = (IF link THEN session ELSE 0) /\ (link => receipts = session)
      BY <1>4, <2>1, <2>6 DEF RInv, RestInv
    <2>7. RestInv' BY <1>1, <1>3, <1>4, <2>1, <2>2, <2>6 DEF RestInv
    <2> QED BY <2>4, <2>5, <2>7
  <1> QED BY <1>5, <1>6, <1>7, <1>8 DEF Handler

LEMMA BridgeKeepsRest ==
  ASSUME RInv, Bridge \/ Cancel \/ BotEnds \/ Pair
  PROVE  TypeOK' /\ TasksInv' /\ RestInv'
  <1>0. UNCHANGED <<tasks, events>>
    BY DEF Bridge, Check, Start, SessionOver, SessionCancelled, DrainEnds, AfterSession, PauseEnds, Close,
           Cancel, BotEnds, Pair, history
  <1>1. TasksInv' BY <1>0 DEF RInv, TasksInv
  <1> USE SessionAssumption DEF RInv, SInv, Shape, ClientAttended, TypeOK, RestInv, Loops
  <1>2. CASE Check BY <1>1, <1>2 DEF Check, client, registers, history
  <1>3. CASE Start
    <2>1. session < MaxSessions /\ ~bot /\ ~link BY <1>3 DEF Start
    <2>2. session' \in 0 .. MaxSessions /\ handle' \in Clients BY <1>3, <2>1 DEF Start, Clients
    <2>3. loop' \in {"session", "ended"} /\ result' \in {"none", "error", "retry", "replaced", "stop"}
          /\ bot' \in BOOLEAN /\ overlap' \in BOOLEAN /\ (~overlap' => ~overlap /\ tasks = {})
      BY <1>3 DEF Start
    <2>4. UNCHANGED <<cancel, link, receipts, state, flags, device, tasks, events, final>> /\ handle' = 0
      BY <1>3 DEF Start
    <2>5. TypeOK' BY <2>1, <2>2, <2>3, <2>4
    <2>6. loop = "build" BY <1>3 DEF Start
    <2>7. RestInv' BY <2>1, <2>3, <2>4, <2>6
    <2> QED BY <1>1, <2>5, <2>7
  <1>4. CASE SessionOver BY <1>1, <1>4 DEF SessionOver, Verdict, client, registers, history
  <1>5. CASE SessionCancelled BY <1>1, <1>5 DEF SessionCancelled, client, registers, history
  <1>6. CASE DrainEnds BY <1>1, <1>6 DEF DrainEnds, Disconnect, registers, history
  <1>7. CASE AfterSession BY <1>1, <1>7 DEF AfterSession, client, BridgeStates
  <1>8. CASE PauseEnds BY <1>1, <1>8 DEF PauseEnds, client, registers, history
  <1>9. CASE Close BY <1>1, <1>9 DEF Close, client, history, BridgeStates
  <1>10. CASE Cancel BY <1>1, <1>10 DEF Cancel, client, registers, history
  <1>11. CASE BotEnds BY <1>1, <1>11 DEF BotEnds, registers, history
  <1>12. CASE Pair BY <1>1, <1>12 DEF Pair, client, registers, history
  <1> QED BY <1>2, <1>3, <1>4, <1>5, <1>6, <1>7, <1>8, <1>9, <1>10, <1>11, <1>12 DEF Bridge

LEMMA InitRest == Init => TypeOK /\ TasksInv /\ RestInv
  <1> SUFFICES ASSUME Init PROVE TypeOK /\ TasksInv /\ RestInv OBVIOUS
  <1>1. TypeOK
    <2>1. 0 \in 0 .. MaxSessions /\ 0 \in 0 .. MaxEvents BY SessionAssumption
    <2>2. flags \in [Sessions -> [stop: BOOLEAN, replaced: BOOLEAN]] BY DEF Init
    <2> QED BY <2>1, <2>2 DEF Init, TypeOK, Loops, Clients, BridgeStates
  <1>2. TasksInv BY FS_EmptySet DEF Init, TasksInv
  <1>3. RestInv BY DEF Init, RestInv
  <1> QED BY <1>1, <1>2, <1>3

\* The inductive invariant behind AgreesAtRest.
THEOREM RestInvariant == Spec => []RInv
  <1>1. Init => RInv BY InitSInv, InitRest DEF RInv
  <1>2. RInv /\ [Next]_vars => RInv'
    <2> SUFFICES ASSUME RInv, [Next]_vars PROVE RInv' OBVIOUS
    <2>1. SInv' BY SStep DEF RInv
    <2>2. TypeOK' /\ TasksInv' /\ RestInv'
      <3>1. CASE UNCHANGED vars
        BY <3>1 DEF vars, client, registers, history, RInv, TypeOK, TasksInv, RestInv
      <3>2. CASE Next BY <3>2, EventKeepsRest, HandlerKeepsRest, BridgeKeepsRest DEF Next
      <3> QED BY <3>1, <3>2
    <2> QED BY <2>1, <2>2 DEF RInv
  <1> QED BY <1>1, <1>2, PTL DEF Spec

----------------------------------------------------------------------------
(* The properties the run checks *)

\* When no handler met another event or the loop's own writes, the client handle, the
\* state and the receipt scheduler say what the session's client is (handle_event).
THEOREM RegistersAgree == Spec => []AgreesAtRest
  <1>1. RInv => AgreesAtRest BY DEF RInv, RestInv, AgreesAtRest
  <1> QED BY <1>1, RestInvariant, PTL

\* A session that ended by itself leaves no client running behind it.
THEOREM AtMostOneClient == Spec => []OneClient
  <1>1. SInv => OneClient BY DEF SInv, ClientAttended, OneClient
  <1> QED BY <1>1, SessionInvariant, PTL

\* No session follows a hard stop the bridge learnt of while the session ran,
\* unless the session was replaced as well.
THEOREM HardStopEnds == Spec => []HardStopIsFinal
  <1>1. SInv => HardStopIsFinal
    <2> SUFFICES ASSUME SInv, NEW s \in final, s < session PROVE flags[s].replaced
      BY DEF HardStopIsFinal
    <2>1. session \in Nat BY DEF SInv, Shape
    <2> QED BY <2>1 DEF SInv, HardStopKept
  <1> QED BY <1>1, SessionInvariant, PTL

-----------------------------------------------------------------------------
(* Waits and limits *)

\* The retained times are those of the replacements still in the window.
TimesKept ==
    /\ IsFiniteSet(replaced)
    /\ times \subseteq replaced
    /\ {u \in replaced : now - u < Window} \subseteq times

\* Between two sessions the backoff has caught up with the last delay.
BackoffCaughtUp ==
    /\ phase \in {"check", "session"} => backoff <= MaxDelay
    /\ phase \in {"check", "session"} /\ outcome = "error" => backoff >= delay
    /\ phase = "sleep" => delay <= 2 * backoff /\ delay <= MaxDelay

IInv ==
    /\ ReconnectTyped /\ TimesKept /\ BackoffCaughtUp
    /\ DelayBounded /\ ReplacementsLimited /\ StopsForCause /\ ErrorsEscalate

----------------------------------------------------------------------------
(* The delay *)

\* A delay is at least its base and at most twice that, both up to the cap.
LEMMA DelaysRange ==
    ASSUME NEW b \in Nat, b >= Second, NEW d \in Delays(b)
    PROVE  /\ d \in Nat
           /\ d <= MaxDelay /\ d <= 2 * b
           /\ Smaller(b, MaxDelay) <= d
           /\ Second <= d
<1>1. PICK j \in Jitter(b) : d = Smaller(b + j, MaxDelay)
  BY DEF Delays
<1>2. j \in Nat /\ j <= b
  BY <1>1, ReconnectAssumption DEF Jitter, Larger
<1> QED BY <1>1, <1>2, ReconnectAssumption DEF Smaller

\* A pause is entered with a base of at least a second.
LEMMA PauseRange ==
    ASSUME NEW b \in Nat, b >= Second, b <= Larger(MaxDelay, ReplacedBackoff), Pause(b)
    PROVE  /\ phase' = "sleep" /\ backoff' = b /\ base' = b
           /\ backoff' \in Second .. Larger(MaxDelay, ReplacedBackoff)
           /\ delay' \in Nat /\ delay' <= MaxDelay /\ delay' <= 2 * backoff'
           /\ Smaller(b, MaxDelay) <= delay' /\ Second <= delay'
<1>1. delay' \in Delays(b) /\ phase' = "sleep" /\ backoff' = b /\ base' = b
  BY DEF Pause
<1> QED BY <1>1, DelaysRange, ReconnectAssumption DEF Larger

----------------------------------------------------------------------------
(* The steps *)

LEMMA ReconnectStarts == ReconnectInit => IInv
<1> SUFFICES ASSUME ReconnectInit PROVE IInv
  OBVIOUS
<1>1. ReconnectTyped
  <2>1. backoff \in Second .. Larger(MaxDelay, ReplacedBackoff)
    BY ReconnectAssumption DEF ReconnectInit, Larger
  <2>2. times \subseteq 0 .. now /\ replaced \subseteq 0 .. now /\ now \in 0 .. MaxTime
    BY ReconnectAssumption DEF ReconnectInit
  <2> QED BY <2>1, <2>2, ReconnectAssumption DEF ReconnectInit, ReconnectTyped
<1>2. IsFiniteSet(replaced)
  BY FS_EmptySet DEF ReconnectInit
<1>3. TimesKept
  BY <1>2 DEF ReconnectInit, TimesKept
<1> QED BY <1>1, <1>3, ReconnectAssumption
  DEF ReconnectInit, IInv, BackoffCaughtUp, DelayBounded, ReplacementsLimited, StopsForCause, ErrorsEscalate

\* What every ending of a session does, and what time does to the window.
LEMMA OverKeeps ==
    ASSUME IInv, NEW t \in Nat, t >= now, NEW o \in Outcomes, SessionLasted(t, o)
    PROVE  /\ now' \in 0 .. MaxTime /\ now' = t /\ outcome' = o /\ outcome' \in Outcomes
           /\ previous' = [outcome |-> outcome, base |-> base, delay |-> delay]
           /\ previous' \in [outcome: Outcomes \cup {"none"}, base: Nat, delay: Nat]
           /\ {u \in replaced : t - u < Window} \subseteq times
           /\ times \subseteq 0 .. t /\ replaced \subseteq 0 .. t
<1>1. now \in 0 .. MaxTime /\ times \subseteq 0 .. now /\ replaced \subseteq 0 .. now
      /\ base \in Nat /\ delay \in Nat /\ outcome \in Outcomes \cup {"none"}
  BY DEF IInv, ReconnectTyped
<1>2. {u \in replaced : now - u < Window} \subseteq times
  BY DEF IInv, TimesKept
<1>3. {u \in replaced : t - u < Window} \subseteq times
  <2>1. ASSUME NEW u \in replaced, t - u < Window PROVE now - u < Window
    BY <1>1, <2>1, ReconnectAssumption
  <2> QED BY <1>2, <2>1
<1>4. times \subseteq 0 .. t /\ replaced \subseteq 0 .. t
  BY <1>1, ReconnectAssumption
<1> QED BY <1>1, <1>3, <1>4, ReconnectAssumption DEF SessionLasted

\* A session ends and the bridge stops.
LEMMA StopPreserves ==
    ASSUME IInv, NEW t \in Nat, t >= now, NEW o \in Outcomes, SessionLasted(t, o),
           phase' = "stopped", cancelled \/ o = "stop",
           UNCHANGED <<cancelled, backoff, base, delay, times, replaced>>
    PROVE  IInv'
<1> USE ReconnectAssumption
<1>1. ReconnectTyped'
  BY OverKeeps DEF IInv, ReconnectTyped
<1>2. TimesKept'
  BY OverKeeps DEF IInv, TimesKept
<1> QED BY <1>1, <1>2, OverKeeps
  DEF IInv, BackoffCaughtUp, DelayBounded, ReplacementsLimited, StopsForCause, ErrorsEscalate

\* A session ends, no replacement, and the bridge sleeps.
LEMMA PausePreserves ==
    ASSUME IInv, NEW t \in Nat, t >= now, NEW o \in {"retry", "error"}, SessionLasted(t, o),
           NEW b \in Nat, Second <= b, b <= backoff, Pause(b), o = "error" => b = backoff,
           UNCHANGED <<cancelled, times, replaced>>
    PROVE  IInv'
<1> USE ReconnectAssumption
<1>1. backoff \in Second .. Larger(MaxDelay, ReplacedBackoff) /\ phase = "session" /\ backoff <= MaxDelay
  BY DEF IInv, ReconnectTyped, BackoffCaughtUp, SessionLasted
<1>2. b <= Larger(MaxDelay, ReplacedBackoff)
  BY <1>1 DEF Larger
<1>3. o \in Outcomes
  BY DEF Outcomes
<1>4. ReconnectTyped'
  BY <1>2, <1>3, OverKeeps, PauseRange DEF IInv, ReconnectTyped
<1>5. TimesKept'
  BY <1>3, OverKeeps DEF IInv, TimesKept
<1>6. BackoffCaughtUp'
  BY <1>2, PauseRange DEF BackoffCaughtUp
<1>7. DelayBounded'
  BY <1>2, <1>3, PauseRange, OverKeeps DEF DelayBounded
<1>8. ReplacementsLimited'
  BY <1>1, <1>2, PauseRange DEF IInv, ReplacementsLimited
<1>9. StopsForCause'
  BY <1>2, PauseRange DEF StopsForCause
<1>10. ErrorsEscalate'
  <2> SUFFICES ASSUME phase' = "sleep", outcome' = "error", previous'.outcome = "error"
               PROVE  delay' >= previous'.delay
    BY DEF ErrorsEscalate
  <2>1. o = "error" /\ outcome = "error" /\ previous'.delay = delay
    BY <1>3, OverKeeps
  <2>2. backoff >= delay /\ b = backoff
    BY <1>1, <2>1 DEF IInv, BackoffCaughtUp
  <2>3. Smaller(b, MaxDelay) <= delay' /\ delay' \in Nat
    BY <1>2, PauseRange
  <2>4. delay \in Nat
    BY DEF IInv, ReconnectTyped
  <2> QED BY <1>1, <2>1, <2>2, <2>3, <2>4 DEF Smaller
<1> QED BY <1>4, <1>5, <1>6, <1>7, <1>8, <1>9, <1>10 DEF IInv

\* After the times that left the window are dropped, those retained are exactly
\* the replacements of the last window.
LEMMA ReplacedCounts ==
    ASSUME IInv, NEW t \in Nat, t >= now, EndReplaced(t)
    PROVE  /\ TimesKept'
           /\ times' = {u \in replaced' : t - u < Window}
           /\ replaced' = replaced \cup {t} /\ now' = t /\ IsFiniteSet(times')
<1> USE ReconnectAssumption
<1>1. "replaced" \in Outcomes /\ SessionLasted(t, "replaced")
  BY DEF Outcomes, EndReplaced
<1>2. times' = Recent(t) \cup {t} /\ replaced' = replaced \cup {t}
  BY DEF EndReplaced
<1>3. {u \in replaced : t - u < Window} \subseteq times /\ times \subseteq replaced
      /\ times \subseteq 0 .. t /\ replaced \subseteq 0 .. t /\ now' = t
  BY <1>1, OverKeeps DEF IInv, TimesKept
<1>4. Recent(t) = {u \in replaced : t - u < Window}
  BY <1>3 DEF Recent
<1>5. IsFiniteSet(replaced')
  BY <1>2, FS_AddElement DEF IInv, TimesKept
<1>6. times' = {u \in replaced' : t - u < Window}
  BY <1>2, <1>3, <1>4
<1>7. IsFiniteSet(times')
  BY <1>5, <1>6, FS_Subset
<1> QED BY <1>2, <1>3, <1>5, <1>6, <1>7 DEF TimesKept

LEMMA ReplacedPreserves ==
    ASSUME IInv, NEW t \in Nat, t >= now, EndReplaced(t)
    PROVE  IInv'
<1> USE ReconnectAssumption
<1>1. "replaced" \in Outcomes /\ SessionLasted(t, "replaced") /\ phase = "session" /\ UNCHANGED cancelled
  BY DEF Outcomes, EndReplaced, SessionLasted
<1>2. /\ outcome' = "replaced" /\ now' \in 0 .. MaxTime
      /\ previous' \in [outcome: Outcomes \cup {"none"}, base: Nat, delay: Nat]
      /\ times \subseteq 0 .. t /\ replaced \subseteq 0 .. t
  BY <1>1, OverKeeps
<1>3. times' \subseteq 0 .. now' /\ replaced' \subseteq 0 .. now'
  <2>1. now' = t /\ replaced' = replaced \cup {t} /\ times' \subseteq replaced'
    BY ReplacedCounts
  <2>2. t \in 0 .. t
    OBVIOUS
  <2> QED BY <1>2, <2>1, <2>2
<1>4. backoff \in Second .. Larger(MaxDelay, ReplacedBackoff) /\ cancelled \in BOOLEAN
      /\ base \in Nat /\ delay \in Nat
  BY DEF IInv, ReconnectTyped
<1>5. CASE Cardinality(times') >= MaxReplacements
  <2>1. phase' = "stopped" /\ UNCHANGED <<backoff, base, delay>>
    BY <1>5 DEF EndReplaced
  <2>2. ReconnectTyped'
    BY <1>1, <1>2, <1>3, <1>4, <2>1 DEF ReconnectTyped
  <2>3. StopsForCause'
    BY <1>2, <1>5, ReplacedCounts DEF StopsForCause
  <2> QED BY <2>1, <2>2, <2>3, ReplacedCounts
    DEF IInv, BackoffCaughtUp, DelayBounded, ReplacementsLimited, ErrorsEscalate
<1>6. CASE ~(Cardinality(times') >= MaxReplacements)
  <2> DEFINE b == Larger(ReplacedBackoff, backoff)
  <2>1. Pause(b)
    BY <1>6 DEF EndReplaced
  <2>2. b \in Nat /\ Second <= b /\ b <= Larger(MaxDelay, ReplacedBackoff) /\ ReplacedBackoff <= b
    BY <1>4 DEF Larger
  <2> HIDE DEF b
  <2>3. /\ phase' = "sleep" /\ backoff' = b /\ base' = b
        /\ backoff' \in Second .. Larger(MaxDelay, ReplacedBackoff)
        /\ delay' \in Nat /\ delay' <= MaxDelay /\ delay' <= 2 * backoff'
        /\ Smaller(b, MaxDelay) <= delay' /\ Second <= delay'
    BY <2>1, <2>2, PauseRange
  <2>4. ReconnectTyped'
    BY <1>1, <1>2, <1>3, <1>4, <2>2, <2>3 DEF ReconnectTyped
  <2>5. DelayBounded'
    BY <2>2, <2>3 DEF DelayBounded, Smaller
  <2>6. ReplacementsLimited'
    <3> SUFFICES ASSUME NEW s \in replaced'
                 PROVE  Cardinality({u \in replaced' : u <= s /\ s - u < Window}) < MaxReplacements
      BY DEF ReplacementsLimited
    <3>1. Cardinality(times') < MaxReplacements
      <4>1. Cardinality(times') \in Nat
        BY ReplacedCounts, FS_CardinalityType
      <4> QED BY <1>6, <4>1
    <3>2. CASE s = t
      <4>1. \A u \in replaced' : u <= s
        BY <1>3, <3>2, ReplacedCounts
      <4>2. {u \in replaced' : u <= s /\ s - u < Window} = times'
        BY <3>2, <4>1, ReplacedCounts
      <4> QED BY <3>1, <4>2
    <3>3. CASE s # t
      <4>1. s \in replaced /\ s \in Nat /\ s < t
        <5>1. replaced' = replaced \cup {t}
          BY ReplacedCounts
        <5>2. s \in replaced
          BY <3>3, <5>1
        <5> QED BY <1>2, <3>3, <5>2
      <4>2. {u \in replaced' : u <= s /\ s - u < Window} = {u \in replaced : u <= s /\ s - u < Window}
        <5>1. replaced' = replaced \cup {t}
          BY ReplacedCounts
        <5>2. ~(t <= s)
          BY <4>1
        <5> QED BY <5>1, <5>2
      <4> QED BY <1>1, <4>1, <4>2 DEF IInv, ReplacementsLimited
    <3> QED BY <3>2, <3>3
  <2> QED BY <1>2, <2>3, <2>4, <2>5, <2>6, ReplacedCounts
    DEF IInv, BackoffCaughtUp, StopsForCause, ErrorsEscalate
<1> QED BY <1>5, <1>6

\* The steps between sessions.
LEMMA BetweenPreserves ==
    ASSUME IInv, LoopTop \/ AskToStop \/ Wake \/ WakeCancelled
    PROVE  IInv'
<1> USE ReconnectAssumption
<1>1. CASE LoopTop
  BY <1>1 DEF LoopTop, IInv, ReconnectTyped, TimesKept, BackoffCaughtUp, DelayBounded,
              ReplacementsLimited, StopsForCause, ErrorsEscalate
<1>2. CASE AskToStop
  BY <1>2 DEF AskToStop, IInv, ReconnectTyped, TimesKept, BackoffCaughtUp, DelayBounded,
              ReplacementsLimited, StopsForCause, ErrorsEscalate
<1>3. CASE WakeCancelled
  BY <1>3 DEF WakeCancelled, IInv, ReconnectTyped, TimesKept, BackoffCaughtUp, DelayBounded,
              ReplacementsLimited, StopsForCause, ErrorsEscalate
<1>4. CASE Wake
  <2>1. /\ phase = "sleep" /\ phase' = "check" /\ now' = now + delay /\ now' <= MaxTime
        /\ backoff' = Smaller(backoff * 2, MaxDelay)
        /\ UNCHANGED <<cancelled, base, delay, times, outcome, previous, replaced>>
    BY <1>4 DEF Wake
  <2>2. backoff \in Second .. Larger(MaxDelay, ReplacedBackoff) /\ delay \in Nat /\ now \in 0 .. MaxTime
        /\ times \subseteq 0 .. now /\ replaced \subseteq 0 .. now
    BY DEF IInv, ReconnectTyped
  <2>3. delay <= 2 * backoff /\ delay <= MaxDelay
    BY <2>1 DEF IInv, BackoffCaughtUp
  <2>4. backoff' \in Second .. Larger(MaxDelay, ReplacedBackoff) /\ backoff' <= MaxDelay /\ backoff' >= delay
    BY <2>1, <2>2, <2>3 DEF Smaller, Larger
  <2>5. now' \in 0 .. MaxTime /\ times \subseteq 0 .. now' /\ replaced \subseteq 0 .. now'
    BY <2>1, <2>2
  <2>6. ReconnectTyped'
    BY <2>1, <2>4, <2>5 DEF IInv, ReconnectTyped
  <2>7. {u \in replaced : now' - u < Window} \subseteq times
    <3>1. {u \in replaced : now - u < Window} \subseteq times
      BY DEF IInv, TimesKept
    <3>2. ASSUME NEW u \in replaced, now' - u < Window PROVE now - u < Window
      BY <2>1, <2>2, <3>2
    <3> QED BY <3>1, <3>2
  <2>8. TimesKept'
    BY <2>1, <2>7 DEF IInv, TimesKept
  <2> QED BY <2>1, <2>4, <2>6, <2>8
    DEF IInv, BackoffCaughtUp, DelayBounded, ReplacementsLimited, StopsForCause, ErrorsEscalate
<1> QED BY <1>1, <1>2, <1>3, <1>4

----------------------------------------------------------------------------
(* The theorems *)

\* The strengthened invariant: the times retained, and the backoff between two
\* sessions, are what the other invariants need.
THEOREM LoopInvariant == ReconnectSpec => []IInv
<1>1. ReconnectInit => IInv
  BY ReconnectStarts
<1>2. IInv /\ [ReconnectNext]_reconnectVars => IInv'
  <2> SUFFICES ASSUME IInv, [ReconnectNext]_reconnectVars PROVE IInv'
    OBVIOUS
  <2> USE ReconnectAssumption
  <2>1. CASE LoopTop \/ AskToStop \/ Wake \/ WakeCancelled
    BY <2>1, BetweenPreserves
  <2>2. ASSUME NEW d \in Lengths, SessionEnds(now + d) PROVE IInv'
    <3>1. PICK t \in Nat : t = now + d /\ t >= now
      BY DEF IInv, ReconnectTyped
    <3>2. SessionEnds(t)
      BY <2>2, <3>1
    <3>3. CASE EndStop(t)
      BY <3>1, <3>3, StopPreserves DEF EndStop, Outcomes
    <3>4. CASE EndReplaced(t)
      BY <3>1, <3>4, ReplacedPreserves
    <3>5. CASE EndRetry(t)
      <4>1. backoff \in Nat /\ Second <= backoff
        BY DEF IInv, ReconnectTyped
      <4>2. PICK b \in Nat : b = Larger(Second, backoff \div 2) /\ Second <= b /\ b <= backoff
        BY <4>1 DEF Larger
      <4> QED BY <3>1, <3>5, <4>2, PausePreserves DEF EndRetry
    <3>6. CASE EndError(t)
      <4>1. backoff \in Nat /\ Second <= backoff
        BY DEF IInv, ReconnectTyped
      <4> QED BY <3>1, <3>6, <4>1, PausePreserves DEF EndError
    <3>7. ASSUME NEW o \in Outcomes, EndCancelled(t, o) PROVE IInv'
      BY <3>1, <3>7, StopPreserves DEF EndCancelled
    <3> QED BY <3>2, <3>3, <3>4, <3>5, <3>6, <3>7 DEF SessionEnds
  <2>3. CASE UNCHANGED reconnectVars
    BY <2>3 DEF reconnectVars, IInv, ReconnectTyped, TimesKept, BackoffCaughtUp, DelayBounded,
                ReplacementsLimited, StopsForCause, ErrorsEscalate
  <2> QED BY <2>1, <2>2, <2>3 DEF ReconnectNext
<1> QED BY <1>1, <1>2, PTL DEF ReconnectSpec

\* The loop waits for no less than a second and no more than the configured
\* cap, and failure after failure the wait never shrinks.
THEOREM BackoffIsSound == ReconnectSpec => []BackoffSound
<1>1. IInv => BackoffSound
  BY DEF IInv, BackoffSound
<1> QED BY <1>1, LoopInvariant, PTL

\* The loop never outlives MAX_REPLACEMENTS replacements within a window, and
\* gives up only on a stop, a hard stop or such a window.
THEOREM LimitIsExact == ReconnectSpec => []LimitExact
<1>1. IInv => LimitExact
  BY DEF IInv, LimitExact
<1> QED BY <1>1, LoopInvariant, PTL
==============================================================================
