--------------------------- MODULE BridgeSession ---------------------------
(***************************************************************************)
(* Sessions of the bridge and the events of their clients (bridge.rs):     *)
(* run_bot_session, the arms of handle_event that concern the connection,  *)
(* and run_bridge around them.  The delays between sessions and the count  *)
(* of replacements are in Reconnect; here a pause just ends.               *)
(*                                                                         *)
(* The library spawns a task for every event, so handlers overlap, finish  *)
(* in any order and outlive their session.  A step of a handler reaches to *)
(* its next await.  A client is named by the session it belongs to, and 0  *)
(* is no client.                                                           *)
(***************************************************************************)
EXTENDS Naturals

CONSTANTS
    MaxSessions,  \* sessions in a behaviour (bound)
    MaxEvents     \* connection events in a behaviour (bound)

ASSUME SessionAssumption == MaxSessions \in Nat \ {0} /\ MaxEvents \in Nat

VARIABLES
    loop,       \* where run_bridge is
    cancel,     \* is the token cancelled
    session,    \* sessions started so far; the last is the current one
    result,     \* what the last session returned
    bot,        \* is the client of the current session running
    link,       \* is it connected, by the events it has sent
    handle,     \* client_handle
    receipts,   \* the client of the last SetClient sent to the receipt scheduler
    state,      \* the BridgeState channel
    flags,      \* stop_reconnect and stream_replaced of every session
    device,     \* is there a device row (credentials)
    tasks,      \* handlers that are running
    events,     \* events so far
    overlap,    \* did the last event, or a session's end or start, meet a handler
    final       \* sessions with a hard stop while they ran

client == <<bot, link>>
registers == <<handle, receipts, state>>
history == <<events, overlap, final>>
vars == <<loop, cancel, session, result, client, registers, flags, device, tasks, history>>

Sessions == 1 .. MaxSessions
Clients == 0 .. MaxSessions
Loops == {"check", "build", "session", "drain", "ended", "pause", "closing", "stopped"}
BridgeStates == {"Disconnected", "Pairing", "Connected", "Reconnecting", "Stopped"}

\* "down" is StreamError, Disconnected or a ConnectFailure the library retries;
\* "hardstop" is TemporaryBan, ClientOutdated or a ConnectFailure it does not.
Losses == {"loggedout", "down", "replaced", "hardstop"}
Disconnecting == {"loggedout", "replaced", "hardstop"}
Kinds == Losses \cup {"connected", "pairing"}

Task == [id: 1 .. MaxEvents, session: Sessions, kind: Kinds, pc: {"handle", "receipts", "device", "state"}]

Step(t, pc) ==
    tasks' = (tasks \ {t}) \cup {[id |-> t.id, session |-> t.session, kind |-> t.kind, pc |-> pc]}
Finish(t) == tasks' = tasks \ {t}

----------------------------------------------------------------------------
(* The client of the session (external): what it tells the bridge *)

\* Tells apart the handlers of one kind and session.
FreshId(kind) ==
    LET used == {t.id : t \in {u \in tasks : u.kind = kind /\ u.session = session}}
    IN  CHOOSE i \in 1 .. MaxEvents : i \notin used /\ \A j \in 1 .. i - 1 : j \in used

\* Events come in an order that makes sense; each starts a handler.
Event(kind) ==
    /\ bot /\ events < MaxEvents
    /\ kind \in {"connected", "pairing"} => ~link
    /\ kind = "pairing" => ~device
    /\ kind = "replaced" => link
    /\ events' = events + 1
    /\ tasks' = tasks \cup {[id |-> FreshId(kind), session |-> session, kind |-> kind,
                             pc |-> IF kind = "pairing" THEN "state" ELSE "handle"]}
    /\ link' = (kind = "connected")
    /\ overlap' = (tasks # {} \/ (kind = "pairing" /\ overlap))
    /\ UNCHANGED <<loop, cancel, session, result, bot, registers, flags, device, final>>

\* The bot's task ends by itself.
BotEnds ==
    /\ bot
    /\ bot' = FALSE /\ link' = FALSE
    /\ UNCHANGED <<loop, cancel, session, result, registers, flags, device, tasks, history>>

\* A pairing: the client stores the credentials.
Pair ==
    /\ bot /\ link /\ ~device
    /\ device' = TRUE
    /\ UNCHANGED <<loop, cancel, session, result, client, registers, flags, tasks, history>>

\* disconnect(), called with a client of session s
Disconnect(s) ==
    IF s = session THEN bot' = FALSE /\ link' = FALSE ELSE UNCHANGED <<bot, link>>

----------------------------------------------------------------------------
(* handle_event: pairing, Connected, and the arms that take the client away *)

\* set_client_handle, before the first await
SetHandle(t) ==
    /\ t.pc = "handle"
    /\ handle' = IF t.kind = "connected" THEN t.session ELSE 0
    /\ Step(t, "receipts")
    /\ UNCHANGED <<loop, cancel, session, result, client, receipts, state, flags, device, history>>

\* rr_tx.send(SetClient(..)).await
SetReceipts(t) ==
    /\ t.pc = "receipts"
    /\ receipts' = IF t.kind = "connected" THEN t.session ELSE 0
    /\ Step(t, IF t.kind = "loggedout" THEN "device" ELSE "state")
    /\ UNCHANGED <<loop, cancel, session, result, client, handle, state, flags, device, history>>

\* LoggedOut: clear_device, whose error is only logged
ClearDevice(t) ==
    /\ t.pc = "device"
    /\ device' \in {device, FALSE}
    /\ Step(t, "state")
    /\ UNCHANGED <<loop, cancel, session, result, client, registers, flags, history>>

\* Mutant: a hard stop only disconnects.
FlagsSoft(t) ==
    [flags EXCEPT ![t.session] = [stop |-> @.stop, replaced |-> @.replaced \/ t.kind = "replaced"]]

FlagsAfter(t) ==
    [flags EXCEPT ![t.session] = [stop |-> @.stop \/ t.kind = "hardstop",
                                  replaced |-> @.replaced \/ t.kind = "replaced"]]

Announced(kind) ==
    CASE kind = "connected" -> "Connected"
      [] kind = "pairing" -> "Pairing"
      [] OTHER -> "Disconnected"

\* The flags, request_disconnect and state_tx.send, after the last await
SetState(t) ==
    /\ t.pc = "state"
    /\ state' = Announced(t.kind)
    /\ flags' = FlagsAfter(t)
    /\ IF t.kind \in Disconnecting THEN Disconnect(t.session) ELSE UNCHANGED <<bot, link>>
    /\ final' = final \cup {s \in {t.session} : t.kind = "hardstop" /\ s = session /\ bot}
    /\ Finish(t)
    /\ UNCHANGED <<loop, cancel, session, result, handle, receipts, device, events, overlap>>

Handler(t) == SetHandle(t) \/ SetReceipts(t) \/ ClearDevice(t) \/ SetState(t)

----------------------------------------------------------------------------
(* run_bridge and run_bot_session *)

Cancel ==
    /\ ~cancel
    /\ cancel' = TRUE
    /\ UNCHANGED <<loop, session, result, client, registers, flags, device, tasks, history>>

\* The top of the loop.
Check ==
    /\ loop = "check" /\ (cancel \/ session < MaxSessions)
    /\ loop' = IF cancel THEN "closing" ELSE "build"
    /\ UNCHANGED <<cancel, session, result, client, registers, flags, device, tasks, history>>

\* Mutant: the handle of the previous session stays.
StartKeepsHandle ==
    /\ loop = "build"
    /\ session' = session + 1
    /\ \/ loop' = "session" /\ bot' = TRUE /\ UNCHANGED result
       \/ loop' = "ended" /\ result' = "error" /\ UNCHANGED bot
    /\ overlap' = (overlap \/ tasks # {})
    /\ UNCHANGED <<cancel, link, registers, flags, device, tasks, events, final>>

\* The start of run_bot_session, up to spawn: the build may fail.
Start ==
    /\ loop = "build"
    /\ session' = session + 1
    /\ handle' = 0
    /\ \/ loop' = "session" /\ bot' = TRUE /\ UNCHANGED result
       \/ loop' = "ended" /\ result' = "error" /\ UNCHANGED bot
    /\ overlap' = (overlap \/ tasks # {})
    /\ UNCHANGED <<cancel, link, receipts, state, flags, device, tasks, events, final>>

\* The replacement is looked at before the stop.
Verdict(f) == IF f.replaced THEN "replaced" ELSE IF f.stop THEN "stop" ELSE "retry"

\* Mutant: the session also ends, the bot still running, when the client is lost.
SessionOverEarly ==
    /\ loop = "session" /\ (~bot \/ ~link)
    /\ loop' = "ended"
    /\ result' = Verdict(flags[session])
    /\ UNCHANGED <<cancel, session, client, registers, flags, device, tasks, history>>

\* The select: the bot's task is over; the flags are read here.
SessionOver ==
    /\ loop = "session" /\ ~bot
    /\ loop' = "ended"
    /\ result' = Verdict(flags[session])
    /\ UNCHANGED <<cancel, session, client, registers, flags, device, tasks, history>>

\* Mutant: nobody listens to the token while a session runs.
SessionDeaf ==
    /\ loop = "session" /\ cancel /\ ~bot
    /\ loop' = "ended" /\ result' = "stop"
    /\ UNCHANGED <<cancel, session, client, registers, flags, device, tasks, history>>

\* The select: the token is cancelled.  Its own arm drains; handle_outbound's,
\* which returns for the same reason, does not.  The bot's task goes on.
SessionCancelled ==
    /\ loop = "session" /\ cancel
    /\ loop' \in {"drain", "ended"} /\ result' = "stop"
    /\ UNCHANGED <<cancel, session, client, registers, flags, device, tasks, history>>

\* The drain (OutboundQueue) is over or timed out; it disconnects the client it
\* finds in the handle.
DrainEnds ==
    /\ loop = "drain"
    /\ loop' = "ended"
    /\ IF handle # 0 THEN Disconnect(handle) ELSE UNCHANGED <<bot, link>>
    /\ UNCHANGED <<cancel, session, result, registers, flags, device, tasks, history>>

\* After the session: give up, or announce the pause.  A replacement may be one
\* too many (Reconnect).
AfterSession ==
    /\ loop = "ended"
    /\ \/ /\ cancel \/ result \in {"stop", "replaced"}
          /\ loop' = "closing" /\ UNCHANGED state
       \/ /\ ~cancel /\ result # "stop"
          /\ loop' = "pause" /\ state' = "Reconnecting"
    /\ overlap' = (overlap \/ tasks # {})
    /\ UNCHANGED <<cancel, session, result, client, handle, receipts, flags, device, tasks,
                   events, final>>

PauseEnds ==
    /\ loop = "pause"
    /\ loop' \in {"check"} \cup {l \in {"closing"} : cancel}
    /\ UNCHANGED <<cancel, session, result, client, registers, flags, device, tasks, history>>

\* The shutdown backup, the withdrawal of the presence, Stopped.
Close ==
    /\ loop = "closing"
    /\ loop' = "stopped" /\ state' = "Stopped"
    /\ UNCHANGED <<cancel, session, result, client, handle, receipts, flags, device, tasks, history>>

Bridge ==
    \/ Check \/ Start \/ SessionOver \/ SessionCancelled \/ DrainEnds \/ AfterSession
    \/ PauseEnds \/ Close

Init ==
    /\ loop = "check" /\ cancel = FALSE /\ session = 0 /\ result = "none"
    /\ bot = FALSE /\ link = FALSE
    /\ handle = 0 /\ receipts = 0 /\ state = "Disconnected"
    /\ flags = [s \in Sessions |-> [stop |-> FALSE, replaced |-> FALSE]]
    /\ device \in BOOLEAN
    /\ tasks = {} /\ events = 0 /\ overlap = FALSE /\ final = {}

Next ==
    \/ Bridge \/ Cancel \/ BotEnds \/ Pair
    \/ \E k \in Kinds : Event(k)
    \/ \E t \in tasks : Handler(t)

Spec == Init /\ [][Next]_vars

\* The runtime polls the loop's task when it can go on: its awaits are on the
\* token, on timers and on a drain with a timeout.
FairSpec == Spec /\ WF_vars(Bridge)

----------------------------------------------------------------------------
(* Properties *)

\* The registers, flags and handlers have their types, and only a client that runs
\* has a link.
TypeOK ==
    /\ loop \in Loops /\ cancel \in BOOLEAN /\ session \in 0 .. MaxSessions
    /\ result \in {"none", "error", "retry", "replaced", "stop"}
    /\ bot \in BOOLEAN /\ link \in BOOLEAN /\ (link => bot)
    /\ handle \in Clients /\ receipts \in Clients /\ state \in BridgeStates
    /\ flags \in [Sessions -> [stop: BOOLEAN, replaced: BOOLEAN]]
    /\ device \in BOOLEAN /\ tasks \subseteq Task /\ events \in 0 .. MaxEvents
    /\ overlap \in BOOLEAN /\ final \subseteq Sessions

\* When no handler met another event or the loop's own writes, what the rest of
\* the bridge goes by is right: the client handle is there, and the state is
\* Connected, exactly while the session's client is connected, and then the
\* receipt scheduler has it too.
AgreesAtRest ==
    /\ TypeOK
    /\ loop = "session" /\ bot /\ tasks = {} /\ ~overlap
        => /\ handle = IF link THEN session ELSE 0
           /\ state = "Connected" <=> link
           /\ link => receipts = session

\* A ban, an outdated client or a refused connection that the bridge learnt of
\* while the session ran is the end, unless the session was replaced as well.
HardStopIsFinal == \A s \in final : s < session => flags[s].replaced

\* A session that ended by itself leaves no client running: at most one is up.
OneClient == loop \in {"check", "build", "pause"} => ~bot

\* Whatever the bridge is doing, a stop request ends it.
StopsEventually == cancel ~> loop = "stopped"
====
