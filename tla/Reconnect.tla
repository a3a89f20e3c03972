----------------------------- MODULE Reconnect -----------------------------
(***************************************************************************)
(* The reconnect loop of run_bridge (bridge.rs): how long it waits between *)
(* sessions, and when it gives up.  What happens inside a session is in    *)
(* BridgeSession; here a session lasts for some time and has an outcome.   *)
(*                                                                         *)
(* Durations are natural numbers in a unit of the instance's choice.       *)
(***************************************************************************)
EXTENDS Integers, FiniteSets

CONSTANTS
    Second,           \* Duration::from_secs(1), the least backoff
    ReplacedBackoff,  \* Duration::from_secs(10)
    MaxDelay,         \* config.max_reconnect_delay
    MaxReplacements,  \* MAX_REPLACEMENTS
    Window,           \* REPLACEMENT_WINDOW
    Lengths,          \* how long a session may last
    MaxTime           \* the time at which the instance ends (bound)

ASSUME ReconnectAssumption ==
    /\ Second \in Nat \ {0} /\ ReplacedBackoff \in Nat
    /\ MaxDelay \in Nat /\ MaxDelay >= Second
    /\ MaxReplacements \in Nat \ {0} /\ Window \in Nat \ {0}
    /\ Lengths \subseteq Nat /\ MaxTime \in Nat

VARIABLES
    phase,      \* where run_bridge is
    cancelled,  \* is the token cancelled
    backoff,    \* backoff
    base,       \* backoff when the sleep began
    delay,      \* what it sleeps for
    now,        \* the clock
    times,      \* replacement_times
    outcome,    \* of the last session
    previous,   \* outcome, base and delay of the session before it
    replaced    \* when sessions ended by replacement, ever

reconnectVars == <<phase, cancelled, backoff, base, delay, now, times, outcome, previous, replaced>>

Outcomes == {"stop", "replaced", "retry", "error"}

Larger(a, b) == IF a < b THEN b ELSE a
Smaller(a, b) == IF a < b THEN a ELSE b

\* rand_jitter_ms(b): [0, b/2), or 0 where that is empty
Jitter(b) == 0 .. Larger(b \div 2, 1) - 1

Delays(b) == {Smaller(b + j, MaxDelay) : j \in Jitter(b)}

\* The top of the loop.
LoopTop ==
    /\ phase = "check"
    /\ phase' = IF cancelled THEN "stopped" ELSE "session"
    /\ UNCHANGED <<cancelled, backoff, base, delay, now, times, outcome, previous, replaced>>

AskToStop ==
    /\ ~cancelled
    /\ cancelled' = TRUE
    /\ UNCHANGED <<phase, backoff, base, delay, now, times, outcome, previous, replaced>>

\* The session is over at time t; these are the first lines of every ending.
SessionLasted(t, o) ==
    /\ phase = "session"
    /\ t <= MaxTime /\ now' = t
    /\ outcome' = o
    /\ previous' = [outcome |-> outcome, base |-> base, delay |-> delay]

\* record_reconnect, the jitter, state Reconnecting, and the sleep begins.
Pause(b) ==
    /\ backoff' = b /\ base' = b
    /\ delay' \in Delays(b)
    /\ phase' = "sleep"

EndCancelled(t, o) ==
    /\ SessionLasted(t, o) /\ cancelled
    /\ phase' = "stopped"
    /\ UNCHANGED <<cancelled, backoff, base, delay, times, replaced>>

EndStop(t) ==
    /\ SessionLasted(t, "stop") /\ ~cancelled
    /\ phase' = "stopped"
    /\ UNCHANGED <<cancelled, backoff, base, delay, times, replaced>>

\* Mutant: retain keeps what has left the window.
RecentInverted(t) == {u \in times : t - u >= Window}

\* replacement_times.retain
Recent(t) == {u \in times : t - u < Window}

EndReplaced(t) ==
    /\ SessionLasted(t, "replaced") /\ ~cancelled
    /\ times' = Recent(t) \cup {t}
    /\ replaced' = replaced \cup {t}
    /\ IF Cardinality(times') >= MaxReplacements
       THEN phase' = "stopped" /\ UNCHANGED <<backoff, base, delay>>
       ELSE Pause(Larger(ReplacedBackoff, backoff))
    /\ UNCHANGED cancelled

EndRetry(t) ==
    /\ SessionLasted(t, "retry") /\ ~cancelled
    /\ Pause(Larger(Second, backoff \div 2))
    /\ UNCHANGED <<cancelled, times, replaced>>

\* Mutant: a failed session is treated like a clean disconnect.
EndErrorHalved(t) ==
    /\ SessionLasted(t, "error") /\ ~cancelled
    /\ Pause(Larger(Second, backoff \div 2))
    /\ UNCHANGED <<cancelled, times, replaced>>

EndError(t) ==
    /\ SessionLasted(t, "error") /\ ~cancelled
    /\ Pause(backoff)
    /\ UNCHANGED <<cancelled, times, replaced>>

Wake ==
    /\ phase = "sleep"
    /\ now + delay <= MaxTime /\ now' = now + delay
    /\ backoff' = Smaller(backoff * 2, MaxDelay)
    /\ phase' = "check"
    /\ UNCHANGED <<cancelled, base, delay, times, outcome, previous, replaced>>

\* cancelled() wins the select.
WakeCancelled ==
    /\ phase = "sleep" /\ cancelled
    /\ phase' = "stopped"
    /\ UNCHANGED <<cancelled, backoff, base, delay, now, times, outcome, previous, replaced>>

SessionEnds(t) ==
    \/ EndStop(t) \/ EndReplaced(t) \/ EndRetry(t) \/ EndError(t)
    \/ \E o \in Outcomes : EndCancelled(t, o)

ReconnectInit ==
    /\ phase = "check" /\ cancelled = FALSE
    /\ backoff = Second /\ base = Second /\ delay = 0 /\ now = 0 /\ times = {}
    /\ outcome = "none" /\ replaced = {}
    /\ previous = [outcome |-> "none", base |-> Second, delay |-> 0]

ReconnectNext ==
    \/ LoopTop \/ AskToStop \/ Wake \/ WakeCancelled
    \/ \E d \in Lengths : SessionEnds(now + d)

ReconnectSpec == ReconnectInit /\ [][ReconnectNext]_reconnectVars

----------------------------------------------------------------------------
(* Properties *)

\* The backoff stays between a second and the larger of its two limits, and no
\* recorded time lies ahead of the clock.
ReconnectTyped ==
    /\ phase \in {"check", "session", "sleep", "stopped"}
    /\ cancelled \in BOOLEAN
    /\ backoff \in Second .. Larger(MaxDelay, ReplacedBackoff) /\ base \in Nat /\ delay \in Nat
    /\ now \in 0 .. MaxTime
    /\ times \subseteq 0 .. now /\ replaced \subseteq 0 .. now
    /\ outcome \in Outcomes \cup {"none"}
    /\ previous \in [outcome: Outcomes \cup {"none"}, base: Nat, delay: Nat]

\* Whatever sequence of outcomes led here, the bridge waits at least a second
\* and at most max_reconnect_delay before it connects again, and at least the
\* longer wait after a replacement.
DelayBounded ==
    phase = "sleep" =>
        /\ Second <= delay /\ delay <= MaxDelay
        /\ outcome = "replaced" => Smaller(ReplacedBackoff, MaxDelay) <= delay

\* A bridge that goes on has not been replaced MaxReplacements times within a
\* window; it forgets only what has left the window.
ReplacementsLimited ==
    phase # "stopped" =>
        \A t \in replaced : Cardinality({u \in replaced : u <= t /\ t - u < Window}) < MaxReplacements

\* It gives up only when it was told to or for a reason of the last session.
StopsForCause ==
    phase = "stopped" =>
        \/ cancelled
        \/ outcome = "stop"
        \/ /\ outcome = "replaced"
           /\ Cardinality({u \in replaced : now - u < Window}) >= MaxReplacements

\* Of two failed sessions in a row, the second is followed by no shorter a wait,
\* whatever the jitter.
ErrorsEscalate ==
    phase = "sleep" /\ outcome = "error" /\ previous.outcome = "error" => delay >= previous.delay

\* Whatever sequence of outcomes led here, the wait is within its limits, the
\* longer one after a replacement, and failures in a row never shorten it.
BackoffSound == ReconnectTyped /\ DelayBounded /\ ErrorsEscalate

\* The bridge gives up for good when it was replaced MaxReplacements times
\* within a window, or was told to, and otherwise goes on.
LimitExact == ReplacementsLimited /\ StopsForCause
====
