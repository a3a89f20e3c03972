------------------------------- MODULE Outbox -------------------------------
(***************************************************************************)
(* What the outbound queue promises its callers: at-least-once delivery.   *)
(* An accepted job stays pending until it is completed, which takes at     *)
(* least one transmission, or dropped; it is transmitted only while it is  *)
(* pending; only settled jobs are purged.                                  *)
(***************************************************************************)
EXTENDS Naturals

CONSTANT Jobs

VARIABLES stage, sends

vars == <<stage, sends>>

Stages == {"new", "pending", "done", "dropped", "purged"}

Move(j, from, to) == stage[j] = from /\ stage' = [stage EXCEPT ![j] = to]

Accept(j) == Move(j, "new", "pending") /\ UNCHANGED sends

Transmit(j) ==
    /\ stage[j] = "pending"
    /\ sends' = [sends EXCEPT ![j] = @ + 1]
    /\ UNCHANGED stage

Complete(j) == Move(j, "pending", "done") /\ sends[j] > 0 /\ UNCHANGED sends

GiveUp(j) == Move(j, "pending", "dropped") /\ UNCHANGED sends

Purge(S) ==
    /\ \A j \in S : stage[j] \in {"done", "dropped"}
    /\ stage' = [j \in Jobs |-> IF j \in S THEN "purged" ELSE stage[j]]
    /\ UNCHANGED sends

Init == stage = [j \in Jobs |-> "new"] /\ sends = [j \in Jobs |-> 0]

Next ==
    \/ \E j \in Jobs : Accept(j) \/ Transmit(j) \/ Complete(j) \/ GiveUp(j)
    \/ \E S \in SUBSET Jobs : Purge(S)

Spec == Init /\ [][Next]_vars
====
