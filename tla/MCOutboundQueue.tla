-------------------------- MODULE MCOutboundQueue --------------------------
(* Instances of OutboundQueue for TLC. *)
EXTENDS OutboundQueue
====
