-------------------------- MODULE MCBridgeSession --------------------------
(* Instances of BridgeSession for TLC. *)
EXTENDS BridgeSession
====
