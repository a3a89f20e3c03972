---------------------------- MODULE MCReconnect ----------------------------
(* Instances of Reconnect for TLC: one unit is half a second of the code's.  *)
EXTENDS Reconnect

MCLengths == {0, 9, 20}
====
