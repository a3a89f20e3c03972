--------------------------- MODULE MCInboundDedup ---------------------------
(* Instances of InboundDedup for TLC.  Handlers and ids are interchangeable. *)
EXTENDS InboundDedup, TLC

Symmetry == Permutations(Handlers) \cup Permutations(Ids)
====
