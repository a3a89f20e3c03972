----------------------------- MODULE MCBackfill -----------------------------
EXTENDS Backfill

MCTargets == {[kind |-> "all", value |-> 0], [kind |-> "count", value |-> 3]}
=============================================================================
