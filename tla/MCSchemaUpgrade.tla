-------------------------- MODULE MCSchemaUpgrade --------------------------
EXTENDS SchemaUpgrade, TLC

Local == [port |-> 7270, loopback |-> TRUE, remote |-> FALSE, token |-> "none", hosts |-> FALSE, origins |-> FALSE]
NoMcp == [Local EXCEPT !.port = 0]
Remote == [Local EXCEPT !.loopback = FALSE]
Plain == [backfill |-> [interval |-> 5, concurrent |-> 1, messages |-> 5000],
          overrides |-> [fast |-> FALSE, concurrency |-> FALSE, huge |-> FALSE],
          rest |-> Local, mcp |-> NoMcp, long |-> {"long"}]
MCSettings == {Plain, [Plain EXCEPT !.rest = Remote], [Plain EXCEPT !.backfill.interval = 1]}
MCSymmetry == Permutations(Process) \cup Permutations(Messages)
=============================================================================
