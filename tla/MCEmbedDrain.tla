---------------------------- MODULE MCEmbedDrain ----------------------------
EXTENDS EmbedDrain

MCCallers == {"drain", "search"}
MCKind == [m \in Messages |-> IF m = 1 THEN "bare" ELSE "plain"]
MCScore == [m \in Messages |-> m]
=============================================================================
