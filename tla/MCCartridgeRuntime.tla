------------------------- MODULE MCCartridgeRuntime --------------------------
\* Two requests for one or two slots: one makes a peer call before its output,
\* the other writes more than the window and leaves a detached sender behind.
EXTENDS CartridgeRuntime

CONSTANTS a, b

MCRequests == {a, b}
MCCallers == {a}
MCTickers == {b}
MCChunks == [r \in {a, b} |-> IF r = a THEN 0 ELSE 2]
==============================================================================
