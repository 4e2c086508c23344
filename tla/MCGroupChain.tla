--------------------------- MODULE MCGroupChain ------------------------------
(***************************************************************************)
(* The chains TLC runs.                                                    *)
(***************************************************************************)
EXTENDS GroupChain

\* Two caps.  The first streams items of three fragments through a window of
\* two, the second collects, behind a link whose grants come in batches
\* larger than that window.
TwoFrames == [i \in 1 .. 2 |-> IF i = 1 THEN 3 ELSE 1]
TwoWindows == [i \in 1 .. 2 |-> IF i = 1 THEN 2 ELSE 6]

\* Windows wide enough that grants go out in batches, and parts of a batch
\* are left to flush.
WideWindows == [i \in 1 .. 2 |-> IF i = 1 THEN 4 ELSE 8]
=============================================================================
