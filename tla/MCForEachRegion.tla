--------------------------- MODULE MCForEachRegion ----------------------------
(* A region of up to three bodies beside the run of another plan.            *)
EXTENDS ForEachRegion

MCDomains == {"x", "y"}
MCCapacity == [d \in MCDomains |-> 1]

\* Each body holds x while it waits for y; the other plan uses y twice in a row.
Chains == [r \in 1 .. 4 |-> IF r <= 3 THEN <<"x", "y">> ELSE <<"y", "y">>]
=============================================================================
