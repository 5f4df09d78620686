------------------------------- MODULE MCClosure -------------------------------
(* Two closures of one channel and two refunds: without the late activation *)
(* both refunds fit into one closure's pool, after it only one does.        *)
EXTENDS ClosureRuntime, TLC

CONSTANTS r1, r2, c1, c2

MCAmount == [r \in {r1, r2} |-> 1]

MCStart == [status |-> "active", funded |-> 3, activated |-> 1, settled |-> 0,
            refunded |-> 0, sequence |-> 1, voucher |-> 1, wallet |-> TRUE,
            expires |-> 5, updated |-> 0, closeAt |-> None, deadline |-> None]

\* Ids of refunds and of closures are interchangeable.
MCSymmetry == Permutations({r1, r2}) \cup Permutations({c1, c2})

=============================================================================
