---------------------------- MODULE MCReconciliation ----------------------------
(***************************************************************************)
(* Two L1 sources, an L2 in the trust domain of the first, an L2 that      *)
(* shares its provider with the second, an L3, and an L2 whose adapter     *)
(* presents it as an L3.                                                   *)
(***************************************************************************)
EXTENDS Reconciliation

CONSTANTS s1, s2, s3, s4, s5, s6

D(class, kind, provider, domain, endpoint) ==
  [class |-> class, kind |-> kind, provider |-> provider,
   domain |-> domain, endpoint |-> endpoint]

MCSources == {s1, s2, s3, s4, s5, s6}

MCRegistry ==
  [s \in MCSources |->
     CASE s = s1 -> D("L1", "rpc", "p1", "d1", "e1")
       [] s = s2 -> D("L1", "rpc", "p4", "d2", "e2")
       [] s = s3 -> D("L2", "rpc", "p3", "d1", "e3")
       [] s = s4 -> D("L2", "rpc", "p4", "d4", "e4")
       [] s = s5 -> D("L3", "indexer", "p5", "d5", "e5")
       [] s = s6 -> D("L2", "rpc", "p6", "d6", "e6")]

MCAdapter ==
  [MCRegistry EXCEPT ![s6] = D("L3", "explorer", "p6", "d6", "e6")]

MCCommitment == [s \in MCSources |-> IF s \in {s1, s4} THEN "confirmed" ELSE "finalized"]

Outcome(paid, received, error, listed) ==
  [paid |-> paid, received |-> received, error |-> error, listed |-> listed]

\* As expected; another amount; an error; an amount that is not all received; a
\* destination account the transaction creates.
MCOutcomes == {Outcome(1, 1, FALSE, TRUE), Outcome(2, 2, FALSE, TRUE),
               Outcome(0, 0, TRUE, TRUE), Outcome(2, 1, FALSE, TRUE),
               Outcome(1, 1, FALSE, FALSE)}

MCFaults == {[what |-> "provider", who |-> "p4"], [what |-> "domain", who |-> "d1"],
             [what |-> "endpoint", who |-> "e5"]}

=============================================================================
