------------------------------- MODULE MCSigner -------------------------------
(* A small instance of SignerBoundary for TLC.  Two execution requests pay  *)
(* one obligation, so that grants can compete; the executor may return a    *)
(* prepared execution with other bytes under a hash and a commitment that   *)
(* the authority has seen, and one whose simulation ends earlier.           *)
EXTENDS SignerBoundary, TLC

Expect(r, o) == [request |-> r, obligation |-> o, expiresAt |-> 4]

MCExpectations == {Expect("r1", "o1"), Expect("r2", "o1")}

\* A consistent prepared execution of message m for expectation e.
Consistent(e, m, until) ==
  LET base == [request |-> e.request, planHash |-> PlanHash(e), message |-> m,
               messageHash |-> MessageHash(m), simulationOk |-> TRUE,
               simulatedAt |-> 0, validUntil |-> until, expiresAt |-> until]
  IN  [request |-> base.request, planHash |-> base.planHash, message |-> m,
       messageHash |-> base.messageHash, simulationOk |-> TRUE, simulatedAt |-> 0,
       validUntil |-> until, expiresAt |-> until,
       commitment |-> Commitment(base, e.obligation)]

AuthSymmetry == Permutations(AuthIds)

MCPrepared ==
  LET p1 == Consistent(Expect("r1", "o1"), "m1", 3)
      p2 == Consistent(Expect("r2", "o1"), "m2", 2)
  IN  {p1, p2, [p1 EXCEPT !.message = "m2"]}

=============================================================================
