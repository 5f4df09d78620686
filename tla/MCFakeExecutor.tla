---------------------------- MODULE MCFakeExecutor ----------------------------
(* FakeExecutor with two requests that compete for one obligation and two   *)
(* authorization ids that the authority may bind to either.                 *)
EXTENDS FakeExecutor, TLC

Symmetry == Permutations(Requests) \cup Permutations(Keys) \cup Permutations(AuthIds)

=============================================================================
