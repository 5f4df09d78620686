----------------------------- MODULE MCFailureLab -----------------------------
(* FailureLab with two requests that compete for one of two obligations,    *)
(* two signatures and two concurrent workers.                               *)
EXTENDS FailureLab, TLC

Symmetry == Permutations(Workers) \cup Permutations(Signatures) \cup Permutations(Requests)

=============================================================================
