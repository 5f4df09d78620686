----------------------------- MODULE MCConcurrency -----------------------------
(* Four operations of concurrent clients on a channel that is active, or   *)
(* has just been asked to close, as in the harness's own tests.             *)
EXTENDS ChannelConcurrency, TLC

Active(bound) ==
  [Uninitialized("channel_vault") EXCEPT
     !.vault = "classic_token", !.lifecycle = "active", !.accounts = "k1",
     !.funded = 2, !.activated = 1, !.sequence = 1,
     !.bound = bound, !.recipient = IF bound THEN "k1" ELSE ZeroKey,
     !.nonceConsumed = bound]

MCStarts ==
  {Active(TRUE), Active(FALSE),
   [Active(TRUE) EXCEPT !.lifecycle = "closing", !.deadline = 1]}

MCInstructions ==
  {[op |-> "fund", amount |-> 1],
   [op |-> "activate", sequence |-> 2, cumulative |-> 2, expiry |-> 3],
   [op |-> "bind", recipient |-> "k1"],
   [op |-> "settle", amount |-> 1, destination |-> CanonicalAta("k1", "k1")],
   [op |-> "request_close", deadline |-> 2],
   [op |-> "refund", amount |-> 1],
   [op |-> "finalize"]}

IdSymmetry == Permutations(OperationIds)

=============================================================================
