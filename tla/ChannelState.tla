----------------------------- MODULE ChannelState -----------------------------
(***************************************************************************)
(* The canonical channel snapshot of the Channel Protocol and its          *)
(* validator (packages/channel-protocol, channel.py), shared by the        *)
(* voucher ledger, the settlement runtime and the closure runtime.         *)
(*                                                                         *)
(* One channel is modelled: its identity (network, program, accounts,      *)
(* mint, sender, claim key) and its policy are constant, and created_at is *)
(* time 0.  A validator that raises is a predicate that is false.          *)
(***************************************************************************)
EXTENDS Integers, FiniteSets

CONSTANTS
  PolicyLimit,   \* policy.max_cumulative_authorized_base_units
  AllowTopUp,    \* policy.allow_top_up
  MinGrace,      \* policy.minimum_close_grace_seconds
  None           \* an absent optional field

ASSUME PolicyAssumption ==
  /\ PolicyLimit \in Nat /\ AllowTopUp \in BOOLEAN
  /\ MinGrace \in Nat \ {0} /\ None \notin Int

Statuses ==
  {"draft", "funding", "active", "settling", "closing", "closed", "expired",
   "blocked", "disputed", "needs_recovery", "needs_review"}

\* The fields of a channel object that are not fixed by its identity.
Channels ==
  [status : Statuses, funded : Nat, activated : Nat, settled : Nat, refunded : Nat,
   sequence : Nat, voucher : Nat, wallet : BOOLEAN, expires : Nat, updated : Nat,
   closeAt : Nat \cup {None}, deadline : Nat \cup {None}]

-----------------------------------------------------------------------------
(* AccountingProjection.                                                   *)

VaultBalance(c) == c.funded - c.settled - c.refunded

OutstandingRight(c) == c.activated - c.settled

UnallocatedCapacity(c) == c.funded - c.refunded - c.activated

-----------------------------------------------------------------------------
(* validate_channel.                                                       *)

AccountingValid(c) ==
  /\ c.refunded <= c.funded
  /\ c.activated <= c.funded - c.refunded
  /\ c.activated <= PolicyLimit
  /\ c.settled <= c.activated
  /\ (c.sequence = 0) = (c.activated = 0)

CloseFieldsValid(c) ==
  /\ (c.closeAt = None) = (c.deadline = None)
  /\ c.status \in {"closing", "closed"} => c.closeAt # None
  /\ c.closeAt # None =>
       /\ c.status \notin {"draft", "funding", "active", "settling", "expired"}
       /\ c.closeAt <= c.updated
       /\ c.deadline > c.closeAt
       /\ c.deadline - c.closeAt >= MinGrace

StatusValid(c) ==
  /\ c.status = "draft"   => c.funded = 0 /\ c.activated = 0 /\ c.settled = 0 /\ c.refunded = 0
  /\ c.status = "funding" => c.activated = 0 /\ c.settled = 0 /\ c.refunded = 0
  /\ c.status \in {"active", "settling", "closing"} => c.funded > 0
  /\ c.status \in {"funding", "active"} => c.updated < c.expires
  /\ c.status = "settling" => c.wallet /\ c.activated > c.settled
  /\ c.status = "expired"  => c.updated >= c.expires /\ c.activated = c.settled
  /\ c.status = "closed"   =>
       c.activated = c.settled /\ VaultBalance(c) = 0 /\ c.updated >= c.deadline

ValidChannel(c) ==
  AccountingValid(c) /\ c.expires > 0 /\ CloseFieldsValid(c) /\ StatusValid(c)

-----------------------------------------------------------------------------
\* validate_funding_transition: an event of the given amount, observed at the
\* time at, leads from the snapshot before to the snapshot after.
ValidFundingTransition(before, amount, at, after) ==
  /\ ValidChannel(before) /\ ValidChannel(after)
  /\ before.status \in {"funding", "active"}
  /\ before.status = "active" => AllowTopUp
  /\ amount > 0
  /\ after.status = "active"
  /\ after.funded = before.funded + amount
  /\ \A f \in {"activated", "settled", "refunded", "sequence", "voucher", "wallet", "expires"} :
       after[f] = before[f]
  /\ before.updated <= at /\ at <= after.updated

-----------------------------------------------------------------------------
(* Sums of requested amounts, as the runtimes' SQL computes them: the base *)
(* units of every operation in S, one by one, and how many they are.       *)

UnitsOf(S, amount) == UNION {{s} \X (1..amount[s]) : s \in S}

AmountOf(S, amount) == Cardinality(UnitsOf(S, amount))

-----------------------------------------------------------------------------
(* The channel account itself, which the runtimes only see in snapshots:   *)
(* what its instructions do to it (external to this package; the program   *)
(* is the subject of VaultTransitions).                                    *)

ActivatedBy(c, sequence, total, voucher) ==
  [c EXCEPT !.sequence = sequence, !.activated = total, !.voucher = voucher]

Settled(c, amount) == [c EXCEPT !.settled = @ + amount]

Refunded(c, amount) == [c EXCEPT !.refunded = @ + amount]

Closing(c, deadline, t) ==
  [c EXCEPT !.status = "closing", !.closeAt = t, !.deadline = deadline, !.updated = t]

Closed(c, t) == [c EXCEPT !.status = "closed", !.updated = t]

Touched(c, t) == [c EXCEPT !.updated = t]

=============================================================================
