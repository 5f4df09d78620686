------------------------------ MODULE MCVouchers ------------------------------
(* Vouchers 1 and 2 both extend the empty channel and exclude each other    *)
(* on the chain; voucher 3 extends 1 and exceeds the policy.  Submissions   *)
(* sA and sB carry the same voucher.  Two bindings of the claim for voucher *)
(* 1 name different wallets; the claim is also issued for voucher 2.        *)
EXTENDS ClaimFlow, TLC

CONSTANTS sA, sB, sC, sD, k1, w1, w2

MCSubmissions == {sA, sB, sC, sD}

MCVoucherOf == [s \in MCSubmissions |-> CASE s \in {sA, sB} -> 1 [] s = sC -> 2 [] s = sD -> 3]

MCVoucher ==
  <<[sequence |-> 1, total |-> 1, previous |-> 0, issued |-> 0, expires |-> 2,
     here |-> TRUE, signed |-> TRUE],
    [sequence |-> 2, total |-> 2, previous |-> 0, issued |-> 0, expires |-> 1,
     here |-> TRUE, signed |-> TRUE],
    [sequence |-> 3, total |-> 3, previous |-> 1, issued |-> 0, expires |-> 2,
     here |-> TRUE, signed |-> TRUE]>>

MCClaims ==
  {[id |-> k1, voucher |-> h, created |-> 0, expires |-> 1, state |-> "opened"] : h \in 1..2}

MCBindings ==
  {[claim |-> k1, voucher |-> 1, wallet |-> w, nonce |-> 1, issued |-> 0, expires |-> 1,
    here |-> TRUE, signed |-> TRUE] : w \in {w1, w2}}

MCWallets == {w1, w2}

MCKeys == MCWallets \cup {Accounts}

\* The two submissions of voucher 1, and the two wallets, are interchangeable.
MCSymmetry == Permutations({sA, sB}) \cup Permutations({w1, w2})

=============================================================================
