----------------------------- MODULE MCSettlement -----------------------------
(* Two settlements with an obligation each.  At first the activated right   *)
(* covers either of them, not both; one more activation covers both.        *)
EXTENDS SettlementRuntime

CONSTANTS s1, s2

MCSettlements == {s1, s2}

MCAmount == [s \in MCSettlements |-> IF s = s2 THEN 2 ELSE 1]

MCObligation == [s \in MCSettlements |-> s]

MCExpiry == [s \in MCSettlements |-> 1]

MCStart == [status |-> "active", funded |-> 3, activated |-> 2, settled |-> 0,
            refunded |-> 0, sequence |-> 1, voucher |-> 1, wallet |-> TRUE,
            expires |-> 1, updated |-> 0, closeAt |-> None, deadline |-> None]

=============================================================================
