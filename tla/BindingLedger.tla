---------------------------- MODULE BindingLedger ----------------------------
(***************************************************************************)
(* Initial recipient bindings (recipient_binding.py): a claim reference    *)
(* and a binding signed by the claim key and by the destination wallet are *)
(* verified, and then, in a transaction of its own, the one initial        *)
(* binding of the claim and its voucher is consumed.                       *)
(*                                                                         *)
(* A binding is known by its payload, whose hash it carries.  The contexts *)
(* of the calls name the one channel of the model.                         *)
(***************************************************************************)
EXTENDS Integers

CONSTANTS
  Claims,    \* the claim references there are
  Bindings,  \* the bindings there are
  Wallets    \* destination wallets

BindableStates == {"created", "delivered", "opened", "identity_verified"}

ClaimStates ==
  BindableStates \cup {"destination_bound", "settlement_ready", "settled", "expired",
                       "revoked", "blocked", "already_claimed"}

ASSUME BindingAssumption ==
  /\ \A k \in Claims :
       /\ k.voucher \in Nat /\ k.created \in Nat /\ k.expires \in Nat
       /\ k.state \in ClaimStates
  /\ \A b \in Bindings :
       /\ b.voucher \in Nat /\ b.wallet \in Wallets /\ b.nonce \in Nat \ {0}
       /\ b.issued \in Nat /\ b.expires \in Nat
       /\ b.here \in BOOLEAN /\ b.signed \in BOOLEAN

VARIABLES
  checked,  \* bindings that calls in flight have verified, and when
  journal   \* table recipient_bindings

bindingVars == <<checked, journal>>

BindingInit == checked = {} /\ journal = {}

BindingRecords == [binding : Bindings, at : Nat]

BindingTypeOK == checked \subseteq BindingRecords /\ journal \subseteq BindingRecords

-----------------------------------------------------------------------------
\* validate_channel_claim, against the claim id and the voucher of a context.
ClaimValid(k, id, voucher, t) ==
  /\ k.created < k.expires
  /\ k.created <= t /\ t < k.expires
  /\ k.state \in BindableStates
  /\ k.id = id /\ k.voucher = voucher

\* canonical_recipient_binding_payload.
PayloadValid(b, k, t) ==
  /\ b.issued < b.expires
  /\ b.issued <= t /\ t < b.expires
  /\ k.created <= b.issued /\ b.expires <= k.expires

\* verify_recipient_binding: the payload names the context, and both
\* principals signed it.
BindingValid(k, b, t) ==
  /\ ClaimValid(k, b.claim, b.voucher, t)
  /\ PayloadValid(b, k, t)
  /\ b.here
  /\ b.signed

\* recipient_binding_domain_hash, without what is constant.
Domain(r) == <<r.binding.claim, r.binding.voucher>>

\* verify_and_record, before its transaction.
VerifyBinding(k, b, t) ==
  /\ BindingValid(k, b, t)
  /\ checked' = checked \cup {[binding |-> b, at |-> t]}
  /\ UNCHANGED journal

\* Mutant: a binding is consumed by its hash alone.
MutUnconsumed(r) == \A e \in journal : e.binding # r.binding

\* Neither the primary key nor the unique binding hash is taken.
Unconsumed(r) == \A e \in journal : Domain(e) # Domain(r) /\ e.binding # r.binding

\* verify_and_record, its transaction: insert, or refuse.
RecordBinding(r) ==
  /\ r \in checked
  /\ checked' = checked \ {r}
  /\ journal' = IF Unconsumed(r) THEN journal \cup {r} ELSE journal

=============================================================================
